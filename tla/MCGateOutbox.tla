---------------------------- MODULE MCGateOutbox ----------------------------
(* Small instances of Gate and Outbox for TLC, the two ends of a turn: two *)
(* dispatches, two terminals and an agent, and two replies in the queue,   *)
(* the second to an address that cannot be read.  They share no state, so  *)
(* a behaviour is one of either.                                           *)
EXTENDS Gate

CONSTANTS
    d1, d2, n1, n2, p, s, j,
    NumItems, BadItems, MediaItems, TextLen, Sizes, MaxRetry, DailyMax, Burst,
    LostAcks, Trips, MaxRestarts, MaxDay, MaxKillCalls

VARIABLES
    part,
    row, chunkMaxLen, drain, gov, muted, killSetting, killCall, connected,
    stopping, day, rowsToday, hist

outboxVars == <<row, chunkMaxLen, drain, gov, muted, killSetting, killCall,
                connected, stopping, day, rowsToday, hist>>
all == <<part, vars, outboxVars>>

Drain == INSTANCE Outbox

MCTwoDispatches == {d1, d2}
MCTwoNonces == {n1, n2}
MCTwoTerminals == {p, s}
MCOneAgent == {s}
MCCaution == {"caution"}
MCJobs == {j}
MCSecond == {2}
MCNone == {}
MCTwoWords == {2}

MCInit ==
    /\ part \in {"gate", "outbox"}
    /\ Init /\ Drain!Init
    /\ part = "outbox" => antenna = [a \in Agents |-> NoTerminal]

InGate(A) == part = "gate" /\ A /\ UNCHANGED <<part, outboxVars>>
InOutbox(A) == part = "outbox" /\ A /\ UNCHANGED <<part, vars>>

MCNext == InGate(Next) \/ InOutbox(Drain!Next)

(* The fairness of both, each in its own behaviours.                       *)
MCSpec ==
    /\ MCInit /\ [][MCNext]_all
    /\ WF_all(InGate(Sweep) \/ InOutbox(Drain!DrainStep))
    /\ SF_all(InOutbox(Drain!Tick))
    /\ WF_all(InOutbox(Drain!Refill))
    /\ WF_all(InOutbox(Drain!Connect))
    /\ WF_all(InOutbox(Drain!ApplyKill))
    /\ WF_all(InOutbox(stopping /\ drain.pc = "idle" /\ Drain!Restart))
    /\ \A i \in Drain!Items : WF_all(InOutbox(Drain!BackoffOver(i)))

(* Every reply is sent or dead-lettered, see Outbox.                       *)
Settled == Drain!Settled
=============================================================================
