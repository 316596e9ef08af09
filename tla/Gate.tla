-------------------------------- MODULE Gate --------------------------------
(***************************************************************************)
(* The dispatch gate of the MCP server (src/internal/mcpserver/gate.go)    *)
(* and its one production caller on the delivery side, the capipush        *)
(* goroutine that registers a dispatch, injects it into a terminal and     *)
(* cancels it when the injection fails.                                    *)
(*                                                                         *)
(* A dispatch is a heap object reachable from two maps guarded by one      *)
(* mutex: byNonce (the nonce signed at the end of the payload) and         *)
(* byTerminal (the terminal the dispatch was pushed to, and, as a second   *)
(* key, the antenna of the agent behind it).  Every method of Gate is one  *)
(* critical section, hence one action.  Methods that only read, and calls  *)
(* that are refused, change nothing and are stuttering steps.              *)
(***************************************************************************)
EXTENDS Naturals, FiniteSets

CONSTANTS
    Dispatches,      \* addresses a dispatch object can have
    Nonces,          \* the four hex digits of newNonce
    Terminals,       \* identities a client can present: agent ids, antennas
    Principal,       \* the id of the principal agent, one of Terminals
    Agents,          \* the ids that may have an antenna: rows of agents, Principal
    Levels,          \* trust levels in use
    Jobs,            \* what a dispatch is about: chat, speaker, end of burst
    SendBound,       \* bound: the model stops counting sends here
    NonceReuse,      \* TRUE: newNonce may draw a nonce a bound dispatch still carries
    CheckInFlight,   \* TRUE: capipush skips a terminal that is in flight
    NoDispatch, NoTerminal, NoNonce, NoJob

LevelNames == {"boss", "approver", "caution", "danger"}

ASSUME GateAssumption ==
    /\ Principal \in Terminals
    /\ Agents \subseteq Terminals
    /\ Levels \subseteq LevelNames
    /\ SendBound \in Nat
    /\ NonceReuse \in BOOLEAN
    /\ CheckInFlight \in BOOLEAN
    /\ NoDispatch \notin Dispatches
    /\ NoTerminal \notin Terminals
    /\ NoNonce \notin Nonces
    /\ NoJob \notin Jobs

VARIABLES
    disp,        \* the dispatch objects
    byNonce,     \* Gate.byNonce
    byTerminal,  \* Gate.byTerminal
    retired,     \* Gate.retiredReason
    antenna,     \* antenna_terminal_id of every agent (store)
    injecting    \* the dispatch capipush is injecting, with the keys it holds

gateVars == <<disp, byNonce, byTerminal, retired>>
vars == <<disp, byNonce, byTerminal, retired, antenna, injecting>>

States == {"locked", "noting", "ready", "done"}
Reasons == {"none", "consumed", "replaced", "cancelled", "expired"}

Dispatch ==
    [nonce      : Nonces \cup {NoNonce},
     job        : Jobs \cup {NoJob},
     level      : LevelNames,
     terminalID : Terminals \cup {NoTerminal},
     alias      : Terminals \cup {NoTerminal},
     state      : States,
     token      : Dispatches \cup {NoDispatch},  \* whose token; NoDispatch is ""
     idle       : BOOLEAN,                       \* now - lastActivity > staleAfter
     sends      : 0..SendBound]

Blank ==
    [nonce |-> NoNonce, job |-> NoJob, level |-> "boss",
     terminalID |-> NoTerminal, alias |-> NoTerminal, state |-> "done",
     token |-> NoDispatch, idle |-> FALSE, sends |-> 0]

NotInjecting == [nonce |-> NoNonce, terminalID |-> NoTerminal]

TypeOK ==
    /\ disp \in [Dispatches -> Dispatch]
    /\ byNonce \in [Nonces -> Dispatches \cup {NoDispatch}]
    /\ byTerminal \in [Terminals -> Dispatches \cup {NoDispatch}]
    /\ retired \in [Nonces -> Reasons]
    /\ antenna \in [Agents -> Terminals \cup {NoTerminal}]
    /\ injecting \in [nonce : Nonces \cup {NoNonce},
                      terminalID : Terminals \cup {NoTerminal}]

-----------------------------------------------------------------------------
(* Reading the two indices                                                 *)

Open == {d \in Dispatches : \E n \in Nonces : byNonce[n] = d}
Bound == {d \in Dispatches : \E t \in Terminals : byTerminal[t] = d}

\* The keys of byTerminal a dispatch owns.
Keys(d) == {disp[d].terminalID, disp[d].alias} \ {NoTerminal}

InFlight(t) == /\ byTerminal[t] # NoDispatch
               /\ disp[byTerminal[t]].state # "done"

NonceActive(n) == byNonce[n] # NoDispatch

\* Mutant of Stale: only dispatches never pulled, as before the H5 hardening.
StaleNeverPulled == {d \in Open : disp[d].idle /\ disp[d].token = NoDispatch}

\* Idle for longer than staleAfter: what sweepLocked reclaims.
Stale == {d \in Open : disp[d].idle}

\* AgentsByAntenna: secondary agents only, the principal has no row.
AgentsByAntenna(x) == {a \in Agents \ {Principal} : antenna[a] = x}

(* The antenna under which a dispatch for terminal t is also indexed:      *)
(* none when it is not set, equals t, or belongs to more than one agent.   *)
AliasFor(t) ==
    IF /\ t \in Agents
       /\ antenna[t] \notin {NoTerminal, t}
       /\ AgentsByAntenna(antenna[t]) = {t} \ {Principal}
    THEN antenna[t] ELSE NoTerminal

-----------------------------------------------------------------------------
(* The two indices after evictLocked has removed every dispatch of gone    *)

ByNonceWithout(gone) ==
    [n \in Nonces |-> IF \E d \in gone : disp[d].nonce = n THEN NoDispatch
                                                          ELSE byNonce[n]]

\* Mutant of ByTerminalWithout: the antenna key is left behind.
ByTerminalWithoutOwnKey(gone) ==
    [t \in Terminals |->
        IF byTerminal[t] \in gone /\ t = disp[byTerminal[t]].terminalID
        THEN NoDispatch ELSE byTerminal[t]]

ByTerminalWithout(gone) ==
    [t \in Terminals |-> IF byTerminal[t] \in gone /\ t \in Keys(byTerminal[t])
                         THEN NoDispatch ELSE byTerminal[t]]

RetiredAs(gone, reason) ==
    [n \in Nonces |-> IF \E d \in gone : disp[d].nonce = n THEN reason
                                                          ELSE retired[n]]

-----------------------------------------------------------------------------
Init ==
    /\ disp = [d \in Dispatches |-> Blank]
    /\ byNonce = [n \in Nonces |-> NoDispatch]
    /\ byTerminal = [t \in Terminals |-> NoDispatch]
    /\ retired = [n \in Nonces |-> "none"]
    /\ antenna \in [Agents -> Terminals \cup {NoTerminal}]
    /\ injecting = NotInjecting

(* newNonce only avoids the nonces that are in byNonce.  Four random hex   *)
(* digits seldom repeat one that an older dispatch still carries; unless   *)
(* NonceReuse holds that event is left out.                                *)
FreshNonce(n) ==
    /\ ~NonceActive(n)
    /\ \/ NonceReuse
       \/ \A d \in Bound : disp[d].nonce # n

\* A nonce registered again starts without the reason it once left for.
ForgetReason(rt, n) == [rt EXCEPT ![n] = "none"]

(* RegisterDispatch, as capipush calls it: sweep, then replace whatever    *)
(* the terminal was bound to, then index the new dispatch by its nonce,    *)
(* its terminal and, when it is unambiguous, its antenna.                  *)
RegisterDispatch(d, n, t, level, job) ==
    LET bn    == ByNonceWithout(Stale)
        bt    == ByTerminalWithout(Stale)
        rt    == RetiredAs(Stale, "expired")
        prev  == bt[t]
        prevN == IF prev = NoDispatch THEN NoNonce ELSE disp[prev].nonce
        \* prev is force-replaced: dropped by nonce and by its alias
        prevA == IF prevN \in {NoNonce, n} THEN NoTerminal ELSE disp[prev].alias
        x     == AliasFor(t)
    IN  /\ disp' = [disp EXCEPT ![d] =
                      [nonce |-> n, job |-> job, level |-> level,
                       terminalID |-> t, alias |-> x,
                       state |-> IF level = "boss" THEN "ready" ELSE "locked",
                       token |-> NoDispatch, idle |-> FALSE, sends |-> 0]]
        /\ byNonce' = [m \in Nonces |-> IF m = n THEN d
                                        ELSE IF m = prevN THEN NoDispatch
                                        ELSE bn[m]]
        /\ byTerminal' = [k \in Terminals |->
                            IF k \in {t, x} THEN d
                            ELSE IF k = prevA /\ bt[k] = prev THEN NoDispatch
                            ELSE bt[k]]
        /\ retired' = ForgetReason(
                         [m \in Nonces |-> IF m = prevN THEN "replaced"
                                                         ELSE rt[m]], n)

(* capipush.dispatch: skip a terminal that is in flight, draw a nonce,     *)
(* register, and start injecting.  One goroutine dispatches, so nothing    *)
(* else is being injected.                                                 *)
Register(d, n, t, level, job) ==
    /\ injecting = NotInjecting
    /\ CheckInFlight => ~InFlight(t)
    /\ FreshNonce(n)
    /\ d \notin Open \cup Bound
    /\ RegisterDispatch(d, n, t, level, job)
    /\ injecting' = [nonce |-> n, terminalID |-> t]
    /\ UNCHANGED antenna

\* The injector delivered the payload.
InjectOk ==
    /\ injecting # NotInjecting
    /\ injecting' = NotInjecting
    /\ UNCHANGED <<gateVars, antenna>>

\* Mutant of CancelDispatch: the terminal keeps pointing at the dispatch.
CancelByNonceOnly(n, t) ==
    LET d == byNonce[n]
    IN  IF d = NoDispatch \/ disp[d].terminalID # t
        THEN UNCHANGED gateVars
        ELSE /\ retired' = RetiredAs({d}, "cancelled")
             /\ byNonce' = ByNonceWithout({d})
             /\ UNCHANGED <<disp, byTerminal>>

(* CancelDispatch after a failed injection: it removes the dispatch only   *)
(* while nonce and terminal still name it.                                 *)
CancelDispatch(n, t) ==
    LET d == byNonce[n]
    IN  IF d = NoDispatch \/ disp[d].terminalID # t
        THEN UNCHANGED gateVars
        ELSE /\ retired' = RetiredAs({d}, "cancelled")
             /\ byNonce' = ByNonceWithout({d})
             /\ byTerminal' = ByTerminalWithout({d})
             /\ UNCHANGED disp

InjectFail ==
    /\ injecting # NotInjecting
    /\ CancelDispatch(injecting.nonce, injecting.terminalID)
    /\ injecting' = NotInjecting
    /\ UNCHANGED antenna

\* Time passes: staleAfter elapses with no activity on an unfinished dispatch.
Age(d) ==
    /\ d \in Open \cup Bound
    /\ disp[d].state # "done"
    /\ ~disp[d].idle
    /\ disp' = [disp EXCEPT ![d].idle = TRUE]
    /\ UNCHANGED <<byNonce, byTerminal, retired, antenna, injecting>>

\* The five-minute ticker; a tick that finds nothing stale changes nothing.
Sweep ==
    /\ Stale # {}
    /\ byNonce' = ByNonceWithout(Stale)
    /\ byTerminal' = ByTerminalWithout(Stale)
    /\ retired' = RetiredAs(Stale, "expired")
    /\ UNCHANGED <<disp, antenna, injecting>>

\* get_instructions: by nonce, and only from a terminal the dispatch is for.
GetInstructions(t, n) ==
    LET d == byNonce[n]
    IN  /\ d # NoDispatch
        /\ t \in {disp[d].terminalID, disp[d].alias}
        /\ disp' = [disp EXCEPT ![d].token = d, ![d].idle = FALSE]
        /\ UNCHANGED <<byNonce, byTerminal, retired, antenna, injecting>>

\* Mutant of TokenAccepted: no check for the empty token.
TokenMatches(d, tok) == disp[d].token = tok

TokenAccepted(d, tok) == tok # NoDispatch /\ disp[d].token = tok

(* unlock, with the token tok the client presents: "" (NoDispatch) or one  *)
(* issued for some dispatch.  A superseded or invented token matches       *)
(* nothing.                                                                *)
Unlock(t, tok) ==
    LET d == byTerminal[t]
    IN  /\ d # NoDispatch
        /\ disp[d].state = "locked"
        /\ TokenAccepted(d, tok)
        /\ disp' = [disp EXCEPT ![d].state = "noting", ![d].idle = FALSE]
        /\ UNCHANGED <<byNonce, byTerminal, retired, antenna, injecting>>

\* remember and skip: the noting -> ready checkpoint.
AdvanceToReady(t) ==
    LET d == byTerminal[t]
    IN  /\ d # NoDispatch
        /\ disp[d].state = "noting"
        /\ disp' = [disp EXCEPT ![d].state = "ready", ![d].idle = FALSE]
        /\ UNCHANGED <<byNonce, byTerminal, retired, antenna, injecting>>

\* Mutant of ConsumeEffect: whatever is bound to the terminal is closed (T147).
ConsumeWhateverIsBound(t, n) ==
    LET d == byTerminal[t]
    IN  IF d = NoDispatch THEN UNCHANGED gateVars
        ELSE /\ retired' = [retired EXCEPT ![disp[d].nonce] = "consumed"]
             /\ byNonce' = [byNonce EXCEPT ![disp[d].nonce] = NoDispatch]
             /\ disp' = [disp EXCEPT ![d].state = "done"]
             /\ UNCHANGED byTerminal

(* Consume, by identity: it retires the dispatch bound to the terminal     *)
(* only if that is still the one whose nonce the handler read.             *)
ConsumeEffect(t, n) ==
    LET d == byTerminal[t]
    IN  IF d = NoDispatch \/ disp[d].nonce # n
        THEN UNCHANGED gateVars
        ELSE /\ retired' = [retired EXCEPT ![n] = "consumed"]
             /\ byNonce' = [byNonce EXCEPT ![n] = NoDispatch]
             /\ disp' = [disp EXCEPT ![d].state = "done"]
             /\ UNCHANGED byTerminal

\* RecordSend, under the same identity guard.
RecordSendEffect(t, n) ==
    LET d == byTerminal[t]
    IN  IF d = NoDispatch \/ disp[d].nonce # n
        THEN UNCHANGED gateVars
        ELSE /\ disp' = [disp EXCEPT ![d].idle = FALSE,
                           ![d].sends = IF @ < SendBound THEN @ + 1 ELSE @]
             /\ UNCHANGED <<byNonce, byTerminal, retired>>

Consume(t, n) == ConsumeEffect(t, n) /\ UNCHANGED <<antenna, injecting>>
RecordSend(t, n) == RecordSendEffect(t, n) /\ UNCHANGED <<antenna, injecting>>

(* An agent is edited, renamed, deleted or promoted: its antenna changes.  *)
SetAntenna(a, x) ==
    /\ antenna' = [antenna EXCEPT ![a] = x]
    /\ UNCHANGED <<gateVars, injecting>>

\* The process restarts.  The gate keeps nothing across it; the store does.
Restart ==
    /\ disp' = [d \in Dispatches |-> Blank]
    /\ byNonce' = [n \in Nonces |-> NoDispatch]
    /\ byTerminal' = [t \in Terminals |-> NoDispatch]
    /\ retired' = [n \in Nonces |-> "none"]
    /\ injecting' = NotInjecting
    /\ UNCHANGED antenna

Next ==
    \/ \E d \in Dispatches, n \in Nonces, t \in Terminals,
          level \in Levels, job \in Jobs : Register(d, n, t, level, job)
    \/ InjectOk
    \/ InjectFail
    \/ \E d \in Dispatches : Age(d)
    \/ Sweep
    \/ \E t \in Terminals, n \in Nonces : GetInstructions(t, n)
    \/ \E t \in Terminals, tok \in Dispatches \cup {NoDispatch} : Unlock(t, tok)
    \/ \E t \in Terminals : AdvanceToReady(t)
    \/ \E t \in Terminals, n \in Nonces : Consume(t, n)
    \/ \E t \in Terminals, n \in Nonces : RecordSend(t, n)
    \/ \E a \in Agents, x \in Terminals \cup {NoTerminal} : SetAntenna(a, x)
    \/ Restart

Spec == Init /\ [][Next]_vars

\* The five-minute ticker of Sweep keeps firing; nobody else is assumed fair.
FairSpec == Spec /\ WF_vars(Sweep)

-----------------------------------------------------------------------------
(* What the gate promises                                                  *)

OpenIndexed ==
    \A n \in Nonces : byNonce[n] # NoDispatch =>
        /\ disp[byNonce[n]].nonce = n
        /\ disp[byNonce[n]].state # "done"

(* A dispatch found by nonce carries that nonce and is not consumed, which *)
(* sweepLocked relies on; a dispatch found under a terminal is indexed     *)
(* there because that is its terminal or its antenna.                      *)
IndexCoherent ==
    /\ OpenIndexed
    /\ \A t \in Terminals : byTerminal[t] # NoDispatch =>
          t \in Keys(byTerminal[t])

(* A terminal in flight is held by a dispatch the stale sweep can see.     *)
(* The sweep walks byNonce only, while InFlight reads byTerminal: a        *)
(* dispatch lost from the first but not from the second would block every  *)
(* chat routed to that terminal until the process restarts.                *)
InFlightIsSweepable ==
    \A t \in Terminals : InFlight(t) =>
        byNonce[disp[byTerminal[t]].nonce] = byTerminal[t]

BoundIndexed ==
    \A t \in Terminals : byTerminal[t] # NoDispatch =>
        /\ t \in Keys(byTerminal[t])
        /\ disp[byTerminal[t]].nonce \in Nonces
        /\ byNonce[disp[byTerminal[t]].nonce] =
              IF disp[byTerminal[t]].state = "done" THEN NoDispatch
                                                    ELSE byTerminal[t]

InjectingBound ==
    injecting # NotInjecting =>
        /\ injecting.nonce \in Nonces
        /\ injecting.terminalID \in Terminals
        /\ byTerminal[injecting.terminalID] # NoDispatch =>
              /\ disp[byTerminal[injecting.terminalID]].terminalID = injecting.terminalID
              /\ disp[byTerminal[injecting.terminalID]].nonce = injecting.nonce

(* How the two indices and the injection under way fit together.  A bound  *)
(* dispatch is indexed by its nonce exactly until it is done, under no     *)
(* other dispatch's name; the terminal being injected is bound to nothing  *)
(* but the dispatch being injected.  The two invariants above follow.      *)
IndexInv == OpenIndexed /\ BoundIndexed /\ InjectingBound

(* Nobody but the boss gets past the lock without having pulled the rules: *)
(* noting and ready imply that get_instructions issued this dispatch's own *)
(* token, whatever tokens and terminals the clients mixed.                 *)
RitualOrder ==
    \A d \in Dispatches :
        disp[d].state \in {"noting", "ready"} /\ disp[d].level # "boss" =>
            disp[d].token = d

(* A reason on record speaks of a nonce that is really gone: the second    *)
(* life of a nonce never starts with the reason its first life ended for.  *)
RetiredIsGone ==
    \A n \in Nonces : retired[n] # "none" => byNonce[n] = NoDispatch

Rank == [st \in States |-> CASE st = "locked" -> 0 [] st = "noting" -> 1
                             [] st = "ready" -> 2 [] st = "done" -> 3]

(* No call takes a dispatch back: in particular no unlock, remember or     *)
(* skip revives one that was consumed, under either of its keys.           *)
StateNeverRegresses ==
    [][\A d \in Open \cup Bound :
         Rank[disp'[d].state] >= Rank[disp[d].state]]_vars

(* When an injection fails the terminal is free at once, although agents,  *)
(* the sweep and configuration changes ran while it was being injected.    *)
FreedOnFailure ==
    [][\A t \in Terminals :
         InjectFail /\ injecting.terminalID = t => ~InFlight(t)']_vars

Stuck(t) == InFlight(t) /\ disp[byTerminal[t]].idle

(* A terminal never stays held by a dispatch nobody works on: it is freed, *)
(* or the agent shows activity again.                                      *)
NeverStuckForever == \A t \in Terminals : []<>~Stuck(t)

=============================================================================
