--------------------------------- MODULE Link ---------------------------------
(***************************************************************************)
(* The connection to WhatsApp (src/internal/whatsmeow): the events the     *)
(* library raises and what handleEvent does with each (inbound.go), the    *)
(* retries of reconnect.go, pairing and logout (adapter.go); the display   *)
(* it drives (src/internal/state) and the kill switch it trips.            *)
(*                                                                         *)
(* The library hands the events over one at a time, in order.  A handler   *)
(* is a list of steps, one critical section or call each; the goroutines   *)
(* of the retries, the timer that resets their count, the reactions of the *)
(* face, the dashboard and the agents run between any two of them.         *)
(* Outside this repository, and so only what its code says of it: a call   *)
(* to Connect fails on a client whose socket is open, Disconnect raises no *)
(* event, and a socket that fails raises one.                              *)
(***************************************************************************)
EXTENDS Integers, Sequences, FiniteSets

CONSTANTS
    Callers,      \* of set_kill_switch: the dashboard, agents
    MaxFailures,  \* failures at which the delay is at its ceiling
    MaxFaults, MaxCalls, MaxReacts  \* bounds

ASSUME LinkAssumption ==
    /\ MaxFailures \in Nat \ {0}
    /\ MaxFaults \in Nat /\ MaxCalls \in Nat /\ MaxReacts \in Nat

VARIABLES
    sock,     \* down, open (not logged in yet), up, or zombie: dead and not noticed
    paired,   \* Store.ID is set
    events,   \* raised and not handled yet
    todo,     \* the steps the handler of one still has to take
    chain,    \* [waiting, failed]: goroutines in reconnectAfter, by where they are
    backoff,  \* [failures, armed, closure]: the count and the timer that resets it
    round,    \* a QR round: none, begin, codes or over
    face,     \* [mood, conn, revert]: status.json and the goroutines of React
    brake,    \* [muted, killed, call]: the kill switch and who is setting it
    hist      \* history, see History

vars == <<sock, paired, events, todo, chain, backoff, round, face, brake, hist>>

Events == {"connected", "loggedOut", "replaced", "outdated", "disconnected",
           "keepalive", "zombie", "restored"}
Steps == {"clear", "arm", "show", "mute", "kill", "close", "schedule"}

(* closure: the timer's function fired and waits for the lock, with the    *)
(* generation of now or of before.                                         *)
Backoff == [failures : 0..MaxFailures, armed : BOOLEAN, closure : {"none", "current", "stale"}]

(* revert: generations of the reactions still sleeping.                    *)
Face == [mood : {"rest", "react", "qr", "bad", "muted"}, conn : BOOLEAN,
         revert : SUBSET {"current", "stale"}]

NoBrake == [pc |-> "idle", kill |-> FALSE]
Brake == [muted : BOOLEAN, killed : BOOLEAN,
          call : [Callers -> [pc : {"idle", "governor", "state"}, kill : BOOLEAN]]]

(* terminal: WhatsApp ended the session in a way nobody may retry.         *)
(* dropped: a retry was scheduled since the last handshake.  crossed: the  *)
(* socket was closed from here with events of it not handled yet, or after *)
(* it came back.  overlap: two calls set the kill switch at once.          *)
History == [terminal : BOOLEAN, dropped : BOOLEAN, crossed : BOOLEAN, overlap : BOOLEAN,
            faults : 0..MaxFaults, calls : 0..MaxCalls, reacts : 0..MaxReacts]

Raise(e) == events' = Append(events, e)
Handling == todo # <<>>
Setting == {c \in Callers : brake.call[c].pc # "idle"}
System(mood) == mood \in {"bad", "muted", "qr"}  \* moodTier 3

-----------------------------------------------------------------------------
(* The handlers                                                            *)

(* Mutant of Script: a dead socket is closed and nobody retries.           *)
ScriptZombieWaiting(e) ==
    CASE e = "loggedOut"    -> <<"mute", "kill">>
      [] e = "connected"    -> <<"clear", "arm">>
      [] e = "restored"     -> <<"clear">>
      [] e = "disconnected" -> <<"show", "schedule">>
      [] e = "zombie"       -> <<"show", "close">>
      [] OTHER              -> <<"show">>

(* handleEvent; replaced, outdated (and the refusals the library does not  *)
(* tell apart) and a keepalive that failed once are only shown.            *)
Script(e) ==
    CASE e = "loggedOut"    -> <<"mute", "kill">>
      [] e = "connected"    -> <<"clear", "arm">>
      [] e = "restored"     -> <<"clear">>
      [] e = "disconnected" -> <<"show", "schedule">>
      [] e = "zombie"       -> <<"show", "close", "schedule">>
      [] OTHER              -> <<"show">>

Handle ==
    /\ ~Handling /\ events # <<>>
    /\ todo' = Script(Head(events))
    /\ events' = Tail(events)
    /\ UNCHANGED <<sock, paired, chain, backoff, round, face, brake, hist>>

Step(s) == Handling /\ Head(todo) = s /\ todo' = Tail(todo)

(* UpdateMood and React: reactions under way may not revert any more.      *)
Superseded == IF face.revert = {} THEN {} ELSE {"stale"}

(* Mutant of Cleared: connected again, send again.                         *)
ClearedAndUnmuted == [brake EXCEPT !.muted = FALSE]
Cleared == brake

(* clearErrorState *)
Clear ==
    /\ Step("clear")
    /\ face' = [mood |-> IF face.mood \in {"bad", "qr"} THEN "rest" ELSE face.mood,
                conn |-> TRUE, revert |-> Superseded]
    /\ brake' = Cleared
    /\ UNCHANGED <<sock, paired, events, chain, backoff, round, hist>>

(* armReconnectStableTimer *)
Arm ==
    /\ Step("arm")
    /\ backoff' = [backoff EXCEPT !.armed = TRUE,
                                  !.closure = IF @ = "current" THEN "stale" ELSE @]
    /\ hist' = [hist EXCEPT !.dropped = FALSE]
    /\ UNCHANGED <<sock, paired, events, chain, round, face, brake>>

Degraded == [mood |-> "bad", conn |-> FALSE, revert |-> Superseded]

(* handleDisconnect, without and with kill.                                *)
Show ==
    /\ Step("show")
    /\ face' = Degraded
    /\ UNCHANGED <<sock, paired, events, chain, backoff, round, brake, hist>>

Mute ==
    /\ Step("mute")
    /\ face' = Degraded
    /\ brake' = [brake EXCEPT !.muted = TRUE]
    /\ hist' = [hist EXCEPT !.overlap = @ \/ Setting # {}]
    /\ UNCHANGED <<sock, paired, events, chain, backoff, round>>

Kill ==
    /\ Step("kill")
    /\ brake' = [brake EXCEPT !.killed = TRUE]
    /\ UNCHANGED <<sock, paired, events, chain, backoff, round, face, hist>>

(* handleKeepAliveTimeout closes the socket itself.                        *)
Close ==
    /\ Step("close")
    /\ sock' = "down"
    /\ hist' = [hist EXCEPT !.crossed = @ \/ sock # "zombie" \/ events # <<>>]
    /\ UNCHANGED <<paired, events, chain, backoff, round, face, brake>>

(* jitteredBackoff, up to its ceiling.                                     *)
Longer(failures) == IF failures = MaxFailures THEN failures ELSE failures + 1

(* scheduleReconnect *)
Scheduled ==
    /\ backoff' = [failures |-> Longer(backoff.failures),
                   armed |-> FALSE,
                   closure |-> IF backoff.closure = "none" THEN "none" ELSE "stale"]
    /\ hist' = [hist EXCEPT !.dropped = TRUE]

Schedule ==
    /\ Step("schedule")
    /\ Scheduled
    /\ chain' = [chain EXCEPT !.waiting = @ + 1]
    /\ UNCHANGED <<sock, paired, events, round, face, brake>>

-----------------------------------------------------------------------------
(* Retries                                                                 *)

ConnectOK == sock = "down"

(* Mutant of Left: one attempt a drop.                                     *)
LeftNone(ok) == 0
Left(ok) == IF ok THEN 0 ELSE 1

(* reconnectAfter once its delay is over, whether the attempt succeeds.    *)
Attempt(ok) ==
    /\ chain.waiting > 0
    /\ ok => ConnectOK
    /\ sock' = IF ok THEN "open" ELSE sock
    /\ chain' = [waiting |-> chain.waiting - 1, failed |-> chain.failed + Left(ok)]
    /\ hist' = [hist EXCEPT !.terminal = @ /\ ~ok]
    /\ UNCHANGED <<paired, events, todo, backoff, round, face, brake>>

Retry ==
    /\ chain.failed > 0
    /\ Scheduled
    /\ chain' = [waiting |-> chain.waiting + 1, failed |-> chain.failed - 1]
    /\ UNCHANGED <<sock, paired, events, todo, round, face, brake>>

(* The timer fires; its function runs once it has the lock.                *)
Fire ==
    /\ backoff.armed
    /\ backoff' = [backoff EXCEPT !.armed = FALSE, !.closure = "current"]
    /\ UNCHANGED <<sock, paired, events, todo, chain, round, face, brake, hist>>

(* Mutant of MayReset: whatever generation.                                *)
MayResetAlways == TRUE
MayReset == backoff.closure = "current"

Stable ==
    /\ backoff.closure # "none"
    /\ backoff' = [backoff EXCEPT !.closure = "none",
                                  !.failures = IF MayReset THEN 0 ELSE @]
    /\ UNCHANGED <<sock, paired, events, todo, chain, round, face, brake, hist>>

-----------------------------------------------------------------------------
(* Pairing and logout                                                      *)

(* Reconnect; it returns at once when a round is under way.                *)
PairAgain ==
    /\ ~paired /\ round = "none"
    /\ hist.calls < MaxCalls
    /\ round' = "begin"
    /\ hist' = [hist EXCEPT !.calls = @ + 1]
    /\ UNCHANGED <<sock, paired, events, todo, chain, backoff, face, brake>>

(* pairLoop: nothing to do, a Connect that fails, or codes.                *)
PairBegin ==
    /\ round = "begin"
    /\ \/ round' = "none" /\ UNCHANGED sock
       \/ ~paired /\ ConnectOK /\ round' = "codes" /\ sock' = "open"
    /\ UNCHANGED <<paired, events, todo, chain, backoff, face, brake, hist>>

(* main's reader of qrOut shows a code: Update, not UpdateMood.            *)
ShowCode ==
    /\ round = "codes"
    /\ face' = [face EXCEPT !.mood = "qr"]
    /\ UNCHANGED <<sock, paired, events, todo, chain, backoff, round, brake, hist>>

(* The owner scans it, and the library logs in.                            *)
Scanned ==
    /\ round = "codes" /\ sock = "open"
    /\ paired' = TRUE
    /\ round' = "none"
    /\ hist' = [hist EXCEPT !.terminal = FALSE]
    /\ UNCHANGED <<sock, events, todo, chain, backoff, face, brake>>

(* The codes run out: the channel closes, then pairLoop disconnects.       *)
RoundOver ==
    /\ \/ round = "codes" /\ round' = "over" /\ UNCHANGED sock
       \/ round = "over" /\ round' = "none" /\ sock' = "down"
    /\ UNCHANGED <<paired, events, todo, chain, backoff, face, brake, hist>>

(* Logout: the library unlinks the device, closes the socket and raises    *)
(* no event; then the display is told.                                     *)
Logout ==
    /\ paired /\ sock = "up" /\ hist.calls < MaxCalls
    /\ sock' = "down" /\ paired' = FALSE
    /\ hist' = [hist EXCEPT !.calls = @ + 1, !.crossed = @ \/ events # <<>> \/ Handling]
    /\ round' = "logout"
    /\ UNCHANGED <<events, todo, chain, backoff, face, brake>>

ShowLogout ==
    /\ round = "logout"
    /\ round' = "none"
    /\ face' = [face EXCEPT !.conn = FALSE]
    /\ UNCHANGED <<sock, paired, events, todo, chain, backoff, brake, hist>>

-----------------------------------------------------------------------------
(* WhatsApp and the network                                                *)

Login ==
    /\ sock = "open" /\ paired
    /\ sock' = "up"
    /\ Raise("connected")
    /\ UNCHANGED <<paired, todo, chain, backoff, round, face, brake, hist>>

Fault == hist.faults < MaxFaults

(* The socket fails; the library notices.                                  *)
Drop ==
    /\ Fault /\ sock \in {"open", "up", "zombie"} /\ paired
    /\ sock' = "down"
    /\ Raise("disconnected")
    /\ hist' = [hist EXCEPT !.faults = @ + 1]
    /\ UNCHANGED <<paired, todo, chain, backoff, round, face, brake>>

(* WhatsApp ends the session: the device was unlinked, the account banned, *)
(* another session took over, or this client is not welcome.               *)
End(e) ==
    /\ Fault /\ paired
    /\ \/ e = "loggedOut" /\ sock \in {"open", "up"} /\ paired' \in BOOLEAN
       \/ e = "replaced" /\ sock = "up" /\ UNCHANGED paired
       \/ e = "outdated" /\ sock = "open" /\ UNCHANGED paired
    /\ sock' = "down"
    /\ Raise(e)
    /\ hist' = [hist EXCEPT !.faults = @ + 1, !.terminal = TRUE]
    /\ UNCHANGED <<todo, chain, backoff, round, face, brake>>

(* The socket dies unnoticed.  Pings fail, first one, then for three       *)
(* minutes; or it comes back.                                              *)
Freeze ==
    /\ Fault /\ sock = "up"
    /\ sock' = "zombie"
    /\ hist' = [hist EXCEPT !.faults = @ + 1]
    /\ UNCHANGED <<paired, events, todo, chain, backoff, round, face, brake>>

Quiet(e) == \A i \in 1..Len(events) : events[i] # e

Ping(e) ==
    /\ sock = "zombie"
    /\ \/ e = "keepalive" /\ Quiet("keepalive") /\ ~Handling /\ face.conn
       \/ e = "zombie" /\ Quiet("zombie") /\ "close" \notin {todo[i] : i \in 1..Len(todo)}
    /\ Raise(e)
    /\ UNCHANGED <<sock, paired, todo, chain, backoff, round, face, brake, hist>>

Thaw ==
    /\ sock = "zombie"
    /\ sock' = "up"
    /\ Raise("restored")
    /\ UNCHANGED <<paired, todo, chain, backoff, round, face, brake, hist>>

-----------------------------------------------------------------------------
(* The face and the kill switch                                            *)

React ==
    /\ ~System(face.mood) /\ hist.reacts < MaxReacts
    /\ face' = [face EXCEPT !.mood = "react", !.revert = Superseded \cup {"current"}]
    /\ hist' = [hist EXCEPT !.reacts = @ + 1]
    /\ UNCHANGED <<sock, paired, events, todo, chain, backoff, round, brake>>

(* Mutant of Reverts: React's goroutine without its generation.            *)
RevertsAlways(g) == TRUE
Reverts(g) == g = "current"

Revert(g) ==
    /\ g \in face.revert
    /\ face' = [face EXCEPT !.revert = @ \ {g},
                            !.mood = IF Reverts(g) THEN "rest" ELSE @]
    /\ UNCHANGED <<sock, paired, events, todo, chain, backoff, round, brake, hist>>

(* The last agent left.                                                    *)
SetResting ==
    /\ ~System(face.mood)
    /\ face' = [face EXCEPT !.mood = "rest", !.revert = Superseded]
    /\ UNCHANGED <<sock, paired, events, todo, chain, backoff, round, brake, hist>>

(* set_kill_switch: the setting (module Outbox), the governor, the state.  *)
SetKillSwitch(c, kill) ==
    /\ brake.call[c].pc = "idle" /\ hist.calls < MaxCalls
    /\ brake' = [brake EXCEPT !.call[c] = [pc |-> "governor", kill |-> kill]]
    /\ hist' = [hist EXCEPT !.calls = @ + 1,
                  !.overlap = @ \/ Setting # {} \/ "kill" \in {todo[i] : i \in 1..Len(todo)}]
    /\ UNCHANGED <<sock, paired, events, todo, chain, backoff, round, face>>

SetGovernor(c) ==
    /\ brake.call[c].pc = "governor"
    /\ brake' = [brake EXCEPT !.killed = brake.call[c].kill, !.call[c].pc = "state"]
    /\ UNCHANGED <<sock, paired, events, todo, chain, backoff, round, face, hist>>

SetMuted(c) ==
    /\ brake.call[c].pc = "state"
    /\ brake' = [brake EXCEPT !.muted = brake.call[c].kill, !.call[c] = NoBrake]
    /\ face' = [face EXCEPT !.mood = IF brake.call[c].kill THEN "muted" ELSE "rest",
                            !.revert = Superseded]
    /\ UNCHANGED <<sock, paired, events, todo, chain, backoff, round, hist>>

-----------------------------------------------------------------------------
(* Start: connectOrScheduleRetry when a device is paired.                  *)
Init ==
    /\ paired \in BOOLEAN
    /\ sock \in IF paired THEN {"down", "open"} ELSE {"down"}
    /\ chain = [waiting |-> IF paired /\ sock = "down" THEN 1 ELSE 0, failed |-> 0]
    /\ backoff = [failures |-> chain.waiting, armed |-> FALSE, closure |-> "none"]
    /\ events = <<>> /\ todo = <<>> /\ round = "none"
    /\ face = [mood |-> "rest", conn |-> FALSE, revert |-> {}]
    /\ brake = [muted |-> FALSE, killed |-> FALSE, call |-> [c \in Callers |-> NoBrake]]
    /\ hist = [terminal |-> FALSE, dropped |-> chain.waiting = 1, crossed |-> FALSE,
               overlap |-> FALSE, faults |-> 0, calls |-> 0, reacts |-> 0]

Handler == Handle \/ Clear \/ Arm \/ Show \/ Mute \/ Kill \/ Close \/ Schedule
Retries == Attempt(TRUE) \/ Attempt(FALSE) \/ Retry \/ Fire \/ Stable
Pairing == PairAgain \/ PairBegin \/ ShowCode \/ Scanned \/ RoundOver \/ Logout \/ ShowLogout
Network ==
    \/ Login \/ Drop \/ Freeze \/ Thaw
    \/ \E e \in Events : End(e) \/ Ping(e)
Display == React \/ SetResting \/ \E g \in {"current", "stale"} : Revert(g)
KillSwitch ==
    \E c \in Callers : SetGovernor(c) \/ SetMuted(c) \/ \E k \in BOOLEAN : SetKillSwitch(c, k)

Next == Handler \/ Retries \/ Pairing \/ Network \/ Display \/ KillSwitch

Spec == Init /\ [][Next]_vars

(* Handlers, delays and timers end; a server that is there answers, pings  *)
(* notice a dead socket, and an attempt to connect succeeds some time if   *)
(* it is made for ever.                                                    *)
FairSpec ==
    /\ Spec
    /\ WF_vars(Handler) /\ WF_vars(Retry) /\ WF_vars(Fire) /\ WF_vars(Stable)
    /\ WF_vars(chain.waiting > 0 /\ (Attempt(TRUE) \/ Attempt(FALSE)))
    /\ SF_vars(Attempt(TRUE)) /\ WF_vars(Login) /\ WF_vars(Ping("zombie"))

-----------------------------------------------------------------------------
(* Properties                                                              *)

LinkTypeOK ==
    /\ sock \in {"down", "open", "up", "zombie"} /\ paired \in BOOLEAN
    /\ events \in Seq(Events) /\ todo \in Seq(Steps)
    /\ chain \in [waiting : Nat, failed : Nat]
    /\ backoff \in Backoff
    /\ round \in {"none", "begin", "codes", "over", "logout"}
    /\ face \in Face /\ brake \in Brake /\ hist \in History

(* "Never gives up": while a paired session is down, and WhatsApp did not  *)
(* end it for good, a retry is under way or about to be scheduled.         *)
NeverGivesUp ==
    paired /\ sock = "down" /\ ~hist.terminal =>
        \/ chain.waiting + chain.failed > 0
        \/ ~Quiet("disconnected")
        \/ \E i \in 1..Len(todo) : todo[i] = "schedule"

(* The count of failures goes back to zero only after a handshake with no  *)
(* retry scheduled since, however the timer, its stop and the next drop    *)
(* fall together: what keeps a link that connects and drops in cycles from *)
(* hammering.                                                              *)
ResetOnlyWhenStable == [][backoff'.failures < backoff.failures => ~hist.dropped]_vars

(* With no event to handle, status.json says connected when the session is *)
(* up and not when it is down, unless a close crossed events of its own.   *)
DisplayHonest ==
    events = <<>> /\ ~Handling /\ round # "logout" /\ ~hist.crossed =>
        /\ sock = "up" => face.conn
        /\ sock = "down" => ~face.conn

(* An error or a mute on display goes only when the session is back or     *)
(* the owner lifts the kill switch: no reaction that was under way reverts *)
(* it.                                                                     *)
ErrorStays ==
    [][face.mood \in {"bad", "muted"} /\ face'.mood \in {"rest", "react"} =>
          Clear \/ \E c \in Callers : SetMuted(c)]_vars

(* Only the owner lifts the kill switch a ban threw; reconnecting, or      *)
(* pairing again, never does.                                              *)
OnlyOwnerLifts ==
    [][/\ brake.killed /\ ~brake'.killed => \E c \in Callers : SetGovernor(c)
       /\ brake.muted /\ ~brake'.muted => \E c \in Callers : SetMuted(c)]_vars

(* Governor and state agree once nobody is setting them, but after two     *)
(* calls at once, or a ban during one.                                     *)
BrakeMovesAsPair ==
    ~hist.overlap /\ Setting = {} /\ "kill" \notin {todo[i] : i \in 1..Len(todo)} =>
        brake.killed = brake.muted

(* Link, retries, display and brake say the same of the connection.        *)
LinkSafe == LinkTypeOK /\ NeverGivesUp /\ DisplayHonest /\ BrakeMovesAsPair

(* Once the faults stop, a paired session that WhatsApp did not end is up  *)
(* for good.                                                               *)
ComesBack == <>[](sock = "up" \/ hist.terminal \/ ~paired)
=============================================================================
