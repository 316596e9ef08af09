---------------------------- MODULE Link_proofs ----------------------------
(***************************************************************************)
(* Theorems about Link for any number of callers of set_kill_switch and    *)
(* any number of faults, calls and reactions: LinkSafe is an invariant,    *)
(* and every step keeps the promises ResetOnlyWhenStable, ErrorStays and   *)
(* OnlyOwnerLifts.                                                         *)
(***************************************************************************)
EXTENDS Link, TLAPS

-----------------------------------------------------------------------------
(* The inductive invariant                                                 *)

(* What the handlers still have to do: the rest of one of the scripts.     *)
Scripts ==
    {<<>>, <<"mute", "kill">>, <<"kill">>, <<"clear", "arm">>, <<"arm">>, <<"clear">>,
     <<"show", "schedule">>, <<"schedule">>, <<"show", "close", "schedule">>,
     <<"close", "schedule">>, <<"show">>}

(* Where pairing is, against the session.                                  *)
PairingInv ==
    /\ round \in {"begin", "codes", "over", "logout"} => ~paired
    /\ sock \in {"up", "zombie"} => paired
    /\ round = "logout" /\ ~hist.crossed => events = <<>> /\ todo = <<>>

(* What status.json will say of the connection once every event raised is  *)
(* handled.                                                                *)
Announces(e) == e \in {"connected", "restored"}
Announced ==
    IF events # <<>> THEN Announces(events[Len(events)])
    ELSE \/ todo \in {<<"clear", "arm">>, <<"clear">>}
         \/ /\ todo \notin {<<"mute", "kill">>, <<"show", "schedule">>,
                            <<"show", "close", "schedule">>, <<"show">>}
            /\ face.conn

DisplayInv ==
    ~hist.crossed =>
        /\ sock = "up" => Announced
        /\ (sock = "down" \/ ~paired) /\ round # "logout" => ~Announced
        /\ todo \in {<<"close", "schedule">>, <<"schedule">>, <<"kill">>} => ~face.conn
        /\ todo = <<"arm">> => face.conn

(* Who is setting the kill switch, while nobody else is.                   *)
BrakeInv ==
    ~hist.overlap =>
        /\ \A c, d \in Setting : c = d
        /\ todo = <<"kill">> => brake.muted /\ Setting = {}
        /\ \A c \in Callers : brake.call[c].pc = "governor" => brake.killed = brake.muted
        /\ \A c \in Callers : brake.call[c].pc = "state" => brake.killed = brake.call[c].kill
        /\ Setting = {} /\ todo # <<"kill">> => brake.killed = brake.muted

(* The timer runs, and its function may reset the count, only after a      *)
(* handshake no retry has followed.                                        *)
TimerInv == backoff.armed \/ backoff.closure = "current" => ~hist.dropped

(* A reaction that may still revert is not what is on display now.         *)
RevertInv == "current" \in face.revert => face.mood \notin {"bad", "muted"}

LinkIInv ==
    /\ LinkTypeOK /\ todo \in Scripts
    /\ PairingInv /\ NeverGivesUp /\ DisplayInv /\ BrakeInv /\ TimerInv /\ RevertInv

-----------------------------------------------------------------------------
(* Lemmas                                                                  *)

(* What is left of a script after its next step.                           *)
LEMMA ScriptStep ==
    ASSUME todo \in Scripts, NEW s, Step(s)
    PROVE  \/ s = "mute" /\ todo = <<"mute", "kill">> /\ todo' = <<"kill">>
           \/ s = "kill" /\ todo = <<"kill">> /\ todo' = <<>>
           \/ s = "clear" /\ todo = <<"clear", "arm">> /\ todo' = <<"arm">>
           \/ s = "clear" /\ todo = <<"clear">> /\ todo' = <<>>
           \/ s = "arm" /\ todo = <<"arm">> /\ todo' = <<>>
           \/ s = "show" /\ todo = <<"show", "schedule">> /\ todo' = <<"schedule">>
           \/ s = "show" /\ todo = <<"show">> /\ todo' = <<>>
           \/ s = "show" /\ todo = <<"show", "close", "schedule">>
                /\ todo' = <<"close", "schedule">>
           \/ s = "close" /\ todo = <<"close", "schedule">> /\ todo' = <<"schedule">>
           \/ s = "schedule" /\ todo = <<"schedule">> /\ todo' = <<>>
<1> USE DEF Step, Handling
<1>1. todo # <<>>
  OBVIOUS
<1>2. CASE todo = <<"mute", "kill">>
  BY <1>2
<1>3. CASE todo = <<"kill">>
  BY <1>3
<1>4. CASE todo = <<"clear", "arm">>
  BY <1>4
<1>5. CASE todo = <<"clear">>
  BY <1>5
<1>6. CASE todo = <<"arm">>
  BY <1>6
<1>7. CASE todo = <<"show", "schedule">>
  BY <1>7
<1>8. CASE todo = <<"show">>
  BY <1>8
<1>9. CASE todo = <<"show", "close", "schedule">>
  BY <1>9
<1>10. CASE todo = <<"close", "schedule">>
  BY <1>10
<1>11. CASE todo = <<"schedule">>
  BY <1>11
<1>12. QED
  BY <1>1, <1>2, <1>3, <1>4, <1>5, <1>6, <1>7, <1>8, <1>9, <1>10, <1>11 DEF Scripts

LEMMA ScriptOf ==
    ASSUME NEW e \in Events
    PROVE  Script(e) \in Scripts
BY DEF Script, Scripts

LEMMA ScriptType == ASSUME NEW t \in Scripts PROVE t \in Seq(Steps)
<1>1. <<>> \in Seq(Steps)
  BY DEF Steps
<1>2. <<"mute", "kill">> \in Seq(Steps)
  BY DEF Steps
<1>3. <<"kill">> \in Seq(Steps)
  BY DEF Steps
<1>4. <<"clear", "arm">> \in Seq(Steps)
  BY DEF Steps
<1>5. <<"clear">> \in Seq(Steps)
  BY DEF Steps
<1>6. <<"arm">> \in Seq(Steps)
  BY DEF Steps
<1>7. <<"show", "schedule">> \in Seq(Steps)
  BY DEF Steps
<1>8. <<"show">> \in Seq(Steps)
  BY DEF Steps
<1>9. <<"show", "close", "schedule">> \in Seq(Steps)
  BY DEF Steps
<1>10. <<"close", "schedule">> \in Seq(Steps)
  BY DEF Steps
<1>11. <<"schedule">> \in Seq(Steps)
  BY DEF Steps
<1>12. QED
  BY <1>1, <1>2, <1>3, <1>4, <1>5, <1>6, <1>7, <1>8, <1>9, <1>10, <1>11 DEF Scripts

(* One disjunct for every action of Link.                                  *)
LEMMA NextCases ==
    ASSUME [Next]_vars
    PROVE  \/ Handle \/ Clear \/ Arm \/ Show \/ Mute \/ Kill \/ Close \/ Schedule
           \/ Attempt(TRUE) \/ Attempt(FALSE) \/ Retry \/ Fire \/ Stable
           \/ PairAgain \/ PairBegin \/ ShowCode \/ Scanned \/ RoundOver
           \/ Logout \/ ShowLogout
           \/ Login \/ Drop \/ Freeze \/ Thaw
           \/ \E e \in Events : End(e) \/ Ping(e)
           \/ React \/ SetResting \/ \E g \in {"current", "stale"} : Revert(g)
           \/ \E c \in Callers : \/ SetGovernor(c) \/ SetMuted(c)
                                 \/ \E k \in BOOLEAN : SetKillSwitch(c, k)
           \/ UNCHANGED vars
BY DEF Next, Handler, Retries, Pairing, Network, Display, KillSwitch

(* A handler's step leaves the rest of its script to do, no step of        *)
(* anybody else touches it.                                                *)
LEMMA TodoStep ==
    ASSUME todo \in Scripts, events \in Seq(Events), [Next]_vars
    PROVE  todo' \in Scripts
<1>1. CASE Handle
  <2>1. Head(events) \in Events
    BY <1>1 DEF Handle
  <2>2. QED BY <1>1, <2>1, ScriptOf DEF Handle
<1>2. ASSUME NEW s, Step(s)
      PROVE  todo' \in Scripts
  BY <1>2, ScriptStep DEF Scripts
<1>3. CASE todo' = todo
  BY <1>3
<1>4. Handle \/ (\E s \in Steps : Step(s)) \/ todo' = todo
  BY NextCases
     DEF vars, Clear, Arm, Show, Mute, Kill, Close, Schedule, Steps,
         Attempt, Retry, Fire, Stable, PairAgain, PairBegin, ShowCode, Scanned, RoundOver,
         Logout, ShowLogout, Login, Drop, Freeze, Thaw, End, Ping, React, SetResting,
         Revert, SetGovernor, SetMuted, SetKillSwitch
<1>5. QED BY <1>1, <1>2, <1>3, <1>4

-----------------------------------------------------------------------------
(* Type correctness                                                        *)

LEMMA FaceType ==
    ASSUME face \in Face
    PROVE  /\ Superseded \subseteq {"stale"}
           /\ Degraded \in Face
           /\ \A m \in {"rest", "qr", "muted"}, r \in SUBSET {"current", "stale"} :
                 [face EXCEPT !.mood = m, !.revert = r] \in Face
BY DEF Face, Superseded, Degraded

LEMMA ScheduledType ==
    ASSUME LinkAssumption, backoff \in Backoff, hist \in History, Scheduled
    PROVE  backoff' \in Backoff /\ hist' \in History
<1>1. Longer(backoff.failures) \in 0..MaxFailures
  BY DEF LinkAssumption, Backoff, Longer
<1>2. backoff' \in Backoff
  BY <1>1 DEF Scheduled, Backoff
<1>3. QED BY <1>2 DEF Scheduled, History

LEMMA HistoryType ==
    ASSUME LinkAssumption, hist \in History
    PROVE  /\ hist.calls < MaxCalls =>
                /\ [hist EXCEPT !.calls = @ + 1] \in History
                /\ \A b \in BOOLEAN :
                     /\ [hist EXCEPT !.calls = @ + 1, !.crossed = b] \in History
                     /\ [hist EXCEPT !.calls = @ + 1, !.overlap = b] \in History
           /\ hist.faults < MaxFaults =>
                /\ [hist EXCEPT !.faults = @ + 1] \in History
                /\ [hist EXCEPT !.faults = @ + 1, !.terminal = TRUE] \in History
<1> USE DEF LinkAssumption, History
<1>1. /\ hist.calls < MaxCalls => hist.calls + 1 \in 0..MaxCalls
      /\ hist.faults < MaxFaults => hist.faults + 1 \in 0..MaxFaults
  OBVIOUS
<1>2. QED BY <1>1

LEMMA EventsType ==
    ASSUME events \in Seq(Events), NEW e \in Events, Raise(e)
    PROVE  events' \in Seq(Events)
BY DEF Raise

LEMMA LinkTypeStep ==
    ASSUME LinkAssumption, LinkTypeOK, todo \in Scripts, [Next]_vars
    PROVE  LinkTypeOK'
<1> USE LinkAssumption DEF LinkAssumption, LinkTypeOK
<1>0. todo' \in Seq(Steps)
  BY TodoStep, ScriptType
<1>1. CASE Handle
  BY <1>1, <1>0 DEF Handle
<1>2. CASE Clear
  <2>1. face' \in Face
    BY <1>2, FaceType DEF Clear, Face
  <2>2. QED BY <1>2, <1>0, <2>1 DEF Clear, Cleared
<1>3. CASE Arm
  BY <1>3, <1>0 DEF Arm, Backoff, History
<1>4. CASE Show
  BY <1>4, <1>0, FaceType DEF Show
<1>5. CASE Mute
  <2>1. brake' \in Brake /\ hist' \in History
    BY <1>5 DEF Mute, Brake, History
  <2>2. QED BY <1>5, <1>0, <2>1, FaceType DEF Mute
<1>6. CASE Kill
  BY <1>6, <1>0 DEF Kill, Brake
<1>7. CASE Close
  <2>1. hist' \in History
    BY <1>7 DEF Close, History
  <2>2. QED BY <1>7, <1>0, <2>1 DEF Close
<1>8. CASE Schedule
  BY <1>8, <1>0, ScheduledType DEF Schedule
<1>9. ASSUME NEW ok \in BOOLEAN, Attempt(ok)
      PROVE  LinkTypeOK'
  <2>1. chain' \in [waiting : Nat, failed : Nat]
    BY <1>9 DEF Attempt, Left
  <2>2. hist' \in History
    BY <1>9 DEF Attempt, History
  <2>3. QED BY <1>9, <1>0, <2>1, <2>2 DEF Attempt
<1>10. CASE Retry
  <2>1. chain' \in [waiting : Nat, failed : Nat]
    BY <1>10 DEF Retry
  <2>2. QED BY <1>10, <1>0, <2>1, ScheduledType DEF Retry
<1>11. CASE Fire \/ Stable
  <2>1. Fire => backoff' \in Backoff
    BY DEF Fire, Backoff
  <2>2. Stable => backoff' \in Backoff
    <3>1. (IF MayReset THEN 0 ELSE backoff.failures) \in 0..MaxFailures
      BY DEF Backoff
    <3>2. QED BY <3>1 DEF Stable, Backoff
  <2>3. QED BY <1>11, <1>0, <2>1, <2>2 DEF Fire, Stable
<1>12. CASE PairAgain
  BY <1>12, <1>0, HistoryType DEF PairAgain
<1>13. CASE PairBegin
  BY <1>13, <1>0 DEF PairBegin
<1>14. CASE ShowCode
  BY <1>14, <1>0 DEF ShowCode, Face
<1>15. CASE Scanned
  BY <1>15, <1>0 DEF Scanned, History
<1>16. CASE RoundOver
  BY <1>16, <1>0 DEF RoundOver
<1>17. CASE Logout
  <2>1. hist' \in History
    BY <1>17, HistoryType DEF Logout
  <2>2. QED BY <1>17, <1>0, <2>1 DEF Logout
<1>18. CASE ShowLogout
  BY <1>18, <1>0 DEF ShowLogout, Face
<1>19. CASE Login \/ Thaw
  BY <1>19, <1>0, EventsType DEF Login, Thaw, Events
<1>20. CASE Drop
  BY <1>20, <1>0, EventsType, HistoryType DEF Drop, Fault, Events
<1>21. CASE Freeze
  BY <1>21, <1>0, HistoryType DEF Freeze, Fault
<1>22. ASSUME NEW e \in Events, End(e)
       PROVE  LinkTypeOK'
  <2>1. paired' \in BOOLEAN
    BY <1>22 DEF End
  <2>2. QED BY <1>22, <1>0, <2>1, EventsType, HistoryType DEF End, Fault
<1>23. ASSUME NEW e \in Events, Ping(e)
       PROVE  LinkTypeOK'
  BY <1>23, <1>0, EventsType DEF Ping
<1>24. CASE React
  <2>1. face' \in Face
    BY <1>24, FaceType DEF React, Face
  <2>2. QED BY <1>24, <1>0, <2>1 DEF React, History
<1>25. CASE SetResting
  BY <1>25, <1>0, FaceType DEF SetResting
<1>26. ASSUME NEW g \in {"current", "stale"}, Revert(g)
       PROVE  LinkTypeOK'
  BY <1>26, <1>0 DEF Revert, Reverts, Face
<1>27. ASSUME NEW c \in Callers, SetGovernor(c)
       PROVE  LinkTypeOK'
  BY <1>27, <1>0 DEF SetGovernor, Brake
<1>28. ASSUME NEW c \in Callers, SetMuted(c)
       PROVE  LinkTypeOK'
  <2>1. brake' \in Brake
    BY <1>28 DEF SetMuted, Brake, NoBrake
  <2>2. QED BY <1>28, <1>0, <2>1, FaceType DEF SetMuted
<1>29. ASSUME NEW c \in Callers, NEW k \in BOOLEAN, SetKillSwitch(c, k)
       PROVE  LinkTypeOK'
  <2>1. hist' \in History
    BY <1>29, HistoryType DEF SetKillSwitch
  <2>2. QED BY <1>29, <1>0, <2>1 DEF SetKillSwitch, Brake
<1>30. CASE UNCHANGED vars
  BY <1>30 DEF vars
<1> HIDE DEF LinkTypeOK
<1>31. QED
  BY <1>1, <1>2, <1>3, <1>4, <1>5, <1>6, <1>7, <1>8, <1>9, <1>10, <1>11, <1>12, <1>13,
     <1>14, <1>15, <1>16, <1>17, <1>18, <1>19, <1>20, <1>21, <1>22, <1>23, <1>24, <1>25,
     <1>26, <1>27, <1>28, <1>29, <1>30, NextCases

-----------------------------------------------------------------------------
(* Retries                                                                 *)

LEMMA PairingStep ==
    ASSUME LinkAssumption, LinkTypeOK, todo \in Scripts, PairingInv, [Next]_vars
    PROVE  PairingInv'
<1> USE LinkAssumption DEF LinkAssumption, LinkTypeOK, PairingInv
<1>1. CASE Arm \/ Mute \/ Schedule \/ Close
  <2>1. todo # <<>>
    BY <1>1 DEF Arm, Mute, Schedule, Close, Step, Handling
  <2>2. hist'.crossed = FALSE => hist.crossed = FALSE
    BY <1>1 DEF Arm, Mute, Schedule, Scheduled, Close, History
  <2>3. QED BY <1>1, <2>1, <2>2 DEF Arm, Mute, Schedule, Close, History
<1>2. ASSUME NEW ok \in BOOLEAN, Attempt(ok)
      PROVE  PairingInv'
  BY <1>2 DEF Attempt, ConnectOK, History
<1>3. CASE Retry
  BY <1>3 DEF Retry, Scheduled, History
<1>4. CASE PairAgain \/ PairBegin \/ Scanned \/ RoundOver \/ ShowLogout
  BY <1>4 DEF PairAgain, PairBegin, Scanned, RoundOver, ShowLogout, History
<1>5. CASE Logout
  BY <1>5 DEF Logout, Handling, History
<1>6. CASE Login \/ Drop \/ Freeze \/ Thaw
  BY <1>6 DEF Login, Drop, Freeze, Thaw, Raise, History
<1>7. ASSUME NEW e \in Events, End(e) \/ Ping(e)
      PROVE  PairingInv'
  BY <1>7 DEF End, Ping, Raise, History
<1>8. CASE React
  BY <1>8 DEF React, History
<1>9. ASSUME NEW c \in Callers, NEW k \in BOOLEAN, SetKillSwitch(c, k)
       PROVE  PairingInv'
  BY <1>9 DEF SetKillSwitch, History
<1>10. CASE Handle \/ Clear \/ Show \/ Kill
  BY <1>10 DEF Handle, Clear, Show, Kill, Step, Handling
<1>11. CASE Fire \/ Stable \/ ShowCode \/ SetResting
  BY <1>11 DEF Fire, Stable, ShowCode, SetResting
<1>12. ASSUME NEW c \in Callers, SetGovernor(c) \/ SetMuted(c)
       PROVE  PairingInv'
  BY <1>12 DEF SetGovernor, SetMuted
<1>13. ASSUME NEW g \in {"current", "stale"}, Revert(g)
       PROVE  PairingInv'
  BY <1>13 DEF Revert
<1>14. CASE UNCHANGED vars
  BY <1>14 DEF vars
<1> HIDE DEF LinkTypeOK, PairingInv
<1>15. QED
  BY <1>1, <1>2, <1>3, <1>4, <1>5, <1>6, <1>7, <1>8, <1>9, <1>10, <1>11, <1>12, <1>13,
     <1>14, NextCases

(* "schedule" is what the handler of a drop or of a dead socket ends with. *)
Schedules(t) == \E i \in 1..Len(t) : t[i] = "schedule"
ScheduleToDo == Schedules(todo)

LEMMA ScheduleIn ==
    ASSUME NEW t \in Scripts
    PROVE  Schedules(t) <=>
             t \in {<<"show", "schedule">>, <<"schedule">>,
                       <<"show", "close", "schedule">>, <<"close", "schedule">>}
<1> USE DEF Schedules
<1>1. CASE t = <<>>
  BY <1>1
<1>2. CASE t \in {<<"mute", "kill">>, <<"kill">>}
  BY <1>2
<1>3. CASE t \in {<<"clear", "arm">>, <<"arm">>, <<"clear">>, <<"show">>}
  BY <1>3
<1>4. CASE t = <<"show", "schedule">>
  <2>1. t[2] = "schedule" /\ 2 \in 1..Len(t)
    BY <1>4
  <2>2. QED BY <1>4, <2>1
<1>5. CASE t = <<"schedule">>
  <2>1. t[1] = "schedule" /\ 1 \in 1..Len(t)
    BY <1>5
  <2>2. QED BY <1>5, <2>1
<1>6. CASE t = <<"show", "close", "schedule">>
  <2>1. t[3] = "schedule" /\ 3 \in 1..Len(t)
    BY <1>6
  <2>2. QED BY <1>6, <2>1
<1>7. CASE t = <<"close", "schedule">>
  <2>1. t[2] = "schedule" /\ 2 \in 1..Len(t)
    BY <1>7
  <2>2. QED BY <1>7, <2>1
<1>8. QED BY <1>1, <1>2, <1>3, <1>4, <1>5, <1>6, <1>7 DEF Scripts

(* A drop raised and not handled stays so, or its handler has begun.       *)
LEMMA DropKept ==
    ASSUME LinkTypeOK, ~Quiet("disconnected"), [Next]_vars
    PROVE  ~Quiet("disconnected")' \/ todo' = <<"show", "schedule">>
<1> USE DEF LinkTypeOK, Quiet
<1>1. PICK i \in 1..Len(events) : events[i] = "disconnected"
  OBVIOUS
<1>2. CASE Handle
  <2>1. CASE i = 1
    BY <1>1, <1>2, <2>1 DEF Handle, Script
  <2>2. CASE i # 1
    <3>1. i - 1 \in 1..Len(events') /\ events'[i - 1] = "disconnected"
      BY <1>1, <1>2, <2>2 DEF Handle
    <3>2. QED BY <3>1
  <2>3. QED BY <2>1, <2>2
<1>3. ASSUME NEW e \in Events, Raise(e)
      PROVE  ~Quiet("disconnected")'
  <2>1. i \in 1..Len(events') /\ events'[i] = "disconnected"
    BY <1>1, <1>3 DEF Raise
  <2>2. QED BY <2>1
<1>4. CASE events' = events
  BY <1>1, <1>4
<1>5. Handle \/ (\E e \in Events : Raise(e)) \/ events' = events
  BY NextCases
     DEF vars, Clear, Arm, Show, Mute, Kill, Close, Schedule, Events,
         Attempt, Retry, Fire, Stable, PairAgain, PairBegin, ShowCode, Scanned, RoundOver,
         Logout, ShowLogout, Login, Drop, Freeze, Thaw, End, Ping, React, SetResting,
         Revert, SetGovernor, SetMuted, SetKillSwitch
<1>6. QED BY <1>2, <1>3, <1>4, <1>5

(* A retry about to be scheduled stays so, or is under way.                *)
LEMMA ScheduleKept ==
    ASSUME todo \in Scripts, LinkTypeOK, ScheduleToDo, [Next]_vars
    PROVE  ScheduleToDo' \/ chain'.waiting > 0
<1>1. todo \in {<<"show", "schedule">>, <<"schedule">>, <<"show", "close", "schedule">>,
                <<"close", "schedule">>}
  BY ScheduleIn DEF ScheduleToDo
<1>2. ScheduleToDo' <=>
        todo' \in {<<"show", "schedule">>, <<"schedule">>,
                   <<"show", "close", "schedule">>, <<"close", "schedule">>}
  <2>1. todo' \in Scripts
    BY TodoStep DEF LinkTypeOK
  <2>2. QED BY <2>1, ScheduleIn DEF ScheduleToDo
<1>3. CASE todo' = todo
  BY <1>1, <1>2, <1>3
<1>4. ASSUME NEW s, Step(s), s # "schedule"
      PROVE  ScheduleToDo'
  BY <1>1, <1>2, <1>4, ScriptStep
<1>5. CASE Schedule
  BY <1>5 DEF Schedule, LinkTypeOK
<1>6. ~Handle
  <2>1. todo # <<>>
    BY DEF ScheduleToDo, Schedules
  <2>2. QED BY <2>1 DEF Handle, Handling
<1>7. todo' = todo \/ Schedule \/ \E s \in Steps \ {"schedule"} : Step(s)
  BY <1>6, NextCases
     DEF vars, Clear, Arm, Show, Mute, Kill, Close, Steps,
         Attempt, Retry, Fire, Stable, PairAgain, PairBegin, ShowCode, Scanned, RoundOver,
         Logout, ShowLogout, Login, Drop, Freeze, Thaw, End, Ping, React, SetResting,
         Revert, SetGovernor, SetMuted, SetKillSwitch
<1>8. QED BY <1>3, <1>4, <1>5, <1>7

LEMMA NeverGivesUpStep ==
    ASSUME LinkAssumption, LinkTypeOK, todo \in Scripts, PairingInv, NeverGivesUp,
           [Next]_vars
    PROVE  NeverGivesUp'
<1> DEFINE Chain == chain.waiting + chain.failed > 0
           Down == paired /\ sock = "down" /\ ~hist.terminal
<1> SUFFICES ASSUME Down'
             PROVE  Chain' \/ ~Quiet("disconnected")' \/ ScheduleToDo'
  BY DEF NeverGivesUp, ScheduleToDo, Schedules
<1>1. LinkTypeOK'
  BY LinkTypeStep
<1>2. ASSUME Down
      PROVE  Chain' \/ ~Quiet("disconnected")' \/ ScheduleToDo'
  <2>1. CASE ~Quiet("disconnected")
    <3>1. todo' = <<"show", "schedule">> => ScheduleToDo'
      <4>1. ASSUME todo' = <<"show", "schedule">>
            PROVE  todo'[2] = "schedule" /\ 2 \in 1..Len(todo')
        BY <4>1
      <4>2. QED BY <4>1 DEF ScheduleToDo, Schedules
    <3>2. QED BY <2>1, <3>1, DropKept
  <2>2. CASE ScheduleToDo
    BY <1>1, <2>2, ScheduleKept DEF LinkTypeOK
  <2>3. CASE Chain
    <3>1. ASSUME NEW ok \in BOOLEAN, Attempt(ok)
          PROVE  Chain'
      <4>1. ~ok
        BY <3>1 DEF Attempt
      <4>2. chain' = [waiting |-> chain.waiting - 1, failed |-> chain.failed + 1]
        BY <3>1, <4>1 DEF Attempt, Left
      <4>3. QED BY <2>3, <4>2 DEF LinkTypeOK
    <3>2. Retry => Chain'
      <4>1. Retry => chain' = [waiting |-> chain.waiting + 1, failed |-> chain.failed - 1]
        BY DEF Retry
      <4>2. QED BY <2>3, <4>1 DEF LinkTypeOK
    <3>3. Schedule => Chain'
      BY <2>3 DEF Schedule, LinkTypeOK
    <3>4. chain' = chain \/ Retry \/ Schedule \/ \E ok \in BOOLEAN : Attempt(ok)
      BY NextCases
         DEF vars, Handle, Clear, Arm, Show, Mute, Kill, Close,
             Fire, Stable, PairAgain, PairBegin, ShowCode, Scanned, RoundOver, Logout,
             ShowLogout, Login, Drop, Freeze, Thaw, End, Ping, React, SetResting, Revert,
             SetGovernor, SetMuted, SetKillSwitch
    <3>5. QED BY <2>3, <3>1, <3>2, <3>3, <3>4
  <2>4. QED BY <1>2, <2>1, <2>2, <2>3 DEF NeverGivesUp, ScheduleToDo, Schedules
<1>3. CASE Close
  <2>1. todo' = <<"schedule">>
    BY <1>3, ScriptStep DEF Close
  <2>2. todo'[1] = "schedule" /\ 1 \in 1..Len(todo')
    BY <2>1
  <2>3. QED BY <2>2 DEF ScheduleToDo, Schedules
<1>4. CASE Drop
  <2>1. /\ events'[Len(events) + 1] = "disconnected"
        /\ Len(events) + 1 \in 1..Len(events')
    BY <1>4 DEF Drop, Raise, LinkTypeOK
  <2>2. QED BY <2>1 DEF Quiet
<1>5. ASSUME ~Down, ~Close, ~Drop
      PROVE  FALSE
  <2> USE DEF LinkTypeOK, History
  <2>1. ASSUME NEW ok \in BOOLEAN, Attempt(ok)
        PROVE  FALSE
    BY <1>5, <2>1 DEF Attempt
  <2>2. CASE Arm \/ Mute \/ Schedule \/ Retry
    BY <1>5, <2>2 DEF Arm, Mute, Schedule, Retry, Scheduled
  <2>3. CASE PairAgain \/ Logout \/ React \/ Scanned
    BY <1>5, <2>3 DEF PairAgain, Logout, React, Scanned
  <2>4. CASE PairBegin \/ RoundOver
    BY <1>5, <2>4 DEF PairBegin, RoundOver, PairingInv
  <2>5. CASE Login \/ Freeze \/ Thaw
    BY <1>5, <2>5 DEF Login, Freeze, Thaw
  <2>6. ASSUME NEW e \in Events, End(e) \/ Ping(e)
        PROVE  FALSE
    BY <1>5, <2>6 DEF End, Ping
  <2>7. ASSUME NEW c \in Callers, NEW k \in BOOLEAN, SetKillSwitch(c, k)
        PROVE  FALSE
    BY <1>5, <2>7 DEF SetKillSwitch
  <2>8. ASSUME UNCHANGED <<paired, sock, hist>>
        PROVE  FALSE
    BY <1>5, <2>8
  <2>9. CASE Handle \/ Clear \/ Show \/ Kill \/ Fire \/ Stable \/ ShowCode \/ ShowLogout
              \/ SetResting \/ UNCHANGED vars
    BY <2>8, <2>9
       DEF vars, Handle, Clear, Show, Kill, Fire, Stable, ShowCode, ShowLogout, SetResting
  <2>10. ASSUME NEW g \in {"current", "stale"}, Revert(g)
         PROVE  FALSE
    BY <2>8, <2>10 DEF Revert
  <2>11. ASSUME NEW c \in Callers, SetGovernor(c) \/ SetMuted(c)
         PROVE  FALSE
    BY <2>8, <2>11 DEF SetGovernor, SetMuted
  <2> HIDE DEF LinkTypeOK
  <2>12. QED
    BY <1>5, <2>1, <2>2, <2>3, <2>4, <2>5, <2>6, <2>7, <2>9, <2>10, <2>11, NextCases
<1>6. QED BY <1>2, <1>3, <1>4, <1>5

-----------------------------------------------------------------------------
(* The display                                                             *)

(* Sequences with the same last element added, or one left of one.         *)
LEMMA AppendSame ==
    ASSUME NEW S, NEW s \in Seq(S), NEW e \in S, NEW x \in S, Append(s, e) = Append(s, x)
    PROVE  e = x
<1>1. Append(s, e)[Len(s) + 1] = e /\ Append(s, x)[Len(s) + 1] = x
  OBVIOUS
<1>2. QED BY <1>1

LEMMA TailEmpty ==
    ASSUME NEW S, NEW s \in Seq(S), s # <<>>, Tail(s) = <<>>
    PROVE  Len(s) = 1
<1>1. Len(Tail(s)) = Len(s) - 1 /\ Tail(s) \in Seq(S) /\ Len(s) \in Nat
  OBVIOUS
<1>2. \A t \in Seq(S) : t = <<>> => Len(t) = 0
  OBVIOUS
<1>3. Len(Tail(s)) = 0
  BY <1>1, <1>2
<1>4. QED BY <1>1, <1>3

(* Who raises an event, and which.                                         *)
LEMMA Raisers ==
    ASSUME LinkTypeOK, [Next]_vars, NEW e \in Events, Raise(e)
    PROVE  \/ e = "connected" /\ Login
           \/ e = "restored" /\ Thaw
           \/ e = "disconnected" /\ Drop
           \/ End(e) \/ Ping(e)
<1> USE DEF LinkTypeOK
<1>1. events' # events /\ ~Handle
  BY DEF Raise, Handle
<1>2. \A x \in Events : Raise(x) => x = e
  BY AppendSame DEF Raise
<1> HIDE DEF LinkTypeOK
<1>3. Login \/ Thaw \/ Drop \/ \E x \in Events : End(x) \/ Ping(x)
  BY <1>1, NextCases
     DEF vars, Clear, Arm, Show, Mute, Kill, Close, Schedule,
         Attempt, Retry, Fire, Stable, PairAgain, PairBegin, ShowCode, Scanned, RoundOver,
         Logout, ShowLogout, Freeze, React, SetResting, Revert, SetGovernor, SetMuted,
         SetKillSwitch
<1>4. /\ Login => Raise("connected")
      /\ Thaw => Raise("restored")
      /\ Drop => Raise("disconnected")
      /\ \A x \in Events : End(x) \/ Ping(x) => Raise(x)
  BY DEF Login, Thaw, Drop, End, Ping
<1>5. QED BY <1>2, <1>3, <1>4 DEF Events

LEMMA AnnouncedRaised ==
    ASSUME events \in Seq(Events), NEW e \in Events, Raise(e)
    PROVE  Announced' <=> Announces(e)
<1>1. events' # <<>> /\ events'[Len(events')] = e
  BY DEF Raise
<1>2. QED BY <1>1 DEF Announced, Announces

LEMMA AnnouncedHandled ==
    ASSUME events \in Seq(Events), Handle
    PROVE  Announced' <=> Announced
<1>1. /\ events # <<>> /\ todo' = Script(Head(events)) /\ events' = Tail(events)
      /\ Announced <=> Announces(events[Len(events)])
  BY DEF Handle, Announced
<1>2. CASE events' # <<>>
  <2>1. events'[Len(events')] = events[Len(events)]
    BY <1>1, <1>2
  <2>2. QED BY <1>1, <1>2, <2>1 DEF Announced
<1>3. CASE events' = <<>>
  <2>1. Len(events) = 1 /\ Head(events) = events[Len(events)] /\ Head(events) \in Events
    <3>1. Len(events) = 1
      BY <1>1, <1>3, TailEmpty
    <3>2. QED BY <1>1, <3>1
  <2>2. Announced' <=> todo' \in {<<"clear", "arm">>, <<"clear">>}
    <3>1. todo' \in {<<"clear", "arm">>, <<"clear">>, <<"mute", "kill">>,
                     <<"show", "schedule">>, <<"show", "close", "schedule">>, <<"show">>}
      BY <1>1 DEF Script
    <3>2. QED BY <1>3, <3>1 DEF Announced
  <2>3. todo' \in {<<"clear", "arm">>, <<"clear">>} <=> Announces(Head(events))
    BY <1>1 DEF Script, Announces
  <2>4. QED BY <1>1, <2>1, <2>2, <2>3
<1>4. QED BY <1>2, <1>3

(* Announced depends on the last event, the script and the display only.   *)
LEMMA AnnouncedSame ==
    ASSUME events' = events, events # <<>>
    PROVE  Announced' <=> Announced
BY DEF Announced

LEMMA AnnouncedKept ==
    ASSUME LinkTypeOK, todo \in Scripts, [Next]_vars, ~ShowLogout,
           ~\E e \in Events : Raise(e)
    PROVE  Announced' <=> Announced
<1>1. CASE Handle
  BY <1>1, AnnouncedHandled DEF LinkTypeOK
<1>2. CASE Clear
  <2>1. /\ events' = events /\ face'.conn
        /\ todo \in {<<"clear", "arm">>, <<"clear">>} /\ todo' \in {<<"arm">>, <<>>}
    BY <1>2, ScriptStep DEF Clear
  <2>2. events = <<>> => Announced /\ Announced'
    <3> SUFFICES ASSUME events = <<>> PROVE Announced /\ Announced'
      OBVIOUS
    <3>1. Announced
      BY <2>1 DEF Announced
    <3>2. Announced'
      <4>1. events' = <<>>
        BY <2>1
      <4>2. QED BY <2>1, <4>1 DEF Announced
    <3>3. QED BY <3>1, <3>2
  <2>3. QED BY <2>1, <2>2, AnnouncedSame
<1>3. CASE Show \/ Mute
  <2>1. /\ events' = events /\ ~face'.conn
        /\ todo \in {<<"mute", "kill">>, <<"show", "schedule">>, <<"show">>,
                     <<"show", "close", "schedule">>}
        /\ todo' \in {<<"kill">>, <<"schedule">>, <<>>, <<"close", "schedule">>}
    BY <1>3, ScriptStep DEF Show, Mute, Degraded
  <2>2. events = <<>> => ~Announced /\ ~Announced'
    <3> SUFFICES ASSUME events = <<>> PROVE ~Announced /\ ~Announced'
      OBVIOUS
    <3>1. ~Announced
      BY <2>1 DEF Announced
    <3>2. ~Announced'
      <4>1. events' = <<>>
        BY <2>1
      <4>2. QED BY <2>1, <4>1 DEF Announced
    <3>3. QED BY <3>1, <3>2
  <2>3. QED BY <2>1, <2>2, AnnouncedSame
<1>4. CASE Arm \/ Kill \/ Close \/ Schedule
  <2>1. /\ events' = events /\ face' = face
        /\ todo \in {<<"arm">>, <<"kill">>, <<"close", "schedule">>, <<"schedule">>}
        /\ todo' \in {<<>>, <<"schedule">>}
    BY <1>4, ScriptStep DEF Arm, Kill, Close, Schedule
  <2>2. events = <<>> => (Announced <=> face.conn) /\ (Announced' <=> face.conn)
    <3> SUFFICES ASSUME events = <<>>
                 PROVE  (Announced <=> face.conn) /\ (Announced' <=> face.conn)
      OBVIOUS
    <3>1. Announced <=> face.conn
      BY <2>1 DEF Announced
    <3>2. Announced' <=> face.conn
      <4>1. events' = <<>>
        BY <2>1
      <4>2. QED BY <2>1, <4>1 DEF Announced
    <3>3. QED BY <3>1, <3>2
  <2>3. QED BY <2>1, <2>2, AnnouncedSame
<1>5. CASE events' = events /\ todo' = todo /\ face'.conn = face.conn
  BY <1>5 DEF Announced
<1>6. \/ Handle \/ Clear \/ Show \/ Mute \/ Arm \/ Kill \/ Close \/ Schedule
      \/ events' = events /\ todo' = todo /\ face'.conn = face.conn
  BY NextCases
     DEF vars, Attempt, Retry, Fire, Stable, PairAgain, PairBegin, ShowCode, Scanned,
         RoundOver, Logout, Login, Drop, Freeze, Thaw, End, Ping, React, SetResting,
         Revert, SetGovernor, SetMuted, SetKillSwitch, Events, Face, LinkTypeOK
<1>7. QED BY <1>1, <1>2, <1>3, <1>4, <1>5, <1>6

LEMMA CrossedStays ==
    ASSUME LinkTypeOK, hist.crossed, [Next]_vars
    PROVE  hist'.crossed
<1> USE DEF LinkTypeOK, History
<1>1. ASSUME NEW ok \in BOOLEAN, Attempt(ok)
      PROVE  hist'.crossed
  BY <1>1 DEF Attempt
<1>2. CASE Arm \/ Mute \/ Schedule \/ Retry \/ Close \/ PairAgain \/ Scanned \/ Logout
           \/ Drop \/ Freeze \/ React
  BY <1>2 DEF Arm, Mute, Schedule, Retry, Scheduled, Close, PairAgain, Scanned, Logout,
              Drop, Freeze, React
<1>3. ASSUME NEW e \in Events, End(e)
      PROVE  hist'.crossed
  BY <1>3 DEF End
<1>4. ASSUME NEW c \in Callers, NEW k \in BOOLEAN, SetKillSwitch(c, k)
      PROVE  hist'.crossed
  BY <1>4 DEF SetKillSwitch
<1>5. \/ hist' = hist
      \/ Arm \/ Mute \/ Schedule \/ Retry \/ Close \/ PairAgain \/ Scanned \/ Logout
      \/ Drop \/ Freeze \/ React \/ Attempt(TRUE) \/ Attempt(FALSE)
      \/ \E e \in Events : End(e)
      \/ \E c \in Callers, k \in BOOLEAN : SetKillSwitch(c, k)
  BY NextCases
     DEF vars, Handle, Clear, Show, Kill, Fire, Stable, PairBegin, ShowCode, RoundOver,
         ShowLogout, Login, Thaw, Ping, SetResting, Revert, SetGovernor, SetMuted
<1> HIDE DEF LinkTypeOK
<1>6. QED BY <1>1, <1>2, <1>3, <1>4, <1>5

LEMMA DisplayStep ==
    ASSUME LinkAssumption, LinkTypeOK, todo \in Scripts, PairingInv, DisplayInv,
           [Next]_vars
    PROVE  DisplayInv'
<1> SUFFICES ASSUME ~hist'.crossed
             PROVE  /\ sock' = "up" => Announced'
                    /\ (sock' = "down" \/ ~paired') /\ round' # "logout" => ~Announced'
                    /\ todo' \in {<<"close", "schedule">>, <<"schedule">>, <<"kill">>}
                         => ~face'.conn
                    /\ todo' = <<"arm">> => face'.conn
  BY DEF DisplayInv
<1>1. /\ sock = "up" => Announced
      /\ (sock = "down" \/ ~paired) /\ round # "logout" => ~Announced
      /\ todo \in {<<"close", "schedule">>, <<"schedule">>, <<"kill">>} => ~face.conn
      /\ todo = <<"arm">> => face.conn
      /\ ~hist.crossed
  BY CrossedStays DEF DisplayInv
<1>2. CASE ShowLogout
  <2>1. /\ events' = <<>> /\ todo' = <<>> /\ face'.conn = FALSE
        /\ sock' \notin {"up", "zombie"}
    BY <1>1, <1>2 DEF ShowLogout, PairingInv, LinkTypeOK, Face
  <2>2. ~Announced'
    BY <2>1 DEF Announced
  <2>3. QED BY <2>1, <2>2
<1>3. ASSUME NEW e \in Events, Raise(e), events' # events
      PROVE  /\ sock' = "up" => Announced'
             /\ (sock' = "down" \/ ~paired') /\ round' # "logout" => ~Announced'
             /\ todo' = todo /\ face' = face
  <2>1. Announced' <=> Announces(e)
    BY <1>3, AnnouncedRaised DEF LinkTypeOK
  <2>2. CASE Login /\ e = "connected"
    BY <2>1, <2>2 DEF Login, Announces
  <2>3. CASE Thaw /\ e = "restored"
    BY <2>1, <2>3 DEF Thaw, Announces, PairingInv
  <2>4. CASE Drop /\ e = "disconnected"
    BY <2>1, <2>4 DEF Drop, Announces
  <2>5. CASE End(e)
    BY <2>1, <2>5 DEF End, Announces
  <2>6. CASE Ping(e)
    BY <2>1, <2>6 DEF Ping, Announces, PairingInv
  <2>7. QED BY <1>3, <2>2, <2>3, <2>4, <2>5, <2>6, Raisers
<1>4. ASSUME ~ShowLogout, ~\E e \in Events : Raise(e)
      PROVE  /\ sock' = "up" => Announced'
             /\ (sock' = "down" \/ ~paired') /\ round' # "logout" => ~Announced'
  <2>1. Announced' <=> Announced
    BY <1>4, AnnouncedKept
  <2>2. CASE Close
    <3>1. sock = "zombie" /\ events = <<>> /\ todo = <<"close", "schedule">>
      <4>1. sock = "zombie" /\ events = <<>>
        BY <2>2 DEF Close, LinkTypeOK, History
      <4>2. QED BY <2>2, <4>1, ScriptStep DEF Close
    <3>2. ~Announced
      BY <1>1, <3>1 DEF Announced
    <3>3. QED BY <2>1, <2>2, <3>2 DEF Close
  <2>3. CASE Logout
    BY <2>3 DEF Logout
  <2>4. CASE RoundOver
    BY <1>1, <2>1, <2>4 DEF RoundOver, PairingInv
  <2>5. CASE PairAgain \/ PairBegin \/ Scanned
    BY <1>1, <2>1, <2>5 DEF PairAgain, PairBegin, Scanned, PairingInv
  <2>6. ASSUME NEW ok \in BOOLEAN, Attempt(ok)
        PROVE  /\ sock' = "up" => Announced'
               /\ (sock' = "down" \/ ~paired') /\ round' # "logout" => ~Announced'
    BY <1>1, <2>1, <2>6 DEF Attempt
  <2>7. CASE Freeze
    BY <1>1, <2>1, <2>7 DEF Freeze, PairingInv
  <2>8. CASE UNCHANGED <<sock, paired, round>>
    BY <1>1, <2>1, <2>8
  <2>9. ~Login /\ ~Thaw /\ ~Drop /\ ~\E e \in Events : End(e) \/ Ping(e)
    BY <1>4 DEF Login, Thaw, Drop, End, Ping, Events
  <2>10. \/ UNCHANGED <<sock, paired, round>>
         \/ Close \/ Logout \/ RoundOver \/ PairAgain \/ PairBegin \/ Scanned \/ Freeze
         \/ \E ok \in BOOLEAN : Attempt(ok)
    BY <1>4, <2>9, NextCases
       DEF vars, Handle, Clear, Arm, Show, Mute, Kill, Schedule, Retry, Fire, Stable,
           ShowCode, React, SetResting, Revert, SetGovernor, SetMuted, SetKillSwitch
  <2>11. QED BY <2>2, <2>3, <2>4, <2>5, <2>6, <2>7, <2>8, <2>10
<1>5. ASSUME ~ShowLogout
      PROVE  /\ todo' \in {<<"close", "schedule">>, <<"schedule">>, <<"kill">>}
                  => ~face'.conn
             /\ todo' = <<"arm">> => face'.conn
  <2>1. CASE Handle
    <3>1. todo' \in {<<"clear", "arm">>, <<"clear">>, <<"mute", "kill">>,
                     <<"show", "schedule">>, <<"show", "close", "schedule">>, <<"show">>}
      BY <2>1 DEF Handle, Script
    <3>2. QED BY <3>1
  <2>2. CASE Clear
    BY <2>2, ScriptStep DEF Clear
  <2>3. CASE Show \/ Mute
    BY <2>3, ScriptStep DEF Show, Mute, Degraded
  <2>4. CASE Arm \/ Kill \/ Close \/ Schedule
    BY <1>1, <2>4, ScriptStep DEF Arm, Kill, Close, Schedule
  <2>5. CASE todo' = todo /\ face'.conn = face.conn
    BY <1>1, <2>5
  <2>6. \/ Handle \/ Clear \/ Show \/ Mute \/ Arm \/ Kill \/ Close \/ Schedule
        \/ todo' = todo /\ face'.conn = face.conn
    BY <1>5, NextCases
       DEF vars, Attempt, Retry, Fire, Stable, PairAgain, PairBegin, ShowCode, Scanned,
           RoundOver, Logout, Login, Drop, Freeze, Thaw, End, Ping, React, SetResting,
           Revert, SetGovernor, SetMuted, SetKillSwitch, LinkTypeOK, Face
  <2>7. QED BY <2>1, <2>2, <2>3, <2>4, <2>5, <2>6
<1>6. QED
  <2>1. CASE ShowLogout
    BY <1>2, <2>1
  <2>2. CASE ~ShowLogout /\ \E e \in Events : Raise(e) /\ events' # events
    BY <1>1, <1>3, <2>2
  <2>3. \A e : Raise(e) => events' # events
    BY DEF Raise, LinkTypeOK
  <2>4. CASE ~ShowLogout /\ ~\E e \in Events : Raise(e)
    BY <1>4, <1>5, <2>4
  <2>5. QED BY <2>1, <2>2, <2>3, <2>4

-----------------------------------------------------------------------------
(* The kill switch                                                         *)

(* Two calls at once are remembered.                                       *)
LEMMA OverlapStays ==
    ASSUME LinkTypeOK, hist.overlap, [Next]_vars
    PROVE  hist'.overlap
<1> USE DEF LinkTypeOK, History
<1>1. ASSUME NEW ok \in BOOLEAN, Attempt(ok)
      PROVE  hist'.overlap
  BY <1>1 DEF Attempt
<1>2. CASE Arm \/ Mute \/ Schedule \/ Retry \/ Close \/ PairAgain \/ Scanned \/ Logout
           \/ Drop \/ Freeze \/ React
  BY <1>2 DEF Arm, Mute, Schedule, Retry, Scheduled, Close, PairAgain, Scanned, Logout,
              Drop, Freeze, React
<1>3. ASSUME NEW e \in Events, End(e)
      PROVE  hist'.overlap
  BY <1>3 DEF End
<1>4. ASSUME NEW c \in Callers, NEW k \in BOOLEAN, SetKillSwitch(c, k)
      PROVE  hist'.overlap
  BY <1>4 DEF SetKillSwitch
<1>5. \/ hist' = hist
      \/ Arm \/ Mute \/ Schedule \/ Retry \/ Close \/ PairAgain \/ Scanned \/ Logout
      \/ Drop \/ Freeze \/ React \/ Attempt(TRUE) \/ Attempt(FALSE)
      \/ \E e \in Events : End(e)
      \/ \E c \in Callers, k \in BOOLEAN : SetKillSwitch(c, k)
  BY NextCases
     DEF vars, Handle, Clear, Show, Kill, Fire, Stable, PairBegin, ShowCode, RoundOver,
         ShowLogout, Login, Thaw, Ping, SetResting, Revert, SetGovernor, SetMuted
<1> HIDE DEF LinkTypeOK
<1>6. QED BY <1>1, <1>2, <1>3, <1>4, <1>5

(* Only a ban being handled enters and leaves the gap between its halves.  *)
LEMMA KillToDo ==
    ASSUME todo \in Scripts, [Next]_vars, ~Mute, ~Kill
    PROVE  todo' = <<"kill">> <=> todo = <<"kill">>
<1>1. CASE Handle
  <2>1. todo' \in {<<"clear", "arm">>, <<"clear">>, <<"mute", "kill">>,
                   <<"show", "schedule">>, <<"show", "close", "schedule">>, <<"show">>}
    BY <1>1 DEF Handle, Script
  <2>2. todo = <<>>
    BY <1>1 DEF Handle, Handling
  <2>3. QED BY <2>1, <2>2
<1>2. CASE Clear \/ Arm \/ Show \/ Close \/ Schedule
  BY <1>2, ScriptStep DEF Clear, Arm, Show, Close, Schedule
<1>3. CASE todo' = todo
  BY <1>3
<1>4. Handle \/ Clear \/ Arm \/ Show \/ Close \/ Schedule \/ todo' = todo
  BY NextCases
     DEF vars, Attempt, Retry, Fire, Stable, PairAgain, PairBegin, ShowCode, Scanned,
         RoundOver, Logout, ShowLogout, Login, Drop, Freeze, Thaw, End, Ping, React,
         SetResting, Revert, SetGovernor, SetMuted, SetKillSwitch
<1>5. QED BY <1>1, <1>2, <1>3, <1>4

LEMMA BrakeWriters ==
    ASSUME [Next]_vars
    PROVE  \/ brake' = brake /\ ~Mute /\ ~Kill
           \/ Mute \/ Kill
           \/ \E c \in Callers : \/ SetGovernor(c) \/ SetMuted(c)
                                 \/ \E k \in BOOLEAN : SetKillSwitch(c, k)
BY NextCases
   DEF vars, Handle, Clear, Cleared, Arm, Show, Close, Schedule,
       Attempt, Retry, Fire, Stable, PairAgain, PairBegin, ShowCode, Scanned,
       RoundOver, Logout, ShowLogout, Login, Drop, Freeze, Thaw, End, Ping, React,
       SetResting, Revert

LEMMA BrakeStep ==
    ASSUME LinkAssumption, LinkTypeOK, todo \in Scripts, BrakeInv, [Next]_vars
    PROVE  BrakeInv'
<1> SUFFICES ASSUME ~hist'.overlap PROVE BrakeInv'
  BY DEF BrakeInv
<1>1. ~hist.overlap
  BY OverlapStays
<1>2. CASE brake' = brake /\ ~Mute /\ ~Kill
  BY <1>1, <1>2, KillToDo DEF BrakeInv, Setting
<1> USE DEF LinkTypeOK, Brake
<1>3. CASE Mute
  <2>1. Setting = {} /\ todo' = <<"kill">>
    <3>1. todo' = <<"kill">>
      BY <1>3, ScriptStep DEF Mute
    <3>2. Setting = {}
      BY <1>3 DEF Mute, History
    <3>3. QED BY <3>1, <3>2
  <2>2. brake'.call = brake.call /\ brake'.muted
    BY <1>3 DEF Mute
  <2>3. \A c \in Callers : brake'.call[c].pc = "idle"
    BY <2>1, <2>2 DEF Setting
  <2>4. QED BY <2>1, <2>2, <2>3 DEF BrakeInv, Setting
<1>4. CASE Kill
  <2>1. todo = <<"kill">> /\ todo' = <<>>
    BY <1>4, ScriptStep DEF Kill
  <2>2. brake.muted /\ Setting = {}
    BY <1>1, <2>1 DEF BrakeInv
  <2>3. brake'.call = brake.call /\ brake'.muted = brake.muted /\ brake'.killed = TRUE
    BY <1>4 DEF Kill
  <2>4. \A c \in Callers : brake'.call[c].pc = "idle"
    BY <2>2, <2>3 DEF Setting
  <2>5. brake'.killed = brake'.muted
    BY <2>2, <2>3
  <2>6. QED BY <2>1, <2>4, <2>5 DEF BrakeInv, Setting
<1>5. ASSUME NEW c \in Callers, SetGovernor(c)
      PROVE  BrakeInv'
  <2>1. todo' = todo /\ c \in Setting
    BY <1>5 DEF SetGovernor, Setting
  <2>2. todo # <<"kill">> /\ \A d \in Setting : d = c
    BY <1>1, <2>1 DEF BrakeInv
  <2>3. /\ brake'.killed = brake.call[c].kill
        /\ brake'.call[c] = [pc |-> "state", kill |-> brake.call[c].kill]
        /\ \A d \in Callers \ {c} : brake'.call[d] = brake.call[d]
    BY <1>5 DEF SetGovernor
  <2>4. \A d \in Callers \ {c} : brake'.call[d].pc = "idle"
    BY <2>2, <2>3 DEF Setting
  <2>5. QED BY <2>1, <2>2, <2>3, <2>4 DEF BrakeInv, Setting
<1>6. ASSUME NEW c \in Callers, SetMuted(c)
      PROVE  BrakeInv'
  <2>1. todo' = todo /\ c \in Setting
    BY <1>6 DEF SetMuted, Setting
  <2>2. /\ todo # <<"kill">> /\ \A d \in Setting : d = c
        /\ brake.killed = brake.call[c].kill
    BY <1>1, <1>6, <2>1 DEF BrakeInv, SetMuted
  <2>3. /\ brake'.killed = brake.killed /\ brake'.muted = brake.call[c].kill
        /\ brake'.call[c].pc = "idle"
        /\ \A d \in Callers \ {c} : brake'.call[d] = brake.call[d]
    BY <1>6 DEF SetMuted, NoBrake
  <2>4. \A d \in Callers : brake'.call[d].pc = "idle"
    BY <2>2, <2>3 DEF Setting
  <2>5. QED BY <2>1, <2>2, <2>3, <2>4 DEF BrakeInv, Setting
<1>7. ASSUME NEW c \in Callers, NEW k \in BOOLEAN, SetKillSwitch(c, k)
      PROVE  BrakeInv'
  <2>1. /\ todo' = todo /\ Setting = {} /\ todo # <<"kill">>
    <3>1. Setting = {} /\ "kill" \notin {todo[i] : i \in 1..Len(todo)}
      BY <1>7 DEF SetKillSwitch, History
    <3>2. todo # <<"kill">>
      <4> SUFFICES ASSUME todo = <<"kill">> PROVE FALSE
        OBVIOUS
      <4>1. todo[1] = "kill" /\ 1 \in 1..Len(todo)
        OBVIOUS
      <4>2. QED BY <3>1, <4>1
    <3>3. QED BY <1>7, <3>1, <3>2 DEF SetKillSwitch
  <2>2. brake.killed = brake.muted
    BY <1>1, <2>1 DEF BrakeInv
  <2>3. /\ brake'.killed = brake.killed /\ brake'.muted = brake.muted
        /\ brake'.call[c] = [pc |-> "governor", kill |-> k]
        /\ \A d \in Callers \ {c} : brake'.call[d] = brake.call[d]
    BY <1>7 DEF SetKillSwitch
  <2>4. \A d \in Callers \ {c} : brake'.call[d].pc = "idle"
    BY <2>1, <2>3 DEF Setting
  <2>5. QED BY <2>1, <2>2, <2>3, <2>4 DEF BrakeInv, Setting
<1> HIDE DEF LinkTypeOK
<1>8. QED BY <1>2, <1>3, <1>4, <1>5, <1>6, <1>7, BrakeWriters

-----------------------------------------------------------------------------
(* The delay and its reset                                                 *)

LEMMA TimerStep ==
    ASSUME LinkTypeOK, TimerInv, [Next]_vars
    PROVE  TimerInv'
<1> USE DEF LinkTypeOK, Backoff, History, TimerInv
<1>1. CASE Arm
  BY <1>1 DEF Arm
<1>2. CASE Schedule \/ Retry
  BY <1>2 DEF Schedule, Retry, Scheduled
<1>3. CASE Fire \/ Stable
  BY <1>3 DEF Fire, Stable
<1>4. CASE backoff' = backoff /\ (hist'.dropped => hist.dropped)
  BY <1>4
<1>5. ASSUME NEW ok \in BOOLEAN, Attempt(ok)
      PROVE  backoff' = backoff /\ (hist'.dropped => hist.dropped)
  BY <1>5 DEF Attempt
<1>6. CASE Mute \/ Close \/ PairAgain \/ Scanned \/ Logout \/ Drop \/ Freeze \/ React
  BY <1>6 DEF Mute, Close, PairAgain, Scanned, Logout, Drop, Freeze, React
<1>7. ASSUME NEW e \in Events, End(e)
      PROVE  backoff' = backoff /\ (hist'.dropped => hist.dropped)
  BY <1>7 DEF End
<1>8. ASSUME NEW c \in Callers, NEW k \in BOOLEAN, SetKillSwitch(c, k)
      PROVE  backoff' = backoff /\ (hist'.dropped => hist.dropped)
  BY <1>8 DEF SetKillSwitch
<1>9. \/ backoff' = backoff /\ hist' = hist
      \/ Arm \/ Schedule \/ Retry \/ Fire \/ Stable
      \/ Mute \/ Close \/ PairAgain \/ Scanned \/ Logout \/ Drop \/ Freeze \/ React
      \/ Attempt(TRUE) \/ Attempt(FALSE)
      \/ \E e \in Events : End(e)
      \/ \E c \in Callers, k \in BOOLEAN : SetKillSwitch(c, k)
  BY NextCases
     DEF vars, Handle, Clear, Show, Kill, PairBegin, ShowCode, RoundOver,
         ShowLogout, Login, Thaw, Ping, SetResting, Revert, SetGovernor, SetMuted
<1> HIDE DEF LinkTypeOK, TimerInv
<1>10. QED BY <1>1, <1>2, <1>3, <1>4, <1>5, <1>6, <1>7, <1>8, <1>9

(* Who writes status.json.                                                 *)
LEMMA FaceWriters ==
    ASSUME [Next]_vars
    PROVE  \/ face' = face
           \/ Clear \/ Show \/ Mute \/ ShowCode \/ ShowLogout \/ React \/ SetResting
           \/ \E g \in {"current", "stale"} : Revert(g)
           \/ \E c \in Callers : SetMuted(c)
BY NextCases
   DEF vars, Handle, Arm, Kill, Close, Schedule, Attempt, Retry, Fire, Stable,
       PairAgain, PairBegin, Scanned, RoundOver, Logout, Login, Drop, Freeze, Thaw,
       End, Ping, SetGovernor, SetKillSwitch

LEMMA RevertStep ==
    ASSUME LinkTypeOK, RevertInv, [Next]_vars
    PROVE  RevertInv'
<1> USE DEF LinkTypeOK, Face, RevertInv
<1>1. CASE face' = face
  BY <1>1
<1>2. CASE Clear \/ Show \/ Mute \/ SetResting
  <2>1. Clear \/ Show \/ Mute => face'.revert = Superseded
    BY DEF Clear, Show, Mute, Degraded
  <2>2. SetResting => face'.revert = Superseded
    BY DEF SetResting
  <2>3. QED BY <1>2, <2>1, <2>2 DEF Superseded
<1>3. CASE ShowCode \/ ShowLogout \/ React
  BY <1>3 DEF ShowCode, ShowLogout, React
<1>4. ASSUME NEW g \in {"current", "stale"}, Revert(g)
      PROVE  RevertInv'
  BY <1>4 DEF Revert, Reverts
<1>5. ASSUME NEW c \in Callers, SetMuted(c)
      PROVE  RevertInv'
  BY <1>5 DEF SetMuted, Superseded
<1> HIDE DEF LinkTypeOK, RevertInv
<1>6. QED BY <1>1, <1>2, <1>3, <1>4, <1>5, FaceWriters

-----------------------------------------------------------------------------
(* The theorems                                                            *)

LEMMA LinkInit == LinkAssumption /\ Init => LinkIInv
<1> SUFFICES ASSUME LinkAssumption, Init PROVE LinkIInv
  OBVIOUS
<1> USE DEF LinkAssumption, Init
<1>1. LinkTypeOK
  <2>1. chain \in [waiting : {0, 1}, failed : {0}]
    OBVIOUS
  <2>2. backoff \in Backoff
    BY <2>1 DEF Backoff
  <2>3. hist \in History
    BY DEF History
  <2>4. QED BY <2>1, <2>2, <2>3 DEF LinkTypeOK, Face, Brake, NoBrake
<1>2. todo \in Scripts /\ PairingInv
  BY DEF Scripts, PairingInv
<1>3. NeverGivesUp
  BY DEF NeverGivesUp
<1>4. DisplayInv
  BY DEF DisplayInv, Announced
<1>5. BrakeInv
  BY DEF BrakeInv, Setting, NoBrake
<1>6. TimerInv /\ RevertInv
  BY DEF TimerInv, RevertInv
<1>7. QED BY <1>1, <1>2, <1>3, <1>4, <1>5, <1>6 DEF LinkIInv

(* The invariant the other theorems rest on.                               *)
THEOREM LinkIInvHolds == ASSUME LinkAssumption PROVE Spec => []LinkIInv
<1>1. Init => LinkIInv
  BY LinkInit
<1>2. LinkIInv /\ [Next]_vars => LinkIInv'
  BY LinkTypeStep, TodoStep, PairingStep, NeverGivesUpStep, DisplayStep, BrakeStep,
     TimerStep, RevertStep DEF LinkIInv, LinkTypeOK
<1>3. QED BY <1>1, <1>2, PTL DEF Spec

(* Retries, display and kill switch agree with the session, whatever the   *)
(* events, timers, reactions and calls run between the steps of a handler. *)
THEOREM LinkSafeHolds == ASSUME LinkAssumption PROVE Spec => []LinkSafe
<1>1. LinkIInv => LinkSafe
  <2> SUFFICES ASSUME LinkIInv PROVE LinkSafe
    OBVIOUS
  <2>1. DisplayHonest
    <3> SUFFICES ASSUME events = <<>>, todo = <<>>, round # "logout", ~hist.crossed
                 PROVE  (sock = "up" => face.conn) /\ (sock = "down" => ~face.conn)
      BY DEF DisplayHonest, Handling
    <3>1. Announced <=> face.conn
      BY DEF Announced
    <3>2. QED BY <3>1 DEF LinkIInv, DisplayInv
  <2>2. BrakeMovesAsPair
    <3> SUFFICES ASSUME ~hist.overlap, Setting = {},
                        "kill" \notin {todo[i] : i \in 1..Len(todo)}
                 PROVE  brake.killed = brake.muted
      BY DEF BrakeMovesAsPair
    <3>1. todo # <<"kill">>
      OBVIOUS
    <3>2. QED BY <3>1 DEF LinkIInv, BrakeInv
  <2>3. QED BY <2>1, <2>2 DEF LinkIInv, LinkSafe
<1>2. QED BY <1>1, LinkIInvHolds, PTL

(* The count of failures goes back to zero only while the last handshake   *)
(* is later than the last retry scheduled.                                 *)
THEOREM ResetOnlyWhenStableHolds ==
    ASSUME LinkAssumption PROVE Spec => ResetOnlyWhenStable
<1>1. LinkIInv /\ [Next]_vars => [backoff'.failures < backoff.failures => ~hist.dropped]_vars
  <2> SUFFICES ASSUME LinkAssumption, LinkTypeOK, TimerInv, [Next]_vars,
                      backoff'.failures < backoff.failures
               PROVE  ~hist.dropped
    BY DEF LinkIInv
  <2> USE DEF LinkTypeOK, Backoff
  <2>1. CASE Stable
    <3>1. MayReset
      <4> SUFFICES ASSUME ~MayReset PROVE FALSE
        OBVIOUS
      <4>1. backoff'.failures = backoff.failures
        BY <2>1 DEF Stable
      <4>2. QED BY <4>1
    <3>2. QED BY <3>1 DEF MayReset, TimerInv
  <2>2. ~Arm /\ ~Fire
    <3>1. Arm \/ Fire => backoff'.failures = backoff.failures
      BY DEF Arm, Fire
    <3>2. QED BY <3>1
  <2>3. ~Schedule /\ ~Retry
    <3>1. Longer(backoff.failures) >= backoff.failures
      BY DEF LinkAssumption, Longer
    <3>2. Schedule \/ Retry => backoff'.failures = Longer(backoff.failures)
      BY DEF Schedule, Retry, Scheduled
    <3>3. Longer(backoff.failures) \in Int /\ backoff.failures \in Int
      BY DEF LinkAssumption, Longer
    <3>4. QED BY <3>1, <3>2, <3>3
  <2>4. backoff' # backoff
    OBVIOUS
  <2> HIDE DEF LinkTypeOK
  <2>5. Stable
    BY <2>2, <2>3, <2>4, NextCases
       DEF vars, Handle, Clear, Show, Mute, Kill, Close, Attempt, PairAgain, PairBegin,
           ShowCode, Scanned, RoundOver, Logout, ShowLogout, Login, Drop, Freeze, Thaw,
           End, Ping, React, SetResting, Revert, SetGovernor, SetMuted, SetKillSwitch
  <2>6. QED BY <2>1, <2>5
<1>2. QED BY <1>1, LinkIInvHolds, PTL DEF Spec, ResetOnlyWhenStable

(* An error or a mute leaves the display only with the session back or by  *)
(* the owner's hand.                                                       *)
THEOREM ErrorStaysHolds == ASSUME LinkAssumption PROVE Spec => ErrorStays
<1>1. LinkIInv /\ [Next]_vars
        => [face.mood \in {"bad", "muted"} /\ face'.mood \in {"rest", "react"} =>
               Clear \/ \E c \in Callers : SetMuted(c)]_vars
  <2> SUFFICES ASSUME LinkTypeOK, RevertInv, [Next]_vars,
                      face.mood \in {"bad", "muted"}, face'.mood \in {"rest", "react"}
               PROVE  Clear \/ \E c \in Callers : SetMuted(c)
    BY DEF LinkIInv
  <2> USE DEF LinkTypeOK, Face
  <2>1. ~Show /\ ~Mute
    BY DEF Show, Mute, Degraded
  <2>2. ~ShowCode /\ ~ShowLogout
    BY DEF ShowCode, ShowLogout
  <2>3. ~React /\ ~SetResting
    BY DEF React, SetResting, System
  <2>4. ASSUME NEW g \in {"current", "stale"}, Revert(g)
        PROVE  FALSE
    BY <2>4 DEF Revert, Reverts, RevertInv
  <2>5. face' # face
    OBVIOUS
  <2> HIDE DEF LinkTypeOK
  <2>6. QED BY <2>1, <2>2, <2>3, <2>4, <2>5, FaceWriters
<1>2. QED BY <1>1, LinkIInvHolds, PTL DEF Spec, ErrorStays

(* Neither half of the kill switch is lifted by anything but the owner's   *)
(* own call.                                                               *)
THEOREM OnlyOwnerLiftsHolds == ASSUME LinkAssumption PROVE Spec => OnlyOwnerLifts
<1>1. LinkIInv /\ [Next]_vars
        => [/\ brake.killed /\ ~brake'.killed => \E c \in Callers : SetGovernor(c)
            /\ brake.muted /\ ~brake'.muted => \E c \in Callers : SetMuted(c)]_vars
  <2> SUFFICES ASSUME LinkTypeOK, [Next]_vars
               PROVE  /\ brake.killed /\ ~brake'.killed => \E c \in Callers : SetGovernor(c)
                      /\ brake.muted /\ ~brake'.muted => \E c \in Callers : SetMuted(c)
    BY DEF LinkIInv
  <2> USE DEF LinkTypeOK, Brake
  <2>1. CASE Mute \/ Kill
    BY <2>1 DEF Mute, Kill
  <2>2. ASSUME NEW c \in Callers, SetGovernor(c)
        PROVE  brake'.muted = brake.muted
    BY <2>2 DEF SetGovernor
  <2>3. ASSUME NEW c \in Callers, SetMuted(c)
        PROVE  brake'.killed = brake.killed
    BY <2>3 DEF SetMuted
  <2>4. ASSUME NEW c \in Callers, NEW k \in BOOLEAN, SetKillSwitch(c, k)
        PROVE  brake'.killed = brake.killed /\ brake'.muted = brake.muted
    BY <2>4 DEF SetKillSwitch
  <2> HIDE DEF LinkTypeOK
  <2>5. QED BY <2>1, <2>2, <2>3, <2>4, BrakeWriters
<1>2. QED BY <1>1, LinkIInvHolds, PTL DEF Spec, OnlyOwnerLifts
=============================================================================
