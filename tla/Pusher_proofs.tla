---------------------------- MODULE Pusher_proofs ----------------------------
(***************************************************************************)
(* Theorems about Pusher for any finite set of messages and any chats,     *)
(* speakers, agents, routes and limits: Contained, BouncedIsTold,          *)
(* HonestReceipts, PusherSafe and, when no caller of send_to_boss has the  *)
(* id of an agent, AgentsKeepInjector are invariants; every step keeps     *)
(* NeverPreempts.                                                          *)
(***************************************************************************)
EXTENDS Pusher, FiniteSetTheorems, WellFoundedInduction, TLAPS

-----------------------------------------------------------------------------
(* The inductive invariant                                                 *)

(* The messages of a burst are of one speaker of one chat.                 *)
OneKey(b) == b # {} /\ \A m, n \in b : Key(m) = Key(n)
BurstsInv == \A b \in pass.todo : OneKey(b)

(* From its registration until Inject returns, a burst has attempts left,  *)
(* its terminal is held by it or has been freed, and no LogInjector stands *)
(* for its agent unless the agent was deleted meanwhile.                   *)
InjectInv ==
    pass.pc \in {"inject", "trying", "posted"} =>
        /\ OneKey(pass.burst) /\ pass.term \in Terminals
        /\ mem.count[Newest(pass.burst)] < MaxRedispatch
        /\ inFlight[pass.term] \in {NoMsg, Newest(pass.burst)}
        /\ pass.pc = "inject" /\ link[pass.term] = "none" => Newest(pass.burst) \in hist.void
        /\ pass.pc = "posted" => pass.term \in hist.got

(* What is being closed are replies to one agent, and the chat knows.      *)
CloseInv ==
    pass.pc = "close" =>
        /\ pass.burst # {}
        /\ \A m \in pass.burst :
              ReplyTo[m] = pass.term /\ <<ReplyTo[m], ChatOf[m]>> \in hist.told

(* Every attempt an agent received is counted, was told to have failed, or *)
(* is the one under way; nothing else is counted.                          *)
UnderWay(m) == IF pass.pc = "posted" /\ Newest(pass.burst) = m THEN 1 ELSE 0
BudgetInv ==
    \A m \in Messages :
        /\ hist.tries[m] <= mem.count[m] + hist.lost[m] + UnderWay(m)
        /\ m \notin hist.void => mem.count[m] + hist.lost[m] + UnderWay(m) <= hist.tries[m]

(* An alarm of this outage is remembered.                                  *)
AlarmInv ==
    \A tc \in Terminals \X Chats :
        hist.alarms[tc] = 0 \/ (hist.alarms[tc] = 1 /\ tc \in mem.notified)

PusherIInv ==
    /\ PusherTypeOK
    /\ BurstsInv /\ InjectInv /\ CloseInv
    /\ BudgetInv /\ AlarmInv
    /\ HeldIsReceived /\ HonestReceipts /\ BouncedIsTold

-----------------------------------------------------------------------------
(* The newest and the oldest of a burst                                    *)

LEMMA FiniteHasMax ==
    ASSUME NEW S \in SUBSET Int, IsFiniteSet(S), S # {}
    PROVE  \E m \in S : \A k \in S : k <= m
<1> DEFINE Maxless == {T \in FiniteSubsetsOf(S) : T # {} /\ ~\E m \in T : \A k \in T : k <= m}
<1>1. SUFFICES ASSUME Maxless # {} PROVE FALSE
  BY DEF FiniteSubsetsOf
<1>2. PICK T \in Maxless : \A U \in Maxless : ~(<<U, T>> \in StrictSubsetOrdering(S))
  <2>1. Maxless \subseteq FiniteSubsetsOf(S)
    OBVIOUS
  <2> HIDE DEF Maxless
  <2>2. QED BY <1>1, <2>1, WFMin, FS_StrictSubsetOrderingWellFounded
<1>3. PICK x \in T : TRUE
  OBVIOUS
<1>4. T \subseteq S /\ IsFiniteSet(T) /\ T # {}
  BY DEF FiniteSubsetsOf
<1>5. T \ {x} \in FiniteSubsetsOf(S) /\ <<T \ {x}, T>> \in StrictSubsetOrdering(S)
  BY <1>3, <1>4, FS_RemoveElement DEF FiniteSubsetsOf, StrictSubsetOrdering
<1>6. T \ {x} \notin Maxless
  BY <1>2, <1>5
<1>7. CASE T \ {x} = {}
  BY <1>7, <1>4
<1>8. CASE T \ {x} # {}
  <2>1. PICK m \in T \ {x} : \A k \in T \ {x} : k <= m
    BY <1>5, <1>6, <1>8
  <2>2. \A k \in T : k <= (IF x <= m THEN m ELSE x)
    BY <2>1, <1>3, <1>4
  <2>3. (IF x <= m THEN m ELSE x) \in T
    OBVIOUS
  <2>4. QED BY <2>2, <2>3
<1>9. QED BY <1>7, <1>8

LEMMA NewestIs ==
    ASSUME PusherAssumption, NEW b \in SUBSET Messages, b # {}
    PROVE  Newest(b) \in b /\ Newest(b) \in Messages
<1>0. Messages \subseteq Nat /\ IsFiniteSet(Messages)
  BY DEF PusherAssumption
<1>a. IsFiniteSet(b)
  BY <1>0, FS_Subset
<1>b. \A x \in b : x \in Int
  BY <1>0
<1>1. b \in SUBSET Int /\ IsFiniteSet(b)
  BY <1>a, <1>b
<1>2. \E m \in b : \A n \in b : n <= m
  BY <1>1, FiniteHasMax
<1>3. QED BY <1>2 DEF Newest

LEMMA OldestIs ==
    ASSUME PusherAssumption, NEW b \in SUBSET Messages, b # {}
    PROVE  Oldest(b) \in b
<1>1. b \subseteq Nat
  BY DEF PusherAssumption
<1>2. PICK m \in b : \A n \in b : ~(<<n, m>> \in OpToRel(<, Nat))
  BY <1>1, WFMin, NatLessThanWellFounded
<1>3. \A n \in b : ~(n < m)
  <2> SUFFICES ASSUME NEW n \in b PROVE ~(n < m)
    OBVIOUS
  <2>1. n \in Nat /\ m \in Nat /\ ~(<<n, m>> \in OpToRel(<, Nat))
    BY <1>1, <1>2
  <2>2. QED BY <2>1 DEF OpToRel
<1>4. \A n \in b : m <= n
  BY <1>1, <1>3
<1>5. QED BY <1>4 DEF Oldest

LEMMA BurstsAreDue ==
    /\ dueChats \subseteq SUBSET Messages
    /\ \A b \in dueChats : OneKey(b)
BY DEF dueChats, PendingDedicated, Pending, OneKey

(* Every burst of one speaker goes to some terminal.                       *)
LEMMA RouteIs ==
    ASSUME PusherAssumption, NEW b \in SUBSET Messages, OneKey(b)
    PROVE  /\ Route(b) \in Terminals /\ Chat(b) \in Chats
           /\ IsReply(b) => \E m \in b : ReplyTo[m] = Route(b)
           /\ \A m \in b : ChatOf[m] = Chat(b)
<1>1. Newest(b) \in b /\ Newest(b) \in Messages
  BY NewestIs DEF OneKey
<1>2. Chat(b) \in Chats /\ ReplyTo[Newest(b)] \in Terminals \cup {NoTerm}
  BY <1>1 DEF PusherAssumption, Chat
<1>3. /\ Exclusive[Chat(b)] \in Terminals \cup {NoTerm}
      /\ RouterTo[Chat(b)] \in Terminals \cup {NoTerm}
      /\ DefaultTo[Chat(b)] \in Terminals \cup {NoTerm}
      /\ Fallback \in Terminals
  BY <1>2 DEF PusherAssumption
<1>4. Route(b) \in Terminals
  BY <1>2, <1>3 DEF Route, IsReply, Registered
<1>5. IsReply(b) => ReplyTo[Newest(b)] = Route(b)
  BY DEF Route
<1>6. \A m \in b : ChatOf[m] = ChatOf[Newest(b)]
  BY <1>1 DEF OneKey, Key
<1>7. QED BY <1>1, <1>2, <1>4, <1>5, <1>6 DEF Chat

LEMMA NoPassIs ==
    /\ NoPass \in Pass
    /\ NoPass.pc = "ready" /\ NoPass.todo = {} /\ NoPass.burst = {} /\ NoPass.term = NoTerm
BY DEF NoPass, Pass

LEMMA NextCases ==
    ASSUME [Next]_vars
    PROVE  \/ BeginSweep \/ CloseReply \/ LookUp \/ Post
           \/ \E b \in pass.todo : Hold(b)
           \/ \E b \in pass.todo : NotifyUnreachable(b)
           \/ \E b \in pass.todo : Dispatch(b)
           \/ InjectOk \/ InjectFail \/ TerminalGone
           \/ Restart \/ SetConfig
           \/ \E t \in Terminals : AgentUpsert(t)
           \/ \E t \in Terminals : AgentDelete(t)
           \/ \E t \in Terminals : Attach(t)
           \/ \E t \in Terminals : SetExpiry(t)
           \/ \E t \in Terminals : Answer(t)
           \/ \E t \in Terminals : Reclaim(t)
           \/ \E t \in Terminals : OutageLasts(t)
           \/ \E m \in Messages : Arrive(m)
           \/ \E m \in Messages : MarkHandled(m)
           \/ \E m \in Messages : Reopen(m)
           \/ \E m \in Messages : GrowOlder(m)
           \/ \E m \in Messages : BackoffElapses(m)
           \/ UNCHANGED vars
BY DEF Next, SweepStep, InjectReturns


-----------------------------------------------------------------------------
(* Type correctness                                                        *)

LEMMA Types ==
    ASSUME PusherTypeOK
    PROVE  /\ msg \in [Messages -> {"absent", "pending", "answered", "bounced"}]
           /\ age \in [Messages -> Fresh..AgeLimit]
           /\ link \in [Terminals -> Links]
           /\ ephemeral \subseteq Terminals /\ attaching \subseteq Terminals
           /\ agents \subseteq AgentIds
           /\ inFlight \in [Terminals -> Messages \cup {NoMsg}]
           /\ mem \in Memory /\ pass \in Pass /\ hist \in History
BY DEF PusherTypeOK

(* The turn of a burst has a newest message, a chat and a terminal.        *)
LEMMA TurnIs ==
    ASSUME PusherAssumption, PusherTypeOK, BurstsInv, NEW b \in pass.todo
    PROVE  /\ b \in SUBSET Messages /\ b # {} /\ OneKey(b)
           /\ Newest(b) \in b /\ Newest(b) \in Messages
           /\ Route(b) \in Terminals /\ Chat(b) \in Chats
<1>1. b \in SUBSET Messages /\ OneKey(b)
  BY Types DEF Pass, BurstsInv
<1>2. b # {}
  BY <1>1 DEF OneKey
<1>3. QED BY <1>1, <1>2, NewestIs, RouteIs

(* So has the burst being injected.                                        *)
LEMMA InjectedIs ==
    ASSUME PusherAssumption, PusherTypeOK, InjectInv, pass.pc \in {"inject", "trying", "posted"}
    PROVE  /\ pass.burst \in SUBSET Messages /\ OneKey(pass.burst)
           /\ Newest(pass.burst) \in pass.burst /\ Newest(pass.burst) \in Messages
           /\ pass.term \in Terminals /\ Chat(pass.burst) \in Chats
<1>1. pass.burst \in SUBSET Messages /\ OneKey(pass.burst) /\ pass.term \in Terminals
  BY Types DEF Pass, InjectInv
<1>2. QED BY <1>1, NewestIs, RouteIs DEF OneKey

(* The pass goes on after a burst.                                         *)
LEMMA NextBurst ==
    ASSUME pass \in Pass, pass' = [NoPass EXCEPT !.todo = pass.todo]
    PROVE  /\ pass' \in Pass
           /\ pass'.pc = "ready" /\ pass'.todo = pass.todo
BY DEF NoPass, Pass

(* mem after a message or a terminal was counted.                          *)
LEMMA MemoryTypes ==
    ASSUME PusherAssumption, mem \in Memory, NEW t \in Terminals
    PROVE  /\ ChannelRecovered(t) \in Memory /\ ChannelDown(t) \in Memory
           /\ ChannelRecovered(t).count = mem.count /\ ChannelDown(t).count = mem.count
           /\ ChannelRecovered(t).cooling = mem.cooling
           /\ ChannelDown(t).notified = mem.notified
           /\ ChannelRecovered(t).notified = {tc \in mem.notified : tc[1] # t}
BY DEF ChannelRecovered, ChannelDown, Memory

LEMMA SweepTypes ==
    ASSUME PusherAssumption, PusherTypeOK, BeginSweep
    PROVE  /\ PusherTypeOK'
           /\ \A m \in Messages :
                 /\ mem'.count[m] = IF m \in Anchors THEN mem.count[m] ELSE 0
                 /\ hist'.tries[m] = IF m \in Anchors THEN hist.tries[m] ELSE 0
                 /\ hist'.lost[m] = IF m \in Anchors THEN hist.lost[m] ELSE 0
           /\ hist'.void = hist.void \cap (Anchors \cup {inFlight[t] : t \in Terminals})
           /\ mem'.notified = mem.notified /\ hist'.alarms = hist.alarms
           /\ hist'.got = hist.got /\ hist'.told = hist.told
           /\ hist'.falseReceipts = hist.falseReceipts
           /\ pass'.pc = "ready" /\ pass'.todo \subseteq dueChats
<1>0. mem \in Memory /\ pass \in Pass /\ hist \in History /\ MaxRedispatch \in Nat
  BY Types DEF PusherAssumption
<1> DEFINE kept(f) == [m \in Messages |-> IF m \in Anchors THEN f[m] ELSE 0]
           count == kept(mem.count)
           tries == kept(hist.tries)
           lost == kept(hist.lost)
           void == hist.void \cap (Anchors \cup {inFlight[t] : t \in Terminals})
           todo == {b \in dueChats : ~Withheld(b)}
           cooling == mem.cooling \cap Anchors
<1>1. /\ count \in [Messages -> 0..MaxRedispatch] /\ cooling \subseteq Messages
      /\ tries \in [Messages -> Nat] /\ lost \in [Messages -> Nat] /\ void \subseteq Messages
  BY <1>0 DEF Memory, History
<1>2. todo \in SUBSET SUBSET Messages /\ todo \subseteq dueChats
  BY BurstsAreDue
<1>3. /\ mem' = [mem EXCEPT !.count = count, !.cooling = cooling]
      /\ hist' = [hist EXCEPT !.tries = tries, !.lost = lost, !.void = void]
      /\ pass' = [pass EXCEPT !.todo = todo] /\ pass.pc = "ready"
  BY DEF BeginSweep, Anchors, Idle
<1>4. \A m \in Messages :
         /\ count[m] = IF m \in Anchors THEN mem.count[m] ELSE 0
         /\ tries[m] = IF m \in Anchors THEN hist.tries[m] ELSE 0
         /\ lost[m] = IF m \in Anchors THEN hist.lost[m] ELSE 0
  OBVIOUS
<1>5. /\ link' \in [Terminals -> Links] /\ ephemeral' \subseteq ephemeral
      /\ UNCHANGED <<msg, age, attaching, agents, inFlight>>
  BY Types DEF BeginSweep, Links
<1> HIDE DEF count, tries, lost, todo, cooling
<1>6. /\ mem' \in Memory /\ mem'.count = count /\ mem'.notified = mem.notified
  BY <1>0, <1>1, <1>3 DEF Memory
<1> HIDE DEF void
<1>7. /\ hist' \in History /\ hist'.tries = tries /\ hist'.lost = lost /\ hist'.void = void
      /\ hist'.alarms = hist.alarms /\ hist'.got = hist.got /\ hist'.told = hist.told
      /\ hist'.falseReceipts = hist.falseReceipts
  BY <1>0, <1>1, <1>3 DEF History
<1>8. pass' \in Pass /\ pass'.pc = "ready" /\ pass'.todo = todo
  BY <1>0, <1>2, <1>3 DEF Pass
<1>9. PusherTypeOK'
  BY <1>5, <1>6, <1>7, <1>8, Types DEF PusherTypeOK
<1>10. void = hist.void \cap (Anchors \cup {inFlight[t] : t \in Terminals})
  BY DEF void
<1>11. QED BY <1>2, <1>4, <1>6, <1>7, <1>8, <1>9, <1>10


-----------------------------------------------------------------------------
(* Steps beside the pass                                                   *)

(* What the steps of everybody but the pass have in common: they may free  *)
(* a terminal, never take one, and change neither budgets nor notices.     *)
Aside ==
    /\ pass' \in Pass
    /\ pass'.pc = pass.pc /\ pass'.todo \subseteq pass.todo
    /\ pass'.burst = pass.burst /\ pass'.term = pass.term
    /\ mem' \in Memory /\ mem'.count = mem.count /\ mem'.notified = mem.notified
    /\ hist' \in History /\ hist.void \subseteq hist'.void
    /\ \E void : hist' = [hist EXCEPT !.void = void]
    /\ inFlight' \in [Terminals -> Messages \cup {NoMsg}]
    /\ \A t \in Terminals : inFlight'[t] \in {NoMsg, inFlight[t]}
    /\ pass.pc = "inject" /\ link'[pass.term] = "none" =>
          link[pass.term] = "none" \/ Newest(pass.burst) \in hist'.void
    /\ \A m \in Messages : msg'[m] = "bounced" => msg[m] = "bounced"

LEMMA AsideKeeps ==
    ASSUME PusherIInv, Aside
    PROVE  /\ BurstsInv' /\ InjectInv' /\ CloseInv' /\ BudgetInv' /\ AlarmInv'
           /\ HeldIsReceived' /\ HonestReceipts' /\ BouncedIsTold'
<1>0. /\ hist \in History /\ hist' \in History /\ pass \in Pass
      /\ inFlight \in [Terminals -> Messages \cup {NoMsg}]
      /\ BurstsInv /\ InjectInv /\ CloseInv /\ BudgetInv /\ AlarmInv
      /\ HeldIsReceived /\ HonestReceipts /\ BouncedIsTold
  BY Types DEF PusherIInv, Aside
<1>1. /\ hist'.tries = hist.tries /\ hist'.lost = hist.lost /\ hist'.got = hist.got
      /\ hist'.told = hist.told /\ hist'.alarms = hist.alarms
      /\ hist'.falseReceipts = hist.falseReceipts
  BY <1>0 DEF Aside, History
<1>2. BurstsInv'
  BY <1>0 DEF Aside, BurstsInv
<1>3. InjectInv'
  <2> SUFFICES ASSUME pass.pc \in {"inject", "trying", "posted"}
               PROVE  InjectInv'
    BY DEF Aside, InjectInv
  <2>1. /\ OneKey(pass.burst) /\ pass.term \in Terminals
        /\ mem.count[Newest(pass.burst)] < MaxRedispatch
        /\ inFlight[pass.term] \in {NoMsg, Newest(pass.burst)}
        /\ pass.pc = "inject" /\ link[pass.term] = "none" => Newest(pass.burst) \in hist.void
        /\ pass.pc = "posted" => pass.term \in hist.got
    BY <1>0 DEF InjectInv
  <2>2. inFlight'[pass.term] \in {NoMsg, Newest(pass.burst)}
    BY <2>1 DEF Aside
  <2>3. QED BY <1>1, <2>1, <2>2 DEF Aside, InjectInv
<1>4. CloseInv'
  BY <1>0, <1>1 DEF Aside, CloseInv
<1>5. BudgetInv'
  <2>1. \A m \in Messages : UnderWay(m)' = UnderWay(m)
    BY DEF Aside, UnderWay
  <2>2. QED BY <1>0, <1>1, <2>1 DEF Aside, BudgetInv
<1>6. AlarmInv'
  BY <1>0, <1>1 DEF Aside, AlarmInv
<1>7. HeldIsReceived'
  <2> SUFFICES ASSUME NEW t \in Terminals, inFlight'[t] # NoMsg
               PROVE  InUse(t)' \/ t \in hist'.got \/ inFlight'[t] \in hist'.void
    BY DEF HeldIsReceived
  <2>1. inFlight'[t] = inFlight[t] /\ InUse(t)' = InUse(t)
    BY DEF Aside, InUse
  <2>2. QED BY <1>0, <1>1, <2>1 DEF Aside, HeldIsReceived
<1>8. HonestReceipts' /\ BouncedIsTold'
  BY <1>0, <1>1 DEF Aside, HonestReceipts, BouncedIsTold
<1>9. QED BY <1>2, <1>3, <1>4, <1>5, <1>6, <1>7, <1>8

(* The steps of others, and the pass passing over a burst.                 *)
Others ==
    \/ \E b \in pass.todo : Hold(b)
    \/ SetConfig
    \/ \E t \in Terminals : AgentUpsert(t) \/ AgentDelete(t) \/ Attach(t) \/ SetExpiry(t)
    \/ \E t \in Terminals : Answer(t) \/ Reclaim(t) \/ OutageLasts(t)
    \/ \E m \in Messages : Arrive(m) \/ MarkHandled(m) \/ Reopen(m)
    \/ \E m \in Messages : GrowOlder(m) \/ BackoffElapses(m)
    \/ UNCHANGED vars

LEMMA OthersAside ==
    ASSUME PusherAssumption, PusherIInv, Others
    PROVE  PusherTypeOK' /\ Aside
<1>0. /\ msg \in [Messages -> {"absent", "pending", "answered", "bounced"}]
      /\ age \in [Messages -> Fresh..AgeLimit]
      /\ link \in [Terminals -> Links]
      /\ ephemeral \subseteq Terminals /\ attaching \subseteq Terminals
      /\ agents \subseteq AgentIds
      /\ inFlight \in [Terminals -> Messages \cup {NoMsg}]
      /\ mem \in Memory /\ pass \in Pass /\ hist \in History
  BY Types DEF PusherIInv
<1>1. \E void : hist = [hist EXCEPT !.void = void]
  <2>1. hist = [hist EXCEPT !.void = hist.void]
    BY <1>0 DEF History
  <2>2. QED BY <2>1
<1>2. ASSUME UNCHANGED <<age, antennas, inFlight, mem, pass, hist>>,
             msg' \in [Messages -> {"absent", "pending", "answered", "bounced"}],
             \A m \in Messages : msg'[m] = "bounced" => msg[m] = "bounced"
      PROVE  PusherTypeOK' /\ Aside
  BY <1>0, <1>1, <1>2 DEF antennas, PusherTypeOK, Aside
<1>3. ASSUME UNCHANGED <<msg, age, antennas, mem, pass, hist>>,
             inFlight' \in [Terminals -> Messages \cup {NoMsg}],
             \A t \in Terminals : inFlight'[t] \in {NoMsg, inFlight[t]}
      PROVE  PusherTypeOK' /\ Aside
  BY <1>0, <1>1, <1>3 DEF antennas, PusherTypeOK, Aside
<1>4. ASSUME NEW b \in pass.todo, Hold(b) PROVE PusherTypeOK' /\ Aside
  <2>1. pass' = [pass EXCEPT !.todo = pass.todo \ {b}]
    BY <1>4 DEF Hold
  <2>2. /\ pass' \in Pass /\ pass'.pc = pass.pc /\ pass'.todo \subseteq pass.todo
        /\ pass'.burst = pass.burst /\ pass'.term = pass.term
    BY <1>0, <2>1 DEF Pass
  <2>3. UNCHANGED <<msg, age, antennas, inFlight, mem, hist>>
    BY <1>4 DEF Hold
  <2>4. QED BY <1>0, <1>1, <2>2, <2>3 DEF antennas, PusherTypeOK, Aside
<1>5. CASE SetConfig
  <2>1. /\ link' \in [Terminals -> Links]
        /\ \A t \in Terminals : link'[t] = "none" => link[t] = "none"
        /\ UNCHANGED <<msg, age, ephemeral, attaching, agents, inFlight, mem, pass, hist>>
    BY <1>0, <1>5 DEF SetConfig, Links
  <2>2. pass.pc = "inject" => pass.term \in Terminals
    BY DEF PusherIInv, InjectInv
  <2>3. QED BY <1>0, <1>1, <2>1, <2>2 DEF PusherTypeOK, Aside
<1>6. ASSUME NEW t \in Terminals, NEW to \in Links, RegisterInjector(t, to)
      PROVE  /\ link' \in [Terminals -> Links] /\ ephemeral' \subseteq Terminals
             /\ pass' \in Pass /\ pass'.pc = pass.pc /\ pass'.todo = pass.todo
             /\ pass'.burst = pass.burst /\ pass'.term = pass.term
             /\ \A u \in Terminals : link'[u] = IF u = t THEN to ELSE link[u]
  <2>1. (pass.stale \/ Trying(t)) \in BOOLEAN
    BY <1>0 DEF Pass
  <2>2. pass' = [pass EXCEPT !.stale = pass.stale \/ Trying(t)]
    BY <1>6 DEF RegisterInjector
  <2>3. /\ pass' \in Pass /\ pass'.pc = pass.pc /\ pass'.todo = pass.todo
        /\ pass'.burst = pass.burst /\ pass'.term = pass.term
    BY <1>0, <2>1, <2>2 DEF Pass
  <2>4. QED BY <1>0, <1>6, <2>3 DEF RegisterInjector
<1>7. pass.pc = "inject" => pass.term \in Terminals
  BY DEF PusherIInv, InjectInv
<1>8. ASSUME NEW t \in Terminals, AgentUpsert(t) PROVE PusherTypeOK' /\ Aside
  <2>1. PICK to \in {"unconfigured", "wired"} : RegisterInjector(t, to)
    BY <1>8 DEF AgentUpsert
  <2>2. to \in Links /\ to # "none"
    BY DEF Links
  <2>3. /\ UNCHANGED <<msg, age, attaching, inFlight, mem, hist>>
        /\ agents' \subseteq AgentIds
    BY <1>0, <1>8 DEF AgentUpsert
  <2>4. QED BY <1>0, <1>1, <1>6, <1>7, <2>1, <2>2, <2>3 DEF PusherTypeOK, Aside
<1>9. ASSUME NEW t \in Terminals, Attach(t) PROVE PusherTypeOK' /\ Aside
  <2>1. RegisterInjector(t, "wired") /\ "wired" \in Links /\ "wired" # "none"
    BY <1>9 DEF Attach, Links
  <2>2. /\ UNCHANGED <<msg, age, agents, inFlight, mem, hist>>
        /\ attaching' \subseteq Terminals
    BY <1>0, <1>9 DEF Attach
  <2>3. QED BY <1>0, <1>1, <1>6, <1>7, <2>1, <2>2 DEF PusherTypeOK, Aside
<1>10. ASSUME NEW t \in Terminals, AgentDelete(t) PROVE PusherTypeOK' /\ Aside
  <2>1. RegisterInjector(t, "none") /\ "none" \in Links
    BY <1>10 DEF AgentDelete, Links
  <2>2. /\ UNCHANGED <<msg, age, attaching, inFlight, mem>>
        /\ agents' \subseteq AgentIds
    BY <1>0, <1>10 DEF AgentDelete
  <2>3. PICK V : V = IF AboutTo(t) THEN hist.void \cup {Newest(pass.burst)} ELSE hist.void
    OBVIOUS
  <2>4. hist' = [hist EXCEPT !.void = V]
    BY <1>10, <2>3 DEF AgentDelete
  <2>5. AboutTo(t) => Newest(pass.burst) \in Messages
    <3>1. AboutTo(t) => pass.pc \in {"inject", "trying", "posted"}
      BY DEF AboutTo
    <3>2. QED BY <3>1, InjectedIs DEF PusherIInv
  <2>6. V \subseteq Messages /\ hist.void \subseteq V
    BY <1>0, <2>3, <2>5 DEF History
  <2>7. hist' \in History /\ hist'.void = V
    BY <1>0, <2>4, <2>6 DEF History
  <2>8. pass.pc = "inject" /\ link'[pass.term] = "none" =>
           link[pass.term] = "none" \/ Newest(pass.burst) \in V
    BY <1>6, <1>7, <2>1, <2>3 DEF AboutTo
  <2>9. QED BY <1>0, <1>6, <2>1, <2>2, <2>4, <2>6, <2>7, <2>8 DEF PusherTypeOK, Aside
<1>11. ASSUME NEW t \in Terminals, SetExpiry(t) PROVE PusherTypeOK' /\ Aside
  BY <1>0, <1>1, <1>11 DEF SetExpiry, PusherTypeOK, Aside
<1>12. ASSUME NEW t \in Terminals, Answer(t) PROVE PusherTypeOK' /\ Aside
  <2>1. /\ msg' \in [Messages -> {"absent", "pending", "answered", "bounced"}]
        /\ \A m \in Messages : msg'[m] = "bounced" => msg[m] = "bounced"
    BY <1>0, <1>12 DEF Answer, Handle
  <2>2. /\ inFlight' \in [Terminals -> Messages \cup {NoMsg}]
        /\ \A u \in Terminals : inFlight'[u] \in {NoMsg, inFlight[u]}
        /\ UNCHANGED <<age, antennas, mem, pass, hist>>
    BY <1>0, <1>12 DEF Answer
  <2>3. QED BY <1>0, <1>1, <2>1, <2>2 DEF antennas, PusherTypeOK, Aside
<1>13. ASSUME NEW t \in Terminals, Reclaim(t) PROVE PusherTypeOK' /\ Aside
  <2>1. /\ inFlight' \in [Terminals -> Messages \cup {NoMsg}]
        /\ \A u \in Terminals : inFlight'[u] \in {NoMsg, inFlight[u]}
    BY <1>0, <1>13 DEF Reclaim
  <2>2. QED BY <1>3, <1>13, <2>1 DEF Reclaim
<1>14. ASSUME mem' \in Memory, mem'.count = mem.count, mem'.notified = mem.notified,
              UNCHANGED <<msg, age, antennas, inFlight, pass, hist>>
       PROVE  PusherTypeOK' /\ Aside
  BY <1>0, <1>1, <1>14 DEF antennas, PusherTypeOK, Aside
<1>15. ASSUME NEW t \in Terminals, OutageLasts(t) PROVE PusherTypeOK' /\ Aside
  <2>1. mem' \in Memory /\ mem'.count = mem.count /\ mem'.notified = mem.notified
    BY <1>0, <1>15 DEF OutageLasts, Memory
  <2>2. QED BY <1>14, <1>15, <2>1 DEF OutageLasts
<1>16. ASSUME NEW m \in Messages, BackoffElapses(m) PROVE PusherTypeOK' /\ Aside
  <2>1. mem' \in Memory /\ mem'.count = mem.count /\ mem'.notified = mem.notified
    BY <1>0, <1>16 DEF BackoffElapses, Memory
  <2>2. QED BY <1>14, <1>16, <2>1 DEF BackoffElapses
<1>17. ASSUME NEW m \in Messages, Arrive(m) \/ MarkHandled(m) \/ Reopen(m)
       PROVE  PusherTypeOK' /\ Aside
  <2>1. /\ msg' \in [Messages -> {"absent", "pending", "answered", "bounced"}]
        /\ \A n \in Messages : msg'[n] = "bounced" => msg[n] = "bounced"
    BY <1>0, <1>17 DEF Arrive, MarkHandled, Reopen, Handle
  <2>2. QED BY <1>2, <1>17, <2>1 DEF Arrive, MarkHandled, Reopen
<1>18. ASSUME NEW m \in Messages, GrowOlder(m) PROVE PusherTypeOK' /\ Aside
  <2>1. age' \in [Messages -> Fresh..AgeLimit]
    BY <1>0, <1>18 DEF GrowOlder, Fresh, PusherAssumption
  <2>2. UNCHANGED <<msg, antennas, inFlight, mem, pass, hist>>
    BY <1>18 DEF GrowOlder
  <2>3. QED BY <1>0, <1>1, <2>1, <2>2 DEF antennas, PusherTypeOK, Aside
<1>19. CASE UNCHANGED vars
  BY <1>0, <1>1, <1>19 DEF vars, PusherTypeOK, Aside
<1>20. QED
  BY <1>4, <1>5, <1>8, <1>9, <1>10, <1>11, <1>12, <1>13, <1>15, <1>16, <1>17, <1>18, <1>19
  DEF Others


-----------------------------------------------------------------------------
(* Steps of the pass                                                       *)

LEMMA BeginSweepKeeps ==
    ASSUME PusherAssumption, PusherIInv, BeginSweep
    PROVE  PusherIInv'
<1>0. /\ PusherTypeOK' /\ PusherTypeOK
      /\ \A m \in Messages :
            /\ mem'.count[m] = IF m \in Anchors THEN mem.count[m] ELSE 0
            /\ hist'.tries[m] = IF m \in Anchors THEN hist.tries[m] ELSE 0
            /\ hist'.lost[m] = IF m \in Anchors THEN hist.lost[m] ELSE 0
      /\ hist'.void = hist.void \cap (Anchors \cup {inFlight[t] : t \in Terminals})
      /\ mem'.notified = mem.notified /\ hist'.alarms = hist.alarms
      /\ hist'.got = hist.got /\ hist'.told = hist.told
      /\ hist'.falseReceipts = hist.falseReceipts
      /\ pass'.pc = "ready" /\ pass'.todo \subseteq dueChats
  BY SweepTypes DEF PusherIInv
<1>1. BurstsInv'
  BY <1>0, BurstsAreDue DEF BurstsInv
<1>2. InjectInv' /\ CloseInv'
  BY <1>0 DEF InjectInv, CloseInv
<1>3. BudgetInv'
  <2> SUFFICES ASSUME NEW m \in Messages
               PROVE  /\ hist'.tries[m] <= mem'.count[m] + hist'.lost[m] + 0
                      /\ m \notin hist'.void => mem'.count[m] + hist'.lost[m] + 0 <= hist'.tries[m]
    BY <1>0 DEF BudgetInv, UnderWay
  <2>1. CASE m \in Anchors
    <3>1. UnderWay(m) = 0
      BY DEF BeginSweep, Idle, UnderWay
    <3>2. /\ hist.tries[m] <= mem.count[m] + hist.lost[m] + 0
          /\ m \notin hist.void => mem.count[m] + hist.lost[m] + 0 <= hist.tries[m]
      BY <3>1 DEF PusherIInv, BudgetInv
    <3>3. QED BY <1>0, <2>1, <3>2
  <2>2. CASE m \notin Anchors
    BY <1>0, <2>2
  <2>3. QED BY <2>1, <2>2
<1>4. AlarmInv'
  BY <1>0 DEF PusherIInv, AlarmInv
<1>5. HeldIsReceived'
  <2> SUFFICES ASSUME NEW t \in Terminals, inFlight'[t] # NoMsg
               PROVE  t \in hist'.got \/ inFlight'[t] \in hist'.void
    BY DEF HeldIsReceived
  <2>1. inFlight' = inFlight /\ ~InUse(t)
    BY DEF BeginSweep, Idle, InUse
  <2>2. t \in hist.got \/ inFlight[t] \in hist.void
    BY <2>1 DEF PusherIInv, HeldIsReceived
  <2>3. QED BY <1>0, <2>1, <2>2
<1>6. HonestReceipts'
  BY <1>0 DEF PusherIInv, HonestReceipts
<1>7. BouncedIsTold'
  BY <1>0 DEF BeginSweep, PusherIInv, BouncedIsTold
<1>8. QED BY <1>0, <1>1, <1>2, <1>3, <1>4, <1>5, <1>6, <1>7 DEF PusherIInv

(* A step of the pass that leaves budgets, alarms and receipts alone.      *)
LEMMA BooksKept ==
    ASSUME PusherIInv, pass.pc # "posted", pass'.pc # "posted",
           mem'.count = mem.count, mem'.notified = mem.notified,
           hist'.tries = hist.tries, hist'.lost = hist.lost, hist'.void = hist.void,
           hist'.alarms = hist.alarms, hist'.falseReceipts = hist.falseReceipts
    PROVE  BudgetInv' /\ AlarmInv' /\ HonestReceipts'
<1>1. \A m \in Messages : UnderWay(m)' = UnderWay(m)
  BY DEF UnderWay
<1>2. QED BY <1>1 DEF PusherIInv, BudgetInv, AlarmInv, HonestReceipts

LEMMA NotifyKeeps ==
    ASSUME PusherAssumption, PusherIInv, NEW b \in pass.todo, NotifyUnreachable(b)
    PROVE  PusherIInv'
<1>0. /\ mem \in Memory /\ pass \in Pass /\ hist \in History /\ PusherTypeOK
      /\ BurstsInv /\ HeldIsReceived /\ BouncedIsTold
  BY Types DEF PusherIInv
<1>1. /\ b \in SUBSET Messages /\ OneKey(b) /\ Newest(b) \in b /\ Newest(b) \in Messages
      /\ Route(b) \in Terminals /\ Chat(b) \in Chats
      /\ pass.pc = "ready" /\ IsReply(b)
      /\ UNCHANGED <<msg, age, antennas, inFlight, mem>>
  BY <1>0, TurnIs DEF NotifyUnreachable, Turn
<1>2. PICK told : told = hist.told \cup {<<Route(b), Chat(b)>>}
  OBVIOUS
<1>3. told \subseteq Terminals \X Chats /\ hist.told \subseteq told /\ <<Route(b), Chat(b)>> \in told
  BY <1>0, <1>1, <1>2 DEF History
<1>4. hist' = [hist EXCEPT !.told = told]
  BY <1>2 DEF NotifyUnreachable
<1>5. /\ hist' \in History /\ hist'.told = told /\ hist'.got = hist.got
      /\ hist'.tries = hist.tries /\ hist'.lost = hist.lost /\ hist'.void = hist.void
      /\ hist'.alarms = hist.alarms /\ hist'.falseReceipts = hist.falseReceipts
  BY <1>0, <1>3, <1>4 DEF History
<1>6. RepliesTo(b, Route(b)) \in SUBSET Messages
  BY <1>1 DEF RepliesTo
<1>7. pass' = [pass EXCEPT !.pc = "close", !.todo = pass.todo \ {b},
                           !.burst = RepliesTo(b, Route(b)), !.term = Route(b)]
  BY DEF NotifyUnreachable
<1>8. /\ pass' \in Pass /\ pass'.pc = "close" /\ pass'.todo \subseteq pass.todo
      /\ pass'.burst = RepliesTo(b, Route(b)) /\ pass'.term = Route(b)
  BY <1>0, <1>1, <1>6, <1>7 DEF Pass
<1>9. PusherTypeOK'
  BY <1>0, <1>1, <1>5, <1>8, Types DEF antennas, PusherTypeOK
<1>10. BurstsInv' /\ InjectInv'
  BY <1>0, <1>8 DEF BurstsInv, InjectInv
<1>11. CloseInv'
  <2>1. PICK m \in b : ReplyTo[m] = Route(b)
    BY <1>1, RouteIs
  <2>2. RepliesTo(b, Route(b)) # {}
    BY <2>1 DEF RepliesTo
  <2>3. \A n \in RepliesTo(b, Route(b)) : ReplyTo[n] = Route(b) /\ ChatOf[n] = Chat(b)
    BY <1>1, RouteIs DEF RepliesTo
  <2>4. QED BY <1>3, <1>5, <1>8, <2>2, <2>3 DEF CloseInv
<1>12. BudgetInv' /\ AlarmInv' /\ HonestReceipts'
  BY <1>1, <1>5, <1>8, BooksKept
<1>13. HeldIsReceived'
  BY <1>0, <1>1, <1>5, <1>8 DEF HeldIsReceived, InUse
<1>14. BouncedIsTold'
  BY <1>0, <1>1, <1>3, <1>5 DEF BouncedIsTold
<1>15. QED BY <1>9, <1>10, <1>11, <1>12, <1>13, <1>14 DEF PusherIInv

LEMMA CloseReplyKeeps ==
    ASSUME PusherAssumption, PusherIInv, CloseReply
    PROVE  PusherIInv'
<1>0. /\ msg \in [Messages -> {"absent", "pending", "answered", "bounced"}]
      /\ pass \in Pass /\ PusherTypeOK
      /\ BurstsInv /\ CloseInv /\ HeldIsReceived /\ BouncedIsTold
      /\ pass.pc = "close" /\ UNCHANGED <<age, antennas, inFlight, mem, hist>>
  BY Types DEF PusherIInv, CloseReply
<1>1. PICK m, left : m = Oldest(pass.burst) /\ left = pass.burst \ {m}
  OBVIOUS
<1>2. /\ m \in pass.burst /\ m \in Messages /\ left \subseteq pass.burst
      /\ <<ReplyTo[m], ChatOf[m]>> \in hist.told
      /\ left \in SUBSET Messages
  <2>1. pass.burst \in SUBSET Messages /\ pass.burst # {}
    BY <1>0 DEF CloseInv, Pass
  <2>2. m \in pass.burst
    BY <1>1, <2>1, OldestIs
  <2>3. QED BY <1>0, <1>1, <2>1, <2>2 DEF CloseInv
<1>3. /\ msg' = [msg EXCEPT ![m] = IF @ = "pending" THEN "bounced" ELSE @]
      /\ pass' = IF left = {} THEN [NoPass EXCEPT !.todo = pass.todo]
                 ELSE [pass EXCEPT !.burst = left]
  BY <1>1 DEF CloseReply
<1>4. /\ pass' \in Pass /\ pass'.pc \in {"ready", "close"} /\ pass'.todo = pass.todo
      /\ pass'.pc = "close" => /\ left # {} /\ pass'.burst = left /\ pass'.term = pass.term
  <2>1. CASE left = {}
    BY <1>0, <1>3, <2>1, NextBurst
  <2>2. CASE left # {}
    BY <1>0, <1>2, <1>3, <2>2 DEF Pass
  <2>3. QED BY <2>1, <2>2
<1>5. msg' \in [Messages -> {"absent", "pending", "answered", "bounced"}]
  BY <1>0, <1>2, <1>3
<1>6. PusherTypeOK'
  BY <1>0, <1>4, <1>5, Types DEF antennas, PusherTypeOK
<1>7. BurstsInv' /\ InjectInv'
  BY <1>0, <1>4 DEF BurstsInv, InjectInv
<1>8. CloseInv'
  BY <1>0, <1>2, <1>4 DEF CloseInv
<1>9. BudgetInv' /\ AlarmInv' /\ HonestReceipts'
  BY <1>0, <1>4, BooksKept
<1>10. HeldIsReceived'
  BY <1>0, <1>4 DEF HeldIsReceived, InUse
<1>11. BouncedIsTold'
  BY <1>0, <1>2, <1>3 DEF BouncedIsTold
<1>12. QED BY <1>6, <1>7, <1>8, <1>9, <1>10, <1>11 DEF PusherIInv

LEMMA DispatchKeeps ==
    ASSUME PusherAssumption, PusherIInv, NEW b \in pass.todo, Dispatch(b)
    PROVE  PusherIInv'
<1>0. /\ mem \in Memory /\ pass \in Pass /\ hist \in History /\ PusherTypeOK
      /\ inFlight \in [Terminals -> Messages \cup {NoMsg}]
      /\ BurstsInv /\ HeldIsReceived /\ BouncedIsTold
  BY Types DEF PusherIInv
<1>1. /\ b \in SUBSET Messages /\ OneKey(b) /\ Newest(b) \in Messages
      /\ Route(b) \in Terminals
      /\ pass.pc = "ready"
      /\ UNCHANGED <<msg, age, antennas, mem>>
  BY <1>0, TurnIs DEF Dispatch, Turn
<1>2. /\ mem.count[Newest(b)] \in 0..MaxRedispatch /\ MaxRedispatch \in Nat
      /\ link[Route(b)] = "wired"
  BY <1>0, <1>1 DEF Dispatch, Reachable, Memory, PusherAssumption
<1>3. mem.count[Newest(b)] < MaxRedispatch
  BY <1>2 DEF Dispatch, Capped
<1>4. /\ hist' \in History /\ hist'.got = hist.got \ {Route(b)} /\ hist'.told = hist.told
      /\ hist'.tries = hist.tries /\ hist'.lost = hist.lost /\ hist'.void = hist.void
      /\ hist'.alarms = hist.alarms /\ hist'.falseReceipts = hist.falseReceipts
  BY <1>0 DEF Dispatch, History
<1>5. /\ pass' \in Pass /\ pass'.pc = "inject" /\ pass'.todo \subseteq pass.todo
      /\ pass'.burst = b /\ pass'.term = Route(b)
  BY <1>0, <1>1 DEF Dispatch, Pass
<1>6. /\ inFlight' \in [Terminals -> Messages \cup {NoMsg}]
      /\ \A t \in Terminals : inFlight'[t] = IF t = Route(b) THEN Newest(b) ELSE inFlight[t]
  BY <1>0, <1>1 DEF Dispatch
<1>7. PusherTypeOK'
  BY <1>0, <1>1, <1>4, <1>5, <1>6, Types DEF antennas, PusherTypeOK
<1>8. BurstsInv' /\ CloseInv'
  BY <1>0, <1>5 DEF BurstsInv, CloseInv
<1>9. InjectInv'
  BY <1>1, <1>2, <1>3, <1>5, <1>6 DEF antennas, InjectInv
<1>10. BudgetInv' /\ AlarmInv' /\ HonestReceipts'
  BY <1>1, <1>4, <1>5, BooksKept
<1>11. HeldIsReceived'
  BY <1>0, <1>1, <1>4, <1>5, <1>6 DEF HeldIsReceived, InUse
<1>12. BouncedIsTold'
  BY <1>0, <1>1, <1>4 DEF BouncedIsTold
<1>13. QED BY <1>7, <1>8, <1>9, <1>10, <1>11, <1>12 DEF PusherIInv

LEMMA LookUpKeeps ==
    ASSUME PusherIInv, LookUp
    PROVE  PusherIInv'
<1>0. /\ pass \in Pass /\ PusherTypeOK
      /\ BurstsInv /\ InjectInv /\ HeldIsReceived /\ BouncedIsTold
      /\ pass.pc = "inject" /\ UNCHANGED <<msg, age, antennas, inFlight, mem, hist>>
  BY Types DEF PusherIInv, LookUp
<1>1. /\ pass' \in Pass /\ pass'.pc = "trying" /\ pass'.todo = pass.todo
      /\ pass'.burst = pass.burst /\ pass'.term = pass.term
  BY <1>0 DEF LookUp, Pass
<1>2. PusherTypeOK'
  BY <1>0, <1>1, Types DEF antennas, PusherTypeOK
<1>3. BurstsInv' /\ InjectInv' /\ CloseInv'
  BY <1>0, <1>1 DEF BurstsInv, InjectInv, CloseInv
<1>4. BudgetInv' /\ AlarmInv' /\ HonestReceipts'
  BY <1>0, <1>1, BooksKept
<1>5. HeldIsReceived' /\ BouncedIsTold'
  BY <1>0, <1>1 DEF HeldIsReceived, InUse, BouncedIsTold
<1>6. QED BY <1>2, <1>3, <1>4, <1>5 DEF PusherIInv

LEMMA PostKeeps ==
    ASSUME PusherAssumption, PusherIInv, Post
    PROVE  PusherIInv'
<1>0. /\ mem \in Memory /\ pass \in Pass /\ hist \in History /\ PusherTypeOK
      /\ BurstsInv /\ InjectInv /\ BudgetInv /\ AlarmInv
      /\ HeldIsReceived /\ HonestReceipts /\ BouncedIsTold
      /\ pass.pc = "trying" /\ UNCHANGED <<msg, age, antennas, inFlight, mem>>
  BY Types DEF PusherIInv, Post
<1>1. PICK n : n = Newest(pass.burst)
  OBVIOUS
<1>2. n \in Messages /\ pass.term \in Terminals /\ pass.burst \in SUBSET Messages
  BY <1>0, <1>1, InjectedIs
<1>3. PICK heard, got, tries : /\ heard = hist.heard \cup pass.burst
                               /\ got = hist.got \cup {pass.term}
                               /\ tries = [hist.tries EXCEPT ![n] = @ + 1]
  OBVIOUS
<1>4. /\ heard \subseteq Messages /\ got \subseteq Terminals /\ tries \in [Messages -> Nat]
      /\ \A m \in Messages : tries[m] = IF m = n THEN hist.tries[m] + 1 ELSE hist.tries[m]
      /\ pass.term \in got /\ hist.got \subseteq got
  BY <1>0, <1>2, <1>3 DEF History
<1>5. hist' = [hist EXCEPT !.heard = heard, !.got = got, !.tries = tries]
  BY <1>0, <1>1, <1>3 DEF Post, History
<1>6. /\ hist' \in History /\ hist'.got = got /\ hist'.told = hist.told
      /\ hist'.tries = tries /\ hist'.lost = hist.lost /\ hist'.void = hist.void
      /\ hist'.alarms = hist.alarms /\ hist'.falseReceipts = hist.falseReceipts
  BY <1>0, <1>4, <1>5 DEF History
<1>7. /\ pass' \in Pass /\ pass'.pc = "posted" /\ pass'.todo = pass.todo
      /\ pass'.burst = pass.burst /\ pass'.term = pass.term
  BY <1>0 DEF Post, Pass
<1>8. PusherTypeOK'
  BY <1>0, <1>6, <1>7, Types DEF antennas, PusherTypeOK
<1>9. BurstsInv' /\ InjectInv' /\ CloseInv'
  BY <1>0, <1>4, <1>6, <1>7 DEF BurstsInv, InjectInv, CloseInv
<1>10. BudgetInv'
  <2> SUFFICES ASSUME NEW m \in Messages
               PROVE  /\ tries[m] <= mem.count[m] + hist.lost[m] + UnderWay(m)'
                      /\ m \notin hist.void => mem.count[m] + hist.lost[m] + UnderWay(m)' <= tries[m]
    BY <1>0, <1>6 DEF BudgetInv
  <2>1. /\ hist.tries[m] <= mem.count[m] + hist.lost[m] + 0
        /\ m \notin hist.void => mem.count[m] + hist.lost[m] + 0 <= hist.tries[m]
    BY <1>0 DEF BudgetInv, UnderWay
  <2>2. UnderWay(m)' = IF m = n THEN 1 ELSE 0
    BY <1>1, <1>7 DEF UnderWay
  <2>3. hist.tries[m] \in Nat /\ mem.count[m] \in Nat /\ hist.lost[m] \in Nat
    BY <1>0 DEF History, Memory, PusherAssumption
  <2>4. QED BY <1>4, <2>1, <2>2, <2>3
<1>11. AlarmInv' /\ HonestReceipts' /\ BouncedIsTold'
  BY <1>0, <1>6 DEF AlarmInv, HonestReceipts, BouncedIsTold
<1>12. HeldIsReceived'
  BY <1>0, <1>4, <1>6, <1>7 DEF HeldIsReceived, InUse
<1>13. QED BY <1>8, <1>9, <1>10, <1>11, <1>12 DEF PusherIInv


LEMMA InjectOkKeeps ==
    ASSUME PusherAssumption, PusherIInv, InjectOk
    PROVE  PusherIInv'
<1>0. /\ mem \in Memory /\ pass \in Pass /\ hist \in History /\ PusherTypeOK
      /\ BurstsInv /\ InjectInv /\ BudgetInv /\ AlarmInv
      /\ HeldIsReceived /\ HonestReceipts /\ BouncedIsTold
      /\ pass.pc = "posted" \/ (pass.pc = "inject" /\ link[pass.term] = "none")
      /\ UNCHANGED <<msg, age, antennas, inFlight>>
  BY Types DEF PusherIInv, InjectOk
<1>1. PICK n, t : n = Newest(pass.burst) /\ t = pass.term
  OBVIOUS
<1>2. n \in Messages /\ t \in Terminals
  BY <1>0, <1>1, InjectedIs
<1>3. /\ mem.count[n] < MaxRedispatch
      /\ inFlight[t] \in {NoMsg, n}
      /\ t \in hist.got \/ n \in hist.void
      /\ pass.pc = "inject" => n \in hist.void
  BY <1>0, <1>1 DEF InjectInv
<1>4. PICK M : M = ChannelRecovered(t)
  OBVIOUS
<1>5. /\ M \in Memory /\ M.count = mem.count
      /\ M.notified = {tc \in mem.notified : tc[1] # t}
  BY <1>0, <1>2, <1>4, MemoryTypes
<1>6. PICK count, cooling : /\ count = [mem.count EXCEPT ![n] = @ + 1]
                            /\ cooling = M.cooling \cup {n}
  OBVIOUS
<1>7. /\ count \in [Messages -> 0..MaxRedispatch] /\ cooling \subseteq Messages
      /\ \A m \in Messages : count[m] = IF m = n THEN mem.count[m] + 1 ELSE mem.count[m]
  BY <1>0, <1>2, <1>3, <1>5, <1>6 DEF Memory, PusherAssumption
<1>8. mem' = [M EXCEPT !.count = count, !.cooling = cooling]
  <2>1. mem' = [M EXCEPT !.count[n] = @ + 1, !.cooling = @ \cup {n}]
    BY <1>1, <1>4 DEF InjectOk
  <2>2. QED BY <1>5, <1>6, <2>1 DEF Memory
<1>9. /\ mem' \in Memory /\ mem'.count = count
      /\ mem'.notified = {tc \in mem.notified : tc[1] # t}
  BY <1>5, <1>7, <1>8 DEF Memory
<1>10. PICK alarms : alarms = [tc \in DOMAIN hist.alarms |-> IF tc[1] = t THEN 0 ELSE hist.alarms[tc]]
  OBVIOUS
<1>11. /\ alarms \in [Terminals \X Chats -> Nat]
       /\ \A tc \in Terminals \X Chats : alarms[tc] = IF tc[1] = t THEN 0 ELSE hist.alarms[tc]
  BY <1>0, <1>10 DEF History
<1>12. hist' = [hist EXCEPT !.falseReceipts = hist.falseReceipts, !.alarms = alarms]
  BY <1>1, <1>3, <1>10 DEF InjectOk
<1>13. /\ hist' \in History /\ hist'.alarms = alarms /\ hist'.got = hist.got
       /\ hist'.told = hist.told /\ hist'.tries = hist.tries /\ hist'.lost = hist.lost
       /\ hist'.void = hist.void /\ hist'.falseReceipts = hist.falseReceipts
  BY <1>0, <1>11, <1>12 DEF History
<1>14. pass' \in Pass /\ pass'.pc = "ready" /\ pass'.todo = pass.todo
  BY <1>0, NextBurst DEF InjectOk
<1>15. PusherTypeOK'
  BY <1>0, <1>9, <1>13, <1>14, Types DEF antennas, PusherTypeOK
<1>16. BurstsInv' /\ InjectInv' /\ CloseInv'
  BY <1>0, <1>14 DEF BurstsInv, InjectInv, CloseInv
<1>17. BudgetInv'
  <2> SUFFICES ASSUME NEW m \in Messages
               PROVE  /\ hist.tries[m] <= count[m] + hist.lost[m] + 0
                      /\ m \notin hist.void => count[m] + hist.lost[m] + 0 <= hist.tries[m]
    BY <1>9, <1>13, <1>14 DEF BudgetInv, UnderWay
  <2>1. /\ hist.tries[m] <= mem.count[m] + hist.lost[m] + UnderWay(m)
        /\ m \notin hist.void => mem.count[m] + hist.lost[m] + UnderWay(m) <= hist.tries[m]
    BY <1>0 DEF BudgetInv
  <2>2. hist.tries[m] \in Nat /\ mem.count[m] \in Nat /\ hist.lost[m] \in Nat
    BY <1>0 DEF History, Memory, PusherAssumption
  <2>3. CASE pass.pc = "posted"
    <3>1. UnderWay(m) = IF m = n THEN 1 ELSE 0
      BY <1>1, <2>3 DEF UnderWay
    <3>2. QED BY <1>7, <2>1, <2>2, <3>1
  <2>4. CASE pass.pc = "inject"
    <3>1. UnderWay(m) = 0
      BY <2>4 DEF UnderWay
    <3>2. QED BY <1>3, <1>7, <2>1, <2>2, <2>4, <3>1
  <2>5. QED BY <1>0, <2>3, <2>4
<1>18. AlarmInv'
  <2> SUFFICES ASSUME NEW tc \in Terminals \X Chats
               PROVE  alarms[tc] = 0 \/ (alarms[tc] = 1 /\ tc \in {x \in mem.notified : x[1] # t})
    BY <1>9, <1>13 DEF AlarmInv
  <2>1. hist.alarms[tc] = 0 \/ (hist.alarms[tc] = 1 /\ tc \in mem.notified)
    BY <1>0 DEF AlarmInv
  <2>2. QED BY <1>11, <2>1
<1>19. HeldIsReceived'
  BY <1>0, <1>1, <1>3, <1>13 DEF HeldIsReceived, InUse
<1>20. HonestReceipts' /\ BouncedIsTold'
  BY <1>0, <1>13 DEF HonestReceipts, BouncedIsTold
<1>21. QED BY <1>15, <1>16, <1>17, <1>18, <1>19, <1>20 DEF PusherIInv

LEMMA InjectFailKeeps ==
    ASSUME PusherAssumption, PusherIInv, InjectFail
    PROVE  PusherIInv'
<1>0. /\ mem \in Memory /\ pass \in Pass /\ hist \in History /\ PusherTypeOK
      /\ inFlight \in [Terminals -> Messages \cup {NoMsg}]
      /\ BurstsInv /\ InjectInv /\ BudgetInv /\ AlarmInv
      /\ HeldIsReceived /\ HonestReceipts /\ BouncedIsTold
      /\ pass.pc \in {"inject", "trying", "posted"}
      /\ UNCHANGED <<msg, age, antennas>>
  BY Types DEF PusherIInv, InjectFail
<1>1. PICK n, t, here, alarm, lost :
         /\ n = Newest(pass.burst) /\ t = pass.term /\ here = <<t, Chat(pass.burst)>>
         /\ alarm = MustAlarm(pass.burst, t)
         /\ lost = IF pass.pc = "posted" THEN 1 ELSE 0
  OBVIOUS
<1>2. n \in Messages /\ t \in Terminals /\ here \in Terminals \X Chats /\ lost \in Nat
  BY <1>0, <1>1, InjectedIs
<1>3. alarm => here \notin mem.notified
  BY <1>1 DEF MustAlarm
<1>4. PICK M : M = ChannelDown(t)
  OBVIOUS
<1>5. M \in Memory /\ M.count = mem.count /\ M.notified = mem.notified
  BY <1>0, <1>2, <1>4, MemoryTypes
<1>6. PICK N : N = IF alarm THEN mem.notified \cup {here} ELSE mem.notified
  OBVIOUS
<1>7. N \subseteq Terminals \X Chats /\ mem.notified \subseteq N /\ (alarm => here \in N)
  BY <1>0, <1>2, <1>6 DEF Memory
<1>8. mem' = [M EXCEPT !.notified = N]
  <2>1. mem' = [M EXCEPT !.notified = IF alarm THEN @ \cup {here} ELSE @]
    BY <1>1, <1>4 DEF InjectFail
  <2>2. QED BY <1>5, <1>6, <2>1
<1>9. mem' \in Memory /\ mem'.count = mem.count /\ mem'.notified = N
  BY <1>5, <1>7, <1>8 DEF Memory
<1>10. PICK L, A : /\ L = [hist.lost EXCEPT ![n] = @ + lost]
                   /\ A = [hist.alarms EXCEPT ![here] = IF alarm THEN @ + 1 ELSE @]
  OBVIOUS
<1>11. /\ L \in [Messages -> Nat] /\ A \in [Terminals \X Chats -> Nat]
       /\ \A m \in Messages : L[m] = IF m = n THEN hist.lost[m] + lost ELSE hist.lost[m]
       /\ \A tc \in Terminals \X Chats :
             A[tc] = IF tc = here /\ alarm THEN hist.alarms[tc] + 1 ELSE hist.alarms[tc]
  <2>1. hist.lost \in [Messages -> Nat] /\ hist.alarms \in [Terminals \X Chats -> Nat]
    BY <1>0 DEF History
  <2>2. /\ L \in [Messages -> Nat]
        /\ \A m \in Messages : L[m] = IF m = n THEN hist.lost[m] + lost ELSE hist.lost[m]
    BY <1>2, <1>10, <2>1
  <2>3. CASE alarm
    BY <1>2, <1>10, <2>1, <2>2, <2>3
  <2>4. CASE ~alarm
    BY <1>2, <1>10, <2>1, <2>2, <2>4
  <2>5. QED BY <2>3, <2>4
<1>12. hist' = [hist EXCEPT !.lost = L, !.alarms = A]
  <2>1. hist' = [hist EXCEPT !.lost[n] = @ + lost, !.alarms[here] = IF alarm THEN @ + 1 ELSE @]
    BY <1>1 DEF InjectFail
  <2>2. QED BY <1>0, <1>10, <2>1 DEF History
<1>13. /\ hist' \in History /\ hist'.lost = L /\ hist'.alarms = A /\ hist'.got = hist.got
       /\ hist'.told = hist.told /\ hist'.tries = hist.tries
       /\ hist'.void = hist.void /\ hist'.falseReceipts = hist.falseReceipts
  BY <1>0, <1>11, <1>12 DEF History
<1>14. pass' \in Pass /\ pass'.pc = "ready" /\ pass'.todo = pass.todo
  BY <1>0, NextBurst DEF InjectFail
<1>15. /\ inFlight' \in [Terminals -> Messages \cup {NoMsg}]
       /\ \A u \in Terminals : inFlight'[u] = IF u = t THEN NoMsg ELSE inFlight[u]
  BY <1>0, <1>1, <1>2 DEF InjectFail, CancelDispatch
<1>16. PusherTypeOK'
  BY <1>0, <1>9, <1>13, <1>14, <1>15, Types DEF antennas, PusherTypeOK
<1>17. BurstsInv' /\ InjectInv' /\ CloseInv'
  BY <1>0, <1>14 DEF BurstsInv, InjectInv, CloseInv
<1>18. BudgetInv'
  <2> SUFFICES ASSUME NEW m \in Messages
               PROVE  /\ hist.tries[m] <= mem.count[m] + L[m] + 0
                      /\ m \notin hist.void => mem.count[m] + L[m] + 0 <= hist.tries[m]
    BY <1>9, <1>13, <1>14 DEF BudgetInv, UnderWay
  <2>1. /\ hist.tries[m] <= mem.count[m] + hist.lost[m] + UnderWay(m)
        /\ m \notin hist.void => mem.count[m] + hist.lost[m] + UnderWay(m) <= hist.tries[m]
    BY <1>0 DEF BudgetInv
  <2>2. hist.tries[m] \in Nat /\ mem.count[m] \in Nat /\ hist.lost[m] \in Nat
    BY <1>0 DEF History, Memory, PusherAssumption
  <2>3. UnderWay(m) = IF m = n THEN lost ELSE 0
    BY <1>1 DEF UnderWay
  <2>4. QED BY <1>2, <1>11, <2>1, <2>2, <2>3
<1>19. AlarmInv'
  <2> SUFFICES ASSUME NEW tc \in Terminals \X Chats
               PROVE  A[tc] = 0 \/ (A[tc] = 1 /\ tc \in N)
    BY <1>9, <1>13 DEF AlarmInv
  <2>1. hist.alarms[tc] = 0 \/ (hist.alarms[tc] = 1 /\ tc \in mem.notified)
    BY <1>0 DEF AlarmInv
  <2>2. QED BY <1>3, <1>7, <1>11, <2>1
<1>20. HeldIsReceived'
  BY <1>0, <1>1, <1>13, <1>15 DEF HeldIsReceived, InUse
<1>21. HonestReceipts' /\ BouncedIsTold'
  BY <1>0, <1>13 DEF HonestReceipts, BouncedIsTold
<1>22. QED BY <1>16, <1>17, <1>18, <1>19, <1>20, <1>21 DEF PusherIInv

LEMMA TerminalGoneKeeps ==
    ASSUME PusherAssumption, PusherIInv, TerminalGone
    PROVE  PusherIInv'
<1>0. /\ pass \in Pass /\ PusherTypeOK
      /\ inFlight \in [Terminals -> Messages \cup {NoMsg}]
      /\ link \in [Terminals -> Links]
      /\ BurstsInv /\ InjectInv /\ HeldIsReceived /\ BouncedIsTold
      /\ pass.pc = "trying"
      /\ UNCHANGED <<msg, age, ephemeral, attaching, agents, mem, hist>>
  BY Types DEF PusherIInv, TerminalGone
<1>1. pass.term \in Terminals
  BY <1>0 DEF InjectInv
<1>2. link' \in [Terminals -> Links]
  BY <1>0, <1>1 DEF TerminalGone, Links
<1>3. /\ inFlight' \in [Terminals -> Messages \cup {NoMsg}]
      /\ \A u \in Terminals : inFlight'[u] = IF u = pass.term THEN NoMsg ELSE inFlight[u]
  BY <1>0, <1>1 DEF TerminalGone, CancelDispatch
<1>4. pass' \in Pass /\ pass'.pc = "ready" /\ pass'.todo = pass.todo
  BY <1>0, NextBurst DEF TerminalGone
<1>5. PusherTypeOK'
  BY <1>0, <1>2, <1>3, <1>4, Types DEF PusherTypeOK
<1>6. BurstsInv' /\ InjectInv' /\ CloseInv'
  BY <1>0, <1>4 DEF BurstsInv, InjectInv, CloseInv
<1>7. BudgetInv' /\ AlarmInv' /\ HonestReceipts'
  BY <1>0, <1>4, BooksKept
<1>8. HeldIsReceived'
  BY <1>0, <1>3 DEF HeldIsReceived, InUse
<1>9. BouncedIsTold'
  BY <1>0 DEF BouncedIsTold
<1>10. QED BY <1>5, <1>6, <1>7, <1>8, <1>9 DEF PusherIInv

(* A process that starts, the first one or the next.                       *)
LEMMA StartIsTyped ==
    ASSUME PusherAssumption
    PROVE  NoMemory \in Memory /\ NoHistory \in History
<1>1. NoMemory \in Memory
  BY DEF PusherAssumption, NoMemory, Memory
<1>2. NoHistory \in History
  BY DEF NoHistory, History
<1>3. QED BY <1>1, <1>2

LEMMA RestartKeeps ==
    ASSUME PusherAssumption, PusherIInv, Restart
    PROVE  PusherIInv'
<1>0. /\ hist \in History /\ link \in [Terminals -> Links] /\ BouncedIsTold
      /\ hist' = [NoHistory EXCEPT !.heard = hist.heard, !.told = hist.told]
      /\ mem' = NoMemory /\ pass' = NoPass /\ inFlight' = [t \in Terminals |-> NoMsg]
      /\ UNCHANGED <<msg, age, agents>>
      /\ ephemeral' = {} /\ attaching' = {}
  BY Types DEF PusherIInv, Restart
<1>1. /\ hist'.tries = NoHistory.tries /\ hist'.lost = NoHistory.lost
      /\ hist'.alarms = NoHistory.alarms /\ hist'.falseReceipts = {}
      /\ hist'.told = hist.told /\ hist' \in History
  BY <1>0 DEF NoHistory, History
<1>2. link' \in [Terminals -> Links]
  BY <1>0 DEF Restart, Rewired, Links
<1>3. /\ \A m \in Messages : hist'.tries[m] = 0 /\ hist'.lost[m] = 0 /\ mem'.count[m] = 0
      /\ \A tc \in Terminals \X Chats : hist'.alarms[tc] = 0
      /\ pass'.pc = "ready" /\ pass'.todo = {} /\ pass' \in Pass
      /\ inFlight' \in [Terminals -> Messages \cup {NoMsg}]
  BY <1>0, <1>1, NoPassIs DEF NoHistory, NoMemory
<1>4. mem' \in Memory
  BY <1>0, StartIsTyped
<1>5. PusherTypeOK'
  BY <1>0, <1>1, <1>2, <1>3, <1>4, Types DEF PusherIInv, PusherTypeOK
<1>6. BurstsInv' /\ InjectInv' /\ CloseInv' /\ BudgetInv'
  BY <1>3 DEF BurstsInv, InjectInv, CloseInv, BudgetInv, UnderWay
<1>7. AlarmInv' /\ HeldIsReceived' /\ HonestReceipts' /\ BouncedIsTold'
  BY <1>0, <1>1, <1>3 DEF AlarmInv, HeldIsReceived, HonestReceipts, BouncedIsTold
<1>8. QED BY <1>5, <1>6, <1>7 DEF PusherIInv


-----------------------------------------------------------------------------
(* The theorems                                                            *)

LEMMA PusherInitIs == ASSUME PusherAssumption, PusherInit PROVE PusherIInv
<1>0. /\ mem = NoMemory /\ pass = NoPass /\ hist = NoHistory
      /\ inFlight = [t \in Terminals |-> NoMsg]
      /\ msg = [m \in Messages |-> "absent"] /\ age = [m \in Messages |-> Fresh]
  BY DEF PusherInit
<1>1. /\ \A m \in Messages : hist.tries[m] = 0 /\ hist.lost[m] = 0 /\ mem.count[m] = 0
      /\ \A tc \in Terminals \X Chats : hist.alarms[tc] = 0
      /\ hist.falseReceipts = {}
      /\ pass.pc = "ready" /\ pass.todo = {}
  BY <1>0, NoPassIs DEF NoHistory, NoMemory
<1>2. mem \in Memory /\ hist \in History /\ pass \in Pass
  BY <1>0, StartIsTyped, NoPassIs
<1>3. age \in [Messages -> Fresh..AgeLimit]
  BY <1>0 DEF PusherAssumption, Fresh
<1>4. PusherTypeOK
  BY <1>0, <1>2, <1>3 DEF PusherInit, PusherTypeOK
<1>5. BurstsInv /\ InjectInv /\ CloseInv /\ BudgetInv
  BY <1>1 DEF BurstsInv, InjectInv, CloseInv, BudgetInv, UnderWay
<1>6. AlarmInv /\ HeldIsReceived /\ HonestReceipts /\ BouncedIsTold
  BY <1>0, <1>1 DEF AlarmInv, HeldIsReceived, HonestReceipts, BouncedIsTold
<1>7. QED BY <1>4, <1>5, <1>6 DEF PusherIInv

LEMMA PusherStep == ASSUME PusherAssumption, PusherIInv, [Next]_vars PROVE PusherIInv'
<1>1. CASE Others
  BY <1>1, OthersAside, AsideKeeps DEF PusherIInv
<1>2. ASSUME NEW b \in pass.todo, NotifyUnreachable(b) PROVE PusherIInv'
  BY <1>2, NotifyKeeps
<1>3. ASSUME NEW b \in pass.todo, Dispatch(b) PROVE PusherIInv'
  BY <1>3, DispatchKeeps
<1>4. QED
  BY <1>1, <1>2, <1>3, BeginSweepKeeps, CloseReplyKeeps, LookUpKeeps, PostKeeps,
     InjectOkKeeps, InjectFailKeeps, TerminalGoneKeeps, RestartKeeps, NextCases DEF Others

(* What the pass, its memory, the gate and the notices keep between any    *)
(* two steps of the sweep, the agents, the operators and a restart.        *)
THEOREM PusherIInvHolds == ASSUME PusherAssumption PROVE Spec => []PusherIInv
<1>1. PusherInit => PusherIInv
  BY PusherInitIs
<1>2. PusherIInv /\ [Next]_vars => PusherIInv'
  BY PusherStep
<1>3. QED BY <1>1, <1>2, PTL DEF Spec

(* An agent that never answers is not woken for ever: it receives a burst  *)
(* at most MaxRedispatch times, and once more for every delivery the sweep *)
(* was told had failed although it arrived.                                *)
THEOREM ContainedHolds == ASSUME PusherAssumption PROVE Spec => []Contained
<1>1. PusherIInv => Contained
  <2> SUFFICES ASSUME PusherIInv, NEW m \in Messages
               PROVE  hist.tries[m] <= MaxRedispatch + hist.lost[m]
    BY DEF Contained
  <2>1. hist.tries[m] <= mem.count[m] + hist.lost[m] + UnderWay(m)
    BY DEF PusherIInv, BudgetInv
  <2>2. /\ hist.tries[m] \in Nat /\ hist.lost[m] \in Nat /\ MaxRedispatch \in Nat
        /\ mem.count[m] \in 0..MaxRedispatch
    BY Types DEF PusherIInv, History, Memory, PusherAssumption
  <2>3. UnderWay(m) = 0 \/ (UnderWay(m) = 1 /\ mem.count[m] < MaxRedispatch)
    BY DEF UnderWay, PusherIInv, InjectInv
  <2>4. QED BY <2>1, <2>2, <2>3
<1>2. QED BY <1>1, PusherIInvHolds, PTL

(* A message the sweep closed was a reply to an agent that could not be    *)
(* reached, and its chat was told so.                                      *)
THEOREM BouncedIsToldHolds == ASSUME PusherAssumption PROVE Spec => []BouncedIsTold
<1>1. PusherIInv => BouncedIsTold
  BY DEF PusherIInv
<1>2. QED BY <1>1, PusherIInvHolds, PTL

(* A contact is shown as read only what an agent received, unless the      *)
(* agent was deleted just before the injection.                            *)
THEOREM HonestReceiptsHolds == ASSUME PusherAssumption PROVE Spec => []HonestReceipts
<1>1. PusherIInv => HonestReceipts
  BY DEF PusherIInv
<1>2. QED BY <1>1, PusherIInvHolds, PTL

(* Types, and what failed injections may not do: cost a message one of its *)
(* attempts, repeat an alarm, or leave a terminal waiting.                 *)
THEOREM PusherSafeHolds == ASSUME PusherAssumption PROVE Spec => []PusherSafe
<1>1. PusherIInv => PusherSafe
  <2> SUFFICES ASSUME PusherIInv PROVE PusherSafe
    OBVIOUS
  <2>1. FailuresAreFree
    <3> SUFFICES ASSUME NEW m \in Messages \ hist.void
                 PROVE  mem.count[m] + hist.lost[m] <= hist.tries[m]
      BY DEF FailuresAreFree
    <3>1. mem.count[m] + hist.lost[m] + UnderWay(m) <= hist.tries[m]
      BY DEF PusherIInv, BudgetInv
    <3>2. m \in Messages /\ hist \in History /\ mem \in Memory
      BY Types DEF PusherIInv
    <3>3. hist.tries[m] \in Nat /\ hist.lost[m] \in Nat /\ mem.count[m] \in Nat
      BY <3>2 DEF History, Memory
    <3>4. UnderWay(m) \in {0, 1}
      BY DEF UnderWay
    <3>5. QED BY <3>1, <3>3, <3>4
  <2>2. OneAlarmPerOutage
    <3>1. DOMAIN hist.alarms = Terminals \X Chats
      BY Types DEF PusherIInv, History
    <3>2. \A tc \in Terminals \X Chats : hist.alarms[tc] = 0 \/ hist.alarms[tc] = 1
      BY DEF PusherIInv, AlarmInv
    <3>3. QED BY <3>1, <3>2 DEF OneAlarmPerOutage
  <2>3. QED BY <2>1, <2>2 DEF PusherIInv, PusherSafe
<1>2. QED BY <1>1, PusherIInvHolds, PTL

(* Only callers of send_to_boss have antennas that expire.                 *)
AntennaInv ==
    /\ ephemeral \subseteq Callers /\ attaching \subseteq Callers
    /\ agents \subseteq AgentIds
    /\ link \in [Terminals -> Links]
    /\ AgentsKeepInjector

(* An agent of the table keeps its injector, whatever is attached or       *)
(* expires meanwhile, as long as no caller of send_to_boss uses its id.    *)
THEOREM AgentsKeepInjectorHolds ==
    ASSUME PusherAssumption, AgentIds \cap Callers = {}
    PROVE  Spec => []AgentsKeepInjector
<1>1. PusherInit => AntennaInv
  BY DEF PusherInit, AntennaInv, AgentsKeepInjector, PusherAssumption
<1>2. AntennaInv /\ [Next]_vars => AntennaInv'
  <2> SUFFICES ASSUME AntennaInv, [Next]_vars PROVE AntennaInv'
    OBVIOUS
  <2>0. AgentIds \subseteq Terminals
    BY DEF PusherAssumption
  <2>1. CASE UNCHANGED antennas
    BY <2>1 DEF antennas, AntennaInv, AgentsKeepInjector
  <2>2. CASE BeginSweep
    BY <2>0, <2>2 DEF BeginSweep, AntennaInv, AgentsKeepInjector, Links
  <2>3. CASE TerminalGone
    BY <2>0, <2>3 DEF TerminalGone, AntennaInv, AgentsKeepInjector, Links
  <2>4. CASE Restart
    BY <2>0, <2>4 DEF Restart, Rewired, AntennaInv, AgentsKeepInjector, Links
  <2>5. CASE SetConfig
    BY <2>0, <2>5 DEF SetConfig, AntennaInv, AgentsKeepInjector, Links
  <2>6. ASSUME NEW t \in Terminals, AgentUpsert(t) PROVE AntennaInv'
    BY <2>0, <2>6 DEF AgentUpsert, RegisterInjector, AntennaInv, AgentsKeepInjector, Links
  <2>7. ASSUME NEW t \in Terminals, AgentDelete(t) PROVE AntennaInv'
    BY <2>0, <2>7 DEF AgentDelete, RegisterInjector, AntennaInv, AgentsKeepInjector, Links
  <2>8. ASSUME NEW t \in Terminals, Attach(t) PROVE AntennaInv'
    BY <2>0, <2>8 DEF Attach, RegisterInjector, AntennaInv, AgentsKeepInjector, Links
  <2>9. ASSUME NEW t \in Terminals, SetExpiry(t) PROVE AntennaInv'
    BY <2>9 DEF SetExpiry, AntennaInv, AgentsKeepInjector
  <2>10. ASSUME NEW t \in Terminals, Answer(t) \/ Reclaim(t) \/ OutageLasts(t) PROVE AntennaInv'
    BY <2>1, <2>10 DEF Answer, Reclaim, OutageLasts
  <2>11. ASSUME NEW m \in Messages,
                Arrive(m) \/ MarkHandled(m) \/ Reopen(m) \/ GrowOlder(m) \/ BackoffElapses(m)
         PROVE  AntennaInv'
    BY <2>1, <2>11 DEF Arrive, MarkHandled, Reopen, GrowOlder, BackoffElapses
  <2>12. ASSUME NEW b \in pass.todo, Hold(b) \/ NotifyUnreachable(b) \/ Dispatch(b)
         PROVE  AntennaInv'
    BY <2>1, <2>12 DEF Hold, NotifyUnreachable, Dispatch
  <2>13. CASE CloseReply \/ LookUp \/ Post \/ InjectOk \/ InjectFail \/ UNCHANGED vars
    BY <2>1, <2>13 DEF CloseReply, LookUp, Post, InjectOk, InjectFail, vars, antennas
  <2>14. QED
    BY <2>2, <2>3, <2>4, <2>5, <2>6, <2>7, <2>8, <2>9, <2>10, <2>11, <2>12, <2>13, NextCases
<1>3. AntennaInv => AgentsKeepInjector
  BY DEF AntennaInv
<1>4. QED BY <1>1, <1>2, <1>3, PTL DEF Spec

(* The sweep never takes a terminal from a dispatch in flight: it is what  *)
(* Gate assumes of its caller.                                             *)
THEOREM NeverPreemptsHolds == ASSUME PusherAssumption PROVE Spec => NeverPreempts
<1> DEFINE Respected == \A t \in Terminals :
                           inFlight[t] # NoMsg => inFlight'[t] \in {NoMsg, inFlight[t]}
<1>1. PusherIInv /\ [Next]_vars => [Respected]_vars
  <2> SUFFICES ASSUME PusherIInv, [Next]_vars PROVE Respected
    OBVIOUS
  <2>0. inFlight \in [Terminals -> Messages \cup {NoMsg}]
    BY Types DEF PusherIInv
  <2>1. CASE UNCHANGED inFlight
    BY <2>1
  <2>2. CASE Others
    BY <2>2, OthersAside DEF Aside
  <2>3. ASSUME NEW b \in pass.todo, Dispatch(b) PROVE Respected
    <3>1. inFlight' = [inFlight EXCEPT ![Route(b)] = Newest(b)] /\ inFlight[Route(b)] = NoMsg
      BY <2>3 DEF Dispatch, Busy
    <3>2. QED BY <2>0, <3>1
  <2>4. ASSUME NEW b \in pass.todo, NotifyUnreachable(b) PROVE Respected
    BY <2>1, <2>4 DEF NotifyUnreachable
  <2>5. CASE InjectFail \/ TerminalGone
    BY <2>0, <2>5 DEF InjectFail, TerminalGone, CancelDispatch
  <2>6. CASE Restart
    BY <2>6 DEF Restart
  <2>7. CASE BeginSweep \/ CloseReply \/ LookUp \/ Post \/ InjectOk
    BY <2>1, <2>7 DEF BeginSweep, CloseReply, LookUp, Post, InjectOk
  <2>8. QED
    BY <2>2, <2>3, <2>4, <2>5, <2>6, <2>7, NextCases DEF Others
<1>2. QED BY <1>1, PusherIInvHolds, PTL DEF Spec, NeverPreempts
=============================================================================
