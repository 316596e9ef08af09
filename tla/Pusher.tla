------------------------------- MODULE Pusher -------------------------------
(***************************************************************************)
(* The dispatch sweep of src/internal/capipush: which pending messages are *)
(* due, where a burst is routed, when it is held, what a failed injection, *)
(* a dead antenna or an ignored dispatch changes, and what the owner is    *)
(* told.  Around the sweep: the gate, seen as at most one dispatch per     *)
(* terminal, the injectors other goroutines register and remove, agents    *)
(* that answer or do not, and restarts.                                    *)
(*                                                                         *)
(* One goroutine sweeps.  pass.pc says where it stands: between two bursts *)
(* ("ready"), about to look up the injector ("inject"), inside Inject      *)
(* ("trying", or "posted" once the agent has the message), or closing      *)
(* replies one by one ("close").                                           *)
(***************************************************************************)
EXTENDS Integers, FiniteSets

CONSTANTS
    Messages,      \* inbound messages, numbered in the order of their ts
    Chats, Speakers,
    ChatOf,        \* the chat of a message
    SpeakerOf,     \* its sender in a group, one and the same value in a 1:1
    ReplyTo,       \* the agent that sent what it quotes, or NoTerm
    BossChats, BossSpeakers,              \* is_boss
    Terminals, NoTerm,
    Fallback,      \* Config.PortFallback, the principal
    AgentIds,      \* ids of the agents table
    Callers,       \* ids that attach an antenna through send_to_boss
    Exclusive, RouterTo, DefaultTo,       \* a chat's assignment, route, default
    Limit,         \* Config.DispatchLimit
    SwampedAt,     \* Config.SwampedAt
    MaxRedispatch, \* Config.MaxRedispatch
    Debounce,      \* FALSE: the live debounce setting is 0
    Overdue, Old,  \* ages past MaxDispatchDebounce, past SwampedWindow
    AgeLimit,      \* bound: the age messages are followed to
    LostAnswers, Rejections, Crashes      \* TRUE: they happen

NoMsg == 0
Fresh == 0      \* younger than the debounce window

ASSUME PusherAssumption ==
    /\ Messages \subseteq Nat \ {NoMsg} /\ IsFiniteSet(Messages)
    /\ ChatOf \in [Messages -> Chats]
    /\ SpeakerOf \in [Messages -> Speakers]
    /\ ReplyTo \in [Messages -> Terminals \cup {NoTerm}]
    /\ BossChats \subseteq Chats /\ BossSpeakers \subseteq Speakers
    /\ NoTerm \notin Terminals /\ Fallback \in Terminals
    /\ AgentIds \subseteq Terminals \ {Fallback} /\ Callers \subseteq Terminals \ {Fallback}
    /\ {Exclusive, RouterTo, DefaultTo} \subseteq [Chats -> Terminals \cup {NoTerm}]
    /\ {Limit, SwampedAt, MaxRedispatch} \subseteq Nat \ {0}
    /\ {Debounce, LostAnswers, Rejections, Crashes} \subseteq BOOLEAN
    /\ {Overdue, Old, AgeLimit} \subseteq Nat

VARIABLES
    msg,        \* the messages table: absent, pending, or handled by whom
    age,        \* how old each message is
    link,       \* Pusher.injectors and what they reach
    ephemeral,  \* Pusher.ephemeralExpiry
    attaching,  \* calls inside RegisterEphemeralInjector
    agents,     \* the agents table
    inFlight,   \* the gate: the newest message of a terminal's dispatch
    mem,        \* the other fields of Pusher
    pass,       \* the sweeping goroutine
    hist        \* history, see History

vars == <<msg, age, link, ephemeral, attaching, agents, inFlight, mem, pass, hist>>
antennas == <<link, ephemeral, attaching, agents>>

(* none: no entry, LogInjector answers.  unconfigured: no endpoint, or     *)
(* discarded after terminal_gone.  wired: Inject is tried; it may fail.    *)
Links == {"none", "unconfigured", "wired"}

Memory == [count : [Messages -> 0..MaxRedispatch],      \* redispatchCount
           cooling : SUBSET Messages,                   \* lastDispatchAt, not yet backed off
           down : SUBSET Terminals,                     \* channelDownSince
           long : SUBSET Terminals,                     \* ... past the notice threshold
           notified : SUBSET (Terminals \X Chats)]      \* channelDownNotified

NoMemory == [count |-> [m \in Messages |-> 0], cooling |-> {}, down |-> {},
             long |-> {}, notified |-> {}]

(* stale: the injector in use is not the one registered any more.          *)
Pass == [pc : {"ready", "inject", "trying", "posted", "close"},
         todo : SUBSET SUBSET Messages, burst : SUBSET Messages,
         term : Terminals \cup {NoTerm}, stale : BOOLEAN]

NoPass == [pc |-> "ready", todo |-> {}, burst |-> {}, term |-> NoTerm, stale |-> FALSE]

(* heard: the messages some agent received.  got: the terminals that       *)
(* received the dispatch they hold.  tries: how often an agent received a  *)
(* burst this message was the newest of, since a sweep last saw a newer    *)
(* one; lost: those it was told had failed.  falseReceipts: messages the   *)
(* contact was shown as read and nobody got.  void: the newest messages of *)
(* bursts whose agent was deleted just before they were to be injected.    *)
(* told, alarms: the notices "agent unreachable", and "channel down" in    *)
(* this outage.                                                            *)
History == [heard : SUBSET Messages, got : SUBSET Terminals,
            tries : [Messages -> Nat], lost : [Messages -> Nat],
            falseReceipts : SUBSET Messages, void : SUBSET Messages,
            told : SUBSET (Terminals \X Chats), alarms : [Terminals \X Chats -> Nat]]

NoHistory == [heard |-> {}, got |-> {}, tries |-> [m \in Messages |-> 0],
              lost |-> [m \in Messages |-> 0], falseReceipts |-> {},
              void |-> {}, told |-> {},
              alarms |-> [tc \in Terminals \X Chats |-> 0]]

(***************************************************************************)
(* What is due                                                             *)
(***************************************************************************)
Pending == {m \in Messages : msg[m] = "pending"}
Key(m) == <<ChatOf[m], SpeakerOf[m]>>
Newest(burst) == CHOOSE m \in burst : \A n \in burst : n <= m
Oldest(burst) == CHOOSE m \in burst : \A n \in burst : m <= n
Chat(burst) == ChatOf[Newest(burst)]

(* The oldest Limit pending messages.                                      *)
PendingDedicated == {m \in Pending : Cardinality({n \in Pending : n < m}) < Limit}

dueChats == {{n \in PendingDedicated : Key(n) = Key(m)} : m \in PendingDedicated}

(* Mutant of Swamped: old debt counts.                                     *)
SwampedByDebt ==
    Cardinality({m \in Pending : ChatOf[m] \notin BossChats}) >= SwampedAt

Swamped ==
    Cardinality({m \in Pending : ChatOf[m] \notin BossChats /\ age[m] < Old}) >= SwampedAt

isDebounced(burst) ==
    Debounce /\ age[Oldest(burst)] < Overdue /\ age[Newest(burst)] = Fresh

Withheld(burst) ==
    \/ (Swamped /\ Chat(burst) \notin BossChats)
    \/ isDebounced(burst)

(***************************************************************************)
(* Where it goes                                                           *)
(***************************************************************************)
Registered(t) == t # NoTerm /\ link[t] # "none"
(* Mutant of Reachable: LogInjector passes for an antenna.                 *)
ReachableOrLogged(t) == link[t] # "unconfigured"

Reachable(t) == link[t] = "wired"

IsReply(burst) == ReplyTo[Newest(burst)] # NoTerm
LevelBoss(burst) ==
    SpeakerOf[Newest(burst)] \in BossSpeakers \/ Chat(burst) \in BossChats

(* The first that applies: the agent replied to, the chat's own agent, the *)
(* route, which the owner's messages never take, the default agent, the    *)
(* principal.  Only for assignments and defaults is the antenna looked at. *)
Route(burst) ==
    LET c == Chat(burst)
    IN  IF IsReply(burst) THEN ReplyTo[Newest(burst)]
        ELSE IF Registered(Exclusive[c]) THEN Exclusive[c]
        ELSE IF ~LevelBoss(burst) /\ RouterTo[c] # NoTerm THEN RouterTo[c]
        ELSE IF Registered(DefaultTo[c]) THEN DefaultTo[c]
        ELSE Fallback

(* Mutant of RepliesTo: the whole burst.                                   *)
WholeBurst(burst, t) == burst

RepliesTo(burst, t) == {m \in burst : ReplyTo[m] = t}

(***************************************************************************)
(* The sweep                                                               *)
(***************************************************************************)
PusherInit ==
    /\ msg = [m \in Messages |-> "absent"]
    /\ age = [m \in Messages |-> Fresh]
    /\ agents \in SUBSET AgentIds
    /\ link \in [Terminals -> Links]
    /\ \A t \in Terminals : link[t] = "none" <=> t \notin agents \cup {Fallback}
    /\ ephemeral = {} /\ attaching = {}
    /\ inFlight = [t \in Terminals |-> NoMsg]
    /\ mem = NoMemory
    /\ pass = NoPass
    /\ hist = NoHistory

Idle == pass.pc = "ready" /\ pass.todo = {}

(* The messages redispatchCount is kept for.                               *)
(* Mutant of Anchors: the oldest of each burst.                            *)
AnchorsOldest == {Oldest(b) : b \in dueChats}

Anchors == {Newest(b) : b \in dueChats}

(* pruneExpiredEphemeral, the snapshot of what is due, pruneStaleState.    *)
BeginSweep ==
    /\ Idle
    /\ \E expired \in SUBSET ephemeral :
          /\ ephemeral' = ephemeral \ expired
          /\ link' = [t \in Terminals |-> IF t \in expired THEN "none" ELSE link[t]]
    /\ LET kept(f, live) == [m \in Messages |-> IF m \in live THEN f[m] ELSE 0]
           newest == {Newest(b) : b \in dueChats}
           held == {inFlight[t] : t \in Terminals}
       IN  /\ mem' = [mem EXCEPT !.count = kept(@, Anchors), !.cooling = @ \cap Anchors]
           /\ hist' = [hist EXCEPT !.tries = kept(@, newest), !.lost = kept(@, newest),
                                   !.void = @ \cap (Anchors \cup held)]
    /\ pass' = [pass EXCEPT !.todo = {b \in dueChats : ~Withheld(b)}]
    /\ UNCHANGED <<msg, age, attaching, agents, inFlight>>

Turn(burst) == pass.pc = "ready" /\ burst \in pass.todo

(* Reasons to leave a burst for a later sweep.                             *)
NoAntenna(burst) == ~Reachable(Route(burst)) /\ ~IsReply(burst)

(* Mutant of Busy: only if the same message is in flight.                  *)
BusyWithIt(burst) == inFlight[Route(burst)] = Newest(burst)

Busy(burst) == inFlight[Route(burst)] # NoMsg

Capped(burst) == mem.count[Newest(burst)] >= MaxRedispatch
BackingOff(burst) ==
    mem.count[Newest(burst)] > 0 /\ Newest(burst) \in mem.cooling

Hold(burst) ==
    /\ Turn(burst)
    /\ \/ NoAntenna(burst)
       \/ Reachable(Route(burst)) /\ (Busy(burst) \/ Capped(burst) \/ BackingOff(burst))
    /\ pass' = [pass EXCEPT !.todo = @ \ {burst}]
    /\ UNCHANGED <<msg, age, antennas, inFlight, mem, hist>>

(* notifyAgentUnreachable: the notice first, then the replies to that      *)
(* agent, and only those.                                                  *)
NotifyUnreachable(burst) ==
    /\ Turn(burst)
    /\ ~Reachable(Route(burst)) /\ IsReply(burst)
    /\ hist' = [hist EXCEPT !.told = @ \cup {<<Route(burst), Chat(burst)>>}]
    /\ pass' = [pass EXCEPT !.pc = "close", !.todo = @ \ {burst},
                            !.burst = RepliesTo(burst, Route(burst)), !.term = Route(burst)]
    /\ UNCHANGED <<msg, age, antennas, inFlight, mem>>

CloseReply ==
    /\ pass.pc = "close"
    /\ LET m == Oldest(pass.burst)
           left == pass.burst \ {m}
       IN  /\ msg' = [msg EXCEPT ![m] = IF @ = "pending" THEN "bounced" ELSE @]
           /\ pass' = IF left = {} THEN [NoPass EXCEPT !.todo = pass.todo]
                      ELSE [pass EXCEPT !.burst = left]
    /\ UNCHANGED <<age, antennas, inFlight, mem, hist>>

(* RegisterDispatch, up to the call of Inject.                             *)
Dispatch(burst) ==
    /\ Turn(burst)
    /\ Reachable(Route(burst))
    /\ ~Busy(burst) /\ ~Capped(burst) /\ ~BackingOff(burst)
    /\ inFlight' = [inFlight EXCEPT ![Route(burst)] = Newest(burst)]
    /\ pass' = [pass EXCEPT !.pc = "inject", !.todo = @ \ {burst},
                            !.burst = burst, !.term = Route(burst)]
    /\ hist' = [hist EXCEPT !.got = @ \ {Route(burst)}]
    /\ UNCHANGED <<msg, age, antennas, mem>>

(* The injector is read a second time, and Inject reads its credential.    *)
LookUp ==
    /\ pass.pc = "inject" /\ Reachable(pass.term)
    /\ pass' = [pass EXCEPT !.pc = "trying"]
    /\ UNCHANGED <<msg, age, antennas, inFlight, mem, hist>>

(* The agent has the message; Inject has not returned yet.                 *)
Post ==
    /\ pass.pc = "trying"
    /\ pass' = [pass EXCEPT !.pc = "posted", !.stale = FALSE]
    /\ hist' = [hist EXCEPT !.heard = @ \cup pass.burst,
                            !.got = @ \cup {pass.term},
                            !.tries[Newest(pass.burst)] = @ + 1]
    /\ UNCHANGED <<msg, age, antennas, inFlight, mem>>

ChannelRecovered(t) ==
    [mem EXCEPT !.down = @ \ {t}, !.long = @ \ {t},
                !.notified = {tc \in @ : tc[1] # t}]

(* Inject returned nil, which LogInjector always does.  The receipt is     *)
(* left out while the kill switch or mute is on.                           *)
InjectOk ==
    /\ \/ pass.pc = "posted"
       \/ pass.pc = "inject" /\ link[pass.term] = "none"
    /\ LET m == Newest(pass.burst)
       IN  mem' = [ChannelRecovered(pass.term) EXCEPT !.count[m] = @ + 1,
                                                      !.cooling = @ \cup {m}]
    /\ \E read \in {{}, pass.burst} :
          hist' = [hist EXCEPT !.falseReceipts =
                                  IF \/ pass.term \in hist.got
                                     \/ Newest(pass.burst) \in hist.void
                                  THEN @ ELSE @ \cup read,
                               !.alarms = [tc \in DOMAIN @ |->
                                             IF tc[1] = pass.term THEN 0 ELSE @[tc]]]
    /\ pass' = [NoPass EXCEPT !.todo = pass.todo]
    /\ UNCHANGED <<msg, age, antennas, inFlight>>

(* Mutant of CancelDispatch: a failed injection keeps the terminal.        *)
CancelNothing(t) == inFlight

CancelDispatch(t) == [inFlight EXCEPT ![t] = NoMsg]

ChannelDown(t) == [mem EXCEPT !.down = @ \cup {t}]

(* maybeNotifyChannelDown                                                  *)
MustAlarm(burst, t) ==
    IsReply(burst) /\ t \in mem.long /\ <<t, Chat(burst)>> \notin mem.notified

(* Inject failed, perhaps after the agent received the message.            *)
InjectFail ==
    /\ \/ pass.pc \in {"trying", "posted"}
       \/ pass.pc = "inject" /\ link[pass.term] = "unconfigured"
    /\ LET t == pass.term
           here == <<t, Chat(pass.burst)>>
           alarm == MustAlarm(pass.burst, t)
           lost == IF pass.pc = "posted" THEN 1 ELSE 0
       IN  /\ lost = 1 => LostAnswers
           /\ mem' = [ChannelDown(t) EXCEPT !.notified = IF alarm THEN @ \cup {here} ELSE @]
           /\ hist' = [hist EXCEPT !.lost[Newest(pass.burst)] = @ + lost,
                                   !.alarms[here] = IF alarm THEN @ + 1 ELSE @]
           /\ inFlight' = CancelDispatch(t)
    /\ pass' = [NoPass EXCEPT !.todo = pass.todo]
    /\ UNCHANGED <<msg, age, antennas>>

(* terminal_gone: the injector used discards its credential, whether or    *)
(* not that is still the one it was refused with.                          *)
TerminalGone ==
    /\ pass.pc = "trying"
    /\ link' = [link EXCEPT ![pass.term] = IF pass.stale THEN @ ELSE "unconfigured"]
    /\ inFlight' = CancelDispatch(pass.term)
    /\ pass' = [NoPass EXCEPT !.todo = pass.todo]
    /\ UNCHANGED <<msg, age, ephemeral, attaching, agents, mem, hist>>

(***************************************************************************)
(* The injectors                                                           *)
(***************************************************************************)
InUse(t) == pass.pc \in {"inject", "trying", "posted"} /\ pass.term = t
AboutTo(t) == pass.pc = "inject" /\ pass.term = t
Trying(t) == pass.pc = "trying" /\ pass.term = t

(* A new injector, or none; one that is in use goes on being used.         *)
RegisterInjector(t, to) ==
    /\ t # Fallback
    /\ link' = [link EXCEPT ![t] = to]
    /\ ephemeral' = ephemeral \ {t}
    /\ pass' = [pass EXCEPT !.stale = @ \/ Trying(t)]

(* register_agent, set_agent_capi                                          *)
AgentUpsert(t) ==
    /\ t \in AgentIds
    /\ \E to \in {"unconfigured", "wired"} : RegisterInjector(t, to)
    /\ agents' = agents \cup {t}
    /\ UNCHANGED <<msg, age, attaching, inFlight, mem, hist>>

(* delete_agent and UnregisterInjector                                     *)
AgentDelete(t) ==
    /\ t \in agents
    /\ RegisterInjector(t, "none")
    /\ agents' = agents \ {t}
    /\ hist' = [hist EXCEPT !.void = IF AboutTo(t) THEN @ \cup {Newest(pass.burst)}
                                                  ELSE @]
    /\ UNCHANGED <<msg, age, attaching, inFlight, mem>>

(* RegisterEphemeralInjector locks twice.                                  *)
Attach(t) ==
    /\ t \in Callers \ attaching
    /\ RegisterInjector(t, "wired")
    /\ attaching' = attaching \cup {t}
    /\ UNCHANGED <<msg, age, agents, inFlight, mem, hist>>

SetExpiry(t) ==
    /\ t \in attaching
    /\ attaching' = attaching \ {t}
    /\ ephemeral' = ephemeral \cup {t}
    /\ UNCHANGED <<msg, age, link, agents, inFlight, mem, pass, hist>>

(* set_capi_connector: the principal's injector, which is never replaced,  *)
(* gets an endpoint, or none.                                              *)
SetConfig ==
    /\ \E to \in {"unconfigured", "wired"} : link' = [link EXCEPT ![Fallback] = to]
    /\ UNCHANGED <<msg, age, ephemeral, attaching, agents, inFlight, mem, pass, hist>>

(***************************************************************************)
(* Contacts, agents, time, the process                                     *)
(***************************************************************************)
Arrive(m) ==
    /\ msg[m] = "absent"
    /\ \A n \in Messages : n < m => msg[n] # "absent"
    /\ msg' = [msg EXCEPT ![m] = "pending"]
    /\ UNCHANGED <<age, antennas, inFlight, mem, pass, hist>>

Handle(set) == [m \in Messages |-> IF m \in set /\ msg[m] = "pending"
                                   THEN "answered" ELSE msg[m]]

(* The agent ends its turn: its speaker's messages up to the newest it was *)
(* dispatched are handled and its terminal is free.                        *)
Answer(t) ==
    LET newest == inFlight[t]
    IN  /\ newest # NoMsg
        /\ t \in hist.got
        /\ msg' = Handle({m \in Messages : m <= newest /\ Key(m) = Key(newest)})
        /\ inFlight' = [inFlight EXCEPT ![t] = NoMsg]
        /\ UNCHANGED <<age, antennas, mem, pass, hist>>

(* mark_handled, which names any message                                   *)
MarkHandled(m) ==
    /\ msg[m] = "pending"
    /\ msg' = Handle({m})
    /\ UNCHANGED <<age, antennas, inFlight, mem, pass, hist>>

(* MarkPendingBefore: a rejected draft re-opens the chat, every speaker.   *)
Reopen(m) ==
    /\ msg[m] \in {"answered", "bounced"}
    /\ Rejections
    /\ msg' = [n \in Messages |->
                 IF n <= m /\ ChatOf[n] = ChatOf[m] /\ msg[n] # "absent"
                 THEN "pending" ELSE msg[n]]
    /\ UNCHANGED <<age, antennas, inFlight, mem, pass, hist>>

(* The gate reclaims the dispatch, or the agent consumes it unanswered.    *)
Reclaim(t) ==
    /\ inFlight[t] # NoMsg
    /\ inFlight' = [inFlight EXCEPT ![t] = NoMsg]
    /\ UNCHANGED <<msg, age, antennas, mem, pass, hist>>

GrowOlder(m) ==
    /\ msg[m] # "absent" /\ age[m] < AgeLimit
    /\ \A n \in Messages : n < m => age[n] > age[m]
    /\ age' = [age EXCEPT ![m] = @ + 1]
    /\ UNCHANGED <<msg, antennas, inFlight, mem, pass, hist>>

BackoffElapses(m) ==
    /\ m \in mem.cooling
    /\ mem' = [mem EXCEPT !.cooling = @ \ {m}]
    /\ UNCHANGED <<msg, age, antennas, inFlight, pass, hist>>

OutageLasts(t) ==
    /\ t \in mem.down \ mem.long
    /\ mem' = [mem EXCEPT !.long = @ \cup {t}]
    /\ UNCHANGED <<msg, age, antennas, inFlight, pass, hist>>

(* A crash at any step.  The next process wires the principal and every    *)
(* agent of the table; nothing else it knew survives.                      *)
(* Mutant of Rewired: the principal only.                                  *)
RewiredPrincipal == [t \in Terminals |-> IF t = Fallback THEN link[t] ELSE "none"]

Rewired == [t \in Terminals |->
              IF t \notin agents \cup {Fallback} THEN "none"
              ELSE IF link[t] = "none" THEN "wired" ELSE link[t]]

Restart ==
    /\ Crashes
    /\ link' = Rewired /\ ephemeral' = {} /\ attaching' = {}
    /\ inFlight' = [t \in Terminals |-> NoMsg]
    /\ mem' = NoMemory
    /\ pass' = NoPass
    /\ hist' = [NoHistory EXCEPT !.heard = hist.heard, !.told = hist.told]
    /\ UNCHANGED <<msg, age, agents>>

SweepStep ==
    \/ \E burst \in pass.todo : Hold(burst) \/ NotifyUnreachable(burst) \/ Dispatch(burst)
    \/ CloseReply

InjectReturns == InjectOk \/ InjectFail \/ TerminalGone

Next ==
    \/ BeginSweep \/ SweepStep \/ LookUp \/ Post \/ InjectReturns \/ Restart \/ SetConfig
    \/ \E t \in Terminals :
          \/ AgentUpsert(t) \/ AgentDelete(t) \/ Attach(t) \/ SetExpiry(t)
          \/ Answer(t) \/ Reclaim(t) \/ OutageLasts(t)
    \/ \E m \in Messages :
          \/ Arrive(m) \/ MarkHandled(m) \/ Reopen(m) \/ GrowOlder(m) \/ BackoffElapses(m)

Spec == PusherInit /\ [][Next]_vars

(* The ticker fires, the pass goes on, Inject returns, time passes, the    *)
(* gate reclaims what is idle; of the attempts on wired antennas, if there *)
(* is no end to them, not all fail.                                        *)
Fairness ==
    /\ WF_vars(BeginSweep) /\ WF_vars(SweepStep)
    /\ WF_vars(LookUp \/ Post \/ InjectReturns) /\ SF_vars(Post)
    /\ \A t \in Terminals : WF_vars(Reclaim(t))
    /\ \A m \in Messages : WF_vars(GrowOlder(m)) /\ WF_vars(BackoffElapses(m))

FairSpec == Spec /\ Fairness

(***************************************************************************)
(* Properties                                                              *)
(***************************************************************************)
PusherTypeOK ==
    /\ msg \in [Messages -> {"absent", "pending", "answered", "bounced"}]
    /\ age \in [Messages -> Fresh..AgeLimit]
    /\ link \in [Terminals -> Links]
    /\ ephemeral \subseteq Terminals /\ attaching \subseteq Terminals
    /\ agents \subseteq AgentIds
    /\ inFlight \in [Terminals -> Messages \cup {NoMsg}]
    /\ mem \in Memory
    /\ pass \in Pass
    /\ hist \in History

(* The containment: an agent that never answers receives a burst at most   *)
(* MaxRedispatch times, and once more for every delivery it received while *)
(* the sweep was told it had failed, until something newer is due.         *)
Contained == \A m \in Messages : hist.tries[m] <= MaxRedispatch + hist.lost[m]

(* Only what an agent received counts against the budget: an outage, of    *)
(* whatever length, costs a message none of its attempts.  The exception   *)
(* here and below: an agent deleted between the check of its antenna and   *)
(* the injection leaves LogInjector, which reports success.                *)
FailuresAreFree ==
    \A m \in Messages \ hist.void : mem.count[m] + hist.lost[m] <= hist.tries[m]

(* The sweep closes a message only if it is a reply to an agent without    *)
(* antenna and its chat was told so; what shared the burst stays pending.  *)
BouncedIsTold ==
    \A m \in Messages :
        msg[m] = "bounced" => <<ReplyTo[m], ChatOf[m]>> \in hist.told

(* The owner reads "channel down" once per outage and chat, however often  *)
(* the antenna is tried and whatever else goes to it meanwhile.            *)
OneAlarmPerOutage == \A tc \in DOMAIN hist.alarms : hist.alarms[tc] <= 1

(* A contact is shown as read only what an agent received, that one case   *)
(* excepted.                                                               *)
HonestReceipts == hist.falseReceipts = {}

(* A terminal is held by a dispatch it received, or is about to: a failed  *)
(* injection never leaves it waiting for an answer nobody was asked for,   *)
(* that one case excepted.                                                 *)
HeldIsReceived ==
    \A t \in Terminals :
        inFlight[t] # NoMsg =>
            InUse(t) \/ t \in hist.got \/ inFlight[t] \in hist.void

(* What failed injections may not do, however they fail.                   *)
PusherSafe == PusherTypeOK /\ FailuresAreFree /\ OneAlarmPerOutage /\ HeldIsReceived

(* Agents of the table keep their injector, whatever attaches or expires.  *)
AgentsKeepInjector == \A t \in agents : link[t] # "none"

(* The sweep never takes a terminal from a dispatch in flight: what module *)
(* Gate assumes of its caller (CheckInFlight).                             *)
NeverPreempts ==
    [][\A t \in Terminals :
          inFlight[t] # NoMsg => inFlight'[t] \in {NoMsg, inFlight[t]}]_vars

(* Every message is heard in the end, if every antenna is wired from some  *)
(* time on: an agent receives it or it is closed, whatever else is         *)
(* pending, ignored or old.                                                *)
EverythingHeard ==
    <>[](\A t \in Terminals : Reachable(t)) =>
        \A m \in Messages :
            []<>(msg[m] # "pending" \/ m \in hist.heard)

=============================================================================
