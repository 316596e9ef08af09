------------------------------ MODULE SendTools ------------------------------
(***************************************************************************)
(* The tools that end a turn (src/internal/mcpserver/send.go) composed     *)
(* with the gate, the pending messages of the store and the sweep that     *)
(* dispatches them.                                                        *)
(*                                                                         *)
(* A handler of send_message, draft or silent_act reads the gate once and  *)
(* then makes several calls, each with a critical section or a SQL         *)
(* statement of its own.  Between two of them other handlers, the capipush *)
(* sweep, the stale sweep and incoming messages run.  handler[h].todo      *)
(* holds the calls handler h still has to make.                            *)
(***************************************************************************)
EXTENDS Gate, Sequences, FiniteSetsExt

CONSTANTS
    Chats,
    Groups,          \* the chats that are groups: handled per speaker
    Speakers,
    NoChat,
    NoSpeaker,       \* the sender of a dispatch for a one-to-one chat
    Msgs,            \* bound: the inbound messages of a behaviour
    Handlers,        \* tool calls that can be under way together
    Tools,           \* the tools in use
    MaxSends,        \* maxSendsPerDispatch
    CrossChat,       \* TRUE: agents also write to other chats than their turn's
    SameSecond,      \* TRUE: two messages may carry the same timestamp
    SlowHandlers,    \* TRUE: a handler may still run when its turn goes stale
    LostAcks         \* TRUE: an injection may fail after the payload arrived

ASSUME SendAssumption ==
    /\ Groups \subseteq Chats
    /\ NoChat \notin Chats
    /\ NoSpeaker \notin Speakers
    /\ Tools \subseteq {"send", "draft", "silent"}
    /\ MaxSends \in Nat \ {0}
    /\ {CrossChat, SameSecond, SlowHandlers, LostAcks} \subseteq BOOLEAN
    /\ IsFiniteSet(Msgs)

Times == 0..Cardinality(Msgs)
TurnJobs == [chat : Chats, sender : Speakers \cup {NoSpeaker}, ts : Times]

ASSUME JobsAreTurns == Jobs = TurnJobs

VARIABLES
    msg,         \* the messages table, inbound rows
    handler,     \* the tool calls under way
    sweep,       \* the bursts the current pass of capipush has still to look at
    burst,       \* history: the messages dispatch d was registered for
    opened,      \* history: messages some agent was let at (see OpenTurn)
    replies      \* history: replies queued to its own chat, per dispatch

sendVars == <<msg, handler, sweep, burst, opened, replies>>
allVars == <<vars, sendVars>>

Bursts == [chat : Chats, sender : Speakers \cup {NoSpeaker}, msgs : SUBSET Msgs]

Steps == {"enqueue", "draft", "markTo", "markOwn", "consume", "record"}

\* What Active returns, with the object it was read from.
Snapshot ==
    [bound : BOOLEAN, d : Dispatches \cup {NoDispatch},
     nonce : Nonces \cup {NoNonce}, job : Jobs \cup {NoJob}]

NoSnapshot == [bound |-> FALSE, d |-> NoDispatch, nonce |-> NoNonce, job |-> NoJob]
Idle == [todo |-> <<>>, tool |-> "none", term |-> NoTerminal, to |-> NoChat, snap |-> NoSnapshot]

SendTypeOK ==
    /\ TypeOK
    /\ msg \in [Msgs -> [chat : Chats \cup {NoChat},
                         sender : Speakers \cup {NoSpeaker}, ts : Times,
                         st : {"absent", "pending", "handled"}]]
    /\ \A h \in Handlers :
          /\ handler[h].todo \in Seq(Steps)
          /\ handler[h].tool \in {"none", "send", "draft", "silent"}
          /\ handler[h].snap \in Snapshot
    /\ sweep \subseteq Bursts
    /\ burst \in [Dispatches -> SUBSET Msgs]
    /\ opened \subseteq Msgs
    /\ replies \in [Dispatches -> Nat]

-----------------------------------------------------------------------------
Present == {m \in Msgs : msg[m].st # "absent"}
LastTS == Max({0} \cup {msg[m].ts : m \in Present})

(* dueChats: a burst is the pending messages of a chat, in a group those   *)
(* of a speaker.                                                           *)
DueBurst(m) ==
    LET s == IF msg[m].chat \in Groups THEN msg[m].sender ELSE NoSpeaker
    IN  [chat |-> msg[m].chat, sender |-> s,
         msgs |-> {k \in Msgs : /\ msg[k].st = "pending"
                                /\ msg[k].chat = msg[m].chat
                                /\ s # NoSpeaker => msg[k].sender = s}]
dueChats == {DueBurst(m) : m \in {k \in Msgs : msg[k].st = "pending"}}

\* Mutant of MarkScope: a group is closed as a whole.
MarkWholeChat(c, s, ts) ==
    {m \in Msgs : msg[m].st = "pending" /\ msg[m].chat = c /\ msg[m].ts <= ts}

(* markHandledForDispatch: MarkHandledBefore, or MarkHandledBeforeForSender *)
(* when the chat is a group and the speaker is known.                      *)
MarkScope(c, s, ts) ==
    {m \in Msgs : /\ msg[m].st = "pending"
                  /\ msg[m].chat = c
                  /\ msg[m].ts <= ts
                  /\ (c \in Groups /\ s # NoSpeaker => msg[m].sender = s)}

MarkHandled(ms) ==
    msg' = [m \in Msgs |-> IF m \in ms THEN [msg[m] EXCEPT !.st = "handled"]
                                       ELSE msg[m]]

-----------------------------------------------------------------------------
SendInit ==
    /\ Init
    /\ msg = [m \in Msgs |-> [chat |-> NoChat, sender |-> NoSpeaker, ts |-> 0,
                              st |-> "absent"]]
    /\ handler = [h \in Handlers |-> Idle]
    /\ sweep = {}
    /\ burst = [d \in Dispatches |-> {}]
    /\ opened = {}
    /\ replies = [d \in Dispatches |-> 0]

\* A message arrives.  Timestamps are WhatsApp's, in whole seconds.
Arrive(m, c, s, ts) ==
    /\ msg[m].st = "absent"
    /\ ts >= LastTS + (IF SameSecond THEN 0 ELSE 1)
    /\ msg' = [msg EXCEPT ![m] = [chat |-> c, sender |-> s, ts |-> ts,
                                  st |-> "pending"]]
    /\ UNCHANGED <<vars, handler, sweep, burst, opened, replies>>

\* A pass of sweepOnce begins: it reads all that is pending, once.
SweepOnce ==
    /\ sweep = {}
    /\ injecting = NotInjecting
    /\ dueChats # {}
    /\ sweep' = dueChats
    /\ UNCHANGED <<vars, msg, handler, burst, opened, replies>>

\* Debounce, back-off, a terminal in flight: this pass leaves the burst alone.
SkipBurst(b) ==
    /\ injecting = NotInjecting
    /\ sweep' = sweep \ {b}
    /\ UNCHANGED <<vars, msg, handler, burst, opened, replies>>

(* dispatch, with the burst as the pass read it.  Debounce, back-off and   *)
(* routing decide when and to whom; here any time and terminal will do.    *)
DispatchBurst(d, n, t, level, b) ==
    /\ \A h \in Handlers :
          /\ handler[h].snap.d # d
          /\ NonceReuse \/ handler[h].snap.nonce # n
    /\ Register(d, n, t, level,
                [chat |-> b.chat, sender |-> b.sender,
                 ts |-> Max({msg[m].ts : m \in b.msgs})])
    /\ sweep' = sweep \ {b}
    /\ burst' = [burst EXCEPT ![d] = b.msgs]
    /\ replies' = [replies EXCEPT ![d] = 0]
    /\ UNCHANGED <<msg, handler, opened>>

(* The payload arrives.  A boss dispatch is born ready: its burst is open  *)
(* to the agent from here on.                                              *)
Deliver ==
    LET d == byNonce[injecting.nonce]
    IN  /\ InjectOk
        /\ opened' = IF d # NoDispatch /\ disp[d].level = "boss"
                     THEN opened \cup burst[d] ELSE opened
        /\ UNCHANGED <<msg, handler, sweep, burst, replies>>

\* The injection fails; unless LostAcks, nobody has acted on the dispatch.
DeliveryFails ==
    /\ InjectFail
    /\ \/ LostAcks
       \/ \A d \in Dispatches : disp[d].nonce = injecting.nonce =>
             /\ disp[d].state # "done"
             /\ \A h \in Handlers : handler[h].snap.d # d
    /\ UNCHANGED sendVars

\* Any other agent works on its burst once it is past the checkpoint.
OpenTurn(t) ==
    /\ AdvanceToReady(t)
    /\ opened' = opened \cup burst[byTerminal[t]]
    /\ UNCHANGED <<msg, handler, sweep, burst, replies>>

-----------------------------------------------------------------------------
(* Starting a call: one read of the gate, then validateSend on it          *)

Busy(h) == handler[h].todo # <<>>

Active(t) ==
    LET d == byTerminal[t]
    IN  IF d = NoDispatch THEN NoSnapshot
        ELSE [bound |-> TRUE, d |-> d, nonce |-> disp[d].nonce, job |-> disp[d].job]

\* Mutant of MayWrite: the count of sends is off by one.
MayWriteOnceMore(t, to) ==
    LET d == byTerminal[t]
    IN  d # NoDispatch =>
        \/ (disp[d].state = "ready" /\ (disp[d].level = "boss" \/ to = disp[d].job.chat))
        \/ (disp[d].state # "ready" /\ to # disp[d].job.chat)
        \/ (disp[d].state = "done" /\ disp[d].sends <= MaxSends)

(* validateSend's gate check.  The other checks (mute, policy version,     *)
(* claims, rules, chats that are off) only refuse calls.                   *)
MayWrite(t, to) ==
    LET d == byTerminal[t]
    IN  d # NoDispatch =>
        \/ (disp[d].state = "ready" /\ (disp[d].level = "boss" \/ to = disp[d].job.chat))
        \/ (disp[d].state # "ready" /\ to # disp[d].job.chat)
        \/ (disp[d].state = "done" /\ disp[d].sends < MaxSends)

\* The calls a tool makes once it is allowed to proceed.
SendScript == <<"enqueue", "consume", "record", "markTo", "markOwn">>

\* Mutant of DraftScript: send_message's order, the gate before the messages.
DraftScriptGateFirst == <<"draft", "consume", "record", "markTo", "markOwn">>
DraftScript == <<"draft", "markTo", "markOwn", "consume", "record">>
SilentScript == <<"markTo", "consume">>

Script(tool, snap) ==
    IF tool = "silent" THEN SilentScript
    ELSE IF ~snap.bound THEN <<IF tool = "send" THEN "enqueue" ELSE "draft">>
    ELSE IF tool = "send" THEN SendScript ELSE DraftScript

Call(h, t, tool, to) ==
    /\ ~Busy(h)
    /\ tool \in {"send", "draft"} => MayWrite(t, to)
    /\ tool = "silent" => /\ byTerminal[t] # NoDispatch
                          /\ disp[byTerminal[t]].state = "ready"
                          /\ to = disp[byTerminal[t]].job.chat
    /\ SlowHandlers \/ byTerminal[t] \notin Stale
    /\ CrossChat \/ (byTerminal[t] # NoDispatch /\ to = disp[byTerminal[t]].job.chat)
    /\ handler' = [handler EXCEPT ![h] =
                     [todo |-> Script(tool, Active(t)), tool |-> tool, term |-> t,
                      to |-> to, snap |-> Active(t)]]
    /\ UNCHANGED <<vars, msg, sweep, burst, opened, replies>>

-----------------------------------------------------------------------------
(* The calls of a handler, in the order of its script                      *)

At(h, step) == Busy(h) /\ Head(handler[h].todo) = step
Advance(h) ==
    LET r == handler[h]
    IN  handler' = [handler EXCEPT ![h] =
                      IF Len(r.todo) = 1 THEN Idle ELSE [r EXCEPT !.todo = Tail(r.todo)]]

OwnChat(h) == handler[h].snap.bound /\ handler[h].to = handler[h].snap.job.chat

\* EnqueueWithModel / AddDraftWithConfirmer: the reply is on record.
Reply(h) ==
    /\ At(h, "enqueue") \/ At(h, "draft")
    /\ Advance(h)
    /\ LET d == handler[h].snap.d
       IN  replies' = IF OwnChat(h) THEN [replies EXCEPT ![d] = @ + 1] ELSE replies
    /\ UNCHANGED <<vars, msg, sweep, burst, opened>>

\* Closes the chat written to, up to the end of the turn's burst.
MarkTo(h) ==
    LET snap == handler[h].snap
    IN  /\ At(h, "markTo")
        /\ Advance(h)
        /\ MarkHandled(MarkScope(handler[h].to,
                                 IF OwnChat(h) THEN snap.job.sender ELSE NoSpeaker,
                                 snap.job.ts))
        /\ UNCHANGED <<vars, sweep, burst, opened, replies>>

\* markDispatchChatIfDifferent: closes the burst of the turn as well.
MarkOwn(h) ==
    LET job == handler[h].snap.job
    IN  /\ At(h, "markOwn")
        /\ Advance(h)
        /\ IF OwnChat(h) THEN UNCHANGED msg
                         ELSE MarkHandled(MarkScope(job.chat, job.sender, job.ts))
        /\ UNCHANGED <<vars, sweep, burst, opened, replies>>

ConsumeTurn(h) ==
    /\ At(h, "consume")
    /\ Advance(h)
    /\ Consume(handler[h].term, handler[h].snap.nonce)
    /\ UNCHANGED <<msg, sweep, burst, opened, replies>>

RecordTurn(h) ==
    /\ At(h, "record")
    /\ Advance(h)
    /\ RecordSend(handler[h].term, handler[h].snap.nonce)
    /\ UNCHANGED <<msg, sweep, burst, opened, replies>>

\* The process restarts: calls and gate are gone, the messages are not.
Crash ==
    /\ Restart
    /\ handler' = [h \in Handlers |-> Idle]
    /\ sweep' = {}
    /\ burst' = [d \in Dispatches |-> {}]
    /\ replies' = [d \in Dispatches |-> 0]
    /\ UNCHANGED <<msg, opened>>

\* What the gate does on its own, and what agents do before they are ready.
GateStep ==
    /\ \/ \E d \in Dispatches :
             /\ SlowHandlers \/ \A h \in Handlers : handler[h].snap.d # d
             /\ Age(d)
       \/ Sweep
       \/ \E t \in Terminals, n \in Nonces : GetInstructions(t, n)
       \/ \E t \in Terminals, tok \in Dispatches \cup {NoDispatch} : Unlock(t, tok)
    /\ UNCHANGED sendVars

SendNext ==
    \/ \E m \in Msgs, c \in Chats, s \in Speakers, ts \in Times : Arrive(m, c, s, ts)
    \/ SweepOnce
    \/ \E b \in sweep : SkipBurst(b)
    \/ \E d \in Dispatches, n \in Nonces, t \in Terminals, level \in Levels,
          b \in sweep : DispatchBurst(d, n, t, level, b)
    \/ Deliver
    \/ DeliveryFails
    \/ GateStep
    \/ \E t \in Terminals : OpenTurn(t)
    \/ \E h \in Handlers, t \in Terminals, tool \in Tools, to \in Chats :
          Call(h, t, tool, to)
    \/ \E h \in Handlers : Reply(h) \/ MarkTo(h) \/ MarkOwn(h)
                           \/ ConsumeTurn(h) \/ RecordTurn(h)
    \/ Crash

SendSpec == SendInit /\ [][SendNext]_allVars
-----------------------------------------------------------------------------
(* What a turn promises                                                    *)

(* A message is closed only if a turn it was part of was opened: no call   *)
(* closes a message that arrived while the agent was composing, another    *)
(* speaker's message, or a burst whose dispatch was never unlocked.        *)
NothingSwallowed ==
    \A m \in Msgs : msg[m].st = "handled" => m \in opened

(* One dispatch lets at most MaxSends replies through to its own chat.     *)
SendCap == \A d \in Dispatches : replies[d] <= MaxSends

SendSafe == SendTypeOK /\ SendCap

(* Consume closes the dispatch its handler validated, even when the turn   *)
(* went stale and a newer dispatch took the terminal in the meantime.      *)
ConsumeIsOwn ==
    [][\A h \in Handlers, d \in Dispatches :
         /\ ConsumeTurn(h)
         /\ disp[d].state # "done"
         /\ disp'[d].state = "done"
         => d = handler[h].snap.d]_allVars

(* draft and silent_act free the terminal of a turn only once its messages *)
(* are closed, so that no pass that comes by dispatches them once more.    *)
FreesClosed ==
    [][\A h \in Handlers :
         ConsumeTurn(h) /\ handler[h].tool \in {"draft", "silent"} =>
             \A m \in burst[handler[h].snap.d] : msg[m].st # "pending"]_allVars

=============================================================================
