------------------------------- MODULE Inbound -------------------------------
(***************************************************************************)
(* What comes in from WhatsApp and the read receipts that go back:         *)
(* handleMessage and its buffer (whatsmeow/inbound.go), the inbound loop   *)
(* (corepipeline/pipeline.go), the messages table (store/message.go), and  *)
(* the three senders of receipts: get_messages' goroutine (MarkRead), the  *)
(* push of a burst to an agent (capipush) and the outbox loop's retry.     *)
(*                                                                         *)
(* Echoes of this device and events without text or media do not get past  *)
(* handleMessage; Messages are the others.  A receipt is a call of its own *)
(* to WhatsApp, and every SetRead a statement of its own.                  *)
(***************************************************************************)
EXTENDS Integers, Sequences, FiniteSets, SequencesExt

CONSTANTS
    Messages,     \* numbered in the order of their ts
    OwnerReplies, \* those the owner wrote on his phone
    Chats, ChatOf,
    Speakers, SpeakerOf,
    BufferSize,   \* inboundBuffer
    Limit,        \* rows of one retry pass (20)
    Redelivered,  \* messages WhatsApp may deliver again after a crash
    MaxCrashes    \* bound

ASSUME InboundAssumption ==
    /\ Messages \subseteq Nat \ {0} /\ IsFiniteSet(Messages)
    /\ OwnerReplies \subseteq Messages /\ Redelivered \subseteq Messages
    /\ ChatOf \in [Messages -> Chats] /\ SpeakerOf \in [Messages -> Speakers]
    /\ BufferSize \in Nat \ {0} /\ Limit \in Nat \ {0} /\ MaxCrashes \in Nat

Inbounds == Messages \ OwnerReplies

VARIABLES
    wire,    \* messages WhatsApp still has to deliver, some for the second time
    buffer,  \* Adapter.inbound
    pump,    \* the owner reply handleOwnerReply is at, or 0
    row,     \* the messages table: none, pending or handled
    read,    \* rows with a read_ts
    old,     \* messages a retry may touch: readReceiptRetryAge has passed
    link,    \* [up, kill]: the connection and killSwitchActive
    live,    \* the goroutine of a MarkRead call
    retry,   \* the outbox loop in retryReadReceipts
    hist     \* history, see History

vars == <<wire, buffer, pump, row, read, old, link, live, retry, hist>>

(* A receipt is addressed to one speaker of one chat and names messages.   *)
Groups == [chat : Chats, from : Speakers, ids : SUBSET Inbounds]
GroupsOf(M) ==
    {[chat |-> ChatOf[m], from |-> SpeakerOf[m],
      ids |-> {n \in M : ChatOf[n] = ChatOf[m] /\ SpeakerOf[n] = SpeakerOf[m]}] : m \in M}

(* pc: waiting out the delay before the next check; past the check; writing *)
(* down the ids WhatsApp took.                                             *)
Sender == [pc : {"idle", "wait", "send", "record"}, todo : SUBSET Groups,
           ids : SUBSET Inbounds]
Resting == [pc |-> "idle", todo |-> {}, ids |-> {}]

(* blue: receipts WhatsApp took.  going: the senders past their check when *)
(* the kill switch was thrown.  stray: one sent that was not.  behind:     *)
(* messages delivered after an owner's reply.  torn: replies a crash cut   *)
(* before they closed the chat.                                            *)
History == [blue : SUBSET Inbounds, going : SUBSET {"live", "retry"},
            stray : BOOLEAN, behind : SUBSET Messages, torn : SUBSET OwnerReplies,
            crashes : 0..MaxCrashes]

Stored == {m \in Messages : row[m] # "none"}
Pending == {m \in Messages : row[m] = "pending"}
Queued == ToSet(buffer)

-----------------------------------------------------------------------------
(* From WhatsApp to the table                                              *)

Room == Len(buffer) < BufferSize

(* handleMessage: a full buffer drops the message.                         *)
Deliver(m) ==
    /\ m \in wire /\ link.up
    /\ wire' = wire \ {m}
    /\ buffer' = IF Room THEN Append(buffer, m) ELSE buffer
    /\ hist' = [hist EXCEPT !.behind =
                  IF \E r \in OwnerReplies : ChatOf[r] = ChatOf[m]
                                             /\ r \in Queued \cup Stored
                  THEN @ \cup {m} ELSE @]
    /\ UNCHANGED <<pump, row, read, old, link, live, retry>>

(* Mutant of AddMessage: INSERT OR REPLACE.                                *)
ReplaceMessage(m, status) ==
    /\ row' = [row EXCEPT ![m] = status]
    /\ read' = read \ {m}

(* INSERT OR IGNORE *)
AddMessage(m, status) ==
    /\ row' = [row EXCEPT ![m] = IF @ = "none" THEN status ELSE @]
    /\ UNCHANGED read

(* handleInbound; the chat's row is touched in module Chats.               *)
HandleInbound ==
    /\ pump = 0 /\ buffer # <<>> /\ Head(buffer) \in Inbounds
    /\ AddMessage(Head(buffer), "pending")
    /\ buffer' = Tail(buffer)
    /\ UNCHANGED <<wire, pump, old, link, live, retry, hist>>

(* handleOwnerReply: the reply is stored, then it closes the chat.         *)
StoreOwnerReply ==
    /\ pump = 0 /\ buffer # <<>> /\ Head(buffer) \in OwnerReplies
    /\ AddMessage(Head(buffer), "handled")
    /\ pump' = Head(buffer)
    /\ buffer' = Tail(buffer)
    /\ UNCHANGED <<wire, old, link, live, retry, hist>>

(* Mutant of ClosedBy: the messages before the reply's own second only.    *)
ClosedBefore(r) == {m \in Pending : ChatOf[m] = ChatOf[r] /\ m < r - 1}

(* MarkHandledBefore, bounded by the reply's own ts.                       *)
ClosedBy(r) == {m \in Pending : ChatOf[m] = ChatOf[r] /\ m <= r}

CloseByOwnerReply ==
    /\ pump # 0
    /\ row' = [m \in Messages |-> IF m \in ClosedBy(pump) THEN "handled" ELSE row[m]]
    /\ pump' = 0
    /\ UNCHANGED <<wire, buffer, read, old, link, live, retry, hist>>

(* An agent closes a message; which ones is told in module SendTools.      *)
Answer(m) ==
    /\ m \in Pending
    /\ row' = [row EXCEPT ![m] = "handled"]
    /\ UNCHANGED <<wire, buffer, pump, read, old, link, live, retry, hist>>

-----------------------------------------------------------------------------
(* Receipts                                                                *)

(* The history of a call to gw.MarkRead for ids, by one of the senders,    *)
(* that WhatsApp takes or not.                                             *)
Sends(who, ids, taken) ==
    hist' = [hist EXCEPT
        !.blue = IF taken THEN @ \cup ids ELSE @,
        !.stray = @ \/ (link.kill /\ who \notin hist.going),
        !.going = IF who = "retry" THEN @ \ {who} ELSE @]

(* get_messages shows a chat and starts the goroutine for what is unread.  *)
GetMessages(c) ==
    LET unread == {m \in (Stored \cap Inbounds) \ read : ChatOf[m] = c}
    IN  /\ live.pc = "idle" /\ unread # {}
        /\ live' = [pc |-> "wait", todo |-> GroupsOf(unread), ids |-> {}]
        /\ UNCHANGED <<wire, buffer, pump, row, read, old, link, retry, hist>>

(* The delay is over: one look at the kill switch for all of the groups.   *)
LiveStart ==
    /\ live.pc = "wait"
    /\ live' = IF ~link.kill THEN [live EXCEPT !.pc = "send"] ELSE Resting
    /\ UNCHANGED <<wire, buffer, pump, row, read, old, link, retry, hist>>

LiveSend(g, taken) ==
    /\ live.pc = "send" /\ g \in live.todo
    /\ taken => link.up
    /\ Sends("live", g.ids, taken)
    /\ live' = IF taken THEN [pc |-> "record", todo |-> live.todo \ {g}, ids |-> g.ids]
                        ELSE [live EXCEPT !.todo = @ \ {g}]
    /\ UNCHANGED <<wire, buffer, pump, row, read, old, link, retry>>

(* Mutant of Recorded: nothing is written.                                 *)
RecordedNot(s, m) == read
Recorded(s, m) == read \cup {m}

LiveRecord(m) ==
    /\ live.pc = "record" /\ m \in live.ids
    /\ read' = Recorded(live, m)
    /\ live' = IF live.ids = {m} THEN [live EXCEPT !.pc = "send", !.ids = {}]
                                 ELSE [live EXCEPT !.ids = @ \ {m}]
    /\ UNCHANGED <<wire, buffer, pump, row, old, link, retry, hist>>

LiveDone ==
    /\ live.pc = "send" /\ live.todo = {}
    /\ live' = Resting
    /\ UNCHANGED <<wire, buffer, pump, row, read, old, link, retry, hist>>

(* capipush delivered a burst and, unless halted, sends one receipt for it; *)
(* the receipter is the adapter itself and nothing writes read_ts.         *)
Push(g, taken) ==
    /\ g \in GroupsOf(Pending)
    /\ ~link.kill
    /\ taken => link.up
    /\ Sends("push", g.ids, taken)
    /\ UNCHANGED <<wire, buffer, pump, row, read, old, link, live, retry>>

(* PendingReadReceipts: the oldest rows without read_ts.                   *)
Due == (Stored \cap Inbounds \cap old) \ read
PendingReadReceipts ==
    {m \in Due : Cardinality({n \in Due : n < m}) < Limit}

RetryStart ==
    /\ retry.pc = "idle"
    /\ link.up /\ ~link.kill
    /\ Due # {}
    /\ retry' = [pc |-> "wait", todo |-> GroupsOf(PendingReadReceipts), ids |-> {}]
    /\ UNCHANGED <<wire, buffer, pump, row, read, old, link, live, hist>>

MayGoOn == ~link.kill

(* The delay before each group, and the kill switch after it.              *)
RetryNext ==
    /\ retry.pc = "wait"
    /\ retry' = IF retry.todo # {} /\ MayGoOn THEN [retry EXCEPT !.pc = "send"] ELSE Resting
    /\ UNCHANGED <<wire, buffer, pump, row, read, old, link, live, hist>>

RetrySend(g, taken) ==
    /\ retry.pc = "send" /\ g \in retry.todo
    /\ taken => link.up
    /\ Sends("retry", g.ids, taken)
    /\ retry' = [pc |-> IF taken THEN "record" ELSE "wait",
                 todo |-> retry.todo \ {g}, ids |-> IF taken THEN g.ids ELSE {}]
    /\ UNCHANGED <<wire, buffer, pump, row, read, old, link, live>>

RetryRecord(m) ==
    /\ retry.pc = "record" /\ m \in retry.ids
    /\ read' = Recorded(retry, m)
    /\ retry' = IF retry.ids = {m} THEN [retry EXCEPT !.pc = "wait", !.ids = {}]
                                   ELSE [retry EXCEPT !.ids = @ \ {m}]
    /\ UNCHANGED <<wire, buffer, pump, row, old, link, live, hist>>

-----------------------------------------------------------------------------
(* The world                                                               *)

(* A minute passes: every message up to some ts is old enough.             *)
Age(m) ==
    /\ m \notin old /\ \A n \in Inbounds : n < m => n \in old
    /\ old' = old \cup {m}
    /\ UNCHANGED <<wire, buffer, pump, row, read, link, live, retry, hist>>

Connection(up) ==
    /\ link.up # up
    /\ link' = [link EXCEPT !.up = up]
    /\ UNCHANGED <<wire, buffer, pump, row, read, old, live, retry, hist>>

KillSwitch(on) ==
    /\ link.kill # on
    /\ link' = [link EXCEPT !.kill = on]
    /\ hist' = [hist EXCEPT !.going =
                  IF ~on THEN {}
                  ELSE {w \in {"live", "retry"} :
                          CASE w = "live" -> live.pc \in {"send", "record"}
                            [] w = "retry" -> retry.pc = "send"}]
    /\ UNCHANGED <<wire, buffer, pump, row, read, old, live, retry>>

(* The process stops, with a buffer it will not get to, or dies; WhatsApp  *)
(* delivers again what it had no word of.                                  *)
Crash(again) ==
    /\ hist.crashes < MaxCrashes
    /\ wire' = wire \cup again
    /\ buffer' = <<>> /\ pump' = 0
    /\ live' = Resting /\ retry' = Resting
    /\ hist' = [hist EXCEPT !.crashes = @ + 1, !.going = {},
                            !.torn = @ \cup ({pump} \ {0})]
    /\ UNCHANGED <<row, read, old, link>>

-----------------------------------------------------------------------------
Init ==
    /\ wire = Messages
    /\ buffer = <<>> /\ pump = 0
    /\ row = [m \in Messages |-> "none"]
    /\ read = {} /\ old = {}
    /\ link = [up |-> TRUE, kill |-> FALSE]
    /\ live = Resting /\ retry = Resting
    /\ hist = [blue |-> {}, going |-> {}, stray |-> FALSE,
               behind |-> {}, torn |-> {}, crashes |-> 0]

PumpStep == HandleInbound \/ StoreOwnerReply \/ CloseByOwnerReply

LiveStep ==
    \/ LiveStart \/ LiveDone
    \/ \E g \in live.todo, taken \in BOOLEAN : LiveSend(g, taken)
    \/ \E m \in live.ids : LiveRecord(m)

RetryStep ==
    \/ RetryNext
    \/ \E g \in retry.todo, taken \in BOOLEAN : RetrySend(g, taken)
    \/ \E m \in retry.ids : RetryRecord(m)

Next ==
    \/ \E m \in Messages : Deliver(m) \/ Answer(m)
    \/ \E m \in Inbounds : Age(m)
    \/ PumpStep
    \/ \E c \in Chats : GetMessages(c)
    \/ LiveStep
    \/ \E g \in GroupsOf(Pending), taken \in BOOLEAN : Push(g, taken)
    \/ RetryStart \/ RetryStep
    \/ \E b \in BOOLEAN : Connection(b) \/ KillSwitch(b)
    \/ \E again \in SUBSET Redelivered : Crash(again)

Spec == Init /\ [][Next]_vars

(* The loops run, delays elapse, minutes pass and WhatsApp reconnects; a   *)
(* tick needs a connection when it fires (strong fairness).  A receipt the *)
(* retry tries for ever meets a connection and is taken at some time.      *)
Tried(m) == retry.pc = "send" /\ \E g \in retry.todo : m \in g.ids
Taken(m) == \E g \in retry.todo : m \in g.ids /\ RetrySend(g, TRUE)

Fairness ==
    /\ WF_vars(RetryStep)
    /\ SF_vars(RetryStart)
    /\ \A m \in Inbounds : []<>Tried(m) => []<><<Taken(m)>>_vars
    /\ \A m \in Inbounds : WF_vars(Age(m))
    /\ WF_vars(Connection(TRUE))

FairSpec == Spec /\ Fairness

-----------------------------------------------------------------------------
(* Properties                                                              *)

InboundTypeOK ==
    /\ wire \subseteq Messages
    /\ buffer \in Seq(Messages) /\ Len(buffer) <= BufferSize
    /\ pump \in OwnerReplies \cup {0}
    /\ row \in [Messages -> {"none", "pending", "handled"}]
    /\ read \subseteq Inbounds /\ old \subseteq Inbounds
    /\ link \in [up : BOOLEAN, kill : BOOLEAN]
    /\ {live, retry} \subseteq Sender
    /\ hist \in History

(* What the table calls read, the contact sees as read: whoever sent the   *)
(* receipts, in what order, and whatever failed among those of one pass.   *)
ReadIsReceipted == read \subseteq hist.blue

(* Once the kill switch is on, only calls that had passed their check go   *)
(* on, and of those the retry sends the one receipt it was at.             *)
QuietAfterKill == ~hist.stray

(* The owner's reply on the phone closes what he had received before it:   *)
(* no message of the chat up to the reply's ts waits for the agent, unless *)
(* WhatsApp delivered it after the reply or a crash cut the closing.       *)
OwnerAnswered ==
    \A r \in OwnerReplies \ hist.torn :
        row[r] = "handled" /\ pump # r =>
            \A m \in Pending : ChatOf[m] = ChatOf[r] /\ m <= r => m \in hist.behind

(* What the table says of receipts and replies is what happened.           *)
InboundSafe == InboundTypeOK /\ ReadIsReceipted /\ QuietAfterKill /\ OwnerAnswered

(* A message delivered again undoes nothing: it is not handled twice, nor  *)
(* asked for its receipt again.                                            *)
NothingUndone ==
    [][\A m \in Messages : /\ row[m] = "handled" => row'[m] = "handled"
                           /\ m \in read => m \in read']_vars

(* A receipt that got lost is recovered, across failures, connections that *)
(* come and go and passes that look at Limit rows only, unless the kill    *)
(* switch is thrown.                                                       *)
ReceiptsRecovered ==
    \A m \in Inbounds : []<>(row[m] = "none" \/ m \in read \/ link.kill)
=============================================================================
