--------------------------- MODULE Inbound_proofs ---------------------------
(***************************************************************************)
(* Theorems about Inbound for any messages, chats and speakers, buffers,   *)
(* retry limits and numbers of crashes: InboundSafe is an invariant, and   *)
(* every step keeps the promise NothingUndone.                             *)
(***************************************************************************)
EXTENDS Inbound, TLAPS

-----------------------------------------------------------------------------
(* The inductive invariant                                                 *)

(* What a sender is about to write down, WhatsApp took.                    *)
SenderInv == live.ids \subseteq hist.blue /\ retry.ids \subseteq hist.blue

(* While the kill switch is on, a sender past its check is one that had    *)
(* passed it before.                                                       *)
KillInv ==
    link.kill =>
        /\ live.pc \in {"send", "record"} => "live" \in hist.going
        /\ retry.pc = "send" => "retry" \in hist.going

(* What is behind a reply of its chat in the buffer, or in the buffer with *)
(* the reply in the table, was delivered after the reply.  A reply is      *)
(* never pending.                                                          *)
OrderInv ==
    /\ \A i, j \in 1..Len(buffer) :
          i < j /\ buffer[i] \in OwnerReplies /\ ChatOf[buffer[i]] = ChatOf[buffer[j]] =>
             buffer[j] \in hist.behind
    /\ \A r \in OwnerReplies, j \in 1..Len(buffer) :
          row[r] # "none" /\ ChatOf[buffer[j]] = ChatOf[r] => buffer[j] \in hist.behind
    /\ \A r \in OwnerReplies : row[r] # "pending"

InboundIInv ==
    /\ InboundTypeOK
    /\ ReadIsReceipted /\ SenderInv
    /\ QuietAfterKill /\ KillInv
    /\ OwnerAnswered /\ OrderInv

-----------------------------------------------------------------------------
(* The operators                                                           *)

LEMMA GroupsOfIsGroups ==
    ASSUME InboundAssumption, NEW M, M \subseteq Inbounds
    PROVE  GroupsOf(M) \subseteq Groups
<1>1. ASSUME NEW m \in M
      PROVE  /\ ChatOf[m] \in Chats /\ SpeakerOf[m] \in Speakers
             /\ {n \in M : ChatOf[n] = ChatOf[m] /\ SpeakerOf[n] = SpeakerOf[m]} \in SUBSET Inbounds
  BY <1>1 DEF InboundAssumption, Inbounds
<1>2. QED BY <1>1 DEF GroupsOf, Groups

LEMMA RestingIsSender == Resting \in Sender /\ Resting.pc = "idle" /\ Resting.ids = {}
BY DEF Resting, Sender

(* What the log of a call to MarkRead becomes.                             *)
LEMMA SendsLog ==
    ASSUME hist \in History, NEW who \in {"live", "retry", "push"},
           NEW ids \in SUBSET Inbounds, NEW taken \in BOOLEAN, Sends(who, ids, taken),
           ~hist.stray, link.kill => who \in hist.going
    PROVE  /\ hist' \in History /\ ~hist'.stray
           /\ hist'.blue = IF taken THEN hist.blue \cup ids ELSE hist.blue
           /\ hist'.going = IF who = "retry" THEN hist.going \ {"retry"} ELSE hist.going
           /\ hist'.behind = hist.behind /\ hist'.torn = hist.torn
<1> DEFINE b == IF taken THEN hist.blue \cup ids ELSE hist.blue
           g == IF who = "retry" THEN hist.going \ {"retry"} ELSE hist.going
           s == hist.stray \/ (link.kill /\ who \notin hist.going)
<1>1. b \in SUBSET Inbounds /\ g \in SUBSET {"live", "retry"} /\ s = FALSE
  BY DEF History
<1>2. hist' = [hist EXCEPT !.blue = b, !.stray = s, !.going = g]
  BY DEF Sends
<1> HIDE DEF b, g, s
<1>3. /\ hist' \in History /\ ~hist'.stray
      /\ hist'.blue = b /\ hist'.going = g
      /\ hist'.behind = hist.behind /\ hist'.torn = hist.torn
  BY <1>1, <1>2 DEF History
<1>4. QED BY <1>3 DEF b, g

-----------------------------------------------------------------------------
(* The steps                                                               *)

LEMMA NextCases ==
    ASSUME [Next]_vars
    PROVE  \/ \E m \in Messages : Deliver(m)
           \/ \E m \in Messages : Answer(m)
           \/ \E m \in Inbounds : Age(m)
           \/ HandleInbound
           \/ StoreOwnerReply
           \/ CloseByOwnerReply
           \/ \E c \in Chats : GetMessages(c)
           \/ LiveStart \/ LiveDone
           \/ \E g \in live.todo, taken \in BOOLEAN : LiveSend(g, taken)
           \/ \E m \in live.ids : LiveRecord(m)
           \/ \E g \in GroupsOf(Pending), taken \in BOOLEAN : Push(g, taken)
           \/ RetryStart \/ RetryNext
           \/ \E g \in retry.todo, taken \in BOOLEAN : RetrySend(g, taken)
           \/ \E m \in retry.ids : RetryRecord(m)
           \/ \E b \in BOOLEAN : Connection(b)
           \/ \E b \in BOOLEAN : KillSwitch(b)
           \/ \E again \in SUBSET Redelivered : Crash(again)
           \/ UNCHANGED vars
BY DEF Next, PumpStep, LiveStep, RetryStep

(* Only these write the log of a receipt, each for a group of inbounds and *)
(* past its check.                                                         *)
LEMMA ReceiptLogged ==
    ASSUME InboundAssumption, InboundTypeOK, KillInv, QuietAfterKill, OrderInv,
           NEW g, NEW taken \in BOOLEAN,
           \/ g \in live.todo /\ LiveSend(g, taken)
           \/ g \in GroupsOf(Pending) /\ Push(g, taken)
           \/ g \in retry.todo /\ RetrySend(g, taken)
    PROVE  /\ g \in Groups /\ hist' \in History /\ ~hist'.stray
           /\ hist'.blue = IF taken THEN hist.blue \cup g.ids ELSE hist.blue
           /\ \/ hist'.going = hist.going
              \/ RetrySend(g, taken) /\ hist'.going = hist.going \ {"retry"}
           /\ hist'.behind = hist.behind /\ hist'.torn = hist.torn
<1>0. /\ hist \in History /\ ~hist.stray /\ live \in Sender /\ retry \in Sender
  BY DEF InboundTypeOK, QuietAfterKill
<1>1. CASE g \in live.todo /\ LiveSend(g, taken)
  <2>1. g \in Groups /\ g.ids \in SUBSET Inbounds
    BY <1>0, <1>1 DEF Sender, Groups
  <2>2. Sends("live", g.ids, taken) /\ (link.kill => "live" \in hist.going)
    BY <1>1 DEF LiveSend, KillInv
  <2>3. /\ hist' \in History /\ ~hist'.stray
        /\ hist'.blue = IF taken THEN hist.blue \cup g.ids ELSE hist.blue
        /\ hist'.going = hist.going
        /\ hist'.behind = hist.behind /\ hist'.torn = hist.torn
    <3>1. /\ hist' \in History /\ ~hist'.stray
          /\ hist'.blue = IF taken THEN hist.blue \cup g.ids ELSE hist.blue
          /\ hist'.going = IF "live" = "retry" THEN hist.going \ {"retry"} ELSE hist.going
          /\ hist'.behind = hist.behind /\ hist'.torn = hist.torn
      BY <1>0, <2>1, <2>2, SendsLog
    <3>2. "live" # "retry"
      OBVIOUS
    <3>3. QED BY <3>1, <3>2
  <2>4. QED BY <2>1, <2>3
<1>2. CASE g \in GroupsOf(Pending) /\ Push(g, taken)
  <2>0. Pending \subseteq Inbounds
    BY DEF OrderInv, Pending, Inbounds
  <2>1. g \in Groups /\ g.ids \in SUBSET Inbounds
    BY <1>2, <2>0, GroupsOfIsGroups DEF Groups
  <2>2. Sends("push", g.ids, taken) /\ (link.kill => "push" \in hist.going)
    BY <1>2 DEF Push
  <2>3. QED BY <1>0, <2>1, <2>2, SendsLog
<1>3. CASE g \in retry.todo /\ RetrySend(g, taken)
  <2>1. g \in Groups /\ g.ids \in SUBSET Inbounds
    BY <1>0, <1>3 DEF Sender, Groups
  <2>2. Sends("retry", g.ids, taken) /\ (link.kill => "retry" \in hist.going)
    BY <1>3 DEF RetrySend, KillInv
  <2>3. QED BY <1>0, <1>3, <2>1, <2>2, SendsLog DEF RetrySend
<1>4. QED BY <1>1, <1>2, <1>3


-----------------------------------------------------------------------------
(* The invariant is kept                                                   *)

LEMMA TypeStep ==
    ASSUME InboundAssumption, InboundIInv, [Next]_vars
    PROVE  InboundTypeOK'
<1>0. /\ wire \subseteq Messages
      /\ buffer \in Seq(Messages) /\ Len(buffer) \in Nat /\ Len(buffer) <= BufferSize
      /\ pump \in OwnerReplies \cup {0}
      /\ row \in [Messages -> {"none", "pending", "handled"}]
      /\ read \subseteq Inbounds /\ old \subseteq Inbounds
      /\ link \in [up : BOOLEAN, kill : BOOLEAN]
      /\ live \in Sender /\ retry \in Sender /\ hist \in History
      /\ OwnerReplies \subseteq Messages /\ Inbounds \subseteq Messages
      /\ BufferSize \in Nat \ {0}
  BY DEF InboundIInv, InboundTypeOK, InboundAssumption, Inbounds
<1>1. ASSUME NEW m \in Messages, Deliver(m) PROVE InboundTypeOK'
  <2>1. buffer' \in Seq(Messages) /\ Len(buffer') <= BufferSize
    BY <1>0, <1>1 DEF Deliver, Room
  <2>2. PICK B : B \in SUBSET Messages /\ hist' = [hist EXCEPT !.behind = B]
    BY <1>0, <1>1 DEF Deliver, History
  <2>3. hist' \in History
    BY <1>0, <2>2 DEF History
  <2>4. QED BY <1>0, <1>1, <2>1, <2>3 DEF Deliver, InboundTypeOK
<1>2. ASSUME NEW m \in Messages, Answer(m) PROVE InboundTypeOK'
  BY <1>0, <1>2 DEF Answer, InboundTypeOK
<1>3. ASSUME NEW m \in Inbounds, Age(m) PROVE InboundTypeOK'
  BY <1>0, <1>3 DEF Age, InboundTypeOK
<1>4. ASSUME buffer # <<>>
      PROVE  /\ Head(buffer) \in Messages /\ Tail(buffer) \in Seq(Messages)
             /\ Len(Tail(buffer)) <= BufferSize
  BY <1>0, <1>4
<1>5. CASE HandleInbound
  <2>1. row' \in [Messages -> {"none", "pending", "handled"}] /\ read' = read
    BY <1>0, <1>5 DEF HandleInbound, AddMessage
  <2>2. QED BY <1>0, <1>4, <1>5, <2>1 DEF HandleInbound, InboundTypeOK
<1>6. CASE StoreOwnerReply
  <2>1. row' \in [Messages -> {"none", "pending", "handled"}] /\ read' = read
    BY <1>0, <1>6 DEF StoreOwnerReply, AddMessage
  <2>2. QED BY <1>0, <1>4, <1>6, <2>1 DEF StoreOwnerReply, InboundTypeOK
<1>7. CASE CloseByOwnerReply
  BY <1>0, <1>7 DEF CloseByOwnerReply, InboundTypeOK
<1>8. ASSUME NEW c \in Chats, GetMessages(c) PROVE InboundTypeOK'
  <2>1. live' \in Sender
    BY <1>8, GroupsOfIsGroups DEF GetMessages, Sender
  <2>2. QED BY <1>0, <1>8, <2>1 DEF GetMessages, InboundTypeOK
<1>9. CASE LiveStart \/ LiveDone
  <2>1. live' = Resting \/ live' = [live EXCEPT !.pc = "send"]
    BY <1>9 DEF LiveStart, LiveDone
  <2>a. [live EXCEPT !.pc = "send"] \in Sender
    BY <1>0 DEF Sender
  <2>b. live' \in Sender
    BY <2>1, <2>a, RestingIsSender
  <2>2. QED BY <1>0, <1>9, <2>b DEF LiveStart, LiveDone, InboundTypeOK
<1>10. ASSUME NEW g \in live.todo, NEW taken \in BOOLEAN, LiveSend(g, taken) PROVE InboundTypeOK'
  <2>1. hist' \in History /\ g \in Groups
    BY <1>10, ReceiptLogged DEF InboundIInv
  <2>2. live' \in Sender
    BY <1>0, <1>10, <2>1 DEF LiveSend, Sender, Groups
  <2>3. QED BY <1>0, <1>10, <2>1, <2>2 DEF LiveSend, InboundTypeOK
<1>11. ASSUME NEW m \in live.ids, LiveRecord(m) PROVE InboundTypeOK'
  <2>1. live' \in Sender /\ m \in Inbounds
    BY <1>0, <1>11 DEF LiveRecord, Sender
  <2>2. QED BY <1>0, <1>11, <2>1 DEF LiveRecord, Recorded, InboundTypeOK
<1>12. ASSUME NEW g \in GroupsOf(Pending), NEW taken \in BOOLEAN, Push(g, taken)
       PROVE  InboundTypeOK'
  <2>1. hist' \in History
    BY <1>12, ReceiptLogged DEF InboundIInv
  <2>2. QED BY <1>0, <1>12, <2>1 DEF Push, InboundTypeOK
<1>13. CASE RetryStart
  <2>1. retry' \in Sender
    BY <1>13, GroupsOfIsGroups DEF RetryStart, Sender, PendingReadReceipts, Due
  <2>2. QED BY <1>0, <1>13, <2>1 DEF RetryStart, InboundTypeOK
<1>14. CASE RetryNext
  <2>1. retry' \in Sender
    BY <1>0, <1>14, RestingIsSender DEF RetryNext, Sender
  <2>2. QED BY <1>0, <1>14, <2>1 DEF RetryNext, InboundTypeOK
<1>15. ASSUME NEW g \in retry.todo, NEW taken \in BOOLEAN, RetrySend(g, taken) PROVE InboundTypeOK'
  <2>1. hist' \in History /\ g \in Groups
    BY <1>15, ReceiptLogged DEF InboundIInv
  <2>2. retry' \in Sender
    BY <1>0, <1>15, <2>1 DEF RetrySend, Sender, Groups
  <2>3. QED BY <1>0, <1>15, <2>1, <2>2 DEF RetrySend, InboundTypeOK
<1>16. ASSUME NEW m \in retry.ids, RetryRecord(m) PROVE InboundTypeOK'
  <2>1. retry' \in Sender /\ m \in Inbounds
    BY <1>0, <1>16 DEF RetryRecord, Sender
  <2>2. QED BY <1>0, <1>16, <2>1 DEF RetryRecord, Recorded, InboundTypeOK
<1>17. ASSUME NEW b \in BOOLEAN, Connection(b) PROVE InboundTypeOK'
  BY <1>0, <1>17 DEF Connection, InboundTypeOK
<1>18. ASSUME NEW b \in BOOLEAN, KillSwitch(b) PROVE InboundTypeOK'
  <2>1. PICK G : G \in SUBSET {"live", "retry"} /\ hist' = [hist EXCEPT !.going = G]
    BY <1>18 DEF KillSwitch
  <2>2. hist' \in History
    BY <1>0, <2>1 DEF History
  <2>3. QED BY <1>0, <1>18, <2>2 DEF KillSwitch, InboundTypeOK
<1>19. ASSUME NEW again \in SUBSET Redelivered, Crash(again) PROVE InboundTypeOK'
  <2>a. PICK T, n : T = hist.torn \cup ({pump} \ {0}) /\ n = hist.crashes + 1
    OBVIOUS
  <2>b. T \subseteq OwnerReplies /\ n \in 0..MaxCrashes
    BY <1>0, <1>19, <2>a DEF Crash, History, InboundAssumption
  <2>c. hist' = [hist EXCEPT !.crashes = n, !.going = {}, !.torn = T]
    BY <1>19, <2>a DEF Crash
  <2>1. hist' \in History
    BY <1>0, <2>b, <2>c DEF History
  <2>2. QED BY <1>0, <1>19, <2>1, RestingIsSender DEF Crash, InboundTypeOK, InboundAssumption
<1>20. CASE UNCHANGED vars
  BY <1>0, <1>20 DEF vars, InboundTypeOK
<1>21. QED
  BY <1>1, <1>2, <1>3, <1>5, <1>6, <1>7, <1>8, <1>9, <1>10, <1>11, <1>12, <1>13, <1>14,
     <1>15, <1>16, <1>17, <1>18, <1>19, <1>20, NextCases

(* What is read was receipted: a sender writes down only what it sent, and *)
(* nobody else writes read_ts.                                             *)
LEMMA ReadStep ==
    ASSUME InboundAssumption, InboundIInv, [Next]_vars
    PROVE  ReadIsReceipted' /\ SenderInv'
<1>0. /\ read \subseteq hist.blue /\ live.ids \subseteq hist.blue /\ retry.ids \subseteq hist.blue
      /\ hist \in History /\ live \in Sender /\ retry \in Sender
  BY DEF InboundIInv, ReadIsReceipted, SenderInv, InboundTypeOK
<1>1. ASSUME read' = read, hist.blue \subseteq hist'.blue,
             live'.ids \subseteq hist'.blue, retry'.ids \subseteq hist'.blue
      PROVE  ReadIsReceipted' /\ SenderInv'
  BY <1>0, <1>1 DEF ReadIsReceipted, SenderInv
<1>2. ASSUME UNCHANGED <<read, live, retry>>, hist'.blue = hist.blue
      PROVE  ReadIsReceipted' /\ SenderInv'
  BY <1>0, <1>1, <1>2
<1>3. ASSUME NEW m \in Messages, Deliver(m) PROVE ReadIsReceipted' /\ SenderInv'
  BY <1>0, <1>2, <1>3 DEF Deliver, History
<1>4. CASE HandleInbound \/ StoreOwnerReply \/ CloseByOwnerReply \/ UNCHANGED vars
  BY <1>2, <1>4 DEF HandleInbound, StoreOwnerReply, CloseByOwnerReply, AddMessage, vars
<1>5. ASSUME NEW m \in Messages, Answer(m) PROVE ReadIsReceipted' /\ SenderInv'
  BY <1>2, <1>5 DEF Answer
<1>6. ASSUME NEW m \in Inbounds, Age(m) PROVE ReadIsReceipted' /\ SenderInv'
  BY <1>2, <1>6 DEF Age
<1>7. ASSUME NEW c \in Chats, GetMessages(c) PROVE ReadIsReceipted' /\ SenderInv'
  BY <1>0, <1>1, <1>7 DEF GetMessages
<1>8. CASE LiveStart \/ LiveDone
  BY <1>0, <1>1, <1>8, RestingIsSender DEF LiveStart, LiveDone, Sender
<1>9. ASSUME NEW g \in live.todo, NEW taken \in BOOLEAN, LiveSend(g, taken)
      PROVE  ReadIsReceipted' /\ SenderInv'
  <2>1. hist'.blue = IF taken THEN hist.blue \cup g.ids ELSE hist.blue
    BY <1>9, ReceiptLogged DEF InboundIInv
  <2>2. live'.ids = (IF taken THEN g.ids ELSE live.ids) /\ UNCHANGED <<read, retry>>
    BY <1>0, <1>9 DEF LiveSend, Sender
  <2>3. QED BY <1>0, <1>1, <2>1, <2>2
<1>10. ASSUME NEW m \in live.ids, LiveRecord(m) PROVE ReadIsReceipted' /\ SenderInv'
  BY <1>0, <1>10 DEF LiveRecord, Recorded, Sender, ReadIsReceipted, SenderInv
<1>11. ASSUME NEW g \in GroupsOf(Pending), NEW taken \in BOOLEAN, Push(g, taken)
       PROVE  ReadIsReceipted' /\ SenderInv'
  <2>1. hist'.blue = IF taken THEN hist.blue \cup g.ids ELSE hist.blue
    BY <1>11, ReceiptLogged DEF InboundIInv
  <2>2. QED BY <1>0, <1>1, <1>11, <2>1 DEF Push
<1>12. CASE RetryStart
  BY <1>0, <1>1, <1>12 DEF RetryStart
<1>13. CASE RetryNext
  BY <1>0, <1>1, <1>13, RestingIsSender DEF RetryNext, Sender
<1>14. ASSUME NEW g \in retry.todo, NEW taken \in BOOLEAN, RetrySend(g, taken)
       PROVE  ReadIsReceipted' /\ SenderInv'
  <2>1. hist'.blue = IF taken THEN hist.blue \cup g.ids ELSE hist.blue
    BY <1>14, ReceiptLogged DEF InboundIInv
  <2>2. retry'.ids = (IF taken THEN g.ids ELSE {}) /\ UNCHANGED <<read, live>>
    BY <1>14 DEF RetrySend
  <2>3. QED BY <1>0, <1>1, <2>1, <2>2
<1>15. ASSUME NEW m \in retry.ids, RetryRecord(m) PROVE ReadIsReceipted' /\ SenderInv'
  BY <1>0, <1>15 DEF RetryRecord, Recorded, Sender, ReadIsReceipted, SenderInv
<1>16. ASSUME NEW b \in BOOLEAN, Connection(b) PROVE ReadIsReceipted' /\ SenderInv'
  BY <1>2, <1>16 DEF Connection
<1>17. ASSUME NEW b \in BOOLEAN, KillSwitch(b) PROVE ReadIsReceipted' /\ SenderInv'
  BY <1>0, <1>2, <1>17 DEF KillSwitch, History
<1>18. ASSUME NEW again \in SUBSET Redelivered, Crash(again) PROVE ReadIsReceipted' /\ SenderInv'
  BY <1>0, <1>1, <1>18, RestingIsSender DEF Crash, History
<1>19. QED
  BY <1>3, <1>4, <1>5, <1>6, <1>7, <1>8, <1>9, <1>10, <1>11, <1>12, <1>13, <1>14,
     <1>15, <1>16, <1>17, <1>18, NextCases


(* Only senders past their check go on once the kill switch is on.         *)
LEMMA QuietStep ==
    ASSUME InboundAssumption, InboundIInv, [Next]_vars
    PROVE  QuietAfterKill' /\ KillInv'
<1>0. /\ ~hist.stray /\ hist \in History /\ live \in Sender /\ retry \in Sender
      /\ link \in [up : BOOLEAN, kill : BOOLEAN]
      /\ link.kill =>
           /\ live.pc \in {"send", "record"} => "live" \in hist.going
           /\ retry.pc = "send" => "retry" \in hist.going
  BY DEF InboundIInv, QuietAfterKill, KillInv, InboundTypeOK
<1>1. ASSUME hist'.stray = hist.stray, hist'.going = hist.going, link'.kill = link.kill,
             link.kill => /\ live'.pc \in {"send", "record"} => live.pc \in {"send", "record"}
                          /\ retry'.pc = "send" => retry.pc = "send"
      PROVE  QuietAfterKill' /\ KillInv'
  BY <1>0, <1>1 DEF QuietAfterKill, KillInv
<1>2. ASSUME UNCHANGED <<live, retry, link>>, hist'.stray = hist.stray, hist'.going = hist.going
      PROVE  QuietAfterKill' /\ KillInv'
  BY <1>1, <1>2
<1>3. ASSUME NEW m \in Messages, Deliver(m) PROVE QuietAfterKill' /\ KillInv'
  BY <1>0, <1>2, <1>3 DEF Deliver, History
<1>4. CASE HandleInbound \/ StoreOwnerReply \/ CloseByOwnerReply \/ UNCHANGED vars
  BY <1>2, <1>4 DEF HandleInbound, StoreOwnerReply, CloseByOwnerReply, AddMessage, vars
<1>5. ASSUME NEW m \in Messages, Answer(m) PROVE QuietAfterKill' /\ KillInv'
  BY <1>2, <1>5 DEF Answer
<1>6. ASSUME NEW m \in Inbounds, Age(m) PROVE QuietAfterKill' /\ KillInv'
  BY <1>2, <1>6 DEF Age
<1>7. ASSUME NEW c \in Chats, GetMessages(c) PROVE QuietAfterKill' /\ KillInv'
  BY <1>0, <1>1, <1>7 DEF GetMessages
<1>8. CASE LiveStart
  BY <1>0, <1>1, <1>8, RestingIsSender DEF LiveStart, Sender
<1>9. CASE LiveDone
  BY <1>0, <1>1, <1>9, RestingIsSender DEF LiveDone
<1>10. ASSUME NEW g \in live.todo, NEW taken \in BOOLEAN, LiveSend(g, taken)
       PROVE  QuietAfterKill' /\ KillInv'
  <2>1. /\ ~hist'.stray
        /\ \/ hist'.going = hist.going
           \/ RetrySend(g, taken) /\ hist'.going = hist.going \ {"retry"}
    BY <1>10, ReceiptLogged DEF InboundIInv
  <2>2. live.pc = "send" /\ retry' = retry /\ link' = link
    BY <1>10 DEF LiveSend
  <2>3. RetrySend(g, taken) => retry.pc = "send" /\ retry'.pc # "send"
    BY DEF RetrySend
  <2>4. hist'.going = hist.going
    BY <2>1, <2>2, <2>3
  <2>5. QED BY <1>0, <2>1, <2>2, <2>4 DEF QuietAfterKill, KillInv
<1>11. ASSUME NEW m \in live.ids, LiveRecord(m) PROVE QuietAfterKill' /\ KillInv'
  BY <1>0, <1>1, <1>11 DEF LiveRecord, Sender
<1>12. ASSUME NEW g \in GroupsOf(Pending), NEW taken \in BOOLEAN, Push(g, taken)
       PROVE  QuietAfterKill' /\ KillInv'
  <2>1. ~hist'.stray /\ link' = link /\ ~link.kill
    BY <1>12, ReceiptLogged DEF InboundIInv, Push
  <2>2. QED BY <2>1 DEF QuietAfterKill, KillInv
<1>13. CASE RetryStart
  BY <1>1, <1>13 DEF RetryStart
<1>14. CASE RetryNext
  BY <1>0, <1>1, <1>14, RestingIsSender DEF RetryNext, MayGoOn, Sender
<1>15. ASSUME NEW g \in retry.todo, NEW taken \in BOOLEAN, RetrySend(g, taken)
       PROVE  QuietAfterKill' /\ KillInv'
  <2>1. /\ ~hist'.stray
        /\ hist'.going = hist.going \/ hist'.going = hist.going \ {"retry"}
    BY <1>15, ReceiptLogged DEF InboundIInv
  <2>2. live' = live /\ link' = link /\ retry'.pc # "send"
    BY <1>15 DEF RetrySend
  <2>3. "live" # "retry"
    OBVIOUS
  <2>4. QED BY <1>0, <2>1, <2>2, <2>3 DEF QuietAfterKill, KillInv
<1>16. ASSUME NEW m \in retry.ids, RetryRecord(m) PROVE QuietAfterKill' /\ KillInv'
  BY <1>0, <1>1, <1>16 DEF RetryRecord, Sender
<1>17. ASSUME NEW b \in BOOLEAN, Connection(b) PROVE QuietAfterKill' /\ KillInv'
  BY <1>0, <1>1, <1>17 DEF Connection
<1>18. ASSUME NEW b \in BOOLEAN, KillSwitch(b) PROVE QuietAfterKill' /\ KillInv'
  <2>1. PICK G : /\ hist' = [hist EXCEPT !.going = G]
                 /\ b => /\ live.pc \in {"send", "record"} => "live" \in G
                         /\ retry.pc = "send" => "retry" \in G
    <3> DEFINE H == IF ~b THEN {}
                    ELSE {w \in {"live", "retry"} :
                            CASE w = "live" -> live.pc \in {"send", "record"}
                              [] w = "retry" -> retry.pc = "send"}
    <3>1. hist' = [hist EXCEPT !.going = H]
      BY <1>18 DEF KillSwitch
    <3>2. b => (live.pc \in {"send", "record"} => "live" \in H)
      OBVIOUS
    <3>3. b => (retry.pc = "send" => "retry" \in H)
      OBVIOUS
    <3> HIDE DEF H
    <3>4. QED BY <3>1, <3>2, <3>3
  <2>2. /\ hist'.stray = hist.stray /\ hist'.going = G
        /\ link'.kill = b /\ live' = live /\ retry' = retry
    BY <1>0, <1>18, <2>1 DEF KillSwitch, History
  <2>3. QED BY <1>0, <2>1, <2>2 DEF QuietAfterKill, KillInv
<1>19. ASSUME NEW again \in SUBSET Redelivered, Crash(again) PROVE QuietAfterKill' /\ KillInv'
  <2>1. ~hist'.stray /\ live'.pc = "idle" /\ retry'.pc = "idle"
    BY <1>0, <1>19, RestingIsSender DEF Crash, History
  <2>2. QED BY <2>1 DEF QuietAfterKill, KillInv
<1>20. QED
  BY <1>3, <1>4, <1>5, <1>6, <1>7, <1>8, <1>9, <1>10, <1>11, <1>12, <1>13, <1>14,
     <1>15, <1>16, <1>17, <1>18, <1>19, NextCases


(* The owner's reply has closed what came before it.                       *)
LEMMA OwnerStep ==
    ASSUME InboundAssumption, InboundIInv, [Next]_vars
    PROVE  OwnerAnswered' /\ OrderInv'
<1>0. /\ row \in [Messages -> {"none", "pending", "handled"}]
      /\ buffer \in Seq(Messages) /\ pump \in OwnerReplies \cup {0}
      /\ hist \in History /\ OwnerAnswered /\ OrderInv
      /\ OwnerReplies \subseteq Messages /\ Inbounds \subseteq Messages
      /\ Inbounds \cap OwnerReplies = {}
      /\ Messages \subseteq Nat \ {0}
  BY DEF InboundIInv, InboundTypeOK, InboundAssumption, Inbounds
<1>1. ASSUME UNCHANGED <<buffer, row, pump>>, hist'.behind = hist.behind, hist'.torn = hist.torn
      PROVE  OwnerAnswered' /\ OrderInv'
  BY <1>0, <1>1 DEF OwnerAnswered, OrderInv, Pending
<1>2. ASSUME buffer # <<>>
      PROVE  /\ Head(buffer) \in Messages /\ Tail(buffer) \in Seq(Messages)
             /\ Head(buffer) = buffer[1] /\ 1 \in 1..Len(buffer)
             /\ \A j \in 1..Len(Tail(buffer)) :
                   j + 1 \in 1..Len(buffer) /\ Tail(buffer)[j] = buffer[j + 1]
  BY <1>0, <1>2
<1>3. ASSUME NEW m \in Messages, Deliver(m) PROVE OwnerAnswered' /\ OrderInv'
  <2>1. PICK B : /\ hist' = [hist EXCEPT !.behind = B]
                 /\ hist.behind \subseteq B
                 /\ \A r \in OwnerReplies : ChatOf[r] = ChatOf[m] /\ r \in Queued \cup Stored => m \in B
    <3> DEFINE after == \E r \in OwnerReplies : ChatOf[r] = ChatOf[m] /\ r \in Queued \cup Stored
               C == IF after THEN hist.behind \cup {m} ELSE hist.behind
    <3>1. hist' = [hist EXCEPT !.behind = C]
      BY <1>3 DEF Deliver
    <3>2. hist.behind \subseteq C
      OBVIOUS
    <3>3. \A r \in OwnerReplies : ChatOf[r] = ChatOf[m] /\ r \in Queued \cup Stored => m \in C
      OBVIOUS
    <3> HIDE DEF C
    <3>4. QED BY <3>1, <3>2, <3>3
  <2>2. /\ hist'.behind = B /\ hist'.torn = hist.torn /\ row' = row /\ pump' = pump
        /\ buffer' = buffer \/ buffer' = Append(buffer, m)
    BY <1>0, <1>3, <2>1 DEF Deliver, History
  <2>3. OwnerAnswered'
    BY <1>0, <2>1, <2>2 DEF OwnerAnswered, Pending
  <2>4. CASE buffer' = buffer
    BY <1>0, <2>1, <2>2, <2>3, <2>4 DEF OrderInv
  <2>5. CASE buffer' = Append(buffer, m)
    <3>1. /\ Len(buffer') = Len(buffer) + 1 /\ Len(buffer) \in Nat
          /\ \A j \in 1..Len(buffer) : buffer'[j] = buffer[j]
          /\ buffer'[Len(buffer) + 1] = m
      BY <1>0, <2>5
    <3>2. ASSUME NEW i \in 1..Len(buffer), buffer[i] \in OwnerReplies, ChatOf[buffer[i]] = ChatOf[m]
          PROVE  m \in B
      <4>1. buffer[i] \in Queued
        BY <1>0, <3>2 DEF Queued, ToSet
      <4>2. QED BY <2>1, <3>2, <4>1
    <3>3. ASSUME NEW i \in 1..Len(buffer'), NEW j \in 1..Len(buffer'), i < j,
                 buffer'[i] \in OwnerReplies, ChatOf[buffer'[i]] = ChatOf[buffer'[j]]
          PROVE  buffer'[j] \in B
      <4>1. i \in 1..Len(buffer) /\ (j \in 1..Len(buffer) \/ j = Len(buffer) + 1)
        BY <3>1, <3>3
      <4>2. CASE j \in 1..Len(buffer)
        BY <1>0, <2>1, <3>1, <3>3, <4>1, <4>2 DEF OrderInv
      <4>3. CASE j = Len(buffer) + 1
        BY <3>1, <3>2, <3>3, <4>1, <4>3
      <4>4. QED BY <4>1, <4>2, <4>3
    <3>4. ASSUME NEW r \in OwnerReplies, NEW j \in 1..Len(buffer'), row[r] # "none",
                 ChatOf[buffer'[j]] = ChatOf[r]
          PROVE  buffer'[j] \in B
      <4>1. CASE j \in 1..Len(buffer)
        BY <1>0, <2>1, <3>1, <3>4, <4>1 DEF OrderInv
      <4>2. CASE j = Len(buffer) + 1
        BY <1>0, <2>1, <3>1, <3>4, <4>2 DEF Stored
      <4>3. QED BY <3>1, <4>1, <4>2
    <3>5. QED BY <1>0, <2>2, <2>3, <3>3, <3>4 DEF OrderInv
  <2>6. QED BY <2>2, <2>4, <2>5
<1>4. ASSUME buffer # <<>>, buffer' = Tail(buffer), hist' = hist, read' = read,
             NEW s \in {"pending", "handled"},
             row' = [row EXCEPT ![Head(buffer)] = IF @ = "none" THEN s ELSE @],
             s = "pending" <=> Head(buffer) \in Inbounds
      PROVE  OrderInv'
  <2>1. PICK h : h = Head(buffer)
    OBVIOUS
  <2>2. /\ h \in Messages /\ row'[h] = IF row[h] = "none" THEN s ELSE row[h]
        /\ \A m \in Messages \ {h} : row'[m] = row[m]
        /\ h = buffer[1]
    BY <1>0, <1>2, <1>4, <2>1
  <2>3. ASSUME NEW i \in 1..Len(buffer'), NEW j \in 1..Len(buffer'), i < j,
               buffer'[i] \in OwnerReplies, ChatOf[buffer'[i]] = ChatOf[buffer'[j]]
        PROVE  buffer'[j] \in hist.behind
    <3>1. /\ i + 1 \in 1..Len(buffer) /\ j + 1 \in 1..Len(buffer) /\ i + 1 < j + 1
          /\ buffer'[i] = buffer[i + 1] /\ buffer'[j] = buffer[j + 1]
      BY <1>2, <1>4, <2>3
    <3>2. QED BY <1>0, <2>3, <3>1 DEF OrderInv
  <2>4. ASSUME NEW r \in OwnerReplies, NEW j \in 1..Len(buffer'), row'[r] # "none",
               ChatOf[buffer'[j]] = ChatOf[r]
        PROVE  buffer'[j] \in hist.behind
    <3>1. /\ j + 1 \in 1..Len(buffer) /\ 1 \in 1..Len(buffer) /\ 1 < j + 1
          /\ buffer'[j] = buffer[j + 1]
      BY <1>2, <1>4, <2>4
    <3>2. CASE r = h
      BY <1>0, <2>2, <2>4, <3>1, <3>2 DEF OrderInv
    <3>3. CASE r # h
      BY <1>0, <2>2, <2>4, <3>1, <3>3 DEF OrderInv
    <3>4. QED BY <3>2, <3>3
  <2>5. ASSUME NEW r \in OwnerReplies PROVE row'[r] # "pending"
    BY <1>0, <1>4, <2>1, <2>2 DEF OrderInv
  <2>6. QED BY <1>4, <2>3, <2>4, <2>5 DEF OrderInv
<1>5. CASE HandleInbound
  <2>1. PICK h : h = Head(buffer)
    OBVIOUS
  <2>2. /\ h \in Inbounds /\ h = buffer[1] /\ 1 \in 1..Len(buffer) /\ pump = 0 /\ pump' = 0
        /\ hist' = hist
        /\ \A m \in Messages \ {h} : row'[m] = row[m]
    BY <1>0, <1>2, <1>5, <2>1 DEF HandleInbound, AddMessage
  <2>3. OwnerAnswered'
    <3> SUFFICES ASSUME NEW r \in OwnerReplies \ hist.torn, row'[r] = "handled",
                        NEW m \in Messages, row'[m] = "pending", ChatOf[m] = ChatOf[r], m <= r
                 PROVE  m \in hist.behind
      BY <2>2 DEF OwnerAnswered, Pending
    <3>1. row[r] = "handled" /\ pump # r
      BY <1>0, <2>2
    <3>2. CASE m = h
      BY <1>0, <2>2, <3>1, <3>2 DEF OrderInv
    <3>3. CASE m # h
      BY <1>0, <2>2, <3>1, <3>3 DEF OwnerAnswered, Pending
    <3>4. QED BY <3>2, <3>3
  <2>4. OrderInv'
    BY <1>4, <1>5 DEF HandleInbound, AddMessage
  <2>5. QED BY <2>3, <2>4
<1>6. CASE StoreOwnerReply
  <2>1. PICK h : h = Head(buffer)
    OBVIOUS
  <2>2. /\ h \in OwnerReplies /\ pump = 0 /\ pump' = h /\ hist' = hist
        /\ \A m \in Messages \ {h} : row'[m] = row[m]
        /\ row'[h] # "pending"
    BY <1>0, <1>2, <1>6, <2>1 DEF StoreOwnerReply, AddMessage, OrderInv
  <2>3. OwnerAnswered'
    <3> SUFFICES ASSUME NEW r \in OwnerReplies \ hist.torn, row'[r] = "handled", h # r,
                        NEW m \in Messages, row'[m] = "pending", ChatOf[m] = ChatOf[r], m <= r
                 PROVE  m \in hist.behind
      BY <2>2 DEF OwnerAnswered, Pending
    <3>1. row[r] = "handled" /\ pump # r /\ row[m] = "pending"
      BY <1>0, <2>2
    <3>2. QED BY <1>0, <3>1 DEF OwnerAnswered, Pending
  <2>4. OrderInv'
    <3>1. ("handled" = "pending") <=> (Head(buffer) \in Inbounds)
      BY <1>0, <1>6 DEF StoreOwnerReply
    <3>2. QED BY <1>4, <1>6, <3>1 DEF StoreOwnerReply, AddMessage
  <2>5. QED BY <2>3, <2>4
<1>7. CASE CloseByOwnerReply
  <2>1. /\ pump # 0 /\ pump' = 0 /\ hist' = hist /\ buffer' = buffer
        /\ \A m \in Messages : row'[m] = IF row[m] = "pending" /\ ChatOf[m] = ChatOf[pump] /\ m <= pump
                                         THEN "handled" ELSE row[m]
    BY <1>0, <1>7 DEF CloseByOwnerReply, ClosedBy, Pending
  <2>2. \A r \in OwnerReplies : row'[r] = row[r]
    BY <1>0, <2>1 DEF OrderInv
  <2>3. OrderInv'
    BY <1>0, <2>1, <2>2 DEF OrderInv
  <2>4. OwnerAnswered'
    <3> SUFFICES ASSUME NEW r \in OwnerReplies \ hist.torn, row'[r] = "handled",
                        NEW m \in Messages, row'[m] = "pending", ChatOf[m] = ChatOf[r], m <= r
                 PROVE  m \in hist.behind
      BY <2>1 DEF OwnerAnswered, Pending
    <3>1. row[r] = "handled" /\ row[m] = "pending" /\ ~(ChatOf[m] = ChatOf[pump] /\ m <= pump)
      BY <1>0, <2>1, <2>2
    <3>2. QED BY <1>0, <3>1 DEF OwnerAnswered, Pending
  <2>5. QED BY <2>3, <2>4
<1>8. ASSUME NEW n \in Messages, Answer(n) PROVE OwnerAnswered' /\ OrderInv'
  <2>1. /\ pump' = pump /\ hist' = hist /\ buffer' = buffer /\ row[n] = "pending"
        /\ \A m \in Messages : row'[m] = IF m = n THEN "handled" ELSE row[m]
    BY <1>0, <1>8 DEF Answer, Pending
  <2>2. \A r \in OwnerReplies : row'[r] = row[r]
    BY <1>0, <2>1 DEF OrderInv
  <2>3. OrderInv'
    BY <1>0, <2>1, <2>2 DEF OrderInv
  <2>4. OwnerAnswered'
    BY <1>0, <2>1, <2>2 DEF OwnerAnswered, Pending
  <2>5. QED BY <2>3, <2>4
<1>9. ASSUME NEW m \in Inbounds, Age(m) PROVE OwnerAnswered' /\ OrderInv'
  BY <1>1, <1>9 DEF Age
<1>10. ASSUME NEW c \in Chats, GetMessages(c) PROVE OwnerAnswered' /\ OrderInv'
  BY <1>1, <1>10 DEF GetMessages
<1>11. CASE LiveStart \/ LiveDone \/ RetryStart \/ RetryNext \/ UNCHANGED vars
  BY <1>1, <1>11 DEF LiveStart, LiveDone, RetryStart, RetryNext, vars
<1>12. ASSUME NEW g, NEW taken \in BOOLEAN,
              \/ g \in live.todo /\ LiveSend(g, taken)
              \/ g \in GroupsOf(Pending) /\ Push(g, taken)
              \/ g \in retry.todo /\ RetrySend(g, taken)
       PROVE  OwnerAnswered' /\ OrderInv'
  <2>1. hist'.behind = hist.behind /\ hist'.torn = hist.torn
    BY <1>12, ReceiptLogged DEF InboundIInv
  <2>2. QED BY <1>1, <1>12, <2>1 DEF LiveSend, Push, RetrySend
<1>13. ASSUME NEW m, LiveRecord(m) \/ RetryRecord(m) PROVE OwnerAnswered' /\ OrderInv'
  BY <1>1, <1>13 DEF LiveRecord, RetryRecord
<1>14. ASSUME NEW b \in BOOLEAN, Connection(b) PROVE OwnerAnswered' /\ OrderInv'
  BY <1>1, <1>14 DEF Connection
<1>15. ASSUME NEW b \in BOOLEAN, KillSwitch(b) PROVE OwnerAnswered' /\ OrderInv'
  BY <1>0, <1>1, <1>15 DEF KillSwitch, History
<1>16. ASSUME NEW again \in SUBSET Redelivered, Crash(again) PROVE OwnerAnswered' /\ OrderInv'
  <2>1. /\ hist'.torn = hist.torn \cup ({pump} \ {0}) /\ hist'.behind = hist.behind
        /\ row' = row /\ pump' = 0 /\ buffer' = <<>>
    BY <1>0, <1>16 DEF Crash, History
  <2>2. OwnerAnswered'
    BY <1>0, <2>1 DEF OwnerAnswered, Pending
  <2>3. OrderInv'
    BY <1>0, <2>1 DEF OrderInv
  <2>4. QED BY <2>2, <2>3
<1>17. QED
  BY <1>3, <1>5, <1>6, <1>7, <1>8, <1>9, <1>10, <1>11, <1>12, <1>13, <1>14, <1>15, <1>16,
     NextCases
-----------------------------------------------------------------------------
(* The theorems                                                            *)

LEMMA InboundInit == ASSUME InboundAssumption, Init PROVE InboundIInv
<1>1. InboundTypeOK
  BY RestingIsSender DEF Init, InboundAssumption, InboundTypeOK, History
<1>2. ReadIsReceipted /\ SenderInv /\ QuietAfterKill /\ KillInv
  BY RestingIsSender DEF Init, ReadIsReceipted, SenderInv, QuietAfterKill, KillInv
<1>3. OwnerAnswered /\ OrderInv
  BY DEF Init, InboundAssumption, OwnerAnswered, OrderInv, Pending
<1>4. QED BY <1>1, <1>2, <1>3 DEF InboundIInv

(* What the tables, the buffer and the two senders of receipts keep        *)
(* between any two steps of the loops, WhatsApp and the operator.          *)
THEOREM InboundIInvHolds == ASSUME InboundAssumption PROVE Spec => []InboundIInv
<1>1. Init => InboundIInv
  BY InboundInit
<1>2. InboundIInv /\ [Next]_vars => InboundIInv'
  <2> SUFFICES ASSUME InboundIInv, [Next]_vars PROVE InboundIInv'
    OBVIOUS
  <2>1. QED BY TypeStep, ReadStep, QuietStep, OwnerStep DEF InboundIInv
<1>3. QED BY <1>1, <1>2, PTL DEF Spec

(* What the table says of receipts and replies is what happened: read      *)
(* means receipted, the kill switch stops what had not passed its check,   *)
(* and the owner's reply on the phone has closed what came before it.      *)
THEOREM InboundSafeHolds == ASSUME InboundAssumption PROVE Spec => []InboundSafe
<1>1. InboundIInv => InboundSafe
  BY DEF InboundIInv, InboundSafe
<1>2. QED BY <1>1, InboundIInvHolds, PTL

(* A message delivered a second time, a reply, a receipt or a crash undoes *)
(* nothing: what was handled and what was read stays so.                   *)
THEOREM NothingUndoneHolds == ASSUME InboundAssumption PROVE Spec => NothingUndone
<1> DEFINE Kept == \A m \in Messages : /\ row[m] = "handled" => row'[m] = "handled"
                                       /\ m \in read => m \in read'
<1>1. InboundIInv /\ [Next]_vars => [Kept]_vars
  <2> SUFFICES ASSUME InboundIInv, [Next]_vars PROVE Kept
    OBVIOUS
  <2>0. /\ row \in [Messages -> {"none", "pending", "handled"}] /\ buffer \in Seq(Messages)
        /\ Inbounds \subseteq Messages
    BY DEF InboundIInv, InboundTypeOK, Inbounds
  <2>1. CASE UNCHANGED <<row, read>>
    BY <2>1
  <2>2. ASSUME NEW m \in Messages, Deliver(m) \/ Answer(m) \/ Age(m) PROVE Kept
    BY <2>0, <2>2 DEF Deliver, Answer, Age
  <2>3. CASE HandleInbound \/ StoreOwnerReply \/ CloseByOwnerReply
    BY <2>0, <2>3 DEF HandleInbound, StoreOwnerReply, CloseByOwnerReply, AddMessage
  <2>4. ASSUME NEW c \in Chats, GetMessages(c) PROVE Kept
    BY <2>1, <2>4 DEF GetMessages
  <2>5. CASE LiveStart \/ LiveDone \/ RetryStart \/ RetryNext \/ UNCHANGED vars
    BY <2>1, <2>5 DEF LiveStart, LiveDone, RetryStart, RetryNext, vars
  <2>6. ASSUME NEW g, NEW taken, LiveSend(g, taken) \/ Push(g, taken) \/ RetrySend(g, taken)
        PROVE  Kept
    BY <2>1, <2>6 DEF LiveSend, Push, RetrySend
  <2>7. ASSUME NEW m, LiveRecord(m) \/ RetryRecord(m) PROVE Kept
    BY <2>7 DEF LiveRecord, RetryRecord, Recorded
  <2>8. ASSUME NEW b \in BOOLEAN, Connection(b) \/ KillSwitch(b) PROVE Kept
    BY <2>1, <2>8 DEF Connection, KillSwitch
  <2>9. ASSUME NEW again \in SUBSET Redelivered, Crash(again) PROVE Kept
    BY <2>1, <2>9 DEF Crash
  <2>10. QED
    BY <2>0, <2>2, <2>3, <2>4, <2>5, <2>6, <2>7, <2>8, <2>9, NextCases
<1>2. QED BY <1>1, InboundIInvHolds, PTL DEF Spec, NothingUndone
=============================================================================
