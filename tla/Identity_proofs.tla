--------------------------- MODULE Identity_proofs ---------------------------
(***************************************************************************)
(* Theorems about Identity for any number of messages, sweeps, decisions   *)
(* and faults: what a merge, a repair, an agent and a message on its way,  *)
(* in any order, do to a person's messages, usage and settings.            *)
(***************************************************************************)
EXTENDS Identity, FiniteSetTheorems, TLAPS

-----------------------------------------------------------------------------
(* The inductive invariant                                                 *)

(* A row of chats has a level of its own.                                  *)
RowShaped(row) == row = NoRow \/ row.cfg # "none"

(* What is being stored or answered is a message, and not under the name   *)
(* with the device suffix, which nothing is addressed to.                  *)
InHand(work) == work.pc # "idle" => work.msg \in Msgs /\ work.jid # "dev"

(* A sweep under way is about a @lid that has its chat; one that merges,   *)
(* about a number that has one as well, and it holds the number's row as   *)
(* it is unless the history says that it changed.                          *)
Sweeping ==
    /\ sweep.pc # "idle" => Exists("lid")
    /\ sweep.pc \in {"read", "readNumber", "merge"} => Exists("num")
    /\ sweep.pc = "merge" /\ ~hist.raced =>
          sweep.num.ts = chat["num"].ts /\ sweep.num.name = chat["num"].name

(* The repair has the number's chat to move messages to, and forgets the   *)
(* old chat when the number has all of them.  Nobody is left to answer     *)
(* anything there.                                                         *)
Repairing ==
    /\ repair # "idle" => Exists("num")
    /\ repair = "chat" => \A m \in Msgs : Has("dev", m) => Has("num", m)
    /\ \A m \in Msgs : rows["dev"].msgs[m] # "pending"

(* A message is under one name until it is delivered again.                *)
Stored ==
    /\ \A j \in Jids, m \in Msgs : Has(j, m) => m \in hist.stored
    /\ hist.answered \subseteq hist.stored
    /\ agent.pc # "idle" => agent.msg \in hist.stored
    /\ \A m \in Msgs \ hist.echoed, i, j \in Jids : Has(i, m) /\ Has(j, m) => i = j
    /\ inbound.pc \in {"touch", "insert"} /\ inbound.msg \notin hist.echoed =>
          inbound.msg \notin hist.stored

(* Whoever works on a name finds there what it was given.                  *)
Undisturbed ==
    /\ inbound.pc \in {"insert", "again"} /\ inbound.jid = "num" => Exists("num")
    /\ ~hist.crossed /\ agent.pc # "idle" => Has(agent.jid, agent.msg)
    /\ ~hist.crossed /\ ~Exists("lid") =>
          /\ rows["lid"] = NoRows
          /\ outbox["lid"] = 0
          /\ ~(agent.pc # "idle" /\ agent.jid = "lid")
          /\ ~(inbound.pc \in {"insert", "again"} /\ inbound.jid = "lid")

IdentityInv ==
    /\ IdentityTypeOK
    /\ \A j \in Jids : RowShaped(chat[j])
    /\ InHand(inbound) /\ InHand(agent)
    /\ Sweeping /\ Repairing /\ Stored /\ Undisturbed
    /\ Findable /\ AnsweredStaysHandled /\ UsageConserved

-----------------------------------------------------------------------------
(* What the helpers do                                                     *)

(* TouchChat makes a row that was not there, and never moves one back.     *)
LEMMA TouchRow ==
    ASSUME IdentityAssumption, NEW row \in ChatRows, RowShaped(row),
           NEW name \in {NoName, "push", "agenda"}, NEW ts \in 0..NumMsgs
    PROVE  /\ Touch(row, name, ts) \in ChatRows
           /\ RowShaped(Touch(row, name, ts))
           /\ Touch(row, name, ts) # NoRow
           /\ row # NoRow =>
                 /\ Touch(row, name, ts).cfg = row.cfg
                 /\ Touch(row, name, ts).ts >= row.ts
                 /\ row.name # NoName => Touch(row, name, ts).name # NoName
<1>1. CASE row = NoRow
  BY <1>1 DEF Touch, Row, NoRow, NoName, ChatRows, RowShaped, IdentityAssumption
<1>2. CASE row # NoRow
  <2> DEFINE n == IF name = NoName THEN row.name ELSE name
             t == IF ts > row.ts THEN ts ELSE row.ts
  <2>1. Touch(row, name, ts) = [row EXCEPT !.name = n, !.ts = t]
    BY <1>2 DEF Touch
  <2>2. /\ n \in {NoName, "push", "agenda"}
        /\ t \in -1..NumMsgs /\ t >= row.ts
        /\ row.name # NoName => n # NoName
    BY DEF ChatRows, NoName, IdentityAssumption
  <2> HIDE DEF n, t
  <2>3. /\ Touch(row, name, ts) \in ChatRows
        /\ Touch(row, name, ts).cfg = row.cfg
        /\ Touch(row, name, ts).name = n /\ Touch(row, name, ts).ts = t
    BY <2>1, <2>2 DEF ChatRows
  <2>4. row.cfg # "none" /\ NoRow.cfg = "none"
    BY <1>2 DEF RowShaped, NoRow, Row
  <2>5. QED BY <1>2, <2>2, <2>3, <2>4 DEF RowShaped
<1>3. QED BY <1>1, <1>2

(* What a touch leaves: the row, and a note if a merge had read it.        *)
LEMMA TouchedEffect ==
    ASSUME IdentityAssumption, IdentityTypeOK, \A j \in Jids : RowShaped(chat[j]),
           NEW jid \in Jids, NEW name \in {NoName, "push", "agenda"},
           NEW ts \in 0..NumMsgs, Touched(jid, name, ts)
    PROVE  /\ chat' \in [Jids -> ChatRows]
           /\ \A j \in Jids : RowShaped(chat'[j])
           /\ \A j \in Jids : Exists(j) => Exists(j)'
           /\ Exists(jid)'
           /\ jid # "num" => chat'["num"] = chat["num"] /\ hist'.raced = hist.raced
           /\ jid = "num" => hist'.raced = Raced
           /\ Exists("num") =>
                 /\ chat'["num"].cfg = chat["num"].cfg
                 /\ chat'["num"].ts >= chat["num"].ts
                 /\ chat["num"].name # NoName => chat'["num"].name # NoName
           /\ hist' \in History
           /\ \E b \in BOOLEAN : hist' = [hist EXCEPT !.raced = b]
<1> DEFINE new == Touch(chat[jid], name, ts)
<1>1. /\ new \in ChatRows /\ RowShaped(new) /\ new # NoRow
      /\ chat[jid] # NoRow => /\ new.cfg = chat[jid].cfg
                              /\ new.ts >= chat[jid].ts
                              /\ chat[jid].name # NoName => new.name # NoName
  BY TouchRow DEF IdentityTypeOK
<1>2. chat' = [chat EXCEPT ![jid] = new]
  BY DEF Touched
<1>3. PICK b \in BOOLEAN : b = IF jid = "num" THEN Raced ELSE hist.raced
  BY DEF IdentityTypeOK, History, Raced
<1>4. hist' = [hist EXCEPT !.raced = b]
  BY <1>3 DEF Touched
<1> HIDE DEF new
<1>5. hist' \in History /\ hist'.raced = b
  BY <1>4 DEF IdentityTypeOK, History
<1>6. /\ chat' \in [Jids -> ChatRows]
      /\ chat'[jid] = new
      /\ \A j \in Jids \ {jid} : chat'[j] = chat[j]
  BY <1>1, <1>2 DEF IdentityTypeOK
<1>7. \A j \in Jids : ts \in Int /\ chat[j].ts \in Int /\ chat[j].ts >= chat[j].ts
  BY DEF IdentityTypeOK, ChatRows
<1>8. "num" \in Jids
  BY DEF Jids
<1>9. QED BY <1>1, <1>3, <1>4, <1>5, <1>6, <1>7, <1>8 DEF Exists

(* A touch changes nothing of the history but that note.                   *)
LEMMA OnlyRaced ==
    ASSUME NEW h \in History, NEW b \in BOOLEAN
    PROVE  /\ [h EXCEPT !.raced = b].stored = h.stored
           /\ [h EXCEPT !.raced = b].answered = h.answered
           /\ [h EXCEPT !.raced = b].echoed = h.echoed
           /\ [h EXCEPT !.raced = b].metered = h.metered
           /\ [h EXCEPT !.raced = b].crossed = h.crossed
BY DEF History

(* A merge's row of the number keeps its level.                            *)
LEMMA MergedRow ==
    ASSUME NEW row \in ChatRows, NEW lid \in ChatRows, NEW num \in ChatRows
    PROVE  /\ Merged(row, lid, num) \in ChatRows
           /\ Merged(row, lid, num).cfg = row.cfg
           /\ row # NoRow /\ RowShaped(row) =>
                 RowShaped(Merged(row, lid, num)) /\ Merged(row, lid, num) # NoRow
           /\ num.ts = row.ts => Merged(row, lid, num).ts >= row.ts
           /\ num.name = row.name /\ row.name # NoName => Merged(row, lid, num).name # NoName
<1> DEFINE n == IF num.name = NoName THEN lid.name ELSE num.name
           t == IF lid.ts > num.ts THEN lid.ts ELSE num.ts
<1>1. Merged(row, lid, num) = [row EXCEPT !.name = n, !.ts = t]
  BY DEF Merged
<1>2. /\ n \in {NoName, "push", "agenda"} /\ t \in -1..NumMsgs /\ t >= num.ts
      /\ num.name # NoName => n # NoName
  BY DEF ChatRows
<1> HIDE DEF n, t
<1>3. /\ Merged(row, lid, num) \in ChatRows
      /\ Merged(row, lid, num).cfg = row.cfg
      /\ Merged(row, lid, num).name = n /\ Merged(row, lid, num).ts = t
  BY <1>1, <1>2 DEF ChatRows
<1>4. NoRow.cfg = "none"
  BY DEF NoRow, Row
<1>5. QED BY <1>2, <1>3, <1>4 DEF RowShaped

(* The rows a merge moves: the number's messages first, then the @lid's,   *)
(* and both usages.                                                        *)
LEMMA MovedRows ==
    ASSUME NEW lid \in Rows, NEW num \in Rows
    PROVE  /\ Moved(lid, num) \in Rows
           /\ Moved(lid, num).usage = num.usage + lid.usage
           /\ \A m \in Msgs : Moved(lid, num).msgs[m] =
                                 IF num.msgs[m] # "no" THEN num.msgs[m] ELSE lid.msgs[m]
<1> DEFINE ms == [m \in Msgs |-> IF num.msgs[m] # "no" THEN num.msgs[m] ELSE lid.msgs[m]]
           ob == num.outbox \cup lid.outbox
           us == num.usage + lid.usage
<1>1. Moved(lid, num) = [num EXCEPT !.msgs = ms, !.outbox = ob, !.usage = us]
  BY DEF Moved
<1>2. ms \in [Msgs -> {"no", "pending", "handled"}] /\ ob \in SUBSET Msgs /\ us \in Nat
  BY DEF Rows
<1>3. \A m \in Msgs : ms[m] = IF num.msgs[m] # "no" THEN num.msgs[m] ELSE lid.msgs[m]
  OBVIOUS
<1> HIDE DEF ms, ob
<1>4. /\ Moved(lid, num) \in Rows
      /\ Moved(lid, num).msgs = ms
      /\ Moved(lid, num).usage = us
  BY <1>1, <1>2 DEF Rows
<1>5. QED BY <1>3, <1>4

-----------------------------------------------------------------------------
(* Types                                                                   *)

(* No more redeliveries and crashes than allowed.                          *)
LEMMA FaultsLeft ==
    ASSUME IdentityAssumption, IdentityTypeOK, MayFail
    PROVE  hist.crashes + 1 \in 0..MaxFaults
<1>1. hist.echoed \in SUBSET Msgs /\ hist.crashes \in 0..MaxFaults
  BY DEF IdentityTypeOK, History
<1>2. IsFiniteSet(Msgs)
  BY FS_Interval DEF IdentityAssumption, Msgs
<1>3. Cardinality(hist.echoed) \in Nat
  BY <1>1, <1>2, FS_Subset, FS_CardinalityType
<1>4. MaxFaults \in Nat
  BY DEF IdentityAssumption
<1>5. Cardinality(hist.echoed) + hist.crashes < MaxFaults
  BY DEF MayFail
<1>6. QED BY <1>1, <1>3, <1>4, <1>5

LEMMA NothingTyped ==
    ASSUME IdentityAssumption
    PROVE  /\ NoRow \in ChatRows /\ NoRows \in Rows
           /\ \A m \in Msgs : NoRows.msgs[m] = "no"
           /\ NoRows.outbox = {} /\ NoRows.usage = 0
           /\ NoMsg \in Work({"touch", "insert", "again"})
           /\ NoMsg \in Work({"answer", "mark"})
           /\ Jids = {"lid", "dev", "num"}
BY DEF IdentityAssumption, NoRow, Row, ChatRows, NoName, NoRows, Rows, NoMsg, Work, Jids

Types == IdentityTypeOK /\ InHand(inbound) /\ InHand(agent) /\ \A j \in Jids : RowShaped(chat[j])

LEMMA TypeStep ==
    ASSUME IdentityAssumption, IdentityInv, [Next]_vars
    PROVE  Types'
<1> USE IdentityAssumption
<1>0. /\ IdentityTypeOK
      /\ \A j \in Jids : RowShaped(chat[j])
      /\ InHand(inbound) /\ InHand(agent)
      /\ \A m \in Msgs : rows["dev"].msgs[m] # "pending"
      /\ Msgs \subseteq Nat /\ Msgs \subseteq 0..NumMsgs /\ 0 \in 0..NumMsgs
      /\ Jids = {"lid", "dev", "num"}
  BY DEF IdentityInv, Repairing, Msgs, IdentityAssumption, Jids
<1>1. ASSUME NEW m \in Msgs, NEW a \in {"lid", "num"}, Deliver(m, a)
      PROVE  Types'
  <2>1. Resolve(a) \in Jids \ {"dev"}
    BY <1>0 DEF Resolve
  <2>2. inbound' \in Work({"touch", "insert", "again"}) /\ InHand(inbound)'
    BY <1>0, <1>1, <2>1 DEF Deliver, Work, InHand
  <2>3. hist' \in History
    BY <1>0, <1>1 DEF Deliver, IdentityTypeOK, History
  <2>4. QED BY <1>0, <1>1, <2>2, <2>3 DEF Deliver, IdentityTypeOK, InHand, Types
<1>3. ASSUME TouchFirst PROVE Types'
  <2>1. inbound' \in Work({"touch", "insert", "again"}) /\ InHand(inbound)'
    BY <1>0, <1>3 DEF TouchFirst, Work, InHand, IdentityTypeOK
  <2>2. inbound.jid \in Jids /\ inbound.msg \in 0..NumMsgs
    BY <1>0 DEF Work, IdentityTypeOK
  <2>3. Touched(inbound.jid, NoName, inbound.msg)
    BY <1>3 DEF TouchFirst
  <2>4. chat' \in [Jids -> ChatRows] /\ hist' \in History /\ \A j \in Jids : RowShaped(chat'[j])
    BY <1>0, <2>2, <2>3, TouchedEffect
  <2>5. QED BY <1>0, <1>3, <2>1, <2>4 DEF TouchFirst, IdentityTypeOK, InHand, Types
<1>4. ASSUME Insert PROVE Types'
  <2> DEFINE j == inbound.jid
             m == inbound.msg
             s == IF rows[j].msgs[m] = "no" THEN "pending" ELSE rows[j].msgs[m]
  <2>1. j \in Jids /\ m \in Msgs
    BY <1>0, <1>4 DEF Insert, Work, InHand, IdentityTypeOK
  <2>2. rows' = [rows EXCEPT ![j].msgs[m] = s] /\ hist' = [hist EXCEPT !.stored = hist.stored \cup {m}]
    BY <1>4 DEF Insert
  <2>3. s \in {"no", "pending", "handled"}
    BY <1>0, <2>1 DEF IdentityTypeOK, Rows
  <2>4. inbound' \in Work({"touch", "insert", "again"}) /\ InHand(inbound)'
    BY <1>0, <1>4 DEF Insert, Work, InHand, IdentityTypeOK
  <2> HIDE DEF j, m, s
  <2>5. rows' \in [Jids -> Rows]
    BY <1>0, <2>1, <2>2, <2>3 DEF IdentityTypeOK, Rows
  <2>6. hist' \in History
    BY <1>0, <2>1, <2>2 DEF IdentityTypeOK, History
  <2>7. QED BY <1>0, <1>4, <2>4, <2>5, <2>6 DEF Insert, IdentityTypeOK, InHand, Types
<1>5. ASSUME TouchAgain PROVE Types'
  <2>2. inbound.jid \in Jids /\ inbound.msg \in 0..NumMsgs
    BY <1>0 DEF Work, IdentityTypeOK
  <2>3. Touched(inbound.jid, "push", inbound.msg)
    BY <1>5 DEF TouchAgain
  <2>4. chat' \in [Jids -> ChatRows] /\ hist' \in History /\ \A j \in Jids : RowShaped(chat'[j])
    BY <1>0, <2>2, <2>3, TouchedEffect
  <2>5. inbound' \in Work({"touch", "insert", "again"}) /\ InHand(inbound)'
    BY <1>0, <1>5, NothingTyped DEF TouchAgain, NoMsg, InHand
  <2>6. QED BY <1>0, <1>5, <2>4, <2>5 DEF TouchAgain, IdentityTypeOK, InHand, Types
<1>6. ASSUME LearnNumber PROVE Types'
  BY <1>0, <1>6 DEF LearnNumber, IdentityTypeOK, InHand, Types
<1>7. ASSUME NEW j \in Jids, NEW m \in Msgs, Dispatch(j, m) PROVE Types'
  <2>1. j # "dev"
    BY <1>0, <1>7 DEF Dispatch
  <2>2. agent' \in Work({"answer", "mark"}) /\ InHand(agent)'
    BY <1>0, <1>7, <2>1 DEF Dispatch, Work, InHand
  <2>3. rows' \in [Jids -> Rows]
    BY <1>0, <1>7 DEF Dispatch, IdentityTypeOK, Rows
  <2>4. hist' \in History
    BY <1>0, <1>7 DEF Dispatch, IdentityTypeOK, History
  <2>5. QED BY <1>0, <1>7, <2>2, <2>3, <2>4 DEF Dispatch, IdentityTypeOK, InHand, Types
<1>8. ASSUME Answer PROVE Types'
  <2> DEFINE ts == IF Exists(agent.jid) THEN 0 ELSE agent.msg
  <2>1. agent.jid \in Jids /\ agent.msg \in Msgs /\ ts \in 0..NumMsgs
    BY <1>0, <1>8 DEF Answer, Work, InHand, IdentityTypeOK
  <2>2. Touched(agent.jid, NoName, ts)
    BY <1>8 DEF Answer
  <2>3. chat' \in [Jids -> ChatRows] /\ hist' \in History /\ \A j \in Jids : RowShaped(chat'[j])
    BY <1>0, <2>1, <2>2, TouchedEffect
  <2>4. agent' \in Work({"answer", "mark"}) /\ InHand(agent)'
    BY <1>0, <1>8 DEF Answer, Work, InHand, IdentityTypeOK
  <2>5. rows' \in [Jids -> Rows]
    BY <1>0, <1>8, <2>1 DEF Answer, IdentityTypeOK, Rows
  <2>6. QED BY <1>0, <1>8, <2>3, <2>4, <2>5 DEF Answer, IdentityTypeOK, InHand, Types
<1>9. ASSUME Mark PROVE Types'
  <2> DEFINE ms == [m \in Msgs |-> IF rows[agent.jid].msgs[m] = "pending" /\ m <= agent.msg
                                   THEN "handled" ELSE rows[agent.jid].msgs[m]]
  <2>1. agent.jid \in Jids /\ agent.msg \in Msgs
    BY <1>0, <1>9 DEF Mark, Work, InHand, IdentityTypeOK
  <2>2. rows' = [rows EXCEPT ![agent.jid].msgs = ms]
    BY <1>9 DEF Mark
  <2>3. ms \in [Msgs -> {"no", "pending", "handled"}]
    BY <1>0, <2>1 DEF IdentityTypeOK, Rows
  <2> HIDE DEF ms
  <2>4. rows' \in [Jids -> Rows]
    BY <1>0, <2>1, <2>2, <2>3 DEF IdentityTypeOK, Rows
  <2>5. hist' \in History
    BY <1>0, <1>9, <2>1 DEF Mark, IdentityTypeOK, History
  <2>6. agent' \in Work({"answer", "mark"}) /\ InHand(agent)'
    BY <1>0, <1>9, NothingTyped DEF Mark, NoMsg, InHand
  <2>7. QED BY <1>0, <1>9, <2>4, <2>5, <2>6 DEF Mark, IdentityTypeOK, InHand, Types
<1>10. ASSUME NEW j \in Jids, NEW m \in Msgs, SendReply(j, m) PROVE Types'
  <2>1. rows' \in [Jids -> Rows]
    BY <1>0, <1>10 DEF SendReply, IdentityTypeOK, Rows
  <2>2. outbox' \in [Jids -> Nat]
    BY <1>0, <1>10 DEF SendReply, IdentityTypeOK
  <2>3. QED BY <1>0, <1>10, <2>1, <2>2 DEF SendReply, IdentityTypeOK, InHand, Types
<1>11. ASSUME NEW j \in Jids, Meter(j) PROVE Types'
  <2>1. rows' \in [Jids -> Rows]
    BY <1>0, <1>11 DEF Meter, IdentityTypeOK, Rows
  <2>2. outbox' \in [Jids -> Nat]
    BY <1>0, <1>11 DEF Meter, IdentityTypeOK
  <2>3. hist' \in History
    BY <1>0, <1>11 DEF Meter, IdentityTypeOK, History
  <2>4. QED BY <1>0, <1>11, <2>1, <2>2, <2>3 DEF Meter, IdentityTypeOK, InHand, Types
<1>12. ASSUME SweepBegin PROVE Types'
  <2>1. hist' \in History
    BY <1>0, <1>12 DEF SweepBegin, IdentityTypeOK, History, IdentityAssumption
  <2>2. QED BY <1>0, <1>12, <2>1 DEF SweepBegin, IdentityTypeOK, InHand, Types
<1>13. ASSUME SweepFails \/ ReadLID \/ ReadNumber PROVE Types'
  <2>1. sweep' \in [pc : {"idle", "rekey", "read", "readNumber", "merge"},
                    lid : ChatRows, num : ChatRows]
    <3>1. CASE SweepFails
      BY <3>1, NothingTyped DEF SweepFails, NoSweep
    <3>2. chat["lid"] \in ChatRows /\ chat["num"] \in ChatRows
      BY <1>0 DEF IdentityTypeOK
    <3>3. CASE ReadLID
      BY <1>0, <3>2, <3>3 DEF ReadLID, IdentityTypeOK
    <3>4. CASE ReadNumber
      BY <1>0, <3>2, <3>4 DEF ReadNumber, IdentityTypeOK
    <3>5. QED BY <1>13, <3>1, <3>3, <3>4
  <2>2. QED BY <1>0, <1>13, <2>1 DEF SweepFails, ReadLID, ReadNumber, IdentityTypeOK, InHand, Types
<1>14. ASSUME RowsMoved
       PROVE  rows' \in [Jids -> Rows] /\ hist' \in History
  <2>1. PICK b \in BOOLEAN : b = (hist.crossed \/ OnLID)
    BY <1>0 DEF IdentityTypeOK, History, OnLID
  <2>2. hist' = [hist EXCEPT !.crossed = b]
    BY <1>14, <2>1 DEF RowsMoved
  <2>3. hist' \in History
    BY <1>0, <2>2 DEF IdentityTypeOK, History
  <2>4. Moved(rows["lid"], rows["num"]) \in Rows /\ Remaining(rows["lid"]) \in Rows
    BY <1>0, MovedRows, NothingTyped DEF IdentityTypeOK, Remaining
  <2>5. rows' \in [Jids -> Rows]
    BY <1>0, <1>14, <2>4 DEF RowsMoved, IdentityTypeOK
  <2>6. QED BY <2>3, <2>5
<1>15. ASSUME Rekey PROVE Types'
  <2>1. rows' \in [Jids -> Rows] /\ hist' \in History
    BY <1>14, <1>15 DEF Rekey
  <2>2. chat' \in [Jids -> ChatRows] /\ \A j \in Jids : RowShaped(chat'[j])
    BY <1>0, <1>15, NothingTyped DEF Rekey, IdentityTypeOK, RowShaped
  <2>3. sweep' \in [pc : {"idle", "rekey", "read", "readNumber", "merge"},
                    lid : ChatRows, num : ChatRows]
    BY <1>15, NothingTyped DEF Rekey, NoSweep
  <2>4. QED BY <1>0, <1>15, <2>1, <2>2, <2>3 DEF Rekey, IdentityTypeOK, InHand, Types
<1>16. ASSUME Merge PROVE Types'
  <2> DEFINE new == Merged(chat["num"], sweep.lid, sweep.num)
  <2>1. rows' \in [Jids -> Rows] /\ hist' \in History
    BY <1>14, <1>16 DEF Merge
  <2>2. Exists("num")
    BY <1>16 DEF Merge, IdentityInv, Sweeping
  <2>3. new \in ChatRows /\ RowShaped(new)
    <3>1. chat["num"] \in ChatRows /\ sweep.lid \in ChatRows /\ sweep.num \in ChatRows
      BY <1>0 DEF IdentityTypeOK
    <3>2. QED BY <1>0, <2>2, <3>1, MergedRow DEF Exists
  <2>4. chat' = [chat EXCEPT !["num"] = new, !["lid"] = NoRow]
    BY <1>16 DEF Merge
  <2> HIDE DEF new
  <2>5. chat' \in [Jids -> ChatRows] /\ \A j \in Jids : RowShaped(chat'[j])
    BY <1>0, <2>3, <2>4, NothingTyped DEF IdentityTypeOK, RowShaped
  <2>6. sweep' \in [pc : {"idle", "rekey", "read", "readNumber", "merge"},
                    lid : ChatRows, num : ChatRows]
    BY <1>16, NothingTyped DEF Merge, NoSweep
  <2>7. QED BY <1>0, <1>16, <2>1, <2>5, <2>6 DEF Merge, IdentityTypeOK, InHand, Types
<1>17. ASSUME RepairBegin PROVE Types'
  <2>1. Touched("num", "push", 0)
    BY <1>17 DEF RepairBegin
  <2>2. chat' \in [Jids -> ChatRows] /\ hist' \in History /\ \A j \in Jids : RowShaped(chat'[j])
    BY <1>0, <2>1, TouchedEffect
  <2>3. QED BY <1>0, <1>17, <2>2 DEF RepairBegin, IdentityTypeOK, InHand, Types
<1>18. ASSUME RepairMessages PROVE Types'
  <2> DEFINE num == rows["num"].msgs
             dev == rows["dev"].msgs
             ns == [m \in Msgs |-> IF num[m] # "no" THEN num[m] ELSE dev[m]]
             ds == [m \in Msgs |-> IF num[m] = "no" THEN "no" ELSE dev[m]]
  <2>1. rows' = [rows EXCEPT !["num"].msgs = ns, !["dev"].msgs = ds]
    BY <1>18 DEF RepairMessages
  <2>2. /\ ns \in [Msgs -> {"no", "pending", "handled"}]
        /\ ds \in [Msgs -> {"no", "pending", "handled"}]
    BY <1>0 DEF IdentityTypeOK, Rows
  <2> HIDE DEF ns, ds
  <2>3. rows' \in [Jids -> Rows]
    BY <1>0, <2>1, <2>2 DEF IdentityTypeOK, Rows
  <2>4. QED BY <1>0, <1>18, <2>3 DEF RepairMessages, IdentityTypeOK, InHand, Types
<1>19. ASSUME RepairChat PROVE Types'
  <2>1. chat' \in [Jids -> ChatRows] /\ \A j \in Jids : RowShaped(chat'[j])
    BY <1>0, <1>19, NothingTyped DEF RepairChat, IdentityTypeOK, RowShaped
  <2>2. QED BY <1>0, <1>19, <2>1 DEF RepairChat, IdentityTypeOK, InHand, Types
<1>20. ASSUME NEW j \in Jids, Decide(j) PROVE Types'
  <2>1. chat' \in [Jids -> ChatRows] /\ \A i \in Jids : RowShaped(chat'[i])
    BY <1>0, <1>20 DEF Decide, IdentityTypeOK, RowShaped, ChatRows
  <2>2. hist' \in History
    BY <1>0, <1>20 DEF Decide, IdentityTypeOK, History, IdentityAssumption
  <2>3. QED BY <1>0, <1>20, <2>1, <2>2 DEF Decide, IdentityTypeOK, InHand, Types
<1>21. ASSUME SyncContact PROVE Types'
  <2> DEFINE new == Touch(chat["num"], "agenda", 0)
  <2>1. new \in ChatRows /\ RowShaped(new)
    BY <1>0, TouchRow DEF IdentityTypeOK
  <2>2. chat' = [chat EXCEPT !["num"] = new]
    BY <1>21 DEF SyncContact
  <2> HIDE DEF new
  <2>3. chat' \in [Jids -> ChatRows] /\ \A j \in Jids : RowShaped(chat'[j])
    BY <1>0, <2>1, <2>2 DEF IdentityTypeOK
  <2>4. PICK b \in BOOLEAN : b = Raced
    BY <1>0 DEF IdentityTypeOK, History, Raced
  <2>5. hist' = [hist EXCEPT !.calls = hist.calls + 1, !.raced = b] /\ hist.calls < MaxCalls
    BY <1>21, <2>4 DEF SyncContact
  <2>6. hist' \in History
    <3>1. hist.calls + 1 \in 0..MaxCalls
      BY <1>0, <2>5 DEF IdentityTypeOK, History, IdentityAssumption
    <3>2. QED BY <1>0, <2>5, <3>1 DEF IdentityTypeOK, History
  <2>7. QED BY <1>0, <1>21, <2>3, <2>6 DEF SyncContact, IdentityTypeOK, InHand, Types
<1>22. ASSUME Crash PROVE Types'
  <2>1. hist' \in History
    BY <1>0, <1>22, FaultsLeft DEF Crash, IdentityTypeOK, History
  <2>2. QED BY <1>0, <1>22, <2>1, NothingTyped DEF Crash, NoSweep, NoMsg, IdentityTypeOK, InHand, Types
<1>23. CASE UNCHANGED vars
  BY <1>0, <1>23 DEF vars, IdentityTypeOK, InHand, Types
<1>24. QED
  BY <1>1, <1>3, <1>4, <1>5, <1>6, <1>7, <1>8, <1>9, <1>10, <1>11, <1>12, <1>13, <1>15, <1>16,
     <1>17, <1>18, <1>19, <1>20, <1>21, <1>22, <1>23
  DEF Next, Inbound, Agent, Sweep, Repair, Outbox

-----------------------------------------------------------------------------
(* The sweep and the repair                                                *)

(* The actions that touch a chat, and the name they touch.                 *)
Touches(jid) ==
    \/ inbound.pc # "idle" /\ inbound.jid = jid /\ (TouchFirst \/ TouchAgain)
    \/ agent.pc # "idle" /\ agent.jid = jid /\ Answer
    \/ jid = "num" /\ RepairBegin

LEMMA TouchingEffect ==
    ASSUME IdentityAssumption, IdentityInv, NEW jid \in Jids, Touches(jid)
    PROVE  /\ chat' \in [Jids -> ChatRows]
           /\ \A j \in Jids : Exists(j) => Exists(j)'
           /\ Exists(jid)'
           /\ jid # "num" => chat'["num"] = chat["num"] /\ hist'.raced = hist.raced
           /\ jid = "num" => hist'.raced = Raced
           /\ Exists("num") =>
                 /\ chat'["num"].cfg = chat["num"].cfg
                 /\ chat'["num"].ts >= chat["num"].ts
                 /\ chat["num"].name # NoName => chat'["num"].name # NoName
           /\ hist'.stored = hist.stored /\ hist'.answered = hist.answered
           /\ hist'.echoed = hist.echoed /\ hist'.crossed = hist.crossed
           /\ hist'.metered = hist.metered
<1>0. /\ IdentityTypeOK /\ \A j \in Jids : RowShaped(chat[j])
      /\ InHand(inbound) /\ InHand(agent)
      /\ Msgs \subseteq 0..NumMsgs /\ 0 \in 0..NumMsgs
  BY DEF IdentityInv, Msgs, IdentityAssumption
<1>1. \E name \in {NoName, "push", "agenda"}, ts \in 0..NumMsgs : Touched(jid, name, ts)
  <2>1. CASE TouchFirst /\ inbound.jid = jid /\ inbound.pc # "idle"
    BY <1>0, <2>1 DEF TouchFirst, InHand
  <2>2. CASE TouchAgain /\ inbound.jid = jid /\ inbound.pc # "idle"
    BY <1>0, <2>2 DEF TouchAgain, InHand
  <2>3. CASE Answer /\ agent.jid = jid /\ agent.pc # "idle"
    <3>1. (IF Exists(agent.jid) THEN 0 ELSE agent.msg) \in 0..NumMsgs
      BY <1>0, <2>3 DEF InHand
    <3>2. QED BY <2>3, <3>1 DEF Answer
  <2>4. CASE RepairBegin /\ jid = "num"
    BY <1>0, <2>4 DEF RepairBegin
  <2>5. QED BY <2>1, <2>2, <2>3, <2>4 DEF Touches
<1>2. PICK name \in {NoName, "push", "agenda"}, ts \in 0..NumMsgs : Touched(jid, name, ts)
  BY <1>1
<1>3. /\ chat' \in [Jids -> ChatRows]
      /\ \A j \in Jids : Exists(j) => Exists(j)'
      /\ Exists(jid)'
      /\ jid # "num" => chat'["num"] = chat["num"] /\ hist'.raced = hist.raced
      /\ jid = "num" => hist'.raced = Raced
      /\ Exists("num") =>
            /\ chat'["num"].cfg = chat["num"].cfg
            /\ chat'["num"].ts >= chat["num"].ts
            /\ chat["num"].name # NoName => chat'["num"].name # NoName
      /\ \E b \in BOOLEAN : hist' = [hist EXCEPT !.raced = b]
  BY <1>0, <1>2, TouchedEffect
<1>4. PICK b \in BOOLEAN : hist' = [hist EXCEPT !.raced = b]
  BY <1>3
<1>5. hist \in History
  BY <1>0 DEF IdentityTypeOK
<1>6. /\ hist'.stored = hist.stored /\ hist'.answered = hist.answered
      /\ hist'.echoed = hist.echoed /\ hist'.crossed = hist.crossed
      /\ hist'.metered = hist.metered
  BY <1>4, <1>5, OnlyRaced
<1>7. QED BY <1>3, <1>6

(* What each action is, as far as the proofs tell them apart.              *)
LEMMA StepKinds ==
    ASSUME IdentityAssumption, IdentityInv, [Next]_vars
    PROVE  \/ \E m \in Msgs, a \in {"lid", "num"} : Deliver(m, a)
           \/ \E j \in Jids \ {"dev"} : Touches(j)
           \/ Insert \/ LearnNumber
           \/ \E j \in Jids \ {"dev"}, m \in Msgs : Dispatch(j, m)
           \/ Mark
           \/ \E j \in Jids, m \in Msgs : SendReply(j, m)
           \/ \E j \in Jids : Meter(j)
           \/ SweepBegin \/ Rekey \/ SweepFails \/ ReadLID \/ ReadNumber \/ Merge
           \/ RepairMessages \/ RepairChat
           \/ \E j \in Jids : Decide(j)
           \/ SyncContact \/ Crash
           \/ UNCHANGED vars
<1>0. /\ inbound.jid \in Jids /\ agent.jid \in Jids
      /\ InHand(inbound) /\ InHand(agent) /\ "num" \in Jids \ {"dev"}
      /\ \A m \in Msgs : rows["dev"].msgs[m] # "pending"
  BY DEF IdentityInv, IdentityTypeOK, Work, Repairing, Jids
<1>1. TouchFirst \/ TouchAgain => \E j \in Jids \ {"dev"} : Touches(j)
  BY <1>0 DEF TouchFirst, TouchAgain, Touches, InHand
<1>2. Answer => \E j \in Jids \ {"dev"} : Touches(j)
  BY <1>0 DEF Answer, Touches, InHand
<1>3. RepairBegin => \E j \in Jids \ {"dev"} : Touches(j)
  BY <1>0 DEF RepairBegin, Touches
<1>4. \A j \in Jids, m \in Msgs : Dispatch(j, m) => j # "dev"
  BY <1>0 DEF Dispatch
<1>5. QED BY <1>1, <1>2, <1>3, <1>4 DEF Next, Inbound, Agent, Sweep, Repair, Outbox

(* The number's chat stays; that of the @lid goes in a sweep's last step   *)
(* only; whoever is on their way keeps what was there.                     *)
LEMMA ChatsKept ==
    ASSUME IdentityAssumption, IdentityInv, [Next]_vars
    PROVE  /\ Exists("num") => Exists("num")'
           /\ Exists("lid") => Exists("lid")' \/ Rekey \/ Merge
           /\ Exists("dev") => Exists("dev")' \/ RepairChat
<1>0. /\ IdentityTypeOK /\ \A j \in Jids : RowShaped(chat[j])
      /\ Jids = {"lid", "dev", "num"}
  BY DEF IdentityInv, Jids
<1>1. CASE UNCHANGED chat
  BY <1>1 DEF Exists
<1>2. ASSUME NEW j \in Jids, Touches(j) PROVE \A i \in Jids : Exists(i) => Exists(i)'
  BY <1>2, TouchingEffect
<1>3. CASE Rekey
  BY <1>0, <1>3 DEF Rekey, Exists, IdentityTypeOK
<1>4. CASE Merge
  <2>1. Exists("num") /\ chat["num"] \in ChatRows /\ sweep.lid \in ChatRows /\ sweep.num \in ChatRows
    BY <1>0, <1>4 DEF Merge, IdentityInv, Sweeping, IdentityTypeOK
  <2>2. Merged(chat["num"], sweep.lid, sweep.num) # NoRow
    BY <1>0, <2>1, MergedRow DEF Exists
  <2>3. QED BY <1>0, <1>4, <2>2 DEF Merge, Exists, IdentityTypeOK
<1>5. CASE RepairChat
  BY <1>0, <1>5 DEF RepairChat, Exists, IdentityTypeOK
<1>6. ASSUME NEW j \in Jids, Decide(j) PROVE \A i \in Jids : Exists(i) => Exists(i)'
  <2>1. chat' = [chat EXCEPT ![j].cfg = "manual"]
    BY <1>6 DEF Decide
  <2>2. \A i \in Jids : chat'[i] = chat[i] \/ chat'[i].cfg = "manual"
    BY <1>0, <2>1 DEF IdentityTypeOK, ChatRows
  <2>3. NoRow.cfg = "none"
    BY DEF NoRow, Row
  <2>4. QED BY <2>2, <2>3 DEF Exists
<1>7. CASE SyncContact
  <2>1. Touch(chat["num"], "agenda", 0) # NoRow
    BY <1>0, TouchRow DEF IdentityTypeOK, IdentityAssumption
  <2>2. QED BY <1>0, <1>7, <2>1 DEF SyncContact, Exists, IdentityTypeOK
<1>8. QED BY <1>0, <1>1, <1>2, <1>3, <1>4, <1>5, <1>6, <1>7, StepKinds
  DEF Deliver, Insert, LearnNumber, Dispatch, Mark, SendReply, Meter, SweepBegin, SweepFails,
      ReadLID, ReadNumber, RepairMessages, Crash, vars

LEMMA SweepingStep ==
    ASSUME IdentityAssumption, IdentityInv, [Next]_vars
    PROVE  Sweeping'
<1>0. /\ IdentityTypeOK /\ Sweeping
      /\ Exists("num") => Exists("num")'
      /\ Exists("lid") => Exists("lid")' \/ Rekey \/ Merge
  BY ChatsKept DEF IdentityInv
<1>1. ASSUME sweep' = sweep, Exists("lid") => Exists("lid")',
             \/ sweep.pc # "merge" \/ hist'.raced
             \/ /\ hist'.raced = hist.raced
                /\ chat'["num"].ts = chat["num"].ts /\ chat'["num"].name = chat["num"].name
      PROVE  Sweeping'
  BY <1>0, <1>1 DEF Sweeping
<1>2. ASSUME sweep'.pc = "idle" PROVE Sweeping'
  BY <1>2 DEF Sweeping
<1>3. CASE UNCHANGED <<chat, sweep>> /\ hist'.raced = hist.raced
  BY <1>1, <1>3 DEF Exists
<1>4. ASSUME NEW j \in Jids \ {"dev"}, Touches(j) PROVE Sweeping'
  <2>1. sweep' = sweep
    BY <1>4 DEF Touches, TouchFirst, TouchAgain, Answer, RepairBegin
  <2>2. /\ \A i \in Jids : Exists(i) => Exists(i)'
        /\ j # "num" => chat'["num"] = chat["num"] /\ hist'.raced = hist.raced
        /\ j = "num" => hist'.raced = Raced
    BY <1>4, TouchingEffect
  <2>3. QED BY <1>1, <2>1, <2>2 DEF Raced, Jids
<1>5. CASE SweepBegin
  <2>1. UNCHANGED chat /\ sweep'.pc = IF Exists("num") THEN "read" ELSE "rekey"
    BY <1>0, <1>5 DEF SweepBegin, IdentityTypeOK
  <2>2. QED BY <1>5, <2>1 DEF SweepBegin, Sweeping, Exists
<1>6. CASE ReadLID
  BY <1>0, <1>6 DEF ReadLID, Sweeping, Exists, IdentityTypeOK
<1>7. CASE ReadNumber
  BY <1>0, <1>7 DEF ReadNumber, Sweeping, Exists, IdentityTypeOK
<1>8. CASE Rekey \/ Merge \/ SweepFails \/ Crash
  BY <1>2, <1>8 DEF Rekey, Merge, SweepFails, Crash, NoSweep
<1>9. CASE RepairChat
  BY <1>0, <1>1, <1>9 DEF RepairChat, Exists, IdentityTypeOK
<1>10. ASSUME NEW j \in Jids, Decide(j) PROVE Sweeping'
  <2>1. sweep' = sweep /\ hist'.raced = hist.raced
    BY <1>0, <1>10 DEF Decide, IdentityTypeOK, History
  <2>2. chat'["num"].ts = chat["num"].ts /\ chat'["num"].name = chat["num"].name
    BY <1>0, <1>10 DEF Decide, IdentityTypeOK, ChatRows, Jids
  <2>3. ~(Rekey \/ Merge) \/ Sweeping'
    BY <1>8
  <2>4. QED BY <1>0, <1>1, <2>1, <2>2, <2>3
<1>11. CASE SyncContact
  <2>1. sweep' = sweep /\ hist'.raced = Raced
    BY <1>0, <1>11 DEF SyncContact, IdentityTypeOK, History
  <2>2. chat'["lid"] = chat["lid"]
    BY <1>0, <1>11 DEF SyncContact, IdentityTypeOK, Jids
  <2>3. QED BY <1>1, <2>1, <2>2 DEF Exists, Raced
<1>12. ASSUME \/ \E m \in Msgs, a \in {"lid", "num"} : Deliver(m, a)
              \/ Insert \/ LearnNumber \/ Mark \/ RepairMessages \/ UNCHANGED vars
              \/ \E j \in Jids, m \in Msgs : Dispatch(j, m) \/ SendReply(j, m)
              \/ \E j \in Jids : Meter(j)
       PROVE  UNCHANGED <<chat, sweep>> /\ hist'.raced = hist.raced
  BY <1>0, <1>12 DEF Deliver, Insert, LearnNumber, Dispatch, Mark, SendReply, Meter,
                     RepairMessages, vars, IdentityTypeOK, History
<1>13. QED BY <1>3, <1>4, <1>5, <1>6, <1>7, <1>8, <1>9, <1>10, <1>11, <1>12, StepKinds

-----------------------------------------------------------------------------
(* Where the messages are                                                  *)

(* Messages change their rows by being stored, answered, merged or moved   *)
(* by the repair, and the history of them likewise.                        *)
LEMMA MessagesKept ==
    ASSUME IdentityAssumption, IdentityInv, [Next]_vars
    PROVE  /\ Insert \/ Mark \/ Rekey \/ Merge \/ RepairMessages
                \/ \A j \in Jids : rows'[j].msgs = rows[j].msgs
           /\ hist'.stored = hist.stored \/ Insert
           /\ hist'.answered = hist.answered \/ Mark
           /\ hist'.echoed = hist.echoed \/ \E m \in Msgs, a \in {"lid", "num"} : Deliver(m, a)
           /\ hist'.crossed = hist.crossed \/ Rekey \/ Merge
<1> DEFINE Goal ==
        /\ Insert \/ Mark \/ Rekey \/ Merge \/ RepairMessages
             \/ \A j \in Jids : rows'[j].msgs = rows[j].msgs
        /\ hist'.stored = hist.stored \/ Insert
        /\ hist'.answered = hist.answered \/ Mark
        /\ hist'.echoed = hist.echoed \/ \E m \in Msgs, a \in {"lid", "num"} : Deliver(m, a)
        /\ hist'.crossed = hist.crossed \/ Rekey \/ Merge
<1> SUFFICES Goal
  OBVIOUS
<1>0. IdentityTypeOK
  BY DEF IdentityInv
<1>1. ASSUME NEW m \in Msgs, NEW a \in {"lid", "num"}, Deliver(m, a) PROVE Goal
  <2>1. UNCHANGED rows
    BY <1>1 DEF Deliver
  <2>2. /\ hist'.stored = hist.stored /\ hist'.answered = hist.answered
        /\ hist'.crossed = hist.crossed
    BY <1>0, <1>1 DEF Deliver, IdentityTypeOK, History
  <2>3. QED BY <1>1, <2>1, <2>2
<1>2. ASSUME NEW j \in Jids, Touches(j) PROVE Goal
  <2>1. \A i \in Jids : rows'[i].msgs = rows[i].msgs
    BY <1>0, <1>2 DEF Touches, TouchFirst, TouchAgain, Answer, RepairBegin, IdentityTypeOK, Rows
  <2>2. QED BY <1>2, <2>1, TouchingEffect
<1>3. CASE Insert
  BY <1>0, <1>3 DEF Insert, IdentityTypeOK, History
<1>4. CASE LearnNumber \/ SweepFails \/ ReadLID \/ ReadNumber \/ RepairChat \/ UNCHANGED vars
  BY <1>4 DEF LearnNumber, SweepFails, ReadLID, ReadNumber, RepairChat, vars
<1>5. ASSUME NEW j \in Jids, NEW m \in Msgs, Dispatch(j, m) PROVE Goal
  BY <1>0, <1>5 DEF Dispatch, IdentityTypeOK, Rows, History
<1>6. CASE Mark
  BY <1>0, <1>6 DEF Mark, IdentityTypeOK, History
<1>7. ASSUME NEW j \in Jids, NEW m \in Msgs, SendReply(j, m) PROVE Goal
  BY <1>0, <1>7 DEF SendReply, IdentityTypeOK, Rows
<1>8. ASSUME NEW j \in Jids, Meter(j) PROVE Goal
  BY <1>0, <1>8 DEF Meter, IdentityTypeOK, Rows, History
<1>9. CASE SweepBegin
  BY <1>0, <1>9 DEF SweepBegin, IdentityTypeOK, History
<1>10. CASE Rekey \/ Merge
  <2>1. RowsMoved
    BY <1>10 DEF Rekey, Merge
  <2>2. /\ hist'.stored = hist.stored /\ hist'.answered = hist.answered
        /\ hist'.echoed = hist.echoed
    BY <1>0, <2>1 DEF RowsMoved, IdentityTypeOK, History
  <2>3. QED BY <1>10, <2>2
<1>11. CASE RepairMessages
  BY <1>11 DEF RepairMessages
<1>12. ASSUME NEW j \in Jids, Decide(j) PROVE Goal
  BY <1>0, <1>12 DEF Decide, IdentityTypeOK, History
<1>13. CASE SyncContact
  BY <1>0, <1>13 DEF SyncContact, IdentityTypeOK, History
<1>14. CASE Crash
  BY <1>0, <1>14 DEF Crash, IdentityTypeOK, History
<1> HIDE DEF Goal
<1>15. QED
  BY <1>1, <1>2, <1>3, <1>4, <1>5, <1>6, <1>7, <1>8, <1>9, <1>10, <1>11, <1>12, <1>13, <1>14, StepKinds

LEMMA InsertEffect ==
    ASSUME IdentityAssumption, IdentityInv, Insert
    PROVE  /\ inbound.jid \in {"lid", "num"} /\ inbound.msg \in Msgs
           /\ \A j \in Jids, m \in Msgs :
                 rows'[j].msgs[m] = IF j = inbound.jid /\ m = inbound.msg /\ rows[j].msgs[m] = "no"
                                    THEN "pending" ELSE rows[j].msgs[m]
           /\ hist'.stored = hist.stored \cup {inbound.msg}
<1>0. /\ IdentityTypeOK /\ InHand(inbound)
      /\ Jids = {"lid", "dev", "num"}
  BY DEF IdentityInv, Jids
<1>1. inbound.jid \in {"lid", "num"} /\ inbound.msg \in Msgs
  BY <1>0 DEF Insert, InHand, IdentityTypeOK, Work
<1>2. hist'.stored = hist.stored \cup {inbound.msg}
  BY <1>0 DEF Insert, IdentityTypeOK, History
<1>3. \A j \in Jids, m \in Msgs :
         rows'[j].msgs[m] = IF j = inbound.jid /\ m = inbound.msg /\ rows[j].msgs[m] = "no"
                            THEN "pending" ELSE rows[j].msgs[m]
  <2> DEFINE i == inbound.jid
             k == inbound.msg
             s == IF rows[i].msgs[k] = "no" THEN "pending" ELSE rows[i].msgs[k]
  <2>1. rows' = [rows EXCEPT ![i].msgs[k] = s]
    BY DEF Insert
  <2> HIDE DEF i, k
  <2>2. QED BY <1>0, <1>1, <2>1 DEF i, k, IdentityTypeOK, Rows
<1>4. QED BY <1>1, <1>2, <1>3

LEMMA MarkEffect ==
    ASSUME IdentityAssumption, IdentityInv, Mark
    PROVE  /\ agent.jid \in {"lid", "num"} /\ agent.msg \in Msgs
           /\ \A j \in Jids, m \in Msgs :
                 rows'[j].msgs[m] = IF j = agent.jid /\ m <= agent.msg /\ rows[j].msgs[m] = "pending"
                                    THEN "handled" ELSE rows[j].msgs[m]
           /\ hist'.answered = hist.answered \cup {agent.msg}
<1>0. /\ IdentityTypeOK /\ InHand(agent)
      /\ Jids = {"lid", "dev", "num"}
  BY DEF IdentityInv, Jids
<1>1. agent.jid \in {"lid", "num"} /\ agent.msg \in Msgs
  BY <1>0 DEF Mark, InHand, IdentityTypeOK, Work
<1>2. hist'.answered = hist.answered \cup {agent.msg}
  BY <1>0 DEF Mark, IdentityTypeOK, History
<1>3. \A j \in Jids, m \in Msgs :
         rows'[j].msgs[m] = IF j = agent.jid /\ m <= agent.msg /\ rows[j].msgs[m] = "pending"
                            THEN "handled" ELSE rows[j].msgs[m]
  <2> DEFINE ms == [m \in Msgs |-> IF rows[agent.jid].msgs[m] = "pending" /\ m <= agent.msg
                                   THEN "handled" ELSE rows[agent.jid].msgs[m]]
  <2>1. rows' = [rows EXCEPT ![agent.jid].msgs = ms]
    BY DEF Mark
  <2>2. \A m \in Msgs : ms[m] = IF rows[agent.jid].msgs[m] = "pending" /\ m <= agent.msg
                                THEN "handled" ELSE rows[agent.jid].msgs[m]
    OBVIOUS
  <2> HIDE DEF ms
  <2>3. \A j \in Jids : rows'[j].msgs = IF j = agent.jid THEN ms ELSE rows[j].msgs
    BY <1>0, <1>1, <2>1 DEF IdentityTypeOK, Rows
  <2>4. QED BY <1>0, <1>1, <2>2, <2>3
<1>4. QED BY <1>1, <1>2, <1>3

LEMMA MovedEffect ==
    ASSUME IdentityAssumption, IdentityInv, RowsMoved
    PROVE  /\ rows'["lid"] = NoRows /\ rows'["dev"] = rows["dev"]
           /\ \A m \in Msgs :
                 /\ rows'["lid"].msgs[m] = "no"
                 /\ rows'["num"].msgs[m] = IF Has("num", m) THEN rows["num"].msgs[m]
                                                            ELSE rows["lid"].msgs[m]
           /\ rows'["num"].usage = rows["num"].usage + rows["lid"].usage
           /\ hist'.crossed = (hist.crossed \/ OnLID)
           /\ hist'.metered = hist.metered
<1>0. IdentityTypeOK /\ Jids = {"lid", "dev", "num"}
  BY DEF IdentityInv, Jids
<1>1. PICK b \in BOOLEAN : b = (hist.crossed \/ OnLID)
  BY <1>0 DEF IdentityTypeOK, History, OnLID
<1>2. hist' = [hist EXCEPT !.crossed = b]
  BY <1>1 DEF RowsMoved
<1>3. hist'.crossed = (hist.crossed \/ OnLID) /\ hist'.metered = hist.metered
  BY <1>0, <1>1, <1>2 DEF IdentityTypeOK, History
<1>4. /\ rows'["lid"] = NoRows /\ rows'["dev"] = rows["dev"]
      /\ rows'["num"] = Moved(rows["lid"], rows["num"])
  BY <1>0 DEF RowsMoved, Remaining, IdentityTypeOK
<1>5. rows["lid"] \in Rows /\ rows["num"] \in Rows
  BY <1>0 DEF IdentityTypeOK
<1>6. QED BY <1>3, <1>4, <1>5, MovedRows, NothingTyped DEF Has

LEMMA RepairEffect ==
    ASSUME IdentityAssumption, IdentityInv, RepairMessages
    PROVE  /\ rows'["lid"] = rows["lid"]
           /\ \A m \in Msgs :
                 /\ rows'["num"].msgs[m] = IF Has("num", m) THEN rows["num"].msgs[m]
                                                            ELSE rows["dev"].msgs[m]
                 /\ rows'["dev"].msgs[m] = IF Has("num", m) THEN rows["dev"].msgs[m] ELSE "no"
           /\ \A j \in Jids : rows'[j].usage = rows[j].usage
<1>0. IdentityTypeOK /\ Jids = {"lid", "dev", "num"}
  BY DEF IdentityInv, Jids
<1> DEFINE num == rows["num"].msgs
           dev == rows["dev"].msgs
           ns == [m \in Msgs |-> IF num[m] # "no" THEN num[m] ELSE dev[m]]
           ds == [m \in Msgs |-> IF num[m] = "no" THEN "no" ELSE dev[m]]
<1>1. rows' = [rows EXCEPT !["num"].msgs = ns, !["dev"].msgs = ds]
  BY DEF RepairMessages
<1>2. \A m \in Msgs : /\ ns[m] = IF num[m] # "no" THEN num[m] ELSE dev[m]
                      /\ ds[m] = IF num[m] = "no" THEN "no" ELSE dev[m]
  OBVIOUS
<1> HIDE DEF ns, ds
<1>3. /\ rows'["lid"] = rows["lid"]
      /\ rows'["num"].msgs = ns /\ rows'["dev"].msgs = ds
      /\ \A j \in Jids : rows'[j].usage = rows[j].usage
  BY <1>0, <1>1 DEF IdentityTypeOK, Rows
<1>4. QED BY <1>2, <1>3 DEF Has

LEMMA RepairingStep ==
    ASSUME IdentityAssumption, IdentityInv, [Next]_vars
    PROVE  Repairing'
<1>0. /\ IdentityTypeOK /\ Repairing
      /\ Exists("num") => Exists("num")'
      /\ "num" \in Jids /\ "dev" \in Jids
  BY ChatsKept DEF IdentityInv, Jids
<1>1. \A m \in Msgs : /\ rows'["dev"].msgs[m] # "pending"
                      /\ repair = "chat" /\ Has("dev", m)' => Has("num", m)'
  <2>1. CASE \A j \in Jids : rows'[j].msgs = rows[j].msgs
    BY <1>0, <2>1 DEF Repairing, Has
  <2>2. CASE Insert
    BY <1>0, <2>2, InsertEffect DEF Repairing, Has
  <2>3. CASE Mark
    BY <1>0, <2>3, MarkEffect DEF Repairing, Has
  <2>4. CASE Rekey \/ Merge
    <3>1. RowsMoved
      BY <2>4 DEF Rekey, Merge
    <3>2. QED BY <1>0, <3>1, MovedEffect DEF Repairing, Has
  <2>5. CASE RepairMessages
    BY <1>0, <2>5, RepairEffect DEF Repairing, Has
  <2>6. QED BY <2>1, <2>2, <2>3, <2>4, <2>5, MessagesKept
<1>2. CASE repair' = repair
  BY <1>0, <1>1, <1>2 DEF Repairing
<1>3. CASE repair' = "idle"
  BY <1>1, <1>3 DEF Repairing
<1>4. CASE RepairBegin
  <2>1. Touches("num")
    BY <1>4 DEF Touches
  <2>2. Exists("num")'
    BY <1>0, <2>1, TouchingEffect
  <2>3. repair' = "messages"
    BY <1>4 DEF RepairBegin
  <2>4. QED BY <1>1, <2>2, <2>3 DEF Repairing
<1>5. CASE RepairMessages
  <2>1. repair = "messages" /\ repair' = "chat"
    BY <1>5 DEF RepairMessages
  <2>2. \A m \in Msgs : Has("dev", m)' => Has("num", m)'
    BY <1>5, RepairEffect DEF Has
  <2>3. QED BY <1>0, <1>1, <2>1, <2>2 DEF Repairing
<1>6. repair' = repair \/ repair' = "idle" \/ RepairBegin \/ RepairMessages
  BY DEF Next, Deliver, Inbound, TouchFirst, Insert, TouchAgain, LearnNumber, Agent, Answer, Mark,
         Dispatch, Sweep, SweepBegin, Rekey, SweepFails, ReadLID, ReadNumber, Merge, Repair,
         RepairChat, Outbox, Meter, SendReply, SyncContact, Decide, Crash, vars
<1>7. QED BY <1>2, <1>3, <1>4, <1>5, <1>6

(* What a delivery starts: a message that is new, or one noted as coming   *)
(* again under another name.                                               *)
LEMMA DeliverEffect ==
    ASSUME IdentityAssumption, IdentityInv,
           NEW k \in Msgs, NEW a \in {"lid", "num"}, Deliver(k, a)
    PROVE  /\ inbound' = [pc |-> "touch", jid |-> Resolve(a), msg |-> k]
           /\ k \in hist.stored => hist'.echoed = hist.echoed \cup {k}
           /\ hist.echoed \subseteq hist'.echoed
           /\ hist'.stored = hist.stored
<1>0. IdentityTypeOK
  BY DEF IdentityInv
<1>1. QED BY <1>0 DEF Deliver, IdentityTypeOK, History

LEMMA StoredStep ==
    ASSUME IdentityAssumption, IdentityInv, [Next]_vars
    PROVE  Stored'
<1>0. /\ IdentityTypeOK /\ Stored /\ Undisturbed /\ Jids = {"lid", "dev", "num"}
      /\ \A m \in Msgs : rows["dev"].msgs[m] # "pending"
  BY DEF IdentityInv, Repairing, Jids
<1>a. /\ hist'.stored = hist.stored \/ Insert
      /\ hist'.answered = hist.answered \/ Mark
      /\ hist'.echoed = hist.echoed \/ \E m \in Msgs, a \in {"lid", "num"} : Deliver(m, a)
  BY MessagesKept
<1>b. hist.stored \subseteq hist'.stored /\ hist.echoed \subseteq hist'.echoed
  BY <1>a, InsertEffect, DeliverEffect
<1>1. \A j \in Jids, m \in Msgs : Has(j, m)' => m \in hist'.stored
  <2>1. CASE \A j \in Jids : rows'[j].msgs = rows[j].msgs
    BY <1>0, <1>b, <2>1 DEF Stored, Has
  <2>2. CASE Insert
    BY <1>0, <1>b, <2>2, InsertEffect DEF Stored, Has
  <2>3. CASE Mark
    BY <1>0, <1>b, <2>3, MarkEffect DEF Stored, Has
  <2>4. CASE Rekey \/ Merge
    <3>1. RowsMoved
      BY <2>4 DEF Rekey, Merge
    <3>2. QED BY <1>0, <1>b, <3>1, MovedEffect DEF Stored, Has
  <2>5. CASE RepairMessages
    BY <1>0, <1>b, <2>5, RepairEffect DEF Stored, Has
  <2>6. QED BY <2>1, <2>2, <2>3, <2>4, <2>5, MessagesKept
<1>2. ASSUME NEW m \in Msgs \ hist'.echoed, NEW i \in Jids, NEW j \in Jids,
             Has(i, m)', Has(j, m)'
      PROVE  i = j
  <2>0. m \notin hist.echoed /\ (Has(i, m) /\ Has(j, m) => i = j)
    BY <1>0, <1>2, <1>b DEF Stored
  <2>1. CASE \A k \in Jids : rows'[k].msgs = rows[k].msgs
    BY <1>2, <2>0, <2>1 DEF Has
  <2>2. CASE Insert
    <3>1. inbound.msg = m => m \notin hist.stored
      BY <1>0, <2>0, <2>2 DEF Stored, Insert
    <3>2. inbound.msg = m => ~Has(i, m) /\ ~Has(j, m)
      BY <1>0, <3>1 DEF Stored
    <3>3. QED BY <1>2, <2>0, <2>2, <3>2, InsertEffect DEF Has
  <2>3. CASE Mark
    BY <1>2, <2>0, <2>3, MarkEffect DEF Has
  <2>4. CASE Rekey \/ Merge
    <3>1. RowsMoved
      BY <2>4 DEF Rekey, Merge
    <3>2. \A k, l \in Jids : Has(k, m) /\ Has(l, m) => k = l
      BY <1>0, <2>0 DEF Stored
    <3>3. /\ ~Has("lid", m)'
          /\ Has("dev", m)' => Has("dev", m)
          /\ Has("num", m)' => Has("num", m) \/ Has("lid", m)
      BY <3>1, MovedEffect DEF Has
    <3>4. QED BY <1>0, <1>2, <3>2, <3>3
  <2>5. CASE RepairMessages
    <3>1. \A k, l \in Jids : Has(k, m) /\ Has(l, m) => k = l
      BY <1>0, <2>0 DEF Stored
    <3>2. /\ Has("lid", m)' => Has("lid", m)
          /\ Has("dev", m)' => Has("num", m) /\ Has("dev", m)
          /\ Has("num", m)' => Has("num", m) \/ Has("dev", m)
      BY <2>5, RepairEffect DEF Has
    <3>3. QED BY <1>0, <1>2, <3>1, <3>2
  <2>6. QED BY <2>1, <2>2, <2>3, <2>4, <2>5, MessagesKept
<1>3. hist'.answered \subseteq hist'.stored
  <2>1. CASE Mark
    <3>1. agent.jid \in {"lid", "num"} /\ agent.msg \in Msgs
          /\ hist'.answered = hist.answered \cup {agent.msg}
      BY <2>1, MarkEffect
    <3>2. agent.msg \in hist.stored
      BY <1>0, <2>1, <3>1 DEF Mark, Stored
    <3>3. QED BY <1>0, <1>b, <3>1, <3>2 DEF Stored
  <2>2. CASE ~Mark
    BY <1>0, <1>a, <1>b, <2>2 DEF Stored
  <2>3. QED BY <2>1, <2>2
<1>4. inbound'.pc \in {"touch", "insert"} /\ inbound'.msg \notin hist'.echoed =>
         inbound'.msg \notin hist'.stored
  <2>1. ASSUME NEW k \in Msgs, NEW a \in {"lid", "num"}, Deliver(k, a)
        PROVE  inbound'.msg \notin hist'.echoed => inbound'.msg \notin hist'.stored
    BY <2>1, DeliverEffect
  <2>2. CASE Insert
    BY <1>0, <2>2 DEF Insert, IdentityTypeOK, Work
  <2>3. ASSUME ~(\E m \in Msgs, a \in {"lid", "num"} : Deliver(m, a)), ~Insert
        PROVE  inbound'.pc \in {"touch", "insert"} =>
                  inbound.pc \in {"touch", "insert"} /\ inbound'.msg = inbound.msg
    <3>1. CASE TouchFirst
      BY <1>0, <3>1 DEF TouchFirst, IdentityTypeOK, Work
    <3>2. CASE TouchAgain \/ Crash
      BY <3>2 DEF TouchAgain, Crash, NoMsg
    <3>3. CASE inbound' = inbound
      BY <3>3
    <3>4. QED BY <2>3, <3>1, <3>2, <3>3 DEF Next, Inbound, LearnNumber, Agent, Answer, Mark,
         Dispatch, Sweep, SweepBegin, Rekey, SweepFails, ReadLID, ReadNumber, Merge, Repair,
         RepairBegin, RepairMessages, RepairChat, Outbox, Meter, SendReply, SyncContact, Decide, vars
  <2>4. QED BY <1>0, <1>a, <1>b, <2>1, <2>2, <2>3 DEF Stored
<1>5. agent'.pc # "idle" => agent'.msg \in hist'.stored
  <2>1. ASSUME NEW j \in Jids, NEW m \in Msgs, Dispatch(j, m)
        PROVE  agent'.msg \in hist.stored
    BY <1>0, <2>1 DEF Dispatch, Stored, Has
  <2>2. CASE Answer
    BY <1>0, <1>b, <2>2 DEF Answer, Stored, IdentityTypeOK, Work
  <2>3. CASE Mark \/ Crash
    BY <2>3 DEF Mark, Crash, NoMsg
  <2>4. CASE agent' = agent
    BY <1>0, <1>b, <2>4 DEF Stored
  <2>5. agent' = agent \/ Answer \/ Mark \/ Crash \/ \E j \in Jids, m \in Msgs : Dispatch(j, m)
    BY DEF Next, Deliver, Inbound, TouchFirst, Insert, TouchAgain, LearnNumber, Agent, Sweep,
           SweepBegin, Rekey, SweepFails, ReadLID, ReadNumber, Merge, Repair, RepairBegin,
           RepairMessages, RepairChat, Outbox, Meter, SendReply, SyncContact, Decide, vars
  <2>6. QED BY <1>b, <2>1, <2>2, <2>3, <2>4, <2>5
<1>6. QED BY <1>1, <1>2, <1>3, <1>4, <1>5 DEF Stored

(* A message stays where it is, but for the moves of merges and repair.    *)
LEMMA MessagesStay ==
    ASSUME IdentityAssumption, IdentityInv, [Next]_vars, NEW m \in Msgs
    PROVE  /\ Has("num", m) => Has("num", m)'
           /\ Has("lid", m) => Has("lid", m)' \/ ((Rekey \/ Merge) /\ Has("num", m)')
           /\ Has("dev", m) => Has("dev", m)' \/ Has("num", m)'
<1>0. Jids = {"lid", "dev", "num"}
  BY DEF Jids
<1>1. CASE \A j \in Jids : rows'[j].msgs = rows[j].msgs
  BY <1>0, <1>1 DEF Has
<1>2. CASE Insert
  BY <1>0, <1>2, InsertEffect DEF Has
<1>3. CASE Mark
  BY <1>0, <1>3, MarkEffect DEF Has
<1>4. CASE Rekey \/ Merge
  <2>1. RowsMoved
    BY <1>4 DEF Rekey, Merge
  <2>2. QED BY <1>4, <2>1, MovedEffect DEF Has
<1>5. CASE RepairMessages
  BY <1>5, RepairEffect DEF Has
<1>6. QED BY <1>1, <1>2, <1>3, <1>4, <1>5, MessagesKept

(* Rows that moved under somebody stay noted.                              *)
LEMMA CrossedKept ==
    ASSUME IdentityAssumption, IdentityInv, [Next]_vars
    PROVE  /\ hist.crossed => hist'.crossed
           /\ Rekey \/ Merge => hist'.crossed = (hist.crossed \/ OnLID)
<1>1. Rekey \/ Merge => RowsMoved
  BY DEF Rekey, Merge
<1>2. QED BY <1>1, MessagesKept, MovedEffect

(* What nobody works on, in a chat that is gone, nobody starts to work on. *)
Untouched ==
    /\ rows["lid"] = NoRows
    /\ outbox["lid"] = 0
    /\ ~(agent.pc # "idle" /\ agent.jid = "lid")
    /\ ~(inbound.pc \in {"insert", "again"} /\ inbound.jid = "lid")

LEMMA UntouchedStep ==
    ASSUME IdentityAssumption, IdentityInv, [Next]_vars, ~Rekey, ~Merge,
           ~Exists("lid"), ~Exists("lid")', Untouched
    PROVE  Untouched'
<1>0. /\ IdentityTypeOK /\ Jids = {"lid", "dev", "num"}
      /\ NoRows.outbox = {}
      /\ inbound.pc # "idle" => inbound.pc \in {"touch", "insert", "again"}
  BY NothingTyped DEF IdentityInv, IdentityTypeOK, Work
<1>1. ASSUME NEW m \in Msgs, NEW a \in {"lid", "num"}, Deliver(m, a) PROVE Untouched'
  BY <1>1 DEF Deliver, Untouched
<1>2. ASSUME NEW j \in Jids, Touches(j) PROVE Untouched'
  <2>1. j # "lid"
    BY <1>2, TouchingEffect
  <2>2. UNCHANGED outbox
    BY <1>2 DEF Touches, TouchFirst, TouchAgain, Answer, RepairBegin
  <2>3. rows'["lid"] = rows["lid"]
    BY <1>0, <1>2, <2>1 DEF Touches, TouchFirst, TouchAgain, Answer, RepairBegin, IdentityTypeOK
  <2>4. /\ agent' = agent \/ (agent.pc # "idle" /\ agent.jid = j /\ agent'.jid = agent.jid)
        /\ inbound' = inbound \/ inbound'.pc = "idle"
             \/ (inbound.jid = j /\ inbound'.jid = inbound.jid)
    BY <1>0, <1>2 DEF Touches, TouchFirst, TouchAgain, Answer, RepairBegin, IdentityTypeOK, Work, NoMsg
  <2>5. QED BY <2>1, <2>2, <2>3, <2>4 DEF Untouched
<1>3. CASE Insert
  <2>1. inbound.jid # "lid"
    BY <1>3 DEF Insert, Untouched
  <2>2. rows'["lid"] = rows["lid"]
    BY <1>0, <1>3, <2>1 DEF Insert, IdentityTypeOK
  <2>3. inbound'.jid # "lid" /\ UNCHANGED <<outbox, agent>>
    BY <1>0, <1>3, <2>1 DEF Insert, IdentityTypeOK, Work
  <2>4. QED BY <2>2, <2>3 DEF Untouched
<1>4. CASE UNCHANGED <<rows, inbound, agent, outbox>>
  BY <1>4 DEF Untouched
<1>5. ASSUME NEW j \in Jids, NEW m \in Msgs, Dispatch(j, m) PROVE Untouched'
  <2>1. j # "lid"
    BY <1>5 DEF Dispatch
  <2>2. rows'["lid"] = rows["lid"] /\ agent'.jid # "lid" /\ UNCHANGED <<outbox, inbound>>
    BY <1>0, <1>5, <2>1 DEF Dispatch, IdentityTypeOK
  <2>3. QED BY <2>2 DEF Untouched
<1>6. CASE Mark
  <2>1. agent.jid # "lid"
    BY <1>6 DEF Mark, Untouched
  <2>2. rows'["lid"] = rows["lid"] /\ agent'.pc = "idle" /\ UNCHANGED <<outbox, inbound>>
    BY <1>0, <1>6, <2>1 DEF Mark, IdentityTypeOK, NoMsg
  <2>3. QED BY <2>2 DEF Untouched
<1>7. ASSUME NEW j \in Jids, NEW m \in Msgs, SendReply(j, m) PROVE Untouched'
  <2>1. j # "lid"
    BY <1>0, <1>7 DEF SendReply, Untouched
  <2>2. rows'["lid"] = rows["lid"] /\ outbox'["lid"] = outbox["lid"] /\ UNCHANGED <<agent, inbound>>
    BY <1>0, <1>7, <2>1 DEF SendReply, IdentityTypeOK
  <2>3. QED BY <2>2 DEF Untouched
<1>8. ASSUME NEW j \in Jids, Meter(j) PROVE Untouched'
  <2>1. j # "lid"
    BY <1>0, <1>8 DEF Meter, Untouched
  <2>2. rows'["lid"] = rows["lid"] /\ outbox'["lid"] = outbox["lid"] /\ UNCHANGED <<agent, inbound>>
    BY <1>0, <1>8, <2>1 DEF Meter, IdentityTypeOK
  <2>3. QED BY <2>2 DEF Untouched
<1>9. CASE RepairMessages
  BY <1>9, RepairEffect DEF RepairMessages, Untouched
<1>10. CASE Crash
  BY <1>0, <1>10 DEF Crash, NoMsg, Untouched
<1>11. ASSUME \/ LearnNumber \/ SweepBegin \/ SweepFails \/ ReadLID \/ ReadNumber
              \/ RepairChat \/ SyncContact \/ UNCHANGED vars \/ \E j \in Jids : Decide(j)
       PROVE  UNCHANGED <<rows, inbound, agent, outbox>>
  BY <1>11 DEF LearnNumber, SweepBegin, SweepFails, ReadLID, ReadNumber, RepairChat, SyncContact,
               Decide, vars
<1>12. QED
  BY <1>1, <1>2, <1>3, <1>4, <1>5, <1>6, <1>7, <1>8, <1>9, <1>10, <1>11, StepKinds

LEMMA UndisturbedStep ==
    ASSUME IdentityAssumption, IdentityInv, [Next]_vars
    PROVE  Undisturbed'
<1>0. /\ IdentityTypeOK /\ Undisturbed /\ Jids = {"lid", "dev", "num"}
      /\ InHand(agent)
      /\ Exists("num") => Exists("num")'
      /\ Exists("lid") => Exists("lid")' \/ Rekey \/ Merge
  BY ChatsKept DEF IdentityInv, Jids
<1>1. inbound'.pc \in {"insert", "again"} /\ inbound'.jid = "num" => Exists("num")'
  <2>1. CASE TouchFirst
    <3>1. Touches(inbound.jid) /\ inbound.jid \in Jids
      BY <1>0, <2>1 DEF Touches, TouchFirst, IdentityTypeOK, Work
    <3>2. Exists(inbound.jid)'
      <4>1. PICK j \in Jids : j = inbound.jid /\ Touches(j)
        BY <3>1
      <4>2. Exists(j)'
        BY <4>1, TouchingEffect
      <4>3. chat'[j] # NoRow
        BY <4>2 DEF Exists
      <4>4. inbound'.jid = j
        BY <1>0, <2>1, <4>1 DEF TouchFirst, IdentityTypeOK, Work
      <4>5. QED BY <4>3, <4>4 DEF Exists
    <3>3. QED BY <3>2 DEF Exists
  <2>2. CASE Insert
    <3>1. inbound.pc = "insert" /\ inbound'.jid = inbound.jid
      BY <1>0, <2>2 DEF Insert, IdentityTypeOK, Work
    <3>2. QED BY <1>0, <3>1 DEF Undisturbed
  <2>3. CASE TouchAgain \/ Crash
    BY <2>3 DEF TouchAgain, Crash, NoMsg
  <2>4. CASE \E m \in Msgs, a \in {"lid", "num"} : Deliver(m, a)
    <3>1. PICK m \in Msgs, a \in {"lid", "num"} : Deliver(m, a)
      BY <2>4
    <3>2. inbound'.pc = "touch"
      BY <3>1, DeliverEffect
    <3>3. QED BY <3>2
  <2>5. CASE inbound' = inbound
    BY <1>0, <2>5 DEF Undisturbed
  <2>6. QED BY <2>1, <2>2, <2>3, <2>4, <2>5 DEF Next, Inbound, LearnNumber, Agent, Answer, Mark,
         Dispatch, Sweep, SweepBegin, Rekey, SweepFails, ReadLID, ReadNumber, Merge, Repair,
         RepairBegin, RepairMessages, RepairChat, Outbox, Meter, SendReply, SyncContact, Decide, vars
<1>2. ASSUME ~hist'.crossed, agent'.pc # "idle" PROVE Has(agent.jid, agent.msg)'
  <2>1. ~hist.crossed /\ (Rekey \/ Merge => ~OnLID)
    BY <1>2, CrossedKept
  <2>2. ASSUME NEW j \in Jids, NEW m \in Msgs, Dispatch(j, m)
        PROVE  agent'.jid = j /\ agent'.msg = m /\ Has(j, m)'
    <3>1. Has(j, m) /\ rows'[j].msgs = rows[j].msgs
      BY <1>0, <2>2 DEF Dispatch, Has, IdentityTypeOK, Rows
    <3>2. QED BY <2>2, <3>1 DEF Dispatch, Has
  <2>3. ASSUME agent.pc # "idle", agent'.jid = agent.jid, agent'.msg = agent.msg
        PROVE  Has(agent.jid, agent.msg)'
    <3>1. PICK j \in Jids, m \in Msgs : j = agent.jid /\ m = agent.msg
      BY <1>0, <2>3 DEF InHand, IdentityTypeOK, Work
    <3>2. Has(j, m) /\ j # "dev" /\ (Rekey \/ Merge => j # "lid")
      BY <1>0, <2>1, <2>3, <3>1 DEF Undisturbed, InHand, OnLID
    <3>3. Has(j, m)'
      BY <1>0, <3>2, MessagesStay
    <3>4. agent'.jid = j /\ agent'.msg = m
      BY <2>3, <3>1
    <3>5. QED BY <3>3, <3>4 DEF Has
  <2>4. CASE Answer
    BY <1>0, <2>3, <2>4 DEF Answer, IdentityTypeOK, Work
  <2>5. CASE agent' = agent
    BY <1>2, <2>3, <2>5
  <2>6. CASE Mark \/ Crash
    BY <1>2, <2>6 DEF Mark, Crash, NoMsg
  <2>7. CASE \E j \in Jids, m \in Msgs : Dispatch(j, m)
    BY <2>2, <2>7 DEF Has
  <2>8. agent' = agent \/ Answer \/ Mark \/ Crash \/ \E j \in Jids, m \in Msgs : Dispatch(j, m)
    BY DEF Next, Deliver, Inbound, TouchFirst, Insert, TouchAgain, LearnNumber, Agent, Sweep,
           SweepBegin, Rekey, SweepFails, ReadLID, ReadNumber, Merge, Repair, RepairBegin,
           RepairMessages, RepairChat, Outbox, Meter, SendReply, SyncContact, Decide, vars
  <2>9. QED BY <2>4, <2>5, <2>6, <2>7, <2>8
<1>3. ASSUME ~hist'.crossed, ~Exists("lid")' PROVE Untouched'
  <2>1. ~hist.crossed
    BY <1>3, CrossedKept
  <2>2. CASE Rekey \/ Merge
    <3>1. ~OnLID
      BY <1>3, <2>2, CrossedKept
    <3>2. rows'["lid"] = NoRows
      <4>1. RowsMoved
        BY <2>2 DEF Rekey, Merge
      <4>2. QED BY <4>1, MovedEffect
    <3>3. UNCHANGED <<inbound, agent, outbox>>
      BY <2>2 DEF Rekey, Merge
    <3>4. outbox["lid"] = 0
      BY <1>0, <3>1 DEF OnLID, IdentityTypeOK
    <3>5. QED BY <3>1, <3>2, <3>3, <3>4 DEF OnLID, Untouched
  <2>3. CASE ~Rekey /\ ~Merge
    <3>1. ~Exists("lid")
      BY <1>0, <1>3, <2>3
    <3>2. Untouched
      BY <1>0, <2>1, <3>1 DEF Undisturbed, Untouched
    <3>3. QED BY <1>3, <2>3, <3>1, <3>2, UntouchedStep
  <2>4. QED BY <2>2, <2>3
<1>4. QED BY <1>1, <1>2, <1>3 DEF Undisturbed, Untouched

-----------------------------------------------------------------------------
(* Nothing lost, brought back or counted twice                             *)

LEMMA FindableStep ==
    ASSUME IdentityAssumption, IdentityInv, [Next]_vars
    PROVE  Findable'
<1>0. /\ IdentityTypeOK /\ Findable /\ Undisturbed /\ Repairing /\ Sweeping
      /\ Jids = {"lid", "dev", "num"}
      /\ hist.stored \subseteq Msgs
      /\ Exists("num") => Exists("num")'
      /\ Exists("lid") => Exists("lid")' \/ Rekey \/ Merge
      /\ Exists("dev") => Exists("dev")' \/ RepairChat
  BY ChatsKept DEF IdentityInv, IdentityTypeOK, History, Jids
<1> SUFFICES ASSUME ~hist'.crossed, NEW m \in hist'.stored
             PROVE  \E j \in Jids : Has(j, m)' /\ Exists(j)'
  BY DEF Findable, Has, Exists
<1>1. ~hist.crossed
  BY CrossedKept
<1>2. CASE m \in hist.stored
  <2>0. m \in Msgs
    BY <1>0, <1>2
  <2>1. PICK j \in Jids : Has(j, m) /\ Exists(j)
    BY <1>0, <1>1, <1>2 DEF Findable
  <2>2. CASE j = "num"
    BY <1>0, <2>0, <2>1, <2>2, MessagesStay
  <2>3. CASE j = "lid"
    <3>1. CASE Exists("lid")' /\ Has("lid", m)'
      BY <1>0, <3>1
    <3>2. CASE Rekey
      <4>1. Exists("num")'
        BY <1>0, <2>1, <2>3, <3>2 DEF Rekey, Exists, IdentityTypeOK
      <4>2. Has("num", m)'
        <5>1. RowsMoved
          BY <3>2 DEF Rekey
        <5>2. QED BY <2>0, <2>1, <2>3, <5>1, MovedEffect DEF Has
      <4>3. QED BY <1>0, <4>1, <4>2
    <3>3. CASE Merge
      <4>1. Exists("num")'
        BY <1>0, <3>3 DEF Merge, Sweeping
      <4>2. Has("num", m)'
        <5>1. RowsMoved
          BY <3>3 DEF Merge
        <5>2. QED BY <2>0, <2>1, <2>3, <5>1, MovedEffect DEF Has
      <4>3. QED BY <1>0, <4>1, <4>2
    <3>4. QED BY <1>0, <2>0, <2>1, <2>3, <3>1, <3>2, <3>3, MessagesStay
  <2>4. CASE j = "dev"
    <3>1. CASE RepairChat
      <4>1. repair = "chat" /\ UNCHANGED rows
        BY <3>1 DEF RepairChat
      <4>2. Exists("num") /\ Has("num", m)
        BY <1>0, <2>0, <2>1, <2>4, <4>1 DEF Repairing
      <4>3. QED BY <1>0, <4>1, <4>2 DEF Has
    <3>2. CASE RepairMessages
      <4>1. Exists("num")
        BY <1>0, <3>2 DEF RepairMessages, Repairing
      <4>2. Has("dev", m)' \/ Has("num", m)'
        BY <2>0, <2>1, <2>4, MessagesStay
      <4>3. Exists("dev")'
        BY <2>1, <2>4, <3>2 DEF RepairMessages, Exists
      <4>4. QED BY <1>0, <4>1, <4>2, <4>3
    <3>3. CASE ~RepairChat /\ ~RepairMessages
      <4>1. Has("dev", m)'
        <5>1. CASE \A i \in Jids : rows'[i].msgs = rows[i].msgs
          BY <2>1, <2>4, <5>1 DEF Has
        <5>2. CASE Insert
          BY <2>0, <2>1, <2>4, <5>2, InsertEffect DEF Has
        <5>3. CASE Mark
          BY <2>0, <2>1, <2>4, <5>3, MarkEffect DEF Has
        <5>4. CASE Rekey \/ Merge
          <6>1. RowsMoved
            BY <5>4 DEF Rekey, Merge
          <6>2. QED BY <2>1, <2>4, <6>1, MovedEffect DEF Has
        <5>5. QED BY <3>3, <5>1, <5>2, <5>3, <5>4, MessagesKept
      <4>2. QED BY <1>0, <2>1, <2>4, <3>3, <4>1
    <3>4. QED BY <3>1, <3>2, <3>3
  <2>5. QED BY <1>0, <2>2, <2>3, <2>4
<1>3. CASE m \notin hist.stored
  <2>1. Insert
    BY <1>3, MessagesKept
  <2>2. m = inbound.msg /\ inbound.jid \in {"lid", "num"} /\ m \in Msgs
    BY <1>3, <2>1, InsertEffect
  <2>3. Exists(inbound.jid) /\ UNCHANGED chat
    BY <1>0, <1>1, <2>1, <2>2 DEF Insert, Undisturbed
  <2>4. rows'[inbound.jid].msgs[m] # "no"
    BY <1>0, <2>1, <2>2, InsertEffect
  <2>5. PICK j \in Jids : j = inbound.jid
    BY <1>0, <2>2
  <2>6. Has(j, m)' /\ Exists(j)'
    BY <2>3, <2>4, <2>5 DEF Has, Exists
  <2>7. QED BY <2>6
<1>4. QED BY <1>2, <1>3

LEMMA AnsweredStep ==
    ASSUME IdentityAssumption, IdentityInv, [Next]_vars
    PROVE  AnsweredStaysHandled'
<1>0. /\ IdentityTypeOK /\ AnsweredStaysHandled /\ Stored /\ Undisturbed
      /\ Jids = {"lid", "dev", "num"}
      /\ hist.answered \subseteq hist.stored /\ hist.stored \subseteq Msgs
  BY DEF IdentityInv, Stored, IdentityTypeOK, History, Jids
<1> SUFFICES ASSUME ~hist'.crossed, NEW m \in hist'.answered \ hist'.echoed, NEW j \in Jids
             PROVE  rows'[j].msgs[m] # "pending"
  BY DEF AnsweredStaysHandled
<1>1. ~hist.crossed
  BY CrossedKept
<1>2. m \notin hist.echoed
  BY MessagesKept, DeliverEffect
<1>3. ASSUME m \in hist.answered PROVE \A i \in Jids : rows[i].msgs[m] # "pending"
  BY <1>0, <1>1, <1>2, <1>3 DEF AnsweredStaysHandled
<1>4. CASE Mark
  <2>1. /\ agent.jid \in {"lid", "num"} /\ agent.msg \in Msgs
        /\ \A i \in Jids, k \in Msgs :
              rows'[i].msgs[k] = IF i = agent.jid /\ k <= agent.msg /\ rows[i].msgs[k] = "pending"
                                 THEN "handled" ELSE rows[i].msgs[k]
        /\ hist'.answered = hist.answered \cup {agent.msg}
    BY <1>4, MarkEffect
  <2>2. m \in Msgs
    BY <1>0, <2>1
  <2>3. CASE m \in hist.answered
    BY <1>3, <2>1, <2>2, <2>3
  <2>4. CASE m = agent.msg
    <3>1. Has(agent.jid, m)
      BY <1>0, <1>1, <1>4, <2>4 DEF Mark, Undisturbed
    <3>2. j # agent.jid => ~Has(j, m)
      <4>1. \A i, k \in Jids : Has(i, m) /\ Has(k, m) => i = k
        BY <1>0, <1>2, <2>2 DEF Stored
      <4>2. QED BY <1>0, <2>1, <3>1, <4>1
    <3>3. m <= agent.msg
      BY <2>2, <2>4 DEF Msgs
    <3>4. QED BY <2>1, <2>2, <3>2, <3>3 DEF Has
  <2>5. QED BY <2>1, <2>3, <2>4
<1>5. CASE ~Mark
  <2>1. m \in hist.answered /\ m \in Msgs /\ m \in hist.stored
    BY <1>0, <1>5, MessagesKept
  <2>2. \A i \in Jids : rows[i].msgs[m] # "pending"
    BY <1>3, <2>1
  <2>3. CASE \A i \in Jids : rows'[i].msgs = rows[i].msgs
    BY <2>2, <2>3
  <2>4. CASE Insert
    <3>1. inbound.msg # m
      BY <1>0, <1>2, <2>1, <2>4 DEF Insert, Stored
    <3>2. QED BY <2>1, <2>2, <2>4, <3>1, InsertEffect
  <2>5. CASE Rekey \/ Merge
    <3>1. RowsMoved
      BY <2>5 DEF Rekey, Merge
    <3>2. QED BY <1>0, <2>1, <2>2, <3>1, MovedEffect DEF Has
  <2>6. CASE RepairMessages
    BY <1>0, <2>1, <2>2, <2>6, RepairEffect DEF Has
  <2>7. QED BY <1>5, <2>3, <2>4, <2>5, <2>6, MessagesKept
<1>6. QED BY <1>4, <1>5

LEMMA UsageStep ==
    ASSUME IdentityAssumption, IdentityInv, [Next]_vars
    PROVE  UsageConserved'
<1>0. /\ IdentityTypeOK /\ UsageConserved /\ Jids = {"lid", "dev", "num"}
      /\ \A j \in Jids : rows[j].usage \in Nat
      /\ hist.metered \in Nat
  BY DEF IdentityInv, IdentityTypeOK, Rows, History, Jids
<1>1. ASSUME \A j \in Jids : rows'[j].usage = rows[j].usage, hist'.metered = hist.metered
      PROVE  UsageConserved'
  BY <1>0, <1>1 DEF UsageConserved
<1>2. ASSUME NEW j \in Jids, rows' = [rows EXCEPT ![j].usage = @ + 1],
             hist'.metered = hist.metered + 1
      PROVE  UsageConserved'
  <2>1. \A i \in Jids : rows'[i].usage = IF i = j THEN rows[i].usage + 1 ELSE rows[i].usage
    BY <1>0, <1>2 DEF IdentityTypeOK, Rows
  <2>2. QED BY <1>0, <1>2, <2>1 DEF UsageConserved
<1>3. ASSUME NEW m \in Msgs, NEW a \in {"lid", "num"}, Deliver(m, a) PROVE UsageConserved'
  BY <1>0, <1>1, <1>3 DEF Deliver, IdentityTypeOK, History
<1>4. ASSUME NEW j \in Jids, Touches(j) PROVE UsageConserved'
  <2>1. \A i \in Jids : rows'[i].usage = rows[i].usage
    BY <1>0, <1>4 DEF Touches, TouchFirst, TouchAgain, Answer, RepairBegin, IdentityTypeOK, Rows
  <2>2. QED BY <1>1, <1>4, <2>1, TouchingEffect
<1>5. CASE Insert
  <2>1. hist'.metered = hist.metered
    BY <1>0, <1>5 DEF Insert, IdentityTypeOK, History
  <2>2. \A i \in Jids : rows'[i].usage = rows[i].usage
    BY <1>0, <1>5 DEF Insert, IdentityTypeOK, Rows
  <2>3. QED BY <1>1, <2>1, <2>2
<1>6. ASSUME NEW j \in Jids, NEW m \in Msgs, Dispatch(j, m) PROVE UsageConserved'
  <2>1. hist'.metered = hist.metered + 1
    BY <1>0, <1>6 DEF Dispatch, IdentityTypeOK, History
  <2>2. QED BY <1>2, <1>6, <2>1 DEF Dispatch
<1>7. CASE Mark
  <2>1. hist'.metered = hist.metered
    BY <1>0, <1>7 DEF Mark, IdentityTypeOK, History
  <2>2. \A i \in Jids : rows'[i].usage = rows[i].usage
    BY <1>0, <1>7 DEF Mark, IdentityTypeOK, Rows
  <2>3. QED BY <1>1, <2>1, <2>2
<1>8. ASSUME NEW j \in Jids, NEW m \in Msgs, SendReply(j, m) PROVE UsageConserved'
  <2>1. \A i \in Jids : rows'[i].usage = rows[i].usage
    BY <1>0, <1>8 DEF SendReply, IdentityTypeOK, Rows
  <2>2. QED BY <1>1, <1>8, <2>1 DEF SendReply
<1>9. ASSUME NEW j \in Jids, Meter(j) PROVE UsageConserved'
  <2>1. hist'.metered = hist.metered + 1
    BY <1>0, <1>9 DEF Meter, IdentityTypeOK, History
  <2>2. QED BY <1>2, <1>9, <2>1 DEF Meter
<1>10. CASE Rekey \/ Merge
  <2>1. RowsMoved
    BY <1>10 DEF Rekey, Merge
  <2>2. rows'["lid"].usage = 0
    BY <2>1, MovedEffect, NothingTyped
  <2>3. QED BY <1>0, <2>1, <2>2, MovedEffect DEF UsageConserved
<1>11. CASE RepairMessages
  BY <1>1, <1>11, RepairEffect DEF RepairMessages
<1>12. ASSUME \/ LearnNumber \/ SweepBegin \/ SweepFails \/ ReadLID \/ ReadNumber \/ RepairChat
              \/ SyncContact \/ Crash \/ UNCHANGED vars \/ \E j \in Jids : Decide(j)
       PROVE  UsageConserved'
  <2>1. UNCHANGED rows
    BY <1>12 DEF LearnNumber, SweepBegin, SweepFails, ReadLID, ReadNumber, RepairChat,
                 SyncContact, Crash, Decide, vars
  <2>2. hist'.metered = hist.metered
    BY <1>0, <1>12 DEF LearnNumber, SweepBegin, SweepFails, ReadLID, ReadNumber, RepairChat,
                 SyncContact, Crash, Decide, vars, IdentityTypeOK, History
  <2>3. QED BY <1>1, <2>1, <2>2
<1>13. QED
  BY <1>3, <1>4, <1>5, <1>6, <1>7, <1>8, <1>9, <1>10, <1>11, <1>12, StepKinds

-----------------------------------------------------------------------------
(* The theorems                                                            *)

LEMMA IdentityInit ==
    ASSUME IdentityAssumption, Init
    PROVE  IdentityInv
<1>1. PICK old \in BOOLEAN :
         /\ chat = [j \in Jids |-> IF old /\ j = "dev" THEN Row(NoName, 1, "default") ELSE NoRow]
         /\ rows = [j \in Jids |-> IF old /\ j = "dev" THEN [NoRows EXCEPT !.msgs[1] = "handled"]
                                   ELSE NoRows]
         /\ mapped = old
         /\ hist = [stored |-> IF old THEN {1} ELSE {}, answered |-> {}, echoed |-> {},
                    metered |-> 0, crossed |-> FALSE, raced |-> FALSE, sweeps |-> 0,
                    calls |-> 0, crashes |-> 0]
  BY DEF Init
<1>2. /\ inbound = NoMsg /\ agent = NoMsg
      /\ sweep = NoSweep /\ repair = "idle" /\ outbox = [j \in Jids |-> 0]
  BY DEF Init
<1>3. /\ Jids = {"lid", "dev", "num"} /\ 1 \in Msgs
      /\ NoRow \in ChatRows /\ NoRows \in Rows
      /\ \A m \in Msgs : NoRows.msgs[m] = "no"
      /\ NoRows.usage = 0
  BY NothingTyped DEF IdentityAssumption, Msgs
<1> DEFINE first == [NoRows EXCEPT !.msgs[1] = "handled"]
           row1 == Row(NoName, 1, "default")
<1>4. /\ first \in Rows /\ first.usage = 0
      /\ \A m \in Msgs : first.msgs[m] = IF m = 1 THEN "handled" ELSE "no"
  BY <1>3 DEF Rows, NoRows
<1>5. row1 \in ChatRows /\ row1.cfg # "none" /\ NoRow.cfg = "none"
  BY <1>3 DEF Row, ChatRows, NoRow, Msgs
<1> HIDE DEF first, row1
<1>6. /\ \A j \in Jids : chat[j] = IF old /\ j = "dev" THEN row1 ELSE NoRow
      /\ \A j \in Jids : rows[j] = IF old /\ j = "dev" THEN first ELSE NoRows
  BY <1>1 DEF first, row1
<1>7. hist \in History /\ hist.stored = (IF old THEN {1} ELSE {}) /\ hist.answered = {}
      /\ hist.metered = 0 /\ ~hist.crossed
  BY <1>1, <1>3 DEF History, IdentityAssumption
<1>8. IdentityTypeOK
  <2>1. chat \in [Jids -> ChatRows] /\ rows \in [Jids -> Rows]
    BY <1>1, <1>3, <1>4, <1>5, <1>6
  <2>2. sweep \in [pc : {"idle", "rekey", "read", "readNumber", "merge"},
                   lid : ChatRows, num : ChatRows]
    BY <1>2, <1>3 DEF NoSweep
  <2>3. QED BY <1>1, <1>2, <1>7, <2>1, <2>2, NothingTyped DEF IdentityTypeOK
<1>9. inbound.pc = "idle" /\ agent.pc = "idle" /\ sweep.pc = "idle"
  BY <1>2 DEF NoMsg, NoSweep
<1>10. \A j \in Jids, m \in Msgs : /\ Has(j, m) <=> old /\ j = "dev" /\ m = 1
                                  /\ rows[j].msgs[m] # "pending"
  BY <1>3, <1>4, <1>6 DEF Has
<1>11. Stored
  BY <1>7, <1>9, <1>10 DEF Stored
<1>12. Sweeping /\ Repairing /\ Undisturbed /\ InHand(inbound) /\ InHand(agent)
  BY <1>2, <1>3, <1>6, <1>9, <1>10 DEF Sweeping, Repairing, Undisturbed, InHand
<1>13. \A j \in Jids : RowShaped(chat[j])
  BY <1>5, <1>6 DEF RowShaped
<1>14. Findable
  BY <1>3, <1>5, <1>6, <1>7, <1>10 DEF Findable, Exists
<1>15. AnsweredStaysHandled /\ UsageConserved
  BY <1>3, <1>4, <1>6, <1>7 DEF AnsweredStaysHandled, UsageConserved
<1>16. QED BY <1>8, <1>11, <1>12, <1>13, <1>14, <1>15 DEF IdentityInv

(* However a sweep, the repair, messages on their way, an agent, the drain *)
(* and crashes interleave, the invariant below the four promises holds.    *)
THEOREM IdentityInvHolds == Spec => []IdentityInv
<1>1. Init => IdentityInv
  BY IdentityAssumption, IdentityInit
<1>2. IdentityInv /\ [Next]_vars => IdentityInv'
  <2> SUFFICES ASSUME IdentityInv, [Next]_vars PROVE IdentityInv'
    OBVIOUS
  <2>1. Types'
    BY IdentityAssumption, TypeStep
  <2>2. Sweeping' /\ Repairing' /\ Stored' /\ Undisturbed'
    BY IdentityAssumption, SweepingStep, RepairingStep, StoredStep, UndisturbedStep
  <2>3. Findable' /\ AnsweredStaysHandled' /\ UsageConserved'
    BY IdentityAssumption, FindableStep, AnsweredStep, UsageStep
  <2>4. QED BY <2>1, <2>2, <2>3 DEF IdentityInv, Types
<1>3. QED BY <1>1, <1>2, PTL DEF Spec

(* Renaming and merging lose no message and no usage, bring nothing        *)
(* answered back and leave nothing behind, for any number of messages: by  *)
(* ReconcileIdentities and MergeDeviceSuffixedOwnChat, and whoever works   *)
(* on the same rows at the time.                                           *)
THEOREM IdentitySafeHolds == Spec => []IdentitySafe
<1>1. IdentityInv => NothingLeftBehind
  BY DEF IdentityInv, Undisturbed, NothingLeftBehind
<1>2. IdentityInv => IdentitySafe
  BY <1>1 DEF IdentityInv, IdentitySafe
<1>3. QED BY <1>2, IdentityInvHolds, PTL

(* What the sweep's last step, or anybody's, does to the number's row.     *)
LEMMA NumberKept ==
    ASSUME IdentityAssumption, IdentityInv, [Next]_vars, Exists("num")
    PROVE  /\ chat'["num"].cfg # chat["num"].cfg => Decide("num")
           /\ ~hist.raced => chat'["num"].ts >= chat["num"].ts
           /\ ~hist.raced /\ chat["num"].name # NoName => chat'["num"].name # NoName
<1> DEFINE Kept == /\ chat'["num"].cfg = chat["num"].cfg
                   /\ ~hist.raced => chat'["num"].ts >= chat["num"].ts
                   /\ ~hist.raced /\ chat["num"].name # NoName => chat'["num"].name # NoName
<1>0. /\ IdentityTypeOK /\ Sweeping /\ Jids = {"lid", "dev", "num"}
      /\ chat["num"] \in ChatRows /\ chat["num"].ts \in Int /\ RowShaped(chat["num"])
  BY DEF IdentityInv, IdentityTypeOK, ChatRows, Jids
<1>1. CASE chat'["num"] = chat["num"]
  BY <1>0, <1>1
<1>2. ASSUME NEW j \in Jids, Touches(j) PROVE Kept
  <2>1. CASE j = "num"
    BY <1>2, <2>1, TouchingEffect
  <2>2. CASE j # "num"
    <3>1. chat'["num"] = chat["num"]
      BY <1>2, <2>2, TouchingEffect
    <3>2. QED BY <1>0, <3>1
  <2>3. QED BY <2>1, <2>2
<1>3. ASSUME Merge PROVE Kept
  <2> DEFINE new == Merged(chat["num"], sweep.lid, sweep.num)
  <2>1. /\ new.cfg = chat["num"].cfg
        /\ sweep.num.ts = chat["num"].ts => new.ts >= chat["num"].ts
        /\ sweep.num.name = chat["num"].name /\ chat["num"].name # NoName => new.name # NoName
    <3>1. sweep.lid \in ChatRows /\ sweep.num \in ChatRows
      BY <1>0 DEF IdentityTypeOK
    <3>2. QED BY <1>0, <3>1, MergedRow
  <2>2. ~hist.raced => sweep.num.ts = chat["num"].ts /\ sweep.num.name = chat["num"].name
    BY <1>0, <1>3 DEF Merge, Sweeping
  <2>3. chat' = [chat EXCEPT !["num"] = new, !["lid"] = NoRow]
    BY <1>3 DEF Merge
  <2> HIDE DEF new
  <2>4. chat'["num"] = new
    BY <1>0, <2>3 DEF IdentityTypeOK
  <2>5. QED BY <2>1, <2>2, <2>4
<1>4. ASSUME Rekey PROVE Kept
  BY <1>4 DEF Rekey
<1>5. ASSUME NEW j \in Jids, Decide(j) PROVE Kept \/ Decide("num")
  <2>1. CASE j # "num"
    <3>1. chat'["num"] = chat["num"]
      BY <1>0, <1>5, <2>1 DEF Decide, IdentityTypeOK
    <3>2. QED BY <1>0, <3>1
  <2>2. QED BY <1>5, <2>1
<1>6. ASSUME Decide("num")
      PROVE  chat'["num"].ts = chat["num"].ts /\ chat'["num"].name = chat["num"].name
  BY <1>0, <1>6 DEF Decide, IdentityTypeOK, ChatRows
<1>7. ASSUME SyncContact PROVE Kept
  <2> DEFINE new == Touch(chat["num"], "agenda", 0)
  <2>1. /\ new.cfg = chat["num"].cfg /\ new.ts >= chat["num"].ts
        /\ chat["num"].name # NoName => new.name # NoName
    BY <1>0, TouchRow DEF Exists, IdentityAssumption
  <2>2. chat' = [chat EXCEPT !["num"] = new]
    BY <1>7 DEF SyncContact
  <2> HIDE DEF new
  <2>3. chat'["num"] = new
    BY <1>0, <2>2 DEF IdentityTypeOK
  <2>4. QED BY <2>1, <2>3
<1>8. ASSUME RepairChat PROVE Kept
  <2>1. chat'["num"] = chat["num"]
    BY <1>0, <1>8 DEF RepairChat, IdentityTypeOK
  <2>2. QED BY <1>0, <2>1
<1>9. UNCHANGED chat \/ Rekey \/ Merge \/ SyncContact \/ RepairChat
        \/ (\E j \in Jids : Touches(j)) \/ \E j \in Jids : Decide(j)
  BY StepKinds DEF Deliver, Insert, LearnNumber, Dispatch, Mark, SendReply, Meter, SweepBegin,
         SweepFails, ReadLID, ReadNumber, RepairMessages, Crash, vars
<1>10. Kept \/ Decide("num")
  <2>1. CASE UNCHANGED chat
    BY <1>0, <2>1
  <2> HIDE DEF Kept
  <2>2. QED BY <1>2, <1>3, <1>4, <1>5, <1>7, <1>8, <1>9, <2>1
<1>11. QED BY <1>0, <1>6, <1>10

(* "The number always wins": only the owner changes what the owner decided *)
(* about the number's chat, and no merge moves it back in time or blanks   *)
(* its name unless the row changed after mergeChat had read it.            *)
THEOREM NumberWinsHolds == Spec => NumberWins
<1>1. IdentityInv /\ [Next]_vars
        => [Exists("num") =>
              /\ chat'["num"].cfg # chat["num"].cfg => Decide("num")
              /\ ~hist.raced => chat'["num"].ts >= chat["num"].ts
              /\ ~hist.raced /\ chat["num"].name # NoName => chat'["num"].name # NoName]_vars
  BY IdentityAssumption, NumberKept
<1>2. QED BY <1>1, IdentityInvHolds, PTL DEF Spec, NumberWins

=============================================================================
