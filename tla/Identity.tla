------------------------------- MODULE Identity -------------------------------
(***************************************************************************)
(* One person under several names: a chat under the @lid WhatsApp hides    *)
(* the number behind, the number's own chat, and for the paired account a  *)
(* chat under the number with a device suffix.  The hourly sweep that      *)
(* merges the first into the second (store/reconcile.go, run by            *)
(* whatsmeow/identity_reconcile.go) and the repair that merges the third   *)
(* (store/chat.go), while messages arrive, agents answer, the outbox       *)
(* meters what it sent and attachments are downloaded.                     *)
(***************************************************************************)
EXTENDS Integers, FiniteSets

CONSTANTS
    NumMsgs,      \* messages of the person, numbered by their timestamp
    MaxSweeps, MaxCalls,  \* bounds
    MaxFaults             \* bound on redeliveries and crashes, together

Msgs == 1..NumMsgs

ASSUME IdentityAssumption ==
    /\ NumMsgs \in Nat \ {0}
    /\ {MaxSweeps, MaxCalls, MaxFaults} \subseteq Nat

VARIABLES
    chat,     \* chats: the row under each JID, or NoRow
    rows,     \* what the other tables hold under each JID, see Rows
    mapped,   \* whatsmeow knows the number behind the @lid
    inbound,  \* the pipeline: the message it is storing
    sweep,    \* reconcileIdentitiesSweepLoop
    repair,   \* MergeDeviceSuffixedOwnChat
    agent,    \* the agent's dispatch
    outbox,   \* the drain: JIDs of the replies it sent and has not metered
    hist      \* history, see History

vars == <<chat, rows, mapped, inbound, sweep, repair, agent, outbox, hist>>

Jids == {"lid", "dev", "num"}

(* cfg: everything the owner decides about a chat.  name: name and         *)
(* contact_name.                                                           *)
Row(name, ts, cfg) == [name |-> name, ts |-> ts, cfg |-> cfg]
NoName == "blank"
NoRow == Row(NoName, -1, "none")
ChatRows == [name : {NoName, "push", "agenda"}, ts : -1..NumMsgs, cfg : {"none", "default", "manual"}]

(* outbox: replies not sent yet, by the message they answer.               *)
Rows == [msgs : [Msgs -> {"no", "pending", "handled"}], outbox : SUBSET Msgs,
         usage : Nat]
NoRows == [msgs |-> [m \in Msgs |-> "no"], outbox |-> {}, usage |-> 0]

NoMsg == [pc |-> "idle", jid |-> "num", msg |-> 0]
Work(pcs) == [pc : {"idle"} \cup pcs, jid : Jids, msg : 0..NumMsgs]

NoSweep == [pc |-> "idle", lid |-> NoRow, num |-> NoRow]

(* echoed: delivered again under another name.  crossed: rows moved while somebody was *)
(* working on the @lid.  raced: the number's row changed while a merge     *)
(* held what it had read of it.                                            *)
History == [stored : SUBSET Msgs, answered : SUBSET Msgs, echoed : SUBSET Msgs,
            metered : Nat, crossed : BOOLEAN, raced : BOOLEAN, sweeps : 0..MaxSweeps,
            calls : 0..MaxCalls, crashes : 0..MaxFaults]

Exists(jid) == chat[jid] # NoRow
Has(jid, m) == rows[jid].msgs[m] # "no"

MayFail == Cardinality(hist.echoed) + hist.crashes < MaxFaults

(* Whatever works on the @lid's rows with its JID in hand.                 *)
OnLID ==
    \/ inbound.pc # "idle" /\ inbound.jid = "lid"
    \/ agent.pc # "idle" /\ agent.jid = "lid"
    \/ outbox["lid"] > 0

(* A write to the number's row that a merge under way does not see.        *)
Raced == hist.raced \/ sweep.pc = "merge"

-----------------------------------------------------------------------------
(* TouchChat: an upsert that never blanks the name nor moves last_ts back. *)
Touch(row, name, ts) ==
    IF row = NoRow THEN Row(name, ts, "default")
    ELSE [row EXCEPT !.name = IF name = NoName THEN @ ELSE name,
                     !.ts = IF ts > @ THEN ts ELSE @]

Touched(jid, name, ts) ==
    /\ chat' = [chat EXCEPT ![jid] = Touch(chat[jid], name, ts)]
    /\ hist' = [hist EXCEPT !.raced = IF jid = "num" THEN Raced ELSE @]

(* resolveChatJID: under the number when it is known.                      *)
Resolve(addressed) == IF addressed = "lid" /\ mapped THEN "num" ELSE addressed

(* A message reaches the pipeline, the next one or one that is stored      *)
(* already and comes again, under another name.                            *)
Deliver(m, addressed) ==
    /\ inbound.pc = "idle"
    /\ IF m \in hist.stored
       THEN /\ ~Has(Resolve(addressed), m)
            /\ m \notin hist.echoed /\ MayFail
            /\ hist' = [hist EXCEPT !.echoed = @ \cup {m}]
       ELSE 1..(m - 1) \subseteq hist.stored /\ UNCHANGED hist
    /\ inbound' = [pc |-> "touch", jid |-> Resolve(addressed), msg |-> m]
    /\ UNCHANGED <<chat, rows, mapped, sweep, repair, agent, outbox>>

(* AddMessage touches the chat, then inserts; handleInbound touches again. *)
TouchFirst ==
    /\ inbound.pc = "touch"
    /\ Touched(inbound.jid, NoName, inbound.msg)
    /\ inbound' = [inbound EXCEPT !.pc = "insert"]
    /\ UNCHANGED <<rows, mapped, sweep, repair, agent, outbox>>

Insert ==
    /\ inbound.pc = "insert"
    /\ LET m == inbound.msg IN
       /\ rows' = [rows EXCEPT ![inbound.jid].msgs[m] = IF @ = "no" THEN "pending" ELSE @]
       /\ hist' = [hist EXCEPT !.stored = @ \cup {m}]
    /\ inbound' = [inbound EXCEPT !.pc = "again"]
    /\ UNCHANGED <<chat, mapped, sweep, repair, agent, outbox>>

TouchAgain ==
    /\ inbound.pc = "again"
    /\ Touched(inbound.jid, "push", inbound.msg)
    /\ inbound' = NoMsg
    /\ UNCHANGED <<rows, mapped, sweep, repair, agent, outbox>>

(* whatsmeow learns the number.                                            *)
LearnNumber ==
    /\ ~mapped /\ mapped' = TRUE
    /\ UNCHANGED <<chat, rows, inbound, sweep, repair, agent, outbox, hist>>

-----------------------------------------------------------------------------
(* The agent                                                               *)

(* The dispatch is metered, then answered: queued, then marked.            *)
Dispatch(jid, m) ==
    /\ agent.pc = "idle"
    /\ Exists(jid) /\ rows[jid].msgs[m] = "pending"
    /\ agent' = [pc |-> "answer", jid |-> jid, msg |-> m]
    /\ rows' = [rows EXCEPT ![jid].usage = @ + 1]
    /\ hist' = [hist EXCEPT !.metered = @ + 1]
    /\ UNCHANGED <<chat, mapped, inbound, sweep, repair, outbox>>

(* send_message: a chat that is gone is created again.                     *)
Answer ==
    /\ agent.pc = "answer"
    /\ Touched(agent.jid, NoName, IF Exists(agent.jid) THEN 0 ELSE agent.msg)
    /\ rows' = [rows EXCEPT ![agent.jid].outbox = @ \cup {agent.msg}]
    /\ agent' = [agent EXCEPT !.pc = "mark"]
    /\ UNCHANGED <<mapped, inbound, sweep, repair, outbox>>

(* MarkHandledBefore *)
Mark ==
    /\ agent.pc = "mark"
    /\ LET msgs == rows[agent.jid].msgs IN
       rows' = [rows EXCEPT ![agent.jid].msgs = [m \in Msgs |->
                    IF msgs[m] = "pending" /\ m <= agent.msg THEN "handled" ELSE msgs[m]]]
    /\ hist' = [hist EXCEPT !.answered = @ \cup {agent.msg}]
    /\ agent' = NoMsg
    /\ UNCHANGED <<chat, mapped, inbound, sweep, repair, outbox>>

(* processOutbox sends a reply, and meters it under the JID it was read    *)
(* with.                                                                   *)
SendReply(jid, m) ==
    /\ m \in rows[jid].outbox
    /\ rows' = [rows EXCEPT ![jid].outbox = @ \ {m}]
    /\ outbox' = [outbox EXCEPT ![jid] = @ + 1]
    /\ UNCHANGED <<chat, mapped, inbound, sweep, repair, agent, hist>>

Meter(jid) ==
    /\ outbox[jid] > 0
    /\ outbox' = [outbox EXCEPT ![jid] = @ - 1]
    /\ rows' = [rows EXCEPT ![jid].usage = @ + 1]
    /\ hist' = [hist EXCEPT !.metered = @ + 1]
    /\ UNCHANGED <<chat, mapped, inbound, sweep, repair, agent>>

-----------------------------------------------------------------------------
(* The sweep                                                               *)

(* The chats are listed, the number resolved, and GetChat(number) decides. *)
SweepBegin ==
    /\ sweep.pc = "idle" /\ hist.sweeps < MaxSweeps
    /\ Exists("lid") /\ mapped
    /\ sweep' = [sweep EXCEPT !.pc = IF Exists("num") THEN "read" ELSE "rekey"]
    /\ hist' = [hist EXCEPT !.sweeps = @ + 1]
    /\ UNCHANGED <<chat, rows, mapped, inbound, repair, agent, outbox>>

(* Mutant of Moved: the @lid's messages move only if the number has none.  *)
MovedBlindly(lid, num) ==
    [num EXCEPT !.msgs = IF \E m \in Msgs : num.msgs[m] # "no" THEN @ ELSE lid.msgs,
                !.outbox = @ \cup lid.outbox, !.usage = @ + lid.usage]
(* dedupeBeforeRekey, the updates of rekeyReferencingRows, mergeUsageRows. *)
Moved(lid, num) ==
    [num EXCEPT !.msgs = [m \in Msgs |-> IF num.msgs[m] # "no" THEN num.msgs[m]
                                      ELSE lid.msgs[m]],
                !.outbox = @ \cup lid.outbox, !.usage = @ + lid.usage]

Remaining(lid) == NoRows

RowsMoved ==
    /\ rows' = [rows EXCEPT !["num"] = Moved(rows["lid"], rows["num"]),
                            !["lid"] = Remaining(rows["lid"])]
    /\ hist' = [hist EXCEPT !.crossed = @ \/ OnLID]

(* rekeyChat, one transaction; it fails if the number has a row by now.    *)
Rekey ==
    /\ sweep.pc = "rekey" /\ ~Exists("num")
    /\ chat' = [chat EXCEPT !["num"] = chat["lid"], !["lid"] = NoRow]
    /\ RowsMoved
    /\ sweep' = NoSweep
    /\ UNCHANGED <<mapped, inbound, repair, agent, outbox>>

(* Any statement of a pair's transaction may fail: it is rolled back and   *)
(* the next sweep tries again.                                             *)
SweepFails ==
    /\ sweep.pc # "idle"
    /\ sweep' = NoSweep
    /\ UNCHANGED <<chat, rows, mapped, inbound, repair, agent, outbox, hist>>

(* mergeChat reads both rows, then runs its transaction.                   *)
ReadLID ==
    /\ sweep.pc = "read"
    /\ sweep' = [sweep EXCEPT !.pc = "readNumber", !.lid = chat["lid"]]
    /\ UNCHANGED <<chat, rows, mapped, inbound, repair, agent, outbox, hist>>

ReadNumber ==
    /\ sweep.pc = "readNumber"
    /\ sweep' = [sweep EXCEPT !.pc = "merge", !.num = chat["num"]]
    /\ UNCHANGED <<chat, rows, mapped, inbound, repair, agent, outbox, hist>>

(* Mutant of Merged: the @lid's timestamp wins.                            *)
MergedTimestamp(row, lid, num) ==
    [row EXCEPT !.name = IF num.name = NoName THEN lid.name ELSE num.name, !.ts = lid.ts]
Merged(row, lid, num) ==
    [row EXCEPT !.name = IF num.name = NoName THEN lid.name ELSE num.name,
                !.ts = IF lid.ts > num.ts THEN lid.ts ELSE num.ts]

Merge ==
    /\ sweep.pc = "merge"
    /\ chat' = [chat EXCEPT !["num"] = Merged(chat["num"], sweep.lid, sweep.num),
                            !["lid"] = NoRow]
    /\ RowsMoved
    /\ sweep' = NoSweep
    /\ UNCHANGED <<mapped, inbound, repair, agent, outbox>>

-----------------------------------------------------------------------------
(* recordOwnIdentity on every connect: markOwner touches the number's      *)
(* chat, then the repair runs one statement at a time.                     *)
RepairBegin ==
    /\ repair = "idle" /\ Exists("dev")
    /\ Touched("num", "push", 0)
    /\ repair' = "messages"
    /\ UNCHANGED <<rows, mapped, inbound, sweep, agent, outbox>>

(* UPDATE OR IGNORE messages.                                              *)
RepairMessages ==
    /\ repair = "messages"
    /\ LET num == rows["num"].msgs
           dev == rows["dev"].msgs
       IN  rows' = [rows EXCEPT
                      !["num"].msgs = [m \in Msgs |-> IF num[m] # "no" THEN num[m] ELSE dev[m]],
                      !["dev"].msgs = [m \in Msgs |-> IF num[m] = "no" THEN "no" ELSE dev[m]]]
    /\ repair' = "chat"
    /\ UNCHANGED <<chat, mapped, inbound, sweep, agent, outbox, hist>>

RepairChat ==
    /\ repair = "chat"
    /\ chat' = [chat EXCEPT !["dev"] = NoRow]
    /\ repair' = "idle"
    /\ UNCHANGED <<rows, mapped, inbound, sweep, agent, outbox, hist>>

-----------------------------------------------------------------------------
(* The owner's decisions (module Chats has them one by one), and the       *)
(* contact sync: TouchChat, then SetContactName.                           *)
Decide(jid) ==
    /\ hist.calls < MaxCalls /\ Exists(jid)
    /\ chat' = [chat EXCEPT ![jid].cfg = "manual"]
    /\ hist' = [hist EXCEPT !.calls = @ + 1]
    /\ UNCHANGED <<rows, mapped, inbound, sweep, repair, agent, outbox>>

SyncContact ==
    /\ hist.calls < MaxCalls
    /\ chat' = [chat EXCEPT !["num"] = Touch(chat["num"], "agenda", 0)]
    /\ hist' = [hist EXCEPT !.calls = @ + 1, !.raced = Raced]
    /\ UNCHANGED <<rows, mapped, inbound, sweep, repair, agent, outbox>>

Crash ==
    /\ MayFail
    /\ inbound' = NoMsg /\ agent' = NoMsg
    /\ sweep' = NoSweep /\ repair' = "idle" /\ outbox' = [j \in Jids |-> 0]
    /\ hist' = [hist EXCEPT !.crashes = @ + 1]
    /\ UNCHANGED <<chat, rows, mapped>>

(* The chat with a device suffix is left from before T117, with a message; *)
(* it is the account's own, whose number whatsmeow knows.                  *)
Init ==
    /\ \E old \in BOOLEAN :
         /\ chat = [j \in Jids |-> IF old /\ j = "dev" THEN Row(NoName, 1, "default")
                                    ELSE NoRow]
         /\ rows = [j \in Jids |-> IF old /\ j = "dev" THEN [NoRows EXCEPT !.msgs[1] = "handled"]
                                   ELSE NoRows]
         /\ mapped = old
         /\ hist = [stored |-> IF old THEN {1} ELSE {}, answered |-> {}, echoed |-> {},
                    metered |-> 0, crossed |-> FALSE, raced |-> FALSE, sweeps |-> 0,
                    calls |-> 0, crashes |-> 0]
    /\ inbound = NoMsg /\ agent = NoMsg
    /\ sweep = NoSweep /\ repair = "idle" /\ outbox = [j \in Jids |-> 0]

Inbound == TouchFirst \/ Insert \/ TouchAgain
Agent == Answer \/ Mark \/ \E j \in Jids, m \in Msgs : Dispatch(j, m)
Sweep == SweepBegin \/ Rekey \/ SweepFails \/ ReadLID \/ ReadNumber \/ Merge
Repair == RepairBegin \/ RepairMessages \/ RepairChat
Outbox == \E j \in Jids : Meter(j) \/ \E m \in Msgs : SendReply(j, m)

Next ==
    \/ \E m \in Msgs, addressed \in {"lid", "num"} : Deliver(m, addressed)
    \/ Inbound \/ LearnNumber \/ Agent \/ Sweep \/ Repair \/ Outbox
    \/ SyncContact \/ (\E j \in Jids : Decide(j)) \/ Crash

Spec == Init /\ [][Next]_vars

-----------------------------------------------------------------------------
(* Properties                                                              *)

IdentityTypeOK ==
    /\ chat \in [Jids -> ChatRows] /\ rows \in [Jids -> Rows]
    /\ mapped \in BOOLEAN /\ repair \in {"idle", "messages", "chat"}
    /\ inbound \in Work({"touch", "insert", "again"})
    /\ agent \in Work({"answer", "mark"})
    /\ sweep \in [pc : {"idle", "rekey", "read", "readNumber", "merge"},
                  lid : ChatRows, num : ChatRows]
    /\ outbox \in [Jids -> Nat] /\ hist \in History

(* "Nothing lost": every message ever stored can be found under a chat     *)
(* that exists, however merges, the repair, redeliveries and crashes fall  *)
(* together, unless rows moved under somebody working on the @lid.         *)
Findable ==
    ~hist.crossed => \A m \in hist.stored : \E j \in Jids : Has(j, m) /\ Exists(j)

(* What was metered stays metered, whichever name it is under: the daily   *)
(* quota of the anti-ban brake reads the sum.                              *)
UsageConserved == rows["lid"].usage + rows["dev"].usage + rows["num"].usage = hist.metered

(* "The number always wins": what the owner decided about the number's     *)
(* chat is changed by nobody else, and no merge moves it back in time or   *)
(* blanks its name, unless the row changed after the merge had read it.    *)
NumberWins ==
    [][Exists("num") =>
          /\ chat'["num"].cfg # chat["num"].cfg => Decide("num")
          /\ ~hist.raced => chat'["num"].ts >= chat["num"].ts
          /\ ~hist.raced /\ chat["num"].name # NoName => chat'["num"].name # NoName]_vars

(* An answered message is not offered again after a merge, unless it was   *)
(* delivered again under another name, or merged while its dispatch was     *)
(* open.                                                                   *)
AnsweredStaysHandled ==
    ~hist.crossed => \A m \in hist.answered \ hist.echoed, j \in Jids : rows[j].msgs[m] # "pending"

(* A merge leaves no message, reply or usage under a JID that has no chat, *)
(* unless somebody was working on it.                                     *)
NothingLeftBehind ==
    ~Exists("lid") /\ ~hist.crossed /\ ~OnLID => rows["lid"] = NoRows

(* Renaming and merging lose nothing, count nothing twice and bring        *)
(* nothing back.                                                           *)
IdentitySafe ==
    /\ IdentityTypeOK /\ Findable /\ UsageConserved
    /\ AnsweredStaysHandled /\ NothingLeftBehind
=============================================================================
