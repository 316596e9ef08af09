--------------------------- MODULE Replies_proofs ---------------------------
(***************************************************************************)
(* Theorems about what becomes of a reply: held as a draft (Drafts), and   *)
(* drained to WhatsApp (Outbox); for any number of chats, messages and     *)
(* drafts.                                                                 *)
(***************************************************************************)
EXTENDS Drafts, Outbox, FiniteSetTheorems, WellFoundedInduction, TLAPS

-----------------------------------------------------------------------------
(***************************************************************************)
(* Held drafts                                                             *)
(***************************************************************************)

-----------------------------------------------------------------------------
(* The inductive invariant                                                 *)

(* Ids are given in order, so the table has no holes and a newest row.     *)
InOrder ==
    /\ \A d \in Existing, e \in Drafts : e < d => e \in Existing
    /\ Existing # {} => \E n \in Existing : \A e \in Existing : e <= n

(* A handler in flight is at a row of the table, an approver's if it       *)
(* approves.                                                               *)
Loaded ==
    \A c \in Callers : caller[c].pc # "idle" =>
        /\ caller[c].d \in Existing
        /\ caller[c].pc \in {"enqueue", "approve", "close"} => c \in Approvers

BoxIInv == DraftsTypeOK /\ InOrder /\ Loaded

(* The tool about to close its dispatch just held the chat's newest draft. *)
AgentAtMark ==
    agent.pc = "mark" =>
        /\ Existing # {}
        /\ draft[Newest(Existing)].burst = agent.burst
        /\ Stands(Newest(Existing))

(* The tool about to hold a draft read the round of a rejected one.        *)
AgentAtInsert ==
    agent.pc = "insert" /\ agent.round > 1 =>
        /\ Existing # {}
        /\ draft[Newest(Existing)].round = agent.round - 1
        /\ draft[Newest(Existing)].status \in {"rejected", "approved"}

(* Whoever is about to close a burst has queued its reply.                 *)
ClosersSent ==
    \A c \in Callers : caller[c].pc \in {"approve", "close"} => copies[caller[c].d] > 0

(* An approval that holds a text older than the draft's edit was in flight *)
(* when the edit was made, and a draft that was queued and still waits is  *)
(* about to be marked.                                                     *)
OldTexts ==
    /\ \A c \in Callers : caller[c].pc = "enqueue" /\ caller[c].old
          /\ draft[caller[c].d].edited => caller[c].d \in past.raced
    /\ \A d \in past.sentOld : draft[d].status \in {"none", "pending"} =>
          d \in past.torn \/ \E c \in Callers : caller[c].pc = "approve" /\ caller[c].d = d

(* Approvers at a statement of the approval of d.                          *)
At(pc, d) == {c \in Approvers : caller[c].pc = pc /\ caller[c].d = d}

(* Each approver of this run of the process has queued d, or may still, at *)
(* most once.                                                              *)
CopiesCounted ==
    LET all == Cardinality(Approvers)
    IN  \A d \in Drafts :
          CASE draft[d].status = "none" -> copies[d] = 0
            [] draft[d].status = "pending" ->
                 copies[d] <= all * past.crashes + Cardinality(At("approve", d))
            [] OTHER ->
                 copies[d] + Cardinality(At("enqueue", d)) <= all * past.crashes + all

DraftsIInv ==
    /\ BoxIInv /\ AgentAtMark /\ AgentAtInsert /\ ClosersSent /\ OldTexts
    /\ CopiesCounted /\ EditHonoured /\ HandledIsCovered /\ RoundsChain

-----------------------------------------------------------------------------
(* Lemmas                                                                  *)

(* A table with rows has a newest one.                                     *)
LEMMA NewestIs ==
    ASSUME InOrder, Existing # {}
    PROVE  Newest(Existing) \in Existing /\ \A e \in Existing : e <= Newest(Existing)
BY DEF InOrder, Newest

(* The row a draft takes is the newest of the table from then on.          *)
LEMMA NewestAdded ==
    ASSUME DraftsAssumption, BoxIInv, NEW d \in Drafts, AddDraft(d)
    PROVE  /\ Existing' = Existing \cup {d}
           /\ \A e \in Existing : e < d
           /\ Newest(Existing') = d
<1> USE DraftsAssumption DEF DraftsAssumption, DraftsTypeOK
<1>1. draft' = [draft EXCEPT ![d] = [status |-> "pending", burst |-> agent.burst,
                                     round |-> agent.round, edited |-> FALSE]]
  BY DEF AddDraft
<1>2. Existing' = Existing \cup {d}
  BY <1>1 DEF Existing, BoxIInv
<1>3. \A e \in Existing : e < d
  <2> SUFFICES ASSUME NEW e \in Existing PROVE e < d
    OBVIOUS
  <2>1. e \in Drafts /\ e \in Nat /\ d \in Nat /\ e # d
    BY DEF AddDraft, Existing
  <2>2. ~(d < e)
    BY <2>1 DEF AddDraft, BoxIInv, InOrder
  <2>3. QED BY <2>1, <2>2
<1>4. d \in Existing' /\ \A y \in Existing' : y \in Nat /\ y <= d
  <2>1. d \in Nat /\ \A y \in Existing : y \in Nat
    BY DEF Existing
  <2> HIDE DEF DraftsTypeOK
  <2>2. QED BY <1>2, <1>3, <2>1
<1>5. Newest(Existing') = d
  <2>1. \A x \in Existing' : (\A y \in Existing' : y <= x) => x = d
    BY <1>4
  <2>2. QED BY <1>4, <2>1 DEF Newest
<1>6. QED BY <1>2, <1>3, <1>5

-----------------------------------------------------------------------------
(* The table is a DraftBox                                                 *)

LEMMA BoxIInvInit == ASSUME DraftsAssumption, DraftsInit PROVE BoxIInv
<1> USE DraftsAssumption DEF DraftsAssumption, DraftsInit
<1>1. DraftsTypeOK
  BY DEF DraftsTypeOK, NoRow, DraftRow, Statuses, IdleAgent, Agent, NoCaller, Call,
         DraftsHistory
<1>2. Existing = {}
  BY DEF Existing, NoRow
<1>3. QED BY <1>1, <1>2 DEF BoxIInv, InOrder, Loaded, NoCaller

(* A row keeps its place in the table whatever is written in its fields.   *)
LEMMA FieldsOnly ==
    ASSUME DraftsTypeOK, NEW d \in Existing, NEW r \in DraftRow,
           r.status # "none", draft' = [draft EXCEPT ![d] = r]
    PROVE  Existing' = Existing /\ draft' \in [Drafts -> DraftRow]
BY DEF DraftsTypeOK, Existing, DraftRow

(* Every step keeps every variable in its type, and the handlers in flight *)
(* at rows of the table.                                                   *)
LEMMA BoxIInvStep ==
    ASSUME DraftsAssumption, BoxIInv, [DraftsNext]_draftsVars PROVE BoxIInv'
<1> USE DraftsAssumption DEF DraftsAssumption, BoxIInv, DraftsTypeOK
<1> DEFINE TheRest == DraftsTypeOK' /\ Loaded'
<1>1. ASSUME NEW m \in Messages, Arrive(m)
      PROVE  Existing' = Existing /\ TheRest
  BY <1>1 DEF Arrive, Existing, Loaded
<1>2. ASSUME AgentStep
      PROVE  InOrder' /\ TheRest
  <2>1. ASSUME NEW s \in Speakers, Dispatch(s)
        PROVE  Existing' = Existing /\ TheRest
    BY <2>1 DEF Dispatch, Unanswered, IdleAgent, Agent, Existing, Loaded
  <2>2. ASSUME GiveUp
        PROVE  Existing' = Existing /\ TheRest
    BY <2>2 DEF GiveUp, IdleAgent, Agent, Existing, Loaded
  <2>3. ASSUME ReadRound
        PROVE  Existing' = Existing /\ TheRest
    <3>1. Existing # {} => draft[Newest(Existing)] \in DraftRow
      BY NewestIs DEF Existing
    <3>2. NextRound \in Nat
      BY <3>1 DEF NextRound, DraftRow
    <3>3. QED BY <2>3, <3>2 DEF ReadRound, Agent, Existing, Loaded
  <2>4. ASSUME CloseDispatch
        PROVE  Existing' = Existing /\ TheRest
    BY <2>4 DEF CloseDispatch, Closed, IdleAgent, Agent, Existing, Loaded
  <2>5. ASSUME NEW d \in Drafts, AddDraft(d)
        PROVE  InOrder' /\ TheRest
    <3>1. /\ Existing' = Existing \cup {d}
          /\ \A e \in Existing : e < d
      BY <2>5, NewestAdded
    <3>2. InOrder'
      BY <2>5, <3>1 DEF InOrder, AddDraft, Existing
    <3>3. DraftsTypeOK'
      BY <2>5 DEF AddDraft, DraftRow, Statuses, Agent
    <3>4. QED BY <2>5, <3>1, <3>2, <3>3 DEF Loaded, AddDraft
  <2>6. QED BY <1>2, <2>1, <2>2, <2>3, <2>4, <2>5 DEF AgentStep, InOrder
<1>3. ASSUME NEW c \in Callers, CallerStep(c)
      PROVE  Existing' = Existing /\ TheRest
  <2>1. CASE EnqueueApproved(c)
    <3>1. /\ caller[c].d \in Drafts
          /\ past' = [past EXCEPT !.sentOld = IF caller[c].old
                                              THEN @ \cup {caller[c].d} ELSE @]
      BY <2>1 DEF EnqueueApproved, Loaded, Existing
    <3>2. past' \in DraftsHistory
      BY <3>1 DEF DraftsHistory
    <3>3. QED BY <2>1, <3>2 DEF EnqueueApproved, Call, Loaded, Existing
  <2>2. CASE MarkApproved(c)
    <3> DEFINE r == [draft[caller[c].d] EXCEPT !.status = "approved"]
    <3>1. caller[c].d \in Existing /\ r \in DraftRow /\ r.status # "none"
      BY <2>2 DEF MarkApproved, Loaded, DraftRow, Statuses, Existing
    <3>2. Existing' = Existing /\ draft' \in [Drafts -> DraftRow]
      BY <2>2, <3>1, FieldsOnly DEF MarkApproved
    <3>3. QED BY <2>2, <3>2 DEF MarkApproved, Call, Loaded
  <2>3. CASE CloseApproved(c)
    BY <2>3 DEF CloseApproved, Closed, NoCaller, Call, Loaded, Existing
  <2>4. CASE MarkRejected(c)
    <3> DEFINE r == RejectedRow(draft[caller[c].d])
    <3>1. caller[c].d \in Existing /\ r \in DraftRow /\ r.status # "none"
      BY <2>4 DEF MarkRejected, RejectedRow, Loaded, DraftRow, Statuses, Existing
    <3>2. Existing' = Existing /\ draft' \in [Drafts -> DraftRow]
      BY <2>4, <3>1, FieldsOnly DEF MarkRejected
    <3>3. QED BY <2>4, <3>2 DEF MarkRejected, NoCaller, Call, Loaded
  <2>5. CASE ReopenRejected(c)
    BY <2>5 DEF ReopenRejected, Reopened, NoCaller, Call, DraftsHistory, Loaded, Existing
  <2>6. QED BY <1>3, <2>1, <2>2, <2>3, <2>4, <2>5 DEF CallerStep
<1>4. ASSUME NEW c \in Callers, NEW d \in Drafts, NEW o \in BOOLEAN, Approve(c, d, o)
      PROVE  Existing' = Existing /\ TheRest
  <2>1. (~o /\ ~draft[d].edited) \in BOOLEAN
    OBVIOUS
  <2>2. QED BY <1>4, <2>1 DEF Approve, Call, Loaded, Existing
<1>5. ASSUME NEW c \in Callers, NEW d \in Drafts, Reject(c, d)
      PROVE  Existing' = Existing /\ TheRest
  BY <1>5 DEF Reject, Call, Loaded, Existing
<1>6. ASSUME NEW d \in Drafts, Discard(d)
      PROVE  Existing' = Existing /\ TheRest
  <2> DEFINE r == [draft[d] EXCEPT !.status = "discarded"]
  <2>1. d \in Existing /\ r \in DraftRow /\ r.status # "none"
    BY <1>6 DEF Discard, DraftRow, Statuses, Existing
  <2>2. Existing' = Existing /\ draft' \in [Drafts -> DraftRow]
    BY <1>6, <2>1, FieldsOnly DEF Discard
  <2>3. QED BY <1>6, <2>2 DEF Discard, Loaded
<1>7. ASSUME NEW d \in Drafts, Edit(d)
      PROVE  Existing' = Existing /\ TheRest
  <2> DEFINE r == [draft[d] EXCEPT !.edited = TRUE]
  <2>1. d \in Existing /\ r \in DraftRow /\ r.status # "none"
    BY <1>7 DEF Edit, DraftRow, Statuses, Existing
  <2>2. Existing' = Existing /\ draft' \in [Drafts -> DraftRow]
    BY <1>7, <2>1, FieldsOnly DEF Edit
  <2>3. QED BY <1>7, <2>2 DEF Edit, DraftsHistory, Loaded
<1>8. ASSUME Crash
      PROVE  Existing' = Existing /\ TheRest
  <2>1. \A k \in Callers : caller[k].pc # "idle" => caller[k].d \in Drafts
    BY DEF Loaded, Existing
  <2>2. past' \in DraftsHistory
    <3> DEFINE lost == {caller[c].d : c \in {k \in Callers :
                                        caller[k].pc \in {"approve", "reopen"}}}
    <3>1. lost \in SUBSET Drafts
      BY <2>1
    <3>2. /\ past.crashes + 1 \in 0..MaxCrashes
          /\ past' = [past EXCEPT !.crashes = @ + 1, !.torn = @ \cup lost]
      BY <1>8 DEF Crash, DraftsHistory
    <3> HIDE DEF lost
    <3>3. QED BY <3>1, <3>2 DEF DraftsHistory
  <2>3. QED BY <1>8, <2>2 DEF Crash, IdleAgent, Agent, NoCaller, Call, Loaded, Existing
<1>9. CASE UNCHANGED draftsVars
  BY <1>9 DEF draftsVars, InOrder, Existing, Loaded
<1>10. QED
  BY <1>1, <1>2, <1>3, <1>4, <1>5, <1>6, <1>7, <1>8, <1>9 DEF DraftsNext, InOrder

(* Every step is one of the box, or none.                                  *)
LEMMA BoxStep ==
    ASSUME DraftsAssumption, BoxIInv, [DraftsNext]_draftsVars
    PROVE  [Box!BoxNext]_(Box!boxVars)
<1> USE DraftsAssumption DEF DraftsAssumption, BoxIInv, DraftsTypeOK
<1> DEFINE Idle == UNCHANGED <<BoxOf, LooksOf, copies>>
<1>1. ASSUME NEW c \in Callers, caller[c].pc # "idle"
      PROVE  caller[c].d \in Drafts /\ draft[caller[c].d].status # "none"
  BY <1>1 DEF Loaded, Existing
<1>2. ASSUME NEW d \in Drafts, draft[d].status # "none",
             \E r \in DraftRow : /\ r.status \in {"approved", "discarded", "rejected"}
                                 /\ draft' = [draft EXCEPT ![d] = r],
             LooksOf' = LooksOf, copies' = copies
      PROVE  Box!Decide(d)
  <2>1. BoxOf' = [BoxOf EXCEPT ![d] = "decided"] /\ BoxOf[d] # "none"
    BY <1>2 DEF BoxOf
  <2>2. QED BY <1>2, <2>1 DEF Box!Decide
<1>3. ASSUME AgentStep, ~\E d \in Drafts : AddDraft(d)
      PROVE  Idle
  <2>1. UNCHANGED <<draft, copies, caller>>
    BY <1>3 DEF AgentStep, Dispatch, GiveUp, ReadRound, CloseDispatch
  <2>2. QED BY <2>1 DEF BoxOf, LooksOf
<1>4. ASSUME NEW d \in Drafts, AddDraft(d)
      PROVE  Box!Hold(d)
  BY <1>4 DEF AddDraft, Existing, BoxOf, LooksOf, Box!Hold
<1>5. ASSUME NEW c \in Callers, NEW d \in Drafts, NEW o \in BOOLEAN, Approve(c, d, o)
      PROVE  Box!Look(c, d)
  <2>1. LooksOf' = LooksOf \cup {<<c, d>>}
    BY <1>5 DEF Approve, LooksOf
  <2>2. QED BY <1>5, <2>1 DEF Approve, LooksOf, BoxOf, Box!Look
<1>6. ASSUME NEW c \in Callers, EnqueueApproved(c)
      PROVE  Box!Send(c, caller[c].d)
  <2>1. LooksOf' = LooksOf \ {<<c, caller[c].d>>}
    BY <1>6 DEF EnqueueApproved, LooksOf
  <2>2. QED BY <1>6, <2>1 DEF EnqueueApproved, LooksOf, BoxOf, Box!Send
<1>7. ASSUME NEW c \in Callers, MarkApproved(c)
      PROVE  Box!Decide(caller[c].d)
  <2>1. LooksOf' = LooksOf
    BY <1>7 DEF MarkApproved, LooksOf
  <2>2. [draft[caller[c].d] EXCEPT !.status = "approved"] \in DraftRow
    BY <1>1, <1>7 DEF MarkApproved, DraftRow, Statuses
  <2>3. QED BY <1>1, <1>2, <1>7, <2>1, <2>2 DEF MarkApproved, DraftRow
<1>8. ASSUME NEW c \in Callers, MarkRejected(c)
      PROVE  Box!Decide(caller[c].d)
  <2>1. LooksOf' = LooksOf
    BY <1>8 DEF MarkRejected, NoCaller, LooksOf
  <2>2. RejectedRow(draft[caller[c].d]) \in DraftRow
    BY <1>1, <1>8 DEF MarkRejected, RejectedRow, DraftRow, Statuses
  <2>3. QED BY <1>1, <1>2, <1>8, <2>1, <2>2 DEF MarkRejected, RejectedRow, DraftRow
<1>9. ASSUME NEW c \in Callers, CloseApproved(c) \/ ReopenRejected(c)
      PROVE  Idle
  BY <1>9 DEF CloseApproved, ReopenRejected, NoCaller, BoxOf, LooksOf
<1>10. ASSUME NEW c \in Callers, NEW d \in Drafts, Reject(c, d)
       PROVE  Idle
  BY <1>10 DEF Reject, BoxOf, LooksOf
<1>11. ASSUME NEW d \in Drafts, Discard(d)
       PROVE  Box!Decide(d)
  <2>1. LooksOf' = LooksOf
    BY <1>11 DEF Discard, LooksOf
  <2>2. [draft[d] EXCEPT !.status = "discarded"] \in DraftRow
    BY DEF DraftRow, Statuses
  <2>3. QED BY <1>2, <1>11, <2>1, <2>2 DEF Discard, DraftRow
<1>12. ASSUME NEW d \in Drafts, Edit(d)
       PROVE  Idle
  BY <1>12 DEF Edit, DraftRow, BoxOf, LooksOf
<1>13. ASSUME Crash
       PROVE  Box!Forget
  BY <1>13 DEF Crash, NoCaller, BoxOf, LooksOf, Box!Forget
<1>14. ASSUME NEW m \in Messages, Arrive(m)
       PROVE  Idle
  BY <1>14 DEF Arrive, BoxOf, LooksOf
<1>15. CASE UNCHANGED draftsVars
  BY <1>15 DEF draftsVars, BoxOf, LooksOf, Box!boxVars
<1>16. ASSUME \/ Idle
              \/ \E d \in Drafts : Box!Hold(d) \/ Box!Decide(d)
              \/ \E c \in Callers, d \in Drafts : Box!Look(c, d) \/ Box!Send(c, d)
              \/ Box!Forget
       PROVE  [Box!BoxNext]_(Box!boxVars)
  BY <1>16 DEF Box!BoxNext, Box!boxVars
<1>17. ASSUME NEW c \in Callers, CallerStep(c)
       PROVE  [Box!BoxNext]_(Box!boxVars)
  <2>1. caller[c].d \in Drafts
    BY <1>1, <1>17 DEF CallerStep, EnqueueApproved, MarkApproved, CloseApproved,
                       MarkRejected, ReopenRejected
  <2>2. QED BY <1>6, <1>7, <1>8, <1>9, <1>16, <1>17, <2>1 DEF CallerStep
<1>18. QED
  BY <1>3, <1>4, <1>5, <1>10, <1>11, <1>12, <1>13, <1>14, <1>15, <1>16, <1>17
     DEF DraftsNext, AgentStep

(* The table has its type and its order, and the handlers are at its rows. *)
THEOREM BoxIInvHolds == DraftsSpec => []BoxIInv
BY DraftsAssumption, BoxIInvInit, BoxIInvStep, PTL DEF DraftsSpec

(* The drafts table keeps the promise of DraftBox: a copy leaves only with *)
(* a caller that saw the draft waiting, one for each look, and what was    *)
(* decided never waits again, whatever runs between the statements of the  *)
(* handlers.                                                               *)
THEOREM ImplementsBoxHolds == DraftsSpec => ImplementsBox
<1>1. DraftsInit => Box!BoxInit
  BY DEF DraftsInit, NoRow, NoCaller, BoxOf, LooksOf, Box!BoxInit
<1>2. BoxIInv /\ [DraftsNext]_draftsVars => [Box!BoxNext]_(Box!boxVars)
  BY DraftsAssumption, BoxStep
<1>3. QED BY <1>1, <1>2, BoxIInvHolds, PTL DEF DraftsSpec, ImplementsBox, Box!BoxSpec

-----------------------------------------------------------------------------
(* What is closed is answered, and rounds are counted                      *)

(* Which statements write what.                                            *)
LEMMA Writers ==
    ASSUME [DraftsNext]_draftsVars
    PROVE  /\ \/ draft' = draft
              \/ \E d \in Drafts : AddDraft(d) \/ Discard(d) \/ Edit(d)
              \/ \E c \in Callers : MarkApproved(c) \/ MarkRejected(c)
           /\ \/ copies' = copies
              \/ \E c \in Callers : EnqueueApproved(c)
           /\ \/ msg' = msg
              \/ CloseDispatch
              \/ \E m \in Messages : Arrive(m)
              \/ \E c \in Callers : CloseApproved(c) \/ ReopenRejected(c)
           /\ \/ past' = past
              \/ Crash
              \/ \E d \in Drafts : Edit(d)
              \/ \E c \in Callers : EnqueueApproved(c) \/ ReopenRejected(c)
           /\ \/ caller' = caller
              \/ Crash
              \/ \E c \in Callers : CallerStep(c)
              \/ \E c \in Callers, d \in Drafts : Reject(c, d)
              \/ \E c \in Callers, d \in Drafts, o \in BOOLEAN : Approve(c, d, o)
           /\ \/ agent' = agent
              \/ AgentStep
              \/ Crash
<1> USE DEF Arrive, Dispatch, GiveUp, ReadRound, AddDraft, CloseDispatch,
            EnqueueApproved, MarkApproved, CloseApproved, MarkRejected, ReopenRejected,
            Approve, Reject, Discard, Edit, Crash
<1>1. CASE UNCHANGED draftsVars
  BY <1>1 DEF draftsVars
<1>2. CASE \E m \in Messages : Arrive(m)
  BY <1>2
<1>3. CASE AgentStep
  BY <1>3 DEF AgentStep
<1>4. CASE \E c \in Callers : CallerStep(c)
  BY <1>4 DEF CallerStep
<1>5. CASE \E c \in Callers, d \in Drafts, o \in BOOLEAN : Approve(c, d, o)
  BY <1>5
<1>6. CASE \E c \in Callers, d \in Drafts : Reject(c, d)
  BY <1>6
<1>7. CASE \E d \in Drafts : Discard(d) \/ Edit(d)
  BY <1>7
<1>8. CASE Crash
  BY <1>8
<1>9. QED BY <1>1, <1>2, <1>3, <1>4, <1>5, <1>6, <1>7, <1>8 DEF DraftsNext

(* What a step leaves of a row: its burst, its round, its decision.        *)
LEMMA RowKept ==
    ASSUME DraftsAssumption, BoxIInv, [DraftsNext]_draftsVars, NEW d \in Existing
    PROVE  /\ d \in Existing'
           /\ draft'[d].burst = draft[d].burst /\ draft'[d].round = draft[d].round
           /\ draft[d].status \in {"rejected", "approved"} =>
                draft'[d].status \in {"rejected", "approved"}
<1> USE DraftsAssumption DEF DraftsAssumption, BoxIInv, DraftsTypeOK, Existing, DraftRow
<1>1. CASE draft' = draft
  BY <1>1
<1>2. ASSUME NEW e \in Drafts, AddDraft(e)
      PROVE  draft'[d] = draft[d]
  BY <1>2 DEF AddDraft
<1>3. ASSUME NEW c \in Callers, MarkApproved(c)
      PROVE  draft'[d] \in {draft[d], [draft[d] EXCEPT !.status = "approved"]}
  BY <1>3 DEF MarkApproved, Loaded
<1>4. ASSUME NEW c \in Callers, MarkRejected(c)
      PROVE  draft'[d] \in {draft[d], [draft[d] EXCEPT !.status = "rejected"]}
  BY <1>4 DEF MarkRejected, RejectedRow, Loaded
<1>5. ASSUME NEW e \in Drafts, Discard(e)
      PROVE  \/ draft'[d] = draft[d]
             \/ /\ draft[d].status = "pending"
                /\ draft'[d] = [draft[d] EXCEPT !.status = "discarded"]
  BY <1>5 DEF Discard
<1>6. ASSUME NEW e \in Drafts, Edit(e)
      PROVE  draft'[d] \in {draft[d], [draft[d] EXCEPT !.edited = TRUE]}
  BY <1>6 DEF Edit
<1>7. QED BY <1>1, <1>2, <1>3, <1>4, <1>5, <1>6, Writers

(* A draft stands until somebody has reopened its messages.                *)
LEMMA StandsStays ==
    ASSUME DraftsAssumption, BoxIInv, [DraftsNext]_draftsVars,
           NEW d \in Existing, Stands(d),
           ~\E c \in Callers : ReopenRejected(c) /\ caller[c].d = d
    PROVE  Stands(d)'
<1> USE DraftsAssumption DEF DraftsAssumption, BoxIInv, DraftsTypeOK
<1>1. DraftsTypeOK' /\ d \in Existing' /\ draft'[d].round = draft[d].round
  BY BoxIInvStep, RowKept
<1>2. copies[d] > 0 => copies'[d] > 0
  BY Writers DEF EnqueueApproved, Loaded, Existing
<1>3. d \in past.torn \cup past.early => d \in past'.torn \cup past'.early
  <2>1. CASE Crash
    BY <2>1 DEF Crash, DraftsHistory
  <2>2. CASE \E e \in Drafts : Edit(e)
    BY <2>2 DEF Edit, DraftsHistory
  <2>3. CASE \E c \in Callers : EnqueueApproved(c) \/ ReopenRejected(c)
    BY <2>3 DEF EnqueueApproved, ReopenRejected, DraftsHistory
  <2>4. QED BY <2>1, <2>2, <2>3, Writers
<1>4. ASSUME NEW c \in Callers, caller[c].pc = "reopen", caller[c].d = d
      PROVE  caller'[c] = caller[c] \/ d \in past'.torn
  <2>1. CASE Crash
    BY <1>4, <2>1 DEF Crash, DraftsHistory
  <2>2. ASSUME NEW k \in Callers, CallerStep(k)
        PROVE  caller'[c] = caller[c]
    BY <1>4, <2>2 DEF CallerStep, EnqueueApproved, MarkApproved, CloseApproved,
                      MarkRejected, ReopenRejected
  <2>3. ASSUME NEW k \in Callers, NEW e \in Drafts, NEW o \in BOOLEAN,
               Approve(k, e, o) \/ Reject(k, e)
        PROVE  caller'[c] = caller[c]
    BY <1>4, <2>3 DEF Approve, Reject
  <2> HIDE DEF BoxIInv, DraftsTypeOK
  <2>4. \/ caller' = caller
        \/ Crash
        \/ \E k \in Callers : CallerStep(k)
        \/ \E k \in Callers, e \in Drafts : Reject(k, e)
        \/ \E k \in Callers, e \in Drafts, o \in BOOLEAN : Approve(k, e, o)
    BY Writers
  <2>5. QED BY <2>1, <2>2, <2>3, <2>4
<1>5. ASSUME draft[d].status # "rejected", draft'[d].status = "rejected"
      PROVE  \/ draft[d].round >= MaxRounds
             \/ \E c \in Callers : caller'[c].pc = "reopen" /\ caller'[c].d = d
  <2>1. PICK c \in Callers : MarkRejected(c)
    <3>1. ASSUME NEW e \in Drafts, AddDraft(e) \/ Discard(e) \/ Edit(e)
          PROVE  draft'[d].status # "rejected"
      BY <1>5, <3>1 DEF AddDraft, Discard, Edit, DraftRow, Existing
    <3>2. ASSUME NEW c \in Callers, MarkApproved(c)
          PROVE  draft'[d].status # "rejected"
      BY <1>5, <3>2 DEF MarkApproved, DraftRow, Existing, Loaded
    <3>3. QED BY <1>5, <3>1, <3>2, Writers
  <2>2. caller[c].d = d
    BY <1>5, <2>1 DEF MarkRejected, Existing
  <2>3. QED BY <2>1, <2>2 DEF MarkRejected, AtCap, Call
<1>6. draft'[d].status \in {"pending", "approved", "discarded", "rejected"}
  BY <1>1 DEF Existing, DraftRow, Statuses
<1>7. QED BY <1>1, <1>2, <1>3, <1>4, <1>5, <1>6 DEF Stands

(* Where each step of the agent leaves it.                                 *)
LEMMA AgentMoves ==
    ASSUME DraftsTypeOK
    PROVE  /\ \A s \in Speakers : Dispatch(s) => agent'.pc = "open"
           /\ ReadRound => agent'.pc = "insert"
           /\ \A d \in Drafts : AddDraft(d) => agent'.pc = "mark"
           /\ GiveUp \/ CloseDispatch \/ Crash => agent'.pc = "idle"
<1> USE DEF DraftsTypeOK, Agent, IdleAgent
<1>1. \A s \in Speakers : Dispatch(s) => agent'.pc = "open"
  BY DEF Dispatch
<1>2. ReadRound => agent'.pc = "insert"
  BY DEF ReadRound
<1>3. \A d \in Drafts : AddDraft(d) => agent'.pc = "mark"
  BY DEF AddDraft
<1>4. GiveUp \/ CloseDispatch \/ Crash => agent'.pc = "idle"
  BY DEF GiveUp, CloseDispatch, Crash
<1>5. QED BY <1>1, <1>2, <1>3, <1>4

LEMMA RowsStay ==
    ASSUME DraftsAssumption, BoxIInv, [DraftsNext]_draftsVars,
           ~\E d \in Drafts : AddDraft(d)
    PROVE  Existing' = Existing
<1> USE DraftsAssumption DEF BoxIInv, DraftsTypeOK
<1>1. Existing \subseteq Existing'
  BY RowKept
<1>2. ASSUME NEW d \in Drafts, draft[d].status = "none"
      PROVE  draft'[d].status = "none"
  BY <1>2, Writers DEF MarkApproved, MarkRejected, Discard, Edit, Existing, Loaded
<1>3. QED BY <1>1, <1>2 DEF Existing

LEMMA AgentAtMarkStep ==
    ASSUME DraftsAssumption, BoxIInv, AgentAtMark, [DraftsNext]_draftsVars
    PROVE  AgentAtMark'
<1> USE DraftsAssumption DEF BoxIInv
<1>1. ASSUME NEW d \in Drafts, AddDraft(d)
      PROVE  AgentAtMark'
  <2>1. Existing' = Existing \cup {d} /\ Newest(Existing)' = d
    BY <1>1, NewestAdded
  <2>2. draft'[d].burst = agent.burst /\ draft'[d].status = "pending"
        /\ agent'.burst = agent.burst
    BY <1>1 DEF AddDraft, DraftsTypeOK, Agent
  <2>3. QED BY <2>1, <2>2 DEF AgentAtMark, Stands
<1>2. ASSUME ~\E d \in Drafts : AddDraft(d), agent'.pc = "mark"
      PROVE  agent' = agent
  BY <1>2, AgentMoves, Writers DEF AgentStep
<1>3. ASSUME ~\E d \in Drafts : AddDraft(d), agent'.pc = "mark"
      PROVE  AgentAtMark'
  <2>1. Existing' = Existing /\ agent' = agent
    BY <1>2, <1>3, RowsStay
  <2>2. PICK n \in Existing : /\ n = Newest(Existing)
                              /\ draft[n].burst = agent.burst /\ Stands(n)
    BY <1>3, <2>1, NewestIs DEF AgentAtMark
  <2>3. draft'[n].burst = draft[n].burst
    BY RowKept
  <2>4. ASSUME NEW c \in Callers, ReopenRejected(c), caller[c].d = n
        PROVE  n \in past'.early
    BY <1>3, <2>1, <2>2, <2>4 DEF ReopenRejected, DraftsTypeOK, DraftsHistory
  <2>5. Stands(n)'
    <3>1. CASE \E c \in Callers : ReopenRejected(c) /\ caller[c].d = n
      BY <2>4, <3>1 DEF Stands
    <3>2. CASE ~\E c \in Callers : ReopenRejected(c) /\ caller[c].d = n
      BY <2>2, <3>2, StandsStays
    <3>3. QED BY <3>1, <3>2
  <2>6. Newest(Existing)' = n
    BY <2>1, <2>2
  <2>7. QED BY <2>1, <2>2, <2>3, <2>5, <2>6 DEF AgentAtMark
<1>4. QED BY <1>1, <1>3 DEF AgentAtMark

LEMMA AgentAtInsertStep ==
    ASSUME DraftsAssumption, BoxIInv, AgentAtInsert, [DraftsNext]_draftsVars
    PROVE  AgentAtInsert'
<1> USE DraftsAssumption DEF BoxIInv
<1>1. ASSUME agent'.pc = "insert", agent'.round > 1
      PROVE  ~\E d \in Drafts : AddDraft(d)
  BY <1>1 DEF AddDraft, DraftsTypeOK, Agent
<1>2. ASSUME ReadRound, agent'.round > 1
      PROVE  AgentAtInsert'
  <2> DEFINE n == Newest(Existing)
  <2>1. agent'.round = NextRound /\ Existing' = Existing /\ draft' = draft
    BY <1>2 DEF ReadRound, DraftsTypeOK, Agent, Existing
  <2>2. Existing # {} /\ draft[n].status = "rejected" /\ agent'.round = draft[n].round + 1
    BY <1>2, <2>1 DEF NextRound
  <2>3. draft[n].round \in Nat
    BY <2>2, NewestIs DEF Existing, DraftsTypeOK, DraftRow
  <2>4. QED BY <2>1, <2>2, <2>3 DEF AgentAtInsert
<1>3. ASSUME ~ReadRound, agent'.pc = "insert", agent'.round > 1
      PROVE  AgentAtInsert'
  <2> DEFINE n == Newest(Existing)
  <2>1. agent' = agent
    BY <1>1, <1>3, AgentMoves, Writers DEF AgentStep
  <2>2. Existing' = Existing
    BY <1>1, <1>3, RowsStay
  <2>3. /\ n \in Existing /\ draft[n].round = agent.round - 1
        /\ draft[n].status \in {"rejected", "approved"}
    BY <1>3, <2>1, NewestIs DEF AgentAtInsert
  <2>4. draft'[n].round = draft[n].round /\ draft'[n].status \in {"rejected", "approved"}
    <3> HIDE DEF n
    <3>1. QED BY <2>3, RowKept
  <2>5. QED BY <2>1, <2>2, <2>3, <2>4 DEF AgentAtInsert
<1>4. QED BY <1>2, <1>3 DEF AgentAtInsert

LEMMA RoundsChainStep ==
    ASSUME DraftsAssumption, BoxIInv, AgentAtInsert, RoundsChain, [DraftsNext]_draftsVars
    PROVE  RoundsChain'
<1> USE DraftsAssumption DEF BoxIInv
<1> SUFFICES ASSUME NEW d \in Existing', draft'[d].round > 1
             PROVE  \E e \in Existing' :
                       /\ e < d /\ draft'[e].round = draft'[d].round - 1
                       /\ draft'[e].status \in {"rejected", "approved"}
  BY DEF RoundsChain
<1>1. CASE d \in Existing
  <2>1. draft'[d].round = draft[d].round
    BY <1>1, RowKept
  <2>2. PICK e \in Existing : /\ e < d /\ draft[e].round = draft[d].round - 1
                              /\ draft[e].status \in {"rejected", "approved"}
    BY <1>1, <2>1 DEF RoundsChain
  <2>3. /\ e \in Existing' /\ draft'[e].round = draft[e].round
        /\ draft'[e].status \in {"rejected", "approved"}
    BY <2>2, RowKept
  <2>4. QED BY <2>1, <2>2, <2>3
<1>2. CASE d \notin Existing
  <2> DEFINE n == Newest(Existing)
  <2>1. PICK x \in Drafts : AddDraft(x)
    BY <1>2, RowsStay
  <2>2. /\ Existing' = Existing \cup {x} /\ x = d
        /\ \A e \in Existing : e < d
    BY <1>2, <2>1, NewestAdded
  <2>3. draft'[d].round = agent.round /\ agent.pc = "insert"
    BY <2>1, <2>2 DEF AddDraft, DraftsTypeOK
  <2>4. /\ n \in Existing /\ draft[n].round = agent.round - 1
        /\ draft[n].status \in {"rejected", "approved"}
    BY <2>3, NewestIs DEF AgentAtInsert
  <2>5. /\ n \in Existing' /\ draft'[n].round = draft[n].round
        /\ draft'[n].status \in {"rejected", "approved"}
    <3> HIDE DEF n
    <3>1. QED BY <2>4, RowKept
  <2>6. QED BY <2>2, <2>3, <2>4, <2>5
<1>3. QED BY <1>1, <1>2

LEMMA HandledIsCoveredStep ==
    ASSUME DraftsAssumption, BoxIInv, AgentAtMark, ClosersSent, HandledIsCovered,
           [DraftsNext]_draftsVars
    PROVE  HandledIsCovered'
<1> USE DraftsAssumption DEF BoxIInv
<1> SUFFICES ASSUME NEW m \in Messages, msg'[m] = "handled"
             PROVE  \E d \in Existing' : Covers(draft'[d].burst, m) /\ Stands(d)'
  BY DEF HandledIsCovered
<1>1. ASSUME NEW d \in Existing, Covers(draft[d].burst, m), Stands(d),
             ~\E c \in Callers : ReopenRejected(c) /\ caller[c].d = d
      PROVE  \E e \in Existing' : Covers(draft'[e].burst, m) /\ Stands(e)'
  <2>1. d \in Existing' /\ draft'[d].burst = draft[d].burst
    BY RowKept
  <2>2. Stands(d)'
    BY <1>1, StandsStays
  <2>3. QED BY <1>1, <2>1, <2>2
<1>2. ASSUME NEW d \in Existing, Covers(draft[d].burst, m),
             NEW c \in Callers, ReopenRejected(c), caller[c].d = d
      PROVE  FALSE
  BY <1>2 DEF ReopenRejected, Reopened, Covers, DraftsTypeOK
<1>3. CASE msg[m] = "handled"
  BY <1>1, <1>2, <1>3 DEF HandledIsCovered
<1>4. CASE msg[m] # "handled"
  <2>1. CloseDispatch \/ \E c \in Callers : CloseApproved(c)
    BY <1>4, Writers DEF Arrive, ReopenRejected, Reopened, DraftsTypeOK
  <2>2. CASE CloseDispatch
    <3> DEFINE n == Newest(Existing)
    <3>1. n \in Existing /\ draft[n].burst = agent.burst /\ Stands(n)
      BY <2>2, NewestIs DEF CloseDispatch, AgentAtMark
    <3>2. Covers(draft[n].burst, m)
      BY <1>4, <2>2, <3>1 DEF CloseDispatch, Closed
    <3>3. ~\E c \in Callers : ReopenRejected(c) /\ caller[c].d = n
      BY <1>2, <3>1, <3>2
    <3> HIDE DEF n
    <3>4. QED BY <1>1, <3>1, <3>2, <3>3
  <2>3. ASSUME NEW c \in Callers, CloseApproved(c)
        PROVE  \E e \in Existing' : Covers(draft'[e].burst, m) /\ Stands(e)'
    <3> DEFINE d == caller[c].d
    <3>1. d \in Existing /\ Stands(d)
      BY <2>3 DEF CloseApproved, Loaded, ClosersSent, Stands
    <3>2. Covers(draft[d].burst, m)
      BY <1>4, <2>3 DEF CloseApproved, Closed
    <3>3. ~\E k \in Callers : ReopenRejected(k) /\ caller[k].d = d
      BY <1>2, <3>1, <3>2
    <3> HIDE DEF d
    <3>4. QED BY <1>1, <3>1, <3>2, <3>3
  <2>4. QED BY <2>1, <2>2, <2>3
<1>5. QED BY <1>3, <1>4

-----------------------------------------------------------------------------
(* How often a reply is queued, and with which text                        *)

LEMMA ClosersSentStep ==
    ASSUME DraftsAssumption, BoxIInv, ClosersSent, [DraftsNext]_draftsVars
    PROVE  ClosersSent'
<1> USE DraftsAssumption DEF DraftsAssumption, BoxIInv, DraftsTypeOK
<1>1. \A d \in Drafts : copies'[d] \in Nat /\ (copies[d] > 0 => copies'[d] > 0)
  BY Writers DEF EnqueueApproved, Loaded, Existing
<1>2. CASE caller' = caller
  BY <1>1, <1>2 DEF ClosersSent, Loaded, Existing
<1>3. CASE Crash
  BY <1>3 DEF Crash, NoCaller, ClosersSent
<1>4. ASSUME NEW c \in Callers, CallerStep(c)
      PROVE  ClosersSent'
  <2>1. CASE EnqueueApproved(c)
    BY <1>1, <2>1 DEF EnqueueApproved, ClosersSent, Loaded, Existing, Call
  <2>2. CASE ~EnqueueApproved(c)
    <3>1. \A k \in Callers : caller'[k].pc \in {"approve", "close"} =>
              caller[k].pc \in {"approve", "close"} /\ caller'[k].d = caller[k].d
      BY <1>4, <2>2 DEF CallerStep, MarkApproved, CloseApproved, MarkRejected,
                        ReopenRejected, NoCaller, Call
    <3>2. QED BY <1>1, <3>1 DEF ClosersSent, Loaded, Existing
  <2>3. QED BY <2>1, <2>2
<1>5. ASSUME NEW c \in Callers, NEW d \in Drafts, NEW o \in BOOLEAN,
             Approve(c, d, o) \/ Reject(c, d)
      PROVE  ClosersSent'
  BY <1>1, <1>5 DEF Approve, Reject, ClosersSent, Loaded, Existing
<1> HIDE DEF BoxIInv, DraftsTypeOK
<1>6. QED BY <1>2, <1>3, <1>4, <1>5, Writers

(* Which rows have been edited, or wait, after a step.                     *)
LEMMA RowEdited ==
    ASSUME DraftsAssumption, BoxIInv, [DraftsNext]_draftsVars,
           NEW d \in Drafts, ~Edit(d)
    PROVE  /\ draft'[d].edited => draft[d].edited
           /\ draft'[d].status \in {"none", "pending"} =>
                draft[d].status \in {"none", "pending"}
<1> USE DraftsAssumption DEF DraftsAssumption, BoxIInv, DraftsTypeOK, DraftRow
<1>1. ASSUME NEW e \in Drafts, AddDraft(e) \/ Discard(e) \/ Edit(e)
      PROVE  /\ draft'[d].edited => draft[d].edited
             /\ draft'[d].status \in {"none", "pending"} =>
                  draft[d].status \in {"none", "pending"}
  BY <1>1 DEF AddDraft, Discard, Edit, Existing
<1>2. ASSUME NEW c \in Callers, MarkApproved(c) \/ MarkRejected(c)
      PROVE  /\ draft'[d].edited => draft[d].edited
             /\ draft'[d].status \in {"none", "pending"} =>
                  draft[d].status \in {"none", "pending"}
  BY <1>2 DEF MarkApproved, MarkRejected, RejectedRow, Loaded, Existing
<1> HIDE DEF BoxIInv, DraftsTypeOK
<1>3. QED BY <1>1, <1>2, Writers

LEMMA PastGrows ==
    ASSUME BoxIInv, [DraftsNext]_draftsVars
    PROVE  /\ past.raced \subseteq past'.raced /\ past.torn \subseteq past'.torn
           /\ past'.sentOld = past.sentOld \/ \E c \in Callers : EnqueueApproved(c)
<1> USE DEF BoxIInv, DraftsTypeOK, DraftsHistory
<1>1. CASE Crash
  BY <1>1 DEF Crash
<1>2. ASSUME NEW d \in Drafts, Edit(d)
      PROVE  /\ past.raced \subseteq past'.raced /\ past.torn \subseteq past'.torn
             /\ past'.sentOld = past.sentOld
  BY <1>2 DEF Edit
<1>3. ASSUME NEW c \in Callers, EnqueueApproved(c) \/ ReopenRejected(c)
      PROVE  /\ past.raced \subseteq past'.raced /\ past.torn \subseteq past'.torn
             /\ past'.sentOld = past.sentOld \/ EnqueueApproved(c)
  BY <1>3 DEF EnqueueApproved, ReopenRejected
<1>4. QED BY <1>1, <1>2, <1>3, Writers

LEMMA EditHonouredStep ==
    ASSUME DraftsAssumption, BoxIInv, OldTexts, EditHonoured, [DraftsNext]_draftsVars
    PROVE  EditHonoured'
<1> SUFFICES ASSUME NEW d \in past'.sentOld, draft'[d].edited
             PROVE  d \in past'.raced \cup past'.torn
  BY DEF EditHonoured
<1>1. d \in Drafts
  BY BoxIInvStep DEF BoxIInv, DraftsTypeOK, DraftsHistory
<1>2. ASSUME NEW c \in Callers, EnqueueApproved(c), d \notin past.sentOld
      PROVE  d \in past'.raced
  <2>1. d = caller[c].d /\ caller[c].old /\ draft' = draft
    BY <1>2 DEF EnqueueApproved, BoxIInv, DraftsTypeOK, DraftsHistory
  <2>2. QED BY <1>2, <2>1, PastGrows DEF EnqueueApproved, OldTexts
<1>3. CASE d \in past.sentOld /\ Edit(d)
  <2>1. d \in past.torn \/ \E c \in Callers : caller[c].pc = "approve" /\ caller[c].d = d
    BY <1>3 DEF Edit, OldTexts
  <2>2. QED BY <1>3, <2>1, PastGrows DEF Edit, BoxIInv, DraftsTypeOK, DraftsHistory
<1>4. CASE d \in past.sentOld /\ ~Edit(d)
  BY <1>1, <1>4, RowEdited, PastGrows DEF EditHonoured
<1>5. QED BY <1>2, <1>3, <1>4, PastGrows

LEMMA OldTextsStep ==
    ASSUME DraftsAssumption, BoxIInv, OldTexts, [DraftsNext]_draftsVars
    PROVE  OldTexts'
<1> USE DraftsAssumption DEF DraftsAssumption, BoxIInv, DraftsTypeOK
<1>1. ASSUME NEW c \in Callers, caller'[c].pc = "enqueue", caller'[c].old,
             draft'[caller'[c].d].edited
      PROVE  caller'[c].d \in past'.raced
  <2>1. CASE caller'[c] = caller[c]
    <3> DEFINE d == caller[c].d
    <3>1. d \in Drafts /\ caller'[c].d = d
      BY <1>1, <2>1 DEF Loaded, Existing
    <3>2. CASE Edit(d)
      BY <1>1, <2>1, <3>2 DEF Edit, DraftsHistory
    <3>3. CASE ~Edit(d)
      <4> HIDE DEF d, DraftsTypeOK, BoxIInv
      <4>1. draft[d].edited
        BY <1>1, <3>1, <3>3, RowEdited
      <4>2. QED BY <1>1, <2>1, <3>1, <4>1, PastGrows DEF OldTexts, d
    <3>4. QED BY <3>2, <3>3
  <2>2. ASSUME NEW d \in Drafts, NEW o \in BOOLEAN, Approve(c, d, o)
        PROVE  FALSE
    BY <1>1, <2>2 DEF Approve, Call
  <2>3. CASE caller'[c] # caller[c]
    <3>1. ASSUME NEW k \in Callers, CallerStep(k)
          PROVE  FALSE
      BY <1>1, <2>3, <3>1 DEF CallerStep, EnqueueApproved, MarkApproved, CloseApproved,
                              MarkRejected, ReopenRejected, NoCaller, Call
    <3>2. ASSUME NEW k \in Callers, NEW e \in Drafts, Reject(k, e)
          PROVE  FALSE
      BY <1>1, <2>3, <3>2 DEF Reject, Call
    <3>3. ASSUME NEW k \in Callers, NEW e \in Drafts, NEW o \in BOOLEAN, Approve(k, e, o)
          PROVE  k = c
      BY <2>3, <3>3 DEF Approve
    <3>4. ~Crash
      BY <1>1 DEF Crash, NoCaller
    <3> HIDE DEF BoxIInv, DraftsTypeOK
    <3>5. QED BY <2>2, <2>3, <3>1, <3>2, <3>3, <3>4, Writers
  <2>4. QED BY <2>1, <2>3
<1>2. ASSUME NEW d \in past'.sentOld, draft'[d].status \in {"none", "pending"}
      PROVE  d \in past'.torn \/ \E c \in Callers : caller'[c].pc = "approve" /\ caller'[c].d = d
  <2>1. d \in Drafts /\ draft[d].status \in {"none", "pending"}
    <3>1. d \in Drafts
      BY BoxIInvStep DEF DraftsHistory
    <3>2. Edit(d) => draft[d].status = "pending"
      BY DEF Edit
    <3> HIDE DEF BoxIInv, DraftsTypeOK
    <3>3. QED BY <1>2, <3>1, <3>2, RowEdited
  <2>2. CASE d \notin past.sentOld
    <3>1. PICK c \in Callers : EnqueueApproved(c)
      BY <1>2, <2>2, PastGrows
    <3>2. d = caller[c].d
      BY <1>2, <2>2, <3>1 DEF EnqueueApproved, DraftsHistory
    <3>3. QED BY <3>1, <3>2 DEF EnqueueApproved, Call
  <2>3. ASSUME NEW c \in Callers, caller[c].pc = "approve", caller[c].d = d
        PROVE  d \in past'.torn \/ caller'[c] = caller[c]
    <3>1. CASE Crash
      BY <2>3, <3>1 DEF Crash, DraftsHistory
    <3>2. ASSUME NEW k \in Callers, CallerStep(k)
          PROVE  caller'[c] = caller[c]
      <4>1. CASE MarkApproved(k)
        BY <1>2, <2>1, <2>3, <4>1 DEF MarkApproved, DraftRow
      <4>2. CASE ~MarkApproved(k)
        BY <2>3, <3>2, <4>2 DEF CallerStep, EnqueueApproved, CloseApproved, MarkRejected,
                                ReopenRejected
      <4>3. QED BY <4>1, <4>2
    <3>3. ASSUME NEW k \in Callers, NEW e \in Drafts, NEW o \in BOOLEAN,
                 Approve(k, e, o) \/ Reject(k, e)
          PROVE  caller'[c] = caller[c]
      BY <2>3, <3>3 DEF Approve, Reject
    <3> HIDE DEF BoxIInv, DraftsTypeOK
    <3>4. \/ caller' = caller
          \/ Crash
          \/ \E k \in Callers : CallerStep(k)
          \/ \E k \in Callers, e \in Drafts : Reject(k, e)
          \/ \E k \in Callers, e \in Drafts, o \in BOOLEAN : Approve(k, e, o)
      BY Writers
    <3>5. QED BY <3>1, <3>2, <3>3, <3>4
  <2>4. CASE d \in past.sentOld
    <3> HIDE DEF BoxIInv, DraftsTypeOK
    <3>1. QED BY <2>1, <2>3, <2>4, PastGrows DEF OldTexts
  <2>5. QED BY <2>2, <2>4
<1>3. QED BY <1>1, <1>2 DEF OldTexts

(* Sets of approvers are finite, and those at two different statements are *)
(* different ones.                                                         *)
LEMMA AtCounts ==
    ASSUME DraftsAssumption, NEW d
    PROVE  /\ \A pc : IsFiniteSet(At(pc, d)) /\ Cardinality(At(pc, d)) \in Nat
           /\ \A pc : Cardinality(At(pc, d)) <= Cardinality(Approvers)
           /\ Cardinality(At("approve", d)) + Cardinality(At("enqueue", d))
                <= Cardinality(Approvers)
           /\ Cardinality(Approvers) \in Nat
<1> DEFINE A == At("approve", d)
           B == At("enqueue", d)
<1>1. IsFiniteSet(Approvers)
  BY DEF DraftsAssumption
<1>2. ASSUME NEW pc
      PROVE  /\ IsFiniteSet(At(pc, d)) /\ Cardinality(At(pc, d)) \in Nat
             /\ Cardinality(At(pc, d)) <= Cardinality(Approvers)
  <2>1. At(pc, d) \in SUBSET Approvers
    BY DEF At
  <2>2. QED BY <1>1, <2>1, FS_Subset, FS_CardinalityType
<1>3. A \cup B \in SUBSET Approvers /\ A \cap B = {}
  BY DEF At
<1>4. Cardinality(A \cup B) = Cardinality(A) + Cardinality(B)
  <2>1. Cardinality(A \cup B) = Cardinality(A) + Cardinality(B) - Cardinality(A \cap B)
    BY <1>2, FS_Union
  <2>2. Cardinality(A \cap B) = 0
    BY <1>3, FS_EmptySet
  <2>3. QED BY <1>2, <2>1, <2>2
<1>5. Cardinality(A \cup B) <= Cardinality(Approvers)
  BY <1>1, <1>3, FS_Subset
<1>6. QED BY <1>1, <1>2, <1>4, <1>5, FS_CardinalityType

LEMMA CopiesCountedImplies ==
    ASSUME DraftsAssumption, BoxIInv, CopiesCounted
    PROVE  CopiesBounded
<1> DEFINE all == Cardinality(Approvers)
<1> SUFFICES ASSUME NEW d \in Drafts
             PROVE  copies[d] <= all * (1 + past.crashes)
  BY DEF CopiesBounded
<1>1. /\ all \in Nat /\ past.crashes \in Nat /\ copies[d] \in Nat
      /\ Cardinality(At("approve", d)) \in Nat /\ Cardinality(At("approve", d)) <= all
      /\ Cardinality(At("enqueue", d)) \in Nat
  BY AtCounts DEF BoxIInv, DraftsTypeOK, DraftsHistory, DraftsAssumption
<1>2. /\ all * past.crashes \in Nat
      /\ all * (1 + past.crashes) = all * past.crashes + all
  BY <1>1
<1>3. copies[d] <= all * past.crashes + all
  BY <1>1, <1>2 DEF CopiesCounted
<1>4. QED BY <1>2, <1>3

(* What one draft has cost so far.                                         *)
Counted(d) ==
    CASE draft[d].status = "none" -> copies[d] = 0
      [] draft[d].status = "pending" ->
           copies[d] <= Cardinality(Approvers) * past.crashes + Cardinality(At("approve", d))
      [] OTHER ->
           copies[d] + Cardinality(At("enqueue", d))
             <= Cardinality(Approvers) * past.crashes + Cardinality(Approvers)

LEMMA CopiesCountedStep ==
    ASSUME DraftsAssumption, BoxIInv, CopiesCounted, [DraftsNext]_draftsVars
    PROVE  CopiesCounted'
<1> USE DraftsAssumption DEF DraftsAssumption, BoxIInv, DraftsTypeOK
<1> SUFFICES ASSUME NEW d \in Drafts PROVE Counted(d)'
  BY DEF CopiesCounted, Counted
<1> DEFINE all  == Cardinality(Approvers)
           paid == all * past.crashes
           a(pc) == Cardinality(At(pc, d))
<1>1. /\ all \in Nat /\ a("approve") \in Nat /\ a("enqueue") \in Nat
      /\ a("approve") + a("enqueue") <= all
      /\ IsFiniteSet(At("approve", d)) /\ IsFiniteSet(At("enqueue", d))
  BY AtCounts
<1>2. past.crashes \in Nat /\ paid \in Nat /\ copies[d] \in Nat
  BY <1>1 DEF DraftsHistory
<1>3. Counted(d)
  BY DEF CopiesCounted, Counted
<1>4. ASSUME copies'[d] = copies[d], past'.crashes = past.crashes,
             At("approve", d)' = At("approve", d), At("enqueue", d)' = At("enqueue", d),
             \/ draft'[d].status = draft[d].status
             \/ draft[d].status # "none" /\ draft'[d].status \notin {"none", "pending"}
             \/ draft[d].status = "none" /\ draft'[d].status = "pending"
      PROVE  Counted(d)'
  BY <1>1, <1>2, <1>3, <1>4 DEF Counted
<1>5. ASSUME NEW c \in Callers, EnqueueApproved(c), caller[c].d = d
      PROVE  Counted(d)'
  <2>1. c \in Approvers /\ draft[d].status # "none"
    BY <1>5 DEF EnqueueApproved, Loaded, Existing
  <2>2. /\ At("approve", d)' = At("approve", d) \cup {c} /\ c \notin At("approve", d)
        /\ At("enqueue", d)' = At("enqueue", d) \ {c} /\ c \in At("enqueue", d)
    BY <1>5, <2>1 DEF EnqueueApproved, At, Call
  <2>3. /\ Cardinality(At("approve", d)') = a("approve") + 1
        /\ Cardinality(At("enqueue", d)') = a("enqueue") - 1
    BY <1>1, <2>2, FS_AddElement, FS_RemoveElement
  <2>4. copies'[d] = copies[d] + 1 /\ past'.crashes = past.crashes /\ draft' = draft
    BY <1>5 DEF EnqueueApproved, DraftsHistory
  <2>5. QED BY <1>1, <1>2, <1>3, <2>1, <2>3, <2>4 DEF Counted
<1>6. ASSUME NEW c \in Callers, MarkApproved(c)
      PROVE  Counted(d)'
  <2>1. CASE caller[c].d = d
    <3>1. At("enqueue", d)' = At("enqueue", d)
      BY <1>6, <2>1 DEF MarkApproved, At, Call
    <3>2. draft[d].status # "none" /\ draft'[d].status = "approved"
      BY <1>6, <2>1 DEF MarkApproved, Loaded, Existing, DraftRow
    <3>3. copies' = copies /\ past' = past
      BY <1>6 DEF MarkApproved
    <3>4. QED BY <1>1, <1>2, <1>3, <3>1, <3>2, <3>3 DEF Counted
  <2>2. CASE caller[c].d # d
    <3>1. At("enqueue", d)' = At("enqueue", d) /\ At("approve", d)' = At("approve", d)
      BY <1>6, <2>2 DEF MarkApproved, At, Call
    <3>2. draft'[d] = draft[d] /\ copies' = copies /\ past' = past
      BY <1>6, <2>2 DEF MarkApproved
    <3>3. QED BY <1>4, <3>1, <3>2
  <2>3. QED BY <2>1, <2>2
<1>7. ASSUME NEW c \in Callers, CallerStep(c), ~MarkApproved(c),
             EnqueueApproved(c) => caller[c].d # d
      PROVE  Counted(d)'
  <2>1. At("enqueue", d)' = At("enqueue", d) /\ At("approve", d)' = At("approve", d)
    BY <1>7 DEF CallerStep, EnqueueApproved, CloseApproved, MarkRejected, ReopenRejected,
                NoCaller, Call, At
  <2>2. copies'[d] = copies[d] /\ past'.crashes = past.crashes
    BY <1>7 DEF CallerStep, EnqueueApproved, CloseApproved, MarkRejected, ReopenRejected,
                DraftsHistory, Loaded, Existing
  <2>3. \/ draft'[d] = draft[d]
        \/ draft[d].status # "none" /\ draft'[d].status = "rejected"
    BY <1>7 DEF CallerStep, EnqueueApproved, CloseApproved, MarkRejected, ReopenRejected,
                RejectedRow, Loaded, Existing, DraftRow
  <2>4. QED BY <1>4, <2>1, <2>2, <2>3
<1>8. ASSUME NEW c \in Callers, NEW e \in Drafts, NEW o \in BOOLEAN, Approve(c, e, o)
      PROVE  Counted(d)'
  <2>1. draft' = draft /\ copies' = copies /\ past' = past
    BY <1>8 DEF Approve
  <2>2. At("approve", d)' = At("approve", d)
    BY <1>8 DEF Approve, At, Call
  <2>3. CASE d = e
    <3>1. draft[d].status = "pending"
      BY <1>8, <2>3 DEF Approve
    <3>2. QED BY <1>3, <2>1, <2>2, <3>1 DEF Counted
  <2>4. CASE d # e
    <3>1. At("enqueue", d)' = At("enqueue", d)
      BY <1>8, <2>4 DEF Approve, At, Call
    <3>2. QED BY <1>4, <2>1, <2>2, <3>1
  <2>5. QED BY <2>3, <2>4
<1>9. ASSUME NEW c \in Callers, NEW e \in Drafts, Reject(c, e)
      PROVE  Counted(d)'
  <2>1. At("enqueue", d)' = At("enqueue", d) /\ At("approve", d)' = At("approve", d)
    BY <1>9 DEF Reject, Call, At
  <2>2. QED BY <1>4, <1>9, <2>1 DEF Reject
<1>10. ASSUME NEW e \in Drafts, Discard(e) \/ Edit(e)
       PROVE  Counted(d)'
  <2>1. At("enqueue", d)' = At("enqueue", d) /\ At("approve", d)' = At("approve", d)
    BY <1>10 DEF Discard, Edit, At
  <2>2. copies' = copies /\ past'.crashes = past.crashes
    BY <1>10 DEF Discard, Edit, DraftsHistory
  <2>3. \/ draft'[d].status = draft[d].status
        \/ draft[d].status = "pending" /\ draft'[d].status = "discarded"
    BY <1>10 DEF Discard, Edit, DraftRow
  <2>4. QED BY <1>4, <2>1, <2>2, <2>3
<1>11. ASSUME AgentStep \/ UNCHANGED draftsVars \/ \E m \in Messages : Arrive(m)
       PROVE  Counted(d)'
  <2>1. caller' = caller /\ copies' = copies /\ past' = past
    BY <1>11 DEF AgentStep, Dispatch, GiveUp, ReadRound, AddDraft, CloseDispatch,
                 draftsVars, Arrive
  <2>2. At("enqueue", d)' = At("enqueue", d) /\ At("approve", d)' = At("approve", d)
    BY <2>1 DEF At
  <2>3. \/ draft' = draft
        \/ \E e \in Drafts : AddDraft(e)
    BY <1>11 DEF AgentStep, Dispatch, GiveUp, ReadRound, CloseDispatch, draftsVars, Arrive
  <2>4. \/ draft'[d].status = draft[d].status
        \/ draft[d].status = "none" /\ draft'[d].status = "pending"
    BY <2>3 DEF AddDraft, Existing
  <2>5. QED BY <1>4, <2>1, <2>2, <2>4
<1>12. ASSUME Crash
       PROVE  Counted(d)'
  <2>1. At("enqueue", d)' = {} /\ At("approve", d)' = {}
    BY <1>12 DEF Crash, NoCaller, At
  <2>2. a("enqueue")' = 0 /\ a("approve")' = 0
    BY <2>1, FS_EmptySet
  <2>3. draft' = draft /\ copies' = copies /\ past'.crashes = past.crashes + 1
    BY <1>12 DEF Crash, DraftsHistory
  <2>4. paid' = paid + all
    BY <1>1, <1>2, <2>3
  <2>5. QED BY <1>1, <1>2, <1>3, <2>2, <2>3, <2>4 DEF Counted
<1> HIDE DEF BoxIInv, DraftsTypeOK
<1>13. QED
  BY <1>5, <1>6, <1>7, <1>8, <1>9, <1>10, <1>11, <1>12 DEF DraftsNext

-----------------------------------------------------------------------------
(* A reply held for approval is safe                                       *)

LEMMA DraftsIInvInit == ASSUME DraftsAssumption, DraftsInit PROVE DraftsIInv
<1> USE DraftsAssumption DEF DraftsInit
<1>1. BoxIInv
  BY BoxIInvInit
<1>2. Existing = {}
  BY DEF Existing, NoRow
<1>3. AgentAtMark /\ AgentAtInsert /\ ClosersSent /\ OldTexts
  BY DEF AgentAtMark, AgentAtInsert, ClosersSent, OldTexts, IdleAgent, NoCaller
<1>4. EditHonoured /\ HandledIsCovered /\ RoundsChain
  BY <1>2 DEF EditHonoured, HandledIsCovered, RoundsChain
<1>5. CopiesCounted
  BY DEF CopiesCounted, NoRow
<1>6. QED BY <1>1, <1>3, <1>4, <1>5 DEF DraftsIInv

(* However agents, approvers, edits, rejections and crashes fall together, *)
(* for any number of them: no reply is queued more often than approvers    *)
(* and restarts allow, an accepted edit is what is sent, nothing is closed *)
(* that nobody answers for, and rounds answer rejections.                  *)
THEOREM DraftsSafeHolds == DraftsSpec => []DraftsSafe
<1>1. DraftsInit => DraftsIInv
  BY DraftsAssumption, DraftsIInvInit
<1>2. DraftsIInv /\ [DraftsNext]_draftsVars => DraftsIInv'
  BY DraftsAssumption, BoxIInvStep, AgentAtMarkStep, AgentAtInsertStep, ClosersSentStep,
     OldTextsStep, CopiesCountedStep, EditHonouredStep, HandledIsCoveredStep,
     RoundsChainStep
     DEF DraftsIInv
<1>3. DraftsIInv => DraftsSafe
  BY DraftsAssumption, CopiesCountedImplies DEF DraftsIInv, DraftsSafe, BoxIInv
<1>4. QED BY <1>1, <1>2, <1>3, PTL DEF DraftsSpec

-----------------------------------------------------------------------------
(***************************************************************************)
(* The outbox and its drain                                                *)
(***************************************************************************)

-----------------------------------------------------------------------------
(* The inductive invariant                                                 *)

(* The batch of a pass: rows that are due, in the order of their seq, each *)
(* once; the drain has none when it is at rest, and one in hand between    *)
(* taking it and being done with it.                                       *)
BatchInv ==
    /\ \A k \in 1..Len(drain.batch) : row[drain.batch[k]].st = "queued"
    /\ \A j, k \in 1..Len(drain.batch) : j < k => drain.batch[j] < drain.batch[k]
    /\ drain.pc \notin {"idle", "next"} => drain.batch # <<>> /\ Cur \notin BadItems

(* The piece in hand is the first that no row accounts for.                *)
PieceInv ==
    /\ \A i \in MediaItems : row[i].progress = 0
    /\ drain.pc \in {"compose", "record", "progress", "more"} =>
          drain.at = row[Cur].progress /\ drain.at < Pieces(Cur, drain.len)
    /\ drain.pc \in {"progress", "more"} => Cur \notin MediaItems

(* The item whose last piece WhatsApp took, before a row accounts for it.  *)
InHand(i) ==
    /\ drain.batch # <<>> /\ i = Cur
    /\ \/ drain.pc \in {"record", "progress"}
       \/ drain.pc = "finish" /\ i \in MediaItems

(* Every try is progress, a retry, a piece in hand or lost to a restart.   *)
TriesInv ==
    \A i \in Items :
        hist.calls[i] <= row[i].progress + row[i].retry + hist.restarts
                           + (IF row[i].st = "dead" THEN 1 ELSE 0)
                           + (IF InHand(i) \/ (i \in MediaItems /\ row[i].st = "sent")
                              THEN 1 ELSE 0)

(* What went out today, by the governor's count, by the messages table and *)
(* by the cap.                                                             *)
Admitted == IF drain.pc \in {"pace", "compose"} /\ drain.on = day THEN 1 ELSE 0
Unrecorded == IF drain.pc = "record" /\ drain.on = day THEN 1 ELSE 0
CountInv ==
    /\ drain.on <= day /\ gov.today <= day
    /\ hist.sentToday + Admitted <= Today + hist.excused
    /\ hist.sentToday <= rowsToday + hist.excused + Unrecorded
    /\ DailyMax > 0 => hist.sentToday + Admitted <= DailyMax + hist.excused

(* After one send under the brake the drain does not compose another.      *)
KillInv ==
    hist.sinceKill = 0 \/ (hist.sinceKill = 1 /\ killSwitchActive /\ drain.pc # "compose")

(* A call of set_kill_switch has the governor and the state to set, or the *)
(* state only.                                                             *)
CallInv == killCall = NoCall \/ killCall.todo \in {<<"governor", "state">>, <<"state">>}

OutboxIInv ==
    /\ OutboxTypeOK /\ BatchInv /\ PieceInv /\ TriesInv /\ CountInv /\ KillInv /\ CallInv

(* The two halves of the kill switch and what the last order was.          *)
BrakeInv ==
    IF killCall = NoCall
    THEN gov.kill = killSetting /\ muted = killSetting /\ hist.brake = killSetting
    ELSE /\ killCall.kill = killSetting
         /\ \/ killCall.todo = <<"governor", "state">>
            \/ killCall.todo = <<"state">> /\ gov.kill = killSetting

(* Nobody changes chunk_max_len.                                           *)
SizeFixed == \A s, t \in Sizes : s = t

(* The piece a word is in.                                                 *)
PieceOf(i, w) == IF i \in MediaItems THEN 1 ELSE CeilDiv(w, chunkMaxLen)

(* Pieces of an item that its row accounts for, or will.                   *)
Accounted(i) == row[i].progress + (IF InHand(i) THEN 1 ELSE 0)

CopiesOf(i) ==
    /\ \A w \in Words : PieceOf(i, w) <= Accounted(i) => hist.copies[i][w] > 0
    /\ \A w \in Words :
          hist.copies[i][w] <=
             hist.unacked[i] + (IF PieceOf(i, w) <= Accounted(i) \/ row[i].st = "sent"
                                THEN 1 ELSE 0)
    /\ \A v, w \in Words : PieceOf(i, v) <= PieceOf(i, w) /\ hist.copies[i][w] > 0
                              => hist.copies[i][v] > 0
    /\ row[i].st = "sent" /\ i \notin BadItems => \A w \in Words : hist.copies[i][w] > 0

(* The contact has the pieces a row accounts for, once, up to the sends    *)
(* nothing accounts for, and no later piece without the earlier ones.      *)
CopiesInv == \A i \in Items : CopiesOf(i)

(* The drain is done with an item when all its pieces are accounted for.   *)
DoneInv ==
    drain.pc = "finish" => \A w \in Words : PieceOf(Cur, w) <= Accounted(Cur)

-----------------------------------------------------------------------------
(* Lemmas about the operators of the model                                 *)

LEMMA DivMonotone ==
    ASSUME NEW a \in Int, NEW c \in Int, NEW b \in Nat \ {0}, a <= c
    PROVE  a \div b <= c \div b
OBVIOUS

(* A word is in one of the pieces, and in none before that of the word     *)
(* before it.                                                              *)
LEMMA CeilDivType ==
    ASSUME NEW a \in Nat \ {0}, NEW b \in Nat \ {0}
    PROVE  CeilDiv(a, b) \in 1..a
BY DEF CeilDiv

LEMMA CeilDivMonotone ==
    ASSUME NEW a \in Nat, NEW c \in Nat, NEW b \in Nat \ {0}, a <= c
    PROVE  CeilDiv(a, b) <= CeilDiv(c, b)
<1>1. a + b - 1 \in Int /\ c + b - 1 \in Int /\ a + b - 1 <= c + b - 1
  OBVIOUS
<1>2. QED BY <1>1, DivMonotone DEF CeilDiv

LEMMA PiecesType ==
    ASSUME OutboxAssumption, NEW i \in Items, NEW len \in Sizes
    PROVE  Pieces(i, len) \in 1..TextLen
<1>1. TextLen \in Nat \ {0} /\ len \in Nat \ {0}
  BY DEF OutboxAssumption
<1>2. QED BY <1>1, CeilDivType DEF Pieces

(* A finite set of integers, unless empty, has a greatest element, and can *)
(* be enumerated in increasing order.                                      *)
LEMMA FiniteHasMax ==
    ASSUME NEW S \in SUBSET Int, IsFiniteSet(S), S # {}
    PROVE  \E m \in S : \A k \in S : k <= m
<1> DEFINE Maxless == {T \in FiniteSubsetsOf(S) : T # {} /\ ~\E m \in T : \A k \in T : k <= m}
<1>1. SUFFICES ASSUME Maxless # {} PROVE FALSE
  BY DEF FiniteSubsetsOf
<1>2. PICK T \in Maxless : \A U \in Maxless : ~(<<U, T>> \in StrictSubsetOrdering(S))
  <2>1. Maxless \subseteq FiniteSubsetsOf(S)
    OBVIOUS
  <2> HIDE DEF Maxless
  <2>2. QED BY <1>1, <2>1, WFMin, FS_StrictSubsetOrderingWellFounded
<1>3. PICK x \in T : TRUE
  OBVIOUS
<1>4. T \subseteq S /\ IsFiniteSet(T) /\ T # {}
  BY DEF FiniteSubsetsOf
<1>5. T \ {x} \in FiniteSubsetsOf(S) /\ <<T \ {x}, T>> \in StrictSubsetOrdering(S)
  BY <1>3, <1>4, FS_RemoveElement DEF FiniteSubsetsOf, StrictSubsetOrdering
<1>6. T \ {x} \notin Maxless
  BY <1>2, <1>5
<1>7. CASE T \ {x} = {}
  BY <1>7, <1>4
<1>8. CASE T \ {x} # {}
  <2>1. PICK m \in T \ {x} : \A k \in T \ {x} : k <= m
    BY <1>5, <1>6, <1>8
  <2>2. \A k \in T : k <= (IF x <= m THEN m ELSE x)
    BY <2>1, <1>3, <1>4
  <2>3. (IF x <= m THEN m ELSE x) \in T
    OBVIOUS
  <2>4. QED BY <2>2, <2>3
<1>9. QED BY <1>7, <1>8

Increasing(s, n) == \A j, k \in 1..n : j < k => s[j] < s[k]

LEMMA FiniteIsEnumerable ==
    ASSUME NEW S \in SUBSET Int, IsFiniteSet(S)
    PROVE  \E s \in [1..Cardinality(S) -> S] : Increasing(s, Cardinality(S))
<1> DEFINE Ordered(T) == \E s \in [1..Cardinality(T) -> T] : Increasing(s, Cardinality(T))
           Disordered == {T \in FiniteSubsetsOf(S) : ~Ordered(T)}
<1>1. SUFFICES ASSUME Disordered # {} PROVE FALSE
  BY DEF FiniteSubsetsOf
<1>2. PICK T \in Disordered : \A U \in Disordered : ~(<<U, T>> \in StrictSubsetOrdering(S))
  <2>1. Disordered \subseteq FiniteSubsetsOf(S)
    OBVIOUS
  <2> HIDE DEF Disordered
  <2>2. QED BY <1>1, <2>1, WFMin, FS_StrictSubsetOrderingWellFounded
<1>3. T \subseteq S /\ T \in SUBSET Int /\ IsFiniteSet(T) /\ Cardinality(T) \in Nat
  BY FS_CardinalityType DEF FiniteSubsetsOf
<1>4. CASE T = {}
  <2>1. Cardinality(T) = 0
    BY <1>4, FS_EmptySet
  <2>2. [j \in 1..0 |-> 0] \in [1..0 -> T] /\ Increasing([j \in 1..0 |-> 0], 0)
    BY DEF Increasing
  <2>3. QED BY <2>1, <2>2
<1>5. CASE T # {}
  <2>1. PICK m \in T : \A k \in T : k <= m
    BY <1>3, <1>5, FiniteHasMax
  <2> DEFINE U == T \ {m}
             n == Cardinality(U)
  <2>2. U \in FiniteSubsetsOf(S) /\ <<U, T>> \in StrictSubsetOrdering(S)
    BY <2>1, <1>3, FS_RemoveElement DEF FiniteSubsetsOf, StrictSubsetOrdering
  <2>3. n \in Nat /\ Cardinality(T) = n + 1
    <3>1. IsFiniteSet(U) /\ Cardinality(U) = Cardinality(T) - 1
      BY <2>1, <1>3, FS_RemoveElement
    <3>2. Cardinality(U) \in Nat
      BY <3>1, FS_CardinalityType
    <3>3. QED BY <3>1, <3>2, <1>3
  <2>4. Ordered(U)
    BY <2>2, <1>2
  <2>5. PICK s \in [1..n -> U] : Increasing(s, n)
    BY <2>4
  <2> HIDE DEF U, n
  <2> DEFINE t == [j \in 1..(n + 1) |-> IF j = n + 1 THEN m ELSE s[j]]
  <2>6. \A j \in 1..n : t[j] = s[j] /\ s[j] \in T /\ s[j] \in Int /\ s[j] < m
    <3> SUFFICES ASSUME NEW j \in 1..n
                 PROVE  t[j] = s[j] /\ s[j] \in T /\ s[j] \in Int /\ s[j] < m
      OBVIOUS
    <3>1. j \in 1..(n + 1) /\ j # n + 1
      BY <2>3
    <3>2. t[j] = s[j]
      BY <3>1
    <3>3. s[j] \in U
      BY <2>5
    <3>4. s[j] \in T /\ s[j] # m /\ s[j] \in Int /\ m \in Int
      BY <3>3, <1>3 DEF U
    <3>5. s[j] <= m
      BY <3>4, <2>1
    <3>6. QED BY <3>2, <3>4, <3>5
  <2>7. t[n + 1] = m
    BY <2>3
  <2>8. t \in [1..(n + 1) -> T]
    <3> SUFFICES ASSUME NEW j \in 1..(n + 1) PROVE t[j] \in T
      OBVIOUS
    <3>1. j \in 1..n \/ j = n + 1
      BY <2>3
    <3> HIDE DEF t
    <3>2. QED BY <3>1, <2>6, <2>7, <2>1
  <2> HIDE DEF t
  <2>9. Increasing(t, n + 1)
    <3> SUFFICES ASSUME NEW j \in 1..(n + 1), NEW k \in 1..(n + 1), j < k
                 PROVE  t[j] < t[k]
      BY DEF Increasing
    <3>1. j \in 1..n
      BY <2>3
    <3>2. CASE k = n + 1
      BY <3>1, <3>2, <2>6, <2>7
    <3>3. CASE k \in 1..n
      BY <3>1, <3>3, <2>5, <2>6 DEF Increasing
    <3>4. QED BY <3>2, <3>3, <2>3
  <2>10. Ordered(T)
    BY <2>3, <2>8, <2>9
  <2>11. QED BY <2>10
<1>6. QED BY <1>4, <1>5

LEMMA FunctionIsSeq ==
    ASSUME NEW T, NEW S \in SUBSET T, NEW n \in Nat, NEW s \in [1..n -> S]
    PROVE  s \in Seq(T) /\ Len(s) = n
<1>1. s \in [1..n -> T]
  OBVIOUS
<1>2. QED BY <1>1

(* A pass works on the due rows in the order of their seq.                 *)
LEMMA InSeqOrderType ==
    ASSUME OutboxAssumption, NEW S \in SUBSET Items
    PROVE  /\ InSeqOrder(S) \in Seq(Items)
           /\ \A k \in 1..Len(InSeqOrder(S)) : InSeqOrder(S)[k] \in S
           /\ \A j, k \in 1..Len(InSeqOrder(S)) : j < k => InSeqOrder(S)[j] < InSeqOrder(S)[k]
<1>1. IsFiniteSet(S) /\ Cardinality(S) \in Nat /\ S \in SUBSET Int
  <2>1. Items \in SUBSET Int /\ IsFiniteSet(Items)
    <3>1. NumItems \in Nat
      BY DEF OutboxAssumption
    <3>2. IsFiniteSet(1..NumItems)
      BY <3>1, FS_Interval
    <3>3. QED BY <3>1, <3>2 DEF Items
  <2>2. IsFiniteSet(S)
    BY <2>1, FS_Subset
  <2>3. Cardinality(S) \in Nat
    BY <2>2, FS_CardinalityType
  <2>4. S \in SUBSET Int
    BY <2>1
  <2>5. QED BY <2>2, <2>3, <2>4
<1>2. /\ InSeqOrder(S) \in [1..Cardinality(S) -> S]
      /\ Increasing(InSeqOrder(S), Cardinality(S))
  BY <1>1, FiniteIsEnumerable DEF InSeqOrder, Increasing
<1>3. InSeqOrder(S) \in Seq(Items) /\ Len(InSeqOrder(S)) = Cardinality(S)
  BY <1>1, <1>2, FunctionIsSeq
<1>4. QED BY <1>2, <1>3 DEF Increasing

LEMMA Constants ==
    ASSUME OutboxAssumption
    PROVE  /\ NumItems \in Nat /\ BadItems \subseteq Items /\ MediaItems \subseteq Items
           /\ TextLen \in Nat /\ TextLen > 0 /\ MaxRetry \in Nat /\ MaxRetry > 0
           /\ Burst \in Nat /\ Burst > 0 /\ DailyMax \in Nat /\ MaxRestarts \in Nat
           /\ MaxDay \in Nat /\ MaxKillCalls \in Nat
           /\ \A len \in Sizes : len \in Nat /\ len > 0 /\ len <= TextLen
           /\ {0} \subseteq 0..TextLen /\ {0} \subseteq 0..MaxDay /\ Burst \in 0..Burst
BY DEF OutboxAssumption

(* One disjunct for every action of Outbox.                                *)
LEMMA NextCases ==
    ASSUME [Next]_vars
    PROVE  \/ \E i \in Items : Enqueue(i) \/ BackoffOver(i)
           \/ Tick \/ LoopEnds \/ SkipBadJID \/ TakeItem \/ Paced \/ Cancelled \/ SendOk
           \/ SendFails \/ RecordSent \/ SaveProgress \/ NextPiece \/ Finish
           \/ Refill \/ Connect \/ Disconnect \/ Midnight
           \/ \E len \in Sizes : SetChunkMaxLen(len)
           \/ \E kill \in BOOLEAN : PersistKill(kill)
           \/ ApplyKill \/ Trip \/ Stop \/ Restart
           \/ UNCHANGED vars
BY DEF Next, DrainStep

-----------------------------------------------------------------------------
(* Type correctness                                                        *)

LEMMA CountUp ==
    ASSUME NEW S, NEW f \in [S -> Nat], NEW x \in S
    PROVE  /\ [f EXCEPT ![x] = @ + 1] \in [S -> Nat]
           /\ \A y \in S : [f EXCEPT ![x] = @ + 1][y] = f[y] + (IF y = x THEN 1 ELSE 0)
OBVIOUS

(* The item in hand, and the ones after it.                                *)
LEMMA BatchType ==
    ASSUME OutboxTypeOK, drain.batch # <<>>
    PROVE  Cur \in Items /\ Tail(drain.batch) \in Seq(Items)
BY DEF OutboxTypeOK, Drain, Cur

(* Took, field by field.                                                   *)
LEMMA TookFields ==
    ASSUME OutboxTypeOK, drain.batch # <<>>
    PROVE  /\ Took(hist) \in History
           /\ Took(hist).copies =
                 [hist.copies EXCEPT ![Cur] = [w \in Words |->
                    IF w \in Piece(Cur, drain.len, drain.at) THEN hist.copies[Cur][w] + 1
                                                             ELSE hist.copies[Cur][w]]]
           /\ Took(hist).calls = [hist.calls EXCEPT ![Cur] = @ + 1]
           /\ Took(hist).sentToday = hist.sentToday + 1
           /\ Took(hist).excused =
                 IF drain.on # day THEN hist.excused + 1 ELSE hist.excused
           /\ Took(hist).sinceKill = IF killSwitchActive THEN hist.sinceKill + 1 ELSE 0
           /\ Took(hist).unacked = hist.unacked
           /\ Took(hist).brake = hist.brake
           /\ Took(hist).restarts = hist.restarts
           /\ Took(hist).killCalls = hist.killCalls
<1> USE DEF OutboxTypeOK, History
<1>1. Cur \in Items
  BY BatchType
<1> DEFINE cp == [w \in Words |->
                    IF w \in Piece(Cur, drain.len, drain.at) THEN hist.copies[Cur][w] + 1
                                                             ELSE hist.copies[Cur][w]]
<1>2. hist.copies[Cur] \in [Words -> Nat]
  BY <1>1
<1>3. cp \in [Words -> Nat]
  <2>1. \A w \in Words : hist.copies[Cur][w] \in Nat
    BY <1>2
  <2>2. QED BY <2>1
<1>4. Took(hist) = [copies |-> [hist.copies EXCEPT ![Cur] = cp], unacked |-> hist.unacked,
                    calls |-> [hist.calls EXCEPT ![Cur] = @ + 1],
                    sentToday |-> hist.sentToday + 1,
                    excused |-> IF drain.on # day THEN hist.excused + 1 ELSE hist.excused,
                    sinceKill |-> IF killSwitchActive THEN hist.sinceKill + 1 ELSE 0,
                    brake |-> hist.brake, restarts |-> hist.restarts,
                    killCalls |-> hist.killCalls]
  <2>1. Took(hist) = [hist EXCEPT !.copies[Cur] = cp, !.calls[Cur] = @ + 1,
                        !.sentToday = @ + 1,
                        !.excused = IF drain.on # day THEN @ + 1 ELSE @,
                        !.sinceKill = IF killSwitchActive THEN @ + 1 ELSE 0]
    BY DEF Took
  <2> HIDE DEF cp
  <2>2. QED BY <2>1
<1> HIDE DEF cp
<1>5. [hist.copies EXCEPT ![Cur] = cp] \in [Items -> [Words -> Nat]]
  BY <1>1, <1>3
<1>6. [hist.calls EXCEPT ![Cur] = @ + 1] \in [Items -> Nat]
  BY <1>1
<1>7. Took(hist) \in History
  BY <1>4, <1>5, <1>6
<1>8. QED BY <1>4, <1>7 DEF cp

LEMMA UnackedUp ==
    ASSUME NEW f \in [Items -> Nat], NEW g, NEW x \in Items, g = [f EXCEPT ![x] = @ + 1]
    PROVE  \A y \in Items : g[y] = f[y] + (IF y = x THEN 1 ELSE 0)
BY CountUp

(* Restart, field by field: what was in hand is forgotten.                 *)
LEMMA RestartFields ==
    ASSUME OutboxAssumption, OutboxTypeOK, BatchInv, Restart
    PROVE  /\ hist' \in History
           /\ hist'.copies = hist.copies /\ hist'.calls = hist.calls
           /\ hist'.sentToday = hist.sentToday /\ hist'.restarts = hist.restarts + 1
           /\ hist'.excused = hist.excused + Unrecorded
           /\ hist'.sinceKill = IF killSetting THEN hist.sinceKill ELSE 0
           /\ hist'.brake = IF killCall # NoCall THEN killSetting ELSE hist.brake
           /\ \A i \in Items :
                 hist'.unacked[i] = hist.unacked[i] + (IF InHand(i) THEN 1 ELSE 0)
<1> DEFINE h == [hist EXCEPT !.restarts = @ + 1,
                   !.sinceKill = IF killSetting THEN @ ELSE 0,
                   !.brake = IF killCall # NoCall THEN killSetting ELSE @]
<1>1. /\ h \in History /\ h.unacked = hist.unacked /\ h.excused = hist.excused
      /\ h.copies = hist.copies /\ h.calls = hist.calls
      /\ h.sentToday = hist.sentToday /\ h.restarts = hist.restarts + 1
      /\ h.sinceKill = IF killSetting THEN hist.sinceKill ELSE 0
      /\ h.brake = IF killCall # NoCall THEN killSetting ELSE hist.brake
  <2>1. hist.restarts + 1 \in 0..MaxRestarts
    BY DEF Restart, OutboxAssumption, OutboxTypeOK, History
  <2>2. (IF killCall # NoCall THEN killSetting ELSE hist.brake) \in BOOLEAN
    BY DEF OutboxTypeOK, History
  <2>3. QED BY <2>1, <2>2 DEF OutboxTypeOK, History
<1>2. /\ drain.pc = "record" =>
            hist' = [h EXCEPT !.unacked[Cur] = @ + 1,
                              !.excused = IF drain.on = day THEN @ + 1 ELSE @]
      /\ drain.pc = "progress" \/ (drain.pc = "finish" /\ Cur \in MediaItems) =>
            hist' = [h EXCEPT !.unacked[Cur] = @ + 1]
      /\ drain.pc \notin {"record", "progress"} /\ ~(drain.pc = "finish" /\ Cur \in MediaItems)
            => hist' = h
  BY DEF Restart
<1> HIDE DEF h
<1>3. drain.pc \notin {"idle", "next"} => drain.batch # <<>> /\ Cur \in Items
  BY BatchType DEF BatchInv
<1>8. hist.unacked \in [Items -> Nat]
  BY DEF OutboxTypeOK, History
<1> USE DEF History
<1>4. CASE drain.pc = "record"
  <2>1. hist' = [h EXCEPT !.unacked = [h.unacked EXCEPT ![Cur] = @ + 1],
                          !.excused = IF drain.on = day THEN @ + 1 ELSE @]
    BY <1>1, <1>2, <1>4
  <2>2. [h.unacked EXCEPT ![Cur] = @ + 1] \in [Items -> Nat]
    BY <1>1, <1>3, <1>4
  <2> DEFINE u == [h.unacked EXCEPT ![Cur] = @ + 1]
             x == IF drain.on = day THEN h.excused + 1 ELSE h.excused
  <2> HIDE DEF u
  <2>3. /\ hist' \in History /\ hist'.excused = hist.excused + Unrecorded
        /\ hist'.unacked = [hist.unacked EXCEPT ![Cur] = @ + 1]
    <3>1. x \in Nat /\ x = hist.excused + Unrecorded
      BY <1>1, <1>4 DEF Unrecorded
    <3>2. hist' = [h EXCEPT !.unacked = u, !.excused = x] /\ u \in [Items -> Nat]
      BY <2>1, <2>2 DEF u
    <3> HIDE DEF x
    <3>3. hist' \in History /\ hist'.excused = x /\ hist'.unacked = u
      BY <1>1, <3>1, <3>2
    <3>4. QED BY <1>1, <3>1, <3>3 DEF u
  <2>4. \A i \in Items : InHand(i) <=> i = Cur
    BY <1>3, <1>4 DEF InHand
  <2>5. \A i \in Items : hist'.unacked[i] = hist.unacked[i] + (IF i = Cur THEN 1 ELSE 0)
    <3>1. Cur \in Items
      BY <1>3, <1>4
    <3>2. QED BY <1>8, <2>3, <3>1, UnackedUp
  <2>6. QED BY <1>1, <2>1, <2>3, <2>4, <2>5
<1>5. CASE drain.pc = "progress" \/ (drain.pc = "finish" /\ Cur \in MediaItems)
  <2>1. hist' = [h EXCEPT !.unacked = [h.unacked EXCEPT ![Cur] = @ + 1]]
    BY <1>1, <1>2, <1>5
  <2>2. [h.unacked EXCEPT ![Cur] = @ + 1] \in [Items -> Nat]
    BY <1>1, <1>3, <1>5
  <2> DEFINE u == [h.unacked EXCEPT ![Cur] = @ + 1]
  <2> HIDE DEF u
  <2>3. /\ hist' \in History /\ hist'.excused = hist.excused + Unrecorded
        /\ hist'.unacked = [hist.unacked EXCEPT ![Cur] = @ + 1]
    <3>1. Unrecorded = 0
      BY <1>5 DEF Unrecorded
    <3>2. hist' = [h EXCEPT !.unacked = u] /\ u \in [Items -> Nat]
      BY <2>1, <2>2 DEF u
    <3>3. hist' \in History /\ hist'.excused = h.excused /\ hist'.unacked = u
      BY <1>1, <3>2
    <3>4. QED BY <1>1, <3>1, <3>3 DEF u
  <2>4. \A i \in Items : InHand(i) <=> i = Cur
    BY <1>3, <1>5 DEF InHand
  <2>5. \A i \in Items : hist'.unacked[i] = hist.unacked[i] + (IF i = Cur THEN 1 ELSE 0)
    <3>1. Cur \in Items
      BY <1>3, <1>5
    <3>2. QED BY <1>8, <2>3, <3>1, UnackedUp
  <2>6. QED BY <1>1, <2>1, <2>3, <2>4, <2>5
<1>6. CASE drain.pc \notin {"record", "progress"}
           /\ ~(drain.pc = "finish" /\ Cur \in MediaItems)
  BY <1>1, <1>2, <1>6 DEF InHand, Unrecorded
<1>7. QED BY <1>4, <1>5, <1>6

LEMMA GovernorType ==
    ASSUME OutboxAssumption, OutboxTypeOK
    PROVE  /\ Today \in Nat
           /\ Allow => [gov EXCEPT !.today = day, !.count = Today + 1, !.tokens = @ - 1]
                          \in Governor
           /\ [gov EXCEPT !.today = day, !.count = Today] \in Governor
           /\ SeededGovernor \in Governor
<1> USE Constants DEF OutboxTypeOK, Governor
<1>1. Today \in Nat
  BY DEF Today
<1>2. Allow => gov.tokens - 1 \in 0..Burst
  BY DEF Allow
<1>3. SeededGovernor \in Governor
  BY DEF SeededGovernor
<1>4. Allow => [gov EXCEPT !.today = day, !.count = Today + 1, !.tokens = @ - 1] \in Governor
  <2>1. Today + 1 \in Nat
    BY <1>1
  <2>2. QED BY <1>2, <2>1
<1>5. [gov EXCEPT !.today = day, !.count = Today] \in Governor
  BY <1>1
<1>6. QED BY <1>1, <1>3, <1>4, <1>5

LEMMA OutboxTypeStep ==
    ASSUME OutboxAssumption, OutboxTypeOK, BatchInv, PieceInv, CallInv, [Next]_vars
    PROVE  OutboxTypeOK'
<1> USE Constants
<1>0. drain.pc \notin {"idle", "next"} \/ drain.batch # <<>> =>
          /\ drain.batch # <<>> /\ Cur \in Items
          /\ Tail(drain.batch) \in Seq(Items) /\ row[Cur] \in Row
  <2>1. drain.pc \notin {"idle", "next"} => drain.batch # <<>>
    BY DEF BatchInv
  <2>2. QED BY <2>1, BatchType DEF OutboxTypeOK
<1>00. <<>> \in Seq(Items)
  OBVIOUS
<1> USE DEF OutboxTypeOK
<1>1. ASSUME NEW i \in Items, Enqueue(i) \/ BackoffOver(i)
      PROVE  OutboxTypeOK'
  <2>1. row[i] \in Row
    OBVIOUS
  <2>2. row' \in [Items -> Row]
    <3>1. [row[i] EXCEPT !.st = "queued"] \in Row /\ [row[i] EXCEPT !.due = TRUE] \in Row
      BY <2>1 DEF Row
    <3>2. row' \in {[row EXCEPT ![i] = r] : r \in Row}
      BY <1>1, <3>1 DEF Enqueue, BackoffOver
    <3>3. QED BY <3>2
  <2>3. QED BY <1>1, <2>2 DEF Enqueue, BackoffOver, kept
<1>2. CASE Tick
  <2>1. InSeqOrder(DueOutbox) \in Seq(Items)
    BY InSeqOrderType DEF DueOutbox
  <2>2. QED BY <1>2, <2>1 DEF Tick, kept, Drain
<1>3. CASE LoopEnds
  <2>1. gov' \in Governor
    BY <1>3, GovernorType DEF LoopEnds, Refuse
  <2>2. QED BY <1>3, <2>1, <1>00 DEF LoopEnds, Rest, kept, Drain
<1>4. CASE SkipBadJID
  <2>1. gov' \in Governor
    BY <1>4, GovernorType DEF SkipBadJID, CanTake, Admit
  <2>2. row' \in [Items -> Row]
    BY <1>4, <1>0 DEF SkipBadJID, CanTake, Row
  <2>3. drain' \in Drain
    BY <1>4, <1>0 DEF SkipBadJID, CanTake, NextItem, Drain
  <2>4. QED BY <1>4, <2>1, <2>2, <2>3 DEF SkipBadJID, kept
<1>5. CASE TakeItem
  <2>1. gov' \in Governor
    BY <1>5, GovernorType DEF TakeItem, CanTake, Admit
  <2>2. QED BY <1>5, <2>1 DEF TakeItem, kept, Drain
<1>6. CASE Paced
  <2>1. ~killSwitchActive => ResumeAt(Cur) \in 0..TextLen
    BY <1>0, <1>6 DEF Paced, ResumeAt, Row
  <2>2. drain' \in Drain
    BY <1>6, <2>1, <1>00 DEF Paced, Rest, Drain
  <2>3. QED BY <1>6, <2>2 DEF Paced, kept
<1>7. CASE Cancelled
  BY <1>7, <1>00 DEF Cancelled, Rest, kept, Drain
<1>8. CASE SendOk
  <2>1. hist' \in History
    BY <1>8, <1>0, TookFields DEF SendOk
  <2>2. QED BY <1>8, <2>1 DEF SendOk, kept, Drain
<1>9. CASE SendFails
  <2>0. drain.batch # <<>> /\ Cur \in Items /\ row[Cur] \in Row
    BY <1>0, <1>9 DEF SendFails
  <2>1. hist' \in History
    <3>1. [hist EXCEPT !.calls[Cur] = @ + 1] \in History
      <4>1. [hist.calls EXCEPT ![Cur] = @ + 1] \in [Items -> Nat]
        BY <2>0, CountUp DEF History
      <4>2. [hist EXCEPT !.calls = [hist.calls EXCEPT ![Cur] = @ + 1]] \in History
        BY <4>1 DEF History
      <4>3. QED BY <4>2
    <3>2. [Took(hist) EXCEPT !.unacked[Cur] = @ + 1, !.excused = hist.excused + 1] \in History
      <4> DEFINE took == Took(hist)
      <4>1. took \in History
        BY <1>0, <1>9, TookFields DEF SendFails
      <4>2. hist.excused + 1 \in Nat
        BY DEF History
      <4> HIDE DEF took
      <4>3. [took.unacked EXCEPT ![Cur] = @ + 1] \in [Items -> Nat]
        BY <2>0, <4>1, CountUp DEF History
      <4>4. [took EXCEPT !.unacked = [took.unacked EXCEPT ![Cur] = @ + 1],
                         !.excused = hist.excused + 1] \in History
        BY <4>1, <4>2, <4>3 DEF History
      <4>5. QED BY <4>4 DEF took
    <3>3. QED BY <1>9, <3>1, <3>2 DEF SendFails
  <2>2. row' \in [Items -> Row]
    <3>1. row[Cur].retry + 1 < MaxRetry => row[Cur].retry + 1 \in 0..MaxRetry - 1
      BY <1>0, <1>9 DEF SendFails, Row
    <3>2. [row[Cur] EXCEPT !.st = "dead"] \in Row
      BY <2>0 DEF Row
    <3>3. row[Cur].retry + 1 < MaxRetry =>
             [row[Cur] EXCEPT !.retry = @ + 1, !.due = FALSE] \in Row
      BY <2>0, <3>1 DEF Row
    <3>4. row[Cur].retry \in Int
      BY <2>0 DEF Row
    <3>5. row' = IF row[Cur].retry + 1 >= MaxRetry
                 THEN [row EXCEPT ![Cur] = [row[Cur] EXCEPT !.st = "dead"]]
                 ELSE [row EXCEPT ![Cur] = [row[Cur] EXCEPT !.retry = @ + 1, !.due = FALSE]]
      BY <1>9, <2>0 DEF SendFails, RetryOrDeadLetter
    <3>6. CASE row[Cur].retry + 1 >= MaxRetry
      BY <2>0, <3>2, <3>5, <3>6
    <3>7. CASE row[Cur].retry + 1 < MaxRetry
      <4>1. row' = [row EXCEPT ![Cur] = [row[Cur] EXCEPT !.retry = @ + 1, !.due = FALSE]]
        BY <3>4, <3>5, <3>7
      <4>2. QED BY <2>0, <3>3, <3>7, <4>1
    <3>8. QED BY <3>4, <3>6, <3>7
  <2>3. drain' \in Drain
    BY <1>9, <1>0 DEF SendFails, NextItem, Drain
  <2>4. QED BY <1>9, <2>1, <2>2, <2>3 DEF SendFails, kept
<1>10. CASE RecordSent
  <2>1. drain' \in Drain
    BY <1>10 DEF RecordSent, Goto, Drain
  <2>2. rowsToday' \in Nat
    BY <1>10 DEF RecordSent
  <2>3. QED BY <1>10, <2>1, <2>2 DEF RecordSent, kept
<1>11. CASE SaveProgress
  <2>1. drain.at + 1 \in 0..TextLen
    <3>1. drain.at < Pieces(Cur, drain.len) /\ Cur \in Items /\ drain.len \in Sizes
      BY <1>11, <1>0 DEF SaveProgress, PieceInv, Drain
    <3>2. Pieces(Cur, drain.len) \in 1..TextLen /\ drain.at \in Nat
      <4>1. drain.at \in Nat
        BY DEF Drain
      <4>2. QED BY <3>1, <4>1, PiecesType
    <3>3. QED BY <3>1, <3>2
  <2>2. row' \in [Items -> Row]
    BY <1>11, <1>0, <2>1 DEF SaveProgress, Row
  <2>3. drain' \in Drain
    BY <1>11, <2>1 DEF SaveProgress, Drain
  <2>4. QED BY <1>11, <2>2, <2>3 DEF SaveProgress, kept
<1>12. CASE NextPiece
  <2>1. gov' \in Governor
    BY <1>12, GovernorType DEF NextPiece, Admit, Refuse
  <2>2. drain' \in Drain
    BY <1>12, <1>00 DEF NextPiece, Rest, Drain
  <2>3. QED BY <1>12, <2>1, <2>2 DEF NextPiece, kept
<1>13. CASE Finish
  <2>1. row' \in [Items -> Row]
    BY <1>13, <1>0 DEF Finish, Row
  <2>2. drain' \in Drain
    BY <1>13, <1>0 DEF Finish, NextItem, Drain
  <2>3. QED BY <1>13, <2>1, <2>2 DEF Finish, kept
<1>14. CASE Refill
  <2>1. gov.tokens + 1 \in 0..Burst
    BY <1>14 DEF Refill, Governor
  <2>2. QED BY <1>14, <2>1 DEF Refill, kept, Governor
<1>15. CASE Connect \/ Disconnect \/ Stop
  BY <1>15 DEF Connect, Disconnect, Stop
<1>16. CASE Midnight
  <2>1. day + 1 \in 0..MaxDay
    BY <1>16 DEF Midnight
  <2>2. hist' \in History
    BY <1>16 DEF Midnight, History
  <2>3. QED BY <1>16, <2>1, <2>2 DEF Midnight
<1>17. ASSUME NEW len \in Sizes, SetChunkMaxLen(len)
       PROVE  OutboxTypeOK'
  BY <1>17 DEF SetChunkMaxLen
<1>18. ASSUME NEW kill \in BOOLEAN, PersistKill(kill)
       PROVE  OutboxTypeOK'
  <2>1. <<"governor", "state">> \in Seq({"governor", "state"})
    OBVIOUS
  <2>2. hist.killCalls + 1 \in 0..MaxKillCalls
    BY <1>18 DEF PersistKill, History
  <2>3. hist' \in History
    BY <1>18, <2>2 DEF PersistKill, History
  <2>4. killCall' \in [todo : Seq({"governor", "state"}), kill : BOOLEAN]
    BY <1>18, <2>1 DEF PersistKill
  <2>5. QED BY <1>18, <2>3, <2>4 DEF PersistKill
<1>19. CASE ApplyKill
  <2>1. Tail(killCall.todo) \in Seq({"governor", "state"})
    BY <1>19 DEF ApplyKill, CallInv
  <2>2. NoCall \in [todo : Seq({"governor", "state"}), kill : BOOLEAN]
    BY DEF NoCall
  <2>3. hist' \in History
    <3>1. \A n \in Nat : /\ [hist EXCEPT !.sinceKill = n] \in History
                         /\ [hist EXCEPT !.brake = killCall.kill, !.sinceKill = n] \in History
      BY DEF History
    <3>2. hist.sinceKill \in Nat /\ killCall.kill \in BOOLEAN
      BY DEF History
    <3>3. \E n \in Nat : \/ hist' = [hist EXCEPT !.sinceKill = n]
                         \/ hist' = [hist EXCEPT !.brake = killCall.kill, !.sinceKill = n]
      <4>1. Head(killCall.todo) = "governor" =>
               hist' = [hist EXCEPT !.sinceKill = IF killCall.kill \/ muted THEN @ ELSE 0]
        BY <1>19 DEF ApplyKill
      <4>2. Head(killCall.todo) # "governor" =>
               hist' = [hist EXCEPT !.brake = killCall.kill,
                          !.sinceKill = IF killCall.kill \/ gov.kill THEN @ ELSE 0]
        BY <1>19 DEF ApplyKill
      <4>3. CASE Head(killCall.todo) = "governor"
        BY <3>2, <4>1, <4>3
      <4>4. CASE Head(killCall.todo) # "governor"
        <5> DEFINE n == IF killCall.kill \/ gov.kill THEN hist.sinceKill ELSE 0
        <5>1. hist' = [hist EXCEPT !.brake = killCall.kill, !.sinceKill = n]
          BY <4>2, <4>4
        <5>2. n \in Nat
          BY <3>2
        <5> HIDE DEF n
        <5>3. QED BY <5>1, <5>2
      <4>5. QED BY <4>3, <4>4
    <3>4. QED BY <3>1, <3>2, <3>3
  <2>4. gov' \in Governor
    BY <1>19 DEF ApplyKill, Governor
  <2>5. killCall' \in [todo : Seq({"governor", "state"}), kill : BOOLEAN]
    BY <1>19, <2>1, <2>2 DEF ApplyKill
  <2>6. muted' \in BOOLEAN
    BY <1>19 DEF ApplyKill
  <2>7. QED BY <1>19, <2>3, <2>4, <2>5, <2>6 DEF ApplyKill
<1>20. CASE Trip
  BY <1>20 DEF Trip, Governor, History
<1>21. CASE Restart
  <2>1. hist' \in History
    BY <1>21, RestartFields
  <2>2. gov' \in Governor
    BY <1>21, GovernorType DEF Restart
  <2>3. drain' \in Drain
    BY <1>21, <1>00 DEF Restart, Drain
  <2>4. killCall' \in [todo : Seq({"governor", "state"}), kill : BOOLEAN]
    BY <1>21 DEF Restart, NoCall
  <2>5. QED BY <1>21, <2>1, <2>2, <2>3, <2>4 DEF Restart
<1>22. CASE UNCHANGED vars
  BY <1>22 DEF vars
<1> HIDE DEF OutboxTypeOK
<1>23. QED
  BY <1>1, <1>2, <1>3, <1>4, <1>5, <1>6, <1>7, <1>8, <1>9, <1>10, <1>11, <1>12, <1>13,
     <1>14, <1>15, <1>16, <1>17, <1>18, <1>19, <1>20, <1>21, <1>22, NextCases

-----------------------------------------------------------------------------
(* The batch                                                               *)

LEMMA TailFacts ==
    ASSUME OutboxAssumption, OutboxTypeOK, BatchInv, drain.batch # <<>>
    PROVE  /\ Len(Tail(drain.batch)) + 1 = Len(drain.batch)
           /\ \A k \in 1..Len(Tail(drain.batch)) :
                 /\ k + 1 \in 1..Len(drain.batch)
                 /\ Tail(drain.batch)[k] = drain.batch[k + 1]
                 /\ Tail(drain.batch)[k] \in Items /\ Tail(drain.batch)[k] # Cur
<1>1. drain.batch \in Seq(Items) /\ Len(drain.batch) \in Nat \ {0}
  BY DEF OutboxTypeOK, Drain
<1>2. Cur = drain.batch[1] /\ Tail(drain.batch) \in Seq(Items)
  BY <1>1 DEF Cur
<1>3. Len(Tail(drain.batch)) + 1 = Len(drain.batch)
  BY <1>1
<1>4. ASSUME NEW k \in 1..Len(Tail(drain.batch))
      PROVE  /\ k + 1 \in 1..Len(drain.batch) /\ Tail(drain.batch)[k] = drain.batch[k + 1]
             /\ Tail(drain.batch)[k] \in Items /\ Tail(drain.batch)[k] # Cur
  <2>1. k + 1 \in 1..Len(drain.batch) /\ 1 \in 1..Len(drain.batch) /\ 1 < k + 1
    BY <1>1, <1>3
  <2>2. Tail(drain.batch)[k] = drain.batch[k + 1]
    BY <1>1, <1>3
  <2>3. drain.batch[1] < drain.batch[k + 1] /\ drain.batch[k + 1] \in Items
    BY <1>1, <2>1 DEF BatchInv
  <2>4. drain.batch[1] # drain.batch[k + 1]
    <3>1. drain.batch[1] \in Int
      BY <1>1, <2>1, Constants DEF Items
    <3>2. QED BY <2>3, <3>1
  <2>5. QED BY <1>2, <2>1, <2>2, <2>3, <2>4
<1>5. QED BY <1>3, <1>4

(* The drain gives its batch up, goes on to the next row, or keeps it.     *)
LEMMA BatchAfterRest ==
    ASSUME OutboxTypeOK, Rest
    PROVE  BatchInv' /\ drain'.batch = <<>> /\ drain'.pc = "idle"
BY DEF OutboxTypeOK, Drain, Rest, BatchInv

LEMMA BatchAfterNext ==
    ASSUME OutboxAssumption, OutboxTypeOK, BatchInv, NextItem, drain.batch # <<>>,
           \A j \in Items : j # Cur => row'[j].st = row[j].st
    PROVE  BatchInv'
<1>1. drain'.batch = Tail(drain.batch) /\ drain'.pc = "next"
  BY DEF NextItem, OutboxTypeOK, Drain
<1>2. ASSUME NEW k \in 1..Len(Tail(drain.batch))
      PROVE  row'[Tail(drain.batch)[k]].st = "queued"
  BY TailFacts DEF BatchInv
<1>3. ASSUME NEW j \in 1..Len(Tail(drain.batch)), NEW k \in 1..Len(Tail(drain.batch)), j < k
      PROVE  Tail(drain.batch)[j] < Tail(drain.batch)[k]
  <2>1. j + 1 < k + 1
    BY <1>3
  <2>2. QED BY <2>1, TailFacts DEF BatchInv
<1>4. QED BY <1>1, <1>2, <1>3 DEF BatchInv

LEMMA BatchKept ==
    ASSUME OutboxTypeOK, BatchInv, drain'.batch = drain.batch,
           \A j \in Items : row[j].st = "queued" => row'[j].st = "queued",
           drain'.pc \notin {"idle", "next"} => drain.batch # <<>> /\ Cur \notin BadItems
    PROVE  BatchInv' /\ (drain.batch # <<>> => Cur' = Cur)
<1>1. \A k \in 1..Len(drain.batch) : drain.batch[k] \in Items
  BY DEF OutboxTypeOK, Drain
<1>2. QED BY <1>1 DEF BatchInv, Cur

LEMMA BatchStep ==
    ASSUME OutboxAssumption, OutboxTypeOK, BatchInv, [Next]_vars
    PROVE  BatchInv'
<1> USE DEF kept
<1>0. /\ drain.pc \notin {"idle", "next"} => drain.batch # <<>> /\ Cur \notin BadItems
      /\ drain.batch # <<>> => Cur \in Items
      /\ row \in [Items -> Row] /\ drain \in Drain
  BY BatchType DEF BatchInv, OutboxTypeOK
<1>1. ASSUME NEW i \in Items, Enqueue(i) \/ BackoffOver(i)
      PROVE  BatchInv'
  <2>1. \A j \in Items : row[j].st = "queued" => row'[j].st = "queued"
    BY <1>1, <1>0 DEF Enqueue, BackoffOver, Row
  <2>2. QED BY <1>1, <1>0, <2>1, BatchKept DEF Enqueue, BackoffOver
<1>2. CASE Tick
  <2>1. drain'.pc = "next" /\ drain'.batch = InSeqOrder(DueOutbox) /\ row' = row
    BY <1>0, <1>2 DEF Tick, Drain
  <2>2. DueOutbox \in SUBSET Items /\ \A i \in DueOutbox : row[i].st = "queued"
    BY DEF DueOutbox
  <2>3. QED BY <2>1, <2>2, InSeqOrderType DEF BatchInv
<1>3. CASE Rest
  BY <1>3, BatchAfterRest
<1>4. CASE SkipBadJID \/ Finish \/ SendFails
  <2>1. drain.batch # <<>> /\ NextItem
    BY <1>0, <1>4 DEF SkipBadJID, CanTake, Finish, SendFails
  <2>2. \A j \in Items : j # Cur => row'[j].st = row[j].st
    BY <1>0, <1>4, <2>1 DEF SkipBadJID, Finish, SendFails, RetryOrDeadLetter
  <2>3. QED BY <2>1, <2>2, BatchAfterNext
<1>5. CASE LoopEnds \/ Cancelled
  BY <1>3, <1>5 DEF LoopEnds, Cancelled
<1>6. CASE TakeItem
  <2>1. drain'.batch = drain.batch /\ row' = row /\ drain.batch # <<>> /\ Cur \notin BadItems
    BY <1>0, <1>6 DEF TakeItem, CanTake, Drain
  <2>2. QED BY <2>1, BatchKept
<1>7. CASE Paced \/ NextPiece
  <2>1. CASE Rest
    BY <2>1, BatchAfterRest
  <2>2. CASE ~Rest
    <3>1. drain'.batch = drain.batch /\ row' = row
      BY <1>0, <1>7, <2>2 DEF Paced, NextPiece, Drain
    <3>2. drain.pc \in {"pace", "more"}
      BY <1>7 DEF Paced, NextPiece
    <3>3. QED BY <1>0, <3>1, <3>2, BatchKept
  <2>3. QED BY <2>1, <2>2
<1>8. CASE SendOk \/ RecordSent \/ SaveProgress
  <2>1. drain.pc \in {"compose", "record", "progress"} /\ drain'.batch = drain.batch
    BY <1>0, <1>8 DEF SendOk, RecordSent, SaveProgress, Goto, Drain
  <2>2. \A j \in Items : row'[j].st = row[j].st
    BY <1>0, <1>8, <2>1 DEF SendOk, RecordSent, SaveProgress, Row
  <2>3. QED BY <1>0, <2>1, <2>2, BatchKept
<1>9. CASE Refill \/ Connect \/ Disconnect \/ Midnight \/ ApplyKill \/ Trip \/ Stop
           \/ (\E len \in Sizes : SetChunkMaxLen(len))
           \/ (\E kill \in BOOLEAN : PersistKill(kill)) \/ UNCHANGED vars
  <2>1. row' = row /\ drain' = drain
    BY <1>9 DEF Refill, Connect, Disconnect, Midnight, ApplyKill, Trip, Stop,
                SetChunkMaxLen, PersistKill, vars
  <2>2. QED BY <1>0, <2>1, BatchKept
<1>10. CASE Restart
  <2>1. drain'.pc = "idle" /\ drain'.batch = <<>>
    BY <1>10 DEF Restart
  <2>2. QED BY <2>1 DEF BatchInv
<1>11. QED
  BY <1>1, <1>2, <1>4, <1>5, <1>6, <1>7, <1>8, <1>9, <1>10, NextCases

-----------------------------------------------------------------------------
(* The piece in hand                                                       *)

LEMMA PieceStep ==
    ASSUME OutboxAssumption, OutboxTypeOK, BatchInv, PieceInv, [Next]_vars
    PROVE  PieceInv'
<1> USE DEF kept
<1>0. /\ drain.pc \notin {"idle", "next"} => drain.batch # <<>>
      /\ drain.batch # <<>> => Cur \in Items
      /\ row \in [Items -> Row] /\ drain \in Drain /\ MediaItems \subseteq Items
  BY BatchType, Constants DEF BatchInv, OutboxTypeOK
<1>1. ASSUME drain'.pc \in {"idle", "next", "pace", "finish"},
             \A j \in MediaItems : row'[j].progress = row[j].progress
      PROVE  PieceInv'
  BY <1>1 DEF PieceInv
<1>2. ASSUME NEW i \in Items, Enqueue(i) \/ BackoffOver(i)
      PROVE  PieceInv'
  <2>1. \A j \in Items : row'[j].progress = row[j].progress
    BY <1>0, <1>2 DEF Enqueue, BackoffOver, Row
  <2>2. drain' = drain
    BY <1>2 DEF Enqueue, BackoffOver
  <2>3. QED BY <1>0, <2>1, <2>2 DEF PieceInv, Cur
<1>3. CASE Tick
  <2>1. drain'.pc = "next" /\ row' = row
    BY <1>0, <1>3 DEF Tick, Drain
  <2>2. QED BY <1>1, <2>1
<1>4. CASE Rest /\ row' = row
  <2>1. drain'.pc = "idle"
    BY <1>4, BatchAfterRest
  <2>2. QED BY <1>1, <1>4, <2>1
<1>5. CASE LoopEnds \/ Cancelled
  BY <1>4, <1>5 DEF LoopEnds, Cancelled
<1>6. CASE SkipBadJID \/ Finish \/ SendFails
  <2>1. NextItem /\ Cur \in Items
    BY <1>0, <1>6 DEF SkipBadJID, CanTake, Finish, SendFails
  <2>2. \A j \in Items : row'[j].progress = row[j].progress
    BY <1>0, <1>6, <2>1 DEF SkipBadJID, Finish, SendFails, RetryOrDeadLetter, Row
  <2>3. drain'.pc = "next"
    BY <1>0, <2>1 DEF NextItem, Drain
  <2>4. QED BY <1>0, <1>1, <2>2, <2>3
<1>7. CASE TakeItem
  <2>1. drain'.pc = "pace" /\ row' = row
    BY <1>0, <1>7 DEF TakeItem, Drain
  <2>2. QED BY <1>1, <2>1
<1>8. CASE Paced
  <2>1. CASE killSwitchActive
    BY <1>4, <1>8, <2>1 DEF Paced
  <2>2. CASE ~killSwitchActive
    <3>1. /\ row' = row /\ drain.batch # <<>> /\ drain'.batch = drain.batch
          /\ drain'.at = ResumeAt(Cur) /\ drain'.len = chunkMaxLen
          /\ drain'.pc \in {"compose", "finish"}
          /\ drain'.pc = "compose" => ResumeAt(Cur) < Pieces(Cur, chunkMaxLen)
      BY <1>0, <1>8, <2>2 DEF Paced, Drain
    <3>2. Cur' = Cur
      BY <3>1 DEF Cur
    <3>3. ResumeAt(Cur) = row[Cur].progress
      BY <1>0, <3>1 DEF PieceInv, ResumeAt
    <3>4. QED BY <3>1, <3>2, <3>3 DEF PieceInv
  <2>3. QED BY <2>1, <2>2
<1>9. CASE SendOk \/ RecordSent
  <2>1. /\ row' = row /\ drain.batch # <<>> /\ drain'.batch = drain.batch
        /\ drain'.at = drain.at /\ drain'.len = drain.len
        /\ drain.pc \in {"compose", "record"}
        /\ drain'.pc \in {"record", "progress", "finish"}
        /\ drain'.pc = "progress" => Cur \notin MediaItems
    BY <1>0, <1>9 DEF SendOk, RecordSent, Goto, Drain
  <2>2. Cur' = Cur
    BY <2>1 DEF Cur
  <2>3. QED BY <2>1, <2>2 DEF PieceInv
<1>10. CASE SaveProgress
  <2>1. /\ drain.pc = "progress" /\ drain.batch # <<>> /\ drain'.batch = drain.batch
        /\ drain'.at = drain.at + 1 /\ drain'.len = drain.len
        /\ drain'.pc \in {"more", "finish"}
        /\ drain'.pc = "more" => drain.at + 1 < Pieces(Cur, drain.len)
    BY <1>0, <1>10 DEF SaveProgress, Drain
  <2>2. /\ row'[Cur].progress = drain.at + 1
        /\ \A j \in Items : j # Cur => row'[j].progress = row[j].progress
    BY <1>0, <1>10, <2>1 DEF SaveProgress, Row
  <2>3. Cur' = Cur /\ Cur \notin MediaItems
    BY <2>1 DEF Cur, PieceInv
  <2>4. QED BY <1>0, <2>1, <2>2, <2>3 DEF PieceInv
<1>11. CASE NextPiece
  <2>1. CASE Rest
    BY <1>4, <1>11, <2>1 DEF NextPiece
  <2>2. CASE ~Rest
    <3>1. /\ row' = row /\ drain.batch # <<>> /\ drain'.batch = drain.batch
          /\ drain'.at = drain.at /\ drain'.len = drain.len
          /\ drain.pc = "more" /\ drain'.pc = "compose"
      BY <1>0, <1>11, <2>2 DEF NextPiece, Drain
    <3>2. Cur' = Cur
      BY <3>1 DEF Cur
    <3>3. QED BY <3>1, <3>2 DEF PieceInv
  <2>3. QED BY <2>1, <2>2
<1>12. CASE Refill \/ Connect \/ Disconnect \/ Midnight \/ ApplyKill \/ Trip \/ Stop
            \/ (\E len \in Sizes : SetChunkMaxLen(len))
            \/ (\E kill \in BOOLEAN : PersistKill(kill)) \/ UNCHANGED vars
  <2>1. row' = row /\ drain' = drain
    BY <1>12 DEF Refill, Connect, Disconnect, Midnight, ApplyKill, Trip, Stop,
                 SetChunkMaxLen, PersistKill, vars
  <2>2. QED BY <2>1 DEF PieceInv, Cur
<1>13. CASE Restart
  <2>1. drain'.pc = "idle" /\ row' = row
    BY <1>13 DEF Restart
  <2>2. QED BY <1>1, <2>1
<1>14. QED
  BY <1>2, <1>3, <1>5, <1>6, <1>7, <1>8, <1>9, <1>10, <1>11, <1>12, <1>13, NextCases

-----------------------------------------------------------------------------
(* The tries of an item                                                    *)

LEMMA TriesStep ==
    ASSUME OutboxAssumption, OutboxTypeOK, BatchInv, PieceInv, TriesInv, [Next]_vars,
           OutboxTypeOK'
    PROVE  TriesInv'
<1> USE DEF kept
<1>0. /\ drain.pc \notin {"idle", "next"} => drain.batch # <<>>
      /\ drain.batch # <<>> => Cur \in Items /\ row[Cur].st = "queued"
      /\ row \in [Items -> Row] /\ drain \in Drain /\ hist \in History
      /\ row' \in [Items -> Row] /\ hist' \in History
  <2>1. drain.batch # <<>> => Cur \in Items /\ row[Cur].st = "queued"
    <3>1. drain.batch # <<>> => 1 \in 1..Len(drain.batch) /\ Cur = drain.batch[1]
      BY DEF OutboxTypeOK, Drain, Cur
    <3>2. QED BY <3>1, BatchType DEF BatchInv
  <2>2. QED BY <2>1 DEF BatchInv, OutboxTypeOK
<1> SUFFICES ASSUME NEW i \in Items
             PROVE  hist'.calls[i] <= row'[i].progress + row'[i].retry + hist'.restarts
                           + (IF row'[i].st = "dead" THEN 1 ELSE 0)
                           + (IF InHand(i)' \/ (i \in MediaItems /\ row'[i].st = "sent")
                              THEN 1 ELSE 0)
  BY DEF TriesInv
<1>00. /\ hist.calls[i] \in Nat /\ row[i].progress \in Nat /\ row[i].retry \in Nat
       /\ hist.restarts \in Nat
       /\ hist'.calls[i] \in Nat /\ row'[i].progress \in Nat /\ row'[i].retry \in Nat
       /\ hist'.restarts \in Nat
       /\ hist.calls[i] <= row[i].progress + row[i].retry + hist.restarts
                           + (IF row[i].st = "dead" THEN 1 ELSE 0)
                           + (IF InHand(i) \/ (i \in MediaItems /\ row[i].st = "sent")
                              THEN 1 ELSE 0)
  BY <1>0, Constants DEF Row, History, TriesInv
<1>1. ASSUME row'[i].progress = row[i].progress, row'[i].retry = row[i].retry,
             row'[i].st = row[i].st \/ (row[i].st # "dead" /\ row[i].st # "sent"),
             hist'.calls = hist.calls, hist'.restarts = hist.restarts,
             InHand(i) => InHand(i)' \/ (i \in MediaItems /\ row'[i].st = "sent")
      PROVE  hist'.calls[i] <= row'[i].progress + row'[i].retry + hist'.restarts
                           + (IF row'[i].st = "dead" THEN 1 ELSE 0)
                           + (IF InHand(i)' \/ (i \in MediaItems /\ row'[i].st = "sent")
                              THEN 1 ELSE 0)
  <2>1. CASE row'[i].st = row[i].st
    BY <1>1, <1>00, <2>1
  <2>2. CASE row[i].st # "dead" /\ row[i].st # "sent"
    BY <1>1, <1>00, <2>2
  <2>3. QED BY <1>1, <2>1, <2>2
<1>2. ASSUME NEW j \in Items, Enqueue(j) \/ BackoffOver(j)
      PROVE  /\ row'[i].progress = row[i].progress /\ row'[i].retry = row[i].retry
             /\ row'[i].st = row[i].st \/ row[i].st = "absent"
             /\ hist' = hist /\ InHand(i)' = InHand(i)
  <2>1. /\ row'[i].progress = row[i].progress /\ row'[i].retry = row[i].retry
        /\ row'[i].st = row[i].st \/ row[i].st = "absent"
    <3>1. CASE Enqueue(j)
      BY <1>0, <3>1 DEF Enqueue, Row
    <3>2. CASE BackoffOver(j)
      BY <1>0, <3>2 DEF BackoffOver, Row
    <3>3. QED BY <1>2, <3>1, <3>2
  <2>2. drain' = drain /\ hist' = hist
    BY <1>2 DEF Enqueue, BackoffOver
  <2>3. QED BY <2>1, <2>2 DEF InHand, Cur
<1>3. CASE \/ Tick \/ LoopEnds \/ TakeItem \/ Paced \/ Cancelled \/ NextPiece
  <2>1. row' = row /\ hist' = hist /\ drain.pc \in {"idle", "next", "pace", "compose", "more"}
    BY <1>3 DEF Tick, LoopEnds, TakeItem, CanTake, Paced, Cancelled, NextPiece
  <2>2. ~InHand(i)
    BY <2>1 DEF InHand
  <2>3. QED BY <1>1, <2>1, <2>2
<1>4. CASE SkipBadJID \/ Finish
  <2>1. Cur \in Items /\ row[Cur].st = "queued" /\ drain.pc \in {"next", "finish"}
    BY <1>0, <1>4 DEF SkipBadJID, CanTake, Finish
  <2>2. /\ row'[i].progress = row[i].progress /\ row'[i].retry = row[i].retry
        /\ row'[i].st = (IF i = Cur THEN "sent" ELSE row[i].st) /\ hist' = hist
    BY <1>0, <1>4, <2>1 DEF SkipBadJID, Finish, Row
  <2>3. InHand(i) => i \in MediaItems /\ row'[i].st = "sent"
    BY <2>1, <2>2 DEF InHand
  <2>4. row'[i].st = row[i].st \/ (row[i].st # "dead" /\ row[i].st # "sent")
    BY <2>1, <2>2
  <2>5. QED BY <1>1, <2>2, <2>3, <2>4
<1>5. CASE SendOk
  <2>1. drain.batch # <<>> /\ Cur \in Items /\ row[Cur].st = "queued" /\ drain.pc = "compose"
    BY <1>0, <1>5 DEF SendOk
  <2>2. /\ hist'.calls[i] = hist.calls[i] + (IF i = Cur THEN 1 ELSE 0)
        /\ hist'.restarts = hist.restarts /\ row' = row
    <3>1. hist'.calls = [hist.calls EXCEPT ![Cur] = @ + 1] /\ hist'.restarts = hist.restarts
      BY <1>5, <2>1, TookFields DEF SendOk
    <3>2. row' = row
      BY <1>5 DEF SendOk, kept
    <3>3. hist.calls \in [Items -> Nat]
      BY <1>0 DEF History
    <3>4. QED BY <2>1, <3>1, <3>2, <3>3, UnackedUp
  <2>3. ~InHand(i) /\ (InHand(i)' <=> i = Cur)
    <3>1. drain'.pc = "record" /\ drain'.batch = drain.batch
      BY <1>0, <1>5 DEF SendOk, Drain
    <3>2. QED BY <2>1, <3>1 DEF InHand, Cur
  <2>4. CASE i = Cur
    <3>1. hist.calls[i] <= row[i].progress + row[i].retry + hist.restarts
      BY <1>00, <2>1, <2>3, <2>4
    <3>2. InHand(i)' /\ row'[i].st # "dead" /\ hist'.calls[i] = hist.calls[i] + 1
      BY <2>1, <2>2, <2>3, <2>4
    <3>3. QED BY <1>00, <2>2, <3>1, <3>2
  <2>5. CASE i # Cur
    <3>1. hist'.calls[i] = hist.calls[i] /\ (InHand(i) <=> InHand(i)')
      BY <1>00, <2>2, <2>3, <2>5
    <3>2. QED BY <1>00, <2>2, <3>1
  <2>6. QED BY <2>4, <2>5
<1>6. CASE SendFails
  <2>1. drain.batch # <<>> /\ Cur \in Items /\ row[Cur].st = "queued" /\ drain.pc = "compose"
    BY <1>0, <1>6 DEF SendFails
  <2>2. /\ hist'.calls[i] = hist.calls[i] + (IF i = Cur THEN 1 ELSE 0)
        /\ hist'.restarts = hist.restarts
    <3>1. hist'.calls = [hist.calls EXCEPT ![Cur] = @ + 1] /\ hist'.restarts = hist.restarts
      <4>1. CASE hist' = [hist EXCEPT !.calls[Cur] = @ + 1]
        BY <1>0, <4>1 DEF History
      <4>2. CASE hist' = [Took(hist) EXCEPT !.unacked[Cur] = @ + 1,
                                            !.excused = hist.excused + 1]
        <5> DEFINE took == Took(hist)
        <5>1. /\ took \in History /\ took.restarts = hist.restarts
              /\ took.calls = [hist.calls EXCEPT ![Cur] = @ + 1]
          BY <2>1, TookFields
        <5> HIDE DEF took
        <5>2. hist'.calls = took.calls /\ hist'.restarts = took.restarts
          <6>1. hist' = [took EXCEPT !.unacked[Cur] = @ + 1, !.excused = hist.excused + 1]
            BY <4>2 DEF took
          <6>2. QED BY <5>1, <6>1 DEF History
        <5>3. QED BY <5>1, <5>2
      <4>3. QED BY <1>6, <4>1, <4>2 DEF SendFails
    <3>2. hist.calls \in [Items -> Nat]
      BY <1>0 DEF History
    <3>3. QED BY <2>1, <3>1, <3>2, UnackedUp
  <2>3. /\ row'[i].progress = row[i].progress
        /\ i # Cur => row'[i] = row[i]
        /\ i = Cur => \/ row'[i].st = "dead" /\ row'[i].retry = row[i].retry
                      \/ row'[i].st = "queued" /\ row'[i].retry = row[i].retry + 1
    BY <1>0, <1>6, <2>1 DEF SendFails, RetryOrDeadLetter, Row
  <2>4. ~InHand(i)
    BY <2>1 DEF InHand
  <2>5. CASE i = Cur
    <3>1. hist.calls[i] <= row[i].progress + row[i].retry + hist.restarts
      BY <1>00, <2>1, <2>4, <2>5
    <3>2. hist'.calls[i] = hist.calls[i] + 1
      BY <2>2, <2>5
    <3>3. hist'.calls[i] <= row'[i].progress + row'[i].retry + hist'.restarts
                            + (IF row'[i].st = "dead" THEN 1 ELSE 0)
      BY <1>00, <2>2, <2>3, <2>5, <3>1, <3>2
    <3>4. QED BY <1>00, <3>3
  <2>6. CASE i # Cur
    <3>1. hist'.calls[i] = hist.calls[i] /\ row'[i] = row[i]
      BY <1>00, <2>2, <2>3, <2>6
    <3>2. QED BY <1>00, <2>2, <2>4, <3>1
  <2>7. QED BY <2>5, <2>6
<1>7. CASE RecordSent
  <2>1. /\ drain.pc = "record" /\ row' = row /\ hist' = hist /\ drain.batch # <<>>
        /\ drain'.pc = (IF Cur \in MediaItems THEN "finish" ELSE "progress")
        /\ drain'.batch = drain.batch
    BY <1>0, <1>7 DEF RecordSent, Goto, Drain
  <2>2. InHand(i) => InHand(i)'
    BY <2>1 DEF InHand, Cur
  <2>3. QED BY <1>1, <2>1, <2>2
<1>8. CASE SaveProgress
  <2>1. /\ drain.pc = "progress" /\ drain.batch # <<>> /\ Cur \in Items /\ hist' = hist
        /\ drain.at = row[Cur].progress /\ Cur \notin MediaItems /\ row[Cur].st = "queued"
    BY <1>0, <1>8 DEF SaveProgress, PieceInv
  <2>2. /\ row'[i].progress = row[i].progress + (IF i = Cur THEN 1 ELSE 0)
        /\ row'[i].retry = row[i].retry /\ row'[i].st = row[i].st
    BY <1>0, <1>00, <1>8, <2>1 DEF SaveProgress, Row
  <2>3. InHand(i) => i = Cur
    BY DEF InHand
  <2>4. CASE i = Cur
    <3>1. hist.calls[i] <= row[i].progress + row[i].retry + hist.restarts + 1
      BY <1>00, <2>1, <2>4
    <3>2. row'[i].progress = row[i].progress + 1
      BY <2>2, <2>4
    <3>3. /\ row'[i].retry = row[i].retry /\ hist'.calls[i] = hist.calls[i]
          /\ hist'.restarts = hist.restarts
      BY <2>1, <2>2
    <3>4. hist'.calls[i] <= row'[i].progress + row'[i].retry + hist'.restarts
      BY <1>00, <3>1, <3>2, <3>3
    <3>5. QED BY <1>00, <3>4
  <2>5. CASE i # Cur
    <3>1. row'[i].progress = row[i].progress /\ ~InHand(i)
      BY <1>00, <2>2, <2>3, <2>5
    <3>2. QED BY <1>1, <2>1, <2>2, <3>1
  <2>6. QED BY <2>4, <2>5
<1>9. CASE Refill \/ Connect \/ Disconnect \/ Midnight \/ ApplyKill \/ Trip \/ Stop
           \/ (\E len \in Sizes : SetChunkMaxLen(len))
           \/ (\E kill \in BOOLEAN : PersistKill(kill)) \/ UNCHANGED vars
  <2>1. row' = row /\ drain' = drain
    BY <1>9 DEF Refill, Connect, Disconnect, Midnight, ApplyKill, Trip, Stop,
                SetChunkMaxLen, PersistKill, vars
  <2>2. hist'.calls = hist.calls /\ hist'.restarts = hist.restarts
    BY <1>0, <1>9 DEF Refill, Connect, Disconnect, Midnight, ApplyKill, Trip, Stop,
                      SetChunkMaxLen, PersistKill, vars, History
  <2>3. InHand(i) => InHand(i)'
    BY <2>1 DEF InHand, Cur
  <2>4. QED BY <1>1, <2>1, <2>2, <2>3
<1>10. CASE Restart
  <2>1. hist'.calls = hist.calls /\ hist'.restarts = hist.restarts + 1 /\ row' = row
    BY <1>10, RestartFields DEF Restart
  <2>2. QED BY <1>00, <2>1
<1>11. QED
  BY <1>1, <1>2, <1>3, <1>4, <1>5, <1>6, <1>7, <1>8, <1>9, <1>10, NextCases

-----------------------------------------------------------------------------
(* What went out today                                                     *)

LEMMA GovernorCount ==
    ASSUME OutboxAssumption, OutboxTypeOK, day' = day
    PROVE  /\ Admit => Today' = Today + 1 /\ gov'.today = day
           /\ Refuse => Today' = Today /\ (gov'.today = day \/ gov'.today = gov.today)
           /\ gov' = gov => Today' = Today
<1>1. gov \in Governor /\ Today \in Nat
  BY GovernorType DEF OutboxTypeOK
<1>2. Admit => Today' = Today + 1 /\ gov'.today = day
  <2>1. Admit => gov'.today = day /\ gov'.count = Today + 1
    BY <1>1 DEF Admit, Governor
  <2>2. QED BY <2>1 DEF Today
<1>3. Refuse => Today' = Today /\ (gov'.today = day \/ gov'.today = gov.today)
  <2>1. Refuse => gov' = gov \/ (gov'.today = day /\ gov'.count = Today)
    BY <1>1 DEF Refuse, Governor
  <2>2. QED BY <2>1 DEF Today
<1>4. QED BY <1>2, <1>3 DEF Today

LEMMA NewDay ==
    ASSUME OutboxAssumption, drain'.on <= day', gov'.today <= day',
           hist'.sentToday = 0, hist'.excused = 0, rowsToday' = 0,
           Admitted' = 0, Today' = 0, Unrecorded' \in Nat
    PROVE  CountInv'
<1>2. hist'.sentToday + Admitted' <= Today' + hist'.excused
  <2>1. hist'.sentToday + Admitted' = 0
    OBVIOUS
  <2>2. Today' + hist'.excused = 0
    OBVIOUS
  <2>3. QED BY <2>1, <2>2
<1>3. hist'.sentToday <= rowsToday' + hist'.excused + Unrecorded'
  OBVIOUS
<1>4. DailyMax > 0 => hist'.sentToday + Admitted' <= DailyMax + hist'.excused
  BY Constants
<1>5. QED BY <1>2, <1>3, <1>4 DEF CountInv

LEMMA CountStep ==
    ASSUME OutboxAssumption, OutboxTypeOK, BatchInv, CountInv, [Next]_vars, OutboxTypeOK'
    PROVE  CountInv'
<1> USE DEF kept
<1>0. /\ drain.pc \notin {"idle", "next"} => drain.batch # <<>>
      /\ drain \in Drain /\ hist \in History /\ gov \in Governor
      /\ drain' \in Drain /\ hist' \in History /\ gov' \in Governor
      /\ day \in Nat /\ day' \in Nat /\ rowsToday \in Nat /\ rowsToday' \in Nat
      /\ DailyMax \in Nat /\ Today \in Nat
  BY GovernorType, Constants DEF BatchInv, OutboxTypeOK
<1>00. /\ hist.sentToday \in Nat /\ hist.excused \in Nat
       /\ hist'.sentToday \in Nat /\ hist'.excused \in Nat
       /\ drain.on \in Nat /\ drain'.on \in Nat /\ gov.today \in Nat /\ gov'.today \in Nat
       /\ Admitted \in Nat /\ Unrecorded \in Nat /\ Admitted' \in Nat /\ Unrecorded' \in Nat
       /\ Today' \in Nat
  <2>1. /\ hist.sentToday \in Nat /\ hist.excused \in Nat
        /\ hist'.sentToday \in Nat /\ hist'.excused \in Nat
    BY <1>0 DEF History
  <2>2. drain.on \in Nat /\ drain'.on \in Nat
    BY <1>0, Constants DEF Drain
  <2>3. gov.today \in Nat /\ gov'.today \in Nat /\ Today' \in Nat
    BY <1>0, Constants DEF Governor, Today
  <2>4. QED BY <2>1, <2>2, <2>3 DEF Admitted, Unrecorded
<1> PICK sent \in Nat, admitted \in Nat, today \in Nat, excused \in Nat, rows \in Nat,
         unrecorded \in Nat :
      /\ sent = hist.sentToday /\ admitted = Admitted /\ today = Today
      /\ excused = hist.excused /\ rows = rowsToday /\ unrecorded = Unrecorded
  BY <1>0, <1>00
<1> PICK sent2 \in Nat, admitted2 \in Nat, today2 \in Nat, excused2 \in Nat, rows2 \in Nat,
         unrecorded2 \in Nat :
      /\ sent2 = hist'.sentToday /\ admitted2 = Admitted' /\ today2 = Today'
      /\ excused2 = hist'.excused /\ rows2 = rowsToday' /\ unrecorded2 = Unrecorded'
  BY <1>0, <1>00
<1> PICK on \in Nat, today0 \in Nat, d \in Nat, on2 \in Nat, today02 \in Nat, d2 \in Nat :
      /\ on = drain.on /\ today0 = gov.today /\ d = day
      /\ on2 = drain'.on /\ today02 = gov'.today /\ d2 = day'
  BY <1>0, <1>00
<1>c. DailyMax \in Nat
  BY <1>0
<1>a. /\ on <= d /\ today0 <= d
      /\ sent + admitted <= today + excused /\ sent <= rows + excused + unrecorded
      /\ DailyMax > 0 => sent + admitted <= DailyMax + excused
  BY DEF CountInv
<1>b. /\ on2 <= d2 /\ today02 <= d2
      /\ sent2 + admitted2 <= today2 + excused2 /\ sent2 <= rows2 + excused2 + unrecorded2
      /\ DailyMax > 0 => sent2 + admitted2 <= DailyMax + excused2
      => CountInv'
  BY DEF CountInv
<1>1. ASSUME Admitted' <= Admitted, Today <= Today', Unrecorded' = Unrecorded,
             hist'.sentToday = hist.sentToday, hist'.excused = hist.excused,
             rowsToday' = rowsToday, drain'.on <= day', gov'.today <= day'
      PROVE  CountInv'
  <2>1. /\ sent2 = sent /\ excused2 = excused /\ rows2 = rows /\ unrecorded2 = unrecorded
        /\ admitted2 <= admitted /\ today <= today2 /\ on2 <= d2 /\ today02 <= d2
    BY <1>1
  <2>2. QED BY <1>a, <1>b, <1>c, <2>1
<1>2. ASSUME drain' = drain, hist' = hist, gov' = gov, UNCHANGED <<day, rowsToday>>
      PROVE  CountInv'
  <2>1. Admitted' = Admitted /\ Unrecorded' = Unrecorded /\ Today' = Today
    BY <1>2 DEF Admitted, Unrecorded, Today
  <2>2. QED BY <1>1, <1>2, <2>1, <1>0, <1>00, <1>a, <1>b
<1>3. ASSUME NEW i \in Items, Enqueue(i) \/ BackoffOver(i)
      PROVE  CountInv'
  BY <1>2, <1>3 DEF Enqueue, BackoffOver
<1>4. ASSUME Rest, drain.pc # "record", hist' = hist, UNCHANGED <<day, rowsToday>>,
             Refuse \/ gov' = gov
      PROVE  CountInv'
  <2>1. drain'.pc = "idle" /\ drain'.on = drain.on
    BY <1>0, <1>4 DEF Rest, Drain
  <2>2. Admitted' = 0 /\ Unrecorded' = 0 /\ Unrecorded = 0
    BY <1>4, <2>1 DEF Admitted, Unrecorded
  <2>3. Today' = Today /\ (gov'.today = day \/ gov'.today = gov.today)
    BY <1>4, GovernorCount
  <2>4. drain'.on <= day' /\ gov'.today <= day' /\ Admitted' <= Admitted /\ Today <= Today'
    <3>1. /\ on2 = on /\ d2 = d /\ today02 \in {d, today0} /\ today2 = today
          /\ admitted2 = 0
      BY <1>4, <2>1, <2>2, <2>3
    <3>2. on2 <= d2 /\ today02 <= d2 /\ admitted2 <= admitted /\ today <= today2
      BY <1>a, <3>1
    <3>3. QED BY <3>2
  <2>5. QED BY <1>1, <1>4, <2>2, <2>4
<1>5. CASE LoopEnds \/ Cancelled
  BY <1>4, <1>5 DEF LoopEnds, Cancelled
<1>6. CASE SkipBadJID
  <2>1. drain.pc = "next" /\ drain'.pc = "next" /\ drain'.on = drain.on /\ Admit
    BY <1>0, <1>6 DEF SkipBadJID, CanTake, NextItem, Drain
  <2>2. Admitted' = 0 /\ Unrecorded' = 0 /\ Unrecorded = 0 /\ Admitted = 0
    BY <2>1 DEF Admitted, Unrecorded
  <2>3. hist' = hist /\ UNCHANGED <<day, rowsToday>>
    BY <1>6 DEF SkipBadJID
  <2>4. Today' = Today + 1 /\ gov'.today = day
    BY <2>1, <2>3, GovernorCount
  <2>5. drain'.on <= day' /\ gov'.today <= day' /\ Admitted' <= Admitted /\ Today <= Today'
    BY <1>0, <1>00, <2>1, <2>2, <2>3, <2>4, <1>a, <1>b
  <2>6. QED BY <1>1, <2>2, <2>3, <2>5
<1>7. ASSUME Admit, Allow, drain.pc \in {"next", "more"}, drain'.pc \in {"pace", "compose"},
             drain'.on = day, hist' = hist, UNCHANGED <<day, rowsToday>>
      PROVE  CountInv'
  <2>1. Admitted' = 1 /\ Unrecorded' = 0 /\ Unrecorded = 0 /\ Admitted = 0
    BY <1>7 DEF Admitted, Unrecorded
  <2>2. Today' = Today + 1 /\ gov'.today = day
    BY <1>7, GovernorCount
  <2>3. DailyMax > 0 => Today < DailyMax
    BY <1>7 DEF Allow
  <2>4. /\ sent2 = sent /\ excused2 = excused /\ rows2 = rows /\ unrecorded2 = 0
        /\ unrecorded = 0 /\ admitted2 = 1 /\ today2 = today + 1 /\ on2 = d2 /\ today02 = d2
        /\ DailyMax > 0 => today < DailyMax
    BY <1>7, <2>1, <2>2, <2>3
  <2>5. QED BY <1>a, <1>b, <1>c, <2>4
<1>8. CASE TakeItem
  <2>1. /\ Admit /\ Allow /\ drain.pc = "next" /\ drain'.pc = "pace" /\ drain'.on = day
        /\ hist' = hist /\ UNCHANGED <<day, rowsToday>>
    BY <1>0, <1>8 DEF TakeItem, CanTake, Drain
  <2>2. QED BY <1>7, <2>1
<1>9. CASE NextPiece
  <2>1. drain.pc = "more" /\ hist' = hist /\ UNCHANGED <<day, rowsToday>>
    BY <1>9 DEF NextPiece
  <2>2. CASE Rest /\ (Refuse \/ gov' = gov)
    BY <1>4, <2>1, <2>2
  <2>3. CASE ~(Rest /\ (Refuse \/ gov' = gov))
    <3>1. Admit /\ Allow /\ drain'.pc = "compose" /\ drain'.on = day
      BY <1>0, <1>9, <2>3 DEF NextPiece, Drain
    <3>2. QED BY <1>7, <2>1, <3>1
  <2>4. QED BY <2>2, <2>3
<1>10. CASE Paced
  <2>1. drain.pc = "pace" /\ hist' = hist /\ gov' = gov /\ UNCHANGED <<day, rowsToday>>
    BY <1>10 DEF Paced
  <2>2. CASE Rest
    BY <1>4, <2>1, <2>2
  <2>3. CASE ~Rest
    <3>1. drain'.pc \in {"compose", "finish"} /\ drain'.on = drain.on
      BY <1>0, <1>10, <2>3 DEF Paced, Drain
    <3>2. Admitted' <= Admitted /\ Unrecorded' = 0 /\ Unrecorded = 0 /\ Today' = Today
      BY <2>1, <3>1 DEF Admitted, Unrecorded, Today
    <3>3. QED BY <1>0, <1>00, <1>1, <2>1, <3>1, <3>2, <1>a, <1>b
  <2>4. QED BY <2>2, <2>3
<1>11. CASE SendOk
  <2>1. /\ drain.pc = "compose" /\ drain'.pc = "record" /\ drain'.on = day
        /\ gov' = gov /\ UNCHANGED <<day, rowsToday>> /\ drain.batch # <<>>
    BY <1>0, <1>11 DEF SendOk, Drain
  <2>2. /\ hist'.sentToday = hist.sentToday + 1
        /\ hist'.excused = IF drain.on # day THEN hist.excused + 1 ELSE hist.excused
    BY <1>11, <2>1, TookFields DEF SendOk
  <2>3. /\ Admitted' = 0 /\ Unrecorded' = 1 /\ Unrecorded = 0 /\ Today' = Today
        /\ Admitted = IF drain.on = day THEN 1 ELSE 0
    BY <2>1 DEF Admitted, Unrecorded, Today
  <2>4. /\ sent2 = sent + 1 /\ excused2 = (IF on # d THEN excused + 1 ELSE excused)
        /\ admitted = (IF on = d THEN 1 ELSE 0) /\ admitted2 = 0 /\ today2 = today
        /\ rows2 = rows /\ unrecorded2 = 1 /\ unrecorded = 0
        /\ on2 = d2 /\ d2 = d /\ today02 = today0
    BY <2>1, <2>2, <2>3
  <2>5. QED BY <1>a, <1>b, <1>c, <2>4
<1>12. CASE SendFails
  <2>1. /\ drain.pc = "compose" /\ drain'.pc = "next" /\ drain'.on = drain.on
        /\ gov' = gov /\ UNCHANGED <<day, rowsToday>> /\ drain.batch # <<>>
    BY <1>0, <1>12 DEF SendFails, NextItem, Drain
  <2>2. Admitted' = 0 /\ Unrecorded' = 0 /\ Unrecorded = 0 /\ Today' = Today
    BY <2>1 DEF Admitted, Unrecorded, Today
  <2>3. CASE hist' = [hist EXCEPT !.calls[Cur] = @ + 1]
    <3>1. hist'.sentToday = hist.sentToday /\ hist'.excused = hist.excused
      BY <1>0, <2>3 DEF History
    <3>2. QED BY <1>0, <1>00, <1>1, <2>1, <2>2, <3>1, <1>a, <1>b
  <2>4. CASE hist' = [Took(hist) EXCEPT !.unacked[Cur] = @ + 1,
                                        !.excused = hist.excused + 1]
    <3> DEFINE took == Took(hist)
    <3>1. took \in History /\ took.sentToday = hist.sentToday + 1
      BY <2>1, TookFields
    <3>2. hist' = [took EXCEPT !.unacked[Cur] = @ + 1, !.excused = hist.excused + 1]
      BY <2>4
    <3> HIDE DEF took
    <3>3. hist'.sentToday = hist.sentToday + 1 /\ hist'.excused = hist.excused + 1
      BY <3>1, <3>2 DEF History
    <3>4. /\ sent2 = sent + 1 /\ excused2 = excused + 1 /\ admitted2 = 0 /\ today2 = today
          /\ rows2 = rows /\ unrecorded2 = 0 /\ unrecorded = 0
          /\ on2 = on /\ d2 = d /\ today02 = today0
      BY <2>1, <2>2, <3>3
    <3>5. QED BY <1>a, <1>b, <1>c, <3>4
  <2>5. QED BY <1>12, <2>3, <2>4 DEF SendFails
<1>13. CASE RecordSent
  <2>1. /\ drain.pc = "record" /\ drain'.pc \in {"progress", "finish"} /\ drain'.on = drain.on
        /\ gov' = gov /\ day' = day /\ hist' = hist
        /\ rowsToday' = IF drain.on = day THEN rowsToday + 1 ELSE rowsToday
    BY <1>0, <1>13 DEF RecordSent, Goto, Drain
  <2>2. /\ Admitted' = 0 /\ Admitted = 0 /\ Unrecorded' = 0 /\ Today' = Today
        /\ Unrecorded = IF drain.on = day THEN 1 ELSE 0
    BY <2>1 DEF Admitted, Unrecorded, Today
  <2>3. QED BY <1>0, <1>00, <2>1, <2>2, <1>a, <1>b
<1>14. CASE SaveProgress \/ Finish \/ Tick
  <2>1. /\ drain.pc \in {"progress", "finish", "idle"}
        /\ drain'.pc \in {"more", "finish", "next"} /\ drain'.on = drain.on
        /\ gov' = gov /\ UNCHANGED <<day, rowsToday>> /\ hist' = hist
    BY <1>0, <1>14 DEF SaveProgress, Finish, NextItem, Tick, Drain
  <2>2. Admitted' = 0 /\ Admitted = 0 /\ Unrecorded' = 0 /\ Unrecorded = 0 /\ Today' = Today
    BY <2>1 DEF Admitted, Unrecorded, Today
  <2>3. QED BY <1>0, <1>00, <1>1, <2>1, <2>2, <1>a, <1>b
<1>15. CASE Connect \/ Disconnect \/ Stop \/ (\E len \in Sizes : SetChunkMaxLen(len))
            \/ UNCHANGED vars
  BY <1>2, <1>15 DEF Connect, Disconnect, Stop, SetChunkMaxLen, vars
<1>16. CASE Refill \/ (\E kill \in BOOLEAN : PersistKill(kill)) \/ ApplyKill \/ Trip
  <2>1. drain' = drain /\ UNCHANGED <<day, rowsToday>>
    BY <1>16 DEF Refill, PersistKill, ApplyKill, Trip
  <2>2. gov'.today = gov.today /\ gov'.count = gov.count
    <3>1. CASE Refill
      BY <1>0, <3>1 DEF Refill, Governor
    <3>2. CASE \E kill \in BOOLEAN : PersistKill(kill)
      BY <1>0, <3>2 DEF PersistKill, Governor
    <3>3. CASE ApplyKill
      BY <1>0, <3>3 DEF ApplyKill, Governor
    <3>4. CASE Trip
      BY <1>0, <3>4 DEF Trip, Governor
    <3>5. QED BY <1>16, <3>1, <3>2, <3>3, <3>4
  <2>3. hist'.sentToday = hist.sentToday /\ hist'.excused = hist.excused
    <3>1. CASE Refill
      BY <1>0, <3>1 DEF Refill
    <3>2. CASE \E kill \in BOOLEAN : PersistKill(kill)
      BY <1>0, <3>2 DEF PersistKill, History
    <3>3. CASE ApplyKill
      BY <1>0, <3>3 DEF ApplyKill, History
    <3>4. CASE Trip
      BY <1>0, <3>4 DEF Trip, History
    <3>5. QED BY <1>16, <3>1, <3>2, <3>3, <3>4
  <2>4. Admitted' = Admitted /\ Unrecorded' = Unrecorded /\ Today' = Today
    BY <2>1, <2>2 DEF Admitted, Unrecorded, Today
  <2>5. QED BY <1>0, <1>00, <1>1, <2>1, <2>2, <2>3, <2>4, <1>a, <1>b
<1>17. CASE Midnight
  <2>1. /\ day' = day + 1 /\ rowsToday' = 0 /\ drain' = drain /\ gov' = gov
        /\ hist'.sentToday = 0 /\ hist'.excused = 0
    BY <1>0, <1>17 DEF Midnight, History
  <2>2. on2 # d2 /\ today02 # d2 /\ on2 <= d2 /\ today02 <= d2
    <3>1. on2 = on /\ d2 = d + 1 /\ today02 = today0
      BY <2>1
    <3>2. QED BY <1>a, <3>1
  <2>3. Admitted' = 0 /\ Today' = 0
    BY <2>2 DEF Admitted, Today
  <2>4. QED BY <1>00, <2>1, <2>2, <2>3, NewDay
<1>18. CASE Restart
  <2>1. /\ day' = day /\ rowsToday' = rowsToday /\ drain'.on = 0 /\ drain'.pc = "idle"
        /\ gov'.today = day /\ gov'.count = rowsToday
    BY <1>18 DEF Restart, SeededGovernor
  <2>2. hist'.sentToday = hist.sentToday /\ hist'.excused = hist.excused + Unrecorded
    BY <1>18, RestartFields
  <2>3. Admitted' = 0 /\ Unrecorded' = 0 /\ Today' = rowsToday
    BY <2>1 DEF Admitted, Unrecorded, Today
  <2>4. /\ sent2 = sent /\ excused2 = excused + unrecorded /\ admitted2 = 0 /\ today2 = rows
        /\ rows2 = rows /\ unrecorded2 = 0 /\ on2 = 0 /\ d2 = d /\ today02 = d
    BY <2>1, <2>2, <2>3
  <2>5. QED BY <1>a, <1>b, <1>c, <2>4
<1>19. QED
  BY <1>3, <1>5, <1>6, <1>8, <1>9, <1>10, <1>11, <1>12, <1>13, <1>14, <1>15, <1>16, <1>17,
     <1>18, NextCases

-----------------------------------------------------------------------------
(* The kill switch                                                         *)

LEMMA KillStep ==
    ASSUME OutboxAssumption, OutboxTypeOK, BatchInv, KillInv, [Next]_vars
    PROVE  KillInv'
<1> USE DEF kept
<1>0. /\ drain.pc \notin {"idle", "next"} => drain.batch # <<>>
      /\ drain \in Drain /\ hist \in History /\ gov \in Governor /\ hist.sinceKill \in Nat
      /\ muted \in BOOLEAN /\ gov.kill \in BOOLEAN
  BY DEF BatchInv, OutboxTypeOK, History, Governor
<1>1. ASSUME hist'.sinceKill = hist.sinceKill, gov'.kill = gov.kill, muted' = muted,
             drain'.pc = "compose" => drain.pc = "compose" \/ ~killSwitchActive
      PROVE  KillInv'
  <2>1. killSwitchActive' <=> killSwitchActive
    BY <1>1 DEF killSwitchActive
  <2>2. QED BY <1>1, <2>1 DEF KillInv
<1>2. ASSUME NEW i \in Items, Enqueue(i) \/ BackoffOver(i)
      PROVE  KillInv'
  BY <1>1, <1>2 DEF Enqueue, BackoffOver
<1>3. /\ Admit => gov'.kill = gov.kill
      /\ Refuse => gov'.kill = gov.kill
      /\ Rest => drain'.pc = "idle"
      /\ NextItem => drain'.pc = "next"
  BY <1>0 DEF Admit, Refuse, Rest, NextItem, Governor, Drain
<1>4. CASE LoopEnds \/ SkipBadJID \/ Cancelled \/ Finish
  <2>1. hist' = hist /\ muted' = muted /\ drain'.pc \in {"idle", "next"}
    BY <1>3, <1>4 DEF LoopEnds, SkipBadJID, Cancelled, Finish
  <2>2. gov'.kill = gov.kill
    BY <1>3, <1>4 DEF LoopEnds, SkipBadJID, Cancelled, Finish
  <2>3. QED BY <1>1, <2>1, <2>2
<1>5. CASE Tick \/ TakeItem \/ RecordSent \/ SaveProgress
  <2>1. /\ hist' = hist /\ muted' = muted
        /\ drain'.pc \in {"next", "pace", "finish", "progress", "more"}
    BY <1>0, <1>5 DEF Tick, TakeItem, RecordSent, SaveProgress, Goto, Drain
  <2>2. gov'.kill = gov.kill
    BY <1>3, <1>5 DEF Tick, TakeItem, RecordSent, SaveProgress
  <2>3. QED BY <1>1, <2>1, <2>2
<1>6. CASE Paced
  <2>1. /\ hist' = hist /\ gov' = gov /\ muted' = muted
        /\ drain'.pc = "compose" => ~killSwitchActive
    BY <1>3, <1>6 DEF Paced
  <2>2. QED BY <1>1, <2>1
<1>7. CASE NextPiece
  <2>1. /\ hist' = hist /\ muted' = muted /\ gov'.kill = gov.kill
        /\ drain'.pc = "compose" => ~killSwitchActive
    BY <1>3, <1>7 DEF NextPiece, MayGoOn
  <2>2. QED BY <1>1, <2>1
<1>8. ASSUME drain.pc = "compose", drain'.pc # "compose", gov' = gov, muted' = muted,
             hist'.sinceKill = IF killSwitchActive THEN hist.sinceKill + 1 ELSE 0
      PROVE  KillInv'
  <2>1. killSwitchActive' <=> killSwitchActive
    BY <1>8 DEF killSwitchActive
  <2>2. hist.sinceKill = 0
    BY <1>8 DEF KillInv
  <2>3. QED BY <1>8, <2>1, <2>2 DEF KillInv
<1>9. CASE SendOk
  <2>1. drain.pc = "compose" /\ drain'.pc = "record" /\ gov' = gov /\ muted' = muted
    BY <1>0, <1>9 DEF SendOk, Drain
  <2>2. hist'.sinceKill = IF killSwitchActive THEN hist.sinceKill + 1 ELSE 0
    BY <1>0, <1>9, <2>1, TookFields DEF SendOk
  <2>3. QED BY <1>8, <2>1, <2>2
<1>10. CASE SendFails
  <2>1. drain.pc = "compose" /\ drain'.pc = "next" /\ gov' = gov /\ muted' = muted
    BY <1>0, <1>3, <1>10 DEF SendFails
  <2>2. CASE hist' = [hist EXCEPT !.calls[Cur] = @ + 1]
    <3>1. hist'.sinceKill = hist.sinceKill
      BY <1>0, <2>2 DEF History
    <3>2. QED BY <1>1, <2>1, <3>1
  <2>3. CASE hist' = [Took(hist) EXCEPT !.unacked[Cur] = @ + 1,
                                        !.excused = hist.excused + 1]
    <3> DEFINE took == Took(hist)
    <3>1. /\ took \in History
          /\ took.sinceKill = IF killSwitchActive THEN hist.sinceKill + 1 ELSE 0
      BY <1>0, <2>1, TookFields
    <3>2. hist' = [took EXCEPT !.unacked[Cur] = @ + 1, !.excused = hist.excused + 1]
      BY <2>3
    <3> HIDE DEF took
    <3>3. hist'.sinceKill = took.sinceKill
      BY <3>1, <3>2 DEF History
    <3>4. hist'.sinceKill = IF killSwitchActive THEN hist.sinceKill + 1 ELSE 0
      BY <3>1, <3>3
    <3>5. QED BY <1>8, <2>1, <3>4
  <2>4. QED BY <1>10, <2>2, <2>3 DEF SendFails
<1>11. CASE Refill \/ Connect \/ Disconnect \/ Midnight \/ Stop
            \/ (\E len \in Sizes : SetChunkMaxLen(len)) \/ (\E kill \in BOOLEAN : PersistKill(kill))
            \/ UNCHANGED vars
  <2>1. drain' = drain /\ muted' = muted
    BY <1>11 DEF Refill, Connect, Disconnect, Midnight, Stop, SetChunkMaxLen, PersistKill, vars
  <2>2. gov'.kill = gov.kill
    BY <1>0, <1>11 DEF Refill, Connect, Disconnect, Midnight, Stop, SetChunkMaxLen,
                       PersistKill, vars, Governor
  <2>3. hist'.sinceKill = hist.sinceKill
    BY <1>0, <1>11 DEF Refill, Connect, Disconnect, Midnight, Stop, SetChunkMaxLen,
                       PersistKill, vars, History
  <2>4. QED BY <1>1, <2>1, <2>2, <2>3
<1>12. CASE ApplyKill
  <2>1. drain' = drain
    BY <1>12 DEF ApplyKill
  <2>2. CASE Head(killCall.todo) = "governor"
    <3>1. /\ gov'.kill = killCall.kill /\ muted' = muted
          /\ hist'.sinceKill = IF killCall.kill \/ muted THEN hist.sinceKill ELSE 0
      BY <1>0, <1>12, <2>2 DEF ApplyKill, Governor, History
    <3>2. QED BY <2>1, <3>1 DEF KillInv, killSwitchActive
  <2>3. CASE Head(killCall.todo) # "governor"
    <3>1. /\ gov' = gov /\ muted' = killCall.kill
          /\ hist'.sinceKill = IF killCall.kill \/ gov.kill THEN hist.sinceKill ELSE 0
      BY <1>0, <1>12, <2>3 DEF ApplyKill, History
    <3>2. QED BY <2>1, <3>1 DEF KillInv, killSwitchActive
  <2>4. QED BY <2>2, <2>3
<1>13. CASE Trip
  <2>1. drain' = drain /\ muted' /\ hist'.sinceKill = hist.sinceKill
    BY <1>0, <1>13 DEF Trip, History
  <2>2. QED BY <2>1 DEF KillInv, killSwitchActive
<1>14. CASE Restart
  <2>1. drain'.pc = "idle" /\ muted' = killSetting
    BY <1>14 DEF Restart
  <2>2. hist'.sinceKill = IF killSetting THEN hist.sinceKill ELSE 0
    BY <1>14, RestartFields
  <2>3. QED BY <2>1, <2>2 DEF KillInv, killSwitchActive
<1>15. QED
  BY <1>2, <1>4, <1>5, <1>6, <1>7, <1>9, <1>10, <1>11, <1>12, <1>13, <1>14, NextCases

LEMMA CallStep ==
    ASSUME OutboxTypeOK, CallInv, [Next]_vars
    PROVE  CallInv'
<1> USE DEF kept
<1>1. CASE UNCHANGED killCall
  BY <1>1 DEF CallInv
<1>2. ASSUME NEW kill \in BOOLEAN, PersistKill(kill)
      PROVE  CallInv'
  BY <1>2 DEF PersistKill, CallInv
<1>3. CASE ApplyKill
  <2>1. killCall.todo \in {<<"governor", "state">>, <<"state">>}
    BY <1>3 DEF ApplyKill, CallInv
  <2>2. CASE killCall.todo = <<"governor", "state">>
    <3>1. Head(killCall.todo) = "governor" /\ Tail(killCall.todo) = <<"state">>
      BY <2>2
    <3>2. killCall'.todo = <<"state">>
      BY <1>3, <3>1 DEF ApplyKill, OutboxTypeOK
    <3>3. QED BY <3>2 DEF CallInv
  <2>3. CASE killCall.todo = <<"state">>
    <3>1. Head(killCall.todo) # "governor"
      BY <2>3
    <3>2. QED BY <1>3, <3>1 DEF ApplyKill, CallInv
  <2>4. QED BY <2>1, <2>2, <2>3
<1>4. CASE Restart
  BY <1>4 DEF Restart, CallInv
<1>5. QED
  BY <1>1, <1>2, <1>3, <1>4
     DEF Next, DrainStep, Enqueue, BackoffOver, Tick, LoopEnds, SkipBadJID, TakeItem, Paced,
         Cancelled, SendOk, SendFails, RecordSent, SaveProgress, NextPiece, Finish, Refill,
         Connect, Disconnect, Midnight, SetChunkMaxLen, Trip, Stop, vars

-----------------------------------------------------------------------------
(* Theorems                                                                *)

LEMMA OutboxInit ==
    ASSUME OutboxAssumption, Init
    PROVE  OutboxIInv
<1> USE Constants DEF Init
<1>1. OutboxTypeOK
  <2>1. row \in [Items -> Row]
    BY DEF Row
  <2>2. hist \in History
    BY DEF History
  <2>3. drain \in Drain
    BY DEF Drain
  <2>4. gov \in Governor
    BY DEF Governor
  <2>5. killCall \in [todo : Seq({"governor", "state"}), kill : BOOLEAN]
    BY DEF NoCall
  <2>6. QED BY <2>1, <2>2, <2>3, <2>4, <2>5 DEF OutboxTypeOK
<1>2. BatchInv /\ PieceInv /\ KillInv /\ CallInv
  BY DEF BatchInv, PieceInv, KillInv, CallInv
<1>3. TriesInv
  BY DEF TriesInv, InHand
<1>4. CountInv
  <2>1. Admitted = 0 /\ Unrecorded = 0 /\ Today = 0
    BY DEF Admitted, Unrecorded, Today
  <2>2. QED BY <2>1 DEF CountInv
<1>5. QED BY <1>1, <1>2, <1>3, <1>4 DEF OutboxIInv

(* The inductive invariant: the order of the batch, the piece in hand, the *)
(* tries of every item, the three counts of the day and the kill switch.   *)
THEOREM OutboxIInvHolds ==
    ASSUME OutboxAssumption
    PROVE  Spec => []OutboxIInv
<1>1. Init => OutboxIInv
  BY OutboxInit
<1>2. OutboxIInv /\ [Next]_vars => OutboxIInv'
  BY OutboxTypeStep, BatchStep, PieceStep, TriesStep, CountStep, KillStep, CallStep
     DEF OutboxIInv
<1>3. QED BY <1>1, <1>2, PTL DEF Spec

LEMMA WithinLimits ==
    ASSUME OutboxAssumption, OutboxIInv
    PROVE  OutboxSafe
<1> USE Constants
<1>1. OutboxTypeOK /\ BatchInv /\ PieceInv /\ TriesInv /\ CountInv /\ KillInv
  BY DEF OutboxIInv
<1>2. AttemptsBounded
  <2> SUFFICES ASSUME NEW i \in Items
               PROVE  hist.calls[i] <= TextLen + MaxRetry + hist.restarts
    BY DEF AttemptsBounded
  <2>1. /\ hist.calls[i] \in Nat /\ row[i].progress \in 0..TextLen
        /\ row[i].retry \in 0..MaxRetry - 1 /\ hist.restarts \in Nat
    BY <1>1 DEF OutboxTypeOK, Row, History
  <2>2. InHand(i) => row[i].st = "queued" /\ row[i].progress + 1 <= TextLen
    <3>1. InHand(i) => row[i].st = "queued" /\ i = Cur
      <4>1. InHand(i) => i = drain.batch[1] /\ 1 \in 1..Len(drain.batch) /\ i = Cur
        BY <1>1 DEF InHand, Cur, OutboxTypeOK, Drain
      <4>2. QED BY <1>1, <4>1 DEF BatchInv
    <3>2. CASE i \in MediaItems
      BY <1>1, <2>1, <3>1, <3>2 DEF PieceInv
    <3>3. CASE i \notin MediaItems
      <4>1. InHand(i) => row[i].progress < Pieces(i, drain.len)
        BY <1>1, <3>1, <3>3 DEF PieceInv, InHand
      <4>2. Pieces(i, drain.len) \in 1..TextLen
        BY <1>1, PiecesType DEF OutboxTypeOK, Drain
      <4>3. QED BY <2>1, <3>1, <4>1, <4>2
    <3>4. QED BY <3>2, <3>3
  <2>3. CASE InHand(i)
    <3>1. hist.calls[i] <= row[i].progress + row[i].retry + hist.restarts + 1
      BY <1>1, <2>1, <2>2, <2>3 DEF TriesInv
    <3>2. QED BY <2>1, <2>2, <2>3, <3>1
  <2>4. CASE ~InHand(i) /\ i \in MediaItems /\ row[i].st = "sent"
    <3>1. hist.calls[i] <= row[i].progress + row[i].retry + hist.restarts + 1
      BY <1>1, <2>1, <2>4 DEF TriesInv
    <3>2. row[i].progress = 0
      BY <1>1, <2>4 DEF PieceInv
    <3>3. QED BY <2>1, <3>1, <3>2
  <2>5. CASE ~InHand(i) /\ ~(i \in MediaItems /\ row[i].st = "sent")
    <3>1. hist.calls[i] <= row[i].progress + row[i].retry + hist.restarts + 1
      BY <1>1, <2>1, <2>5 DEF TriesInv
    <3>2. QED BY <2>1, <3>1
  <2>6. QED BY <2>3, <2>4, <2>5
<1>3. DailyCap
  <2>1. Admitted \in {0, 1} /\ hist.sentToday \in Nat /\ hist.excused \in Nat
    BY <1>1 DEF Admitted, OutboxTypeOK, History
  <2>2. DailyMax > 0 => hist.sentToday + Admitted <= DailyMax + hist.excused
    BY <1>1 DEF CountInv
  <2>3. QED BY <2>1, <2>2 DEF DailyCap
<1>4. AtMostOneAfterKill
  BY <1>1 DEF KillInv, AtMostOneAfterKill
<1>5. QED BY <1>1, <1>2, <1>3, <1>4 DEF OutboxSafe

(* The limits of the drain: a row is tried no more often than its pieces,  *)
(* its retries and the restarts explain, the daily cap holds across        *)
(* restarts up to the sends a crash left no row of, and at most one piece  *)
(* goes out after the brake is on (corepipeline/outbox.go, governor).      *)
THEOREM OutboxSafeHolds ==
    ASSUME OutboxAssumption
    PROVE  Spec => []OutboxSafe
BY OutboxIInvHolds, WithinLimits, PTL

LEMMA BrakeStep ==
    ASSUME OutboxAssumption, ~Trips, OutboxTypeOK, BatchInv, BrakeInv, [Next]_vars
    PROVE  BrakeInv'
<1> USE DEF kept
<1>0. gov \in Governor /\ hist \in History /\ killSetting \in BOOLEAN
      /\ killCall \in [todo : Seq({"governor", "state"}), kill : BOOLEAN]
  BY DEF OutboxTypeOK
<1>1. ASSUME gov'.kill = gov.kill, hist'.brake = hist.brake,
             UNCHANGED <<muted, killSetting, killCall>>
      PROVE  BrakeInv'
  BY <1>1 DEF BrakeInv
<1>2. /\ Admit => gov'.kill = gov.kill
      /\ Refuse => gov'.kill = gov.kill
  BY <1>0 DEF Admit, Refuse, Governor
<1>3. ASSUME NEW i \in Items, Enqueue(i) \/ BackoffOver(i)
      PROVE  BrakeInv'
  BY <1>1, <1>3 DEF Enqueue, BackoffOver
<1>4. CASE \/ Tick \/ LoopEnds \/ SkipBadJID \/ TakeItem \/ Paced \/ Cancelled \/ RecordSent
           \/ SaveProgress \/ NextPiece \/ Finish \/ Refill \/ Connect \/ Disconnect \/ Stop
           \/ (\E len \in Sizes : SetChunkMaxLen(len)) \/ UNCHANGED vars
  <2>1. hist' = hist /\ UNCHANGED <<muted, killSetting, killCall>>
    BY <1>4 DEF Tick, LoopEnds, SkipBadJID, TakeItem, Paced, Cancelled, RecordSent,
                SaveProgress, NextPiece, Finish, Refill, Connect, Disconnect, Stop,
                SetChunkMaxLen, vars
  <2>2. gov'.kill = gov.kill
    BY <1>0, <1>2, <1>4
       DEF Tick, LoopEnds, SkipBadJID, TakeItem, Paced, Cancelled, RecordSent,
           SaveProgress, NextPiece, Finish, Refill, Connect, Disconnect, Stop,
           SetChunkMaxLen, vars, Governor
  <2>3. QED BY <1>1, <2>1, <2>2
<1>5. CASE SendOk \/ SendFails
  <2>1. gov' = gov /\ UNCHANGED <<muted, killSetting, killCall>>
    BY <1>5 DEF SendOk, SendFails
  <2>2. hist'.brake = hist.brake
    <3> DEFINE took == Took(hist)
    <3>1. took.brake = hist.brake /\ took \in History
      BY <1>5, TookFields DEF SendOk, SendFails, BatchInv
    <3>2. \/ hist' = took
          \/ hist' = [hist EXCEPT !.calls[Cur] = @ + 1]
          \/ hist' = [took EXCEPT !.unacked[Cur] = @ + 1, !.excused = hist.excused + 1]
      BY <1>5 DEF SendOk, SendFails
    <3> HIDE DEF took
    <3>3. QED BY <1>0, <3>1, <3>2 DEF History
  <2>3. QED BY <1>1, <2>1, <2>2
<1>6. CASE Midnight
  <2>1. hist'.brake = hist.brake /\ gov' = gov /\ UNCHANGED <<muted, killSetting, killCall>>
    BY <1>0, <1>6 DEF Midnight, History
  <2>2. QED BY <1>1, <2>1
<1>7. ASSUME NEW kill \in BOOLEAN, PersistKill(kill)
      PROVE  BrakeInv'
  <2>1. killSetting' = kill /\ killCall' = [todo |-> <<"governor", "state">>, kill |-> kill]
    BY <1>7 DEF PersistKill
  <2>2. killCall' # NoCall
    BY <2>1 DEF NoCall
  <2>3. QED BY <2>1, <2>2 DEF BrakeInv, NoCall
<1>8. CASE ApplyKill
  <2>1. killCall # NoCall /\ killCall.kill = killSetting /\ killSetting' = killSetting
    BY <1>8 DEF ApplyKill, BrakeInv
  <2>2. CASE killCall.todo = <<"governor", "state">>
    <3>1. Head(killCall.todo) = "governor" /\ Tail(killCall.todo) = <<"state">>
      BY <2>2
    <3>2. gov'.kill = killSetting /\ killCall' = [todo |-> <<"state">>, kill |-> killSetting]
      BY <1>0, <1>8, <2>1, <3>1 DEF ApplyKill, Governor
    <3>3. killCall' # NoCall
      BY <3>2 DEF NoCall
    <3>4. QED BY <2>1, <3>2, <3>3 DEF BrakeInv, NoCall
  <2>3. CASE killCall.todo = <<"state">> /\ gov.kill = killSetting
    <3>1. Head(killCall.todo) # "governor"
      BY <2>3
    <3>2. /\ gov' = gov /\ muted' = killSetting /\ killCall' = NoCall
          /\ hist'.brake = killSetting
      BY <1>0, <1>8, <2>1, <3>1 DEF ApplyKill, History
    <3>3. QED BY <2>1, <2>3, <3>2 DEF BrakeInv
  <2>4. QED BY <2>1, <2>2, <2>3 DEF BrakeInv
<1>9. CASE Trip
  BY <1>9 DEF Trip
<1>10. CASE Restart
  <2>1. /\ gov'.kill = killSetting /\ muted' = killSetting /\ killCall' = NoCall
        /\ killSetting' = killSetting
    BY <1>10 DEF Restart, SeededGovernor
  <2>2. hist'.brake = IF killCall # NoCall THEN killSetting ELSE hist.brake
    BY <1>10, RestartFields
  <2>3. hist'.brake = killSetting
    BY <2>2 DEF BrakeInv
  <2>4. QED BY <2>1, <2>3 DEF BrakeInv
<1>11. QED
  BY <1>3, <1>4, <1>5, <1>6, <1>7, <1>8, <1>9, <1>10, NextCases

(* Without bans and logouts, the brake that was ordered on is on, in at    *)
(* least one of its halves, until it is ordered off: restarts restore it   *)
(* from the setting (main.go restoreKillSwitch).                           *)
THEOREM BrakeHonouredHolds ==
    ASSUME OutboxAssumption, ~Trips
    PROVE  Spec => []BrakeHonoured
<1>1. Init => BrakeInv
  <2>1. Init => /\ gov.kill = FALSE /\ muted = FALSE /\ killSetting = FALSE
                /\ hist.brake = FALSE /\ killCall = NoCall
    BY DEF Init
  <2>2. QED BY <2>1 DEF BrakeInv
<1>2. OutboxIInv /\ BrakeInv /\ [Next]_vars => BrakeInv'
  BY BrakeStep DEF OutboxIInv
<1>3. BrakeInv => BrakeHonoured
  BY DEF BrakeInv, BrakeHonoured, killSwitchActive
<1>4. QED BY <1>1, <1>2, <1>3, OutboxIInvHolds, PTL DEF Spec

-----------------------------------------------------------------------------
(* What the contact receives                                               *)

LEMMA PieceOfType ==
    ASSUME OutboxAssumption, OutboxTypeOK, NEW i \in Items
    PROVE  /\ \A w \in Words : PieceOf(i, w) \in Nat \ {0}
           /\ \A w \in Words : PieceOf(i, w) <= Pieces(i, chunkMaxLen)
           /\ \A v, w \in Words : v < w => PieceOf(i, v) <= PieceOf(i, w)
           /\ \A w \in Words, k \in Nat :
                 (i \in MediaItems => k = 0) =>
                    (w \in Piece(i, chunkMaxLen, k) <=> PieceOf(i, w) = k + 1)
<1> USE Constants DEF Words
<1>0. chunkMaxLen \in Nat \ {0} /\ \A w \in Words : w \in Nat \ {0} /\ w <= TextLen
  BY DEF OutboxTypeOK
<1>1. ASSUME NEW w \in Words PROVE PieceOf(i, w) \in Nat \ {0}
  BY <1>0, CeilDivType DEF PieceOf
<1>2. ASSUME NEW w \in Words PROVE PieceOf(i, w) <= Pieces(i, chunkMaxLen)
  BY <1>0, CeilDivMonotone DEF PieceOf, Pieces
<1>3. ASSUME NEW v \in Words, NEW w \in Words, v < w PROVE PieceOf(i, v) <= PieceOf(i, w)
  BY <1>0, <1>3, CeilDivMonotone DEF PieceOf
<1>4. ASSUME NEW w \in Words, NEW k \in Nat, i \in MediaItems => k = 0
      PROVE  w \in Piece(i, chunkMaxLen, k) <=> PieceOf(i, w) = k + 1
  BY <1>4 DEF Piece, PieceOf
<1>5. QED BY <1>1, <1>2, <1>3, <1>4

(* An item nothing is sent of, and whose row does not change its account.  *)
LEMMA CopiesKept ==
    ASSUME NEW i \in Items, CopiesOf(i),
           hist'.copies[i] = hist.copies[i], hist'.unacked[i] = hist.unacked[i],
           Accounted(i)' = Accounted(i), \A w \in Words : PieceOf(i, w)' = PieceOf(i, w),
           row'[i].st = "sent" <=> row[i].st = "sent"
    PROVE  CopiesOf(i)'
BY DEF CopiesOf

(* The rows and the drain stand as they stood for item i.                  *)
LEMMA AccountedKept ==
    ASSUME NEW i \in Items, row'[i].progress = row[i].progress, InHand(i)' <=> InHand(i)
    PROVE  Accounted(i)' = Accounted(i)
BY DEF Accounted

(* WhatsApp takes the piece in hand.                                       *)
LEMMA CopiesTook ==
    ASSUME OutboxAssumption, OutboxTypeOK, PieceInv, NEW i \in Items, i = Cur,
           CopiesOf(i), drain.batch # <<>>, drain.pc = "compose", drain.len = chunkMaxLen,
           row[i].st # "sent", row'[i].st # "sent", row'[i].progress = row[i].progress,
           chunkMaxLen' = chunkMaxLen, hist'.copies = Took(hist).copies,
           \/ InHand(i)' /\ hist'.unacked[i] = hist.unacked[i]
           \/ ~InHand(i)' /\ hist'.unacked[i] = hist.unacked[i] + 1
    PROVE  CopiesOf(i)'
<1>1. /\ hist.copies[i] \in [Words -> Nat] /\ hist.unacked[i] \in Nat
      /\ row[i].progress \in Nat
  BY Constants DEF OutboxTypeOK, History, Row
<1>2. ~InHand(i) /\ Accounted(i) = row[i].progress
  <2>1. ~InHand(i)
    BY DEF InHand
  <2>2. QED BY <1>1, <2>1 DEF Accounted
<1>3. drain.at = row[i].progress /\ (i \in MediaItems => drain.at = 0)
  BY DEF PieceInv
<1>4. \A w \in Words : PieceOf(i, w)' = PieceOf(i, w) /\ PieceOf(i, w) \in Nat
  BY PieceOfType DEF PieceOf
<1>5. \A w \in Words : w \in Piece(i, drain.len, drain.at) <=> PieceOf(i, w) = row[i].progress + 1
  <2>1. Piece(i, drain.len, drain.at) = Piece(i, chunkMaxLen, row[i].progress)
    BY <1>3
  <2>2. i \in MediaItems => row[i].progress = 0
    BY <1>3
  <2>3. \A w \in Words : w \in Piece(i, chunkMaxLen, row[i].progress)
                           <=> PieceOf(i, w) = row[i].progress + 1
    BY <1>1, <2>2, PieceOfType
  <2>4. QED BY <2>1, <2>3
<1>6. \A w \in Words :
         hist'.copies[i][w] = hist.copies[i][w] + (IF PieceOf(i, w) = row[i].progress + 1
                                                   THEN 1 ELSE 0)
  <2>1. hist'.copies[i] = [w \in Words |->
                             IF w \in Piece(i, drain.len, drain.at) THEN hist.copies[i][w] + 1
                                                                    ELSE hist.copies[i][w]]
    <3>1. hist.copies \in [Items -> [Words -> Nat]]
      BY DEF OutboxTypeOK, History
    <3> DEFINE cp == [w \in Words |->
                        IF w \in Piece(i, drain.len, drain.at) THEN hist.copies[i][w] + 1
                                                               ELSE hist.copies[i][w]]
    <3>2. hist'.copies = [hist.copies EXCEPT ![i] = cp]
      BY TookFields
    <3> HIDE DEF cp
    <3>3. hist'.copies[i] = cp
      BY <3>1, <3>2
    <3>4. QED BY <3>3 DEF cp
  <2>2. \A w \in Words : hist.copies[i][w] \in Nat
    BY <1>1
  <2>3. QED BY <1>5, <2>1, <2>2
<1>7. \A w \in Words : hist.copies[i][w] \in Nat /\ hist'.copies[i][w] \in Nat
  BY <1>1, <1>6
<1>8. /\ \A w \in Words : PieceOf(i, w) <= row[i].progress => hist.copies[i][w] > 0
      /\ \A w \in Words : hist.copies[i][w] <=
            hist.unacked[i] + (IF PieceOf(i, w) <= row[i].progress THEN 1 ELSE 0)
      /\ \A v, w \in Words : PieceOf(i, v) <= PieceOf(i, w) /\ hist.copies[i][w] > 0
                                => hist.copies[i][v] > 0
  BY <1>2 DEF CopiesOf
<1>9. ASSUME NEW w \in Words, PieceOf(i, w) <= row[i].progress + 1
      PROVE  hist'.copies[i][w] > 0
  <2>1. CASE PieceOf(i, w) <= row[i].progress
    BY <1>6, <1>7, <1>8, <2>1
  <2>2. CASE PieceOf(i, w) = row[i].progress + 1
    BY <1>6, <1>7, <2>2
  <2>3. PieceOf(i, w) <= row[i].progress \/ PieceOf(i, w) = row[i].progress + 1
    <3>1. PieceOf(i, w) \in Nat
      BY <1>4
    <3>2. QED BY <1>1, <1>9, <3>1
  <2>4. QED BY <2>1, <2>2, <2>3
<1>10. ASSUME NEW v \in Words, NEW w \in Words, PieceOf(i, v) <= PieceOf(i, w),
              hist'.copies[i][w] > 0
       PROVE  hist'.copies[i][v] > 0
  <2>1. CASE hist.copies[i][w] > 0
    <3>1. hist.copies[i][v] > 0
      BY <1>8, <1>10, <2>1
    <3>2. QED BY <1>6, <1>7, <3>1
  <2>2. CASE ~(hist.copies[i][w] > 0)
    <3>1. PieceOf(i, w) = row[i].progress + 1
      BY <1>6, <1>10, <2>2, <1>7
    <3>2. QED BY <1>9, <1>10, <3>1
  <2>3. QED BY <2>1, <2>2
<1>11. CASE InHand(i)' /\ hist'.unacked[i] = hist.unacked[i]
  <2>1. Accounted(i)' = row[i].progress + 1
    BY <1>1, <1>11 DEF Accounted
  <2>2. ASSUME NEW w \in Words
        PROVE  hist'.copies[i][w] <= hist'.unacked[i] +
                  (IF PieceOf(i, w) <= row[i].progress + 1 THEN 1 ELSE 0)
    <3>1. CASE PieceOf(i, w) = row[i].progress + 1
      <4>1. hist.copies[i][w] <= hist.unacked[i] + 0
        BY <1>1, <1>8, <3>1
      <4>2. hist'.copies[i][w] = hist.copies[i][w] + 1
        BY <1>6, <3>1
      <4>3. hist'.copies[i][w] <= hist'.unacked[i] + 1
        BY <1>1, <1>7, <1>11, <4>1, <4>2
      <4>4. QED BY <1>1, <3>1, <4>3
    <3>2. CASE PieceOf(i, w) <= row[i].progress
      <4>1. hist'.copies[i][w] = hist.copies[i][w]
        BY <1>1, <1>6, <1>7, <3>2
      <4>2. PieceOf(i, w) <= row[i].progress + 1
        BY <1>1, <1>4, <3>2
      <4>3. QED BY <1>8, <1>11, <3>2, <4>1, <4>2
    <3>3. CASE PieceOf(i, w) > row[i].progress + 1
      <4>1. hist'.copies[i][w] = hist.copies[i][w]
        BY <1>1, <1>4, <1>6, <1>7, <3>3
      <4>2. ~(PieceOf(i, w) <= row[i].progress + 1) /\ ~(PieceOf(i, w) <= row[i].progress)
        BY <1>1, <1>4, <3>3
      <4>3. QED BY <1>8, <1>11, <4>1, <4>2
    <3>4. QED BY <1>1, <1>4, <3>1, <3>2, <3>3
  <2>3. QED BY <1>4, <1>9, <1>10, <2>1, <2>2 DEF CopiesOf
<1>12. CASE ~InHand(i)' /\ hist'.unacked[i] = hist.unacked[i] + 1
  <2>1. Accounted(i)' = row[i].progress
    BY <1>1, <1>12 DEF Accounted
  <2>2. ASSUME NEW w \in Words
        PROVE  hist'.copies[i][w] <= hist'.unacked[i] +
                  (IF PieceOf(i, w) <= row[i].progress THEN 1 ELSE 0)
    <3>1. hist'.copies[i][w] <= hist.copies[i][w] + 1
      BY <1>6, <1>7
    <3>2. CASE PieceOf(i, w) <= row[i].progress
      <4>1. hist.copies[i][w] <= hist.unacked[i] + 1
        BY <1>8, <3>2
      <4>2. hist'.copies[i][w] <= hist'.unacked[i] + 1
        BY <1>1, <1>7, <1>12, <3>1, <4>1
      <4>3. QED BY <3>2, <4>2
    <3>3. CASE ~(PieceOf(i, w) <= row[i].progress)
      <4>1. hist.copies[i][w] <= hist.unacked[i] + 0
        BY <1>8, <3>3
      <4>2. hist'.copies[i][w] <= hist'.unacked[i] + 0
        BY <1>1, <1>7, <1>12, <3>1, <4>1
      <4>3. QED BY <3>3, <4>2
    <3>4. QED BY <3>2, <3>3
  <2>3. ASSUME NEW w \in Words, PieceOf(i, w) <= row[i].progress
        PROVE  hist'.copies[i][w] > 0
    BY <1>1, <1>4, <1>9, <2>3
  <2>4. QED BY <1>4, <1>10, <2>1, <2>2, <2>3 DEF CopiesOf
<1>13. QED BY <1>11, <1>12

LEMMA CopiesStep ==
    ASSUME OutboxAssumption, SizeFixed, OutboxTypeOK, BatchInv, PieceInv, CopiesInv, DoneInv,
           [Next]_vars, OutboxTypeOK'
    PROVE  CopiesInv'
<1> USE DEF kept
<1>0. /\ drain.pc \notin {"idle", "next"} => drain.batch # <<>> /\ Cur \notin BadItems
      /\ drain.batch # <<>> => Cur \in Items /\ row[Cur].st = "queued"
      /\ row \in [Items -> Row] /\ drain \in Drain /\ hist \in History
      /\ row' \in [Items -> Row]
  <2>1. drain.batch # <<>> => Cur \in Items /\ row[Cur].st = "queued"
    <3>1. drain.batch # <<>> => 1 \in 1..Len(drain.batch) /\ Cur = drain.batch[1]
      BY DEF OutboxTypeOK, Drain, Cur
    <3>2. QED BY <3>1, BatchType DEF BatchInv
  <2>2. QED BY <2>1 DEF BatchInv, OutboxTypeOK
<1>00. chunkMaxLen' = chunkMaxLen /\ drain.len = chunkMaxLen
  BY DEF SizeFixed, OutboxTypeOK, Drain
<1> SUFFICES ASSUME NEW i \in Items
             PROVE  CopiesOf(i)'
  BY DEF CopiesInv
<1>a. CopiesOf(i)
  BY DEF CopiesInv
<1>b. \A w \in Words : PieceOf(i, w)' = PieceOf(i, w)
  BY <1>00 DEF PieceOf
<1>1. ASSUME hist' = hist, row'[i].progress = row[i].progress, InHand(i)' <=> InHand(i),
             row'[i].st = "sent" <=> row[i].st = "sent"
      PROVE  CopiesOf(i)'
  BY <1>a, <1>b, <1>1, CopiesKept, AccountedKept
<1>2. ASSUME NEW j \in Items, Enqueue(j) \/ BackoffOver(j)
      PROVE  CopiesOf(i)'
  <2>1. /\ row'[i].progress = row[i].progress
        /\ row'[i].st = row[i].st \/ (row[i].st = "absent" /\ row'[i].st = "queued")
    <3>1. CASE Enqueue(j)
      BY <1>0, <3>1 DEF Enqueue, Row
    <3>2. CASE BackoffOver(j)
      BY <1>0, <3>2 DEF BackoffOver, Row
    <3>3. QED BY <1>2, <3>1, <3>2
  <2>2. drain' = drain /\ hist' = hist
    BY <1>2 DEF Enqueue, BackoffOver
  <2>3. InHand(i)' <=> InHand(i)
    BY <2>2 DEF InHand, Cur
  <2>4. QED BY <1>1, <2>1, <2>2, <2>3
<1>3. CASE Tick \/ LoopEnds \/ TakeItem \/ Cancelled \/ NextPiece
  <2>1. row' = row /\ hist' = hist /\ drain.pc \in {"idle", "next", "pace", "compose", "more"}
    BY <1>3 DEF Tick, LoopEnds, TakeItem, CanTake, Cancelled, NextPiece
  <2>2. drain'.pc \in {"idle", "next", "pace", "compose"}
    BY <1>0, <1>3, BatchAfterRest
       DEF Tick, LoopEnds, TakeItem, CanTake, Cancelled, NextPiece, Drain
  <2>3. ~InHand(i) /\ ~InHand(i)'
    BY <2>1, <2>2 DEF InHand
  <2>4. QED BY <1>1, <2>1, <2>3
<1>4. CASE Paced
  <2>1. row' = row /\ hist' = hist /\ drain.pc = "pace"
    BY <1>4 DEF Paced
  <2>2. ~InHand(i)
    BY <2>1 DEF InHand
  <2>3. ~InHand(i)'
    <3>1. CASE Rest
      BY <3>1, BatchAfterRest DEF InHand
    <3>2. CASE ~Rest
      <4>1. /\ drain.batch # <<>> /\ drain'.batch = drain.batch
            /\ drain'.pc \in {"compose", "finish"}
            /\ drain'.pc = "finish" => ~(ResumeAt(Cur) < Pieces(Cur, chunkMaxLen))
        BY <1>0, <1>4, <3>2 DEF Paced, Drain
      <4>2. Cur \in MediaItems => ResumeAt(Cur) < Pieces(Cur, chunkMaxLen)
        BY DEF ResumeAt, Pieces
      <4>3. Cur' = Cur
        BY <4>1 DEF Cur
      <4>4. QED BY <4>1, <4>2, <4>3 DEF InHand
    <3>3. QED BY <3>1, <3>2
  <2>4. QED BY <1>1, <2>1, <2>2, <2>3
<1>5. CASE SkipBadJID
  <2>1. /\ Cur \in BadItems /\ Cur \in Items /\ drain.pc = "next" /\ drain'.pc = "next"
        /\ hist' = hist /\ row[Cur].st = "queued"
    BY <1>0, <1>5 DEF SkipBadJID, CanTake, NextItem, Drain
  <2>2. /\ row'[i].progress = row[i].progress
        /\ row'[i].st = (IF i = Cur THEN "sent" ELSE row[i].st)
    BY <1>0, <1>5, <2>1 DEF SkipBadJID, Row
  <2>3. ~InHand(i) /\ ~InHand(i)'
    BY <2>1 DEF InHand
  <2>4. CASE i # Cur
    BY <1>1, <2>1, <2>2, <2>3, <2>4
  <2>5. CASE i = Cur
    <3>1. Accounted(i)' = Accounted(i)
      BY <2>2, <2>3, AccountedKept
    <3>2. \A w \in Words : /\ PieceOf(i, w)' = PieceOf(i, w)
                           /\ hist.copies[i][w] \in Nat /\ hist.unacked[i] \in Nat
      BY <1>0, <1>b DEF History
    <3>3. \A w \in Words : hist.copies[i][w] <= hist.unacked[i] + 1
      BY <1>a, <3>2 DEF CopiesOf
    <3>4. QED BY <1>a, <2>1, <2>2, <2>5, <3>1, <3>2, <3>3 DEF CopiesOf
  <2>6. QED BY <2>4, <2>5
<1>6. CASE Finish
  <2>1. /\ Cur \in Items /\ Cur \notin BadItems /\ drain.pc = "finish" /\ drain'.pc = "next"
        /\ hist' = hist /\ row[Cur].st = "queued"
    BY <1>0, <1>6 DEF Finish, NextItem, Drain
  <2>2. /\ row'[i].progress = row[i].progress
        /\ row'[i].st = (IF i = Cur THEN "sent" ELSE row[i].st)
    BY <1>0, <1>6, <2>1 DEF Finish, Row
  <2>3. ~InHand(i)' /\ (InHand(i) => i = Cur)
    BY <2>1 DEF InHand
  <2>4. CASE i # Cur
    BY <1>1, <2>1, <2>2, <2>3, <2>4
  <2>5. CASE i = Cur
    <3>1. \A w \in Words : hist.copies[i][w] > 0
      BY <1>a, <2>1, <2>5 DEF DoneInv, CopiesOf
    <3>2. \A w \in Words : /\ PieceOf(i, w)' = PieceOf(i, w)
                           /\ hist.copies[i][w] \in Nat /\ hist.unacked[i] \in Nat
      BY <1>0, <1>b DEF History
    <3>3. \A w \in Words : hist.copies[i][w] <= hist.unacked[i] + 1
      BY <1>a, <3>2 DEF CopiesOf
    <3>4. QED BY <2>1, <2>2, <2>5, <3>1, <3>2, <3>3 DEF CopiesOf
  <2>6. QED BY <2>4, <2>5
<1>7. CASE SendOk
  <2>1. /\ drain.batch # <<>> /\ Cur \in Items /\ row[Cur].st = "queued"
        /\ drain.pc = "compose" /\ drain'.pc = "record" /\ drain'.batch = drain.batch
        /\ row' = row /\ hist' = Took(hist)
    BY <1>0, <1>7 DEF SendOk, Drain
  <2>2. InHand(i)' <=> i = Cur
    BY <2>1 DEF InHand, Cur
  <2>3. hist'.unacked = hist.unacked
    BY <2>1, TookFields
  <2>4. CASE i = Cur
    BY <1>00, <1>a, <2>1, <2>2, <2>3, <2>4, CopiesTook
  <2>5. CASE i # Cur
    <3>1. hist'.copies[i] = hist.copies[i]
      <4>1. hist.copies \in [Items -> [Words -> Nat]]
        BY <1>0 DEF History
      <4>2. QED BY <2>1, <2>5, <4>1, TookFields
    <3>2. ~InHand(i) /\ ~InHand(i)'
      BY <2>1, <2>2, <2>5 DEF InHand
    <3>3. Accounted(i)' = Accounted(i)
      BY <2>1, <3>2, AccountedKept
    <3>4. QED BY <1>a, <1>b, <2>1, <2>3, <3>1, <3>3, CopiesKept
  <2>6. QED BY <2>4, <2>5
<1>8. CASE SendFails
  <2>1. /\ drain.batch # <<>> /\ Cur \in Items /\ row[Cur].st = "queued"
        /\ drain.pc = "compose" /\ drain'.pc = "next"
    BY <1>0, <1>8 DEF SendFails, NextItem, Drain
  <2>2. /\ row'[i].progress = row[i].progress
        /\ row'[i].st = row[i].st \/ (i = Cur /\ row'[i].st = "dead")
    BY <1>0, <1>8, <2>1 DEF SendFails, RetryOrDeadLetter, Row
  <2>3. ~InHand(i) /\ ~InHand(i)'
    BY <2>1 DEF InHand
  <2>4. Accounted(i)' = Accounted(i) /\ (row'[i].st = "sent" <=> row[i].st = "sent")
    BY <2>1, <2>2, <2>3, AccountedKept
  <2>5. CASE hist' = [hist EXCEPT !.calls[Cur] = @ + 1]
    <3>1. hist'.copies = hist.copies /\ hist'.unacked = hist.unacked
      BY <1>0, <2>5 DEF History
    <3>2. QED BY <1>a, <1>b, <2>4, <3>1, CopiesKept
  <2>6. CASE hist' = [Took(hist) EXCEPT !.unacked[Cur] = @ + 1,
                                        !.excused = hist.excused + 1]
    <3> DEFINE took == Took(hist)
    <3>1. took \in History /\ took.unacked = hist.unacked
      BY <2>1, TookFields
    <3>2. hist' = [took EXCEPT !.unacked[Cur] = @ + 1, !.excused = hist.excused + 1]
      BY <2>6
    <3> HIDE DEF took
    <3>3. /\ hist'.copies = took.copies
          /\ hist'.unacked = [hist.unacked EXCEPT ![Cur] = @ + 1]
      BY <3>1, <3>2 DEF History
    <3>4. hist'.unacked[i] = hist.unacked[i] + (IF i = Cur THEN 1 ELSE 0)
      <4>1. hist.unacked \in [Items -> Nat]
        BY <1>0 DEF History
      <4>2. QED BY <2>1, <3>3, <4>1, UnackedUp
    <3>5. CASE i = Cur
      <4>1. hist'.copies = Took(hist).copies
        BY <3>3 DEF took
      <4>2. hist'.unacked[i] = hist.unacked[i] + 1
        BY <3>4, <3>5
      <4>3. QED BY <1>00, <1>a, <2>1, <2>2, <2>3, <2>4, <3>5, <4>1, <4>2, CopiesTook
    <3>6. CASE i # Cur
      <4>1. hist'.copies[i] = hist.copies[i]
        <5>1. hist.copies \in [Items -> [Words -> Nat]]
          BY <1>0 DEF History
        <5>2. took.copies[i] = hist.copies[i]
          BY <2>1, <3>6, <5>1, TookFields DEF took
        <5>3. QED BY <3>3, <5>2
      <4>2. hist'.unacked[i] = hist.unacked[i]
        <5>1. hist.unacked[i] \in Nat
          BY <1>0 DEF History
        <5>2. QED BY <3>4, <3>6, <5>1
      <4>3. QED BY <1>a, <1>b, <2>4, <4>1, <4>2, CopiesKept
    <3>7. QED BY <3>5, <3>6
  <2>7. QED BY <1>8, <2>5, <2>6 DEF SendFails
<1>9. CASE RecordSent
  <2>1. /\ drain.pc = "record" /\ row' = row /\ hist' = hist /\ drain.batch # <<>>
        /\ drain'.pc = (IF Cur \in MediaItems THEN "finish" ELSE "progress")
        /\ drain'.batch = drain.batch
    BY <1>0, <1>9 DEF RecordSent, Goto, Drain
  <2>2. InHand(i)' <=> InHand(i)
    BY <2>1 DEF InHand, Cur
  <2>3. QED BY <1>1, <2>1, <2>2
<1>10. CASE SaveProgress
  <2>1. /\ drain.pc = "progress" /\ drain.batch # <<>> /\ Cur \in Items /\ hist' = hist
        /\ drain.at = row[Cur].progress /\ Cur \notin MediaItems
        /\ drain'.pc \in {"more", "finish"} /\ drain'.batch = drain.batch
    BY <1>0, <1>10 DEF SaveProgress, PieceInv, Drain
  <2>2. /\ i # Cur => row'[i].progress = row[i].progress
        /\ i = Cur => row'[i].progress = row[i].progress + 1
        /\ row'[i].st = row[i].st
    BY <1>0, <1>10, <2>1 DEF SaveProgress, Row
  <2>3. /\ InHand(i) <=> i = Cur
        /\ ~InHand(i)'
    BY <2>1 DEF InHand, Cur
  <2>4. Accounted(i)' = Accounted(i)
    <3>1. row[i].progress \in Nat
      BY <1>0, Constants DEF Row
    <3>2. QED BY <2>2, <2>3, <3>1 DEF Accounted
  <2>5. QED BY <1>a, <1>b, <2>1, <2>2, <2>4, CopiesKept
<1>11. CASE Refill \/ Connect \/ Disconnect \/ Midnight \/ ApplyKill \/ Trip \/ Stop
            \/ (\E len \in Sizes : SetChunkMaxLen(len))
            \/ (\E kill \in BOOLEAN : PersistKill(kill)) \/ UNCHANGED vars
  <2>1. row' = row /\ drain' = drain
    BY <1>11 DEF Refill, Connect, Disconnect, Midnight, ApplyKill, Trip, Stop,
                 SetChunkMaxLen, PersistKill, vars
  <2>2. hist'.copies = hist.copies /\ hist'.unacked = hist.unacked
    BY <1>0, <1>11 DEF Refill, Connect, Disconnect, Midnight, ApplyKill, Trip, Stop,
                       SetChunkMaxLen, PersistKill, vars, History
  <2>3. InHand(i)' <=> InHand(i)
    BY <2>1 DEF InHand, Cur
  <2>4. Accounted(i)' = Accounted(i)
    BY <2>1, <2>3, AccountedKept
  <2>5. QED BY <1>a, <1>b, <2>1, <2>2, <2>4, CopiesKept
<1>12. CASE Restart
  <2>1. /\ row' = row /\ drain'.pc = "idle" /\ hist'.copies = hist.copies
        /\ hist'.unacked[i] = hist.unacked[i] + (IF InHand(i) THEN 1 ELSE 0)
    BY <1>12, RestartFields DEF Restart
  <2>2. ~InHand(i)'
    BY <2>1 DEF InHand
  <2>3. /\ row[i].progress \in Nat /\ hist.unacked[i] \in Nat
        /\ \A w \in Words : /\ PieceOf(i, w)' = PieceOf(i, w) /\ PieceOf(i, w) \in Nat
                            /\ hist.copies[i][w] \in Nat
    <3>1. row[i].progress \in Nat /\ hist.unacked[i] \in Nat
      BY <1>0, Constants DEF Row, History
    <3>2. \A w \in Words : hist.copies[i][w] \in Nat
      BY <1>0 DEF History
    <3>3. \A w \in Words : PieceOf(i, w) \in Nat
      BY PieceOfType
    <3>4. QED BY <1>b, <3>1, <3>2, <3>3
  <2>4. CASE ~InHand(i)
    <3>1. Accounted(i)' = Accounted(i) /\ hist'.unacked[i] = hist.unacked[i]
      BY <2>1, <2>2, <2>3, <2>4, AccountedKept
    <3>2. QED BY <1>a, <1>b, <2>1, <3>1, CopiesKept
  <2>5. CASE InHand(i)
    <3>1. /\ Accounted(i) = row[i].progress + 1 /\ Accounted(i)' = row[i].progress
          /\ hist'.unacked[i] = hist.unacked[i] + 1
      BY <2>1, <2>2, <2>3, <2>5 DEF Accounted
    <3>2. ASSUME NEW w \in Words, PieceOf(i, w) <= row[i].progress
          PROVE  hist.copies[i][w] > 0
      <4>1. PieceOf(i, w) <= row[i].progress + 1
        BY <2>3, <3>2
      <4>2. QED BY <1>a, <3>1, <4>1 DEF CopiesOf
    <3>3. ASSUME NEW w \in Words
          PROVE  hist.copies[i][w] <= hist'.unacked[i] + 0
      <4>1. hist.copies[i][w] <= hist.unacked[i] + 1
        BY <1>a, <2>3 DEF CopiesOf
      <4>2. QED BY <2>3, <3>1, <4>1
    <3>4. ASSUME NEW w \in Words
          PROVE  hist.copies[i][w] <= hist'.unacked[i] + 1
      BY <2>3, <3>1, <3>3
    <3>5. QED BY <1>a, <2>1, <2>3, <3>1, <3>2, <3>3, <3>4 DEF CopiesOf
  <2>6. QED BY <2>4, <2>5
<1>13. QED
  BY <1>2, <1>3, <1>4, <1>5, <1>6, <1>7, <1>8, <1>9, <1>10, <1>11, <1>12, NextCases

(* An item the drain is done with has no piece that is not accounted for.  *)
LEMMA DoneWith ==
    ASSUME OutboxAssumption, OutboxTypeOK, NEW c \in Items, Cur' = c,
           chunkMaxLen' = chunkMaxLen, Accounted(c)' \in Nat,
           Pieces(c, chunkMaxLen) <= Accounted(c)'
    PROVE  DoneInv'
<1>1. ASSUME NEW w \in Words PROVE PieceOf(c, w)' <= Accounted(c)'
  <2>1. PieceOf(c, w)' = PieceOf(c, w)
    BY DEF PieceOf
  <2>2. PieceOf(c, w) \in Nat /\ PieceOf(c, w) <= Pieces(c, chunkMaxLen)
    BY PieceOfType
  <2>3. Pieces(c, chunkMaxLen) \in Nat
    <3>1. Pieces(c, chunkMaxLen) \in 1..TextLen
      BY PiecesType DEF OutboxTypeOK
    <3>2. QED BY <3>1, Constants
  <2>4. QED BY <2>1, <2>2, <2>3
<1>2. QED BY <1>1 DEF DoneInv, PieceOf, Accounted, InHand

LEMMA DoneStep ==
    ASSUME OutboxAssumption, SizeFixed, OutboxTypeOK, BatchInv, PieceInv, DoneInv,
           [Next]_vars, OutboxTypeOK'
    PROVE  DoneInv'
<1> USE DEF kept
<1>0. /\ drain.pc \notin {"idle", "next"} => drain.batch # <<>>
      /\ drain.batch # <<>> => Cur \in Items
      /\ row \in [Items -> Row] /\ drain \in Drain /\ row' \in [Items -> Row]
  BY BatchType DEF BatchInv, OutboxTypeOK
<1>00. chunkMaxLen' = chunkMaxLen /\ drain.len = chunkMaxLen
  BY DEF SizeFixed, OutboxTypeOK, Drain
<1>1. ASSUME drain'.pc # "finish"
      PROVE  DoneInv'
  BY <1>1 DEF DoneInv
<1>2. ASSUME drain' = drain, drain.batch # <<>> => row'[Cur].progress = row[Cur].progress
      PROVE  DoneInv'
  <2>1. CASE drain.pc = "finish"
    <3>1. drain.batch # <<>> /\ Cur' = Cur
      BY <1>0, <1>2, <2>1 DEF Cur
    <3>2. \A w \in Words : PieceOf(Cur, w)' = PieceOf(Cur, w)
      BY <1>00, <3>1 DEF PieceOf
    <3>3. Accounted(Cur)' = Accounted(Cur)
      BY <1>2, <3>1 DEF Accounted, InHand
    <3>4. QED BY <1>2, <3>2, <3>3 DEF DoneInv
  <2>2. QED BY <1>1, <1>2, <2>1
<1>3. ASSUME NEW i \in Items, Enqueue(i) \/ BackoffOver(i)
      PROVE  DoneInv'
  <2>1. drain' = drain /\ \A j \in Items : row'[j].progress = row[j].progress
    <3>1. CASE Enqueue(i)
      BY <1>0, <3>1 DEF Enqueue, Row
    <3>2. CASE BackoffOver(i)
      BY <1>0, <3>2 DEF BackoffOver, Row
    <3>3. QED BY <1>3, <3>1, <3>2
  <2>2. QED BY <1>0, <1>2, <2>1
<1>4. CASE Rest
  BY <1>1, <1>4, BatchAfterRest
<1>5. CASE LoopEnds \/ Cancelled
  BY <1>4, <1>5 DEF LoopEnds, Cancelled
<1>6. CASE Tick \/ TakeItem \/ SkipBadJID \/ SendOk \/ SendFails \/ Finish \/ Restart
  <2>1. drain'.pc # "finish"
    <3>1. CASE Restart
      BY <3>1 DEF Restart
    <3>2. CASE ~Restart
      BY <1>0, <1>6, <3>2 DEF Tick, TakeItem, SkipBadJID, SendOk, SendFails, Finish,
                              NextItem, Drain
    <3>3. QED BY <3>1, <3>2
  <2>2. QED BY <1>1, <2>1
<1>7. CASE NextPiece
  <2>1. CASE Rest
    BY <1>4, <2>1
  <2>2. CASE ~Rest
    <3>1. drain'.pc # "finish"
      BY <1>0, <1>7, <2>2 DEF NextPiece, Drain
    <3>2. QED BY <1>1, <3>1
  <2>3. QED BY <2>1, <2>2
<1>8. CASE Paced
  <2>1. CASE Rest
    BY <1>4, <2>1
  <2>2. CASE ~Rest
    <3>1. /\ drain.batch # <<>> /\ drain'.batch = drain.batch /\ row' = row
          /\ drain'.pc = "finish" => ~(ResumeAt(Cur) < Pieces(Cur, chunkMaxLen))
      BY <1>0, <1>8, <2>2 DEF Paced, Drain
    <3>2. PICK c \in Items : c = Cur
      BY <1>0, <3>1
    <3>3. CASE drain'.pc = "finish"
      <4>1. Cur' = c /\ row'[c].progress = row[c].progress /\ row[c].progress \in Nat
        BY <1>0, <3>1, <3>2, Constants DEF Cur, Row
      <4>2. Pieces(c, chunkMaxLen) \in Nat /\ ResumeAt(c) \in Nat
        <5>1. Pieces(c, chunkMaxLen) \in 1..TextLen
          BY PiecesType DEF OutboxTypeOK
        <5>2. QED BY <4>1, <5>1, Constants DEF ResumeAt
      <4>3. Pieces(c, chunkMaxLen) <= ResumeAt(c)
        BY <3>1, <3>2, <3>3, <4>2
      <4>4. ResumeAt(c) = row[c].progress
        BY <3>1 DEF ResumeAt, PieceInv
      <4>5. Pieces(c, chunkMaxLen) <= Accounted(c)' /\ Accounted(c)' \in Nat
        <5>1. Accounted(c)' \in {row[c].progress, row[c].progress + 1}
          BY <4>1 DEF Accounted
        <5>2. QED BY <4>1, <4>2, <4>3, <4>4, <5>1
      <4>6. QED BY <1>00, <4>1, <4>5, DoneWith
    <3>4. QED BY <1>1, <3>3
  <2>3. QED BY <2>1, <2>2
<1>9. CASE RecordSent
  <2>1. /\ drain.batch # <<>> /\ drain'.batch = drain.batch /\ row' = row
        /\ drain'.pc = (IF Cur \in MediaItems THEN "finish" ELSE "progress")
    BY <1>0, <1>9 DEF RecordSent, Goto, Drain
  <2>2. PICK c \in Items : c = Cur
    BY <1>0, <2>1
  <2>3. Cur' = c
    BY <2>1, <2>2 DEF Cur
  <2>4. CASE c \in MediaItems
    <3>1. InHand(c)' /\ row'[c].progress = 0
      BY <2>1, <2>2, <2>3, <2>4 DEF InHand, PieceInv
    <3>2. Pieces(c, chunkMaxLen) = 1 /\ Accounted(c)' = 1
      BY <2>4, <3>1 DEF Pieces, Accounted
    <3>3. QED BY <1>00, <2>3, <3>2, DoneWith
  <2>5. CASE c \notin MediaItems
    BY <1>1, <2>1, <2>2, <2>5
  <2>6. QED BY <2>4, <2>5
<1>10. CASE SaveProgress
  <2>1. /\ drain.batch # <<>> /\ drain'.batch = drain.batch /\ drain.pc = "progress"
        /\ drain'.pc = "finish" => ~(drain.at + 1 < Pieces(Cur, drain.len))
        /\ row' = [row EXCEPT ![Cur].progress = drain.at + 1]
    BY <1>0, <1>10 DEF SaveProgress, Drain
  <2>2. PICK c \in Items : c = Cur
    BY <1>0, <2>1
  <2>3. CASE drain'.pc = "finish"
    <3>1. Cur' = c /\ drain.at \in Nat /\ c \notin MediaItems
      BY <1>0, <2>1, <2>2, Constants DEF Cur, Drain, PieceInv
    <3>2. row'[c].progress = drain.at + 1
      BY <1>0, <2>1, <2>2 DEF Row
    <3>3. Pieces(c, chunkMaxLen) \in Nat
      <4>1. Pieces(c, chunkMaxLen) \in 1..TextLen
        BY PiecesType DEF OutboxTypeOK
      <4>2. QED BY <4>1, Constants
    <3>4. Pieces(c, chunkMaxLen) <= drain.at + 1
      BY <1>00, <2>1, <2>2, <2>3, <3>1, <3>3
    <3>5. Accounted(c)' \in {drain.at + 1, drain.at + 2}
      BY <3>1, <3>2 DEF Accounted
    <3>6. Pieces(c, chunkMaxLen) <= Accounted(c)' /\ Accounted(c)' \in Nat
      BY <3>1, <3>3, <3>4, <3>5
    <3>7. QED BY <1>00, <3>1, <3>6, DoneWith
  <2>4. QED BY <1>1, <2>3
<1>11. CASE Refill \/ Connect \/ Disconnect \/ Midnight \/ ApplyKill \/ Trip \/ Stop
            \/ (\E len \in Sizes : SetChunkMaxLen(len))
            \/ (\E kill \in BOOLEAN : PersistKill(kill)) \/ UNCHANGED vars
  <2>1. row' = row /\ drain' = drain
    BY <1>11 DEF Refill, Connect, Disconnect, Midnight, ApplyKill, Trip, Stop,
                 SetChunkMaxLen, PersistKill, vars
  <2>2. QED BY <1>2, <2>1
<1>12. QED
  BY <1>3, <1>5, <1>6, <1>7, <1>8, <1>9, <1>10, <1>11, NextCases

LEMMA CopiesInit ==
    ASSUME OutboxAssumption, Init
    PROVE  CopiesInv /\ DoneInv
<1>1. DoneInv
  BY DEF Init, DoneInv
<1> SUFFICES ASSUME NEW i \in Items PROVE CopiesOf(i)
  BY <1>1 DEF CopiesInv
<1>2. /\ row[i].progress = 0 /\ row[i].st = "absent" /\ hist.unacked[i] = 0
      /\ \A w \in Words : hist.copies[i][w] = 0
  BY DEF Init
<1>3. Accounted(i) = 0
  <2>1. ~InHand(i)
    BY DEF Init, InHand
  <2>2. QED BY <1>2, <2>1 DEF Accounted
<1>4. \A w \in Words : PieceOf(i, w) \in Nat \ {0}
  BY OutboxInit, PieceOfType DEF OutboxIInv
<1>5. \A w \in Words : ~(PieceOf(i, w) <= 0)
  BY <1>4
<1>6. QED BY <1>2, <1>3, <1>5 DEF CopiesOf

LEMMA CopiesSafe ==
    ASSUME OutboxAssumption, OutboxIInv, CopiesInv
    PROVE  NothingSkipped /\ RepeatsExcused
<1>1. OutboxTypeOK
  BY DEF OutboxIInv
<1>2. ASSUME NEW i \in Items
      PROVE  /\ \A v, w \in Words :
                   v < w /\ hist.copies[i][w] > 0 => hist.copies[i][v] > 0
             /\ row[i].st = "sent" /\ i \notin BadItems =>
                   \A w \in Words : hist.copies[i][w] > 0
  BY <1>1, PieceOfType DEF CopiesInv, CopiesOf
<1>3. ASSUME NEW i \in Items, NEW w \in Words
      PROVE  hist.copies[i][w] <= 1 + hist.unacked[i]
  <2>1. hist.copies[i][w] \in Nat /\ hist.unacked[i] \in Nat
    BY <1>1 DEF OutboxTypeOK, History
  <2>2. QED BY <2>1 DEF CopiesInv, CopiesOf
<1>4. QED BY <1>2, <1>3 DEF NothingSkipped, RepeatsExcused

LEMMA CopiesHold ==
    ASSUME OutboxAssumption, SizeFixed
    PROVE  Spec => [](NothingSkipped /\ RepeatsExcused)
<1>1. Init => CopiesInv /\ DoneInv
  BY CopiesInit
<1>2. OutboxIInv /\ OutboxIInv' /\ CopiesInv /\ DoneInv /\ [Next]_vars
         => CopiesInv' /\ DoneInv'
  BY CopiesStep, DoneStep DEF OutboxIInv
<1>3. OutboxIInv /\ CopiesInv => NothingSkipped /\ RepeatsExcused
  BY CopiesSafe
<1>4. QED BY <1>1, <1>2, <1>3, OutboxIInvHolds, PTL DEF Spec

(* With one chunk_max_len, whatever fails, crashes or is shut down between *)
(* two pieces: the contact has received the reply up to some word, and all *)
(* of it once the row is marked sent (corepipeline/outbox.go).             *)
THEOREM NothingSkippedHolds ==
    ASSUME OutboxAssumption, SizeFixed
    PROVE  Spec => []NothingSkipped
BY CopiesHold, PTL

(* With one chunk_max_len, a word reaches the contact twice only if        *)
(* WhatsApp took a piece and the process did not live, or was not told, to *)
(* write it down (store/outbox.go SetOutboxChunkProgress).                 *)
THEOREM RepeatsExcusedHolds ==
    ASSUME OutboxAssumption, SizeFixed
    PROVE  Spec => []RepeatsExcused
BY CopiesHold, PTL

=============================================================================
