------------------------------- MODULE Drafts -------------------------------
(***************************************************************************)
(* The drafts table of src/internal/store/draft.go and the REST and MCP    *)
(* handlers around it, for one chat: an agent's reply is held as a draft,  *)
(* its messages are marked handled, and whoever confirms approves it,      *)
(* discards it, edits it or rejects it and asks for another round.         *)
(*                                                                         *)
(* SQLite runs one statement at a time, and no handler uses a transaction: *)
(* a handler is one action per statement, and a caller may stop between    *)
(* two of them while others run.                                           *)
(***************************************************************************)
EXTENDS Integers, FiniteSets

CONSTANTS
    Messages,   \* the chat's inbound messages, numbered in the order of their ts
    Speakers,
    SpeakerOf,  \* who sent each one; one and the same value in a 1:1 chat
    Drafts,     \* rows of the table, numbered in the order of created_ts
    Callers,    \* requests in flight at the REST and MCP handlers
    Approvers,  \* those of the dashboard, or with a boss or approver dispatch
    MaxRounds,  \* MaxDraftRounds
    MaxEdits, MaxCrashes  \* bounds

ASSUME DraftsAssumption ==
    /\ Messages \subseteq Nat \ {0}
    /\ SpeakerOf \in [Messages -> Speakers]
    /\ Drafts \subseteq Nat \ {0}
    /\ Approvers \subseteq Callers /\ IsFiniteSet(Approvers)
    /\ MaxRounds \in Nat \ {0} /\ MaxEdits \in Nat /\ MaxCrashes \in Nat

VARIABLES
    msg,     \* the messages table: absent, pending or handled
    draft,   \* the drafts table
    copies,  \* how often a draft was put in the outbox
    agent,   \* the chat's dispatch and the draft tool that answers it
    caller,  \* the handlers in flight
    past     \* history, see DraftsHistory

draftsVars == <<msg, draft, copies, agent, caller, past>>

Statuses == {"none", "pending", "approved", "discarded", "rejected"}

DraftRow == [status : Statuses, burst : SUBSET Messages, round : Nat, edited : BOOLEAN]
NoRow == [status |-> "none", burst |-> {}, round |-> 0, edited |-> FALSE]

Agent == [pc : {"idle", "open", "insert", "mark"}, burst : SUBSET Messages, round : Nat]
IdleAgent == [pc |-> "idle", burst |-> {}, round |-> 0]

(* The caller's next statement, on the draft it loaded; old: it holds the  *)
(* draft's text as it was before any edit.                                 *)
Call == [pc : {"idle", "enqueue", "approve", "close", "reject", "reopen"},
         d : Drafts \cup {0}, old : BOOLEAN]
NoCaller == [pc |-> "idle", d |-> 0, old |-> FALSE]

(* sentOld: drafts queued with their first text.  raced: drafts edited     *)
(* while an approval of them was in flight.  torn: drafts a crash left     *)
(* queued and not marked, or rejected and their messages not reopened.     *)
(* early: rejections that reopened before the tool that held the reply had *)
(* closed its dispatch.                                                    *)
DraftsHistory == [sentOld : SUBSET Drafts, raced : SUBSET Drafts,
            torn : SUBSET Drafts, early : SUBSET Drafts, crashes : 0..MaxCrashes]

Existing == {d \in Drafts : draft[d].status # "none"}
Unanswered(s) == {m \in Messages : msg[m] = "pending" /\ SpeakerOf[m] = s}
Newest(S) == CHOOSE x \in S : \A y \in S : y <= x

(* Draft.BurstMaxTS and Draft.Sender.                                      *)
BurstMax(B) == Newest(B)
Sender(B) == SpeakerOf[Newest(B)]

(* The messages a close at the burst's end marks.                          *)
Covers(B, m) == SpeakerOf[m] = Sender(B) /\ m <= BurstMax(B)

(* MarkHandledBefore and MarkHandledBeforeForSender.                       *)
Closed(B) ==
    [m \in Messages |-> IF msg[m] = "pending" /\ Covers(B, m) THEN "handled" ELSE msg[m]]

(* MarkPendingBefore: the chat's whole past, whoever spoke.                *)
Reopened(B) ==
    [m \in Messages |-> IF msg[m] = "handled" /\ m <= BurstMax(B) THEN "pending" ELSE msg[m]]

(* nextDraftRound *)
NextRound ==
    IF Existing # {} /\ draft[Newest(Existing)].status = "rejected"
    THEN draft[Newest(Existing)].round + 1
    ELSE 1

(***************************************************************************)
(* The chat: messages arrive, the sweep dispatches one speaker's burst,    *)
(* the agent answers with draft or a send held for confirmation.           *)
(***************************************************************************)
Arrive(m) ==
    /\ msg[m] = "absent"
    /\ \A n \in Messages : n < m => msg[n] # "absent"
    /\ msg' = [msg EXCEPT ![m] = "pending"]
    /\ UNCHANGED <<draft, copies, agent, caller, past>>

Dispatch(s) ==
    /\ agent.pc = "idle"
    /\ Unanswered(s) # {}
    /\ agent' = [IdleAgent EXCEPT !.pc = "open", !.burst = Unanswered(s)]
    /\ UNCHANGED <<msg, draft, copies, caller, past>>

(* The agent never answers, and the dispatch is freed.                     *)
GiveUp ==
    /\ agent.pc = "open"
    /\ agent' = IdleAgent
    /\ UNCHANGED <<msg, draft, copies, caller, past>>

ReadRound ==
    /\ agent.pc = "open"
    /\ agent' = [agent EXCEPT !.pc = "insert", !.round = NextRound]
    /\ UNCHANGED <<msg, draft, copies, caller, past>>

(* Ids are given in order: the row takes the first free one.               *)
AddDraft(d) ==
    /\ agent.pc = "insert"
    /\ d \notin Existing /\ \A e \in Drafts : e < d => e \in Existing
    /\ draft' = [draft EXCEPT ![d] = [status |-> "pending", burst |-> agent.burst,
                                      round |-> agent.round, edited |-> FALSE]]
    /\ agent' = [agent EXCEPT !.pc = "mark"]
    /\ UNCHANGED <<msg, copies, caller, past>>

CloseDispatch ==
    /\ agent.pc = "mark"
    /\ msg' = Closed(agent.burst)
    /\ agent' = IdleAgent
    /\ UNCHANGED <<draft, copies, caller, past>>

(***************************************************************************)
(* approve_draft: read the pending row, queue it, mark the row, close the  *)
(* burst's messages.                                                       *)
(***************************************************************************)
ApproveUnread(c, d, override) ==  \* mutant: whatever was decided before
    /\ c \in Approvers /\ caller[c].pc = "idle"
    /\ draft[d].status # "none"
    /\ caller' = [caller EXCEPT ![c] = [pc |-> "enqueue", d |-> d,
                                        old |-> ~override /\ ~draft[d].edited]]
    /\ UNCHANGED <<msg, draft, copies, agent, past>>

Approve(c, d, override) ==
    /\ c \in Approvers /\ caller[c].pc = "idle"
    /\ draft[d].status = "pending"
    /\ caller' = [caller EXCEPT ![c] = [pc |-> "enqueue", d |-> d,
                                        old |-> ~override /\ ~draft[d].edited]]
    /\ UNCHANGED <<msg, draft, copies, agent, past>>

EnqueueApproved(c) ==
    /\ caller[c].pc = "enqueue"
    /\ copies' = [copies EXCEPT ![caller[c].d] = @ + 1]
    /\ past' = [past EXCEPT !.sentOld = IF caller[c].old THEN @ \cup {caller[c].d} ELSE @]
    /\ caller' = [caller EXCEPT ![c].pc = "approve"]
    /\ UNCHANGED <<msg, draft, agent>>

MarkApproved(c) ==
    /\ caller[c].pc = "approve"
    /\ draft' = [draft EXCEPT ![caller[c].d].status = "approved"]
    /\ caller' = [caller EXCEPT ![c].pc = "close"]
    /\ UNCHANGED <<msg, copies, agent, past>>

CloseApproved(c) ==
    /\ caller[c].pc = "close"
    /\ msg' = Closed(draft[caller[c].d].burst)
    /\ caller' = [caller EXCEPT ![c] = NoCaller]
    /\ UNCHANGED <<draft, copies, agent, past>>

(***************************************************************************)
(* discard_draft and edit_draft are one guarded UPDATE each.               *)
(***************************************************************************)

Discard(d) ==
    /\ draft[d].status = "pending"
    /\ draft' = [draft EXCEPT ![d].status = "discarded"]
    /\ UNCHANGED <<msg, copies, agent, caller, past>>

Edit(d) ==
    /\ draft[d].status = "pending"
    /\ Cardinality({e \in Drafts : draft[e].edited}) < MaxEdits
    /\ draft' = [draft EXCEPT ![d].edited = TRUE]
    /\ past' = [past EXCEPT !.raced =
                  IF \E c \in Callers : caller[c].pc \in {"enqueue", "approve"} /\ caller[c].d = d
                  THEN @ \cup {d} ELSE @]
    /\ UNCHANGED <<msg, copies, agent, caller>>

(***************************************************************************)
(* reject_draft: read the pending row, mark it, and below the cap reopen   *)
(* the messages for another dispatch.                                      *)
(***************************************************************************)
Reject(c, d) ==
    /\ caller[c].pc = "idle"
    /\ draft[d].status = "pending"
    /\ caller' = [caller EXCEPT ![c] = [pc |-> "reject", d |-> d, old |-> FALSE]]
    /\ UNCHANGED <<msg, draft, copies, agent, past>>

(* Mutant: a rejected draft waits again for the reply it asked for.        *)
RejectedRowWaits(r) ==
    [r EXCEPT !.status = IF r.round >= MaxRounds THEN "rejected" ELSE "pending"]

AtCap(round) == round >= MaxRounds
RejectedRow(r) == [r EXCEPT !.status = "rejected"]

MarkRejected(c) ==
    /\ caller[c].pc = "reject"
    /\ draft' = [draft EXCEPT ![caller[c].d] = RejectedRow(@)]
    /\ caller' = IF AtCap(draft[caller[c].d].round)
                 THEN [caller EXCEPT ![c] = NoCaller]
                 ELSE [caller EXCEPT ![c].pc = "reopen"]
    /\ UNCHANGED <<msg, copies, agent, past>>

ReopenRejected(c) ==
    /\ caller[c].pc = "reopen"
    /\ msg' = Reopened(draft[caller[c].d].burst)
    /\ past' = [past EXCEPT !.early =
                  IF agent.pc = "mark" /\ caller[c].d = Newest(Existing)
                  THEN @ \cup {caller[c].d} ELSE @]
    /\ caller' = [caller EXCEPT ![c] = NoCaller]
    /\ UNCHANGED <<draft, copies, agent>>

(* The process dies and starts again: only the tables survive.             *)
Crash ==
    /\ past.crashes < MaxCrashes
    /\ agent' = IdleAgent
    /\ caller' = [c \in Callers |-> NoCaller]
    /\ past' = [past EXCEPT
                  !.crashes = @ + 1,
                  !.torn = @ \cup {caller[c].d : c \in {k \in Callers :
                                        caller[k].pc \in {"approve", "reopen"}}}]
    /\ UNCHANGED <<msg, draft, copies>>

(***************************************************************************)
(* Specification                                                           *)
(***************************************************************************)
DraftsInit ==
    /\ msg = [m \in Messages |-> "absent"]
    /\ draft = [d \in Drafts |-> NoRow]
    /\ copies = [d \in Drafts |-> 0]
    /\ agent = IdleAgent
    /\ caller = [c \in Callers |-> NoCaller]
    /\ past = [sentOld |-> {}, raced |-> {}, torn |-> {}, early |-> {}, crashes |-> 0]

CallerStep(c) ==
    \/ EnqueueApproved(c) \/ MarkApproved(c) \/ CloseApproved(c)
    \/ MarkRejected(c) \/ ReopenRejected(c)

AgentStep ==
    \/ \E s \in Speakers : Dispatch(s)
    \/ GiveUp \/ ReadRound \/ CloseDispatch
    \/ \E d \in Drafts : AddDraft(d)

DraftsNext ==
    \/ \E m \in Messages : Arrive(m)
    \/ AgentStep
    \/ \E c \in Callers : CallerStep(c)
    \/ \E c \in Callers, d \in Drafts, o \in BOOLEAN : Approve(c, d, o)
    \/ \E c \in Callers, d \in Drafts : Reject(c, d)
    \/ \E d \in Drafts : Discard(d) \/ Edit(d)
    \/ Crash

DraftsSpec == DraftsInit /\ [][DraftsNext]_draftsVars

(***************************************************************************)
(* Properties                                                              *)
(***************************************************************************)
DraftsTypeOK ==
    /\ msg \in [Messages -> {"absent", "pending", "handled"}]
    /\ draft \in [Drafts -> DraftRow]
    /\ copies \in [Drafts -> Nat]
    /\ agent \in Agent
    /\ caller \in [Callers -> Call]
    /\ past \in DraftsHistory

(* Two approvals that read the same pending draft both queue it, and one   *)
(* a crash cut before it marked the draft can be repeated; nothing else    *)
(* duplicates a reply.  (ApproveDraft reads the status once, first.)       *)
CopiesBounded ==
    \A d \in Drafts : copies[d] <= Cardinality(Approvers) * (1 + past.crashes)

(* An accepted edit is what is sent, unless an approval already held the   *)
(* draft, or a crash cut one after it had queued it.  (EditDraft and       *)
(* ApproveDraft are guarded by the same status.)                           *)
EditHonoured ==
    \A d \in past.sentOld : draft[d].edited => d \in past.raced \cup past.torn

(* No message is closed with nobody to answer for it: a handled message is *)
(* covered by a draft that waits, was queued, was dropped on purpose, is   *)
(* at the cap, or is about to reopen it.  Only a crash between marking the *)
(* rejection and reopening, or a rejection faster than the tool that held  *)
(* the reply, breaks this.                                                 *)
Stands(d) ==
    \/ draft[d].status \in {"pending", "approved", "discarded"}
    \/ copies[d] > 0
    \/ draft[d].status = "rejected" /\ draft[d].round >= MaxRounds
    \/ d \in past.torn \cup past.early
    \/ \E c \in Callers : caller[c].pc = "reopen" /\ caller[c].d = d

HandledIsCovered ==
    \A m \in Messages : msg[m] = "handled" =>
        \E d \in Existing : Covers(draft[d].burst, m) /\ Stands(d)

(* A round above the first answers a rejection: the draft before it in the *)
(* chat was rejected in the round before, though an approval that had read *)
(* it earlier may have marked it since.                                    *)
RoundsChain ==
    \A d \in Existing : draft[d].round > 1 =>
        \E e \in Existing : /\ e < d /\ draft[e].round = draft[d].round - 1
                            /\ draft[e].status \in {"rejected", "approved"}

(* A reply held for approval: nothing is queued more often than it was     *)
(* approved, an edit is what is sent, nothing is closed unanswered, and    *)
(* rounds are counted.                                                     *)
DraftsSafe ==
    DraftsTypeOK /\ CopiesBounded /\ EditHonoured /\ HandledIsCovered /\ RoundsChain

(* The table implements DraftBox: reading a pending draft to approve it is *)
(* the look, queueing it the send.                                         *)
BoxOf == [d \in Drafts |-> CASE draft[d].status = "none" -> "none"
                            [] draft[d].status = "pending" -> "waiting"
                            [] OTHER -> "decided"]
LooksOf == {<<c, caller[c].d>> : c \in {k \in Callers : caller[k].pc = "enqueue"}}

Box == INSTANCE DraftBox WITH box <- BoxOf, looks <- LooksOf, sent <- copies
ImplementsBox == Box!BoxSpec
=============================================================================
