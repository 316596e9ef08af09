----------------------------- MODULE MCReplies -----------------------------
(* A small instance of Drafts and one of Outbox for TLC: a chat where one  *)
(* contact speaks twice and two approvers meet, and a text and a media     *)
(* reply in the queue.  Drafts ends where Outbox begins, with a reply      *)
(* queued; here a behaviour is one of either.                              *)
EXTENDS Drafts, Outbox, TLC

CONSTANTS ann, bob, k1, k2

VARIABLE part

MCMessages == 1..2
MCTwoDrafts == 1..2
MCSpeakers == {ann, bob}
MCSpeakerOf == (1 :> ann @@ 2 :> ann)
MCCallers == {k1, k2}
MCSecond == {2}
MCNone == {}
MCTwoWords == {2}

MCInit ==
    /\ part \in {"drafts", "outbox"}
    /\ DraftsInit /\ Init

MCNext ==
    \/ part = "drafts" /\ DraftsNext /\ UNCHANGED <<part, vars>>
    \/ part = "outbox" /\ Next /\ UNCHANGED <<part, draftsVars>>

MCSpec == MCInit /\ [][MCNext]_<<part, draftsVars, vars>>

MCSymmetry == Permutations(Callers)
=============================================================================
