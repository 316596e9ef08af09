------------------------------ MODULE DraftBox ------------------------------
(***************************************************************************)
(* What the drafts table promises whoever holds a reply back in it: a copy *)
(* of a draft leaves only in the hands of a caller who saw it waiting, one *)
(* copy each time, and a draft that was decided never waits again.         *)
(***************************************************************************)
EXTENDS Naturals

CONSTANTS Drafts, Callers

VARIABLES
    box,    \* none, waiting or decided
    looks,  \* callers that saw a draft waiting and may still send it
    sent    \* how many copies left

boxVars == <<box, looks, sent>>

BoxInit ==
    /\ box = [d \in Drafts |-> "none"]
    /\ looks = {}
    /\ sent = [d \in Drafts |-> 0]

Hold(d) ==
    /\ box[d] = "none"
    /\ box' = [box EXCEPT ![d] = "waiting"]
    /\ UNCHANGED <<looks, sent>>

Look(c, d) ==
    /\ box[d] = "waiting"
    /\ \A e \in Drafts : <<c, e>> \notin looks
    /\ looks' = looks \cup {<<c, d>>}
    /\ UNCHANGED <<box, sent>>

Send(c, d) ==
    /\ <<c, d>> \in looks
    /\ looks' = looks \ {<<c, d>>}
    /\ sent' = [sent EXCEPT ![d] = @ + 1]
    /\ UNCHANGED box

Decide(d) ==
    /\ box[d] # "none"
    /\ box' = [box EXCEPT ![d] = "decided"]
    /\ UNCHANGED <<looks, sent>>

(* A crash: whoever was about to send will not.                            *)
Forget ==
    /\ looks' = {}
    /\ UNCHANGED <<box, sent>>

BoxNext ==
    \/ \E d \in Drafts : Hold(d) \/ Decide(d)
    \/ \E c \in Callers, d \in Drafts : Look(c, d) \/ Send(c, d)
    \/ Forget

BoxSpec == BoxInit /\ [][BoxNext]_boxVars
=============================================================================
