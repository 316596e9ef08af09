------------------------------ MODULE MCPusher ------------------------------
(* Small instances of Pusher for TLC: principal p, agent or caller a of    *)
(* send_to_boss; the owner's chat, where he may quote a, and a group.      *)
EXTENDS Pusher, TLC

CONSTANTS p, a, boss, group, owner, none

MCTerminals == {p, a}
MCOnlyA == {a}
MCChats == {boss, group}
MCBoss == {boss}
MCOwner == {owner}
MCNobody == {}
MCUnrouted == [c \in MCChats |-> none]
MCToAgent == [c \in MCChats |-> IF c = group THEN a ELSE none]

MCThree == 1..3

(* A plain message, a quote of a, and one in the group.                    *)
MCChatOf == (1 :> boss @@ 2 :> boss @@ 3 :> group)
MCReplyTo == (1 :> none @@ 2 :> a @@ 3 :> none)
MCOneSpeaker == [m \in MCThree |-> owner]

(* One in the group, then a quote of a.                                    *)
MCTwo == 1..2
MCTwoChatOf == (1 :> group @@ 2 :> boss)
MCTwoReplyTo == (1 :> none @@ 2 :> a)
MCTwoSpeaker == [m \in MCTwo |-> owner]

(* Left out: heard, which only the liveness property reads; outages of     *)
(* terminals nobody quotes, which raise no alarm; back-offs of messages    *)
(* that are not waiting for one; what free terminals once received; and    *)
(* of tries and lost all but their difference.                             *)
Quoted == {ReplyTo[m] : m \in Messages}
SeenMem ==
    [mem EXCEPT !.down = @ \cap Quoted, !.long = @ \cap Quoted,
                !.cooling = {m \in @ : mem.count[m] \in 1..MaxRedispatch - 1}]
SeenHist ==
    [hist EXCEPT !.heard = {},
                 !.got = {u \in @ : inFlight[u] # NoMsg \/ InUse(u)},
                 !.tries = [m \in Messages |-> hist.tries[m] - hist.lost[m]],
                 !.lost = {}]
SafetyView == <<msg, age, antennas, inFlight, SeenMem, pass, SeenHist>>
=============================================================================
