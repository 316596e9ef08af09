------------------------------ MODULE MCInbound ------------------------------
(* Small instances of Inbound for TLC: a group where u and v write, and    *)
(* the owner answers on his phone.                                         *)
EXTENDS Inbound, TLC

CONSTANTS g, u, v

MCMessages == 1..3
MCThird == {3}
MCNone == {}
MCOne == {1}
MCChats == {g}
MCChatOf == [m \in MCMessages |-> g]
MCSpeakers == {u, v}
MCSpeakerOf == (1 :> u @@ 2 :> v @@ 3 :> u)
=============================================================================
