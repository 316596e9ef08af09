------------------------------- MODULE MCChats -------------------------------
(* A small instance of Chats for TLC: the chat is unknown, or served by    *)
(* default, when two callers begin.                                        *)
EXTENDS Chats, TLC

CONSTANTS free, k1, k2, m1

MCCallers == {k1, k2}
MCMessages == {m1}

Blank == [exists |-> FALSE, status |-> "new", active |-> FALSE, conf |-> "none",
          boss |-> FALSE, touched |-> FALSE, manual |-> FALSE, contact |-> FALSE,
          mode |-> "auto", modeManual |-> FALSE, claim |-> free]
Served == [Blank EXCEPT !.exists = TRUE, !.active = TRUE]
MCRows == {Blank, Served}

MCDefaults == {"auto", "ignored"}
MCSymmetry == Permutations(Callers)
=============================================================================
