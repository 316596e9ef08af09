----------------------------- MODULE MCSendTools -----------------------------
(* Small instances of SendTools for TLC: one terminal without an antenna,  *)
(* a one-to-one chat c and a group g with two speakers.                    *)
EXTENDS SendTools, TLC

CONSTANTS d1, d2, d3, n1, n2, n3, t1, c, g, u, v, m1, m2, h1, h2

MCDispatches == {d1, d2}
MCNonces == {n1, n2, n3}
MCTerminals == {t1}
MCCaution == {"caution"}
MCChats == {c, g}
MCGroup == {g}
MCNone == {}
MCSpeakers == {u, v}
MCTwoMsgs == {m1, m2}
MCOneHandler == {h1}
MCAllTools == {"send", "draft", "silent"}

MCSymmetry == Permutations(MCDispatches) \cup Permutations(MCNonces)
                \cup Permutations(Msgs) \cup Permutations(Handlers)

(* Objects no index and no handler refers to are garbage, and no property  *)
(* of these runs reads the retirement reasons.                             *)
MCLive == Open \cup Bound \cup {handler[h].snap.d : h \in Handlers}
MCView == <<[d \in Dispatches |-> IF d \in Open \cup Bound THEN disp[d] ELSE Blank],
            [d \in Dispatches |-> IF d \in MCLive THEN <<burst[d], replies[d]>>
                                                 ELSE <<{}, 0>>],
            byNonce, byTerminal, injecting, msg, handler, sweep, opened>>
=============================================================================
