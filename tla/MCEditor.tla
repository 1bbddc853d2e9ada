------------------------------ MODULE MCEditor ------------------------------
(* Instances of Editor for TLC: one or two windows, of one or two users.     *)
EXTENDS Editor
CONSTANTS w1, w2, s1, s2

OneWindow      == {w1}
TwoWindows     == {w1, w2}
OneSession     == {s1}
TwoSessions    == {s1, s2}
AllInOne       == [w \in Windows |-> s1]
OneEach        == [w \in Windows |-> IF w = w1 THEN s1 ELSE s2]
=============================================================================
