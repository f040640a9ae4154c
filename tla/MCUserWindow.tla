---------------------------- MODULE MCUserWindow ----------------------------
(* Instances of UserWindow in which the nick anna begins with ann. *)
EXTENDS UserWindow

CONSTANTS ann, anna, bob        \* model values: ids

OneExtended == {<<ann, anna>>}

Symmetries == Permutations(Socks)

NoFaults == {}
=============================================================================
