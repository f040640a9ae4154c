--------------------------- MODULE MCAccountStore ---------------------------
(* Instances of AccountStore; sockets and ids are interchangeable.         *)
EXTENDS AccountStore, TLC

Symmetries == Permutations(Socks) \cup Permutations(Ids)

NoFaults == {}
=============================================================================
