----------------------------- MODULE MCRoomList -----------------------------
(* Instances of RoomList; sockets are interchangeable, and letters as well. *)
EXTENDS RoomList

CONSTANTS a, b, c, s1, s2, s3      \* model values: letters and sockets

ThreeNames == {<<a>>, <<b>>, <<c>>}

Symmetry == Permutations(Socks) \cup Permutations(Letters)
=============================================================================
