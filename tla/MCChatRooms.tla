---------------------------- MODULE MCChatRooms ----------------------------
(***************************************************************************)
(* Small instances of ChatRooms for TLC.                                   *)
(***************************************************************************)
EXTENDS ChatRooms

CONSTANTS a, b, c, s1, s2, s3      \* model values: letters and sockets

EmptyAndOne == {<<>>, <<a>>}      \* the empty nick and another
TwoNames == {<<a>>, <<b>>}

SocketSymmetry == Permutations(Socks)
=============================================================================
