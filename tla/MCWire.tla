------------------------------- MODULE MCWire -------------------------------
(* Instances of Wire.                                                      *)
EXTENDS Wire

CONSTANTS s1, s2, k1, k2       \* model values: sockets and keys

TwoSocks == {s1, s2}
=============================================================================
