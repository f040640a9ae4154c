------------------------------- MODULE MCRsa -------------------------------
(* Instances of Rsa: bytes at the ends of the range, and inside it.        *)
EXTENDS Rsa

Bytes == {-128, -1, 65, 127}
=============================================================================
