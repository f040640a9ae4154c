-------------------------------- MODULE Hmac --------------------------------
(***************************************************************************)
(* The keyed hash of encrypt/hmac_sha1.cpp on top of the hash.             *)
(*                                                                         *)
(* Text and key are C strings of cells.  A cell stands for an octet and    *)
(* says where it comes from: <<n>> is the octet n, an octet of a digest    *)
(* names its position and the blocks it is the digest of, and an octet of  *)
(* a pad that a cell of the key was xored into is the pair of the two.     *)
(* Any cell may stand in a text or in a key, so a digest may be one: the   *)
(* code keeps all of them in arrays of uint8_t.  As the compression is     *)
(* ideal, octets of digests are equal only where digests are, and none is  *)
(* zero.                                                                   *)
(***************************************************************************)
EXTENDS Sha1, FiniteSets

CONSTANTS
    Texts, SecretKeys,  \* arguments of the calls, sequences of cells
    HashSize,           \* SHA1HashSize, 20 in the code
    MaxMacs             \* bound of the model: calls whose results are kept

ASSUME HashSizeAssumption == HashSize \in 1 .. BlockSize
ASSUME ArgumentsAssumption ==
    \A s \in Texts \cup SecretKeys : s \in Seq({s[i] : i \in DOMAIN s})

VARIABLE macs           \* the calls made: text, key and Message_Digest

hmacVars == <<shaVars, macs>>

\* strlen: a string ends before its first zero octet.
CString(cells) ==
    LET ends == {i \in DOMAIN cells : cells[i] = <<0>>}
    IN  IF ends = {} THEN cells
        ELSE SubSeq(cells, 1, (CHOOSE i \in ends : \A j \in ends : i <= j) - 1)

\* SHA1Reset, SHA1Input, SHA1Result; test ends the process on an error.
Hash(cells) ==
    LET result == SHA1Result(SHA1Input(SHA1Reset, cells))
    IN  [i \in 1 .. HashSize |-> <<"digest", i, result.Intermediate_Hash>>]

Hashes(cells) == SHA1Input(SHA1Reset, cells).Corrupted = 0

BlockOfKey_Cut(key) == SubSeq(CString(key) \o Zeros(BlockSize), 1, BlockSize)

\* SHA1_Key: a key longer than a block gives way to its digest; what is left
\* of the block is zero.
BlockOfKey(key) ==
    LET cells == CString(key)
        short == IF Len(cells) > BlockSize THEN Hash(cells) ELSE cells
    IN  short \o Zeros(BlockSize - Len(short))

\* m_ipad or m_opad with the key xored in.
Pad(pad, block) == [i \in DOMAIN block |-> <<pad, block[i]>>]

Inner(text, key) == Pad("ipad", BlockOfKey(key)) \o CString(text)
Outer(text, key) == Pad("opad", BlockOfKey(key)) \o Hash(Inner(text, key))

hmac_sha1(text, key) == Hash(Outer(text, key))

-----------------------------------------------------------------------------
(* The hash is used either by itself or for the keyed hash, whose context  *)
(* is a local variable of its own.                                         *)

Mac(text, key) ==
    /\ sha = SHA1Reset /\ digest = NoDigest
    /\ Cardinality(macs) < MaxMacs
    /\ Hashes(CString(key)) /\ Hashes(Inner(text, key)) /\ Hashes(Outer(text, key))
    /\ macs' = macs \cup {[text |-> CString(text), key |-> CString(key),
                           mac |-> hmac_sha1(text, key)]}
    /\ UNCHANGED shaVars

\* MaxMacs results are kept together; then others may be.
Forget ==
    /\ macs # {}
    /\ macs' = {}
    /\ UNCHANGED shaVars

HmacInit ==
    /\ ShaInit
    /\ macs = {}

HmacNext ==
    \/ macs = {} /\ ShaNext /\ UNCHANGED macs
    \/ Forget
    \/ \E text \in Texts, key \in SecretKeys : Mac(text, key)

HmacSpec == HmacInit /\ [][HmacNext]_hmacVars

(* Line 43 and line 46 both fill SHA1_Key: a key longer than a block is    *)
(* one secret with the key that is its digest, and there is no other such  *)
(* pair.                                                                   *)
DigestAsKey(long, short) == Len(long) > BlockSize /\ short = Hash(long)

SameSecret(k, l) == k = l \/ DigestAsKey(k, l) \/ DigestAsKey(l, k)

\* Two calls of hmac_sha1 give the same digest exactly when both were given
\* the same text under the same secret: a key of any length counts in full, no
\* text stands for a piece of the key, and the only keys that are taken for
\* one another are a long one and its own digest.
MacsTellApart ==
    \A a, b \in macs :
        a.mac = b.mac <=> a.text = b.text /\ SameSecret(a.key, b.key)
=============================================================================
