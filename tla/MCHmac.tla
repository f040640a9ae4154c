------------------------------- MODULE MCHmac -------------------------------
EXTENDS Hmac

UpTo(n, octets) == UNION {[1 .. k -> octets] : k \in 0 .. n}

FewTexts == {Cells(octets) : octets \in UpTo(2, {1, 128})}

\* A key longer than a block, and the digest of it as a key.
LongKey == Cells([i \in 1 .. BlockSize + 1 |-> 1])
ItsDigest == Hash(LongKey)

\* Keys around the size of a block, some with a zero octet or another one in
\* them, and a digest with or without a zero or another octet behind it.
KeysAroundABlock ==
    {Cells([i \in 1 .. n |-> IF i = at THEN octet ELSE 1]) :
        n \in {0, 1, BlockSize - 1, BlockSize, BlockSize + 1, BlockSize + 2},
        at \in {1, BlockSize, BlockSize + 1}, octet \in {0, 1, 2}}
    \cup {ItsDigest, ItsDigest \o <<<<0>>>>, ItsDigest \o <<<<1>>>>}
=============================================================================
