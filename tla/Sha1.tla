-------------------------------- MODULE Sha1 --------------------------------
(***************************************************************************)
(* The hash of encrypt/sha1.cpp: octets are taken in calls of any length,  *)
(* collected into blocks, counted in two words that may overflow, and      *)
(* padded when the digest is asked for.                                    *)
(*                                                                         *)
(* The compression of a block is taken to be ideal: the value of the hash  *)
(* is the sequence of the blocks compressed so far, so that two digests    *)
(* are equal exactly when the same blocks went in.  A cell of a block is a *)
(* tuple: <<n>> is the octet n.  Of the four cells that each word of the   *)
(* length takes at the end of a block the model makes one.  A definition   *)
(* named X_Y is a slip Y of X, a way the code could be wrong.              *)
(***************************************************************************)
EXTENDS Integers, Sequences

CONSTANTS
    Octets,     \* the values an octet of a message takes
    BlockSize,  \* cells in Message_Block, 64 in the code
    LowSpace,   \* values of Length_Low, 2^32 in the code
    HighSpace,  \* values of Length_High, 2^32 in the code
    MaxPart     \* bound of the model: octets given in one call

ASSUME OctetsAssumption == Octets \subseteq 0 .. 255
ASSUME SpaceAssumption ==
    /\ BlockSize \in Nat /\ BlockSize > 2
    /\ LowSpace \in {8 * n : n \in 1 .. LowSpace}
    /\ HighSpace \in Nat \ {0}
    /\ MaxPart \in Nat

VARIABLES
    sha,        \* the SHA1Context
    returned,   \* what the last call returned
    message,    \* the octets taken since SHA1Reset
    digest      \* Message_Digest, once SHA1Result has filled it in

shaVars == <<sha, returned, message, digest>>

shaSuccess == 0
shaStateError == 3
TooLong == 1            \* the code's own value; sha1.h has shaInputTooLong = 2

Cells(octets) == [i \in DOMAIN octets |-> <<octets[i]>>]
Zeros(n) == [i \in 1 .. n |-> <<0>>]
Mark == <<128>>
LengthIndex == BlockSize - 2        \* 56 in the code
NoDigest == <<>>

SHA1Reset ==
    [Length_Low |-> 0, Length_High |-> 0, Message_Block_Index |-> 0,
     Message_Block |-> Zeros(BlockSize), Intermediate_Hash |-> <<>>,
     Computed |-> FALSE, Corrupted |-> 0]

-----------------------------------------------------------------------------
(* One block, one octet, one call.                                         *)

SHA1ProcessMessageBlock_IndexKept(c) ==
    [c EXCEPT !.Intermediate_Hash = Append(@, c.Message_Block)]

SHA1ProcessMessageBlock(c) ==
    [c EXCEPT !.Intermediate_Hash = Append(@, c.Message_Block),
              !.Message_Block_Index = 0]

\* Message_Block[Message_Block_Index++] = cell
Store(c, cell) ==
    [c EXCEPT !.Message_Block[c.Message_Block_Index + 1] = cell,
              !.Message_Block_Index = @ + 1]

Overflows_Never(low, high) == FALSE

Overflows(low, high) == low = 0 /\ high = 0

\* Length_Low += 8, with the carry and the end of the carry.
Count(c) ==
    LET low == (c.Length_Low + 8) % LowSpace
        high == (c.Length_High + 1) % HighSpace
    IN  [c EXCEPT !.Length_Low = low,
                  !.Length_High = IF low = 0 THEN high ELSE @,
                  !.Corrupted = IF Overflows(low, high) THEN TooLong ELSE @]

\* One turn of the loop of SHA1Input.
Take(c, cell) ==
    LET counted == Count(Store(c, cell))
    IN  IF counted.Message_Block_Index = BlockSize
        THEN SHA1ProcessMessageBlock(counted)
        ELSE counted

TakeUnlessCorrupted(c, cell) == IF c.Corrupted = 0 THEN Take(c, cell) ELSE c

\* What SHA1Input returns; a message that becomes too long is not reported by
\* the call that makes it so.
InputError(c, cells) ==
    IF cells = <<>> THEN shaSuccess
    ELSE IF c.Computed THEN shaStateError
    ELSE c.Corrupted

\* The context after the loop, which stops at the octet that makes it Corrupted.
TakeAll(c, cells) ==
    LET taken[n \in 0 .. Len(cells)] ==
            IF n = 0 THEN c ELSE TakeUnlessCorrupted(taken[n - 1], cells[n])
    IN  taken[Len(cells)]

SHA1Input_GoesOn(c, cells) == TakeAll(c, cells)

SHA1Input(c, cells) ==
    IF cells = <<>> THEN c
    ELSE IF c.Computed THEN [c EXCEPT !.Corrupted = shaStateError]
    ELSE TakeAll(c, cells)

-----------------------------------------------------------------------------
(* The end of a message.                                                   *)

\* Zeros from the index up to the cell before index n.
ZeroFill(c, n) ==
    [c EXCEPT !.Message_Block = [i \in 1 .. BlockSize |->
                  IF i \in c.Message_Block_Index + 1 .. n THEN <<0>> ELSE @[i]],
              !.Message_Block_Index = n]

NeedsAnotherBlock_OneLate(c) == c.Message_Block_Index > LengthIndex

\* The length would no longer fit behind the mark.
NeedsAnotherBlock(c) == c.Message_Block_Index > LengthIndex - 1

SHA1PadMessage(c) ==
    LET marked == Store(c, Mark)
        filled ==
            IF NeedsAnotherBlock(c)
            THEN ZeroFill(SHA1ProcessMessageBlock(ZeroFill(marked, BlockSize)),
                          LengthIndex)
            ELSE ZeroFill(marked, LengthIndex)
    IN  SHA1ProcessMessageBlock(
            [filled EXCEPT !.Message_Block[BlockSize - 1] = <<c.Length_High>>,
                           !.Message_Block[BlockSize] = <<c.Length_Low>>])

SHA1Result(c) ==
    IF c.Corrupted # 0 \/ c.Computed THEN c
    ELSE [SHA1PadMessage(c) EXCEPT !.Message_Block = Zeros(BlockSize),
                                   !.Length_Low = 0, !.Length_High = 0,
                                   !.Computed = TRUE]

-----------------------------------------------------------------------------
(* A caller that makes any calls in any order.                             *)

Reset ==
    /\ sha' = SHA1Reset
    /\ returned' = shaSuccess
    /\ message' = <<>>
    /\ digest' = NoDigest

Input(octets) ==
    /\ sha' = SHA1Input(sha, Cells(octets))
    /\ returned' = InputError(sha, Cells(octets))
    /\ message' = IF returned' = shaSuccess THEN message \o octets ELSE message
    /\ UNCHANGED digest

Result ==
    /\ sha' = SHA1Result(sha)
    /\ returned' = sha.Corrupted
    /\ digest' = IF returned' = shaSuccess THEN sha'.Intermediate_Hash ELSE digest
    /\ UNCHANGED message

ShaInit ==
    /\ sha = SHA1Reset
    /\ returned = shaSuccess
    /\ message = <<>>
    /\ digest = NoDigest

ShaNext ==
    \/ Reset
    \/ Result
    \/ \E n \in 0 .. MaxPart : \E octets \in [1 .. n -> Octets] : Input(octets)

-----------------------------------------------------------------------------
(* Properties.                                                             *)

\* Between two calls there is always room for one more cell: the index of
\* SHA1Context never stands at the end of Message_Block, where the next store
\* of SHA1Input or SHA1PadMessage would be outside it.
TypeOK ==
    /\ sha.Length_Low \in 0 .. LowSpace - 1
    /\ sha.Length_High \in 0 .. HighSpace - 1
    /\ sha.Message_Block_Index \in 0 .. BlockSize - 1
    /\ Len(sha.Message_Block) = BlockSize
    /\ sha.Computed \in BOOLEAN
    /\ {sha.Corrupted, returned} \subseteq {shaSuccess, TooLong, shaStateError}
    /\ message \in Seq(Octets)

\* What the digest has to be of: the message, a mark, zeros, and the length
\* in bits in the last two cells, in as few blocks as hold that.
PaddedTo(blocks, cells) ==
    LET n == Len(cells)
        last == Len(blocks) * BlockSize
    IN  \E high \in 0 .. HighSpace - 1, low \in 0 .. LowSpace - 1 :
            /\ 8 * n = high * LowSpace + low
            /\ last - BlockSize < n + 3 /\ n + 3 <= last
            /\ \A b \in DOMAIN blocks : blocks[b] =
                  [j \in 1 .. BlockSize |->
                      LET i == (b - 1) * BlockSize + j
                      IN  CASE i <= n -> cells[i]
                            [] i = n + 1 -> Mark
                            [] i = last - 1 -> <<high>>
                            [] i = last -> <<low>>
                            [] OTHER -> <<0>>]

\* A digest that SHA1Result hands out is that of the octets given since
\* SHA1Reset, all of them and in their order, into however many calls of
\* SHA1Input they were divided; a message whose length cannot be written
\* gets none.
DigestOfMessage == digest # NoDigest => PaddedTo(digest, Cells(message))

\* Until the context is reset, a digest that was handed out is the one handed
\* out again, octets offered after it are refused for good (SHA1Input sets
\* Corrupted), and a context with an error stays one with an error.
DigestStands ==
    [][\/ sha' = SHA1Reset
       \/ /\ digest # NoDigest => digest' = digest /\ message' = message
          /\ sha.Corrupted # 0 => sha'.Corrupted # 0 /\ digest' = digest]_shaVars
=============================================================================
