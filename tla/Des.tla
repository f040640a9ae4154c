-------------------------------- MODULE Des --------------------------------
(***************************************************************************)
(* The block cipher of encrypt/des.cpp with its one, global, key schedule. *)
(*                                                                         *)
(* Words are sequences of bits, the highest first.  A pair of DWORDs is    *)
(* one sequence of 64, 56 or 48 bits: [1] is its first half, [0] its       *)
(* second.  A definition named X_Y is a slip Y of X.                       *)
(***************************************************************************)
EXTENDS Integers, Sequences, FiniteSets

CONSTANTS
    Keys,       \* what MakeKey is called with: eight octets
    Datas,      \* what the blocks start from: 64 bits
    NoKey,      \* MakeKey has not been called
    MaxDepth    \* bound of the model: layers of encryption on a block

ASSUME KeysAssumption ==
    /\ Keys \subseteq [1 .. 8 -> 0 .. 255]
    /\ NoKey \notin [1 .. 8 -> 0 .. 255]
ASSUME DatasAssumption == Datas \subseteq [1 .. 64 -> {0, 1}]

VARIABLES
    dRoundKey,  \* the sixteen round keys, 48 bits each
    key,        \* the key they were made from
    data,       \* a block in the caller's hands
    plain,      \* what it was at first
    layers      \* the keys it was encrypted (1) and decrypted (-1) under since,
                \* without those that cancel out

vars == <<dRoundKey, key, data, plain, layers>>

-----------------------------------------------------------------------------
(* Tables.                                                                 *)

IP == <<58, 50, 42, 34, 26, 18, 10, 2, 60, 52, 44, 36, 28, 20, 12, 4,
       62, 54, 46, 38, 30, 22, 14, 6, 64, 56, 48, 40, 32, 24, 16, 8,
       57, 49, 41, 33, 25, 17, 9, 1, 59, 51, 43, 35, 27, 19, 11, 3,
       61, 53, 45, 37, 29, 21, 13, 5, 63, 55, 47, 39, 31, 23, 15, 7>>

IIP == <<40, 8, 48, 16, 56, 24, 64, 32, 39, 7, 47, 15, 55, 23, 63, 31,
      38, 6, 46, 14, 54, 22, 62, 30, 37, 5, 45, 13, 53, 21, 61, 29,
      36, 4, 44, 12, 52, 20, 60, 28, 35, 3, 43, 11, 51, 19, 59, 27,
      34, 2, 42, 10, 50, 18, 58, 26, 33, 1, 41, 9, 49, 17, 57, 25>>

PC_1 == <<57, 49, 41, 33, 25, 17, 9, 1, 58, 50, 42, 34, 26, 18,
      10, 2, 59, 51, 43, 35, 27, 19, 11, 3, 60, 52, 44, 36,
      63, 55, 47, 39, 31, 23, 15, 7, 62, 54, 46, 38, 30, 22,
      14, 6, 61, 53, 45, 37, 29, 21, 13, 5, 28, 20, 12, 4>>

PC_2 == <<14, 17, 11, 24, 1, 5, 3, 28, 15, 6, 21, 10,
      23, 19, 12, 4, 26, 8, 16, 7, 27, 20, 13, 2,
      41, 52, 31, 37, 47, 55, 30, 40, 51, 45, 33, 48,
      44, 49, 39, 56, 34, 53, 46, 42, 50, 36, 29, 32>>

P == <<16, 7, 20, 21, 29, 12, 28, 17, 1, 15, 23, 26, 5, 18, 31, 10,
      2, 8, 24, 14, 32, 27, 3, 9, 19, 13, 30, 6, 22, 11, 4, 25>>

LSHIFT == <<1, 1, 2, 2, 2, 2, 2, 2, 1, 2, 2, 2, 2, 2, 2, 1>>

SBox_DES == <<
  <<<<14, 4, 13, 1, 2, 15, 11, 8, 3, 10, 6, 12, 5, 9, 0, 7>>,
    <<0, 15, 7, 4, 14, 2, 13, 1, 10, 6, 12, 11, 9, 5, 3, 8>>,
    <<4, 1, 14, 8, 13, 6, 2, 11, 15, 12, 9, 7, 3, 10, 5, 0>>,
    <<15, 12, 8, 2, 4, 9, 1, 7, 5, 11, 3, 14, 10, 0, 6, 13>>>>,
  <<<<15, 1, 8, 14, 6, 11, 3, 4, 9, 7, 2, 13, 12, 0, 5, 10>>,
    <<3, 13, 4, 7, 15, 2, 8, 14, 12, 0, 1, 10, 6, 9, 11, 5>>,
    <<0, 14, 7, 11, 10, 4, 13, 1, 5, 8, 12, 6, 9, 3, 2, 15>>,
    <<13, 8, 10, 1, 3, 15, 4, 2, 11, 6, 7, 12, 0, 5, 14, 9>>>>,
  <<<<10, 0, 9, 14, 6, 3, 15, 5, 1, 13, 12, 7, 11, 4, 2, 8>>,
    <<13, 7, 0, 9, 3, 4, 6, 10, 2, 8, 5, 14, 12, 11, 15, 1>>,
    <<13, 6, 4, 9, 8, 15, 3, 0, 11, 1, 2, 12, 5, 10, 14, 7>>,
    <<1, 10, 13, 0, 6, 9, 8, 7, 4, 15, 14, 3, 11, 5, 2, 12>>>>,
  <<<<7, 13, 14, 3, 0, 6, 9, 10, 1, 2, 8, 5, 11, 12, 4, 15>>,
    <<13, 8, 11, 5, 6, 15, 0, 3, 4, 7, 2, 12, 1, 10, 14, 9>>,
    <<10, 6, 9, 0, 12, 11, 7, 13, 15, 1, 3, 14, 5, 2, 8, 4>>,
    <<3, 15, 0, 6, 10, 1, 13, 8, 9, 4, 5, 11, 12, 7, 2, 14>>>>,
  <<<<2, 12, 4, 1, 7, 10, 11, 6, 8, 5, 3, 15, 13, 0, 14, 9>>,
    <<14, 11, 2, 12, 4, 7, 13, 1, 5, 0, 15, 10, 3, 9, 8, 6>>,
    <<4, 2, 1, 11, 10, 13, 7, 8, 15, 9, 12, 5, 6, 3, 0, 14>>,
    <<11, 8, 12, 7, 1, 14, 2, 13, 6, 15, 0, 9, 10, 4, 5, 3>>>>,
  <<<<12, 1, 10, 15, 9, 2, 6, 8, 0, 13, 3, 4, 14, 7, 5, 11>>,
    <<10, 15, 4, 2, 7, 12, 9, 5, 6, 1, 13, 14, 0, 11, 3, 8>>,
    <<9, 14, 15, 5, 2, 8, 12, 3, 7, 0, 4, 10, 1, 13, 11, 6>>,
    <<4, 3, 2, 12, 9, 5, 15, 10, 11, 14, 1, 7, 6, 0, 8, 13>>>>,
  <<<<4, 11, 2, 14, 15, 0, 8, 13, 3, 12, 9, 7, 5, 10, 6, 1>>,
    <<13, 0, 11, 7, 4, 9, 1, 10, 14, 3, 5, 12, 2, 15, 8, 6>>,
    <<1, 4, 11, 13, 12, 3, 7, 14, 10, 15, 6, 8, 0, 5, 9, 2>>,
    <<6, 11, 13, 8, 1, 4, 10, 7, 9, 5, 0, 15, 14, 2, 3, 12>>>>,
  <<<<13, 2, 8, 4, 6, 15, 11, 1, 10, 9, 3, 14, 5, 0, 12, 7>>,
    <<1, 15, 13, 8, 10, 3, 7, 4, 12, 5, 6, 11, 0, 14, 9, 2>>,
    <<7, 11, 4, 1, 9, 12, 14, 2, 0, 6, 10, 13, 15, 3, 5, 8>>,
    <<2, 1, 14, 7, 4, 10, 8, 13, 15, 12, 9, 0, 3, 5, 6, 11>>>>>>

-----------------------------------------------------------------------------
(* Pieces of a round.                                                      *)

Xor(a, b) == [i \in DOMAIN a |-> (a[i] + b[i]) % 2]
Permuted(bits, table) == [i \in DOMAIN table |-> bits[table[i]]]
Upper(bits) == SubSeq(bits, 1, Len(bits) \div 2)
Lower(bits) == SubSeq(bits, Len(bits) \div 2 + 1, Len(bits))

\* An octet in eight bits, and a number below 16 in four.
Weight == <<128, 64, 32, 16, 8, 4, 2, 1>>
Bits(n, w) == [b \in 1 .. w |-> (n \div Weight[8 - w + b]) % 2]

InitialPermutation(block) == Permuted(block, IP)
InverseInitialPermutation(block) == Permuted(block, IIP)

\* Groups of six bits that overlap by two, around the ends of the half.
ExpansionPermutation(half) ==
    [i \in 1 .. 48 |-> half[((4 * ((i - 1) \div 6) + ((i - 1) % 6) + 31) % 32) + 1]]

\* Six bits go into each box: the outer two give the row, the inner ones the
\* column.
Substitute(box, bits) ==
    LET g(n) == bits[6 * (box - 1) + n]
        row == 2 * g(1) + g(6)
        col == 8 * g(2) + 4 * g(3) + 2 * g(4) + g(5)
    IN  Bits(SBox_DES[box][row + 1][col + 1], 4)

SubstitutionChoice(bits) ==
    [i \in 1 .. 32 |-> Substitute((i - 1) \div 4 + 1, bits)[((i - 1) % 4) + 1]]

PermutationFunction(half) == Permuted(half, P)

\* What Round and Round_Decrypt both mix into a half.
Mixed(half, roundKey) ==
    PermutationFunction(SubstitutionChoice(Xor(ExpansionPermutation(half), roundKey)))

Round(block, roundKey) ==
    Lower(block) \o Xor(Mixed(Lower(block), roundKey), Upper(block))

Round_Decrypt_SameSide(block, roundKey) ==
    Xor(Mixed(Lower(block), roundKey), Upper(block)) \o Lower(block)

Round_Decrypt(block, roundKey) ==
    Xor(Mixed(Upper(block), roundKey), Lower(block)) \o Upper(block)

-----------------------------------------------------------------------------
(* The key schedule.                                                       *)

\* The octets are of type char, and signed: one that is negative is extended
\* with ones, and the ones are xored into the octets of its half before it.
KeyBits(octets) ==
    [n \in 1 .. 64 |->
        LET i == (n - 1) \div 8 + 1
            negative == {j \in i + 1 .. 4 * ((i - 1) \div 4) + 4 : octets[j] >= 128}
        IN  (Bits(octets[i], 8)[((n - 1) % 8) + 1] + Cardinality(negative)) % 2]

PermutedChoice1(bits) == Permuted(bits, PC_1)
PermutedChoice2(bits) == Permuted(bits, PC_2)

RotateLeft(half, n) == [i \in DOMAIN half |-> half[((i - 1 + n) % Len(half)) + 1]]

\* How far the halves have been turned before round r; every round turns what
\* the one before left in tmp1 and tmp0, not the choice made of it.
Turned(r) ==
    LET turned[n \in 0 .. 16] == IF n = 0 THEN 0 ELSE turned[n - 1] + LSHIFT[n]
    IN  turned[r]

KeySchedule_NeverTurned(octets) ==
    [r \in 1 .. 16 |-> PermutedChoice2(PermutedChoice1(KeyBits(octets)))]

KeySchedule(octets) ==
    LET chosen == PermutedChoice1(KeyBits(octets))
    IN  [r \in 1 .. 16 |-> PermutedChoice2(RotateLeft(Upper(chosen), Turned(r)) \o
                                           RotateLeft(Lower(chosen), Turned(r)))]

-----------------------------------------------------------------------------
(* The calls.                                                              *)

Encrypted(block, roundKey) ==
    LET done[r \in 0 .. 16] ==
            IF r = 0 THEN InitialPermutation(block)
            ELSE Round(done[r - 1], roundKey[r])
    IN  InverseInitialPermutation(done[16])

Decrypted(block, roundKey) ==
    LET done[r \in 0 .. 16] ==
            IF r = 0 THEN InitialPermutation(block)
            ELSE Round_Decrypt(done[r - 1], roundKey[17 - r])
    IN  InverseInitialPermutation(done[16])

\* The lowest bit of each octet has no place in PC_1.
Significant(k) == IF k = NoKey THEN NoKey ELSE [i \in 1 .. 8 |-> k[i] \div 2]

\* layers once another is put on, or the one below it is undone.
Layered(way) ==
    LET top == [key |-> Significant(key), way |-> -way]
    IN  IF layers # <<>> /\ layers[Len(layers)] = top
        THEN SubSeq(layers, 1, Len(layers) - 1)
        ELSE Append(layers, [key |-> Significant(key), way |-> way])

MakeKey(k) ==
    /\ dRoundKey' = KeySchedule(k)
    /\ key' = k
    /\ UNCHANGED <<data, plain, layers>>

Encrypt_Data ==
    /\ layers' = Layered(1)
    /\ Len(layers') <= MaxDepth
    /\ data' = Encrypted(data, dRoundKey)
    /\ UNCHANGED <<dRoundKey, key, plain>>

Decrypt_Data ==
    /\ layers' = Layered(-1)
    /\ Len(layers') <= MaxDepth
    /\ data' = Decrypted(data, dRoundKey)
    /\ UNCHANGED <<dRoundKey, key, plain>>

Init ==
    /\ dRoundKey = [r \in 1 .. 16 |-> [b \in 1 .. 48 |-> 0]]
    /\ key = NoKey
    /\ data \in Datas
    /\ plain = data
    /\ layers = <<>>

Next ==
    \/ \E k \in Keys : MakeKey(k)
    \/ Encrypt_Data
    \/ Decrypt_Data

Spec == Init /\ [][Next]_vars

-----------------------------------------------------------------------------
(* Properties.                                                             *)

\* A block is what it was at first once every encryption has been undone by
\* Decrypt_Data, and every decryption by Encrypt_Data, in the opposite order
\* and with the key of the time back in the schedule, also by way of several
\* keys, and also before the first MakeKey.
Recovered == layers = <<>> => data = plain

\* MakeKey leaves the schedule as it was exactly when the two keys agree in
\* all but the lowest bit of every octet: no other bit of a key is lost in
\* KeySchedule, the ones that sign extension inverts included.
KeysTellApart ==
    [][key # NoKey /\ layers' = layers
            => (dRoundKey' = dRoundKey <=> Significant(key') = Significant(key))]_vars
=============================================================================
