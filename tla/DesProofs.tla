------------------------------ MODULE DesProofs -----------------------------
(***************************************************************************)
(* Proofs about the cipher: decryption undoes encryption under any round   *)
(* keys, through any layers of keys, and the key schedule tells two keys   *)
(* apart exactly by the upper seven bits of their octets.                  *)
(***************************************************************************)
EXTENDS Des, SequenceFacts, FiniteSetTheorems

Bit == {0, 1}
Half == [1 .. 32 -> Bit]
Block == [1 .. 64 -> Bit]
RoundKey == [1 .. 48 -> Bit]
Schedule == [1 .. 16 -> RoundKey]
Octet == 0 .. 255
Key == [1 .. 8 -> Octet]

-----------------------------------------------------------------------------
(* What the tables are.                                                    *)

LEMMA PermutationTables ==
    /\ IP \in [1 .. 64 -> 1 .. 64]
    /\ IIP \in [1 .. 64 -> 1 .. 64]
    /\ P \in [1 .. 32 -> 1 .. 32]
<1>1. IP \in [1 .. 64 -> 1 .. 64]
  BY DEF IP
<1>2. IIP \in [1 .. 64 -> 1 .. 64]
  BY DEF IIP
<1>3. P \in [1 .. 32 -> 1 .. 32]
  BY DEF P
<1> QED
  BY <1>1, <1>2, <1>3

(* IP and IIP undo each other.                                             *)
LEMMA PermutationsInverse ==
    \A i \in 1 .. 64 : IIP[IP[i]] = i /\ IP[IIP[i]] = i
<1>1. \A i \in 1 .. 64 : IIP[IP[i]] = i
  BY DEF IP, IIP
<1>2. \A i \in 1 .. 64 : IP[IIP[i]] = i
  BY DEF IP, IIP
<1> QED
  BY <1>1, <1>2

LEMMA BoxTables == SBox_DES \in [1 .. 8 -> [1 .. 4 -> [1 .. 16 -> Nat]]]
<1> DEFINE Box == [1 .. 4 -> [1 .. 16 -> Nat]]
<1>1. SBox_DES[1] \in Box
  BY DEF SBox_DES
<1>2. SBox_DES[2] \in Box
  BY DEF SBox_DES
<1>3. SBox_DES[3] \in Box
  BY DEF SBox_DES
<1>4. SBox_DES[4] \in Box
  BY DEF SBox_DES
<1>5. SBox_DES[5] \in Box
  BY DEF SBox_DES
<1>6. SBox_DES[6] \in Box
  BY DEF SBox_DES
<1>7. SBox_DES[7] \in Box
  BY DEF SBox_DES
<1>8. SBox_DES[8] \in Box
  BY DEF SBox_DES
<1>9. SBox_DES = [box \in 1 .. 8 |-> SBox_DES[box]]
  BY DEF SBox_DES
<1> HIDE DEF Box
<1>10. \A box \in 1 .. 8 : SBox_DES[box] \in Box
  BY <1>1, <1>2, <1>3, <1>4, <1>5, <1>6, <1>7, <1>8
<1> QED
  BY <1>9, <1>10 DEF Box

-----------------------------------------------------------------------------
(* A round.                                                                *)

LEMMA BitsTyped ==
    ASSUME NEW n \in Nat, NEW w \in 1 .. 8, NEW b \in 1 .. w
    PROVE  Bits(n, w)[b] \in Bit
<1>1. Bits(n, w)[b] = (n \div Weight[8 - w + b]) % 2
  BY DEF Bits
<1>2. 8 - w + b \in 1 .. 8
  OBVIOUS
<1>3. \A i \in 1 .. 8 : Weight[i] \in Nat \ {0}
  BY DEF Weight
<1>4. PICK v \in Nat \ {0} : v = Weight[8 - w + b]
  BY <1>2, <1>3
<1>5. n \div v \in Int
  OBVIOUS
<1> QED
  BY <1>1, <1>4, <1>5 DEF Bit

LEMMA SubstituteTyped ==
    ASSUME NEW bits \in RoundKey, NEW box \in 1 .. 8, NEW b \in 1 .. 4
    PROVE  Substitute(box, bits)[b] \in Bit
<1> DEFINE g(n) == bits[6 * (box - 1) + n]
           row == 2 * g(1) + g(6)
           col == 8 * g(2) + 4 * g(3) + 2 * g(4) + g(5)
<1>1. \A n \in 1 .. 6 : 6 * (box - 1) + n \in 1 .. 48
  OBVIOUS
<1>2. \A n \in 1 .. 6 : g(n) \in Bit
  BY <1>1 DEF RoundKey
<1>3. Substitute(box, bits) = Bits(SBox_DES[box][row + 1][col + 1], 4)
  BY DEF Substitute
<1>4. row + 1 \in 1 .. 4
  BY <1>2 DEF Bit
<1>5. col + 1 \in 1 .. 16
  BY <1>2 DEF Bit
<1> HIDE DEF row, col
<1>6. SBox_DES[box][row + 1][col + 1] \in Nat
  BY <1>4, <1>5, BoxTables
<1> QED
  BY <1>3, <1>6, BitsTyped

LEMMA MixedTyped ==
    ASSUME NEW half \in Half, NEW k \in RoundKey
    PROVE  Mixed(half, k) \in Half
<1> DEFINE e == ExpansionPermutation(half)
           x == Xor(e, k)
           s == SubstitutionChoice(x)
<1>1. e \in RoundKey
  <2>1. \A i \in 1 .. 48 :
           ((4 * ((i - 1) \div 6) + ((i - 1) % 6) + 31) % 32) + 1 \in 1 .. 32
    OBVIOUS
  <2> QED
    BY <2>1 DEF ExpansionPermutation, Half, RoundKey
<1>2. x \in RoundKey
  BY <1>1 DEF Xor, RoundKey, Bit
<1>3. s \in Half
  <2> HIDE DEF x
  <2>1. \A i \in 1 .. 32 :
           (i - 1) \div 4 + 1 \in 1 .. 8 /\ ((i - 1) % 4) + 1 \in 1 .. 4
    OBVIOUS
  <2>2. \A i \in 1 .. 32 :
           Substitute((i - 1) \div 4 + 1, x)[((i - 1) % 4) + 1] \in Bit
    BY <1>2, <2>1, SubstituteTyped
  <2> QED
    BY <2>2 DEF SubstitutionChoice, Half
<1>4. Mixed(half, k) = Permuted(s, P)
  BY DEF Mixed, PermutationFunction
<1> HIDE DEF s
<1> QED
  BY <1>3, <1>4, PermutationTables DEF Permuted, Half

(* What was mixed in once comes out again when it is mixed in once more.    *)
LEMMA XorUndone ==
    ASSUME NEW a \in Half, NEW b \in Half
    PROVE  Xor(a, b) \in Half /\ Xor(a, Xor(a, b)) = b
<1>1. Xor(a, b) \in Half /\ \A i \in 1 .. 32 : Xor(a, b)[i] = (a[i] + b[i]) % 2
  BY DEF Xor, Half, Bit
<1>2. \A i \in 1 .. 32 : (a[i] + Xor(a, b)[i]) % 2 = b[i]
  BY <1>1 DEF Half, Bit
<1>3. Xor(a, Xor(a, b)) = [i \in 1 .. 32 |-> (a[i] + Xor(a, b)[i]) % 2]
  BY DEF Xor, Half
<1> QED
  BY <1>1, <1>2, <1>3 DEF Half

(* Words are sequences.                                                    *)
LEMMA FunctionIsSequence ==
    ASSUME NEW S, NEW N \in Nat, NEW f \in [1 .. N -> S]
    PROVE  f \in Seq(S) /\ Len(f) = N
<1>1. f = [i \in 1 .. N |-> f[i]]
  OBVIOUS
<1>2. [i \in 1 .. N |-> f[i]] \in Seq(S)
  OBVIOUS
<1>3. Len(f) \in Nat /\ DOMAIN f = 1 .. Len(f) /\ DOMAIN f = 1 .. N
  BY <1>1, <1>2, LenProperties
<1>4. Len(f) = N
  BY <1>3
<1> QED
  BY <1>1, <1>2, <1>4

LEMMA SequenceIsFunction ==
    ASSUME NEW S, NEW N \in Nat, NEW q \in Seq(S), Len(q) = N
    PROVE  q \in [1 .. N -> S]
BY LenProperties

(* The halves of a word of 2 * h bits, and the word of two halves.         *)
Halves(word, h, S) ==
    /\ Upper(word) \in [1 .. h -> S]
    /\ Lower(word) \in [1 .. h -> S]
    /\ \A i \in 1 .. h : Upper(word)[i] = word[i] /\ Lower(word)[i] = word[h + i]

Joined(word, a, b, h, w, S) ==
    /\ word \in [1 .. w -> S]
    /\ \A i \in 1 .. w : word[i] = IF i <= h THEN a[i] ELSE b[i - h]

LEMMA HalvesOfWord ==
    ASSUME NEW S, NEW h \in Nat, NEW w \in Nat, w = 2 * h,
           NEW word \in [1 .. w -> S]
    PROVE  Halves(word, h, S)
<1>1. word \in Seq(S) /\ Len(word) = w
  BY FunctionIsSequence
<1>2. w \div 2 = h
  OBVIOUS
<1>3. Upper(word) = SubSeq(word, 1, h) /\ Lower(word) = SubSeq(word, h + 1, w)
  BY <1>1, <1>2 DEF Upper, Lower
<1>4. \A i \in 1 .. w : word[i] \in S
  OBVIOUS
<1>5. /\ SubSeq(word, 1, h) \in Seq(S)
      /\ Len(SubSeq(word, 1, h)) = h
      /\ \A i \in 1 .. h : SubSeq(word, 1, h)[i] = word[i]
  <2>1. \A i \in 1 .. h : word[i] \in S
    BY <1>4
  <2>2. /\ SubSeq(word, 1, h) \in Seq(S)
        /\ Len(SubSeq(word, 1, h)) = IF 1 <= h THEN h - 1 + 1 ELSE 0
        /\ \A i \in 1 .. h - 1 + 1 : SubSeq(word, 1, h)[i] = word[1 + i - 1]
    BY <2>1, SubSeqProperties
  <2> QED
    BY <2>2
<1>6. /\ SubSeq(word, h + 1, w) \in Seq(S)
      /\ Len(SubSeq(word, h + 1, w)) = h
      /\ \A i \in 1 .. h : SubSeq(word, h + 1, w)[i] = word[h + i]
  <2>1. \A i \in h + 1 .. w : word[i] \in S
    BY <1>4
  <2>2. /\ SubSeq(word, h + 1, w) \in Seq(S)
        /\ Len(SubSeq(word, h + 1, w)) =
              IF h + 1 <= w THEN w - (h + 1) + 1 ELSE 0
        /\ \A i \in 1 .. w - (h + 1) + 1 :
              SubSeq(word, h + 1, w)[i] = word[(h + 1) + i - 1]
    BY <2>1, SubSeqProperties
  <2>3. \A i \in 1 .. h : i \in 1 .. w - (h + 1) + 1 /\ (h + 1) + i - 1 = h + i
    OBVIOUS
  <2>4. (IF h + 1 <= w THEN w - (h + 1) + 1 ELSE 0) = h
    OBVIOUS
  <2> QED
    BY <2>2, <2>3, <2>4
<1>7. SubSeq(word, 1, h) \in [1 .. h -> S]
  BY <1>5, SequenceIsFunction
<1>8. SubSeq(word, h + 1, w) \in [1 .. h -> S]
  BY <1>6, SequenceIsFunction
<1> QED
  BY <1>3, <1>5, <1>6, <1>7, <1>8 DEF Halves

LEMMA WordOfHalves ==
    ASSUME NEW S, NEW h \in Nat, NEW w \in Nat, w = 2 * h,
           NEW a \in [1 .. h -> S], NEW b \in [1 .. h -> S]
    PROVE  Joined(a \o b, a, b, h, w, S)
<1>1. a \in Seq(S) /\ b \in Seq(S) /\ Len(a) = h /\ Len(b) = h
  BY FunctionIsSequence
<1>2. /\ a \o b \in Seq(S)
      /\ Len(a \o b) = Len(a) + Len(b)
      /\ \A i \in 1 .. Len(a) + Len(b) :
            (a \o b)[i] = IF i <= Len(a) THEN a[i] ELSE b[i - Len(a)]
  BY <1>1, ConcatProperties
<1>3. Len(a) + Len(b) = w
  BY <1>1
<1>4. a \o b \in [1 .. w -> S]
  <2>1. a \o b \in Seq(S) /\ Len(a \o b) = w
    BY <1>2, <1>3
  <2> QED
    BY <2>1, SequenceIsFunction
<1> QED
  BY <1>1, <1>2, <1>3, <1>4 DEF Joined

LEMMA HalvesOfBlock ==
    ASSUME NEW block \in Block
    PROVE  /\ Upper(block) \in Half
           /\ Lower(block) \in Half
           /\ \A i \in 1 .. 32 : Upper(block)[i] = block[i]
           /\ \A i \in 1 .. 32 : Lower(block)[i] = block[32 + i]
<1>1. PICK h \in Nat, w \in Nat : h = 32 /\ w = 64
  OBVIOUS
<1>2. w = 2 * h /\ block \in [1 .. w -> Bit]
  BY <1>1 DEF Block
<1>3. Halves(block, h, Bit)
  BY <1>2, HalvesOfWord
<1> QED
  BY <1>1, <1>3 DEF Half, Halves

LEMMA BlockOfHalves ==
    ASSUME NEW a \in Half, NEW b \in Half
    PROVE  a \o b \in Block /\ Upper(a \o b) = a /\ Lower(a \o b) = b
<1>1. PICK h \in Nat, w \in Nat : h = 32 /\ w = 64
  OBVIOUS
<1>2. /\ a \o b \in [1 .. 64 -> Bit]
      /\ \A i \in 1 .. 64 : (a \o b)[i] = IF i <= 32 THEN a[i] ELSE b[i - 32]
  <2>1. w = 2 * h /\ a \in [1 .. h -> Bit] /\ b \in [1 .. h -> Bit]
    BY <1>1 DEF Half
  <2>2. Joined(a \o b, a, b, h, w, Bit)
    BY <2>1, WordOfHalves
  <2> QED
    BY <1>1, <2>2 DEF Joined
<1>3. PICK c \in Block : c = a \o b
  BY <1>2 DEF Block
<1>4. \A i \in 1 .. 32 : c[i] = a[i] /\ c[32 + i] = b[i]
  <2>1. ASSUME NEW i \in 1 .. 32
        PROVE  c[i] = a[i] /\ c[32 + i] = b[i]
    <3>1. i \in 1 .. 64 /\ i <= 32
      OBVIOUS
    <3>2. PICK j \in 1 .. 64 : j = 32 + i /\ ~(j <= 32) /\ j - 32 = i
      OBVIOUS
    <3>3. c[i] = a[i]
      BY <1>2, <1>3, <3>1
    <3>4. c[j] = b[j - 32]
      BY <1>2, <1>3, <3>2
    <3> QED
      BY <3>2, <3>3, <3>4
  <2> QED
    BY <2>1
<1>5. /\ Upper(c) \in Half /\ Lower(c) \in Half
      /\ \A i \in 1 .. 32 : Upper(c)[i] = a[i] /\ Lower(c)[i] = b[i]
  BY <1>4, HalvesOfBlock
<1>6. Upper(c) = a
  BY <1>5 DEF Half
<1>7. Lower(c) = b
  BY <1>5 DEF Half
<1> QED
  BY <1>3, <1>6, <1>7

LEMMA BlockIsItsHalves ==
    ASSUME NEW block \in Block
    PROVE  Upper(block) \o Lower(block) = block
<1>1. PICK a \in Half, b \in Half : a = Upper(block) /\ b = Lower(block)
  BY HalvesOfBlock
<1>2. a \o b \in Block /\ Upper(a \o b) = a /\ Lower(a \o b) = b
  BY BlockOfHalves
<1>3. PICK c \in Block : c = a \o b
  BY <1>2
<1>4. \A i \in 1 .. 32 : block[i] = a[i] /\ block[32 + i] = b[i]
  BY <1>1, HalvesOfBlock
<1>5. \A i \in 1 .. 32 : c[i] = a[i] /\ c[32 + i] = b[i]
  BY <1>2, <1>3, HalvesOfBlock
<1>6. ASSUME NEW i \in 1 .. 64 PROVE block[i] = c[i]
  <2>1. CASE i <= 32
    BY <1>4, <1>5, <2>1
  <2>2. CASE i > 32
    <3>1. PICK j \in 1 .. 32 : i = 32 + j
      <4>1. i - 32 \in 1 .. 32 /\ i = 32 + (i - 32)
        BY <2>2
      <4> QED
        BY <4>1
    <3> QED
      BY <1>4, <1>5, <3>1
  <2> QED
    BY <2>1, <2>2
<1>7. block = c
  BY <1>6 DEF Block
<1> QED
  BY <1>1, <1>3, <1>7

(* Round_Decrypt takes back what Round did with the same key, and Round     *)
(* what Round_Decrypt did: the half that went into the S-boxes is still     *)
(* there, on the other side.                                               *)
LEMMA RoundsUndone ==
    ASSUME NEW block \in Block, NEW k \in RoundKey
    PROVE  /\ Round(block, k) \in Block
           /\ Round_Decrypt(block, k) \in Block
           /\ Round_Decrypt(Round(block, k), k) = block
           /\ Round(Round_Decrypt(block, k), k) = block
<1>1. PICK u \in Half, l \in Half : u = Upper(block) /\ l = Lower(block)
  BY HalvesOfBlock
<1>2. u \o l = block
  BY <1>1, BlockIsItsHalves
<1>3. PICK fl \in Half, fu \in Half : fl = Mixed(l, k) /\ fu = Mixed(u, k)
  BY MixedTyped
<1>4. PICK x \in Half, y \in Half : x = Xor(fl, u) /\ y = Xor(fu, l)
  BY XorUndone
<1>5. Xor(fl, x) = u /\ Xor(fu, y) = l
  BY <1>4, XorUndone
<1>6. Round(block, k) = l \o x /\ Round_Decrypt(block, k) = y \o u
  BY <1>1, <1>3, <1>4 DEF Round, Round_Decrypt
<1>7. /\ l \o x \in Block /\ Upper(l \o x) = l /\ Lower(l \o x) = x
      /\ y \o u \in Block /\ Upper(y \o u) = y /\ Lower(y \o u) = u
  BY BlockOfHalves
<1>8. Round_Decrypt(l \o x, k) = Xor(fl, x) \o l
  BY <1>3, <1>7 DEF Round_Decrypt
<1>9. Round(y \o u, k) = u \o Xor(fu, y)
  BY <1>3, <1>7 DEF Round
<1> QED
  BY <1>2, <1>5, <1>6, <1>7, <1>8, <1>9

LEMMA PermutedBack ==
    ASSUME NEW block \in Block,
           NEW t \in [1 .. 64 -> 1 .. 64], NEW u \in [1 .. 64 -> 1 .. 64],
           \A i \in 1 .. 64 : t[u[i]] = i
    PROVE  Permuted(block, t) \in Block /\ Permuted(Permuted(block, t), u) = block
<1>1. Permuted(block, t) = [j \in 1 .. 64 |-> block[t[j]]]
  BY DEF Permuted
<1>2. \A j \in 1 .. 64 : block[t[j]] \in Bit
  BY DEF Block
<1>3. PICK p \in Block : p = Permuted(block, t) /\ \A j \in 1 .. 64 : p[j] = block[t[j]]
  BY <1>1, <1>2 DEF Block
<1>4. Permuted(p, u) = [i \in 1 .. 64 |-> p[u[i]]]
  BY DEF Permuted
<1>5. ASSUME NEW i \in 1 .. 64 PROVE p[u[i]] = block[i]
  <2>1. u[i] \in 1 .. 64
    OBVIOUS
  <2> QED
    BY <1>3, <2>1
<1>6. [i \in 1 .. 64 |-> p[u[i]]] = block
  BY <1>5 DEF Block
<1> QED
  BY <1>3, <1>4, <1>6

LEMMA PermutationsUndone ==
    ASSUME NEW block \in Block
    PROVE  /\ InitialPermutation(block) \in Block
           /\ InverseInitialPermutation(block) \in Block
           /\ InitialPermutation(InverseInitialPermutation(block)) = block
           /\ InverseInitialPermutation(InitialPermutation(block)) = block
<1>1. IP \in [1 .. 64 -> 1 .. 64] /\ IIP \in [1 .. 64 -> 1 .. 64]
  BY PermutationTables
<1>2. Permuted(block, IP) \in Block /\ Permuted(Permuted(block, IP), IIP) = block
  <2>1. \A i \in 1 .. 64 : IP[IIP[i]] = i
    BY PermutationsInverse
  <2> QED
    BY <1>1, <2>1, PermutedBack
<1>3. Permuted(block, IIP) \in Block /\ Permuted(Permuted(block, IIP), IP) = block
  <2>1. \A i \in 1 .. 64 : IIP[IP[i]] = i
    BY PermutationsInverse
  <2> QED
    BY <1>1, <2>1, PermutedBack
<1> QED
  BY <1>2, <1>3 DEF InitialPermutation, InverseInitialPermutation

-----------------------------------------------------------------------------
(* Sixteen rounds.                                                         *)

(* Encrypt_Data goes from block to block, round by round.                    *)
LEMMA Encrypting ==
    ASSUME NEW block \in Block, NEW keys \in Schedule
    PROVE  \E f \in [0 .. 16 -> Block] :
              /\ f[0] = InitialPermutation(block)
              /\ \A r \in 1 .. 16 : f[r] = Round(f[r - 1], keys[r])
              /\ Encrypted(block, keys) = InverseInitialPermutation(f[16])
<1> DEFINE a == InitialPermutation(block)
           F == [p \in Block \X (1 .. 16) |-> Round(p[1], keys[p[2]])]
           body(f) == [r \in 0 .. 16 |-> IF r = 0 THEN InitialPermutation(block)
                                        ELSE Round(f[r - 1], keys[r])]
           done == CHOOSE f : f = body(f)
<1>1. 16 \in Nat /\ a \in Block
  BY PermutationsUndone
<1>2. \A r \in 1 .. 16 : keys[r] \in RoundKey
  BY DEF Schedule
<1>3. \A b \in Block, r \in 1 .. 16 : F[<<b, r>>] = Round(b, keys[r])
  OBVIOUS
<1>4. \A b \in Block, r \in 1 .. 16 : Round(b, keys[r]) \in Block
  BY <1>2, RoundsUndone
<1>5. Encrypted(block, keys) = InverseInitialPermutation(done[16])
  BY DEF Encrypted
<1> HIDE DEF F
<1>6. StaysIn(F, Block, 16)
  BY <1>3, <1>4 DEF StaysIn
<1> HIDE DEF a
<1>7. PICK f \in [0 .. 16 -> Block] : Recurs(f, a, F, 16)
  BY <1>1, <1>6, RecursionExists
<1>8. ASSUME NEW r \in 1 .. 16 PROVE f[r] = Round(f[r - 1], keys[r])
  <2>1. r - 1 \in 0 .. 16
    OBVIOUS
  <2> QED
    BY <1>3, <1>7, <2>1 DEF Recurs
<1>9. f = body(f)
  BY <1>7, <1>8 DEF Recurs, a
<1>10. done = body(done)
  <2> HIDE DEF body
  <2> QED
    BY <1>9
<1> HIDE DEF done
<1>11. /\ done[0] = a
       /\ \A r \in 1 .. 16 : done[r] = Round(done[r - 1], keys[r])
  BY <1>10 DEF a
<1>12. \A r \in 0 .. 16 : done[r] \in Block
  <2> DEFINE J == {r \in 0 .. 16 : done[r] \in Block}
  <2>1. 0 \in J
    BY <1>1, <1>11
  <2>2. ASSUME NEW r \in 1 .. 16, r - 1 \in J PROVE r \in J
    BY <1>4, <1>11, <2>2
  <2> HIDE DEF J
  <2>3. \A r \in 0 .. 16 : r \in J
    BY <1>1, <2>1, <2>2, IndexInduction
  <2> QED
    BY <2>3 DEF J
<1>13. done \in [0 .. 16 -> Block]
  <2>1. done = [r \in 0 .. 16 |-> done[r]]
    BY <1>10
  <2> QED
    BY <1>12, <2>1
<1> QED
  BY <1>5, <1>11, <1>13 DEF a

(* Decrypt_Data does so with the round keys from the last to the first.      *)
LEMMA Decrypting ==
    ASSUME NEW block \in Block, NEW keys \in Schedule
    PROVE  \E f \in [0 .. 16 -> Block] :
              /\ f[0] = InitialPermutation(block)
              /\ \A r \in 1 .. 16 : f[r] = Round_Decrypt(f[r - 1], keys[17 - r])
              /\ Decrypted(block, keys) = InverseInitialPermutation(f[16])
<1> DEFINE a == InitialPermutation(block)
           F == [p \in Block \X (1 .. 16) |-> Round_Decrypt(p[1], keys[17 - p[2]])]
           body(f) == [r \in 0 .. 16 |-> IF r = 0 THEN InitialPermutation(block)
                                        ELSE Round_Decrypt(f[r - 1], keys[17 - r])]
           done == CHOOSE f : f = body(f)
<1>1. 16 \in Nat /\ a \in Block
  BY PermutationsUndone
<1>2. \A r \in 1 .. 16 : keys[17 - r] \in RoundKey
  BY DEF Schedule
<1>3. \A b \in Block, r \in 1 .. 16 : F[<<b, r>>] = Round_Decrypt(b, keys[17 - r])
  OBVIOUS
<1>4. \A b \in Block, r \in 1 .. 16 : Round_Decrypt(b, keys[17 - r]) \in Block
  BY <1>2, RoundsUndone
<1>5. Decrypted(block, keys) = InverseInitialPermutation(done[16])
  BY DEF Decrypted
<1> HIDE DEF F
<1>6. StaysIn(F, Block, 16)
  BY <1>3, <1>4 DEF StaysIn
<1> HIDE DEF a
<1>7. PICK f \in [0 .. 16 -> Block] : Recurs(f, a, F, 16)
  BY <1>1, <1>6, RecursionExists
<1>8. ASSUME NEW r \in 1 .. 16 PROVE f[r] = Round_Decrypt(f[r - 1], keys[17 - r])
  <2>1. r - 1 \in 0 .. 16
    OBVIOUS
  <2> QED
    BY <1>3, <1>7, <2>1 DEF Recurs
<1>9. f = body(f)
  BY <1>7, <1>8 DEF Recurs, a
<1>10. done = body(done)
  <2> HIDE DEF body
  <2> QED
    BY <1>9
<1> HIDE DEF done
<1>11. /\ done[0] = a
       /\ \A r \in 1 .. 16 : done[r] = Round_Decrypt(done[r - 1], keys[17 - r])
  BY <1>10 DEF a
<1>12. \A r \in 0 .. 16 : done[r] \in Block
  <2> DEFINE J == {r \in 0 .. 16 : done[r] \in Block}
  <2>1. 0 \in J
    BY <1>1, <1>11
  <2>2. ASSUME NEW r \in 1 .. 16, r - 1 \in J PROVE r \in J
    BY <1>4, <1>11, <2>2
  <2> HIDE DEF J
  <2>3. \A r \in 0 .. 16 : r \in J
    BY <1>1, <2>1, <2>2, IndexInduction
  <2> QED
    BY <2>3 DEF J
<1>13. done \in [0 .. 16 -> Block]
  <2>1. done = [r \in 0 .. 16 |-> done[r]]
    BY <1>10
  <2> QED
    BY <1>12, <2>1
<1> QED
  BY <1>5, <1>11, <1>13 DEF a

(* What one did to a block the other undoes, with the same round keys: the  *)
(* rounds of the second lead back through the blocks of the first.         *)
LEMMA CipherUndone ==
    ASSUME NEW block \in Block, NEW keys \in Schedule
    PROVE  /\ Encrypted(block, keys) \in Block
           /\ Decrypted(block, keys) \in Block
           /\ Decrypted(Encrypted(block, keys), keys) = block
           /\ Encrypted(Decrypted(block, keys), keys) = block
<1>1. PICK e \in [0 .. 16 -> Block] :
         /\ e[0] = InitialPermutation(block)
         /\ \A r \in 1 .. 16 : e[r] = Round(e[r - 1], keys[r])
         /\ Encrypted(block, keys) = InverseInitialPermutation(e[16])
  BY Encrypting
<1>2. PICK d \in [0 .. 16 -> Block] :
         /\ d[0] = InitialPermutation(block)
         /\ \A r \in 1 .. 16 : d[r] = Round_Decrypt(d[r - 1], keys[17 - r])
         /\ Decrypted(block, keys) = InverseInitialPermutation(d[16])
  BY Decrypting
<1>3. PICK c \in Block, p \in Block :
         c = Encrypted(block, keys) /\ p = Decrypted(block, keys)
  BY <1>1, <1>2, PermutationsUndone
<1>4. InitialPermutation(c) = e[16] /\ InitialPermutation(p) = d[16]
  BY <1>1, <1>2, <1>3, PermutationsUndone
<1>5. \A r \in 1 .. 16 : keys[r] \in RoundKey /\ keys[17 - r] \in RoundKey
  BY DEF Schedule
<1>6. Decrypted(c, keys) = block
  <2>1. PICK f \in [0 .. 16 -> Block] :
           /\ f[0] = InitialPermutation(c)
           /\ \A r \in 1 .. 16 : f[r] = Round_Decrypt(f[r - 1], keys[17 - r])
           /\ Decrypted(c, keys) = InverseInitialPermutation(f[16])
    BY Decrypting
  <2> DEFINE J == {r \in 0 .. 16 : f[r] = e[16 - r]}
  <2>2. 0 \in J
    BY <1>4, <2>1
  <2>3. ASSUME NEW r \in 1 .. 16, r - 1 \in J PROVE r \in J
    <3>1. PICK q \in 1 .. 16 : /\ q = 17 - r /\ q - 1 \in 0 .. 16 /\ q - 1 = 16 - r
                              /\ q = 16 - (r - 1)
      OBVIOUS
    <3>2. e[q] = Round(e[q - 1], keys[q]) /\ e[q - 1] \in Block
      BY <1>1, <3>1
    <3>3. f[r - 1] = e[q]
      BY <2>3, <3>1
    <3>4. f[r] = Round_Decrypt(e[q], keys[q])
      BY <2>1, <3>1, <3>3
    <3>5. f[r] = e[q - 1]
      BY <1>5, <3>1, <3>2, <3>4, RoundsUndone
    <3> QED
      BY <3>1, <3>5
  <2> HIDE DEF J
  <2>4. \A r \in 0 .. 16 : r \in J
    BY <2>2, <2>3, IndexInduction
  <2>5. f[16] = e[0]
    BY <2>4 DEF J
  <2> QED
    BY <1>1, <2>1, <2>5, PermutationsUndone
<1>7. Encrypted(p, keys) = block
  <2>1. PICK f \in [0 .. 16 -> Block] :
           /\ f[0] = InitialPermutation(p)
           /\ \A r \in 1 .. 16 : f[r] = Round(f[r - 1], keys[r])
           /\ Encrypted(p, keys) = InverseInitialPermutation(f[16])
    BY Encrypting
  <2> DEFINE J == {r \in 0 .. 16 : f[r] = d[16 - r]}
  <2>2. 0 \in J
    BY <1>4, <2>1
  <2>3. ASSUME NEW r \in 1 .. 16, r - 1 \in J PROVE r \in J
    <3>1. PICK q \in 1 .. 16 : /\ q = 17 - r /\ q - 1 \in 0 .. 16 /\ q - 1 = 16 - r
                              /\ q = 16 - (r - 1) /\ 17 - q = r
      OBVIOUS
    <3>2. d[q] = Round_Decrypt(d[q - 1], keys[r]) /\ d[q - 1] \in Block
      BY <1>2, <3>1
    <3>3. f[r - 1] = d[q]
      BY <2>3, <3>1
    <3>4. f[r] = Round(d[q], keys[r])
      BY <2>1, <3>3
    <3>5. f[r] = d[q - 1]
      BY <1>5, <3>2, <3>4, RoundsUndone
    <3> QED
      BY <3>1, <3>5
  <2> HIDE DEF J
  <2>4. \A r \in 0 .. 16 : r \in J
    BY <2>2, <2>3, IndexInduction
  <2>5. f[16] = d[0]
    BY <2>4 DEF J
  <2> QED
    BY <1>2, <2>1, <2>5, PermutationsUndone
<1> QED
  BY <1>3, <1>6, <1>7

-----------------------------------------------------------------------------
(* The tables of the key schedule.                                         *)

\* Where PC_1 has place n, unless n is a lowest bit; and one of the first two
\* rounds, and the place in PC_2, in which the bit h that PC_1 chose is kept.
ChosenAt == <<8, 16, 24, 56, 52, 44, 36, 1, 7, 15, 23, 55, 51, 43, 35, 1,
              6, 14, 22, 54, 50, 42, 34, 1, 5, 13, 21, 53, 49, 41, 33, 1,
              4, 12, 20, 28, 48, 40, 32, 1, 3, 11, 19, 27, 47, 39, 31, 1,
              2, 10, 18, 26, 46, 38, 30, 1, 1, 9, 17, 25, 45, 37, 29, 1>>
KeptInRound == <<1, 1, 1, 1, 1, 1, 1, 1, 1, 2, 1, 1, 1, 1,
                 1, 1, 1, 1, 2, 1, 1, 1, 2, 1, 1, 2, 1, 1,
                 1, 1, 1, 1, 1, 1, 1, 2, 1, 1, 2, 1, 1, 1,
                 1, 2, 1, 1, 1, 1, 1, 1, 1, 1, 1, 1, 2, 1>>
KeptAt == <<8, 5, 24, 7, 16, 6, 10, 20, 18, 18, 12, 3, 15, 23,
            1, 9, 19, 2, 2, 14, 22, 11, 11, 13, 4, 4, 17, 21,
            40, 47, 31, 27, 48, 35, 41, 41, 46, 28, 28, 39, 32, 25,
            44, 44, 37, 34, 43, 29, 36, 38, 45, 33, 26, 42, 42, 30>>

\* The place, before turning by n, of what is at place j of the two halves.
TurnedPlace(n, j) ==
    IF j <= 28 THEN ((j - 1 + n) % 28) + 1 ELSE 28 + ((j - 29 + n) % 28) + 1

(* PC_1 chooses the upper seven bits of each octet, and all of them.       *)
LEMMA FirstChoice ==
    /\ \A i \in 1 .. 56 : PC_1[i] \in 1 .. 64 /\ PC_1[i] % 8 # 0
    /\ \A n \in 1 .. 64 : n % 8 # 0 => ChosenAt[n] \in 1 .. 56 /\ PC_1[ChosenAt[n]] = n
<1>1. \A i \in 1 .. 56 : PC_1[i] \in 1 .. 64 /\ PC_1[i] % 8 # 0
  BY DEF PC_1
<1>2. \A n \in 1 .. 64 :
         n % 8 # 0 => ChosenAt[n] \in 1 .. 56 /\ PC_1[ChosenAt[n]] = n
  BY DEF PC_1, ChosenAt
<1> QED
  BY <1>1, <1>2

(* PC_2 leaves out eight of them in each round, but none in both of the     *)
(* first two.                                                              *)
LEMMA SecondChoice ==
    /\ PC_2 \in [1 .. 48 -> 1 .. 56]
    /\ \A h \in 1 .. 56 : /\ KeptInRound[h] \in 1 .. 2
                          /\ KeptAt[h] \in 1 .. 48
                          /\ TurnedPlace(KeptInRound[h], PC_2[KeptAt[h]]) = h
<1>1. PC_2 \in [1 .. 48 -> 1 .. 56]
  BY DEF PC_2
<1>2. \A h \in 1 .. 56 : KeptInRound[h] \in 1 .. 2 /\ KeptAt[h] \in 1 .. 48
  BY DEF KeptInRound, KeptAt
<1>3. \A h \in 1 .. 56 : TurnedPlace(KeptInRound[h], PC_2[KeptAt[h]]) = h
  BY DEF PC_2, KeptInRound, KeptAt, TurnedPlace
<1> QED
  BY <1>1, <1>2, <1>3

(* Round r has the halves turned by a number of places, rounds 1 and 2 by   *)
(* as many as their number.                                                *)
LEMMA TurnedTyped ==
    /\ \A r \in 1 .. 16 : Turned(r) \in Nat
    /\ Turned(1) = 1 /\ Turned(2) = 2
<1> DEFINE F == [p \in Nat \X (1 .. 16) |-> p[1] + LSHIFT[p[2]]]
           body(f) == [n \in 0 .. 16 |-> IF n = 0 THEN 0 ELSE f[n - 1] + LSHIFT[n]]
           turned == CHOOSE f : f = body(f)
<1>1. \A n \in 1 .. 16 : LSHIFT[n] \in Nat
  BY DEF LSHIFT
<1>2. LSHIFT[1] = 1 /\ LSHIFT[2] = 1
  BY DEF LSHIFT
<1>3. \A m \in Nat, n \in 1 .. 16 : F[<<m, n>>] = m + LSHIFT[n]
  OBVIOUS
<1>4. \A r \in 1 .. 16 : Turned(r) = turned[r]
  BY DEF Turned
<1> HIDE DEF F
<1>5. StaysIn(F, Nat, 16)
  <2>1. ASSUME NEW m \in Nat, NEW n \in 1 .. 16 PROVE F[<<m, n>>] \in Nat
    <3>1. F[<<m, n>>] = m + LSHIFT[n] /\ LSHIFT[n] \in Nat
      BY <1>1, <1>3
    <3> QED
      BY <3>1
  <2> QED
    BY <2>1 DEF StaysIn
<1>6. 16 \in Nat /\ 0 \in Nat
  OBVIOUS
<1>7. PICK f \in [0 .. 16 -> Nat] : Recurs(f, 0, F, 16)
  BY <1>5, <1>6, RecursionExists
<1>8. ASSUME NEW n \in 1 .. 16 PROVE f[n] = f[n - 1] + LSHIFT[n]
  <2>1. n - 1 \in 0 .. 16
    OBVIOUS
  <2> QED
    BY <1>3, <1>7, <2>1 DEF Recurs
<1>9. f = body(f)
  BY <1>7, <1>8 DEF Recurs
<1>10. turned = body(turned)
  <2> HIDE DEF body
  <2> QED
    BY <1>9
<1> HIDE DEF turned
<1>11. turned[0] = 0 /\ \A n \in 1 .. 16 : turned[n] = turned[n - 1] + LSHIFT[n]
  BY <1>10
<1>12. \A n \in 0 .. 16 : turned[n] \in Nat
  <2> DEFINE J == {n \in 0 .. 16 : turned[n] \in Nat}
  <2>1. 0 \in J
    BY <1>11
  <2>2. ASSUME NEW n \in 1 .. 16, n - 1 \in J PROVE n \in J
    BY <1>1, <1>11, <2>2
  <2> HIDE DEF J
  <2>3. \A n \in 0 .. 16 : n \in J
    BY <1>6, <2>1, <2>2, IndexInduction
  <2> QED
    BY <2>3 DEF J
<1>13. turned[1] = 1 /\ turned[2] = 2
  BY <1>2, <1>11
<1> QED
  BY <1>4, <1>12, <1>13

-----------------------------------------------------------------------------
(* From the bits of a key to the round keys.                               *)

LEMMA HalfTurned ==
    ASSUME NEW half \in [1 .. 28 -> Bit], NEW n \in Nat
    PROVE  /\ RotateLeft(half, n) \in [1 .. 28 -> Bit]
           /\ \A i \in 1 .. 28 : RotateLeft(half, n)[i] = half[((i - 1 + n) % 28) + 1]
<1>1. 28 \in Nat /\ Len(half) = 28 /\ DOMAIN half = 1 .. 28
  BY FunctionIsSequence
<1>2. \A i \in 1 .. 28 : ((i - 1 + n) % 28) + 1 \in 1 .. 28
  OBVIOUS
<1>3. RotateLeft(half, n) = [i \in 1 .. 28 |-> half[((i - 1 + n) % 28) + 1]]
  BY <1>1 DEF RotateLeft
<1>4. \A i \in 1 .. 28 : half[((i - 1 + n) % 28) + 1] \in Bit
  BY <1>2
<1> QED
  BY <1>3, <1>4

(* What PC_2 chooses from.                                                 *)
LEMMA HalvesTurned ==
    ASSUME NEW c \in [1 .. 56 -> Bit], NEW n \in Nat
    PROVE  /\ RotateLeft(Upper(c), n) \o RotateLeft(Lower(c), n) \in [1 .. 56 -> Bit]
           /\ \A j \in 1 .. 56 :
                 /\ TurnedPlace(n, j) \in 1 .. 56
                 /\ (RotateLeft(Upper(c), n) \o RotateLeft(Lower(c), n))[j] =
                       c[TurnedPlace(n, j)]
<1>1. PICK h \in Nat, w \in Nat : h = 28 /\ w = 56
  OBVIOUS
<1>2. Halves(c, h, Bit)
  <2>1. w = 2 * h /\ c \in [1 .. w -> Bit]
    BY <1>1
  <2> QED
    BY <2>1, HalvesOfWord
<1>3. PICK u \in [1 .. 28 -> Bit], l \in [1 .. 28 -> Bit] :
         /\ u = Upper(c) /\ l = Lower(c)
         /\ \A i \in 1 .. 28 : u[i] = c[i] /\ l[i] = c[28 + i]
  BY <1>1, <1>2 DEF Halves
<1>4. PICK tu \in [1 .. 28 -> Bit] :
         /\ tu = RotateLeft(u, n)
         /\ \A i \in 1 .. 28 : tu[i] = u[((i - 1 + n) % 28) + 1]
  BY HalfTurned
<1>5. PICK tl \in [1 .. 28 -> Bit] :
         /\ tl = RotateLeft(l, n)
         /\ \A i \in 1 .. 28 : tl[i] = l[((i - 1 + n) % 28) + 1]
  BY HalfTurned
<1>6. Joined(tu \o tl, tu, tl, h, w, Bit)
  <2>1. w = 2 * h /\ tu \in [1 .. h -> Bit] /\ tl \in [1 .. h -> Bit]
    BY <1>1
  <2> QED
    BY <2>1, WordOfHalves
<1>7. PICK t \in [1 .. 56 -> Bit] :
         /\ t = tu \o tl
         /\ \A j \in 1 .. 56 : t[j] = IF j <= 28 THEN tu[j] ELSE tl[j - 28]
  BY <1>1, <1>6 DEF Joined
<1>8. ASSUME NEW j \in 1 .. 56
      PROVE  TurnedPlace(n, j) \in 1 .. 56 /\ t[j] = c[TurnedPlace(n, j)]
  <2>1. CASE j <= 28
    <3>1. PICK p \in 1 .. 28 : p = ((j - 1 + n) % 28) + 1
      OBVIOUS
    <3>2. t[j] = tu[j] /\ tu[j] = u[p] /\ u[p] = c[p]
      <4>1. j \in 1 .. 28
        BY <2>1
      <4>2. t[j] = tu[j]
        BY <1>7, <2>1
      <4>3. tu[j] = u[p]
        BY <1>4, <3>1, <4>1
      <4> QED
        BY <1>3, <4>2, <4>3
    <3> QED
      BY <2>1, <3>1, <3>2 DEF TurnedPlace
  <2>2. CASE j > 28
    <3>1. PICK i \in 1 .. 28 : i = j - 28 /\ i - 1 = j - 29
      BY <2>2
    <3>2. PICK p \in 1 .. 28 : p = ((i - 1 + n) % 28) + 1
      OBVIOUS
    <3>3. t[j] = tl[i] /\ tl[i] = l[p] /\ l[p] = c[28 + p]
      <4>1. t[j] = tl[i]
        <5>1. ~(j <= 28)
          BY <2>2
        <5>2. t[j] = tl[j - 28]
          BY <1>7, <5>1
        <5> QED
          BY <3>1, <5>2
      <4>2. tl[i] = l[p]
        BY <1>5, <3>2
      <4> QED
        BY <1>3, <4>1, <4>2
    <3>4. TurnedPlace(n, j) = 28 + p
      BY <2>2, <3>1, <3>2 DEF TurnedPlace
    <3> QED
      BY <3>3, <3>4
  <2> QED
    BY <2>1, <2>2
<1> QED
  BY <1>3, <1>4, <1>5, <1>7, <1>8

-----------------------------------------------------------------------------
(* From the octets of a key to its bits.                                   *)

(* The upper seven bits of an octet are those of its half.                 *)
LEMMA OctetBits ==
    ASSUME NEW a \in Octet, NEW b \in Octet
    PROVE  (a \div 2 = b \div 2) <=> \A n \in 1 .. 7 : Bits(a, 8)[n] = Bits(b, 8)[n]
<1>1. /\ Weight[1] = 128 /\ Weight[2] = 64 /\ Weight[3] = 32 /\ Weight[4] = 16
      /\ Weight[5] = 8 /\ Weight[6] = 4 /\ Weight[7] = 2
  BY DEF Weight
<1>2. \A x \in Octet : /\ Bits(x, 8)[1] = (x \div 128) % 2
                       /\ Bits(x, 8)[2] = (x \div 64) % 2
                       /\ Bits(x, 8)[3] = (x \div 32) % 2
                       /\ Bits(x, 8)[4] = (x \div 16) % 2
                       /\ Bits(x, 8)[5] = (x \div 8) % 2
                       /\ Bits(x, 8)[6] = (x \div 4) % 2
                       /\ Bits(x, 8)[7] = (x \div 2) % 2
  BY <1>1 DEF Bits
<1>3. \A x \in Octet : x \div 2 = 64 * Bits(x, 8)[1] + 32 * Bits(x, 8)[2]
                          + 16 * Bits(x, 8)[3] + 8 * Bits(x, 8)[4]
                          + 4 * Bits(x, 8)[5] + 2 * Bits(x, 8)[6] + Bits(x, 8)[7]
  <2>1. ASSUME NEW x \in Octet
        PROVE  x \div 2 = 64 * ((x \div 128) % 2) + 32 * ((x \div 64) % 2)
                   + 16 * ((x \div 32) % 2) + 8 * ((x \div 16) % 2)
                   + 4 * ((x \div 8) % 2) + 2 * ((x \div 4) % 2) + ((x \div 2) % 2)
    BY DEF Octet
  <2> QED
    BY <1>2, <2>1
<1>4. ASSUME \A n \in 1 .. 7 : Bits(a, 8)[n] = Bits(b, 8)[n]
      PROVE  a \div 2 = b \div 2
  <2>1. /\ Bits(a, 8)[1] = Bits(b, 8)[1] /\ Bits(a, 8)[2] = Bits(b, 8)[2]
        /\ Bits(a, 8)[3] = Bits(b, 8)[3] /\ Bits(a, 8)[4] = Bits(b, 8)[4]
        /\ Bits(a, 8)[5] = Bits(b, 8)[5] /\ Bits(a, 8)[6] = Bits(b, 8)[6]
        /\ Bits(a, 8)[7] = Bits(b, 8)[7]
    BY <1>4
  <2> QED
    BY <1>3, <2>1
<1>5. ASSUME a \div 2 = b \div 2, NEW n \in 1 .. 7
      PROVE  Bits(a, 8)[n] = Bits(b, 8)[n]
  <2>1. \A x \in Octet : /\ x \div 128 = (x \div 2) \div 64
                         /\ x \div 64 = (x \div 2) \div 32
                         /\ x \div 32 = (x \div 2) \div 16
                         /\ x \div 16 = (x \div 2) \div 8
                         /\ x \div 8 = (x \div 2) \div 4
                         /\ x \div 4 = (x \div 2) \div 2
    BY DEF Octet
  <2>2. /\ a \div 128 = b \div 128 /\ a \div 64 = b \div 64 /\ a \div 32 = b \div 32
        /\ a \div 16 = b \div 16 /\ a \div 8 = b \div 8 /\ a \div 4 = b \div 4
    BY <1>5, <2>1
  <2>3. n \in {1, 2, 3, 4, 5, 6, 7}
    OBVIOUS
  <2> QED
    BY <1>2, <1>5, <2>2, <2>3
<1> QED
  BY <1>4, <1>5

LEMMA SameSign ==
    ASSUME NEW a \in Octet, NEW b \in Octet, a \div 2 = b \div 2
    PROVE  a >= 128 <=> b >= 128
BY DEF Octet

\* The octets whose sign is folded into octet i of key k.
Negative(k, i) == {j \in i + 1 .. 4 * ((i - 1) \div 4) + 4 : k[j] >= 128}

LEMMA NegativeCounted ==
    ASSUME NEW k \in Key, NEW i \in 1 .. 8
    PROVE  Cardinality(Negative(k, i)) \in Nat
<1>1. i + 1 \in Int /\ 4 * ((i - 1) \div 4) + 4 \in Int
  OBVIOUS
<1>2. IsFiniteSet(i + 1 .. 4 * ((i - 1) \div 4) + 4)
  BY <1>1, FS_Interval
<1>3. IsFiniteSet(Negative(k, i))
  BY <1>2, FS_Subset DEF Negative
<1> QED
  BY <1>3, FS_CardinalityType

(* Bit n of octet i of a key.                                              *)
LEMMA KeyBit ==
    ASSUME NEW k \in Key, NEW i \in 1 .. 8, NEW n \in 1 .. 8
    PROVE  /\ 8 * (i - 1) + n \in 1 .. 64
           /\ KeyBits(k)[8 * (i - 1) + n] =
                 (Bits(k[i], 8)[n] + Cardinality(Negative(k, i))) % 2
<1>1. PICK m \in 1 .. 64 : m = 8 * (i - 1) + n
  OBVIOUS
<1>2. (m - 1) \div 8 + 1 = i /\ ((m - 1) % 8) + 1 = n
  BY <1>1
<1>3. KeyBits(k)[m] = (Bits(k[(m - 1) \div 8 + 1], 8)[((m - 1) % 8) + 1]
                          + Cardinality(Negative(k, (m - 1) \div 8 + 1))) % 2
  BY DEF KeyBits, Negative
<1> QED
  BY <1>1, <1>2, <1>3

LEMMA KeyBitsTyped ==
    ASSUME NEW k \in Key
    PROVE  KeyBits(k) \in [1 .. 64 -> Bit]
<1>1. ASSUME NEW m \in 1 .. 64 PROVE KeyBits(k)[m] \in Bit
  <2>1. PICK i \in 1 .. 8, n \in 1 .. 8 : m = 8 * (i - 1) + n
    <3>1. /\ (m - 1) \div 8 + 1 \in 1 .. 8 /\ ((m - 1) % 8) + 1 \in 1 .. 8
          /\ m = 8 * (((m - 1) \div 8 + 1) - 1) + (((m - 1) % 8) + 1)
      OBVIOUS
    <3> QED
      BY <3>1
  <2>2. k[i] \in Nat
    BY DEF Key, Octet
  <2>3. PICK b \in Bit : b = Bits(k[i], 8)[n]
    BY <2>2, BitsTyped
  <2>4. PICK c \in Nat : c = Cardinality(Negative(k, i))
    BY NegativeCounted
  <2>5. KeyBits(k)[m] = (b + c) % 2
    BY <2>1, <2>3, <2>4, KeyBit
  <2> QED
    BY <2>5 DEF Bit
<1>2. KeyBits(k) = [m \in 1 .. 64 |-> KeyBits(k)[m]]
  BY DEF KeyBits
<1> QED
  BY <1>1, <1>2

\* Keys that differ in lowest bits only, and those that agree where PC_1 looks.
SameKeys(k, m) == \A i \in 1 .. 8 : k[i] \div 2 = m[i] \div 2
SameBits(k, m) == \A n \in 1 .. 64 : n % 8 # 0 => KeyBits(k)[n] = KeyBits(m)[n]

(* An octet is told by its bits once those that come after it in its half   *)
(* are, since their signs are what was folded into it.                     *)
LEMMA OctetToldApart ==
    ASSUME NEW k \in Key, NEW m \in Key, SameBits(k, m), NEW i \in 1 .. 8,
           \A j \in i + 1 .. 4 * ((i - 1) \div 4) + 4 : k[j] \div 2 = m[j] \div 2
    PROVE  k[i] \div 2 = m[i] \div 2
<1>1. Negative(k, i) = Negative(m, i)
  <2>1. \A j \in i + 1 .. 4 * ((i - 1) \div 4) + 4 : j \in 1 .. 8
    OBVIOUS
  <2>2. ASSUME NEW j \in i + 1 .. 4 * ((i - 1) \div 4) + 4
        PROVE  k[j] >= 128 <=> m[j] >= 128
    <3>1. k[j] \in Octet /\ m[j] \in Octet
      BY <2>1 DEF Key
    <3> QED
      BY <3>1, SameSign
  <2> QED
    BY <2>2 DEF Negative
<1>2. PICK c \in Nat : c = Cardinality(Negative(k, i))
  BY NegativeCounted
<1>3. k[i] \in Octet /\ m[i] \in Octet
  BY DEF Key
<1>4. ASSUME NEW n \in 1 .. 7 PROVE Bits(k[i], 8)[n] = Bits(m[i], 8)[n]
  <2>1. n \in 1 .. 8 /\ 8 * (i - 1) + n \in 1 .. 64 /\ (8 * (i - 1) + n) % 8 # 0
    OBVIOUS
  <2>2. KeyBits(k)[8 * (i - 1) + n] = KeyBits(m)[8 * (i - 1) + n]
    BY <2>1 DEF SameBits
  <2>3. k[i] \in Nat /\ m[i] \in Nat /\ 8 \in 1 .. 8
    BY <1>3 DEF Octet
  <2>4. PICK a \in Bit, b \in Bit : a = Bits(k[i], 8)[n] /\ b = Bits(m[i], 8)[n]
    BY <2>1, <2>3, BitsTyped
  <2>5. (a + c) % 2 = (b + c) % 2
    <3>1. KeyBits(k)[8 * (i - 1) + n] = (a + c) % 2
      BY <1>2, <2>1, <2>4, KeyBit
    <3>2. KeyBits(m)[8 * (i - 1) + n] = (b + c) % 2
      BY <1>1, <1>2, <2>1, <2>4, KeyBit
    <3> QED
      BY <2>2, <3>1, <3>2
  <2>6. a = b
    BY <2>5 DEF Bit
  <2> QED
    BY <2>4, <2>6
<1> QED
  BY <1>3, <1>4, OctetBits

(* No bit is lost but the lowest of each octet, for all that is folded.     *)
LEMMA BitsOfKeys ==
    ASSUME NEW k \in Key, NEW m \in Key
    PROVE  SameBits(k, m) <=> SameKeys(k, m)
<1>1. ASSUME SameBits(k, m) PROVE SameKeys(k, m)
  <2> DEFINE Same(i) == k[i] \div 2 = m[i] \div 2
  <2>1. ASSUME NEW i \in 1 .. 8, \A j \in i + 1 .. 4 * ((i - 1) \div 4) + 4 : Same(j)
        PROVE  Same(i)
    BY <1>1, <2>1, OctetToldApart
  <2> HIDE DEF Same
  <2>2. Same(4) /\ Same(8)
    BY <2>1
  <2>3. Same(3) /\ Same(7)
    BY <2>1, <2>2
  <2>4. Same(2) /\ Same(6)
    BY <2>1, <2>2, <2>3
  <2>5. Same(1) /\ Same(5)
    BY <2>1, <2>2, <2>3, <2>4
  <2>6. \A i \in 1 .. 8 : Same(i)
    BY <2>2, <2>3, <2>4, <2>5
  <2> QED
    BY <2>6 DEF Same, SameKeys
<1>2. ASSUME SameKeys(k, m), NEW p \in 1 .. 64, p % 8 # 0
      PROVE  KeyBits(k)[p] = KeyBits(m)[p]
  <2>1. PICK i \in 1 .. 8, n \in 1 .. 7 : p = 8 * (i - 1) + n
    <3>1. /\ (p - 1) \div 8 + 1 \in 1 .. 8 /\ ((p - 1) % 8) + 1 \in 1 .. 7
          /\ p = 8 * (((p - 1) \div 8 + 1) - 1) + (((p - 1) % 8) + 1)
      BY <1>2
    <3> QED
      BY <3>1
  <2>2. k[i] \in Octet /\ m[i] \in Octet /\ k[i] \div 2 = m[i] \div 2
    BY <1>2 DEF Key, SameKeys
  <2>3. Bits(k[i], 8)[n] = Bits(m[i], 8)[n]
    BY <2>2, OctetBits
  <2>4. Negative(k, i) = Negative(m, i)
    <3>1. ASSUME NEW j \in i + 1 .. 4 * ((i - 1) \div 4) + 4
          PROVE  k[j] >= 128 <=> m[j] >= 128
      <4>1. j \in 1 .. 8
        OBVIOUS
      <4>2. k[j] \in Octet /\ m[j] \in Octet /\ k[j] \div 2 = m[j] \div 2
        BY <1>2, <4>1 DEF Key, SameKeys
      <4> QED
        BY <4>2, SameSign
    <3> QED
      BY <3>1 DEF Negative
  <2>5. n \in 1 .. 8
    OBVIOUS
  <2> QED
    BY <2>1, <2>3, <2>4, <2>5, KeyBit
<1> QED
  BY <1>1, <1>2 DEF SameBits

-----------------------------------------------------------------------------
(* Keys and their schedules.                                               *)

ChosenBits(k) == [i \in 1 .. 56 |-> KeyBits(k)[PC_1[i]]]

(* Every bit of a round key is one that PC_1 chose.                        *)
LEMMA ScheduleBits ==
    ASSUME NEW k \in Key
    PROVE  /\ KeySchedule(k) \in Schedule
           /\ \A r \in 1 .. 16, i \in 1 .. 48 :
                 KeySchedule(k)[r][i] = ChosenBits(k)[TurnedPlace(Turned(r), PC_2[i])]
<1>1. PICK c \in [1 .. 56 -> Bit] : c = ChosenBits(k)
  <2>1. ASSUME NEW i \in 1 .. 56 PROVE KeyBits(k)[PC_1[i]] \in Bit
    <3>1. KeyBits(k) \in [1 .. 64 -> Bit]
      BY KeyBitsTyped
    <3>2. PC_1[i] \in 1 .. 64
      BY FirstChoice
    <3> QED
      BY <3>1, <3>2
  <2> QED
    BY <2>1 DEF ChosenBits
<1>2. PermutedChoice1(KeyBits(k)) = c
  <2>1. DOMAIN PC_1 = 1 .. 56
    BY DEF PC_1
  <2> QED
    BY <1>1, <2>1 DEF PermutedChoice1, Permuted, ChosenBits
<1> DEFINE t(r) == RotateLeft(Upper(c), Turned(r)) \o RotateLeft(Lower(c), Turned(r))
           q(r) == PermutedChoice2(t(r))
<1>3. KeySchedule(k) = [r \in 1 .. 16 |-> q(r)]
  BY <1>2 DEF KeySchedule
<1>4. ASSUME NEW r \in 1 .. 16
      PROVE  /\ q(r) \in RoundKey
             /\ \A i \in 1 .. 48 : q(r)[i] = c[TurnedPlace(Turned(r), PC_2[i])]
  <2>1. PICK n \in Nat : n = Turned(r)
    BY TurnedTyped
  <2>2. PICK word \in [1 .. 56 -> Bit] :
           /\ word = t(r)
           /\ \A j \in 1 .. 56 : word[j] = c[TurnedPlace(n, j)]
    BY <2>1, HalvesTurned
  <2>3. PC_2 \in [1 .. 48 -> 1 .. 56]
    BY SecondChoice
  <2>4. q(r) = [i \in 1 .. 48 |-> word[PC_2[i]]]
    BY <2>2, <2>3 DEF PermutedChoice2, Permuted
  <2> HIDE DEF q
  <2>5. ASSUME NEW i \in 1 .. 48
        PROVE  word[PC_2[i]] \in Bit /\ word[PC_2[i]] = c[TurnedPlace(n, PC_2[i])]
    <3>1. PICK j \in 1 .. 56 : j = PC_2[i]
      BY <2>3
    <3> QED
      BY <2>2, <3>1
  <2>6. q(r) \in RoundKey
    BY <2>4, <2>5 DEF RoundKey
  <2> QED
    BY <2>1, <2>4, <2>5, <2>6
<1> HIDE DEF q
<1>5. KeySchedule(k) \in Schedule
  <2>1. \A r \in 1 .. 16 : q(r) \in RoundKey
    BY <1>4
  <2> QED
    BY <1>3, <2>1 DEF Schedule
<1>6. ASSUME NEW r \in 1 .. 16, NEW i \in 1 .. 48
      PROVE  KeySchedule(k)[r][i] = c[TurnedPlace(Turned(r), PC_2[i])]
  <2>1. KeySchedule(k)[r] = q(r)
    BY <1>3
  <2>2. q(r)[i] = c[TurnedPlace(Turned(r), PC_2[i])]
    BY <1>4
  <2> QED
    BY <2>1, <2>2
<1> QED
  BY <1>1, <1>5, <1>6

(* Two keys have one schedule exactly when they differ in lowest bits only. *)
LEMMA SchedulesOfKeys ==
    ASSUME NEW k \in Key, NEW m \in Key
    PROVE  KeySchedule(k) = KeySchedule(m) <=> SameKeys(k, m)
<1>1. ASSUME KeySchedule(k) = KeySchedule(m)
      PROVE  SameBits(k, m)
  <2>1. ASSUME NEW h \in 1 .. 56 PROVE ChosenBits(k)[h] = ChosenBits(m)[h]
    <3>1. PICK r \in 1 .. 2 : r = KeptInRound[h]
      BY SecondChoice
    <3>2. PICK i \in 1 .. 48 : i = KeptAt[h]
      BY SecondChoice
    <3>3. r \in 1 .. 16 /\ Turned(r) = r
      BY TurnedTyped
    <3>4. TurnedPlace(Turned(r), PC_2[i]) = h
      <4>1. TurnedPlace(KeptInRound[h], PC_2[KeptAt[h]]) = h
        BY SecondChoice
      <4> QED
        BY <3>1, <3>2, <3>3, <4>1
    <3>5. KeySchedule(k)[r][i] = ChosenBits(k)[TurnedPlace(Turned(r), PC_2[i])]
      BY <3>3, ScheduleBits
    <3>6. KeySchedule(m)[r][i] = ChosenBits(m)[TurnedPlace(Turned(r), PC_2[i])]
      BY <3>3, ScheduleBits
    <3> QED
      BY <1>1, <3>4, <3>5, <3>6
  <2>2. ASSUME NEW n \in 1 .. 64, n % 8 # 0
        PROVE  KeyBits(k)[n] = KeyBits(m)[n]
    <3>1. ChosenAt[n] \in 1 .. 56 /\ PC_1[ChosenAt[n]] = n
      BY <2>2, FirstChoice
    <3>2. PICK h \in 1 .. 56 : h = ChosenAt[n]
      BY <3>1
    <3>3. ChosenBits(k)[h] = KeyBits(k)[n] /\ ChosenBits(m)[h] = KeyBits(m)[n]
      BY <3>1, <3>2 DEF ChosenBits
    <3> QED
      BY <2>1, <3>3
  <2> QED
    BY <2>2 DEF SameBits
<1>2. ASSUME SameBits(k, m)
      PROVE  KeySchedule(k) = KeySchedule(m)
  <2>1. ASSUME NEW i \in 1 .. 56 PROVE KeyBits(k)[PC_1[i]] = KeyBits(m)[PC_1[i]]
    <3>1. PC_1[i] \in 1 .. 64 /\ PC_1[i] % 8 # 0
      BY FirstChoice
    <3> QED
      BY <1>2, <3>1 DEF SameBits
  <2>2. DOMAIN PC_1 = 1 .. 56
    BY DEF PC_1
  <2>3. PermutedChoice1(KeyBits(k)) = PermutedChoice1(KeyBits(m))
    BY <2>1, <2>2 DEF PermutedChoice1, Permuted
  <2> QED
    BY <2>3 DEF KeySchedule
<1> QED
  BY <1>1, <1>2, BitsOfKeys

-----------------------------------------------------------------------------
(* Layers of keys on a block.                                              *)

NoSchedule == [r \in 1 .. 16 |-> [b \in 1 .. 48 |-> 0]]
UpperBits == [1 .. 8 -> 0 .. 127]

\* The schedule of any key of which these are the upper seven bits.
ScheduleOf(bits) ==
    IF bits = NoKey THEN NoSchedule ELSE KeySchedule([i \in 1 .. 8 |-> 2 * bits[i]])

Layers == [key : {NoKey} \cup UpperBits, way : {1, -1}]

\* What a layer does to a block.
Under(block, layer) ==
    IF layer.way = 1 THEN Encrypted(block, ScheduleOf(layer.key))
    ELSE Decrypted(block, ScheduleOf(layer.key))

\* chain leads from p to d through the layers of q.
Leads(chain, p, d, q) ==
    /\ chain \in [0 .. Len(q) -> Block]
    /\ chain[0] = p /\ chain[Len(q)] = d
    /\ \A n \in 1 .. Len(q) : chain[n] = Under(chain[n - 1], q[n])

\* The schedule is that of key, and data is plain under all of layers.
CipherSound ==
    /\ key \in Keys \cup {NoKey}
    /\ dRoundKey = ScheduleOf(Significant(key))
    /\ layers \in Seq(Layers)
    /\ \E chain : Leads(chain, plain, data, layers)

LEMMA Doubled ==
    ASSUME NEW bits \in UpperBits
    PROVE  [i \in 1 .. 8 |-> 2 * bits[i]] \in Key
<1>1. \A i \in 1 .. 8 : bits[i] \in 0 .. 127
  BY DEF UpperBits
<1>2. \A n \in 0 .. 127 : 2 * n \in 0 .. 255
  OBVIOUS
<1>3. \A i \in 1 .. 8 : 2 * bits[i] \in 0 .. 255
  BY <1>1, <1>2
<1> QED
  BY <1>3 DEF Key, Octet

LEMMA SignificantBits ==
    ASSUME NEW k \in Key
    PROVE  /\ Significant(k) \in UpperBits
           /\ Significant(k) = [i \in 1 .. 8 |-> k[i] \div 2]
           /\ ScheduleOf(Significant(k)) = KeySchedule(k)
<1>1. k # NoKey
  BY KeysAssumption DEF Key, Octet
<1>2. PICK s \in UpperBits : s = Significant(k) /\ s = [i \in 1 .. 8 |-> k[i] \div 2]
  <2>1. \A i \in 1 .. 8 : k[i] \in 0 .. 255
    BY DEF Key, Octet
  <2>2. \A n \in 0 .. 255 : n \div 2 \in 0 .. 127
    OBVIOUS
  <2>3. ASSUME NEW i \in 1 .. 8 PROVE k[i] \div 2 \in 0 .. 127
    <3>1. PICK v \in 0 .. 255 : v = k[i]
      BY <2>1
    <3> QED
      BY <2>2, <3>1
  <2>4. [i \in 1 .. 8 |-> k[i] \div 2] \in UpperBits
    BY <2>3 DEF UpperBits
  <2> QED
    BY <1>1, <2>4 DEF Significant
<1>3. s # NoKey
  <2>1. s \in [1 .. 8 -> 0 .. 255]
    BY DEF UpperBits
  <2> QED
    BY <2>1, KeysAssumption
<1>4. PICK m \in Key : m = [i \in 1 .. 8 |-> 2 * s[i]]
  BY Doubled
<1>5. SameKeys(m, k)
  <2>1. ASSUME NEW i \in 1 .. 8 PROVE m[i] \div 2 = k[i] \div 2
    <3>1. PICK v \in 0 .. 127 : v = s[i] /\ v = k[i] \div 2 /\ m[i] = 2 * v
      BY <1>2, <1>4 DEF UpperBits
    <3> QED
      BY <3>1
  <2> QED
    BY <2>1 DEF SameKeys
<1>6. KeySchedule(m) = KeySchedule(k)
  BY <1>5, SchedulesOfKeys
<1> QED
  BY <1>2, <1>3, <1>4, <1>6 DEF ScheduleOf

LEMMA ScheduleTyped ==
    ASSUME NEW bits \in {NoKey} \cup UpperBits
    PROVE  ScheduleOf(bits) \in Schedule
<1>1. CASE bits = NoKey
  BY <1>1 DEF ScheduleOf, NoSchedule, Schedule, RoundKey, Bit
<1>2. CASE bits # NoKey
  <2>1. PICK m \in Key : m = [i \in 1 .. 8 |-> 2 * bits[i]]
    BY <1>2, Doubled
  <2>2. KeySchedule(m) \in Schedule
    BY ScheduleBits
  <2> QED
    BY <1>2, <2>1, <2>2 DEF ScheduleOf
<1> QED
  BY <1>1, <1>2

(* A layer and the same key the other way leave a block as it was.         *)
LEMMA LayerUndone ==
    ASSUME NEW block \in Block, NEW bits \in {NoKey} \cup UpperBits, NEW way \in {1, -1}
    PROVE  /\ Under(block, [key |-> bits, way |-> way]) \in Block
           /\ Under(Under(block, [key |-> bits, way |-> -way]),
                    [key |-> bits, way |-> way]) = block
<1>1. PICK s \in Schedule : s = ScheduleOf(bits)
  BY ScheduleTyped
<1>2. \A b \in Block : /\ Under(b, [key |-> bits, way |-> 1]) = Encrypted(b, s)
                       /\ Under(b, [key |-> bits, way |-> -1]) = Decrypted(b, s)
  BY <1>1 DEF Under
<1>3. /\ Encrypted(block, s) \in Block /\ Decrypted(block, s) \in Block
      /\ Decrypted(Encrypted(block, s), s) = block
      /\ Encrypted(Decrypted(block, s), s) = block
  BY CipherUndone
<1>4. CASE way = 1
  BY <1>2, <1>3, <1>4
<1>5. CASE way = -1
  BY <1>2, <1>3, <1>5
<1> QED
  BY <1>4, <1>5

-----------------------------------------------------------------------------
(* The invariant.                                                          *)

LEMMA InitSound == Init => CipherSound
<1> SUFFICES ASSUME Init PROVE CipherSound
  OBVIOUS
<1>1. /\ dRoundKey = NoSchedule /\ key = NoKey
      /\ data \in Block /\ plain = data /\ layers = <<>>
  BY DatasAssumption DEF Init, NoSchedule, Block, Bit
<1>2. dRoundKey = ScheduleOf(Significant(key))
  BY <1>1 DEF ScheduleOf, Significant
<1>3. Len(layers) = 0 /\ layers \in Seq(Layers)
  BY <1>1
<1>4. Leads([n \in 0 .. 0 |-> data], plain, data, layers)
  BY <1>1, <1>3 DEF Leads
<1> QED
  BY <1>1, <1>2, <1>3, <1>4 DEF CipherSound

(* Encrypt_Data and Decrypt_Data put on a layer of the key of the time, or  *)
(* take off the last one.                                                  *)
LEMMA Layering ==
    ASSUME CipherSound, NEW way \in {1, -1}, layers' = Layered(way),
           data' = Under(data, [key |-> Significant(key), way |-> way]),
           plain' = plain
    PROVE  layers' \in Seq(Layers) /\ \E chain : Leads(chain, plain', data', layers')
<1>1. PICK k \in {NoKey} \cup UpperBits : k = Significant(key)
  <2>1. CASE key = NoKey
    BY <2>1 DEF Significant
  <2>2. CASE key \in Keys
    <3>1. key \in Key
      BY <2>2, KeysAssumption DEF Key, Octet
    <3> QED
      BY <3>1, SignificantBits
  <2> QED
    BY <2>1, <2>2 DEF CipherSound
<1>2. PICK N \in Nat : /\ N = Len(layers) /\ layers \in Seq(Layers)
                      /\ \A n \in 1 .. N : layers[n] \in Layers
  BY LenProperties, ElementOfSeq DEF CipherSound
<1>3. PICK chain \in [0 .. N -> Block] :
         /\ chain[0] = plain /\ chain[N] = data
         /\ \A n \in 1 .. N : chain[n] = Under(chain[n - 1], layers[n])
  BY <1>2 DEF CipherSound, Leads
<1> DEFINE top == [key |-> k, way |-> way]
           below == [key |-> k, way |-> -way]
<1>4. top \in Layers /\ below \in Layers
  BY DEF Layers
<1>5. data' = Under(data, top)
  BY <1>1
<1>6. data \in Block
  BY <1>2, <1>3
<1>7. CASE layers # <<>> /\ layers[N] = below
  <2>1. N \in 1 .. N /\ N - 1 \in 0 .. N
    BY <1>2, <1>7, EmptySeq
  <2>2. layers' = SubSeq(layers, 1, N - 1)
    BY <1>1, <1>2, <1>7 DEF Layered
  <2>3. /\ layers' \in Seq(Layers)
        /\ Len(layers') = N - 1
        /\ \A n \in 1 .. N - 1 : layers'[n] = layers[n]
    <3>1. 1 \in Int /\ N - 1 \in Int /\ \A n \in 1 .. N - 1 : layers[n] \in Layers
      BY <1>2
    <3>2. /\ SubSeq(layers, 1, N - 1) \in Seq(Layers)
          /\ Len(SubSeq(layers, 1, N - 1)) = IF 1 <= N - 1 THEN (N - 1) - 1 + 1 ELSE 0
          /\ \A n \in 1 .. (N - 1) - 1 + 1 : SubSeq(layers, 1, N - 1)[n] = layers[1 + n - 1]
      BY <3>1, SubSeqProperties
    <3> QED
      BY <2>1, <2>2, <3>2
  <2> DEFINE g == [n \in 0 .. N - 1 |-> chain[n]]
  <2>4. g \in [0 .. N - 1 -> Block] /\ \A n \in 0 .. N - 1 : g[n] = chain[n]
    BY <2>1
  <2>5. chain[N - 1] = data'
    <3>1. data = Under(chain[N - 1], below) /\ chain[N - 1] \in Block
      BY <1>3, <1>7, <2>1
    <3> QED
      BY <1>5, <3>1, LayerUndone
  <2> HIDE DEF g
  <2>6. g[0] = plain' /\ g[N - 1] = data'
    BY <1>3, <2>1, <2>4, <2>5
  <2>7. ASSUME NEW n \in 1 .. N - 1 PROVE g[n] = Under(g[n - 1], layers'[n])
    <3>1. n \in 0 .. N - 1 /\ n - 1 \in 0 .. N - 1 /\ n \in 1 .. N
      OBVIOUS
    <3> QED
      BY <1>3, <2>3, <2>4, <3>1
  <2>8. Leads(g, plain', data', layers')
    BY <2>3, <2>4, <2>6, <2>7 DEF Leads
  <2> QED
    BY <2>3, <2>8
<1>8. CASE ~(layers # <<>> /\ layers[N] = below)
  <2>1. layers' = Append(layers, top)
    BY <1>1, <1>2, <1>8 DEF Layered
  <2>2. /\ layers' \in Seq(Layers)
        /\ Len(layers') = N + 1
        /\ \A n \in 1 .. N : layers'[n] = layers[n]
        /\ layers'[N + 1] = top
    <3> HIDE DEF top
    <3> QED
      BY <1>2, <1>4, <2>1, AppendProperties
  <2> DEFINE g == [n \in 0 .. N + 1 |-> IF n = N + 1 THEN data' ELSE chain[n]]
  <2>3. data' \in Block
    BY <1>5, <1>6, LayerUndone
  <2>4. /\ g \in [0 .. N + 1 -> Block]
        /\ \A n \in 0 .. N : g[n] = chain[n]
        /\ g[N + 1] = data'
    BY <2>3
  <2> HIDE DEF g
  <2>5. g[0] = plain'
    BY <1>3, <2>4
  <2>6. ASSUME NEW n \in 1 .. N + 1 PROVE g[n] = Under(g[n - 1], layers'[n])
    <3>1. CASE n = N + 1
      BY <1>3, <1>5, <2>2, <2>4, <3>1
    <3>2. CASE n # N + 1
      <4>1. n \in 0 .. N /\ n - 1 \in 0 .. N /\ n \in 1 .. N
        BY <3>2
      <4> QED
        BY <1>3, <2>2, <2>4, <4>1
    <3> QED
      BY <3>1, <3>2
  <2>7. Leads(g, plain', data', layers')
    BY <2>2, <2>4, <2>5, <2>6 DEF Leads
  <2> QED
    BY <2>2, <2>7
<1> QED
  BY <1>7, <1>8

LEMMA StepSound == CipherSound /\ [Next]_vars => CipherSound'
<1> SUFFICES ASSUME CipherSound, [Next]_vars PROVE CipherSound'
  OBVIOUS
<1>1. ASSUME NEW k \in Keys, MakeKey(k) PROVE CipherSound'
  <2>1. k \in Key
    BY KeysAssumption DEF Key, Octet
  <2>2. dRoundKey' = ScheduleOf(Significant(key'))
    BY <1>1, <2>1, SignificantBits DEF MakeKey
  <2>3. key' \in Keys /\ plain' = plain /\ data' = data /\ layers' = layers
    BY <1>1 DEF MakeKey
  <2> QED
    BY <2>2, <2>3 DEF CipherSound
<1>2. ASSUME Encrypt_Data PROVE CipherSound'
  <2>1. data' = Under(data, [key |-> Significant(key), way |-> 1])
    BY <1>2 DEF Encrypt_Data, CipherSound, Under
  <2>2. layers' = Layered(1) /\ UNCHANGED <<dRoundKey, key, plain>>
    BY <1>2 DEF Encrypt_Data
  <2>3. layers' \in Seq(Layers) /\ \E chain : Leads(chain, plain', data', layers')
    BY <2>1, <2>2, Layering
  <2> QED
    BY <2>2, <2>3 DEF CipherSound, ScheduleOf, Significant
<1>3. ASSUME Decrypt_Data PROVE CipherSound'
  <2>1. data' = Under(data, [key |-> Significant(key), way |-> -1])
    BY <1>3 DEF Decrypt_Data, CipherSound, Under
  <2>2. layers' = Layered(-1) /\ UNCHANGED <<dRoundKey, key, plain>>
    BY <1>3 DEF Decrypt_Data
  <2>3. layers' \in Seq(Layers) /\ \E chain : Leads(chain, plain', data', layers')
    BY <2>1, <2>2, Layering
  <2> QED
    BY <2>2, <2>3 DEF CipherSound, ScheduleOf, Significant
<1>4. CASE UNCHANGED vars
  BY <1>4 DEF vars, CipherSound, ScheduleOf, Significant
<1> QED
  BY <1>1, <1>2, <1>3, <1>4 DEF Next

(* The schedule is always that of the last key, up to its lowest bits, and  *)
(* the block what the layers have made of plain.                           *)
LEMMA CipherIsSound == Spec => []CipherSound
<1>1. Init => CipherSound
  BY InitSound
<1>2. CipherSound /\ [Next]_vars => CipherSound'
  BY StepSound
<1> QED
  BY <1>1, <1>2, PTL DEF Spec

-----------------------------------------------------------------------------
(* What the cipher promises.                                               *)

(* Encrypt_Data and Decrypt_Data of des.cpp give back every block, under    *)
(* any keys in any order, once what one did the other has undone.          *)
THEOREM BlocksRecovered == Spec => []Recovered
<1>1. CipherSound => Recovered
  <2> SUFFICES ASSUME CipherSound, layers = <<>> PROVE data = plain
    BY DEF Recovered
  <2>1. PICK chain : Leads(chain, plain, data, layers)
    BY DEF CipherSound
  <2>2. Len(layers) = 0
    OBVIOUS
  <2> QED
    BY <2>1, <2>2 DEF Leads
<1> QED
  BY <1>1, CipherIsSound, PTL

(* MakeKey with another key gives another schedule, unless the two differ   *)
(* in nothing but the lowest bits of their octets: the octets that          *)
(* KeySchedule folds into each other by their signs come apart again.      *)
THEOREM KeysAreTold == Spec => KeysTellApart
<1>1. ASSUME CipherSound, [Next]_vars, ~UNCHANGED vars, key # NoKey, layers' = layers
      PROVE  dRoundKey' = dRoundKey <=> Significant(key') = Significant(key)
  <2>1. CASE \E k \in Keys : MakeKey(k)
    <3>1. PICK k \in Key : MakeKey(k)
      BY <2>1, KeysAssumption DEF Key, Octet
    <3>2. PICK m \in Key : m = key
      BY <1>1, KeysAssumption DEF CipherSound, Key, Octet
    <3>3. dRoundKey' = KeySchedule(k) /\ key' = k
      BY <3>1 DEF MakeKey
    <3>4. dRoundKey = KeySchedule(m)
      BY <1>1, <3>2, SignificantBits DEF CipherSound
    <3>5. SameKeys(k, m) <=> Significant(k) = Significant(m)
      <4>1. /\ Significant(k) = [i \in 1 .. 8 |-> k[i] \div 2]
            /\ Significant(m) = [i \in 1 .. 8 |-> m[i] \div 2]
        BY SignificantBits
      <4> QED
        BY <4>1 DEF SameKeys
    <3>6. Significant(key') = Significant(k) /\ Significant(key) = Significant(m)
      BY <3>2, <3>3
    <3> QED
      BY <3>3, <3>4, <3>5, <3>6, SchedulesOfKeys
  <2>2. CASE Encrypt_Data \/ Decrypt_Data
    BY <2>2 DEF Encrypt_Data, Decrypt_Data, Significant
  <2> QED
    BY <1>1, <2>1, <2>2 DEF Next
<1>2. CipherSound /\ [Next]_vars =>
         [key # NoKey /\ layers' = layers
             => (dRoundKey' = dRoundKey <=> Significant(key') = Significant(key))]_vars
  BY <1>1
<1> QED
  BY <1>2, CipherIsSound, PTL DEF Spec, KeysTellApart
=============================================================================
