----------------------------- MODULE HashProofs -----------------------------
(***************************************************************************)
(* Theorems about Sha1 and Hmac, for every size of a block, of a digest    *)
(* and of the two words that count, and for cells of any kind.             *)
(***************************************************************************)
EXTENDS Hmac, SequenceFacts

Blocks(C) == [1 .. BlockSize -> C]

Contexts(C) ==
    [ Length_Low : 0 .. LowSpace - 1, Length_High : 0 .. HighSpace - 1,
      Message_Block_Index : 0 .. BlockSize - 1, Message_Block : Blocks(C),
      Intermediate_Hash : Seq(Blocks(C)), Computed : BOOLEAN,
      Corrupted : {shaSuccess, TooLong, shaStateError} ]

(* A context written out field by field.                                   *)
Context(low, high, i, block, hash, computed, corrupted) ==
    [ Length_Low |-> low, Length_High |-> high, Message_Block_Index |-> i,
      Message_Block |-> block, Intermediate_Hash |-> hash,
      Computed |-> computed, Corrupted |-> corrupted ]

(* Context c holds the first n cells of m: in the blocks it has compressed, *)
(* in the block it fills and in the two words that count bits.             *)
Holds(c, m, n) ==
    LET k == Len(c.Intermediate_Hash)
    IN  /\ n = k * BlockSize + c.Message_Block_Index
        /\ 8 * n = c.Length_High * LowSpace + c.Length_Low
        /\ \A b \in 1 .. k : \A j \in 1 .. BlockSize :
              c.Intermediate_Hash[b][j] = m[(b - 1) * BlockSize + j]
        /\ \A j \in 1 .. c.Message_Block_Index :
              c.Message_Block[j] = m[k * BlockSize + j]

-----------------------------------------------------------------------------
(* One cell.                                                               *)

LEMMA Remainder ==
    ASSUME NEW n \in Nat, NEW x \in 0 .. n, n # 0
    PROVE  x % n = IF x = n THEN 0 ELSE x
OBVIOUS

LEMMA RemainderRange ==
    ASSUME NEW n \in Nat, NEW x \in Nat, n # 0
    PROVE  x % n \in 0 .. n - 1
OBVIOUS

LEMMA Sizes ==
    /\ BlockSize \in Nat /\ BlockSize > 2
    /\ LowSpace \in Nat /\ LowSpace > 0
    /\ HighSpace \in Nat /\ HighSpace > 0
    /\ \E q \in Nat : LowSpace = 8 * q
BY SpaceAssumption

(* One octet more: the words that count, the block, and whether the first  *)
(* two have overflown.                                                     *)
NextLow(low) == (low + 8) % LowSpace
NextHigh(low, high) ==
    IF NextLow(low) = 0 THEN (high + 1) % HighSpace ELSE high
NextCorrupted(low, high, corrupted) ==
    IF NextLow(low) = 0 /\ NextHigh(low, high) = 0 THEN TooLong ELSE corrupted
Put(block, i, cell) == [block EXCEPT ![i + 1] = cell]

(* The cells of the first k blocks come before those of the next.          *)
LEMMA Inside ==
    ASSUME NEW k \in Nat, NEW i \in Nat, NEW b \in 1 .. k, NEW j \in 1 .. BlockSize
    PROVE  (b - 1) * BlockSize + j \in 1 .. k * BlockSize + i
<1>1. PICK e \in Nat : e = k - b
  OBVIOUS
<1>2. k * BlockSize = (b - 1) * BlockSize + BlockSize + e * BlockSize
  BY <1>1, Sizes
<1>3. e * BlockSize \in Nat /\ (b - 1) * BlockSize \in Nat
  BY <1>1, Sizes
<1> QED
  BY <1>2, <1>3, Sizes

(* Counting in two words, as long as the second one does not overflow.     *)
LEMMA CountingBits ==
    ASSUME NEW n \in Nat, NEW low \in 0 .. LowSpace - 1,
           NEW high \in 0 .. HighSpace - 1, 8 * n = high * LowSpace + low
    PROVE  /\ NextLow(low) \in 0 .. LowSpace - 1
           /\ NextHigh(low, high) \in 0 .. HighSpace - 1
           /\ \/ NextLow(low) = 0 /\ NextHigh(low, high) = 0
              \/ 8 * (n + 1) = NextHigh(low, high) * LowSpace + NextLow(low)
<1>1. PICK q \in Nat : LowSpace = 8 * q
  BY Sizes
<1>2. low + 8 <= LowSpace
  <2>1. PICK t \in Int : t = n - high * q
    BY <1>1, Sizes
  <2>2. low = 8 * t
    BY <1>1, <2>1
  <2> QED
    BY <1>1, <2>2
<1>3. NextLow(low) = IF low + 8 = LowSpace THEN 0 ELSE low + 8
  BY <1>2, Sizes, Remainder DEF NextLow
<1>4. (high + 1) % HighSpace = IF high + 1 = HighSpace THEN 0 ELSE high + 1
  BY Sizes, Remainder
<1> QED
  BY <1>2, <1>3, <1>4, Sizes DEF NextHigh

LEMMA NextTyped ==
    ASSUME NEW low \in 0 .. LowSpace - 1, NEW high \in 0 .. HighSpace - 1
    PROVE  /\ NextLow(low) \in 0 .. LowSpace - 1
           /\ NextHigh(low, high) \in 0 .. HighSpace - 1
<1>1. PICK x \in Nat, y \in Nat : x = low + 8 /\ y = high + 1
  OBVIOUS
<1>2. x % LowSpace \in 0 .. LowSpace - 1 /\ y % HighSpace \in 0 .. HighSpace - 1
  BY Sizes
<1> QED
  BY <1>1, <1>2 DEF NextLow, NextHigh

(* The fields of a context, and what the writes of one statement do.       *)
LEMMA ContextOf ==
    ASSUME NEW C, NEW c \in Contexts(C)
    PROVE  \E low \in 0 .. LowSpace - 1, high \in 0 .. HighSpace - 1,
              i \in 0 .. BlockSize - 1, block \in Blocks(C),
              hash \in Seq(Blocks(C)), computed \in BOOLEAN,
              corrupted \in {shaSuccess, TooLong, shaStateError} :
                c = Context(low, high, i, block, hash, computed, corrupted)
BY DEF Contexts, Context

LEMMA ContextFields ==
    ASSUME NEW low, NEW high, NEW i, NEW block, NEW hash, NEW computed,
           NEW corrupted, NEW c,
           c = Context(low, high, i, block, hash, computed, corrupted)
    PROVE  /\ c.Length_Low = low
           /\ c.Length_High = high
           /\ c.Message_Block_Index = i
           /\ c.Message_Block = block
           /\ c.Intermediate_Hash = hash
           /\ c.Computed = computed
           /\ c.Corrupted = corrupted
BY DEF Context

LEMMA ContextTyped ==
    ASSUME NEW C, NEW low \in 0 .. LowSpace - 1, NEW high \in 0 .. HighSpace - 1,
           NEW i \in 0 .. BlockSize - 1, NEW block \in Blocks(C),
           NEW hash \in Seq(Blocks(C)), NEW computed \in BOOLEAN,
           NEW corrupted \in {shaSuccess, TooLong, shaStateError}
    PROVE  Context(low, high, i, block, hash, computed, corrupted) \in Contexts(C)
BY DEF Context, Contexts

LEMMA Stored ==
    ASSUME NEW low, NEW high, NEW i, NEW block, NEW hash, NEW computed,
           NEW corrupted, NEW cell
    PROVE  Store(Context(low, high, i, block, hash, computed, corrupted), cell) =
               Context(low, high, i + 1, [block EXCEPT ![i + 1] = cell], hash,
                       computed, corrupted)
<1> DEFINE block2 == [block EXCEPT ![i + 1] = cell]
           j == i + 1
           c == Context(low, high, i, block, hash, computed, corrupted)
<1>1. c.Message_Block_Index = i /\ c.Message_Block = block
  BY DEF Context
<1>2. Store(c, cell) =
         [c EXCEPT !.Message_Block = block2, !.Message_Block_Index = j]
  BY <1>1 DEF Store
<1> HIDE DEF block2, j
<1>3. Store(c, cell) = Context(low, high, j, block2, hash, computed, corrupted)
  BY <1>2 DEF Context
<1> QED
  BY <1>3 DEF block2, j

LEMMA Processed ==
    ASSUME NEW low, NEW high, NEW i, NEW block, NEW hash, NEW computed,
           NEW corrupted
    PROVE  SHA1ProcessMessageBlock(
               Context(low, high, i, block, hash, computed, corrupted)) =
               Context(low, high, 0, block, Append(hash, block), computed, corrupted)
<1> DEFINE hash2 == Append(hash, block)
           c == Context(low, high, i, block, hash, computed, corrupted)
<1>1. SHA1ProcessMessageBlock(c) =
         [c EXCEPT !.Intermediate_Hash = hash2, !.Message_Block_Index = 0]
  BY DEF SHA1ProcessMessageBlock, Context
<1> HIDE DEF hash2
<1>2. SHA1ProcessMessageBlock(c) =
         Context(low, high, 0, block, hash2, computed, corrupted)
  BY <1>1 DEF Context
<1> QED
  BY <1>2 DEF hash2

LEMMA Counted ==
    ASSUME NEW low, NEW high, NEW i, NEW block, NEW hash, NEW computed,
           NEW corrupted
    PROVE  Count(Context(low, high, i, block, hash, computed, corrupted)) =
               Context(NextLow(low), NextHigh(low, high), i, block, hash, computed,
                       NextCorrupted(low, high, corrupted))
<1> DEFINE c == Context(low, high, i, block, hash, computed, corrupted)
           low2 == NextLow(low)
           high2 == (high + 1) % HighSpace
<1>1. c.Length_Low = low /\ c.Length_High = high /\ c.Corrupted = corrupted
  BY DEF Context
<1>2. Count(c) = [c EXCEPT
                    !.Length_Low = low2,
                    !.Length_High = IF low2 = 0 THEN high2 ELSE high,
                    !.Corrupted = IF low2 = 0 /\ high2 = 0 THEN TooLong
                                  ELSE corrupted]
  <2> HIDE DEF c
  <2> QED
    BY <1>1 DEF Count, Overflows, NextLow
<1> HIDE DEF low2, high2
<1>3. Count(c) = Context(low2, IF low2 = 0 THEN high2 ELSE high, i, block, hash,
                         computed,
                         IF low2 = 0 /\ high2 = 0 THEN TooLong ELSE corrupted)
  BY <1>2 DEF Context
<1> QED
  BY <1>3 DEF low2, high2, NextHigh, NextCorrupted

(* What a turn of SHA1Input's loop makes of a context.                     *)
LEMMA TakeResult ==
    ASSUME NEW low, NEW high, NEW i, NEW block, NEW hash, NEW computed,
           NEW corrupted, NEW cell
    PROVE  Take(Context(low, high, i, block, hash, computed, corrupted), cell) =
               IF i + 1 = BlockSize
               THEN Context(NextLow(low), NextHigh(low, high), 0,
                            Put(block, i, cell), Append(hash, Put(block, i, cell)),
                            computed, NextCorrupted(low, high, corrupted))
               ELSE Context(NextLow(low), NextHigh(low, high), i + 1,
                            Put(block, i, cell), hash,
                            computed, NextCorrupted(low, high, corrupted))
<1> DEFINE c == Context(low, high, i, block, hash, computed, corrupted)
           counted == Count(Store(c, cell))
<1>1. counted = Context(NextLow(low), NextHigh(low, high), i + 1,
                        Put(block, i, cell), hash, computed,
                        NextCorrupted(low, high, corrupted))
  BY Stored, Counted DEF Put
<1>2. counted.Message_Block_Index = i + 1
  BY <1>1, ContextFields
<1>3. Take(c, cell) = IF i + 1 = BlockSize THEN SHA1ProcessMessageBlock(counted)
                      ELSE counted
  BY <1>2 DEF Take
<1> HIDE DEF c, counted
<1> QED
  BY <1>1, <1>3, Processed DEF c

LEMMA TakeTyped ==
    ASSUME NEW C, NEW c \in Contexts(C), NEW cell \in C
    PROVE  Take(c, cell) \in Contexts(C) /\ Take(c, cell).Computed = c.Computed
<1>1. PICK low \in 0 .. LowSpace - 1, high \in 0 .. HighSpace - 1,
           i \in 0 .. BlockSize - 1, block \in Blocks(C),
           hash \in Seq(Blocks(C)), computed \in BOOLEAN,
           corrupted \in {shaSuccess, TooLong, shaStateError} :
             c = Context(low, high, i, block, hash, computed, corrupted)
  BY ContextOf
<1>2. PICK low2 \in 0 .. LowSpace - 1, high2 \in 0 .. HighSpace - 1,
           corrupted2 \in {shaSuccess, TooLong, shaStateError} :
             /\ low2 = NextLow(low) /\ high2 = NextHigh(low, high)
             /\ corrupted2 = NextCorrupted(low, high, corrupted)
  BY NextTyped DEF NextCorrupted
<1>3. PICK block2 \in Blocks(C) : block2 = Put(block, i, cell)
  BY DEF Blocks, Put
<1>4. PICK hash2 \in Seq(Blocks(C)) : hash2 = Append(hash, block2)
  BY AppendProperties
<1>5. \/ Take(c, cell) = Context(low2, high2, 0, block2, hash2, computed, corrupted2)
      \/ /\ Take(c, cell) =
              Context(low2, high2, i + 1, block2, hash, computed, corrupted2)
         /\ i + 1 \in 0 .. BlockSize - 1
  BY <1>1, <1>2, <1>3, <1>4, TakeResult, Sizes
<1>6. PICK d : d = Take(c, cell)
  OBVIOUS
<1>7. d \in Contexts(C)
  <2>1. 0 \in 0 .. BlockSize - 1
    BY Sizes
  <2> QED
    BY <1>5, <1>6, <2>1, ContextTyped
<1>8. d.Computed = computed /\ c.Computed = computed
  BY <1>1, <1>5, <1>6, ContextFields
<1> QED
  BY <1>6, <1>7, <1>8

(* A cell that is taken is held behind those that were.                    *)
LEMMA TakeHolds ==
    ASSUME NEW C, NEW c \in Contexts(C), NEW m, NEW n \in Nat, Holds(c, m, n),
           m[n + 1] \in C, Take(c, m[n + 1]).Corrupted = 0
    PROVE  Holds(Take(c, m[n + 1]), m, n + 1)
<1>1. PICK low \in 0 .. LowSpace - 1, high \in 0 .. HighSpace - 1,
           i \in 0 .. BlockSize - 1, block \in Blocks(C),
           hash \in Seq(Blocks(C)), computed \in BOOLEAN,
           corrupted \in {shaSuccess, TooLong, shaStateError} :
             c = Context(low, high, i, block, hash, computed, corrupted)
  BY ContextOf
<1>2. PICK low2 \in 0 .. LowSpace - 1, high2 \in 0 .. HighSpace - 1,
           corrupted2 \in {shaSuccess, TooLong, shaStateError} :
             /\ low2 = NextLow(low) /\ high2 = NextHigh(low, high)
             /\ corrupted2 = NextCorrupted(low, high, corrupted)
  BY NextTyped DEF NextCorrupted
<1>3. PICK block2 \in Blocks(C) : block2 = Put(block, i, m[n + 1])
  BY DEF Blocks, Put
<1>4. PICK hash2 \in Seq(Blocks(C)) : hash2 = Append(hash, block2)
  BY AppendProperties
<1>5. PICK d : d = Take(c, m[n + 1])
  OBVIOUS
<1>6. d = IF i + 1 = BlockSize
          THEN Context(low2, high2, 0, block2, hash2, computed, corrupted2)
          ELSE Context(low2, high2, i + 1, block2, hash, computed, corrupted2)
  BY <1>1, <1>2, <1>3, <1>4, <1>5, TakeResult
<1>7. PICK k \in Nat : k = Len(hash)
  BY LenProperties
<1>8. /\ n = k * BlockSize + i
      /\ 8 * n = high * LowSpace + low
      /\ \A b \in 1 .. k : \A j \in 1 .. BlockSize :
            hash[b][j] = m[(b - 1) * BlockSize + j]
      /\ \A j \in 1 .. i : block[j] = m[k * BlockSize + j]
  <2>1. /\ c.Length_Low = low /\ c.Length_High = high
        /\ c.Message_Block_Index = i /\ c.Message_Block = block
        /\ c.Intermediate_Hash = hash
    BY <1>1, ContextFields
  <2> QED
    BY <1>7, <2>1 DEF Holds
<1>9. 8 * (n + 1) = high2 * LowSpace + low2
  <2>1. ~(low2 = 0 /\ high2 = 0)
    BY <1>2, <1>5, <1>6, ContextFields DEF TooLong, NextCorrupted
  <2> QED
    BY <1>2, <1>8, <2>1, CountingBits
<1>10. n + 1 = k * BlockSize + (i + 1)
  BY <1>8, Sizes
<1>11. \A j \in 1 .. i + 1 : block2[j] = m[k * BlockSize + j]
  <2>1. block2[i + 1] = m[n + 1] /\ \A j \in 1 .. i : block2[j] = block[j]
    BY <1>3, Sizes DEF Put, Blocks
  <2>2. ASSUME NEW j \in 1 .. i + 1 PROVE block2[j] = m[k * BlockSize + j]
    <3>1. CASE j = i + 1
      BY <1>10, <2>1, <3>1
    <3>2. CASE j \in 1 .. i
      BY <1>8, <2>1, <3>2
    <3> QED
      BY <3>1, <3>2
  <2> QED
    BY <2>2
<1>12. CASE i + 1 = BlockSize
  <2>1. d = Context(low2, high2, 0, block2, hash2, computed, corrupted2)
    BY <1>6, <1>12
  <2>2. /\ d.Length_Low = low2 /\ d.Length_High = high2
        /\ d.Message_Block_Index = 0 /\ d.Intermediate_Hash = hash2
    BY <2>1, ContextFields
  <2>3. /\ Len(hash2) = k + 1 /\ hash2[k + 1] = block2
        /\ \A b \in 1 .. k : hash2[b] = hash[b]
    BY <1>4, <1>7, AppendProperties
  <2>4. n + 1 = (k + 1) * BlockSize + 0
    BY <1>10, <1>12, Sizes
  <2>5. ASSUME NEW b \in 1 .. k + 1, NEW j \in 1 .. BlockSize
        PROVE  hash2[b][j] = m[(b - 1) * BlockSize + j]
    <3>1. CASE b = k + 1
      BY <1>11, <1>12, <2>3, <3>1
    <3>2. CASE b # k + 1
      <4>1. b \in 1 .. k
        BY <3>2
      <4> QED
        BY <1>8, <2>3, <4>1
    <3> QED
      BY <3>1, <3>2
  <2> QED
    BY <1>5, <1>9, <2>2, <2>3, <2>4, <2>5 DEF Holds
<1>13. CASE i + 1 # BlockSize
  <2>1. d = Context(low2, high2, i + 1, block2, hash, computed, corrupted2)
    BY <1>6, <1>13
  <2>2. /\ d.Length_Low = low2 /\ d.Length_High = high2
        /\ d.Message_Block_Index = i + 1 /\ d.Message_Block = block2
        /\ d.Intermediate_Hash = hash
    BY <2>1, ContextFields
  <2> QED
    BY <1>5, <1>7, <1>8, <1>9, <1>10, <1>11, <2>2 DEF Holds
<1> QED
  BY <1>12, <1>13

-----------------------------------------------------------------------------
(* One call of SHA1Input.                                                  *)

(* TakeAll goes through the contexts of a function on 0 .. Len(cells).     *)
LEMMA TakingAll ==
    ASSUME NEW C, NEW c \in Contexts(C), NEW cells \in Seq(C)
    PROVE  \E f \in [0 .. Len(cells) -> Contexts(C)] :
              /\ f[0] = c
              /\ TakeAll(c, cells) = f[Len(cells)]
              /\ \A n \in 1 .. Len(cells) :
                    f[n] = TakeUnlessCorrupted(f[n - 1], cells[n])
<1> DEFINE N == Len(cells)
           F == [p \in Contexts(C) \X (1 .. N) |->
                   TakeUnlessCorrupted(p[1], cells[p[2]])]
           body(f) == [n \in 0 .. N |->
                         IF n = 0 THEN c
                         ELSE TakeUnlessCorrupted(f[n - 1], cells[n])]
           taken == CHOOSE f : f = body(f)
<1>1. N \in Nat /\ \A n \in 1 .. N : cells[n] \in C
  BY ElementOfSeq, LenProperties
<1>2. \A d \in Contexts(C), n \in 1 .. N :
        F[<<d, n>>] = TakeUnlessCorrupted(d, cells[n])
  OBVIOUS
<1>3. \A d \in Contexts(C), n \in 1 .. N :
        TakeUnlessCorrupted(d, cells[n]) \in Contexts(C)
  BY <1>1, TakeTyped DEF TakeUnlessCorrupted
<1>4. TakeAll(c, cells) = taken[N]
  BY DEF TakeAll
<1> HIDE DEF F, N
<1>5. StaysIn(F, Contexts(C), N)
  <2>1. ASSUME NEW x \in Contexts(C), NEW n \in 1 .. N
        PROVE  F[<<x, n>>] \in Contexts(C)
    BY <1>2, <1>3
  <2> QED
    BY <2>1 DEF StaysIn
<1>6. PICK f \in [0 .. N -> Contexts(C)] : Recurs(f, c, F, N)
  BY <1>1, <1>5, RecursionExists
<1>7. ASSUME NEW n \in 1 .. N PROVE f[n] = TakeUnlessCorrupted(f[n - 1], cells[n])
  <2>1. n - 1 \in 0 .. N
    BY <1>1
  <2> QED
    BY <1>2, <1>6, <2>1 DEF Recurs
<1>8. f = body(f)
  BY <1>1, <1>6, <1>7 DEF Recurs
<1>9. taken = body(taken)
  <2> HIDE DEF body
  <2> QED
    BY <1>8
<1> HIDE DEF taken
<1>10. /\ DOMAIN taken = 0 .. N /\ taken[0] = c
       /\ \A n \in 1 .. N : taken[n] = TakeUnlessCorrupted(taken[n - 1], cells[n])
  BY <1>1, <1>9
<1>11. \A n \in 0 .. N : taken[n] \in Contexts(C)
  <2> DEFINE J == {n \in 0 .. N : taken[n] \in Contexts(C)}
  <2>1. 0 \in J
    BY <1>1, <1>10
  <2>2. ASSUME NEW n \in 1 .. N, n - 1 \in J PROVE n \in J
    BY <1>3, <1>10, <2>2
  <2> HIDE DEF J
  <2>3. \A n \in 0 .. N : n \in J
    BY <1>1, <2>1, <2>2, IndexInduction
  <2> QED
    BY <2>3 DEF J
<1>12. taken \in [0 .. N -> Contexts(C)]
  <2>1. taken = [n \in 0 .. N |-> taken[n]]
    BY <1>9
  <2> QED
    BY <1>11, <2>1
<1> QED
  BY <1>4, <1>10, <1>12 DEF N

LEMMA SameCellsHeld ==
    ASSUME NEW C, NEW c \in Contexts(C), NEW m, NEW n, Holds(c, m, n),
           NEW all, \A x \in 1 .. n : all[x] = m[x]
    PROVE  Holds(c, all, n)
<1> DEFINE block == c.Message_Block
           hash == c.Intermediate_Hash
<1>1. PICK k \in Nat, i \in 0 .. BlockSize - 1 :
         k = Len(hash) /\ i = c.Message_Block_Index
  BY LenProperties DEF Contexts
<1>2. /\ n = k * BlockSize + i
      /\ \A b \in 1 .. k : \A j \in 1 .. BlockSize :
            hash[b][j] = m[(b - 1) * BlockSize + j]
      /\ \A j \in 1 .. i : block[j] = m[k * BlockSize + j]
  BY <1>1 DEF Holds
<1>3. ASSUME NEW b \in 1 .. k, NEW j \in 1 .. BlockSize
      PROVE  hash[b][j] = all[(b - 1) * BlockSize + j]
  BY <1>1, <1>2, Inside
<1>4. ASSUME NEW j \in 1 .. i PROVE block[j] = all[k * BlockSize + j]
  <2>1. k * BlockSize + j \in 1 .. n
    BY <1>1, <1>2, Sizes
  <2> QED
    BY <1>2, <2>1
<1> QED
  BY <1>1, <1>2, <1>3, <1>4 DEF Holds

(* Whatever the loop has taken when it ends is held behind the cells that  *)
(* the context held before, unless the length has overflown.               *)
LEMMA TakeAllResult ==
    ASSUME NEW C, NEW c \in Contexts(C), NEW cells \in Seq(C)
    PROVE  /\ TakeAll(c, cells) \in Contexts(C)
           /\ TakeAll(c, cells).Computed = c.Computed
           /\ c.Corrupted # 0 => TakeAll(c, cells) = c
           /\ \A m \in Seq(C) :
                 Holds(c, m, Len(m)) /\ TakeAll(c, cells).Corrupted = 0 =>
                    Holds(TakeAll(c, cells), m \o cells, Len(m \o cells))
<1>1. PICK N \in Nat : N = Len(cells)
  BY LenProperties
<1>2. PICK f \in [0 .. N -> Contexts(C)] :
         /\ f[0] = c
         /\ TakeAll(c, cells) = f[N]
         /\ \A n \in 1 .. N : f[n] = TakeUnlessCorrupted(f[n - 1], cells[n])
  BY <1>1, TakingAll
<1>3. \A n \in 1 .. N : n - 1 \in 0 .. N /\ cells[n] \in C
  BY <1>1, ElementOfSeq
<1>4. f[N].Computed = c.Computed /\ (c.Corrupted # 0 => f[N] = c)
  <2> DEFINE J == {n \in 0 .. N : /\ f[n].Computed = c.Computed
                                  /\ c.Corrupted # 0 => f[n] = c}
  <2>1. 0 \in J
    BY <1>2
  <2>2. ASSUME NEW n \in 1 .. N, n - 1 \in J PROVE n \in J
    <3>1. PICK d \in Contexts(C) : d = f[n - 1]
      BY <1>3
    <3>2. f[n] = IF d.Corrupted = 0 THEN Take(d, cells[n]) ELSE d
      BY <1>2, <3>1 DEF TakeUnlessCorrupted
    <3>3. d.Computed = c.Computed /\ (c.Corrupted # 0 => d = c)
      BY <2>2, <3>1
    <3>4. Take(d, cells[n]).Computed = d.Computed
      BY <1>3, TakeTyped
    <3> QED
      BY <3>2, <3>3, <3>4
  <2> HIDE DEF J
  <2>3. \A n \in 0 .. N : n \in J
    BY <2>1, <2>2, IndexInduction
  <2> QED
    BY <2>3 DEF J
<1>5. ASSUME NEW m \in Seq(C), Holds(c, m, Len(m)), f[N].Corrupted = 0
      PROVE  Holds(f[N], m \o cells, Len(m \o cells))
  <2> DEFINE all == m \o cells
  <2>1. PICK M \in Nat : M = Len(m)
    BY LenProperties
  <2>2. /\ Len(all) = M + N
        /\ \A n \in 1 .. M : all[n] = m[n]
        /\ \A n \in 1 .. N : all[M + n] = cells[n]
    BY <1>1, <2>1, ConcatProperties
  <2> HIDE DEF all
  <2>3. Holds(c, all, M)
    BY <1>5, <2>1, <2>2, SameCellsHeld
  <2> DEFINE J == {n \in 0 .. N : f[n].Corrupted = 0 => Holds(f[n], all, M + n)}
  <2>4. 0 \in J
    BY <1>2, <2>3
  <2>5. ASSUME NEW n \in 1 .. N, n - 1 \in J PROVE n \in J
    <3>1. SUFFICES ASSUME f[n].Corrupted = 0 PROVE Holds(f[n], all, M + n)
      OBVIOUS
    <3>2. f[n - 1].Corrupted = 0 /\ f[n] = Take(f[n - 1], cells[n])
      BY <1>2, <3>1 DEF TakeUnlessCorrupted
    <3>3. PICK p \in Nat : p = M + (n - 1)
      BY <1>3
    <3>4. p + 1 = M + n /\ all[p + 1] = cells[n]
      BY <2>2, <3>3
    <3>5. Holds(f[n - 1], all, p)
      BY <2>5, <3>2, <3>3
    <3> QED
      BY <1>3, <3>1, <3>2, <3>4, <3>5, TakeHolds
  <2> HIDE DEF J
  <2>6. \A n \in 0 .. N : n \in J
    BY <2>4, <2>5, IndexInduction
  <2> QED
    BY <1>5, <2>2, <2>6 DEF J, all
<1> QED
  BY <1>2, <1>4, <1>5

-----------------------------------------------------------------------------
(* SHA1Result.                                                             *)

LEMMA ZeroFilled ==
    ASSUME NEW low, NEW high, NEW i, NEW block, NEW hash, NEW computed,
           NEW corrupted, NEW n
    PROVE  ZeroFill(Context(low, high, i, block, hash, computed, corrupted), n) =
               Context(low, high, n,
                       [x \in 1 .. BlockSize |->
                           IF x \in i + 1 .. n THEN <<0>> ELSE block[x]],
                       hash, computed, corrupted)
<1> DEFINE block2 == [x \in 1 .. BlockSize |->
                         IF x \in i + 1 .. n THEN <<0>> ELSE block[x]]
           c == Context(low, high, i, block, hash, computed, corrupted)
<1>1. c.Message_Block_Index = i /\ c.Message_Block = block
  BY DEF Context
<1>2. ZeroFill(c, n) =
         [c EXCEPT !.Message_Block = block2, !.Message_Block_Index = n]
  BY <1>1 DEF ZeroFill
<1> HIDE DEF block2
<1>3. ZeroFill(c, n) = Context(low, high, n, block2, hash, computed, corrupted)
  BY <1>2 DEF Context
<1> QED
  BY <1>3 DEF block2

(* The two cells of the length, at the end of a block.                     *)
Lengthened(block, high, low) ==
    [block EXCEPT ![BlockSize - 1] = <<high>>, ![BlockSize] = <<low>>]

LengthIn(c, high, low) ==
    [c EXCEPT !.Message_Block[BlockSize - 1] = <<high>>,
              !.Message_Block[BlockSize] = <<low>>]

LEMMA LengthStored ==
    ASSUME NEW low, NEW high, NEW i, NEW block, NEW hash, NEW computed,
           NEW corrupted, NEW c,
           c = Context(low, high, i, block, hash, computed, corrupted),
           NEW x, NEW y
    PROVE  LengthIn(c, x, y) =
               Context(low, high, i, Lengthened(block, x, y), hash, computed, corrupted)
<1> DEFINE block2 == Lengthened(block, x, y)
<1>1. c.Message_Block = block
  BY DEF Context
<1>2. LengthIn(c, x, y) = [c EXCEPT !.Message_Block = block2]
  BY <1>1 DEF Context, Lengthened, LengthIn
<1> HIDE DEF block2
<1>3. [c EXCEPT !.Message_Block = block2] =
         Context(low, high, i, block2, hash, computed, corrupted)
  BY DEF Context
<1> QED
  BY <1>2, <1>3 DEF block2

Marked(block, i, n) ==
    [x \in 1 .. BlockSize |->
        IF x \in i + 2 .. n THEN <<0>> ELSE Put(block, i, Mark)[x]]

(* The blocks that end the message: one, or two when the length does not   *)
(* fit behind the mark.                                                    *)
Only(block, i, high, low) == Lengthened(Marked(block, i, LengthIndex), high, low)
First(block, i) == Marked(block, i, BlockSize)
Cleared(block) ==
    [x \in 1 .. BlockSize |-> IF x \in 1 .. LengthIndex THEN <<0>> ELSE block[x]]
Second(block, i, high, low) == Lengthened(Cleared(First(block, i)), high, low)

LEMMA PaddingResult ==
    ASSUME NEW low, NEW high, NEW i \in Nat, NEW block, NEW hash, NEW computed,
           NEW corrupted
    PROVE  SHA1PadMessage(Context(low, high, i, block, hash, computed, corrupted)) =
               IF i > LengthIndex - 1
               THEN Context(low, high, 0, Second(block, i, high, low),
                            Append(Append(hash, First(block, i)),
                                   Second(block, i, high, low)),
                            computed, corrupted)
               ELSE Context(low, high, 0, Only(block, i, high, low),
                            Append(hash, Only(block, i, high, low)),
                            computed, corrupted)
<1> DEFINE c == Context(low, high, i, block, hash, computed, corrupted)
           marked == Store(c, Mark)
           filled == IF NeedsAnotherBlock(c)
                     THEN ZeroFill(SHA1ProcessMessageBlock(ZeroFill(marked, BlockSize)),
                                   LengthIndex)
                     ELSE ZeroFill(marked, LengthIndex)
           ended == [filled EXCEPT !.Message_Block[BlockSize - 1] = <<c.Length_High>>,
                                   !.Message_Block[BlockSize] = <<c.Length_Low>>]
<1>1. /\ c.Message_Block_Index = i /\ c.Length_High = high /\ c.Length_Low = low
      /\ NeedsAnotherBlock(c) <=> i > LengthIndex - 1
  BY ContextFields DEF NeedsAnotherBlock
<1>2. SHA1PadMessage(c) = SHA1ProcessMessageBlock(ended)
  BY DEF SHA1PadMessage
<1>3. ended = LengthIn(filled, high, low)
  <2> HIDE DEF c, filled
  <2> QED
    BY <1>1 DEF LengthIn
<1> HIDE DEF c, marked, filled, ended
<1>4. marked = Context(low, high, i + 1, Put(block, i, Mark), hash, computed, corrupted)
  BY Stored DEF marked, c, Put
<1>5. PICK first, second0, second :
         /\ first = First(block, i)
         /\ second0 = Cleared(first)
         /\ second = Second(block, i, high, low)
         /\ second = Lengthened(second0, high, low)
  BY DEF Second
<1>6. PICK only0, only : /\ only0 = Marked(block, i, LengthIndex)
                         /\ only = Only(block, i, high, low)
                         /\ only = Lengthened(only0, high, low)
  BY DEF Only
<1>7. (i + 1) + 1 = i + 2 /\ 0 + 1 = 1
  OBVIOUS
<1>8. CASE i > LengthIndex - 1
  <2>1. ZeroFill(marked, BlockSize) =
           Context(low, high, BlockSize, first, hash, computed, corrupted)
    BY <1>4, <1>5, <1>7, ZeroFilled DEF Marked, First
  <2>2. SHA1ProcessMessageBlock(ZeroFill(marked, BlockSize)) =
           Context(low, high, 0, first, Append(hash, first), computed, corrupted)
    BY <2>1, Processed
  <2>3. filled = Context(low, high, LengthIndex, second0, Append(hash, first),
                         computed, corrupted)
    BY <1>1, <1>5, <1>7, <1>8, <2>2, ZeroFilled DEF filled, Cleared
  <2>4. ended = Context(low, high, LengthIndex, second, Append(hash, first),
                        computed, corrupted)
    BY <1>3, <1>5, <2>3, LengthStored
  <2>5. SHA1PadMessage(c) =
           Context(low, high, 0, second, Append(Append(hash, first), second),
                   computed, corrupted)
    BY <1>2, <2>4, Processed
  <2> QED
    BY <1>5, <1>6, <1>8, <2>5 DEF c
<1>9. CASE ~(i > LengthIndex - 1)
  <2>1. filled = Context(low, high, LengthIndex, only0, hash, computed, corrupted)
    BY <1>1, <1>4, <1>6, <1>7, <1>9, ZeroFilled DEF filled, Marked
  <2>2. ended = Context(low, high, LengthIndex, only, hash, computed, corrupted)
    BY <1>3, <1>6, <2>1, LengthStored
  <2>3. SHA1PadMessage(c) =
           Context(low, high, 0, only, Append(hash, only), computed, corrupted)
    BY <1>2, <2>2, Processed
  <2> QED
    BY <1>5, <1>6, <1>9, <2>3 DEF c
<1> QED
  BY <1>8, <1>9

-----------------------------------------------------------------------------
(* PaddedTo, cell by cell.                                                 *)

PaddedCell(cells, last, high, low, i) ==
    CASE i <= Len(cells) -> cells[i]
      [] i = Len(cells) + 1 -> Mark
      [] i = last - 1 -> <<high>>
      [] i = last -> <<low>>
      [] OTHER -> <<0>>

PaddedWith(blocks, cells, last, high, low) ==
    /\ last = Len(blocks) * BlockSize
    /\ 8 * Len(cells) = high * LowSpace + low
    /\ last - BlockSize < Len(cells) + 3 /\ Len(cells) + 3 <= last
    /\ \A b \in DOMAIN blocks : \A j \in 1 .. BlockSize :
          blocks[b][j] = PaddedCell(cells, last, high, low, (b - 1) * BlockSize + j)

LEMMA PaddedCellIs ==
    ASSUME NEW cells, NEW last \in Int, NEW high, NEW low, NEW x \in Int,
           Len(cells) \in Nat, Len(cells) + 3 <= last
    PROVE  PaddedCell(cells, last, high, low, x) =
               IF x <= Len(cells) THEN cells[x]
               ELSE IF x = Len(cells) + 1 THEN Mark
               ELSE IF x = last - 1 THEN <<high>>
               ELSE IF x = last THEN <<low>>
               ELSE <<0>>
<1>1. CASE x <= Len(cells)
  BY <1>1 DEF PaddedCell
<1>2. CASE x = Len(cells) + 1
  BY <1>2 DEF PaddedCell
<1>3. CASE x > Len(cells) + 1 /\ x = last - 1
  BY <1>3 DEF PaddedCell
<1>4. CASE x > Len(cells) + 1 /\ x = last
  BY <1>4 DEF PaddedCell
<1>5. CASE x > Len(cells) + 1 /\ x # last - 1 /\ x # last
  BY <1>5 DEF PaddedCell
<1> QED
  BY <1>1, <1>2, <1>3, <1>4, <1>5

LEMMA PaddedCellByCell ==
    ASSUME NEW C, NEW blocks \in Seq(Blocks(C)), NEW cells, NEW last,
           NEW high \in 0 .. HighSpace - 1, NEW low \in 0 .. LowSpace - 1,
           PaddedWith(blocks, cells, last, high, low)
    PROVE  PaddedTo(blocks, cells)
<1>1. ASSUME NEW b \in DOMAIN blocks
      PROVE  blocks[b] = [j \in 1 .. BlockSize |->
                PaddedCell(cells, last, high, low, (b - 1) * BlockSize + j)]
  <2>1. blocks[b] \in Blocks(C)
    BY ElementOfSeq, LenProperties
  <2>2. \A j \in 1 .. BlockSize : blocks[b][j] =
           PaddedCell(cells, last, high, low, (b - 1) * BlockSize + j)
    BY DEF PaddedWith
  <2> HIDE DEF PaddedCell
  <2> QED
    BY <2>1, <2>2 DEF Blocks
<1> QED
  BY <1>1 DEF PaddedTo, PaddedWith, PaddedCell

LEMMA PaddedBlockByBlock ==
    ASSUME NEW blocks, NEW cells, PaddedTo(blocks, cells)
    PROVE  \E high \in Nat, low \in Nat :
              PaddedWith(blocks, cells, Len(blocks) * BlockSize, high, low)
<1> DEFINE last == Len(blocks) * BlockSize
<1>1. PICK high \in 0 .. HighSpace - 1, low \in 0 .. LowSpace - 1 :
         /\ 8 * Len(cells) = high * LowSpace + low
         /\ last - BlockSize < Len(cells) + 3 /\ Len(cells) + 3 <= last
         /\ \A b \in DOMAIN blocks : blocks[b] = [j \in 1 .. BlockSize |->
               PaddedCell(cells, last, high, low, (b - 1) * BlockSize + j)]
  BY DEF PaddedTo, PaddedCell
<1>2. high \in Nat /\ low \in Nat
  BY Sizes
<1>3. \A b \in DOMAIN blocks : \A j \in 1 .. BlockSize : blocks[b][j] =
         PaddedCell(cells, last, high, low, (b - 1) * BlockSize + j)
  <2> HIDE DEF PaddedCell
  <2> QED
    BY <1>1
<1>4. PaddedWith(blocks, cells, last, high, low)
  BY <1>1, <1>3, Zenon DEF PaddedWith
<1> QED
  BY <1>2, <1>4, Zenon

(* Two messages padded to the same blocks are the same message.            *)
LEMMA PaddingTellsApart ==
    ASSUME NEW C, NEW D, NEW m \in Seq(C), NEW o \in Seq(D), NEW blocks,
           Len(blocks) \in Nat, DOMAIN blocks = 1 .. Len(blocks),
           PaddedTo(blocks, m), PaddedTo(blocks, o)
    PROVE  m = o
<1>1. PICK last : last = Len(blocks) * BlockSize
  OBVIOUS
<1>2. PICK high \in Nat, low \in Nat : PaddedWith(blocks, m, last, high, low)
  BY <1>1, PaddedBlockByBlock
<1>3. PICK high2 \in Nat, low2 \in Nat : PaddedWith(blocks, o, last, high2, low2)
  BY <1>1, PaddedBlockByBlock
<1>4. PICK k \in Nat : k = Len(blocks)
  OBVIOUS
<1>5. PICK n \in Nat, p \in Nat : n = Len(m) /\ p = Len(o)
  BY LenProperties
<1>6. /\ last = k * BlockSize /\ last \in Nat
      /\ n + 3 <= last /\ p + 3 <= last
  BY <1>1, <1>2, <1>3, <1>4, <1>5, Sizes DEF PaddedWith
<1>7. k # 0 /\ (k - 1) * BlockSize + BlockSize = last
  BY <1>6, Sizes
<1>8. ASSUME NEW x \in 1 .. last
      PROVE  PaddedCell(m, last, high, low, x) = PaddedCell(o, last, high2, low2, x)
  <2>1. PICK b \in 1 .. k, j \in 1 .. BlockSize : x = (b - 1) * BlockSize + j
    <3> DEFINE J == {y \in 0 .. k : x <= y * BlockSize =>
                        \E b \in 1 .. y, j \in 1 .. BlockSize :
                           x = (b - 1) * BlockSize + j}
    <3>1. 0 \in J
      BY Sizes
    <3>2. ASSUME NEW y \in 1 .. k, y - 1 \in J PROVE y \in J
      <4>1. PICK z \in Nat : z = y - 1
        OBVIOUS
      <4>2. y * BlockSize = z * BlockSize + BlockSize
        BY <4>1, Sizes
      <4>3. CASE x <= z * BlockSize
        BY <3>2, <4>1, <4>3
      <4>4. CASE z * BlockSize < x /\ x <= y * BlockSize
        <5>1. PICK j \in 1 .. BlockSize : j = x - z * BlockSize
          BY <4>2, <4>4, Sizes
        <5>2. x = (y - 1) * BlockSize + j
          BY <4>1, <5>1, Sizes
        <5> QED
          BY <5>2
      <4>5. CASE y * BlockSize < x
        BY <4>5, <4>1, <4>2, Sizes
      <4> QED
        BY <4>1, <4>3, <4>4, <4>5, Sizes
    <3> HIDE DEF J
    <3>3. \A y \in 0 .. k : y \in J
      BY <3>1, <3>2, IndexInduction
    <3> QED
      BY <1>6, <3>3 DEF J
  <2> QED
    BY <1>2, <1>3, <1>4, <1>6, <2>1 DEF PaddedWith
<1>9. high = high2 /\ low = low2
  <2>1. /\ PaddedCell(m, last, high, low, last - 1) = <<high>>
        /\ PaddedCell(m, last, high, low, last) = <<low>>
        /\ PaddedCell(o, last, high2, low2, last - 1) = <<high2>>
        /\ PaddedCell(o, last, high2, low2, last) = <<low2>>
    BY <1>5, <1>6 DEF PaddedCell
  <2>2. <<high>> = <<high2>> /\ <<low>> = <<low2>>
    <3>1. last - 1 \in 1 .. last /\ last \in 1 .. last
      BY <1>5, <1>6
    <3> QED
      BY <1>8, <2>1, <3>1
  <2> QED
    BY <2>2
<1>10. n = p
  <2>1. 8 * n = 8 * p
    BY <1>2, <1>3, <1>5, <1>9 DEF PaddedWith
  <2> QED
    BY <2>1
<1>11. ASSUME NEW x \in 1 .. n PROVE m[x] = o[x]
  <2>1. /\ PaddedCell(m, last, high, low, x) = m[x]
        /\ PaddedCell(o, last, high2, low2, x) = o[x]
    BY <1>5, <1>6, <1>10 DEF PaddedCell
  <2> QED
    BY <1>6, <1>8, <2>1
<1> QED
  <2>1. m = [x \in 1 .. n |-> m[x]] /\ o = [x \in 1 .. n |-> o[x]]
    BY <1>5, <1>10, LenProperties
  <2> QED
    BY <1>11, <2>1

-----------------------------------------------------------------------------
(* SHA1Result ends a message that the context holds.                       *)

LEMMA LengthCells ==
    /\ BlockSize \in Nat /\ LengthIndex \in Nat /\ LengthIndex > 0
    /\ BlockSize = LengthIndex + 2
BY Sizes DEF LengthIndex

(* Whatever the words that count bits hold is a cell.                     *)
HasNumbers(C) == \A n \in Nat : <<n>> \in C

EndsIn(ended, block, high, low) ==
    /\ \A j \in 1 .. LengthIndex : ended[j] = block[j]
    /\ ended[BlockSize - 1] = <<high>>
    /\ ended[BlockSize] = <<low>>

(* Two cells are written, the others stay.                                 *)
LEMMA LengthenedCells ==
    ASSUME NEW C, NEW block \in Blocks(C), NEW high, NEW low,
           <<high>> \in C, <<low>> \in C
    PROVE  /\ Lengthened(block, high, low) \in Blocks(C)
           /\ EndsIn(Lengthened(block, high, low), block, high, low)
<1> DEFINE ended == Lengthened(block, high, low)
<1>1. PICK p \in 1 .. BlockSize, q \in 1 .. BlockSize :
         p = BlockSize - 1 /\ q = BlockSize
  BY Sizes
<1>2. PICK h \in C, l \in C : h = <<high>> /\ l = <<low>>
  OBVIOUS
<1>3. PICK half \in Blocks(C) : half = [block EXCEPT ![p] = h]
  BY DEF Blocks
<1>4. ended = [half EXCEPT ![q] = l]
  BY <1>1, <1>2, <1>3 DEF Lengthened
<1> HIDE DEF ended
<1>5. ended \in Blocks(C) /\ ended[q] = l /\ \A j \in 1 .. BlockSize :
         j # q => ended[j] = half[j]
  BY <1>4 DEF Blocks
<1>6. half[p] = h /\ \A j \in 1 .. BlockSize : j # p => half[j] = block[j]
  BY <1>3 DEF Blocks
<1>7. ended[p] = h
  BY <1>1, <1>5, <1>6
<1>8. ASSUME NEW j \in 1 .. LengthIndex PROVE ended[j] = block[j]
  <2>1. j \in 1 .. BlockSize /\ j # p /\ j # q
    BY <1>1, Sizes DEF LengthIndex
  <2> QED
    BY <1>5, <1>6, <2>1
<1> QED
  BY <1>1, <1>2, <1>5, <1>7, <1>8 DEF ended, EndsIn

(* The cells of the blocks that PaddingResult writes.                      *)
LEMMA EndingCells ==
    ASSUME NEW C, HasNumbers(C), NEW i \in 0 .. BlockSize - 1,
           NEW block \in Blocks(C), NEW high \in Nat, NEW low \in Nat,
           NEW only, NEW first, NEW second,
           only = Only(block, i, high, low), first = First(block, i),
           second = Second(block, i, high, low)
    PROVE  /\ only \in Blocks(C) /\ first \in Blocks(C) /\ second \in Blocks(C)
           /\ \A j \in 1 .. i : first[j] = block[j]
           /\ first[i + 1] = Mark
           /\ \A j \in i + 2 .. BlockSize : first[j] = <<0>>
           /\ i <= LengthIndex - 1 =>
                 /\ \A j \in 1 .. i : only[j] = block[j]
                 /\ only[i + 1] = Mark
                 /\ \A j \in i + 2 .. LengthIndex : only[j] = <<0>>
           /\ only[BlockSize - 1] = <<high>> /\ only[BlockSize] = <<low>>
           /\ \A j \in 1 .. LengthIndex : second[j] = <<0>>
           /\ second[BlockSize - 1] = <<high>> /\ second[BlockSize] = <<low>>
<1>1. PICK put \in Blocks(C) : put = Put(block, i, Mark)
  BY Sizes DEF Put, Blocks, Mark, HasNumbers
<1>2. /\ \A j \in 1 .. i : put[j] = block[j]
      /\ put[i + 1] = Mark
  BY <1>1, Sizes DEF Put, Blocks
<1>3. first = [x \in 1 .. BlockSize |-> IF x \in i + 2 .. BlockSize THEN <<0>> ELSE put[x]]
  BY <1>1 DEF Marked, First
<1>4. PICK only0 : only0 = [x \in 1 .. BlockSize |->
                              IF x \in i + 2 .. LengthIndex THEN <<0>> ELSE put[x]]
  OBVIOUS
<1>5. PICK second0 : second0 = [x \in 1 .. BlockSize |->
                                  IF x \in 1 .. LengthIndex THEN <<0>> ELSE first[x]]
  OBVIOUS
<1>6. <<0>> \in C /\ <<high>> \in C /\ <<low>> \in C
  BY DEF HasNumbers
<1>7. first \in Blocks(C) /\ only0 \in Blocks(C)
  BY <1>3, <1>4, <1>6 DEF Blocks
<1>8. second0 \in Blocks(C)
  BY <1>5, <1>6, <1>7 DEF Blocks
<1>9. only = Lengthened(only0, high, low) /\ second = Lengthened(second0, high, low)
  BY <1>1, <1>4, <1>5 DEF Only, Second, Cleared, Marked
<1>10. /\ only \in Blocks(C) /\ second \in Blocks(C)
       /\ \A j \in 1 .. LengthIndex : only[j] = only0[j] /\ second[j] = second0[j]
       /\ only[BlockSize - 1] = <<high>> /\ only[BlockSize] = <<low>>
       /\ second[BlockSize - 1] = <<high>> /\ second[BlockSize] = <<low>>
  <2>1. /\ only \in Blocks(C)
        /\ \A j \in 1 .. LengthIndex : only[j] = only0[j]
        /\ only[BlockSize - 1] = <<high>> /\ only[BlockSize] = <<low>>
    <3>1. only \in Blocks(C) /\ EndsIn(only, only0, high, low)
      BY <1>6, <1>7, <1>9, LengthenedCells
    <3> QED
      BY <3>1 DEF EndsIn
  <2>2. /\ second \in Blocks(C)
        /\ \A j \in 1 .. LengthIndex : second[j] = second0[j]
        /\ second[BlockSize - 1] = <<high>> /\ second[BlockSize] = <<low>>
    <3>1. second \in Blocks(C) /\ EndsIn(second, second0, high, low)
      BY <1>6, <1>8, <1>9, LengthenedCells
    <3> QED
      BY <3>1 DEF EndsIn
  <2> QED
    BY <2>1, <2>2
<1>11. /\ \A j \in 1 .. i : first[j] = block[j]
       /\ first[i + 1] = Mark
       /\ \A j \in i + 2 .. BlockSize : first[j] = <<0>>
  BY <1>2, <1>3, Sizes
<1>12. ASSUME i <= LengthIndex - 1
       PROVE  /\ \A j \in 1 .. i : only[j] = block[j]
              /\ only[i + 1] = Mark
              /\ \A j \in i + 2 .. LengthIndex : only[j] = <<0>>
  <2>1. \A j \in 1 .. LengthIndex : only[j] = only0[j]
    BY <1>10
  <2>2. i + 1 \in 1 .. LengthIndex /\ \A j \in 1 .. LengthIndex : j \in 1 .. BlockSize
    BY <1>12, LengthCells
  <2>3. \A j \in 1 .. LengthIndex :
           only[j] = IF j \in i + 2 .. LengthIndex THEN <<0>> ELSE put[j]
    BY <1>4, <2>1, <2>2
  <2>4. \A j \in 1 .. i : j \in 1 .. LengthIndex /\ j \notin i + 2 .. LengthIndex
    BY <2>2, LengthCells
  <2>5. \A j \in i + 2 .. LengthIndex : j \in 1 .. LengthIndex
    OBVIOUS
  <2>6. i + 1 \notin i + 2 .. LengthIndex
    OBVIOUS
  <2> QED
    BY <1>2, <2>2, <2>3, <2>4, <2>5, <2>6
<1>13. \A j \in 1 .. LengthIndex : second[j] = <<0>>
  <2>1. \A j \in 1 .. LengthIndex : second[j] = second0[j]
    BY <1>10
  <2>2. \A j \in 1 .. LengthIndex : j \in 1 .. BlockSize
    BY LengthCells
  <2> QED
    BY <1>5, <2>1, <2>2
<1> QED
  BY <1>7, <1>10, <1>11, <1>12, <1>13

LEMMA DigestTaken ==
    ASSUME NEW c, c.Corrupted = 0, ~c.Computed, NEW low, NEW high, NEW block,
           NEW blocks,
           SHA1PadMessage(c) = Context(low, high, 0, block, blocks, FALSE, 0)
    PROVE  SHA1Result(c) = Context(0, 0, 0, Zeros(BlockSize), blocks, TRUE, 0)
<1> DEFINE zeros == Zeros(BlockSize)
           d == Context(low, high, 0, block, blocks, FALSE, 0)
<1>1. SHA1Result(c) = [d EXCEPT !.Message_Block = zeros, !.Length_Low = 0,
                                !.Length_High = 0, !.Computed = TRUE]
  <2>1. SHA1PadMessage(c) = d
    OBVIOUS
  <2> HIDE DEF d, zeros
  <2>2. SHA1Result(c) = [SHA1PadMessage(c) EXCEPT
           !.Message_Block = zeros, !.Length_Low = 0, !.Length_High = 0,
           !.Computed = TRUE]
    BY DEF SHA1Result, zeros
  <2> QED
    BY <2>1, <2>2
<1> HIDE DEF zeros
<1>2. SHA1Result(c) = Context(0, 0, 0, zeros, blocks, TRUE, 0)
  BY <1>1 DEF Context
<1> QED
  BY <1>2 DEF zeros

(* The digest of a context that holds a message is that of the message.    *)
LEMMA ResultPadded ==
    ASSUME NEW C, HasNumbers(C), NEW c \in Contexts(C),
           c.Corrupted = 0, ~c.Computed, NEW m \in Seq(C), Holds(c, m, Len(m))
    PROVE  \E blocks \in Seq(Blocks(C)) :
              /\ blocks # <<>>
              /\ PaddedTo(blocks, m)
              /\ SHA1Result(c) = Context(0, 0, 0, Zeros(BlockSize), blocks, TRUE, 0)
<1>1. PICK low \in 0 .. LowSpace - 1, high \in 0 .. HighSpace - 1,
           i \in 0 .. BlockSize - 1, block \in Blocks(C),
           hash \in Seq(Blocks(C)), computed \in BOOLEAN,
           corrupted \in {shaSuccess, TooLong, shaStateError} :
             c = Context(low, high, i, block, hash, computed, corrupted)
  BY ContextOf
<1>2. corrupted = 0 /\ computed = FALSE
  BY <1>1, ContextFields
<1>3. PICK k \in Nat, n \in Nat : k = Len(hash) /\ n = Len(m)
  BY LenProperties
<1>4. PICK K \in Nat : K = k * BlockSize
  BY Sizes
<1>5. /\ /\ n = K + i
         /\ \A j \in 1 .. i : block[j] = m[K + j]
      /\ 8 * n = high * LowSpace + low
      /\ \A b \in 1 .. k : \A j \in 1 .. BlockSize :
            hash[b][j] = m[(b - 1) * BlockSize + j]
  <2>1. /\ c.Length_Low = low /\ c.Length_High = high
        /\ c.Message_Block_Index = i /\ c.Message_Block = block
        /\ c.Intermediate_Hash = hash
    BY <1>1, ContextFields
  <2> QED
    BY <1>3, <1>4, <2>1 DEF Holds
<1>6. n = K + i
  BY <1>5
<1>7. \A j \in 1 .. i : block[j] = m[K + j]
  BY <1>5
<1>8. \A b \in 1 .. k : \A j \in 1 .. BlockSize :
         hash[b][j] = m[(b - 1) * BlockSize + j]
  BY <1>5
<1>9. 8 * n = high * LowSpace + low
  BY <1>5
<1>10. PICK only, first, second :
          /\ only = Only(block, i, high, low)
          /\ first = First(block, i)
          /\ second = Second(block, i, high, low)
  OBVIOUS
<1>11. /\ i > LengthIndex - 1 => SHA1PadMessage(c) =
             Context(low, high, 0, second, Append(Append(hash, first), second), FALSE, 0)
       /\ ~(i > LengthIndex - 1) => SHA1PadMessage(c) =
             Context(low, high, 0, only, Append(hash, only), FALSE, 0)
  <2>1. i \in Nat
    OBVIOUS
  <2>2. SHA1PadMessage(c) =
           IF i > LengthIndex - 1
           THEN Context(low, high, 0, second, Append(Append(hash, first), second),
                        computed, corrupted)
           ELSE Context(low, high, 0, only, Append(hash, only), computed, corrupted)
    BY <1>1, <1>10, <2>1, PaddingResult
  <2> QED
    BY <1>2, <2>2
<1>12. /\ only \in Blocks(C) /\ first \in Blocks(C) /\ second \in Blocks(C)
       /\ \A j \in 1 .. i : first[j] = block[j]
       /\ first[i + 1] = Mark
       /\ \A j \in i + 2 .. BlockSize : first[j] = <<0>>
       /\ i <= LengthIndex - 1 =>
             /\ \A j \in 1 .. i : only[j] = block[j]
             /\ only[i + 1] = Mark
             /\ \A j \in i + 2 .. LengthIndex : only[j] = <<0>>
       /\ only[BlockSize - 1] = <<high>> /\ only[BlockSize] = <<low>>
       /\ \A j \in 1 .. LengthIndex : second[j] = <<0>>
       /\ second[BlockSize - 1] = <<high>> /\ second[BlockSize] = <<low>>
  <2>1. high \in Nat /\ low \in Nat
    BY Sizes
  <2> QED
    BY <1>10, <2>1, EndingCells
<1>13. ASSUME NEW last \in Int, n + 3 <= last, NEW x \in Int
       PROVE  PaddedCell(m, last, high, low, x) =
                 IF x <= n THEN m[x]
                 ELSE IF x = n + 1 THEN Mark
                 ELSE IF x = last - 1 THEN <<high>>
                 ELSE IF x = last THEN <<low>>
                 ELSE <<0>>
  BY <1>3, <1>13, PaddedCellIs
<1>14. ASSUME NEW last \in Int, n + 3 <= last,
              NEW b \in 1 .. k, NEW j \in 1 .. BlockSize
       PROVE  hash[b][j] = PaddedCell(m, last, high, low, (b - 1) * BlockSize + j)
  <2>1. (b - 1) * BlockSize + j \in 1 .. n
    BY <1>4, <1>6, Inside
  <2> QED
    <3>1. PICK x \in 1 .. n : x = (b - 1) * BlockSize + j
      BY <2>1
    <3>2. PaddedCell(m, last, high, low, x) = m[x]
      <4> DEFINE cell == PaddedCell(m, last, high, low, x)
      <4>1. cell = IF x <= n THEN m[x]
                   ELSE IF x = n + 1 THEN Mark
                   ELSE IF x = last - 1 THEN <<high>>
                   ELSE IF x = last THEN <<low>>
                   ELSE <<0>>
        BY <1>13, <1>14
      <4> HIDE DEF cell
      <4> QED
        BY <4>1 DEF cell
    <3> QED
      BY <1>8, <3>1, <3>2
<1>15. CASE i <= LengthIndex - 1
  <2> DEFINE last == K + BlockSize
  <2>1. PICK blocks \in Seq(Blocks(C)) : blocks = Append(hash, only)
    BY <1>12, AppendProperties
  <2>2. /\ blocks = Append(hash, only)
        /\ Len(blocks) = k + 1 /\ blocks[k + 1] = only
        /\ \A b \in 1 .. k : blocks[b] = hash[b]
    BY <1>3, <1>12, <2>1, AppendProperties
  <2>3. (k + 1) * BlockSize = last
    BY <1>4, Sizes
  <2>4. ASSUME NEW j \in 1 .. BlockSize
        PROVE  only[j] = PaddedCell(m, last, high, low, K + j)
    <3>1. last \in Int /\ n + 3 <= last /\ K + j \in Int
      BY <1>6, <1>15, LengthCells
    <3> DEFINE cell == PaddedCell(m, last, high, low, K + j)
    <3>2. cell = IF K + j <= n THEN m[K + j]
                 ELSE IF K + j = n + 1 THEN Mark
                 ELSE IF K + j = last - 1 THEN <<high>>
                 ELSE IF K + j = last THEN <<low>>
                 ELSE <<0>>
      BY <1>13, <3>1
    <3> HIDE DEF cell
    <3>3. only[j] = cell
      <4>1. CASE j \in 1 .. i
        <5>1. cell = m[K + j]
          BY <1>6, <3>2, <4>1
        <5> QED
          BY <1>7, <1>12, <1>15, <4>1, <5>1
      <4>2. CASE j = i + 1
        <5>1. cell = Mark
          BY <1>6, <3>2, <4>2
        <5> QED
          BY <1>12, <1>15, <4>2, <5>1
      <4>3. CASE j \in i + 2 .. LengthIndex
        <5>1. cell = <<0>>
          BY <1>6, <3>2, <4>3, LengthCells
        <5> QED
          BY <1>12, <1>15, <4>3, <5>1
      <4>4. CASE j = BlockSize - 1
        <5>1. cell = <<high>>
          BY <1>6, <1>15, <3>2, <4>4, LengthCells
        <5> QED
          BY <1>12, <4>4, <5>1
      <4>5. CASE j = BlockSize
        <5>1. cell = <<low>>
          BY <1>6, <1>15, <3>2, <4>5, LengthCells
        <5> QED
          BY <1>12, <4>5, <5>1
      <4> QED
        BY <1>15, <4>1, <4>2, <4>3, <4>4, <4>5, LengthCells
    <3> QED
      BY <3>3 DEF cell
  <2>5. ASSUME NEW b \in 1 .. k + 1, NEW j \in 1 .. BlockSize
        PROVE  blocks[b][j] = PaddedCell(m, last, high, low, (b - 1) * BlockSize + j)
    <3>1. CASE b = k + 1
      <4>1. (b - 1) * BlockSize + j = K + j
        BY <1>4, <3>1
      <4> QED
        BY <2>2, <2>4, <3>1, <4>1
    <3>2. CASE b # k + 1
      <4>1. b \in 1 .. k /\ last \in Int /\ n + 3 <= last
        BY <1>6, <1>15, <3>2, LengthCells
      <4> QED
        BY <1>14, <2>2, <4>1
    <3> QED
      BY <3>1, <3>2
  <2>6. last - BlockSize < n + 3 /\ n + 3 <= last
    BY <1>6, <1>15, LengthCells
  <2> HIDE DEF last
  <2>7. DOMAIN blocks = 1 .. k + 1
    BY <2>2, LenProperties
  <2>8. PaddedWith(blocks, m, last, high, low)
    BY <1>3, <1>9, <2>2, <2>3, <2>5, <2>6, <2>7 DEF PaddedWith
  <2>9. SHA1PadMessage(c) = Context(low, high, 0, only, blocks, FALSE, 0)
    <3>1. ~(i > LengthIndex - 1)
      BY <1>15, LengthCells
    <3> QED
      BY <1>11, <2>2, <3>1
  <2>10. blocks # <<>>
    BY <2>2, EmptySeq
  <2> QED
    <3>1. PaddedTo(blocks, m)
      BY <2>8, PaddedCellByCell
    <3>2. SHA1Result(c) = Context(0, 0, 0, Zeros(BlockSize), blocks, TRUE, 0)
      BY <2>9, DigestTaken
    <3> QED
      BY <2>10, <3>1, <3>2
<1>16. CASE ~(i <= LengthIndex - 1)
  <2> DEFINE last == K + BlockSize + BlockSize
  <2>1. PICK hash2 \in Seq(Blocks(C)) : hash2 = Append(hash, first)
    BY <1>12, AppendProperties
  <2>2. PICK blocks \in Seq(Blocks(C)) : blocks = Append(hash2, second)
    BY <1>12, AppendProperties
  <2>3. /\ hash2 = Append(hash, first)
        /\ Len(hash2) = k + 1 /\ hash2[k + 1] = first
        /\ \A b \in 1 .. k : hash2[b] = hash[b]
    BY <1>3, <1>12, <2>1, AppendProperties
  <2>4. /\ blocks = Append(hash2, second)
        /\ Len(blocks) = k + 2 /\ blocks[k + 2] = second
        /\ blocks[k + 1] = first
        /\ \A b \in 1 .. k : blocks[b] = hash[b]
    <3>1. /\ Len(blocks) = (k + 1) + 1 /\ blocks[(k + 1) + 1] = second
          /\ \A b \in 1 .. k + 1 : blocks[b] = hash2[b]
      BY <1>12, <2>2, <2>3, AppendProperties
    <3> QED
      BY <2>2, <2>3, <3>1
  <2>5. (k + 2) * BlockSize = last /\ (k + 1) * BlockSize = K + BlockSize
    BY <1>4, Sizes
  <2>6. ASSUME NEW j \in 1 .. BlockSize
        PROVE  /\ first[j] = PaddedCell(m, last, high, low, K + j)
               /\ second[j] = PaddedCell(m, last, high, low, K + BlockSize + j)
    <3>1. first[j] = PaddedCell(m, last, high, low, K + j)
      <4>1. last \in Int /\ n + 3 <= last /\ K + j \in Int
        BY <1>6, <1>16, LengthCells
      <4> DEFINE cell == PaddedCell(m, last, high, low, K + j)
      <4>2. cell = IF K + j <= n THEN m[K + j]
                   ELSE IF K + j = n + 1 THEN Mark
                   ELSE IF K + j = last - 1 THEN <<high>>
                   ELSE IF K + j = last THEN <<low>>
                   ELSE <<0>>
        BY <1>13, <4>1
      <4> HIDE DEF cell
      <4>3. first[j] = cell
        <5>1. CASE j \in 1 .. i
          <6>1. cell = m[K + j]
            BY <1>6, <4>2, <5>1
          <6> QED
            BY <1>7, <1>12, <5>1, <6>1
        <5>2. CASE j = i + 1
          <6>1. cell = Mark
            BY <1>6, <4>2, <5>2
          <6> QED
            BY <1>12, <5>2, <6>1
        <5>3. CASE j \in i + 2 .. BlockSize
          <6>1. cell = <<0>>
            BY <1>6, <4>2, <5>3, LengthCells
          <6> QED
            BY <1>12, <5>3, <6>1
        <5> QED
          BY <5>1, <5>2, <5>3
      <4> QED
        BY <4>3 DEF cell
    <3>2. second[j] = PaddedCell(m, last, high, low, K + BlockSize + j)
      <4>1. last \in Int /\ n + 3 <= last /\ K + BlockSize + j \in Int
        BY <1>6, <1>16, LengthCells
      <4> DEFINE cell == PaddedCell(m, last, high, low, K + BlockSize + j)
      <4>2. cell = IF K + BlockSize + j <= n THEN m[K + BlockSize + j]
                   ELSE IF K + BlockSize + j = n + 1 THEN Mark
                   ELSE IF K + BlockSize + j = last - 1 THEN <<high>>
                   ELSE IF K + BlockSize + j = last THEN <<low>>
                   ELSE <<0>>
        BY <1>13, <4>1
      <4> HIDE DEF cell
      <4>3. second[j] = cell
        <5>1. CASE j \in 1 .. LengthIndex
          <6>1. cell = <<0>>
            BY <1>6, <4>2, <5>1, LengthCells
          <6> QED
            BY <1>12, <5>1, <6>1
        <5>2. CASE j = BlockSize - 1
          <6>1. cell = <<high>>
            BY <1>6, <4>2, <5>2, LengthCells
          <6> QED
            BY <1>12, <5>2, <6>1
        <5>3. CASE j = BlockSize
          <6>1. cell = <<low>>
            BY <1>6, <4>2, <5>3, LengthCells
          <6> QED
            BY <1>12, <5>3, <6>1
        <5> QED
          BY <5>1, <5>2, <5>3, LengthCells
      <4> QED
        BY <4>3 DEF cell
    <3> QED
      BY <3>1, <3>2
  <2>7. ASSUME NEW b \in 1 .. k + 2, NEW j \in 1 .. BlockSize
        PROVE  blocks[b][j] = PaddedCell(m, last, high, low, (b - 1) * BlockSize + j)
    <3>1. CASE b = k + 1
      <4>1. (b - 1) * BlockSize + j = K + j
        BY <1>4, <3>1
      <4> QED
        BY <2>4, <2>6, <3>1, <4>1
    <3>2. CASE b = k + 2
      <4>1. (b - 1) * BlockSize + j = K + BlockSize + j
        BY <2>5, <3>2
      <4> QED
        BY <2>4, <2>6, <3>2, <4>1
    <3>3. CASE b # k + 1 /\ b # k + 2
      <4>1. b \in 1 .. k /\ last \in Int /\ n + 3 <= last
        BY <1>6, <1>16, <3>3, LengthCells
      <4> QED
        BY <1>14, <2>4, <4>1
    <3> QED
      BY <3>1, <3>2, <3>3
  <2>8. last - BlockSize < n + 3 /\ n + 3 <= last
    BY <1>6, <1>16, LengthCells
  <2> HIDE DEF last
  <2>9. DOMAIN blocks = 1 .. k + 2
    BY <2>4, LenProperties
  <2>10. PaddedWith(blocks, m, last, high, low)
    <3>1. \A b \in DOMAIN blocks : \A j \in 1 .. BlockSize : blocks[b][j] =
             PaddedCell(m, last, high, low, (b - 1) * BlockSize + j)
      BY <2>7, <2>9
    <3>2. last = Len(blocks) * BlockSize
      BY <2>4, <2>5
    <3> QED
      BY <1>3, <1>9, <2>8, <3>1, <3>2 DEF PaddedWith
  <2>11. SHA1PadMessage(c) = Context(low, high, 0, second, blocks, FALSE, 0)
    <3>1. i > LengthIndex - 1
      BY <1>16, LengthCells
    <3> QED
      BY <1>11, <2>3, <2>4, <3>1
  <2>12. blocks # <<>>
    BY <2>4, EmptySeq
  <2> QED
    <3>1. PaddedTo(blocks, m)
      BY <2>10, PaddedCellByCell
    <3>2. SHA1Result(c) = Context(0, 0, 0, Zeros(BlockSize), blocks, TRUE, 0)
      BY <2>11, DigestTaken
    <3> QED
      BY <2>12, <3>1, <3>2
<1> QED
  BY <1>15, <1>16

-----------------------------------------------------------------------------
(* The caller of the hash.                                                 *)

Numbers == {<<n>> : n \in Nat}

LEMMA NumbersHeld == HasNumbers(Numbers)
BY DEF HasNumbers, Numbers

LEMMA WiderSequence ==
    ASSUME NEW S, NEW T, S \subseteq T, NEW s \in Seq(S)
    PROVE  s \in Seq(T)
<1>1. PICK n \in Nat : n = Len(s) /\ s \in [1 .. n -> S]
  BY LenProperties
<1>2. s \in [1 .. n -> T]
  BY <1>1
<1> QED
  BY <1>2

LEMMA OctetCells ==
    ASSUME NEW octets \in Seq(Nat)
    PROVE  /\ Cells(octets) \in Seq(Numbers)
           /\ Len(Cells(octets)) = Len(octets)
           /\ \A i \in 1 .. Len(octets) : Cells(octets)[i] = <<octets[i]>>
<1>1. PICK n \in Nat : n = Len(octets) /\ DOMAIN octets = 1 .. n
  BY LenProperties
<1>2. \A i \in 1 .. n : octets[i] \in Nat
  BY <1>1, ElementOfSeq
<1>3. Cells(octets) = [i \in 1 .. n |-> <<octets[i]>>]
  BY <1>1 DEF Cells
<1>4. Cells(octets) \in [1 .. n -> Numbers]
  BY <1>2, <1>3 DEF Numbers
<1>5. Cells(octets) \in Seq(Numbers)
  BY <1>4
<1>6. Len(Cells(octets)) = n
  BY <1>4, <1>5, LenProperties
<1> QED
  BY <1>1, <1>3, <1>5, <1>6

LEMMA CellsJoined ==
    ASSUME NEW a \in Seq(Nat), NEW b \in Seq(Nat)
    PROVE  Cells(a \o b) = Cells(a) \o Cells(b)
<1>1. PICK n \in Nat, p \in Nat : n = Len(a) /\ p = Len(b)
  BY LenProperties
<1>2. PICK ab \in Seq(Nat) : ab = a \o b
  BY ConcatProperties
<1>3. PICK ca \in Seq(Numbers), cb \in Seq(Numbers), cab \in Seq(Numbers) :
         ca = Cells(a) /\ cb = Cells(b) /\ cab = Cells(ab)
  BY OctetCells
<1>4. PICK joined \in Seq(Numbers) : joined = ca \o cb
  BY ConcatProperties
<1>5. /\ Len(ab) = n + p
      /\ \A i \in 1 .. n : ab[i] = a[i]
      /\ \A i \in 1 .. p : ab[n + i] = b[i]
  BY <1>1, <1>2, ConcatProperties
<1>6. /\ Len(ca) = n /\ Len(cb) = p /\ Len(cab) = n + p
      /\ \A i \in 1 .. n : ca[i] = <<a[i]>>
      /\ \A i \in 1 .. p : cb[i] = <<b[i]>>
      /\ \A i \in 1 .. n + p : cab[i] = <<ab[i]>>
  BY <1>1, <1>3, <1>5, OctetCells
<1>7. /\ Len(joined) = n + p
      /\ \A i \in 1 .. n : joined[i] = ca[i]
      /\ \A i \in 1 .. p : joined[n + i] = cb[i]
  <2>1. /\ Len(joined) = n + p
        /\ \A i \in 1 .. n + p : joined[i] = IF i <= n THEN ca[i] ELSE cb[i - n]
    BY <1>4, <1>6, ConcatProperties
  <2>2. \A i \in 1 .. p : n + i \in 1 .. n + p /\ ~(n + i <= n) /\ (n + i) - n = i
    OBVIOUS
  <2> QED
    BY <2>1, <2>2
<1>8. ASSUME NEW i \in 1 .. n + p PROVE cab[i] = joined[i]
  <2>1. CASE i \in 1 .. n
    <3>1. cab[i] = <<ab[i]>> /\ ab[i] = a[i]
      BY <1>5, <1>6, <2>1
    <3>2. joined[i] = <<a[i]>>
      BY <1>6, <1>7, <2>1
    <3> QED
      BY <3>1, <3>2
  <2>2. CASE i \notin 1 .. n
    <3>1. PICK q \in 1 .. p : i = n + q
      <4>1. i - n \in 1 .. p /\ i = n + (i - n)
        BY <2>2
      <4> QED
        BY <4>1
    <3>2. cab[i] = <<ab[i]>> /\ ab[i] = b[q]
      BY <1>5, <1>6, <3>1
    <3>3. joined[i] = <<b[q]>>
      BY <1>6, <1>7, <3>1
    <3> QED
      BY <3>2, <3>3
  <2> QED
    BY <2>1, <2>2
<1> QED
  BY <1>2, <1>3, <1>4, <1>6, <1>7, <1>8, SeqEqual

LEMMA ResetContext ==
    ASSUME NEW C, HasNumbers(C)
    PROVE  /\ SHA1Reset = Context(0, 0, 0, Zeros(BlockSize), <<>>, FALSE, 0)
           /\ SHA1Reset \in Contexts(C)
           /\ SHA1Reset.Corrupted = 0
           /\ ~SHA1Reset.Computed
           /\ SHA1Reset.Intermediate_Hash = <<>>
           /\ \A m : Len(m) = 0 => Holds(SHA1Reset, m, Len(m))
<1>1. SHA1Reset = Context(0, 0, 0, Zeros(BlockSize), <<>>, FALSE, 0)
  BY DEF SHA1Reset, Context
<1>2. Zeros(BlockSize) \in Blocks(C)
  BY DEF Zeros, Blocks, HasNumbers
<1>3. <<>> \in Seq(Blocks(C)) /\ Len(<<>>) = 0
  BY EmptySeq
<1>4. SHA1Reset \in Contexts(C)
  <2>1. 0 \in 0 .. LowSpace - 1 /\ 0 \in 0 .. HighSpace - 1 /\ 0 \in 0 .. BlockSize - 1
    BY Sizes
  <2> QED
    BY <1>1, <1>2, <1>3, <2>1, ContextTyped DEF shaSuccess
<1>5. /\ SHA1Reset.Length_Low = 0 /\ SHA1Reset.Length_High = 0
      /\ SHA1Reset.Message_Block_Index = 0 /\ SHA1Reset.Intermediate_Hash = <<>>
      /\ SHA1Reset.Corrupted = 0 /\ ~SHA1Reset.Computed
  BY DEF SHA1Reset
<1>6. ASSUME NEW m, Len(m) = 0 PROVE Holds(SHA1Reset, m, Len(m))
  <2>1. 0 * BlockSize = 0 /\ 0 * LowSpace = 0
    BY Sizes
  <2> QED
    BY <1>3, <1>5, <1>6, <2>1, Sizes DEF Holds
<1> QED
  BY <1>1, <1>4, <1>5, <1>6

(* Every context is in the state that the octets given to it account for.  *)
ShaInvariant ==
    /\ sha \in Contexts(Numbers)
    /\ returned \in {shaSuccess, TooLong, shaStateError}
    /\ message \in Seq(Octets)
    /\ ~sha.Computed => digest = NoDigest
    /\ sha.Computed => /\ digest = sha.Intermediate_Hash
                       /\ digest # NoDigest
                       /\ PaddedTo(digest, Cells(message))
    /\ sha.Corrupted = 0 /\ ~sha.Computed =>
          Holds(sha, Cells(message), Len(Cells(message)))

(* A step keeps the account, and a digest and an error stand until Reset.  *)
Stands ==
    \/ sha' = SHA1Reset
    \/ /\ digest # NoDigest => digest' = digest /\ message' = message
       /\ sha.Corrupted # 0 => sha'.Corrupted # 0 /\ digest' = digest

LEMMA ResetKept ==
    ASSUME Reset
    PROVE  ShaInvariant' /\ Stands
<1>1. /\ SHA1Reset \in Contexts(Numbers) /\ ~SHA1Reset.Computed
      /\ \A m : Len(m) = 0 => Holds(SHA1Reset, m, Len(m))
  BY NumbersHeld, ResetContext
<1>2. /\ sha' = SHA1Reset /\ returned' = shaSuccess /\ message' = <<>>
      /\ digest' = NoDigest
  BY DEF Reset
<1>3. <<>> \in Seq(Octets) /\ <<>> \in Seq(Nat) /\ Len(<<>>) = 0
  BY EmptySeq
<1>4. Len(Cells(<<>>)) = 0
  BY <1>3, OctetCells
<1> QED
  BY <1>1, <1>2, <1>3, <1>4 DEF ShaInvariant, Stands

LEMMA ResultKept ==
    ASSUME ShaInvariant, Result
    PROVE  ShaInvariant' /\ Stands
<1>1. /\ sha' = SHA1Result(sha) /\ returned' = sha.Corrupted /\ message' = message
      /\ digest' = IF returned' = shaSuccess THEN sha'.Intermediate_Hash ELSE digest
  BY DEF Result
<1>2. /\ sha \in Contexts(Numbers) /\ sha.Computed \in BOOLEAN
      /\ sha.Corrupted \in {shaSuccess, TooLong, shaStateError}
  BY DEF ShaInvariant, Contexts
<1>3. CASE sha.Corrupted # 0 \/ sha.Computed
  <2>1. sha' = sha
    BY <1>1, <1>3 DEF SHA1Result
  <2>2. digest' = digest
    BY <1>1, <1>3, <2>1 DEF ShaInvariant, shaSuccess
  <2> QED
    BY <1>1, <1>2, <2>1, <2>2 DEF ShaInvariant, Stands
<1>4. CASE sha.Corrupted = 0 /\ ~sha.Computed
  <2>1. Cells(message) \in Seq(Numbers)
    <3>1. message \in Seq(Nat)
      <4>1. Octets \subseteq Nat /\ message \in Seq(Octets)
        BY OctetsAssumption DEF ShaInvariant
      <4> QED
        BY <4>1, WiderSequence
    <3> QED
      BY <3>1, OctetCells
  <2>2. Holds(sha, Cells(message), Len(Cells(message)))
    BY <1>4 DEF ShaInvariant
  <2>3. PICK blocks \in Seq(Blocks(Numbers)) :
           /\ blocks # <<>>
           /\ PaddedTo(blocks, Cells(message))
           /\ SHA1Result(sha) = Context(0, 0, 0, Zeros(BlockSize), blocks, TRUE, 0)
    BY <1>2, <1>4, <2>1, <2>2, NumbersHeld, ResultPadded
  <2>4. /\ sha'.Computed = TRUE /\ sha'.Corrupted = 0
        /\ sha'.Intermediate_Hash = blocks
    <3>1. sha' = Context(0, 0, 0, Zeros(BlockSize), blocks, TRUE, 0)
      BY <1>1, <2>3
    <3> QED
      BY <3>1 DEF Context
  <2>5. sha' \in Contexts(Numbers)
    <3>1. Zeros(BlockSize) \in Blocks(Numbers)
      BY NumbersHeld DEF Zeros, Blocks, HasNumbers
    <3>2. 0 \in 0 .. LowSpace - 1 /\ 0 \in 0 .. HighSpace - 1 /\ 0 \in 0 .. BlockSize - 1
      BY Sizes
    <3> QED
      BY <1>1, <2>3, <3>1, <3>2, ContextTyped DEF shaSuccess
  <2>6. digest' = blocks /\ digest = NoDigest
    BY <1>1, <1>4, <2>4 DEF shaSuccess, ShaInvariant
  <2> QED
    BY <1>1, <1>2, <1>4, <2>3, <2>4, <2>5, <2>6 DEF ShaInvariant, Stands, NoDigest
<1> QED
  BY <1>2, <1>3, <1>4

LEMMA InputKept ==
    ASSUME ShaInvariant, NEW n \in 0 .. MaxPart, NEW octets \in [1 .. n -> Octets],
           Input(octets)
    PROVE  ShaInvariant' /\ Stands
<1> DEFINE cells == Cells(octets)
<1>1. /\ sha' = SHA1Input(sha, cells) /\ returned' = InputError(sha, cells)
      /\ message' = IF returned' = shaSuccess THEN message \o octets ELSE message
      /\ digest' = digest
  BY DEF Input
<1>2. /\ sha \in Contexts(Numbers) /\ sha.Computed \in BOOLEAN
      /\ sha.Corrupted \in {shaSuccess, TooLong, shaStateError}
      /\ message \in Seq(Octets)
  BY DEF ShaInvariant, Contexts
<1>3. octets \in Seq(Octets) /\ Octets \subseteq Nat
  BY OctetsAssumption, SpaceAssumption
<1>4. octets \in Seq(Nat) /\ message \in Seq(Nat)
  BY <1>2, <1>3, WiderSequence
<1>5. cells \in Seq(Numbers) /\ Cells(message) \in Seq(Numbers) /\ Len(cells) = n
  <2>1. Len(octets) = n
    BY <1>3, LenProperties
  <2> QED
    BY <1>4, <2>1, OctetCells
<1> HIDE DEF cells
<1>6. CASE cells = <<>>
  <2>1. sha' = sha /\ returned' = shaSuccess
    BY <1>1, <1>6 DEF SHA1Input, InputError
  <2>2. octets = <<>>
    BY <1>5, <1>6, EmptySeq
  <2>3. message' = message
    BY <1>1, <1>2, <2>1, <2>2
  <2> QED
    BY <1>1, <1>2, <2>1, <2>3 DEF ShaInvariant, Stands
<1>7. CASE cells # <<>> /\ sha.Computed
  <2>1. /\ sha' = [sha EXCEPT !.Corrupted = shaStateError]
        /\ returned' = shaStateError /\ message' = message
    BY <1>1, <1>7 DEF SHA1Input, InputError, shaStateError, shaSuccess
  <2>2. /\ sha' \in Contexts(Numbers)
        /\ sha'.Computed = sha.Computed
        /\ sha'.Corrupted = shaStateError
        /\ sha'.Intermediate_Hash = sha.Intermediate_Hash
    BY <1>2, <2>1 DEF Contexts
  <2>3. sha'.Corrupted # 0
    BY <2>2 DEF shaStateError
  <2>4. ShaInvariant'
    BY <1>1, <1>2, <1>7, <2>1, <2>2, <2>3 DEF ShaInvariant
  <2>5. Stands
    BY <1>1, <2>1, <2>3 DEF Stands
  <2> QED
    BY <2>4, <2>5
<1>8. CASE cells # <<>> /\ ~sha.Computed
  <2>1. sha' = TakeAll(sha, cells) /\ returned' = sha.Corrupted
    BY <1>1, <1>8 DEF SHA1Input, InputError
  <2>2. /\ sha' \in Contexts(Numbers)
        /\ sha'.Computed = sha.Computed
        /\ sha.Corrupted # 0 => sha' = sha
        /\ \A m \in Seq(Numbers) : Holds(sha, m, Len(m)) /\ sha'.Corrupted = 0 =>
              Holds(sha', m \o cells, Len(m \o cells))
    BY <1>2, <1>5, <2>1, TakeAllResult
  <2>3. digest = NoDigest /\ digest' = NoDigest
    BY <1>1, <1>8 DEF ShaInvariant
  <2>4. CASE sha.Corrupted # 0
    <3>1. sha' = sha /\ message' = message
      BY <1>1, <2>1, <2>2, <2>4 DEF shaSuccess
    <3> QED
      BY <1>1, <1>2, <1>8, <2>1, <2>3, <2>4, <3>1 DEF ShaInvariant, Stands
  <2>5. CASE sha.Corrupted = 0
    <3>1. message' = message \o octets /\ returned' = 0
      BY <1>1, <2>1, <2>5 DEF shaSuccess
    <3>2. message' \in Seq(Octets)
      BY <1>2, <1>3, <3>1, ConcatProperties
    <3>3. Cells(message') = Cells(message) \o cells
      BY <1>4, <3>1, CellsJoined DEF cells
    <3>4. Holds(sha, Cells(message), Len(Cells(message)))
      BY <1>8, <2>5 DEF ShaInvariant
    <3>5. sha'.Corrupted = 0 => Holds(sha', Cells(message'), Len(Cells(message')))
      BY <1>5, <2>2, <3>3, <3>4
    <3> QED
      BY <1>8, <2>2, <2>3, <2>5, <3>1, <3>2, <3>5 DEF ShaInvariant, Stands, shaSuccess
  <2> QED
    BY <2>4, <2>5
<1> QED
  BY <1>2, <1>6, <1>7, <1>8

LEMMA ShaInvariantKept ==
    ASSUME ShaInvariant, [HmacNext]_hmacVars
    PROVE  ShaInvariant' /\ [Stands]_shaVars
<1>1. CASE ShaNext
  <2>1. CASE Reset
    BY <2>1, ResetKept
  <2>2. CASE Result
    BY <2>2, ResultKept
  <2>3. ASSUME NEW n \in 0 .. MaxPart, NEW octets \in [1 .. n -> Octets], Input(octets)
        PROVE  ShaInvariant' /\ Stands
    BY <2>3, InputKept
  <2> QED
    BY <1>1, <2>1, <2>2, <2>3 DEF ShaNext
<1>2. CASE UNCHANGED shaVars
  BY <1>2 DEF ShaInvariant, shaVars
<1>3. ShaNext \/ UNCHANGED shaVars
  BY DEF HmacNext, Mac, Forget, hmacVars
<1> QED
  BY <1>1, <1>2, <1>3

LEMMA ShaAccount == HmacSpec => []ShaInvariant
<1>1. HmacInit => ShaInvariant
  <2>1. SUFFICES ASSUME HmacInit PROVE ShaInvariant
    OBVIOUS
  <2>2. /\ SHA1Reset \in Contexts(Numbers) /\ ~SHA1Reset.Computed
        /\ \A m : Len(m) = 0 => Holds(SHA1Reset, m, Len(m))
    BY NumbersHeld, ResetContext
  <2>3. <<>> \in Seq(Octets) /\ <<>> \in Seq(Nat) /\ Len(<<>>) = 0
    BY EmptySeq
  <2>4. Len(Cells(<<>>)) = 0
    BY <2>3, OctetCells
  <2> QED
    BY <2>1, <2>2, <2>3, <2>4 DEF HmacInit, ShaInit, ShaInvariant
<1>2. ShaInvariant /\ [HmacNext]_hmacVars => ShaInvariant'
  BY ShaInvariantKept
<1> QED
  BY <1>1, <1>2, PTL DEF HmacSpec

(* The types hold, and between two calls there is room for a cell.         *)
THEOREM ContextsAreTyped == HmacSpec => []TypeOK
<1>1. ShaInvariant => TypeOK
  <2>1. SUFFICES ASSUME ShaInvariant PROVE TypeOK
    OBVIOUS
  <2>2. Len(sha.Message_Block) = BlockSize
    <3>1. sha.Message_Block \in [1 .. BlockSize -> Numbers] /\ BlockSize \in Nat
      <4>1. sha \in Contexts(Numbers)
        BY <2>1 DEF ShaInvariant
      <4>2. sha.Message_Block \in Blocks(Numbers)
        BY <4>1 DEF Contexts
      <4> QED
        BY <4>2, Sizes DEF Blocks
    <3>2. sha.Message_Block \in Seq(Numbers)
      BY <3>1
    <3> QED
      BY <3>1, <3>2, LenProperties
  <2> QED
    BY <2>1, <2>2 DEF ShaInvariant, TypeOK, Contexts
<1> QED
  BY <1>1, ShaAccount, PTL

(* The digest that SHA1Result hands out is that of the octets that calls   *)
(* of SHA1Input took, whatever their number and lengths.                   *)
THEOREM DigestIsOfMessage == HmacSpec => []DigestOfMessage
<1>1. ShaInvariant => DigestOfMessage
  <2>1. ShaInvariant => sha.Computed \in BOOLEAN
    BY DEF ShaInvariant, Contexts
  <2> QED
    BY <2>1 DEF ShaInvariant, DigestOfMessage
<1> QED
  BY <1>1, ShaAccount, PTL

(* A digest that was handed out, and an error, stand until SHA1Reset.      *)
THEOREM DigestsStand == HmacSpec => DigestStands
<1>1. ShaInvariant /\ [HmacNext]_hmacVars => [Stands]_shaVars
  BY ShaInvariantKept
<1>2. HmacSpec => [][Stands]_shaVars
  BY <1>1, ShaAccount, PTL DEF HmacSpec
<1> QED
  BY <1>2, PTL DEF DigestStands, Stands

-----------------------------------------------------------------------------
(* The keyed hash.                                                         *)

Sequence(s) == \E S : s \in Seq(S)

LEMMA SequenceFits ==
    ASSUME NEW s, Sequence(s)
    PROVE  \E C : HasNumbers(C) /\ s \in Seq(C)
<1>1. PICK S : s \in Seq(S)
  BY DEF Sequence
<1> DEFINE C == S \cup Numbers
<1>2. s \in Seq(C)
  BY <1>1, WiderSequence
<1>3. HasNumbers(C)
  BY NumbersHeld DEF HasNumbers
<1> QED
  BY <1>2, <1>3

Joins(ab, a, b) ==
    /\ Len(a) \in Nat /\ Len(b) \in Nat
    /\ Len(ab) = Len(a) + Len(b)
    /\ \A i \in 1 .. Len(a) : ab[i] = a[i]
    /\ \A i \in 1 .. Len(b) : ab[Len(a) + i] = b[i]

LEMMA SequencesJoined ==
    ASSUME NEW a, NEW b, Sequence(a), Sequence(b)
    PROVE  Sequence(a \o b) /\ Joins(a \o b, a, b)
<1>1. PICK S, T : a \in Seq(S) /\ b \in Seq(T)
  BY DEF Sequence
<1> DEFINE U == S \cup T
<1>2. a \in Seq(U) /\ b \in Seq(U)
  BY <1>1, WiderSequence
<1> HIDE DEF U
<1>3. PICK n \in Nat, p \in Nat : n = Len(a) /\ p = Len(b)
  BY <1>2, LenProperties
<1>4. PICK ab \in Seq(U) : ab = a \o b
  BY <1>2, ConcatProperties
<1>5. /\ Len(ab) = n + p
      /\ \A i \in 1 .. n + p : ab[i] = IF i <= n THEN a[i] ELSE b[i - n]
  BY <1>2, <1>3, <1>4, ConcatProperties
<1>6. \A i \in 1 .. n : ab[i] = a[i]
  BY <1>5
<1>7. \A i \in 1 .. p : ab[n + i] = b[i]
  <2>1. \A i \in 1 .. p : n + i \in 1 .. n + p /\ ~(n + i <= n) /\ (n + i) - n = i
    OBVIOUS
  <2> QED
    BY <1>5, <2>1
<1> QED
  BY <1>3, <1>4, <1>5, <1>6, <1>7 DEF Sequence, Joins

LEMMA SameSequence ==
    ASSUME NEW a, NEW b, Sequence(a), Sequence(b), Len(a) = Len(b),
           \A i \in 1 .. Len(a) : a[i] = b[i]
    PROVE  a = b
<1>1. PICK n \in Nat : n = Len(a) /\ DOMAIN a = 1 .. n /\ DOMAIN b = 1 .. n
  BY LenProperties DEF Sequence
<1>2. a = [i \in 1 .. n |-> a[i]] /\ b = [i \in 1 .. n |-> b[i]]
  BY <1>1, LenProperties DEF Sequence
<1> QED
  BY <1>1, <1>2

(* Where the first parts have one length, both parts can be told.          *)
LEMMA SplitsInOneWay ==
    ASSUME NEW a, NEW b, NEW c, NEW d,
           Sequence(a), Sequence(b), Sequence(c), Sequence(d),
           Len(a) = Len(c), a \o b = c \o d
    PROVE  a = c /\ b = d
<1>1. Joins(a \o b, a, b) /\ Joins(a \o b, c, d)
  BY SequencesJoined
<1>2. PICK ab : Joins(ab, a, b) /\ Joins(ab, c, d)
  BY <1>1
<1>3. PICK n \in Nat, p \in Nat, q \in Nat :
         n = Len(a) /\ n = Len(c) /\ p = Len(b) /\ q = Len(d)
  BY <1>2 DEF Joins
<1>4. /\ Len(ab) = n + p /\ Len(ab) = n + q
      /\ \A i \in 1 .. n : ab[i] = a[i] /\ ab[i] = c[i]
      /\ \A i \in 1 .. p : ab[n + i] = b[i]
      /\ \A i \in 1 .. q : ab[n + i] = d[i]
  BY <1>2, <1>3 DEF Joins
<1>5. p = q
  BY <1>4
<1>6. \A i \in 1 .. n : a[i] = c[i]
  BY <1>4
<1>7. \A i \in 1 .. p : b[i] = d[i]
  BY <1>4, <1>5
<1> QED
  BY <1>3, <1>5, <1>6, <1>7, SameSequence

(* What a call of Hash that ends without an error gives.                   *)
Digests(cells, blocks) ==
    /\ Len(blocks) \in Nat
    /\ DOMAIN blocks = 1 .. Len(blocks)
    /\ PaddedTo(blocks, cells)
    /\ Hash(cells) = [i \in 1 .. HashSize |-> <<"digest", i, blocks>>]

LEMMA HashDigests ==
    ASSUME NEW cells, Sequence(cells), Hashes(cells)
    PROVE  \E blocks : Digests(cells, blocks)
<1>1. PICK C : HasNumbers(C) /\ cells \in Seq(C)
  BY SequenceFits
<1>2. PICK c : c = SHA1Input(SHA1Reset, cells)
  OBVIOUS
<1>3. /\ SHA1Reset \in Contexts(C) /\ SHA1Reset.Corrupted = 0 /\ ~SHA1Reset.Computed
      /\ \A m : Len(m) = 0 => Holds(SHA1Reset, m, Len(m))
  BY <1>1, ResetContext
<1>4. c.Corrupted = 0
  BY <1>2 DEF Hashes
<1>5. c \in Contexts(C) /\ ~c.Computed /\ Holds(c, cells, Len(cells))
  <2>1. CASE cells = <<>>
    <3>1. c = SHA1Reset
      BY <1>2, <2>1 DEF SHA1Input
    <3>2. Len(cells) = 0
      BY <2>1, EmptySeq
    <3> QED
      BY <1>3, <3>1, <3>2
  <2>2. CASE cells # <<>>
    <3>1. c = TakeAll(SHA1Reset, cells)
      BY <1>2, <1>3, <2>2 DEF SHA1Input
    <3>2. <<>> \in Seq(C) /\ Len(<<>>) = 0 /\ <<>> \o cells = cells
      BY <1>1, EmptySeq
    <3>3. /\ c \in Contexts(C)
          /\ c.Computed = SHA1Reset.Computed
          /\ \A m \in Seq(C) : Holds(SHA1Reset, m, Len(m)) /\ c.Corrupted = 0 =>
                Holds(c, m \o cells, Len(m \o cells))
      BY <1>1, <1>3, <3>1, TakeAllResult
    <3> QED
      BY <1>3, <1>4, <3>2, <3>3
  <2> QED
    BY <2>1, <2>2
<1>6. PICK blocks \in Seq(Blocks(C)) :
         /\ PaddedTo(blocks, cells)
         /\ SHA1Result(c) = Context(0, 0, 0, Zeros(BlockSize), blocks, TRUE, 0)
  BY <1>1, <1>4, <1>5, ResultPadded
<1>7. SHA1Result(c).Intermediate_Hash = blocks
  BY <1>6 DEF Context
<1>8. Hash(cells) = [i \in 1 .. HashSize |-> <<"digest", i, blocks>>]
  BY <1>2, <1>7 DEF Hash
<1>9. Len(blocks) \in Nat /\ DOMAIN blocks = 1 .. Len(blocks)
  BY <1>6, LenProperties
<1> QED
  BY <1>6, <1>8, <1>9 DEF Digests

LEMMA HashTellsApart ==
    ASSUME NEW a, NEW b, Sequence(a), Sequence(b), Hashes(a), Hashes(b),
           Hash(a) = Hash(b)
    PROVE  a = b
<1>1. PICK blocks : Digests(a, blocks)
  BY HashDigests
<1>2. PICK blocks2 : Digests(b, blocks2)
  BY HashDigests
<1>3. 1 \in 1 .. HashSize
  BY HashSizeAssumption, Sizes
<1>4. <<"digest", 1, blocks>> = <<"digest", 1, blocks2>>
  BY <1>1, <1>2, <1>3 DEF Digests
<1>5. blocks = blocks2
  BY <1>4
<1>6. PICK S, T : a \in Seq(S) /\ b \in Seq(T)
  BY DEF Sequence
<1> QED
  BY <1>1, <1>2, <1>5, <1>6, PaddingTellsApart DEF Digests

(* A C string is a sequence without a zero octet.                          *)
IsString(s) == Sequence(s) /\ \A i \in 1 .. Len(s) : s[i] # <<0>>

LEMMA CStrings ==
    ASSUME NEW cells, Sequence(cells)
    PROVE  IsString(CString(cells))
<1> DEFINE ends == {i \in DOMAIN cells : cells[i] = <<0>>}
           end == CHOOSE i \in ends : \A j \in ends : i <= j
<1>1. PICK S : cells \in Seq(S)
  BY DEF Sequence
<1>2. PICK n \in Nat : n = Len(cells) /\ DOMAIN cells = 1 .. n
  BY <1>1, LenProperties
<1>3. CASE ends = {}
  <2>1. CString(cells) = cells
    BY <1>3 DEF CString
  <2>2. \A i \in 1 .. n : cells[i] # <<0>>
    BY <1>2, <1>3
  <2> QED
    BY <1>2, <2>1, <2>2 DEF IsString
<1>4. CASE ends # {}
  <2>1. ends \in SUBSET Nat
    BY <1>2
  <2>2. PICK e \in ends : \A j \in ends : e <= j
    <3> HIDE DEF ends
    <3> QED
      BY <1>4, <2>1, LeastNatural
  <2>3. end \in ends /\ \A j \in ends : end <= j
    <3> HIDE DEF ends
    <3> QED
      BY <2>2
  <2>4. PICK k \in 1 .. n : k = end /\ \A i \in 1 .. k - 1 : cells[i] # <<0>>
    <3>1. end \in 1 .. n
      BY <1>2, <2>3
    <3>2. ASSUME NEW i \in 1 .. end - 1 PROVE i \notin ends
      <4>1. ~(end <= i)
        BY <3>1
      <4> HIDE DEF end, ends
      <4> QED
        BY <2>3, <4>1
    <3>3. \A i \in 1 .. end - 1 : cells[i] # <<0>>
      <4>1. \A i \in 1 .. end - 1 : i \in DOMAIN cells
        BY <1>2, <3>1
      <4> HIDE DEF end
      <4> QED
        BY <3>2, <4>1
    <3> QED
      BY <3>1, <3>3
  <2>5. CString(cells) = SubSeq(cells, 1, k - 1)
    BY <1>4, <2>4 DEF CString
  <2> HIDE DEF end, ends
  <2>6. PICK s : s = SubSeq(cells, 1, k - 1)
    OBVIOUS
  <2>7. s \in Seq(S) /\ Len(s) = k - 1 /\ \A i \in 1 .. k - 1 : s[i] = cells[i]
    <3>1. PICK j \in 0 .. n : j = k - 1
      OBVIOUS
    <3>2. ASSUME NEW i \in 1 .. j PROVE cells[i] \in S
      <4>1. i \in 1 .. Len(cells)
        BY <1>2, <3>1
      <4> QED
        BY <1>1, <4>1, ElementOfSeq
    <3>3. /\ s \in Seq(S)
          /\ Len(s) = IF 1 <= j THEN j - 1 + 1 ELSE 0
          /\ \A i \in 1 .. j - 1 + 1 : s[i] = cells[1 + i - 1]
      BY <1>1, <2>6, <3>1, <3>2, SubSeqProperties
    <3>4. j - 1 + 1 = j /\ \A i \in 1 .. j : 1 + i - 1 = i
      BY <3>1
    <3> QED
      BY <3>1, <3>3, <3>4
  <2> QED
    BY <2>4, <2>5, <2>6, <2>7 DEF IsString, Sequence
<1> QED
  BY <1>3, <1>4

LEMMA StringLength ==
    ASSUME NEW s, IsString(s)
    PROVE  Sequence(s) /\ Len(s) \in Nat
BY LenProperties DEF IsString, Sequence

LEMMA ZeroCells ==
    ASSUME NEW n \in Nat
    PROVE  /\ Sequence(Zeros(n))
           /\ Len(Zeros(n)) = n
           /\ \A i \in 1 .. n : Zeros(n)[i] = <<0>>
<1>1. Zeros(n) = [i \in 1 .. n |-> <<0>>]
  BY DEF Zeros
<1>2. Zeros(n) \in [1 .. n -> {<<0>>}]
  BY <1>1
<1>3. Zeros(n) \in Seq({<<0>>})
  BY <1>2
<1>4. Len(Zeros(n)) = n
  BY <1>2, <1>3, LenProperties
<1> QED
  BY <1>1, <1>3, <1>4 DEF Sequence

LEMMA HashCells ==
    ASSUME NEW cells
    PROVE  /\ Sequence(Hash(cells))
           /\ Len(Hash(cells)) = HashSize
           /\ \E blocks : \A i \in 1 .. HashSize :
                 Hash(cells)[i] = <<"digest", i, blocks>>
<1>1. PICK blocks : blocks = SHA1Result(SHA1Input(SHA1Reset, cells)).Intermediate_Hash
  OBVIOUS
<1>2. PICK hash : hash = [i \in 1 .. HashSize |-> <<"digest", i, blocks>>]
  OBVIOUS
<1>3. Hash(cells) = hash
  BY <1>1, <1>2 DEF Hash
<1> DEFINE S == {hash[i] : i \in 1 .. HashSize}
<1>4. hash \in [1 .. HashSize -> S] /\ HashSize \in Nat
  BY <1>2, HashSizeAssumption, Sizes
<1> HIDE DEF S
<1>5. hash \in Seq(S)
  BY <1>4
<1>6. Len(hash) = HashSize
  BY <1>4, <1>5, LenProperties
<1> QED
  BY <1>2, <1>3, <1>5, <1>6 DEF Sequence

-----------------------------------------------------------------------------
(* The key fills a block that tells it apart.                              *)

LEMMA ShortKey ==
    ASSUME NEW key, NEW s, IsString(s), s = CString(key), Len(s) <= BlockSize
    PROVE  LET block == BlockOfKey(key)
           IN  /\ Sequence(block) /\ Len(block) = BlockSize
               /\ \A i \in 1 .. Len(s) : block[i] = s[i]
               /\ \A i \in Len(s) + 1 .. BlockSize : block[i] = <<0>>
<1>1. PICK n \in Nat, rest \in Nat : n = Len(s) /\ rest = BlockSize - n
  BY StringLength, Sizes
<1>2. PICK zeros : zeros = Zeros(rest)
  OBVIOUS
<1>3. /\ Sequence(zeros) /\ Len(zeros) = rest
      /\ \A i \in 1 .. rest : zeros[i] = <<0>>
  BY <1>2, ZeroCells
<1>4. PICK block : block = BlockOfKey(key)
  OBVIOUS
<1>5. block = s \o zeros
  <2>1. ~(Len(s) > BlockSize)
    BY <1>1, Sizes
  <2> QED
    BY <1>1, <1>2, <1>4, <2>1 DEF BlockOfKey
<1>6. Sequence(block) /\ Joins(block, s, zeros)
  BY <1>3, <1>5, SequencesJoined, StringLength
<1>7. /\ Len(block) = n + rest
      /\ \A i \in 1 .. n : block[i] = s[i]
      /\ \A i \in 1 .. rest : block[n + i] = zeros[i]
  BY <1>1, <1>3, <1>6 DEF Joins
<1>8. ASSUME NEW i \in n + 1 .. BlockSize PROVE block[i] = <<0>>
  <2>1. PICK j \in 1 .. rest : i = n + j
    <3>1. i - n \in 1 .. rest /\ i = n + (i - n)
      BY <1>1, Sizes
    <3> QED
      BY <3>1
  <2> QED
    BY <1>3, <1>7, <2>1
<1>9. n + rest = BlockSize
  BY <1>1, Sizes
<1> QED
  BY <1>1, <1>4, <1>6, <1>7, <1>8, <1>9

LEMMA LongKey ==
    ASSUME NEW key, NEW s, IsString(s), s = CString(key), Len(s) > BlockSize
    PROVE  LET block == BlockOfKey(key)
           IN  /\ Sequence(block) /\ Len(block) = BlockSize
               /\ \A i \in 1 .. HashSize : block[i] = Hash(s)[i]
               /\ \A i \in HashSize + 1 .. BlockSize : block[i] = <<0>>
<1>1. PICK rest \in Nat : rest = BlockSize - HashSize /\ HashSize \in Nat
  BY HashSizeAssumption, Sizes
<1>2. PICK hash, zeros : hash = Hash(s) /\ zeros = Zeros(rest)
  OBVIOUS
<1>3. Sequence(hash) /\ Len(hash) = HashSize
  BY <1>2, HashCells
<1>4. /\ Sequence(zeros) /\ Len(zeros) = rest
      /\ \A i \in 1 .. rest : zeros[i] = <<0>>
  BY <1>2, ZeroCells
<1>5. PICK block : block = BlockOfKey(key)
  OBVIOUS
<1>6. block = hash \o zeros
  BY <1>1, <1>2, <1>3, <1>5 DEF BlockOfKey
<1>7. Sequence(block) /\ Joins(block, hash, zeros)
  BY <1>3, <1>4, <1>6, SequencesJoined
<1>8. /\ Len(block) = HashSize + rest
      /\ \A i \in 1 .. HashSize : block[i] = hash[i]
      /\ \A i \in 1 .. rest : block[HashSize + i] = zeros[i]
  BY <1>3, <1>4, <1>7 DEF Joins
<1>9. HashSize + rest = BlockSize
  BY <1>1, Sizes
<1>10. ASSUME NEW i \in HashSize + 1 .. BlockSize PROVE block[i] = <<0>>
  <2>1. PICK j \in 1 .. rest : i = HashSize + j
    <3>1. i - HashSize \in 1 .. rest /\ i = HashSize + (i - HashSize)
      BY <1>1, Sizes
    <3> QED
      BY <3>1
  <2> QED
    BY <1>4, <1>8, <2>1
<1> QED
  BY <1>2, <1>5, <1>7, <1>8, <1>9, <1>10

LEMMA KeyFillsBlock ==
    ASSUME NEW key, IsString(CString(key))
    PROVE  Sequence(BlockOfKey(key)) /\ Len(BlockOfKey(key)) = BlockSize
<1>1. PICK s : s = CString(key)
  OBVIOUS
<1>2. Len(s) \in Nat
  BY <1>1, StringLength
<1>3. CASE Len(s) <= BlockSize
  BY <1>1, <1>3, ShortKey
<1>4. CASE Len(s) > BlockSize
  BY <1>1, <1>4, LongKey
<1> QED
  BY <1>2, <1>3, <1>4, Sizes

(* A block is told by where its last zeros start: up to cell n it has none *)
(* and after it nothing else.                                              *)
Fills(block, s) ==
    /\ Len(s) \in 0 .. BlockSize
    /\ \A i \in 1 .. Len(s) : block[i] = s[i] /\ s[i] # <<0>>
    /\ \A i \in Len(s) + 1 .. BlockSize : block[i] = <<0>>

LEMMA FilledWithOne ==
    ASSUME NEW block, NEW s, NEW t, Sequence(s), Sequence(t),
           Fills(block, s), Fills(block, t)
    PROVE  s = t
<1>1. PICK n \in 0 .. BlockSize, p \in 0 .. BlockSize : n = Len(s) /\ p = Len(t)
  BY DEF Fills
<1>2. n \in Nat /\ p \in Nat
  BY <1>1, Sizes
<1>3. ~(n < p)
  <2>1. SUFFICES ASSUME n < p PROVE FALSE
    OBVIOUS
  <2>2. n + 1 \in 1 .. p /\ n + 1 \in n + 1 .. BlockSize
    BY <1>1, <1>2, <2>1, Sizes
  <2> QED
    BY <1>1, <2>2 DEF Fills
<1>4. ~(p < n)
  <2>1. SUFFICES ASSUME p < n PROVE FALSE
    OBVIOUS
  <2>2. p + 1 \in 1 .. n /\ p + 1 \in p + 1 .. BlockSize
    BY <1>1, <1>2, <2>1, Sizes
  <2> QED
    BY <1>1, <2>2 DEF Fills
<1>5. n = p
  BY <1>2, <1>3, <1>4
<1>6. \A i \in 1 .. n : s[i] = t[i]
  BY <1>1, <1>5 DEF Fills
<1> QED
  BY <1>1, <1>5, <1>6, SameSequence

(* What the block of a key is filled with: the key or its digest.          *)
Filling(s) == IF Len(s) > BlockSize THEN Hash(s) ELSE s

LEMMA KeyFills ==
    ASSUME NEW key, NEW s, IsString(s), s = CString(key)
    PROVE  Sequence(Filling(s)) /\ Fills(BlockOfKey(key), Filling(s))
<1>1. PICK n \in Nat : n = Len(s)
  BY StringLength
<1>2. CASE n <= BlockSize
  <2>1. Filling(s) = s /\ Len(s) \in 0 .. BlockSize
    BY <1>1, <1>2, Sizes DEF Filling
  <2>2. /\ \A i \in 1 .. Len(s) : BlockOfKey(key)[i] = s[i]
        /\ \A i \in Len(s) + 1 .. BlockSize : BlockOfKey(key)[i] = <<0>>
    BY <1>1, <1>2, ShortKey
  <2>3. Sequence(s) /\ \A i \in 1 .. Len(s) : s[i] # <<0>>
    BY DEF IsString
  <2> QED
    BY <2>1, <2>2, <2>3 DEF Fills
<1>3. CASE n > BlockSize
  <2>1. Filling(s) = Hash(s)
    BY <1>1, <1>3 DEF Filling
  <2>2. Sequence(Hash(s)) /\ Len(Hash(s)) = HashSize /\ HashSize \in 0 .. BlockSize
    BY HashCells, HashSizeAssumption, Sizes
  <2>3. ASSUME NEW i \in 1 .. HashSize PROVE Hash(s)[i] # <<0>>
    <3>1. PICK blocks : Hash(s)[i] = <<"digest", i, blocks>>
      BY HashCells
    <3>2. <<"digest", i, blocks>> # <<0>>
      OBVIOUS
    <3> QED
      BY <3>1, <3>2
  <2> QED
    BY <1>1, <1>3, <2>1, <2>2, <2>3, LongKey DEF Fills
<1> QED
  BY <1>1, <1>2, <1>3, Sizes

(* Blocks are equal for one secret and for no others.                      *)
LEMMA KeysToldApart ==
    ASSUME NEW key, NEW key2, IsString(CString(key)), IsString(CString(key2)),
           Hashes(CString(key)), Hashes(CString(key2)),
           BlockOfKey(key) = BlockOfKey(key2)
    PROVE  SameSecret(CString(key), CString(key2))
<1>1. PICK s, t : s = CString(key) /\ t = CString(key2)
  OBVIOUS
<1>2. IsString(s) /\ IsString(t) /\ Hashes(s) /\ Hashes(t)
  BY <1>1
<1>3. Filling(s) = Filling(t)
  BY <1>1, <1>2, KeyFills, FilledWithOne
<1>4. Sequence(s) /\ Sequence(t)
  BY <1>2, StringLength
<1>5. SameSecret(s, t)
  <2>1. CASE Len(s) > BlockSize /\ Len(t) > BlockSize
    BY <1>2, <1>3, <1>4, <2>1, HashTellsApart DEF Filling, SameSecret
  <2>2. CASE Len(s) > BlockSize /\ ~(Len(t) > BlockSize)
    BY <1>3, <2>2 DEF Filling, SameSecret, DigestAsKey
  <2>3. CASE ~(Len(s) > BlockSize) /\ Len(t) > BlockSize
    BY <1>3, <2>3 DEF Filling, SameSecret, DigestAsKey
  <2>4. CASE ~(Len(s) > BlockSize) /\ ~(Len(t) > BlockSize)
    BY <1>3, <2>4 DEF Filling, SameSecret
  <2> QED
    BY <2>1, <2>2, <2>3, <2>4
<1> QED
  BY <1>1, <1>5

LEMMA OneSecretOneBlock ==
    ASSUME NEW key, NEW key2, SameSecret(CString(key), CString(key2))
    PROVE  BlockOfKey(key) = BlockOfKey(key2)
<1>1. ASSUME NEW long, NEW short, DigestAsKey(CString(long), CString(short))
      PROVE  BlockOfKey(long) = BlockOfKey(short)
  <2>1. PICK s, t : s = CString(long) /\ t = CString(short)
    OBVIOUS
  <2>2. Len(s) > BlockSize /\ t = Hash(s)
    BY <1>1, <2>1 DEF DigestAsKey
  <2>3. ~(Len(t) > BlockSize)
    BY <2>2, HashCells, HashSizeAssumption, Sizes
  <2> QED
    BY <2>1, <2>2, <2>3 DEF BlockOfKey
<1> QED
  BY <1>1 DEF SameSecret, BlockOfKey

LEMMA PadCells ==
    ASSUME NEW pad, NEW block, Sequence(block), Len(block) = BlockSize
    PROVE  /\ Sequence(Pad(pad, block))
           /\ Len(Pad(pad, block)) = BlockSize
           /\ \A i \in 1 .. BlockSize : Pad(pad, block)[i] = <<pad, block[i]>>
<1>1. DOMAIN block = 1 .. BlockSize
  BY LenProperties DEF Sequence
<1>2. PICK padded : padded = [i \in 1 .. BlockSize |-> <<pad, block[i]>>]
  OBVIOUS
<1>3. Pad(pad, block) = padded
  BY <1>1, <1>2 DEF Pad
<1> DEFINE S == {padded[i] : i \in 1 .. BlockSize}
<1>4. padded \in [1 .. BlockSize -> S] /\ BlockSize \in Nat
  BY <1>2, Sizes
<1> HIDE DEF S
<1>5. padded \in Seq(S)
  BY <1>4
<1>6. Len(padded) = BlockSize
  BY <1>4, <1>5, LenProperties
<1> QED
  BY <1>2, <1>3, <1>5, <1>6 DEF Sequence

LEMMA PadsToldApart ==
    ASSUME NEW pad, NEW block, NEW block2, Sequence(block), Sequence(block2),
           Len(block) = BlockSize, Len(block2) = BlockSize,
           Pad(pad, block) = Pad(pad, block2)
    PROVE  block = block2
<1>1. ASSUME NEW i \in 1 .. BlockSize PROVE block[i] = block2[i]
  <2>1. <<pad, block[i]>> = <<pad, block2[i]>>
    BY PadCells
  <2> QED
    BY <2>1
<1> QED
  BY <1>1, SameSequence

(* One call of hmac_sha1 that ends without an error.                       *)
Called(text, key) ==
    /\ IsString(CString(text))
    /\ IsString(CString(key))
    /\ Hashes(CString(key))
    /\ Hashes(Inner(text, key))
    /\ Hashes(Outer(text, key))

LEMMA PartsOfCall ==
    ASSUME NEW text, NEW key, Called(text, key)
    PROVE  /\ Sequence(Pad("ipad", BlockOfKey(key)))
           /\ Len(Pad("ipad", BlockOfKey(key))) = BlockSize
           /\ Sequence(Pad("opad", BlockOfKey(key)))
           /\ Len(Pad("opad", BlockOfKey(key))) = BlockSize
           /\ Sequence(CString(text))
           /\ Sequence(Inner(text, key))
           /\ Sequence(Outer(text, key))
<1>1. Sequence(BlockOfKey(key)) /\ Len(BlockOfKey(key)) = BlockSize
  BY KeyFillsBlock DEF Called
<1>2. /\ Sequence(Pad("ipad", BlockOfKey(key)))
      /\ Len(Pad("ipad", BlockOfKey(key))) = BlockSize
      /\ Sequence(Pad("opad", BlockOfKey(key)))
      /\ Len(Pad("opad", BlockOfKey(key))) = BlockSize
  BY <1>1, PadCells
<1>3. Sequence(CString(text)) /\ Sequence(Hash(Inner(text, key)))
  BY StringLength, HashCells DEF Called
<1>4. Sequence(Inner(text, key)) /\ Sequence(Outer(text, key))
  BY <1>2, <1>3, SequencesJoined DEF Inner, Outer
<1> QED
  BY <1>2, <1>3, <1>4

LEMMA CallsToldApart ==
    ASSUME NEW text, NEW key, NEW text2, NEW key2,
           Called(text, key), Called(text2, key2),
           hmac_sha1(text, key) = hmac_sha1(text2, key2)
    PROVE  CString(text) = CString(text2) /\ SameSecret(CString(key), CString(key2))
<1>1. Outer(text, key) = Outer(text2, key2)
  BY PartsOfCall, HashTellsApart DEF Called, hmac_sha1
<1>2. Sequence(Hash(Inner(text, key))) /\ Sequence(Hash(Inner(text2, key2)))
  BY HashCells
<1>3. /\ Pad("opad", BlockOfKey(key)) = Pad("opad", BlockOfKey(key2))
      /\ Hash(Inner(text, key)) = Hash(Inner(text2, key2))
  <2>1. PICK p, p2, h, h2 :
           /\ p = Pad("opad", BlockOfKey(key)) /\ p2 = Pad("opad", BlockOfKey(key2))
           /\ h = Hash(Inner(text, key)) /\ h2 = Hash(Inner(text2, key2))
    OBVIOUS
  <2>2. p \o h = p2 \o h2
    BY <1>1, <2>1 DEF Outer
  <2>3. /\ Sequence(p) /\ Sequence(p2) /\ Len(p) = BlockSize /\ Len(p2) = BlockSize
        /\ Sequence(h) /\ Sequence(h2)
    BY <1>2, <2>1, PartsOfCall
  <2> QED
    BY <2>1, <2>2, <2>3, SplitsInOneWay
<1>4. BlockOfKey(key) = BlockOfKey(key2)
  BY <1>3, KeyFillsBlock, PadsToldApart DEF Called
<1>5. SameSecret(CString(key), CString(key2))
  BY <1>4, KeysToldApart DEF Called
<1>6. Inner(text, key) = Inner(text2, key2)
  BY <1>3, PartsOfCall, HashTellsApart DEF Called
<1>7. CString(text) = CString(text2)
  <2>1. PICK p, p2, c, c2 :
           /\ p = Pad("ipad", BlockOfKey(key)) /\ p2 = Pad("ipad", BlockOfKey(key2))
           /\ c = CString(text) /\ c2 = CString(text2)
    OBVIOUS
  <2>2. p \o c = p2 \o c2
    BY <1>6, <2>1 DEF Inner
  <2>3. /\ Sequence(p) /\ Sequence(p2) /\ Len(p) = BlockSize /\ Len(p2) = BlockSize
        /\ Sequence(c) /\ Sequence(c2)
    BY <2>1, PartsOfCall
  <2> QED
    BY <2>1, <2>2, <2>3, SplitsInOneWay
<1> QED
  BY <1>5, <1>7

(* The other way about: the text and the block are all that goes in.       *)
LEMMA SameCallsSameDigest ==
    ASSUME NEW text, NEW key, NEW text2, NEW key2,
           CString(text) = CString(text2), SameSecret(CString(key), CString(key2))
    PROVE  hmac_sha1(text, key) = hmac_sha1(text2, key2)
BY OneSecretOneBlock DEF hmac_sha1, Outer, Inner

(* Every result that is kept is that of a call without an error.           *)
MacsFromCalls ==
    \A m \in macs : \E text, key :
        /\ Called(text, key)
        /\ m = [text |-> CString(text), key |-> CString(key),
                mac |-> hmac_sha1(text, key)]

(* The digests of two calls of hmac_sha1 are the same exactly when both    *)
(* were given the same text under the same secret: only a key longer than  *)
(* a block and its own digest are taken for one another.                   *)
THEOREM MacsAreTold == HmacSpec => []MacsTellApart
<1>1. HmacInit => MacsFromCalls
  BY DEF HmacInit, MacsFromCalls
<1>2. MacsFromCalls /\ [HmacNext]_hmacVars => MacsFromCalls'
  <2>1. SUFFICES ASSUME MacsFromCalls, [HmacNext]_hmacVars PROVE MacsFromCalls'
    OBVIOUS
  <2>2. CASE UNCHANGED macs
    BY <2>1, <2>2 DEF MacsFromCalls
  <2>3. CASE Forget
    BY <2>3 DEF MacsFromCalls, Forget
  <2>4. ASSUME NEW text \in Texts, NEW key \in SecretKeys, Mac(text, key)
        PROVE  MacsFromCalls'
    <3>1. Sequence(text) /\ Sequence(key)
      BY ArgumentsAssumption DEF Sequence
    <3>2. Called(text, key)
      BY <2>4, <3>1, CStrings DEF Mac, Called
    <3> DEFINE made == [text |-> CString(text), key |-> CString(key),
                        mac |-> hmac_sha1(text, key)]
    <3>3. macs' = macs \cup {made}
      BY <2>4 DEF Mac
    <3>4. ASSUME NEW m \in macs'
          PROVE  \E text1, key1 :
                    /\ Called(text1, key1)
                    /\ m = [text |-> CString(text1), key |-> CString(key1),
                            mac |-> hmac_sha1(text1, key1)]
      <4>1. CASE m = made
        BY <3>2, <4>1
      <4>2. CASE m \in macs
        BY <2>1, <4>2 DEF MacsFromCalls
      <4> HIDE DEF made
      <4> QED
        BY <3>3, <4>1, <4>2
    <3> QED
      BY <3>4 DEF MacsFromCalls
  <2> QED
    BY <2>1, <2>2, <2>3, <2>4 DEF HmacNext, hmacVars
<1>3. MacsFromCalls => MacsTellApart
  <2>1. SUFFICES ASSUME MacsFromCalls, NEW a \in macs, NEW b \in macs
                 PROVE  a.mac = b.mac <=>
                            a.text = b.text /\ SameSecret(a.key, b.key)
    BY DEF MacsTellApart
  <2>2. PICK text, key :
           /\ Called(text, key)
           /\ a = [text |-> CString(text), key |-> CString(key),
                   mac |-> hmac_sha1(text, key)]
    BY <2>1 DEF MacsFromCalls
  <2>3. PICK text2, key2 :
           /\ Called(text2, key2)
           /\ b = [text |-> CString(text2), key |-> CString(key2),
                   mac |-> hmac_sha1(text2, key2)]
    BY <2>1 DEF MacsFromCalls
  <2>4. hmac_sha1(text, key) = hmac_sha1(text2, key2) <=>
            CString(text) = CString(text2) /\ SameSecret(CString(key), CString(key2))
    BY <2>2, <2>3, CallsToldApart, SameCallsSameDigest
  <2> QED
    BY <2>2, <2>3, <2>4
<1> QED
  BY <1>1, <1>2, <1>3, PTL DEF HmacSpec
=============================================================================
