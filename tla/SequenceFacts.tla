--------------------------- MODULE SequenceFacts ---------------------------
(***************************************************************************)
(* What the sequence operators that model std::vector do to the entries of *)
(* a vector: push_back is Append, and find followed by erase is            *)
(* RemoveFirst, which takes away one entry even if there are several.      *)
(***************************************************************************)
EXTENDS Integers, Sequences, SequencesExt, SequenceTheorems,
        WellFoundedInduction, TLAPS

(* A non-empty set of naturals has a least element, and Min finds it.      *)
LEMMA LeastNatural ==
    ASSUME NEW I \in SUBSET Nat, I # {}
    PROVE  /\ Min(I) \in I
           /\ \A n \in I : Min(I) <= n
<1> DEFINE R == OpToRel(<, Nat)
<1>1. IsWellFoundedOn(R, Nat)
  BY NatLessThanWellFounded
<1>2. \A m, n \in Nat : n < m => <<n, m>> \in R
  BY DEF OpToRel
<1> HIDE DEF R
<1>3. PICK m \in I : \A n \in I : ~(<<n, m>> \in R)
  BY <1>1, WFMin
<1>4. ASSUME NEW n \in I PROVE m <= n
  <2>1. m \in Nat /\ n \in Nat
    OBVIOUS
  <2>2. ~(n < m)
    BY <1>2, <1>3, <2>1
  <2> QED
    BY <2>1, <2>2
<1> QED
  BY <1>4 DEF Min

(* A non-empty set of naturals with an upper bound has a greatest element. *)
LEMMA GreatestNatural ==
    ASSUME NEW N \in Nat, NEW I \in SUBSET (0 .. N), I # {}
    PROVE  \E m \in I : \A n \in I : n <= m
<1> DEFINE J == {N - i : i \in I}
<1>1. J \in SUBSET Nat /\ J # {}
  <2>1. \A i \in I : i \in 0 .. N /\ N - i \in Nat
    OBVIOUS
  <2> QED
    BY <2>1
<1>2. PICK k \in J : \A n \in J : k <= n
  BY <1>1, LeastNatural
<1>3. PICK m \in I : k = N - m
  OBVIOUS
<1>4. ASSUME NEW n \in I PROVE n <= m
  <2>1. N - n \in J
    OBVIOUS
  <2>2. N - m <= N - n
    BY <1>2, <1>3, <2>1
  <2> QED
    BY <2>2
<1> QED
  BY <1>4

(* Induction over indices, with a set in place of a predicate.             *)
LEMMA IndexInduction ==
    ASSUME NEW N \in Nat, NEW J, 0 \in J, \A n \in 1 .. N : n-1 \in J => n \in J
    PROVE  \A n \in 0 .. N : n \in J
<1> DEFINE I == {n \in 0 .. N : n \notin J}
<1> SUFFICES ASSUME I # {} PROVE FALSE
  OBVIOUS
<1>1. Min(I) \in I /\ \A n \in I : Min(I) <= n
  BY LeastNatural
<1>2. PICK m \in I : \A n \in I : m <= n
  BY <1>1
<1>3. m \in 1 .. N /\ m-1 \in 0 .. N /\ m-1 \notin I
  BY <1>2
<1> QED
  BY <1>2, <1>3

(* F, a function of pairs, maps S to itself at every index up to N.        *)
StaysIn(F, S, N) == \A x \in S, n \in 1 .. N : F[<<x, n>>] \in S

(* f starts with a, and each value follows from the one before.            *)
Recurs(f, a, F, N) == f[0] = a /\ \A n \in 1 .. N : f[n] = F[<<f[n-1], n>>]

(* A function on 0 .. N that is defined by recursion exists.               *)
LEMMA RecursionExists ==
    ASSUME NEW S, NEW a \in S, NEW N \in Nat, NEW F, StaysIn(F, S, N)
    PROVE  \E f \in [0 .. N -> S] : Recurs(f, a, F, N)
<1> DEFINE J == {k \in 0 .. N : \E f \in [0 .. N -> S] : Recurs(f, a, F, k)}
<1>1. 0 \in J
  <2> DEFINE g == [n \in 0 .. N |-> a]
  <2>1. g \in [0 .. N -> S] /\ g[0] = a
    OBVIOUS
  <2> HIDE DEF g
  <2> QED
    BY <2>1 DEF Recurs
<1>2. ASSUME NEW k \in 1 .. N, k-1 \in J PROVE k \in J
  <2>1. PICK f \in [0 .. N -> S] : Recurs(f, a, F, k-1)
    BY <1>2
  <2>2. k-1 \in 0 .. N /\ k \in 0 .. N /\ f[k-1] \in S
    OBVIOUS
  <2> DEFINE g == [n \in 0 .. N |-> IF n = k THEN F[<<f[k-1], k>>] ELSE f[n]]
  <2>3. g \in [0 .. N -> S]
    BY <2>2 DEF StaysIn
  <2>4. \A n \in 0 .. N : n # k => g[n] = f[n]
    OBVIOUS
  <2>5. g[k] = F[<<g[k-1], k>>]
    BY <2>2, <2>4
  <2> HIDE DEF g
  <2>6. ASSUME NEW n \in 1 .. k PROVE g[n] = F[<<g[n-1], n>>]
    <3>1. CASE n = k
      BY <2>5, <3>1
    <3>2. CASE n # k
      <4>1. n \in 1 .. k-1 /\ n \in 0 .. N /\ n-1 \in 0 .. N /\ n-1 # k
        BY <3>2
      <4> QED
        BY <2>1, <2>4, <3>2, <4>1 DEF Recurs
    <3> QED
      BY <3>1, <3>2
  <2>7. g[0] = a
    BY <2>1, <2>4 DEF Recurs
  <2> QED
    BY <2>2, <2>3, <2>6, <2>7 DEF Recurs
<1> HIDE DEF J
<1>3. N \in J
  BY <1>1, <1>2, IndexInduction
<1> QED
  BY <1>3 DEF J

(* RemoveFirst(q, e) is q without the entry at the first position of e.    *)
LEMMA RemoveFirstSplits ==
    ASSUME NEW S, NEW q \in Seq(S), NEW e, \E i \in 1 .. Len(q) : q[i] = e
    PROVE  \E k \in 1 .. Len(q) :
              /\ q[k] = e
              /\ RemoveFirst(q, e) = SubSeq(q, 1, k-1) \o SubSeq(q, k+1, Len(q))
<1> DEFINE I == {i \in 1 .. Len(q) : q[i] = e}
<1>1. I # {} /\ I \in SUBSET Nat
  BY LenProperties
<1>2. SelectInSeq(q, LAMBDA v : v = e) = Min(I)
  BY <1>1 DEF SelectInSeq
<1>3. Min(I) \in I
  BY <1>1, LeastNatural
<1>4. RemoveFirst(q, e) = RemoveAt(q, Min(I))
  BY <1>2 DEF RemoveFirst
<1> HIDE DEF I
<1>5. RemoveFirst(q, e) = SubSeq(q, 1, Min(I)-1) \o SubSeq(q, Min(I)+1, Len(q))
  BY <1>4 DEF RemoveAt
<1>6. Min(I) \in 1 .. Len(q) /\ q[Min(I)] = e
  BY <1>3 DEF I
<1> QED
  BY <1>5, <1>6

(* RemoveAt entry by entry: what stood after the removed one moves down.   *)
LEMMA RemoveAtEntries ==
    ASSUME NEW S, NEW q \in Seq(S), NEW k \in 1 .. Len(q)
    PROVE  /\ RemoveAt(q, k) \in Seq(S)
           /\ Len(RemoveAt(q, k)) = Len(q) - 1
           /\ \A i \in 1 .. Len(q) - 1 :
                 RemoveAt(q, k)[i] = IF i < k THEN q[i] ELSE q[i+1]
<1> DEFINE front == SubSeq(q, 1, k-1)
           back == SubSeq(q, k+1, Len(q))
<1>1. RemoveAt(q, k) = front \o back
  BY DEF RemoveAt
<1>2. Len(q) \in Nat /\ \A i \in 1 .. Len(q) : q[i] \in S
  BY LenProperties, ElementOfSeq
<1>3. /\ front \in Seq(S)
      /\ Len(front) = k - 1
      /\ \A i \in 1 .. k-1 : front[i] = q[i]
  <2>1. 1 \in Int /\ k-1 \in Int /\ \A i \in 1 .. k-1 : q[i] \in S
    BY <1>2
  <2>2. /\ front \in Seq(S)
        /\ Len(front) = IF 1 <= k-1 THEN (k-1)-1+1 ELSE 0
        /\ \A i \in 1 .. (k-1)-1+1 : front[i] = q[1+i-1]
    BY <2>1, SubSeqProperties
  <2> HIDE DEF front
  <2> QED
    BY <2>2, <1>2
<1>4. /\ back \in Seq(S)
      /\ Len(back) = Len(q) - k
      /\ \A i \in 1 .. Len(q)-k : back[i] = q[k+i]
  <2>1. k+1 \in Int /\ Len(q) \in Int /\ \A i \in k+1 .. Len(q) : q[i] \in S
    BY <1>2
  <2>2. /\ back \in Seq(S)
        /\ Len(back) = IF k+1 <= Len(q) THEN Len(q)-(k+1)+1 ELSE 0
        /\ \A i \in 1 .. Len(q)-(k+1)+1 : back[i] = q[(k+1)+i-1]
    BY <2>1, SubSeqProperties
  <2> HIDE DEF back
  <2> QED
    BY <2>2, <1>2
<1> HIDE DEF front, back
<1>5. /\ front \o back \in Seq(S)
      /\ Len(front \o back) = Len(front) + Len(back)
      /\ \A i \in 1 .. Len(front) + Len(back) :
            (front \o back)[i] =
                IF i <= Len(front) THEN front[i] ELSE back[i - Len(front)]
  BY <1>3, <1>4, ConcatProperties
<1>6. ASSUME NEW i \in 1 .. Len(q) - 1
      PROVE  (front \o back)[i] = IF i < k THEN q[i] ELSE q[i+1]
  <2>1. CASE i < k
    BY <1>2, <1>3, <1>4, <1>5, <2>1
  <2>2. CASE ~(i < k)
    <3>1. i - (k-1) \in 1 .. Len(q)-k /\ k + (i - (k-1)) = i+1 /\ ~(i <= k-1)
      BY <1>2, <2>2
    <3>2. i \in 1 .. Len(front) + Len(back) /\ ~(i <= Len(front))
      BY <1>2, <1>3, <1>4, <2>2
    <3>3. (front \o back)[i] = back[i - (k-1)]
      BY <1>3, <1>5, <3>2
    <3>4. back[i - (k-1)] = q[k + (i - (k-1))]
      BY <1>4, <3>1
    <3> QED
      BY <2>2, <3>1, <3>3, <3>4
  <2> QED
    BY <2>1, <2>2
<1>7. Len(front \o back) = Len(q) - 1
  BY <1>2, <1>3, <1>4, <1>5
<1> QED
  BY <1>1, <1>5, <1>6, <1>7

(* find followed by erase removes the entry at some position of e.         *)
LEMMA RemoveFirstEntries ==
    ASSUME NEW S, NEW q \in Seq(S), NEW e, \E i \in 1 .. Len(q) : q[i] = e
    PROVE  \E k \in 1 .. Len(q) :
              /\ q[k] = e
              /\ RemoveFirst(q, e) \in Seq(S)
              /\ Len(RemoveFirst(q, e)) = Len(q) - 1
              /\ \A i \in 1 .. Len(q) - 1 :
                    RemoveFirst(q, e)[i] = IF i < k THEN q[i] ELSE q[i+1]
<1>1. PICK k \in 1 .. Len(q) : q[k] = e /\ RemoveFirst(q, e) = RemoveAt(q, k)
  BY RemoveFirstSplits DEF RemoveAt
<1> QED
  BY <1>1, RemoveAtEntries

(* Removing an entry keeps the type, adds nobody, and keeps everybody else. *)
LEMMA RemoveFirstMembers ==
    ASSUME NEW S, NEW q \in Seq(S), NEW e
    PROVE  /\ RemoveFirst(q, e) \in Seq(S)
           /\ Range(RemoveFirst(q, e)) \subseteq Range(q)
           /\ \A x \in Range(q) : x # e => x \in Range(RemoveFirst(q, e))
           /\ e \notin Range(q) => RemoveFirst(q, e) = q
<1>1. Range(q) = {q[i] : i \in 1 .. Len(q)} /\ Len(q) \in Nat
  BY RangeEquality, LenProperties
<1>2. CASE e \notin Range(q)
  <2>1. RemoveFirst(q, e) = q
    BY <1>1, <1>2 DEF RemoveFirst
  <2> QED
    BY <2>1
<1>3. CASE e \in Range(q)
  <2> DEFINE r == RemoveFirst(q, e)
  <2>1. PICK k \in 1 .. Len(q) :
          /\ q[k] = e
          /\ r \in Seq(S)
          /\ Len(r) = Len(q) - 1
          /\ \A i \in 1 .. Len(q) - 1 : r[i] = IF i < k THEN q[i] ELSE q[i+1]
    BY <1>1, <1>3, RemoveFirstEntries
  <2> HIDE DEF r
  <2>2. Range(r) = {r[i] : i \in 1 .. Len(q) - 1}
    BY <2>1, RangeEquality
  <2>3. ASSUME NEW i \in 1 .. Len(q) - 1 PROVE r[i] \in Range(q)
    BY <1>1, <2>1
  <2>4. ASSUME NEW i \in 1 .. Len(q), q[i] # e PROVE q[i] \in Range(r)
    <3>1. CASE i < k
      BY <1>1, <2>1, <2>2, <3>1
    <3>2. CASE i > k
      <4>1. i-1 \in 1 .. Len(q) - 1 /\ ~(i-1 < k) /\ (i-1)+1 = i
        BY <1>1, <3>2
      <4>2. r[i-1] = q[i]
        BY <2>1, <4>1
      <4> QED
        BY <2>2, <4>1, <4>2
    <3> QED
      BY <2>1, <2>4, <3>1, <3>2
  <2> QED
    BY <1>1, <1>3, <2>1, <2>2, <2>3, <2>4 DEF r
<1> QED
  BY <1>2, <1>3

(* Only if the entries are distinct does removing one remove the element.  *)
LEMMA RemoveFirstDistinct ==
    ASSUME NEW S, NEW q \in Seq(S), NEW e, IsInjective(q)
    PROVE  /\ IsInjective(RemoveFirst(q, e))
           /\ e \notin Range(RemoveFirst(q, e))
<1>1. Range(q) = {q[i] : i \in 1 .. Len(q)} /\ Len(q) \in Nat /\ DOMAIN q = 1 .. Len(q)
  BY RangeEquality, LenProperties
<1>2. CASE e \notin Range(q)
  BY <1>2, RemoveFirstMembers
<1>3. CASE e \in Range(q)
  <2> DEFINE r == RemoveFirst(q, e)
  <2>0. \E i \in 1 .. Len(q) : q[i] = e
    BY <1>1, <1>3
  <2>1. PICK k \in 1 .. Len(q) :
          /\ q[k] = e
          /\ r \in Seq(S)
          /\ Len(r) = Len(q) - 1
          /\ \A i \in 1 .. Len(q) - 1 : r[i] = IF i < k THEN q[i] ELSE q[i+1]
    BY <2>0, RemoveFirstEntries
  <2> HIDE DEF r
  <2>2. DOMAIN r = 1 .. Len(q) - 1 /\ Range(r) = {r[i] : i \in 1 .. Len(q) - 1}
    BY <2>1, RangeEquality, LenProperties
  <2>3. \A i, j \in 1 .. Len(q) : q[i] = q[j] => i = j
    BY <1>1 DEF IsInjective
  <2>4. ASSUME NEW i \in 1 .. Len(q) - 1, NEW j \in 1 .. Len(q) - 1, r[i] = r[j]
        PROVE  i = j
    <3> DEFINE at(n) == IF n < k THEN n ELSE n+1
    <3>1. at(i) \in 1 .. Len(q) /\ at(j) \in 1 .. Len(q)
      BY <1>1
    <3>2. r[i] = q[at(i)] /\ r[j] = q[at(j)]
      BY <2>1
    <3>3. at(i) = at(j)
      BY <2>3, <2>4, <3>1, <3>2
    <3> QED
      BY <1>1, <3>3
  <2>5. ASSUME NEW i \in 1 .. Len(q) - 1 PROVE r[i] # e
    <3> DEFINE at == IF i < k THEN i ELSE i+1
    <3>1. at \in 1 .. Len(q) /\ at # k
      BY <1>1
    <3>2. r[i] = q[at]
      BY <2>1
    <3> QED
      BY <2>1, <2>3, <3>1, <3>2
  <2>6. IsInjective(r)
    BY <2>2, <2>4 DEF IsInjective
  <2>7. e \notin Range(r)
    BY <2>2, <2>5
  <2> QED
    BY <2>6, <2>7 DEF r
<1> QED
  BY <1>2, <1>3

(* push_back adds its argument and keeps the rest.                         *)
LEMMA AppendMembers ==
    ASSUME NEW S, NEW q \in Seq(S), NEW e \in S
    PROVE  /\ Append(q, e) \in Seq(S)
           /\ Append(q, e) # <<>>
           /\ Range(Append(q, e)) = Range(q) \cup {e}
           /\ IsInjective(q) /\ e \notin Range(q) => IsInjective(Append(q, e))
<1> DEFINE r == Append(q, e)
<1>1. Range(q) = {q[i] : i \in 1 .. Len(q)} /\ Len(q) \in Nat /\ DOMAIN q = 1 .. Len(q)
  BY RangeEquality, LenProperties
<1>2. /\ r \in Seq(S)
      /\ r # <<>>
      /\ Len(r) = Len(q) + 1
      /\ \A i \in 1 .. Len(q) : r[i] = q[i]
      /\ r[Len(q) + 1] = e
  BY AppendProperties
<1> HIDE DEF r
<1>3. Range(r) = {r[i] : i \in 1 .. Len(q) + 1} /\ DOMAIN r = 1 .. Len(q) + 1
  BY <1>2, RangeEquality, LenProperties
<1>4. ASSUME NEW x \in Range(r) PROVE x \in Range(q) \cup {e}
  BY <1>1, <1>2, <1>3
<1>5. ASSUME NEW x \in Range(q) \cup {e} PROVE x \in Range(r)
  <2>1. CASE x = e
    BY <1>1, <1>2, <1>3, <2>1
  <2>2. CASE x \in Range(q)
    BY <1>1, <1>2, <1>3, <2>2
  <2> QED
    BY <2>1, <2>2
<1>6. ASSUME IsInjective(q), e \notin Range(q) PROVE IsInjective(r)
  <2>1. \A i, j \in 1 .. Len(q) : q[i] = q[j] => i = j
    BY <1>1, <1>6 DEF IsInjective
  <2>2. \A i \in 1 .. Len(q) : q[i] # e
    BY <1>1, <1>6
  <2>3. \A i, j \in 1 .. Len(q) + 1 : r[i] = r[j] => i = j
    BY <1>1, <1>2, <2>1, <2>2
  <2> QED
    BY <1>3, <2>3 DEF IsInjective
<1> QED
  BY <1>2, <1>4, <1>5, <1>6 DEF r

(* The front of a non-empty vector is one of its entries.                  *)
LEMMA HeadMember ==
    ASSUME NEW S, NEW q \in Seq(S), q # <<>>
    PROVE  Head(q) \in Range(q) /\ Head(q) \in S
<1>1. Len(q) \in Nat \ {0} /\ Head(q) = q[1] /\ Range(q) = {q[i] : i \in 1 .. Len(q)}
  BY EmptySeq, RangeEquality
<1> QED
  BY <1>1, RangeOfSeq

(* A vector is empty exactly when nobody is in it.                         *)
LEMMA EmptyMembers ==
    ASSUME NEW S, NEW q \in Seq(S)
    PROVE  q = <<>> <=> Range(q) = {}
<1>1. q # <<>> => Range(q) # {}
  BY HeadMember
<1>2. Range(<<>>) = {}
  BY DEF Range
<1> QED
  BY <1>1, <1>2
=============================================================================
