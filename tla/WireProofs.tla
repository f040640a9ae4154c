----------------------------- MODULE WireProofs -----------------------------
(***************************************************************************)
(* Theorems about Wire, for every set of sockets and keys, every number of *)
(* messages under way and every limit on a block.                          *)
(*                                                                         *)
(* What is under way on a connection that is followed (Followed) is in one *)
(* of three phases: no login is, and all use one key; a login is, and      *)
(* nothing is enciphered; or its answer is, and what is behind the answer  *)
(* uses the key that it brings.  The phases are stated of plain values, so *)
(* that what a step does to them is a fact about sequences:                *)
(*   w  "waits" if the peer waits for an answer, "free" if it does not     *)
(*   t  its requests in the block that the server is going through         *)
(*   u  messages up     d  messages down                                   *)
(*   k  the server's key     p  the peer's key                             *)
(***************************************************************************)
EXTENDS Wire, SequenceTheorems, TLAPS

OneKey(u, d, k, p) ==
    /\ p = k
    /\ \A i \in DOMAIN u : u[i].key = k
    /\ \A i \in DOMAIN d : d[i].key = k /\ d[i].body = "text"

Quiet(t, u) ==
    /\ \A i \in DOMAIN t : t[i] # "login"
    /\ \A i \in DOMAIN u : u[i].body # "login"

\* The login is the last request that is not yet served.
LoginLast(t, u) ==
    \/ /\ u # <<>>
       /\ \A i \in DOMAIN t : t[i] # "login"
       /\ \A i \in DOMAIN u : u[i].body = "login" <=> i = Len(u)
    \/ /\ u = <<>> /\ t # <<>>
       /\ \A i \in DOMAIN t : t[i] = "login" <=> i = Len(t)

\* The answer is message j on its way down.
AnswerAt(j, d, k) ==
    /\ d[j].body \in Keys \cup {"refused"}
    /\ k = IF d[j].body \in Keys THEN d[j].body ELSE NoKey
    /\ \A i \in DOMAIN d :
          /\ i # j => d[i].body = "text"
          /\ d[i].key = IF i <= j THEN NoKey ELSE k

Idle(w, t, u, d, k, p) == w = "free" /\ Quiet(t, u) /\ OneKey(u, d, k, p)

Asked(w, t, u, d, k, p) ==
    w = "waits" /\ k = NoKey /\ LoginLast(t, u) /\ OneKey(u, d, k, p)

Answered(w, t, u, d, k, p) ==
    /\ w = "waits" /\ t = <<>> /\ u = <<>> /\ p = NoKey
    /\ \E j \in DOMAIN d : AnswerAt(j, d, k)

Phase(w, t, u, d, k, p) ==
    /\ \A i \in DOMAIN u : u[i].body \in Requests
    /\ \/ Idle(w, t, u, d, k, p)
       \/ Asked(w, t, u, d, k, p)
       \/ Answered(w, t, u, d, k, p)

AnyKey == Keys \cup {NoKey}

-----------------------------------------------------------------------------
(* Positions, in what is left of a sequence and in the whole.              *)

LEMMA Shifted ==
    ASSUME NEW l \in Nat, NEW n \in 1 .. l
    PROVE  /\ l - n \in Nat
           /\ l - n = 0 <=> n = l
           /\ n # l => \A i \in 1 .. n : i # l
           /\ \A i \in 1 .. l - n :
                 i \in Nat /\ i + n \in 1 .. l /\ (i + n = l <=> i = l - n)
OBVIOUS

LEMMA TailResult ==
    ASSUME NEW S, NEW q \in Seq(S), q # <<>>
    PROVE  /\ Tail(q) \in Seq(S)
           /\ Len(Tail(q)) = Len(q) - 1
           /\ Tail(q) = <<>> <=> Len(q) = 1
           /\ \A i \in DOMAIN Tail(q) :
                 /\ i + 1 \in DOMAIN q
                 /\ Tail(q)[i] = q[i + 1]
                 /\ i = Len(Tail(q)) <=> i + 1 = Len(q)
<1>1. Len(q) \in Nat /\ 1 \in 1 .. Len(q) /\ DOMAIN q = 1 .. Len(q)
  BY EmptySeq, LenProperties
<1>2. /\ Tail(q) \in Seq(S) /\ Len(Tail(q)) = Len(q) - 1
      /\ \A i \in 1 .. Len(Tail(q)) : Tail(q)[i] = q[i + 1]
  BY HeadTailProperties
<1>3. DOMAIN Tail(q) = 1 .. Len(q) - 1
  BY <1>2, LenProperties
<1>4. /\ Len(q) - 1 = 0 <=> 1 = Len(q)
      /\ \A i \in 1 .. Len(q) - 1 :
            i + 1 \in 1 .. Len(q) /\ (i + 1 = Len(q) <=> i = Len(q) - 1)
  BY <1>1, Shifted
<1>5. Tail(q) = <<>> <=> Len(Tail(q)) = 0
  BY <1>2, EmptySeq
<1> QED
  BY <1>1, <1>2, <1>3, <1>4, <1>5

LEMMA RestResult ==
    ASSUME NEW S, NEW q \in Seq(S), NEW n \in 1 .. Len(q)
    PROVE  /\ Rest(q, n) \in Seq(S)
           /\ Len(Rest(q, n)) = Len(q) - n
           /\ Rest(q, n) = <<>> <=> n = Len(q)
           /\ \A i \in DOMAIN Rest(q, n) :
                 /\ i \in Nat /\ i + n \in DOMAIN q
                 /\ Rest(q, n)[i] = q[i + n]
                 /\ i = Len(Rest(q, n)) <=> i + n = Len(q)
<1>1. /\ Len(q) \in Nat /\ n \in Nat /\ n >= 1 /\ n <= Len(q)
      /\ \A i \in 1 .. Len(q) : q[i] \in S
  BY LenProperties
<1>2. \A i \in n + 1 .. Len(q) : q[i] \in S
  BY <1>1
<1>3. /\ SubSeq(q, n + 1, Len(q)) \in Seq(S)
      /\ Len(SubSeq(q, n + 1, Len(q)))
            = IF n + 1 <= Len(q) THEN Len(q) - (n + 1) + 1 ELSE 0
      /\ \A i \in 1 .. Len(q) - (n + 1) + 1 :
            SubSeq(q, n + 1, Len(q))[i] = q[n + 1 + i - 1]
  <2>1. n + 1 \in Int /\ Len(q) \in Int
    BY <1>1
  <2> QED
    BY <1>2, <2>1, SubSeqProperties
<1>4. Rest(q, n) \in Seq(S) /\ Len(Rest(q, n)) = Len(q) - n
  BY <1>1, <1>3 DEF Rest
<1>5. ASSUME NEW i \in 1 .. Len(q) - n
      PROVE  Rest(q, n)[i] = q[i + n]
  <2>1. i \in 1 .. Len(q) - (n + 1) + 1 /\ n + 1 + i - 1 = i + n
    BY <1>1
  <2> QED
    BY <1>3, <2>1 DEF Rest
<1>6. DOMAIN Rest(q, n) = 1 .. Len(q) - n
  BY <1>4, LenProperties
<1>7. Rest(q, n) = <<>> <=> Len(Rest(q, n)) = 0
  BY <1>4, EmptySeq
<1>8. DOMAIN q = 1 .. Len(q)
  BY LenProperties
<1>9. /\ Len(q) - n = 0 <=> n = Len(q)
      /\ \A i \in 1 .. Len(q) - n :
            /\ i \in Nat /\ i + n \in 1 .. Len(q)
            /\ i + n = Len(q) <=> i = Len(q) - n
  BY <1>1, Shifted
<1> QED
  BY <1>4, <1>5, <1>6, <1>7, <1>8, <1>9

-----------------------------------------------------------------------------
(* What the phases make of a message more or less.                         *)

Texts(n, k) == [i \in 1 .. n |-> [key |-> k, body |-> "text"]]

LEMMA TextsAdded ==
    ASSUME NEW d \in Seq(Message), NEW k \in AnyKey, NEW n \in Nat
    PROVE  /\ d \o Texts(n, k) \in Seq(Message)
           /\ Len(d) \in Nat /\ DOMAIN d = 1 .. Len(d)
           /\ DOMAIN (d \o Texts(n, k)) = 1 .. Len(d) + n
           /\ \A i \in 1 .. Len(d) : (d \o Texts(n, k))[i] = d[i]
           /\ \A i \in 1 .. Len(d) + n : i \notin 1 .. Len(d) =>
                 (d \o Texts(n, k))[i] = [key |-> k, body |-> "text"]
<1>1. [key |-> k, body |-> "text"] \in Message
  BY DEF Message, Reply, AnyKey
<1>2. Texts(n, k) \in Seq(Message) /\ Len(Texts(n, k)) = n
  BY <1>1 DEF Texts
<1>3. \A i \in 1 .. n : Texts(n, k)[i] = [key |-> k, body |-> "text"]
  BY DEF Texts
<1>4. Len(d) \in Nat /\ DOMAIN d = 1 .. Len(d)
  BY LenProperties
<1>5. /\ d \o Texts(n, k) \in Seq(Message)
      /\ Len(d \o Texts(n, k)) = Len(d) + n
      /\ \A i \in 1 .. Len(d) + n :
            (d \o Texts(n, k))[i] = IF i <= Len(d) THEN d[i]
                                   ELSE Texts(n, k)[i - Len(d)]
  BY <1>2, ConcatProperties
<1>6. DOMAIN (d \o Texts(n, k)) = 1 .. Len(d) + n
  BY <1>5, LenProperties
<1>7. \A i \in 1 .. Len(d) : i \in 1 .. Len(d) + n /\ i <= Len(d)
  BY <1>4
<1>8. ASSUME NEW i \in 1 .. Len(d) + n, i \notin 1 .. Len(d)
      PROVE  (d \o Texts(n, k))[i] = [key |-> k, body |-> "text"]
  <2>1. ~(i <= Len(d)) /\ i - Len(d) \in 1 .. n
    BY <1>4, <1>8
  <2> QED
    BY <1>3, <1>5, <2>1
<1> QED
  BY <1>4, <1>5, <1>6, <1>7, <1>8

LEMMA TextKeepsPhase ==
    ASSUME NEW w, NEW t \in Seq(Requests), NEW u \in Seq(Message),
           NEW d \in Seq(Message), NEW k \in AnyKey, NEW p \in AnyKey,
           Phase(w, t, u, d, k, p), NEW n \in Nat
    PROVE  Phase(w, t, u, d \o Texts(n, k), k, p)
<1> DEFINE e == d \o Texts(n, k)
<1>1. /\ DOMAIN d = 1 .. Len(d) /\ DOMAIN e = 1 .. Len(d) + n /\ Len(d) \in Nat
      /\ \A i \in 1 .. Len(d) : e[i] = d[i]
      /\ \A i \in 1 .. Len(d) + n : i \notin 1 .. Len(d) =>
            e[i] = [key |-> k, body |-> "text"]
  BY TextsAdded
<1> HIDE DEF e
<1>2. OneKey(u, d, k, p) => OneKey(u, e, k, p)
  BY <1>1 DEF OneKey
<1>3. ASSUME NEW j \in DOMAIN d, AnswerAt(j, d, k)
      PROVE  j \in DOMAIN e /\ AnswerAt(j, e, k)
  BY <1>1, <1>3 DEF AnswerAt
<1> QED
  BY <1>2, <1>3 DEF Phase, Idle, Asked, Answered, e

\* A request that is no login is served.
LEMMA OtherKeepsPhase ==
    ASSUME NEW w, NEW t \in Seq(Requests), NEW u \in Seq(Message),
           NEW d \in Seq(Message), NEW k \in AnyKey, NEW p \in AnyKey,
           Phase(w, t, u, d, k, p), t # <<>>, Head(t) # "login"
    PROVE  Phase(w, Tail(t), u, d, k, p)
<1>1. /\ Len(t) \in Nat \ {0} /\ DOMAIN t = 1 .. Len(t)
      /\ t[1] # "login"
  BY EmptySeq, LenProperties
<1>2. Tail(t) = <<>> <=> Len(t) = 1
  BY TailResult
<1>3. \A i \in DOMAIN Tail(t) :
         /\ i + 1 \in DOMAIN t /\ Tail(t)[i] = t[i + 1]
         /\ i = Len(Tail(t)) <=> i + 1 = Len(t)
  BY TailResult
<1>4. Quiet(t, u) => Quiet(Tail(t), u)
  BY <1>3 DEF Quiet
<1>5. ASSUME LoginLast(t, u)
      PROVE  LoginLast(Tail(t), u)
  <2>1. CASE u # <<>>
    BY <1>3, <1>5, <2>1 DEF LoginLast
  <2>2. CASE u = <<>>
    <3>1. t[Len(t)] = "login" /\ Len(t) # 1
      BY <1>1, <1>5, <2>2 DEF LoginLast
    <3>2. \A i \in DOMAIN Tail(t) : Tail(t)[i] = "login" <=> i = Len(Tail(t))
      BY <1>3, <1>5, <2>2 DEF LoginLast
    <3> QED
      BY <1>2, <2>2, <3>1, <3>2 DEF LoginLast
  <2> QED
    BY <2>1, <2>2
<1> QED
  BY <1>4, <1>5 DEF Phase, Idle, Asked, Answered

\* A login is only served in the phase it makes, as the last of all requests.
LEMMA LoginIsLast ==
    ASSUME NEW w, NEW t \in Seq(Requests), NEW u \in Seq(Message),
           NEW d \in Seq(Message), NEW k \in AnyKey, NEW p \in AnyKey,
           Phase(w, t, u, d, k, p), t # <<>>, Head(t) = "login"
    PROVE  Len(t) = 1 /\ u = <<>> /\ Asked(w, t, u, d, k, p)
<1>1. Len(t) \in Nat \ {0} /\ DOMAIN t = 1 .. Len(t) /\ t[1] = "login"
  OBVIOUS
<1>2. ~Quiet(t, u)
  BY <1>1 DEF Quiet
<1>3. LoginLast(t, u) => Len(t) = 1 /\ u = <<>>
  BY <1>1 DEF LoginLast
<1> QED
  BY <1>2, <1>3 DEF Phase, Idle, Asked, Answered

LEMMA AnswerMakesPhase ==
    ASSUME NEW w, NEW t \in Seq(Requests), NEW d \in Seq(Message),
           NEW p \in AnyKey, Asked(w, t, <<>>, d, NoKey, p),
           NEW answer \in Keys \cup {"refused"}, NEW k \in AnyKey,
           k = IF answer \in Keys THEN answer ELSE NoKey
    PROVE  Phase(w, <<>>, <<>>, Append(d, [key |-> NoKey, body |-> answer]), k, p)
<1> DEFINE e == Append(d, [key |-> NoKey, body |-> answer])
           j == Len(d) + 1
<1>1. /\ DOMAIN d = 1 .. Len(d) /\ DOMAIN e = 1 .. j /\ Len(d) \in Nat
      /\ \A i \in 1 .. Len(d) : e[i] = d[i]
      /\ e[j].key = NoKey /\ e[j].body = answer
  OBVIOUS
<1> HIDE DEF e
<1>2. AnswerAt(j, e, k)
  BY <1>1 DEF AnswerAt, Asked, OneKey
<1>3. p = NoKey /\ w = "waits"
  BY DEF Asked, OneKey
<1>4. Answered(w, <<>>, <<>>, e, k, p)
  BY <1>1, <1>2, <1>3 DEF Answered
<1> QED
  BY <1>4 DEF Phase, e

\* A login is served: its answer goes under the key of before.
LEMMA LoginKeepsPhase ==
    ASSUME NEW w, NEW t \in Seq(Requests), NEW u \in Seq(Message),
           NEW d \in Seq(Message), NEW k0 \in AnyKey, NEW p \in AnyKey,
           Phase(w, t, u, d, k0, p), t # <<>>, Head(t) = "login",
           NEW answer \in Keys \cup {"refused"}, NEW k \in AnyKey,
           k = IF answer \in Keys THEN answer ELSE NoKey
    PROVE  /\ k0 = NoKey
           /\ Phase(w, Tail(t), u, Append(d, [key |-> k0, body |-> answer]), k, p)
<1>1. Len(t) = 1 /\ u = <<>> /\ Asked(w, t, u, d, k0, p)
  BY LoginIsLast
<1>2. Tail(t) = <<>> /\ k0 = NoKey
  BY <1>1, TailResult DEF Asked
<1>3. Asked(w, t, <<>>, d, NoKey, p)
  BY <1>1, <1>2
<1>4. Phase(w, <<>>, <<>>, Append(d, [key |-> NoKey, body |-> answer]), k, p)
  BY <1>3, AnswerMakesPhase
<1> QED
  BY <1>1, <1>2, <1>4

LEMMA NothingIsIdle == Phase("free", <<>>, <<>>, <<>>, NoKey, NoKey)
BY DEF Phase, Idle, Quiet, OneKey

LEMMA BlockResult ==
    ASSUME NEW S, NEW q \in Seq(S), NEW n \in 1 .. Len(q)
    PROVE  /\ SubSeq(q, 1, n) \in Seq(S)
           /\ Len(SubSeq(q, 1, n)) = n
           /\ DOMAIN SubSeq(q, 1, n) = 1 .. n
           /\ \A i \in 1 .. n : SubSeq(q, 1, n)[i] = q[i]
OBVIOUS

\* The first n requests of those under way.
Parts(u, n) == [i \in 1 .. n |-> u[i].body]

\* A block of requests is read as it was sent.
LEMMA BlockReadWhole ==
    ASSUME NEW w, NEW u \in Seq(Message), NEW d \in Seq(Message),
           NEW k \in AnyKey, NEW p \in AnyKey,
           Phase(w, <<>>, u, d, k, p), NEW n \in 1 .. Len(u), Whole(u, n),
           n < MaxTokens
    PROVE  /\ ReadWith(SubSeq(u, 1, n), k) \in Seq(Requests)
           /\ 1 \in DOMAIN ReadWith(SubSeq(u, 1, n), k)
           /\ Phase(w, ReadWith(SubSeq(u, 1, n), k), Rest(u, n), d, k, p)
<1> DEFINE block == SubSeq(u, 1, n)
           parts == Parts(u, n)
<1>1. /\ Len(u) \in Nat /\ DOMAIN u = 1 .. Len(u)
      /\ n \in Nat /\ n >= 1 /\ n <= Len(u) /\ u # <<>>
  OBVIOUS
<1>2. ~Answered(w, <<>>, u, d, k, p) /\ OneKey(u, d, k, p)
  BY <1>1 DEF Answered, Phase, Idle, Asked
<1>3. Legible(block, k)
  BY <1>1, <1>2, BlockResult DEF Legible, Whole, OneKey
<1>4. Bodies(block) = parts
  BY BlockResult DEF Bodies, Parts
<1>5. parts \in Seq(Requests) /\ Len(parts) = n /\ DOMAIN parts = 1 .. n
  BY <1>1 DEF Phase, Parts
<1>6. Split(parts) = parts
  BY <1>5, BoundsAssumption DEF Split
<1>7. ReadWith(block, k) = parts
  BY <1>3, <1>4, <1>6 DEF ReadWith
<1>8. Rest(u, n) = <<>> <=> n = Len(u)
  BY RestResult
<1> HIDE DEF parts
<1>9. \A i \in DOMAIN parts : i \in DOMAIN u /\ parts[i] = u[i].body
  BY <1>1, <1>5 DEF parts, Parts
<1>10. \A i \in DOMAIN Rest(u, n) :
          /\ i + n \in DOMAIN u /\ Rest(u, n)[i] = u[i + n]
          /\ i = Len(Rest(u, n)) <=> i + n = Len(u)
  BY RestResult
<1>11. OneKey(Rest(u, n), d, k, p)
  BY <1>2, <1>10 DEF OneKey
<1>12. \A i \in DOMAIN Rest(u, n) : Rest(u, n)[i].body \in Requests
  BY <1>10 DEF Phase
<1>13. ASSUME Quiet(<<>>, u)
       PROVE  Quiet(parts, Rest(u, n))
  BY <1>9, <1>10, <1>13 DEF Quiet
<1>14. ASSUME LoginLast(<<>>, u)
       PROVE  LoginLast(parts, Rest(u, n))
  <2>1. \A i \in DOMAIN u : u[i].body = "login" <=> i = Len(u)
    BY <1>14 DEF LoginLast
  <2>2. CASE n = Len(u)
    <3>1. \A i \in DOMAIN parts : parts[i] = "login" <=> i = Len(parts)
      BY <1>5, <1>9, <2>1, <2>2
    <3> QED
      BY <1>1, <1>5, <1>8, <2>2, <3>1, EmptySeq DEF LoginLast
  <2>3. CASE n # Len(u)
    <3>1. \A i \in DOMAIN Rest(u, n) :
             Rest(u, n)[i].body = "login" <=> i = Len(Rest(u, n))
      BY <1>10, <2>1
    <3>2. ASSUME NEW i \in DOMAIN parts
          PROVE  parts[i] # "login"
      <4>1. i # Len(u)
        BY <1>1, <1>5, <2>3, Shifted
      <4> QED
        BY <1>9, <2>1, <4>1
    <3> QED
      BY <1>8, <2>3, <3>1, <3>2 DEF LoginLast
  <2> QED
    BY <2>2, <2>3
<1>15. Phase(w, parts, Rest(u, n), d, k, p)
  BY <1>2, <1>11, <1>12, <1>13, <1>14 DEF Phase, Idle, Asked
<1> QED
  BY <1>1, <1>5, <1>7, <1>9, <1>15

LEMMA SendKeepsPhase ==
    ASSUME NEW t \in Seq(Requests), NEW u \in Seq(Message),
           NEW d \in Seq(Message), NEW k \in AnyKey, NEW p \in AnyKey,
           Phase("free", t, u, d, k, p),
           NEW body \in Requests, body = "login" => p = NoKey
    PROVE  Phase(IF body = "login" THEN "waits" ELSE "free", t, Append(u, [key |-> p, body |-> body]), d, k, p)
<1> DEFINE v == Append(u, [key |-> p, body |-> body])
<1>1. /\ DOMAIN u = 1 .. Len(u) /\ DOMAIN v = 1 .. Len(u) + 1 /\ Len(u) \in Nat
      /\ Len(v) = Len(u) + 1 /\ v # <<>>
      /\ \A i \in 1 .. Len(u) : v[i] = u[i]
      /\ v[Len(u) + 1].key = p /\ v[Len(u) + 1].body = body
  OBVIOUS
<1> HIDE DEF v
<1>2. Quiet(t, u) /\ OneKey(u, d, k, p)
  BY DEF Phase, Idle, Asked, Answered
<1>3. OneKey(v, d, k, p)
  BY <1>1, <1>2 DEF OneKey
<1>4. \A i \in DOMAIN v : v[i].body \in Requests
  BY <1>1 DEF Phase
<1>5. CASE body = "login"
  <2>1. LoginLast(t, v)
    BY <1>1, <1>2, <1>5 DEF LoginLast, Quiet
  <2> QED
    BY <1>2, <1>3, <1>4, <1>5, <2>1 DEF Phase, Asked, OneKey, v
<1>6. CASE body # "login"
  <2>1. Quiet(t, v)
    BY <1>1, <1>2, <1>6 DEF Quiet
  <2> QED
    BY <1>3, <1>4, <1>6, <2>1 DEF Phase, Idle, v
<1> QED
  BY <1>5, <1>6

\* What a peer makes of the first n messages.
Heard(d, n, p) ==
    IF Legible(SubSeq(d, 1, n), p)
    THEN {SubSeq(d, 1, n)[i].body : i \in 1 .. n} ELSE {}

LEMMA ReadKeepsPhase ==
    ASSUME NEW w, NEW t \in Seq(Requests), NEW u \in Seq(Message),
           NEW d \in Seq(Message), NEW k \in AnyKey, NEW p \in AnyKey,
           Phase(w, t, u, d, k, p), NEW n \in 1 .. Len(d), Whole(d, n),
           NEW w2, NEW p2,
           w2 = IF Heard(d, n, p) \subseteq {"text"} THEN w ELSE "free",
           \/ \E key \in Keys \cap Heard(d, n, p) : p2 = key
           \/ Keys \cap Heard(d, n, p) = {} /\ p2 = p
    PROVE  Phase(w2, t, u, Rest(d, n), k, p2)
<1> DEFINE r == Rest(d, n)
           heard == Heard(d, n, p)
<1>1. /\ Len(d) \in Nat /\ DOMAIN d = 1 .. Len(d) /\ n \in Nat
      /\ \A i \in 1 .. n : i \in DOMAIN d
  BY LenProperties
<1>2. \A i \in DOMAIN r : i \in Nat /\ i + n \in DOMAIN d /\ r[i] = d[i + n]
  BY RestResult
<1>3. /\ DOMAIN SubSeq(d, 1, n) = 1 .. n /\ Len(SubSeq(d, 1, n)) = n
      /\ \A i \in 1 .. n : SubSeq(d, 1, n)[i] = d[i]
  BY BlockResult
<1>4. ASSUME \A i \in 1 .. n : d[i].key = p
      PROVE  heard = {d[i].body : i \in 1 .. n}
  <2>1. p = NoKey \/ n = 1
    BY <1>1, <1>4 DEF Whole
  <2>2. Legible(SubSeq(d, 1, n), p)
    BY <1>3, <1>4, <2>1 DEF Legible
  <2> QED
    BY <1>3, <2>2 DEF Heard
<1> HIDE DEF r, heard
<1>5. CASE OneKey(u, d, k, p)
  <2>1. \A i \in 1 .. n : d[i].key = p /\ d[i].body = "text"
    BY <1>1, <1>5 DEF OneKey
  <2>2. heard \subseteq {"text"}
    BY <1>4, <2>1
  <2>3. w2 = w /\ p2 = p
    BY <2>2, KeysAssumption DEF heard
  <2>4. OneKey(u, r, k, p)
    BY <1>2, <1>5 DEF OneKey
  <2>5. ~Answered(w, t, u, d, k, p) => Phase(w, t, u, r, k, p)
    BY <2>4 DEF Phase, Idle, Asked
  <2>6. ~Answered(w, t, u, d, k, p)
    BY <1>5, KeysAssumption DEF Answered, AnswerAt, OneKey
  <2> QED
    BY <2>3, <2>5, <2>6 DEF r
<1>6. CASE Answered(w, t, u, d, k, p)
  <2>1. PICK j \in DOMAIN d : AnswerAt(j, d, k)
    BY <1>6 DEF Answered
  <2>2. j \in Nat /\ j >= 1
    BY <1>1
  <2>3. p = NoKey /\ t = <<>> /\ u = <<>> /\ w = "waits"
    BY <1>6 DEF Answered
  <2>4. CASE n < j
    <3>1. \A i \in 1 .. n : i # j /\ i <= j
      BY <1>1, <2>2, <2>4
    <3>2. \A i \in 1 .. n : d[i].key = p /\ d[i].body = "text"
      BY <1>1, <2>1, <2>3, <3>1 DEF AnswerAt
    <3>3. heard \subseteq {"text"}
      BY <1>4, <3>2
    <3>4. w2 = w /\ p2 = p
      BY <3>3, KeysAssumption DEF heard
    <3>5. j - n \in DOMAIN r /\ r[j - n] = d[j]
      <4>1. Len(r) = Len(d) - n /\ DOMAIN r = 1 .. Len(r)
        BY RestResult, LenProperties DEF r
      <4>2. j - n \in 1 .. Len(d) - n /\ (j - n) + n = j
        BY <1>1, <2>2, <2>4
      <4> QED
        BY <1>2, <4>1, <4>2
    <3>6. \A i \in DOMAIN r : (i # j - n <=> i + n # j) /\ (i <= j - n <=> i + n <= j)
      BY <1>1, <1>2, <2>2
    <3>7. AnswerAt(j - n, r, k)
      BY <1>2, <2>1, <3>5, <3>6 DEF AnswerAt
    <3>8. Answered(w, t, u, r, k, p)
      BY <2>3, <3>5, <3>7 DEF Answered
    <3> QED
      BY <2>3, <3>4, <3>8 DEF Phase, r
  <2>5. CASE j \in 1 .. n /\ d[j].body \in Keys
    <3>1. k = d[j].body /\ k # NoKey
      BY <2>1, <2>5, KeysAssumption DEF AnswerAt
    <3>2. n = j
      <4>1. j # n => j + 1 \in 1 .. n /\ ~(j + 1 <= j)
        BY <1>1, <2>2, <2>5
      <4>2. j # n => d[j + 1].key = k
        BY <1>1, <2>1, <4>1 DEF AnswerAt
      <4>3. n = 1 \/ \A i \in 1 .. n : d[i].key = NoKey
        BY DEF Whole
      <4>4. n = 1 => j = n
        BY <1>1, <2>2, <2>5
      <4> QED
        BY <3>1, <4>1, <4>2, <4>3, <4>4
    <3>3. \A i \in 1 .. n : i <= j
      BY <1>1, <3>2
    <3>4. heard = {d[i].body : i \in 1 .. n}
      BY <1>1, <1>4, <2>1, <2>3, <3>3 DEF AnswerAt
    <3>5. d[j].body \in heard /\ ~(heard \subseteq {"text"})
      BY <2>5, <3>4, KeysAssumption
    <3>6. Keys \cap heard = {k}
      BY <1>1, <2>1, <2>5, <3>1, <3>4, <3>5, KeysAssumption DEF AnswerAt
    <3>7. w2 = "free" /\ p2 = k
      BY <3>5, <3>6 DEF heard
    <3>8. \A i \in DOMAIN r : i + n # j /\ ~(i + n <= j)
      <4> TAKE i \in DOMAIN r
      <4>1. i \in 1 .. Len(r)
        BY RestResult, LenProperties DEF r
      <4> QED
        BY <1>1, <3>2, <4>1
    <3>9. OneKey(u, r, k, k)
      BY <1>2, <2>1, <2>3, <3>8 DEF OneKey, AnswerAt
    <3> QED
      BY <2>3, <3>7, <3>9 DEF Phase, Idle, Quiet, r
  <2>6. CASE j \in 1 .. n /\ d[j].body \notin Keys
    <3>1. k = NoKey /\ d[j].body = "refused"
      BY <2>1, <2>6 DEF AnswerAt
    <3>2. \A i \in 1 .. n : d[i].key = p /\ d[i].body \in {"text", "refused"}
      BY <1>1, <2>1, <2>3, <3>1 DEF AnswerAt
    <3>3. heard = {d[i].body : i \in 1 .. n}
      BY <1>4, <3>2
    <3>4. "refused" \in heard /\ Keys \cap heard = {}
      BY <2>6, <3>1, <3>2, <3>3, KeysAssumption
    <3>5. w2 = "free" /\ p2 = k
      BY <2>3, <3>1, <3>4 DEF heard
    <3>6. \A i \in DOMAIN r : i + n # j
      <4> TAKE i \in DOMAIN r
      <4>1. i \in 1 .. Len(r)
        BY RestResult, LenProperties DEF r
      <4> QED
        BY <1>1, <2>2, <2>6, <4>1
    <3>7. OneKey(u, r, k, k)
      BY <1>2, <2>1, <2>3, <3>1, <3>6 DEF OneKey, AnswerAt
    <3> QED
      BY <2>3, <3>5, <3>7 DEF Phase, Idle, Quiet, r
  <2> QED
    BY <1>1, <2>2, <2>4, <2>5, <2>6
<1> QED
  BY <1>5, <1>6 DEF Phase, Idle, Asked

-----------------------------------------------------------------------------
(* Every connection that is followed is in a phase, and every key that is  *)
(* kept for a closed socket is accounted for, in every reachable state.    *)

Mood(s) == IF s \in waiting THEN "waits" ELSE "free"
Pending(s) == IF reading = s THEN token ELSE <<>>

PhaseOf(s) ==
    Phase(Mood(s), Pending(s), up[s], down[s], m_CryptInfo[s], peerKey[s])

\* A handler may go on with a deleted socket, but only by leaving a key.
KeysKept ==
    /\ reading # NoSock => reading \in m_UserList \cup keyLeft
    /\ \A s \in Socks \ m_UserList : m_CryptInfo[s] # NoKey => s \in keyLeft

WireSound ==
    /\ KeysKept
    /\ reading \in Followed => token \in Seq(Requests)
    /\ \A s \in Followed : PhaseOf(s)

LEMMA FollowedIsOpen ==
    ASSUME TypeOK, NEW s \in Followed
    PROVE  s \in Socks /\ s \in m_UserList /\ s \in intact /\ s # NoSock
BY NoSockAssumption DEF TypeOK, Followed

LEMMA QuestionsAreMessages == \A u \in Seq(Question) : u \in Seq(Message)
<1>1. Question \subseteq Message
  BY DEF Question, Message
<1> QED
  BY <1>1

LEMMA PendingTyped ==
    ASSUME TypeOK, WireSound, NEW s \in Followed
    PROVE  /\ Pending(s) \in Seq(Requests)
           /\ up[s] \in Seq(Message) /\ down[s] \in Seq(Message)
           /\ m_CryptInfo[s] \in AnyKey /\ peerKey[s] \in AnyKey
<1>1. <<>> \in Seq(Requests)
  OBVIOUS
<1>2. up[s] \in Seq(Question)
  BY FollowedIsOpen DEF TypeOK
<1>3. up[s] \in Seq(Message)
  BY <1>2, QuestionsAreMessages
<1> QED
  BY <1>1, <1>3, FollowedIsOpen DEF TypeOK, WireSound, Pending, AnyKey

\* The texts somebody may be told.
LEMMA ToldResult ==
    ASSUME TypeOK, NEW news \in Audience
    PROVE  /\ Told(news) \in [Socks -> Seq(Message)]
           /\ \A s \in Socks :
                 /\ news[s] \in Nat
                 /\ Told(news)[s] = down[s] \o Texts(news[s], m_CryptInfo[s])
           /\ \A s \in Socks \ intact : Told(news)[s] = down[s]
<1>1. ASSUME NEW s \in Socks
      PROVE  /\ news[s] \in Nat
             /\ Told(news)[s] = down[s] \o Texts(news[s], m_CryptInfo[s])
             /\ Told(news)[s] \in Seq(Message)
             /\ s \notin intact => Told(news)[s] = down[s]
  <2>1. down[s] \in Seq(Message) /\ m_CryptInfo[s] \in AnyKey
    BY DEF TypeOK, AnyKey
  <2>2. news[s] \in Nat /\ (s \notin intact => ~(news[s] > 0))
    BY BoundsAssumption DEF Audience
  <2>3. Told(news)[s] = down[s] \o Texts(news[s], m_CryptInfo[s])
    BY DEF Told, Texts, SendData
  <2>4. Told(news)[s] \in Seq(Message)
    BY <2>1, <2>2, <2>3, TextsAdded
  <2>5. ASSUME s \notin intact
        PROVE  Told(news)[s] = down[s]
    <3>1. news[s] = 0
      BY <2>2, <2>5
    <3>2. Texts(0, m_CryptInfo[s]) = <<>>
      BY DEF Texts
    <3> QED
      BY <2>1, <2>3, <3>1, <3>2, ConcatEmptySeq
  <2> QED
    BY <2>2, <2>3, <2>4, <2>5
<1>2. Told(news) = [s \in Socks |-> Told(news)[s]]
  BY DEF Told
<1> QED
  BY <1>1, <1>2

LEMMA ToldKeepsPhase ==
    ASSUME TypeOK, WireSound, NEW news \in Audience, NEW s \in Followed
    PROVE  Phase(Mood(s), Pending(s), up[s], Told(news)[s], m_CryptInfo[s], peerKey[s])
<1>1. news[s] \in Nat /\ Told(news)[s] = down[s] \o Texts(news[s], m_CryptInfo[s])
  BY FollowedIsOpen, ToldResult
<1>2. Phase(Mood(s), Pending(s), up[s], down[s], m_CryptInfo[s], peerKey[s])
  BY DEF WireSound, PhaseOf
<1> QED
  BY <1>1, <1>2, PendingTyped, TextKeepsPhase

\* Nothing that the phase of s depends on has changed.
LEMMA SamePhase ==
    ASSUME NEW s, PhaseOf(s),
           s \in waiting' <=> s \in waiting, Pending(s)' = Pending(s),
           up'[s] = up[s], down'[s] = down[s],
           m_CryptInfo'[s] = m_CryptInfo[s], peerKey'[s] = peerKey[s]
    PROVE  PhaseOf(s)'
<1>1. Mood(s)' = Mood(s)
  BY DEF Mood
<1> QED
  BY <1>1 DEF PhaseOf

\* A connection that is not, or no longer, followed message by message.
LEMMA UnfollowedResult ==
    ASSUME TypeOK, NEW t \in Socks, Unfollowed(t),
           m_UserList' = m_UserList \/ m_UserList' = m_UserList \ {t},
           NEW wire \in [Socks -> Seq(Message)], down' = Cut(wire, t),
           \A s \in Socks \ intact : wire[s] = <<>>
    PROVE  /\ waiting' \subseteq intact' /\ intact' \subseteq m_UserList'
           /\ intact' = intact \ {t}
           /\ m_UserList' \subseteq Socks
           /\ up' \in [Socks -> Seq(Question)] /\ down' \in [Socks -> Seq(Message)]
           /\ peerKey' \in [Socks -> Keys \cup {NoKey}]
           /\ \A s \in Socks \ intact' :
                 up'[s] = <<>> /\ down'[s] = <<>> /\ peerKey'[s] = NoKey
           /\ \A s \in Socks \ {t} :
                 /\ s \in waiting' <=> s \in waiting
                 /\ up'[s] = up[s] /\ down'[s] = wire[s] /\ peerKey'[s] = peerKey[s]
<1>1. <<>> \in Seq(Message) /\ <<>> \in Seq(Question)
  OBVIOUS
<1>2. /\ down' \in [Socks -> Seq(Message)]
      /\ \A s \in Socks : down'[s] = IF s = t THEN <<>> ELSE wire[s]
  BY <1>1 DEF Cut
<1>3. /\ up' \in [Socks -> Seq(Question)]
      /\ \A s \in Socks : up'[s] = IF s = t THEN <<>> ELSE up[s]
  BY <1>1 DEF Unfollowed, Cut, TypeOK
<1>4. /\ peerKey' \in [Socks -> Keys \cup {NoKey}]
      /\ \A s \in Socks : peerKey'[s] = IF s = t THEN NoKey ELSE peerKey[s]
  BY DEF Unfollowed, TypeOK
<1>5. intact' = intact \ {t} /\ waiting' = waiting \ {t}
  BY DEF Unfollowed
<1> QED
  BY <1>2, <1>3, <1>4, <1>5 DEF TypeOK

LEMMA AcceptKeeps ==
    ASSUME TypeOK, WireSound, NEW s \in Socks, AcceptClient(s)
    PROVE  TypeOK' /\ WireSound'
<1>1. TypeOK'
  BY DEF TypeOK, AcceptClient
<1>2. KeysKept'
  BY DEF WireSound, KeysKept, AcceptClient
<1>3. reading = NoSock /\ reading' = NoSock /\ \A c \in Socks : c # NoSock
  BY NoSockAssumption DEF AcceptClient
<1>4. NoSock \notin Followed'
  BY <1>1, NoSockAssumption DEF TypeOK, Followed
<1>5. ASSUME NEW c \in Followed'
      PROVE  PhaseOf(c)'
  <2>1. c \in Socks /\ Pending(c) = <<>> /\ Pending(c)' = <<>>
    BY <1>1, <1>3 DEF TypeOK, Followed, Pending
  <2>2. CASE c \in Followed
    BY <2>1, <2>2, SamePhase DEF WireSound, AcceptClient
  <2>3. CASE c \notin Followed
    <3>1. c = s /\ c \notin intact /\ c \notin m_UserList /\ c \notin keyLeft
      BY <2>3 DEF AcceptClient, Followed, TypeOK
    <3>2. m_CryptInfo[c] = NoKey
      BY <2>1, <3>1 DEF WireSound, KeysKept
    <3>3. up[c] = <<>> /\ down[c] = <<>> /\ peerKey[c] = NoKey /\ c \notin waiting
      BY <2>1, <3>1 DEF TypeOK
    <3> QED
      BY <2>1, <3>2, <3>3, NothingIsIdle DEF PhaseOf, Mood, AcceptClient
  <2> QED
    BY <2>2, <2>3
<1> QED
  BY <1>1, <1>2, <1>3, <1>4, <1>5 DEF WireSound

LEMMA RestartKeeps ==
    ASSUME Restart
    PROVE  TypeOK' /\ WireSound'
<1>1. /\ <<>> \in Seq(Requests \cup {"garbled"}) /\ <<>> \in Seq(Message)
      /\ <<>> \in Seq(Question)
  OBVIOUS
<1>2. TypeOK'
  BY <1>1 DEF TypeOK, Restart
<1> QED
  BY <1>2 DEF WireSound, KeysKept, Followed, Restart

LEMMA OnCloseKeeps ==
    ASSUME TypeOK, WireSound, NEW s \in Socks, OnClose(s)
    PROVE  TypeOK' /\ WireSound'
<1>1. PICK news \in Audience : down' = Cut(Told(news), s)
  BY DEF OnClose
<1>2. /\ Told(news) \in [Socks -> Seq(Message)]
      /\ \A c \in Socks \ intact : Told(news)[c] = <<>>
  BY ToldResult DEF TypeOK
<1>3. Unfollowed(s) /\ m_UserList' = m_UserList \ {s}
  BY DEF OnClose, Closed
<1>4. /\ waiting' \subseteq intact' /\ intact' \subseteq m_UserList'
      /\ intact' = intact \ {s} /\ m_UserList' \subseteq Socks
      /\ up' \in [Socks -> Seq(Question)] /\ down' \in [Socks -> Seq(Message)]
      /\ peerKey' \in [Socks -> Keys \cup {NoKey}]
      /\ \A c \in Socks \ intact' :
            up'[c] = <<>> /\ down'[c] = <<>> /\ peerKey'[c] = NoKey
      /\ \A c \in Socks \ {s} :
            /\ c \in waiting' <=> c \in waiting
            /\ up'[c] = up[c] /\ down'[c] = Told(news)[c] /\ peerKey'[c] = peerKey[c]
  BY <1>1, <1>2, <1>3, UnfollowedResult
<1>5. /\ m_CryptInfo' \in [Socks -> Keys \cup {NoKey}] /\ m_CryptInfo'[s] = NoKey
      /\ \A c \in Socks \ {s} : m_CryptInfo'[c] = m_CryptInfo[c]
      /\ keyLeft' = keyLeft \ {s}
  BY DEF OnClose, KeysWithout, TypeOK
<1>6. reading = NoSock /\ reading' = reading /\ token' = token /\ status' = status
  BY DEF OnClose
<1>7. TypeOK'
  BY <1>4, <1>5, <1>6 DEF TypeOK
<1>8. KeysKept'
  BY <1>3, <1>5, <1>6 DEF WireSound, KeysKept
<1>9. ASSUME NEW c \in Followed'
      PROVE  PhaseOf(c)'
  <2>1. c \in Followed /\ c # s /\ c \in Socks \ {s} /\ c # NoSock
    BY <1>4, <1>5, FollowedIsOpen DEF Followed
  <2>2. Pending(c)' = Pending(c) /\ Mood(c)' = Mood(c)
    BY <1>4, <1>6, <2>1 DEF Pending, Mood
  <2>3. Phase(Mood(c), Pending(c), up[c], Told(news)[c], m_CryptInfo[c], peerKey[c])
    BY <2>1, ToldKeepsPhase
  <2> QED
    BY <1>4, <1>5, <2>1, <2>2, <2>3 DEF PhaseOf
<1>10. NoSock \notin Followed'
  BY <1>7, NoSockAssumption DEF TypeOK, Followed
<1> QED
  BY <1>6, <1>7, <1>8, <1>9, <1>10 DEF WireSound

LEMMA NoiseResult ==
    ASSUME NEW q \in Noise
    PROVE  q \in Seq(Requests) /\ q # <<>>
<1>1. PICK n \in 1 .. MaxTokens - 1 : q \in [1 .. n -> Requests]
  BY DEF Noise
<1>2. n \in Nat /\ n >= 1
  BY BoundsAssumption, <1>1
<1>3. q \in Seq(Requests) /\ Len(q) = n
  BY <1>1, <1>2
<1> QED
  BY <1>2, <1>3, EmptySeq

\* What Receive takes from a connection, followed or not.
LEMMA ReceiveResult ==
    ASSUME TypeOK, WireSound, reading = NoSock, NEW s \in Socks, Receive(s)
    PROVE  /\ token' \in Seq(Requests \cup {"garbled"}) /\ token' # <<>>
           /\ \E n \in 1 .. Len(up[s]) :
                 /\ Whole(up[s], n) /\ n < MaxTokens
                 /\ token' = ReadWith(SubSeq(up[s], 1, n), m_CryptInfo[s])
                 /\ up' = [up EXCEPT ![s] = Rest(@, n)]
                 /\ Rest(up[s], n) \in Seq(Question)
           /\ s \in Followed =>
                 /\ token' \in Seq(Requests)
                 /\ Phase(Mood(s), token', up'[s], down[s], m_CryptInfo[s], peerKey[s])
<1>1. PICK n \in 1 .. Len(up[s]) :
         /\ Whole(up[s], n) /\ n < MaxTokens
         /\ token' = ReadWith(SubSeq(up[s], 1, n), m_CryptInfo[s])
         /\ up' = [up EXCEPT ![s] = Rest(@, n)]
  BY DEF Receive
<1>2. up[s] \in Seq(Question)
  BY DEF TypeOK
<1>3. Rest(up[s], n) \in Seq(Question) /\ up'[s] = Rest(up[s], n)
  BY <1>1, <1>2, RestResult DEF TypeOK
<1>4. ASSUME s \in Followed
      PROVE  /\ token' \in Seq(Requests) /\ 1 \in DOMAIN token'
             /\ Phase(Mood(s), token', up'[s], down[s], m_CryptInfo[s], peerKey[s])
  <2>1. Pending(s) = <<>>
    BY <1>4, FollowedIsOpen DEF Pending
  <2>2. Phase(Mood(s), <<>>, up[s], down[s], m_CryptInfo[s], peerKey[s])
    BY <1>4, <2>1 DEF WireSound, PhaseOf
  <2>3. /\ up[s] \in Seq(Message) /\ down[s] \in Seq(Message)
        /\ m_CryptInfo[s] \in AnyKey /\ peerKey[s] \in AnyKey
    BY <1>4, PendingTyped
  <2>4. token' \in Seq(Requests)
    BY <1>1, <2>2, <2>3, BlockReadWhole
  <2>5. 1 \in DOMAIN token'
    BY <1>1, <2>2, <2>3, BlockReadWhole
  <2>6. Phase(Mood(s), token', Rest(up[s], n), down[s], m_CryptInfo[s], peerKey[s])
    BY <1>1, <2>2, <2>3, BlockReadWhole
  <2> QED
    BY <1>3, <2>4, <2>5, <2>6
<1>5. token' \in Seq(Requests \cup {"garbled"}) /\ token' # <<>>
  <2> DEFINE block == SubSeq(up[s], 1, n)
  <2>1. CASE Legible(block, m_CryptInfo[s])
    <3>1. /\ block \in Seq(Question) /\ Len(block) = n /\ DOMAIN block = 1 .. n
          /\ n \in Nat /\ n >= 1
      BY <1>1, <1>2, BlockResult
    <3> HIDE DEF block
    <3>2. \A i \in 1 .. n : block[i].body \in Requests
      <4>1. \A i \in 1 .. n : block[i] \in Question
        BY <3>1, LenProperties
      <4> QED
        BY <4>1 DEF Question
    <3>3. /\ Bodies(block) \in Seq(Requests \cup {"garbled"})
          /\ Len(Bodies(block)) = n
      BY <3>1, <3>2 DEF Bodies
    <3>4. token' = Bodies(block)
      BY <1>1, <2>1, <3>3 DEF ReadWith, Split, block
    <3> QED
      BY <3>1, <3>3, <3>4, EmptySeq
  <2>2. CASE ~Legible(block, m_CryptInfo[s])
    <3>1. token' = <<"garbled">>
      BY <1>1, <2>2 DEF ReadWith, Illegible
    <3> QED
      BY <3>1
  <2> QED
    BY <2>1, <2>2
<1> QED
  BY <1>1, <1>3, <1>4, <1>5

LEMMA ReceiveKeeps ==
    ASSUME TypeOK, WireSound, NEW s \in Socks, ReceiveData(s)
    PROVE  TypeOK' /\ WireSound'
<1>1. /\ reading = NoSock /\ s \in m_UserList /\ reading' = s
      /\ m_UserList' = m_UserList /\ m_CryptInfo' = m_CryptInfo
      /\ keyLeft' = keyLeft /\ status' = status
  BY DEF ReceiveData
<1>2. KeysKept'
  BY <1>1 DEF WireSound, KeysKept
<1>3. s # NoSock /\ \A c \in Followed : Pending(c) = <<>>
  BY <1>1, FollowedIsOpen, NoSockAssumption DEF Pending
<1>4. CASE Receive(s)
  <2>1. PICK n \in 1 .. Len(up[s]) :
           /\ up' = [up EXCEPT ![s] = Rest(@, n)]
           /\ Rest(up[s], n) \in Seq(Question)
    BY <1>1, <1>4, ReceiveResult
  <2>2. token' \in Seq(Requests \cup {"garbled"}) /\ token' # <<>>
    BY <1>1, <1>4, ReceiveResult
  <2>3. /\ s \in intact /\ intact' = intact /\ down' = down
        /\ peerKey' = peerKey /\ waiting' = waiting
    BY <1>4 DEF Receive
  <2>4. TypeOK'
    BY <1>1, <1>3, <2>1, <2>2, <2>3 DEF TypeOK
  <2>5. Followed' = Followed
    BY <1>1, <2>3 DEF Followed
  <2>6. ASSUME NEW c \in Followed
        PROVE  PhaseOf(c)'
    <3>1. CASE c = s
      <4>1. Phase(Mood(s), token', up'[s], down[s], m_CryptInfo[s], peerKey[s])
        BY <1>1, <1>4, <3>1, ReceiveResult
      <4>2. Mood(s)' = Mood(s) /\ Pending(s)' = token'
        BY <1>1, <2>3 DEF Mood, Pending
      <4> QED
        BY <1>1, <2>3, <3>1, <4>1, <4>2 DEF PhaseOf
    <3>2. CASE c # s
      <4>1. Pending(c)' = Pending(c) /\ up'[c] = up[c]
        BY <1>1, <1>3, <2>1, <3>2, FollowedIsOpen DEF Pending, TypeOK
      <4> QED
        BY <1>1, <2>3, <4>1, SamePhase DEF WireSound
    <3> QED
      BY <3>1, <3>2
  <2>7. s \in Followed => token' \in Seq(Requests)
    BY <1>1, <1>4, ReceiveResult
  <2> QED
    BY <1>1, <1>2, <2>4, <2>5, <2>6, <2>7 DEF WireSound
<1>5. CASE ReceiveNoise(s)
  <2>1. token' \in Seq(Requests) /\ token' # <<>>
    BY <1>5, NoiseResult DEF ReceiveNoise
  <2>2. token' \in Seq(Requests \cup {"garbled"})
    BY <2>1
  <2>3. /\ down \in [Socks -> Seq(Message)]
        /\ \A c \in Socks \ intact : down[c] = <<>>
    BY DEF TypeOK
  <2>4. Unfollowed(s) /\ down' = Cut(down, s)
    BY <1>5 DEF ReceiveNoise
  <2>5. /\ waiting' \subseteq intact' /\ intact' \subseteq m_UserList'
        /\ intact' = intact \ {s} /\ m_UserList' \subseteq Socks
        /\ up' \in [Socks -> Seq(Question)] /\ down' \in [Socks -> Seq(Message)]
        /\ peerKey' \in [Socks -> Keys \cup {NoKey}]
        /\ \A c \in Socks \ intact' :
              up'[c] = <<>> /\ down'[c] = <<>> /\ peerKey'[c] = NoKey
        /\ \A c \in Socks \ {s} :
              /\ c \in waiting' <=> c \in waiting
              /\ up'[c] = up[c] /\ down'[c] = down[c] /\ peerKey'[c] = peerKey[c]
    BY <1>1, <2>3, <2>4, UnfollowedResult
  <2>6. TypeOK'
    BY <1>1, <1>3, <2>1, <2>2, <2>5 DEF TypeOK
  <2>7. ASSUME NEW c \in Followed'
        PROVE  PhaseOf(c)'
    <3>1. c \in Followed /\ c # s /\ c \in Socks \ {s}
      BY <1>1, <2>5, FollowedIsOpen DEF Followed
    <3>2. Pending(c)' = Pending(c)
      BY <1>1, <1>3, <3>1 DEF Pending
    <3> QED
      BY <1>1, <2>5, <3>1, <3>2, SamePhase DEF WireSound
  <2> QED
    BY <1>2, <2>1, <2>6, <2>7 DEF WireSound
<1> QED
  BY <1>4, <1>5 DEF ReceiveData

\* Tail of what is left, or the end of the loop.
LEMMA NextTokenTyped ==
    ASSUME TypeOK, NextToken
    PROVE  /\ reading \in Socks /\ token # <<>>
           /\ token' \in Seq(Requests \cup {"garbled"})
           /\ token' = Tail(token)
           /\ reading' = IF Tail(token) = <<>> THEN NoSock ELSE reading
           /\ token' = <<>> <=> reading' = NoSock
<1>1. /\ token \in Seq(Requests \cup {"garbled"}) /\ token # <<>>
      /\ reading \in Socks
  BY NoSockAssumption DEF TypeOK, NextToken
<1>2. Len(token) \in Nat \ {0}
  BY <1>1, EmptySeq, LenProperties
<1>3. /\ Tail(token) \in Seq(Requests \cup {"garbled"})
      /\ Tail(token) = <<>> <=> Len(token) = 1
  BY <1>1, TailResult
<1>4. CASE Len(token) > 1
  BY <1>1, <1>2, <1>3, <1>4, NoSockAssumption DEF NextToken
<1>5. CASE ~(Len(token) > 1)
  <2>1. Tail(token) = <<>>
    BY <1>2, <1>3, <1>5
  <2> QED
    BY <1>1, <1>3, <1>5, <2>1 DEF NextToken
<1> QED
  BY <1>4, <1>5

LEMMA NextTokenResult ==
    ASSUME TypeOK, WireSound, NextToken
    PROVE  /\ reading \in Followed => token \in Seq(Requests) /\ token # <<>>
           /\ reading' \in Followed => token' \in Seq(Requests)
           /\ \A c \in Followed :
                 Pending(c)' = IF c = reading THEN Tail(token) ELSE Pending(c)
<1>1. /\ reading \in Socks /\ token # <<>> /\ token' = Tail(token)
      /\ reading' = IF Tail(token) = <<>> THEN NoSock ELSE reading
  BY NextTokenTyped
<1>2. \A c \in Followed : c # NoSock
  BY FollowedIsOpen
<1>3. ASSUME reading \in Followed
      PROVE  token \in Seq(Requests) /\ Tail(token) \in Seq(Requests)
  BY <1>1, <1>3, TailResult DEF WireSound
<1>4. ASSUME NEW c \in Followed
      PROVE  Pending(c)' = IF c = reading THEN Tail(token) ELSE Pending(c)
  BY <1>1, <1>2 DEF Pending
<1> QED
  BY <1>1, <1>2, <1>3, <1>4

\* The loop goes on, and keys and connections are left alone.
LEMMA ServedKeeps ==
    ASSUME TypeOK, WireSound, NextToken, m_UserList' = m_UserList,
           intact' = intact, keyLeft' = keyLeft,
           \A s \in Socks : s # reading => m_CryptInfo'[s] = m_CryptInfo[s]
    PROVE  /\ KeysKept' /\ Followed' = Followed
           /\ reading' \in Followed' => token' \in Seq(Requests)
<1>1. /\ reading \in Socks /\ reading' \in {reading, NoSock}
      /\ reading \in m_UserList \cup keyLeft
  BY NextTokenTyped, NoSockAssumption DEF WireSound, KeysKept
<1>2. KeysKept'
  BY <1>1 DEF WireSound, KeysKept
<1>3. Followed' = Followed
  BY DEF Followed
<1> QED
  BY <1>2, <1>3, NextTokenResult

\* What the loop makes of what is pending.
LEMMA PendingNext ==
    ASSUME TypeOK, WireSound, NextToken, NEW c \in Followed
    PROVE  /\ c # reading => Pending(c)' = Pending(c)
           /\ c = reading =>
                 /\ Pending(c) = token /\ Pending(c)' = Tail(token)
                 /\ token \in Seq(Requests) /\ token # <<>>
BY NextTokenResult DEF Pending

LEMMA IgnoreKeeps ==
    ASSUME TypeOK, WireSound, Ignore
    PROVE  TypeOK' /\ WireSound'
<1>1. NextToken /\ Head(token) = "garbled"
  BY DEF Ignore
<1>2. TypeOK'
  BY <1>1, NextTokenTyped DEF TypeOK, Ignore, peers
<1>3. reading \notin Followed
  <2> SUFFICES ASSUME reading \in Followed PROVE FALSE
    OBVIOUS
  <2>1. token \in Seq(Requests) /\ token # <<>>
    BY <1>1, NextTokenResult
  <2>2. Head(token) \in Requests
    BY <2>1, HeadTailProperties
  <2> QED
    BY <1>1, <2>2 DEF Requests
<1>4. ASSUME NEW c \in Followed
      PROVE  PhaseOf(c)'
  <2>1. Pending(c)' = Pending(c)
    BY <1>1, <1>3, PendingNext
  <2> QED
    BY <2>1, SamePhase DEF WireSound, Ignore, peers
<1> QED
  BY <1>1, <1>2, <1>4, ServedKeeps DEF WireSound, Ignore, peers

LEMMA OtherKeeps ==
    ASSUME TypeOK, WireSound, Other
    PROVE  TypeOK' /\ WireSound'
<1>1. PICK news \in Audience : down' = Told(news)
  BY DEF Other
<1>2. NextToken /\ Head(token) = "other"
  BY DEF Other
<1>3. TypeOK'
  BY <1>1, <1>2, ToldResult, NextTokenTyped DEF TypeOK, Other
<1>4. ASSUME NEW c \in Followed
      PROVE  PhaseOf(c)'
  <2>1. Phase(Mood(c), Pending(c), up[c], down'[c], m_CryptInfo[c], peerKey[c])
    BY <1>1, ToldKeepsPhase
  <2>2. Mood(c)' = Mood(c)
    BY DEF Other, Mood
  <2>3. down'[c] \in Seq(Message)
    BY <1>3, FollowedIsOpen DEF TypeOK
  <2>4. Phase(Mood(c), Pending(c)', up[c], down'[c], m_CryptInfo[c], peerKey[c])
    <3>1. CASE c = reading
      <4>1. /\ Pending(c) = token /\ Pending(c)' = Tail(token)
            /\ token \in Seq(Requests) /\ token # <<>> /\ Head(token) # "login"
        BY <1>2, <3>1, PendingNext
      <4> QED
        BY <2>1, <2>3, <4>1, PendingTyped, OtherKeepsPhase
    <3>2. CASE c # reading
      BY <1>2, <2>1, <3>2, PendingNext
    <3> QED
      BY <3>1, <3>2
  <2> QED
    BY <2>2, <2>4 DEF PhaseOf, Other
<1> QED
  BY <1>2, <1>3, <1>4, ServedKeeps DEF WireSound, Other

LEMMA AnswerResult ==
    ASSUME TypeOK, NEW wire \in [Socks -> Seq(Message)],
           NEW key \in AnyKey, NEW body \in Keys \cup {"refused"}
    PROVE  /\ Answer(wire, key, body) \in [Socks -> Seq(Message)]
           /\ \A c \in Socks :
                 /\ c = reading /\ c \in intact =>
                       Answer(wire, key, body)[c]
                          = Append(wire[c], [key |-> key, body |-> body])
                 /\ c # reading \/ c \notin intact =>
                       Answer(wire, key, body)[c] = wire[c]
<1>1. CASE reading \in intact
  <2>1. [key |-> key, body |-> body] \in Message
    BY DEF Message, Reply, AnyKey
  <2>2. reading \in Socks /\ wire[reading] \in Seq(Message)
    BY <1>1 DEF TypeOK
  <2>3. Append(wire[reading], [key |-> key, body |-> body]) \in Seq(Message)
    BY <2>1, <2>2, AppendProperties
  <2> QED
    BY <1>1, <2>2, <2>3 DEF Answer
<1>2. CASE reading \notin intact
  BY <1>2 DEF Answer
<1> QED
  BY <1>1, <1>2

\* What a login makes of the peer that sent it, told something or not.
LEMMA AnsweredPhase ==
    ASSUME TypeOK, WireSound, NextToken, Head(token) = "login",
           NEW c \in Followed, c = reading,
           NEW answer \in Keys \cup {"refused"}, NEW k \in AnyKey,
           k = IF answer \in Keys THEN answer ELSE NoKey,
           NEW d \in Seq(Message),
           Phase(Mood(c), Pending(c), up[c], d, m_CryptInfo[c], peerKey[c])
    PROVE  /\ m_CryptInfo[c] = NoKey
           /\ Phase(Mood(c), Pending(c)', up[c],
                    Append(d, [key |-> m_CryptInfo[c], body |-> answer]), k, peerKey[c])
<1>1. /\ Pending(c) = token /\ Pending(c)' = Tail(token)
      /\ token \in Seq(Requests) /\ token # <<>>
  BY PendingNext
<1>2. /\ up[c] \in Seq(Message) /\ m_CryptInfo[c] \in AnyKey
      /\ peerKey[c] \in AnyKey
  BY PendingTyped
<1>3. Phase(Mood(c), token, up[c], d, m_CryptInfo[c], peerKey[c])
  BY <1>1
<1>4. /\ m_CryptInfo[c] = NoKey
      /\ Phase(Mood(c), Tail(token), up[c],
               Append(d, [key |-> m_CryptInfo[c], body |-> answer]), k, peerKey[c])
  BY <1>1, <1>2, <1>3, LoginKeepsPhase
<1> QED
  BY <1>1, <1>4

\* A login answered, at no other connection's cost.
LEMMA AnswerKeeps ==
    ASSUME TypeOK, WireSound, NextToken, Head(token) = "login",
           NEW answer \in Keys \cup {"refused"},
           down' = Answer(down, m_CryptInfo[reading], answer),
           m_CryptInfo' = IF answer \in Keys
                          THEN [m_CryptInfo EXCEPT ![reading] = answer]
                          ELSE m_CryptInfo,
           UNCHANGED <<status, m_UserList, intact, up, peerKey, waiting, keyLeft>>
    PROVE  TypeOK' /\ WireSound'
<1>1. /\ reading \in Socks /\ m_CryptInfo[reading] \in AnyKey
      /\ down \in [Socks -> Seq(Message)]
  BY NextTokenTyped DEF TypeOK, AnyKey
<1>2. /\ down' \in [Socks -> Seq(Message)]
      /\ \A c \in Socks :
            /\ c = reading /\ c \in intact =>
                  down'[c] = Append(down[c], [key |-> m_CryptInfo[c], body |-> answer])
            /\ c # reading \/ c \notin intact => down'[c] = down[c]
  <2>1. /\ Answer(down, m_CryptInfo[reading], answer) \in [Socks -> Seq(Message)]
        /\ \A c \in Socks :
              /\ c = reading /\ c \in intact =>
                    Answer(down, m_CryptInfo[reading], answer)[c]
                       = Append(down[c], [key |-> m_CryptInfo[reading], body |-> answer])
              /\ c # reading \/ c \notin intact =>
                    Answer(down, m_CryptInfo[reading], answer)[c] = down[c]
    BY ONLY TypeOK, <1>1, AnswerResult, answer \in Keys \cup {"refused"}
  <2> QED
    BY <2>1
<1>3. /\ m_CryptInfo' \in [Socks -> Keys \cup {NoKey}]
      /\ m_CryptInfo'[reading] = IF answer \in Keys THEN answer
                                 ELSE m_CryptInfo[reading]
      /\ \A c \in Socks : c # reading => m_CryptInfo'[c] = m_CryptInfo[c]
  BY <1>1 DEF TypeOK
<1>4. TypeOK'
  BY <1>2, <1>3, NextTokenTyped DEF TypeOK
<1>5. ASSUME NEW c \in Followed
      PROVE  PhaseOf(c)'
  <2>1. c \in Socks /\ c \in intact /\ Mood(c)' = Mood(c)
    BY FollowedIsOpen DEF Mood
  <2>2. CASE c = reading
    <3> DEFINE k == IF answer \in Keys THEN answer ELSE NoKey
    <3>1. Phase(Mood(c), Pending(c), up[c], down[c], m_CryptInfo[c], peerKey[c])
      BY DEF WireSound, PhaseOf
    <3>2. down[c] \in Seq(Message) /\ k \in AnyKey
      BY PendingTyped DEF AnyKey
    <3>3. /\ m_CryptInfo[c] = NoKey
          /\ Phase(Mood(c), Pending(c)', up[c],
                   Append(down[c], [key |-> m_CryptInfo[c], body |-> answer]),
                   k, peerKey[c])
      BY <2>2, <3>1, <3>2, AnsweredPhase
    <3>4. m_CryptInfo'[c] = k
      BY <1>3, <2>2, <3>3
    <3> QED
      BY <1>2, <2>1, <2>2, <3>3, <3>4 DEF PhaseOf
  <2>3. CASE c # reading
    BY <1>2, <1>3, <2>1, <2>3, PendingNext, SamePhase DEF WireSound
  <2> QED
    BY <2>2, <2>3
<1> QED
  BY <1>3, <1>4, <1>5, ServedKeeps DEF WireSound

LEMMA RefuseKeeps ==
    ASSUME TypeOK, WireSound, Refuse
    PROVE  TypeOK' /\ WireSound'
BY AnswerKeeps, KeysAssumption DEF Refuse

LEMMA LoginKeeps ==
    ASSUME TypeOK, WireSound, NEW k \in Keys, Login(k)
    PROVE  TypeOK' /\ WireSound'
BY AnswerKeeps DEF Login, KeyOfReply

LEMMA TakeOverKeeps ==
    ASSUME TypeOK, WireSound, NEW t \in Socks, NEW k \in Keys, TakeOver(t, k)
    PROVE  TypeOK' /\ WireSound'
<1>1. /\ NextToken /\ Head(token) = "login" /\ m_CryptInfo[t] # NoKey
      /\ Unfollowed(t) /\ m_UserList' = m_UserList \ {t} /\ status' = status
  BY DEF TakeOver, Closed
<1>2. PICK news \in Audience :
         down' = Cut(Answer(Told(news), m_CryptInfo[reading], k), t)
  BY DEF TakeOver, KeyOfReply
<1> DEFINE wire == Answer(Told(news), m_CryptInfo[reading], k)
<1>3. reading \in Socks /\ m_CryptInfo[reading] \in AnyKey
  BY <1>1, NextTokenTyped DEF TypeOK, AnyKey
<1>4. /\ wire \in [Socks -> Seq(Message)]
      /\ \A c \in Socks :
            /\ c = reading /\ c \in intact =>
                  wire[c] = Append(Told(news)[c], [key |-> m_CryptInfo[c], body |-> k])
            /\ c # reading \/ c \notin intact => wire[c] = Told(news)[c]
  <2>1. Told(news) \in [Socks -> Seq(Message)]
    BY ToldResult
  <2>2. k \in Keys \cup {"refused"}
    OBVIOUS
  <2>3. /\ wire \in [Socks -> Seq(Message)]
        /\ \A c \in Socks :
              /\ c = reading /\ c \in intact =>
                    wire[c] = Append(Told(news)[c], [key |-> m_CryptInfo[reading], body |-> k])
              /\ c # reading \/ c \notin intact => wire[c] = Told(news)[c]
    <3> HIDE DEF wire
    <3> DEFINE told == Told(news)
               key == m_CryptInfo[reading]
    <3>1. told \in [Socks -> Seq(Message)] /\ key \in AnyKey /\ wire = Answer(told, key, k)
      BY <1>3, <2>1 DEF wire
    <3> HIDE DEF told, key
    <3>2. /\ Answer(told, key, k) \in [Socks -> Seq(Message)]
          /\ \A c \in Socks :
                /\ c = reading /\ c \in intact =>
                      Answer(told, key, k)[c] = Append(told[c], [key |-> key, body |-> k])
                /\ c # reading \/ c \notin intact => Answer(told, key, k)[c] = told[c]
      BY <2>2, <3>1, AnswerResult
    <3> QED
      BY <3>1, <3>2 DEF told, key
  <2> QED
    BY <2>3
<1>5. down' = Cut(wire, t)
  BY <1>2
<1> HIDE DEF wire
<1>6. \A c \in Socks \ intact : wire[c] = <<>>
  BY <1>4, ToldResult DEF TypeOK
<1>7. /\ waiting' \subseteq intact' /\ intact' \subseteq m_UserList'
      /\ intact' = intact \ {t} /\ m_UserList' \subseteq Socks
      /\ up' \in [Socks -> Seq(Question)] /\ down' \in [Socks -> Seq(Message)]
      /\ peerKey' \in [Socks -> Keys \cup {NoKey}]
      /\ \A c \in Socks \ intact' :
            up'[c] = <<>> /\ down'[c] = <<>> /\ peerKey'[c] = NoKey
      /\ \A c \in Socks \ {t} :
            /\ c \in waiting' <=> c \in waiting
            /\ up'[c] = up[c] /\ down'[c] = wire[c] /\ peerKey'[c] = peerKey[c]
  BY <1>1, <1>4, <1>5, <1>6, UnfollowedResult
<1>8. /\ m_CryptInfo' \in [Socks -> Keys \cup {NoKey}] /\ m_CryptInfo'[reading] = k
      /\ t # reading => m_CryptInfo'[t] = NoKey
      /\ \A c \in Socks : c # t /\ c # reading => m_CryptInfo'[c] = m_CryptInfo[c]
  BY <1>3 DEF TakeOver, KeysWithout, TypeOK
<1>9. /\ keyLeft' \subseteq Socks
      /\ \A c \in Socks : c # t => (c \in keyLeft' <=> c \in keyLeft)
      /\ t \in keyLeft' <=> t = reading
  BY DEF TakeOver, TypeOK
<1>10. TypeOK'
  BY <1>1, <1>7, <1>8, <1>9, NextTokenTyped DEF TypeOK
<1>11. KeysKept'
  <2>1. reading' \in {reading, NoSock} /\ reading \in m_UserList \cup keyLeft
    BY <1>1, NextTokenTyped, NoSockAssumption DEF WireSound, KeysKept
  <2>2. reading' # NoSock => reading' \in m_UserList' \cup keyLeft'
    BY <1>1, <1>3, <1>9, <2>1
  <2>3. ASSUME NEW c \in Socks \ m_UserList', m_CryptInfo'[c] # NoKey
        PROVE  c \in keyLeft'
    <3>1. CASE c = t
      BY <1>8, <1>9, <2>3, <3>1
    <3>2. CASE c # t /\ c = reading
      BY <1>1, <1>9, <2>1, <2>3, <3>2
    <3>3. CASE c # t /\ c # reading
      BY <1>1, <1>8, <1>9, <2>3, <3>3 DEF WireSound, KeysKept
    <3> QED
      BY <3>1, <3>2, <3>3
  <2> QED
    BY <2>2, <2>3 DEF KeysKept
<1>12. ASSUME NEW c \in Followed'
       PROVE  c \in Followed /\ c \in Socks \ {t} /\ c \in intact
  BY <1>7, <1>9, <1>10 DEF Followed, TypeOK
<1>13. ASSUME NEW c \in Followed'
       PROVE  PhaseOf(c)'
  <2>1. c \in Followed /\ c \in Socks \ {t} /\ c \in intact
    BY <1>12
  <2>2. Phase(Mood(c), Pending(c), up[c], Told(news)[c], m_CryptInfo[c], peerKey[c])
    BY <2>1, ToldKeepsPhase
  <2>3. Told(news)[c] \in Seq(Message)
    BY <2>1, ToldResult
  <2>4. Mood(c)' = Mood(c)
    BY <1>7, <2>1 DEF Mood
  <2>5. CASE c = reading
    <3>1. k = IF k \in Keys THEN k ELSE NoKey
      OBVIOUS
    <3>2. k \in AnyKey /\ k \in Keys \cup {"refused"}
      BY DEF AnyKey
    <3>3. Phase(Mood(c), Pending(c)', up[c],
                Append(Told(news)[c], [key |-> m_CryptInfo[c], body |-> k]), k, peerKey[c])
      BY <1>1, <2>1, <2>2, <2>3, <2>5, <3>1, <3>2, AnsweredPhase
    <3> QED
      BY <1>4, <1>7, <1>8, <2>1, <2>4, <2>5, <3>3 DEF PhaseOf
  <2>6. CASE c # reading
    <3>1. Pending(c)' = Pending(c)
      BY <1>1, <2>1, <2>6, PendingNext
    <3>2. /\ up'[c] = up[c] /\ peerKey'[c] = peerKey[c]
          /\ down'[c] = Told(news)[c] /\ m_CryptInfo'[c] = m_CryptInfo[c]
      BY <1>4, <1>7, <1>8, <2>1, <2>6
    <3> QED
      BY <2>2, <2>4, <3>1, <3>2 DEF PhaseOf
  <2> QED
    BY <2>5, <2>6
<1>14. reading' \in Followed' => token' \in Seq(Requests)
  BY <1>1, <1>12, NextTokenResult
<1> QED
  BY <1>10, <1>11, <1>13, <1>14 DEF WireSound

LEMMA HangKeeps ==
    ASSUME TypeOK, WireSound, Hang
    PROVE  TypeOK' /\ WireSound'
<1>1. TypeOK'
  BY DEF TypeOK, Hang, peers
<1>2. ASSUME NEW c \in Followed
      PROVE  PhaseOf(c)'
  BY SamePhase DEF WireSound, Hang, peers, Pending
<1> QED
  BY <1>1, <1>2 DEF WireSound, KeysKept, Followed, Hang, peers

LEMMA SendKeeps ==
    ASSUME TypeOK, WireSound, NEW s \in Socks, NEW body \in Requests, Send(s, body)
    PROVE  TypeOK' /\ WireSound'
<1>1. s \in intact /\ s \notin waiting /\ (body = "login" => peerKey[s] = NoKey)
  BY DEF Send
<1>2. /\ up[s] \in Seq(Question)
      /\ [key |-> peerKey[s], body |-> body] \in Question
  BY DEF TypeOK, Question
<1>3. Append(up[s], [key |-> peerKey[s], body |-> body]) \in Seq(Question)
  BY <1>2, AppendProperties
<1>4. TypeOK'
  BY <1>1, <1>3 DEF TypeOK, Send, server
<1>5. ASSUME NEW c \in Followed
      PROVE  PhaseOf(c)'
  <2>1. Pending(c)' = Pending(c)
    BY DEF Send, server, Pending
  <2>2. CASE c = s
    <3>1. Phase("free", Pending(s), up[s], down[s], m_CryptInfo[s], peerKey[s])
      BY <1>1, <2>2 DEF WireSound, PhaseOf, Mood
    <3>2. Phase(IF body = "login" THEN "waits" ELSE "free", Pending(s),
                Append(up[s], [key |-> peerKey[s], body |-> body]), down[s],
                m_CryptInfo[s], peerKey[s])
      BY <1>1, <2>2, <3>1, PendingTyped, SendKeepsPhase
    <3>3. Mood(s)' = IF body = "login" THEN "waits" ELSE "free"
      BY <1>1 DEF Send, Mood
    <3>4. up'[s] = Append(up[s], [key |-> peerKey[s], body |-> body])
      BY DEF Send, TypeOK
    <3> QED
      BY <2>1, <2>2, <3>2, <3>3, <3>4 DEF PhaseOf, Send, server
  <2>3. CASE c # s
    <3>1. c \in waiting' <=> c \in waiting
      BY <2>3 DEF Send
    <3>2. up'[c] = up[c]
      BY <2>3, FollowedIsOpen DEF Send, TypeOK
    <3> QED
      BY <2>1, <3>1, <3>2, SamePhase DEF WireSound, Send, server
  <2> QED
    BY <2>2, <2>3
<1> QED
  BY <1>4, <1>5 DEF WireSound, KeysKept, Followed, Send, server

LEMMA HearKeeps ==
    ASSUME TypeOK, WireSound, NEW s \in Socks, Hear(s), UNCHANGED <<server, keyLeft>>
    PROVE  TypeOK' /\ WireSound'
<1>1. s \in intact /\ intact' = intact /\ up' = up
  BY DEF Hear
<1>2. PICK n \in 1 .. Len(down[s]) :
         LET block == SubSeq(down[s], 1, n)
             heard == IF Legible(block, peerKey[s])
                      THEN {block[i].body : i \in 1 .. n} ELSE {}
         IN  /\ Whole(down[s], n)
             /\ down' = [down EXCEPT ![s] = Rest(@, n)]
             /\ waiting' = IF heard \subseteq {"text"} THEN waiting
                           ELSE waiting \ {s}
             /\ \/ \E k \in Keys \cap heard : peerKey' = [peerKey EXCEPT ![s] = k]
                \/ Keys \cap heard = {} /\ UNCHANGED peerKey
  BY DEF Hear
<1> DEFINE heard == Heard(down[s], n, peerKey[s])
<1>3. /\ Whole(down[s], n)
      /\ down' = [down EXCEPT ![s] = Rest(@, n)]
      /\ waiting' = IF heard \subseteq {"text"} THEN waiting ELSE waiting \ {s}
      /\ \/ \E k \in Keys \cap heard : peerKey' = [peerKey EXCEPT ![s] = k]
         \/ Keys \cap heard = {} /\ peerKey' = peerKey
  BY <1>2 DEF Heard
<1> HIDE DEF heard
<1>4. down[s] \in Seq(Message) /\ Rest(down[s], n) \in Seq(Message)
  BY RestResult DEF TypeOK
<1>5. /\ peerKey' \in [Socks -> Keys \cup {NoKey}]
      /\ \A c \in Socks : c # s => peerKey'[c] = peerKey[c]
  BY <1>3 DEF TypeOK
<1>6. TypeOK'
  BY <1>1, <1>3, <1>4, <1>5 DEF TypeOK, server
<1>7. ASSUME NEW c \in Followed
      PROVE  PhaseOf(c)'
  <2>1. c \in Socks /\ Pending(c)' = Pending(c) /\ m_CryptInfo' = m_CryptInfo
    BY FollowedIsOpen DEF server, Pending
  <2>2. CASE c = s
    <3>1. Phase(Mood(s), Pending(s), up[s], down[s], m_CryptInfo[s], peerKey[s])
      BY <2>2 DEF WireSound, PhaseOf
    <3>2. Mood(s)' = IF Heard(down[s], n, peerKey[s]) \subseteq {"text"}
                     THEN Mood(s) ELSE "free"
      BY <1>3 DEF Mood, heard
    <3>3. \/ \E key \in Keys \cap Heard(down[s], n, peerKey[s]) : peerKey'[s] = key
          \/ Keys \cap Heard(down[s], n, peerKey[s]) = {} /\ peerKey'[s] = peerKey[s]
      BY <1>3 DEF TypeOK, heard
    <3>4. Phase(Mood(s)', Pending(s), up[s], Rest(down[s], n), m_CryptInfo[s], peerKey'[s])
      BY <1>3, <2>2, <3>1, <3>2, <3>3, PendingTyped, ReadKeepsPhase
    <3>5. down'[s] = Rest(down[s], n)
      BY <1>3 DEF TypeOK
    <3> QED
      BY <1>1, <2>1, <2>2, <3>4, <3>5 DEF PhaseOf
  <2>3. CASE c # s
    BY <1>1, <1>3, <1>5, <2>1, <2>3, SamePhase DEF WireSound, TypeOK
  <2> QED
    BY <2>2, <2>3
<1> QED
  BY <1>1, <1>6, <1>7 DEF WireSound, KeysKept, Followed, server

LEMMA MishearKeeps ==
    ASSUME TypeOK, WireSound, NEW s \in Socks, Mishear(s), UNCHANGED <<server, keyLeft>>
    PROVE  TypeOK' /\ WireSound'
<1>1. Unfollowed(s) /\ down' = Cut(down, s) /\ m_UserList' = m_UserList
  BY DEF Mishear, server
<1>2. /\ down \in [Socks -> Seq(Message)]
      /\ \A c \in Socks \ intact : down[c] = <<>>
  BY DEF TypeOK
<1>3. /\ waiting' \subseteq intact' /\ intact' \subseteq m_UserList'
      /\ intact' = intact \ {s} /\ m_UserList' \subseteq Socks
      /\ up' \in [Socks -> Seq(Question)] /\ down' \in [Socks -> Seq(Message)]
      /\ peerKey' \in [Socks -> Keys \cup {NoKey}]
      /\ \A c \in Socks \ intact' :
            up'[c] = <<>> /\ down'[c] = <<>> /\ peerKey'[c] = NoKey
      /\ \A c \in Socks \ {s} :
            /\ c \in waiting' <=> c \in waiting
            /\ up'[c] = up[c] /\ down'[c] = down[c] /\ peerKey'[c] = peerKey[c]
  BY <1>1, <1>2, UnfollowedResult
<1>4. TypeOK'
  BY <1>3 DEF TypeOK, server
<1>5. ASSUME NEW c \in Followed'
      PROVE  /\ c \in Followed /\ PhaseOf(c)'
  <2>1. c \in Followed /\ c \in Socks \ {s}
    BY <1>3, FollowedIsOpen DEF Followed
  <2> QED
    BY <1>3, <2>1, SamePhase DEF WireSound, server, Pending
<1> QED
  BY <1>4, <1>5 DEF WireSound, KeysKept, server

LEMMA NextKeepsWireSound ==
    ASSUME TypeOK, WireSound, [Next]_vars
    PROVE  TypeOK' /\ WireSound'
<1>1. CASE Dispatch
  BY <1>1, IgnoreKeeps, OtherKeeps, RefuseKeeps, LoginKeeps, TakeOverKeeps, HangKeeps
  DEF Dispatch
<1>2. CASE UNCHANGED vars
  <2>1. TypeOK'
    BY <1>2 DEF TypeOK, vars, server, peers
  <2>2. ASSUME NEW c \in Followed
        PROVE  PhaseOf(c)'
    BY <1>2, SamePhase DEF WireSound, vars, server, peers, Pending
  <2> QED
    BY <1>2, <2>1, <2>2 DEF WireSound, KeysKept, Followed, vars, server, peers
<1>3. ASSUME NEW s \in Socks, Read(s)
      PROVE  TypeOK' /\ WireSound'
  BY <1>3, HearKeeps, MishearKeeps DEF Read
<1> QED
  BY <1>1, <1>2, <1>3, AcceptKeeps, OnCloseKeeps, ReceiveKeeps, SendKeeps,
     RestartKeeps
  DEF Next

LEMMA InitIsSound == Init => TypeOK /\ WireSound
<1> SUFFICES ASSUME Init PROVE TypeOK /\ WireSound
  OBVIOUS
<1>1. /\ <<>> \in Seq(Requests \cup {"garbled"}) /\ <<>> \in Seq(Message)
      /\ <<>> \in Seq(Question)
  OBVIOUS
<1>2. TypeOK
  BY <1>1 DEF TypeOK, Init
<1> QED
  BY <1>2 DEF WireSound, KeysKept, Followed, Init

LEMMA AlwaysSound == Spec => [](TypeOK /\ WireSound)
BY InitIsSound, NextKeepsWireSound, PTL DEF Spec

(* Connections, keys and the loop of ReceiveData stay consistent: it is    *)
(* over exactly when no part of the block is left, even when the reader is *)
(* deleted in the middle of it, and no closed connection is waited for,    *)
(* sent to or read from.                                                   *)
THEOREM WireTyped == Spec => []TypeOK
BY AlwaysSound, PTL

-----------------------------------------------------------------------------
(* Keys.                                                                   *)

LEMMA PhaseKeepsStep ==
    ASSUME TypeOK, WireSound
    PROVE  KeysInStep
<1> SUFFICES ASSUME NEW s \in Followed
             PROVE  /\ \A i \in DOMAIN up[s] : up[s][i].key = m_CryptInfo[s]
                    /\ \A i \in DOMAIN down[s] : down[s][i].key = KeyAfter(s, i - 1)
                    /\ m_CryptInfo[s] = KeyAfter(s, Len(down[s]))
  BY DEF KeysInStep
<1> DEFINE d == down[s]
           News(n) == {i \in 1 .. n : d[i].body \in Keys}
<1>1. Len(d) \in Nat /\ DOMAIN d = 1 .. Len(d) /\ up[s] \in Seq(Message)
  BY PendingTyped, LenProperties
<1>2. \A n : News(n) = {} => KeyAfter(s, n) = peerKey[s]
  BY DEF KeyAfter
<1>3. ASSUME NEW n, NEW j, News(n) = {j}, j \in Nat
      PROVE  KeyAfter(s, n) = d[j].body
  <2>1. (CHOOSE i \in News(n) : \A m \in News(n) : m <= i) = j
    BY <1>3
  <2> QED
    BY <1>3, <2>1 DEF KeyAfter
<1> HIDE DEF d
<1>4. CASE OneKey(up[s], d, m_CryptInfo[s], peerKey[s])
  <2>1. ASSUME NEW n \in 0 .. Len(d)
        PROVE  News(n) = {}
    BY <1>1, <1>4, KeysAssumption DEF OneKey
  <2>2. \A n \in 0 .. Len(d) : KeyAfter(s, n) = peerKey[s]
    BY <1>2, <2>1
  <2>3. \A i \in 1 .. Len(d) : i - 1 \in 0 .. Len(d)
    BY <1>1
  <2> QED
    BY <1>1, <1>4, <2>2, <2>3 DEF OneKey, d
<1>5. CASE Answered(Mood(s), Pending(s), up[s], d, m_CryptInfo[s], peerKey[s])
  <2>1. PICK j \in DOMAIN d : AnswerAt(j, d, m_CryptInfo[s])
    BY <1>5 DEF Answered
  <2>2. up[s] = <<>> /\ peerKey[s] = NoKey
    BY <1>5 DEF Answered
  <2>3. ASSUME NEW n \in 0 .. Len(d)
        PROVE  KeyAfter(s, n) = IF n < j THEN NoKey ELSE m_CryptInfo[s]
    <3>1. News(n) = IF j \in 1 .. n /\ d[j].body \in Keys THEN {j} ELSE {}
      BY <1>1, <2>1, KeysAssumption DEF AnswerAt
    <3>2. j \in 1 .. n <=> ~(n < j)
      BY <1>1, <2>1
    <3>3. CASE n < j
      BY <1>2, <2>2, <3>1, <3>2, <3>3
    <3>4. CASE ~(n < j) /\ d[j].body \in Keys
      <4>1. News(n) = {j} /\ j \in Nat
        BY <1>1, <2>1, <3>1, <3>2, <3>4
      <4>2. KeyAfter(s, n) = d[j].body
        BY <1>3, <4>1
      <4> QED
        BY <2>1, <3>4, <4>2 DEF AnswerAt
    <3>5. CASE ~(n < j) /\ d[j].body \notin Keys
      BY <1>2, <2>1, <2>2, <3>1, <3>5 DEF AnswerAt
    <3> QED
      BY <3>3, <3>4, <3>5
  <2>4. \A i \in 1 .. Len(d) : i - 1 \in 0 .. Len(d) /\ (i - 1 < j <=> i <= j)
    BY <1>1, <2>1
  <2>5. \A i \in DOMAIN d : d[i].key = KeyAfter(s, i - 1)
    BY <1>1, <2>1, <2>3, <2>4 DEF AnswerAt
  <2>6. Len(d) \in 0 .. Len(d) /\ ~(Len(d) < j)
    BY <1>1, <2>1
  <2>7. m_CryptInfo[s] = KeyAfter(s, Len(d))
    BY <2>3, <2>6
  <2>8. \A i \in DOMAIN up[s] : up[s][i].key = m_CryptInfo[s]
    BY <2>2
  <2> QED
    BY <2>5, <2>7, <2>8 DEF d
<1> QED
  BY <1>4, <1>5 DEF WireSound, PhaseOf, Phase, Idle, Asked, d

(* Both ends of a connection that is followed use the same key for every   *)
(* message under way, although the login is answered under the old key and *)
(* the new one counts at once, and although addresses are reused: only one *)
(* to which a login over its own connection (369, 405) left a key is not.  *)
THEOREM KeysStayInStep == Spec => []KeysInStep
BY AlwaysSound, PhaseKeepsStep, PTL

-----------------------------------------------------------------------------
(* What is asked is served (Delivery).                                     *)

Asking(u) == u \in Seq(Message) /\ \A i \in DOMAIN u : u[i].body \in Requests

LEMMA BodiesResult ==
    ASSUME NEW u, Asking(u)
    PROVE  /\ Bodies(u) \in Seq(Requests)
           /\ Len(Bodies(u)) = Len(u)
           /\ \A i \in 1 .. Len(u) : Bodies(u)[i] = u[i].body
<1>1. u \in Seq(Message) /\ DOMAIN u = 1 .. Len(u) /\ Len(u) \in Nat
  BY LenProperties DEF Asking
<1> QED
  BY <1>1 DEF Bodies, Asking

LEMMA ServedFirst ==
    ASSUME NEW t \in Seq(Requests), NEW q \in Seq(Requests), t # <<>>
    PROVE  t \o q # <<>> /\ Tail(t) \o q = Tail(t \o q)
<1>1. Len(t) \in Nat \ {0} /\ Len(q) \in Nat
  BY EmptySeq, LenProperties
<1>2. /\ t \o q \in Seq(Requests) /\ Len(t \o q) = Len(t) + Len(q)
      /\ \A i \in 1 .. Len(t) + Len(q) :
            (t \o q)[i] = IF i <= Len(t) THEN t[i] ELSE q[i - Len(t)]
  BY ConcatProperties
<1>3. t \o q # <<>>
  BY ConcatEqualIffEmpty
<1>4. /\ Tail(t) \in Seq(Requests) /\ Len(Tail(t)) = Len(t) - 1
      /\ \A i \in 1 .. Len(Tail(t)) : Tail(t)[i] = t[i + 1]
  BY HeadTailProperties
<1>5. /\ Tail(t \o q) \in Seq(Requests)
      /\ Len(Tail(t \o q)) = Len(t \o q) - 1
      /\ \A i \in 1 .. Len(Tail(t \o q)) : Tail(t \o q)[i] = (t \o q)[i + 1]
  BY <1>2, <1>3, HeadTailProperties
<1>6. /\ Tail(t) \o q \in Seq(Requests)
      /\ Len(Tail(t) \o q) = Len(Tail(t)) + Len(q)
      /\ \A i \in 1 .. Len(Tail(t)) + Len(q) :
            (Tail(t) \o q)[i]
               = IF i <= Len(Tail(t)) THEN Tail(t)[i] ELSE q[i - Len(Tail(t))]
  BY <1>4, ConcatProperties
<1>7. Len(Tail(t) \o q) = Len(Tail(t \o q))
  BY <1>1, <1>2, <1>4, <1>5, <1>6
<1>8. ASSUME NEW i \in 1 .. Len(Tail(t) \o q)
      PROVE  (Tail(t) \o q)[i] = Tail(t \o q)[i]
  <2>1. /\ i \in 1 .. Len(Tail(t)) + Len(q) /\ i \in 1 .. Len(Tail(t \o q))
        /\ i + 1 \in 1 .. Len(t) + Len(q) /\ i \in Nat
    BY <1>1, <1>2, <1>4, <1>6, <1>7
  <2>2. CASE i <= Len(Tail(t))
    <3>1. i + 1 <= Len(t) /\ i \in 1 .. Len(Tail(t))
      BY <1>1, <1>4, <2>1, <2>2
    <3> QED
      BY <1>2, <1>4, <1>5, <1>6, <2>1, <2>2, <3>1
  <2>3. CASE ~(i <= Len(Tail(t)))
    <3>1. ~(i + 1 <= Len(t)) /\ i - Len(Tail(t)) = (i + 1) - Len(t)
      BY <1>1, <1>4, <2>1, <2>3
    <3> QED
      BY <1>2, <1>5, <1>6, <2>1, <2>3, <3>1
  <2> QED
    BY <2>2, <2>3
<1> QED
  BY <1>3, <1>5, <1>6, <1>7, <1>8, SeqEqual

LEMMA AskedLast ==
    ASSUME NEW u, Asking(u), NEW t \in Seq(Requests),
           NEW m \in Message, m.body \in Requests
    PROVE  /\ Asking(Append(u, m))
           /\ t \o Bodies(Append(u, m)) = Append(t \o Bodies(u), m.body)
<1>1. u \in Seq(Message) /\ Len(u) \in Nat /\ DOMAIN u = 1 .. Len(u)
  BY LenProperties DEF Asking
<1>2. /\ Append(u, m) \in Seq(Message) /\ Len(Append(u, m)) = Len(u) + 1
      /\ \A i \in 1 .. Len(u) : Append(u, m)[i] = u[i]
      /\ Append(u, m)[Len(u) + 1] = m
  BY <1>1, AppendProperties
<1>3. DOMAIN Append(u, m) = 1 .. Len(u) + 1
  BY <1>2, LenProperties
<1>4. \A i \in 1 .. Len(u) + 1 : i \in 1 .. Len(u) \/ i = Len(u) + 1
  BY <1>1
<1>5. Asking(Append(u, m))
  BY <1>1, <1>2, <1>3, <1>4 DEF Asking
<1> DEFINE b == Bodies(Append(u, m))
           c == Append(Bodies(u), m.body)
<1>6. /\ b \in Seq(Requests) /\ Len(b) = Len(u) + 1
      /\ \A i \in 1 .. Len(u) + 1 : b[i] = Append(u, m)[i].body
  BY <1>2, <1>5, BodiesResult
<1>7. /\ Bodies(u) \in Seq(Requests) /\ Len(Bodies(u)) = Len(u)
      /\ \A i \in 1 .. Len(u) : Bodies(u)[i] = u[i].body
  BY BodiesResult
<1>8. /\ c \in Seq(Requests) /\ Len(c) = Len(u) + 1
      /\ \A i \in 1 .. Len(u) : c[i] = Bodies(u)[i]
      /\ c[Len(u) + 1] = m.body
  BY <1>7, AppendProperties
<1> HIDE DEF b, c
<1>9. \A i \in 1 .. Len(b) : b[i] = c[i]
  BY <1>2, <1>4, <1>6, <1>7, <1>8
<1>10. b = c
  BY <1>6, <1>8, <1>9, SeqEqual
<1>11. <<m.body>> \in Seq(Requests)
  OBVIOUS
<1>12. c = Bodies(u) \o <<m.body>>
  BY <1>7, AppendIsConcat DEF c
<1>13. t \o c = (t \o Bodies(u)) \o <<m.body>>
  BY <1>7, <1>11, <1>12, ConcatAssociative
<1>14. t \o Bodies(u) \in Seq(Requests)
  BY <1>7, ConcatProperties
<1>15. (t \o Bodies(u)) \o <<m.body>> = Append(t \o Bodies(u), m.body)
  BY <1>14, AppendIsConcat
<1> QED
  BY <1>5, <1>10, <1>13, <1>15 DEF b

\* Nothing is lost between what is taken and what is left.
LEMMA BlockAndRest ==
    ASSUME NEW u, Asking(u), NEW n \in 1 .. Len(u), Whole(u, n), n < MaxTokens,
           NEW k, \A i \in DOMAIN u : u[i].key = k
    PROVE  ReadWith(SubSeq(u, 1, n), k) \o Bodies(Rest(u, n)) = Bodies(u)
<1> DEFINE block == SubSeq(u, 1, n)
           rest == Rest(u, n)
           all == Bodies(u)
<1>1. /\ u \in Seq(Message) /\ DOMAIN u = 1 .. Len(u) /\ Len(u) \in Nat
      /\ n \in Nat /\ \A i \in 1 .. n : i \in 1 .. Len(u)
  BY LenProperties DEF Asking
<1>2. /\ block \in Seq(Message) /\ Len(block) = n /\ DOMAIN block = 1 .. n
      /\ \A i \in 1 .. n : block[i] = u[i]
  BY <1>1, BlockResult
<1>3. /\ rest \in Seq(Message) /\ Len(rest) = Len(u) - n
      /\ \A i \in DOMAIN rest : i + n \in DOMAIN u /\ rest[i] = u[i + n]
  <2> u \in Seq(Message)
    BY <1>1
  <2>1. rest \in Seq(Message)
    BY RestResult
  <2>2. Len(rest) = Len(u) - n
    BY RestResult, SMTT(30)
  <2>3. \A i \in DOMAIN rest : i + n \in DOMAIN u /\ rest[i] = u[i + n]
    BY <1>1, RestResult
  <2> QED
    BY <2>1, <2>2, <2>3
<1>4. DOMAIN rest = 1 .. Len(u) - n
  BY <1>3, LenProperties
<1> HIDE DEF block, rest
<1>5. Asking(block) /\ Asking(rest)
  BY <1>1, <1>2, <1>3 DEF Asking
<1>6. /\ Bodies(block) \in Seq(Requests) /\ Len(Bodies(block)) = n
      /\ \A i \in 1 .. n : Bodies(block)[i] = u[i].body
  BY <1>2, <1>5, BodiesResult
<1>7. /\ Bodies(rest) \in Seq(Requests) /\ Len(Bodies(rest)) = Len(u) - n
      /\ \A i \in 1 .. Len(u) - n : Bodies(rest)[i] = u[i + n].body
  <2>1. /\ Bodies(rest) \in Seq(Requests) /\ Len(Bodies(rest)) = Len(rest)
        /\ \A i \in 1 .. Len(rest) : Bodies(rest)[i] = rest[i].body
    BY <1>5, BodiesResult
  <2> QED
    BY <1>3, <1>4, <2>1
<1>8. /\ all \in Seq(Requests) /\ Len(all) = Len(u)
      /\ \A i \in 1 .. Len(u) : all[i] = u[i].body
  BY BodiesResult
<1>9. ReadWith(block, k) = Bodies(block)
  <2>1. Legible(block, k)
    BY <1>1, <1>2 DEF Legible, Whole
  <2>2. Split(Bodies(block)) = Bodies(block)
    BY <1>6 DEF Split
  <2> QED
    BY <2>1, <2>2 DEF ReadWith
<1> HIDE DEF all
<1> DEFINE both == Bodies(block) \o Bodies(rest)
<1>10. Len(Bodies(block)) + Len(Bodies(rest)) = Len(u)
  BY <1>1, <1>6, <1>7
<1>11. /\ both \in Seq(Requests) /\ Len(both) = Len(u)
       /\ \A i \in 1 .. Len(u) :
             both[i] = IF i <= n THEN Bodies(block)[i] ELSE Bodies(rest)[i - n]
  <2>1. both \in Seq(Requests)
    BY <1>6, <1>7, ConcatProperties
  <2>2. Len(both) = Len(Bodies(block)) + Len(Bodies(rest))
    BY <1>6, <1>7, ConcatProperties
  <2>3. \A i \in 1 .. Len(Bodies(block)) + Len(Bodies(rest)) :
           both[i] = IF i <= Len(Bodies(block)) THEN Bodies(block)[i]
                     ELSE Bodies(rest)[i - Len(Bodies(block))]
    BY <1>6, <1>7, ConcatProperties
  <2> QED
    BY <1>6, <1>10, <2>1, <2>2, <2>3
<1> HIDE DEF both
<1>12. ASSUME NEW i \in 1 .. Len(u)
       PROVE  both[i] = all[i]
  <2>1. CASE i <= n
    <3>1. i \in 1 .. n
      BY <1>1, <2>1
    <3> QED
      BY <1>6, <1>8, <1>11, <2>1, <3>1
  <2>2. CASE ~(i <= n)
    <3>1. i - n \in 1 .. Len(u) - n /\ (i - n) + n = i
      BY <1>1, <2>2
    <3> QED
      BY <1>7, <1>8, <1>11, <2>2, <3>1
  <2> QED
    BY <2>1, <2>2
<1>13. both = all
  BY <1>8, <1>11, <1>12, SeqEqual
<1> QED
  BY <1>9, <1>13 DEF both, all, block, rest

\* One pipe of Delivery, in one step.
Flows(c) ==
    IF c \in Followed \cap Followed'
    THEN Unserved'[c] \in {Unserved[c]} \cup Promised!Put(Unserved[c])
                           \cup Promised!Serve(Unserved[c])
    ELSE Unserved'[c] = <<>>

LEMMA UnservedResult ==
    ASSUME TypeOK, WireSound, NEW c \in Followed
    PROVE  /\ Asking(up[c]) /\ Bodies(up[c]) \in Seq(Requests)
           /\ Unserved[c] = Pending(c) \o Bodies(up[c])
<1>1. Asking(up[c])
  BY PendingTyped DEF Asking, WireSound, PhaseOf, Phase
<1> QED
  BY <1>1, BodiesResult, FollowedIsOpen DEF Unserved, Pending

LEMMA UnservedNext ==
    ASSUME NEW c \in Socks
    PROVE  Unserved'[c] = IF c \in Followed' THEN Pending(c)' \o Bodies(up'[c])
                          ELSE <<>>
BY DEF Unserved, Pending

LEMMA SameFlow ==
    ASSUME NEW c \in Socks, c \in Followed \/ c \notin Followed',
           Pending(c)' = Pending(c), up'[c] = up[c]
    PROVE  Flows(c)
BY UnservedNext DEF Flows, Unserved, Pending

\* A connection that is not followed any longer, or is not yet used.
LEMMA EmptyFlow ==
    ASSUME NEW c \in Socks,
           \/ c \notin Followed'
           \/ c \notin Followed /\ Pending(c)' = <<>> /\ up'[c] = <<>>
    PROVE  Flows(c)
<1>1. Bodies(<<>>) = <<>> /\ <<>> \o <<>> = <<>>
  BY DEF Bodies
<1>2. Unserved'[c] = <<>>
  BY <1>1, UnservedNext
<1> QED
  BY <1>2 DEF Flows

LEMMA ServedFlow ==
    ASSUME TypeOK, WireSound, NextToken, NEW c \in Socks,
           c \in Followed' => c \in Followed, up'[c] = up[c]
    PROVE  Flows(c)
<1>1. CASE c \notin Followed'
  BY <1>1, EmptyFlow
<1>2. CASE c \in Followed' /\ c = reading
  <2>1. /\ token \in Seq(Requests) /\ token # <<>>
        /\ Pending(c) = token /\ Pending(c)' = Tail(token)
    BY <1>2, PendingNext
  <2>2. /\ Unserved[c] # <<>>
        /\ Unserved'[c] = Tail(Unserved[c])
    BY <1>2, <2>1, UnservedResult, UnservedNext, ServedFirst
  <2> QED
    BY <1>2, <2>2 DEF Flows, Promised!Serve
<1>3. CASE c \in Followed' /\ c # reading
  BY <1>3, PendingNext, SameFlow
<1> QED
  BY <1>1, <1>2, <1>3

LEMMA TakeOverFlow ==
    ASSUME TypeOK, WireSound, NEW t \in Socks, NEW k \in Keys, TakeOver(t, k),
           NEW c \in Socks
    PROVE  Flows(c)
<1>1. /\ NextToken /\ intact' = intact \ {t}
      /\ \A s \in keyLeft : s # t => s \in keyLeft'
  BY DEF TakeOver, Closed, Unfollowed
<1>2. CASE c = t
  BY <1>1, <1>2, EmptyFlow DEF Followed
<1>3. CASE c # t
  <2>1. up'[c] = up[c] /\ (c \in Followed' => c \in Followed)
    BY <1>1, <1>3 DEF TakeOver, Closed, Unfollowed, Cut, TypeOK, Followed
  <2> QED
    BY <1>1, <2>1, ServedFlow
<1> QED
  BY <1>2, <1>3

LEMMA ReceiveFlow ==
    ASSUME TypeOK, WireSound, NEW s \in Socks, ReceiveData(s), NEW c \in Socks
    PROVE  Flows(c)
<1>1. reading = NoSock /\ reading' = s /\ keyLeft' = keyLeft
  BY DEF ReceiveData
<1>2. c # NoSock /\ Pending(c) = <<>> /\ (c # s => Pending(c)' = <<>>)
  BY <1>1, NoSockAssumption DEF Pending
<1>3. CASE Receive(s)
  <2>1. Followed' = Followed
    BY <1>1, <1>3 DEF Receive, Followed
  <2>2. PICK n \in 1 .. Len(up[s]) :
           /\ Whole(up[s], n) /\ n < MaxTokens
           /\ token' = ReadWith(SubSeq(up[s], 1, n), m_CryptInfo[s])
           /\ up' = [up EXCEPT ![s] = Rest(@, n)]
    BY <1>3 DEF Receive
  <2>3. CASE c # s
    <3>1. up'[c] = up[c]
      BY <2>2, <2>3 DEF TypeOK
    <3> QED
      BY <1>2, <2>1, <2>3, <3>1, SameFlow
  <2>4. CASE c = s /\ c \in Followed
    <3>1. \A i \in DOMAIN up[c] : up[c][i].key = m_CryptInfo[c]
      BY <2>4, PhaseKeepsStep DEF KeysInStep
    <3>2. Asking(up[c])
      BY <2>4, UnservedResult
    <3>3. ReadWith(SubSeq(up[c], 1, n), m_CryptInfo[c]) \o Bodies(Rest(up[c], n))
             = Bodies(up[c])
      BY <2>2, <2>4, <3>1, <3>2, BlockAndRest
    <3>4. Pending(c)' = token' /\ up'[c] = Rest(up[c], n)
      BY <1>1, <2>2, <2>4 DEF Pending, TypeOK
    <3>5. Unserved'[c] = Bodies(up[c])
      BY <2>1, <2>2, <2>4, <3>3, <3>4, UnservedNext
    <3>6. Unserved[c] = Bodies(up[c])
      BY <1>2, <2>4, UnservedResult, ConcatEmptySeq
    <3> QED
      BY <2>1, <2>4, <3>5, <3>6 DEF Flows
  <2> QED
    BY <2>1, <2>3, <2>4, EmptyFlow
<1>4. CASE ReceiveNoise(s)
  <2>1. intact' = intact \ {s}
    BY <1>4 DEF ReceiveNoise, Unfollowed
  <2>2. CASE c = s
    BY <2>1, <2>2, EmptyFlow DEF Followed
  <2>3. CASE c # s
    <3>1. up'[c] = up[c] /\ (c \in Followed' => c \in Followed)
      BY <1>1, <1>4, <2>1, <2>3 DEF ReceiveNoise, Unfollowed, Cut, TypeOK, Followed
    <3> QED
      BY <1>2, <2>3, <3>1, SameFlow
  <2> QED
    BY <2>2, <2>3
<1> QED
  BY <1>3, <1>4 DEF ReceiveData

LEMMA SendFlow ==
    ASSUME TypeOK, WireSound, NEW s \in Socks, NEW body \in Requests,
           Send(s, body), NEW c \in Socks
    PROVE  Flows(c)
<1>1. Pending(c)' = Pending(c) /\ Followed' = Followed
  BY DEF Send, server, Pending, Followed
<1>2. CASE c # s
  BY <1>1, <1>2, SameFlow DEF Send, TypeOK
<1>3. CASE c = s /\ c \in Followed
  <2> DEFINE m == [key |-> peerKey[c], body |-> body]
  <2>1. m \in Message /\ m.body = body
    BY DEF TypeOK, Message
  <2>2. up'[c] = Append(up[c], m)
    BY <1>3 DEF Send, TypeOK
  <2> HIDE DEF m
  <2>3. Unserved'[c] = Append(Unserved[c], body)
    <3>1. Asking(up[c]) /\ Unserved[c] = Pending(c) \o Bodies(up[c])
      BY <1>3, UnservedResult
    <3>2. Unserved'[c] = Pending(c) \o Bodies(Append(up[c], m))
      BY <1>1, <1>3, <2>2, UnservedNext
    <3>3. Pending(c) \in Seq(Requests)
      BY <1>3, PendingTyped
    <3> QED
      BY <2>1, <3>1, <3>2, <3>3, AskedLast
  <2> QED
    BY <1>1, <1>3, <2>3 DEF Flows, Promised!Put
<1> QED
  BY <1>1, <1>2, <1>3, EmptyFlow

\* A connection is accepted without anything under way.
LEMMA AcceptFlow ==
    ASSUME TypeOK, NEW s \in Socks, AcceptClient(s), NEW c \in Socks
    PROVE  Flows(c)
<1>1. /\ Pending(c) = <<>> /\ Pending(c)' = <<>> /\ up' = up
  BY NoSockAssumption DEF AcceptClient, Pending
<1>2. c \notin intact => up[c] = <<>>
  BY DEF TypeOK
<1>3. c \in Followed' /\ c \notin Followed => c \notin intact
  BY DEF AcceptClient, Followed
<1> QED
  BY <1>1, <1>2, <1>3, SameFlow, EmptyFlow

LEMMA NextFlows ==
    ASSUME TypeOK, WireSound, TypeOK', [Next]_vars
    PROVE  [Promised!Next]_<<Followed, Unserved>>
<1>1. ASSUME NEW c \in Socks
      PROVE  Flows(c)
  <2>1. ASSUME NEW s \in Socks, AcceptClient(s) PROVE Flows(c)
    BY <2>1, AcceptFlow
  <2>2. ASSUME NEW s \in Socks, OnClose(s) PROVE Flows(c)
    <3>1. /\ Pending(c)' = Pending(c) /\ intact' = intact \ {s}
          /\ keyLeft' = keyLeft \ {s}
      BY <2>2 DEF OnClose, Closed, Unfollowed, Pending
    <3>2. CASE c = s
      BY <3>1, <3>2, EmptyFlow DEF Followed
    <3>3. CASE c # s
      <4>1. up'[c] = up[c] /\ (c \in Followed' => c \in Followed)
        BY <2>2, <3>1, <3>3 DEF OnClose, Closed, Unfollowed, Cut, TypeOK, Followed
      <4> QED
        BY <3>1, <4>1, SameFlow
    <3> QED
      BY <3>2, <3>3
  <2>3. ASSUME NEW s \in Socks, ReceiveData(s) PROVE Flows(c)
    BY <2>3, ReceiveFlow
  <2>4. CASE Dispatch
    <3>1. CASE Ignore
      BY <3>1, ServedFlow DEF Ignore, peers, Followed
    <3>2. CASE Other
      BY <3>2, ServedFlow DEF Other, Followed
    <3>3. CASE Refuse
      BY <3>3, ServedFlow DEF Refuse, Followed
    <3>4. ASSUME NEW k \in Keys, Login(k) PROVE Flows(c)
      BY <3>4, ServedFlow DEF Login, Followed
    <3>5. ASSUME NEW k \in Keys, NEW t \in Socks, TakeOver(t, k) PROVE Flows(c)
      BY <3>5, TakeOverFlow
    <3>6. CASE Hang
      BY <3>6, SameFlow DEF Hang, peers, Pending, Followed
    <3> QED
      BY <2>4, <3>1, <3>2, <3>3, <3>4, <3>5, <3>6 DEF Dispatch
  <2>5. ASSUME NEW s \in Socks, NEW body \in Requests, Send(s, body) PROVE Flows(c)
    BY <2>5, SendFlow
  <2>6. ASSUME NEW s \in Socks, Read(s) PROVE Flows(c)
    <3>1. Pending(c)' = Pending(c) /\ keyLeft' = keyLeft
      BY <2>6 DEF Read, server, Pending
    <3>2. CASE Hear(s)
      BY <3>1, <3>2, SameFlow DEF Hear, Followed
    <3>3. CASE Mishear(s) /\ c = s
      BY <3>3, EmptyFlow DEF Mishear, Unfollowed, Followed
    <3>4. CASE Mishear(s) /\ c # s
      <4>1. up'[c] = up[c] /\ (c \in Followed' => c \in Followed)
        BY <3>1, <3>4 DEF Mishear, Unfollowed, Cut, TypeOK, Followed
      <4> QED
        BY <3>1, <4>1, SameFlow
    <3> QED
      BY <2>6, <3>2, <3>3, <3>4 DEF Read
  <2>7. CASE Restart
    BY <2>7, EmptyFlow DEF Restart, Followed
  <2>8. CASE UNCHANGED vars
    BY <2>8, SameFlow DEF vars, server, peers, Pending, Followed
  <2> QED
    BY <2>1, <2>2, <2>3, <2>4, <2>5, <2>6, <2>7, <2>8 DEF Next
<1>2. DOMAIN Unserved' = Socks /\ Followed' \subseteq Socks
  BY DEF Unserved, Followed, TypeOK
<1> QED
  BY <1>1, <1>2 DEF Flows, Promised!Next

(* What is asked over a connection that is followed is served, all of it,  *)
(* unaltered and in order, until the connection ends: through blocks, keys *)
(* and other peers, at every address but where a key was left (369, 405).  *)
THEOREM RequestsAreKept == Spec => RequestsKept
<1>1. Init => Promised!Init
  BY DEF Init, Promised!Init, Unserved, Followed
<1>2. TypeOK /\ WireSound /\ TypeOK' /\ [Next]_vars
         => [Promised!Next]_<<Followed, Unserved>>
  BY NextFlows
<1> QED
  BY <1>1, <1>2, AlwaysSound, PTL DEF Spec, RequestsKept, Promised!Spec
=============================================================================
