-------------------------------- MODULE Rsa --------------------------------
(***************************************************************************)
(* encrypt/rsa.cpp: the key that LoginData makes for a client, and one     *)
(* byte that crosses the connection under it.  The server enciphers with   *)
(* m_privateKey and the client deciphers with the public key; the other    *)
(* way round the client enciphers with the public key.                     *)
(*                                                                         *)
(* rand() is a choice among all values.  A loop that draws until a draw is *)
(* right is one step that draws right, and LoopOn where none can be.       *)
(* A definition named X_Y is a slip that X could contain.                  *)
(***************************************************************************)
EXTENDS Integers

CONSTANTS
    RandomLimit,    \* primes and exponents are rand() % RandomLimit, 100 in the build
    Chars           \* the bytes sent, signed as char is

ASSUME LimitAssumption == RandomLimit \in Nat \ {0}
ASSUME CharsAssumption == Chars \subseteq -128 .. 127

Random == 0 .. RandomLimit - 1

-----------------------------------------------------------------------------
(* Arithmetic.                                                             *)

Sqrt(k) == CHOOSE r \in 0 .. k : r * r <= k /\ k < (r + 1) * (r + 1)

(* Trial division by 3, 5, ... up to sqrt(k) + 1; an even number is none.  *)
IsNotPrime(k) ==
    \/ k % 2 = 0
    \/ \E i \in 3 .. Sqrt(k) + 1 : i % 2 = 1 /\ k % i = 0

gcd[x \in Nat, y \in Nat] == IF y = 0 THEN x ELSE gcd[y, x % y]

(* The remainder of C, which takes the sign of the dividend.               *)
Remainder(a, m) == IF a >= 0 THEN a % m ELSE -((-a) % m)

(* b^e in the remainders of m.  The code multiplies e times; squaring      *)
(* leaves the same remainders.                                             *)
Power(b, e, m) ==
    LET residue[i \in 0 .. e] ==
            CASE i = 0     -> 1
              [] i % 2 = 1 -> Remainder(residue[i - 1] * b, m)
              [] OTHER     -> LET half == residue[i \div 2]
                              IN  Remainder(half * half, m)
    IN  residue[e]

mod_OneShort(b, e, m) == Power(b, IF e = 0 THEN 0 ELSE e - 1, m)

mod(b, e, m) == Power(b, e, m)

AsChar(x) == ((x + 128) % 256) - 128

-----------------------------------------------------------------------------
VARIABLES
    pc,         \* what comes next
    prime,      \* Prime[0] and Prime[1]
    public,     \* m_publicKey
    private,    \* m_privateKey
    plain,      \* the byte to be sent
    received    \* what the other side makes of it

vars == <<pc, prime, public, private, plain, received>>

n == prime[1] * prime[2]

(* What Make_Random_Prime_Number returns.                                  *)
e_pi == (prime[1] - 1) * (prime[2] - 1)

Make_Random_Prime_Number ==
    /\ pc = "primes"
    /\ \E p, q \in {k \in Random : ~IsNotPrime(k)} : prime' = <<p, q>>
    /\ pc' = "public"
    /\ UNCHANGED <<public, private, plain, received>>

MayBePublic_AnyBelow(e) == e < e_pi

MayBePublic(e) == e < e_pi /\ gcd[e, e_pi] = 1

Make_Public_Key ==
    /\ pc = "public"
    /\ \E e \in Random : MayBePublic(e) /\ public' = e
    /\ pc' = "private"
    /\ UNCHANGED <<prime, private, plain, received>>

(* The d with e * d % e_pi = 1 that counting up from 0 meets: the only one *)
(* below e_pi, if there is one.                                            *)
Make_Private_Key ==
    /\ pc = "private"
    /\ \E d \in 0 .. e_pi - 1 : (public * d) % e_pi = 1 /\ private' = d
    /\ pc' = "keys"
    /\ UNCHANGED <<prime, public, plain, received>>

(* A round of either loop that does not end it: with e_pi = 0 none does.   *)
LoopOn ==
    /\ pc \in {"public", "private"}
    /\ UNCHANGED vars

(* SendData -> Make_Cyper_text here, and the client's Make_Plain_text.     *)
ToClient(c) == AsChar(mod(mod(c, private, n), public, n))

(* The client's Make_Cyper_text, and Make_Plain_text in ReceiveData.  Both *)
(* work under the n that SetPrime has set for the session.                 *)
ToServer(c) == AsChar(mod(mod(c, public, n), private, n))

Transmit ==
    /\ pc = "keys"
    /\ \E c \in Chars :
          /\ plain' = c
          /\ received' \in {ToClient(c), ToServer(c)}
    /\ pc' = "sent"
    /\ UNCHANGED <<prime, public, private>>

(* The next login makes the next key.                                      *)
NextLogin ==
    /\ pc = "sent"
    /\ pc' = "primes"
    /\ prime' = <<1, 1>> /\ public' = 0 /\ private' = 0
    /\ plain' = 0 /\ received' = 0

Init ==
    /\ pc = "primes"
    /\ prime = <<1, 1>> /\ public = 0 /\ private = 0
    /\ plain = 0 /\ received = 0

Next ==
    \/ Make_Random_Prime_Number
    \/ Make_Public_Key
    \/ Make_Private_Key
    \/ LoopOn
    \/ Transmit
    \/ NextLogin

(* rand() has a full period, so every value of rand() % 100 is drawn again *)
(* and again: a draw that can be right is in the end.                      *)
Fairness ==
    /\ WF_vars(Make_Random_Prime_Number)
    /\ WF_vars(Make_Public_Key)
    /\ WF_vars(Make_Private_Key)

Spec == Init /\ [][Next]_vars /\ Fairness

-----------------------------------------------------------------------------
IsPrime(k) == k > 1 /\ \A d \in 2 .. k - 1 : k % d # 0

(* Under a key of two different primes whose product exceeds 128, every    *)
(* byte arrives as it was sent, in both directions, the negative ones of   *)
(* Korean text included.  Nothing keeps the primes apart or large: with    *)
(* P = Q, e_pi is not phi of n and hardly any byte arrives.                *)
RoundTrip ==
    pc = "sent" /\ IsPrime(prime[1]) /\ IsPrime(prime[2])
                /\ prime[1] # prime[2] /\ n > 128
        => received = plain

(* Key generation, which the whole server waits for, comes to an end when  *)
(* both primes are prime.                                                  *)
KeysMade ==
    (pc = "public" /\ IsPrime(prime[1]) /\ IsPrime(prime[2])) ~> (pc = "keys")
=============================================================================
