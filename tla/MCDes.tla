-------------------------------- MODULE MCDes -------------------------------
EXTENDS Des

Repeat(n) == [i \in 1 .. 8 |-> n]

\* The letters B, as in the disabled test of des.cpp, and keys that differ from
\* them in a lowest bit, in a highest one (a negative char, in the first half
\* of the key, at its end, and at the end of the key) or in one that
\* PermutedChoice2 leaves out of a round that turned nothing.
SomeKeys ==
    {Repeat(66)} \cup
    {[Repeat(66) EXCEPT ![change[1]] = change[2]] :
        change \in {<<1, 67>>, <<4, 194>>, <<8, 194>>, <<8, 2>>}}

SomeDatas ==
    {[i \in 1 .. 64 |-> IF i % 3 = 0 THEN 1 ELSE 0],
     [i \in 1 .. 64 |-> 1]}
=============================================================================
