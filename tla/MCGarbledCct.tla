---------------------------- MODULE MCGarbledCct ----------------------------
(***************************************************************************)
(* Instances of GarbledCct for TLC: labels of K bits, a toy generator and  *)
(* toy hash functions, every truth table of arity 1 and 2, and circuits    *)
(* that overwrite wire slots.                                              *)
(***************************************************************************)
EXTENDS GarbledCct

Lab(n) == [i \in 0 .. K - 1 |-> (n \div 2^i) % 2]

\* A whole block of the generator or of a hash, wider than a label.
Block(n) == [i \in 0 .. K |-> (n \div 2^i) % 2]

RECURSIVE NumFrom(_, _)
NumFrom(a, i) == IF i = K THEN 0 ELSE a[i] * 2^i + NumFrom(a, i + 1)
Num(a) == NumFrom(a, 0)

MCSlot   == 0..2
MCJunk   == Lab(2)
MCSeeds  == 0..1
MCOtKeys == {[b \in Bit |-> Lab(1 + b)], [b \in Bit |-> Lab(3)]}

MCRand(s, n)        == Block((s + 1) * (n + 2) + n * n)
MCInpKey(s, i, b)   == Block(3 * s + i + 2 * b + 1)
MCKDF128(n, a)      == Block(Num(a) * Num(a) + 3 * Num(a) + n + 1)
MCKDF256(n, a, b)   == Block(Num(a) * (Num(b) + 2) + Num(b) + n * n + 3)

Ones == [r \in 0..3 |-> 0]
Inp(t, s) == [tag |-> t, idx |-> s, arity |-> 0, x |-> s, y |-> s, table |-> Ones]
Un(t, s, x, tab) ==
  [tag |-> t, idx |-> s, arity |-> 1, x |-> x, y |-> x,
   table |-> [r \in 0..3 |-> tab[r % 2]]]
Bin(t, s, x, y, tab) ==
  [tag |-> t, idx |-> s, arity |-> 2, x |-> x, y |-> y, table |-> tab]

And == [r \in 0..3 |-> IF r = 3 THEN 1 ELSE 0]
Xor == [r \in 0..3 |-> IF r \in {1, 2} THEN 1 ELSE 0]
Or  == [r \in 0..3 |-> IF r = 0 THEN 0 ELSE 1]

\* Every binary table into every unary table, the slot of an input reused.
TableCircuits ==
  {<<Inp(GEN_INP, 0), Inp(EVL_INP, 1), Bin(ETC, 0, 0, 1, t), Un(o, 2, 0, u)>> :
     t \in [0..3 -> Bit], u \in [0..1 -> Bit], o \in {GEN_OUT, EVL_OUT}}

\* Two inputs of one party, a wire used twice, outputs of both parties that
\* are gates of every kind.
MixedCircuits ==
  {<<Inp(EVL_INP, 2), Inp(GEN_INP, 0), Inp(EVL_INP, 1),
     Bin(EVL_OUT, 0, 0, 2, Xor), Bin(ETC, 2, 2, 1, And),
     Bin(GEN_OUT, 1, 0, 2, Or), Bin(EVL_OUT, 1, 1, 1, And)>>,
   <<Inp(GEN_INP, 0), Inp(GEN_INP, 1), Bin(ETC, 2, 0, 1, And),
     Inp(EVL_INP, 0), Bin(EVL_OUT, 1, 0, 2, Or)>>}

MCInpCnt(c, t) == Cardinality({i \in 1..Len(c) : c[i].tag = t})

MCCircuits == TableCircuits \cup MixedCircuits
=============================================================================
