----------------------------- MODULE MCOpenings -----------------------------
(***************************************************************************)
(* Openings for TLC: two nodes of one circuit and one node of two, every   *)
(* choice that evaluates circuit 0, a circuit with two inputs of the       *)
(* evaluator, slots used twice, a gate that is free and one that is not.   *)
(***************************************************************************)
EXTENDS Openings

MCShapes == {<<2, 1>>, <<1, 2>>}

And == [r \in 0..3 |-> IF r = 3 THEN 1 ELSE 0]
Xor == [r \in 0..3 |-> IF r \in {1, 2} THEN 1 ELSE 0]

Inp(t, s) == [tag |-> t, idx |-> s, arity |-> 0, x |-> s, y |-> s, table |-> And]
Bin(t, s, x, y, tab) == [tag |-> t, idx |-> s, arity |-> 2, x |-> x, y |-> y, table |-> tab]

MCSlot == 0..2
MCCircuits ==
  {<<Inp(EVL_INP, 0), Inp(GEN_INP, 1), Inp(EVL_INP, 2), Bin(ETC, 1, 1, 0, Xor),
     Bin(EVL_OUT, 0, 1, 2, And)>>}
MCInpCnt(c, t) == Cardinality({i \in 1..Len(c) : c[i].tag = t})

MCSeeds == {1}
Weight == [g |-> 1, y |-> 2, a |-> 4, r |-> 3, K |-> 5, s |-> 7, t |-> 9, mask |-> 11]
MCRand(sd, name) ==
  ((sd + 2) * (Weight[name[1]] + 5 * name[2] + 3 * name[3] + name[4])
     + sd * Weight[name[1]] + 1) % Q
=============================================================================
