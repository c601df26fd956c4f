--------------------------- MODULE MCIdentityGates ---------------------------
(* Circuits of four gates over two inputs, from the tables the pass singles   *)
(* out and two it does not.                                                   *)
EXTENDS IdentityGates

MCTables == {ZERO, ONE, XOR, AND, XNOR, ANDNOT, <<0, 0, 1, 0>>, <<0, 1, 1, 1>>}
==============================================================================
