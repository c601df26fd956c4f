----------------------------- MODULE Exponents -----------------------------
(***************************************************************************)
(* The groups of Algebra and ClawFree.  All are cyclic, of one order Q, so *)
(* an element is written as its logarithm to a base, or as its logarithms  *)
(* to two: a product is a sum and a power a product, modulo Q.  That it is *)
(* hard to find the logarithm of an element has no part in what the models *)
(* say.                                                                    *)
(***************************************************************************)
EXTENDS Integers

CONSTANT Q

ASSUME OrderAssumption == Q \in Nat \ {0}

\* The exponents, class Z.
Z == 0 .. Q - 1
=============================================================================
