--------------------------- MODULE MCConsistency ---------------------------
(***************************************************************************)
(* Consistency for TLC: a toy generator of exponents.                      *)
(***************************************************************************)
EXTENDS Consistency

MCSeeds == {1, 2}
MCExp(sd, d, i, j, b) == (sd * (1 + i + 2 * d) * (1 + i + 3 * j + b) + sd \div 2) % Q
=============================================================================
