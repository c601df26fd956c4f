--------------------------- MODULE MCConsistency2 ---------------------------
(***************************************************************************)
(* Consistency2 for TLC: a toy generator of exponents.                     *)
(***************************************************************************)
EXTENDS Consistency2

MCSeeds == {1, 2}
MCExp(sd, d, i, j, b) == (sd * (1 + i + 2 * d) * (1 + i + 3 * j + b) + sd \div 2) % Q
=============================================================================
