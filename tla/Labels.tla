------------------------------- MODULE Labels -------------------------------
(***************************************************************************)
(* Strings of k bits, the security parameter: the coins of cut and choose, *)
(* and the wire labels, the keys the two parties hold for the wires of a   *)
(* garbled circuit (__m128i values cleared to k bits).  The label for bit  *)
(* 1 of a wire is the label for bit 0 shifted by the circuit's secret      *)
(* offset R, whose 0-th bit is 1 (point and permute, free XOR).            *)
(***************************************************************************)
EXTENDS Bits

CONSTANT K                   \* label length in bits, Env::k()
ASSUME KAssumption == K \in Nat \ {0}

Label == [0 .. K - 1 -> Bit]

a \oplus b == [i \in 0 .. K - 1 |-> BitXor(a[i], b[i])]

\* (Mutant: the block is used as it is, the clear mask forgotten.)
ClearNothing(v) == v

\* A block cut to its first K bits: the m_clear_mask of GarbledCct, the
\* bit counts given to Prng::rand and Bytes::hash.
Clear(v) == [i \in 0 .. K - 1 |-> IF v[i] = 1 THEN 1 ELSE 0]

\* The permutation bit of a label.
Lsb(a) == a[0]

\* The label for bit b of a wire whose label for bit 0 is z.
Offset(z, b, r) == IF b = 1 THEN z \oplus r ELSE z
=============================================================================
