-------------------------------- MODULE Bits --------------------------------
(* The bits of Bytes (get_ith_bit, set_ith_bit) and their exclusive or.      *)
EXTENDS Integers

Bit == {0, 1}

BitXor(a, b) == IF a = b THEN 0 ELSE 1
=============================================================================
