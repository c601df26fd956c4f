--------------------------- MODULE CompilerGates ---------------------------
(***************************************************************************)
(* What the passes of the compiler share: truth tables, and the map files  *)
(* by which a pass tells the next one that a wire was replaced (map_lookup *)
(* and map_file_print of compiler/util.cpp and gate.c).                    *)
(*                                                                         *)
(* A table is the tuple of its rows 00, 10, 01, 11 (first input first).    *)
(* The compiler keeps it as a number whose most significant bit is the row *)
(* 00, so 0x6, 0x1, 0x9, 0x4 are the tables below; write_binary_gate and   *)
(* read_binary_gate each reverse the four bits, so that a table read back  *)
(* is the table written.                                                   *)
(***************************************************************************)
EXTENDS Bits

Wire == Nat
Table == Bit \X Bit \X Bit \X Bit

ZERO   == <<0, 0, 0, 0>>     \* 0x0
ONE    == <<1, 1, 1, 1>>     \* 0xF
XOR    == <<0, 1, 1, 0>>     \* 0x6
AND    == <<0, 0, 0, 1>>     \* 0x1
XNOR   == <<1, 0, 0, 1>>     \* 0x9
ANDNOT == <<0, 1, 0, 0>>     \* 0x4: the first input and not the second

Apply(t, a, b) ==
  IF b = 0 THEN IF a = 0 THEN t[1] ELSE t[2]
           ELSE IF a = 0 THEN t[3] ELSE t[4]

Not(b) == 1 - b

\* The table of a gate whose first (second) input is inverted.
Flip0(t) == <<t[2], t[1], t[4], t[3]>>
Flip1(t) == <<t[3], t[4], t[1], t[2]>>

\* A map file is a total function: map_lookup answers with the wire itself
\* where nothing was written, also beyond the end of the file.
Unmapped(wires) == [x \in wires |-> x]
=============================================================================
