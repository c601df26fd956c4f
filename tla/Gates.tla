------------------------------- MODULE Gates -------------------------------
(***************************************************************************)
(* The gates of a compiled circuit as the runtime reads them: struct Gate  *)
(* and is_xor of system/Circuit.h, decoded by Circuit::next_gate_binary.   *)
(* A circuit is the sequence of gates between the header and the end of    *)
(* the binary file.  A gate writes its output to the wire slot "idx"; the  *)
(* compiler reuses slots, so two gates of a circuit may share one, and a   *)
(* gate may overwrite a slot it reads.                                     *)
(***************************************************************************)
EXTENDS Bits, Sequences, FiniteSets

CONSTANTS Slot,              \* the wire slots 0 .. m_cnt-1 of the circuit file
          Circuits,          \* the circuits considered
          InpCnt(_, _)       \* m_gen_inp_cnt, m_evl_inp_cnt of a file's header

ETC     == "ETC"
GEN_INP == "GEN_INP"
EVL_INP == "EVL_INP"
GEN_OUT == "GEN_OUT"
EVL_OUT == "EVL_OUT"
InpTags == {GEN_INP, EVL_INP}
Tags    == InpTags \cup {ETC, GEN_OUT, EVL_OUT}

\* Gates of every arity share one record: m_input_idx is x, y as far as the
\* arity goes, and a table of arity a has its 2^a bits in front.  An input
\* gate has arity 0.
Gate == [tag : Tags, idx : Slot, arity : 0..2, x : Slot, y : Slot,
         table : [0..3 -> Bit]]

Reads(g) == IF g.arity = 0 THEN {} ELSE IF g.arity = 1 THEN {g.x} ELSE {g.x, g.y}

\* The row of the truth table two (one) input bits select: the first input is
\* the low bit.
Row(g, a, b) == IF g.arity = 2 THEN a + 2 * b ELSE a

IsXor(g) ==
  \/ g.arity = 2 /\ g.table = [r \in 0..3 |-> IF r \in {1, 2} THEN 1 ELSE 0]
  \/ g.arity = 1 /\ g.table[0] = 0 /\ g.table[1] = 1

\* The rows of a garbled table that are sent: all but the first, none for a gate
\* that is free.
Rows(g) == IF IsXor(g) THEN 0 ELSE IF g.arity = 2 THEN 3 ELSE 1

\* How many of the first n gates of c carry tag t.
Count(c, t, n) == Cardinality({i \in 1..n : c[i].tag = t})

\* The slots that hold a value once n gates of c are done.
Written(c, n) == {c[i].idx : i \in 1..n}

\* What the compiler writes: exactly the input gates have no inputs, and a
\* slot is read only after some gate has written it.
WellFormed(c) ==
  /\ c \in Seq(Gate)
  /\ \A i \in 1..Len(c) :
        /\ c[i].tag \in InpTags <=> c[i].arity = 0
        /\ Reads(c[i]) \subseteq Written(c, i - 1)

ASSUME CircuitsAssumption ==
  \A c \in Circuits :
    /\ WellFormed(c)
    /\ \A t \in InpTags : InpCnt(c, t) = Count(c, t, Len(c))

\* The inputs of a party: one bit for each of its input gates.
Inputs(c, t) == [0 .. InpCnt(c, t) - 1 -> Bit]
============================================================================
