----------------------------- MODULE CctObject -----------------------------
(***************************************************************************)
(* The object GarbledCct as BetterYao and BetterYao2 use it: garbled from  *)
(* a seed, perhaps a second time, with what is sent for a gate either      *)
(* handed out (send) or hashed (com_next_gate).  What GarbledCct works out *)
(* in bits is kept as the term it is computed from: two keys or rows are   *)
(* equal when they come from the same seed, inputs and labels by the same  *)
(* operations.                                                             *)
(***************************************************************************)
EXTENDS Gates, SequencesExt

CONSTANTS
  HashBufferSize,      \* CIRCUIT_HASH_BUFFER_SIZE, in keys
  Junk,                \* what a fresh m_w array happens to hold
  Unset                \* a member nothing has been assigned to yet

\* A circuit nothing has been done with.
Fresh ==
  [ot_keys |-> << >>, mask |-> Unset, rnd |-> Unset, M |-> Unset,
   w |-> [s \in Slot |-> Junk], gate_ix |-> 0, gen_inp_ix |-> 0, evl_inp_ix |-> 0,
   o_bufr |-> << >>, hash |-> << >>]

\* gen_init; the labels of an earlier pass stay where they are.
GenInit(c) ==
  [c EXCEPT !.gate_ix = 0, !.gen_inp_ix = 0, !.evl_inp_ix = 0, !.o_bufr = << >>]

ComInit(c) == [GenInit(c) EXCEPT !.hash = << >>]

EvlInit(c) ==
  [c EXCEPT !.gate_ix = 0, !.gen_inp_ix = 0, !.evl_inp_ix = 0, !.hash = << >>]

\* gen_next_gate: the zero key of the gate's wire and the keys to send.
ZeroKey(c, g) ==
  IF g.tag \in InpTags THEN <<"rand", c.rnd, c.gen_inp_ix + c.evl_inp_ix>>
  ELSE IF ~IsXor(g) THEN <<"row", c.rnd, c.gate_ix, 0, g.table, c.w[g.x], c.w[g.y]>>
  ELSE IF g.arity = 1 THEN c.w[g.x]
  ELSE <<"xor", c.w[g.x], c.w[g.y]>>

Keys(c, g) ==
  IF g.tag = GEN_INP
  THEN [e \in 1 .. 2 |-> <<"M", c.rnd, c.gen_inp_ix, BitXor(e - 1, c.mask[c.gen_inp_ix]),
                           ZeroKey(c, g)>>]
  ELSE IF g.tag = EVL_INP
  THEN [e \in 1 .. 2 |-> <<"ot", c.rnd, e - 1, c.ot_keys[c.evl_inp_ix][e - 1], ZeroKey(c, g)>>]
  ELSE [e \in 1 .. Rows(g) |->
          <<"row", c.rnd, c.gate_ix, e, g.table, c.w[g.x], c.w[g.y]>>]
       \o IF g.tag \in {GEN_OUT, EVL_OUT} THEN << <<"perm", ZeroKey(c, g)>> >> ELSE << >>

Counted(c, g) ==
  [c EXCEPT !.gate_ix = @ + 1,
            !.gen_inp_ix = IF g.tag = GEN_INP THEN @ + 1 ELSE @,
            !.evl_inp_ix = IF g.tag = EVL_INP THEN @ + 1 ELSE @]

GenNextGate(c, g) ==
  [Counted(c, g) EXCEPT !.w[g.idx] = ZeroKey(c, g), !.o_bufr = @ \o Keys(c, g)]

\* Long data are hashed by chunks.
UpdateHash(hash, data) ==
  LET all == hash \o data
  IN  IF Len(all) > HashBufferSize THEN << <<"hash", all>> >> ELSE all

ComNextGate(c, g) ==
  LET next == GenNextGate(c, g)
  IN  [next EXCEPT !.hash = UpdateHash(@, next.o_bufr), !.o_bufr = << >>]

\* evl_next_gate, as far as it goes beyond the module GarbledCct: what has been
\* received is hashed.
EvlNextGate(c, g, i_bufr) == [Counted(c, g) EXCEPT !.hash = UpdateHash(@, i_bufr)]
=============================================================================
