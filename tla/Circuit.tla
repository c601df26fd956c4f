------------------------------ MODULE Circuit ------------------------------
(***************************************************************************)
(* What a circuit computes: Circuit::evaluate_binary, which walks the gate *)
(* file once over an array of wire bits.  This is the specification the    *)
(* garbled execution of GarbledCct has to implement; the two output        *)
(* buffers are the sequences of the bits set_ith_bit has stored so far.    *)
(***************************************************************************)
EXTENDS Gates

VARIABLES
  cct,                       \* the gate file
  gen_inp, evl_inp,          \* the private inputs of the two parties
  gate_ix,                   \* gates already evaluated
  wire,                      \* a bit per slot
  gen_inp_ix, evl_inp_ix,    \* input bits already consumed
  gen_out, evl_out           \* output bits already produced

vars == <<cct, gen_inp, evl_inp, gate_ix, wire, gen_inp_ix, evl_inp_ix,
          gen_out, evl_out>>

TypeOK ==
  /\ cct \in Circuits
  /\ gen_inp \in Inputs(cct, GEN_INP)
  /\ evl_inp \in Inputs(cct, EVL_INP)
  /\ gate_ix \in 0..Len(cct)
  /\ wire \in [Slot -> Bit]
  /\ gen_inp_ix \in Nat
  /\ evl_inp_ix \in Nat
  /\ gen_out \in Seq(Bit)
  /\ evl_out \in Seq(Bit)

Init ==
  /\ cct \in Circuits
  /\ gen_inp \in Inputs(cct, GEN_INP)
  /\ evl_inp \in Inputs(cct, EVL_INP)
  /\ gate_ix = 0
  /\ wire = [s \in Slot |-> 0]
  /\ gen_inp_ix = 0
  /\ evl_inp_ix = 0
  /\ gen_out = << >>
  /\ evl_out = << >>

NextGate == cct[gate_ix + 1]

More == gate_ix < Len(cct)

\* The result of a gate with inputs: the row of its table the wires select.
Result(g) == g.table[Row(g, wire[g.x], wire[g.y])]

EvalGenInp ==
  /\ More /\ NextGate.tag = GEN_INP
  /\ wire' = [wire EXCEPT ![NextGate.idx] = gen_inp[gen_inp_ix]]
  /\ gen_inp_ix' = gen_inp_ix + 1
  /\ gate_ix' = gate_ix + 1
  /\ UNCHANGED <<cct, gen_inp, evl_inp, evl_inp_ix, gen_out, evl_out>>

EvalEvlInp ==
  /\ More /\ NextGate.tag = EVL_INP
  /\ wire' = [wire EXCEPT ![NextGate.idx] = evl_inp[evl_inp_ix]]
  /\ evl_inp_ix' = evl_inp_ix + 1
  /\ gate_ix' = gate_ix + 1
  /\ UNCHANGED <<cct, gen_inp, evl_inp, gen_inp_ix, gen_out, evl_out>>

EvalOp ==
  /\ More /\ NextGate.tag \notin InpTags
  /\ wire' = [wire EXCEPT ![NextGate.idx] = Result(NextGate)]
  /\ gen_out' = IF NextGate.tag = GEN_OUT THEN Append(gen_out, Result(NextGate))
                ELSE gen_out
  /\ evl_out' = IF NextGate.tag = EVL_OUT THEN Append(evl_out, Result(NextGate))
                ELSE evl_out
  /\ gate_ix' = gate_ix + 1
  /\ UNCHANGED <<cct, gen_inp, evl_inp, gen_inp_ix, evl_inp_ix>>

Next == EvalGenInp \/ EvalEvlInp \/ EvalOp

Spec == Init /\ [][Next]_vars
============================================================================
