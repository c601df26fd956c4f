---------------------------- MODULE CircuitFile ----------------------------
(***************************************************************************)
(* The two binary formats of a circuit, and what their readers make of     *)
(* them: in the older one (binary.cpp, generate_count.cpp, the *_old       *)
(* functions of Circuit) a gate names the gates it reads and how often it  *)
(* is read; in the hash-free one (remove_hash, next_gate_binary) the slots *)
(* it reads and the slot it writes.                                        *)
(*                                                                         *)
(* A file is a header and its gates, with every number of a gate in so    *)
(* many bytes.  No width is in the file for the older format: writers and  *)
(* readers work it out from the number of the gate.  A reader that expects *)
(* other widths than the writer's is out of step ("aligned" is false) for  *)
(* good.                                                                   *)
(***************************************************************************)
EXTENDS CompilerGates, Sequences

CONSTANTS UINT8_MAX, UINT16_MAX, UINT32_MAX  \* where a width changes

ETC     == 0
GEN_INP == 1
EVL_INP == 2
GEN_OUT == 3
EVL_OUT == 4

\* A number is cut to the bytes it is written in.
Cut(v, w) == IF w = 1 THEN v % (UINT8_MAX + 1)
             ELSE IF w = 2 THEN v % (UINT16_MAX + 1)
             ELSE IF w = 4 THEN v % (UINT32_MAX + 1) ELSE v
Field(v, w) == [value |-> Cut(v, w), width |-> w]

\* The header; the slots, m_cnt, are in that of the hash-free format only.
CNT_SIZE == 8
Header(gates, gen_inp, evl_inp, gen_out, evl_out, cnt_size, slots) ==
  [gate_cnt |-> gates,
   gen_inp_cnt |-> Cut(gen_inp, 4), evl_inp_cnt |-> Cut(evl_inp, 4),
   gen_out_cnt |-> Cut(gen_out, 4), evl_out_cnt |-> Cut(evl_out, 4),
   cnt_size |-> cnt_size, m_cnt |-> Cut(slots, cnt_size)]

NoFile == [header |-> Header(0, 0, 0, 0, 0, 0, 0), gates |-> << >>]

\* The bytes an input of gate ix takes in the older format.
IdxSize(ix) == IF ix <= UINT16_MAX THEN 2 ELSE IF ix <= UINT32_MAX THEN 4 ELSE 8

Arity(tag) == IF tag \in {GEN_INP, EVL_INP} THEN 0 ELSE IF tag = ETC THEN 2 ELSE 1

\* A gate: the tag byte with the table in its low bits, the inputs, and m_idx.
GateFields(tag, table, inputs, idx_size, m_idx, cnt_size) ==
  [tag |-> tag, table |-> table,
   inputs |-> [i \in 1..Arity(tag) |-> Field(inputs[i], idx_size)],
   m_idx |-> Field(m_idx, cnt_size)]

\* What a reader makes of the gate with number m_gate_idx.
GateAt(f, m_gate_idx, idx_size, cnt_size) ==
  LET g == f.gates[m_gate_idx + 1]
  IN  [tag |-> g.tag, table |-> g.table,
       m_input_idx |-> [i \in 1..Arity(g.tag) |-> g.inputs[i].value],
       m_idx |-> g.m_idx.value,
       aligned |-> /\ \A i \in 1..Arity(g.tag) : g.inputs[i].width = idx_size
                   /\ g.m_idx.width = cnt_size]

next_gate_binary_old(f, m_gate_idx) ==
  GateAt(f, m_gate_idx, IdxSize(m_gate_idx), f.header.cnt_size)

next_gate_binary(f, m_gate_idx) ==
  GateAt(f, m_gate_idx, f.header.cnt_size, f.header.cnt_size)

\* All gates of a file, by its reader.
GatesOld(f) == [k \in DOMAIN f.gates |-> next_gate_binary_old(f, k - 1)]
GatesNew(f) == [k \in DOMAIN f.gates |-> next_gate_binary(f, k - 1)]

-----------------------------------------------------------------------------
(* Evaluation: target[k] is the wire gate k writes, its own number in the    *)
(* older format (evaluate_binary_old), m_idx in the other (evaluate_binary). *)

\* The wires and the inputs to be read, before the first gate.
Start(target, gen_inp, evl_inp) ==
  [wire |-> [x \in {target[k] : k \in DOMAIN target} |-> 0],
   gen_inp |-> gen_inp, evl_inp |-> evl_inp, gen_out |-> << >>, evl_out |-> << >>]

Operand(st, g, j) == st.wire[g.m_input_idx[j]]
Result(st, g) == CASE g.tag = GEN_INP -> Head(st.gen_inp)
                   [] g.tag = EVL_INP -> Head(st.evl_inp)
                   [] g.tag = ETC     -> Apply(g.table, Operand(st, g, 1), Operand(st, g, 2))
                   [] OTHER           -> Apply(g.table, Operand(st, g, 1), 0)

\* Gate g writes wire t.
EvaluateGate(st, g, t) ==
  LET bit == Result(st, g)
  IN  [wire    |-> [st.wire EXCEPT ![t] = bit],
       gen_inp |-> IF g.tag = GEN_INP THEN Tail(st.gen_inp) ELSE st.gen_inp,
       evl_inp |-> IF g.tag = EVL_INP THEN Tail(st.evl_inp) ELSE st.evl_inp,
       gen_out |-> IF g.tag = GEN_OUT THEN Append(st.gen_out, bit) ELSE st.gen_out,
       evl_out |-> IF g.tag = EVL_OUT THEN Append(st.evl_out, bit) ELSE st.evl_out]

Evaluate(gates, target, gen_inp, evl_inp) ==
  LET st[k \in 0..Len(gates)] ==
        IF k = 0 THEN Start(target, gen_inp, evl_inp)
        ELSE EvaluateGate(st[k - 1], gates[k], target[k])
  IN  <<st[Len(gates)].gen_out, st[Len(gates)].evl_out>>

evaluate_binary_old(f, gen_inp, evl_inp) ==
  Evaluate(GatesOld(f), [k \in DOMAIN f.gates |-> k - 1], gen_inp, evl_inp)

evaluate_binary(f, gen_inp, evl_inp) ==
  Evaluate(GatesNew(f), [k \in DOMAIN f.gates |-> GatesNew(f)[k].m_idx], gen_inp, evl_inp)
=============================================================================
