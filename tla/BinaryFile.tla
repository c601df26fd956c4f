----------------------------- MODULE BinaryFile -----------------------------
(***************************************************************************)
(* The last two programs of the compiler.  binary.cpp counts how often     *)
(* each wire is read and writes the circuit in the older binary format,    *)
(* the inputs in front.  generate_count.cpp, run by hand, counts again     *)
(* from that file and writes it anew with its own counts.                  *)
(***************************************************************************)
EXTENDS CircuitFile, FiniteSets

CONSTANTS InputParty,        \* the .inputs file: the party of each input, 0 or 1
          MaxWires           \* bound on the wires of a circuit

VARIABLES
  pc,                        \* "count", "ready", "recount", "recounted", "aborted"
  last,                      \* the gates deadgates.cpp left
  xxx,                       \* gates counted so far
  usage_cnt,                 \* the count file
  bin,                       \* the circuit file
  aligned                    \* no reader has fallen out of step

vars == <<pc, last, xxx, usage_cnt, bin, aligned>>

Wires == 0..(MaxWires - 1)
gate_cnt == Len(InputParty) + Len(last)

\* A new count file reads as zeros.
NoCounts == [x \in Wires |-> 0]

Init ==
  /\ pc = "count"
  /\ xxx = 0
  /\ usage_cnt = NoCounts
  /\ bin = NoFile
  /\ aligned = TRUE

-----------------------------------------------------------------------------
(* binary.cpp                                                               *)

set_count(cnt, x, n) == [cnt EXCEPT ![x] = n]
inc_count(cnt, x) == [cnt EXCEPT ![x] = @ + 1]

\* An output gate reads one wire, and 0 stands as its second input.
Second(g) == IF g.output THEN 0 ELSE g.y

Counted(cnt, g) ==
  LET read == inc_count(inc_count(set_count(cnt, g.id, 0), g.x), Second(g))
  IN  IF g.output THEN set_count(read, g.id, 1) ELSE read

CountGate ==
  /\ pc = "count" /\ xxx < Len(last)
  /\ usage_cnt' = Counted(usage_cnt, last[xxx + 1])
  /\ xxx' = xxx + 1
  /\ UNCHANGED <<pc, last, bin, aligned>>

InputFields(i) ==
  GateFields(IF InputParty[i] = 1 THEN EVL_INP ELSE GEN_INP, ZERO, << >>, 0,
             usage_cnt[i - 1], CNT_SIZE)

\* An output gate is written as the identity of one input, whatever its table.
OutTable == <<0, 1, 0, 0>>

\* (Mutant: the width changes one gate late.)
idx_size_late(g) == IdxSize(g.id - 1)
idx_size(g) == IdxSize(g.id)

OperationFields(g) ==
  IF g.output
  THEN GateFields(IF g.party = 1 THEN EVL_OUT ELSE GEN_OUT, OutTable, <<g.x>>,
                  idx_size(g), usage_cnt[g.id], CNT_SIZE)
  ELSE GateFields(ETC, g.table, <<g.x, g.y>>, idx_size(g), usage_cnt[g.id], CNT_SIZE)

\* The code adds gen_in and evl_in in a uint32_t before it writes that many
\* input gates; they are taken to be fewer than 2^32, here all of InputParty.
InputsOf(party)  == Cardinality({i \in DOMAIN InputParty : InputParty[i] = party})
OutputsOf(party) == Cardinality({i \in DOMAIN last : last[i].output /\ last[i].party = party})

Write ==
  /\ pc = "count" /\ xxx = Len(last)
  /\ IF \E i \in 1..Len(last) : last[i].id <= last[i].x \/ last[i].id <= last[i].y
     THEN pc' = "aborted" /\ UNCHANGED bin
     ELSE /\ bin' = [header |-> Header(gate_cnt, InputsOf(0), InputsOf(1),
                                       OutputsOf(0), OutputsOf(1), CNT_SIZE, 0),
                     gates |-> [k \in 1..gate_cnt |->
                                  IF k <= Len(InputParty) THEN InputFields(k)
                                  ELSE OperationFields(last[k - Len(InputParty)])]]
          /\ pc' = "ready"
  /\ UNCHANGED <<last, xxx, usage_cnt, aligned>>

-----------------------------------------------------------------------------
(* generate_count.cpp reads gate xxx with the widths for xxx.               *)

\* It has a count file of its own.
ReadHeader ==
  /\ pc = "ready"
  /\ pc' = "recount" /\ xxx' = 0 /\ usage_cnt' = NoCounts
  /\ UNCHANGED <<last, bin, aligned>>

\* (Mutant: a wire read twice by a gate counts once.)
RecountedOnce(cnt, k, g) ==
  LET c == set_count(cnt, k, 0)
      inputs == g.m_input_idx
  IN  IF Arity(g.tag) = 0 THEN c
      ELSE IF Arity(g.tag) = 1 \/ inputs[1] = inputs[2] THEN inc_count(c, inputs[1])
      ELSE inc_count(inc_count(c, inputs[1]), inputs[2])

\* Gate k starts at zero and counts each of its inputs, an output gate its only
\* one.
Recounted(cnt, k, g) ==
  LET c == set_count(cnt, k, 0)
      inputs == g.m_input_idx
  IN  IF Arity(g.tag) = 0 THEN c
      ELSE IF Arity(g.tag) = 1 THEN inc_count(c, inputs[1])
      ELSE inc_count(inc_count(c, inputs[1]), inputs[2])

RecountGate ==
  /\ pc = "recount" /\ xxx < gate_cnt /\ aligned
  /\ LET g == next_gate_binary_old(bin, xxx)
     IN  /\ aligned' = g.aligned
         /\ usage_cnt' = IF g.aligned THEN Recounted(usage_cnt, xxx, g)
                         ELSE usage_cnt
  /\ xxx' = xxx + 1
  /\ UNCHANGED <<pc, last, bin>>

\* The file anew, with the counts; one for an output gate.
Rewrite ==
  /\ pc = "recount" /\ xxx = gate_cnt /\ aligned
  /\ bin' = [bin EXCEPT !.gates = [k \in 1..gate_cnt |->
                 LET g == next_gate_binary_old(bin, k - 1)
                 IN  GateFields(g.tag, g.table, g.m_input_idx, IdxSize(k - 1),
                                IF Arity(g.tag) = 1 THEN 1 ELSE usage_cnt[k - 1], CNT_SIZE)]]
  /\ pc' = "recounted"
  /\ UNCHANGED <<last, xxx, usage_cnt, aligned>>

Next == CountGate \/ Write \/ ReadHeader \/ RecountGate \/ Rewrite
=============================================================================
