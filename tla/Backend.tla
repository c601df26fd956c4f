------------------------------ MODULE Backend ------------------------------
(***************************************************************************)
(* The back end of the compiler and the test program's conversion, one     *)
(* program after the other, each reading the file the one before has left: *)
(*   deadgates.cpp       DeadGates      drops and renumbers gates          *)
(*   binary.cpp          BinaryFile     writes the older binary format     *)
(*   generate_count.cpp  BinaryFile     may count again                    *)
(*   remove_hash         SlotAllocator  writes the hash-free format        *)
(* What the runtime reads in the end has to compute what the compiler's    *)
(* second pass left.                                                       *)
(***************************************************************************)
EXTENDS DeadGates, Functions

CONSTANTS InputParty,        \* the .inputs file: the party of each input
          UINT8_MAX, UINT16_MAX, UINT32_MAX

ASSUME InputsAssumption == InputParty \in [1..InpCnt -> {0, 1}]

ASSUME WidthAssumption ==
  /\ {UINT8_MAX, UINT16_MAX, UINT32_MAX} \subseteq Nat \ {0}
  /\ UINT8_MAX < UINT16_MAX /\ UINT16_MAX < UINT32_MAX

VARIABLES
  binary_pc, xxx, usage_cnt, \* binary.cpp and generate_count.cpp
  bin,                       \* their circuit file
  aligned,                   \* readers and writers agree on the widths
  slots_pc, m_gate_idx, hash_tbl, avail_idx, tbl_max,  \* remove_hash
  hash_free, holder

binary_vars == <<binary_pc, xxx, usage_cnt>>
slots_vars  == <<slots_pc, m_gate_idx, hash_tbl, avail_idx, tbl_max, hash_free, holder>>
vars_all    == <<vars, binary_vars, slots_vars, bin, aligned>>

Binary == INSTANCE BinaryFile WITH pc <- binary_pc, last <- out_file, MaxWires <- MaxId + 1
SlotAlloc == INSTANCE SlotAllocator WITH pc <- slots_pc, MaxWires <- MaxId + 1

InitAll ==
  /\ Init
  /\ Binary!Init
  /\ SlotAlloc!Init

Dead == Next /\ UNCHANGED <<binary_vars, slots_vars, bin, aligned>>

\* generate_count is run before remove_hash or not at all.
Write == /\ pc = "done"
         /\ slots_pc = "first" /\ m_gate_idx = 0
         /\ Binary!Next
         /\ UNCHANGED <<vars, slots_vars>>

RemoveHash == /\ binary_pc \in {"ready", "recounted"}
              /\ SlotAlloc!Next
              /\ UNCHANGED <<vars, binary_vars>>

NextAll == Dead \/ Write \/ RemoveHash

SpecAll == InitAll /\ [][NextAll]_vars_all

-----------------------------------------------------------------------------
(* Properties *)

\* The value of wire x of a gate file, for the inputs v and the values val of
\* the wires before it.
ValueIn(f, v, val, x) ==
  LET S == {i \in 1..Len(f) : f[i].id = x}
      g == f[CHOOSE i \in S : TRUE]
  IN  IF x \in Inputs THEN v[x]
      ELSE IF S = {} THEN 0
      ELSE IF g.output THEN val[g.x]
      ELSE Apply(g.table, val[g.x], val[g.y])

Values(f, v) == LET val[x \in Ids] == ValueIn(f, v, val, x) IN val

\* What the output gates of a party yield, in the order of the file.
OutputBits(f, v, p) ==
  LET bits[i \in 0..Len(f)] ==
        IF i = 0 THEN << >>
        ELSE IF f[i].output /\ f[i].party = p THEN Append(bits[i - 1], Values(f, v)[f[i].id])
        ELSE bits[i - 1]
  IN  bits[Len(f)]

\* The inputs of a party, in the order of the .inputs file: those among the last
\* n of the file.
InputBits(v, p) ==
  LET bits[n \in 0..InpCnt] ==
        IF n = 0 THEN << >>
        ELSE LET i == InpCnt - n
             IN  IF InputParty[i + 1] = p THEN <<v[i]>> \o bits[n - 1] ELSE bits[n - 1]
  IN  bits[InpCnt]

\* For every input, the evaluator of either binary format computes of its file
\* what the file the back end was given computes, each party's output apart.
\* Between the two lie dropped gates, new numbers, reversed tables, widths that
\* change with the size of a number, and slots that several wires share.  With
\* the shared cache as the store it holds only as long as no lookup of a wire in
\* the map of the pass before has been answered with a number of newmap; then a
\* wire is renumbered twice, and seldom does an assertion notice (ChainHolds).
OutputsSame ==
  slots_pc = "done" /\ ~misled =>
     \A v \in [Inputs -> Bit] :
        LET right == <<OutputBits(file, v, 0), OutputBits(file, v, 1)>>
        IN  /\ Binary!evaluate_binary_old(bin, InputBits(v, 0), InputBits(v, 1)) = right
            /\ SlotAlloc!evaluate_binary(hash_free, InputBits(v, 0), InputBits(v, 1)) = right

\* No program of the chain stops at an assertion, and none reads a number in
\* another width than it was written in: a wire is not forgotten before its last
\* read, also by a gate that reads it twice.  There are two exceptions.  The
\* assertion of the marking loop, assert(one_out != 0), fails for a program that
\* goes on after its last output with a gate nothing needs.  And a gate misled to
\* the wire of an output finds that generate_count gives it one read: the second
\* one fails the assertion of remove_hash, in its first walk.
ChainHolds ==
  /\ aligned
  /\ pc = "aborted" => ~file[Len(file)].output
  /\ binary_pc # "aborted"
  /\ slots_pc = "aborted" => misled /\ binary_pc = "recounted" /\ hash_free = SlotAlloc!NoFile

\* How often wire x is read by the gates of the circuit file from gate i on.
ReadsFrom(x, i) ==
  LET later == {k \in DOMAIN out_file : k >= i + 1 - InpCnt}
  IN  Cardinality({k \in later : out_file[k].x = x})
      + Cardinality({k \in later : ~out_file[k].output /\ out_file[k].y = x})

\* Every wire that has yet to be read is, in the runtime, in the slot the table
\* names: no gate written so far has overwritten it.
NoClobber ==
  slots_pc = "second" =>
     \A x \in 0..(m_gate_idx - 1) :
        ReadsFrom(x, m_gate_idx) > 0 =>
           x \in DOMAIN hash_tbl /\ holder[hash_tbl[x].slot] = x

\* The header of the hash-free file bounds every slot in it, with which the
\* runtime allocates, and counts the gates and inputs that are there.
HeaderHolds ==
  slots_pc = "done" =>
     LET gates  == SlotAlloc!GatesNew(hash_free)
         header == hash_free.header
         Tagged(t) == Cardinality({k \in DOMAIN gates : gates[k].tag = t})
     IN  /\ \A k \in DOMAIN gates :
              {gates[k].m_idx} \cup Range(gates[k].m_input_idx) \subseteq 0..(header.m_cnt - 1)
         /\ header.gate_cnt = Len(gates)
         /\ header.gen_inp_cnt = Tagged(SlotAlloc!GEN_INP) % (UINT32_MAX + 1)
         /\ header.evl_inp_cnt = Tagged(SlotAlloc!EVL_INP) % (UINT32_MAX + 1)
         /\ header.gen_out_cnt = Tagged(SlotAlloc!GEN_OUT) % (UINT32_MAX + 1)
         /\ header.evl_out_cnt = Tagged(SlotAlloc!EVL_OUT) % (UINT32_MAX + 1)

\* The counts in the circuit file are the numbers of reads, the outputs' own
\* aside (use_count_test); but binary.cpp counts wire 0 once too often for every
\* output gate, so that its slot is never handed back.
CountsExact ==
  binary_pc \in {"ready", "recounted"} =>
     LET gates == Binary!GatesOld(bin)
         outputs == Cardinality({k \in DOMAIN out_file : out_file[k].output})
     IN  \A k \in DOMAIN gates :
            Binary!Arity(gates[k].tag) # 1 =>
               gates[k].m_idx = ReadsFrom(k - 1, k)
                                + IF k = 1 /\ binary_pc = "ready" THEN outputs ELSE 0
=============================================================================
