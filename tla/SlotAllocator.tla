--------------------------- MODULE SlotAllocator ---------------------------
(***************************************************************************)
(* From wires to wire slots: remove_hash of test-circuit.cpp.  A circuit   *)
(* file of the older format names a wire by the position of its gate; the  *)
(* runtime (module Gates) keeps only m_cnt slots that gates reuse.         *)
(* remove_hash walks the file once to find the number of slots for the     *)
(* header, handing the slot of a wire back at its last read, and walks it  *)
(* a second time with fresh tables to write every gate with the slots it   *)
(* reads and the slot it writes.                                           *)
(*                                                                         *)
(* holder is what the runtime will have in its slots when it has evaluated *)
(* the gates written so far: the wire last written there.  In the code a   *)
(* slot is a number of 32 bits; the model is that of circuits that need no *)
(* more slots at one time.                                                 *)
(***************************************************************************)
EXTENDS CircuitFile, FiniteSets, FiniteSetsExt, Functions

CONSTANT MaxWires            \* bound on the wires of a circuit

Wires == 0..(MaxWires - 1)
Slots == Wires

VARIABLES
  pc,                        \* "first", "second", "done"
  bin,                       \* the file read
  m_gate_idx,                \* how far it has been read
  aligned,                   \* the reader is in step
  hash_tbl,                  \* wire -> its slot, and the reads left
  avail_idx,                 \* slots handed back
  tbl_max,                   \* slots ever handed out
  hash_free,                 \* the file written
  holder

vars == <<pc, bin, m_gate_idx, aligned, hash_tbl, avail_idx, tbl_max, hash_free, holder>>

Nobody == -1
NoTable == [x \in {} |-> 0]

Init ==
  /\ pc = "first"
  /\ m_gate_idx = 0
  /\ aligned = TRUE
  /\ hash_tbl = NoTable
  /\ avail_idx = {}
  /\ tbl_max = 0
  /\ hash_free = NoFile
  /\ holder = [s \in Slots |-> Nobody]

-----------------------------------------------------------------------------

more_gate_binary == m_gate_idx < Len(bin.gates)

Current == next_gate_binary_old(bin, m_gate_idx)

\* The tables in the middle of a gate; "failed" is the assertion that a wire
\* read is in the table, which ends the program.
Tables == [tbl |-> hash_tbl, avail |-> avail_idx, failed |-> FALSE]

LastRead(e) == e.left = 1
CountDown(tbl, x) == [tbl EXCEPT ![x] = [slot |-> @.slot, left |-> @.left - 1]]

Release(st, x) ==
  IF x \notin DOMAIN st.tbl THEN [st EXCEPT !.failed = TRUE]
  ELSE IF LastRead(st.tbl[x])
       THEN [st EXCEPT !.tbl = Restrict(@, DOMAIN @ \ {x}),
                       !.avail = @ \cup {st.tbl[x].slot}]
       ELSE [st EXCEPT !.tbl = CountDown(@, x)]

\* With the first n inputs of a gate read; it has two at most.
Reading(g, n) ==
  IF n = 0 THEN Tables
  ELSE IF n = 1 THEN Release(Tables, g.m_input_idx[1])
  ELSE Release(Release(Tables, g.m_input_idx[1]), g.m_input_idx[2])

Released(g) == Reading(g, Arity(g.tag))

\* The priority queue yields the lowest slot; an empty one is given a new.
SlotFor(st) == IF st.avail = {} THEN tbl_max ELSE Min(st.avail)

\* (Mutant: the slot handed out stays in the list of the free ones.)
NotPopped(avail, idx) == avail

\* pop()
Popped(avail, idx) == avail \ {idx}

\* The body both walks share, but for what the second one writes.
WalkGate ==
  /\ more_gate_binary
  /\ LET g   == Current
         st  == Released(g)
         idx == SlotFor(st)
     IN  /\ aligned' = g.aligned
         /\ IF ~g.aligned \/ st.failed
            THEN /\ pc' = "aborted"
                 /\ UNCHANGED <<m_gate_idx, hash_tbl, avail_idx, tbl_max>>
            ELSE /\ tbl_max' = IF st.avail = {} THEN tbl_max + 1 ELSE tbl_max
                 /\ avail_idx' = Popped(st.avail, idx)
                 /\ hash_tbl' = [x \in DOMAIN st.tbl \cup {m_gate_idx} |->
                                   IF x = m_gate_idx THEN [slot |-> idx, left |-> g.m_idx]
                                   ELSE st.tbl[x]]
                 /\ m_gate_idx' = m_gate_idx + 1
                 /\ pc' = pc

FirstWalk ==
  /\ pc = "first"
  /\ WalkGate
  /\ UNCHANGED <<bin, hash_free, holder>>

\* idx_sz, by the number of slots.
idx_sz(n) ==
  IF n <= UINT8_MAX THEN 1
  ELSE IF n <= UINT16_MAX THEN 2 ELSE IF n <= UINT32_MAX THEN 4 ELSE 8

NewHeader(slots) ==
  Header(bin.header.gate_cnt, bin.header.gen_inp_cnt, bin.header.evl_inp_cnt,
         bin.header.gen_out_cnt, bin.header.evl_out_cnt, idx_sz(slots), slots)

\* (Mutant: the second walk goes on counting slots from the first's maximum.)
BetweenKeepsMax ==
  /\ pc = "first" /\ ~more_gate_binary
  /\ hash_free' = [header |-> NewHeader(tbl_max), gates |-> << >>]
  /\ m_gate_idx' = 0
  /\ hash_tbl' = NoTable
  /\ avail_idx' = {}
  /\ pc' = "second"
  /\ UNCHANGED <<bin, aligned, tbl_max, holder>>

\* The header is written, and everything cleared for the second walk.
Between ==
  /\ pc = "first" /\ ~more_gate_binary
  /\ hash_free' = [header |-> NewHeader(tbl_max), gates |-> << >>]
  /\ m_gate_idx' = 0
  /\ tbl_max' = 0
  /\ hash_tbl' = NoTable
  /\ avail_idx' = {}
  /\ pc' = "second"
  /\ UNCHANGED <<bin, aligned, holder>>

\* The slot of an input is written before its read is counted down, so that the
\* second read of a wire still finds it.
SlotOf(g, j) == Reading(g, j - 1).tbl[g.m_input_idx[j]].slot

SecondWalk ==
  /\ pc = "second"
  /\ WalkGate
  /\ IF pc' = "aborted" THEN UNCHANGED <<hash_free, holder>>
     ELSE LET g   == Current
              idx == SlotFor(Released(g))
              sz  == hash_free.header.cnt_size
          IN  /\ hash_free' = [hash_free EXCEPT !.gates = Append(@,
                   GateFields(g.tag, g.table, [j \in 1..Arity(g.tag) |-> SlotOf(g, j)],
                              sz, idx, sz))]
              /\ holder' = [holder EXCEPT ![idx] = m_gate_idx]
  /\ UNCHANGED bin

SecondDone ==
  /\ pc = "second" /\ ~more_gate_binary
  /\ pc' = "done"
  /\ UNCHANGED <<bin, m_gate_idx, aligned, hash_tbl, avail_idx, tbl_max, hash_free, holder>>

Next == FirstWalk \/ Between \/ SecondWalk \/ SecondDone
=============================================================================
