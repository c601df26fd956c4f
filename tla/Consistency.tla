---------------------------- MODULE Consistency ----------------------------
(***************************************************************************)
(* consistency_check of BetterYao: the generator's input enters every      *)
(* evaluation-circuit i as elements M_{i,j} = F(b_j, m_{i,j}), one for      *)
(* each of its bits b_j.  The generator gives away M_{0,j} and, for every  *)
(* evaluation-circuit, the exponents m_{i,j}-m_{0,j}; the evaluator        *)
(* rebuilds all the M_{i,j} from them, so that one input enters all.       *)
(*                                                                         *)
(* Every node of the generator's cluster talks to its partner; the roots'  *)
(* M_{0,j} and m_{0,j} reach the other nodes by MPI_Bcast.  Group elements *)
(* g^a h^e are the pairs of their exponents.                               *)
(***************************************************************************)
EXTENDS Exponents, Sequences, FiniteSets

CONSTANTS
  NodeAmnt, Load,      \* node pairs, circuits of each
  InpCnt,              \* the generator's input bits, gen_inp_cnt
  EvlCnt,              \* evaluation-circuits altogether: num_of_evls of cut_and_choose
  Seeds, Exp(_, _, _, _, _)  \* Exp(seed, d, i, j, b): exponent m drawn in gen_init

ASSUME ConsistencyAssumption ==
  /\ {NodeAmnt, Load, InpCnt, EvlCnt} \subseteq Nat \ {0}
  /\ \A s \in Seeds, d \in 0 .. NodeAmnt - 1, i \in 0 .. Load - 1, j \in 1 .. InpCnt,
        b \in {0, 1} : Exp(s, d, i, j, b) \in Z

Node == 0 .. NodeAmnt - 1
Cct  == 0 .. Load - 1
Inp  == 1 .. InpCnt
Group == [g : Z, h : Z]

Times(x, y) == [g |-> (x.g + y.g) % Q, h |-> (x.h + y.h) % Q]
R(e)    == [g |-> 0, h |-> e % Q]
F(b, e) == [g |-> b % Q, h |-> e % Q]

Unset == << >>

VARIABLES
  gen_inp, m_chks, seed,   \* the input, the choice of circuits, the randomness
  gpc, epc,                \* where each generator, each evaluator is
  chan,                    \* messages under way from each generator
  gbuf, ebuf,              \* m_{0,j} and M_{0,j} as broadcast by the roots
  chunks,                  \* the exponents an evaluator has received
  jx, ix, kx,              \* its loop: input, circuit, next exponent
  m_M                      \* the elements it holds for each circuit

params == <<gen_inp, m_chks, seed>>
loop   == <<jx, ix, kx, m_M>>
vars   == <<params, gpc, epc, chan, gbuf, ebuf, chunks, loop>>

m(d, i, j) == Exp(seed, d, i, j, gen_inp[j])

\* The element the generator has garbled input j of circuit i with.
Committed(d, i, j) == F(gen_inp[j], m(d, i, j))

\* A choice of circuits as cut_and_choose leaves it: circuit 0 is evaluated.
Choices ==
  {c \in [Node -> [Cct -> {0, 1}]] :
     /\ c[0][0] = 0
     /\ Cardinality({n \in Node \X Cct : c[n[1]][n[2]] = 0}) = EvlCnt}

Init ==
  /\ gen_inp \in [Inp -> {0, 1}]
  /\ m_chks \in Choices
  /\ seed \in Seeds
  /\ gpc = [d \in Node |-> IF d = 0 THEN "give" ELSE "bcast"]
  /\ epc = [d \in Node |-> IF d = 0 THEN "take" ELSE "bcast"]
  /\ chan = [d \in Node |-> << >>]
  /\ gbuf = Unset
  /\ ebuf = Unset
  /\ chunks = [d \in Node |-> Unset]
  /\ jx = [d \in Node |-> 1]
  /\ ix = [d \in Node |-> 0]
  /\ kx = [d \in Node |-> 1]
  /\ m_M = [d \in Node |-> [i \in Cct |-> << >>]]

Send(d, msg) == chan' = [chan EXCEPT ![d] = Append(@, msg)]

\* The root generator gives away M_{0,j}.
GenGiveM ==
  /\ gpc[0] = "give"
  /\ Send(0, [j \in Inp |-> Committed(0, 0, j)])
  /\ gpc' = [gpc EXCEPT ![0] = "bcast"]
  /\ UNCHANGED <<params, epc, gbuf, ebuf, chunks, loop>>

\* The root generator hands m_{0,j} to its cluster, the others wait for it.
GenBcast(d) ==
  /\ gpc[d] = "bcast"
  /\ IF d = 0 THEN gbuf' = [j \in Inp |-> m(0, 0, j)]
              ELSE gbuf # Unset /\ UNCHANGED gbuf
  /\ gpc' = [gpc EXCEPT ![d] = "diffs"]
  /\ UNCHANGED <<params, epc, chan, ebuf, chunks, loop>>

Evls(d) == {i \in Cct : m_chks[d][i] = 0}

\* The i-th of the evaluation-circuits of a node, in their order.
EvlAt(d, n) == CHOOSE i \in Evls(d) : Cardinality({o \in Evls(d) : o < i}) = n

\* (Mutant: circuit by circuit, where the evaluator reads input by input.)
DiffsByCircuit(d) ==
  [n \in 1 .. InpCnt * Cardinality(Evls(d)) |->
     LET i == EvlAt(d, (n - 1) \div InpCnt)
         j == 1 + ((n - 1) % InpCnt)
     IN  (m(d, i, j) - gbuf[j]) % Q]

\* m_{i,j}-m_{0,j}, the evaluation-circuits i of each input j in turn.
Diffs(d) ==
  LET e == Cardinality(Evls(d))
  IN  [n \in 1 .. InpCnt * e |->
         LET i == EvlAt(d, (n - 1) % e)
             j == 1 + (n - 1) \div e
         IN  (m(d, i, j) - gbuf[j]) % Q]

GenDiffs(d) ==
  /\ gpc[d] = "diffs"
  /\ Send(d, Diffs(d))
  /\ gpc' = [gpc EXCEPT ![d] = "done"]
  /\ UNCHANGED <<params, epc, gbuf, ebuf, chunks, loop>>

\* The root evaluator takes M_{0,j} and hands it to its cluster.
EvlTakeM ==
  /\ epc[0] = "take"
  /\ chan[0] # << >>
  /\ ebuf' = Head(chan[0])
  /\ chan' = [chan EXCEPT ![0] = Tail(@)]
  /\ epc' = [epc EXCEPT ![0] = "bcast"]
  /\ UNCHANGED <<params, gpc, gbuf, chunks, loop>>

EvlBcast(d) ==
  /\ epc[d] = "bcast"
  /\ ebuf # Unset
  /\ epc' = [epc EXCEPT ![d] = "diffs"]
  /\ UNCHANGED <<params, gpc, chan, gbuf, ebuf, chunks, loop>>

EvlDiffs(d) ==
  /\ epc[d] = "diffs"
  /\ chan[d] # << >>
  /\ chunks' = [chunks EXCEPT ![d] = Head(chan[d])]
  /\ chan' = [chan EXCEPT ![d] = Tail(@)]
  /\ epc' = [epc EXCEPT ![d] = "loop"]
  /\ UNCHANGED <<params, gpc, gbuf, ebuf, loop>>

\* The evaluator's loop: where it goes on after circuit ix[d] of input jx[d].
Advance(d) ==
  LET last == ix[d] = Load - 1
  IN  /\ ix' = [ix EXCEPT ![d] = IF last THEN 0 ELSE @ + 1]
      /\ jx' = [jx EXCEPT ![d] = IF last THEN @ + 1 ELSE @]
      /\ epc' = [epc EXCEPT ![d] = IF last /\ jx[d] = InpCnt THEN "done" ELSE @]

\* (Mutant: the loop does not get past a check-circuit.)
EvlSkipStuck(d) ==
  /\ epc[d] = "loop"
  /\ m_chks[d][ix[d]] = 1
  /\ UNCHANGED vars

\* No exponent has been sent for a check-circuit.
EvlSkip(d) ==
  /\ epc[d] = "loop"
  /\ m_chks[d][ix[d]] = 1
  /\ Advance(d)
  /\ UNCHANGED <<params, gpc, chan, gbuf, ebuf, chunks, kx, m_M>>

\* (Mutant: the exponents are not counted.)
EvlRebuildUncounted(d) ==
  /\ epc[d] = "loop"
  /\ m_chks[d][ix[d]] = 0
  /\ m_M' = [m_M EXCEPT ![d][ix[d]] = Append(@, Times(R(chunks[d][kx[d]]), ebuf[jx[d]]))]
  /\ Advance(d)
  /\ UNCHANGED <<params, gpc, chan, gbuf, ebuf, chunks, kx>>

\* M_{i,j} = h^m * M_{0,j}.
EvlRebuild(d) ==
  /\ epc[d] = "loop"
  /\ m_chks[d][ix[d]] = 0
  /\ m_M' = [m_M EXCEPT ![d][ix[d]] = Append(@, Times(R(chunks[d][kx[d]]), ebuf[jx[d]]))]
  /\ kx' = [kx EXCEPT ![d] = @ + 1]
  /\ Advance(d)
  /\ UNCHANGED <<params, gpc, chan, gbuf, ebuf, chunks>>

Finished == (\A d \in Node : gpc[d] = "done" /\ epc[d] = "done") /\ UNCHANGED vars

GenStep(d) == (d = 0 /\ GenGiveM) \/ GenBcast(d) \/ GenDiffs(d)
EvlRecvStep(d) == (d = 0 /\ EvlTakeM) \/ EvlBcast(d) \/ EvlDiffs(d)
EvlStep(d) == EvlRecvStep(d) \/ EvlSkip(d) \/ EvlRebuild(d)

Next == (\E d \in Node : GenStep(d) \/ EvlStep(d)) \/ Finished

Spec == Init /\ [][Next]_vars

\* The processes run until they end.
FairSpec == Spec /\ \A d \in Node : WF_vars(GenStep(d)) /\ WF_vars(EvlStep(d))

-----------------------------------------------------------------------------
\* What the evaluator rebuilds for an input of an evaluation-circuit is what
\* the generator garbled that input of that circuit with, on every node: the
\* exponents are taken in the order they were sent, check-circuits skipped.
Rebuilt ==
  \A d \in Node : \A i \in Evls(d) : \A j \in 1 .. Len(m_M[d][i]) :
    m_M[d][i][j] = Committed(d, i, j)

\* A node that has been through the loop has an element for every input of
\* its evaluation-circuits and has used up the exponents it was sent.
AllRebuilt ==
  \A d \in Node : epc[d] = "done" =>
    /\ \A i \in Evls(d) : Len(m_M[d][i]) = InpCnt
    /\ kx[d] = Len(chunks[d]) + 1

\* All get through.
Completes == <>(\A d \in Node : gpc[d] = "done" /\ epc[d] = "done")
=============================================================================
