----------------------------- MODULE EvlOutput -----------------------------
(***************************************************************************)
(* proc_evl_out of BetterYao and BetterYao2: the nodes of the evaluator's  *)
(* cluster gather the outputs of all circuits at the root, zeros standing  *)
(* in for check-circuits, and the root takes for the evaluator's output    *)
(* the element that sorting would put at a certain place: meant to be the  *)
(* median of the evaluation-circuits' outputs, hence their majority.       *)
(*                                                                         *)
(* An output is a number, the order of its bytes being all that is used.   *)
(***************************************************************************)
EXTENDS Integers, FiniteSets

CONSTANTS NodeAmnt, Load, Outs

ASSUME EvlOutputAssumption ==
  /\ NodeAmnt \in Nat \ {0} /\ Load \in Nat \ {0}
  /\ Outs \subseteq Nat /\ 0 \in Outs

Node == 0 .. NodeAmnt - 1
CctCnt == NodeAmnt * Load
Cct  == 0 .. CctCnt - 1

None == -1

VARIABLES
  m_all_chks,         \* 1: check-circuit, 0: evaluation-circuit
  cct_out,            \* what the evaluation of each circuit has given
  gathered,           \* nodes that have contributed to the MPI_Gather
  recv,               \* what the root has gathered
  evl_out             \* m_evl_out

output_vars == <<m_all_chks, cct_out, gathered, recv, evl_out>>

\* cut_and_choose leaves circuit 0 an evaluation-circuit; bad circuits may
\* have been evaluated, so outputs may differ.
OutputInit ==
  /\ m_all_chks \in {c \in [Cct -> {0, 1}] : c[0] = 0}
  /\ cct_out \in [Cct -> Outs]
  /\ gathered = {}
  /\ recv = [c \in Cct |-> 0]
  /\ evl_out = None

\* (Mutant: check-circuits are not blotted out.)
SentPlain(c) == cct_out[c]

\* What stands for circuit c.
Sent(c) == IF m_all_chks[c] = 1 THEN 0 ELSE cct_out[c]

GatherOutput(d) ==
  /\ d \notin gathered
  /\ gathered' = gathered \cup {d}
  /\ recv' = [c \in Cct |-> IF c \div Load = d THEN Sent(c) ELSE recv[c]]
  /\ UNCHANGED <<m_all_chks, cct_out, evl_out>>

Chks == {c \in Cct : m_all_chks[c] = 1}
Evls == {c \in Cct : m_all_chks[c] = 0}

\* (Mutant: the median of all that was gathered.)
MedianIxOfAll == CctCnt \div 2

MedianIx == (Cardinality(Chks) + CctCnt) \div 2

\* nth_element: x is what sorting f would put at place n.
IsNth(f, n, x) ==
  /\ \E c \in Cct : f[c] = x
  /\ Cardinality({c \in Cct : f[c] < x}) <= n
  /\ n < Cardinality({c \in Cct : f[c] <= x})

Median ==
  /\ gathered = Node
  /\ evl_out = None
  /\ \E x \in Outs : IsNth(recv, MedianIx, x) /\ evl_out' = x
  /\ UNCHANGED <<m_all_chks, cct_out, gathered, recv>>

OutputFinished == evl_out # None /\ UNCHANGED output_vars

OutputNext == (\E d \in Node : GatherOutput(d)) \/ Median \/ OutputFinished

OutputSpec == OutputInit /\ [][OutputNext]_output_vars

-----------------------------------------------------------------------------
\* An output that more than half of the evaluation-circuits agree on is the
\* evaluator's ("find majority by locating the median of output from
\* evaluation-circuits").
MajorityWins ==
  evl_out # None =>
    \A v \in Outs :
      2 * Cardinality({c \in Evls : cct_out[c] = v}) > Cardinality(Evls) => evl_out = v

\* The zeros that fill in for check-circuits are never the evaluator's output:
\* some evaluation-circuit has given it.
OutputIsEvaluated == evl_out # None => \E c \in Evls : cct_out[c] = evl_out
=============================================================================
