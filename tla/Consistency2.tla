---------------------------- MODULE Consistency2 ----------------------------
(***************************************************************************)
(* consistency_check of BetterYao2: the messages are those of BetterYao's, *)
(* but the evaluator already has the M_{i,j} of its evaluation-circuits,   *)
(* from cut_and_choose2, and compares.  One accumulator M is set to        *)
(* M_{0,j} for each input and then multiplied by h^m for one circuit after *)
(* the other.  The verdicts of the nodes are brought to the root by        *)
(* MPI_Reduce; it aborts unless all are good.                              *)
(***************************************************************************)
EXTENDS Consistency

VARIABLES
  M,           \* each evaluator's accumulator
  verify,      \* its verdict
  outcome      \* the root's: "none" yet, "passed" or "abort"

vars2 == <<vars, M, verify, outcome>>

\* The elements the evaluator has got by oblivious transfer.
Transferred(d, i) ==
  IF m_chks[d][i] = 0 THEN [j \in Inp |-> Committed(d, i, j)] ELSE << >>

Init2 ==
  /\ Init
  /\ M = [d \in Node |-> Unset]
  /\ verify = [d \in Node |-> 1]
  /\ outcome = "none"

\* M_{0,j} for the input the loop stands at.
Start(d) == IF ix[d] = 0 THEN ebuf[jx[d]] ELSE M[d]

Skip2(d) ==
  /\ EvlSkip(d)
  /\ M' = [M EXCEPT ![d] = Start(d)]
  /\ UNCHANGED <<verify, outcome>>

\* M *= h^m, and what that gives is compared with what was transferred.
Compare(d) ==
  /\ epc[d] = "loop"
  /\ m_chks[d][ix[d]] = 0
  /\ M' = [M EXCEPT ![d] = Times(Start(d), R(chunks[d][kx[d]]))]
  /\ verify' = [verify EXCEPT ![d] =
       IF Transferred(d, ix[d])[jx[d]] = M'[d] THEN @ ELSE 0]
  /\ kx' = [kx EXCEPT ![d] = @ + 1]
  /\ Advance(d)
  /\ UNCHANGED <<params, gpc, chan, gbuf, ebuf, chunks, m_M, outcome>>

\* The root collects the verdicts of its cluster.
Reduce ==
  /\ outcome = "none"
  /\ \A d \in Node : epc[d] = "done"
  /\ outcome' = IF \A d \in Node : verify[d] = 1 THEN "passed" ELSE "abort"
  /\ UNCHANGED <<vars, M, verify>>

Finished2 ==
  /\ outcome # "none" /\ \A d \in Node : gpc[d] = "done"
  /\ UNCHANGED vars2

Next2 ==
  \/ \E d \in Node : /\ GenStep(d) \/ EvlRecvStep(d)
                     /\ UNCHANGED <<M, verify, outcome>>
  \/ \E d \in Node : Skip2(d) \/ Compare(d)
  \/ Reduce
  \/ Finished2

Spec2 == Init2 /\ [][Next2]_vars2

-----------------------------------------------------------------------------
\* "M_{i,j} = h^m * M_{0,j}": the check is of whether the generator has used
\* one input throughout, so a generator that has passes.
HonestPasses == outcome # "abort"
=============================================================================
