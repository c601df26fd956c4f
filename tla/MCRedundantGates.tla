-------------------------- MODULE MCRedundantGates --------------------------
(* Six gates over one input, printed four at a time: a window with several   *)
(* gates to drop, and a second window that starts where the first ended.     *)
EXTENDS RedundantGates

MCTables == {ZERO, XOR}

\* Any gate with the input, and the gates that read a pair of neighbours.
MCPairs == ({0} \X Ids) \cup {p \in Ids \X Ids : p[2] = p[1] + 1}
=============================================================================
