----------------------------- MODULE MCProtocol -----------------------------
(***************************************************************************)
(* The three protocols for TLC.  Yao runs one circuit on one pair; the     *)
(* schedule of BetterYao depends on the choice, that of BetterYao2 does    *)
(* not.                                                                    *)
(***************************************************************************)
EXTENDS Protocols

\* The outcomes of cut_and_choose with a circuit to check.
Outcomes(s) == {c \in [0 .. s - 1 -> {0, 1}] : c[0] = 0 /\ \E i \in 0 .. s - 1 : c[i] = 1}

Setup(name, mode, nodes, load, choice) ==
  [protocol |-> name, user_mode |-> mode,
   node_amnt |-> nodes, node_load |-> load, chks |-> choice]

MCSetups ==
  {Setup("Yao", FALSE, 1, 1, [i \in {0} |-> 0])}
  \cup {Setup("BetterYao", FALSE, 2, 2, c) : c \in Outcomes(4)}
  \cup {Setup("BetterYao", TRUE, 2, 1, c) : c \in Outcomes(2)}
  \cup {Setup("BetterYao2", FALSE, 2, 2, <<>>), Setup("BetterYao2", TRUE, 2, 1, <<>>)}
=============================================================================
