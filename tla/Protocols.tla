----------------------------- MODULE Protocols -----------------------------
(***************************************************************************)
(* Yao, BetterYao and BetterYao2 on the machine of Protocol: the runs      *)
(* follow the schedules of Schedules.                                      *)
(***************************************************************************)
EXTENDS Protocol, Schedules

ASSUME ProtocolsAssumption ==
  \A u \in Setups :
    /\ u.protocol \in {"Yao", "BetterYao", "BetterYao2"} /\ u.node_load \in Nat
    /\ \A r \in Role : \A d \in 0 .. u.node_amnt - 1 : Prog(u, r, d) = Schedule(u, r, d)
=============================================================================
