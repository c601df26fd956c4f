------------------------------ MODULE Protocol ------------------------------
(***************************************************************************)
(* The machine the protocols run on: two clusters of processes, GEN_d and  *)
(* EVL_d partners.  A process runs straight through its schedule of sends, *)
(* blocking receives and MPI collectives of its cluster.                   *)
(*                                                                         *)
(* In user mode the clusters are separate MPI jobs and partners talk over  *)
(* a socket; in simulation mode all are ranks of one job and talk by       *)
(* MPI_Send, which may or may not wait for the receiver (cap = 0).         *)
(***************************************************************************)
EXTENDS Integers, Sequences

CONSTANTS
  MaxNodes,              \* bound on the node pairs
  Caps,                  \* bound: messages a channel may hold; 0: rendezvous
  Setups,                \* the runs: see module Schedules
  Prog(_, _, _)          \* Prog(u, r, d): schedule of node d of role r

GEN == "GEN"
EVL == "EVL"
Role == {GEN, EVL}
Proc == Role \X (0 .. MaxNodes - 1)

ASSUME ProtocolAssumption ==
  /\ MaxNodes \in Nat \ {0}
  /\ \A u \in Setups : u.node_amnt \in 1 .. MaxNodes
  /\ Caps \subseteq Nat

VARIABLES
  setup,                 \* which of the runs
  astray,                \* does a schedule name a rank that is not there?
  cap,                   \* messages a channel holds
  todo,                  \* what is left of each process's schedule
  chan,                  \* messages under way between two processes
  met,                   \* the collectives each process has entered
  aborted                \* jobs that MPI_Abort has ended

vars == <<setup, astray, cap, todo, chan, met, aborted>>

Done(p)  == todo[p] = << >>
Op(p)    == Head(todo[p])
At(p, o) == p[1] \notin aborted /\ ~Done(p) /\ Op(p).op = o
Root(p)  == <<p[1], 0>>

\* Has a process that rank in this run?
Is(p) == p \in Proc /\ p[2] < setup.node_amnt

Init ==
  /\ cap \in Caps
  /\ setup \in Setups
  /\ todo = [p \in Proc |-> IF Is(p) THEN Prog(setup, p[1], p[2]) ELSE << >>]
  /\ astray = \E p \in Proc : \E n \in DOMAIN todo[p] :
       todo[p][n].op \in {"send", "recv"} /\ ~Is(todo[p][n].peer)
  /\ chan = [e \in Proc \X Proc |-> << >>]
  /\ met = [p \in Proc |-> << >>]
  /\ aborted = {}

Goes(p) == todo' = [todo EXCEPT ![p] = Tail(@)] /\ UNCHANGED <<setup, astray, cap, aborted>>

\* A send ends when there is room, or when the receiver waits for it.
Send(p) ==
  /\ At(p, "send")
  /\ Is(Op(p).peer)
  /\ LET q == Op(p).peer
         e == <<p, q>>
     IN  /\ \/ Len(chan[e]) < cap
            \/ cap = 0 /\ chan[e] = << >> /\ At(q, "recv") /\ Op(q).peer = p
         /\ chan' = [chan EXCEPT ![e] = Append(@, Op(p).what)]
  /\ Goes(p)
  /\ UNCHANGED met

\* A receive waits for the next message of the sender it names.
Recv(p) ==
  /\ At(p, "recv")
  /\ Is(Op(p).peer)
  /\ LET e == <<Op(p).peer, p>>
     IN  chan[e] # << >> /\ chan' = [chan EXCEPT ![e] = Tail(@)]
  /\ Goes(p)
  /\ UNCHANGED met

Enter(p) == met' = [met EXCEPT ![p] = Append(@, Op(p).what)] /\ UNCHANGED chan

\* MPI_Bcast, MPI_Scatter: all but the root wait for the root.
FromRoot(p) ==
  /\ At(p, "fromroot")
  /\ p = Root(p) \/ Len(met[Root(p)]) > Len(met[p])
  /\ Enter(p)
  /\ Goes(p)

\* MPI_Reduce, MPI_Gather: the root waits for all.
ToRoot(p) ==
  /\ At(p, "toroot")
  /\ p = Root(p) => \A q \in Proc : Is(q) /\ q[1] = p[1] /\ q # p => Len(met[q]) > Len(met[p])
  /\ Enter(p)
  /\ Goes(p)

\* A rank that does not exist: MPI ends the job, but where -1 stands for
\* MPI_PROC_NULL a message to it is dropped.
BadRank(p) ==
  /\ At(p, "send") \/ At(p, "recv")
  /\ ~Is(Op(p).peer)
  /\ \/ aborted' = aborted \cup {p[1]} /\ UNCHANGED <<setup, astray, cap, todo>>
     \/ At(p, "send") /\ Op(p).peer[2] = -1 /\ Goes(p)
  /\ UNCHANGED <<chan, met>>

AllDone  == \A p \in Proc : Done(p)
Finished == (AllDone \/ aborted # {}) /\ UNCHANGED vars

Step(p) == Send(p) \/ Recv(p) \/ FromRoot(p) \/ ToRoot(p) \/ BadRank(p)

Next == (\E p \in Proc : Step(p)) \/ Finished

Spec == Init /\ [][Next]_vars

\* No process is starved by the machine it runs on.
FairSpec == Spec /\ \A p \in Proc : WF_vars(Step(p))

-----------------------------------------------------------------------------
\* Every message is read as what it was sent as: the sends and receives of two
\* partners, written apart and looping apart, are in the same order.
Matched ==
  \A p \in Proc : At(p, "recv") /\ Is(Op(p).peer) =>
    LET c == chan[<<Op(p).peer, p>>] IN c # << >> => Head(c) = Op(p).what

\* The collectives of a cluster meet: the n-th one is the same for all, whether
\* a process is the root or not.
CollectivesAgree ==
  \A p \in Proc : \A n \in 1 .. Len(met[p]) :
    n <= Len(met[Root(p)]) => met[p][n] = met[Root(p)][n]

\* All processes get through their schedules, even when every send waits for
\* its receiver; except in user mode under BetterYao2 with an output for the
\* generator, whose proc_gen_out looks for the partner among the ranks of its
\* own job: no such run ends with all done.
Terminates == IF astray THEN []~AllDone ELSE <>AllDone
=============================================================================
