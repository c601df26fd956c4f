----------------------------- MODULE Schedules -----------------------------
(***************************************************************************)
(* Who sends what when: the schedules of the processes of Yao, BetterYao   *)
(* and BetterYao2, as sequences of operations for Protocol.  The parts of  *)
(* a step under GEN_BEGIN and under EVL_BEGIN are the branches on the role *)
(* r; d is the node and u the setup of the run: the protocol, whether the  *)
(* clusters are separate jobs (user_mode), the nodes of a cluster          *)
(* (node_amnt), the circuits of a node (node_load) and chks, the outcome   *)
(* of cut_and_choose.  A message is named after its content, with the      *)
(* indices it belongs to.                                                  *)
(***************************************************************************)
EXTENDS Integers, Sequences, SequencesExt

CONSTANTS
  EvlInpCnt, GateCnt,   \* the evaluator's inputs, the gates of the circuit
  EvlOut, GenOut        \* whether each has an output

ASSUME SchedulesAssumption ==
  /\ EvlInpCnt \in Nat /\ GateCnt \in Nat
  /\ EvlOut \in BOOLEAN /\ GenOut \in BOOLEAN

\* The passes of a loop, one after the other.
For(passes) == FlattenSeq(passes)
If(c, ops) == IF c THEN ops ELSE << >>

Partner(r, d) == <<IF r = "GEN" THEN "EVL" ELSE "GEN", d>>

SendTo(p, what)   == <<[op |-> "send", peer |-> p, what |-> what]>>
RecvFrom(p, what) == <<[op |-> "recv", peer |-> p, what |-> what]>>

\* GEN_SEND, EVL_SEND, GEN_RECV, EVL_RECV: to and from the partner.
Put(r, d, what) == SendTo(Partner(r, d), what)
Get(r, d, what) == RecvFrom(Partner(r, d), what)

Bcast(what)  == <<[op |-> "fromroot", what |-> what]>>
Scatter(what) == <<[op |-> "fromroot", what |-> what]>>
Reduce(what) == <<[op |-> "toroot", what |-> what]>>
Gather(what) == <<[op |-> "toroot", what |-> what]>>

\* step_report adds up the communication of the cluster.
Report(step) == Reduce(<<"report", step>>)

Check(u, d, ix) == u.chks[d * u.node_load + ix - 1] = 1

\* init_environ: all use the root evaluator's claw-free collection.
InitEnviron(r, d) ==
  If(d = 0, IF r = "EVL" THEN Put(r, d, <<"claw_free">>) ELSE Get(r, d, <<"claw_free">>))
  \o Bcast(<<"claw_free">>)

\* The CRS goes to the root generator and to all of both clusters.
Crs(r, d) ==
  If(d = 0, IF r = "EVL" THEN Put(r, d, <<"crs">>) ELSE Get(r, d, <<"crs">>))
  \o Bcast(<<"crs">>)

\* (Mutant: the sender's loops the other way round.)
KeysByCircuit(u, r, d) ==
  IF r = "GEN"
  THEN For([c \in 1 .. u.node_load |-> For([b \in 1 .. EvlInpCnt |-> Put(r, d, <<"X_Y", b, c>>)])])
  ELSE For([b \in 1 .. EvlInpCnt |-> For([c \in 1 .. u.node_load |-> Get(r, d, <<"X_Y", b, c>>)])])

\* Steps 4 and 5 of the transfer, input by input and circuit by circuit.
Keys(u, r, d) ==
  IF r = "GEN"
  THEN For([b \in 1 .. EvlInpCnt |-> For([c \in 1 .. u.node_load |-> Put(r, d, <<"X_Y", b, c>>)])])
  ELSE For([b \in 1 .. EvlInpCnt |-> For([c \in 1 .. u.node_load |-> Get(r, d, <<"X_Y", b, c>>)])])

\* The evaluator's choices go from root to root, then to the generators, the
\* exponents behind them to the evaluators.
ObliviousTransfer(u, r, d) ==
  Crs(r, d)
  \o If(d = 0, IF r = "EVL" THEN Put(r, d, <<"gr_hr">>) ELSE Get(r, d, <<"gr_hr">>))
  \o Bcast(IF r = "EVL" THEN <<"r">> ELSE <<"gr_hr">>)
  \o Keys(u, r, d)
  \o Report("ob_transfer")

\* (Mutant: the slaves report before they have been given their choice.)
CutAndChooseSlavesFirst(r, d) ==
  If(d = 0, IF r = "EVL"
            THEN Get(r, d, <<"comm">>) \o Put(r, d, <<"coins">>) \o Get(r, d, <<"open">>)
            ELSE Put(r, d, <<"comm">>) \o Get(r, d, <<"coins">>) \o Put(r, d, <<"open">>))
  \o (IF d = 0 THEN Scatter(<<"chks">>) \o Report("cut_check")
               ELSE Report("cut_check") \o Scatter(<<"chks">>))

\* The roots toss the coins, their clusters are scattered the choice.
CutAndChoose(r, d) ==
  If(d = 0, IF r = "EVL"
            THEN Get(r, d, <<"comm">>) \o Put(r, d, <<"coins">>) \o Get(r, d, <<"open">>)
            ELSE Put(r, d, <<"comm">>) \o Get(r, d, <<"coins">>) \o Put(r, d, <<"open">>))
  \o Scatter(<<"chks">>) \o Report("cut_check")

Consistency(r, d) ==
  If(d = 0, IF r = "GEN" THEN Put(r, d, <<"M0">>) ELSE Get(r, d, <<"M0">>))
  \o (IF r = "EVL" THEN Bcast(<<"M0">>) ELSE Bcast(<<"m0">>))
  \o (IF r = "GEN" THEN Put(r, d, <<"m_m0">>) ELSE Get(r, d, <<"m_m0">>))

EvlOutput(r, d) ==
  If(EvlOut /\ r = "EVL", Gather(<<"evl_out">>) \o Report("chk_evl_out"))

GenOutput(r, d) ==
  If(GenOut, (IF r = "EVL" THEN Put(r, d, <<"gen_out">>) ELSE Get(r, d, <<"gen_out">>))
             \o Report("chk_gen_out"))

\* Gate by gate, for each circuit.
AllGates(u, r, d) ==
  For([g \in 1 .. GateCnt |-> For([ix \in 1 .. u.node_load |->
    IF r = "GEN" THEN Put(r, d, <<"gate", g, ix>>) ELSE Get(r, d, <<"gate", g, ix>>)])])

-----------------------------------------------------------------------------
\* Yao: no checks, one circuit.

\* The masked inputs, the generator's elements, the gates, the outputs.
YaoEvaluate(u, r, d) ==
  For([ix \in 1 .. u.node_load |->
    IF r = "GEN" THEN Put(r, d, <<"masked", ix>>) ELSE Get(r, d, <<"masked", ix>>)])
  \o (IF r = "GEN" THEN Put(r, d, <<"M">>) ELSE Get(r, d, <<"M">>))
  \o Report("pre_cir_evl")
  \o AllGates(u, r, d)
  \o Report("circuit_evl")
  \o If(EvlOut /\ r = "EVL", Report("chk_evl_out"))
  \o GenOutput(r, d)

Yao(u, r, d) ==
  InitEnviron(r, d) \o ObliviousTransfer(u, r, d) \o YaoEvaluate(u, r, d)

-----------------------------------------------------------------------------
\* BetterYao: the circuits are committed to before the choice.

CircuitCommit(r, d) ==
  If(r = "GEN", Report("pre_cir_gen"))
  \o (IF r = "GEN" THEN Put(r, d, <<"coms">>) ELSE Get(r, d, <<"coms">>))
  \o Report("circuit_gen")

\* What each circuit is opened with, or evaluated from.
Openings(u, r, d) ==
  For([ix \in 1 .. u.node_load |->
    IF Check(u, d, ix)
    THEN IF r = "GEN"
         THEN Put(r, d, <<"mask", ix>>) \o Put(r, d, <<"rnd", ix>>) \o Put(r, d, <<"keys", ix>>)
         ELSE Get(r, d, <<"mask", ix>>) \o Get(r, d, <<"rnd", ix>>) \o Get(r, d, <<"keys", ix>>)
    ELSE IF r = "GEN" THEN Put(r, d, <<"masked", ix>>) ELSE Get(r, d, <<"masked", ix>>)])

\* Only the evaluation-circuits' gates are sent; the evaluator regenerates
\* the others.
Gates(u, r, d) ==
  For([g \in 1 .. GateCnt |-> For([ix \in 1 .. u.node_load |->
    If(~Check(u, d, ix),
       IF r = "GEN" THEN Put(r, d, <<"gate", g, ix>>) ELSE Get(r, d, <<"gate", g, ix>>))])])

BetterYaoEvaluate(u, r, d) ==
  Openings(u, r, d)
  \o Report("pre_cir_evl")
  \o Gates(u, r, d)
  \o If(r = "EVL", Reduce(<<"verify">>))
  \o Report("circuit_evl")
  \o EvlOutput(r, d)
  \o GenOutput(r, d)

BetterYao(u, r, d) ==
  InitEnviron(r, d)
  \o ObliviousTransfer(u, r, d)
  \o CircuitCommit(r, d)
  \o CutAndChoose(r, d)
  \o Consistency(r, d) \o Report("const_check")
  \o BetterYaoEvaluate(u, r, d)

-----------------------------------------------------------------------------
\* BetterYao2: oblivious transfer hides the choice, all gates are sent.

\* (Mutant: the receiver asks all its questions before it reads an answer.)
OtRandomBatched(u, r, d) ==
  Crs(r, d)
  \o (IF r = "EVL"
      THEN For([b \in 1 .. u.node_load |-> Put(r, d, <<"gr_hr", b>>)])
           \o For([b \in 1 .. u.node_load |-> Get(r, d, <<"X_Y", b>>)])
      ELSE For([b \in 1 .. u.node_load |-> Get(r, d, <<"gr_hr", b>>) \o Put(r, d, <<"X_Y", b>>)]))

\* ot_init, ot_random: one transfer for each circuit of the node, the
\* receiver's bits being the choice.
OtRandom(u, r, d) ==
  Crs(r, d)
  \o For([b \in 1 .. u.node_load |->
       IF r = "EVL" THEN Put(r, d, <<"gr_hr", b>>) \o Get(r, d, <<"X_Y", b>>)
                    ELSE Get(r, d, <<"gr_hr", b>>) \o Put(r, d, <<"X_Y", b>>)])

\* For each circuit both what evaluates it and what opens it, hidden.
CutAndChoose2(u, r, d) ==
  OtRandom(u, r, d)
  \o For([ix \in 1 .. u.node_load |->
       For([n \in 1 .. 5 |->
         LET what == <<<<"M", "masked", "mask", "rnd", "keys">>[n], ix>>
         IN  IF r = "GEN" THEN Put(r, d, what) ELSE Get(r, d, what)])])
  \o Report("cut_n_chk2")

\* send_data and recv_data address a rank of the MPI job whatever the mode.
GenOutput2(u, r, d) ==
  If(GenOut,
     (IF r = "EVL"
      THEN SendTo(IF u.user_mode THEN <<r, d - 1>> ELSE Partner(r, d), <<"gen_out">>)
      ELSE RecvFrom(IF u.user_mode THEN <<r, d + 1>> ELSE Partner(r, d), <<"gen_out">>))
     \o Report("chk_gen_out"))

BetterYao2Evaluate(u, r, d) ==
  Report("pre_cir_evl")
  \o AllGates(u, r, d)
  \o If(r = "EVL", Reduce(<<"verify">>))
  \o Report("circuit_evl")
  \o EvlOutput(r, d)
  \o GenOutput2(u, r, d)

BetterYao2(u, r, d) ==
  InitEnviron(r, d)
  \o ObliviousTransfer(u, r, d)
  \o CutAndChoose(r, d)
  \o CutAndChoose2(u, r, d)
  \o BetterYao2Evaluate(u, r, d)
  \o Consistency(r, d) \o If(r = "EVL", Reduce(<<"verify">>)) \o Report("const_check")
-----------------------------------------------------------------------------
Schedule(u, r, d) ==
  CASE u.protocol = "Yao" -> Yao(u, r, d)
    [] u.protocol = "BetterYao" -> BetterYao(u, r, d)
    [] u.protocol = "BetterYao2" -> BetterYao2(u, r, d)
=============================================================================
