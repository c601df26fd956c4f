------------------------------ MODULE Openings ------------------------------
(***************************************************************************)
(* How BetterYao and BetterYao2 check the circuits: the evaluator gets its *)
(* keys by oblivious transfer, then either the secrets of a circuit, to    *)
(* garble it again and compare, or what it needs to evaluate it.  BetterYao*)
(* commits to all circuits first and reveals in the clear what the choice  *)
(* of cut_and_choose asks for; BetterYao2 sends both, each under a pad of  *)
(* which a second oblivious transfer gives the evaluator one.              *)
(*                                                                         *)
(* Every node pair runs the same two programs; the roots' first messages   *)
(* of a transfer reach the other nodes by MPI_Bcast, the verdicts of the   *)
(* evaluators reach their root by MPI_Reduce.  The generator may deviate   *)
(* and garble a gate of one circuit wrongly, which is what all this is for.*)
(***************************************************************************)
EXTENDS ObliviousTransfer, CctObject

CONSTANTS
  MaxNodes,
  Shapes,              \* bound: node_amnt and node_load, as pairs
  ChannelCap,          \* bound: messages a channel holds
  Seeds, Rand(_, _)    \* Rand(seed, name): the exponents drawn at random

ASSUME OpeningsAssumption ==
  /\ {MaxNodes, ChannelCap} \subseteq Nat \ {0}
  /\ Shapes \subseteq (1 .. MaxNodes) \X (Nat \ {0})

VARIABLES
  protocol, shape, cct, seed, gen_inp, evl_inp, m_chks, bad,
  gen, evl,            \* the processes of each cluster
  to_evl, to_gen,      \* messages under way between partners
  gen_crs, evl_crs,    \* the CRSs as broadcast in each cluster, in turn
  asks, rs,            \* the roots' other broadcasts: the (gr, hr)s, the r's
  outcome              \* the root's verdict: "none" yet, "passed" or "abort"

params == <<protocol, shape, cct, seed, gen_inp, evl_inp, m_chks, bad>>
bcasts == <<gen_crs, evl_crs, asks, rs>>
vars   == <<params, gen, evl, to_evl, to_gen, bcasts, outcome>>

Node == 0 .. shape[1] - 1
Load == shape[2]
Cct  == 0 .. Load - 1
EvlCnt == InpCnt(cct, EVL_INP)

\* Message k of a loop over inputs, or gates, and the circuits of each.
Outer(k) == k \div Load
Inner(k) == k % Load

\* Which gate of which circuit the generator garbles wrongly, and in which of
\* its passes over the circuit: BetterYao garbles an evaluation-circuit twice.
Deviation ==
  {b \in Node \X Cct \X {n \in 1 .. Len(cct) : cct[n].tag \notin InpTags} \X SUBSET {1, 2} :
     protocol = "BetterYao2" => 2 \notin b[4]}

Process(pc) ==
  [pc |-> pc, n |-> 0, prng |-> << >>, ot_out |-> << >>, ccts |-> [i \in Cct |-> Fresh]]

Init ==
  /\ protocol \in {"BetterYao", "BetterYao2"}
  /\ shape \in Shapes
  /\ cct \in Circuits
  /\ seed \in Seeds
  /\ gen_inp \in Inputs(cct, GEN_INP)
  /\ evl_inp \in Inputs(cct, EVL_INP)
  /\ m_chks \in {c \in [Node -> [Cct -> Bit]] : c[0][0] = 0}
  /\ bad \in Deviation
  /\ gen = [d \in Node |-> Process("crs1")]
  /\ evl = [d \in Node |-> Process("crs1") @@ [coms |-> Unset, verify |-> 1]]
  /\ to_evl = [d \in Node |-> << >>]
  /\ to_gen = [d \in Node |-> << >>]
  /\ gen_crs = << >> /\ evl_crs = << >>
  /\ asks = Unset /\ rs = Unset
  /\ outcome = "none"

GenAt(d, pc) == d \in Node /\ gen[d].pc = pc
EvlAt(d, pc) == d \in Node /\ evl[d].pc = pc

ToEvl(d, msg) ==
  /\ Len(to_evl[d]) < ChannelCap
  /\ to_evl' = [to_evl EXCEPT ![d] = Append(@, msg)]

ToGen(d, msg) ==
  /\ Len(to_gen[d]) < ChannelCap
  /\ to_gen' = [to_gen EXCEPT ![d] = Append(@, msg)]

FromGen(d) == to_evl[d] # << >> /\ to_evl' = [to_evl EXCEPT ![d] = Tail(@)]
FromEvl(d) == to_gen[d] # << >> /\ to_gen' = [to_gen EXCEPT ![d] = Tail(@)]

\* Process p has done step k of n of its loop.
Turn(p, n, next) ==
  IF p.n + 1 < n THEN [p EXCEPT !.n = @ + 1] ELSE [p EXCEPT !.pc = next, !.n = 0]

-----------------------------------------------------------------------------
(* Oblivious transfer of the evaluator's keys: one CRS, all the questions    *)
(* of the root evaluator, then an answer for each input and circuit.         *)

RandCrs(k) == Crs(Rand(seed, <<"g", k, 0, 0>>), Rand(seed, <<"y", k, 0, 0>>),
                  Rand(seed, <<"a", k, 0, 0>>))

\* The k-th CRS: for the keys, and in BetterYao2 for the pads.
CrsPc == <<"crs1", "crs2">>

EvlCrs(d, k) ==
  /\ EvlAt(d, CrsPc[k])
  /\ IF d = 0
     THEN evl_crs' = Append(evl_crs, RandCrs(k)) /\ ToGen(0, RandCrs(k))
     ELSE Len(evl_crs) >= k /\ UNCHANGED <<evl_crs, to_gen>>
  /\ evl' = [evl EXCEPT ![d].pc = <<"query", "ask">>[k]]
  /\ UNCHANGED <<params, gen, to_evl, gen_crs, asks, rs, outcome>>

GenCrs(d, k) ==
  /\ GenAt(d, CrsPc[k])
  /\ IF d = 0
     THEN FromEvl(0) /\ gen_crs' = Append(gen_crs, Head(to_gen[0]))
     ELSE Len(gen_crs) >= k /\ UNCHANGED <<gen_crs, to_gen>>
  /\ gen' = [gen EXCEPT ![d].pc = <<"query", "reply">>[k]]
  /\ UNCHANGED <<params, evl, to_evl, evl_crs, asks, rs, outcome>>

\* The root evaluator draws the r's for all evaluators and sends the (gr, hr)s.
EvlQuery(d) ==
  /\ EvlAt(d, "query")
  /\ LET r == [b \in 0 .. EvlCnt - 1 |-> Rand(seed, <<"r", 1, b, 0>>)]
     IN  IF d = 0
         THEN /\ rs' = r
              /\ ToGen(0, [b \in 0 .. EvlCnt - 1 |-> Ask(evl_crs[1], evl_inp[b], r[b])])
         ELSE rs # Unset /\ UNCHANGED <<rs, to_gen>>
  /\ evl' = [evl EXCEPT ![d].pc = "keys"]
  /\ UNCHANGED <<params, gen, to_evl, gen_crs, evl_crs, asks, outcome>>

GenQuery(d) ==
  /\ GenAt(d, "query")
  /\ IF d = 0 THEN FromEvl(0) /\ asks' = Head(to_gen[0])
              ELSE asks # Unset /\ UNCHANGED <<asks, to_gen>>
  /\ gen' = [gen EXCEPT ![d].pc = "keys"]
  /\ UNCHANGED <<params, evl, to_evl, gen_crs, evl_crs, rs, outcome>>

AfterKeys == IF protocol = "BetterYao" THEN "commit" ELSE "crs2"

\* The keys K, or the exponents, a generator draws for one transfer.
RandPair(name, d, b, i) == [x \in Bit |-> Rand(seed, <<name, x, b, d * Load + i>>)]

AnswerTo(d, crs, ask, b, i) ==
  Answer(crs, ask, RandPair("K", d, b, i), RandPair("s", d, b, i), RandPair("t", d, b, i))

GenKeys(d) ==
  /\ GenAt(d, "keys")
  /\ LET b == Outer(gen[d].n)
         i == Inner(gen[d].n)
     IN  /\ ToEvl(d, AnswerTo(d, gen_crs[1], asks[b], b, i))
         /\ gen' = [gen EXCEPT ![d] =
              [Turn(@, EvlCnt * Load, AfterKeys)
                 EXCEPT !.ccts[i].ot_keys = @ @@ (b :> RandPair("K", d, b, i))]]
  /\ UNCHANGED <<params, evl, to_gen, bcasts, outcome>>

EvlKeys(d) ==
  /\ EvlAt(d, "keys")
  /\ FromGen(d)
  /\ LET b == Outer(evl[d].n)
         i == Inner(evl[d].n)
     IN  evl' = [evl EXCEPT ![d] =
           [Turn(@, EvlCnt * Load, AfterKeys)
              EXCEPT !.ccts[i].ot_keys = @ @@ (b :> Learn(Head(to_evl[d]), evl_inp[b], rs[b]))]]
  /\ UNCHANGED <<params, gen, to_gen, bcasts, outcome>>

-----------------------------------------------------------------------------
(* ot_random of BetterYao2: for each circuit a pair of keys, the evaluator's *)
(* bit being whether it checks the circuit.                                  *)

PadExp(d, i) == Rand(seed, <<"r", 2, d, i>>)

EvlAsk(d) ==
  /\ EvlAt(d, "ask")
  /\ LET i == evl[d].n
     IN  ToGen(d, Ask(evl_crs[2], m_chks[d][i], PadExp(d, i)))
  /\ evl' = [evl EXCEPT ![d].pc = "learn"]
  /\ UNCHANGED <<params, gen, to_evl, bcasts, outcome>>

\* What a generator draws for a circuit: m_rnds and m_gen_inp_masks.
DrawSecrets(d, p) ==
  [p EXCEPT !.ccts = [i \in Cct |->
     [p.ccts[i] EXCEPT
        !.rnd = <<d, i>>,
        !.mask = [j \in DOMAIN gen_inp |-> Rand(seed, <<"mask", j, 0, d * Load + i>>) % 2]]]]

InitAll(d, p) == [p EXCEPT !.ccts = [i \in Cct |-> GenInit(p.ccts[i])]]

GenReply(d) ==
  /\ GenAt(d, "reply")
  /\ FromEvl(d)
  /\ LET i == gen[d].n
         next == [Turn(gen[d], Load, "open")
                    EXCEPT !.ot_out = Append(@, RandPair("K", d, EvlCnt, i))]
     IN  /\ ToEvl(d, AnswerTo(d, gen_crs[2], Head(to_gen[d]), EvlCnt, i))
         /\ gen' = [gen EXCEPT ![d] =
              IF next.pc = "open" THEN InitAll(d, DrawSecrets(d, next)) ELSE next]
  /\ UNCHANGED <<params, evl, bcasts, outcome>>

EvlLearn(d) ==
  /\ EvlAt(d, "learn")
  /\ FromGen(d)
  /\ LET i == evl[d].n
     IN  evl' = [evl EXCEPT ![d] =
           [Turn([@ EXCEPT !.pc = "ask"], Load, "open")
              EXCEPT !.ot_out = Append(@, Learn(Head(to_evl[d]), m_chks[d][i], PadExp(d, i)))]]
  /\ UNCHANGED <<params, gen, to_gen, bcasts, outcome>>

-----------------------------------------------------------------------------
(* circuit_commit of BetterYao: all circuits are garbled and their hashes    *)
(* given away.                                                               *)

\* The gate a generator garbles for gate n of circuit i, in a pass.
Garbled(d, i, n, pass) ==
  IF bad[1] = d /\ bad[2] = i /\ bad[3] = n /\ pass \in bad[4]
  THEN [cct[n] EXCEPT !.table = [r \in 0..3 |-> 1 - @[r]]]
  ELSE cct[n]

FirstPass(d, i, c) ==
  FoldLeft(ComNextGate, ComInit(c), [n \in 1 .. Len(cct) |-> Garbled(d, i, n, 1)])

GenCommit(d) ==
  /\ GenAt(d, "commit")
  /\ LET p == DrawSecrets(d, gen[d])
         ccts == [i \in Cct |-> FirstPass(d, i, p.ccts[i])]
     IN  /\ ToEvl(d, [i \in Cct |-> ccts[i].hash])
         /\ gen' = [gen EXCEPT ![d] = [p EXCEPT !.pc = "open", !.ccts = ccts]]
  /\ UNCHANGED <<params, evl, to_gen, bcasts, outcome>>

EvlCommit(d) ==
  /\ EvlAt(d, "commit")
  /\ FromGen(d)
  /\ evl' = [evl EXCEPT ![d].pc = "open", ![d].coms = Head(to_evl[d])]
  /\ UNCHANGED <<params, gen, to_gen, bcasts, outcome>>

-----------------------------------------------------------------------------
(* The data of a circuit: cut_and_choose2 of BetterYao2, the first half of   *)
(* circuit_evaluate in BetterYao.  BetterYao2 sends what an evaluation asks  *)
(* for, M and the masked input, and then what a check does.                  *)

Part == <<"M", "inp", "mask", "rnd", "keys">>
Branch(part) == IF part \in {"M", "inp"} THEN 0 ELSE 1

PartsOf(d, i) ==
  IF protocol = "BetterYao2" THEN Part
  ELSE IF m_chks[d][i] = 1 THEN <<"mask", "rnd", "keys">> ELSE <<"inp">>

\* The messages of a node, with the circuit each is about.
Script(d) ==
  FlattenSeq([i \in 1 .. Load |->
    [k \in DOMAIN PartsOf(d, i - 1) |-> <<i - 1, PartsOf(d, i - 1)[k]>>]])

\* A pad is what prng.rand draws: its seed, and all that has been drawn since
\* the last srand.  Messages of BetterYao have none.
Pad(p, key, part) ==
  IF protocol = "BetterYao" THEN << >>
  ELSE Append(IF part \in {"M", "mask"} THEN <<key>> ELSE p.prng, part)

GenPad(d, i, part) == Pad(gen[d], gen[d].ot_out[i + 1][Branch(part)], part)

\* (Mutant: the evaluator does not start a stream for the checks' data.)
EvlPadUnseeded(d, i, part) ==
  IF part = "mask" /\ protocol = "BetterYao2" THEN Append(evl[d].prng, part)
  ELSE Pad(evl[d], evl[d].ot_out[i + 1], part)

EvlPad(d, i, part) == Pad(evl[d], evl[d].ot_out[i + 1], part)

Data(c, part) ==
  CASE part = "M"    -> [j \in DOMAIN gen_inp |-> <<c.rnd, j, gen_inp[j]>>]
    [] part = "inp"  -> [j \in DOMAIN gen_inp |-> BitXor(c.mask[j], gen_inp[j])]
    [] part = "mask" -> c.mask
    [] part = "rnd"  -> c.rnd
    [] part = "keys" -> c.ot_keys

Stored(c, part, data) ==
  CASE part = "M"              -> [c EXCEPT !.M = data]
    [] part \in {"inp", "mask"} -> [c EXCEPT !.mask = data]
    [] part = "rnd"            -> [c EXCEPT !.rnd = data]
    [] part = "keys"           -> [c EXCEPT !.ot_keys = data]

\* The gates a generator sends: BetterYao's does not send check-circuits.
AllTurns == [k \in 1 .. Len(cct) * Load |-> <<Outer(k - 1) + 1, Inner(k - 1)>>]
GenTurns(d) ==
  SelectSeq(AllTurns, LAMBDA t : protocol = "BetterYao2" \/ m_chks[d][t[2]] = 0)

GenOpen(d) ==
  /\ GenAt(d, "open")
  /\ LET i == Script(d)[gen[d].n + 1][1]
         part == Script(d)[gen[d].n + 1][2]
         pad == GenPad(d, i, part)
     IN  /\ ToEvl(d, [data |-> Data(gen[d].ccts[i], part), pad |-> pad])
         /\ gen' = [gen EXCEPT ![d] =
              [Turn(@, Len(Script(d)), IF GenTurns(d) = << >> THEN "done" ELSE "gates")
                 EXCEPT !.prng = pad,
                        !.ccts[i] = IF protocol = "BetterYao" /\ part = "inp"
                                    THEN GenInit(@) ELSE @]]
  /\ UNCHANGED <<params, evl, to_gen, bcasts, outcome>>

\* gen_init, com_init or evl_init, once the data of a circuit are there.
EvlStart(d, i, c) ==
  IF m_chks[d][i] = 0 THEN EvlInit(c)
  ELSE IF protocol = "BetterYao" THEN ComInit(c) ELSE GenInit(c)

\* The evaluator passes over what it has no key for.
EvlOpen(d) ==
  /\ EvlAt(d, "open")
  /\ FromGen(d)
  /\ LET i == Script(d)[evl[d].n + 1][1]
         part == Script(d)[evl[d].n + 1][2]
         msg == Head(to_evl[d])
         wanted == protocol = "BetterYao" \/ m_chks[d][i] = Branch(part)
         pad == EvlPad(d, i, part)
         data == IF msg.pad = pad THEN msg.data ELSE Unset
         last == part = PartsOf(d, i)[Len(PartsOf(d, i))]
         c == IF wanted THEN Stored(evl[d].ccts[i], part, data) ELSE evl[d].ccts[i]
     IN  evl' = [evl EXCEPT ![d] =
           [Turn(@, Len(Script(d)), "gates")
              EXCEPT !.prng = IF wanted THEN pad ELSE @,
                     !.ccts[i] = IF last THEN EvlStart(d, i, c) ELSE c]]
  /\ UNCHANGED <<params, gen, to_gen, bcasts, outcome>>

-----------------------------------------------------------------------------
(* circuit_evaluate, gate by gate.                                           *)

GenGate(d) ==
  /\ GenAt(d, "gates")
  /\ LET t == GenTurns(d)[gen[d].n + 1]
         g == Garbled(d, t[2], t[1], IF protocol = "BetterYao" THEN 2 ELSE 1)
         c == GenNextGate(gen[d].ccts[t[2]], g)
     IN  /\ ToEvl(d, c.o_bufr)
         /\ gen' = [gen EXCEPT ![d] =
              [Turn(@, Len(GenTurns(d)), "done")
                 EXCEPT !.ccts[t[2]] = [c EXCEPT !.o_bufr = << >>]]]
  /\ UNCHANGED <<params, evl, to_gen, bcasts, outcome>>

EvlTurn(d) == AllTurns[evl[d].n + 1]
EvlCct(d)  == evl[d].ccts[EvlTurn(d)[2]]
EvlGate(d) == cct[EvlTurn(d)[1]]

EvlGoesOn(d, c, verdict) ==
  evl' = [evl EXCEPT ![d] =
    [Turn(@, Len(AllTurns), "reduce") EXCEPT !.ccts[EvlTurn(d)[2]] = c, !.verify = verdict]]

\* BetterYao: the circuit is garbled again, to be compared by its hash.
EvlHashGate(d) ==
  /\ EvlAt(d, "gates")
  /\ protocol = "BetterYao" /\ m_chks[d][EvlTurn(d)[2]] = 1
  /\ EvlGoesOn(d, ComNextGate(EvlCct(d), EvlGate(d)), evl[d].verify)
  /\ UNCHANGED <<params, gen, to_evl, to_gen, bcasts, outcome>>

\* BetterYao2: each gate is compared with the one received.
EvlCompareGate(d) ==
  /\ EvlAt(d, "gates")
  /\ protocol = "BetterYao2" /\ m_chks[d][EvlTurn(d)[2]] = 1
  /\ FromGen(d)
  /\ LET c == GenNextGate(EvlCct(d), EvlGate(d))
     IN  EvlGoesOn(d, [c EXCEPT !.o_bufr = << >>],
                   IF c.o_bufr = Head(to_evl[d]) THEN evl[d].verify ELSE 0)
  /\ UNCHANGED <<params, gen, to_gen, bcasts, outcome>>

EvlEvaluateGate(d) ==
  /\ EvlAt(d, "gates")
  /\ m_chks[d][EvlTurn(d)[2]] = 0
  /\ FromGen(d)
  /\ EvlGoesOn(d, EvlNextGate(EvlCct(d), EvlGate(d), Head(to_evl[d])), evl[d].verify)
  /\ UNCHANGED <<params, gen, to_gen, bcasts, outcome>>

\* (Mutant: BetterYao compares the hashes of check-circuits only.)
VerifiedChecks(d) ==
  IF protocol = "BetterYao2" THEN evl[d].verify = 1
  ELSE \A i \in Cct : m_chks[d][i] = 1 => evl[d].ccts[i].hash = evl[d].coms[i]

\* BetterYao compares the hash of every circuit, evaluated or checked.
Verified(d) ==
  IF protocol = "BetterYao2" THEN evl[d].verify = 1
  ELSE \A i \in Cct : evl[d].ccts[i].hash = evl[d].coms[i]

\* MPI_Reduce brings the verdicts to the root, which aborts unless all are good.
Reduce ==
  /\ outcome = "none"
  /\ \A d \in Node : evl[d].pc = "reduce"
  /\ outcome' = IF \A d \in Node : Verified(d) THEN "passed" ELSE "abort"
  /\ UNCHANGED <<params, gen, evl, to_evl, to_gen, bcasts>>

Finished ==
  /\ outcome # "none" /\ \A d \in Node : gen[d].pc = "done"
  /\ UNCHANGED vars

GenStep(d) ==
  \/ \E k \in {1, 2} : GenCrs(d, k)
  \/ GenQuery(d) \/ GenKeys(d) \/ GenReply(d) \/ GenCommit(d) \/ GenOpen(d) \/ GenGate(d)

EvlStep(d) ==
  \/ \E k \in {1, 2} : EvlCrs(d, k)
  \/ EvlQuery(d) \/ EvlKeys(d) \/ EvlAsk(d) \/ EvlLearn(d) \/ EvlCommit(d) \/ EvlOpen(d)
  \/ EvlHashGate(d) \/ EvlCompareGate(d) \/ EvlEvaluateGate(d)

Next == (\E d \in 0 .. MaxNodes - 1 : GenStep(d) \/ EvlStep(d)) \/ Reduce \/ Finished

Spec == Init /\ [][Next]_vars

-----------------------------------------------------------------------------
(* Properties *)

Real(d, i) == gen[d].ccts[i]

\* When the evaluator turns to the gates it holds, for each circuit, what its
\* choice entitles it to and the generator really used: to check it, the seed,
\* the mask and both keys of every input; to evaluate it, the masked input and
\* the keys of its own input bits, in BetterYao2 the elements of the
\* generator's input too.  (The transfers of keys and of pads, the order and
\* position in its stream every part is padded with, the selection by m_chks.
\* This is what module GarbledCct starts from: MaskedInp, ChosenM, ChosenOt.)
Handed ==
  \A d \in Node : \A i \in Cct : evl[d].pc \in {"gates", "reduce"} =>
    LET c == evl[d].ccts[i]
    IN  IF m_chks[d][i] = 1
        THEN c.rnd = Real(d, i).rnd /\ c.mask = Real(d, i).mask /\ c.ot_keys = Real(d, i).ot_keys
        ELSE /\ c.mask = Data(Real(d, i), "inp")
             /\ c.ot_keys = [b \in DOMAIN evl_inp |-> Real(d, i).ot_keys[b][evl_inp[b]]]
             /\ protocol = "BetterYao2" => c.M = Data(Real(d, i), "M")

\* The check ends the run exactly when it should: a wrong gate in a
\* check-circuit, or an evaluation-circuit that BetterYao's generator garbles
\* otherwise than committed to; never for a generator that follows the
\* protocol, although its second pass starts from the labels of the first and
\* long circuits are hashed by chunks.
VerdictRight ==
  outcome # "none" =>
    (outcome = "passed"
       <=> IF m_chks[bad[1]][bad[2]] = 1 THEN 1 \notin bad[4]
           ELSE protocol = "BetterYao" => bad[4] \in {{}, {1, 2}})
=============================================================================
