---------------------------- MODULE CutAndChoose ----------------------------
(***************************************************************************)
(* cut_and_choose of BetterYao and BetterYao2 (the two are the same text): *)
(* the two root processes toss coins, the generator committing first; each *)
(* seeds a generator with the exclusive or of both, shuffles the circuits  *)
(* and keeps the first few for evaluation, the rest for checking; the      *)
(* choice is then scattered over the nodes of each cluster.                *)
(*                                                                         *)
(* The parties are separate programs (user mode): when one stops with      *)
(* MPI_Abort the other goes on until it notices.                           *)
(***************************************************************************)
EXTENDS Labels, Sequences, FiniteSets

CONSTANTS
  Sizes,                \* the statistical parameters s considered
  NodeAmnts,            \* the cluster sizes considered
  Draw(_, _, _),        \* Draw(seed, i, n): rand_range(n), the i-th drawn from seed
  Hash(_, _)            \* Hash(s, bytes): the first s bits of the hash

GEN == "GEN"
EVL == "EVL"
Party == {GEN, EVL}

ASSUME CutAndChooseAssumption ==
  /\ Sizes \subseteq Nat \ {0}
  /\ NodeAmnts \subseteq Nat \ {0}
  /\ \A n \in Sizes : \A seed \in Label : \A i \in 1 .. n - 1 :
       Draw(seed, i, n - i) \in 0 .. n - i - 1

VARIABLES
  s, nodes,             \* circuits, node pairs: nodes divides s
  nonce,                \* what the generator hides its coins with
  flipped,              \* the coins each party flipped, never changed
  pc,                   \* where each root is
  coins,                \* the coins each root holds, combined in the end
  net,                  \* messages under way to each party
  comm,                 \* the commitment the evaluator has received
  indices, ix,          \* the shuffled circuit numbers, the next one to draw
  all_chks,             \* 1: check-circuit, 0: evaluation-circuit
  m_chks,               \* what each node of each cluster has been scattered
  trail                 \* history: the indices before each step of the shuffle

params == <<s, nodes, nonce, flipped>>
vars   == <<params, pc, coins, net, comm, indices, ix, all_chks, m_chks, trail>>

Cct == 0 .. s - 1
Load    == s \div nodes

Unset == << >>

Init ==
  /\ s \in Sizes
  /\ nodes \in {d \in NodeAmnts : s % d = 0}
  /\ nonce \in Label
  /\ flipped \in [Party -> Label]
  /\ pc = [p \in Party |-> "commit"]
  /\ coins = flipped
  /\ net = [p \in Party |-> << >>]
  /\ comm = Unset
  /\ indices = [p \in Party |-> [i \in Cct |-> i]]
  /\ ix = [p \in Party |-> 1]
  /\ all_chks = [p \in Party |-> [i \in Cct |-> 1]]
  /\ m_chks = [p \in Party |-> [d \in 0 .. nodes - 1 |-> Unset]]
  /\ trail = [p \in Party |-> <<indices[p]>>]

Opening == <<nonce, flipped[GEN]>>

\* Step 1: the generator commits to its coins.
GenCommit ==
  /\ pc[GEN] = "commit"
  /\ net' = [net EXCEPT ![EVL] = Append(@, Hash(s, Opening))]
  /\ pc' = [pc EXCEPT ![GEN] = "coins"]
  /\ UNCHANGED <<params, coins, comm, indices, ix, all_chks, m_chks, trail>>

\* Step 2: the evaluator has the commitment and sends its coins.
EvlSendCoins ==
  /\ pc[EVL] = "commit"
  /\ net[EVL] # << >>
  /\ comm' = Head(net[EVL])
  /\ net' = [net EXCEPT ![EVL] = Tail(@), ![GEN] = Append(@, flipped[EVL])]
  /\ pc' = [pc EXCEPT ![EVL] = "open"]
  /\ UNCHANGED <<params, coins, indices, ix, all_chks, m_chks, trail>>

\* (Mutant: the generator opens after it has mixed in the other's coins.)
GenOpenMixed ==
  /\ pc[GEN] = "coins"
  /\ net[GEN] # << >>
  /\ coins' = [coins EXCEPT ![GEN] = @ \oplus Head(net[GEN])]
  /\ net' = [net EXCEPT ![GEN] = Tail(@), ![EVL] = Append(@, <<nonce, coins'[GEN]>>)]
  /\ pc' = [pc EXCEPT ![GEN] = "shuffle"]
  /\ UNCHANGED <<params, comm, indices, ix, all_chks, m_chks, trail>>

\* (Mutant: the generator goes on with its own coins.)
GenOpenUncombined ==
  /\ pc[GEN] = "coins"
  /\ net[GEN] # << >>
  /\ net' = [net EXCEPT ![GEN] = Tail(@), ![EVL] = Append(@, Opening)]
  /\ pc' = [pc EXCEPT ![GEN] = "shuffle"]
  /\ UNCHANGED <<params, coins, comm, indices, ix, all_chks, m_chks, trail>>

\* Step 3: the generator decommits, and combines the coins.
GenOpen ==
  /\ pc[GEN] = "coins"
  /\ net[GEN] # << >>
  /\ net' = [net EXCEPT ![GEN] = Tail(@), ![EVL] = Append(@, Opening)]
  /\ coins' = [coins EXCEPT ![GEN] = @ \oplus Head(net[GEN])]
  /\ pc' = [pc EXCEPT ![GEN] = "shuffle"]
  /\ UNCHANGED <<params, comm, indices, ix, all_chks, m_chks, trail>>

\* The evaluator checks the decommitment, and combines the coins.
EvlCheckOpening ==
  /\ pc[EVL] = "open"
  /\ net[EVL] # << >>
  /\ LET open == Head(net[EVL])
         good == Hash(s, open) = comm
     IN  /\ coins' = IF good THEN [coins EXCEPT ![EVL] = @ \oplus open[2]] ELSE coins
         /\ pc' = [pc EXCEPT ![EVL] = IF good THEN "shuffle" ELSE "abort"]
  /\ net' = [net EXCEPT ![EVL] = Tail(@)]
  /\ UNCHANGED <<params, comm, indices, ix, all_chks, m_chks, trail>>

\* (Mutant: the shuffle is the textbook one, from the 0-th index on.)
SwapFromZero(f, seed, i) ==
  LET j == i - 1 + Draw(seed, i, s - i)
  IN  [f EXCEPT ![i - 1] = f[j], ![j] = f[i - 1]]

\* Step i of the shuffle of f: place i is swapped with one not before it.
SwapAt(f, seed, i) ==
  LET j == i + Draw(seed, i, s - i)
  IN  [f EXCEPT ![i] = f[j], ![j] = f[i]]

\* (Mutant: the loop counter is moved twice.)
ShuffleSkipping(p) ==
  /\ pc[p] = "shuffle"
  /\ ix[p] < s
  /\ indices' = [indices EXCEPT ![p] = SwapAt(@, coins[p], ix[p])]
  /\ ix' = [ix EXCEPT ![p] = @ + 2]
  /\ trail' = [trail EXCEPT ![p] = Append(@, indices'[p])]
  /\ UNCHANGED <<params, pc, coins, net, comm, all_chks, m_chks>>

\* (Mutant: the loop counter is not moved.)
ShuffleStuck(p) ==
  /\ pc[p] = "shuffle"
  /\ ix[p] < s
  /\ indices' = [indices EXCEPT ![p] = SwapAt(@, coins[p], ix[p])]
  /\ UNCHANGED <<params, pc, coins, net, comm, ix, all_chks, m_chks, trail>>

Shuffle(p) ==
  /\ pc[p] = "shuffle"
  /\ ix[p] < s
  /\ indices' = [indices EXCEPT ![p] = SwapAt(@, coins[p], ix[p])]
  /\ ix' = [ix EXCEPT ![p] = @ + 1]
  /\ trail' = [trail EXCEPT ![p] = Append(@, indices'[p])]
  /\ UNCHANGED <<params, pc, coins, net, comm, all_chks, m_chks>>

NumOfEvls(n) == CASE n \in {2, 3} -> 1
                  [] n = 4 -> 2
                  [] OTHER -> (n * 2) \div 5

\* m_all_chks cleared for the first num_of_evls shuffled circuits.
Cleared(chks, f) ==
  [c \in Cct |-> IF \E i \in 0 .. NumOfEvls(s) - 1 : f[i] = c THEN 0 ELSE chks[c]]

\* The first shuffled circuits are evaluated; one circuit is not enough.
Choose(p) ==
  /\ pc[p] = "shuffle"
  /\ ix[p] >= s
  /\ IF s < 2
     THEN /\ pc' = [pc EXCEPT ![p] = "abort"]
          /\ UNCHANGED all_chks
     ELSE /\ all_chks' = [all_chks EXCEPT ![p] = Cleared(@, indices[p])]
          /\ pc' = [pc EXCEPT ![p] = "scatter"]
  /\ UNCHANGED <<params, coins, net, comm, indices, ix, m_chks, trail>>

Slice(chks, d) == [j \in 0 .. Load - 1 |-> chks[d * Load + j]]

\* A node of a cluster receives its slice of the root's choice.
Scatter(p, d) ==
  /\ pc[p] = "scatter"
  /\ m_chks[p][d] = Unset
  /\ m_chks' = [m_chks EXCEPT ![p][d] = Slice(all_chks[p], d)]
  /\ UNCHANGED <<params, pc, coins, net, comm, indices, ix, all_chks, trail>>

Scattered(p) == \A d \in 0 .. nodes - 1 : m_chks[p][d] # Unset

Stopped(p) == pc[p] = "abort" \/ Scattered(p)

Finished == (\A p \in Party : Stopped(p)) /\ UNCHANGED vars

GenStep == GenCommit \/ GenOpen
EvlStep == EvlSendCoins \/ EvlCheckOpening
Step(p) ==
  \/ p = GEN /\ GenStep
  \/ p = EVL /\ EvlStep
  \/ Shuffle(p) \/ Choose(p)
  \/ \E d \in 0 .. nodes - 1 : Scatter(p, d)

Next == (\E p \in Party : Step(p)) \/ Finished

Spec == Init /\ [][Next]_vars

\* The processes run until they end.
FairSpec == Spec /\ \A p \in Party : WF_vars(Step(p))

-----------------------------------------------------------------------------
TypeOK ==
  /\ s \in Sizes
  /\ nodes \in NodeAmnts
  /\ s % nodes = 0
  /\ nonce \in Label
  /\ flipped \in [Party -> Label]
  /\ pc \in [Party -> {"commit", "coins", "open", "shuffle", "scatter", "abort"}]
  /\ coins \in [Party -> Label]
  /\ ix \in [Party -> 1..s]
  /\ indices \in [Party -> [Cct -> Cct]]
  /\ all_chks \in [Party -> [Cct -> Bit]]
  /\ m_chks \in [Party -> [0 .. nodes - 1 -> {Unset} \cup [0 .. Load - 1 -> Bit]]]
  /\ trail \in [Party -> Seq([Cct -> Cct])]

\* The evaluator never finds the generator's decommitment wrong: the only way
\* either stops early is a run with too few circuits (the two MPI_Aborts of
\* cut_and_choose).
NoSpuriousAbort == \A p \in Party : pc[p] = "abort" => s < 2

Evls(p) == {c \in Cct : all_chks[p][c] = 0}

\* "The 0-th circuit is always evaluation-circuit": circuit 0, whose keys and
\* outputs consistency_check and proc_gen_out rely on, is evaluated whatever
\* the coins; exactly num_of_evls circuits are, and at least half of the
\* circuits are checked.
GoodChoice ==
  \A p \in Party : pc[p] = "scatter" =>
    /\ 0 \in Evls(p)
    /\ Cardinality(Evls(p)) = NumOfEvls(s)
    /\ 2 * Cardinality(Evls(p)) <= s

\* Both clusters check and evaluate the same circuits, node by node, though
\* each root tosses, shuffles and scatters on its own.
SameChoice ==
  \A d \in 0 .. nodes - 1 :
    m_chks[GEN][d] # Unset /\ m_chks[EVL][d] # Unset => m_chks[GEN][d] = m_chks[EVL][d]

\* Each root gets through the toss and the shuffle.
Completes == <>(\A p \in Party : Stopped(p))
=============================================================================
