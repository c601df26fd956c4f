------------------------- MODULE CutAndChooseProofs -------------------------
(***************************************************************************)
(* Proofs about CutAndChoose for every number of circuits and nodes, every *)
(* length of the coins, every generator whose rand_range keeps its promise *)
(* and every hash function.                                                *)
(***************************************************************************)
EXTENDS CutAndChoose, FiniteSetTheorems, TLAPS

\* The seed both roots end up with.
Mix == flipped[GEN] \oplus flipped[EVL]

\* The states in which a root has combined the coins.
Mixed == {"shuffle", "scatter", "abort"}

AllChecked == [c \in Cct |-> 1]
Identity   == [c \in Cct |-> c]

Commitment == Hash(s, Opening)

\* Where the coin toss is, and what is under way.
Toss ==
  \/ /\ pc[GEN] = "commit" /\ pc[EVL] = "commit"
     /\ net[GEN] = << >> /\ net[EVL] = << >>
  \/ /\ pc[GEN] = "coins" /\ pc[EVL] = "commit"
     /\ net[GEN] = << >> /\ net[EVL] = <<Commitment>>
  \/ /\ pc[GEN] = "coins" /\ pc[EVL] = "open" /\ comm = Commitment
     /\ net[GEN] = <<flipped[EVL]>> /\ net[EVL] = << >>
  \/ /\ pc[GEN] \in Mixed /\ pc[EVL] = "open" /\ comm = Commitment
     /\ net[GEN] = << >> /\ net[EVL] = <<Opening>>
  \/ /\ pc[GEN] \in Mixed /\ pc[EVL] \in Mixed
     /\ net[GEN] = << >> /\ net[EVL] = << >>

\* The coins of a root are its own until it has combined them.
CoinsInv == \A p \in Party : coins[p] = IF pc[p] \in Mixed THEN Mix ELSE flipped[p]

\* The trail of a root is a run of the shuffle from the identity.
TrailInv(p) ==
  /\ pc[p] \notin Mixed => ix[p] = 1
  /\ Len(trail[p]) = ix[p]
  /\ trail[p][1] = Identity
  /\ trail[p][ix[p]] = indices[p]
  /\ \A i \in 1 .. ix[p] - 1 : trail[p][i + 1] = SwapAt(trail[p][i], Mix, i)

\* The shuffle keeps a permutation that fixes 0.
PermInv(p) ==
  /\ indices[p][0] = 0
  /\ \A i, j \in Cct : indices[p][i] = indices[p][j] => i = j

\* A root's choice is that of its last shuffle, the nodes' slices are its own.
ChoiceInv(p) ==
  /\ pc[p] # "scatter" => all_chks[p] = AllChecked
  /\ pc[p] = "scatter" =>
       s >= 2 /\ ix[p] = s /\ all_chks[p] = Cleared(AllChecked, indices[p])
  /\ \A d \in 0 .. nodes - 1 : m_chks[p][d] # Unset =>
       pc[p] = "scatter" /\ m_chks[p][d] = Slice(all_chks[p], d)

\* As far as both have come, the two shuffles are the same.
SameTrail ==
  \A p, q \in Party : \A i \in Nat :
    i \in 1 .. ix[p] /\ i \in 1 .. ix[q] => trail[p][i] = trail[q][i]

IInv ==
  /\ TypeOK
  /\ net = [p \in Party |-> net[p]]
  /\ Toss
  /\ CoinsInv
  /\ NoSpuriousAbort
  /\ \A p \in Party : TrailInv(p) /\ PermInv(p) /\ ChoiceInv(p)
  /\ SameTrail

-----------------------------------------------------------------------------
\* Exclusive or of two coin strings is a coin string and does not depend on
\* their order: what lets both roots arrive at one seed.
LEMMA XorCommutes ==
  ASSUME NEW a \in Label, NEW b \in Label
  PROVE  a \oplus b \in Label /\ a \oplus b = b \oplus a
BY DEF Label, Bit, BitXor, \oplus

\* A step of the shuffle keeps a permutation of the circuits that fixes 0.
LEMMA SwapKeeps ==
  ASSUME s \in Sizes, NEW seed \in Label, NEW i \in 1 .. s - 1,
         NEW f \in [Cct -> Cct], f[0] = 0,
         \A x, y \in Cct : f[x] = f[y] => x = y
  PROVE  /\ SwapAt(f, seed, i) \in [Cct -> Cct]
         /\ SwapAt(f, seed, i)[0] = 0
         /\ \A x, y \in Cct : SwapAt(f, seed, i)[x] = SwapAt(f, seed, i)[y] => x = y
<1> DEFINE d == Draw(seed, i, s - i)
<1> DEFINE j == i + d
<1>1. s \in Nat \ {0} /\ d \in 0 .. s - i - 1
  BY CutAndChooseAssumption
<1>2. i \in Cct /\ j \in Cct /\ i # 0 /\ j # 0 /\ 0 \in Cct
  <2> HIDE DEF d
  <2> QED
    BY <1>1 DEF Cct
<1>3. SwapAt(f, seed, i) = [f EXCEPT ![i] = f[j], ![j] = f[i]]
  BY DEF SwapAt
<1> HIDE DEF j
<1> QED
  BY <1>2, <1>3

-----------------------------------------------------------------------------
\* The initial states satisfy the invariant.
LEMMA InitIInv == Init => IInv
<1> SUFFICES ASSUME Init PROVE IInv
  OBVIOUS
<1>1. s \in Nat \ {0} /\ nodes \in Nat \ {0}
  BY CutAndChooseAssumption DEF Init
<1>2. TypeOK
  <2>1. \A p \in Party : indices[p] \in [Cct -> Cct]
    BY <1>1 DEF Init, Cct
  <2>2. trail \in [Party -> Seq([Cct -> Cct])]
    BY <2>1 DEF Init
  <2>3. ix \in [Party -> 1..s]
    BY <1>1 DEF Init
  <2>4. s % nodes = 0 /\ nodes \in NodeAmnts
    BY DEF Init
  <2> QED
    BY <2>1, <2>2, <2>3, <2>4 DEF Init, TypeOK, Bit, Unset
<1>3. \A p \in Party : TrailInv(p) /\ PermInv(p) /\ ChoiceInv(p)
  <2> SUFFICES ASSUME NEW p \in Party PROVE TrailInv(p) /\ PermInv(p) /\ ChoiceInv(p)
    OBVIOUS
  <2>1. TrailInv(p)
    BY DEF Init, TrailInv, Identity, Mixed
  <2>2. PermInv(p)
    BY <1>1 DEF Init, PermInv, Cct
  <2>3. ChoiceInv(p)
    BY DEF Init, ChoiceInv, AllChecked
  <2> QED
    BY <2>1, <2>2, <2>3
<1>4. SameTrail
  <2>1. \A p \in Party : ix[p] = 1 /\ trail[p][1] = Identity
    BY <1>3 DEF Init, TrailInv
  <2> QED
    BY <2>1 DEF SameTrail
<1>5. Toss /\ CoinsInv /\ NoSpuriousAbort /\ net = [p \in Party |-> net[p]]
  BY DEF Init, Toss, CoinsInv, NoSpuriousAbort, Mixed, Party
<1> QED
  BY <1>2, <1>3, <1>4, <1>5 DEF IInv

\* What a step of the coin toss leaves as it is: everything about the shuffles,
\* as long as no root goes back to tossing or to or from scattering.
LEMMA TossFrame ==
  ASSUME IInv, UNCHANGED <<params, indices, ix, all_chks, m_chks, trail>>,
         \A p \in Party : \/ pc'[p] = pc[p]
                          \/ /\ pc[p] # "scatter" /\ pc'[p] # "scatter"
                             /\ pc[p] \notin Mixed
  PROVE  (\A p \in Party : TrailInv(p) /\ PermInv(p) /\ ChoiceInv(p))' /\ SameTrail'
<1>1. SameTrail'
  BY DEF IInv, SameTrail
<1>2. ASSUME NEW p \in Party PROVE TrailInv(p)' /\ PermInv(p)' /\ ChoiceInv(p)'
  <2>1. TrailInv(p)'
    BY DEF IInv, TrailInv, params, Mix, SwapAt, Identity, Cct, Mixed
  <2>2. PermInv(p)'
    BY DEF IInv, PermInv, params, Cct
  <2>3. ChoiceInv(p)'
    <3>1. /\ AllChecked' = AllChecked
          /\ Cleared(AllChecked, indices[p])' = Cleared(AllChecked, indices[p])
          /\ \A d \in 0 .. nodes - 1 : Slice(all_chks[p], d)' = Slice(all_chks[p], d)
      BY DEF params, AllChecked, Cleared, NumOfEvls, Slice, Load, Cct
    <3>2. /\ ChoiceInv(p) /\ nodes' = nodes /\ s' = s /\ ix' = ix
          /\ all_chks' = all_chks /\ m_chks' = m_chks
      BY DEF IInv, params
    <3>3. pc'[p] = pc[p] \/ (pc[p] # "scatter" /\ pc'[p] # "scatter")
      OBVIOUS
    <3> QED
      BY <3>1, <3>2, <3>3 DEF ChoiceInv
  <2> QED
    BY <2>1, <2>2, <2>3
<1> QED
  BY <1>1, <1>2

\* A step of the coin toss keeps the invariant.
LEMMA GenTossIInv ==
  ASSUME IInv, GenStep
  PROVE  IInv'
<1>1. CASE GenCommit
  <2>1. (\A p \in Party : TrailInv(p) /\ PermInv(p) /\ ChoiceInv(p))' /\ SameTrail'
    BY <1>1, TossFrame DEF GenCommit, Party, GEN, EVL, IInv, TypeOK, Mixed
  <2>2. TypeOK'
    BY <1>1 DEF GenCommit, IInv, TypeOK, params, Cct, Load, Party
  <2>3. net' = [p \in Party |-> net'[p]] /\ Toss'
    <3>0. pc[EVL] = "commit" /\ net[GEN] = << >> /\ net[EVL] = << >>
      BY <1>1 DEF GenCommit, IInv, Toss, Mixed
    <3>1. Commitment' = Commitment
      BY <1>1 DEF GenCommit, params, Commitment, Opening
    <3>2. Append(<< >>, Commitment) = <<Commitment>>
      OBVIOUS
    <3>3. net' = [net EXCEPT ![EVL] = <<Commitment>>]
      BY <1>1, <3>0, <3>2 DEF GenCommit, Commitment
    <3>4. net' = [p \in Party |-> net'[p]] /\ net'[GEN] = << >> /\ net'[EVL] = <<Commitment>>
      BY <3>0, <3>3 DEF IInv, Party, GEN, EVL
    <3>5. pc'[GEN] = "coins" /\ pc'[EVL] = "commit"
      BY <1>1, <3>0 DEF GenCommit, IInv, TypeOK, Party, GEN, EVL
    <3> QED
      BY <3>1, <3>4, <3>5 DEF Toss
  <2>4. CoinsInv' /\ NoSpuriousAbort'
    BY <1>1 DEF GenCommit, IInv, TypeOK, CoinsInv, NoSpuriousAbort, Mix, Mixed, params, Party, GEN, EVL
  <2> QED
    BY <2>1, <2>2, <2>3, <2>4 DEF IInv
<1>2. CASE GenOpen
  <2>0. pc[EVL] = "open" /\ comm = Commitment /\ net[GEN] = <<flipped[EVL]>> /\ net[EVL] = << >>
    BY <1>2 DEF GenOpen, IInv, Toss, Mixed
  <2>1. (\A p \in Party : TrailInv(p) /\ PermInv(p) /\ ChoiceInv(p))' /\ SameTrail'
    BY <1>2, TossFrame DEF GenOpen, Party, GEN, EVL, IInv, TypeOK, Mixed
  <2>2. coins' = [coins EXCEPT ![GEN] = Mix] /\ Mix \in Label
    <3>1. coins[GEN] = flipped[GEN]
      BY <1>2 DEF GenOpen, IInv, CoinsInv, Mixed, Party
    <3>2. Head(<<flipped[EVL]>>) = flipped[EVL]
      OBVIOUS
    <3>3. coins' = [coins EXCEPT ![GEN] = coins[GEN] \oplus flipped[EVL]]
      BY <1>2, <2>0, <3>2 DEF GenOpen
    <3>4. flipped[EVL] \in Label /\ flipped[GEN] \in Label
      BY DEF IInv, TypeOK, Party
    <3> QED
      BY <3>1, <3>3, <3>4, XorCommutes DEF Mix
  <2>3. TypeOK'
    BY <1>2, <2>2 DEF GenOpen, IInv, TypeOK, params, Cct, Load, Party
  <2>4. net' = [p \in Party |-> net'[p]] /\ Toss'
    <3>1. Commitment' = Commitment /\ Opening' = Opening
      BY <1>2 DEF GenOpen, params, Commitment, Opening
    <3>2. Append(<< >>, Opening) = <<Opening>> /\ Tail(<<flipped[EVL]>>) = << >>
      OBVIOUS
    <3>3. net' = [net EXCEPT ![GEN] = << >>, ![EVL] = <<Opening>>] /\ comm' = Commitment
      BY <1>2, <2>0, <3>2 DEF GenOpen
    <3>4. net' = [p \in Party |-> net'[p]] /\ net'[GEN] = << >> /\ net'[EVL] = <<Opening>>
      BY <3>3 DEF IInv, Party, GEN, EVL
    <3>5. pc'[GEN] \in Mixed /\ pc'[EVL] = "open"
      BY <1>2, <2>0 DEF GenOpen, IInv, TypeOK, Party, GEN, EVL, Mixed
    <3> QED
      BY <3>1, <3>3, <3>4, <3>5 DEF Toss
  <2>5. CoinsInv' /\ NoSpuriousAbort'
    BY <1>2, <2>2 DEF GenOpen, IInv, TypeOK, CoinsInv, NoSpuriousAbort, Mix, Mixed, params, Party, GEN, EVL
  <2> QED
    BY <2>1, <2>3, <2>4, <2>5 DEF IInv
<1> QED
  BY <1>1, <1>2 DEF GenStep

\* The evaluator's steps of the toss keep the invariant: it finds the
\* decommitment good, since what it has is the hash of what it is sent.
LEMMA EvlTossIInv ==
  ASSUME IInv, EvlStep
  PROVE  IInv'
<1>1. CASE EvlSendCoins
  <2>0. pc[GEN] = "coins" /\ net[GEN] = << >> /\ net[EVL] = <<Commitment>>
    BY <1>1 DEF EvlSendCoins, IInv, Toss, Mixed
  <2>1. (\A p \in Party : TrailInv(p) /\ PermInv(p) /\ ChoiceInv(p))' /\ SameTrail'
    BY <1>1, TossFrame DEF EvlSendCoins, Party, GEN, EVL, IInv, TypeOK, Mixed
  <2>2. TypeOK'
    BY <1>1 DEF EvlSendCoins, IInv, TypeOK, params, Cct, Load, Party
  <2>3. net' = [p \in Party |-> net'[p]] /\ Toss'
    <3>1. Commitment' = Commitment /\ flipped' = flipped
      BY <1>1 DEF EvlSendCoins, params, Commitment, Opening
    <3>2. Head(<<Commitment>>) = Commitment /\ Tail(<<Commitment>>) = << >>
      OBVIOUS
    <3>3. Append(<< >>, flipped[EVL]) = <<flipped[EVL]>>
      OBVIOUS
    <3>4. net' = [net EXCEPT ![EVL] = << >>, ![GEN] = <<flipped[EVL]>>] /\ comm' = Commitment
      BY <1>1, <2>0, <3>2, <3>3 DEF EvlSendCoins
    <3>5. net' = [p \in Party |-> net'[p]] /\ net'[GEN] = <<flipped[EVL]>> /\ net'[EVL] = << >>
      BY <3>4 DEF IInv, Party, GEN, EVL
    <3>6. pc'[GEN] = "coins" /\ pc'[EVL] = "open"
      BY <1>1, <2>0 DEF EvlSendCoins, IInv, TypeOK, Party, GEN, EVL
    <3> QED
      BY <3>1, <3>4, <3>5, <3>6 DEF Toss
  <2>4. CoinsInv' /\ NoSpuriousAbort'
    BY <1>1 DEF EvlSendCoins, IInv, TypeOK, CoinsInv, NoSpuriousAbort, Mix, Mixed, params, Party, GEN, EVL
  <2> QED
    BY <2>1, <2>2, <2>3, <2>4 DEF IInv
<1>2. CASE EvlCheckOpening
  <2>0. /\ pc[GEN] \in Mixed /\ comm = Commitment
        /\ net[GEN] = << >> /\ net[EVL] = <<Opening>>
    BY <1>2 DEF EvlCheckOpening, IInv, Toss, Mixed
  <2>1. pc' = [pc EXCEPT ![EVL] = "shuffle"]
    BY <1>2, <2>0 DEF EvlCheckOpening, Commitment
  <2>2. coins' = [coins EXCEPT ![EVL] = Mix] /\ Mix \in Label
    <3>1. Opening[2] = flipped[GEN] /\ coins[EVL] = flipped[EVL]
      BY <1>2 DEF EvlCheckOpening, IInv, CoinsInv, Opening, Mixed, Party
    <3>2. coins' = [coins EXCEPT ![EVL] = coins[EVL] \oplus Opening[2]]
      BY <1>2, <2>0 DEF EvlCheckOpening, Commitment
    <3>3. flipped[EVL] \in Label /\ flipped[GEN] \in Label
      BY DEF IInv, TypeOK, Party
    <3> QED
      BY <3>1, <3>2, <3>3, XorCommutes DEF Mix
  <2>3. (\A p \in Party : TrailInv(p) /\ PermInv(p) /\ ChoiceInv(p))' /\ SameTrail'
    BY <1>2, <2>1, TossFrame DEF EvlCheckOpening, Party, GEN, EVL, IInv, TypeOK, Mixed
  <2>4. TypeOK'
    BY <1>2, <2>1, <2>2 DEF EvlCheckOpening, IInv, TypeOK, params, Cct, Load, Party
  <2>5. net' = [p \in Party |-> net'[p]] /\ Toss'
    <3>1. Tail(<<Opening>>) = << >>
      OBVIOUS
    <3>2. net' = [net EXCEPT ![EVL] = << >>]
      BY <1>2, <2>0, <3>1 DEF EvlCheckOpening
    <3>3. net' = [p \in Party |-> net'[p]] /\ net'[GEN] = << >> /\ net'[EVL] = << >>
      BY <2>0, <3>2 DEF IInv, Party, GEN, EVL
    <3>4. pc'[GEN] \in Mixed /\ pc'[EVL] \in Mixed
      BY <2>0, <2>1 DEF IInv, TypeOK, Party, GEN, EVL, Mixed
    <3> QED
      BY <3>3, <3>4 DEF Toss
  <2>6. CoinsInv' /\ NoSpuriousAbort'
    BY <1>2, <2>1, <2>2 DEF EvlCheckOpening, IInv, TypeOK, CoinsInv, NoSpuriousAbort, Mix, Mixed, params, Party, GEN, EVL
  <2> QED
    BY <2>3, <2>4, <2>5, <2>6 DEF IInv
<1> QED
  BY <1>1, <1>2 DEF EvlStep

\* A step of a root's shuffle keeps the invariant; where the other root is
\* ahead, it has already made the same step.
LEMMA ShuffleIInv ==
  ASSUME IInv, NEW p \in Party, Shuffle(p)
  PROVE  IInv'
<1> DEFINE i == ix[p]
           new == SwapAt(indices[p], Mix, i)
<1>1. /\ s \in Nat \ {0} /\ i \in 1 .. s - 1 /\ pc[p] = "shuffle"
      /\ indices[p] \in [Cct -> Cct]
      /\ coins[p] = Mix /\ Mix \in Label
  BY CutAndChooseAssumption DEF Shuffle, IInv, TypeOK, CoinsInv, Mixed
<1>2. /\ indices' = [indices EXCEPT ![p] = new] /\ ix' = [ix EXCEPT ![p] = i + 1]
      /\ UNCHANGED <<s, nodes, nonce, flipped, pc, coins, net, comm, all_chks, m_chks>>
  BY <1>1 DEF Shuffle, params
<1>3. /\ new \in [Cct -> Cct] /\ new[0] = 0
      /\ \A x, y \in Cct : new[x] = new[y] => x = y
  <2>1. /\ s \in Sizes /\ indices[p][0] = 0
        /\ \A x, y \in Cct : indices[p][x] = indices[p][y] => x = y
    BY DEF IInv, TypeOK, PermInv
  <2> HIDE DEF i
  <2> QED
    BY <1>1, <2>1, SwapKeeps
<1>4. /\ trail' = [trail EXCEPT ![p] = Append(trail[p], new)]
      /\ trail[p] \in Seq([Cct -> Cct]) /\ Len(trail[p]) = i
      /\ Append(trail[p], new) \in Seq([Cct -> Cct])
      /\ Len(Append(trail[p], new)) = i + 1
  <2>1. indices'[p] = new
    BY <1>2 DEF IInv, TypeOK
  <2> HIDE DEF new
  <2>2. trail' = [trail EXCEPT ![p] = Append(trail[p], new)]
    BY <2>1 DEF Shuffle
  <2>3. trail[p] \in Seq([Cct -> Cct]) /\ Len(trail[p]) = i
    BY DEF IInv, TypeOK, TrailInv
  <2> QED
    BY <1>3, <2>2, <2>3
<1>5. /\ trail'[p][i + 1] = new
      /\ \A k \in 1 .. i : trail'[p][k] = trail[p][k]
  <2> HIDE DEF new
  <2> QED
    BY <1>1, <1>4 DEF IInv, TypeOK
<1>6. \A q \in Party : q # p =>
        ix'[q] = ix[q] /\ indices'[q] = indices[q] /\ trail'[q] = trail[q]
  BY <1>2, <1>4 DEF IInv, TypeOK
<1>7. ix'[p] = i + 1 /\ indices'[p] = new
  BY <1>2 DEF IInv, TypeOK
<1>8. TypeOK'
  <2>1. indices' \in [Party -> [Cct -> Cct]] /\ trail' \in [Party -> Seq([Cct -> Cct])]
    <3> HIDE DEF new
    <3> QED
      BY <1>2, <1>3, <1>4 DEF IInv, TypeOK
  <2>2. ix' \in [Party -> 1 .. s]
    BY <1>1, <1>2 DEF IInv, TypeOK
  <2> QED
    BY <1>2, <2>1, <2>2 DEF IInv, TypeOK, Cct, Load
<1>9. Toss' /\ CoinsInv' /\ NoSpuriousAbort' /\ net' = [q \in Party |-> net'[q]]
  BY <1>2 DEF IInv, Toss, CoinsInv, NoSpuriousAbort, Commitment, Opening, Mix
<1>10. ASSUME NEW q \in Party PROVE TrailInv(q)' /\ PermInv(q)' /\ ChoiceInv(q)'
  <2>1. TrailInv(q) /\ PermInv(q) /\ ChoiceInv(q)
    BY DEF IInv
  <2>2. ChoiceInv(q)'
    <3>1. /\ AllChecked' = AllChecked
          /\ \A d \in 0 .. nodes - 1 : Slice(all_chks[q], d)' = Slice(all_chks[q], d)
      BY <1>2 DEF AllChecked, Slice, Load, Cct
    <3>2. q # p => Cleared(AllChecked, indices[q])' = Cleared(AllChecked, indices[q])
      BY <1>2, <1>6 DEF AllChecked, Cleared, NumOfEvls, Cct
    <3>3. q = p => pc[q] # "scatter"
      BY <1>1
    <3> QED
      BY <1>2, <1>6, <2>1, <3>1, <3>2, <3>3 DEF ChoiceInv
  <2>3. PermInv(q)'
    BY <1>2, <1>3, <1>6, <1>7, <2>1 DEF PermInv, Cct
  <2>4. TrailInv(q)'
    <3>1. Identity' = Identity /\ Mix' = Mix /\ s' = s
      BY <1>2 DEF Identity, Cct, Mix
    <3>2. CASE q # p
      <4>1. trail'[q] = trail[q] /\ ix'[q] = ix[q] /\ indices'[q] = indices[q] /\ pc' = pc
        BY <1>2, <1>6, <3>2
      <4> QED
        BY <2>1, <3>1, <4>1 DEF TrailInv, SwapAt, Cct, Mixed
    <3>3. CASE q = p
      <4>1. pc'[p] \in Mixed /\ Len(trail'[p]) = ix'[p]
        BY <1>1, <1>2, <1>4, <1>7 DEF Mixed, IInv, TypeOK
      <4>2. trail'[p][1] = Identity
        BY <1>1, <1>5, <2>1, <3>3 DEF TrailInv
      <4>3. trail'[p][ix'[p]] = indices'[p]
        BY <1>5, <1>7
      <4>4. ASSUME NEW k \in 1 .. ix'[p] - 1
            PROVE  trail'[p][k + 1] = SwapAt(trail'[p][k], Mix, k)
        <5>1. CASE k = i
          BY <1>1, <1>5, <2>1, <3>3, <5>1 DEF TrailInv
        <5>2. CASE k # i
          <6> HIDE DEF i, new
          <6>1. k \in 1 .. i - 1 /\ k \in 1 .. i /\ k + 1 \in 1 .. i
            BY <1>1, <1>7, <5>2
          <6>2. trail'[p][k + 1] = trail[p][k + 1] /\ trail'[p][k] = trail[p][k]
            BY <1>5, <6>1
          <6>3. trail[p][k + 1] = SwapAt(trail[p][k], Mix, k)
            BY <2>1, <3>3, <6>1 DEF TrailInv, i
          <6> QED
            BY <6>2, <6>3
        <5> QED
          BY <5>1, <5>2
      <4>5. \A k \in 1 .. ix'[p] - 1 :
              SwapAt(trail'[p][k], Mix, k) = SwapAt(trail[p][k], Mix, k)'
        BY <3>1 DEF SwapAt
      <4> QED
        BY <3>1, <3>3, <4>1, <4>2, <4>3, <4>4, <4>5 DEF TrailInv
    <3> QED
      BY <3>2, <3>3
  <2> QED
    BY <2>2, <2>3, <2>4
<1>11. SameTrail'
  <2> SUFFICES ASSUME NEW q \in Party, NEW o \in Party, NEW k \in Nat,
                      k \in 1 .. ix'[q], k \in 1 .. ix'[o]
               PROVE  trail'[q][k] = trail'[o][k]
    BY DEF SameTrail
  <2>1. ASSUME NEW t \in Party, t # p, k \in 1 .. ix'[t], k \in 1 .. i + 1
        PROVE  trail'[t][k] = trail'[p][k]
    <3>1. ix'[t] = ix[t] /\ trail'[t] = trail[t]
      BY <1>6, <2>1
    <3>2. CASE k # i + 1
      BY <1>1, <1>5, <2>1, <3>1, <3>2 DEF IInv, SameTrail
    <3>3. CASE k = i + 1
      <4>0. TrailInv(t) /\ TrailInv(p) /\ SameTrail /\ ix[t] \in 1 .. s
        BY DEF IInv, TypeOK
      <4>1. i \in 1 .. ix[t] - 1 /\ i \in 1 .. ix[t] /\ i \in 1 .. i /\ i \in Nat
        <5> HIDE DEF i
        <5> QED
          BY <1>1, <2>1, <3>1, <3>3, <4>0
      <4>2. trail[t][i + 1] = SwapAt(trail[t][i], Mix, i)
        <5> HIDE DEF i
        <5> QED
          BY <4>0, <4>1 DEF TrailInv
      <4>3. trail[t][i] = trail[p][i]
        BY <4>0, <4>1 DEF SameTrail
      <4>4. trail[p][i] = indices[p]
        BY <4>0 DEF TrailInv
      <4> QED
        BY <1>5, <3>1, <3>3, <4>2, <4>3, <4>4
    <3> QED
      BY <3>2, <3>3
  <2>2. CASE q # p /\ o # p
    BY <1>6, <2>2 DEF IInv, SameTrail
  <2> QED
    BY <1>7, <2>1, <2>2
<1> QED
  BY <1>8, <1>9, <1>10, <1>11 DEF IInv

\* The choice itself keeps the invariant: no node has been given anything
\* before it.
LEMMA ChooseIInv ==
  ASSUME IInv, NEW p \in Party, Choose(p)
  PROVE  IInv'
<1>1. /\ UNCHANGED <<s, nodes, nonce, flipped, coins, net, comm, indices, ix, m_chks, trail>>
      /\ s \in Nat \ {0} /\ ix[p] = s /\ pc[p] = "shuffle"
  BY CutAndChooseAssumption DEF Choose, params, IInv, TypeOK
<1>2. /\ all_chks[p] = AllChecked
      /\ \A d \in 0 .. nodes - 1 : m_chks[p][d] = Unset
  BY <1>1 DEF IInv, ChoiceInv
<1>3. \/ /\ s < 2 /\ pc' = [pc EXCEPT ![p] = "abort"] /\ all_chks' = all_chks
      \/ /\ s >= 2 /\ pc' = [pc EXCEPT ![p] = "scatter"]
         /\ all_chks' = [all_chks EXCEPT ![p] = Cleared(AllChecked, indices[p])]
  BY <1>1, <1>2 DEF Choose
<1>4. Cleared(AllChecked, indices[p]) \in [Cct -> Bit]
  BY DEF Cleared, AllChecked, Bit
<1>5. TypeOK'
  <2>1. all_chks' \in [Party -> [Cct -> Bit]]
    BY <1>3, <1>4 DEF IInv, TypeOK
  <2>2. pc' \in [Party -> {"commit", "coins", "open", "shuffle", "scatter", "abort"}]
    BY <1>3 DEF IInv, TypeOK
  <2> QED
    BY <1>1, <2>1, <2>2 DEF IInv, TypeOK, Cct, Load
<1>6. \A q \in Party : /\ q # p => pc'[q] = pc[q] /\ all_chks'[q] = all_chks[q]
                       /\ pc'[q] \in Mixed <=> pc[q] \in Mixed
                       /\ pc'[q] = "commit" <=> pc[q] = "commit"
                       /\ pc'[q] = "coins" <=> pc[q] = "coins"
                       /\ pc'[q] = "open" <=> pc[q] = "open"
  BY <1>1, <1>3 DEF IInv, TypeOK, Mixed
<1>7. Toss' /\ CoinsInv' /\ net' = [q \in Party |-> net'[q]]
  <2>1. Commitment' = Commitment /\ Opening' = Opening /\ Mix' = Mix
    BY <1>1 DEF Commitment, Opening, Mix
  <2>2. Toss'
    BY <1>1, <1>6, <2>1 DEF IInv, Toss, Party
  <2>3. CoinsInv'
    BY <1>1, <1>6, <2>1 DEF IInv, CoinsInv
  <2> QED
    BY <1>1, <2>2, <2>3 DEF IInv
<1>8. NoSpuriousAbort'
  BY <1>1, <1>3, <1>6 DEF IInv, NoSpuriousAbort, TypeOK
<1>9. ASSUME NEW q \in Party PROVE TrailInv(q)' /\ PermInv(q)' /\ ChoiceInv(q)'
  <2>1. TrailInv(q)'
    <3>1. Identity' = Identity /\ Mix' = Mix /\ s' = s
      BY <1>1 DEF Identity, Cct, Mix
    <3>2. TrailInv(q)
      BY DEF IInv
    <3>3. trail'[q] = trail[q] /\ ix'[q] = ix[q] /\ indices'[q] = indices[q]
          /\ (pc'[q] \in Mixed <=> pc[q] \in Mixed)
      BY <1>1, <1>6
    <3> QED
      BY <3>1, <3>2, <3>3 DEF TrailInv, SwapAt
  <2>2. PermInv(q)'
    BY <1>1 DEF IInv, PermInv, Cct
  <2>3. ChoiceInv(q)'
    <3>1. /\ AllChecked' = AllChecked
          /\ Cleared(AllChecked, indices[q])' = Cleared(AllChecked, indices[q])
      BY <1>1 DEF AllChecked, Cleared, NumOfEvls, Cct
    <3>2. CASE q # p
      <4>1. all_chks'[q] = all_chks[q] /\ pc'[q] = pc[q]
        BY <1>6, <3>2
      <4>2. \A d \in 0 .. nodes - 1 : Slice(all_chks[q], d)' = Slice(all_chks[q], d)
        BY <1>1, <4>1 DEF Slice, Load
      <4> QED
        BY <1>1, <3>1, <4>1, <4>2 DEF IInv, ChoiceInv
    <3>3. CASE q = p
      BY <1>1, <1>2, <1>3, <3>1, <3>3 DEF ChoiceInv, IInv, TypeOK
    <3> QED
      BY <3>2, <3>3
  <2> QED
    BY <2>1, <2>2, <2>3
<1>10. SameTrail'
  BY <1>1 DEF IInv, SameTrail
<1> QED
  BY <1>5, <1>7, <1>8, <1>9, <1>10 DEF IInv

\* A number divides into as many parts as it is a multiple.
LEMMA DivExact ==
  ASSUME NEW a \in Nat, NEW b \in Nat \ {0}, a % b = 0
  PROVE  a \div b \in Nat /\ a = b * (a \div b)
BY SMT

\* Steps that leave a root's shuffle alone keep what is known of it.
LEMMA TrailFrame ==
  ASSUME IInv, NEW q \in Party, UNCHANGED <<s, flipped, pc, ix, indices, trail>>
  PROVE  TrailInv(q)' /\ PermInv(q)'
<1>1. TrailInv(q) /\ PermInv(q)
  BY DEF IInv
<1>2. Identity' = Identity /\ Cct' = Cct /\ Mix' = Mix
  BY DEF Identity, Cct, Mix
<1>3. \A i \in 1 .. ix[q] - 1 : SwapAt(trail[q][i], Mix, i)' = SwapAt(trail[q][i], Mix, i)
  BY <1>2 DEF SwapAt
<1>4. TrailInv(q)'
  BY <1>1, <1>2, <1>3 DEF TrailInv
<1> QED
  BY <1>1, <1>2, <1>4 DEF PermInv

\* A node's being scattered its slice keeps the invariant.
LEMMA ScatterIInv ==
  ASSUME IInv, NEW p \in Party, NEW d \in 0 .. nodes - 1, Scatter(p, d)
  PROVE  IInv'
<1>1. /\ UNCHANGED <<s, nodes, nonce, flipped, pc, coins, net, comm, indices, ix, all_chks, trail>>
      /\ m_chks' = [m_chks EXCEPT ![p][d] = Slice(all_chks[p], d)]
      /\ pc[p] = "scatter"
      /\ s \in Nat \ {0} /\ nodes \in Nat \ {0} /\ s % nodes = 0
  BY CutAndChooseAssumption DEF Scatter, params, IInv, TypeOK
<1>2. Slice(all_chks[p], d) \in [0 .. Load - 1 -> Bit]
  <2>1. \A j \in 0 .. Load - 1 : d * Load + j \in Cct
    <3>1. Load \in Nat /\ s = nodes * Load
      BY <1>1, DivExact DEF Load
    <3>2. d * Load <= (nodes - 1) * Load
      BY <1>1, <3>1, Z3
    <3> HIDE DEF Load
    <3>3. d * Load \in Nat /\ (nodes - 1) * Load = s - Load
      BY <1>1, <3>1, Z3
    <3> QED
      BY <1>1, <3>1, <3>2, <3>3 DEF Cct
  <2>2. all_chks[p] \in [Cct -> Bit]
    BY DEF IInv, TypeOK
  <2> HIDE DEF Load
  <2> QED
    BY <2>1, <2>2 DEF Slice
<1>3. TypeOK'
  <2>1. m_chks' \in [Party -> [0 .. nodes - 1 -> {Unset} \cup [0 .. Load - 1 -> Bit]]]
    BY <1>1, <1>2 DEF IInv, TypeOK
  <2> QED
    BY <1>1, <2>1 DEF IInv, TypeOK, Cct, Load
<1>4. Toss' /\ CoinsInv' /\ NoSpuriousAbort' /\ net' = [q \in Party |-> net'[q]] /\ SameTrail'
  BY <1>1 DEF IInv, Toss, CoinsInv, NoSpuriousAbort, SameTrail, Commitment, Opening, Mix
<1>5. ASSUME NEW q \in Party PROVE TrailInv(q)' /\ PermInv(q)' /\ ChoiceInv(q)'
  <2>1. TrailInv(q)' /\ PermInv(q)'
    BY <1>1, TrailFrame
  <2>3. ChoiceInv(q)'
    <3>1. /\ AllChecked' = AllChecked
          /\ Cleared(AllChecked, indices[q])' = Cleared(AllChecked, indices[q])
          /\ \A e \in 0 .. nodes - 1 : Slice(all_chks[q], e)' = Slice(all_chks[q], e)
      BY <1>1 DEF AllChecked, Cleared, NumOfEvls, Slice, Load, Cct
    <3>2. \A e \in 0 .. nodes - 1 :
            m_chks'[q][e] = IF q = p /\ e = d THEN Slice(all_chks[p], d) ELSE m_chks[q][e]
      BY <1>1 DEF IInv, TypeOK
    <3> QED
      BY <1>1, <3>1, <3>2 DEF IInv, ChoiceInv
  <2> QED
    BY <2>1, <2>3
<1> QED
  BY <1>3, <1>4, <1>5 DEF IInv

\* Steps that change nothing keep the invariant.
LEMMA StutterIInv ==
  ASSUME IInv, UNCHANGED vars
  PROVE  IInv'
<1>1. UNCHANGED <<s, nodes, nonce, flipped, pc, coins, net, comm, indices, ix, all_chks,
                  m_chks, trail>>
  BY DEF vars, params
<1>2. TypeOK'
  BY <1>1 DEF IInv, TypeOK, Cct, Load
<1>3. Toss' /\ CoinsInv' /\ NoSpuriousAbort' /\ net' = [q \in Party |-> net'[q]] /\ SameTrail'
  BY <1>1 DEF IInv, Toss, CoinsInv, NoSpuriousAbort, SameTrail, Commitment, Opening, Mix
<1>4. ASSUME NEW q \in Party PROVE TrailInv(q)' /\ PermInv(q)' /\ ChoiceInv(q)'
  <2>1. /\ AllChecked' = AllChecked
        /\ Cleared(AllChecked, indices[q])' = Cleared(AllChecked, indices[q])
        /\ \A e \in 0 .. nodes - 1 : Slice(all_chks[q], e)' = Slice(all_chks[q], e)
    BY <1>1 DEF AllChecked, Cleared, NumOfEvls, Slice, Load, Cct
  <2>2. ChoiceInv(q)'
    BY <1>1, <2>1 DEF IInv, ChoiceInv
  <2> QED
    BY <1>1, <2>2, TrailFrame
<1> QED
  BY <1>2, <1>3, <1>4 DEF IInv

\* Every behaviour of the two roots keeps the invariant.
THEOREM Invariance == Spec => []IInv
<1>1. ASSUME IInv, [Next]_vars PROVE IInv'
  <2>1. ASSUME NEW p \in Party, Step(p) PROVE IInv'
    BY <1>1, <2>1, GenTossIInv, EvlTossIInv, ShuffleIInv, ChooseIInv, ScatterIInv DEF Step
  <2>2. CASE UNCHANGED vars
    BY <1>1, <2>2, StutterIInv
  <2> QED
    BY <1>1, <2>1, <2>2 DEF Next, Finished
<1> QED
  BY <1>1, InitIInv, PTL DEF Spec

-----------------------------------------------------------------------------
\* Between one and half of two or more circuits are to be evaluated.
LEMMA NumOfEvlsBounds ==
  ASSUME NEW n \in Nat, n >= 2
  PROVE  NumOfEvls(n) \in 1 .. n /\ 2 * NumOfEvls(n) <= n
<1>1. CASE n \in {2, 3, 4}
  BY <1>1 DEF NumOfEvls
<1>2. CASE n > 4
  BY <1>2 DEF NumOfEvls
<1> QED
  BY <1>1, <1>2

\* As many circuits are evaluated as were taken from the shuffle: a
\* permutation names no circuit twice.
LEMMA EvlsCount ==
  ASSUME IInv, NEW p \in Party, pc[p] = "scatter"
  PROVE  /\ 0 \in Evls(p)
         /\ Cardinality(Evls(p)) = NumOfEvls(s)
         /\ s >= 2
<1> DEFINE n == NumOfEvls(s)
           f == [i \in 0 .. n - 1 |-> indices[p][i]]
<1>1. s \in Nat /\ s >= 2 /\ n \in 1 .. s
  BY NumOfEvlsBounds, CutAndChooseAssumption DEF IInv, TypeOK, ChoiceInv
<1>2. /\ indices[p] \in [Cct -> Cct] /\ indices[p][0] = 0
      /\ \A i, j \in Cct : indices[p][i] = indices[p][j] => i = j
      /\ all_chks[p] = Cleared(AllChecked, indices[p])
  BY DEF IInv, TypeOK, PermInv, ChoiceInv
<1>3. all_chks[p] = [c \in Cct |-> IF \E i \in 0 .. n - 1 : indices[p][i] = c THEN 0 ELSE 1]
  BY <1>2 DEF Cleared, AllChecked
<1> HIDE DEF n
<1>4. Evls(p) = {c \in Cct : \E i \in 0 .. n - 1 : indices[p][i] = c}
  BY <1>3 DEF Evls
<1>5. 0 .. n - 1 \subseteq Cct /\ 0 \in 0 .. n - 1
  BY <1>1 DEF Cct
<1>6. f \in Bijection(0 .. n - 1, Evls(p))
  <2>1. f \in [0 .. n - 1 -> Evls(p)]
    BY <1>2, <1>4, <1>5
  <2>2. \A a, b \in 0 .. n - 1 : f[a] = f[b] => a = b
    BY <1>2, <1>5
  <2>3. \A c \in Evls(p) : \E a \in 0 .. n - 1 : f[a] = c
    BY <1>4
  <2> QED
    BY <2>1, <2>2, <2>3 DEF Bijection, Injection, Surjection, IsInjective
<1>7. IsFiniteSet(0 .. n - 1) /\ Cardinality(0 .. n - 1) = n
  BY <1>1, FS_Interval
<1>8. Cardinality(Evls(p)) = n
  BY <1>6, <1>7, FS_Bijection DEF ExistsBijection
<1> QED
  BY <1>1, <1>2, <1>4, <1>5, <1>8 DEF n

\* The state and what the roots have drawn stay of the right kind: every
\* index swapped, every slice scattered lies within the circuits.
THEOREM TypeCorrect == Spec => []TypeOK
<1>1. IInv => TypeOK
  BY DEF IInv
<1> QED
  BY <1>1, Invariance, PTL

\* Honest roots stop early only when there are too few circuits: the
\* evaluator never rejects the decommitment, whatever the hash.
THEOREM NeverSpuriousAbort == Spec => []NoSpuriousAbort
<1>1. IInv => NoSpuriousAbort
  BY DEF IInv
<1> QED
  BY <1>1, Invariance, PTL

\* Whatever the coins and the generator: circuit 0 is evaluated, exactly
\* num_of_evls circuits are, and at least half are checked.
THEOREM ChoiceIsGood == Spec => []GoodChoice
<1>1. IInv => GoodChoice
  <2> SUFFICES ASSUME IInv, NEW p \in Party, pc[p] = "scatter"
               PROVE  /\ 0 \in Evls(p)
                      /\ Cardinality(Evls(p)) = NumOfEvls(s)
                      /\ 2 * Cardinality(Evls(p)) <= s
    BY DEF GoodChoice
  <2>1. s \in Nat
    BY CutAndChooseAssumption DEF IInv, TypeOK
  <2> QED
    BY <2>1, EvlsCount, NumOfEvlsBounds
<1> QED
  BY <1>1, Invariance, PTL

\* Both clusters check and evaluate the same circuits on every node: the two
\* shuffles have made the same steps from the same seed.
THEOREM ChoicesAgree == Spec => []SameChoice
<1>1. IInv => SameChoice
  <2> SUFFICES ASSUME IInv, NEW d \in 0 .. nodes - 1,
                      m_chks[GEN][d] # Unset, m_chks[EVL][d] # Unset
               PROVE  m_chks[GEN][d] = m_chks[EVL][d]
    BY DEF SameChoice
  <2>1. \A p \in Party : /\ ix[p] = s /\ m_chks[p][d] = Slice(all_chks[p], d)
                         /\ all_chks[p] = Cleared(AllChecked, indices[p])
                         /\ trail[p][s] = indices[p]
    BY DEF IInv, ChoiceInv, TrailInv, Party
  <2>2. s \in Nat /\ s \in 1 .. s
    BY CutAndChooseAssumption DEF IInv, TypeOK
  <2>3. trail[GEN][s] = trail[EVL][s]
    BY <2>1, <2>2 DEF IInv, SameTrail, Party
  <2> QED
    BY <2>1, <2>3 DEF Party
<1> QED
  BY <1>1, Invariance, PTL
=============================================================================
