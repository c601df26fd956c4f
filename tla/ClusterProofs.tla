--------------------------- MODULE ClusterProofs ---------------------------
(***************************************************************************)
(* Proofs about the clusters of processes: that messages and collectives   *)
(* match in Yao, BetterYao and BetterYao2, for every number of nodes, of   *)
(* circuits, inputs and gates, every outcome of cut_and_choose and every   *)
(* capacity of the channels; and that the evaluator's root gathers and     *)
(* picks the right output, for every number of nodes, circuits and         *)
(* outputs.                                                                *)
(***************************************************************************)
EXTENDS Protocols, EvlOutput, FiniteSetTheorems, SequenceTheorems, WellFoundedInduction, TLAPS

-----------------------------------------------------------------------------
(***************************************************************************)
(* Induction and recursion, along the numbers up to a bound.               *)
(***************************************************************************)

\* A set of numbers that is not empty has a least one.
LEMMA Smallest ==
  ASSUME NEW S \in SUBSET Nat, S # {}
  PROVE  \E n \in S : \A m \in S : n <= m
<1> DEFINE I(n) == 0 .. n
           T == {I(n) : n \in S}
<1>1. IsWellFoundedOn(StrictSubsetOrdering(Nat), FiniteSubsetsOf(Nat))
  BY FS_StrictSubsetOrderingWellFounded
<1>2. T \subseteq FiniteSubsetsOf(Nat)
  <2>1. \A n \in S : I(n) \in SUBSET Nat /\ IsFiniteSet(I(n))
    BY FS_Interval
  <2> QED
    BY <2>1 DEF FiniteSubsetsOf
<1>3. T # {}
  OBVIOUS
<1>4. PICK x \in T : \A y \in T : ~ (<<y, x>> \in StrictSubsetOrdering(Nat))
  BY <1>1, <1>2, <1>3, WFMin
<1>5. PICK n \in S : x = I(n)
  OBVIOUS
<1>6. ASSUME NEW m \in S, m < n
      PROVE  FALSE
  <2>1. /\ I(m) \subseteq I(n) /\ I(m) # I(n) /\ I(m) \in T
        /\ I(m) \in SUBSET Nat /\ I(n) \in SUBSET Nat
    BY <1>6
  <2> QED
    BY <2>1, <1>4, <1>5 DEF StrictSubsetOrdering
<1> QED
  BY <1>6

\* Induction up to N, with a set for what is to be shown.
LEMMA UpTo ==
  ASSUME NEW N \in Nat, NEW P, 0 \in P, \A k \in 1 .. N : k - 1 \in P => k \in P
  PROVE  0 .. N \subseteq P
<1> DEFINE Missing == {n \in 0 .. N : n \notin P}
<1>1. Missing \in SUBSET Nat
  OBVIOUS
<1>2. ASSUME Missing # {}
      PROVE  FALSE
  <2>1. PICK n \in Missing : \A m \in Missing : n <= m
    <3> HIDE DEF Missing
    <3> QED
      BY <1>1, <1>2, Smallest
  <2>2. n \in 1 .. N /\ n - 1 \notin Missing
    BY <2>1
  <2> QED
    BY <2>2
<1> QED
  BY <1>2

\* f starts with a and takes the steps up to n.
Takes(f, a, step, n) ==
  f[0] = a /\ \A k \in 1 .. n : f[k] = step[k][f[k - 1]]

\* A function defined step by step along the numbers up to N.
LEMMA Steps ==
  ASSUME NEW S, NEW N \in Nat, NEW a \in S, NEW step \in [1 .. N -> [S -> S]]
  PROVE  \E f \in [0 .. N -> S] : Takes(f, a, step, N)
<1> DEFINE Built == {n \in 0 .. N : \E f \in [0 .. n -> S] : Takes(f, a, step, n)}
<1>1. 0 \in Built
  <2> DEFINE f == [k \in 0 .. 0 |-> a]
  <2>1. f \in [0 .. 0 -> S] /\ Takes(f, a, step, 0)
    BY DEF Takes
  <2>2. \E g \in [0 .. 0 -> S] : Takes(g, a, step, 0)
    BY <2>1
  <2> QED
    BY <2>2
<1>2. ASSUME NEW n \in 1 .. N, n - 1 \in Built
      PROVE  n \in Built
  <2>1. PICK f \in [0 .. n - 1 -> S] : Takes(f, a, step, n - 1)
    BY <1>2
  <2> DEFINE last == step[n][f[n - 1]]
             g == [k \in 0 .. n |-> IF k = n THEN last ELSE f[k]]
  <2>2. n - 1 \in 0 .. n - 1 /\ f[n - 1] \in S
    BY <2>1
  <2>3. last \in S
    BY <2>2
  <2>4. /\ g \in [0 .. n -> S]
        /\ \A k \in 0 .. n - 1 : g[k] = f[k]
        /\ g[n] = last
    <3> HIDE DEF last
    <3> QED
      BY <2>3
  <2>5. \A k \in 1 .. n : k - 1 \in 0 .. n - 1 /\ (k # n => k \in 1 .. n - 1 /\ k \in 0 .. n - 1)
    OBVIOUS
  <2>6. Takes(g, a, step, n)
    <3> HIDE DEF g
    <3> QED
      BY <2>1, <2>4, <2>5 DEF Takes
  <2>7. \E h \in [0 .. n -> S] : Takes(h, a, step, n)
    <3> HIDE DEF g
    <3> QED
      BY <2>4, <2>6
  <2> QED
    BY <2>7
<1>3. 0 .. N \subseteq Built
  <2> HIDE DEF Built
  <2> QED
    BY <1>1, <1>2, UpTo
<1> QED
  BY <1>3

\* There is only one.
LEMMA SameSteps ==
  ASSUME NEW N \in Nat, NEW a, NEW step, NEW f, NEW g,
         Takes(f, a, step, N), Takes(g, a, step, N)
  PROVE  \A k \in 0 .. N : f[k] = g[k]
<1> DEFINE Same == {k \in 0 .. N : f[k] = g[k]}
<1>1. 0 \in Same
  BY DEF Takes
<1>2. \A k \in 1 .. N : k - 1 \in Same => k \in Same
  BY DEF Takes
<1>3. 0 .. N \subseteq Same
  <2> HIDE DEF Same
  <2> QED
    BY <1>1, <1>2, UpTo
<1> QED
  BY <1>3

-----------------------------------------------------------------------------
(***************************************************************************)
(* What a process sends, receives and enters: a schedule without the       *)
(* operations of other kinds.                                              *)
(***************************************************************************)
Names == {"claw_free", "crs", "gr_hr", "r", "X_Y", "comm", "coins", "open", "chks", "M0", "m0", "m_m0",
          "evl_out", "gen_out", "M", "masked", "mask", "rnd", "keys", "coms", "gate", "verify", "report",
          "ob_transfer", "cut_check", "chk_evl_out", "chk_gen_out", "pre_cir_evl", "circuit_evl",
          "pre_cir_gen", "circuit_gen", "const_check", "cut_n_chk2"}
Atom == Names \cup Int
What == Seq(Atom)

\* The operations of a schedule.
Ops == [op : {"send", "recv"}, peer : Role \X Int, what : What]
       \cup [op : {"fromroot", "toroot"}, what : What]

\* What a schedule sends to q, receives from q, and enters.
Sends(q) == {o \in Ops : o.op = "send" /\ o.peer = q}
Recvs(q) == {o \in Ops : o.op = "recv" /\ o.peer = q}
Collectives == {o \in Ops : o.op \in {"fromroot", "toroot"}}

\* The contents of the operations of s that are in F, operation by operation.
Picking(s, F) ==
  [k \in 1 .. Len(s) |-> [m \in Seq(What) |-> IF s[k] \in F THEN Append(m, s[k].what) ELSE m]]
Picks(s, F) == CHOOSE f \in [0 .. Len(s) -> Seq(What)] : Takes(f, << >>, Picking(s, F), Len(s))
Pick(s, F) == Picks(s, F)[Len(s)]

\* Every operation has a content.
LEMMA OpsWhat == \A o \in Ops : o.what \in What
BY DEF Ops

\* Pick goes through a schedule operation by operation.
LEMMA PicksTake ==
  ASSUME NEW s \in Seq(Ops), NEW F
  PROVE  /\ Picks(s, F) \in [0 .. Len(s) -> Seq(What)]
         /\ Picks(s, F)[0] = << >>
         /\ \A k \in 1 .. Len(s) :
              Picks(s, F)[k] = IF s[k] \in F THEN Append(Picks(s, F)[k - 1], s[k].what)
                                             ELSE Picks(s, F)[k - 1]
         /\ Pick(s, F) \in Seq(What)
<1> DEFINE n == Len(s)
           f == Picks(s, F)
           step == Picking(s, F)
<1>1. n \in Nat /\ \A k \in 1 .. n : s[k] \in Ops /\ s[k].what \in What
  BY OpsWhat
<1>2. step \in [1 .. n -> [Seq(What) -> Seq(What)]]
  BY <1>1 DEF Picking
<1>3. \E g \in [0 .. n -> Seq(What)] : Takes(g, << >>, step, n)
  <2> HIDE DEF step, n
  <2>1. << >> \in Seq(What)
    OBVIOUS
  <2> QED
    BY <1>1, <1>2, <2>1, Steps
<1>4. f \in [0 .. n -> Seq(What)] /\ Takes(f, << >>, step, n)
  BY <1>3 DEF Picks
<1> HIDE DEF f
<1>5. \A k \in 1 .. n : f[k] = IF s[k] \in F THEN Append(f[k - 1], s[k].what) ELSE f[k - 1]
  <2> SUFFICES ASSUME NEW k \in 1 .. n
               PROVE  f[k] = IF s[k] \in F THEN Append(f[k - 1], s[k].what) ELSE f[k - 1]
    OBVIOUS
  <2>1. f[k - 1] \in Seq(What) /\ f[k] = step[k][f[k - 1]]
    BY <1>1, <1>4 DEF Takes
  <2> QED
    BY <2>1 DEF Picking
<1>6. f[0] = << >> /\ f[n] \in Seq(What)
  BY <1>1, <1>4 DEF Takes
<1> QED
  BY <1>4, <1>5, <1>6 DEF f, Pick

\* Of nothing.
LEMMA PickNone ==
  ASSUME NEW F
  PROVE  Pick(<< >>, F) = << >>
<1>1. << >> \in Seq(Ops) /\ Len(<< >>) = 0
  OBVIOUS
<1>2. Picks(<< >>, F)[0] = << >>
  BY <1>1, PicksTake
<1> QED
  BY <1>1, <1>2 DEF Pick

\* Of one operation.
LEMMA PickOne ==
  ASSUME NEW F, NEW o \in Ops
  PROVE  /\ o \in F => Pick(<<o>>, F) = <<o.what>>
         /\ o \notin F => Pick(<<o>>, F) = << >>
<1> DEFINE s == <<o>>
<1>1. s \in Seq(Ops) /\ Len(s) = 1 /\ s[1] = o
  OBVIOUS
<1> HIDE DEF s
<1>2. 1 \in 1 .. Len(s) /\ 1 - 1 = 0
  BY <1>1
<1>3. Picks(s, F)[0] = << >> /\ Picks(s, F)[1] = IF o \in F THEN Append(<< >>, o.what) ELSE << >>
  BY <1>1, <1>2, PicksTake
<1> QED
  BY <1>1, <1>3 DEF Pick, s

\* Of nothing that is asked for.
LEMMA PickNothing ==
  ASSUME NEW s \in Seq(Ops), NEW F, \A k \in 1 .. Len(s) : s[k] \notin F
  PROVE  Pick(s, F) = << >>
<1> DEFINE P == {k \in 0 .. Len(s) : Picks(s, F)[k] = << >>}
<1>1. 0 \in P
  BY PicksTake
<1>2. \A k \in 1 .. Len(s) : k - 1 \in P => k \in P
  BY PicksTake
<1>3. 0 .. Len(s) \subseteq P
  <2> HIDE DEF P
  <2>1. Len(s) \in Nat
    OBVIOUS
  <2> QED
    BY <1>1, <1>2, <2>1, UpTo
<1> QED
  BY <1>3 DEF Pick

\* Of one schedule and then another.
LEMMA PickConcat ==
  ASSUME NEW s \in Seq(Ops), NEW t \in Seq(Ops), NEW F
  PROVE  Pick(s \o t, F) = Pick(s, F) \o Pick(t, F)
<1> DEFINE c == s \o t
           n == Len(s)
           m == Len(t)
           fs == Picks(s, F)
           ft == Picks(t, F)
           fc == Picks(c, F)
<1>1. /\ n \in Nat /\ m \in Nat /\ c \in Seq(Ops) /\ Len(c) = n + m
      /\ \A k \in 1 .. n : c[k] = s[k]
      /\ \A k \in 1 .. m : c[n + k] = t[k]
  OBVIOUS
<1>2. /\ fs \in [0 .. n -> Seq(What)] /\ ft \in [0 .. m -> Seq(What)]
      /\ fs[0] = << >> /\ ft[0] = << >> /\ fc[0] = << >>
      /\ \A k \in 1 .. n : fs[k] = IF s[k] \in F THEN Append(fs[k - 1], s[k].what) ELSE fs[k - 1]
      /\ \A k \in 1 .. m : ft[k] = IF t[k] \in F THEN Append(ft[k - 1], t[k].what) ELSE ft[k - 1]
      /\ \A k \in 1 .. n + m :
            fc[k] = IF c[k] \in F THEN Append(fc[k - 1], c[k].what) ELSE fc[k - 1]
  <2> HIDE DEF c
  <2>1. /\ fc[0] = << >>
        /\ \A k \in 1 .. Len(c) :
              fc[k] = IF c[k] \in F THEN Append(fc[k - 1], c[k].what) ELSE fc[k - 1]
    <3>1. c \in Seq(Ops)
      BY <1>1
    <3> QED
      BY <3>1, PicksTake
  <2>2. /\ fs \in [0 .. n -> Seq(What)] /\ fs[0] = << >>
        /\ \A k \in 1 .. n : fs[k] = IF s[k] \in F THEN Append(fs[k - 1], s[k].what) ELSE fs[k - 1]
    BY PicksTake
  <2>3. /\ ft \in [0 .. m -> Seq(What)] /\ ft[0] = << >>
        /\ \A k \in 1 .. m : ft[k] = IF t[k] \in F THEN Append(ft[k - 1], t[k].what) ELSE ft[k - 1]
    BY PicksTake
  <2> QED
    BY <1>1, <2>1, <2>2, <2>3
<1>3. \A k \in 1 .. m : t[k].what \in What
  BY OpsWhat
<1> HIDE DEF c, n, m, fs, ft, fc
<1>4. 0 .. n \subseteq {k \in 0 .. n : fc[k] = fs[k]}
  <2> DEFINE P == {k \in 0 .. n : fc[k] = fs[k]}
  <2>1. 0 \in P
    BY <1>1, <1>2
  <2>2. ASSUME NEW k \in 1 .. n, k - 1 \in P
        PROVE  k \in P
    <3>1. k \in 1 .. n + m /\ fc[k - 1] = fs[k - 1] /\ c[k] = s[k]
      BY <1>1, <2>2
    <3> QED
      BY <1>2, <3>1
  <2>3. 0 .. n \subseteq P
    <3> HIDE DEF P
    <3> QED
      BY <1>1, <2>1, <2>2, UpTo
  <2> QED
    BY <2>3
<1>5. 0 .. m \subseteq {k \in 0 .. m : fc[n + k] = fs[n] \o ft[k]}
  <2> DEFINE P == {k \in 0 .. m : fc[n + k] = fs[n] \o ft[k]}
  <2>0. fs[n] \in Seq(What) /\ fc[n] = fs[n] /\ fs[n] \o << >> = fs[n]
    <3>1. n \in 0 .. n
      BY <1>1
    <3> QED
      BY <1>2, <1>4, <3>1
  <2>1. 0 \in P
    <3>1. 0 \in 0 .. m /\ n + 0 = n
      BY <1>1
    <3>2. fc[n + 0] = fs[n] \o ft[0]
      BY <1>2, <2>0, <3>1
    <3> QED
      BY <3>1, <3>2
  <2>2. ASSUME NEW k \in 1 .. m, k - 1 \in P
        PROVE  k \in P
    <3>1. /\ n + k \in 1 .. n + m /\ (n + k) - 1 = n + (k - 1) /\ c[n + k] = t[k]
          /\ k - 1 \in 0 .. m
      BY <1>1
    <3>2. fc[n + (k - 1)] = fs[n] \o ft[k - 1] /\ ft[k - 1] \in Seq(What)
      BY <1>2, <2>2, <3>1
    <3> DEFINE a == fs[n]
               b == ft[k - 1]
    <3>3. fc[n + k] = IF t[k] \in F THEN Append(a \o b, t[k].what) ELSE a \o b
      BY <1>2, <3>1, <3>2
    <3>4. ft[k] = IF t[k] \in F THEN Append(b, t[k].what) ELSE b
      BY <1>2
    <3>5. Append(a \o b, t[k].what) = a \o Append(b, t[k].what)
      <4>1. a \in Seq(What) /\ b \in Seq(What) /\ t[k].what \in What
        BY <1>3, <2>0, <3>2
      <4> HIDE DEF a, b
      <4>2. \A x \in What : Append(a \o b, x) = a \o Append(b, x)
        <5> SUFFICES ASSUME NEW x \in What PROVE Append(a \o b, x) = a \o Append(b, x)
          OBVIOUS
        <5>1. Append(a \o b, x) = (a \o b) \o <<x>> /\ Append(b, x) = b \o <<x>>
          BY <4>1, AppendIsConcat, ConcatProperties
        <5>2. <<x>> \in Seq(What)
          OBVIOUS
        <5> QED
          BY <4>1, <5>1, <5>2, ConcatAssociative
      <4> QED
        BY <4>1, <4>2
    <3>6. fc[n + k] = a \o ft[k]
      <4> HIDE DEF a, b
      <4> QED
        BY <3>3, <3>4, <3>5
    <3>7. k \in 0 .. m
      BY <1>1
    <3> QED
      BY <3>6, <3>7
  <2>3. 0 .. m \subseteq P
    <3> HIDE DEF P
    <3> QED
      BY <1>1, <2>1, <2>2, UpTo
  <2> QED
    BY <2>3
<1>6. fc[n + m] = fs[n] \o ft[m]
  <2>1. m \in 0 .. m
    BY <1>1
  <2> QED
    BY <1>5, <2>1
<1> QED
  BY <1>1, <1>6 DEF Pick, c, n, m, fs, ft, fc

\* Of a schedule that begins with an operation.
LEMMA PickHead ==
  ASSUME NEW s \in Seq(Ops), s # << >>
  PROVE  /\ Head(s) \in Ops /\ Tail(s) \in Seq(Ops)
         /\ \A F : Pick(s, F) \in Seq(What) /\ Pick(Tail(s), F) \in Seq(What)
         /\ \A F : Head(s) \in F => Pick(s, F) = <<Head(s).what>> \o Pick(Tail(s), F)
         /\ \A F : Head(s) \notin F => Pick(s, F) = Pick(Tail(s), F)
<1> DEFINE o == Head(s)
           t == Tail(s)
<1>1. o \in Ops /\ t \in Seq(Ops) /\ <<o>> \in Seq(Ops) /\ s = <<o>> \o t
  <2>1. o \in Ops /\ t \in Seq(Ops)
    BY HeadTailProperties
  <2> HIDE DEF o, t
  <2>2. <<o>> \in Seq(Ops)
    BY <2>1
  <2>3. s = <<o>> \o t
    <3>1. s = <<Head(s)>> \o Tail(s)
      OBVIOUS
    <3> QED
      BY <3>1 DEF o, t
  <2> QED
    BY <2>1, <2>2, <2>3
<1> HIDE DEF o, t
<1>2. \A F : Pick(s, F) \in Seq(What) /\ Pick(t, F) \in Seq(What)
  BY <1>1, PicksTake
<1>3. \A F : Pick(s, F) = Pick(<<o>>, F) \o Pick(t, F)
  BY <1>1, PickConcat
<1>4. \A F : /\ o \in F => Pick(<<o>>, F) = <<o.what>>
             /\ o \notin F => Pick(<<o>>, F) = << >>
  BY <1>1, PickOne
<1>5. \A F : << >> \o Pick(t, F) = Pick(t, F)
  BY <1>2
<1> QED
  BY <1>1, <1>2, <1>3, <1>4, <1>5 DEF o, t

\* Which kind an operation is of.
LEMMA Kinds ==
  ASSUME NEW o \in Ops
  PROVE  /\ o.op \in {"send", "recv", "fromroot", "toroot"}
         /\ o.op = "send" => /\ \A q : o \in Sends(q) <=> q = o.peer
                             /\ \A q : o \notin Recvs(q)
                             /\ o \notin Collectives
         /\ o.op = "recv" => /\ \A q : o \in Recvs(q) <=> q = o.peer
                             /\ \A q : o \notin Sends(q)
                             /\ o \notin Collectives
         /\ o.op \in {"fromroot", "toroot"} => /\ o \in Collectives
                                               /\ \A q : o \notin Sends(q) /\ o \notin Recvs(q)
<1>1. o.op \in {"send", "recv", "fromroot", "toroot"}
  BY DEF Ops
<1> QED
  BY <1>1 DEF Sends, Recvs, Collectives

-----------------------------------------------------------------------------
(***************************************************************************)
(* The machine, for schedules that match.                                  *)
(***************************************************************************)

\* What is under way and what is still to be sent is what is still to be
\* received; unless nothing is ever sent, or nothing received.
Match(c, s, r) == \/ c \o s = r
                  \/ c = << >> /\ s = << >>
                  \/ r = << >>

\* What p sends to q is what q receives from p.
Paired(p, q) == Match(chan[<<p, q>>], Pick(todo[p], Sends(q)), Pick(todo[q], Recvs(p)))

\* The collectives entered, and those still to be, are the root's.
InStep(p) == met[p] \o Pick(todo[p], Collectives) = Pick(Prog(setup, p[1], 0), Collectives)

\* The inductive invariant.
ProtocolInv ==
  /\ setup \in Setups
  /\ todo \in [Proc -> Seq(Ops)]
  /\ chan \in [Proc \X Proc -> Seq(What)]
  /\ met \in [Proc -> Seq(What)]
  /\ \A p \in Proc : ~ Is(p) => todo[p] = << >> /\ met[p] = << >>
  /\ \A p, q \in Proc : Is(p) /\ Is(q) => Paired(p, q)
  /\ \A p \in Proc : Is(p) => InStep(p)

\* A message is sent.
LEMMA MatchSend ==
  ASSUME NEW c \in Seq(What), NEW w \in What, NEW s \in Seq(What), NEW r,
         Match(c, <<w>> \o s, r)
  PROVE  Match(Append(c, w), s, r)
<1>0. <<w>> \in Seq(What)
  OBVIOUS
<1>1. CASE c \o (<<w>> \o s) = r
  <2>1. Append(c, w) = c \o <<w>>
    BY AppendIsConcat
  <2>2. (c \o <<w>>) \o s = c \o (<<w>> \o s)
    BY <1>0, ConcatAssociative
  <2> QED
    BY <1>1, <2>1, <2>2 DEF Match
<1>2. <<w>> \o s # << >>
  <2>1. Len(<<w>> \o s) = 1 + Len(s) /\ Len(s) \in Nat
    OBVIOUS
  <2>2. Len(<<w>> \o s) # 0
    BY <2>1
  <2> QED
    BY <2>2
<1> QED
  BY <1>1, <1>2 DEF Match

\* A message is received: it is the one that is expected.
LEMMA MatchRecv ==
  ASSUME NEW c \in Seq(What), NEW w \in What, NEW s \in Seq(What), NEW r \in Seq(What),
         Match(c, s, <<w>> \o r), c # << >>
  PROVE  Head(c) = w /\ Match(Tail(c), s, r)
<1>1. <<w>> \in Seq(What)
  OBVIOUS
<1>2. <<w>> \o r # << >>
  <2>1. Len(<<w>> \o r) = 1 + Len(r) /\ Len(r) \in Nat
    OBVIOUS
  <2>2. Len(<<w>> \o r) # 0
    BY <2>1
  <2> QED
    BY <2>2
<1>3. c \o s = <<w>> \o r
  BY <1>2 DEF Match
<1> DEFINE h == Head(c)
           t == Tail(c)
<1>4. h \in What /\ t \in Seq(What) /\ c = <<h>> \o t
  <2>1. h \in What /\ t \in Seq(What)
    BY HeadTailProperties
  <2>2. c = <<Head(c)>> \o Tail(c)
    OBVIOUS
  <2> QED
    BY <2>1, <2>2
<1> HIDE DEF h, t
<1>5. <<h>> \o (t \o s) = <<w>> \o r
  <2>1. <<h>> \in Seq(What)
    BY <1>4
  <2>2. (<<h>> \o t) \o s = <<h>> \o (t \o s)
    BY <1>4, <2>1, ConcatAssociative
  <2> QED
    BY <1>3, <1>4, <2>2
<1>6. h = w
  <2>1. (<<h>> \o (t \o s))[1] = h
    BY <1>4
  <2>2. (<<w>> \o r)[1] = w
    OBVIOUS
  <2> QED
    BY <1>5, <2>1, <2>2
<1>7. t \o s = r
  <2>1. t \o s \in Seq(What)
    BY <1>4
  <2> QED
    BY <1>1, <1>5, <1>6, <2>1, ConcatSimplifications
<1> QED
  BY <1>6, <1>7 DEF Match, h, t

\* What the machine asks of the schedules of a run.
GoodPrograms(u) ==
  \A p, q \in Role \X (0 .. u.node_amnt - 1) :
    /\ Prog(u, p[1], p[2]) \in Seq(Ops)
    /\ Match(<< >>, Pick(Prog(u, p[1], p[2]), Sends(q)), Pick(Prog(u, q[1], q[2]), Recvs(p)))
    /\ Pick(Prog(u, p[1], p[2]), Collectives) = Pick(Prog(u, p[1], 0), Collectives)

\* It holds at first, for schedules that match.
LEMMA InitInv ==
  ASSUME Init, GoodPrograms(setup)
  PROVE  ProtocolInv
<1>1. /\ setup \in Setups /\ setup.node_amnt \in Nat
      /\ todo = [p \in Proc |-> IF Is(p) THEN Prog(setup, p[1], p[2]) ELSE << >>]
      /\ chan = [e \in Proc \X Proc |-> << >>]
      /\ met = [p \in Proc |-> << >>]
  BY ProtocolAssumption DEF Init
<1>2. \A p \in Proc : Is(p) => /\ p \in Role \X (0 .. setup.node_amnt - 1)
                              /\ todo[p] = Prog(setup, p[1], p[2])
  <2> SUFFICES ASSUME NEW p \in Proc, Is(p)
               PROVE  /\ p \in Role \X (0 .. setup.node_amnt - 1)
                      /\ todo[p] = Prog(setup, p[1], p[2])
    OBVIOUS
  <2>1. todo[p] = Prog(setup, p[1], p[2])
    BY <1>1
  <2>2. p[1] \in Role /\ p[2] \in 0 .. setup.node_amnt - 1 /\ p = <<p[1], p[2]>>
    BY <1>1, ProtocolAssumption DEF Is, Proc
  <2> QED
    BY <2>1, <2>2
<1>3. << >> \in Seq(Ops) /\ << >> \in Seq(What)
  OBVIOUS
<1>4. todo \in [Proc -> Seq(Ops)]
  BY <1>1, <1>2, <1>3 DEF GoodPrograms
<1>5. chan \in [Proc \X Proc -> Seq(What)] /\ met \in [Proc -> Seq(What)]
  BY <1>1, <1>3
<1>6. \A p \in Proc : ~ Is(p) => todo[p] = << >> /\ met[p] = << >>
  BY <1>1
<1>7. ASSUME NEW p \in Proc, NEW q \in Proc, Is(p), Is(q)
      PROVE  Paired(p, q)
  <2>1. chan[<<p, q>>] = << >>
    BY <1>1
  <2>2. Match(<< >>, Pick(todo[p], Sends(q)), Pick(todo[q], Recvs(p)))
    BY <1>2, <1>7 DEF GoodPrograms
  <2> QED
    BY <2>1, <2>2 DEF Paired
<1>8. ASSUME NEW p \in Proc, Is(p)
      PROVE  InStep(p)
  <2>1. met[p] = << >> /\ todo[p] \in Seq(Ops)
    BY <1>1, <1>4
  <2>2. Pick(todo[p], Collectives) = Pick(Prog(setup, p[1], 0), Collectives)
    BY <1>2, <1>8 DEF GoodPrograms
  <2>3. Pick(todo[p], Collectives) \in Seq(What)
    BY <2>1, PicksTake
  <2>4. << >> \o Pick(todo[p], Collectives) = Pick(todo[p], Collectives)
    BY <2>3
  <2> QED
    BY <2>1, <2>2, <2>4 DEF InStep
<1> QED
  BY <1>1, <1>4, <1>5, <1>6, <1>7, <1>8 DEF ProtocolInv

\* What an operation that is done leaves behind.
LEMMA GoesOn ==
  ASSUME ProtocolInv, NEW p \in Proc, ~ Done(p), Goes(p)
  PROVE  /\ setup' = setup /\ \A q \in Proc : Is(q)' <=> Is(q)
         /\ Is(p) /\ todo[p] \in Seq(Ops) /\ Op(p) \in Ops /\ Op(p).what \in What
         /\ todo' \in [Proc -> Seq(Ops)] /\ todo'[p] = Tail(todo[p])
         /\ \A q \in Proc \ {p} : todo'[q] = todo[q]
         /\ \A F : Pick(todo[p], F) \in Seq(What) /\ Pick(todo'[p], F) \in Seq(What)
         /\ \A F : Op(p) \in F => Pick(todo[p], F) = <<Op(p).what>> \o Pick(todo'[p], F)
         /\ \A F : Op(p) \notin F => Pick(todo'[p], F) = Pick(todo[p], F)
<1>1. /\ setup' = setup /\ todo \in [Proc -> Seq(Ops)] /\ todo[p] # << >> /\ Is(p)
      /\ todo' = [todo EXCEPT ![p] = Tail(@)]
  BY DEF ProtocolInv, Done, Goes
<1>2. \A q \in Proc : Is(q)' <=> Is(q)
  BY <1>1 DEF Is
<1>3. /\ Op(p) \in Ops /\ Tail(todo[p]) \in Seq(Ops)
      /\ \A F : Pick(todo[p], F) \in Seq(What) /\ Pick(Tail(todo[p]), F) \in Seq(What)
      /\ \A F : Op(p) \in F => Pick(todo[p], F) = <<Op(p).what>> \o Pick(Tail(todo[p]), F)
      /\ \A F : Op(p) \notin F => Pick(todo[p], F) = Pick(Tail(todo[p]), F)
  BY <1>1, PickHead DEF Op
<1>4. /\ todo' \in [Proc -> Seq(Ops)] /\ todo'[p] = Tail(todo[p])
      /\ \A q \in Proc \ {p} : todo'[q] = todo[q]
  BY <1>1, <1>3
<1> QED
  BY <1>1, <1>2, <1>3, <1>4, OpsWhat

\* A send keeps it.
LEMMA SendKept ==
  ASSUME ProtocolInv, NEW p \in Proc, Send(p)
  PROVE  ProtocolInv'
<1> DEFINE o == Op(p)
           q == Op(p).peer
           w == Op(p).what
<1>1. /\ ~ Done(p) /\ Goes(p) /\ o.op = "send" /\ met' = met /\ q \in Proc /\ Is(q)
      /\ chan' = [chan EXCEPT ![<<p, q>>] = Append(@, w)]
  BY DEF Send, At, Is
<1>2. /\ setup' = setup /\ \A k \in Proc : Is(k)' <=> Is(k)
      /\ Is(p) /\ todo[p] \in Seq(Ops) /\ o \in Ops /\ w \in What
      /\ todo' \in [Proc -> Seq(Ops)]
      /\ \A k \in Proc \ {p} : todo'[k] = todo[k]
      /\ \A F : Pick(todo[p], F) \in Seq(What) /\ Pick(todo'[p], F) \in Seq(What)
      /\ \A F : o \in F => Pick(todo[p], F) = <<w>> \o Pick(todo'[p], F)
      /\ \A F : o \notin F => Pick(todo'[p], F) = Pick(todo[p], F)
  BY <1>1, GoesOn
<1>3. /\ \A k : o \in Sends(k) <=> k = q
      /\ \A k : o \notin Recvs(k)
      /\ o \notin Collectives
  BY <1>1, <1>2, Kinds
<1> HIDE DEF o, q, w
<1>4. /\ chan \in [Proc \X Proc -> Seq(What)] /\ chan' \in [Proc \X Proc -> Seq(What)]
      /\ chan'[<<p, q>>] = Append(chan[<<p, q>>], w)
      /\ \A e \in Proc \X Proc : e # <<p, q>> => chan'[e] = chan[e]
  <2>1. chan \in [Proc \X Proc -> Seq(What)]
    BY DEF ProtocolInv
  <2> QED
    BY <1>1, <1>2, <2>1
<1>5. ASSUME NEW a \in Proc, NEW b \in Proc, Is(a)', Is(b)'
      PROVE  Paired(a, b)'
  <2>1. Paired(a, b)
    BY <1>2, <1>5 DEF ProtocolInv
  <2>2. CASE a = p /\ b = q
    <3>1. Pick(todo[a], Sends(b)) = <<w>> \o Pick(todo'[a], Sends(b))
      BY <1>2, <1>3, <2>2
    <3>2. Pick(todo'[b], Recvs(a)) = Pick(todo[b], Recvs(a))
      BY <1>2, <1>3
    <3>3. Match(chan[<<a, b>>], <<w>> \o Pick(todo'[a], Sends(b)), Pick(todo'[b], Recvs(a)))
      BY <2>1, <3>1, <3>2 DEF Paired
    <3>4. chan[<<a, b>>] \in Seq(What) /\ Pick(todo'[a], Sends(b)) \in Seq(What)
      BY <1>2, <1>4, <2>2
    <3>5. Match(Append(chan[<<a, b>>], w), Pick(todo'[a], Sends(b)), Pick(todo'[b], Recvs(a)))
      BY <1>2, <3>3, <3>4, MatchSend
    <3> QED
      BY <1>4, <2>2, <3>5 DEF Paired, Sends, Recvs
  <2>3. CASE ~ (a = p /\ b = q)
    <3>1. /\ Pick(todo'[a], Sends(b)) = Pick(todo[a], Sends(b))
          /\ Pick(todo'[b], Recvs(a)) = Pick(todo[b], Recvs(a))
      <4>1. a = p => o \notin Sends(b)
        BY <1>3, <2>3
      <4>2. Pick(todo'[a], Sends(b)) = Pick(todo[a], Sends(b))
        BY <1>2, <4>1
      <4>3. Pick(todo'[b], Recvs(a)) = Pick(todo[b], Recvs(a))
        BY <1>2, <1>3
      <4> QED
        BY <4>2, <4>3
    <3>2. chan'[<<a, b>>] = chan[<<a, b>>]
      BY <1>4, <2>3
    <3> QED
      BY <2>1, <3>1, <3>2 DEF Paired, Sends, Recvs
  <2> QED
    BY <2>2, <2>3
<1>6. ASSUME NEW a \in Proc, Is(a)'
      PROVE  InStep(a)'
  <2>1. Pick(todo'[a], Collectives) = Pick(todo[a], Collectives)
    BY <1>2, <1>3
  <2> QED
    BY <1>1, <1>2, <1>6, <2>1 DEF ProtocolInv, InStep
<1>7. \A a \in Proc : ~ Is(a)' => todo'[a] = << >> /\ met'[a] = << >>
  BY <1>1, <1>2 DEF ProtocolInv
<1> QED
  BY <1>1, <1>2, <1>4, <1>5, <1>6, <1>7 DEF ProtocolInv

\* So does a receive,
LEMMA RecvKept ==
  ASSUME ProtocolInv, NEW p \in Proc, Recv(p)
  PROVE  ProtocolInv'
<1> DEFINE o == Op(p)
           q == Op(p).peer
           w == Op(p).what
<1>1. /\ ~ Done(p) /\ Goes(p) /\ o.op = "recv" /\ met' = met /\ q \in Proc /\ Is(q)
      /\ chan[<<q, p>>] # << >>
      /\ chan' = [chan EXCEPT ![<<q, p>>] = Tail(@)]
  BY DEF Recv, At, Is
<1>2. /\ setup' = setup /\ \A k \in Proc : Is(k)' <=> Is(k)
      /\ Is(p) /\ todo[p] \in Seq(Ops) /\ o \in Ops /\ w \in What
      /\ todo' \in [Proc -> Seq(Ops)]
      /\ \A k \in Proc \ {p} : todo'[k] = todo[k]
      /\ \A F : Pick(todo[p], F) \in Seq(What) /\ Pick(todo'[p], F) \in Seq(What)
      /\ \A F : o \in F => Pick(todo[p], F) = <<w>> \o Pick(todo'[p], F)
      /\ \A F : o \notin F => Pick(todo'[p], F) = Pick(todo[p], F)
  BY <1>1, GoesOn
<1>3. /\ \A k : o \in Recvs(k) <=> k = q
      /\ \A k : o \notin Sends(k)
      /\ o \notin Collectives
  BY <1>1, <1>2, Kinds
<1> HIDE DEF o, q, w
<1>4. /\ chan \in [Proc \X Proc -> Seq(What)] /\ chan' \in [Proc \X Proc -> Seq(What)]
      /\ chan'[<<q, p>>] = Tail(chan[<<q, p>>])
      /\ \A e \in Proc \X Proc : e # <<q, p>> => chan'[e] = chan[e]
  <2>1. chan \in [Proc \X Proc -> Seq(What)] /\ chan[<<q, p>>] \in Seq(What)
    BY <1>1 DEF ProtocolInv
  <2>2. Tail(chan[<<q, p>>]) \in Seq(What)
    BY <1>1, <2>1, HeadTailProperties
  <2> QED
    BY <1>1, <2>1, <2>2
<1>5. ASSUME NEW a \in Proc, NEW b \in Proc, Is(a)', Is(b)'
      PROVE  Paired(a, b)'
  <2>1. Paired(a, b)
    BY <1>2, <1>5 DEF ProtocolInv
  <2>2. CASE a = q /\ b = p
    <3>1. Pick(todo[b], Recvs(a)) = <<w>> \o Pick(todo'[b], Recvs(a))
      BY <1>2, <1>3, <2>2
    <3>2. Pick(todo'[a], Sends(b)) = Pick(todo[a], Sends(b))
      BY <1>2, <1>3
    <3>3. Match(chan[<<a, b>>], Pick(todo'[a], Sends(b)), <<w>> \o Pick(todo'[b], Recvs(a)))
      BY <2>1, <3>1, <3>2 DEF Paired
    <3>4. /\ chan[<<a, b>>] \in Seq(What) /\ chan[<<a, b>>] # << >>
          /\ Pick(todo'[b], Recvs(a)) \in Seq(What) /\ Pick(todo'[a], Sends(b)) \in Seq(What)
      BY <1>1, <1>2, <1>4, <2>2, PicksTake
    <3>5. Match(Tail(chan[<<a, b>>]), Pick(todo'[a], Sends(b)), Pick(todo'[b], Recvs(a)))
      BY <1>2, <3>3, <3>4, MatchRecv
    <3> QED
      BY <1>4, <2>2, <3>5 DEF Paired, Sends, Recvs
  <2>3. CASE ~ (a = q /\ b = p)
    <3>1. b = p => o \notin Recvs(a)
      BY <1>3, <2>3
    <3>2. Pick(todo'[b], Recvs(a)) = Pick(todo[b], Recvs(a))
      BY <1>2, <3>1
    <3>3. Pick(todo'[a], Sends(b)) = Pick(todo[a], Sends(b))
      BY <1>2, <1>3
    <3>4. chan'[<<a, b>>] = chan[<<a, b>>]
      BY <1>4, <2>3
    <3> QED
      BY <2>1, <3>2, <3>3, <3>4 DEF Paired, Sends, Recvs
  <2> QED
    BY <2>2, <2>3
<1>6. ASSUME NEW a \in Proc, Is(a)'
      PROVE  InStep(a)'
  <2>1. Pick(todo'[a], Collectives) = Pick(todo[a], Collectives)
    BY <1>2, <1>3
  <2> QED
    BY <1>1, <1>2, <1>6, <2>1 DEF ProtocolInv, InStep
<1>7. \A a \in Proc : ~ Is(a)' => todo'[a] = << >> /\ met'[a] = << >>
  BY <1>1, <1>2 DEF ProtocolInv
<1> QED
  BY <1>1, <1>2, <1>4, <1>5, <1>6, <1>7 DEF ProtocolInv

\* and a collective.
LEMMA EnterKept ==
  ASSUME ProtocolInv, NEW p \in Proc, FromRoot(p) \/ ToRoot(p)
  PROVE  ProtocolInv'
<1> DEFINE o == Op(p)
           w == Op(p).what
<1>1. /\ ~ Done(p) /\ Goes(p) /\ o.op \in {"fromroot", "toroot"} /\ chan' = chan
      /\ met' = [met EXCEPT ![p] = Append(@, w)]
  BY DEF FromRoot, ToRoot, At, Enter
<1>2. /\ setup' = setup /\ \A k \in Proc : Is(k)' <=> Is(k)
      /\ Is(p) /\ todo[p] \in Seq(Ops) /\ o \in Ops /\ w \in What
      /\ todo' \in [Proc -> Seq(Ops)]
      /\ \A k \in Proc \ {p} : todo'[k] = todo[k]
      /\ \A F : Pick(todo[p], F) \in Seq(What) /\ Pick(todo'[p], F) \in Seq(What)
      /\ \A F : o \in F => Pick(todo[p], F) = <<w>> \o Pick(todo'[p], F)
      /\ \A F : o \notin F => Pick(todo'[p], F) = Pick(todo[p], F)
  BY <1>1, GoesOn
<1>3. /\ \A k : o \notin Recvs(k) /\ o \notin Sends(k)
      /\ o \in Collectives
  BY <1>1, <1>2, Kinds
<1> HIDE DEF o, w
<1>4. /\ met \in [Proc -> Seq(What)] /\ met' \in [Proc -> Seq(What)]
      /\ met'[p] = Append(met[p], w)
      /\ \A k \in Proc \ {p} : met'[k] = met[k]
  <2>1. met \in [Proc -> Seq(What)]
    BY DEF ProtocolInv
  <2> QED
    BY <1>1, <1>2, <2>1
<1>5. ASSUME NEW a \in Proc, NEW b \in Proc, Is(a)', Is(b)'
      PROVE  Paired(a, b)'
  <2>1. Paired(a, b)
    BY <1>2, <1>5 DEF ProtocolInv
  <2>2. Pick(todo'[a], Sends(b)) = Pick(todo[a], Sends(b))
    BY <1>2, <1>3
  <2>3. Pick(todo'[b], Recvs(a)) = Pick(todo[b], Recvs(a))
    BY <1>2, <1>3
  <2> QED
    BY <1>1, <2>1, <2>2, <2>3 DEF Paired, Sends, Recvs
<1>6. ASSUME NEW a \in Proc, Is(a)'
      PROVE  InStep(a)'
  <2>1. InStep(a)
    BY <1>2, <1>6 DEF ProtocolInv
  <2>2. CASE a = p
    <3> DEFINE m == met[p]
               s == Pick(todo'[p], Collectives)
    <3>1. m \in Seq(What) /\ s \in Seq(What) /\ <<w>> \in Seq(What) /\ w \in What
      BY <1>2, <1>4
    <3>2. Pick(todo[p], Collectives) = <<w>> \o s /\ met'[p] = Append(m, w)
      BY <1>2, <1>3, <1>4
    <3> HIDE DEF m, s
    <3>3. Append(m, w) \o s = m \o (<<w>> \o s)
      BY <3>1, AppendIsConcat, ConcatAssociative
    <3> QED
      BY <1>2, <2>1, <2>2, <3>2, <3>3 DEF InStep, m, s
  <2>3. CASE a # p
    BY <1>2, <1>4, <2>1, <2>3 DEF InStep
  <2> QED
    BY <2>2, <2>3
<1>7. \A a \in Proc : ~ Is(a)' => todo'[a] = << >> /\ met'[a] = << >>
  BY <1>2, <1>4 DEF ProtocolInv
<1> QED
  BY <1>1, <1>2, <1>4, <1>5, <1>6, <1>7 DEF ProtocolInv

\* A message to a rank that is not there is dropped, or the job aborted.
LEMMA BadRankKept ==
  ASSUME ProtocolInv, NEW p \in Proc, BadRank(p)
  PROVE  ProtocolInv'
<1>1. CASE UNCHANGED <<setup, todo>>
  <2>1. UNCHANGED <<setup, todo, chan, met>>
    BY <1>1 DEF BadRank
  <2> QED
    BY <2>1 DEF ProtocolInv, Is, Paired, InStep
<1>2. CASE At(p, "send") /\ Goes(p)
  <2> DEFINE o == Op(p)
  <2>1. /\ ~ Done(p) /\ o.op = "send" /\ ~ Is(o.peer) /\ UNCHANGED <<chan, met>>
    BY <1>2 DEF BadRank, At
  <2>2. /\ setup' = setup /\ \A k \in Proc : Is(k)' <=> Is(k)
        /\ Is(p) /\ todo[p] \in Seq(Ops) /\ o \in Ops
        /\ todo' \in [Proc -> Seq(Ops)]
        /\ \A k \in Proc \ {p} : todo'[k] = todo[k]
        /\ \A F : o \notin F => Pick(todo'[p], F) = Pick(todo[p], F)
    BY <1>2, <2>1, GoesOn
  <2>3. /\ \A k : o \in Sends(k) <=> k = o.peer
        /\ \A k : o \notin Recvs(k)
        /\ o \notin Collectives
    BY <2>1, <2>2, Kinds
  <2>4. \A k : Is(k) => o \notin Sends(k)
    BY <2>1, <2>3
  <2> HIDE DEF o
  <2>5. ASSUME NEW a \in Proc, NEW b \in Proc, Is(a)', Is(b)'
        PROVE  Paired(a, b)'
    <3>1. Paired(a, b) /\ Is(b)
      BY <2>2, <2>5 DEF ProtocolInv
    <3>2. Pick(todo'[a], Sends(b)) = Pick(todo[a], Sends(b))
      BY <2>2, <2>4, <3>1
    <3>3. Pick(todo'[b], Recvs(a)) = Pick(todo[b], Recvs(a))
      BY <2>2, <2>3
    <3> QED
      BY <2>1, <3>1, <3>2, <3>3 DEF Paired, Sends, Recvs
  <2>6. ASSUME NEW a \in Proc, Is(a)'
        PROVE  InStep(a)'
    <3>1. Pick(todo'[a], Collectives) = Pick(todo[a], Collectives)
      BY <2>2, <2>3
    <3> QED
      BY <2>1, <2>2, <2>6, <3>1 DEF ProtocolInv, InStep
  <2>7. \A a \in Proc : ~ Is(a)' => todo'[a] = << >> /\ met'[a] = << >>
    BY <2>1, <2>2 DEF ProtocolInv
  <2> QED
    BY <2>1, <2>2, <2>5, <2>6, <2>7 DEF ProtocolInv
<1> QED
  BY <1>1, <1>2 DEF BadRank

\* For schedules that match, the machine keeps them matched.
LEMMA ProtocolNext ==
  ASSUME ProtocolInv, [Next]_vars
  PROVE  ProtocolInv'
<1>1. CASE UNCHANGED vars
  BY <1>1 DEF vars, ProtocolInv, Is, Paired, InStep
<1>2. CASE \E p \in Proc : Step(p)
  BY <1>2, SendKept, RecvKept, EnterKept, BadRankKept DEF Step
<1> QED
  BY <1>1, <1>2 DEF Next, Finished

\* The message at the head of a channel is the one its receiver waits for.
LEMMA InvMatched ==
  ASSUME ProtocolInv
  PROVE  Matched
<1> SUFFICES ASSUME NEW p \in Proc, At(p, "recv"), Is(Op(p).peer),
                    chan[<<Op(p).peer, p>>] # << >>
             PROVE  Head(chan[<<Op(p).peer, p>>]) = Op(p).what
  BY DEF Matched
<1> DEFINE o == Op(p)
           q == Op(p).peer
           t == Tail(todo[p])
<1>1. todo[p] \in Seq(Ops) /\ todo[p] # << >> /\ o.op = "recv" /\ q \in Proc /\ Is(q) /\ Is(p)
  BY DEF ProtocolInv, At, Done, Is
<1>2. /\ o \in Ops /\ o.what \in What
      /\ \A F : Pick(todo[p], F) \in Seq(What) /\ Pick(t, F) \in Seq(What)
      /\ \A F : o \in F => Pick(todo[p], F) = <<o.what>> \o Pick(t, F)
  BY <1>1, PickHead, OpsWhat DEF Op
<1>3. o \in Recvs(q)
  BY <1>1, <1>2, Kinds
<1> HIDE DEF o, q, t
<1>4. Match(chan[<<q, p>>], Pick(todo[q], Sends(p)), <<o.what>> \o Pick(t, Recvs(q)))
  BY <1>1, <1>2, <1>3 DEF ProtocolInv, Paired
<1>5. chan[<<q, p>>] \in Seq(What) /\ Pick(todo[q], Sends(p)) \in Seq(What)
  BY <1>1, PicksTake DEF ProtocolInv
<1>6. chan[<<q, p>>] # << >>
  BY DEF q
<1>7. Head(chan[<<q, p>>]) = o.what
  BY <1>2, <1>4, <1>5, <1>6, MatchRecv
<1> QED
  BY <1>7 DEF o, q

\* What two nodes have entered are beginnings of the same sequence.
LEMMA InvAgree ==
  ASSUME ProtocolInv
  PROVE  CollectivesAgree
<1> SUFFICES ASSUME NEW p \in Proc, NEW n \in 1 .. Len(met[p]), n <= Len(met[Root(p)])
             PROVE  met[p][n] = met[Root(p)][n]
  BY DEF CollectivesAgree
<1>1. met[p] \in Seq(What)
  BY DEF ProtocolInv
<1>2. Is(p)
  <2>1. met[p] # << >>
    BY <1>1
  <2> QED
    BY <2>1 DEF ProtocolInv
<1>3. Root(p) \in Proc /\ Is(Root(p)) /\ Root(p)[1] = p[1]
  BY <1>2, ProtocolAssumption DEF ProtocolInv, Root, Proc, Is
<1> DEFINE all == Pick(Prog(setup, p[1], 0), Collectives)
           m == met[p]
           r == met[Root(p)]
           s == Pick(todo[p], Collectives)
           t == Pick(todo[Root(p)], Collectives)
<1>4. m \o s = all /\ r \o t = all
  BY <1>2, <1>3 DEF ProtocolInv, InStep
<1>5. m \in Seq(What) /\ s \in Seq(What) /\ r \in Seq(What) /\ t \in Seq(What)
  BY <1>1, <1>3, PicksTake DEF ProtocolInv
<1>6. n \in 1 .. Len(m) /\ n <= Len(r)
  OBVIOUS
<1> HIDE DEF m, r, s, t, all
<1>7. n \in 1 .. Len(r)
  BY <1>5, <1>6
<1>8. (m \o s)[n] = m[n] /\ (r \o t)[n] = r[n]
  BY <1>5, <1>6, <1>7
<1> QED
  BY <1>4, <1>8 DEF m, r

-----------------------------------------------------------------------------
(***************************************************************************)
(* The schedules of two partners, g and e of node d, and their roots', g0  *)
(* and e0.                                                                 *)
(***************************************************************************)

\* A generator sends to its partner only; what it receives from elsewhere is
\* from a generator.  An evaluator receives from its partner only.
GenOps(d) == {o \in Ops : /\ o.op = "send" => o.peer = <<EVL, d>>
                          /\ o.op = "recv" => o.peer = <<EVL, d>> \/ o.peer[1] = GEN}
EvlOps(d) == {o \in Ops : /\ o.op = "send" => o.peer = <<GEN, d>> \/ o.peer[1] = EVL
                          /\ o.op = "recv" => o.peer = <<GEN, d>>}

\* The partners' messages match, and their collectives are the roots'.
Fit(g, e, g0, e0, d) ==
  /\ g \in Seq(GenOps(d)) /\ e \in Seq(EvlOps(d)) /\ g0 \in Seq(Ops) /\ e0 \in Seq(Ops)
  /\ Pick(g, Sends(<<EVL, d>>)) = Pick(e, Recvs(<<GEN, d>>))
  /\ Pick(e, Sends(<<GEN, d>>)) = Pick(g, Recvs(<<EVL, d>>))
  /\ Pick(g, Collectives) = Pick(g0, Collectives)
  /\ Pick(e, Collectives) = Pick(e0, Collectives)

\* The operations of either side are operations.
LEMMA SideOps ==
  ASSUME NEW d
  PROVE  /\ \A g \in Seq(GenOps(d)) : g \in Seq(Ops)
         /\ \A e \in Seq(EvlOps(d)) : e \in Seq(Ops)
<1>1. GenOps(d) \subseteq Ops /\ EvlOps(d) \subseteq Ops
  BY DEF GenOps, EvlOps
<1> HIDE DEF Ops
<1> QED
  BY <1>1

\* Nothing fits nothing.
LEMMA FitNone ==
  ASSUME NEW d
  PROVE  Fit(<< >>, << >>, << >>, << >>, d)
<1>1. << >> \in Seq(GenOps(d)) /\ << >> \in Seq(EvlOps(d)) /\ << >> \in Seq(Ops)
  OBVIOUS
<1> QED
  BY <1>1, PickNone DEF Fit

\* One after the other.
LEMMA FitConcat ==
  ASSUME NEW d, NEW g, NEW e, NEW g0, NEW e0, NEW h, NEW f, NEW h0, NEW f0,
         Fit(g, e, g0, e0, d), Fit(h, f, h0, f0, d)
  PROVE  Fit(g \o h, e \o f, g0 \o h0, e0 \o f0, d)
<1>1. /\ g \in Seq(GenOps(d)) /\ e \in Seq(EvlOps(d)) /\ g0 \in Seq(Ops) /\ e0 \in Seq(Ops)
      /\ h \in Seq(GenOps(d)) /\ f \in Seq(EvlOps(d)) /\ h0 \in Seq(Ops) /\ f0 \in Seq(Ops)
  BY DEF Fit
<1>2. /\ g \o h \in Seq(GenOps(d)) /\ e \o f \in Seq(EvlOps(d))
      /\ g0 \o h0 \in Seq(Ops) /\ e0 \o f0 \in Seq(Ops)
  BY <1>1
<1>3. g \in Seq(Ops) /\ e \in Seq(Ops) /\ h \in Seq(Ops) /\ f \in Seq(Ops)
  BY <1>1, SideOps
<1>4. \A F : /\ Pick(g \o h, F) = Pick(g, F) \o Pick(h, F)
             /\ Pick(e \o f, F) = Pick(e, F) \o Pick(f, F)
             /\ Pick(g0 \o h0, F) = Pick(g0, F) \o Pick(h0, F)
             /\ Pick(e0 \o f0, F) = Pick(e0, F) \o Pick(f0, F)
  <2>1. \A F : Pick(g \o h, F) = Pick(g, F) \o Pick(h, F)
    BY <1>3, PickConcat
  <2>2. \A F : Pick(e \o f, F) = Pick(e, F) \o Pick(f, F)
    BY <1>3, PickConcat
  <2>3. \A F : Pick(g0 \o h0, F) = Pick(g0, F) \o Pick(h0, F)
    BY <1>1, PickConcat
  <2>4. \A F : Pick(e0 \o f0, F) = Pick(e0, F) \o Pick(f0, F)
    BY <1>1, PickConcat
  <2> QED
    BY <2>1, <2>2, <2>3, <2>4
<1> QED
  BY <1>2, <1>4 DEF Fit

\* The passes of a loop, put together one by one.
Unrolled(f, body, n) == /\ f[0] = << >> /\ For(body) = f[n]
                        /\ \A k \in 1 .. n : f[k] = f[k - 1] \o body[k]

\* A loop is its passes put together one by one.
LEMMA ForSteps ==
  ASSUME NEW S, NEW n \in Nat, NEW body \in [1 .. n -> Seq(S)]
  PROVE  \E f \in [0 .. n -> Seq(S)] : Unrolled(f, body, n)
<1> DEFINE step == [k \in 1 .. n |-> [m \in Seq(S) |-> m \o body[k]]]
           Eqn(f) == [k \in 1 .. n |-> IF k = 1 THEN body[k] ELSE f[k - 1] \o body[k]]
           flatten == CHOOSE f : f = Eqn(f)
<1>1. step \in [1 .. n -> [Seq(S) -> Seq(S)]]
  BY ConcatProperties
<1>2. << >> \in Seq(S)
  OBVIOUS
<1>3. PICK f \in [0 .. n -> Seq(S)] : Takes(f, << >>, step, n)
  <2> HIDE DEF step
  <2> QED
    BY <1>1, <1>2, Steps
<1>4. f[0] = << >> /\ \A k \in 1 .. n : f[k] = f[k - 1] \o body[k]
  <2> SUFFICES ASSUME NEW k \in 1 .. n
               PROVE  f[k] = f[k - 1] \o body[k]
    BY <1>3 DEF Takes
  <2>1. f[k - 1] \in Seq(S) /\ f[k] = step[k][f[k - 1]]
    <3> HIDE DEF step
    <3>1. k - 1 \in 0 .. n
      OBVIOUS
    <3> QED
      BY <1>3, <3>1 DEF Takes
  <2> QED
    BY <2>1
<1>5. Len(body) = n
  OBVIOUS
<1>6. CASE n = 0
  <2>1. body = << >>
    BY <1>6
  <2>2. For(body) = body
    BY <1>5, <1>6 DEF For, FlattenSeq
  <2> QED
    BY <1>3, <1>4, <1>6, <2>1, <2>2 DEF Unrolled
<1>7. CASE n # 0
  <2>1. For(body) = flatten[n]
    BY <1>5, <1>7 DEF For, FlattenSeq
  <2> DEFINE c == [k \in 1 .. n |-> f[k]]
  <2>0. \A k \in 1 .. n : f[k] = IF k = 1 THEN body[k] ELSE f[k - 1] \o body[k]
    <3>1. 1 \in 1 .. n /\ 1 - 1 = 0 /\ body[1] \in Seq(S)
      BY <1>7
    <3>2. f[1] = << >> \o body[1]
      BY <1>4, <3>1
    <3>3. f[1] = body[1]
      BY <3>1, <3>2, ConcatEmptySeq
    <3> QED
      BY <1>4, <3>3
  <2>2. c = Eqn(c)
    <3>1. \A k \in 1 .. n : k # 1 => k - 1 \in 1 .. n
      OBVIOUS
    <3>2. \A k \in 1 .. n : f[k] = IF k = 1 THEN body[k] ELSE c[k - 1] \o body[k]
      BY <2>0, <3>1
    <3> QED
      BY <3>2
  <2>3. flatten = Eqn(flatten)
    <3> HIDE DEF Eqn, c
    <3> QED
      BY <2>2
  <2> HIDE DEF flatten
  <2> DEFINE Same == {k \in 0 .. n : k # 0 => flatten[k] = f[k]}
  <2>4. 0 \in Same
    OBVIOUS
  <2>5. ASSUME NEW k \in 1 .. n, k - 1 \in Same
        PROVE  k \in Same
    <3>1. flatten[k] = IF k = 1 THEN body[k] ELSE flatten[k - 1] \o body[k]
      BY <2>3
    <3>2. f[k] = IF k = 1 THEN body[k] ELSE f[k - 1] \o body[k]
      BY <2>0
    <3>3. k # 1 => flatten[k - 1] = f[k - 1]
      BY <2>5
    <3> QED
      BY <3>1, <3>2, <3>3
  <2>6. 0 .. n \subseteq Same
    <3> HIDE DEF Same
    <3> QED
      BY <2>4, <2>5, UpTo
  <2>7. flatten[n] = f[n]
    BY <1>7, <2>6
  <2> QED
    BY <1>3, <1>4, <2>1, <2>7 DEF Unrolled
<1> QED
  BY <1>6, <1>7

\* Loops of the same number of passes.
LEMMA FitFor ==
  ASSUME NEW d, NEW n \in Nat, NEW g, NEW e, NEW g0, NEW e0,
         g = [k \in 1 .. n |-> g[k]], e = [k \in 1 .. n |-> e[k]],
         g0 = [k \in 1 .. n |-> g0[k]], e0 = [k \in 1 .. n |-> e0[k]],
         \A k \in 1 .. n : Fit(g[k], e[k], g0[k], e0[k], d)
  PROVE  Fit(For(g), For(e), For(g0), For(e0), d)
<1>1. /\ g \in [1 .. n -> Seq(GenOps(d))] /\ e \in [1 .. n -> Seq(EvlOps(d))]
      /\ g0 \in [1 .. n -> Seq(Ops)] /\ e0 \in [1 .. n -> Seq(Ops)]
  BY DEF Fit
<1>2. /\ \E f \in [0 .. n -> Seq(GenOps(d))] : Unrolled(f, g, n)
      /\ \E f \in [0 .. n -> Seq(EvlOps(d))] : Unrolled(f, e, n)
      /\ \E f \in [0 .. n -> Seq(Ops)] : Unrolled(f, g0, n)
      /\ \E f \in [0 .. n -> Seq(Ops)] : Unrolled(f, e0, n)
  <2>1. \A S : \A body \in [1 .. n -> Seq(S)] : \E f \in [0 .. n -> Seq(S)] : Unrolled(f, body, n)
    BY ForSteps
  <2> QED
    BY <1>1, <2>1
<1>3. PICK gs, es, gs0, es0 :
        Unrolled(gs, g, n) /\ Unrolled(es, e, n) /\ Unrolled(gs0, g0, n) /\ Unrolled(es0, e0, n)
  BY <1>2
<1>4. /\ gs[0] = << >> /\ es[0] = << >> /\ gs0[0] = << >> /\ es0[0] = << >>
      /\ For(g) = gs[n] /\ For(e) = es[n] /\ For(g0) = gs0[n] /\ For(e0) = es0[n]
  BY <1>3 DEF Unrolled
<1>5. \A k \in 1 .. n : /\ gs[k] = gs[k - 1] \o g[k] /\ es[k] = es[k - 1] \o e[k]
                        /\ gs0[k] = gs0[k - 1] \o g0[k] /\ es0[k] = es0[k - 1] \o e0[k]
  BY <1>3 DEF Unrolled
<1> DEFINE P == {k \in 0 .. n : Fit(gs[k], es[k], gs0[k], es0[k], d)}
<1>6. 0 \in P
  BY <1>4, FitNone
<1>7. ASSUME NEW k \in 1 .. n, k - 1 \in P
      PROVE  k \in P
  <2>1. Fit(gs[k - 1] \o g[k], es[k - 1] \o e[k], gs0[k - 1] \o g0[k], es0[k - 1] \o e0[k], d)
    BY <1>7, FitConcat
  <2>2. Fit(gs[k], es[k], gs0[k], es0[k], d)
    BY <1>5, <2>1
  <2>3. k \in 0 .. n
    OBVIOUS
  <2> QED
    BY <2>2, <2>3
<1>8. n \in P
  <2> HIDE DEF P
  <2>1. 0 .. n \subseteq P
    BY <1>6, <1>7, UpTo
  <2> QED
    BY <2>1
<1> QED
  BY <1>4, <1>8

-----------------------------------------------------------------------------
(***************************************************************************)
(* The parts the schedules are made of.                                    *)
(***************************************************************************)

\* One operation.
LEMMA OneOp ==
  ASSUME NEW d \in Int, NEW w \in What
  PROVE  /\ Put("GEN", d, w) \in Seq(GenOps(d)) /\ Get("GEN", d, w) \in Seq(GenOps(d))
         /\ Put("EVL", d, w) \in Seq(EvlOps(d)) /\ Get("EVL", d, w) \in Seq(EvlOps(d))
         /\ Put("GEN", d, w) \in Seq(Ops) /\ Get("GEN", d, w) \in Seq(Ops)
         /\ Put("EVL", d, w) \in Seq(Ops) /\ Get("EVL", d, w) \in Seq(Ops)
         /\ Pick(Put("GEN", d, w), Sends(<<EVL, d>>)) = <<w>>
         /\ Pick(Put("GEN", d, w), Recvs(<<EVL, d>>)) = << >>
         /\ Pick(Get("GEN", d, w), Sends(<<EVL, d>>)) = << >>
         /\ Pick(Get("GEN", d, w), Recvs(<<EVL, d>>)) = <<w>>
         /\ Pick(Put("EVL", d, w), Sends(<<GEN, d>>)) = <<w>>
         /\ Pick(Put("EVL", d, w), Recvs(<<GEN, d>>)) = << >>
         /\ Pick(Get("EVL", d, w), Sends(<<GEN, d>>)) = << >>
         /\ Pick(Get("EVL", d, w), Recvs(<<GEN, d>>)) = <<w>>
         /\ Pick(Put("GEN", d, w), Collectives) = << >> /\ Pick(Get("GEN", d, w), Collectives) = << >>
         /\ Pick(Put("EVL", d, w), Collectives) = << >> /\ Pick(Get("EVL", d, w), Collectives) = << >>
<1> DEFINE pg == [op |-> "send", peer |-> <<"EVL", d>>, what |-> w]
           gg == [op |-> "recv", peer |-> <<"EVL", d>>, what |-> w]
           pe == [op |-> "send", peer |-> <<"GEN", d>>, what |-> w]
           ge == [op |-> "recv", peer |-> <<"GEN", d>>, what |-> w]
<1>1. /\ Put("GEN", d, w) = <<pg>> /\ Get("GEN", d, w) = <<gg>>
      /\ Put("EVL", d, w) = <<pe>> /\ Get("EVL", d, w) = <<ge>>
  BY DEF Put, Get, SendTo, RecvFrom, Partner
<1>2. pg \in Ops /\ gg \in Ops /\ pe \in Ops /\ ge \in Ops
  BY DEF Ops, Role, GEN, EVL
<1>3. /\ pg.op = "send" /\ gg.op = "recv" /\ pe.op = "send" /\ ge.op = "recv"
      /\ pg.peer = <<EVL, d>> /\ gg.peer = <<EVL, d>> /\ pe.peer = <<GEN, d>> /\ ge.peer = <<GEN, d>>
      /\ pg.what = w /\ gg.what = w /\ pe.what = w /\ ge.what = w
  BY DEF GEN, EVL
<1> HIDE DEF pg, gg, pe, ge
<1>4. pg \in GenOps(d) /\ gg \in GenOps(d) /\ pe \in EvlOps(d) /\ ge \in EvlOps(d)
  BY <1>2, <1>3 DEF GenOps, EvlOps
<1>5. /\ <<pg>> \in Seq(GenOps(d)) /\ <<gg>> \in Seq(GenOps(d))
      /\ <<pe>> \in Seq(EvlOps(d)) /\ <<ge>> \in Seq(EvlOps(d))
  BY <1>4
<1>6. /\ <<pg>> \in Seq(Ops) /\ <<gg>> \in Seq(Ops) /\ <<pe>> \in Seq(Ops) /\ <<ge>> \in Seq(Ops)
  BY <1>2
<1>7. /\ pg \in Sends(<<EVL, d>>) /\ pg \notin Recvs(<<EVL, d>>) /\ pg \notin Collectives
      /\ gg \notin Sends(<<EVL, d>>) /\ gg \in Recvs(<<EVL, d>>) /\ gg \notin Collectives
      /\ pe \in Sends(<<GEN, d>>) /\ pe \notin Recvs(<<GEN, d>>) /\ pe \notin Collectives
      /\ ge \notin Sends(<<GEN, d>>) /\ ge \in Recvs(<<GEN, d>>) /\ ge \notin Collectives
  BY <1>2, <1>3, Kinds
<1>8. /\ Pick(<<pg>>, Sends(<<EVL, d>>)) = <<w>> /\ Pick(<<pg>>, Recvs(<<EVL, d>>)) = << >>
      /\ Pick(<<gg>>, Sends(<<EVL, d>>)) = << >> /\ Pick(<<gg>>, Recvs(<<EVL, d>>)) = <<w>>
      /\ Pick(<<pg>>, Collectives) = << >> /\ Pick(<<gg>>, Collectives) = << >>
  BY <1>2, <1>3, <1>7, PickOne
<1>9. /\ Pick(<<pe>>, Sends(<<GEN, d>>)) = <<w>> /\ Pick(<<pe>>, Recvs(<<GEN, d>>)) = << >>
      /\ Pick(<<ge>>, Sends(<<GEN, d>>)) = << >> /\ Pick(<<ge>>, Recvs(<<GEN, d>>)) = <<w>>
      /\ Pick(<<pe>>, Collectives) = << >> /\ Pick(<<ge>>, Collectives) = << >>
  BY <1>2, <1>3, <1>7, PickOne
<1> QED
  BY <1>1, <1>5, <1>6, <1>8, <1>9

\* A message from one partner to the other, at every node.
LEMMA FitMessage ==
  ASSUME NEW d \in Int, NEW w \in What
  PROVE  /\ Fit(Put("GEN", d, w), Get("EVL", d, w), Put("GEN", 0, w), Get("EVL", 0, w), d)
         /\ Fit(Get("GEN", d, w), Put("EVL", d, w), Get("GEN", 0, w), Put("EVL", 0, w), d)
<1>1. /\ Put("GEN", 0, w) \in Seq(Ops) /\ Get("GEN", 0, w) \in Seq(Ops)
      /\ Put("EVL", 0, w) \in Seq(Ops) /\ Get("EVL", 0, w) \in Seq(Ops)
      /\ Pick(Put("GEN", 0, w), Collectives) = << >> /\ Pick(Get("GEN", 0, w), Collectives) = << >>
      /\ Pick(Put("EVL", 0, w), Collectives) = << >> /\ Pick(Get("EVL", 0, w), Collectives) = << >>
  <2>1. 0 \in Int
    OBVIOUS
  <2> QED
    BY <2>1, OneOp
<1>2. Fit(Put("GEN", d, w), Get("EVL", d, w), Put("GEN", 0, w), Get("EVL", 0, w), d)
  BY <1>1, OneOp DEF Fit
<1>3. Fit(Get("GEN", d, w), Put("EVL", d, w), Get("GEN", 0, w), Put("EVL", 0, w), d)
  BY <1>1, OneOp DEF Fit
<1> QED
  BY <1>2, <1>3

\* Messages between the roots only: what the other nodes do not do is no
\* collective.
LEMMA FitRoots ==
  ASSUME NEW d \in Int, NEW g, NEW e,
         Fit(g, e, g, e, 0), Pick(g, Collectives) = << >>, Pick(e, Collectives) = << >>
  PROVE  Fit(If(d = 0, g), If(d = 0, e), g, e, d)
<1>1. CASE d = 0
  BY <1>1 DEF If
<1>2. CASE d # 0
  <2>1. g \in Seq(Ops) /\ e \in Seq(Ops)
    BY DEF Fit
  <2>2. Fit(<< >>, << >>, << >>, << >>, d)
    BY FitNone
  <2> QED
    BY <1>2, <2>1, <2>2, PickNone DEF If, Fit
<1> QED
  BY <1>1, <1>2

\* Collectives: the cluster of each role enters its own.
Entering(c) == c \in Seq(Ops) /\ \A k \in 1 .. Len(c) : c[k].op \in {"fromroot", "toroot"}

\* Collectives fit whatever the other cluster enters.
LEMMA FitCollectives ==
  ASSUME NEW d, NEW c, NEW b, Entering(c), Entering(b)
  PROVE  Fit(c, b, c, b, d)
<1>1. ASSUME NEW s \in Seq(Ops), \A k \in 1 .. Len(s) : s[k].op \in {"fromroot", "toroot"}
      PROVE  /\ s \in Seq(GenOps(d)) /\ s \in Seq(EvlOps(d))
             /\ \A q : Pick(s, Sends(q)) = << >> /\ Pick(s, Recvs(q)) = << >>
  <2>1. \A k \in 1 .. Len(s) : s[k] \in Ops
    OBVIOUS
  <2>2. \A k \in 1 .. Len(s) : /\ s[k] \in GenOps(d) /\ s[k] \in EvlOps(d)
                               /\ \A q : s[k] \notin Sends(q) /\ s[k] \notin Recvs(q)
    BY <1>1, <2>1 DEF GenOps, EvlOps, Sends, Recvs
  <2>3. s \in Seq(GenOps(d)) /\ s \in Seq(EvlOps(d))
    <3> DEFINE n == Len(s)
    <3>1. n \in Nat /\ s \in [1 .. n -> Ops]
      BY LenProperties
    <3> HIDE DEF n
    <3>2. s \in [1 .. n -> GenOps(d)] /\ s \in [1 .. n -> EvlOps(d)]
      BY <2>2, <3>1 DEF n
    <3> QED
      BY <3>1, <3>2
  <2>4. \A q : Pick(s, Sends(q)) = << >> /\ Pick(s, Recvs(q)) = << >>
    BY <2>2, PickNothing
  <2> QED
    BY <2>3, <2>4
<1>2. /\ c \in Seq(Ops) /\ b \in Seq(Ops)
      /\ c \in Seq(GenOps(d)) /\ b \in Seq(EvlOps(d))
      /\ \A q : Pick(c, Sends(q)) = << >> /\ Pick(c, Recvs(q)) = << >>
      /\ \A q : Pick(b, Sends(q)) = << >> /\ Pick(b, Recvs(q)) = << >>
  BY <1>1 DEF Entering
<1> QED
  BY <1>2 DEF Fit

\* What messages and collectives are named after.
LEMMA Contents ==
  /\ \A name \in Names : <<name>> \in What
  /\ \A name, step \in Names : <<name, step>> \in What
  /\ \A name \in Names : \A i \in Int : <<name, i>> \in What
  /\ \A name \in Names : \A i, j \in Int : <<name, i, j>> \in What
<1>1. /\ \A x \in Atom : <<x>> \in What
      /\ \A x, y \in Atom : <<x, y>> \in What
      /\ \A x, y, z \in Atom : <<x, y, z>> \in What
  BY DEF What
<1>2. /\ \A name \in Names : name \in Atom
      /\ \A i \in Int : i \in Atom
  BY DEF Atom
<1> QED
  BY <1>1, <1>2

\* Broadcasts, scatters, reductions and gathers are collectives.
LEMMA Entries ==
  /\ Entering(<< >>)
  /\ \A w \in What : Entering(Bcast(w)) /\ Entering(Scatter(w)) /\ Entering(Reduce(w)) /\ Entering(Gather(w))
  /\ \A step \in Names : Entering(Report(step))
  /\ \A c, b : Entering(c) /\ Entering(b) => Entering(c \o b)
<1>1. Entering(<< >>)
  BY DEF Entering
<1>2. ASSUME NEW w \in What, NEW o \in {"fromroot", "toroot"}
      PROVE  Entering(<<[op |-> o, what |-> w]>>)
  <2> DEFINE x == [op |-> o, what |-> w]
  <2>1. x \in Ops
    BY DEF Ops
  <2>2. x.op \in {"fromroot", "toroot"}
    OBVIOUS
  <2> HIDE DEF x
  <2>3. <<x>> \in Seq(Ops) /\ \A k \in 1 .. Len(<<x>>) : <<x>>[k] = x
    BY <2>1
  <2>4. Entering(<<x>>)
    BY <2>2, <2>3 DEF Entering
  <2> QED
    BY <2>4 DEF x
<1>3. ASSUME NEW w \in What
      PROVE  Entering(Bcast(w)) /\ Entering(Scatter(w)) /\ Entering(Reduce(w)) /\ Entering(Gather(w))
  <2>1. "fromroot" \in {"fromroot", "toroot"} /\ "toroot" \in {"fromroot", "toroot"}
    OBVIOUS
  <2>2. Entering(<<[op |-> "fromroot", what |-> w]>>) /\ Entering(<<[op |-> "toroot", what |-> w]>>)
    BY <1>2, <2>1
  <2> QED
    BY <2>2 DEF Bcast, Scatter, Reduce, Gather
<1>4. ASSUME NEW step \in Names
      PROVE  Entering(Report(step))
  <2>1. <<"report", step>> \in What
    <3>1. "report" \in Names
      BY DEF Names
    <3> QED
      BY <3>1, Contents
  <2> QED
    BY <1>3, <2>1 DEF Report
<1>5. ASSUME NEW c, NEW b, Entering(c), Entering(b)
      PROVE  Entering(c \o b)
  <2>1. c \in Seq(Ops) /\ b \in Seq(Ops)
    BY <1>5 DEF Entering
  <2>2. /\ c \o b \in Seq(Ops) /\ Len(c \o b) = Len(c) + Len(b)
        /\ Len(c) \in Nat /\ Len(b) \in Nat
        /\ \A k \in 1 .. Len(c) + Len(b) : (c \o b)[k] = IF k <= Len(c) THEN c[k] ELSE b[k - Len(c)]
    BY <2>1, ConcatProperties
  <2>3. ASSUME NEW k \in 1 .. Len(c \o b)
        PROVE  (c \o b)[k].op \in {"fromroot", "toroot"}
    <3>1. CASE k \in 1 .. Len(c)
      BY <1>5, <2>2, <3>1 DEF Entering
    <3>2. CASE k \notin 1 .. Len(c)
      <4>1. k - Len(c) \in 1 .. Len(b) /\ (c \o b)[k] = b[k - Len(c)]
        BY <2>2, <3>2
      <4> QED
        BY <1>5, <4>1 DEF Entering
    <3> QED
      BY <3>1, <3>2
  <2> QED
    BY <2>2, <2>3 DEF Entering
<1> QED
  BY <1>1, <1>3, <1>4, <1>5

\* What the roots send each other and receive.
RootPut(r, d, w) == If(d = 0, Put(r, d, w))
RootGet(r, d, w) == If(d = 0, Get(r, d, w))

\* A message between the roots.
LEMMA FitRootMessage ==
  ASSUME NEW d \in Int, NEW w \in What
  PROVE  /\ Fit(RootPut("GEN", d, w), RootGet("EVL", d, w), RootPut("GEN", 0, w), RootGet("EVL", 0, w), d)
         /\ Fit(RootGet("GEN", d, w), RootPut("EVL", d, w), RootGet("GEN", 0, w), RootPut("EVL", 0, w), d)
<1>0. 0 \in Int
  OBVIOUS
<1>1. /\ Fit(Put("GEN", 0, w), Get("EVL", 0, w), Put("GEN", 0, w), Get("EVL", 0, w), 0)
      /\ Fit(Get("GEN", 0, w), Put("EVL", 0, w), Get("GEN", 0, w), Put("EVL", 0, w), 0)
  BY <1>0, FitMessage
<1>2. /\ Pick(Put("GEN", 0, w), Collectives) = << >> /\ Pick(Get("GEN", 0, w), Collectives) = << >>
      /\ Pick(Put("EVL", 0, w), Collectives) = << >> /\ Pick(Get("EVL", 0, w), Collectives) = << >>
  BY <1>0, OneOp
<1>3. /\ Fit(If(d = 0, Put("GEN", 0, w)), If(d = 0, Get("EVL", 0, w)), Put("GEN", 0, w), Get("EVL", 0, w), d)
      /\ Fit(If(d = 0, Get("GEN", 0, w)), If(d = 0, Put("EVL", 0, w)), Get("GEN", 0, w), Put("EVL", 0, w), d)
  BY <1>1, <1>2, FitRoots
<1>4. \A r : RootPut(r, d, w) = If(d = 0, Put(r, 0, w)) /\ RootGet(r, d, w) = If(d = 0, Get(r, 0, w))
  BY DEF If, RootPut, RootGet
<1>5. \A r : RootPut(r, 0, w) = Put(r, 0, w) /\ RootGet(r, 0, w) = Get(r, 0, w)
  BY DEF If, RootPut, RootGet
<1> QED
  BY <1>3, <1>4, <1>5

-----------------------------------------------------------------------------
(***************************************************************************)
(* The steps of the protocols, one by one, for every setup.                *)
(***************************************************************************)

\* The CRS.
LEMMA FitCrs ==
  ASSUME NEW d \in Int
  PROVE  Fit(Crs("GEN", d), Crs("EVL", d), Crs("GEN", 0), Crs("EVL", 0), d)
<1> DEFINE w == <<"crs">>
           b == Bcast(w)
<1>1. w \in What
  BY Contents DEF Names
<1>2. \A x \in Int : Crs("GEN", x) = RootGet("GEN", x, w) \o b /\ Crs("EVL", x) = RootPut("EVL", x, w) \o b
  BY DEF Crs, RootGet, RootPut
<1> HIDE DEF w
<1>3. Fit(b, b, b, b, d)
  BY <1>1, Entries, FitCollectives
<1> HIDE DEF b
<1>4. Fit(RootGet("GEN", d, w), RootPut("EVL", d, w), RootGet("GEN", 0, w), RootPut("EVL", 0, w), d)
  BY <1>1, FitRootMessage
<1>5. Fit(RootGet("GEN", d, w) \o b, RootPut("EVL", d, w) \o b, RootGet("GEN", 0, w) \o b, RootPut("EVL", 0, w) \o b, d)
  BY <1>3, <1>4, FitConcat
<1>6. 0 \in Int
  OBVIOUS
<1> QED
  BY <1>2, <1>5, <1>6

\* The report of a step.
LEMMA FitReport ==
  ASSUME NEW d, NEW step \in Names
  PROVE  Fit(Report(step), Report(step), Report(step), Report(step), d)
BY Entries, FitCollectives

\* init_environ.
LEMMA FitInitEnviron ==
  ASSUME NEW d \in Int
  PROVE  Fit(InitEnviron("GEN", d), InitEnviron("EVL", d), InitEnviron("GEN", 0), InitEnviron("EVL", 0), d)
<1> DEFINE w == <<"claw_free">>
           b == Bcast(w)
<1>1. w \in What
  BY Contents DEF Names
<1>2. \A x \in Int : /\ InitEnviron("GEN", x) = RootGet("GEN", x, w) \o b
                     /\ InitEnviron("EVL", x) = RootPut("EVL", x, w) \o b
  BY DEF InitEnviron, RootGet, RootPut
<1> HIDE DEF w
<1>3. Fit(b, b, b, b, d)
  BY <1>1, Entries, FitCollectives
<1> HIDE DEF b
<1>4. Fit(RootGet("GEN", d, w), RootPut("EVL", d, w), RootGet("GEN", 0, w), RootPut("EVL", 0, w), d)
  BY <1>1, FitRootMessage
<1>5. Fit(RootGet("GEN", d, w) \o b, RootPut("EVL", d, w) \o b, RootGet("GEN", 0, w) \o b, RootPut("EVL", 0, w) \o b, d)
  BY <1>3, <1>4, FitConcat
<1>6. 0 \in Int
  OBVIOUS
<1> QED
  BY <1>2, <1>5, <1>6

\* The keys, input by input and circuit by circuit.
LEMMA FitKeys ==
  ASSUME NEW u, u.node_load \in Nat, NEW d \in Int
  PROVE  Fit(Keys(u, "GEN", d), Keys(u, "EVL", d), Keys(u, "GEN", 0), Keys(u, "EVL", 0), d)
<1> DEFINE L == u.node_load
           w(b, c) == <<"X_Y", b, c>>
           g(x, b) == [c \in 1 .. L |-> Put("GEN", x, w(b, c))]
           e(x, b) == [c \in 1 .. L |-> Get("EVL", x, w(b, c))]
           G(x) == [b \in 1 .. EvlInpCnt |-> For(g(x, b))]
           E(x) == [b \in 1 .. EvlInpCnt |-> For(e(x, b))]
<1>1. EvlInpCnt \in Nat /\ L \in Nat
  BY SchedulesAssumption
<1>2. \A x : Keys(u, "GEN", x) = For(G(x)) /\ Keys(u, "EVL", x) = For(E(x))
  BY DEF Keys
<1>3. ASSUME NEW b \in 1 .. EvlInpCnt
      PROVE  Fit(For(g(d, b)), For(e(d, b)), For(g(0, b)), For(e(0, b)), d)
  <2>1. ASSUME NEW c \in 1 .. L
        PROVE  Fit(Put("GEN", d, w(b, c)), Get("EVL", d, w(b, c)), Put("GEN", 0, w(b, c)), Get("EVL", 0, w(b, c)), d)
    <3>0. "X_Y" \in Names /\ b \in Int /\ c \in Int
      BY DEF Names
    <3>1. w(b, c) \in What
      BY <3>0, Contents
    <3> HIDE DEF w
    <3> QED
      BY <3>1, FitMessage
  <2>2. \A c \in 1 .. L : Fit(g(d, b)[c], e(d, b)[c], g(0, b)[c], e(0, b)[c], d)
    <3> HIDE DEF w
    <3> QED
      BY <2>1
  <2>3. \A x : g(x, b) = [c \in 1 .. L |-> g(x, b)[c]] /\ e(x, b) = [c \in 1 .. L |-> e(x, b)[c]]
    OBVIOUS
  <2> HIDE DEF g, e, L
  <2> QED
    BY <1>1, <2>2, <2>3, FitFor
<1>4. \A b \in 1 .. EvlInpCnt : Fit(G(d)[b], E(d)[b], G(0)[b], E(0)[b], d)
  <2> HIDE DEF g, e
  <2> QED
    BY <1>3
<1>5. \A x : G(x) = [b \in 1 .. EvlInpCnt |-> G(x)[b]] /\ E(x) = [b \in 1 .. EvlInpCnt |-> E(x)[b]]
  OBVIOUS
<1>6. Fit(For(G(d)), For(E(d)), For(G(0)), For(E(0)), d)
  <2> HIDE DEF G, E
  <2> QED
    BY <1>1, <1>4, <1>5, FitFor
<1> HIDE DEF G, E
<1> QED
  BY <1>2, <1>6

\* The transfer of the evaluator's keys.
LEMMA FitObliviousTransfer ==
  ASSUME NEW u, u.node_load \in Nat, NEW d \in Int
  PROVE  Fit(ObliviousTransfer(u, "GEN", d), ObliviousTransfer(u, "EVL", d),
             ObliviousTransfer(u, "GEN", 0), ObliviousTransfer(u, "EVL", 0), d)
<1> DEFINE w == <<"gr_hr">>
           bg == Bcast(w)
           be == Bcast(<<"r">>)
           rep == Report("ob_transfer")
           G(x) == RootGet("GEN", x, w)
           E(x) == RootPut("EVL", x, w)
<1>1. w \in What /\ <<"r">> \in What
  BY Contents DEF Names
<1>2. \A x \in Int :
        /\ ObliviousTransfer(u, "GEN", x) = Crs("GEN", x) \o G(x) \o bg \o Keys(u, "GEN", x) \o rep
        /\ ObliviousTransfer(u, "EVL", x) = Crs("EVL", x) \o E(x) \o be \o Keys(u, "EVL", x) \o rep
  BY DEF ObliviousTransfer, RootGet, RootPut
<1>3. Fit(bg, be, bg, be, d)
  <2> HIDE DEF w
  <2> QED
    BY <1>1, Entries, FitCollectives
<1>4. Fit(rep, rep, rep, rep, d)
  BY FitReport DEF Names
<1>5. Fit(G(d), E(d), G(0), E(0), d)
  <2> HIDE DEF w
  <2> QED
    BY <1>1, FitRootMessage
<1>6. Fit(Crs("GEN", d), Crs("EVL", d), Crs("GEN", 0), Crs("EVL", 0), d)
  BY FitCrs
<1>7. Fit(Keys(u, "GEN", d), Keys(u, "EVL", d), Keys(u, "GEN", 0), Keys(u, "EVL", 0), d)
  BY FitKeys
<1> HIDE DEF bg, be, rep, G, E
<1>8. Fit(Crs("GEN", d) \o G(d) \o bg, Crs("EVL", d) \o E(d) \o be,
          Crs("GEN", 0) \o G(0) \o bg, Crs("EVL", 0) \o E(0) \o be, d)
  BY <1>3, <1>5, <1>6, FitConcat
<1>9. Fit(Crs("GEN", d) \o G(d) \o bg \o Keys(u, "GEN", d) \o rep, Crs("EVL", d) \o E(d) \o be \o Keys(u, "EVL", d) \o rep,
          Crs("GEN", 0) \o G(0) \o bg \o Keys(u, "GEN", 0) \o rep, Crs("EVL", 0) \o E(0) \o be \o Keys(u, "EVL", 0) \o rep, d)
  BY <1>4, <1>7, <1>8, FitConcat
<1>10. 0 \in Int
  OBVIOUS
<1> QED
  BY <1>2, <1>9, <1>10

\* The coin toss of the roots and the scatter of its outcome.
LEMMA FitCutAndChoose ==
  ASSUME NEW d \in Int
  PROVE  Fit(CutAndChoose("GEN", d), CutAndChoose("EVL", d), CutAndChoose("GEN", 0), CutAndChoose("EVL", 0), d)
<1> DEFINE w1 == <<"comm">>
           w2 == <<"coins">>
           w3 == <<"open">>
           c == Scatter(<<"chks">>) \o Report("cut_check")
           G(x) == RootPut("GEN", x, w1) \o RootGet("GEN", x, w2) \o RootPut("GEN", x, w3)
           E(x) == RootGet("EVL", x, w1) \o RootPut("EVL", x, w2) \o RootGet("EVL", x, w3)
<1>1. w1 \in What /\ w2 \in What /\ w3 \in What /\ <<"chks">> \in What
  BY Contents DEF Names
<1>2. /\ \A x \in Int : /\ CutAndChoose("GEN", x) = G(x) \o Scatter(<<"chks">>) \o Report("cut_check")
                        /\ CutAndChoose("EVL", x) = E(x) \o Scatter(<<"chks">>) \o Report("cut_check")
  <2> SUFFICES ASSUME NEW x \in Int
               PROVE  /\ CutAndChoose("GEN", x) = G(x) \o Scatter(<<"chks">>) \o Report("cut_check")
                      /\ CutAndChoose("EVL", x) = E(x) \o Scatter(<<"chks">>) \o Report("cut_check")
    OBVIOUS
  <2>1. CASE x = 0
    BY <2>1 DEF CutAndChoose, RootGet, RootPut, If
  <2>2. CASE x # 0
    <3>1. << >> \o << >> = << >> /\ G(x) = << >> \o << >> \o << >> /\ E(x) = << >> \o << >> \o << >>
      BY <2>2 DEF RootGet, RootPut, If
    <3>2. G(x) = << >> /\ E(x) = << >>
      BY <3>1
    <3> HIDE DEF G, E
    <3> QED
      BY <2>2, <3>2 DEF CutAndChoose, If
  <2> QED
    BY <2>1, <2>2
<1>3. Fit(Scatter(<<"chks">>), Scatter(<<"chks">>), Scatter(<<"chks">>), Scatter(<<"chks">>), d)
  BY <1>1, Entries, FitCollectives
<1>4. Fit(Report("cut_check"), Report("cut_check"), Report("cut_check"), Report("cut_check"), d)
  BY FitReport DEF Names
<1>5. Fit(G(d), E(d), G(0), E(0), d)
  <2> HIDE DEF w1, w2, w3
  <2>1. Fit(RootPut("GEN", d, w1), RootGet("EVL", d, w1), RootPut("GEN", 0, w1), RootGet("EVL", 0, w1), d)
    BY <1>1, FitRootMessage
  <2>2. Fit(RootGet("GEN", d, w2), RootPut("EVL", d, w2), RootGet("GEN", 0, w2), RootPut("EVL", 0, w2), d)
    BY <1>1, FitRootMessage
  <2>3. Fit(RootPut("GEN", d, w3), RootGet("EVL", d, w3), RootPut("GEN", 0, w3), RootGet("EVL", 0, w3), d)
    BY <1>1, FitRootMessage
  <2> QED
    BY <2>1, <2>2, <2>3, FitConcat
<1> HIDE DEF G, E
<1>6. 0 \in Int
  OBVIOUS
<1>7. Fit(G(d) \o Scatter(<<"chks">>) \o Report("cut_check"), E(d) \o Scatter(<<"chks">>) \o Report("cut_check"),
          G(0) \o Scatter(<<"chks">>) \o Report("cut_check"), E(0) \o Scatter(<<"chks">>) \o Report("cut_check"), d)
  BY <1>3, <1>4, <1>5, FitConcat
<1> QED
  BY <1>2, <1>6, <1>7

\* The check of the generator's inputs.
LEMMA FitConsistency ==
  ASSUME NEW d \in Int
  PROVE  Fit(Consistency("GEN", d), Consistency("EVL", d), Consistency("GEN", 0), Consistency("EVL", 0), d)
<1> DEFINE w == <<"M0">>
           m == <<"m_m0">>
           bg == Bcast(<<"m0">>)
           be == Bcast(w)
           G(x) == RootPut("GEN", x, w)
           E(x) == RootGet("EVL", x, w)
           g(x) == Put("GEN", x, m)
           e(x) == Get("EVL", x, m)
<1>1. w \in What /\ m \in What /\ <<"m0">> \in What
  BY Contents DEF Names
<1>2. \A x \in Int : /\ Consistency("GEN", x) = G(x) \o bg \o g(x)
                     /\ Consistency("EVL", x) = E(x) \o be \o e(x)
  BY DEF Consistency, RootGet, RootPut
<1>3. Fit(bg, be, bg, be, d)
  <2> HIDE DEF w
  <2> QED
    BY <1>1, Entries, FitCollectives
<1>4. Fit(G(d), E(d), G(0), E(0), d)
  <2> HIDE DEF w
  <2> QED
    BY <1>1, FitRootMessage
<1>5. Fit(g(d), e(d), g(0), e(0), d)
  <2> HIDE DEF m
  <2> QED
    BY <1>1, FitMessage
<1> HIDE DEF bg, be, G, E, g, e
<1>6. Fit(G(d) \o bg \o g(d), E(d) \o be \o e(d), G(0) \o bg \o g(0), E(0) \o be \o e(0), d)
  BY <1>3, <1>4, <1>5, FitConcat
<1>7. 0 \in Int
  OBVIOUS
<1> QED
  BY <1>2, <1>6, <1>7

\* What the evaluators alone enter.
LEMMA FitEvaluators ==
  ASSUME NEW d
  PROVE  /\ Fit(If("GEN" = "EVL", Reduce(<<"verify">>)), If("EVL" = "EVL", Reduce(<<"verify">>)),
                If("GEN" = "EVL", Reduce(<<"verify">>)), If("EVL" = "EVL", Reduce(<<"verify">>)), d)
         /\ Fit(EvlOutput("GEN", d), EvlOutput("EVL", d), EvlOutput("GEN", 0), EvlOutput("EVL", 0), d)
         /\ Fit(If(EvlOut /\ "GEN" = "EVL", Report("chk_evl_out")), If(EvlOut /\ "EVL" = "EVL", Report("chk_evl_out")),
                If(EvlOut /\ "GEN" = "EVL", Report("chk_evl_out")), If(EvlOut /\ "EVL" = "EVL", Report("chk_evl_out")), d)
<1>1. <<"verify">> \in What /\ <<"evl_out">> \in What /\ "chk_evl_out" \in Names
  BY Contents DEF Names
<1>2. Entering(Reduce(<<"verify">>)) /\ Entering(Gather(<<"evl_out">>)) /\ Entering(Report("chk_evl_out"))
  BY <1>1, Entries
<1>3. Entering(<< >>) /\ Entering(Gather(<<"evl_out">>) \o Report("chk_evl_out"))
  BY <1>2, Entries
<1>4. /\ If("GEN" = "EVL", Reduce(<<"verify">>)) = << >>
      /\ If("EVL" = "EVL", Reduce(<<"verify">>)) = Reduce(<<"verify">>)
  BY DEF If
<1>5. \A x : /\ EvlOutput("GEN", x) = << >>
             /\ EvlOutput("EVL", x) = IF EvlOut THEN Gather(<<"evl_out">>) \o Report("chk_evl_out") ELSE << >>
  BY DEF EvlOutput, If
<1>6. /\ If(EvlOut /\ "GEN" = "EVL", Report("chk_evl_out")) = << >>
      /\ If(EvlOut /\ "EVL" = "EVL", Report("chk_evl_out")) = IF EvlOut THEN Report("chk_evl_out") ELSE << >>
  BY DEF If
<1>7. /\ Entering(IF EvlOut THEN Gather(<<"evl_out">>) \o Report("chk_evl_out") ELSE << >>)
      /\ Entering(IF EvlOut THEN Report("chk_evl_out") ELSE << >>)
  BY <1>2, <1>3
<1>8. Fit(If("GEN" = "EVL", Reduce(<<"verify">>)), If("EVL" = "EVL", Reduce(<<"verify">>)),
          If("GEN" = "EVL", Reduce(<<"verify">>)), If("EVL" = "EVL", Reduce(<<"verify">>)), d)
  BY <1>2, <1>3, <1>4, FitCollectives
<1>9. Fit(EvlOutput("GEN", d), EvlOutput("EVL", d), EvlOutput("GEN", 0), EvlOutput("EVL", 0), d)
  BY <1>3, <1>5, <1>7, FitCollectives
<1>10. Fit(If(EvlOut /\ "GEN" = "EVL", Report("chk_evl_out")), If(EvlOut /\ "EVL" = "EVL", Report("chk_evl_out")),
           If(EvlOut /\ "GEN" = "EVL", Report("chk_evl_out")), If(EvlOut /\ "EVL" = "EVL", Report("chk_evl_out")), d)
  BY <1>3, <1>6, <1>7, FitCollectives
<1> QED
  BY <1>8, <1>9, <1>10

\* The generator's output.
LEMMA FitGenOutput ==
  ASSUME NEW d \in Int
  PROVE  Fit(GenOutput("GEN", d), GenOutput("EVL", d), GenOutput("GEN", 0), GenOutput("EVL", 0), d)
<1> DEFINE w == <<"gen_out">>
           rep == Report("chk_gen_out")
           g(x) == Get("GEN", x, w)
           e(x) == Put("EVL", x, w)
<1>1. w \in What
  BY Contents DEF Names
<1>2. /\ GenOut => \A x \in Int : GenOutput("GEN", x) = g(x) \o rep /\ GenOutput("EVL", x) = e(x) \o rep
      /\ ~ GenOut => \A x, r : GenOutput(r, x) = << >>
  BY DEF GenOutput, If
<1>3. Fit(rep, rep, rep, rep, d)
  BY FitReport DEF Names
<1>4. Fit(g(d), e(d), g(0), e(0), d)
  <2> HIDE DEF w
  <2> QED
    BY <1>1, FitMessage
<1> HIDE DEF rep, g, e
<1>5. Fit(g(d) \o rep, e(d) \o rep, g(0) \o rep, e(0) \o rep, d)
  BY <1>3, <1>4, FitConcat
<1>6. 0 \in Int
  OBVIOUS
<1>7. CASE GenOut
  BY <1>2, <1>5, <1>6, <1>7
<1>8. CASE ~ GenOut
  BY <1>2, <1>8, FitNone
<1> QED
  BY <1>7, <1>8

\* The gates, gate by gate and circuit by circuit.
LEMMA FitAllGates ==
  ASSUME NEW u, u.node_load \in Nat, NEW d \in Int
  PROVE  Fit(AllGates(u, "GEN", d), AllGates(u, "EVL", d), AllGates(u, "GEN", 0), AllGates(u, "EVL", 0), d)
<1> DEFINE L == u.node_load
           w(b, c) == <<"gate", b, c>>
           g(x, b) == [c \in 1 .. L |-> Put("GEN", x, w(b, c))]
           e(x, b) == [c \in 1 .. L |-> Get("EVL", x, w(b, c))]
           G(x) == [b \in 1 .. GateCnt |-> For(g(x, b))]
           E(x) == [b \in 1 .. GateCnt |-> For(e(x, b))]
<1>1. GateCnt \in Nat /\ L \in Nat
  BY SchedulesAssumption
<1>2. \A x : AllGates(u, "GEN", x) = For(G(x)) /\ AllGates(u, "EVL", x) = For(E(x))
  BY DEF AllGates
<1>3. ASSUME NEW b \in 1 .. GateCnt
      PROVE  Fit(For(g(d, b)), For(e(d, b)), For(g(0, b)), For(e(0, b)), d)
  <2>1. ASSUME NEW c \in 1 .. L
        PROVE  Fit(Put("GEN", d, w(b, c)), Get("EVL", d, w(b, c)), Put("GEN", 0, w(b, c)), Get("EVL", 0, w(b, c)), d)
    <3>0. "gate" \in Names /\ b \in Int /\ c \in Int
      BY DEF Names
    <3>1. w(b, c) \in What
      BY <3>0, Contents
    <3> HIDE DEF w
    <3> QED
      BY <3>1, FitMessage
  <2>2. \A c \in 1 .. L : Fit(g(d, b)[c], e(d, b)[c], g(0, b)[c], e(0, b)[c], d)
    <3> HIDE DEF w
    <3> QED
      BY <2>1
  <2>3. \A x : g(x, b) = [c \in 1 .. L |-> g(x, b)[c]] /\ e(x, b) = [c \in 1 .. L |-> e(x, b)[c]]
    OBVIOUS
  <2> HIDE DEF g, e, L
  <2> QED
    BY <1>1, <2>2, <2>3, FitFor
<1>4. \A b \in 1 .. GateCnt : Fit(G(d)[b], E(d)[b], G(0)[b], E(0)[b], d)
  <2> HIDE DEF g, e
  <2> QED
    BY <1>3
<1>5. \A x : G(x) = [b \in 1 .. GateCnt |-> G(x)[b]] /\ E(x) = [b \in 1 .. GateCnt |-> E(x)[b]]
  OBVIOUS
<1>6. Fit(For(G(d)), For(E(d)), For(G(0)), For(E(0)), d)
  <2> HIDE DEF G, E
  <2> QED
    BY <1>1, <1>4, <1>5, FitFor
<1> HIDE DEF G, E
<1> QED
  BY <1>2, <1>6

\* A message for each circuit of the node.
LEMMA FitEach ==
  ASSUME NEW L \in Nat, NEW name \in Names, NEW d \in Int
  PROVE  Fit(For([ix \in 1 .. L |-> Put("GEN", d, <<name, ix>>)]), For([ix \in 1 .. L |-> Get("EVL", d, <<name, ix>>)]),
             For([ix \in 1 .. L |-> Put("GEN", 0, <<name, ix>>)]), For([ix \in 1 .. L |-> Get("EVL", 0, <<name, ix>>)]), d)
<1> DEFINE w(c) == <<name, c>>
           g(x) == [c \in 1 .. L |-> Put("GEN", x, w(c))]
           e(x) == [c \in 1 .. L |-> Get("EVL", x, w(c))]
<1>1. ASSUME NEW c \in 1 .. L
      PROVE  Fit(Put("GEN", d, w(c)), Get("EVL", d, w(c)), Put("GEN", 0, w(c)), Get("EVL", 0, w(c)), d)
  <2>1. w(c) \in What
    BY Contents
  <2> HIDE DEF w
  <2> QED
    BY <2>1, FitMessage
<1>2. \A c \in 1 .. L : Fit(g(d)[c], e(d)[c], g(0)[c], e(0)[c], d)
  <2> HIDE DEF w
  <2> QED
    BY <1>1
<1>3. \A x : g(x) = [c \in 1 .. L |-> g(x)[c]] /\ e(x) = [c \in 1 .. L |-> e(x)[c]]
  OBVIOUS
<1>4. Fit(For(g(d)), For(e(d)), For(g(0)), For(e(0)), d)
  <2> HIDE DEF g, e
  <2> QED
    BY <1>2, <1>3, FitFor
<1> QED
  BY <1>4

\* The circuit of Yao.
LEMMA FitYaoEvaluate ==
  ASSUME NEW u, u.node_load \in Nat, NEW d \in Int
  PROVE  Fit(YaoEvaluate(u, "GEN", d), YaoEvaluate(u, "EVL", d), YaoEvaluate(u, "GEN", 0), YaoEvaluate(u, "EVL", 0), d)
<1> DEFINE L == u.node_load
           w == <<"M">>
           g(x) == For([ix \in 1 .. L |-> Put("GEN", x, <<"masked", ix>>)])
           e(x) == For([ix \in 1 .. L |-> Get("EVL", x, <<"masked", ix>>)])
           gm(x) == Put("GEN", x, w)
           em(x) == Get("EVL", x, w)
           r1 == Report("pre_cir_evl")
           r2 == Report("circuit_evl")
           og == If(EvlOut /\ "GEN" = "EVL", Report("chk_evl_out"))
           oe == If(EvlOut /\ "EVL" = "EVL", Report("chk_evl_out"))
<1>1. w \in What
  BY Contents DEF Names
<1>2. \A x \in Int :
        /\ YaoEvaluate(u, "GEN", x) = g(x) \o gm(x) \o r1 \o AllGates(u, "GEN", x) \o r2 \o og \o GenOutput("GEN", x)
        /\ YaoEvaluate(u, "EVL", x) = e(x) \o em(x) \o r1 \o AllGates(u, "EVL", x) \o r2 \o oe \o GenOutput("EVL", x)
  BY DEF YaoEvaluate
<1>3. Fit(g(d), e(d), g(0), e(0), d)
  <2>1. "masked" \in Names
    BY DEF Names
  <2> QED
    BY <2>1, FitEach
<1>4. Fit(gm(d), em(d), gm(0), em(0), d)
  <2> HIDE DEF w
  <2> QED
    BY <1>1, FitMessage
<1>5. Fit(r1, r1, r1, r1, d)
  BY FitReport DEF Names
<1>6. Fit(r2, r2, r2, r2, d)
  BY FitReport DEF Names
<1>7. Fit(og, oe, og, oe, d)
  BY FitEvaluators
<1>8. Fit(AllGates(u, "GEN", d), AllGates(u, "EVL", d), AllGates(u, "GEN", 0), AllGates(u, "EVL", 0), d)
  BY FitAllGates
<1>9. Fit(GenOutput("GEN", d), GenOutput("EVL", d), GenOutput("GEN", 0), GenOutput("EVL", 0), d)
  BY FitGenOutput
<1> HIDE DEF g, e, gm, em, r1, r2, og, oe
<1>10. Fit(g(d) \o gm(d) \o r1, e(d) \o em(d) \o r1, g(0) \o gm(0) \o r1, e(0) \o em(0) \o r1, d)
  BY <1>3, <1>4, <1>5, FitConcat
<1>11. Fit(g(d) \o gm(d) \o r1 \o AllGates(u, "GEN", d) \o r2, e(d) \o em(d) \o r1 \o AllGates(u, "EVL", d) \o r2,
           g(0) \o gm(0) \o r1 \o AllGates(u, "GEN", 0) \o r2, e(0) \o em(0) \o r1 \o AllGates(u, "EVL", 0) \o r2, d)
  BY <1>6, <1>8, <1>10, FitConcat
<1>12. Fit(g(d) \o gm(d) \o r1 \o AllGates(u, "GEN", d) \o r2 \o og \o GenOutput("GEN", d),
           e(d) \o em(d) \o r1 \o AllGates(u, "EVL", d) \o r2 \o oe \o GenOutput("EVL", d),
           g(0) \o gm(0) \o r1 \o AllGates(u, "GEN", 0) \o r2 \o og \o GenOutput("GEN", 0),
           e(0) \o em(0) \o r1 \o AllGates(u, "EVL", 0) \o r2 \o oe \o GenOutput("EVL", 0), d)
  BY <1>7, <1>9, <1>11, FitConcat
<1>13. 0 \in Int
  OBVIOUS
<1> QED
  BY <1>2, <1>12, <1>13

\* All of Yao.
LEMMA FitYao ==
  ASSUME NEW u, u.node_load \in Nat, NEW d \in Int
  PROVE  Fit(Yao(u, "GEN", d), Yao(u, "EVL", d), Yao(u, "GEN", 0), Yao(u, "EVL", 0), d)
<1>1. Fit(InitEnviron("GEN", d), InitEnviron("EVL", d), InitEnviron("GEN", 0), InitEnviron("EVL", 0), d)
  BY FitInitEnviron
<1>2. Fit(ObliviousTransfer(u, "GEN", d), ObliviousTransfer(u, "EVL", d),
          ObliviousTransfer(u, "GEN", 0), ObliviousTransfer(u, "EVL", 0), d)
  BY FitObliviousTransfer
<1>3. Fit(YaoEvaluate(u, "GEN", d), YaoEvaluate(u, "EVL", d), YaoEvaluate(u, "GEN", 0), YaoEvaluate(u, "EVL", 0), d)
  BY FitYaoEvaluate
<1> QED
  BY <1>1, <1>2, <1>3, FitConcat DEF Yao

\* The commitments to the circuits.
LEMMA FitCircuitCommit ==
  ASSUME NEW d \in Int
  PROVE  Fit(CircuitCommit("GEN", d), CircuitCommit("EVL", d), CircuitCommit("GEN", 0), CircuitCommit("EVL", 0), d)
<1> DEFINE w == <<"coms">>
           pre == Report("pre_cir_gen")
           rep == Report("circuit_gen")
           g(x) == Put("GEN", x, w)
           e(x) == Get("EVL", x, w)
<1>1. w \in What /\ "pre_cir_gen" \in Names
  BY Contents DEF Names
<1>2. \A x \in Int : /\ CircuitCommit("GEN", x) = pre \o g(x) \o rep
                     /\ CircuitCommit("EVL", x) = << >> \o e(x) \o rep
  BY DEF CircuitCommit, If
<1>3. Fit(pre, << >>, pre, << >>, d)
  BY <1>1, Entries, FitCollectives
<1>4. Fit(rep, rep, rep, rep, d)
  BY FitReport DEF Names
<1>5. Fit(g(d), e(d), g(0), e(0), d)
  <2> HIDE DEF w
  <2> QED
    BY <1>1, FitMessage
<1> HIDE DEF pre, rep, g, e
<1>6. Fit(pre \o g(d) \o rep, << >> \o e(d) \o rep, pre \o g(0) \o rep, << >> \o e(0) \o rep, d)
  BY <1>3, <1>4, <1>5, FitConcat
<1>7. 0 \in Int
  OBVIOUS
<1> QED
  BY <1>2, <1>6, <1>7

\* No collectives in it.
Quiet(s) == s \in Seq(Ops) /\ Pick(s, Collectives) = << >>

\* Messages are no collectives.
LEMMA QuietOps ==
  /\ Quiet(<< >>)
  /\ \A d \in Int : \A w \in What : /\ Quiet(Put("GEN", d, w)) /\ Quiet(Get("GEN", d, w))
                                    /\ Quiet(Put("EVL", d, w)) /\ Quiet(Get("EVL", d, w))
  /\ \A s, t : Quiet(s) /\ Quiet(t) => Quiet(s \o t)
<1>1. Quiet(<< >>)
  BY PickNone DEF Quiet
<1>2. ASSUME NEW d \in Int, NEW w \in What
      PROVE  /\ Quiet(Put("GEN", d, w)) /\ Quiet(Get("GEN", d, w))
             /\ Quiet(Put("EVL", d, w)) /\ Quiet(Get("EVL", d, w))
  BY OneOp DEF Quiet
<1>3. ASSUME NEW s, NEW t, Quiet(s), Quiet(t)
      PROVE  Quiet(s \o t)
  <2>1. s \in Seq(Ops) /\ t \in Seq(Ops) /\ Pick(s, Collectives) = << >> /\ Pick(t, Collectives) = << >>
    BY <1>3 DEF Quiet
  <2>2. Pick(s \o t, Collectives) = << >> \o << >>
    BY <2>1, PickConcat
  <2>3. << >> \o << >> = << >> /\ s \o t \in Seq(Ops)
    BY <2>1
  <2> QED
    BY <2>2, <2>3 DEF Quiet
<1> QED
  BY <1>1, <1>2, <1>3

\* Where the partners enter no collective, neither need their roots.
LEMMA FitQuiet ==
  ASSUME NEW d, NEW g, NEW e, NEW a, NEW b, Fit(g, e, a, b, d), Quiet(a), Quiet(b),
         NEW g0, NEW e0, Quiet(g0), Quiet(e0)
  PROVE  Fit(g, e, g0, e0, d)
BY DEF Fit, Quiet

\* Which circuits are checked differs from node to node.
LEMMA FitOpenings ==
  ASSUME NEW u, u.node_load \in Nat, NEW d \in Int
  PROVE  Fit(Openings(u, "GEN", d), Openings(u, "EVL", d), Openings(u, "GEN", 0), Openings(u, "EVL", 0), d)
<1> DEFINE L == u.node_load
           w(name, ix) == <<name, ix>>
           P(r, x, ix) == Put(r, x, w("mask", ix)) \o Put(r, x, w("rnd", ix)) \o Put(r, x, w("keys", ix))
           G(r, x, ix) == Get(r, x, w("mask", ix)) \o Get(r, x, w("rnd", ix)) \o Get(r, x, w("keys", ix))
           g(x) == [ix \in 1 .. L |-> IF Check(u, x, ix) THEN P("GEN", x, ix) ELSE Put("GEN", x, w("masked", ix))]
           e(x) == [ix \in 1 .. L |-> IF Check(u, x, ix) THEN G("EVL", x, ix) ELSE Get("EVL", x, w("masked", ix))]
<1>1. \A x \in Int : Openings(u, "GEN", x) = For(g(x)) /\ Openings(u, "EVL", x) = For(e(x))
  BY DEF Openings
<1>2. ASSUME NEW ix \in 1 .. L
      PROVE  Fit(g(d)[ix], e(d)[ix], g(0)[ix], e(0)[ix], d)
  <2>1. w("mask", ix) \in What /\ w("rnd", ix) \in What /\ w("keys", ix) \in What /\ w("masked", ix) \in What
    <3>1. "mask" \in Names /\ "rnd" \in Names /\ "keys" \in Names /\ "masked" \in Names /\ ix \in Int
      BY DEF Names
    <3> QED
      BY <3>1, Contents
  <2> DEFINE a(x) == P("GEN", x, ix)
             b(x) == G("EVL", x, ix)
             p(x) == Put("GEN", x, w("masked", ix))
             q(x) == Get("EVL", x, w("masked", ix))
  <2> HIDE DEF w
  <2>2. Fit(a(d), b(d), a(0), b(0), d)
    <3> DEFINE One(name) == Fit(Put("GEN", d, w(name, ix)), Get("EVL", d, w(name, ix)),
                                Put("GEN", 0, w(name, ix)), Get("EVL", 0, w(name, ix)), d)
    <3>1. One("mask")
      BY <2>1, FitMessage
    <3>2. One("rnd")
      BY <2>1, FitMessage
    <3>3. One("keys")
      BY <2>1, FitMessage
    <3> QED
      BY <3>1, <3>2, <3>3, FitConcat
  <2>3. Fit(p(d), q(d), p(0), q(0), d)
    BY <2>1, FitMessage
  <2>4. Quiet(a(0)) /\ Quiet(b(0)) /\ Quiet(p(0)) /\ Quiet(q(0))
    <3>1. 0 \in Int
      OBVIOUS
    <3>2. Quiet(a(0))
      BY <2>1, <3>1, QuietOps
    <3>3. Quiet(b(0))
      BY <2>1, <3>1, QuietOps
    <3> QED
      BY <2>1, <3>1, <3>2, <3>3, QuietOps
  <2>5. \A x : /\ g(x)[ix] = IF Check(u, x, ix) THEN a(x) ELSE p(x)
               /\ e(x)[ix] = IF Check(u, x, ix) THEN b(x) ELSE q(x)
    OBVIOUS
  <2> HIDE DEF a, b, p, q, g, e
  <2>6. Quiet(g(0)[ix]) /\ Quiet(e(0)[ix])
    BY <2>4, <2>5
  <2>7. CASE Check(u, d, ix)
    <3>1. Fit(a(d), b(d), g(0)[ix], e(0)[ix], d)
      BY <2>2, <2>4, <2>6, FitQuiet
    <3> QED
      BY <2>5, <2>7, <3>1
  <2>8. CASE ~ Check(u, d, ix)
    <3>1. Fit(p(d), q(d), g(0)[ix], e(0)[ix], d)
      BY <2>3, <2>4, <2>6, FitQuiet
    <3> QED
      BY <2>5, <2>8, <3>1
  <2> QED
    BY <2>7, <2>8
<1>3. \A x : g(x) = [ix \in 1 .. L |-> g(x)[ix]] /\ e(x) = [ix \in 1 .. L |-> e(x)[ix]]
  OBVIOUS
<1>4. Fit(For(g(d)), For(e(d)), For(g(0)), For(e(0)), d)
  <2>1. L \in Nat
    OBVIOUS
  <2> HIDE DEF g, e, L
  <2> QED
    BY <1>2, <1>3, <2>1, FitFor
<1>5. 0 \in Int
  OBVIOUS
<1> HIDE DEF g, e
<1> QED
  BY <1>1, <1>4, <1>5

\* The gates of the evaluation-circuits.
LEMMA FitGates ==
  ASSUME NEW u, u.node_load \in Nat, NEW d \in Int
  PROVE  Fit(Gates(u, "GEN", d), Gates(u, "EVL", d), Gates(u, "GEN", 0), Gates(u, "EVL", 0), d)
<1> DEFINE L == u.node_load
           w(b, c) == <<"gate", b, c>>
           p(x, b, c) == Put("GEN", x, w(b, c))
           q(x, b, c) == Get("EVL", x, w(b, c))
           g(x, b) == [c \in 1 .. L |-> IF ~ Check(u, x, c) THEN p(x, b, c) ELSE << >>]
           e(x, b) == [c \in 1 .. L |-> IF ~ Check(u, x, c) THEN q(x, b, c) ELSE << >>]
           G(x) == [b \in 1 .. GateCnt |-> For(g(x, b))]
           E(x) == [b \in 1 .. GateCnt |-> For(e(x, b))]
<1>1. GateCnt \in Nat /\ L \in Nat
  BY SchedulesAssumption
<1>2. \A x \in Int : Gates(u, "GEN", x) = For(G(x)) /\ Gates(u, "EVL", x) = For(E(x))
  BY DEF Gates, If
<1>3. ASSUME NEW b \in 1 .. GateCnt
      PROVE  Fit(For(g(d, b)), For(e(d, b)), For(g(0, b)), For(e(0, b)), d)
  <2>1. ASSUME NEW c \in 1 .. L
        PROVE  Fit(g(d, b)[c], e(d, b)[c], g(0, b)[c], e(0, b)[c], d)
    <3>1. "gate" \in Names /\ b \in Int /\ c \in Int /\ 0 \in Int
      BY DEF Names
    <3>2. w(b, c) \in What
      BY <3>1, Contents
    <3>3. Fit(p(d, b, c), q(d, b, c), p(0, b, c), q(0, b, c), d)
      <4> HIDE DEF w
      <4> QED
        BY <3>2, FitMessage
    <3>4. Quiet(p(0, b, c)) /\ Quiet(q(0, b, c)) /\ Quiet(<< >>)
      <4> HIDE DEF w
      <4> QED
        BY <3>1, <3>2, QuietOps
    <3>5. Fit(<< >>, << >>, << >>, << >>, d)
      BY FitNone
    <3> HIDE DEF p, q
    <3>6. /\ g(d, b)[c] = IF ~ Check(u, d, c) THEN p(d, b, c) ELSE << >>
          /\ e(d, b)[c] = IF ~ Check(u, d, c) THEN q(d, b, c) ELSE << >>
          /\ g(0, b)[c] = IF ~ Check(u, 0, c) THEN p(0, b, c) ELSE << >>
          /\ e(0, b)[c] = IF ~ Check(u, 0, c) THEN q(0, b, c) ELSE << >>
      OBVIOUS
    <3> HIDE DEF g, e
    <3>7. Quiet(g(0, b)[c]) /\ Quiet(e(0, b)[c])
      BY <3>4, <3>6
    <3>8. CASE Check(u, d, c)
      <4>1. Fit(<< >>, << >>, g(0, b)[c], e(0, b)[c], d)
        BY <3>4, <3>5, <3>7, FitQuiet
      <4> QED
        BY <3>6, <3>8, <4>1
    <3>9. CASE ~ Check(u, d, c)
      <4>1. Fit(p(d, b, c), q(d, b, c), g(0, b)[c], e(0, b)[c], d)
        BY <3>3, <3>4, <3>7, FitQuiet
      <4> QED
        BY <3>6, <3>9, <4>1
    <3> QED
      BY <3>8, <3>9
  <2>2. \A x : g(x, b) = [c \in 1 .. L |-> g(x, b)[c]] /\ e(x, b) = [c \in 1 .. L |-> e(x, b)[c]]
    OBVIOUS
  <2> HIDE DEF g, e, L
  <2> QED
    BY <1>1, <2>1, <2>2, FitFor
<1>4. \A b \in 1 .. GateCnt : Fit(G(d)[b], E(d)[b], G(0)[b], E(0)[b], d)
  <2> HIDE DEF g, e
  <2> QED
    BY <1>3
<1>5. \A x : G(x) = [b \in 1 .. GateCnt |-> G(x)[b]] /\ E(x) = [b \in 1 .. GateCnt |-> E(x)[b]]
  OBVIOUS
<1>6. Fit(For(G(d)), For(E(d)), For(G(0)), For(E(0)), d)
  <2> HIDE DEF G, E
  <2> QED
    BY <1>1, <1>4, <1>5, FitFor
<1>7. 0 \in Int
  OBVIOUS
<1> HIDE DEF G, E
<1> QED
  BY <1>2, <1>6, <1>7

\* The circuits of BetterYao.
LEMMA FitBetterYaoEvaluate ==
  ASSUME NEW u, u.node_load \in Nat, NEW d \in Int
  PROVE  Fit(BetterYaoEvaluate(u, "GEN", d), BetterYaoEvaluate(u, "EVL", d),
             BetterYaoEvaluate(u, "GEN", 0), BetterYaoEvaluate(u, "EVL", 0), d)
<1> DEFINE r1 == Report("pre_cir_evl")
           r2 == Report("circuit_evl")
           vg == If("GEN" = "EVL", Reduce(<<"verify">>))
           ve == If("EVL" = "EVL", Reduce(<<"verify">>))
           F1(r, x) == Openings(u, r, x) \o r1 \o Gates(u, r, x)
           G2(x) == F1("GEN", x) \o vg \o r2 \o EvlOutput("GEN", x)
           E2(x) == F1("EVL", x) \o ve \o r2 \o EvlOutput("EVL", x)
<1>1. \A x \in Int : /\ BetterYaoEvaluate(u, "GEN", x) = G2(x) \o GenOutput("GEN", x)
                     /\ BetterYaoEvaluate(u, "EVL", x) = E2(x) \o GenOutput("EVL", x)
  BY DEF BetterYaoEvaluate
<1>2. Fit(Openings(u, "GEN", d), Openings(u, "EVL", d), Openings(u, "GEN", 0), Openings(u, "EVL", 0), d)
  BY FitOpenings
<1>3. Fit(Gates(u, "GEN", d), Gates(u, "EVL", d), Gates(u, "GEN", 0), Gates(u, "EVL", 0), d)
  BY FitGates
<1>4. Fit(r1, r1, r1, r1, d)
  BY FitReport DEF Names
<1>5. Fit(r2, r2, r2, r2, d)
  BY FitReport DEF Names
<1>6. Fit(vg, ve, vg, ve, d)
  BY FitEvaluators
<1>7. Fit(EvlOutput("GEN", d), EvlOutput("EVL", d), EvlOutput("GEN", 0), EvlOutput("EVL", 0), d)
  BY FitEvaluators
<1>8. Fit(GenOutput("GEN", d), GenOutput("EVL", d), GenOutput("GEN", 0), GenOutput("EVL", 0), d)
  BY FitGenOutput
<1> HIDE DEF r1, r2, vg, ve
<1>9. Fit(F1("GEN", d), F1("EVL", d), F1("GEN", 0), F1("EVL", 0), d)
  BY <1>2, <1>3, <1>4, FitConcat
<1> HIDE DEF F1
<1>10. Fit(G2(d), E2(d), G2(0), E2(0), d)
  BY <1>5, <1>6, <1>7, <1>9, FitConcat
<1> HIDE DEF G2, E2
<1>11. Fit(G2(d) \o GenOutput("GEN", d), E2(d) \o GenOutput("EVL", d),
           G2(0) \o GenOutput("GEN", 0), E2(0) \o GenOutput("EVL", 0), d)
  BY <1>8, <1>10, FitConcat
<1>12. 0 \in Int
  OBVIOUS
<1> QED
  BY <1>1, <1>11, <1>12

\* All of BetterYao.
LEMMA FitBetterYao ==
  ASSUME NEW u, u.node_load \in Nat, NEW d \in Int
  PROVE  Fit(BetterYao(u, "GEN", d), BetterYao(u, "EVL", d), BetterYao(u, "GEN", 0), BetterYao(u, "EVL", 0), d)
<1> DEFINE rep == Report("const_check")
           F1(r, x) == InitEnviron(r, x) \o ObliviousTransfer(u, r, x) \o CircuitCommit(r, x)
<1>1. \A x \in Int : /\ BetterYao(u, "GEN", x) = F1("GEN", x) \o CutAndChoose("GEN", x)
                          \o Consistency("GEN", x) \o rep \o BetterYaoEvaluate(u, "GEN", x)
                     /\ BetterYao(u, "EVL", x) = F1("EVL", x) \o CutAndChoose("EVL", x)
                          \o Consistency("EVL", x) \o rep \o BetterYaoEvaluate(u, "EVL", x)
  BY DEF BetterYao
<1>2. Fit(InitEnviron("GEN", d), InitEnviron("EVL", d), InitEnviron("GEN", 0), InitEnviron("EVL", 0), d)
  BY FitInitEnviron
<1>3. Fit(ObliviousTransfer(u, "GEN", d), ObliviousTransfer(u, "EVL", d),
          ObliviousTransfer(u, "GEN", 0), ObliviousTransfer(u, "EVL", 0), d)
  BY FitObliviousTransfer
<1>4. Fit(CircuitCommit("GEN", d), CircuitCommit("EVL", d), CircuitCommit("GEN", 0), CircuitCommit("EVL", 0), d)
  BY FitCircuitCommit
<1>5. Fit(CutAndChoose("GEN", d), CutAndChoose("EVL", d), CutAndChoose("GEN", 0), CutAndChoose("EVL", 0), d)
  BY FitCutAndChoose
<1>6. Fit(Consistency("GEN", d), Consistency("EVL", d), Consistency("GEN", 0), Consistency("EVL", 0), d)
  BY FitConsistency
<1>7. Fit(rep, rep, rep, rep, d)
  BY FitReport DEF Names
<1>8. Fit(BetterYaoEvaluate(u, "GEN", d), BetterYaoEvaluate(u, "EVL", d),
          BetterYaoEvaluate(u, "GEN", 0), BetterYaoEvaluate(u, "EVL", 0), d)
  BY FitBetterYaoEvaluate
<1> HIDE DEF rep
<1>9. Fit(F1("GEN", d), F1("EVL", d), F1("GEN", 0), F1("EVL", 0), d)
  BY <1>2, <1>3, <1>4, FitConcat
<1> HIDE DEF F1
<1>10. Fit(F1("GEN", d) \o CutAndChoose("GEN", d) \o Consistency("GEN", d),
           F1("EVL", d) \o CutAndChoose("EVL", d) \o Consistency("EVL", d),
           F1("GEN", 0) \o CutAndChoose("GEN", 0) \o Consistency("GEN", 0),
           F1("EVL", 0) \o CutAndChoose("EVL", 0) \o Consistency("EVL", 0), d)
  BY <1>5, <1>6, <1>9, FitConcat
<1>11. Fit(F1("GEN", d) \o CutAndChoose("GEN", d) \o Consistency("GEN", d) \o rep \o BetterYaoEvaluate(u, "GEN", d),
           F1("EVL", d) \o CutAndChoose("EVL", d) \o Consistency("EVL", d) \o rep \o BetterYaoEvaluate(u, "EVL", d),
           F1("GEN", 0) \o CutAndChoose("GEN", 0) \o Consistency("GEN", 0) \o rep \o BetterYaoEvaluate(u, "GEN", 0),
           F1("EVL", 0) \o CutAndChoose("EVL", 0) \o Consistency("EVL", 0) \o rep \o BetterYaoEvaluate(u, "EVL", 0), d)
  BY <1>7, <1>8, <1>10, FitConcat
<1>12. 0 \in Int
  OBVIOUS
<1> QED
  BY <1>1, <1>11, <1>12

\* A random transfer for each circuit: the receiver's message, then the answer.
LEMMA FitOtRandom ==
  ASSUME NEW u, u.node_load \in Nat, NEW d \in Int
  PROVE  Fit(OtRandom(u, "GEN", d), OtRandom(u, "EVL", d), OtRandom(u, "GEN", 0), OtRandom(u, "EVL", 0), d)
<1> DEFINE L == u.node_load
           w(name, b) == <<name, b>>
           g(x) == [b \in 1 .. L |-> Get("GEN", x, w("gr_hr", b)) \o Put("GEN", x, w("X_Y", b))]
           e(x) == [b \in 1 .. L |-> Put("EVL", x, w("gr_hr", b)) \o Get("EVL", x, w("X_Y", b))]
<1>1. \A x \in Int : /\ OtRandom(u, "GEN", x) = Crs("GEN", x) \o For(g(x))
                     /\ OtRandom(u, "EVL", x) = Crs("EVL", x) \o For(e(x))
  BY DEF OtRandom
<1>2. ASSUME NEW b \in 1 .. L
      PROVE  Fit(g(d)[b], e(d)[b], g(0)[b], e(0)[b], d)
  <2>1. w("gr_hr", b) \in What /\ w("X_Y", b) \in What
    <3>1. "gr_hr" \in Names /\ "X_Y" \in Names /\ b \in Int
      BY DEF Names
    <3> QED
      BY <3>1, Contents
  <2> HIDE DEF w
  <2>2. Fit(Get("GEN", d, w("gr_hr", b)), Put("EVL", d, w("gr_hr", b)),
            Get("GEN", 0, w("gr_hr", b)), Put("EVL", 0, w("gr_hr", b)), d)
    BY <2>1, FitMessage
  <2>3. Fit(Put("GEN", d, w("X_Y", b)), Get("EVL", d, w("X_Y", b)),
            Put("GEN", 0, w("X_Y", b)), Get("EVL", 0, w("X_Y", b)), d)
    BY <2>1, FitMessage
  <2> QED
    BY <2>2, <2>3, FitConcat
<1>3. \A x : g(x) = [b \in 1 .. L |-> g(x)[b]] /\ e(x) = [b \in 1 .. L |-> e(x)[b]]
  OBVIOUS
<1>4. Fit(For(g(d)), For(e(d)), For(g(0)), For(e(0)), d)
  <2>1. L \in Nat
    OBVIOUS
  <2> HIDE DEF g, e, L
  <2> QED
    BY <1>2, <1>3, <2>1, FitFor
<1>5. Fit(Crs("GEN", d), Crs("EVL", d), Crs("GEN", 0), Crs("EVL", 0), d)
  BY FitCrs
<1> HIDE DEF g, e
<1>6. Fit(Crs("GEN", d) \o For(g(d)), Crs("EVL", d) \o For(e(d)), Crs("GEN", 0) \o For(g(0)), Crs("EVL", 0) \o For(e(0)), d)
  BY <1>4, <1>5, FitConcat
<1>7. 0 \in Int
  OBVIOUS
<1> QED
  BY <1>1, <1>6, <1>7

\* All five messages of each circuit.
LEMMA FitCutAndChoose2 ==
  ASSUME NEW u, u.node_load \in Nat, NEW d \in Int
  PROVE  Fit(CutAndChoose2(u, "GEN", d), CutAndChoose2(u, "EVL", d), CutAndChoose2(u, "GEN", 0), CutAndChoose2(u, "EVL", 0), d)
<1> DEFINE L == u.node_load
           names == <<"M", "masked", "mask", "rnd", "keys">>
           w(b, n) == <<names[n], b>>
           g(x, b) == [n \in 1 .. 5 |-> Put("GEN", x, w(b, n))]
           e(x, b) == [n \in 1 .. 5 |-> Get("EVL", x, w(b, n))]
           G(x) == [b \in 1 .. L |-> For(g(x, b))]
           E(x) == [b \in 1 .. L |-> For(e(x, b))]
           rep == Report("cut_n_chk2")
<1>1. L \in Nat /\ 5 \in Nat
  OBVIOUS
<1>2. \A x : /\ CutAndChoose2(u, "GEN", x) = OtRandom(u, "GEN", x) \o For(G(x)) \o rep
             /\ CutAndChoose2(u, "EVL", x) = OtRandom(u, "EVL", x) \o For(E(x)) \o rep
  BY DEF CutAndChoose2
<1>3. ASSUME NEW b \in 1 .. L
      PROVE  Fit(For(g(d, b)), For(e(d, b)), For(g(0, b)), For(e(0, b)), d)
  <2>1. ASSUME NEW n \in 1 .. 5
        PROVE  Fit(Put("GEN", d, w(b, n)), Get("EVL", d, w(b, n)), Put("GEN", 0, w(b, n)), Get("EVL", 0, w(b, n)), d)
    <3>1. names[n] \in Names /\ b \in Int
      <4>1. n = 1 \/ n = 2 \/ n = 3 \/ n = 4 \/ n = 5
        OBVIOUS
      <4> QED
        BY <4>1 DEF Names
    <3> HIDE DEF names
    <3>2. w(b, n) \in What
      BY <3>1, Contents
    <3> HIDE DEF w
    <3> QED
      BY <3>2, FitMessage
  <2>2. \A n \in 1 .. 5 : Fit(g(d, b)[n], e(d, b)[n], g(0, b)[n], e(0, b)[n], d)
    <3> HIDE DEF w
    <3> QED
      BY <2>1
  <2>3. \A x : g(x, b) = [n \in 1 .. 5 |-> g(x, b)[n]] /\ e(x, b) = [n \in 1 .. 5 |-> e(x, b)[n]]
    <3> HIDE DEF w
    <3> QED
      OBVIOUS
  <2> HIDE DEF g, e
  <2> QED
    BY <1>1, <2>2, <2>3, FitFor
<1>4. \A b \in 1 .. L : Fit(G(d)[b], E(d)[b], G(0)[b], E(0)[b], d)
  <2> HIDE DEF g, e
  <2> QED
    BY <1>3
<1>5. \A x : G(x) = [b \in 1 .. L |-> G(x)[b]] /\ E(x) = [b \in 1 .. L |-> E(x)[b]]
  <2> HIDE DEF g, e
  <2> QED
    OBVIOUS
<1>6. Fit(For(G(d)), For(E(d)), For(G(0)), For(E(0)), d)
  <2> HIDE DEF G, E, L
  <2> QED
    BY <1>1, <1>4, <1>5, FitFor
<1>7. Fit(OtRandom(u, "GEN", d), OtRandom(u, "EVL", d), OtRandom(u, "GEN", 0), OtRandom(u, "EVL", 0), d)
  BY FitOtRandom
<1>8. Fit(rep, rep, rep, rep, d)
  BY FitReport DEF Names
<1> HIDE DEF G, E, rep
<1>9. Fit(OtRandom(u, "GEN", d) \o For(G(d)) \o rep, OtRandom(u, "EVL", d) \o For(E(d)) \o rep,
          OtRandom(u, "GEN", 0) \o For(G(0)) \o rep, OtRandom(u, "EVL", 0) \o For(E(0)) \o rep, d)
  BY <1>6, <1>7, <1>8, FitConcat
<1> QED
  BY <1>2, <1>9

\* The ranks of another job's are not the partners: in user mode proc_gen_out
\* neither sends to the partner nor receives from it.
LEMMA FitElsewhere ==
  ASSUME NEW d \in Int, NEW w \in What
  PROVE  Fit(RecvFrom(<<"GEN", d + 1>>, w), SendTo(<<"EVL", d - 1>>, w),
             RecvFrom(<<"GEN", 0 + 1>>, w), SendTo(<<"EVL", 0 - 1>>, w), d)
<1> DEFINE g(x) == [op |-> "recv", peer |-> <<"GEN", x + 1>>, what |-> w]
           e(x) == [op |-> "send", peer |-> <<"EVL", x - 1>>, what |-> w]
<1>1. \A x : RecvFrom(<<"GEN", x + 1>>, w) = <<g(x)>> /\ SendTo(<<"EVL", x - 1>>, w) = <<e(x)>>
  BY DEF RecvFrom, SendTo
<1>2. \A x \in Int : /\ g(x) \in Ops /\ g(x).op = "recv" /\ g(x).peer = <<"GEN", x + 1>>
                     /\ e(x) \in Ops /\ e(x).op = "send" /\ e(x).peer = <<"EVL", x - 1>>
  BY DEF Ops, Role, GEN, EVL
<1> HIDE DEF g, e
<1>3. ASSUME NEW x \in Int
      PROVE  /\ <<g(x)>> \in Seq(GenOps(x)) /\ <<e(x)>> \in Seq(EvlOps(x))
             /\ <<g(x)>> \in Seq(Ops) /\ <<e(x)>> \in Seq(Ops)
             /\ g(x) \notin Sends(<<EVL, x>>) /\ g(x) \notin Recvs(<<EVL, x>>) /\ g(x) \notin Collectives
             /\ e(x) \notin Sends(<<GEN, x>>) /\ e(x) \notin Recvs(<<GEN, x>>) /\ e(x) \notin Collectives
  <2>1. g(x) \in Ops /\ e(x) \in Ops
    BY <1>2
  <2>2. g(x) \in GenOps(x) /\ e(x) \in EvlOps(x)
    BY <1>2 DEF GenOps, EvlOps, GEN, EVL
  <2>3. <<g(x)>> \in Seq(GenOps(x)) /\ <<e(x)>> \in Seq(EvlOps(x))
    BY <2>2
  <2>4. <<g(x)>> \in Seq(Ops) /\ <<e(x)>> \in Seq(Ops)
    BY <2>1
  <2>5. /\ g(x) \notin Sends(<<EVL, x>>) /\ g(x) \notin Recvs(<<EVL, x>>) /\ g(x) \notin Collectives
        /\ e(x) \notin Sends(<<GEN, x>>) /\ e(x) \notin Recvs(<<GEN, x>>) /\ e(x) \notin Collectives
    BY <1>2 DEF Sends, Recvs, Collectives, GEN, EVL
  <2> QED
    BY <2>3, <2>4, <2>5
<1>4. ASSUME NEW x \in Int
      PROVE  /\ Pick(<<g(x)>>, Sends(<<EVL, x>>)) = << >> /\ Pick(<<g(x)>>, Recvs(<<EVL, x>>)) = << >>
             /\ Pick(<<e(x)>>, Sends(<<GEN, x>>)) = << >> /\ Pick(<<e(x)>>, Recvs(<<GEN, x>>)) = << >>
             /\ Pick(<<g(x)>>, Collectives) = << >> /\ Pick(<<e(x)>>, Collectives) = << >>
  BY <1>2, <1>3, PickOne
<1>5. 0 \in Int
  OBVIOUS
<1>6. Fit(<<g(d)>>, <<e(d)>>, <<g(0)>>, <<e(0)>>, d)
  BY <1>3, <1>4, <1>5 DEF Fit
<1> QED
  BY <1>1, <1>6

\* The generator's output in BetterYao2, in either mode.
LEMMA FitGenOutput2 ==
  ASSUME NEW u, NEW d \in Int
  PROVE  Fit(GenOutput2(u, "GEN", d), GenOutput2(u, "EVL", d), GenOutput2(u, "GEN", 0), GenOutput2(u, "EVL", 0), d)
<1> DEFINE w == <<"gen_out">>
           rep == Report("chk_gen_out")
           g(x) == RecvFrom(IF u.user_mode THEN <<"GEN", x + 1>> ELSE Partner("GEN", x), w)
           e(x) == SendTo(IF u.user_mode THEN <<"EVL", x - 1>> ELSE Partner("EVL", x), w)
<1>1. w \in What
  BY Contents DEF Names
<1>2. /\ GenOut => \A x \in Int : GenOutput2(u, "GEN", x) = g(x) \o rep /\ GenOutput2(u, "EVL", x) = e(x) \o rep
      /\ ~ GenOut => \A x, r : GenOutput2(u, r, x) = << >>
  BY DEF GenOutput2, If
<1>3. Fit(rep, rep, rep, rep, d)
  BY FitReport DEF Names
<1>4. Fit(g(d), e(d), g(0), e(0), d)
  <2> HIDE DEF w
  <2>1. CASE u.user_mode
    <3>1. \A x : g(x) = RecvFrom(<<"GEN", x + 1>>, w) /\ e(x) = SendTo(<<"EVL", x - 1>>, w)
      BY <2>1
    <3> HIDE DEF g, e
    <3> QED
      BY <1>1, <3>1, FitElsewhere
  <2>2. CASE ~ u.user_mode
    <3>1. \A x : g(x) = Get("GEN", x, w) /\ e(x) = Put("EVL", x, w)
      BY <2>2 DEF Get, Put
    <3> HIDE DEF g, e
    <3> QED
      BY <1>1, <3>1, FitMessage
  <2> QED
    BY <2>1, <2>2
<1> HIDE DEF rep, g, e
<1>5. Fit(g(d) \o rep, e(d) \o rep, g(0) \o rep, e(0) \o rep, d)
  BY <1>3, <1>4, FitConcat
<1>6. 0 \in Int
  OBVIOUS
<1>7. CASE GenOut
  BY <1>2, <1>5, <1>6, <1>7
<1>8. CASE ~ GenOut
  BY <1>2, <1>8, FitNone
<1> QED
  BY <1>7, <1>8

\* The circuits of BetterYao2.
LEMMA FitBetterYao2Evaluate ==
  ASSUME NEW u, u.node_load \in Nat, NEW d \in Int
  PROVE  Fit(BetterYao2Evaluate(u, "GEN", d), BetterYao2Evaluate(u, "EVL", d),
             BetterYao2Evaluate(u, "GEN", 0), BetterYao2Evaluate(u, "EVL", 0), d)
<1> DEFINE r1 == Report("pre_cir_evl")
           r2 == Report("circuit_evl")
           vg == If("GEN" = "EVL", Reduce(<<"verify">>))
           ve == If("EVL" = "EVL", Reduce(<<"verify">>))
           G(x) == r1 \o AllGates(u, "GEN", x) \o vg \o r2
           E(x) == r1 \o AllGates(u, "EVL", x) \o ve \o r2
<1>1. \A x \in Int :
        /\ BetterYao2Evaluate(u, "GEN", x) = G(x) \o EvlOutput("GEN", x) \o GenOutput2(u, "GEN", x)
        /\ BetterYao2Evaluate(u, "EVL", x) = E(x) \o EvlOutput("EVL", x) \o GenOutput2(u, "EVL", x)
  BY DEF BetterYao2Evaluate
<1>2. Fit(AllGates(u, "GEN", d), AllGates(u, "EVL", d), AllGates(u, "GEN", 0), AllGates(u, "EVL", 0), d)
  BY FitAllGates
<1>3. Fit(r1, r1, r1, r1, d)
  BY FitReport DEF Names
<1>4. Fit(r2, r2, r2, r2, d)
  BY FitReport DEF Names
<1>5. Fit(vg, ve, vg, ve, d)
  BY FitEvaluators
<1>6. Fit(EvlOutput("GEN", d), EvlOutput("EVL", d), EvlOutput("GEN", 0), EvlOutput("EVL", 0), d)
  BY FitEvaluators
<1>7. Fit(GenOutput2(u, "GEN", d), GenOutput2(u, "EVL", d), GenOutput2(u, "GEN", 0), GenOutput2(u, "EVL", 0), d)
  BY FitGenOutput2
<1> HIDE DEF r1, r2, vg, ve
<1>8. Fit(G(d), E(d), G(0), E(0), d)
  BY <1>2, <1>3, <1>4, <1>5, FitConcat
<1> HIDE DEF G, E
<1>9. Fit(G(d) \o EvlOutput("GEN", d) \o GenOutput2(u, "GEN", d), E(d) \o EvlOutput("EVL", d) \o GenOutput2(u, "EVL", d),
          G(0) \o EvlOutput("GEN", 0) \o GenOutput2(u, "GEN", 0), E(0) \o EvlOutput("EVL", 0) \o GenOutput2(u, "EVL", 0), d)
  BY <1>6, <1>7, <1>8, FitConcat
<1>10. 0 \in Int
  OBVIOUS
<1> QED
  BY <1>1, <1>9, <1>10

\* All of BetterYao2.
LEMMA FitBetterYao2 ==
  ASSUME NEW u, u.node_load \in Nat, NEW d \in Int
  PROVE  Fit(BetterYao2(u, "GEN", d), BetterYao2(u, "EVL", d), BetterYao2(u, "GEN", 0), BetterYao2(u, "EVL", 0), d)
<1> DEFINE rep == Report("const_check")
           vg == If("GEN" = "EVL", Reduce(<<"verify">>))
           ve == If("EVL" = "EVL", Reduce(<<"verify">>))
           F1(r, x) == InitEnviron(r, x) \o ObliviousTransfer(u, r, x) \o CutAndChoose(r, x)
           F2(r, x) == F1(r, x) \o CutAndChoose2(u, r, x) \o BetterYao2Evaluate(u, r, x)
<1>1. \A x \in Int : /\ BetterYao2(u, "GEN", x) = F2("GEN", x) \o Consistency("GEN", x) \o vg \o rep
                     /\ BetterYao2(u, "EVL", x) = F2("EVL", x) \o Consistency("EVL", x) \o ve \o rep
  BY DEF BetterYao2
<1>2. Fit(InitEnviron("GEN", d), InitEnviron("EVL", d), InitEnviron("GEN", 0), InitEnviron("EVL", 0), d)
  BY FitInitEnviron
<1>3. Fit(ObliviousTransfer(u, "GEN", d), ObliviousTransfer(u, "EVL", d),
          ObliviousTransfer(u, "GEN", 0), ObliviousTransfer(u, "EVL", 0), d)
  BY FitObliviousTransfer
<1>4. Fit(CutAndChoose("GEN", d), CutAndChoose("EVL", d), CutAndChoose("GEN", 0), CutAndChoose("EVL", 0), d)
  BY FitCutAndChoose
<1>5. Fit(CutAndChoose2(u, "GEN", d), CutAndChoose2(u, "EVL", d), CutAndChoose2(u, "GEN", 0), CutAndChoose2(u, "EVL", 0), d)
  BY FitCutAndChoose2
<1>6. Fit(BetterYao2Evaluate(u, "GEN", d), BetterYao2Evaluate(u, "EVL", d),
          BetterYao2Evaluate(u, "GEN", 0), BetterYao2Evaluate(u, "EVL", 0), d)
  BY FitBetterYao2Evaluate
<1>7. Fit(Consistency("GEN", d), Consistency("EVL", d), Consistency("GEN", 0), Consistency("EVL", 0), d)
  BY FitConsistency
<1>8. Fit(vg, ve, vg, ve, d)
  BY FitEvaluators
<1>9. Fit(rep, rep, rep, rep, d)
  BY FitReport DEF Names
<1> HIDE DEF rep, vg, ve
<1>10. Fit(F1("GEN", d), F1("EVL", d), F1("GEN", 0), F1("EVL", 0), d)
  BY <1>2, <1>3, <1>4, FitConcat
<1> HIDE DEF F1
<1>11. Fit(F2("GEN", d), F2("EVL", d), F2("GEN", 0), F2("EVL", 0), d)
  BY <1>5, <1>6, <1>10, FitConcat
<1> HIDE DEF F2
<1>12. Fit(F2("GEN", d) \o Consistency("GEN", d) \o vg \o rep, F2("EVL", d) \o Consistency("EVL", d) \o ve \o rep,
           F2("GEN", 0) \o Consistency("GEN", 0) \o vg \o rep, F2("EVL", 0) \o Consistency("EVL", 0) \o ve \o rep, d)
  BY <1>7, <1>8, <1>9, <1>11, FitConcat
<1>13. 0 \in Int
  OBVIOUS
<1> QED
  BY <1>1, <1>12, <1>13

\* Whatever the protocol, the schedules of partners fit.
LEMMA FitSchedule ==
  ASSUME NEW u \in Setups, NEW d \in 0 .. u.node_amnt - 1
  PROVE  Fit(Prog(u, GEN, d), Prog(u, EVL, d), Prog(u, GEN, 0), Prog(u, EVL, 0), d)
<1>1. u.node_load \in Nat /\ u.protocol \in {"Yao", "BetterYao", "BetterYao2"}
  BY ProtocolsAssumption
<1>2. u.node_amnt \in Nat /\ d \in Int /\ 0 \in 0 .. u.node_amnt - 1
  BY ProtocolAssumption
<1>3. /\ Prog(u, GEN, d) = Schedule(u, "GEN", d) /\ Prog(u, EVL, d) = Schedule(u, "EVL", d)
      /\ Prog(u, GEN, 0) = Schedule(u, "GEN", 0) /\ Prog(u, EVL, 0) = Schedule(u, "EVL", 0)
  BY <1>2, ProtocolsAssumption DEF Role, GEN, EVL
<1>4. CASE u.protocol = "Yao"
  <2>1. \A r, x : Schedule(u, r, x) = Yao(u, r, x)
    BY <1>4 DEF Schedule
  <2>2. Fit(Yao(u, "GEN", d), Yao(u, "EVL", d), Yao(u, "GEN", 0), Yao(u, "EVL", 0), d)
    BY <1>1, <1>2, FitYao
  <2> QED
    BY <1>3, <2>1, <2>2
<1>5. CASE u.protocol = "BetterYao"
  <2>1. \A r, x : Schedule(u, r, x) = BetterYao(u, r, x)
    BY <1>5 DEF Schedule
  <2>2. Fit(BetterYao(u, "GEN", d), BetterYao(u, "EVL", d), BetterYao(u, "GEN", 0), BetterYao(u, "EVL", 0), d)
    BY <1>1, <1>2, FitBetterYao
  <2> QED
    BY <1>3, <2>1, <2>2
<1>6. CASE u.protocol = "BetterYao2"
  <2>1. \A r, x : Schedule(u, r, x) = BetterYao2(u, r, x)
    BY <1>6 DEF Schedule
  <2>2. Fit(BetterYao2(u, "GEN", d), BetterYao2(u, "EVL", d), BetterYao2(u, "GEN", 0), BetterYao2(u, "EVL", 0), d)
    BY <1>1, <1>2, FitBetterYao2
  <2> QED
    BY <1>3, <2>1, <2>2
<1> QED
  BY <1>1, <1>4, <1>5, <1>6

\* To whom a generator sends nothing, from whom an evaluator receives nothing.
LEMMA Apart ==
  ASSUME NEW d \in Int
  PROVE  /\ \A s \in Seq(GenOps(d)) : \A q : q # <<EVL, d>> => Pick(s, Sends(q)) = << >>
         /\ \A s \in Seq(EvlOps(d)) : \A q : q # <<GEN, d>> => Pick(s, Recvs(q)) = << >>
         /\ \A s \in Seq(GenOps(d)) : \A x : x # d => Pick(s, Recvs(<<EVL, x>>)) = << >>
         /\ \A s \in Seq(EvlOps(d)) : \A x : x # d => Pick(s, Sends(<<GEN, x>>)) = << >>
<1>1. ASSUME NEW s \in Seq(GenOps(d))
      PROVE  s \in Seq(Ops) /\ \A k \in 1 .. Len(s) : s[k] \in GenOps(d)
  BY SideOps
<1>2. ASSUME NEW s \in Seq(EvlOps(d))
      PROVE  s \in Seq(Ops) /\ \A k \in 1 .. Len(s) : s[k] \in EvlOps(d)
  BY SideOps
<1>3. ASSUME NEW s \in Seq(GenOps(d)), NEW q, q # <<EVL, d>>
      PROVE  Pick(s, Sends(q)) = << >>
  <2>1. ASSUME NEW o \in GenOps(d), o \in Sends(q)
        PROVE  FALSE
    <3>1. o.op = "send" /\ o.peer = q
      BY <2>1 DEF Sends
    <3>2. o.op = "send" => o.peer = <<EVL, d>>
      BY DEF GenOps
    <3> QED
      BY <1>3, <3>1, <3>2
  <2> QED
    BY <1>1, <2>1, PickNothing
<1>4. ASSUME NEW s \in Seq(EvlOps(d)), NEW q, q # <<GEN, d>>
      PROVE  Pick(s, Recvs(q)) = << >>
  <2>1. \A o \in EvlOps(d) : o \notin Recvs(q)
    BY <1>4 DEF EvlOps, Recvs
  <2> QED
    BY <1>2, <2>1, PickNothing
<1>5. ASSUME NEW s \in Seq(GenOps(d)), NEW x, x # d
      PROVE  Pick(s, Recvs(<<EVL, x>>)) = << >>
  <2>1. \A o \in GenOps(d) : o \notin Recvs(<<EVL, x>>)
    BY <1>5 DEF GenOps, Recvs, GEN, EVL
  <2> QED
    BY <1>1, <2>1, PickNothing
<1>6. ASSUME NEW s \in Seq(EvlOps(d)), NEW x, x # d
      PROVE  Pick(s, Sends(<<GEN, x>>)) = << >>
  <2>1. ASSUME NEW o \in EvlOps(d), o \in Sends(<<GEN, x>>)
        PROVE  FALSE
    <3>1. o.op = "send" /\ o.peer = <<GEN, x>>
      BY <2>1 DEF Sends
    <3>2. o.op = "send" => o.peer = <<GEN, d>> \/ o.peer[1] = EVL
      BY DEF EvlOps
    <3>3. <<GEN, x>> # <<GEN, d>> /\ <<GEN, x>>[1] # EVL
      BY <1>6 DEF GEN, EVL
    <3> QED
      BY <3>1, <3>2, <3>3
  <2> QED
    BY <1>2, <2>1, PickNothing
<1> QED
  BY <1>3, <1>4, <1>5, <1>6

\* The schedules of every run are what the machine asks for.
LEMMA ProgramsGood ==
  ASSUME NEW u \in Setups
  PROVE  GoodPrograms(u)
<1> DEFINE D == 0 .. u.node_amnt - 1
           G(d) == Prog(u, GEN, d)
           E(d) == Prog(u, EVL, d)
<1>1. u.node_amnt \in Nat /\ \A d \in D : d \in Int
  BY ProtocolAssumption
<1>2. \A d \in D : Fit(G(d), E(d), G(0), E(0), d)
  BY FitSchedule
<1>3. ASSUME NEW d \in D
      PROVE  /\ G(d) \in Seq(GenOps(d)) /\ E(d) \in Seq(EvlOps(d))
             /\ Pick(G(d), Sends(<<EVL, d>>)) = Pick(E(d), Recvs(<<GEN, d>>))
             /\ Pick(E(d), Sends(<<GEN, d>>)) = Pick(G(d), Recvs(<<EVL, d>>))
             /\ Pick(G(d), Collectives) = Pick(G(0), Collectives)
             /\ Pick(E(d), Collectives) = Pick(E(0), Collectives)
  <2>1. Fit(G(d), E(d), G(0), E(0), d)
    BY <1>2
  <2> HIDE DEF G, E, D
  <2> QED
    BY <2>1 DEF Fit
<1>4. \A d \in D : G(d) \in Seq(Ops) /\ E(d) \in Seq(Ops)
  BY <1>3, SideOps
<1>6. ASSUME NEW s \in Seq(What), NEW r, s = r \/ s = << >> \/ r = << >>
      PROVE  Match(<< >>, s, r)
  <2>1. << >> \o s = s
    OBVIOUS
  <2> QED
    BY <1>6, <2>1 DEF Match
<1>7. \A d \in D : \A F : Pick(G(d), F) \in Seq(What) /\ Pick(E(d), F) \in Seq(What)
  BY <1>4, PicksTake
<1> HIDE DEF G, E, D
<1>8. ASSUME NEW d \in D, NEW x \in D
      PROVE  /\ Match(<< >>, Pick(G(d), Sends(<<EVL, x>>)), Pick(E(x), Recvs(<<GEN, d>>)))
             /\ Match(<< >>, Pick(E(d), Sends(<<GEN, x>>)), Pick(G(x), Recvs(<<EVL, d>>)))
             /\ Match(<< >>, Pick(G(d), Sends(<<GEN, x>>)), Pick(G(x), Recvs(<<GEN, d>>)))
             /\ Match(<< >>, Pick(E(d), Sends(<<EVL, x>>)), Pick(E(x), Recvs(<<EVL, d>>)))
  <2>1. /\ x # d => Pick(G(d), Sends(<<EVL, x>>)) = << >>
        /\ x # d => Pick(E(d), Sends(<<GEN, x>>)) = << >>
        /\ Pick(G(d), Sends(<<GEN, x>>)) = << >>
        /\ Pick(E(x), Recvs(<<EVL, d>>)) = << >>
    <3>1. x # d => Pick(G(d), Sends(<<EVL, x>>)) = << >>
      BY <1>1, <1>3, Apart
    <3>2. x # d => Pick(E(d), Sends(<<GEN, x>>)) = << >>
      BY <1>1, <1>3, Apart
    <3>3. <<GEN, x>> # <<EVL, d>> /\ <<EVL, d>> # <<GEN, x>>
      BY DEF GEN, EVL
    <3>4. Pick(G(d), Sends(<<GEN, x>>)) = << >>
      BY <1>1, <1>3, <3>3, Apart
    <3>5. Pick(E(x), Recvs(<<EVL, d>>)) = << >>
      BY <1>1, <1>3, <3>3, Apart
    <3> QED
      BY <3>1, <3>2, <3>4, <3>5
  <2>2. /\ Pick(G(d), Sends(<<EVL, x>>)) \in Seq(What) /\ Pick(E(d), Sends(<<GEN, x>>)) \in Seq(What)
        /\ Pick(G(d), Sends(<<GEN, x>>)) \in Seq(What) /\ Pick(E(d), Sends(<<EVL, x>>)) \in Seq(What)
    BY <1>7
  <2>3. Match(<< >>, Pick(G(d), Sends(<<EVL, x>>)), Pick(E(x), Recvs(<<GEN, d>>)))
    BY <1>3, <1>6, <2>1, <2>2
  <2>4. Match(<< >>, Pick(E(d), Sends(<<GEN, x>>)), Pick(G(x), Recvs(<<EVL, d>>)))
    BY <1>3, <1>6, <2>1, <2>2
  <2>5. Match(<< >>, Pick(G(d), Sends(<<GEN, x>>)), Pick(G(x), Recvs(<<GEN, d>>)))
    BY <1>6, <2>1, <2>2
  <2>6. Match(<< >>, Pick(E(d), Sends(<<EVL, x>>)), Pick(E(x), Recvs(<<EVL, d>>)))
    BY <1>6, <2>1, <2>2
  <2> QED
    BY <2>3, <2>4, <2>5, <2>6
<1>9. ASSUME NEW p \in Role \X D, NEW q \in Role \X D
      PROVE  /\ Prog(u, p[1], p[2]) \in Seq(Ops)
             /\ Match(<< >>, Pick(Prog(u, p[1], p[2]), Sends(q)), Pick(Prog(u, q[1], q[2]), Recvs(p)))
             /\ Pick(Prog(u, p[1], p[2]), Collectives) = Pick(Prog(u, p[1], 0), Collectives)
  <2>1. PICK d \in D, x \in D : /\ p = <<GEN, d>> \/ p = <<EVL, d>>
                                /\ q = <<GEN, x>> \/ q = <<EVL, x>>
    BY DEF Role
  <2>2. \A k : Prog(u, GEN, k) = G(k) /\ Prog(u, EVL, k) = E(k)
    BY DEF G, E
  <2>3. CASE p = <<GEN, d>>
    <3>1. p[1] = GEN /\ p[2] = d
      BY <2>3
    <3>2. CASE q = <<GEN, x>>
      BY <1>3, <1>4, <1>8, <2>2, <2>3, <3>1, <3>2
    <3>3. CASE q = <<EVL, x>>
      BY <1>3, <1>4, <1>8, <2>2, <2>3, <3>1, <3>3
    <3> QED
      BY <2>1, <3>2, <3>3
  <2>4. CASE p = <<EVL, d>>
    <3>1. p[1] = EVL /\ p[2] = d
      BY <2>4
    <3>2. CASE q = <<GEN, x>>
      BY <1>3, <1>4, <1>8, <2>2, <2>4, <3>1, <3>2
    <3>3. CASE q = <<EVL, x>>
      BY <1>3, <1>4, <1>8, <2>2, <2>4, <3>1, <3>3
    <3> QED
      BY <2>1, <3>2, <3>3
  <2> QED
    BY <2>1, <2>3, <2>4
<1> QED
  BY <1>9 DEF GoodPrograms, D

\* The invariant of the machine, for the schedules of every run.
LEMMA ProtocolInvariance == Spec => []ProtocolInv
<1>1. Init => ProtocolInv
  <2> SUFFICES ASSUME Init PROVE ProtocolInv
    OBVIOUS
  <2>1. setup \in Setups
    BY DEF Init
  <2>2. GoodPrograms(setup)
    BY <2>1, ProgramsGood
  <2> QED
    BY <2>2, InitInv
<1>2. ProtocolInv /\ [Next]_vars => ProtocolInv'
  BY ProtocolNext
<1> QED
  BY <1>1, <1>2, PTL DEF Spec

\* Every message is read as what it was sent as: the sends and receives of the
\* two partners, written apart and looping apart in Yao.cpp, BetterYao.cpp and
\* BetterYao2.cpp, are in the same order, whatever the run.
THEOREM MessagesMatch == Spec => []Matched
BY ProtocolInvariance, InvMatched, PTL

\* The collectives of a cluster meet: the n-th one is the root's n-th, for every
\* node of every run.
THEOREM CollectivesMeet == Spec => []CollectivesAgree
BY ProtocolInvariance, InvAgree, PTL

-----------------------------------------------------------------------------
(***************************************************************************)
(* The evaluator's output, for every number of nodes, circuits and outputs.*)
(***************************************************************************)
OutputTypeOK ==
  /\ m_all_chks \in [Cct -> {0, 1}]
  /\ m_all_chks[0] = 0
  /\ cct_out \in [Cct -> Outs]
  /\ gathered \subseteq Node
  /\ recv \in [Cct -> Outs]

\* What has been gathered so far.
RecvInv == \A c \in Cct : c \div Load \in gathered => recv[c] = Sent(c)

\* The output is picked from all that was sent.
OutInv == evl_out # None =>
  /\ gathered = Node
  /\ evl_out \in Outs
  /\ IsNth(recv, MedianIx, evl_out)

\* The inductive invariant.
OutputInv == OutputTypeOK /\ RecvInv /\ OutInv

\* Every circuit belongs to a node.
LEMMA NodeOfCct ==
  /\ CctCnt \in Nat /\ 0 \in Cct
  /\ \A c \in Cct : c \div Load \in Node
<1>1. NodeAmnt \in Nat \ {0} /\ Load \in Nat \ {0}
  BY EvlOutputAssumption
<1>2. CctCnt \in Nat /\ CctCnt > 0
  BY <1>1, Z3 DEF CctCnt
<1>3. ASSUME NEW c \in Cct PROVE c \div Load \in Node
  <2>1. c \in Nat /\ c < NodeAmnt * Load
    BY <1>2 DEF Cct, CctCnt
  <2> DEFINE d == c \div Load
  <2>2. d \in Nat /\ d * Load <= c
    BY <1>1, <2>1
  <2> HIDE DEF d
  <2>3. d < NodeAmnt
    <3> SUFFICES ASSUME d >= NodeAmnt PROVE FALSE
      BY <1>1, <2>2
    <3>1. d * Load >= NodeAmnt * Load
      BY <1>1, <2>2
    <3>2. d * Load \in Nat /\ NodeAmnt * Load \in Nat
      BY <1>1, <2>2
    <3> QED
      BY <2>1, <2>2, <3>1, <3>2
  <2> QED
    BY <1>1, <2>2, <2>3 DEF Node, d
<1> QED
  BY <1>2, <1>3 DEF Cct

\* A run keeps what is gathered, and picks the output from it.
THEOREM OutputInvariance == OutputSpec => []OutputInv
<1>1. OutputInit => OutputInv
  BY EvlOutputAssumption DEF OutputInit, OutputInv, OutputTypeOK, RecvInv, OutInv, None
<1>2. OutputInv /\ [OutputNext]_output_vars => OutputInv'
  <2> SUFFICES ASSUME OutputInv, [OutputNext]_output_vars PROVE OutputInv'
    OBVIOUS
  <2>1. ASSUME NEW d \in Node, GatherOutput(d) PROVE OutputInv'
    <3>1. /\ m_all_chks' = m_all_chks /\ cct_out' = cct_out /\ evl_out' = evl_out
          /\ gathered' = gathered \cup {d} /\ d \notin gathered
          /\ recv' = [c \in Cct |-> IF c \div Load = d THEN Sent(c) ELSE recv[c]]
      BY <2>1 DEF GatherOutput
    <3>2. \A c \in Cct : Sent(c) \in Outs /\ Sent(c)' = Sent(c)
      BY <3>1, EvlOutputAssumption DEF OutputInv, OutputTypeOK, Sent
    <3>3. OutputTypeOK'
      BY <3>1, <3>2 DEF OutputInv, OutputTypeOK
    <3>4. RecvInv'
      BY <3>1, <3>2 DEF OutputInv, RecvInv
    <3>5. OutInv'
      BY <3>1 DEF OutputInv, OutInv
    <3> QED
      BY <3>3, <3>4, <3>5 DEF OutputInv
  <2>2. CASE Median
    <3>1. OutputTypeOK' /\ RecvInv'
      BY <2>2 DEF Median, OutputInv, OutputTypeOK, RecvInv, Sent
    <3>2. OutInv'
      BY <2>2 DEF Median, OutInv, IsNth, MedianIx, Chks
    <3> QED
      BY <3>1, <3>2 DEF OutputInv
  <2>3. CASE UNCHANGED output_vars
    BY <2>3 DEF output_vars, OutputInv, OutputTypeOK, RecvInv, OutInv, Sent, IsNth, MedianIx, Chks
  <2> QED
    BY <2>1, <2>2, <2>3 DEF OutputNext, OutputFinished
<1> QED
  BY <1>1, <1>2, PTL DEF OutputSpec

\* The circuits are finitely many, each a check- or an evaluation-circuit, and
\* one at least is evaluated.
LEMMA Counting ==
  ASSUME OutputTypeOK
  PROVE  /\ \A A \in SUBSET Cct : /\ IsFiniteSet(A)
                                 /\ Cardinality(A) \in Nat
                                 /\ Cardinality(Cct \ A) = CctCnt - Cardinality(A)
         /\ Cardinality(Chks) + Cardinality(Evls) = CctCnt
         /\ Cardinality(Evls) > 0
<1>1. IsFiniteSet(Cct) /\ Cardinality(Cct) = CctCnt
  BY NodeOfCct, FS_Interval DEF Cct
<1>2. ASSUME NEW A \in SUBSET Cct
      PROVE  /\ IsFiniteSet(A)
             /\ Cardinality(A) \in Nat
             /\ Cardinality(Cct \ A) = CctCnt - Cardinality(A)
  <2>1. IsFiniteSet(A) /\ Cardinality(A) \in Nat
    BY <1>1, FS_Subset, FS_CardinalityType
  <2>2. Cardinality(Cct \ A) = Cardinality(Cct) - Cardinality(Cct \cap A)
    BY <1>1, <2>1, FS_Difference
  <2>3. Cct \cap A = A
    OBVIOUS
  <2> QED
    BY <1>1, <2>1, <2>2, <2>3
<1>3. Evls = Cct \ Chks /\ Chks \in SUBSET Cct /\ Evls \in SUBSET Cct
  BY DEF OutputTypeOK, Evls, Chks
<1>4. Cardinality(Evls) # 0
  <2>1. 0 \in Evls
    BY NodeOfCct DEF OutputTypeOK, Evls
  <2> QED
    BY <1>2, <1>3, <2>1, FS_EmptySet
<1>5. Cardinality(Evls) \in Nat /\ Cardinality(Chks) \in Nat
      /\ Cardinality(Evls) = CctCnt - Cardinality(Chks)
  BY <1>2, <1>3
<1>6. Cardinality(Chks) + Cardinality(Evls) = CctCnt /\ Cardinality(Evls) > 0
  BY <1>4, <1>5, NodeOfCct
<1> QED
  BY <1>2, <1>6

\* Where the median is, in numbers: below it are all check-circuits and half of
\* the evaluation-circuits.
LEMMA MedianBounds ==
  ASSUME OutputTypeOK
  PROVE  /\ MedianIx \in Nat
         /\ 2 * MedianIx <= 2 * Cardinality(Chks) + Cardinality(Evls)
         /\ 2 * MedianIx >= 2 * Cardinality(Chks) + Cardinality(Evls) - 1
<1>1. /\ Cardinality(Chks) \in Nat /\ Cardinality(Evls) \in Nat
      /\ CctCnt = Cardinality(Chks) + Cardinality(Evls)
  BY Counting, NodeOfCct DEF Chks, Evls
<1> QED
  BY <1>1 DEF MedianIx

\* What has been gathered from all nodes.
LEMMA AllSent ==
  ASSUME OutputInv, evl_out # None
  PROVE  \A c \in Cct : recv[c] = Sent(c)
BY NodeOfCct DEF OutputInv, OutInv, RecvInv

\* The evaluator's output is what more than half of the evaluation-circuits
\* say, if there is such an output: the zeros of the check-circuits sort first
\* and shift the median by as many places.
THEOREM MajorityAlwaysWins == OutputSpec => []MajorityWins
<1>1. OutputInv => MajorityWins
  <2> SUFFICES ASSUME OutputInv, evl_out # None, NEW v \in Outs,
                      2 * Cardinality({c \in Evls : cct_out[c] = v}) > Cardinality(Evls)
               PROVE  evl_out = v
    BY DEF MajorityWins
  <2> DEFINE Agree == {c \in Evls : cct_out[c] = v}
             Low   == {c \in Cct : recv[c] < evl_out}
             Upto  == {c \in Cct : recv[c] <= evl_out}
             t == Cardinality(Chks)
             e == Cardinality(Evls)
             a == Cardinality(Agree)
  <2>1. /\ \A c \in Cct : recv[c] = Sent(c)
        /\ evl_out \in Nat /\ v \in Nat
        /\ OutputTypeOK
    BY AllSent, EvlOutputAssumption DEF OutputInv, OutInv
  <2>2. Cardinality(Low) <= MedianIx /\ MedianIx < Cardinality(Upto)
    BY DEF OutputInv, OutInv, IsNth
  <2>3. /\ Agree \in SUBSET Cct /\ Low \in SUBSET Cct /\ Upto \in SUBSET Cct
        /\ Chks \in SUBSET Cct /\ Evls \in SUBSET Cct
    BY DEF Evls, Chks
  <2>4. /\ t \in Nat /\ e \in Nat /\ a \in Nat /\ t + e = CctCnt
        /\ Cardinality(Low) \in Nat /\ Cardinality(Upto) \in Nat
    BY <2>1, <2>3, Counting
  <2>5. \A c \in Agree : recv[c] = v
    BY <2>1 DEF Evls, Sent
  <2>6. CASE evl_out < v
    <3>1. Upto \subseteq Cct \ Agree
      BY <2>1, <2>5, <2>6
    <3>2. Cardinality(Upto) <= Cardinality(Cct \ Agree)
      <4>1. Cct \ Agree \in SUBSET Cct
        OBVIOUS
      <4>2. IsFiniteSet(Cct \ Agree)
        BY <2>1, <4>1, Counting
      <4> HIDE DEF Agree, Upto
      <4> QED
        BY <3>1, <4>2, FS_Subset
    <3>3. Cardinality(Cct \ Agree) = CctCnt - a
      BY <2>1, <2>3, Counting
    <3>4. MedianIx < CctCnt - a
      <4> HIDE DEF a, Agree, Upto
      <4> QED
        BY <2>2, <2>4, <3>2, <3>3, <2>1, MedianBounds, NodeOfCct
    <3>5. 2 * a > e
      OBVIOUS
    <3> HIDE DEF a, t, e
    <3> QED
      BY <2>1, <2>4, <3>4, <3>5, MedianBounds, NodeOfCct DEF t, e
  <2>7. CASE evl_out > v
    <3>1. Chks \cup Agree \subseteq Low
      <4>1. \A c \in Chks : recv[c] = 0
        BY <2>1 DEF Chks, Sent
      <4> QED
        BY <2>1, <2>3, <2>5, <2>7, <4>1
    <3>2. Cardinality(Chks \cup Agree) = t + a
      <4>1. Chks \cap Agree = {}
        BY DEF Chks, Evls
      <4>2. IsFiniteSet(Chks) /\ IsFiniteSet(Agree)
        BY <2>1, <2>3, Counting
      <4>3. Cardinality(Chks \cup Agree) = t + a - Cardinality(Chks \cap Agree)
        BY <4>2, FS_Union
      <4>4. Cardinality(Chks \cap Agree) = 0
        BY <4>1, FS_EmptySet
      <4> HIDE DEF t, a
      <4> QED
        BY <4>3, <4>4, <2>4
    <3>3. Cardinality(Chks \cup Agree) <= Cardinality(Low)
      <4>1. IsFiniteSet(Low)
        BY <2>1, <2>3, Counting
      <4> HIDE DEF Low, Agree
      <4> QED
        BY <3>1, <4>1, FS_Subset
    <3>4. t + a <= MedianIx
      <4> HIDE DEF t, a, Low, Agree
      <4> QED
        BY <2>1, <2>2, <2>4, <3>2, <3>3, MedianBounds
    <3>5. 2 * a > e
      OBVIOUS
    <3> HIDE DEF a, t, e
    <3> QED
      BY <2>1, <2>4, <3>4, <3>5, MedianBounds DEF t, e
  <2> QED
    BY <2>1, <2>6, <2>7
<1> QED
  BY <1>1, OutputInvariance, PTL

\* The zeros that stand for check-circuits are never taken for the output:
\* they are too few to reach the median.
THEOREM OutputAlwaysEvaluated == OutputSpec => []OutputIsEvaluated
<1>1. OutputInv => OutputIsEvaluated
  <2> SUFFICES ASSUME OutputInv, evl_out # None,
                      \A c \in Evls : cct_out[c] # evl_out
               PROVE  FALSE
    BY DEF OutputIsEvaluated
  <2> DEFINE Upto == {c \in Cct : recv[c] <= evl_out}
  <2>1. /\ \A c \in Cct : recv[c] = Sent(c)
        /\ evl_out \in Nat
        /\ OutputTypeOK
    BY AllSent, EvlOutputAssumption DEF OutputInv, OutInv
  <2>2. MedianIx < Cardinality(Upto) /\ \E c \in Cct : recv[c] = evl_out
    BY DEF OutputInv, OutInv, IsNth
  <2>3. evl_out = 0
    <3>1. PICK c \in Cct : recv[c] = evl_out
      BY <2>2
    <3>2. c \notin Evls
      BY <2>1, <3>1 DEF Sent, Evls
    <3> QED
      BY <2>1, <3>1, <3>2 DEF OutputTypeOK, Sent, Evls
  <2>4. Upto \subseteq Chks
    <3> SUFFICES ASSUME NEW c \in Cct, recv[c] <= 0, c \notin Chks PROVE FALSE
      BY <2>3
    <3>1. c \in Evls /\ recv[c] = cct_out[c] /\ cct_out[c] \in Nat
      BY <2>1, EvlOutputAssumption DEF OutputTypeOK, Chks, Evls, Sent
    <3> QED
      BY <2>3, <3>1
  <2>5. Chks \in SUBSET Cct /\ Upto \in SUBSET Cct
    BY DEF Chks
  <2>6. /\ IsFiniteSet(Chks) /\ Cardinality(Chks) \in Nat /\ Cardinality(Upto) \in Nat
        /\ Cardinality(Evls) \in Nat /\ Cardinality(Evls) > 0
    <3>1. Evls \in SUBSET Cct
      BY DEF Evls
    <3> QED
      BY <2>1, <2>5, <3>1, Counting
  <2> HIDE DEF Upto
  <2>7. Cardinality(Upto) <= Cardinality(Chks)
    BY <2>4, <2>6, FS_Subset
  <2> QED
    BY <2>1, <2>2, <2>6, <2>7, MedianBounds
<1> QED
  BY <1>1, OutputInvariance, PTL
=============================================================================
