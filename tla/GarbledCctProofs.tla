-------------------------- MODULE GarbledCctProofs --------------------------
(***************************************************************************)
(* Proofs about GarbledCct for every label length, every set of compiled   *)
(* circuits, every generator and every hash function.                      *)
(***************************************************************************)
EXTENDS GarbledCct, FiniteSetTheorems, TLAPS

(***************************************************************************)
(* The algebra of labels.                                                  *)
(***************************************************************************)

\* Labels are closed under the operations GarbledCct applies to them.
LEMMA LabelTypes ==
  /\ \A v : Clear(v) \in Label
  /\ \A a, b \in Label : a \oplus b \in Label
  /\ \A a \in Label : Lsb(a) \in Bit
  /\ \A p, q : BitXor(p, q) \in Bit
<1>1. 0 \in 0 .. K - 1
  BY KAssumption
<1> QED
  BY <1>1 DEF Clear, Label, Bit, BitXor, Lsb, \oplus

\* Masking twice with one label restores what was masked.
LEMMA Unmask ==
  ASSUME NEW a \in Label, NEW b \in Label
  PROVE  a \oplus (a \oplus b) = b
BY DEF Label, Bit, BitXor, \oplus

\* Free XOR: shifting two labels by R shifts their xor by the xor of the bits.
LEMMA XorOffset ==
  ASSUME NEW a \in Label, NEW b \in Label, NEW r \in Label,
         NEW p \in Bit, NEW q \in Bit
  PROVE  Offset(a, p, r) \oplus Offset(b, q, r) = Offset(a \oplus b, BitXor(p, q), r)
<1>1. (a \oplus r) \oplus (b \oplus r) = a \oplus b
  BY DEF Label, Bit, BitXor, \oplus
<1>2. (a \oplus r) \oplus b = (a \oplus b) \oplus r
  BY DEF Label, Bit, BitXor, \oplus
<1>3. a \oplus (b \oplus r) = (a \oplus b) \oplus r
  BY DEF Label, Bit, BitXor, \oplus
<1> QED
  BY <1>1, <1>2, <1>3 DEF Offset, Bit, BitXor

\* Shifting twice by the same bit restores the label.
LEMMA OffsetTwice ==
  ASSUME NEW a \in Label, NEW r \in Label, NEW p \in Bit
  PROVE  /\ Offset(a, p, r) \in Label
         /\ Offset(Offset(a, p, r), p, r) = a
BY DEF Label, Bit, BitXor, \oplus, Offset

\* R has bit 0 set.
LEMMA RType ==
  ASSUME NEW s
  PROVE  R(s) \in Label /\ Lsb(R(s)) = 1
<1>1. 0 \in 0 .. K - 1
  BY KAssumption
<1> QED
  BY <1>1, LabelTypes DEF R, Lsb, Label, Bit

\* Because bit 0 of R is set, a label's permutation bit tells which of the
\* two labels of its wire it is, and the two are different.
LEMMA LsbOffset ==
  ASSUME NEW s, NEW z \in Label, NEW b \in Bit
  PROVE  /\ Lsb(Offset(z, b, R(s))) = BitXor(Lsb(z), b)
         /\ BitXor(Lsb(z), Lsb(Offset(z, b, R(s)))) = b
         /\ z # z \oplus R(s)
<1>1. 0 \in 0 .. K - 1
  BY KAssumption
<1>2. Lsb(z \oplus R(s)) = BitXor(Lsb(z), 1)
  BY <1>1, RType DEF Lsb, \oplus
<1>3. Lsb(z) \in Bit
  BY LabelTypes
<1> QED
  BY <1>2, <1>3 DEF Offset, BitXor, Bit

\* Looking a wire's label up by its own permutation bit yields that label.
LEMMA LabelAtOwn ==
  ASSUME NEW s, NEW z \in Label, NEW b \in Bit
  PROVE  LabelAt(s, z, Lsb(Offset(z, b, R(s)))) = Offset(z, b, R(s))
BY LsbOffset DEF LabelAt

(***************************************************************************)
(* Garbling and evaluating one gate.                                       *)
(***************************************************************************)

\* The zero key of a gate with inputs is a label.
LEMMA OpZeroKeyType ==
  ASSUME NEW s, NEW g \in Gate, NEW n, NEW w \in [Slot -> Label]
  PROVE  OpZeroKey(s, g, n, w) \in Label
<1>1. w[g.x] \in Label /\ w[g.y] \in Label
  BY DEF Gate
<1>2. Pad(s, g, n, w, 0) \in Label
  BY LabelTypes DEF Pad
<1>3. \A p : Offset(Pad(s, g, n, w, 0), p, R(s)) \in Label
  BY <1>2, LabelTypes, RType DEF Offset
<1> QED
  BY <1>1, <1>3, LabelTypes DEF OpZeroKey

\* A row of a garbled table is a label.
LEMMA OpRowType ==
  ASSUME NEW s, NEW g \in Gate, NEW n, NEW w \in [Slot -> Label], NEW e
  PROVE  OpRow(s, g, n, w, e) \in Label
<1>1. Pad(s, g, n, w, e) \in Label
  BY LabelTypes DEF Pad
<1>2. \A p : Offset(OpZeroKey(s, g, n, w), p, R(s)) \in Label
  BY OpZeroKeyType, LabelTypes, RType DEF Offset
<1> QED
  BY <1>1, <1>2, LabelTypes DEF OpRow

\* The message of a gate with inputs is well formed: gen_next_gate sends only
\* label-sized rows.
LEMMA OpMessageType ==
  ASSUME NEW s, NEW g \in Gate, NEW n, NEW w \in [Slot -> Label]
  PROVE  OpMessage(s, g, n, w) \in Message
<1>1. Rows(g) \in Nat
  BY DEF Rows
<1>2. [e \in 1..Rows(g) |-> OpRow(s, g, n, w, e)] \in Seq(Label)
  BY <1>1, OpRowType
<1>3. <<Lsb(OpZeroKey(s, g, n, w))>> \in Seq(Bit)
  BY OpZeroKeyType, LabelTypes
<1> QED
  BY <1>2, <1>3 DEF OpMessage, Message

\* The message of an input gate is well formed: the two ciphertexts of its
\* labels.
LEMMA InpMessageType ==
  ASSUME NEW s, NEW z \in Label, NEW k0 \in Label, NEW k1 \in Label, NEW first
  PROVE  InpMessage(s, z, k0, k1, first) \in Message
BY LabelTypes, RType DEF InpMessage, Message

\* An input wire: whichever of the two ciphertexts the evaluator's bit points
\* at, its key for that bit opens the label of that bit.
LEMMA OpenInput ==
  ASSUME NEW s, NEW z \in Label, NEW k \in [Bit -> Label],
         NEW first \in Bit, NEW b \in Bit
  PROVE  k[b] \oplus InpMessage(s, z, k[0], k[1], first).keys[BitXor(first, b) + 1]
           = Offset(z, b, R(s))
<1>1. k[0] \in Label /\ k[1] \in Label /\ z \oplus R(s) \in Label
  BY LabelTypes, RType DEF Bit
<1>2. /\ k[0] \oplus (k[0] \oplus z) = z
      /\ k[1] \oplus (k[1] \oplus (z \oplus R(s))) = z \oplus R(s)
  BY <1>1, Unmask
<1> QED
  BY <1>2 DEF InpMessage, Offset, Bit, BitXor

\* A gate with inputs: holding the labels of bits bx and by under the zero
\* keys w, the evaluator computes the label of the row of the truth table they
\* select, whatever the permutation bits and the hash functions are.
LEMMA OpenGate ==
  ASSUME NEW s, NEW g \in Gate, g.arity # 0, NEW n,
         NEW w \in [Slot -> Label], NEW bx \in Bit, NEW by \in Bit,
         NEW v, v[g.x] = Offset(w[g.x], bx, R(s)),
         g.arity = 2 => v[g.y] = Offset(w[g.y], by, R(s))
  PROVE  LET lx  == v[g.x]
             ly  == v[g.y]
             ix  == Row(g, Lsb(lx), Lsb(ly))
             pad == Clear(IF g.arity = 2 THEN KDF256(n, lx, ly) ELSE KDF128(n, lx))
         IN  (IF IsXor(g) THEN IF g.arity = 2 THEN lx \oplus ly ELSE lx
              ELSE IF ix = 0 THEN pad
              ELSE pad \oplus OpMessage(s, g, n, w).keys[ix])
               = Offset(OpZeroKey(s, g, n, w), g.table[Row(g, bx, by)], R(s))
<1> DEFINE zk == OpZeroKey(s, g, n, w)
           t  == g.table[Row(g, bx, by)]
           lx  == v[g.x]
           ly  == v[g.y]
           ix  == Row(g, Lsb(lx), Lsb(ly))
           pad == Clear(IF g.arity = 2 THEN KDF256(n, lx, ly) ELSE KDF128(n, lx))
<1>1. w[g.x] \in Label /\ w[g.y] \in Label /\ R(s) \in Label /\ g.arity \in {1, 2}
  BY RType DEF Gate
<1>2. t \in Bit
  BY <1>1 DEF Gate, Row, Bit
<1>3. zk \in Label /\ pad \in Label
  BY OpZeroKeyType, LabelTypes
<1>4. CASE IsXor(g) /\ g.arity = 2
  <2>1. t = BitXor(bx, by)
    BY <1>4 DEF IsXor, Row, Bit, BitXor
  <2> QED
    BY <1>4, <2>1, <1>1, XorOffset DEF OpZeroKey
<1>5. CASE IsXor(g) /\ g.arity = 1
  <2>1. t = bx
    BY <1>5 DEF IsXor, Row, Bit
  <2> QED
    BY <1>5, <2>1 DEF OpZeroKey
<1>6. CASE ~IsXor(g)
  <2>1. Lsb(lx) \in Bit /\ BitXor(Lsb(w[g.x]), Lsb(lx)) = bx
        /\ LabelAt(s, w[g.x], Lsb(lx)) = lx
    <3>1. w[g.x] \in Label
      BY <1>1
    <3>2. /\ LabelAt(s, w[g.x], Lsb(Offset(w[g.x], bx, R(s)))) = Offset(w[g.x], bx, R(s))
          /\ BitXor(Lsb(w[g.x]), Lsb(Offset(w[g.x], bx, R(s)))) = bx
          /\ Lsb(Offset(w[g.x], bx, R(s))) \in Bit
      <4>1. Offset(w[g.x], bx, R(s)) \in Label
        BY <3>1, <1>1, OffsetTwice
      <4>2. LabelAt(s, w[g.x], Lsb(Offset(w[g.x], bx, R(s)))) = Offset(w[g.x], bx, R(s))
        BY <3>1, LabelAtOwn
      <4>3. BitXor(Lsb(w[g.x]), Lsb(Offset(w[g.x], bx, R(s)))) = bx
        BY <3>1, LsbOffset
      <4> QED
        BY <4>1, <4>2, <4>3, LabelTypes
    <3> QED
      BY <3>2
  <2>2. g.arity = 2 => /\ Lsb(ly) \in Bit /\ BitXor(Lsb(w[g.y]), Lsb(ly)) = by
                       /\ LabelAt(s, w[g.y], Lsb(ly)) = ly
    <3>1. w[g.y] \in Label
      BY <1>1
    <3>2. /\ LabelAt(s, w[g.y], Lsb(Offset(w[g.y], by, R(s)))) = Offset(w[g.y], by, R(s))
          /\ BitXor(Lsb(w[g.y]), Lsb(Offset(w[g.y], by, R(s)))) = by
          /\ Lsb(Offset(w[g.y], by, R(s))) \in Bit
      <4>1. Offset(w[g.y], by, R(s)) \in Label
        BY <3>1, <1>1, OffsetTwice
      <4>2. LabelAt(s, w[g.y], Lsb(Offset(w[g.y], by, R(s)))) = Offset(w[g.y], by, R(s))
        BY <3>1, LabelAtOwn
      <4>3. BitXor(Lsb(w[g.y]), Lsb(Offset(w[g.y], by, R(s)))) = by
        BY <3>1, LsbOffset
      <4> QED
        BY <4>1, <4>2, <4>3, LabelTypes
    <3> QED
      BY <3>2
  <2>3. /\ Low(ix) = Lsb(lx)
        /\ g.arity = 2 => High(ix) = Lsb(ly)
        /\ ix \in 0..3
        /\ g.arity = 1 => ix \in 0..1
    BY <1>1, <2>1, <2>2 DEF Row, Low, High, Bit
  <2>4. Pad(s, g, n, w, ix) = pad
    BY <1>1, <2>1, <2>2, <2>3 DEF Pad
  <2>5. g.table[TrueRow(g, w, ix)] = t
    BY <1>1, <2>1, <2>2, <2>3 DEF TrueRow, Row
  <2>6. CASE ix = 0
    <3>1. zk = Offset(pad, t, R(s))
      BY <1>6, <2>4, <2>5, <2>6 DEF OpZeroKey
    <3>2. Offset(Offset(pad, t, R(s)), t, R(s)) = pad
      BY <1>1, <1>2, <1>3, OffsetTwice
    <3> QED
      BY <1>6, <2>6, <3>1, <3>2
  <2>7. CASE ix # 0
    <3>1. ix \in 1..Rows(g)
      BY <1>1, <1>6, <2>3, <2>7 DEF Rows
    <3>2. OpMessage(s, g, n, w).keys[ix] = pad \oplus Offset(zk, t, R(s))
      BY <3>1, <2>4, <2>5 DEF OpMessage, OpRow
    <3>3. Offset(zk, t, R(s)) \in Label
      BY <1>1, <1>2, <1>3, OffsetTwice
    <3>4. pad \oplus (pad \oplus Offset(zk, t, R(s))) = Offset(zk, t, R(s))
      BY <1>3, <3>3, Unmask
    <3> QED
      BY <1>6, <2>7, <3>2, <3>4
  <2> QED
    BY <2>6, <2>7
<1> QED
  BY <1>1, <1>4, <1>5, <1>6

(***************************************************************************)
(* Counting the input gates.                                               *)
(***************************************************************************)

\* The input counters as functions of the gate number.
LEMMA CountFinite ==
  ASSUME NEW c, NEW t, NEW n \in Nat
  PROVE  IsFiniteSet({i \in 1..n : c[i].tag = t}) /\ Count(c, t, n) \in Nat
<1>1. IsFiniteSet(1..n)
  BY FS_Interval
<1>2. {i \in 1..n : c[i].tag = t} \subseteq 1..n
  OBVIOUS
<1>3. IsFiniteSet({i \in 1..n : c[i].tag = t})
  BY <1>1, <1>2, FS_Subset
<1> QED
  BY <1>3, FS_CardinalityType DEF Count

\* One gate more counts one more exactly when it has the tag: how the counters
\* m_gen_inp_ix and m_evl_inp_ix move.
LEMMA CountStep ==
  ASSUME NEW c, NEW t, NEW n \in Nat
  PROVE  /\ Count(c, t, n) \in Nat
         /\ Count(c, t, n + 1) = Count(c, t, n) + (IF c[n + 1].tag = t THEN 1 ELSE 0)
<1> DEFINE S(m) == {i \in 1..m : c[i].tag = t}
<1>1. IsFiniteSet(S(n)) /\ Count(c, t, n) \in Nat
  BY CountFinite
<1>2. CASE c[n + 1].tag = t
  <2>1. S(n + 1) = S(n) \cup {n + 1} /\ n + 1 \notin S(n)
    BY <1>2
  <2> QED
    BY <1>1, <1>2, <2>1, FS_AddElement DEF Count
<1>3. CASE c[n + 1].tag # t
  <2>1. S(n + 1) = S(n)
    BY <1>3
  <2>2. QED
    <3>1. Count(c, t, n + 1) = Count(c, t, n)
      BY <2>1 DEF Count
    <3> QED
      BY <1>1, <1>3, <3>1
<1> QED
  BY <1>2, <1>3

\* Before the first gate the counters are zero.
LEMMA CountZero ==
  ASSUME NEW c, NEW t
  PROVE  Count(c, t, 0) = 0
<1>1. {i \in 1..0 : c[i].tag = t} = {}
  OBVIOUS
<1> QED
  BY <1>1, FS_EmptySet DEF Count

\* An input gate finds an input bit that has not been consumed.
LEMMA CountBound ==
  ASSUME NEW c, NEW t, NEW n \in Nat, Len(c) \in Nat, n < Len(c), c[n + 1].tag = t
  PROVE  Count(c, t, n) \in 0 .. Count(c, t, Len(c)) - 1
<1> DEFINE S(m) == {i \in 1..m : c[i].tag = t}
<1>1. IsFiniteSet(S(Len(c))) /\ S(n + 1) \subseteq S(Len(c))
  <2>1. IsFiniteSet(S(Len(c)))
    BY CountFinite
  <2>2. S(n + 1) \subseteq S(Len(c))
    OBVIOUS
  <2> QED
    BY <2>1, <2>2
<1>2. Cardinality(S(n + 1)) <= Cardinality(S(Len(c)))
  BY <1>1, FS_Subset
<1>3. Count(c, t, n + 1) <= Count(c, t, Len(c))
  BY <1>2 DEF Count
<1>4. Count(c, t, n) \in Nat /\ Count(c, t, Len(c)) \in Nat
      /\ Count(c, t, n + 1) = Count(c, t, n) + 1
  BY CountStep, CountFinite
<1> QED
  BY <1>3, <1>4

(***************************************************************************)
(* The steps of the two parties, restated in the terms of the invariant.   *)
(***************************************************************************)
IInv == TypeOK /\ InStep /\ LabelsAgree

\* The circuit chosen at the start is one of Circuits, well formed, with the
\* header's input counts.
LEMMA CircuitFacts ==
  ASSUME TypeOK
  PROVE  /\ cct \in Seq(Gate) /\ Len(cct) \in Nat
         /\ InpCnt(cct, GEN_INP) = Count(cct, GEN_INP, Len(cct))
         /\ InpCnt(cct, EVL_INP) = Count(cct, EVL_INP, Len(cct))
         /\ \A i \in 1..Len(cct) :
               /\ cct[i] \in Gate
               /\ cct[i].tag \in InpTags <=> cct[i].arity = 0
               /\ Reads(cct[i]) \subseteq Written(cct, i - 1)
BY CircuitsAssumption DEF TypeOK, WellFormed, InpTags

\* A step of the generator sends the message and stores the zero key that
\* InStep expects of the gate, and both have their types.
LEMMA GenStepSends ==
  ASSUME TypeOK, InStep, GenStep
  PROVE  LET i == gen.gate_ix + 1
         IN  /\ gen.gate_ix < Len(cct)
             /\ GenSend(MessageOf(i), ZeroKeyOf(i))
             /\ MessageOf(i) \in Message
             /\ ZeroKeyOf(i) \in Label
<1> DEFINE i == gen.gate_ix + 1
           g == cct[i]
<1>1. /\ gen.gate_ix \in Nat /\ gen.gate_ix < Len(cct) /\ i - 1 = gen.gate_ix
      /\ i \in 1..Len(cct) /\ snap[i] = gen.w /\ g \in Gate
      /\ gen.w \in [Slot -> Label]
  <2>1. gen.gate_ix < Len(cct)
    BY DEF GenStep, GenGenInp, GenEvlInp, GenOp, GenMore
  <2>2. gen.gate_ix \in Nat /\ gen.w \in [Slot -> Label]
    BY DEF TypeOK
  <2>3. Len(cct) \in Nat /\ \A j \in 1..Len(cct) : cct[j] \in Gate
    BY CircuitFacts
  <2>4. i - 1 = gen.gate_ix /\ i \in 1..Len(cct)
    BY <2>1, <2>2, <2>3
  <2> QED
    BY <2>1, <2>2, <2>3, <2>4 DEF InStep
<1>2. /\ gen.gen_inp_ix = Count(cct, GEN_INP, i - 1)
      /\ gen.evl_inp_ix = Count(cct, EVL_INP, i - 1)
  BY <1>1 DEF InStep
<1>3. \A n, b : InpZeroKey(seed, n) \in Label /\ MKey(seed, n, b) \in Label
  BY LabelTypes DEF InpZeroKey, MKey
<1>4. CASE GenGenInp
  <2>1. g.tag = GEN_INP
    BY <1>4 DEF GenGenInp, GenGate
  <2>2. /\ MessageOf(i) = GenInpMessage(seed, gen.gen_inp_ix,
              gen_inp_mask[gen.gen_inp_ix],
              InpZeroKey(seed, gen.gen_inp_ix + gen.evl_inp_ix))
        /\ ZeroKeyOf(i) = InpZeroKey(seed, gen.gen_inp_ix + gen.evl_inp_ix)
    BY <1>2, <2>1 DEF MessageOf, ZeroKeyOf, InpTags
  <2>3. MessageOf(i) \in Message /\ ZeroKeyOf(i) \in Label
    BY <1>3, <2>2, InpMessageType DEF GenInpMessage
  <2> QED
    BY <1>1, <1>4, <2>2, <2>3 DEF GenGenInp
<1>5. CASE GenEvlInp
  <2>1. g.tag = EVL_INP
    BY <1>5 DEF GenEvlInp, GenGate
  <2>2. /\ MessageOf(i) = EvlInpMessage(seed, ot_keys[gen.evl_inp_ix],
              InpZeroKey(seed, gen.gen_inp_ix + gen.evl_inp_ix))
        /\ ZeroKeyOf(i) = InpZeroKey(seed, gen.gen_inp_ix + gen.evl_inp_ix)
    BY <1>2, <2>1 DEF MessageOf, ZeroKeyOf, InpTags, GEN_INP, EVL_INP
  <2>3. gen.evl_inp_ix \in 0 .. InpCnt(cct, EVL_INP) - 1
    BY <1>1, <1>2, <2>1, CountBound, CircuitFacts
  <2>4. ot_keys[gen.evl_inp_ix] \in [Bit -> Label]
    BY <2>3, GarblingAssumption DEF TypeOK
  <2>5. MessageOf(i) \in Message /\ ZeroKeyOf(i) \in Label
    BY <1>3, <2>2, <2>4, InpMessageType DEF EvlInpMessage, Bit
  <2> QED
    BY <1>1, <1>5, <2>2, <2>5 DEF GenEvlInp
<1>6. CASE GenOp
  <2>1. g.tag \notin InpTags
    BY <1>6 DEF GenOp, GenGate
  <2>2. /\ MessageOf(i) = OpMessage(seed, g, gen.gate_ix, gen.w)
        /\ ZeroKeyOf(i) = OpZeroKey(seed, g, gen.gate_ix, gen.w)
    BY <1>1, <2>1 DEF MessageOf, ZeroKeyOf, InpTags
  <2>3. MessageOf(i) \in Message /\ ZeroKeyOf(i) \in Label
    BY <1>1, <2>2, OpMessageType, OpZeroKeyType
  <2> QED
    BY <1>1, <1>6, <2>2, <2>3 DEF GenOp, GenGate
<1> QED
  BY <1>4, <1>5, <1>6 DEF GenStep

\* The bit the circuit computes at the evaluator's next gate.
PlainBit ==
  LET g == EvlGate
  IN  IF g.tag = GEN_INP THEN gen_inp[evl.gen_inp_ix]
      ELSE IF g.tag = EVL_INP THEN evl_inp[evl.evl_inp_ix]
      ELSE g.table[Row(g, PlainWire[g.x], PlainWire[g.y])]

EvlKey ==
  LET g == EvlGate
  IN  IF g.tag = GEN_INP THEN EvlKeyGenInp
      ELSE IF g.tag = EVL_INP THEN EvlKeyEvlInp
      ELSE EvlKeyOp(g)

\* A wire the evaluator has a label for carries the label of its plain bit.
LEMMA WireLabel ==
  ASSUME IInv, NEW x \in Written(cct, evl.gate_ix)
  PROVE  /\ PlainWire[x] \in Bit
         /\ evl.w[x] = Offset(Zeros[x], PlainWire[x], R(seed))
<1>1. evl.gate_ix \in 0..Len(cct) /\ \A i \in 1..Len(cct) : cct[i] \in Gate
  BY CircuitFacts DEF IInv, TypeOK, InStep
<1>2. x \in Slot
  BY <1>1 DEF Written, Gate
<1> QED
  BY <1>2 DEF IInv, LabelsAgree, PlainWire, Offset, Bit

\* The evaluator opens the label of the plain bit of its next gate.
LEMMA EvlStepKey ==
  ASSUME IInv, evl.gate_ix < gen.gate_ix
  PROVE  LET i == evl.gate_ix + 1
         IN  /\ i \in 1..gen.gate_ix /\ i \in 1..Len(cct) /\ cct[i] \in Gate
             /\ Zeros \in [Slot -> Label]
             /\ ZeroKeyOf(i) \in Label
             /\ PlainBit \in Bit
             /\ EvlKey = Offset(ZeroKeyOf(i), PlainBit, R(seed))
<1> DEFINE i == evl.gate_ix + 1
           g == cct[i]
<1>1. /\ evl.gate_ix \in Nat /\ gen.gate_ix \in Nat /\ i \in 1..gen.gate_ix
      /\ i \in 1..Len(cct) /\ g \in Gate /\ i - 1 = evl.gate_ix /\ g = EvlGate
      /\ Len(cct) \in Nat /\ evl.gate_ix < Len(cct)
      /\ g.tag \in InpTags <=> g.arity = 0
      /\ Reads(g) \subseteq Written(cct, evl.gate_ix)
  <2>1. /\ evl.gate_ix \in Nat /\ gen.gate_ix \in Nat /\ Len(cct) \in Nat
        /\ gen.gate_ix <= Len(cct)
    BY CircuitFacts DEF IInv, TypeOK, InStep
  <2>2. /\ i \in 1..gen.gate_ix /\ i \in 1..Len(cct) /\ i - 1 = evl.gate_ix
        /\ evl.gate_ix < Len(cct)
    BY <2>1
  <2>3. /\ g \in Gate
        /\ g.tag \in InpTags <=> g.arity = 0
        /\ Reads(g) \subseteq Written(cct, i - 1)
    BY <2>2, CircuitFacts DEF IInv
  <2> QED
    BY <2>1, <2>2, <2>3 DEF EvlGate
<1>2. Zeros \in [Slot -> Label] /\ Zeros = snap[i]
  <2>1. snap \in Seq([Slot -> Label]) /\ Len(snap) = gen.gate_ix + 1
    BY DEF IInv, TypeOK, InStep
  <2>2. i \in 1..Len(snap)
    BY <1>1, <2>1
  <2>3. snap[i] \in [Slot -> Label]
    BY <2>1, <2>2
  <2> QED
    BY <2>3 DEF Zeros
<1>3. Arrived = MessageOf(i)
  BY <1>1 DEF IInv, InStep, Arrived
<1>4. /\ evl.gen_inp_ix = Count(cct, GEN_INP, i - 1)
      /\ evl.evl_inp_ix = Count(cct, EVL_INP, i - 1)
  BY <1>1 DEF IInv, InStep
<1>5. \A n, b : InpZeroKey(seed, n) \in Label /\ MKey(seed, n, b) \in Label
  BY LabelTypes DEF InpZeroKey, MKey
<1>6. CASE g.tag = GEN_INP
  <2> DEFINE n == evl.gen_inp_ix
             z == InpZeroKey(seed, evl.gen_inp_ix + evl.evl_inp_ix)
             k == [b \in Bit |-> MKey(seed, n, b)]
  <2>1. n \in 0 .. InpCnt(cct, GEN_INP) - 1
    BY <1>1, <1>4, <1>6, CountBound, CircuitFacts DEF IInv
  <2>2. gen_inp[n] \in Bit /\ gen_inp_mask[n] \in Bit
    BY <2>1 DEF IInv, TypeOK, Inputs
  <2>3. /\ Arrived = InpMessage(seed, z, k[0], k[1], gen_inp_mask[n])
        /\ ZeroKeyOf(i) = z
    BY <1>3, <1>4, <1>6 DEF MessageOf, ZeroKeyOf, GenInpMessage, InpTags, Bit
  <2>4. k \in [Bit -> Label] /\ z \in Label /\ ChosenM(n) = k[gen_inp[n]]
    BY <1>5, <2>2 DEF ChosenM
  <2>5. k[gen_inp[n]] \oplus Arrived.keys[BitXor(gen_inp_mask[n], gen_inp[n]) + 1]
          = Offset(z, gen_inp[n], R(seed))
    BY <2>2, <2>3, <2>4, OpenInput
  <2>6. EvlKey = Offset(z, gen_inp[n], R(seed))
    BY <1>1, <1>6, <2>4, <2>5 DEF EvlKey, EvlKeyGenInp, MaskedInp
  <2>7. PlainBit = gen_inp[n]
    BY <1>1, <1>6 DEF PlainBit
  <2> QED
    BY <1>1, <1>2, <2>2, <2>3, <2>4, <2>6, <2>7
<1>7. CASE g.tag = EVL_INP
  <2> DEFINE n == evl.evl_inp_ix
             z == InpZeroKey(seed, evl.gen_inp_ix + evl.evl_inp_ix)
             k == ot_keys[n]
  <2>1. n \in 0 .. InpCnt(cct, EVL_INP) - 1
    BY <1>1, <1>4, <1>7, CountBound, CircuitFacts DEF IInv
  <2>2. evl_inp[n] \in Bit /\ k \in [Bit -> Label] /\ z \in Label
    BY <1>5, <2>1, GarblingAssumption DEF IInv, TypeOK, Inputs
  <2>3. /\ Arrived = InpMessage(seed, z, k[0], k[1], 0)
        /\ ZeroKeyOf(i) = z
    BY <1>3, <1>4, <1>7
    DEF MessageOf, ZeroKeyOf, EvlInpMessage, InpTags, GEN_INP, EVL_INP
  <2>4. k[evl_inp[n]] \oplus Arrived.keys[BitXor(0, evl_inp[n]) + 1]
          = Offset(z, evl_inp[n], R(seed))
    BY <2>2, <2>3, OpenInput DEF Bit
  <2>5. BitXor(0, evl_inp[n]) = evl_inp[n]
    BY <2>2 DEF BitXor, Bit
  <2>6. EvlKey = Offset(z, evl_inp[n], R(seed))
    BY <1>1, <1>7, <2>4, <2>5 DEF EvlKey, EvlKeyEvlInp, ChosenOt, GEN_INP, EVL_INP
  <2>7. PlainBit = evl_inp[n]
    BY <1>1, <1>7 DEF PlainBit, GEN_INP, EVL_INP
  <2> QED
    BY <1>1, <1>2, <2>2, <2>3, <2>6, <2>7
<1>8. CASE g.tag \notin InpTags
  <2> DEFINE bx == PlainWire[g.x]
             by == IF g.arity = 2 THEN PlainWire[g.y] ELSE 0
             n  == evl.gate_ix
  <2>1. g.arity \in {1, 2}
    BY <1>1, <1>8 DEF Gate
  <2>2. bx \in Bit /\ evl.w[g.x] = Offset(Zeros[g.x], bx, R(seed))
    BY <1>1, <2>1, WireLabel DEF Reads
  <2>3. by \in Bit /\ (g.arity = 2 => evl.w[g.y] = Offset(Zeros[g.y], by, R(seed)))
    BY <1>1, <2>1, WireLabel DEF Reads, Bit
  <2>4. /\ Arrived = OpMessage(seed, g, n, Zeros)
        /\ ZeroKeyOf(i) = OpZeroKey(seed, g, n, Zeros)
    BY <1>1, <1>2, <1>3, <1>8 DEF MessageOf, ZeroKeyOf, InpTags
  <2>5. PlainBit = g.table[Row(g, bx, by)]
    BY <1>1, <1>8 DEF PlainBit, InpTags, Row
  <2>6. EvlKey = EvlKeyOp(g)
    BY <1>1, <1>8 DEF EvlKey, InpTags
  <2>8. EvlKeyOp(g) = Offset(OpZeroKey(seed, g, n, Zeros), g.table[Row(g, bx, by)], R(seed))
    <3>1. g \in Gate /\ g.arity # 0 /\ Zeros \in [Slot -> Label]
      BY <1>1, <1>2, <2>1
    <3> HIDE DEF g, bx, by, n, i
    <3>2. (IF IsXor(g) THEN IF g.arity = 2 THEN evl.w[g.x] \oplus evl.w[g.y]
                            ELSE evl.w[g.x]
           ELSE IF GarbledIx(g) = 0 THEN EvlPad(g)
           ELSE EvlPad(g) \oplus OpMessage(seed, g, n, Zeros).keys[GarbledIx(g)])
             = Offset(OpZeroKey(seed, g, n, Zeros), g.table[Row(g, bx, by)], R(seed))
      BY <3>1, <2>2, <2>3, OpenGate DEF GarbledIx, EvlPad, n
    <3> QED
      BY <3>2, <2>4 DEF EvlKeyOp
  <2>9. ZeroKeyOf(i) \in Label
    BY <1>1, <1>2, <2>4, OpZeroKeyType
  <2>10. Row(g, bx, by) \in 0..3
    BY <2>1, <2>2, <2>3 DEF Row, Bit
  <2> QED
    BY <1>1, <1>2, <2>4, <2>5, <2>6, <2>8, <2>9, <2>10 DEF Gate
<1> QED
  BY <1>6, <1>7, <1>8 DEF InpTags

\* What a step of the evaluator changes.
LEMMA EvlStepTakes ==
  ASSUME IInv, EvlStep
  PROVE  LET g == EvlGate
             out == BitXor(Lsb(EvlKey), Arrived.perm[1])
         IN  /\ evl.gate_ix < gen.gate_ix
             /\ evl' = [w |-> [evl.w EXCEPT ![g.idx] = EvlKey],
                        gate_ix |-> evl.gate_ix + 1,
                        gen_inp_ix |-> IF g.tag = GEN_INP THEN evl.gen_inp_ix + 1
                                       ELSE evl.gen_inp_ix,
                        evl_inp_ix |-> IF g.tag = EVL_INP THEN evl.evl_inp_ix + 1
                                       ELSE evl.evl_inp_ix,
                        gen_out |-> IF g.tag = GEN_OUT THEN Append(evl.gen_out, out)
                                    ELSE evl.gen_out,
                        evl_out |-> IF g.tag = EVL_OUT THEN Append(evl.evl_out, out)
                                    ELSE evl.evl_out]
             /\ UNCHANGED <<params, gen, sent, snap>>
<1> USE DEF GEN_INP, EVL_INP, GEN_OUT, EVL_OUT, InpTags
<1>1. CASE EvlGenInp
  BY <1>1 DEF IInv, TypeOK, EvlGenInp, EvlMore, EvlKey
<1>2. CASE EvlEvlInp
  BY <1>2 DEF IInv, TypeOK, EvlEvlInp, EvlMore, EvlKey
<1>3. CASE EvlOp
  BY <1>3 DEF IInv, TypeOK, EvlOp, EvlMore, EvlKey
<1> QED
  BY <1>1, <1>2, <1>3 DEF EvlStep

(***************************************************************************)
(* The inductive invariant.                                                *)
(***************************************************************************)

\* gen_init and evl_init establish the invariant.
LEMMA InitIInv == Init => IInv
<1> SUFFICES ASSUME Init PROVE IInv
  OBVIOUS
<1>1. TypeOK
  BY GarblingAssumption DEF Init, TypeOK
<1>2. Len(cct) \in Nat
  BY <1>1, CircuitFacts
<1>3. InStep
  BY <1>2, CountZero DEF Init, InStep
<1>4. LabelsAgree
  BY DEF Init, LabelsAgree, Written
<1> QED
  BY <1>1, <1>3, <1>4 DEF IInv

\* Messages and zero keys of earlier gates do not change.
LEMMA GenFields ==
  ASSUME TypeOK, NEW msg, NEW zk, GenSend(msg, zk)
  PROVE  /\ gen' = [w |-> [gen.w EXCEPT ![GenGate.idx] = zk],
                    gate_ix |-> gen.gate_ix + 1,
                    gen_inp_ix |-> IF GenGate.tag = GEN_INP THEN gen.gen_inp_ix + 1
                                   ELSE gen.gen_inp_ix,
                    evl_inp_ix |-> IF GenGate.tag = EVL_INP THEN gen.evl_inp_ix + 1
                                   ELSE gen.evl_inp_ix]
         /\ sent' = Append(sent, msg)
         /\ snap' = Append(snap, gen'.w)
         /\ UNCHANGED <<params, evl>>
BY DEF TypeOK, GenSend

\* A step of the generator keeps the invariant, with messages under way.
LEMMA GenPreserves ==
  ASSUME IInv, GenStep
  PROVE  IInv' /\ evl' = evl /\ params' = params /\ Zeros' = Zeros
<1> DEFINE n == gen.gate_ix
           i == n + 1
           g == cct[i]
<1>1. TypeOK /\ InStep /\ LabelsAgree
  BY DEF IInv
<1>2. /\ n < Len(cct) /\ GenSend(MessageOf(i), ZeroKeyOf(i))
      /\ MessageOf(i) \in Message /\ ZeroKeyOf(i) \in Label
  BY <1>1, GenStepSends
<1>3. /\ n \in Nat /\ Len(cct) \in Nat /\ g \in Gate /\ g = GenGate
      /\ evl.gate_ix \in Nat /\ evl.gate_ix <= n
      /\ Len(sent) = n /\ Len(snap) = n + 1
  BY <1>1, <1>2, CircuitFacts DEF TypeOK, InStep, GenGate
<1>4. /\ gen' = [w |-> [gen.w EXCEPT ![g.idx] = ZeroKeyOf(i)],
                 gate_ix |-> i,
                 gen_inp_ix |-> IF g.tag = GEN_INP THEN gen.gen_inp_ix + 1
                                ELSE gen.gen_inp_ix,
                 evl_inp_ix |-> IF g.tag = EVL_INP THEN gen.evl_inp_ix + 1
                                ELSE gen.evl_inp_ix]
      /\ sent' = Append(sent, MessageOf(i))
      /\ snap' = Append(snap, gen'.w)
      /\ UNCHANGED <<cct, gen_inp, evl_inp, gen_inp_mask, seed, ot_keys, evl>>
  BY <1>1, <1>2, <1>3, GenFields DEF params
<1>5. gen'.w \in [Slot -> Label]
  BY <1>1, <1>2, <1>3, <1>4 DEF TypeOK, Gate
<1>6. TypeOK'
  <2>1. gen.gen_inp_ix \in Nat /\ gen.evl_inp_ix \in Nat
    BY <1>1 DEF TypeOK
  <2>2. /\ gen'.gate_ix = n + 1
        /\ gen'.gen_inp_ix \in {gen.gen_inp_ix, gen.gen_inp_ix + 1}
        /\ gen'.evl_inp_ix \in {gen.evl_inp_ix, gen.evl_inp_ix + 1}
    BY <1>4
  <2>3. gen' \in [w : [Slot -> Label], gate_ix : Nat, gen_inp_ix : Nat, evl_inp_ix : Nat]
    <3>1. \A W \in [Slot -> Label], a, b, c \in Nat :
             [w |-> W, gate_ix |-> a, gen_inp_ix |-> b, evl_inp_ix |-> c]
               \in [w : [Slot -> Label], gate_ix : Nat, gen_inp_ix : Nat, evl_inp_ix : Nat]
      OBVIOUS
    <3>2. gen' = [w |-> gen'.w, gate_ix |-> gen'.gate_ix, gen_inp_ix |-> gen'.gen_inp_ix,
                  evl_inp_ix |-> gen'.evl_inp_ix]
      BY <1>4
    <3>3. gen'.gate_ix \in Nat /\ gen'.gen_inp_ix \in Nat /\ gen'.evl_inp_ix \in Nat
      BY <1>3, <2>1, <2>2
    <3> QED
      BY <1>5, <3>1, <3>2, <3>3
  <2>4. sent' \in Seq(Message) /\ snap' \in Seq([Slot -> Label])
    BY <1>1, <1>2, <1>4, <1>5 DEF TypeOK
  <2> QED
    BY <1>1, <1>4, <2>3, <2>4 DEF TypeOK
<1>7. \A j \in 1..n : sent'[j] = sent[j]
  BY <1>1, <1>2, <1>3, <1>4 DEF TypeOK
<1>8. \A j \in 1..i : snap'[j] = snap[j]
  <2>1. snap \in Seq([Slot -> Label]) /\ Len(snap) = i
    BY <1>1, <1>3 DEF TypeOK
  <2>2. snap' = Append(snap, gen'.w)
    BY <1>4
  <2> QED
    BY <1>3, <1>5, <2>1, <2>2
<1>9. sent'[i] = MessageOf(i) /\ snap'[i + 1] = gen'.w
      /\ Len(sent') = i /\ Len(snap') = i + 1
  <2>1. sent \in Seq(Message) /\ snap \in Seq([Slot -> Label])
    BY <1>1 DEF TypeOK
  <2>2. sent'[i] = MessageOf(i) /\ Len(sent') = i
    BY <1>2, <1>3, <1>4, <2>1
  <2> QED
    BY <1>3, <1>4, <1>5, <2>1, <2>2
<1>10. \A j \in 1..i : MessageOf(j)' = MessageOf(j) /\ ZeroKeyOf(j)' = ZeroKeyOf(j)
  BY <1>4, <1>8 DEF MessageOf, ZeroKeyOf
<1>11. \A j \in 1..i : /\ sent'[j] = MessageOf(j)'
                       /\ snap'[j + 1] = [snap'[j] EXCEPT ![cct'[j].idx] = ZeroKeyOf(j)']
  <2> SUFFICES ASSUME NEW j \in 1..i
               PROVE  /\ sent'[j] = MessageOf(j)'
                      /\ snap'[j + 1] = [snap'[j] EXCEPT ![cct'[j].idx] = ZeroKeyOf(j)']
    OBVIOUS
  <2>1. CASE j \in 1..n
    <3>1. /\ sent[j] = MessageOf(j)
          /\ snap[j + 1] = [snap[j] EXCEPT ![cct[j].idx] = ZeroKeyOf(j)]
      BY <1>1, <2>1 DEF InStep
    <3>2. j + 1 \in 1..i
      BY <1>3, <2>1
    <3> QED
      BY <2>1, <3>1, <3>2, <1>4, <1>7, <1>8, <1>10
  <2>2. CASE j = i
    <3>1. snap[i] = gen.w
      BY <1>1 DEF InStep
    <3>2. gen'.w = [gen.w EXCEPT ![g.idx] = ZeroKeyOf(i)]
      BY <1>4
    <3> QED
      BY <2>2, <3>1, <3>2, <1>4, <1>8, <1>9, <1>10
  <2>3. j \in 1..n \/ j = i
    BY <1>3
  <2> QED
    BY <2>1, <2>2, <2>3
<1>12. InStep'
  <2>1. /\ gen'.gen_inp_ix = Count(cct, GEN_INP, i)
        /\ gen'.evl_inp_ix = Count(cct, EVL_INP, i)
    <3>1. \A t : Count(cct, t, i) = Count(cct, t, n) + (IF g.tag = t THEN 1 ELSE 0)
                 /\ Count(cct, t, n) \in Nat
      <4>1. n \in Nat
        BY <1>3
      <4> HIDE DEF n
      <4> QED
        BY <4>1, CountStep
    <3>2. /\ gen.gen_inp_ix = Count(cct, GEN_INP, n)
          /\ gen.evl_inp_ix = Count(cct, EVL_INP, n)
      BY <1>1 DEF InStep
    <3>3. /\ Count(cct, GEN_INP, i) = gen.gen_inp_ix + (IF g.tag = GEN_INP THEN 1 ELSE 0)
          /\ Count(cct, EVL_INP, i) = gen.evl_inp_ix + (IF g.tag = EVL_INP THEN 1 ELSE 0)
          /\ gen.gen_inp_ix \in Nat /\ gen.evl_inp_ix \in Nat
      BY <3>1, <3>2
    <3> QED
      BY <3>3, <1>4
  <2>2. gen'.gate_ix = i /\ i <= Len(cct) /\ evl.gate_ix <= i
    BY <1>2, <1>3, <1>4
  <2> QED
    BY <1>1, <1>4, <1>9, <1>11, <2>1, <2>2 DEF InStep
<1>13. Zeros' = Zeros
  BY <1>3, <1>4, <1>8 DEF Zeros
<1>14. LabelsAgree'
  BY <1>1, <1>4, <1>13 DEF LabelsAgree
<1> QED
  BY <1>4, <1>6, <1>12, <1>13, <1>14 DEF IInv, params

\* A step of the evaluator stores the label of the plain bit of its gate, and
\* decodes it for an output gate.
LEMMA EvlPreserves ==
  ASSUME IInv, EvlStep
  PROVE  /\ IInv'
         /\ PlainWire' = [PlainWire EXCEPT ![EvlGate.idx] = PlainBit]
         /\ EvlGate.tag \in {GEN_OUT, EVL_OUT} =>
               BitXor(Lsb(EvlKey), Arrived.perm[1]) = PlainBit
<1> DEFINE n == evl.gate_ix
           i == n + 1
           g == cct[i]
           zk == ZeroKeyOf(i)
           out == BitXor(Lsb(EvlKey), Arrived.perm[1])
<1>1. TypeOK /\ InStep /\ LabelsAgree
  BY DEF IInv
<1>2. /\ n < gen.gate_ix
      /\ evl' = [w |-> [evl.w EXCEPT ![g.idx] = EvlKey], gate_ix |-> i,
                 gen_inp_ix |-> IF g.tag = GEN_INP THEN evl.gen_inp_ix + 1
                                ELSE evl.gen_inp_ix,
                 evl_inp_ix |-> IF g.tag = EVL_INP THEN evl.evl_inp_ix + 1
                                ELSE evl.evl_inp_ix,
                 gen_out |-> IF g.tag = GEN_OUT THEN Append(evl.gen_out, out)
                             ELSE evl.gen_out,
                 evl_out |-> IF g.tag = EVL_OUT THEN Append(evl.evl_out, out)
                             ELSE evl.evl_out]
      /\ UNCHANGED <<cct, gen_inp, evl_inp, gen_inp_mask, seed, ot_keys,
                     gen, sent, snap>>
  BY EvlStepTakes DEF EvlGate, params
<1>3. /\ i \in 1..gen.gate_ix /\ i \in 1..Len(cct) /\ g \in Gate
      /\ Zeros \in [Slot -> Label] /\ zk \in Label /\ PlainBit \in Bit
      /\ EvlKey = Offset(zk, PlainBit, R(seed))
  BY <1>2, EvlStepKey
<1>4. EvlKey \in Label /\ out \in Bit
  BY <1>3, LabelTypes, RType, OffsetTwice
<1>5. TypeOK'
  <2>1. g.idx \in Slot
    BY <1>3 DEF Gate
  <2>2. evl'.w \in [Slot -> Label]
    BY <1>1, <1>2, <1>4, <2>1 DEF TypeOK
  <2>3. evl'.gate_ix \in Nat /\ evl'.gen_inp_ix \in Nat /\ evl'.evl_inp_ix \in Nat
    <3>1. evl.gate_ix \in Nat /\ evl.gen_inp_ix \in Nat /\ evl.evl_inp_ix \in Nat
      BY <1>1 DEF TypeOK
    <3>2. /\ evl'.gate_ix = evl.gate_ix + 1
          /\ evl'.gen_inp_ix \in {evl.gen_inp_ix, evl.gen_inp_ix + 1}
          /\ evl'.evl_inp_ix \in {evl.evl_inp_ix, evl.evl_inp_ix + 1}
      BY <1>2
    <3> QED
      BY <3>1, <3>2
  <2>4. evl'.gen_out \in Seq(Bit) /\ evl'.evl_out \in Seq(Bit)
    BY <1>1, <1>2, <1>4 DEF TypeOK
  <2>5. evl' \in [w : [Slot -> Label], gate_ix : Nat, gen_inp_ix : Nat,
                 evl_inp_ix : Nat, gen_out : Seq(Bit), evl_out : Seq(Bit)]
    BY <1>2, <2>2, <2>3, <2>4
  <2> QED
    BY <1>1, <1>2, <2>5 DEF TypeOK
<1>6. n \in Nat /\ gen.gate_ix \in Nat
  BY <1>1 DEF TypeOK
<1>7. InStep'
  <2>1. /\ evl'.gen_inp_ix = Count(cct, GEN_INP, i)
        /\ evl'.evl_inp_ix = Count(cct, EVL_INP, i)
    <3>1. \A t : Count(cct, t, i) = Count(cct, t, n) + (IF g.tag = t THEN 1 ELSE 0)
                 /\ Count(cct, t, n) \in Nat
      BY <1>6, CountStep
    <3>2. /\ evl.gen_inp_ix = Count(cct, GEN_INP, n)
          /\ evl.evl_inp_ix = Count(cct, EVL_INP, n)
      BY <1>1 DEF InStep
    <3>3. /\ Count(cct, GEN_INP, i) = evl.gen_inp_ix + (IF g.tag = GEN_INP THEN 1 ELSE 0)
          /\ Count(cct, EVL_INP, i) = evl.evl_inp_ix + (IF g.tag = EVL_INP THEN 1 ELSE 0)
          /\ evl.gen_inp_ix \in Nat /\ evl.evl_inp_ix \in Nat
      BY <3>1, <3>2
    <3> QED
      BY <3>3, <1>2
  <2>2. evl'.gate_ix = i /\ i <= gen.gate_ix
    BY <1>2, <1>6
  <2>3. \A j : MessageOf(j)' = MessageOf(j) /\ ZeroKeyOf(j)' = ZeroKeyOf(j)
    BY <1>2 DEF MessageOf, ZeroKeyOf
  <2> QED
    BY <1>1, <1>2, <2>1, <2>2, <2>3 DEF InStep
<1>8. Zeros' = [Zeros EXCEPT ![g.idx] = zk]
  BY <1>1, <1>2, <1>3 DEF InStep, Zeros
<1>9. Written(cct, i) = Written(cct, n) \cup {g.idx}
  BY <1>6 DEF Written
<1>10. zk # zk \oplus R(seed)
  BY <1>3, LsbOffset
<1>11. \A s \in Slot :
         /\ evl'.w[s] = IF s = g.idx THEN Offset(zk, PlainBit, R(seed)) ELSE evl.w[s]
         /\ Zeros'[s] = IF s = g.idx THEN zk ELSE Zeros[s]
  BY <1>1, <1>2, <1>3, <1>8 DEF TypeOK
<1>12. \A s \in Written(cct, i) : s \in Slot
  <2>1. \A j \in 1..Len(cct) : cct[j] \in Gate
    BY <1>1, CircuitFacts
  <2> QED
    BY <1>3, <2>1 DEF Written, Gate
<1>13. LabelsAgree'
  <2> SUFFICES ASSUME NEW s \in Written(cct, i)
               PROVE  evl'.w[s] \in {Zeros'[s], Zeros'[s] \oplus R(seed)}
    BY <1>2 DEF LabelsAgree
  <2>1. CASE s = g.idx
    BY <1>11, <1>12, <2>1 DEF Offset
  <2>2. CASE s # g.idx
    BY <1>1, <1>9, <1>11, <1>12, <2>2 DEF LabelsAgree
  <2> QED
    BY <2>1, <2>2
<1>14. PlainWire' = [PlainWire EXCEPT ![g.idx] = PlainBit]
  <2>1. PlainWire' = [s \in Slot |-> IF s \in Written(cct, i) /\ evl'.w[s] # Zeros'[s]
                                    THEN 1 ELSE 0]
    BY <1>2 DEF PlainWire
  <2>2. \A s \in Slot : PlainWire'[s] = IF s = g.idx THEN PlainBit ELSE PlainWire[s]
    <3> SUFFICES ASSUME NEW s \in Slot
                 PROVE  PlainWire'[s] = IF s = g.idx THEN PlainBit ELSE PlainWire[s]
      OBVIOUS
    <3>1. CASE s = g.idx
      <4>1. s \in Written(cct, i)
        BY <1>9, <3>1
      <4>2. evl'.w[s] # Zeros'[s] <=> PlainBit = 1
        BY <1>10, <1>11, <3>1 DEF Offset
      <4> QED
        BY <1>3, <2>1, <3>1, <4>1, <4>2 DEF Bit
    <3>2. CASE s # g.idx
      BY <1>9, <1>11, <2>1, <3>2 DEF PlainWire
    <3> QED
      BY <3>1, <3>2
  <2> QED
    BY <2>1, <2>2 DEF PlainWire
<1>15. g.tag \in {GEN_OUT, EVL_OUT} => out = PlainBit
  <2> SUFFICES ASSUME g.tag \in {GEN_OUT, EVL_OUT} PROVE out = PlainBit
    OBVIOUS
  <2>1. Arrived = OpMessage(seed, g, i - 1, snap[i]) /\ zk = OpZeroKey(seed, g, i - 1, snap[i])
    BY <1>1, <1>3 DEF InStep, Arrived, MessageOf, ZeroKeyOf,
       InpTags, GEN_INP, EVL_INP, GEN_OUT, EVL_OUT
  <2>2. Arrived.perm[1] = Lsb(zk)
    BY <2>1 DEF OpMessage
  <2>3. Lsb(EvlKey) = BitXor(Lsb(zk), PlainBit) /\ Lsb(zk) \in Bit
    <3>1. zk \in Label /\ PlainBit \in Bit /\ EvlKey = Offset(zk, PlainBit, R(seed))
      BY <1>3
    <3> HIDE DEF zk
    <3>2. Lsb(Offset(zk, PlainBit, R(seed))) = BitXor(Lsb(zk), PlainBit)
      BY <3>1, LsbOffset
    <3>3. Lsb(zk) \in Bit
      BY <3>1, LabelTypes
    <3> QED
      BY <3>1, <3>2, <3>3
  <2> QED
    BY <1>3, <2>2, <2>3 DEF BitXor, Bit
<1> QED
  BY <1>5, <1>7, <1>13, <1>14, <1>15 DEF IInv, EvlGate

\* A step that changes nothing keeps the invariant.
LEMMA StutterPreserves ==
  ASSUME IInv, UNCHANGED vars
  PROVE  IInv'
BY DEF IInv, TypeOK, InStep, LabelsAgree, MessageOf, ZeroKeyOf, Zeros, vars, params

\* Every behaviour of the two parties keeps the invariant.
LEMMA Invariance == Spec => []IInv
<1>1. ASSUME IInv, [Next]_vars PROVE IInv'
  <2>1. CASE GenStep
    BY <1>1, <2>1, GenPreserves
  <2>2. CASE EvlStep
    BY <1>1, <2>2, EvlPreserves
  <2>3. CASE UNCHANGED vars
    BY <1>1, <2>3, StutterPreserves
  <2> QED
    BY <1>1, <2>1, <2>2, <2>3 DEF Next, Finished
<1> QED
  BY <1>1, InitIInv, PTL DEF Spec

(***************************************************************************)
(* The theorems.                                                           *)
(***************************************************************************)

\* All state of both parties keeps its type (m_w, the m_*_ix counters, the
\* buffers of GarbledCct).
THEOREM TypeCorrect == Spec => []TypeOK
<1>1. IInv => TypeOK
  BY DEF IInv
<1> QED
  BY <1>1, Invariance, PTL

\* Generator and evaluator of circuit_evaluate never fall out of step.
THEOREM InStepAlways == Spec => []InStep
<1>1. IInv => InStep
  BY DEF IInv
<1> QED
  BY <1>1, Invariance, PTL

\* evl_next_gate always holds one of the two labels gen_next_gate chose.
THEOREM LabelsAlwaysAgree == Spec => []LabelsAgree
<1>1. IInv => LabelsAgree
  BY DEF IInv
<1> QED
  BY <1>1, Invariance, PTL

\* Garbled evaluation implements evaluate_binary.
THEOREM ImplementsPlain == Spec => PlainSpec
<1>1. Init => Plain!Init
  <2> SUFFICES ASSUME Init PROVE Plain!Init
    OBVIOUS
  <2>1. Written(cct, evl.gate_ix) = {}
    BY DEF Init, Written
  <2>2. PlainWire = [s \in Slot |-> 0]
    BY <2>1 DEF PlainWire
  <2> QED
    BY <2>2 DEF Init, Plain!Init, Plain!Inputs, Inputs, Plain!Bit, Bit, Plain!GEN_INP, Plain!EVL_INP, GEN_INP, EVL_INP
<1>2. ASSUME IInv, [Next]_vars PROVE [Plain!Next]_Plain!vars
  <2>1. CASE GenStep
    <3>1. evl' = evl /\ params' = params /\ Zeros' = Zeros
      BY <1>2, <2>1, GenPreserves
    <3>2. PlainWire' = PlainWire
      BY <3>1 DEF PlainWire, params
    <3> QED
      BY <3>1, <3>2 DEF Plain!vars, params
  <2>2. CASE EvlStep
    <3> DEFINE g == EvlGate
               out == BitXor(Lsb(EvlKey), Arrived.perm[1])
    <3>1. /\ PlainWire' = [PlainWire EXCEPT ![g.idx] = PlainBit]
          /\ g.tag \in {GEN_OUT, EVL_OUT} => out = PlainBit
      BY <1>2, <2>2, EvlPreserves
    <3>2. /\ evl.gate_ix < gen.gate_ix
          /\ evl'.gate_ix = evl.gate_ix + 1
          /\ evl'.gen_inp_ix = IF g.tag = GEN_INP THEN evl.gen_inp_ix + 1
                               ELSE evl.gen_inp_ix
          /\ evl'.evl_inp_ix = IF g.tag = EVL_INP THEN evl.evl_inp_ix + 1
                               ELSE evl.evl_inp_ix
          /\ evl'.gen_out = IF g.tag = GEN_OUT THEN Append(evl.gen_out, out)
                            ELSE evl.gen_out
          /\ evl'.evl_out = IF g.tag = EVL_OUT THEN Append(evl.evl_out, out)
                            ELSE evl.evl_out
          /\ UNCHANGED <<cct, gen_inp, evl_inp>>
      BY <1>2, <2>2, EvlStepTakes DEF params
    <3>3. evl.gate_ix < Len(cct) /\ g \in Gate /\ Plain!NextGate = g
      BY <1>2, <3>2, EvlStepKey, CircuitFacts DEF IInv, TypeOK, EvlGate, Plain!NextGate
    <3>4. Plain!More
      BY <3>3 DEF Plain!More
    <3> USE DEF GEN_INP, EVL_INP, GEN_OUT, EVL_OUT, InpTags, Plain!InpTags,
          Plain!GEN_INP, Plain!EVL_INP, Plain!GEN_OUT, Plain!EVL_OUT
    <3>5. CASE g.tag = GEN_INP
      BY <3>1, <3>2, <3>3, <3>4, <3>5 DEF PlainBit, Plain!EvalGenInp, Plain!Next
    <3>6. CASE g.tag = EVL_INP
      BY <3>1, <3>2, <3>3, <3>4, <3>6 DEF PlainBit, Plain!EvalEvlInp, Plain!Next
    <3>7. CASE g.tag \notin InpTags
      <4>1. Plain!Result(g) = PlainBit
        BY <3>7 DEF PlainBit, Plain!Result, Plain!Row, Row
      <4> QED
        BY <3>1, <3>2, <3>3, <3>4, <3>7, <4>1 DEF Plain!EvalOp, Plain!Next
    <3> QED
      BY <3>5, <3>6, <3>7
  <2>3. CASE UNCHANGED vars
    BY <2>3 DEF vars, params, Plain!vars, PlainWire, Zeros
  <2> QED
    BY <1>2, <2>1, <2>2, <2>3 DEF Next, Finished
<1> QED
  BY <1>1, <1>2, Invariance, PTL DEF Spec, Plain!Spec, PlainSpec

=============================================================================
