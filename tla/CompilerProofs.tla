--------------------------- MODULE CompilerProofs ---------------------------
(***************************************************************************)
(* Proofs about two parts of the compiler.  The pass over identity gates   *)
(* preserves what the circuit computes, for circuits of any number of      *)
(* gates over any number of inputs.  The symbol tables of the front end    *)
(* compute what the program says, for programs of any length over any      *)
(* variables, with ifs nested to any depth and arrays of any number of     *)
(* elements.                                                               *)
(***************************************************************************)
EXTENDS IdentityGates, Scopes, FiniteSetTheorems, SequenceTheorems, WellFoundedInduction, TLAPS

-----------------------------------------------------------------------------
(***************************************************************************)
(* IdentityGates.                                                          *)
(***************************************************************************)
\* A wire no map replaces is in the new circuit with its value, or it is an
\* inverter of such a wire.
KeptWires ==
  \A x \in Readable : oldmap[x] = x =>
     \/ /\ newmap[x] \in binary
        /\ nval[newmap[x]] = wval[x]
     \/ /\ newmap[x] = x
        /\ notmap[x] \in binary
        /\ notmap[x] # x
        /\ wval[x] = Not(nval[notmap[x]])

\* The parser's map leads in one step to a wire it kept.
OldWires ==
  \A x \in Readable : /\ oldmap[x] \in Readable
                      /\ oldmap[oldmap[x]] = oldmap[x]
                      /\ oldmap[x] <= x
                      /\ wval[oldmap[x]] = wval[x]

\* Wires of the new circuit are in no map.
NewWires == \A e \in binary : newmap[e] = e /\ notmap[e] = e

\* Nothing is known yet of the gates not read.
Unread == \A x \in Ids : x > last => /\ oldmap[x] = x
                                     /\ newmap[x] = x
                                     /\ notmap[x] = x

\* The constant gates hold what they are named after.
Constants ==
  /\ zero_gate # 0 => zero_gate \in binary /\ nval[zero_gate] = 0
  /\ one_gate # 0 => one_gate \in binary /\ nval[one_gate] = 1

\* The maps lead to earlier gates.
Down == \A x \in Ids : newmap[x] <= x /\ notmap[x] <= x

\* The inductive invariant.
IInv == /\ TypeOK /\ KeptWires /\ OldWires /\ NewWires /\ Unread /\ Constants
        /\ Down /\ OutputsRight

USE IdsAssumption DEF Ids, Inputs, Wire

\* A table is four bits, so a gate yields a bit.
LEMMA ApplyType ==
  ASSUME NEW t \in Table, NEW a \in Bit, NEW b \in Bit
  PROVE  /\ Apply(t, a, b) \in Bit
         /\ Not(a) \in Bit
  BY DEF Apply, Table, Bit, Not

\* Flipping a table makes up for the inversion of the input.
LEMMA FlipRight ==
  ASSUME NEW t \in Table, NEW a \in Bit, NEW b \in Bit
  PROVE  /\ Flip0(t) \in Table
         /\ Flip1(t) \in Table
         /\ Apply(Flip0(t), a, b) = Apply(t, Not(a), b)
         /\ Apply(Flip1(t), a, b) = Apply(t, a, Not(b))
  BY DEF Apply, Table, Bit, Not, Flip0, Flip1

\* The inverse of an inverse is the bit.
LEMMA NotNot == ASSUME NEW a \in Bit PROVE Not(Not(a)) = a
  BY DEF Bit, Not

\* A wire a gate may read is a number in range.
LEMMA ReadableIds ==
  ASSUME last \in Ids, NEW x \in Readable
  PROVE  x \in Ids /\ x \in Nat /\ x <= last
  BY DEF Readable

\* The invariant gives the promise of the pass, and how far down a lookup goes.
LEMMA Lookups ==
  ASSUME IInv, NEW x \in Readable
  PROVE  /\ Base(x) \in binary
         /\ Base(x) \in Ids
         /\ Base(x) <= x
         /\ wval[x] = IF Inverted(x) THEN Not(nval[Base(x)]) ELSE nval[Base(x)]
<1> DEFINE k == oldmap[x]
<1>1. /\ x \in Ids /\ k \in Readable /\ k \in Ids
      /\ k <= x /\ oldmap[k] = k /\ wval[k] = wval[x]
  <2>1. k \in Readable /\ k <= x /\ oldmap[k] = k /\ wval[k] = wval[x]
    BY DEF IInv, OldWires
  <2>2. last \in Ids
    BY DEF IInv, TypeOK
  <2> QED
    BY <2>1, <2>2, ReadableIds
<1>2. newmap[k] <= k /\ notmap[k] <= k /\ newmap[k] \in Ids /\ notmap[k] \in Ids
  BY <1>1 DEF IInv, Down, TypeOK
<1> HIDE DEF k
<1>3. CASE newmap[k] \in binary /\ nval[newmap[k]] = wval[k]
  <2>1. notmap[newmap[k]] = newmap[k]
    BY <1>3 DEF IInv, NewWires
  <2> QED
    BY <1>1, <1>2, <1>3, <2>1 DEF Base, Resolved, Inverted, k
<1>4. CASE /\ newmap[k] = k /\ notmap[k] \in binary /\ notmap[k] # k
           /\ wval[k] = Not(nval[notmap[k]])
  BY <1>1, <1>2, <1>4 DEF Base, Resolved, Inverted, k
<1> QED
  BY <1>1, <1>3, <1>4 DEF IInv, KeptWires

\* The invariant implies the three safety properties of the pass.
LEMMA IInvSafe == IInv => Sound /\ OutputsRight /\ AssertsHold
<1> SUFFICES ASSUME IInv PROVE Sound /\ OutputsRight /\ AssertsHold
  OBVIOUS
<1>1. Sound
  BY Lookups DEF Sound
<1>2. 0..last \subseteq Ids
  BY DEF IInv, TypeOK
<1>3. AssertsHold
  BY <1>2, Lookups DEF AssertsHold, IInv, Down
<1> QED
  BY <1>1, <1>3 DEF IInv

\* The rewritten gate yields on the new wires what the gate yields on the old.
LEMMA NewTableRight ==
  ASSUME IInv, NEW x \in Readable, NEW y \in Readable, NEW t \in Table
  PROVE  /\ NewTable(t, x, y) \in Table
         /\ Apply(t, wval[x], wval[y])
              = Apply(NewTable(t, x, y), nval[Base(x)], nval[Base(y)])
<1> DEFINE a == nval[Base(x)]
           b == nval[Base(y)]
           u == IF Inverted(x) THEN Flip0(t) ELSE t
<1>1. a \in Bit /\ b \in Bit /\ wval[x] \in Bit /\ wval[y] \in Bit
  <2>1. Base(x) \in Ids /\ Base(y) \in Ids
    BY Lookups
  <2>2. x \in Ids /\ y \in Ids
    BY ReadableIds DEF IInv, TypeOK
  <2> QED
    BY <2>1, <2>2 DEF IInv, TypeOK
<1>2. wval[x] = (IF Inverted(x) THEN Not(a) ELSE a) /\ wval[y] = (IF Inverted(y) THEN Not(b) ELSE b)
  BY Lookups
<1> HIDE DEF a, b
<1>3. u \in Table /\ Apply(u, a, wval[y]) = Apply(t, wval[x], wval[y])
  BY <1>1, <1>2, FlipRight
<1>4. NewTable(t, x, y) = IF Inverted(y) THEN Flip1(u) ELSE u
  BY DEF NewTable
<1> HIDE DEF u
<1>5. NewTable(t, x, y) \in Table /\ Apply(NewTable(t, x, y), a, b) = Apply(u, a, wval[y])
  BY <1>1, <1>2, <1>3, <1>4, FlipRight
<1> QED
  BY <1>3, <1>5 DEF a, b

\* What may become of a gate.
Kinds == {"keep", "zero", "one", "same", "not"}

\* A gate is replaced only by what has its value: o is the outcome of a gate
\* with table t on new wires a and b, v its value.
Right(o, v) ==
  /\ o.kind \in Kinds
  /\ o.kind = "zero" => v = 0
  /\ o.kind = "one"  => v = 1
  /\ o.kind = "same" => o.to \in binary /\ nval[o.to] = v
  /\ o.kind = "not"  => o.to \in binary /\ nval[o.to] = Not(v)

\* The cases of Outcome exclude each other.
LEMMA TablesDistinct ==
  /\ ZERO \notin {ONE, XOR, AND, XNOR, ANDNOT}
  /\ ONE \notin {XOR, AND, XNOR, ANDNOT}
  /\ XOR \notin {AND, XNOR, ANDNOT}
  /\ AND \notin {XNOR, ANDNOT}
  /\ XNOR # ANDNOT
<1>1. /\ ZERO[4] = 0 /\ ONE[4] = 1 /\ XOR[4] = 0 /\ AND[4] = 1 /\ XNOR[4] = 1 /\ ANDNOT[4] = 0
      /\ ZERO[2] = 0 /\ ONE[2] = 1 /\ XOR[2] = 1 /\ AND[2] = 0 /\ XNOR[2] = 0 /\ ANDNOT[2] = 1
      /\ ZERO[3] = 0 /\ ONE[3] = 1 /\ XOR[3] = 1 /\ AND[3] = 0 /\ XNOR[3] = 0 /\ ANDNOT[3] = 0
      /\ ZERO[1] = 0 /\ ONE[1] = 1 /\ XOR[1] = 0 /\ AND[1] = 0 /\ XNOR[1] = 1 /\ ANDNOT[1] = 0
  BY DEF ZERO, ONE, XOR, AND, XNOR, ANDNOT
<1> QED
  BY <1>1

\* The simplifications of the pass are right.
LEMMA OutcomeRight ==
  ASSUME IInv, NEW a \in binary, NEW b \in binary, NEW t \in Table
  PROVE  Right(Outcome(t, a, b), Apply(t, nval[a], nval[b]))
<1> DEFINE v == Apply(t, nval[a], nval[b])
<1>1. nval[a] \in Bit /\ nval[b] \in Bit
  <2>1. a \in Ids /\ b \in Ids
    BY ReadableIds DEF IInv, TypeOK
  <2> QED
    BY <2>1 DEF IInv, TypeOK
<1>2. /\ \A x \in binary : IsZero(x) => nval[x] = 0
      /\ \A x \in binary : IsOne(x) => nval[x] = 1
      /\ zero_gate # 0 => Right(SameAs(zero_gate), 0)
      /\ one_gate # 0 => Right(SameAs(one_gate), 1)
  BY DEF IInv, Constants, IsZero, IsOne, Right, SameAs, Kinds
<1>3. /\ Right(ConstZero, 0)
      /\ Right(ConstOne, 1)
  BY <1>2 DEF ConstZero, ConstOne, Right, NewZero, NewOne, Kinds
<1>4. /\ \A x \in binary : Right(SameAs(x), nval[x])
      /\ \A x \in binary, w \in Bit : nval[x] = Not(w) => Right(NotOf(x), w)
      /\ \A w : Right(Keep, w)
  BY DEF Right, SameAs, NotOf, Keep, Kinds
<1>5. CASE t = ZERO
  <2>1. Outcome(t, a, b) = NewZero
    BY <1>5, TablesDistinct, SMT DEF Outcome
  <2> QED
    BY <1>1, <1>5, <2>1 DEF Right, NewZero, Kinds, Apply, ZERO, Bit
<1>6. CASE t = ONE
  <2>1. Outcome(t, a, b) = NewOne
    BY <1>6, TablesDistinct, SMT DEF Outcome
  <2> QED
    BY <1>1, <1>6, <2>1 DEF Right, NewOne, Kinds, Apply, ONE, Bit
<1>7. CASE t = XOR
  <2>1. Outcome(t, a, b) = XorOutcome(a, b)
    BY <1>7, TablesDistinct, SMT DEF Outcome
  <2>2. v = IF nval[a] = nval[b] THEN 0 ELSE 1
    BY <1>1, <1>7 DEF Apply, XOR, Bit
  <2> QED
    BY <1>1, <1>2, <1>3, <1>4, <2>1, <2>2 DEF XorOutcome, Not, Bit
<1>8. CASE t = AND
  <2>1. Outcome(t, a, b) = AndOutcome(a, b)
    BY <1>8, TablesDistinct, SMT DEF Outcome
  <2>2. v = IF nval[a] = 1 /\ nval[b] = 1 THEN 1 ELSE 0
    BY <1>1, <1>8 DEF Apply, AND, Bit
  <2>3. IsZero(a) \/ IsZero(b) => Right(SameAs(zero_gate), 0)
    BY <1>2 DEF IsZero
  <2> QED
    BY <1>1, <1>2, <1>4, <2>1, <2>2, <2>3 DEF AndOutcome, Bit
<1>9. CASE t = XNOR
  <2>1. Outcome(t, a, b) = XnorOutcome(a, b)
    BY <1>9, TablesDistinct, SMT DEF Outcome
  <2>2. v = IF nval[a] = nval[b] THEN 1 ELSE 0
    BY <1>1, <1>9 DEF Apply, XNOR, Bit
  <2> QED
    BY <1>1, <1>2, <1>3, <1>4, <2>1, <2>2 DEF XnorOutcome, Not, Bit
<1>10. CASE t = ANDNOT
  <2>1. Outcome(t, a, b) = AndNotOutcome(a, b)
    BY <1>10, TablesDistinct, SMT DEF Outcome
  <2>2. v = IF nval[a] = 1 /\ nval[b] = 0 THEN 1 ELSE 0
    BY <1>1, <1>10 DEF Apply, ANDNOT, Bit
  <2>3. IsZero(a) => Right(SameAs(zero_gate), 0)
    BY <1>2 DEF IsZero
  <2> QED
    BY <1>1, <1>2, <1>3, <1>4, <2>1, <2>2, <2>3 DEF AndNotOutcome, Not, Bit
<1>11. CASE t \notin {ZERO, ONE, XOR, AND, XNOR, ANDNOT}
  <2>1. Outcome(t, a, b) = Keep
    BY <1>11 DEF Outcome
  <2> QED
    BY <1>4, <2>1
<1> QED
  BY <1>5, <1>6, <1>7, <1>8, <1>9, <1>10, <1>11

-----------------------------------------------------------------------------

\* The first state: only input wires, no map entry.
LEMMA InitIInv == Init => IInv
<1> SUFFICES ASSUME Init PROVE IInv
  OBVIOUS
<1>1. Readable = Inputs /\ Inputs \subseteq Ids /\ last \in Ids /\ 0 \in Ids
  BY DEF Init, Readable
<1>2. wval \in [Ids -> Bit] /\ nval = wval
  <2>1. PICK v \in [Inputs -> Bit] :
           /\ wval = [x \in Ids |-> IF x \in Inputs THEN v[x] ELSE 0]
           /\ nval = wval
    BY DEF Init
  <2> QED
    BY <2>1 DEF Bit
<1>3. \A x \in Ids : oldmap[x] = x /\ newmap[x] = x /\ notmap[x] = x
  BY DEF Init, Unmapped
<1>4. TypeOK
  BY <1>1, <1>2 DEF TypeOK, Init, Unmapped
<1>5. KeptWires /\ OldWires /\ NewWires /\ Unread /\ Down
  BY <1>1, <1>2, <1>3 DEF Init, KeptWires, OldWires, NewWires, Unread, Down
<1>6. Constants /\ OutputsRight
  BY DEF Init, Constants, OutputsRight
<1> QED
  BY <1>4, <1>5, <1>6 DEF IInv

\* The id that is read next is new to every set and every map.
LEMMA NewId ==
  ASSUME IInv, Id <= MaxId
  PROVE  /\ Id \in Ids /\ Id > last /\ Id # 0
         /\ Id \notin Readable /\ Id \notin binary /\ Id \notin outs
         /\ oldmap[Id] = Id /\ newmap[Id] = Id /\ notmap[Id] = Id
<1>1. Id \in Ids /\ Id > last /\ Id # 0 /\ Id \notin 0..last
  BY DEF IInv, TypeOK, Id
<1> QED
  BY <1>1 DEF IInv, TypeOK, Unread, Readable

\* What every step that reads a gate other than an output keeps.
ReadsWire ==
  /\ last' = Id /\ outs' = outs /\ flipped' = flipped
  /\ TypeOK'
  /\ binary \subseteq binary' /\ binary' \subseteq binary \cup {Id}
  /\ \A x \in Ids : x # Id =>
        /\ oldmap'[x] = oldmap[x] /\ newmap'[x] = newmap[x] /\ notmap'[x] = notmap[x]
        /\ wval'[x] = wval[x] /\ nval'[x] = nval[x]
  /\ newmap'[Id] <= Id /\ notmap'[Id] <= Id
  /\ Id \in binary' => newmap'[Id] = Id /\ notmap'[Id] = Id
  /\ Constants'

\* The new wire is kept by the parser, and the pass has done it justice ...
NewKept ==
  /\ oldmap'[Id] = Id
  /\ \/ /\ newmap'[Id] \in binary'
        /\ nval'[newmap'[Id]] = wval'[Id]
     \/ /\ newmap'[Id] = Id
        /\ notmap'[Id] \in binary'
        /\ notmap'[Id] # Id
        /\ wval'[Id] = Not(nval'[notmap'[Id]])

\* ... or it is one the parser dropped.
NewDropped ==
  /\ oldmap'[Id] \in Readable
  /\ oldmap[oldmap'[Id]] = oldmap'[Id]
  /\ wval'[Id] = wval[oldmap'[Id]]

\* Such a step preserves the invariant.
LEMMA ReadsWirePreserves ==
  ASSUME IInv, Id <= MaxId, ReadsWire, NewKept \/ NewDropped
  PROVE  IInv'
<1>1. /\ Id \in Ids /\ Id > last /\ Id # 0
      /\ Id \notin Readable /\ Id \notin binary /\ Id \notin outs
      /\ oldmap[Id] = Id /\ newmap[Id] = Id /\ notmap[Id] = Id
  BY NewId
<1>2. \A x \in Readable : x \in Ids /\ x \in Nat /\ x <= last /\ x # Id
  BY <1>1, ReadableIds DEF IInv, TypeOK
<1>3. Readable' = Readable \cup {Id}
  <2>1. 0..Id = (0..last) \cup {Id}
    <3>1. last \in Ids
      BY DEF IInv, TypeOK
    <3> QED
      BY <3>1 DEF Id
  <2>2. Readable' = (0..Id) \ outs
    BY DEF Readable, ReadsWire
  <2> QED
    BY <2>1, <2>2, <1>1 DEF Readable
<1>4. \A x \in binary : x \in Readable /\ x \in Ids /\ x # Id /\ nval'[x] = nval[x]
                        /\ newmap'[x] = x /\ notmap'[x] = x
  BY <1>2 DEF IInv, TypeOK, ReadsWire, NewWires
<1>5. \A x \in Readable : /\ oldmap'[x] = oldmap[x] /\ newmap'[x] = newmap[x]
                          /\ notmap'[x] = notmap[x] /\ wval'[x] = wval[x]
  BY <1>2 DEF ReadsWire
<1>6. ASSUME NEW x \in Readable', oldmap'[x] = x
      PROVE  \/ /\ newmap'[x] \in binary'
                /\ nval'[newmap'[x]] = wval'[x]
             \/ /\ newmap'[x] = x
                /\ notmap'[x] \in binary'
                /\ notmap'[x] # x
                /\ wval'[x] = Not(nval'[notmap'[x]])
  <2>1. CASE x \in Readable
    <3>1. \/ newmap[x] \in binary /\ nval[newmap[x]] = wval[x]
          \/ /\ newmap[x] = x /\ notmap[x] \in binary /\ notmap[x] # x
             /\ wval[x] = Not(nval[notmap[x]])
      BY <1>5, <1>6, <2>1 DEF IInv, KeptWires
    <3> QED
      BY <3>1, <2>1, <1>4, <1>5 DEF ReadsWire
  <2>2. CASE x = Id
    <3>1. NewKept
      BY <1>1, <1>6, <2>2 DEF NewDropped
    <3> QED
      BY <2>2, <3>1 DEF NewKept
  <2> QED
    BY <1>3, <2>1, <2>2
<1>7. KeptWires'
  BY <1>6 DEF KeptWires
<1>8. ASSUME NEW x \in Readable'
      PROVE  /\ oldmap'[x] \in Readable'
             /\ oldmap'[oldmap'[x]] = oldmap'[x]
             /\ oldmap'[x] <= x
             /\ wval'[oldmap'[x]] = wval'[x]
  <2>1. CASE x \in Readable
    <3>1. /\ oldmap[x] \in Readable /\ oldmap[oldmap[x]] = oldmap[x]
          /\ oldmap[x] <= x /\ wval[oldmap[x]] = wval[x]
      BY <2>1 DEF IInv, OldWires
    <3> QED
      BY <3>1, <2>1, <1>3, <1>5
  <2>2. CASE x = Id
    <3>1. CASE NewKept
      BY <3>1, <2>2, <1>3, <1>1 DEF NewKept
    <3>2. CASE NewDropped
      <4>1. /\ oldmap'[Id] \in Readable /\ oldmap[oldmap'[Id]] = oldmap'[Id]
            /\ wval'[Id] = wval[oldmap'[Id]]
        BY <3>2 DEF NewDropped
      <4>2. oldmap'[Id] <= last /\ last <= Id /\ last \in Nat /\ oldmap'[Id] \in Nat /\ Id \in Nat
        <5>1. last \in Ids
          BY DEF IInv, TypeOK
        <5> QED
          BY <4>1, <5>1, <1>1, <1>2
      <4> QED
        BY <4>1, <4>2, <2>2, <1>3, <1>5
    <3> QED
      BY <3>1, <3>2
  <2> QED
    BY <1>3, <2>1, <2>2
<1>9. OldWires'
  BY <1>8 DEF OldWires
<1>10. NewWires'
  BY <1>4 DEF NewWires, ReadsWire
<1>11. Unread'
  <2>1. ASSUME NEW x \in Ids, x > Id PROVE x # Id /\ x > last
    BY <2>1, <1>1 DEF IInv, TypeOK
  <2> QED
    BY <2>1 DEF IInv, Unread, ReadsWire
<1>12. Down'
  BY <1>1 DEF IInv, Down, ReadsWire
<1>13. OutputsRight'
  <2>1. \A o \in outs : o \in Ids /\ o # Id
    <3>1. outs \subseteq 0..last /\ last \in Ids
      BY DEF IInv, TypeOK
    <3> QED
      BY <3>1, <1>1
  <2> QED
    BY <2>1 DEF IInv, OutputsRight, ReadsWire
<1> QED
  BY <1>7, <1>9, <1>10, <1>11, <1>12, <1>13 DEF IInv, ReadsWire

\* A gate that is no output preserves the invariant.
LEMMA ReadGatePreserves ==
  ASSUME IInv, NEW x \in Readable, NEW y \in Readable, NEW t \in Table, ReadGate(x, y, t)
  PROVE  IInv'
<1> DEFINE a == Base(x)
           b == Base(y)
           u == NewTable(t, x, y)
           v == Apply(t, wval[x], wval[y])
           o == Outcome(u, a, b)
<1>1. Id <= MaxId /\ last' = Id /\ wval' = [wval EXCEPT ![Id] = v] /\ Rewrite(u, a, b)
      /\ oldmap' = oldmap /\ outs' = outs /\ flipped' = flipped
  BY DEF ReadGate
<1>2. /\ Id \in Ids /\ Id > last /\ Id # 0
      /\ Id \notin Readable /\ Id \notin binary /\ Id \notin outs
      /\ oldmap[Id] = Id /\ newmap[Id] = Id /\ notmap[Id] = Id
  BY <1>1, NewId
<1>3. /\ a \in binary /\ b \in binary /\ a \in Ids /\ b \in Ids
      /\ nval[a] \in Bit /\ nval[b] \in Bit
  <2>1. a \in binary /\ b \in binary /\ a \in Ids /\ b \in Ids
    BY Lookups
  <2> QED
    BY <2>1 DEF IInv, TypeOK
<1>4. u \in Table /\ v = Apply(u, nval[a], nval[b]) /\ v \in Bit
  <2>1. u \in Table /\ v = Apply(u, nval[a], nval[b])
    BY NewTableRight
  <2> QED
    BY <2>1, <1>3, ApplyType
<1>5. Right(o, v)
  BY <1>3, <1>4, OutcomeRight
<1>6. \A e \in binary : e \in Ids /\ e # Id /\ e <= Id
  <2>1. \A e \in binary : e \in Ids /\ e <= last
    BY ReadableIds DEF IInv, TypeOK
  <2>2. last \in Ids
    BY DEF IInv, TypeOK
  <2> QED
    BY <2>1, <2>2, <1>2
<1>7. /\ oldmap \in [Ids -> Ids] /\ newmap \in [Ids -> Ids] /\ notmap \in [Ids -> Ids]
      /\ wval \in [Ids -> Bit] /\ nval \in [Ids -> Bit] /\ zero_gate \in Ids /\ one_gate \in Ids
      /\ binary \subseteq Readable /\ outs \subseteq 0..last /\ flipped \subseteq outs
      /\ last \in Ids
  BY DEF IInv, TypeOK
<1>8. 0..last \subseteq 0..Id /\ Id \in 0..Id
  BY <1>7 DEF Id
<1>9. Readable \subseteq Readable' /\ Id \in Readable'
  BY <1>1, <1>2, <1>8 DEF Readable
<1>10. wval' \in [Ids -> Bit] /\ wval'[Id] = v /\ \A z \in Ids : z # Id => wval'[z] = wval[z]
  BY <1>1, <1>2, <1>4, <1>7
<1>11. /\ zero_gate # 0 => zero_gate \in binary /\ nval[zero_gate] = 0
       /\ one_gate # 0 => one_gate \in binary /\ nval[one_gate] = 1
  BY DEF IInv, Constants
<1> HIDE DEF a, b, u, v, o
<1>12. CASE /\ Write(u, a, b) /\ newmap' = newmap /\ notmap' = notmap
            /\ \/ zero_gate' = zero_gate /\ one_gate' = one_gate
               \/ zero_gate' = Id /\ one_gate' = one_gate /\ v = 0
               \/ zero_gate' = zero_gate /\ one_gate' = Id /\ v = 1
  <2>1. /\ binary' = binary \cup {Id}
        /\ nval' \in [Ids -> Bit] /\ nval'[Id] = v
        /\ \A z \in Ids : z # Id => nval'[z] = nval[z]
    BY <1>12, <1>2, <1>4, <1>7 DEF Write
  <2>2. TypeOK'
    BY <2>1, <1>12, <1>1, <1>2, <1>7, <1>8, <1>9, <1>10 DEF TypeOK
  <2>3. Constants'
    BY <2>1, <1>12, <1>6, <1>11 DEF Constants
  <2>4. ReadsWire
    BY <2>1, <2>2, <2>3, <1>12, <1>1, <1>2, <1>10 DEF ReadsWire
  <2>5. NewKept
    BY <2>1, <1>1, <1>2, <1>12, <1>10 DEF NewKept
  <2> QED
    BY <2>4, <2>5, <1>1, ReadsWirePreserves
<1>13. CASE /\ o.kind = "same" /\ Drop /\ Remap(o.to)
            /\ zero_gate' = zero_gate /\ one_gate' = one_gate /\ notmap' = notmap
  <2>1. o.to \in binary /\ nval[o.to] = v
    BY <1>5, <1>13 DEF Right
  <2>2. /\ newmap' \in [Ids -> Ids] /\ newmap'[Id] = o.to
        /\ \A z \in Ids : z # Id => newmap'[z] = newmap[z]
        /\ binary' = binary /\ nval' = nval
    BY <2>1, <1>13, <1>2, <1>6, <1>7 DEF Remap, Drop
  <2>3. TypeOK'
    BY <2>2, <1>13, <1>1, <1>2, <1>7, <1>8, <1>9, <1>10 DEF TypeOK
  <2>4. Constants'
    BY <2>2, <1>13, <1>11 DEF Constants
  <2>5. ReadsWire
    BY <2>1, <2>2, <2>3, <2>4, <1>13, <1>1, <1>2, <1>6, <1>10 DEF ReadsWire
  <2>6. NewKept
    BY <2>1, <2>2, <1>1, <1>2, <1>10 DEF NewKept
  <2> QED
    BY <2>5, <2>6, <1>1, ReadsWirePreserves
<1>14. CASE /\ o.kind = "not" /\ Drop /\ notmap' = [notmap EXCEPT ![Id] = o.to]
            /\ zero_gate' = zero_gate /\ one_gate' = one_gate /\ newmap' = newmap
  <2>1. o.to \in binary /\ nval[o.to] = Not(v) /\ v = Not(nval[o.to])
    BY <1>5, <1>14, <1>4, NotNot DEF Right
  <2>2. /\ notmap' \in [Ids -> Ids] /\ notmap'[Id] = o.to
        /\ \A z \in Ids : z # Id => notmap'[z] = notmap[z]
        /\ binary' = binary /\ nval' = nval
    BY <2>1, <1>14, <1>2, <1>6, <1>7 DEF Drop
  <2>3. TypeOK'
    BY <2>2, <1>14, <1>1, <1>2, <1>7, <1>8, <1>9, <1>10 DEF TypeOK
  <2>4. Constants'
    BY <2>2, <1>14, <1>11 DEF Constants
  <2>5. ReadsWire
    BY <2>1, <2>2, <2>3, <2>4, <1>14, <1>1, <1>2, <1>6, <1>10 DEF ReadsWire
  <2>6. NewKept
    BY <2>1, <2>2, <1>1, <1>2, <1>6, <1>10, <1>14 DEF NewKept
  <2> QED
    BY <2>5, <2>6, <1>1, ReadsWirePreserves
<1> QED
  <2>1. \/ o.kind = "keep" /\ Write(u, a, b) /\ UNCHANGED <<zero_gate, one_gate, newmap, notmap>>
        \/ o.kind = "zero" /\ Write(u, a, b) /\ zero_gate' = Id /\ UNCHANGED <<one_gate, newmap, notmap>>
        \/ o.kind = "one" /\ Write(u, a, b) /\ one_gate' = Id /\ UNCHANGED <<zero_gate, newmap, notmap>>
        \/ o.kind = "same" /\ Drop /\ Remap(o.to) /\ UNCHANGED <<zero_gate, one_gate, notmap>>
        \/ o.kind = "not" /\ Drop /\ notmap' = [notmap EXCEPT ![Id] = o.to]
             /\ UNCHANGED <<zero_gate, one_gate, newmap>>
    BY <1>1 DEF Rewrite, o
  <2> QED
    BY <2>1, <1>5, <1>12, <1>13, <1>14 DEF Right

\* A gate the parser dropped preserves the invariant.
LEMMA RedundantPreserves ==
  ASSUME IInv, NEW x \in Readable, Redundant(x)
  PROVE  IInv'
<1>1. /\ Id \in Ids /\ Id > last /\ Id # 0
      /\ Id \notin Readable /\ Id \notin binary /\ Id \notin outs
      /\ oldmap[Id] = Id /\ newmap[Id] = Id /\ notmap[Id] = Id
  BY NewId DEF Redundant
<1>2. TypeOK /\ Constants
  BY DEF IInv
<1>3. x \in Ids /\ wval[x] \in Bit /\ last \in Ids
  BY <1>2, ReadableIds DEF TypeOK
<1>4. 0..last \subseteq 0..Id /\ Id \in 0..Id
  BY <1>3 DEF Id
<1>5. Readable \subseteq Readable'
  BY <1>1, <1>4 DEF Readable, Redundant
<1>6. /\ oldmap' \in [Ids -> Ids] /\ oldmap'[Id] = x
      /\ \A z \in Ids : z # Id => oldmap'[z] = oldmap[z] /\ wval'[z] = wval[z]
      /\ wval' \in [Ids -> Bit] /\ wval'[Id] = wval[x]
  BY <1>1, <1>2, <1>3 DEF Redundant, TypeOK
<1>7. TypeOK'
  BY <1>1, <1>2, <1>4, <1>5, <1>6 DEF TypeOK, Redundant
<1>8. ReadsWire
  BY <1>1, <1>2, <1>6, <1>7 DEF ReadsWire, Redundant, Constants
<1>9. NewDropped
  BY <1>6 DEF NewDropped, Redundant
<1> QED
  BY <1>8, <1>9, ReadsWirePreserves DEF Redundant

\* An output gate preserves the invariant.
LEMMA ReadOutputPreserves ==
  ASSUME IInv, NEW x \in Readable, ReadOutput(x)
  PROVE  IInv'
<1>1. /\ Id \in Ids /\ Id > last /\ Id # 0
      /\ Id \notin Readable /\ Id \notin binary /\ Id \notin outs
  BY NewId DEF ReadOutput
<1>2. TypeOK /\ Constants
  BY DEF IInv
<1>3. x \in Ids /\ wval[x] \in Bit /\ last \in Ids
  BY <1>2, ReadableIds DEF TypeOK
<1>4. Base(x) \in Ids /\ nval[Base(x)] \in Bit
      /\ (~Inverted(x) => nval[Base(x)] = wval[x])
  BY <1>2, Lookups DEF TypeOK
<1>5. 0..Id = (0..last) \cup {Id}
  BY <1>3 DEF Id
<1>6. Readable' = Readable
  BY <1>1, <1>5 DEF Readable, ReadOutput
<1>7. \A z \in Readable : z \in Ids /\ z # Id
  BY <1>1, <1>3, ReadableIds
<1>8. \A e \in binary : e \in Readable
  BY <1>2 DEF TypeOK
<1>9. /\ wval' \in [Ids -> Bit] /\ wval'[Id] = wval[x]
      /\ nval' \in [Ids -> Bit] /\ nval'[Id] = nval[Base(x)]
      /\ \A z \in Ids : z # Id => wval'[z] = wval[z] /\ nval'[z] = nval[z]
  BY <1>1, <1>2, <1>3, <1>4 DEF ReadOutput, TypeOK
<1>10. /\ oldmap' = oldmap /\ newmap' = newmap /\ notmap' = notmap /\ binary' = binary
       /\ zero_gate' = zero_gate /\ one_gate' = one_gate
       /\ outs' = outs \cup {Id} /\ last' = Id
       /\ flipped' = IF Inverted(x) THEN flipped \cup {Id} ELSE flipped
  BY DEF ReadOutput
<1>11. TypeOK'
  BY <1>1, <1>2, <1>5, <1>6, <1>9, <1>10 DEF TypeOK
<1>12. KeptWires'
  <2>1. \A e \in binary : nval'[e] = nval[e]
    BY <1>7, <1>8, <1>9
  <2>2. \A z \in Readable : wval'[z] = wval[z]
    BY <1>7, <1>9
  <2> QED
    BY <2>1, <2>2, <1>6, <1>10 DEF IInv, KeptWires
<1>13. OldWires'
  <2>1. \A z \in Readable : wval'[z] = wval[z]
    BY <1>7, <1>9
  <2> QED
    BY <2>1, <1>6, <1>10 DEF IInv, OldWires
<1>14. NewWires' /\ Down'
  BY <1>10 DEF IInv, NewWires, Down
<1>15. Unread'
  BY <1>1, <1>3, <1>10 DEF IInv, Unread
<1>16. Constants'
  BY <1>2, <1>7, <1>8, <1>9, <1>10 DEF Constants
<1>17. OutputsRight'
  <2>1. \A o \in outs : o \in Ids /\ o # Id
    <3>1. outs \subseteq 0..last
      BY <1>2 DEF TypeOK
    <3> QED
      BY <3>1, <1>1, <1>3
  <2>2. \A o \in outs \ flipped : nval'[o] = wval'[o]
    BY <2>1, <1>9 DEF IInv, OutputsRight
  <2>3. Id \notin flipped' => nval'[Id] = wval'[Id]
    BY <1>4, <1>9, <1>10
  <2> QED
    BY <2>2, <2>3, <1>10 DEF OutputsRight
<1> QED
  BY <1>11, <1>12, <1>13, <1>14, <1>15, <1>16, <1>17 DEF IInv

\* A step that changes nothing.
LEMMA StutterPreserves == ASSUME IInv, UNCHANGED vars PROVE IInv'
<1> USE DEF vars
<1>1. TypeOK' /\ Readable' = Readable
  BY DEF IInv, TypeOK, Readable
<1>2. KeptWires' /\ OldWires' /\ NewWires' /\ Unread' /\ Constants' /\ Down' /\ OutputsRight'
  BY <1>1 DEF IInv, KeptWires, OldWires, NewWires, Unread, Constants, Down, OutputsRight
<1> QED
  BY <1>1, <1>2 DEF IInv

\* The strengthened invariant holds throughout.
THEOREM Invariance == Spec => []IInv
<1>1. ASSUME IInv, [Next]_vars PROVE IInv'
  <2>1. CASE UNCHANGED vars
    BY <1>1, <2>1, StutterPreserves
  <2>2. ASSUME NEW x \in Readable, NEW y \in Readable, NEW t \in Tables, ReadGate(x, y, t)
        PROVE  IInv'
    BY <1>1, <2>2, ReadGatePreserves
  <2>3. ASSUME NEW x \in Readable, ReadOutput(x) PROVE IInv'
    BY <1>1, <2>3, ReadOutputPreserves
  <2>4. ASSUME NEW x \in Readable, Redundant(x) PROVE IInv'
    BY <1>1, <2>4, RedundantPreserves
  <2> QED
    BY <1>1, <2>1, <2>2, <2>3, <2>4 DEF Next
<1> QED
  BY <1>1, InitIInv, PTL DEF Spec

\* Whatever circuit the pass reads, of whatever size, the maps it leaves lead
\* from every wire to one of the new circuit that carries its value, or its
\* inverse just when the wire was replaced by the inversion of that one.
THEOREM SoundTheorem == Spec => []Sound
<1>1. IInv => Sound
  BY IInvSafe
<1> QED
  BY <1>1, Invariance, PTL

\* Every output gate that does not read a removed inverter yields its old value.
THEOREM OutputsRightTheorem == Spec => []OutputsRight
<1>1. IInv => OutputsRight
  BY IInvSafe
<1> QED
  BY <1>1, Invariance, PTL

\* No assertion on the order of wires fails, in this pass or in the lookups of
\* the next.
THEOREM AssertsTheorem == Spec => []AssertsHold
<1>1. IInv => AssertsHold
  BY IInvSafe
<1> QED
  BY <1>1, Invariance, PTL

-----------------------------------------------------------------------------
(***************************************************************************)
(* Scopes.                                                                 *)
(***************************************************************************)
HIDE IdsAssumption DEF Ids, Inputs, Wire

\* The symbols a scope may have of a variable, and the stacks of scopes: the
\* outermost one has all of them.
SymbolOf(n) == [val : Value(n),
                dirty_idx : IF n \in Arrays THEN [Index -> BOOLEAN] ELSE {<< >>}]
IsScope(scope) == DOMAIN scope \subseteq Names /\ \A n \in DOMAIN scope : scope[n] \in SymbolOf(n)
IsStack(st) == /\ Len(st) \in Nat \ {0}
               /\ st = [k \in 1 .. Len(st) |-> st[k]]
               /\ \A k \in 1 .. Len(st) : IsScope(st[k])
               /\ DOMAIN st[1] = Names

\* get on a given stack.
GetIn(st, k, n) ==
  LET holds == {j \in 1 .. k : n \in DOMAIN st[j]}
  IN  st[CHOOSE j \in holds : \A i \in holds : i <= j][n]

Cond == [var : Scalars, wire : Bit, arm : {"then", "else"}]

\* Every open if has a scope, and its arm is one to execute or not.
Nesting ==
  /\ IsStack(stack)
  /\ env = [n \in Names |-> env[n]] /\ \A n \in Names : env[n] \in Value(n)
  /\ conds \in Seq(Cond) /\ taken \in Seq(BOOLEAN)
  /\ Len(conds) + 1 = Top /\ Len(taken) + 1 = Top

\* Scope k is one whose statements the interpreter executes.
Executed(k) == \A i \in 1 .. k - 1 : taken[i]

\* Up to its else, the variable that an if asks has in the scope around it the
\* value that was asked.
Asked == \A j \in DOMAIN conds :
           conds[j].arm = "then" => get(j, conds[j].var).val[1] = conds[j].wire

\* The wire of an if that is reached says which arm is to be executed.
Chosen == lost = {} => \A j \in DOMAIN conds :
            Executed(j) => (conds[j].wire = 1 <=> taken[j])

\* The innermost scope that is executed reads as the interpreter's variables,
\* whatever is stored in the scopes of the arm inside it.
Followed == lost = {} => \A k \in 1 .. Top :
              Executed(k) /\ (k = Top \/ ~taken[k])
                => \A n \in Names : get(k, n).val = env[n]

\* The inductive invariant.
ScopesInv == Nesting /\ Asked /\ Chosen /\ Followed /\ DirtySound

(***************************************************************************)
(* Numbers and stacks.                                                     *)
(***************************************************************************)

\* A set of numbers that is not empty has a least one.
LEMMA Smallest ==
  ASSUME NEW S \in SUBSET Nat, S # {}
  PROVE  \E n \in S : \A m \in S : n <= m
<1> DEFINE I(n) == 0 .. n
           T == {I(n) : n \in S}
<1>1. IsWellFoundedOn(StrictSubsetOrdering(Nat), FiniteSubsetsOf(Nat))
  BY FS_StrictSubsetOrderingWellFounded
<1>2. T \subseteq FiniteSubsetsOf(Nat)
  <2>1. \A n \in S : I(n) \in SUBSET Nat /\ IsFiniteSet(I(n))
    BY FS_Interval
  <2> QED
    BY <2>1 DEF FiniteSubsetsOf
<1>3. T # {}
  OBVIOUS
<1>4. PICK x \in T : \A y \in T : ~ (<<y, x>> \in StrictSubsetOrdering(Nat))
  BY <1>1, <1>2, <1>3, WFMin
<1>5. PICK n \in S : x = I(n)
  OBVIOUS
<1>6. ASSUME NEW m \in S, m < n
      PROVE  FALSE
  <2>1. /\ I(m) \subseteq I(n) /\ I(m) # I(n) /\ I(m) \in T
        /\ I(m) \in SUBSET Nat /\ I(n) \in SUBSET Nat
    BY <1>6
  <2>2. <<I(m), I(n)>> \in StrictSubsetOrdering(Nat)
    BY <2>1 DEF StrictSubsetOrdering
  <2> QED
    BY <2>1, <2>2, <1>4, <1>5
<1> QED
  BY <1>6

\* One that is bounded has a greatest.
LEMMA Greatest ==
  ASSUME NEW b \in Nat, NEW S \in SUBSET (1 .. b), S # {}
  PROVE  \E n \in S : \A m \in S : m <= n
<1> DEFINE T == {k \in Nat : \A n \in S : n <= k}
<1>1. b \in T
  OBVIOUS
<1>2. PICK k \in T : \A m \in T : k <= m
  BY <1>1, Smallest
<1>3. k \in Nat /\ k - 1 \notin T /\ \A n \in S : n <= k
  BY <1>2
<1>4. PICK n \in S : ~(n <= k - 1)
  <2>1. CASE k - 1 \in Nat
    BY <1>3, <2>1
  <2>2. CASE k - 1 \notin Nat
    <3>1. k = 0
      BY <1>3, <2>2
    <3>2. PICK m \in S : m \in 1 .. b
      OBVIOUS
    <3> QED
      BY <1>3, <3>1, <3>2
  <2> QED
    BY <2>1, <2>2
<1>5. n = k
  BY <1>3, <1>4
<1> QED
  BY <1>3, <1>5

\* A stack is a sequence.
LEMMA StackSeq ==
  ASSUME NEW st, IsStack(st), NEW T, \A k \in 1 .. Len(st) : st[k] \in T
  PROVE  st \in Seq(T)
BY DEF IsStack

\* get finds the innermost symbol; there is one, because the outermost scope
\* has all of them.
LEMMA Found ==
  ASSUME NEW st, IsStack(st), NEW k \in 1 .. Len(st), NEW n \in Names
  PROVE  \E j \in 1 .. k : /\ n \in DOMAIN st[j]
                           /\ GetIn(st, k, n) = st[j][n]
                           /\ \A i \in j + 1 .. k : n \notin DOMAIN st[i]
<1> DEFINE holds == {j \in 1 .. k : n \in DOMAIN st[j]}
           j == CHOOSE j \in holds : \A i \in holds : i <= j
<1>1. k \in Nat /\ 1 \in holds /\ holds \in SUBSET (1 .. k)
  BY DEF IsStack
<1>2. \E m \in holds : \A i \in holds : i <= m
  BY <1>1, Greatest
<1>3. j \in holds /\ \A i \in holds : i <= j
  BY <1>2
<1>4. GetIn(st, k, n) = st[j][n]
  BY DEF GetIn
<1> HIDE DEF j
<1>5. ASSUME NEW i \in j + 1 .. k PROVE n \notin DOMAIN st[i]
  <2>1. i \in 1 .. k /\ ~(i <= j)
    BY <1>3
  <2> QED
    BY <2>1, <1>3
<1> QED
  BY <1>3, <1>4, <1>5

\* Where a scope has no symbol of its own, get goes on to the next.
LEMMA Outward ==
  ASSUME NEW st, IsStack(st), NEW k \in 1 .. Len(st), NEW n \in Names
  PROVE  /\ n \in DOMAIN st[k] => GetIn(st, k, n) = st[k][n]
         /\ n \notin DOMAIN st[k] =>
              k - 1 \in 1 .. Len(st) /\ GetIn(st, k, n) = GetIn(st, k - 1, n)
         /\ GetIn(st, k, n) \in SymbolOf(n)
<1>1. PICK j \in 1 .. k : /\ n \in DOMAIN st[j]
                          /\ GetIn(st, k, n) = st[j][n]
                          /\ \A i \in j + 1 .. k : n \notin DOMAIN st[i]
  BY Found
<1>2. GetIn(st, k, n) \in SymbolOf(n)
  BY <1>1 DEF IsStack, IsScope
<1>3. n \in DOMAIN st[k] => j = k
  BY <1>1
<1>4. ASSUME n \notin DOMAIN st[k]
      PROVE  k - 1 \in 1 .. Len(st) /\ GetIn(st, k, n) = GetIn(st, k - 1, n)
  <2>1. k - 1 \in 1 .. Len(st)
    BY <1>4 DEF IsStack
  <2>2. {i \in 1 .. k : n \in DOMAIN st[i]} = {i \in 1 .. k - 1 : n \in DOMAIN st[i]}
    BY <1>4, <2>1
  <2> QED
    BY <2>1, <2>2 DEF GetIn
<1> QED
  BY <1>1, <1>2, <1>3, <1>4

\* What get finds depends on the scopes it searches only.
LEMMA SameBelow ==
  ASSUME NEW st, IsStack(st), NEW st2, NEW k \in 1 .. Len(st), NEW n \in Names,
         \A j \in 1 .. k : st2[j] = st[j]
  PROVE  GetIn(st2, k, n) = GetIn(st, k, n)
<1> DEFINE holds == {j \in 1 .. k : n \in DOMAIN st[j]}
           j == CHOOSE j \in holds : \A i \in holds : i <= j
<1>1. k \in Nat /\ 1 \in holds /\ holds \in SUBSET (1 .. k)
  BY DEF IsStack
<1>2. \E m \in holds : \A i \in holds : i <= m
  BY <1>1, Greatest
<1>3. j \in holds
  BY <1>2
<1>4. {i \in 1 .. k : n \in DOMAIN st2[i]} = holds
  OBVIOUS
<1>5. GetIn(st, k, n) = st[j][n]
  BY DEF GetIn
<1>6. GetIn(st2, k, n) = st2[j][n]
  BY <1>4 DEF GetIn
<1> QED
  BY <1>3, <1>5, <1>6

(***************************************************************************)
(* The operations on scopes keep stacks stacks.                            *)
(***************************************************************************)

\* Replacing a scope of a stack.
LEMMA Replaced ==
  ASSUME NEW st, IsStack(st), NEW k \in 1 .. Len(st), NEW scope, IsScope(scope),
         DOMAIN st[k] \subseteq DOMAIN scope
  PROVE  LET st2 == [st EXCEPT ![k] = scope]
         IN  /\ IsStack(st2) /\ Len(st2) = Len(st) /\ st2[k] = scope
             /\ \A j \in 1 .. Len(st) : j # k => st2[j] = st[j]
<1> DEFINE T   == {st[j] : j \in 1 .. Len(st)} \cup {scope}
           st2 == [st EXCEPT ![k] = scope]
<1>1. st \in Seq(T)
  BY StackSeq
<1>2. st2 \in Seq(T) /\ Len(st2) = Len(st) /\ DOMAIN st = 1 .. Len(st)
  BY <1>1
<1>3. \A j \in 1 .. Len(st) : st2[j] = IF j = k THEN scope ELSE st[j]
  BY <1>2
<1>4. st2 = [j \in 1 .. Len(st2) |-> st2[j]]
  BY <1>2
<1> HIDE DEF st2
<1>5. DOMAIN st2[1] = Names
  <2>1. DOMAIN st[1] = Names /\ 1 \in 1 .. Len(st)
    BY DEF IsStack
  <2> QED
    BY <2>1, <1>3 DEF IsScope
<1>6. \A j \in 1 .. Len(st2) : IsScope(st2[j])
  BY <1>2, <1>3 DEF IsStack
<1>7. IsStack(st2)
  BY <1>2, <1>4, <1>5, <1>6 DEF IsStack
<1> QED
  BY <1>2, <1>3, <1>7 DEF st2

\* An empty scope pushed on a stack.
LEMMA Pushed ==
  ASSUME NEW st, IsStack(st)
  PROVE  LET st2 == push_scope(st)
         IN  /\ IsStack(st2) /\ Len(st2) = Len(st) + 1 /\ DOMAIN st2[Len(st2)] = {}
             /\ \A j \in 1 .. Len(st) : st2[j] = st[j]
<1> DEFINE T   == {st[j] : j \in 1 .. Len(st)} \cup {<< >>}
           st2 == Append(st, << >>)
<1>1. st \in Seq(T) /\ << >> \in T
  BY StackSeq
<1>2. /\ st2 \in Seq(T) /\ Len(st2) = Len(st) + 1 /\ Len(st) \in Nat \ {0}
      /\ st2[Len(st) + 1] = << >>
      /\ \A j \in 1 .. Len(st) : st2[j] = st[j]
  BY <1>1 DEF IsStack
<1> HIDE DEF T, st2
<1>3. st2 = [j \in 1 .. Len(st2) |-> st2[j]]
  BY <1>2
<1>4. push_scope(st) = st2
  BY DEF push_scope, st2
<1>5. DOMAIN << >> = {}
  OBVIOUS
<1>6. \A j \in 1 .. Len(st2) : IsScope(st2[j])
  <2> SUFFICES ASSUME NEW j \in 1 .. Len(st2) PROVE IsScope(st2[j])
    OBVIOUS
  <2>1. CASE j \in 1 .. Len(st)
    BY <2>1, <1>2 DEF IsStack
  <2>2. CASE j = Len(st) + 1
    BY <2>2, <1>2, <1>5 DEF IsScope
  <2> QED
    BY <2>1, <2>2, <1>2
<1>7. DOMAIN st2[1] = Names
  BY <1>2 DEF IsStack
<1> QED
  BY <1>2, <1>3, <1>4, <1>5, <1>6, <1>7 DEF IsStack

\* The innermost scope popped.
LEMMA Popped ==
  ASSUME NEW st, IsStack(st), Len(st) > 1
  PROVE  LET st2 == Front(st)
         IN  /\ IsStack(st2) /\ Len(st2) = Len(st) - 1
             /\ \A j \in 1 .. Len(st) - 1 : st2[j] = st[j]
<1> DEFINE T  == {st[j] : j \in 1 .. Len(st)}
           st2 == SubSeq(st, 1, Len(st) - 1)
<1>1. st \in Seq(T) /\ Len(st) \in Nat
  BY StackSeq DEF IsStack
<1>2. /\ st2 \in Seq(T) /\ Len(st2) = Len(st) - 1
      /\ \A j \in 1 .. Len(st) - 1 : st2[j] = st[j]
  BY <1>1, SubSeqProperties
<1>3. st2 = [j \in 1 .. Len(st2) |-> st2[j]]
  BY <1>2
<1>4. Front(st) = st2
  BY DEF Front
<1> HIDE DEF st2
<1>5. DOMAIN st2[1] = Names
  <2>1. 1 \in 1 .. Len(st) - 1
    BY <1>1
  <2> QED
    BY <2>1, <1>2 DEF IsStack
<1>6. \A j \in 1 .. Len(st2) : IsScope(st2[j])
  BY <1>1, <1>2 DEF IsStack
<1>7. IsStack(st2)
  BY <1>1, <1>2, <1>3, <1>5, <1>6 DEF IsStack
<1> QED
  BY <1>2, <1>4, <1>7

\* assign_ stores a symbol of the variable.
LEMMA StoredType ==
  ASSUME NEW scope, NEW n \in Names, NEW val \in Value(n), NEW junk \in BOOLEAN,
         NEW dirty_idx, dirty_idx \in (IF n \in Arrays THEN [Index -> BOOLEAN] ELSE {<< >>})
  PROVE  Stored(scope, n, val, dirty_idx, junk) \in SymbolOf(n)
<1>1. n \notin Scalars => n \in Arrays
  BY DEF Names
<1>2. n \in Arrays => [dirty_idx EXCEPT ![Elements] = junk] \in [Index -> BOOLEAN]
  OBVIOUS
<1> QED
  BY <1>1, <1>2 DEF Stored, Symbol, SymbolOf

\* assign_ changes one symbol of one scope.
LEMMA AssignOne ==
  ASSUME NEW st, IsStack(st), NEW k \in 1 .. Len(st), NEW n \in Names,
         NEW val \in Value(n), NEW junk \in BOOLEAN,
         NEW dirty_idx, dirty_idx \in (IF n \in Arrays THEN [Index -> BOOLEAN] ELSE {<< >>})
  PROVE  LET st2 == assign_(st, k, n, val, dirty_idx, junk)
         IN  /\ IsStack(st2) /\ Len(st2) = Len(st)
             /\ \A j \in 1 .. Len(st) : j # k => st2[j] = st[j]
             /\ DOMAIN st2[k] = DOMAIN st[k] \cup {n}
             /\ st2[k][n] = Stored(st[k], n, val, dirty_idx, junk)
             /\ \A m \in DOMAIN st[k] : m # n => st2[k][m] = st[k][m]
<1> DEFINE new   == [m \in {n} |-> Stored(st[k], m, val, dirty_idx, junk)]
           scope == Over(new, st[k])
<1>1. k \in DOMAIN st
  BY DEF IsStack
<1>2. assign_(st, k, n, val, dirty_idx, junk) = [st EXCEPT ![k] = scope]
  BY <1>1 DEF assign_
<1>3. /\ DOMAIN scope = DOMAIN st[k] \cup {n}
      /\ scope[n] = Stored(st[k], n, val, dirty_idx, junk)
      /\ \A m \in DOMAIN st[k] : m # n => scope[m] = st[k][m]
  BY DEF Over
<1> HIDE DEF scope
<1>4. IsScope(scope)
  BY <1>3, StoredType DEF IsScope, IsStack
<1>5. LET st2 == [st EXCEPT ![k] = scope]
      IN  /\ IsStack(st2) /\ Len(st2) = Len(st) /\ st2[k] = scope
          /\ \A j \in 1 .. Len(st) : j # k => st2[j] = st[j]
  BY <1>3, <1>4, Replaced
<1> QED
  BY <1>2, <1>3, <1>5

\* A variable that neither the scope nor those around it change reads the same.
LEMMA SameSymbol ==
  ASSUME NEW st, IsStack(st), NEW st2, IsStack(st2),
         NEW k \in 1 .. Len(st), k <= Len(st2), NEW m \in Names,
         \A j \in 1 .. k - 1 : st2[j] = st[j],
         m \in DOMAIN st2[k] <=> m \in DOMAIN st[k],
         m \in DOMAIN st[k] => st2[k][m] = st[k][m]
  PROVE  GetIn(st2, k, m) = GetIn(st, k, m)
<1>1. k \in 1 .. Len(st2)
  BY DEF IsStack
<1>2. CASE m \in DOMAIN st[k]
  BY <1>1, <1>2, Outward
<1>3. CASE m \notin DOMAIN st[k]
  <2>1. /\ GetIn(st, k, m) = GetIn(st, k - 1, m) /\ k - 1 \in 1 .. Len(st)
        /\ GetIn(st2, k, m) = GetIn(st2, k - 1, m)
    BY <1>1, <1>3, Outward
  <2> QED
    BY <2>1, SameBelow
<1> QED
  BY <1>2, <1>3

\* get is GetIn on the compiler's stack.
LEMMA GetIsGetIn == \A k, n : get(k, n) = GetIn(stack, k, n)
BY DEF get, GetIn

\* In scope k an element without a mark is as in the scopes around it.
Unmarked(st, k) ==
  \A n \in DOMAIN st[k] \cap Arrays, i \in Index :
    ~st[k][n].dirty_idx[i] => st[k][n].val[i] = GetIn(st, k - 1, n).val[i]

\* DirtySound says it of every scope but the outermost.
LEMMA DirtyUnmarked ==
  DirtySound <=> (lost = {} => \A k \in 2 .. Top : Unmarked(stack, k))
BY GetIsGetIn DEF DirtySound, Unmarked

(***************************************************************************)
(* The multiplexers.                                                       *)
(***************************************************************************)

USE DEF Top

\* What mux brings into the scope around the innermost is a symbol of the
\* variable.
LEMMA MergedType ==
  ASSUME IsStack(stack), Top > 1, NEW n \in DOMAIN stack[Top], NEW wire \in Bit
  PROVE  LET m == Merged(Top, n, wire)
         IN  /\ n \in Names /\ m.val \in Value(n)
             /\ m.dirty_idx \in (IF n \in Arrays THEN [Index -> BOOLEAN] ELSE {<< >>})
<1> DEFINE sym == GetIn(stack, Top - 1, n)
           own == stack[Top][n]
           val == [i \in DOMAIN sym.val |->
                     IF n \in Scalars \/ own.dirty_idx[i]
                     THEN Muxed(wire, own.val[i], sym.val[i]) ELSE sym.val[i]]
<1>1. Top \in 1 .. Len(stack) /\ Top - 1 \in 1 .. Len(stack)
  BY DEF IsStack
<1>2. n \in Names /\ own \in SymbolOf(n)
  BY <1>1 DEF IsStack, IsScope
<1>3. sym \in SymbolOf(n)
  BY <1>1, <1>2, Outward
<1>4. sym.val \in Value(n) /\ own.val \in Value(n)
      /\ sym.dirty_idx \in (IF n \in Arrays THEN [Index -> BOOLEAN] ELSE {<< >>})
  BY <1>2, <1>3 DEF SymbolOf
<1>5. Merged(Top, n, wire) = Symbol(val, Marks(Top - 1, n, sym.dirty_idx))
  BY GetIsGetIn DEF Merged
<1>6. Value(n) = [DOMAIN sym.val -> Bit]
  BY <1>4 DEF Value
<1> HIDE DEF own, sym
<1>7. val \in Value(n)
  BY <1>4, <1>6 DEF Muxed
<1>8. Marks(Top - 1, n, sym.dirty_idx) \in (IF n \in Arrays THEN [Index -> BOOLEAN] ELSE {<< >>})
  BY <1>2, <1>4, ScopesAssumption DEF Marks, Clean, Names
<1> QED
  BY <1>2, <1>5, <1>7, <1>8 DEF Symbol

\* mux leaves the scopes beyond the next alone, and in the next what the
\* innermost has no symbol of.
LEMMA MuxScopes ==
  ASSUME IsStack(stack), Top > 1, NEW wire \in Bit, NEW junk \in [Arrays -> BOOLEAN]
  PROVE  LET st == mux(wire, junk)
         IN  /\ IsStack(st) /\ Len(st) = Top - 1
             /\ \A j \in 1 .. Top - 2 : st[j] = stack[j]
             /\ DOMAIN st[Top - 1] = DOMAIN stack[Top] \cup DOMAIN stack[Top - 1]
             /\ \A n \in DOMAIN stack[Top - 1] :
                  n \notin DOMAIN stack[Top] => st[Top - 1][n] = stack[Top - 1][n]
             /\ \A n \in DOMAIN stack[Top] :
                  LET m == Merged(Top, n, wire)
                  IN  st[Top - 1][n] = Stored(stack[Top - 1], n, m.val, m.dirty_idx, junk[n])
<1> DEFINE outer == stack[Top - 1]
           Into(n) == LET m == Merged(Top, n, wire)
                      IN  Stored(outer, n, m.val, m.dirty_idx, junk[n])
           new   == [n \in DOMAIN stack[Top] |-> Into(n)]
           scope == Over(new, outer)
           front == Front(stack)
<1>1. /\ IsStack(front) /\ Len(front) = Top - 1
      /\ \A j \in 1 .. Top - 1 : front[j] = stack[j]
  BY Popped
<1>2. Top - 1 \in 1 .. Len(front)
  BY <1>1 DEF IsStack
<1>3. mux(wire, junk) = [front EXCEPT ![Top - 1] = scope]
  BY DEF mux
<1>4. \A n \in DOMAIN stack[Top] : Into(n) \in SymbolOf(n)
  <2> SUFFICES ASSUME NEW n \in DOMAIN stack[Top] PROVE Into(n) \in SymbolOf(n)
    OBVIOUS
  <2>1. CASE n \in Arrays
    BY <2>1, MergedType, StoredType
  <2>2. CASE n \notin Arrays
    BY <2>2, MergedType DEF Names, Stored, Symbol, SymbolOf
  <2> QED
    BY <2>1, <2>2
<1> HIDE DEF Into, front
<1>5. /\ DOMAIN scope = DOMAIN stack[Top] \cup DOMAIN outer
      /\ \A n \in DOMAIN outer : n \notin DOMAIN stack[Top] => scope[n] = outer[n]
      /\ \A n \in DOMAIN stack[Top] : scope[n] = Into(n)
  BY DEF Over
<1> HIDE DEF scope
<1>6. IsScope(outer) /\ IsScope(stack[Top])
  BY <1>1, <1>2 DEF IsStack
<1>7. IsScope(scope)
  BY <1>4, <1>5, <1>6 DEF IsScope
<1>8. DOMAIN front[Top - 1] \subseteq DOMAIN scope
  BY <1>1, <1>2, <1>5
<1>9. LET st == [front EXCEPT ![Top - 1] = scope]
      IN  /\ IsStack(st) /\ Len(st) = Top - 1 /\ st[Top - 1] = scope
          /\ \A j \in 1 .. Top - 1 : j # Top - 1 => st[j] = front[j]
  BY <1>1, <1>2, <1>7, <1>8, Replaced
<1>10. Top - 1 \in Nat
  BY <1>1 DEF IsStack
<1> QED
  BY <1>1, <1>3, <1>5, <1>9, <1>10 DEF Into

\* The value mux makes of a variable: the inner scope's if the wire is 1, for
\* the elements it does not look at are the same in both.
LEMMA MergedValue ==
  ASSUME IsStack(stack), Top > 1, Unmarked(stack, Top), NEW wire \in Bit,
         NEW n \in DOMAIN stack[Top]
  PROVE  Merged(Top, n, wire).val
           = IF wire = 1 THEN stack[Top][n].val ELSE GetIn(stack, Top - 1, n).val
<1> DEFINE sym == GetIn(stack, Top - 1, n)
           own == stack[Top][n]
           val == [i \in DOMAIN sym.val |->
                     IF n \in Scalars \/ own.dirty_idx[i]
                     THEN Muxed(wire, own.val[i], sym.val[i]) ELSE sym.val[i]]
<1>1. Top \in 1 .. Len(stack) /\ Top - 1 \in 1 .. Len(stack)
  BY DEF IsStack
<1>2. n \in Names /\ own \in SymbolOf(n)
  BY <1>1 DEF IsStack, IsScope
<1>3. sym \in SymbolOf(n)
  BY <1>1, <1>2, Outward
<1>4. sym.val \in Value(n) /\ own.val \in Value(n)
  BY <1>2, <1>3 DEF SymbolOf
<1>5. Merged(Top, n, wire).val = val
  BY GetIsGetIn DEF Merged, Symbol
<1>6. ASSUME n \in Arrays, NEW i \in Index, ~own.dirty_idx[i]
      PROVE  own.val[i] = sym.val[i]
  BY <1>6 DEF Unmarked
<1>7. n \in Scalars \/ n \in Arrays
  BY <1>2 DEF Names
<1> HIDE DEF own, sym
<1>8. CASE wire = 1
  <2>1. CASE n \in Scalars
    <3>1. val = [i \in DOMAIN sym.val |-> own.val[i]]
      BY <1>8, <2>1 DEF Muxed
    <3> QED
      BY <1>4, <1>5, <1>8, <3>1 DEF Value, own, sym
  <2>2. CASE n \in Arrays
    <3>1. DOMAIN sym.val = Index /\ own.val = [i \in Index |-> own.val[i]]
      BY <1>4, <2>2 DEF Value
    <3>2. \A i \in Index : val[i] = own.val[i]
      BY <1>6, <1>8, <2>2, <3>1 DEF Muxed
    <3>3. val = [i \in Index |-> val[i]]
      BY <3>1
    <3>4. val = own.val
      BY <3>1, <3>2, <3>3
    <3> QED
      BY <1>5, <1>8, <3>4 DEF own
  <2> QED
    BY <1>7, <2>1, <2>2
<1>9. CASE wire = 0
  <2>1. val = [i \in DOMAIN sym.val |-> sym.val[i]]
    BY <1>9 DEF Muxed
  <2>2. val = sym.val
    BY <1>4, <2>1 DEF Value
  <2> QED
    BY <1>5, <1>9, <2>2 DEF sym
<1> QED
  BY <1>8, <1>9 DEF Bit

\* After mux the scope around reads as the inner one did if the wire is 1, and
\* as it did itself if it is 0.
LEMMA MuxReads ==
  ASSUME IsStack(stack), Top > 1, Unmarked(stack, Top), NEW wire \in Bit,
         NEW junk \in [Arrays -> BOOLEAN], NEW n \in Names
  PROVE  GetIn(mux(wire, junk), Top - 1, n).val
           = IF wire = 1 THEN GetIn(stack, Top, n).val ELSE GetIn(stack, Top - 1, n).val
<1> DEFINE st == mux(wire, junk)
<1>1. /\ IsStack(st) /\ Len(st) = Top - 1
      /\ \A j \in 1 .. Top - 2 : st[j] = stack[j]
      /\ DOMAIN st[Top - 1] = DOMAIN stack[Top] \cup DOMAIN stack[Top - 1]
      /\ \A m \in DOMAIN stack[Top - 1] :
           m \notin DOMAIN stack[Top] => st[Top - 1][m] = stack[Top - 1][m]
  BY MuxScopes
<1>2. ASSUME n \in DOMAIN stack[Top]
      PROVE  st[Top - 1][n].val = Merged(Top, n, wire).val
  <2> DEFINE m == Merged(Top, n, wire)
  <2>1. st[Top - 1][n] = Stored(stack[Top - 1], n, m.val, m.dirty_idx, junk[n])
    BY <1>2, MuxScopes
  <2> HIDE DEF st, m
  <2> QED
    BY <2>1 DEF Stored, Symbol, m
<1>3. Top \in 1 .. Len(stack) /\ Top - 1 \in 1 .. Len(stack) /\ Top - 1 \in 1 .. Len(st)
  BY <1>1 DEF IsStack
<1> HIDE DEF st
<1>4. CASE n \in DOMAIN stack[Top]
  <2>1. GetIn(st, Top - 1, n) = st[Top - 1][n] /\ GetIn(stack, Top, n) = stack[Top][n]
    BY <1>1, <1>3, <1>4, Outward
  <2> QED
    BY <1>2, <1>4, <2>1, MergedValue DEF st
<1>5. CASE n \notin DOMAIN stack[Top]
  <2>1. GetIn(stack, Top, n) = GetIn(stack, Top - 1, n)
    BY <1>3, <1>5, Outward
  <2>2. GetIn(st, Top - 1, n) = GetIn(stack, Top - 1, n)
    <3> DEFINE k == Top - 1
    <3>1. \A j \in 1 .. k - 1 : st[j] = stack[j]
      BY <1>1, <1>3
    <3>2. /\ k <= Len(st) /\ k \in 1 .. Len(stack)
          /\ n \in DOMAIN st[k] <=> n \in DOMAIN stack[k]
          /\ n \in DOMAIN stack[k] => st[k][n] = stack[k][n]
      BY <1>1, <1>3, <1>5
    <3> HIDE DEF k
    <3>3. GetIn(st, k, n) = GetIn(stack, k, n)
      BY <1>1, <3>1, <3>2, SameSymbol
    <3> QED
      BY <3>3 DEF k
  <2> QED
    BY <2>1, <2>2 DEF st
<1> QED
  BY <1>4, <1>5

\* No mark is lost on the way out, so the scope around has none missing: the
\* elements it gets from the inner scope are marked there.
LEMMA MuxUnmarked ==
  ASSUME IsStack(stack), Top > 2, Unmarked(stack, Top - 1), NEW wire \in Bit,
         NEW junk \in [Arrays -> BOOLEAN], LostIn(mux(wire, junk)) = {}
  PROVE  Unmarked(mux(wire, junk), Top - 1)
<1> DEFINE st == mux(wire, junk)
<1>1. /\ IsStack(st) /\ Len(st) = Top - 1
      /\ \A j \in 1 .. Top - 2 : st[j] = stack[j]
      /\ DOMAIN st[Top - 1] = DOMAIN stack[Top] \cup DOMAIN stack[Top - 1]
      /\ \A m \in DOMAIN stack[Top - 1] :
           m \notin DOMAIN stack[Top] => st[Top - 1][m] = stack[Top - 1][m]
      /\ \A n \in DOMAIN stack[Top] :
           LET m == Merged(Top, n, wire)
           IN  st[Top - 1][n] = Stored(stack[Top - 1], n, m.val, m.dirty_idx, junk[n])
  BY MuxScopes
<1>2. /\ Top - 1 \in 1 .. Len(stack) /\ Top - 2 \in 1 .. Len(stack) /\ Top - 2 \in 1 .. Len(st)
      /\ Top \in 1 .. Len(stack) /\ (Top - 1) - 1 = Top - 2 /\ Top - 1 # 1
  BY <1>1 DEF IsStack
<1>3. \A n \in DOMAIN stack[Top] \cap Arrays, i \in Index :
        stack[Top][n].dirty_idx[i] => st[Top - 1][n].dirty_idx[i]
  BY DEF LostIn
<1> HIDE DEF st
<1> SUFFICES ASSUME NEW n \in DOMAIN st[Top - 1] \cap Arrays, NEW i \in Index,
                    ~st[Top - 1][n].dirty_idx[i]
             PROVE  st[Top - 1][n].val[i] = GetIn(st, Top - 2, n).val[i]
  BY <1>2 DEF Unmarked, st
<1>4. n \in Names /\ n \notin Scalars
  BY ScopesAssumption DEF Names
<1>5. GetIn(st, Top - 2, n) = GetIn(stack, Top - 2, n)
  BY <1>1, <1>2, <1>4, SameBelow
<1>6. CASE n \notin DOMAIN stack[Top]
  BY <1>1, <1>2, <1>5, <1>6 DEF Unmarked
<1>7. CASE n \in DOMAIN stack[Top]
  <2> DEFINE sym == GetIn(stack, Top - 1, n)
             own == stack[Top][n]
             val == [e \in DOMAIN sym.val |->
                       IF n \in Scalars \/ own.dirty_idx[e]
                       THEN Muxed(wire, own.val[e], sym.val[e]) ELSE sym.val[e]]
  <2>1. sym \in SymbolOf(n)
    BY <1>2, <1>4, Outward
  <2>2. DOMAIN sym.val = Index
    BY <2>1 DEF SymbolOf, Value
  <2>3. Merged(Top, n, wire) = Symbol(val, Marks(Top - 1, n, sym.dirty_idx))
    BY GetIsGetIn DEF Merged
  <2>4. Marks(Top - 1, n, sym.dirty_idx) = sym.dirty_idx
    BY <1>2, <1>4 DEF Marks
  <2> HIDE DEF val, sym
  <2>5. st[Top - 1][n] = Stored(stack[Top - 1], n, val, sym.dirty_idx, junk[n])
    BY <1>1, <1>7, <2>3, <2>4 DEF Symbol
  <2>6. st[Top - 1][n].val[i] = sym.val[i]
    <3>1. ~own.dirty_idx[i]
      BY <1>3, <1>7
    <3>2. val[i] = sym.val[i]
      BY <1>4, <2>2, <3>1 DEF val
    <3> QED
      BY <2>5, <3>2 DEF Stored, Symbol
  <2>7. CASE n \in DOMAIN stack[Top - 1]
    <3>1. sym = stack[Top - 1][n]
      BY <1>2, <1>4, <2>7, Outward DEF sym
    <3>2. st[Top - 1][n].dirty_idx = sym.dirty_idx
      BY <2>5, <2>7 DEF Stored, Symbol
    <3> QED
      BY <1>2, <1>5, <2>6, <2>7, <3>1, <3>2 DEF Unmarked
  <2>8. CASE n \notin DOMAIN stack[Top - 1]
    <3>1. sym = GetIn(stack, Top - 2, n)
      BY <1>2, <1>4, <2>8, Outward DEF sym
    <3> QED
      BY <1>5, <2>6, <3>1
  <2> QED
    BY <2>7, <2>8
<1> QED
  BY <1>6, <1>7

(***************************************************************************)
(* Statements.                                                             *)
(***************************************************************************)

\* What the invariant says of the next state, with get and Unmarked on its stack.
LEMMA NextState ==
  /\ \A k, n : get(k, n)' = GetIn(stack', k, n)
  /\ DirtySound' <=> (lost' = {} => \A k \in 2 .. Len(stack') : Unmarked(stack', k))
<1>1. \A k, n : get(k, n)' = GetIn(stack', k, n)
  BY DEF get, GetIn
<1> QED
  BY <1>1 DEF DirtySound, Unmarked

\* The numbers of the scopes and of the ifs.
LEMMA Sizes ==
  ASSUME Nesting
  PROVE  /\ Top \in Nat \ {0} /\ Len(stack) = Top
         /\ DOMAIN conds = 1 .. Top - 1 /\ DOMAIN taken = 1 .. Top - 1
         /\ \A j \in 1 .. Top - 1 : conds[j] \in Cond
         /\ Live <=> Executed(Top)
BY DEF Nesting, IsStack, Live, Executed

\* A statement that changes one symbol of the innermost scope, and the
\* interpreter's variable to the same value, keeps the invariant.
LEMMA Assigning ==
  ASSUME ScopesInv, NEW n \in Names, NEW meant \in Value(n),
         IsStack(stack'), Len(stack') = Top,
         \A j \in 1 .. Top - 1 : stack'[j] = stack[j],
         DOMAIN stack'[Top] = DOMAIN stack[Top] \cup {n},
         \A m \in DOMAIN stack[Top] : m # n => stack'[Top][m] = stack[Top][m],
         lost = {} /\ Live => stack'[Top][n].val = meant,
         env' = IF Live THEN [env EXCEPT ![n] = meant] ELSE env,
         conds' = conds, taken' = taken, lost' = {} => lost = {},
         lost' = {} /\ Top > 1 => Unmarked(stack', Top)
  PROVE  ScopesInv'
<1>1. /\ Nesting /\ Top \in Nat \ {0} /\ Len(stack) = Top
      /\ DOMAIN conds = 1 .. Top - 1 /\ DOMAIN taken = 1 .. Top - 1
      /\ Live <=> Executed(Top)
  BY Sizes DEF ScopesInv
<1>2. \A k \in 1 .. Top - 1, m \in Names : GetIn(stack', k, m) = GetIn(stack, k, m)
  <2> SUFFICES ASSUME NEW k \in 1 .. Top - 1, NEW m \in Names
               PROVE  GetIn(stack', k, m) = GetIn(stack, k, m)
    OBVIOUS
  <2>1. k \in 1 .. Len(stack) /\ \A j \in 1 .. k : stack'[j] = stack[j]
    BY <1>1
  <2> QED
    BY <1>1, <2>1, SameBelow DEF Nesting
<1>3. \A m \in Names : m # n => GetIn(stack', Top, m) = GetIn(stack, Top, m)
  <2> SUFFICES ASSUME NEW m \in Names, m # n
               PROVE  GetIn(stack', Top, m) = GetIn(stack, Top, m)
    OBVIOUS
  <2>1. Top \in 1 .. Len(stack) /\ IsStack(stack)
    BY <1>1 DEF Nesting
  <2> QED
    BY <2>1, SameSymbol
<1>4. Nesting'
  BY <1>1 DEF Nesting
<1>5. Asked'
  <2>1. \A j \in DOMAIN conds : j \in 1 .. Top - 1 /\ conds[j].var \in Names
    BY <1>1, Sizes DEF Cond, Names
  <2> QED
    BY <1>2, <2>1, NextState, GetIsGetIn DEF ScopesInv, Asked
<1>6. Chosen'
  BY DEF ScopesInv, Chosen, Executed
<1>7. Followed'
  <2> SUFFICES ASSUME lost = {}, NEW k \in 1 .. Top, Executed(k), k = Top \/ ~taken[k],
                      NEW m \in Names
               PROVE  GetIn(stack', k, m).val = env'[m]
    BY NextState DEF Followed, Executed
  <2>1. GetIn(stack, k, m).val = env[m]
    BY GetIsGetIn DEF ScopesInv, Followed
  <2>2. CASE k = Top
    <3>1. Live /\ env' = [env EXCEPT ![n] = meant]
      BY <1>1, <2>2
    <3>2. CASE m = n
      <4>1. GetIn(stack', Top, n) = stack'[Top][n]
        BY <1>1, Outward
      <4> QED
        BY <1>1, <2>2, <3>1, <3>2, <4>1 DEF Nesting
    <3>3. CASE m # n
      BY <1>1, <1>3, <2>1, <2>2, <3>1, <3>3 DEF Nesting
    <3> QED
      BY <3>2, <3>3
  <2>3. CASE k # Top
    <3>1. k \in 1 .. Top - 1 /\ ~taken[k]
      BY <1>1, <2>3
    <3>2. ~Live
      BY <1>1, <3>1 DEF Live
    <3> QED
      BY <1>2, <2>1, <3>1, <3>2
  <2> QED
    BY <2>2, <2>3
<1>8. DirtySound'
  <2> SUFFICES ASSUME lost' = {}, NEW k \in 2 .. Top
               PROVE  Unmarked(stack', k)
    BY NextState
  <2>1. CASE k = Top
    BY <2>1
  <2>2. CASE k # Top
    <3>1. k \in 1 .. Top - 1 /\ k - 1 \in 1 .. Top - 1
      BY <1>1, <2>2
    <3>2. Unmarked(stack, k)
      BY <1>1, DirtyUnmarked DEF ScopesInv
    <3>3. DOMAIN stack[k] \subseteq Names
      BY <1>1, <3>1 DEF Nesting, IsStack, IsScope
    <3> QED
      BY <1>2, <3>1, <3>2, <3>3 DEF Unmarked
  <2> QED
    BY <2>1, <2>2
<1> QED
  BY <1>4, <1>5, <1>6, <1>7, <1>8 DEF ScopesInv

\* A value read in the innermost scope is one of the variable, and in a scope
\* that is executed the one that is meant.
LEMMA Fetching ==
  ASSUME ScopesInv, NEW n \in Names
  PROVE  /\ get(Top, n) = GetIn(stack, Top, n) /\ get(Top, n) \in SymbolOf(n)
         /\ get(Top, n).val \in Value(n) /\ env[n] \in Value(n)
         /\ lost = {} /\ Live => get(Top, n).val = env[n]
<1>1. Nesting /\ Top \in 1 .. Len(stack) /\ (Live <=> Executed(Top))
  BY Sizes DEF ScopesInv
<1>2. get(Top, n) = GetIn(stack, Top, n)
  BY GetIsGetIn
<1>3. GetIn(stack, Top, n) \in SymbolOf(n)
  BY <1>1, Outward DEF Nesting
<1>4. env[n] \in Value(n)
  BY <1>1 DEF Nesting
<1>5. lost = {} /\ Live => get(Top, n).val = env[n]
  BY <1>1 DEF ScopesInv, Followed
<1> QED
  BY <1>2, <1>3, <1>4, <1>5 DEF SymbolOf

\* A scalar is one bit.
LEMMA ScalarBit ==
  ASSUME NEW x \in Scalars
  PROVE  /\ x \in Names /\ x \notin Arrays /\ Value(x) = [{1} -> Bit]
         /\ \A v \in Value(x) : v[1] \in Bit
BY ScopesAssumption DEF Value, Names

\* Assigning a scalar keeps the invariant.
LEMMA AssignScalarStep ==
  ASSUME ScopesInv, NEW n \in Scalars, NEW x \in Scalars, AssignScalar(n, x)
  PROVE  ScopesInv'
<1> DEFINE val   == [i \in {1} |-> Fetched(x)]
           meant == [i \in {1} |-> Meant(x)]
<1>1. /\ Nesting /\ Top \in 1 .. Len(stack) /\ Top \in Nat \ {0} /\ IsStack(stack)
  BY Sizes DEF ScopesInv, Nesting
<1>2. /\ Fetched(x) \in Bit /\ Meant(x) \in Bit
      /\ lost = {} /\ Live => Fetched(x) = Meant(x)
  BY Fetching, ScalarBit DEF Fetched, Meant
<1>3. n \in Names /\ n \notin Arrays /\ val \in Value(n) /\ meant \in Value(n)
  BY <1>2, ScalarBit
<1> DEFINE none == << >>
           no   == FALSE
<1>4. stack' = assign_(stack, Top, n, val, none, no)
  BY DEF AssignScalar
<1>5. lost = {} /\ Live => val = meant
  BY <1>2
<1>11. none \in (IF n \in Arrays THEN [Index -> BOOLEAN] ELSE {<< >>}) /\ no \in BOOLEAN
  BY <1>3
<1> HIDE DEF val, meant, none, no
<1>6. /\ IsStack(stack') /\ Len(stack') = Top
      /\ \A j \in 1 .. Len(stack) : j # Top => stack'[j] = stack[j]
      /\ DOMAIN stack'[Top] = DOMAIN stack[Top] \cup {n}
      /\ stack'[Top][n] = Stored(stack[Top], n, val, none, no)
      /\ \A m \in DOMAIN stack[Top] : m # n => stack'[Top][m] = stack[Top][m]
  BY <1>1, <1>3, <1>4, <1>11, AssignOne
<1>7. stack'[Top][n].val = val
  BY <1>6 DEF Stored, Symbol
<1>8. \A j \in 1 .. Top - 1 : stack'[j] = stack[j]
  BY <1>1, <1>6
<1>9. ASSUME lost' = {}, Top > 1
      PROVE  Unmarked(stack', Top)
  <2>1. Unmarked(stack, Top)
    BY <1>1, <1>9, DirtyUnmarked DEF ScopesInv, AssignScalar
  <2>2. \A m \in Names : GetIn(stack', Top - 1, m) = GetIn(stack, Top - 1, m)
    BY <1>1, <1>8, <1>9, SameBelow
  <2> QED
    BY <1>1, <1>3, <1>6, <2>1, <2>2 DEF Unmarked, IsStack, IsScope
<1>10. env' = (IF Live THEN [env EXCEPT ![n] = meant] ELSE env)
       /\ conds' = conds /\ taken' = taken /\ lost' = lost
  BY DEF AssignScalar, meant
<1> QED
  BY <1>3, <1>5, <1>6, <1>7, <1>8, <1>9, <1>10, Assigning

\* Assigning a whole array keeps the invariant; inside an if it is lost.
LEMMA AssignArrayStep ==
  ASSUME ScopesInv, NEW n \in Arrays, NEW from \in Arrays, AssignArray(n, from)
  PROVE  ScopesInv'
<1> DEFINE val == get(Top, from).val
<1>1. /\ Nesting /\ Top \in 1 .. Len(stack) /\ Top \in Nat \ {0} /\ IsStack(stack)
  BY Sizes DEF ScopesInv, Nesting
<1>2. n \in Names /\ from \in Names /\ Value(from) = Value(n)
  BY DEF Names, Value
<1>3. val \in Value(n) /\ env[from] \in Value(n) /\ (lost = {} /\ Live => val = env[from])
  BY <1>2, Fetching
<1>4. Clean \in [Index -> BOOLEAN]
  BY DEF Clean
<1>5. PICK junk \in BOOLEAN : stack' = assign_(stack, Top, n, val, Clean, junk)
  BY DEF AssignArray
<1> HIDE DEF val
<1>6. /\ IsStack(stack') /\ Len(stack') = Top
      /\ \A j \in 1 .. Len(stack) : j # Top => stack'[j] = stack[j]
      /\ DOMAIN stack'[Top] = DOMAIN stack[Top] \cup {n}
      /\ stack'[Top][n] = Stored(stack[Top], n, val, Clean, junk)
      /\ \A m \in DOMAIN stack[Top] : m # n => stack'[Top][m] = stack[Top][m]
  BY <1>1, <1>2, <1>3, <1>4, <1>5, AssignOne
<1>7. stack'[Top][n].val = val
  BY <1>6 DEF Stored, Symbol
<1>8. \A j \in 1 .. Top - 1 : stack'[j] = stack[j]
  BY <1>1, <1>6
<1>9. /\ env' = IF Live THEN [env EXCEPT ![n] = env[from]] ELSE env
      /\ conds' = conds /\ taken' = taken
      /\ lost' = IF Top > 1 THEN lost \cup {"whole array"} ELSE lost
  BY DEF AssignArray
<1>10. (lost' = {} => lost = {}) /\ ~(lost' = {} /\ Top > 1)
  BY <1>9
<1> QED
  BY <1>2, <1>3, <1>6, <1>7, <1>8, <1>9, <1>10, Assigning

\* What assigning an element leaves of the array in the innermost scope: the
\* others as they were read, and unmarked only if they were, or if the array
\* had no symbol there.
ElementPut(n, i, bit, junk) ==
  LET sym == get(Top, n)
      val == [sym.val EXCEPT ![i] = bit]
      dirty_idx == Marks(Top, n, Marked(sym.dirty_idx, i))
      st == assign_(stack, Top, n, val, dirty_idx, junk)
  IN  [st EXCEPT ![Top][n].dirty_idx = Marked(@, i)]

\* An element is stored in its array's entry of the top scope.
LEMMA ElementStored ==
  ASSUME IsStack(stack), NEW n \in Arrays, NEW i \in Index, NEW bit \in Bit, NEW junk \in BOOLEAN
  PROVE  LET new == ElementPut(n, i, bit, junk)
         IN  /\ IsStack(new) /\ Len(new) = Top
             /\ \A j \in 1 .. Len(stack) : j # Top => new[j] = stack[j]
             /\ DOMAIN new[Top] = DOMAIN stack[Top] \cup {n}
             /\ new[Top][n].val = [get(Top, n).val EXCEPT ![i] = bit]
             /\ \A m \in DOMAIN stack[Top] : m # n => new[Top][m] = stack[Top][m]
             /\ \A e \in Index :
                  ~new[Top][n].dirty_idx[e] /\ n \in DOMAIN stack[Top] /\ Top > 1
                    => e # i /\ ~stack[Top][n].dirty_idx[e]
             /\ \A e \in Index : ~new[Top][n].dirty_idx[e] => e # i
<1>0. Top \in Nat /\ (Top > 1 => Top # 1)
  BY DEF IsStack
<1> DEFINE sym == get(Top, n)
           val == [sym.val EXCEPT ![i] = bit]
           dirty_idx == Marks(Top, n, Marked(sym.dirty_idx, i))
           st == assign_(stack, Top, n, val, dirty_idx, junk)
           new == ElementPut(n, i, bit, junk)
<1>1. Top \in 1 .. Len(stack) /\ n \in Names /\ n \notin Scalars
  BY ScopesAssumption DEF IsStack, Names
<1>2. sym \in SymbolOf(n) /\ (n \in DOMAIN stack[Top] => sym = stack[Top][n])
  BY <1>1, GetIsGetIn, Outward
<1> HIDE DEF sym
<1>3. val \in Value(n) /\ Marked(sym.dirty_idx, i) \in [Index -> BOOLEAN]
  BY <1>2 DEF SymbolOf, Value, Marked
<1>4. dirty_idx \in [Index -> BOOLEAN] /\ (Top > 1 => dirty_idx = Marked(sym.dirty_idx, i))
  <2>1. Clean \in [Index -> BOOLEAN]
    BY DEF Clean
  <2> DEFINE marked == Marked(sym.dirty_idx, i)
  <2>2. dirty_idx = IF Top = 1 THEN Clean ELSE marked
    BY <1>1 DEF Marks
  <2>3. marked \in [Index -> BOOLEAN]
    BY <1>3
  <2> HIDE DEF marked, dirty_idx
  <2> QED
    BY <1>0, <2>1, <2>2, <2>3 DEF marked
<1>5. dirty_idx \in (IF n \in Arrays THEN [Index -> BOOLEAN] ELSE {<< >>})
  BY <1>4
<1> HIDE DEF val, dirty_idx
<1>6. /\ IsStack(st) /\ Len(st) = Len(stack)
      /\ \A j \in 1 .. Len(stack) : j # Top => st[j] = stack[j]
      /\ DOMAIN st[Top] = DOMAIN stack[Top] \cup {n}
      /\ st[Top][n] = Stored(stack[Top], n, val, dirty_idx, junk)
      /\ \A m \in DOMAIN stack[Top] : m # n => st[Top][m] = stack[Top][m]
  BY <1>1, <1>3, <1>5, AssignOne
<1> DEFINE symbol == st[Top][n]
           marked == [symbol EXCEPT !.dirty_idx = Marked(@, i)]
           scope  == [st[Top] EXCEPT ![n] = marked]
<1>7. new = [st EXCEPT ![Top] = scope]
  BY DEF val, dirty_idx, sym, ElementPut
<1> HIDE DEF st, new
<1>8. symbol \in SymbolOf(n) /\ symbol.val = val
      /\ (n \in DOMAIN stack[Top] => symbol.dirty_idx = dirty_idx)
  BY <1>1, <1>3, <1>5, <1>6, StoredType DEF Stored, Symbol
<1>9. symbol.dirty_idx \in [Index -> BOOLEAN]
  BY <1>8 DEF SymbolOf
<1> HIDE DEF symbol
<1>10. marked = Symbol(val, Marked(symbol.dirty_idx, i))
  BY <1>8 DEF SymbolOf, Symbol
<1>11. Marked(symbol.dirty_idx, i) \in [Index -> BOOLEAN]
  BY <1>9 DEF Marked
<1> HIDE DEF marked
<1>12. marked \in SymbolOf(n)
  BY <1>3, <1>10, <1>11 DEF Symbol, SymbolOf
<1>13. /\ DOMAIN scope = DOMAIN st[Top] /\ scope[n] = marked
       /\ \A m \in DOMAIN st[Top] : m # n => scope[m] = st[Top][m]
  BY <1>6
<1> HIDE DEF scope
<1>14. IsScope(scope)
  BY <1>1, <1>6, <1>12, <1>13 DEF IsStack, IsScope
<1>15. /\ IsStack(new) /\ Len(new) = Len(st) /\ new[Top] = scope
       /\ \A j \in 1 .. Len(st) : j # Top => new[j] = st[j]
  <2>1. IsStack(st) /\ Top \in 1 .. Len(st) /\ DOMAIN st[Top] \subseteq DOMAIN scope
    BY <1>0, <1>1, <1>6, <1>13
  <2>2. LET st2 == [st EXCEPT ![Top] = scope]
        IN  /\ IsStack(st2) /\ Len(st2) = Len(st) /\ st2[Top] = scope
            /\ \A j \in 1 .. Len(st) : j # Top => st2[j] = st[j]
    BY <1>14, <2>1, Replaced
  <2> QED
    BY <1>7, <2>2
<1>16. new[Top][n].val = val /\ new[Top][n].dirty_idx = Marked(symbol.dirty_idx, i)
  BY <1>10, <1>13, <1>15 DEF Symbol
<1>17. ASSUME NEW e \in Index, ~new[Top][n].dirty_idx[e]
       PROVE  e # i /\ ~symbol.dirty_idx[e]
  BY <1>9, <1>16, <1>17 DEF Marked
<1>18. ASSUME NEW e \in Index, ~new[Top][n].dirty_idx[e], n \in DOMAIN stack[Top], Top > 1
       PROVE  ~stack[Top][n].dirty_idx[e]
  <2>1. symbol.dirty_idx = Marked(sym.dirty_idx, i) /\ sym = stack[Top][n]
    BY <1>2, <1>4, <1>8, <1>18
  <2>2. sym.dirty_idx \in [Index -> BOOLEAN]
    BY <1>2 DEF SymbolOf
  <2> QED
    BY <1>17, <1>18, <2>1, <2>2 DEF Marked
<1> QED
  BY <1>6, <1>13, <1>15, <1>16, <1>17, <1>18 DEF val, sym, new

\* Assigning an element keeps the invariant.
LEMMA AssignElementStep ==
  ASSUME ScopesInv, NEW n \in Arrays, NEW i \in Index, NEW x \in Scalars, AssignElement(n, i, x)
  PROVE  ScopesInv'
<1> DEFINE val   == [get(Top, n).val EXCEPT ![i] = Fetched(x)]
           meant == [env[n] EXCEPT ![i] = Meant(x)]
<1>1. /\ Nesting /\ Top \in 1 .. Len(stack) /\ Top \in Nat \ {0} /\ IsStack(stack)
  BY Sizes DEF ScopesInv, Nesting
<1>2. /\ Fetched(x) \in Bit /\ Meant(x) \in Bit
      /\ lost = {} /\ Live => Fetched(x) = Meant(x)
  BY Fetching, ScalarBit DEF Fetched, Meant
<1>3. n \in Names /\ Value(n) = [Index -> Bit]
  BY DEF Names, Value
<1>4. meant \in Value(n) /\ (lost = {} /\ Live => val = meant)
  BY <1>2, <1>3, Fetching
<1>11. PICK junk \in BOOLEAN : stack' = ElementPut(n, i, Fetched(x), junk)
  BY DEF AssignElement, ElementPut
<1>5. /\ IsStack(stack') /\ Len(stack') = Top
      /\ \A j \in 1 .. Len(stack) : j # Top => stack'[j] = stack[j]
      /\ DOMAIN stack'[Top] = DOMAIN stack[Top] \cup {n}
      /\ stack'[Top][n].val = val
      /\ \A m \in DOMAIN stack[Top] : m # n => stack'[Top][m] = stack[Top][m]
      /\ \A e \in Index :
           ~stack'[Top][n].dirty_idx[e] /\ n \in DOMAIN stack[Top] /\ Top > 1
             => e # i /\ ~stack[Top][n].dirty_idx[e]
      /\ \A e \in Index : ~stack'[Top][n].dirty_idx[e] => e # i
  BY <1>1, <1>2, <1>11, ElementStored
<1>6. get(Top, n).val \in [Index -> Bit] /\ get(Top, n) = GetIn(stack, Top, n)
  BY <1>3, Fetching
<1>7. \A e \in Index : e # i => val[e] = GetIn(stack, Top, n).val[e]
  BY <1>6
<1>8. \A j \in 1 .. Top - 1 : stack'[j] = stack[j]
  BY <1>1, <1>5
<1> HIDE DEF val, meant
<1>9. ASSUME lost' = {}, Top > 1
      PROVE  Unmarked(stack', Top)
  <2>1. Unmarked(stack, Top)
    BY <1>1, <1>9, DirtyUnmarked DEF ScopesInv, AssignElement
  <2>2. \A m \in Names : GetIn(stack', Top - 1, m) = GetIn(stack, Top - 1, m)
    BY <1>1, <1>8, <1>9, SameBelow
  <2>3. ASSUME NEW m \in DOMAIN stack'[Top] \cap Arrays, m # n, NEW e \in Index,
               ~stack'[Top][m].dirty_idx[e]
        PROVE  stack'[Top][m].val[e] = GetIn(stack', Top - 1, m).val[e]
    BY <1>1, <1>5, <2>1, <2>2, <2>3 DEF Unmarked, IsStack, IsScope
  <2>4. ASSUME NEW e \in Index, ~stack'[Top][n].dirty_idx[e]
        PROVE  stack'[Top][n].val[e] = GetIn(stack', Top - 1, n).val[e]
    <3>1. stack'[Top][n].val[e] = GetIn(stack, Top, n).val[e]
      BY <1>5, <1>7, <2>4
    <3>2. GetIn(stack, Top, n).val[e] = GetIn(stack, Top - 1, n).val[e]
      <4>1. CASE n \in DOMAIN stack[Top]
        <5>1. ~stack[Top][n].dirty_idx[e] /\ GetIn(stack, Top, n) = stack[Top][n]
          BY <1>1, <1>3, <1>5, <1>9, <2>4, <4>1, Outward
        <5> QED
          BY <2>1, <4>1, <5>1 DEF Unmarked
      <4>2. CASE n \notin DOMAIN stack[Top]
        BY <1>1, <1>3, <4>2, Outward
      <4> QED
        BY <4>1, <4>2
    <3> QED
      BY <1>3, <2>2, <3>1, <3>2
  <2> QED
    BY <2>3, <2>4 DEF Unmarked
<1>10. /\ env' = IF Live THEN [env EXCEPT ![n] = meant] ELSE env
       /\ conds' = conds /\ taken' = taken /\ lost' = lost
  BY <1>1 DEF AssignElement, meant
<1> QED
  BY <1>3, <1>4, <1>5, <1>8, <1>9, <1>10, Assigning

\* Opening an if keeps the invariant: the new scope is empty and reads as the
\* one around it.
LEMMA IfStep ==
  ASSUME ScopesInv, NEW x \in Scalars, If(x)
  PROVE  ScopesInv'
<1> DEFINE cond == [var |-> x, wire |-> Fetched(x), arm |-> "then"]
           arm  == env[x][1] = 1
<1>1. /\ Nesting /\ Top \in 1 .. Len(stack) /\ Top \in Nat \ {0} /\ IsStack(stack)
      /\ DOMAIN conds = 1 .. Top - 1 /\ DOMAIN taken = 1 .. Top - 1
      /\ \A j \in 1 .. Top - 1 : conds[j] \in Cond
  BY Sizes DEF ScopesInv, Nesting
<1>2. /\ stack' = push_scope(stack) /\ conds' = Append(conds, cond)
      /\ taken' = Append(taken, arm) /\ env' = env /\ lost' = lost
  BY DEF If
<1>3. /\ IsStack(stack') /\ Len(stack') = Top + 1 /\ DOMAIN stack'[Top + 1] = {}
      /\ \A j \in 1 .. Top : stack'[j] = stack[j]
  BY <1>1, <1>2, Pushed
<1>4. Fetched(x) \in Bit /\ arm \in BOOLEAN /\ x \in Names
  BY Fetching, ScalarBit DEF Fetched
<1>5. cond \in Cond
  BY <1>4 DEF Cond
<1>6. /\ conds' \in Seq(Cond) /\ DOMAIN conds' = 1 .. Top /\ Len(conds') = Top
      /\ conds'[Top] = cond /\ \A j \in 1 .. Top - 1 : conds'[j] = conds[j]
  <2>1. conds \in Seq(Cond) /\ Len(conds) = Top - 1
    BY <1>1 DEF Nesting
  <2> HIDE DEF cond
  <2> QED
    BY <1>1, <1>2, <1>5, <2>1
<1>7. /\ taken' \in Seq(BOOLEAN) /\ DOMAIN taken' = 1 .. Top /\ Len(taken') = Top
      /\ taken'[Top] = arm /\ \A j \in 1 .. Top - 1 : taken'[j] = taken[j]
  <2>1. taken \in Seq(BOOLEAN) /\ Len(taken) = Top - 1
    BY <1>1 DEF Nesting
  <2> HIDE DEF arm
  <2> QED
    BY <1>1, <1>2, <1>4, <2>1
<1>8. cond.var = x /\ cond.wire = Fetched(x) /\ cond.arm = "then"
  OBVIOUS
<1> HIDE DEF cond, arm
<1>9. \A k \in 1 .. Top, m \in Names : GetIn(stack', k, m) = GetIn(stack, k, m)
  <2> SUFFICES ASSUME NEW k \in 1 .. Top, NEW m \in Names
               PROVE  GetIn(stack', k, m) = GetIn(stack, k, m)
    OBVIOUS
  <2>1. k \in 1 .. Len(stack) /\ \A j \in 1 .. k : stack'[j] = stack[j]
    BY <1>1, <1>3
  <2> QED
    BY <1>1, <2>1, SameBelow
<1>10. \A m \in Names : GetIn(stack', Top + 1, m) = GetIn(stack, Top, m)
  <2> SUFFICES ASSUME NEW m \in Names
               PROVE  GetIn(stack', Top + 1, m) = GetIn(stack, Top, m)
    OBVIOUS
  <2>1. Top + 1 \in 1 .. Len(stack') /\ (Top + 1) - 1 = Top
    BY <1>1, <1>3
  <2>2. GetIn(stack', Top + 1, m) = GetIn(stack', Top, m)
    BY <1>3, <2>1, Outward
  <2> QED
    BY <1>1, <1>9, <2>2
<1>11. \A k \in 1 .. Top : Executed(k)' <=> Executed(k)
  <2> SUFFICES ASSUME NEW k \in 1 .. Top PROVE Executed(k)' <=> Executed(k)
    OBVIOUS
  <2>1. \A i \in 1 .. k - 1 : taken'[i] = taken[i]
    BY <1>1, <1>7
  <2> QED
    BY <2>1 DEF Executed
<1>17. ASSUME NEW k, k = Top + 1, Executed(k)'
       PROVE  Executed(Top) /\ arm
  <2>1. \A i \in 1 .. Top : taken'[i]
    BY <1>1, <1>17 DEF Executed
  <2>2. \A i \in 1 .. Top - 1 : taken'[i] /\ taken'[i] = taken[i]
    BY <1>1, <1>7, <2>1
  <2>3. taken'[Top] /\ taken'[Top] = arm
    BY <1>1, <1>7, <2>1
  <2> QED
    BY <2>2, <2>3 DEF Executed
<1>12. Nesting'
  BY <1>1, <1>2, <1>3, <1>6, <1>7 DEF Nesting
<1>13. Asked'
  <2> SUFFICES ASSUME NEW j \in 1 .. Top, conds'[j].arm = "then"
               PROVE  GetIn(stack', j, conds'[j].var).val[1] = conds'[j].wire
    BY <1>6, NextState DEF Asked
  <2>1. CASE j = Top
    BY <1>1, <1>4, <1>6, <1>8, <1>9, <2>1, Fetching DEF Fetched
  <2>2. CASE j # Top
    <3>1. j \in 1 .. Top - 1
      BY <1>1, <2>2
    <3>2. conds'[j] = conds[j] /\ conds[j] \in Cond
      BY <1>1, <1>6, <3>1
    <3>3. conds[j].var \in Names
      BY <3>2 DEF Cond, Names
    <3> QED
      BY <1>1, <1>9, <3>1, <3>2, <3>3, GetIsGetIn DEF ScopesInv, Asked
  <2> QED
    BY <2>1, <2>2
<1>14. Chosen'
  <2> SUFFICES ASSUME lost = {}, NEW j \in 1 .. Top, Executed(j)
               PROVE  conds'[j].wire = 1 <=> taken'[j]
    BY <1>2, <1>6, <1>11 DEF Chosen
  <2>1. CASE j = Top
    <3>1. Live
      BY <2>1, Sizes DEF ScopesInv
    <3>2. Fetched(x) = env[x][1]
      BY <1>4, <3>1, Fetching DEF Fetched
    <3> QED
      BY <1>6, <1>7, <1>8, <2>1, <3>2 DEF arm
  <2>2. CASE j # Top
    <3>1. j \in 1 .. Top - 1
      BY <1>1, <2>2
    <3>2. conds[j].wire = 1 <=> taken[j]
      BY <1>1, <3>1 DEF ScopesInv, Chosen
    <3>3. conds'[j] = conds[j] /\ taken'[j] = taken[j]
      BY <1>6, <1>7, <3>1
    <3> QED
      BY <3>2, <3>3
  <2> QED
    BY <2>1, <2>2
<1>15. Followed'
  <2> SUFFICES ASSUME lost = {}, NEW k \in 1 .. Top + 1, Executed(k)', k = Top + 1 \/ ~taken'[k],
                      NEW m \in Names
               PROVE  GetIn(stack', k, m).val = env[m]
    BY <1>2, <1>3, NextState DEF Followed
  <2>1. CASE k = Top + 1
    <3>1. GetIn(stack, Top, m).val = env[m]
      BY <1>1, <1>17, <2>1, GetIsGetIn DEF ScopesInv, Followed
    <3> QED
      BY <1>10, <2>1, <3>1
  <2>2. CASE k # Top + 1
    <3>1. k \in 1 .. Top /\ Executed(k)
      BY <1>1, <1>11, <2>2
    <3>2. k = Top \/ ~taken[k]
      <4>1. k # Top => k \in 1 .. Top - 1
        BY <1>1, <3>1
      <4>2. k # Top => taken'[k] = taken[k]
        BY <1>7, <4>1
      <4> QED
        BY <2>2, <4>2
    <3> QED
      BY <1>9, <3>1, <3>2, GetIsGetIn DEF ScopesInv, Followed
  <2> QED
    BY <2>1, <2>2
<1>16. DirtySound'
  <2> SUFFICES ASSUME lost = {}, NEW k \in 2 .. Top + 1
               PROVE  Unmarked(stack', k)
    BY <1>2, <1>3, NextState
  <2>1. CASE k = Top + 1
    BY <1>3, <2>1 DEF Unmarked
  <2>2. CASE k # Top + 1
    <3>1. k \in 1 .. Top /\ k \in 2 .. Top /\ k - 1 \in 1 .. Top
      BY <1>1, <2>2
    <3>2. Unmarked(stack, k)
      BY <3>1, DirtyUnmarked DEF ScopesInv
    <3>3. DOMAIN stack[k] \subseteq Names
      BY <1>1, <3>1 DEF IsStack, IsScope
    <3> QED
      BY <1>3, <1>9, <3>1, <3>2, <3>3 DEF Unmarked
  <2> QED
    BY <2>1, <2>2
<1> QED
  BY <1>12, <1>13, <1>14, <1>15, <1>16 DEF ScopesInv

\* At the end of an arm: the stack that mux leaves is in the invariant with the
\* ifs around.
LEMMA Leaving ==
  ASSUME ScopesInv, conds # << >>, NEW junk \in [Arrays -> BOOLEAN]
  PROVE  LET st == mux(Last(conds).wire, junk)
         IN  /\ Top > 1 /\ Last(conds) = conds[Top - 1]
             /\ IsStack(st) /\ Len(st) = Top - 1
             /\ \A k \in 1 .. Top - 2 : \A m \in Names : GetIn(st, k, m) = GetIn(stack, k, m)
             /\ lost = {} => \A k \in 1 .. Top - 1 :
                  Executed(k) /\ (k = Top - 1 \/ ~taken[k])
                    => \A m \in Names : GetIn(st, k, m).val = env[m]
             /\ lost = {} /\ LostIn(st) = {} => \A k \in 2 .. Top - 1 : Unmarked(st, k)
<1> DEFINE wire == Last(conds).wire
           st == mux(wire, junk)
<1>1. /\ Nesting /\ Top \in 1 .. Len(stack) /\ Top \in Nat \ {0} /\ IsStack(stack)
      /\ DOMAIN conds = 1 .. Top - 1 /\ DOMAIN taken = 1 .. Top - 1
      /\ \A j \in 1 .. Top - 1 : conds[j] \in Cond
  BY Sizes DEF ScopesInv, Nesting
<1>2. Top > 1 /\ Last(conds) = conds[Top - 1]
  <2>1. conds \in Seq(Cond) /\ Len(conds) = Top - 1
    BY <1>1 DEF Nesting
  <2>2. Len(conds) # 0
    BY <2>1
  <2> QED
    BY <1>1, <2>1, <2>2 DEF Last
<1>3. wire \in Bit /\ wire = conds[Top - 1].wire /\ Top - 1 \in 1 .. Top - 1
  BY <1>1, <1>2 DEF Cond
<1> HIDE DEF wire
<1>4. /\ IsStack(st) /\ Len(st) = Top - 1
      /\ \A j \in 1 .. Top - 2 : st[j] = stack[j]
  BY <1>1, <1>2, <1>3, MuxScopes
<1>5. ASSUME NEW k \in 1 .. Top - 2, NEW m \in Names
      PROVE  GetIn(st, k, m) = GetIn(stack, k, m)
  <2>1. k \in 1 .. Len(stack) /\ \A j \in 1 .. k : st[j] = stack[j]
    BY <1>1, <1>4
  <2> HIDE DEF st
  <2> QED
    BY <1>1, <2>1, SameBelow
<1>6. ASSUME lost = {}, NEW k \in 1 .. Top - 1, Executed(k), k = Top - 1 \/ ~taken[k],
             NEW m \in Names
      PROVE  GetIn(st, k, m).val = env[m]
  <2>1. CASE k # Top - 1
    <3>1. k \in 1 .. Top - 2 /\ k \in 1 .. Top
      BY <1>1, <2>1
    <3>2. GetIn(stack, k, m).val = env[m]
      BY <1>6, <2>1, <3>1, GetIsGetIn DEF ScopesInv, Followed
    <3> QED
      BY <1>5, <3>1, <3>2
  <2>2. CASE k = Top - 1
    <3>1. Unmarked(stack, Top)
      BY <1>1, <1>2, <1>6, DirtyUnmarked DEF ScopesInv
    <3>2. GetIn(st, Top - 1, m).val
            = IF wire = 1 THEN GetIn(stack, Top, m).val ELSE GetIn(stack, Top - 1, m).val
      BY <1>1, <1>2, <1>3, <3>1, MuxReads
    <3>3. wire = 1 <=> taken[Top - 1]
      BY <1>1, <1>3, <1>6, <2>2 DEF ScopesInv, Chosen
    <3>4. CASE taken[Top - 1]
      <4>1. Executed(Top)
        BY <1>1, <1>6, <2>2, <3>4 DEF Executed
      <4>2. GetIn(stack, Top, m).val = env[m]
        BY <1>1, <1>6, <4>1, GetIsGetIn DEF ScopesInv, Followed
      <4> QED
        BY <2>2, <3>2, <3>3, <3>4, <4>2
    <3>5. CASE ~taken[Top - 1]
      <4>1. GetIn(stack, Top - 1, m).val = env[m]
        BY <1>1, <1>2, <1>6, <2>2, <3>5, GetIsGetIn DEF ScopesInv, Followed
      <4> QED
        BY <2>2, <3>2, <3>3, <3>5, <4>1
    <3> QED
      BY <3>4, <3>5
  <2> QED
    BY <2>1, <2>2
<1>7. ASSUME lost = {}, LostIn(st) = {}, NEW k \in 2 .. Top - 1
      PROVE  Unmarked(st, k)
  <2>1. k \in 2 .. Top /\ k \in 1 .. Len(stack) /\ Top > 2
    BY <1>1, <1>7
  <2>2. Unmarked(stack, k)
    BY <1>7, <2>1, DirtyUnmarked DEF ScopesInv
  <2>3. CASE k = Top - 1
    BY <1>1, <1>3, <1>7, <2>1, <2>2, <2>3, MuxUnmarked
  <2>4. CASE k # Top - 1
    <3>1. k \in 1 .. Top - 2 /\ k - 1 \in 1 .. Top - 2
      BY <1>1, <2>4
    <3>2. DOMAIN stack[k] \subseteq Names
      BY <1>1, <2>1 DEF IsStack, IsScope
    <3>3. st[k] = stack[k]
      BY <1>4, <3>1
    <3> HIDE DEF st
    <3> QED
      BY <1>5, <2>2, <3>1, <3>2, <3>3 DEF Unmarked
  <2> QED
    BY <2>3, <2>4
<1> QED
  BY <1>2, <1>4, <1>5, <1>6, <1>7 DEF wire

\* Leaving an if keeps the invariant.
LEMMA EndStep ==
  ASSUME ScopesInv, End
  PROVE  ScopesInv'
<1>1. /\ Nesting /\ Top \in Nat \ {0} /\ IsStack(stack)
      /\ DOMAIN conds = 1 .. Top - 1 /\ DOMAIN taken = 1 .. Top - 1
      /\ conds \in Seq(Cond) /\ taken \in Seq(BOOLEAN)
      /\ Len(conds) = Top - 1 /\ Len(taken) = Top - 1
      /\ \A j \in 1 .. Top - 1 : conds[j] \in Cond
  BY Sizes DEF ScopesInv, Nesting
<1>2. PICK junk \in [Arrays -> BOOLEAN] :
         LET st == mux(Last(conds).wire, junk)
         IN  stack' = st /\ lost' = lost \cup LostIn(st)
  BY DEF End
<1>3. conds # << >> /\ conds' = Front(conds) /\ taken' = Front(taken) /\ env' = env
  BY DEF End
<1> DEFINE st == mux(Last(conds).wire, junk)
<1>4. /\ Top > 1
      /\ IsStack(st) /\ Len(st) = Top - 1
      /\ \A k \in 1 .. Top - 2 : \A m \in Names : GetIn(st, k, m) = GetIn(stack, k, m)
      /\ lost = {} => \A k \in 1 .. Top - 1 :
           Executed(k) /\ (k = Top - 1 \/ ~taken[k])
             => \A m \in Names : GetIn(st, k, m).val = env[m]
      /\ lost = {} /\ LostIn(st) = {} => \A k \in 2 .. Top - 1 : Unmarked(st, k)
  BY <1>3, Leaving
<1>5. stack' = st /\ lost' = lost \cup LostIn(st)
  BY <1>2
<1> HIDE DEF st
<1>6. /\ conds' \in Seq(Cond) /\ Len(conds') = Top - 2 /\ DOMAIN conds' = 1 .. Top - 2
      /\ \A j \in 1 .. Top - 2 : conds'[j] = conds[j]
  BY <1>1, <1>3, <1>4, SubSeqProperties DEF Front
<1>7. /\ taken' \in Seq(BOOLEAN) /\ Len(taken') = Top - 2
      /\ \A j \in 1 .. Top - 2 : taken'[j] = taken[j]
  BY <1>1, <1>3, <1>4, SubSeqProperties DEF Front
<1>8. \A k \in 1 .. Top - 1 : Executed(k)' <=> Executed(k)
  <2> SUFFICES ASSUME NEW k \in 1 .. Top - 1 PROVE Executed(k)' <=> Executed(k)
    OBVIOUS
  <2>1. \A i \in 1 .. k - 1 : i \in 1 .. Top - 2
    BY <1>1
  <2>2. \A i \in 1 .. k - 1 : taken'[i] = taken[i]
    BY <1>7, <2>1
  <2> QED
    BY <2>2 DEF Executed
<1>9. lost' = {} => lost = {} /\ LostIn(st) = {}
  BY <1>5
<1>10. Nesting'
  <2>1. IsStack(stack') /\ Len(conds') + 1 = Len(stack') /\ Len(taken') + 1 = Len(stack')
    BY <1>1, <1>4, <1>5, <1>6, <1>7
  <2>2. env' = [n \in Names |-> env'[n]] /\ \A n \in Names : env'[n] \in Value(n)
    BY <1>1, <1>3 DEF Nesting
  <2> QED
    BY <1>6, <1>7, <2>1, <2>2 DEF Nesting
<1>11. Asked'
  <2> SUFFICES ASSUME NEW j \in 1 .. Top - 2, conds[j].arm = "then"
               PROVE  GetIn(st, j, conds[j].var).val[1] = conds[j].wire
    BY <1>5, <1>6, NextState DEF Asked
  <2>1. j \in 1 .. Top - 1 /\ conds[j].var \in Names
    BY <1>1 DEF Cond, Names
  <2> QED
    BY <1>1, <1>4, <2>1, GetIsGetIn DEF ScopesInv, Asked
<1>12. Chosen'
  <2>3. \A j \in 1 .. Top - 2 : Executed(j)' <=> Executed(j)
    BY <1>1, <1>8
  <2> SUFFICES ASSUME lost = {}, NEW j \in 1 .. Top - 2, Executed(j)
               PROVE  conds'[j].wire = 1 <=> taken'[j]
    BY <1>6, <1>9, <2>3 DEF Chosen
  <2>1. j \in 1 .. Top - 1
    BY <1>1
  <2>2. conds[j].wire = 1 <=> taken[j]
    BY <1>1, <2>1 DEF ScopesInv, Chosen
  <2> QED
    BY <1>6, <1>7, <2>2
<1>13. Followed'
  <2> SUFFICES ASSUME lost = {}, NEW k \in 1 .. Top - 1, Executed(k), k = Top - 1 \/ ~taken'[k],
                      NEW m \in Names
               PROVE  GetIn(st, k, m).val = env[m]
    BY <1>3, <1>4, <1>5, <1>8, <1>9, NextState DEF Followed
  <2>1. k = Top - 1 \/ ~taken[k]
    <3>1. k # Top - 1 => k \in 1 .. Top - 2
      BY <1>1
    <3>2. k # Top - 1 => taken'[k] = taken[k]
      BY <1>7, <3>1
    <3> QED
      BY <3>2
  <2> QED
    BY <1>4, <2>1
<1>14. DirtySound'
  BY <1>4, <1>5, <1>9, NextState
<1> QED
  BY <1>10, <1>11, <1>12, <1>13, <1>14 DEF ScopesInv

\* The second arm of an if keeps the invariant: the condition, asked again, has
\* the value it had, unless the first arm assigned the variable.
LEMMA ElseStep ==
  ASSUME ScopesInv, Else
  PROVE  ScopesInv'
<1>1. /\ Nesting /\ Top \in Nat \ {0} /\ IsStack(stack)
      /\ DOMAIN conds = 1 .. Top - 1 /\ DOMAIN taken = 1 .. Top - 1
      /\ conds \in Seq(Cond) /\ taken \in Seq(BOOLEAN)
      /\ Len(conds) = Top - 1 /\ Len(taken) = Top - 1
      /\ \A j \in 1 .. Top - 1 : conds[j] \in Cond
  BY Sizes DEF ScopesInv, Nesting
<1> DEFINE x == Last(conds).var
           Again(st) == IF x \in DOMAIN stack[Top] THEN st[Top - 1][x] ELSE get(Top - 1, x)
           Second(st) == [var |-> x, wire |-> ElseWire(Again(st).val[1]), arm |-> "else"]
<1>2. PICK junk \in [Arrays -> BOOLEAN] :
         LET st == mux(Last(conds).wire, junk)
         IN  /\ stack' = push_scope(st)
             /\ conds' = Append(Front(conds), Second(st))
             /\ lost' = lost \cup LostIn(st)
                        \cup IF x \in DOMAIN stack[Top] THEN {"condition assigned"} ELSE {}
  BY DEF Else
<1>3. conds # << >> /\ Last(conds).arm = "then" /\ taken' = [taken EXCEPT ![Len(taken)] = ~@] /\ env' = env
  BY DEF Else
<1> DEFINE st == mux(Last(conds).wire, junk)
           second == Second(st)
<1>4. /\ Top > 1 /\ Last(conds) = conds[Top - 1]
      /\ IsStack(st) /\ Len(st) = Top - 1
      /\ \A k \in 1 .. Top - 2 : \A m \in Names : GetIn(st, k, m) = GetIn(stack, k, m)
      /\ lost = {} => \A k \in 1 .. Top - 1 :
           Executed(k) /\ (k = Top - 1 \/ ~taken[k])
             => \A m \in Names : GetIn(st, k, m).val = env[m]
      /\ lost = {} /\ LostIn(st) = {} => \A k \in 2 .. Top - 1 : Unmarked(st, k)
  BY <1>3, Leaving
<1>5. /\ stack' = push_scope(st) /\ conds' = Append(Front(conds), second)
      /\ lost' = {} => lost = {} /\ LostIn(st) = {} /\ x \notin DOMAIN stack[Top]
  BY <1>2
<1>6. Top - 1 \in 1 .. Top - 1 /\ x \in Scalars /\ x \in Names /\ x = conds[Top - 1].var
  BY <1>1, <1>4 DEF Cond, Names
<1>7. Again(st).val[1] \in Bit
  <2>1. Top - 1 \in 1 .. Len(st) /\ Top - 1 \in 1 .. Len(stack)
    BY <1>1, <1>4
  <2>2. GetIn(st, Top - 1, x) \in SymbolOf(x) /\ GetIn(stack, Top - 1, x) \in SymbolOf(x)
    BY <1>1, <1>4, <1>6, <2>1, Outward
  <2>3. x \in DOMAIN stack[Top] => st[Top - 1][x] = GetIn(st, Top - 1, x)
    <3>1. Last(conds).wire \in Bit
      BY <1>1, <1>4, <1>6 DEF Cond
    <3>2. DOMAIN st[Top - 1] = DOMAIN stack[Top] \cup DOMAIN stack[Top - 1]
      BY <1>1, <1>4, <3>1, MuxScopes
    <3> HIDE DEF st
    <3> QED
      BY <1>4, <1>6, <2>1, <3>2, Outward
  <2>4. Again(st) \in SymbolOf(x)
    <3> HIDE DEF st
    <3> QED
      BY <2>2, <2>3, GetIsGetIn
  <2> HIDE DEF st, Again, x
  <2> QED
    BY <1>6, <2>4, ScalarBit DEF SymbolOf
<1>8. /\ second.var = x /\ second.arm = "else"
      /\ second.wire = 1 - Again(st).val[1]
  BY DEF ElseWire
<1>9. second \in Cond
  <2>1. ElseWire(Again(st).val[1]) \in Bit
    <3> HIDE DEF Again, st
    <3> QED
      BY <1>7 DEF ElseWire, Bit
  <2> HIDE DEF Again, st, x
  <2> QED
    BY <1>6, <2>1 DEF Cond
<1>10. lost' = {} => Again(st) = GetIn(stack, Top - 1, x)
  BY <1>5, GetIsGetIn
<1> HIDE DEF st, second, x, Again, Second
<1>11. /\ IsStack(stack') /\ Len(stack') = Top /\ DOMAIN stack'[Top] = {}
       /\ \A j \in 1 .. Top - 1 : stack'[j] = st[j]
  <2>1. /\ IsStack(stack') /\ Len(stack') = Len(st) + 1 /\ DOMAIN stack'[Len(stack')] = {}
        /\ \A j \in 1 .. Len(st) : stack'[j] = st[j]
    BY <1>4, <1>5, Pushed
  <2> QED
    BY <1>1, <1>4, <2>1
<1>12. /\ conds' \in Seq(Cond) /\ Len(conds') = Top - 1 /\ DOMAIN conds' = 1 .. Top - 1
       /\ conds'[Top - 1] = second /\ \A j \in 1 .. Top - 2 : conds'[j] = conds[j]
  <2> DEFINE front == Front(conds)
  <2>1. /\ front \in Seq(Cond) /\ Len(front) = Top - 2
        /\ \A j \in 1 .. Top - 2 : front[j] = conds[j]
    BY <1>1, <1>4, SubSeqProperties DEF Front
  <2>2. conds' = Append(front, second)
    BY <1>5
  <2> HIDE DEF front
  <2> QED
    BY <1>1, <1>4, <1>9, <2>1, <2>2
<1>13. /\ taken' \in Seq(BOOLEAN) /\ Len(taken') = Top - 1
       /\ taken'[Top - 1] = ~taken[Top - 1]
       /\ \A j \in 1 .. Top - 2 : taken'[j] = taken[j]
  BY <1>1, <1>3, <1>4
<1>14. \A k \in 1 .. Top - 1 : Executed(k)' <=> Executed(k)
  <2> SUFFICES ASSUME NEW k \in 1 .. Top - 1 PROVE Executed(k)' <=> Executed(k)
    OBVIOUS
  <2>1. \A i \in 1 .. k - 1 : taken'[i] = taken[i]
    BY <1>1, <1>13
  <2> QED
    BY <2>1 DEF Executed
<1>15. \A k \in 1 .. Top - 1, m \in Names : GetIn(stack', k, m) = GetIn(st, k, m)
  <2> SUFFICES ASSUME NEW k \in 1 .. Top - 1, NEW m \in Names
               PROVE  GetIn(stack', k, m) = GetIn(st, k, m)
    OBVIOUS
  <2>1. k \in 1 .. Len(st) /\ \A j \in 1 .. k : stack'[j] = st[j]
    BY <1>1, <1>4, <1>11
  <2> QED
    BY <1>4, <2>1, SameBelow
<1>16. \A m \in Names : GetIn(stack', Top, m) = GetIn(st, Top - 1, m)
  <2> SUFFICES ASSUME NEW m \in Names
               PROVE  GetIn(stack', Top, m) = GetIn(st, Top - 1, m)
    OBVIOUS
  <2>1. Top \in 1 .. Len(stack')
    BY <1>1, <1>11
  <2>2. GetIn(stack', Top, m) = GetIn(stack', Top - 1, m)
    BY <1>11, <2>1, Outward
  <2> QED
    BY <1>6, <1>15, <2>2
<1>17. Nesting'
  BY <1>1, <1>3, <1>11, <1>12, <1>13 DEF Nesting
<1>18. Asked'
  <2> SUFFICES ASSUME NEW j \in 1 .. Top - 1, conds'[j].arm = "then"
               PROVE  GetIn(stack', j, conds'[j].var).val[1] = conds'[j].wire
    BY <1>12, NextState DEF Asked
  <2>1. j \in 1 .. Top - 2 /\ j \in 1 .. Top - 1
    BY <1>1, <1>8, <1>12
  <2>2. conds'[j] = conds[j] /\ conds[j].var \in Names
    BY <1>1, <1>12, <2>1 DEF Cond, Names
  <2>3. GetIn(stack, j, conds[j].var).val[1] = conds[j].wire
    BY <1>1, <2>1, <2>2, GetIsGetIn DEF ScopesInv, Asked
  <2>4. GetIn(stack', j, conds[j].var) = GetIn(stack, j, conds[j].var)
    BY <1>4, <1>15, <2>1, <2>2
  <2> QED
    BY <2>2, <2>3, <2>4
<1>19. Chosen'
  <2> SUFFICES ASSUME lost' = {}, NEW j \in 1 .. Top - 1, Executed(j)
               PROVE  conds'[j].wire = 1 <=> taken'[j]
    BY <1>12, <1>14 DEF Chosen
  <2>1. conds[j].wire = 1 <=> taken[j]
    BY <1>1, <1>5 DEF ScopesInv, Chosen
  <2>2. CASE j = Top - 1
    <3>1. GetIn(stack, Top - 1, x).val[1] = conds[Top - 1].wire
      BY <1>1, <1>3, <1>4, <1>6, GetIsGetIn DEF ScopesInv, Asked
    <3>2. conds[j].wire \in Bit /\ conds'[j].wire = 1 - conds[j].wire
      BY <1>1, <1>8, <1>10, <1>12, <2>2, <3>1 DEF Cond
    <3>3. conds'[j].wire = 1 <=> ~(conds[j].wire = 1)
      BY <3>2 DEF Bit
    <3> QED
      BY <1>13, <2>1, <2>2, <3>3
  <2>3. CASE j # Top - 1
    <3>1. j \in 1 .. Top - 2
      BY <1>1, <2>3
    <3>2. conds'[j] = conds[j] /\ taken'[j] = taken[j]
      BY <1>12, <1>13, <3>1
    <3> QED
      BY <2>1, <3>2
  <2> QED
    BY <2>2, <2>3
<1>20. Followed'
  <2> SUFFICES ASSUME lost' = {}, NEW k \in 1 .. Top, Executed(k)', k = Top \/ ~taken'[k],
                      NEW m \in Names
               PROVE  GetIn(stack', k, m).val = env[m]
    BY <1>3, <1>11, NextState DEF Followed
  <2>1. CASE k = Top
    <3>1. \A i \in 1 .. Top - 1 : taken'[i]
      BY <2>1 DEF Executed
    <3>2. \A i \in 1 .. (Top - 1) - 1 : taken'[i] /\ taken'[i] = taken[i]
      BY <1>1, <1>13, <3>1
    <3>3. Executed(Top - 1)
      BY <3>2 DEF Executed
    <3>4. GetIn(st, Top - 1, m).val = env[m]
      BY <1>4, <1>5, <1>6, <3>3
    <3> QED
      BY <1>16, <2>1, <3>4
  <2>2. CASE k # Top
    <3>1. k \in 1 .. Top - 1
      BY <1>1, <2>2
    <3>2. k = Top - 1 \/ ~taken[k]
      <4>1. k # Top - 1 => k \in 1 .. Top - 2
        BY <1>1, <3>1
      <4>2. k # Top - 1 => taken'[k] = taken[k]
        BY <1>13, <4>1
      <4> QED
        BY <2>2, <4>2
    <3>3. Executed(k)
      BY <1>14, <3>1
    <3> QED
      BY <1>4, <1>5, <1>15, <3>1, <3>2, <3>3
  <2> QED
    BY <2>1, <2>2
<1>21. DirtySound'
  <2> SUFFICES ASSUME lost' = {}, NEW k \in 2 .. Top
               PROVE  Unmarked(stack', k)
    BY <1>11, NextState
  <2>1. CASE k = Top
    BY <1>11, <2>1 DEF Unmarked
  <2>2. CASE k # Top
    <3>1. k \in 2 .. Top - 1 /\ k \in 1 .. Top - 1 /\ k - 1 \in 1 .. Top - 1
      BY <1>1, <2>2
    <3>2. Unmarked(st, k)
      BY <1>4, <1>5, <3>1
    <3>3. DOMAIN st[k] \subseteq Names
      BY <1>4, <3>1 DEF IsStack, IsScope
    <3> QED
      BY <1>11, <1>15, <3>1, <3>2, <3>3 DEF Unmarked
  <2> QED
    BY <2>1, <2>2
<1> QED
  BY <1>17, <1>18, <1>19, <1>20, <1>21 DEF ScopesInv

(***************************************************************************)
(* The theorems.                                                           *)
(***************************************************************************)

\* Initially there is one scope, of the interpreter's variables.
LEMMA InitInv == ScopesInit => ScopesInv
<1> SUFFICES ASSUME ScopesInit PROVE ScopesInv
  OBVIOUS
<1> DEFINE scope == [n \in Names |-> Symbol(env[n], IF n \in Arrays THEN Clean ELSE << >>)]
<1>1. /\ stack = << scope >> /\ conds = << >> /\ taken = << >> /\ lost = {}
      /\ env = [n \in Names |-> env[n]] /\ \A n \in Names : env[n] \in Value(n)
  BY DEF ScopesInit
<1>2. DOMAIN scope = Names /\ \A n \in Names : scope[n].val = env[n]
  BY DEF Symbol
<1>3. IsScope(scope)
  <2> SUFFICES ASSUME NEW n \in Names PROVE scope[n] \in SymbolOf(n)
    BY <1>2 DEF IsScope
  <2>1. Clean \in [Index -> BOOLEAN]
    BY DEF Clean
  <2> QED
    BY <1>1, <2>1 DEF Symbol, SymbolOf
<1> HIDE DEF scope
<1>4. Len(stack) = 1 /\ stack[1] = scope /\ stack = [k \in 1 .. 1 |-> stack[k]]
  BY <1>1
<1>5. IsStack(stack)
  BY <1>2, <1>3, <1>4 DEF IsStack
<1>6. DOMAIN conds = {} /\ Len(conds) = 0 /\ Len(taken) = 0
      /\ conds \in Seq(Cond) /\ taken \in Seq(BOOLEAN)
  BY <1>1
<1>7. Nesting
  BY <1>1, <1>4, <1>5, <1>6 DEF Nesting
<1>8. Asked /\ Chosen
  BY <1>6 DEF Asked, Chosen
<1>9. Followed
  <2>1. \A n \in Names : GetIn(stack, 1, n) = scope[n]
    BY <1>2, <1>4, <1>5, Outward
  <2>2. \A k \in 1 .. Top : k = 1
    BY <1>4
  <2> QED
    BY <1>2, <2>1, <2>2, GetIsGetIn DEF Followed
<1>10. DirtySound
  BY <1>4 DEF DirtySound
<1> QED
  BY <1>7, <1>8, <1>9, <1>10 DEF ScopesInv

\* Every statement keeps the invariant.
LEMMA NextInv == ScopesInv /\ [ScopesNext]_scopes_vars => ScopesInv'
<1> SUFFICES ASSUME ScopesInv, [ScopesNext]_scopes_vars PROVE ScopesInv'
  OBVIOUS
<1>1. CASE \E n \in Scalars \cap Assigned, x \in Scalars : AssignScalar(n, x)
  BY <1>1, AssignScalarStep
<1>2. CASE \E n \in Arrays \cap Assigned, from \in Arrays : AssignArray(n, from)
  BY <1>2, AssignArrayStep
<1>3. CASE \E n \in Arrays \cap Assigned, i \in Index, x \in Scalars : AssignElement(n, i, x)
  BY <1>3, AssignElementStep
<1>4. CASE \E x \in Scalars : If(x)
  BY <1>4, IfStep
<1>5. CASE Else
  BY <1>5, ElseStep
<1>6. CASE End
  BY <1>6, EndStep
<1>7. CASE UNCHANGED scopes_vars
  <2>1. /\ stack' = stack /\ conds' = conds /\ env' = env /\ taken' = taken /\ lost' = lost
    BY <1>7 DEF scopes_vars
  <2>2. \A k, n : get(k, n)' = get(k, n)
    BY <2>1 DEF get
  <2>3. Nesting'
    BY <2>1 DEF ScopesInv, Nesting
  <2>4. Asked'
    BY <2>1, <2>2 DEF ScopesInv, Asked
  <2>5. Chosen'
    BY <2>1 DEF ScopesInv, Chosen, Executed
  <2>6. Followed'
    BY <2>1, <2>2 DEF ScopesInv, Followed, Executed
  <2>7. DirtySound'
    BY <2>1, <2>2 DEF ScopesInv, DirtySound
  <2> QED
    BY <2>3, <2>4, <2>5, <2>6, <2>7 DEF ScopesInv
<1> QED
  BY <1>1, <1>2, <1>3, <1>4, <1>5, <1>6, <1>7 DEF ScopesNext

\* The invariant implies that the circuit reads what the program means.
LEMMA IInvReads == ScopesInv => Reads
<1> SUFFICES ASSUME ScopesInv, lost = {}, Live, NEW n \in Names PROVE get(Top, n).val = env[n]
  BY DEF Reads
<1> QED
  BY Fetching

\* The invariant behind the two theorems: every open if was decided by the bit
\* the program means, and the innermost scope that is executed is followed.
THEOREM ScopesCorrect == ScopesSpec => []ScopesInv
<1>1. ScopesInit => ScopesInv
  BY InitInv
<1>2. ScopesInv /\ [ScopesNext]_scopes_vars => ScopesInv'
  BY NextInv
<1> QED
  BY <1>1, <1>2, PTL DEF ScopesSpec

\* Whatever the program, in an arm that is executed and after it every variable
\* read from the scopes has the value the program means (get, assign_, mux).
THEOREM ReadsAlways == ScopesSpec => []Reads
<1>1. ScopesInv => Reads
  BY IInvReads
<1> QED
  BY <1>1, ScopesCorrect, PTL

\* Whatever the program, an element that is not marked is as in the enclosing
\* scopes, so that mux may leave it out (dirty_idx in assign_ and mux).
THEOREM DirtySoundAlways == ScopesSpec => []DirtySound
<1>1. ScopesInv => DirtySound
  BY DEF ScopesInv
<1> QED
  BY <1>1, ScopesCorrect, PTL
=============================================================================
