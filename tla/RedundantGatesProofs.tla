------------------------ MODULE RedundantGatesProofs ------------------------
(***************************************************************************)
(* Proofs about RedundantGates for circuits of any number of gates over    *)
(* any tables and inputs, and for windows of any size.                     *)
(***************************************************************************)
EXTENDS RedundantGates, SequenceTheorems, TLAPS

Known == 0 .. next_gate          \* the wires there are
Held  == ToSet(IdsOf(list))      \* the gates that wait in the list

\* What a wire of the file may be.
Kept == Inputs \cup ToSet(printed) \cup Held

TypeOK ==
  /\ pc \in {"parse", "scan", "last", "done"}
  /\ next_gate \in InpCnt - 1 .. MaxId
  /\ zero_gate \in Known /\ one_gate \in Known
  /\ list \in Seq(Gate)
  /\ cur \in Nat /\ out_id \in Nat
  /\ mtab \in [Ids -> Nat] /\ map \in [Ids -> Ids]
  /\ printed \in Seq(Ids)
  /\ outs \subseteq InpCnt .. next_gate
  /\ wval \in [Ids -> Bit]

\* Between scans the tables are fresh, and while one runs it is at a gate of the
\* list.
Phases ==
  /\ pc \in {"parse", "done"} => cur = 0 /\ htab = {} /\ mtab = Unmapped(Ids)
  /\ pc \in {"scan", "last"} => cur \in 1 .. Len(list)
  /\ pc = "done" => list = << >>

\* The list continues what is printed, in the order of the ids.
Ordered ==
  /\ \A i, j \in 1 .. Len(printed) : i < j => printed[i] < printed[j]
  /\ \A i, j \in 1 .. Len(list) : i < j => list[i].id < list[j].id
  /\ \A i \in 1 .. Len(printed), j \in 1 .. Len(list) : printed[i] < list[j].id
  /\ \A i \in 1 .. Len(printed) : printed[i] \in InpCnt .. next_gate

\* A gate of the list reads wires that were there before it and are not output
\* gates, and its wire has the value it yields on them.
Computes ==
  \A i \in 1 .. Len(list) :
    LET g == list[i]
    IN  /\ g.id \in InpCnt .. next_gate
        /\ g.output <=> g.id \in outs
        /\ g.x \in Readable /\ g.y \in Readable
        /\ ~g.output => wval[g.id] = Apply(g.table, wval[g.x], wval[g.y])

\* The gates entered in htab are gates of the list before cur, and read wires
\* of the same values.
Entered ==
  \A h \in htab :
    /\ h.table \in Table /\ h.x \in Known /\ h.y \in Known
    /\ wval[h.id] = Apply(h.table, wval[h.x], wval[h.y])
    /\ \E i \in 1 .. cur : /\ h.id = list[i].id /\ h.table = list[i].table
                           /\ ~list[i].output

\* The copy of the map entries that a scan keeps is right on what gates read.
CopySound == \A x \in Readable : mtab[x] \in Known /\ wval[mtab[x]] = wval[x]

\* There is one gate of each constant, with that value, and it is never dropped.
ConstantsKept ==
  /\ zero_gate # 0 => zero_gate \in Kept /\ wval[zero_gate] = 0
  /\ one_gate # 0 => one_gate \in Kept /\ wval[one_gate] = 1
  /\ \A i \in 1 .. Len(list) :
       ~list[i].output => /\ list[i].table = ZERO <=> list[i].id = zero_gate
                          /\ list[i].table = ONE <=> list[i].id = one_gate

\* The map replaces a wire by one of its value that is there to stay: printed,
\* passed by the scan, or a constant.
Passed == ToSet(printed) \cup {list[i].id : i \in 1 .. cur} \cup {zero_gate, one_gate}
MapTargets ==
  /\ \A x \in Ids : map[x] # x => x \in Known /\ map[x] \in Passed \ {0}
  /\ \A x \in Known : map[x] \in Kept /\ wval[map[x]] = wval[x]
  /\ \A x \in Kept : map[x] = x

\* The inductive invariant.
IInv == /\ TypeOK /\ Phases /\ Ordered /\ Computes /\ Entered /\ CopySound
        /\ ConstantsKept /\ MapTargets
USE SizeAssumption DEF Ids, Inputs

(***************************************************************************)
(* The sets of wires.                                                      *)
(***************************************************************************)

\* A gate yields a bit; a constant its constant.
LEMMA ApplyBit ==
  ASSUME NEW t \in Table, NEW a \in Bit, NEW b \in Bit
  PROVE  /\ Apply(t, a, b) \in Bit
         /\ t = ZERO => Apply(t, a, b) = 0
         /\ t = ONE => Apply(t, a, b) = 1
<1>1. Apply(t, a, b) \in Bit
  BY DEF Apply, Table, Bit
<1>2. t = ZERO => Apply(t, a, b) = 0
  BY DEF Apply, ZERO
<1>3. t = ONE => Apply(t, a, b) = 1
  BY DEF Apply, ONE
<1> QED
  BY <1>1, <1>2, <1>3

\* The constants are tables, and two.
LEMMA ConstantTables == ZERO \in Table /\ ONE \in Table /\ AND \in Table /\ ZERO # ONE
<1>1. ZERO \in Table /\ ONE \in Table /\ AND \in Table
  BY DEF ZERO, ONE, AND, Table, Bit
<1>2. ZERO[1] = 0 /\ ONE[1] = 1
  BY DEF ZERO, ONE
<1> QED
  BY <1>1, <1>2

\* Held is what the list holds.
LEMMA HeldIds ==
  ASSUME NEW l
  PROVE  ToSet(IdsOf(l)) = {l[i].id : i \in 1 .. Len(l)}
BY DEF ToSet, IdsOf

\* What the list and the file hold are wires there are.
LEMMA KeptKnown ==
  ASSUME TypeOK, Ordered, Computes
  PROVE  /\ Kept \subseteq Known /\ Known \subseteq Ids /\ Readable \subseteq Known
         /\ Kept = Inputs \cup ToSet(printed) \cup {list[i].id : i \in 1 .. Len(list)}
         /\ ToSet(printed) = {printed[i] : i \in 1 .. Len(printed)}
         /\ 0 \in Readable /\ Inputs \subseteq Known
         /\ Len(list) \in Nat /\ Len(printed) \in Nat
         /\ next_gate \in Int /\ InpCnt \in Nat /\ InpCnt > 0
         /\ \A i \in 1 .. Len(list) : list[i] \in Gate
<1>1. /\ Known \subseteq Ids /\ Readable \subseteq Known /\ 0 \in Readable /\ Inputs \subseteq Known
      /\ Len(list) \in Nat /\ Len(printed) \in Nat
      /\ next_gate \in Int /\ InpCnt \in Nat /\ InpCnt > 0
      /\ \A i \in 1 .. Len(list) : list[i] \in Gate
  <2>1. next_gate \in InpCnt - 1 .. MaxId /\ outs \subseteq InpCnt .. next_gate
    BY DEF TypeOK
  <2>2. list \in Seq(Gate) /\ printed \in Seq(Ids)
    BY DEF TypeOK
  <2>3. /\ Known \subseteq Ids /\ Readable \subseteq Known /\ 0 \in Readable /\ Inputs \subseteq Known
        /\ next_gate \in Int /\ InpCnt \in Nat /\ InpCnt > 0
    BY <2>1 DEF Known, Readable
  <2> HIDE DEF Ids
  <2>4. Len(list) \in Nat /\ Len(printed) \in Nat
    BY <2>2
  <2>5. \A i \in 1 .. Len(list) : list[i] \in Gate
    <3> HIDE DEF Gate
    <3> QED
      BY <2>2
  <2> QED
    BY <2>3, <2>4, <2>5
<1>2. Kept = Inputs \cup ToSet(printed) \cup {list[i].id : i \in 1 .. Len(list)}
  BY HeldIds DEF Kept, Held
<1>3. ToSet(printed) = {printed[i] : i \in 1 .. Len(printed)}
  <2>1. printed \in Seq(Ids)
    BY DEF TypeOK
  <2>2. DOMAIN printed = 1 .. Len(printed)
    BY <2>1
  <2> QED
    BY <2>2 DEF ToSet
<1>4. \A i \in 1 .. Len(printed) : printed[i] \in Known
  BY <1>1 DEF Ordered, Known
<1>5. \A i \in 1 .. Len(list) : list[i].id \in Known
  BY <1>1 DEF Computes, Known
<1> QED
  BY <1>1, <1>2, <1>3, <1>4, <1>5

(***************************************************************************)
(* Adding gates.                                                           *)
(***************************************************************************)

\* A gate appended to the list, the first of its constant or an output gate
\* included, keeps the invariant, and so does the start of a scan.
LEMMA Adding ==
  ASSUME IInv, pc = "parse", Id <= MaxId,
         NEW g \in Gate, g.id = Id, g.x \in Readable, g.y \in Readable,
         NEW v \in Bit, ~g.output => v = Apply(g.table, wval[g.x], wval[g.y]),
         ~g.output /\ g.table = ZERO => zero_gate = 0,
         ~g.output /\ g.table = ONE => one_gate = 0,
         Append2List(g), next_gate' = Id, wval' = [wval EXCEPT ![Id] = v],
         outs' = (IF g.output THEN outs \cup {Id} ELSE outs),
         zero_gate' = (IF ~g.output /\ g.table = ZERO THEN Id ELSE zero_gate),
         one_gate' = (IF ~g.output /\ g.table = ONE THEN Id ELSE one_gate),
         map' = map, printed' = printed
  PROVE  IInv'
<1> DEFINE n == Len(list)
<1>1. TypeOK /\ Phases /\ Ordered /\ Computes /\ ConstantsKept /\ MapTargets
  BY DEF IInv
<1>2. /\ Kept \subseteq Known /\ Known \subseteq Ids /\ Readable \subseteq Known
      /\ Kept = Inputs \cup ToSet(printed) \cup {list[i].id : i \in 1 .. n}
      /\ n \in Nat /\ next_gate \in Int /\ InpCnt \in Nat /\ InpCnt > 0
      /\ \A i \in 1 .. n : list[i] \in Gate
  BY <1>1, KeptKnown
<1>3. /\ Id \in Ids /\ Id \in InpCnt .. MaxId /\ Id = next_gate + 1 /\ Id \notin Known
      /\ Known' = Known \cup {Id} /\ \A x \in Known : x < Id
  <2>1. next_gate \in InpCnt - 1 .. MaxId
    BY <1>1 DEF TypeOK
  <2>2. Known' = 0 .. Id
    BY DEF Known
  <2>3. Id = next_gate + 1 /\ Known = 0 .. next_gate
    BY DEF Id, Known
  <2>4. Id \in InpCnt .. MaxId /\ 0 .. Id = (0 .. next_gate) \cup {Id}
    BY <2>1, <2>3
  <2>5. Id \in Ids /\ Id \notin Known /\ \A x \in Known : x < Id
    BY <2>1, <2>3
  <2> QED
    BY <2>2, <2>3, <2>4, <2>5
<1>4. /\ list' = Append(list, g) /\ list' \in Seq(Gate) /\ Len(list') = n + 1
      /\ list'[n + 1] = g /\ \A i \in 1 .. n : list'[i] = list[i]
  BY <1>1 DEF TypeOK, Append2List
<1>5. \A x \in Known : wval'[x] = wval[x]
  BY <1>1, <1>2, <1>3 DEF TypeOK
<1>6. wval' \in [Ids -> Bit] /\ wval'[Id] = v
  BY <1>1, <1>3 DEF TypeOK
<1>7. /\ cur = 0 /\ htab = {} /\ mtab = Unmapped(Ids)
  BY <1>1 DEF Phases
<1>8. /\ htab' = {} /\ mtab' = Unmapped(Ids)
      /\ \/ pc' = "parse" /\ cur' = 0 /\ out_id' = out_id
         \/ pc' = "scan" /\ cur' = 1 /\ out_id' = list'[1].id
  BY <1>7 DEF Append2List, StartScan
<1>9. list'[1].id \in Ids
  <2>1. 1 \in 1 .. n + 1
    BY <1>2
  <2>2. list'[1] \in Gate
    <3> HIDE DEF Gate
    <3> QED
      BY <1>4, <2>1
  <2> QED
    BY <2>2 DEF Gate
<1>10. mtab' \in [Ids -> Nat] /\ \A x \in Ids : mtab'[x] = x
  BY <1>8 DEF Unmapped
<1>11. /\ outs' \subseteq InpCnt .. Id /\ zero_gate' \in Known' /\ one_gate' \in Known'
       /\ Readable \subseteq Readable' /\ Readable' \subseteq Known'
       /\ Id \in outs' <=> g.output
       /\ \A x \in Known : x \in outs' <=> x \in outs
  <2>1. outs \subseteq InpCnt .. next_gate /\ zero_gate \in Known /\ one_gate \in Known
    BY <1>1 DEF TypeOK
  <2>2. g.output \in BOOLEAN
    BY DEF Gate
  <2>3. Id \notin outs
    BY <1>2, <1>3, <2>1
  <2>4. outs' \subseteq InpCnt .. Id /\ (Id \in outs' <=> g.output) /\ \A x \in Known : x \in outs' <=> x \in outs
    BY <1>2, <1>3, <2>1, <2>2, <2>3
  <2>5. zero_gate' \in Known' /\ one_gate' \in Known'
    BY <1>3, <2>1
  <2>6. Readable = Known \ outs /\ Readable' = Known' \ outs'
    BY DEF Readable, Known
  <2> QED
    BY <1>3, <2>4, <2>5, <2>6
<1>12. Kept' = Kept \cup {Id}
  <2>1. {list'[i].id : i \in 1 .. n + 1} = {list[i].id : i \in 1 .. n} \cup {Id}
    BY <1>2, <1>4
  <2>2. Kept' = Inputs \cup ToSet(printed) \cup {list'[i].id : i \in 1 .. n + 1}
    BY <1>4, HeldIds DEF Kept, Held
  <2> QED
    BY <1>2, <2>1, <2>2
<1>13. TypeOK'
  <2>1. pc' \in {"parse", "scan", "last", "done"} /\ cur' \in Nat /\ out_id' \in Nat
    <3>1. out_id \in Nat
      BY <1>1 DEF TypeOK
    <3> QED
      BY <1>8, <1>9, <3>1
  <2>2. next_gate' \in InpCnt - 1 .. MaxId /\ outs' \subseteq InpCnt .. next_gate'
    BY <1>3, <1>11
  <2>3. map' \in [Ids -> Ids] /\ printed' \in Seq(Ids)
    BY <1>1 DEF TypeOK
  <2> QED
    BY <2>1, <2>2, <2>3, <1>4, <1>6, <1>10, <1>11 DEF TypeOK
<1>14. Phases'
  BY <1>2, <1>4, <1>8 DEF Phases
<1>15. Ordered'
  <2>1. \A i \in 1 .. n : list[i].id < Id
    BY <1>1, <1>3 DEF Computes, Known
  <2>2. \A i \in 1 .. Len(printed) : printed[i] < Id /\ printed[i] \in InpCnt .. Id
    BY <1>1, <1>2, <1>3 DEF Ordered
  <2>3. \A i, j \in 1 .. n + 1 : i < j => list'[i].id < list'[j].id
    <3> SUFFICES ASSUME NEW i \in 1 .. n + 1, NEW j \in 1 .. n + 1, i < j
                 PROVE  list'[i].id < list'[j].id
      OBVIOUS
    <3>1. i \in 1 .. n /\ (j \in 1 .. n \/ j = n + 1)
      BY <1>2
    <3> QED
      BY <1>1, <1>4, <2>1, <3>1 DEF Ordered
  <2>4. \A i \in 1 .. Len(printed), j \in 1 .. n + 1 : printed[i] < list'[j].id
    <3> SUFFICES ASSUME NEW i \in 1 .. Len(printed), NEW j \in 1 .. n + 1
                 PROVE  printed[i] < list'[j].id
      OBVIOUS
    <3>1. j \in 1 .. n \/ j = n + 1
      BY <1>2
    <3> QED
      BY <1>1, <1>4, <2>2, <3>1 DEF Ordered
  <2> QED
    BY <1>1, <1>4, <2>2, <2>3, <2>4 DEF Ordered
<1>16. Computes'
  <2> SUFFICES ASSUME NEW i \in 1 .. n + 1
               PROVE  /\ list'[i].id \in InpCnt .. next_gate'
                      /\ list'[i].output <=> list'[i].id \in outs'
                      /\ list'[i].x \in Readable' /\ list'[i].y \in Readable'
                      /\ ~list'[i].output => wval'[list'[i].id]
                            = Apply(list'[i].table, wval'[list'[i].x], wval'[list'[i].y])
    BY <1>4 DEF Computes
  <2>1. CASE i = n + 1
    <3>1. list'[i] = g
      BY <1>4, <2>1
    <3>2. g.x \in Known /\ g.y \in Known /\ g.x \in Readable' /\ g.y \in Readable'
      BY <1>2, <1>11
    <3>3. wval'[g.x] = wval[g.x] /\ wval'[g.y] = wval[g.y] /\ wval'[g.id] = v
      BY <1>5, <1>6, <3>2
    <3>4. g.id \in InpCnt .. next_gate'
      BY <1>3
    <3>5. g.output <=> g.id \in outs'
      BY <1>11
    <3> QED
      BY <3>1, <3>2, <3>3, <3>4, <3>5
  <2>2. CASE i \in 1 .. n
    <3>1. /\ list[i].id \in InpCnt .. next_gate /\ list[i].id \in Known
          /\ list[i].output <=> list[i].id \in outs
          /\ list[i].x \in Readable /\ list[i].y \in Readable
          /\ ~list[i].output => wval[list[i].id] = Apply(list[i].table, wval[list[i].x], wval[list[i].y])
      BY <1>1, <1>2, <2>2 DEF Computes
    <3>2. list[i].id \in InpCnt .. next_gate'
      BY <1>2, <1>3, <3>1
    <3>3. list'[i] = list[i]
      BY <1>4, <2>2
    <3>4. list[i].x \in Readable' /\ list[i].y \in Readable'
      BY <1>11, <3>1
    <3>5. list[i].output <=> list[i].id \in outs'
      BY <1>2, <1>3, <1>11, <3>1
    <3> QED
      BY <1>2, <1>4, <1>5, <1>11, <2>2, <3>1, <3>2, <3>3, <3>4, <3>5
  <2> QED
    BY <1>2, <2>1, <2>2
<1>17. Entered'
  BY <1>8 DEF Entered
<1>18. CopySound'
  BY <1>2, <1>3, <1>10, <1>11 DEF CopySound
<1>19. ConstantsKept'
  <2> DEFINE c == Apply(g.table, wval[g.x], wval[g.y])
  <2>9. (g.table = ZERO => c = 0) /\ (g.table = ONE => c = 1)
    <3>1. g.x \in Ids /\ g.y \in Ids /\ g.table \in Table
      BY <1>2 DEF Gate
    <3>2. wval[g.x] \in Bit /\ wval[g.y] \in Bit
      BY <1>1, <3>1 DEF TypeOK
    <3> QED
      BY <3>1, <3>2, ApplyBit
  <2> HIDE DEF c
  <2>8. ~g.output => v = c
    BY DEF c
  <2>7. /\ zero_gate # 0 => zero_gate \in Kept /\ zero_gate \in Known /\ wval[zero_gate] = 0
        /\ one_gate # 0 => one_gate \in Kept /\ one_gate \in Known /\ wval[one_gate] = 1
    BY <1>1, <1>2 DEF ConstantsKept
  <2>1. zero_gate' # 0 => zero_gate' \in Kept' /\ wval'[zero_gate'] = 0
    BY <1>5, <1>6, <1>12, <2>7, <2>8, <2>9
  <2>2. one_gate' # 0 => one_gate' \in Kept' /\ wval'[one_gate'] = 1
    BY <1>5, <1>6, <1>12, <2>7, <2>8, <2>9
  <2>3. ASSUME NEW i \in 1 .. n + 1, ~list'[i].output
        PROVE  /\ list'[i].table = ZERO <=> list'[i].id = zero_gate'
               /\ list'[i].table = ONE <=> list'[i].id = one_gate'
    <3>1. CASE i = n + 1
      <4>1. Id # zero_gate /\ Id # one_gate
        BY <1>1, <1>3 DEF TypeOK
      <4> QED
        BY <1>4, <2>3, <3>1, <4>1
    <3>2. CASE i \in 1 .. n
      <4>1. /\ list[i].table = ZERO <=> list[i].id = zero_gate
            /\ list[i].table = ONE <=> list[i].id = one_gate
        BY <1>1, <1>4, <2>3, <3>2 DEF ConstantsKept
      <4>2. list[i].id # Id /\ list[i].id # 0
        BY <1>1, <1>2, <1>3, <3>2 DEF Computes
      <4> QED
        BY <1>4, <3>2, <4>1, <4>2
    <3> QED
      BY <1>2, <3>1, <3>2
  <2> QED
    BY <1>4, <2>1, <2>2, <2>3 DEF ConstantsKept
<1>20. MapTargets'
  <2>1. Passed \ {0} \subseteq Passed' \ {0}
    <3>1. {list[i].id : i \in 1 .. cur} = {}
      BY <1>7
    <3>2. (zero_gate # 0 => zero_gate' = zero_gate) /\ (one_gate # 0 => one_gate' = one_gate)
      OBVIOUS
    <3> QED
      BY <3>1, <3>2 DEF Passed
  <2>2. \A x \in Ids : map[x] # x => x \in Known /\ map[x] \in Passed \ {0}
    BY <1>1 DEF MapTargets
  <2>3. map[Id] = Id
    BY <1>3, <2>2
  <2>4. \A x \in Known : map[x] \in Kept /\ map[x] \in Known /\ wval[map[x]] = wval[x]
    BY <1>1, <1>2 DEF MapTargets
  <2>5. \A x \in Known' : map[x] \in Kept' /\ wval'[map[x]] = wval'[x]
    BY <1>3, <1>5, <1>12, <2>3, <2>4
  <2>6. \A x \in Kept' : map[x] = x
    BY <1>1, <1>12, <2>3 DEF MapTargets
  <2> QED
    BY <1>3, <2>1, <2>2, <2>5, <2>6 DEF MapTargets
<1> QED
  BY <1>13, <1>14, <1>15, <1>16, <1>17, <1>18, <1>19, <1>20 DEF IInv

LEMMA AddGateKeeps ==
  ASSUME IInv, NEW x \in Readable, NEW y \in Readable, NEW t \in Tables, AddGate(x, y, t)
  PROVE  IInv'
<1> DEFINE g == [id |-> Id, x |-> x, y |-> y, table |-> t, output |-> FALSE]
           v == Apply(t, wval[x], wval[y])
<1>1. TypeOK /\ Ordered /\ Computes
  BY DEF IInv
<1>2. x \in Ids /\ y \in Ids /\ Id \in Ids /\ t \in Table
  <2>1. Readable \subseteq Ids /\ Known \subseteq Ids
    BY <1>1, KeptKnown
  <2>2. Id \in Ids
    BY <1>1 DEF AddGate, TypeOK, Id
  <2> QED
    BY <2>1, <2>2
<1>3. v \in Bit
  <2>1. wval[x] \in Bit /\ wval[y] \in Bit
    BY <1>1, <1>2 DEF TypeOK
  <2> QED
    BY <1>2, <2>1, ApplyBit
<1>4. g \in Gate
  BY <1>2 DEF Gate
<1>5. g.id = Id /\ g.x = x /\ g.y = y /\ g.table = t /\ g.output = FALSE
  OBVIOUS
<1>6. /\ pc = "parse" /\ Id <= MaxId /\ Append2List(g) /\ next_gate' = Id
      /\ wval' = [wval EXCEPT ![Id] = v] /\ outs' = outs
      /\ zero_gate' = (IF t = ZERO THEN Id ELSE zero_gate)
      /\ one_gate' = (IF t = ONE THEN Id ELSE one_gate)
      /\ map' = map /\ printed' = printed
      /\ (t = ZERO => zero_gate = 0) /\ (t = ONE => one_gate = 0)
  BY DEF AddGate
<1>7. v = Apply(g.table, wval[g.x], wval[g.y])
  BY <1>5
<1> HIDE DEF g, v
<1> QED
  BY <1>3, <1>4, <1>5, <1>6, <1>7, Adding

LEMMA AddOutputKeeps ==
  ASSUME IInv, NEW x \in Readable, AddOutput(x)
  PROVE  IInv'
<1> DEFINE g == [id |-> Id, x |-> x, y |-> 0, table |-> AND, output |-> TRUE]
<1>1. TypeOK /\ Ordered /\ Computes
  BY DEF IInv
<1>2. x \in Ids /\ 0 \in Ids /\ 0 \in Readable /\ Id \in Ids /\ AND \in Table
  <2>1. Readable \subseteq Ids /\ Known \subseteq Ids /\ 0 \in Readable
    BY <1>1, KeptKnown
  <2>2. Id \in Ids
    BY <1>1 DEF AddOutput, TypeOK, Id
  <2> QED
    BY <2>1, <2>2, ConstantTables
<1>3. wval[x] \in Bit
  BY <1>1, <1>2 DEF TypeOK
<1>4. g \in Gate
  BY <1>2 DEF Gate
<1>5. g.id = Id /\ g.x = x /\ g.y = 0 /\ g.output = TRUE
  OBVIOUS
<1>6. /\ pc = "parse" /\ Id <= MaxId /\ Append2List(g) /\ next_gate' = Id
      /\ wval' = [wval EXCEPT ![Id] = wval[x]] /\ outs' = outs \cup {Id}
      /\ zero_gate' = zero_gate /\ one_gate' = one_gate
      /\ map' = map /\ printed' = printed
  BY DEF AddOutput
<1> HIDE DEF g
<1> QED
  BY <1>2, <1>3, <1>4, <1>5, <1>6, Adding

\* A constant after the first of its kind only gets an entry in the map.
LEMMA AddConstantKeeps ==
  ASSUME IInv, NEW x \in Readable, NEW y \in Readable, NEW t \in Tables, AddConstant(x, y, t)
  PROVE  IInv'
<1> DEFINE v == Apply(t, wval[x], wval[y])
<1>1. /\ TypeOK /\ Phases /\ Ordered /\ Computes /\ Entered /\ CopySound
      /\ ConstantsKept /\ MapTargets
  BY DEF IInv
<1>2. /\ Kept \subseteq Known /\ Known \subseteq Ids /\ Readable \subseteq Known
      /\ next_gate \in Int /\ InpCnt \in Nat /\ InpCnt > 0
  BY <1>1, KeptKnown
<1>3. /\ pc = "parse" /\ next_gate' = Id /\ wval' = [wval EXCEPT ![Id] = v]
      /\ UNCHANGED <<pc, zero_gate, one_gate, list, cur, out_id, htab, mtab, printed, outs>>
  BY DEF AddConstant
<1>4. /\ Id \in Ids /\ Id \in InpCnt .. MaxId /\ Id \notin Known /\ Known' = Known \cup {Id}
      /\ InpCnt .. next_gate \subseteq InpCnt .. Id
  <2>1. next_gate \in InpCnt - 1 .. MaxId
    BY <1>1 DEF TypeOK
  <2>2. Known' = 0 .. Id
    BY <1>3 DEF Known
  <2>3. Id = next_gate + 1 /\ Known = 0 .. next_gate /\ Id <= MaxId
    BY DEF Id, Known, AddConstant
  <2>4. Id \in InpCnt .. MaxId /\ 0 .. Id = (0 .. next_gate) \cup {Id}
    BY <2>1, <2>3
  <2>5. Id \in Ids /\ Id \notin Known
    BY <2>1, <2>3
  <2>6. InpCnt .. next_gate \subseteq InpCnt .. Id
    BY <2>1, <2>3
  <2> QED
    BY <2>2, <2>3, <2>4, <2>5, <2>6
<1>5. v \in Bit /\ (t = ZERO => v = 0) /\ (t = ONE => v = 1)
  <2>1. wval[x] \in Bit /\ wval[y] \in Bit
    BY <1>1, <1>2 DEF TypeOK
  <2> QED
    BY <2>1, ApplyBit
<1>6. PICK c \in {zero_gate, one_gate} : /\ c # 0 /\ c \in Kept /\ c \in Known /\ wval[c] = v
                                        /\ map' = [map EXCEPT ![Id] = c]
  <2>1. \/ t = ONE /\ one_gate # 0 /\ map' = [map EXCEPT ![Id] = one_gate]
        \/ t = ZERO /\ zero_gate # 0 /\ map' = [map EXCEPT ![Id] = zero_gate]
    BY DEF AddConstant
  <2> HIDE DEF v
  <2> QED
    BY <1>1, <1>2, <1>5, <2>1 DEF ConstantsKept
<1> HIDE DEF v
<1>7. /\ wval' \in [Ids -> Bit] /\ wval'[Id] = v /\ \A z \in Known : wval'[z] = wval[z]
      /\ map' \in [Ids -> Ids] /\ map'[Id] = c /\ \A z \in Ids \ {Id} : map'[z] = map[z]
  BY <1>1, <1>2, <1>3, <1>4, <1>5, <1>6 DEF TypeOK
<1>8. cur = 0 /\ htab = {} /\ \A z \in Ids : mtab[z] = z
  BY <1>1, <1>3 DEF Phases, Unmapped
<1>9. Kept' = Kept
  BY <1>3 DEF Kept, Held
<1>10. Passed' = Passed
  BY <1>3, <1>8 DEF Passed
<1>11. Readable' = Readable \cup {Id}
  <2>1. outs \subseteq Known
    BY <1>1, <1>2 DEF TypeOK, Known
  <2> QED
    BY <1>3, <1>4, <2>1 DEF Readable, Known
<1>12. TypeOK'
  <2>1. next_gate' \in InpCnt - 1 .. MaxId /\ outs' \subseteq InpCnt .. next_gate'
    <3>1. outs \subseteq InpCnt .. next_gate
      BY <1>1 DEF TypeOK
    <3> QED
      BY <1>2, <1>3, <1>4, <3>1
  <2>2. zero_gate' \in Known' /\ one_gate' \in Known'
    BY <1>1, <1>3, <1>4 DEF TypeOK
  <2> QED
    BY <1>1, <1>3, <1>7, <2>1, <2>2 DEF TypeOK
<1>13. Phases' /\ Entered'
  BY <1>1, <1>3, <1>8 DEF Phases, Entered
<1>14. Ordered'
  BY <1>1, <1>3, <1>4 DEF Ordered
<1>15. Computes'
  <2> SUFFICES ASSUME NEW i \in 1 .. Len(list)
               PROVE  /\ list[i].id \in InpCnt .. Id
                      /\ list[i].output <=> list[i].id \in outs
                      /\ list[i].x \in Readable' /\ list[i].y \in Readable'
                      /\ ~list[i].output => wval'[list[i].id]
                            = Apply(list[i].table, wval'[list[i].x], wval'[list[i].y])
    BY <1>3 DEF Computes
  <2>1. /\ list[i].id \in InpCnt .. next_gate
        /\ list[i].output <=> list[i].id \in outs
        /\ list[i].x \in Readable /\ list[i].y \in Readable
        /\ ~list[i].output => wval[list[i].id] = Apply(list[i].table, wval[list[i].x], wval[list[i].y])
    BY <1>1 DEF Computes
  <2>2. list[i].id \in Known
    BY <1>2, <2>1 DEF Known
  <2> QED
    BY <1>2, <1>4, <1>7, <1>11, <2>1, <2>2
<1>16. CopySound'
  <2>1. \A z \in Readable' : mtab[z] = z /\ z \in Known'
    BY <1>2, <1>4, <1>8, <1>11
  <2> QED
    BY <1>3, <2>1 DEF CopySound
<1>17. ConstantsKept'
  BY <1>1, <1>2, <1>3, <1>7, <1>9 DEF ConstantsKept
<1>18. MapTargets'
  <2>1. \A z \in Ids : map'[z] # z => z \in Known' /\ map'[z] \in Passed' \ {0}
    <3>1. c \in Passed
      BY DEF Passed
    <3> QED
      BY <1>1, <1>4, <1>6, <1>7, <1>10, <3>1 DEF MapTargets
  <2>2. \A z \in Known' : map'[z] \in Kept' /\ wval'[map'[z]] = wval'[z]
    <3>1. \A z \in Known : map[z] \in Kept /\ map[z] \in Known /\ wval[map[z]] = wval[z]
      BY <1>1, <1>2 DEF MapTargets
    <3> QED
      BY <1>2, <1>4, <1>6, <1>7, <1>9, <3>1
  <2>3. \A z \in Kept' : map'[z] = z
    BY <1>1, <1>2, <1>4, <1>7, <1>9 DEF MapTargets
  <2> QED
    BY <2>1, <2>2, <2>3 DEF MapTargets
<1> QED
  BY <1>12, <1>13, <1>14, <1>15, <1>16, <1>17, <1>18 DEF IInv

LEMMA EndOfInputKeeps ==
  ASSUME IInv, EndOfInput
  PROVE  IInv'
<1>1. /\ TypeOK /\ Phases /\ Ordered /\ Computes /\ Entered /\ CopySound
      /\ ConstantsKept /\ MapTargets
  BY DEF IInv
<1>2. /\ Known \subseteq Ids /\ Readable \subseteq Known /\ Len(list) \in Nat
      /\ \A i \in 1 .. Len(list) : list[i] \in Gate
  BY <1>1, KeptKnown
<1>3. UNCHANGED <<next_gate, zero_gate, one_gate, list, map, printed, outs, wval>>
  BY DEF EndOfInput
<1>4. Known' = Known /\ Readable' = Readable /\ Kept' = Kept
  BY <1>3 DEF Known, Readable, Kept, Held
<1>5. cur = 0 /\ htab = {} /\ mtab = Unmapped(Ids)
  BY <1>1 DEF Phases, EndOfInput
<1>6. /\ htab' = {} /\ mtab' = Unmapped(Ids)
      /\ \/ pc' = "done" /\ cur' = 0 /\ out_id' = out_id /\ list = << >>
         \/ pc' = "last" /\ cur' = 1 /\ out_id' = list[1].id /\ list # << >>
  BY <1>5 DEF EndOfInput, StartScan
<1>7. list # << >> => 1 \in 1 .. Len(list)
  <2>1. list \in Seq(Gate)
    BY <1>1 DEF TypeOK
  <2> HIDE DEF Gate
  <2> QED
    BY <2>1
<1>8. TypeOK'
  <2>1. out_id' \in Nat
    <3>1. out_id \in Nat
      BY <1>1 DEF TypeOK
    <3>2. list # << >> => list[1] \in Gate
      BY <1>2, <1>7
    <3> QED
      BY <1>6, <3>1, <3>2 DEF Gate
  <2>2. mtab' \in [Ids -> Nat]
    BY <1>6 DEF Unmapped
  <2>3. pc' \in {"parse", "scan", "last", "done"} /\ cur' \in Nat
    BY <1>6
  <2>4. /\ next_gate' \in InpCnt - 1 .. MaxId /\ zero_gate' \in Known' /\ one_gate' \in Known'
        /\ list' \in Seq(Gate) /\ map' \in [Ids -> Ids] /\ printed' \in Seq(Ids)
        /\ outs' \subseteq InpCnt .. next_gate' /\ wval' \in [Ids -> Bit]
    BY <1>1, <1>3, <1>4 DEF TypeOK
  <2> QED
    BY <2>1, <2>2, <2>3, <2>4 DEF TypeOK
<1>9. Phases'
  BY <1>3, <1>6, <1>7 DEF Phases
<1>10. Ordered' /\ Computes' /\ Entered' /\ ConstantsKept'
  <2>1. Ordered'
    BY <1>1, <1>3 DEF Ordered
  <2>2. Computes'
    BY <1>1, <1>3, <1>4 DEF Computes
  <2>3. Entered'
    BY <1>6 DEF Entered
  <2>4. ConstantsKept'
    BY <1>1, <1>3, <1>4 DEF ConstantsKept
  <2> QED
    BY <2>1, <2>2, <2>3, <2>4
<1>11. CopySound'
  BY <1>2, <1>3, <1>4, <1>6 DEF CopySound, Unmapped
<1>12. MapTargets'
  <2>1. Passed \subseteq Passed'
    <3>1. {list[i].id : i \in 1 .. cur} = {}
      BY <1>5
    <3> QED
      BY <1>3, <3>1 DEF Passed
  <2> QED
    BY <1>1, <1>3, <1>4, <2>1 DEF MapTargets
<1> QED
  BY <1>8, <1>9, <1>10, <1>11, <1>12 DEF IInv

(***************************************************************************)
(* Scanning the list.                                                      *)
(***************************************************************************)

\* What a turn of the scan knows of the gate it looks at.
LEMMA AtTmp ==
  ASSUME IInv, Scanning
  PROVE  /\ pc \in {"scan", "last"} /\ cur \in 1 .. Len(list) - 1 /\ cur + 1 \in 1 .. Len(list)
         /\ Tmp.id \in InpCnt .. next_gate /\ Tmp.id \in Ids /\ Tmp.id \in Known /\ Tmp.id # 0
         /\ Tmp.id \in Kept /\ map[Tmp.id] = Tmp.id
         /\ Tmp.table \in Table
         /\ Tmp.output <=> Tmp.id \in outs
         /\ ~Tmp.output => wval[Tmp.id] = Apply(Tmp.table, wval[mtab[Tmp.x]], wval[mtab[Tmp.y]])
         /\ mtab[Tmp.x] \in Known /\ mtab[Tmp.y] \in Known
         /\ \A i \in 1 .. Len(list) : i # cur + 1 => list[i].id # Tmp.id
         /\ \A i \in 1 .. cur : i \in 1 .. Len(list)
         /\ \A i \in 1 .. Len(printed) : printed[i] # Tmp.id
<1>1. /\ TypeOK /\ Phases /\ Ordered /\ Computes /\ CopySound /\ MapTargets
  BY DEF IInv
<1>2. /\ Known \subseteq Ids /\ Readable \subseteq Known /\ Len(list) \in Nat
      /\ Kept = Inputs \cup ToSet(printed) \cup {list[i].id : i \in 1 .. Len(list)}
      /\ next_gate \in Int /\ InpCnt \in Nat /\ InpCnt > 0 /\ Len(printed) \in Nat
      /\ \A i \in 1 .. Len(list) : list[i] \in Gate
  BY <1>1, KeptKnown
<1>3. /\ pc \in {"scan", "last"} /\ cur \in 1 .. Len(list) - 1 /\ cur + 1 \in 1 .. Len(list)
      /\ \A i \in 1 .. cur : i \in 1 .. Len(list)
  BY <1>1, <1>2 DEF Phases, Scanning
<1>4. /\ Tmp.id \in InpCnt .. next_gate /\ Tmp.x \in Readable /\ Tmp.y \in Readable
      /\ Tmp.output <=> Tmp.id \in outs
      /\ ~Tmp.output => wval[Tmp.id] = Apply(Tmp.table, wval[Tmp.x], wval[Tmp.y])
  BY <1>1, <1>3 DEF Computes, Tmp
<1>5. Tmp.id \in Known /\ Tmp.id \in Ids /\ Tmp.id # 0
  BY <1>2, <1>4 DEF Known
<1>6. Tmp.table \in Table
  BY <1>2, <1>3 DEF Tmp, Gate
<1>7. /\ mtab[Tmp.x] \in Known /\ wval[mtab[Tmp.x]] = wval[Tmp.x]
      /\ mtab[Tmp.y] \in Known /\ wval[mtab[Tmp.y]] = wval[Tmp.y]
  BY <1>1, <1>4 DEF CopySound
<1>8. Tmp.id \in Kept
  BY <1>2, <1>3 DEF Tmp
<1>9. map[Tmp.id] = Tmp.id
  BY <1>1, <1>8 DEF MapTargets
<1>10. \A i \in 1 .. Len(list) : i # cur + 1 => list[i].id # Tmp.id
  <2> SUFFICES ASSUME NEW i \in 1 .. Len(list), i # cur + 1
               PROVE  list[i].id # Tmp.id
    OBVIOUS
  <2>1. list[i].id \in Int /\ list[cur + 1].id \in Int
    BY <1>2, <1>3 DEF Gate
  <2>2. i < cur + 1 \/ cur + 1 < i
    BY <1>3
  <2>3. list[i].id < list[cur + 1].id \/ list[cur + 1].id < list[i].id
    BY <1>1, <1>3, <2>2 DEF Ordered
  <2> QED
    BY <2>1, <2>3 DEF Tmp
<1>11. \A i \in 1 .. Len(printed) : printed[i] # Tmp.id
  <2> SUFFICES ASSUME NEW i \in 1 .. Len(printed)
               PROVE  printed[i] # Tmp.id
    OBVIOUS
  <2>1. printed[i] < Tmp.id /\ printed[i] \in Int /\ Tmp.id \in Int
    BY <1>1, <1>2, <1>3, <1>4 DEF Ordered, Tmp
  <2> QED
    BY <2>1
<1> QED
  BY <1>3, <1>4, <1>5, <1>6, <1>7, <1>8, <1>9, <1>10, <1>11

\* A turn that drops nothing.
LEMMA Advancing ==
  ASSUME IInv, Scanning, cur' = cur + 1,
         UNCHANGED <<pc, next_gate, zero_gate, one_gate, list, map, printed, outs, wval>>,
         out_id' \in Nat, mtab' \in [Ids -> Nat],
         \A x \in Readable : mtab'[x] = mtab[x],
         \A h \in htab' : \/ h \in htab
                          \/ /\ h.table \in Table /\ h.x \in Known /\ h.y \in Known
                             /\ wval[h.id] = Apply(h.table, wval[h.x], wval[h.y])
                             /\ h.id = Tmp.id /\ h.table = Tmp.table /\ ~Tmp.output
  PROVE  IInv'
<1>1. /\ TypeOK /\ Phases /\ Ordered /\ Computes /\ Entered /\ CopySound
      /\ ConstantsKept /\ MapTargets
  BY DEF IInv
<1>2. pc \in {"scan", "last"} /\ cur \in 1 .. Len(list) - 1 /\ cur + 1 \in 1 .. Len(list)
  BY AtTmp
<1>3. Known' = Known /\ Readable' = Readable /\ Kept' = Kept
  BY DEF Known, Readable, Kept, Held
<1>4. cur \in Nat /\ Len(list) \in Nat
  BY <1>1, KeptKnown DEF TypeOK
<1>5. TypeOK'
  <2>1. cur' \in Nat
    BY <1>4
  <2>2. /\ pc' \in {"parse", "scan", "last", "done"} /\ next_gate' \in InpCnt - 1 .. MaxId
        /\ zero_gate' \in Known' /\ one_gate' \in Known' /\ list' \in Seq(Gate)
    BY <1>1, <1>3 DEF TypeOK
  <2>3. /\ map' \in [Ids -> Ids] /\ printed' \in Seq(Ids)
        /\ outs' \subseteq InpCnt .. next_gate' /\ wval' \in [Ids -> Bit]
    BY <1>1 DEF TypeOK
  <2> QED
    BY <2>1, <2>2, <2>3 DEF TypeOK
<1>6. Phases'
  BY <1>2, <1>4 DEF Phases
<1>7. Ordered'
  BY <1>1 DEF Ordered
<1>8. Computes'
  BY <1>1, <1>3 DEF Computes
<1>9. ConstantsKept'
  BY <1>1, <1>3 DEF ConstantsKept
<1>10. CopySound'
  BY <1>1, <1>3 DEF CopySound
<1>11. Entered'
  <2> SUFFICES ASSUME NEW h \in htab'
               PROVE  /\ h.table \in Table /\ h.x \in Known /\ h.y \in Known
                      /\ wval[h.id] = Apply(h.table, wval[h.x], wval[h.y])
                      /\ \E i \in 1 .. cur + 1 : /\ h.id = list[i].id /\ h.table = list[i].table
                                                /\ ~list[i].output
    BY <1>3 DEF Entered
  <2>1. CASE h \in htab
    <3>1. /\ h.table \in Table /\ h.x \in Known /\ h.y \in Known
          /\ wval[h.id] = Apply(h.table, wval[h.x], wval[h.y])
      BY <1>1, <2>1 DEF Entered
    <3>2. PICK i \in 1 .. cur : h.id = list[i].id /\ h.table = list[i].table /\ ~list[i].output
      BY <1>1, <2>1 DEF Entered
    <3>3. i \in 1 .. cur + 1
      BY <1>4
    <3> QED
      BY <3>1, <3>2, <3>3
  <2>2. CASE h \notin htab
    <3>1. cur + 1 \in 1 .. cur + 1
      BY <1>4
    <3> QED
      BY <2>2, <3>1 DEF Tmp
  <2> QED
    BY <2>1, <2>2
<1>12. MapTargets'
  <2>1. Passed \subseteq Passed'
    <3>1. 1 .. cur \subseteq 1 .. cur + 1
      BY <1>4
    <3> QED
      BY <3>1 DEF Passed
  <2> QED
    BY <1>1, <1>3, <2>1 DEF MapTargets
<1> QED
  BY <1>5, <1>6, <1>7, <1>8, <1>9, <1>10, <1>11, <1>12 DEF IInv

LEMMA ScanOutputKeeps ==
  ASSUME IInv, ScanOutput
  PROVE  IInv'
<1>1. TypeOK /\ Scanning /\ Tmp.output
  BY DEF IInv, ScanOutput
<1>2. Tmp.id \in Ids /\ Tmp.id \in outs
  BY <1>1, AtTmp
<1>3. out_id' \in Nat /\ mtab' = [mtab EXCEPT ![Tmp.id] = out_id']
  BY <1>1 DEF TypeOK, ScanOutput
<1>4. Readable \subseteq Ids
  <2>1. Ordered /\ Computes
    BY DEF IInv
  <2> QED
    BY <1>1, <2>1, KeptKnown
<1>5. mtab' \in [Ids -> Nat] /\ \A x \in Readable : mtab'[x] = mtab[x]
  BY <1>1, <1>2, <1>3, <1>4 DEF TypeOK, Readable
<1>6. /\ cur' = cur + 1 /\ htab' = htab
      /\ UNCHANGED <<pc, next_gate, zero_gate, one_gate, list, map, printed, outs, wval>>
  BY DEF ScanOutput
<1> QED
  BY <1>1, <1>3, <1>5, <1>6, Advancing

LEMMA ScanNewKeeps ==
  ASSUME IInv, ScanNew
  PROVE  IInv'
<1> DEFINE e == [Tmp EXCEPT !.x = mtab[Tmp.x], !.y = mtab[Tmp.y]]
<1>1. TypeOK /\ Scanning /\ ~Tmp.output
  BY DEF IInv, ScanNew
<1>2. Tmp \in Gate
  <2>1. cur + 1 \in 1 .. Len(list) /\ Ordered /\ Computes
    BY <1>1, AtTmp DEF IInv
  <2> QED
    BY <1>1, <2>1, KeptKnown DEF Tmp
<1>3. e.id = Tmp.id /\ e.table = Tmp.table /\ e.x = mtab[Tmp.x] /\ e.y = mtab[Tmp.y]
  BY <1>2 DEF Gate
<1>4. /\ cur' = cur + 1 /\ htab' = htab \cup {e} /\ out_id' = out_id /\ mtab' = mtab
      /\ UNCHANGED <<pc, next_gate, zero_gate, one_gate, list, map, printed, outs, wval>>
  BY DEF ScanNew
<1> HIDE DEF e
<1>5. /\ e.table \in Table /\ e.x \in Known /\ e.y \in Known
      /\ wval[e.id] = Apply(e.table, wval[e.x], wval[e.y])
  BY <1>1, <1>3, AtTmp
<1>6. out_id' \in Nat /\ mtab' \in [Ids -> Nat]
  BY <1>1, <1>4 DEF TypeOK
<1> QED
  BY <1>1, <1>3, <1>4, <1>5, <1>6, Advancing

\* A sequence without its element i.
LEMMA Removed ==
  ASSUME NEW T, NEW l \in Seq(T), NEW i \in 1 .. Len(l)
  PROVE  /\ RemoveAt(l, i) \in Seq(T) /\ Len(RemoveAt(l, i)) = Len(l) - 1
         /\ \A j \in 1 .. Len(l) - 1 : RemoveAt(l, i)[j] = l[IF j < i THEN j ELSE j + 1]
<1> DEFINE front == SubSeq(l, 1, i - 1)
           back == SubSeq(l, i + 1, Len(l))
<1>1. Len(l) \in Nat /\ i \in Nat
  OBVIOUS
<1>2. front \in Seq(T) /\ Len(front) = i - 1 /\ \A j \in 1 .. i - 1 : front[j] = l[j]
  BY <1>1, SubSeqProperties
<1>3. /\ back \in Seq(T) /\ Len(back) = Len(l) - i
      /\ \A j \in 1 .. Len(l) - i : back[j] = l[i + j]
  BY <1>1, SubSeqProperties
<1>4. RemoveAt(l, i) = front \o back
  BY DEF RemoveAt
<1> HIDE DEF front, back
<1>5. /\ front \o back \in Seq(T) /\ Len(front \o back) = Len(front) + Len(back)
      /\ \A j \in 1 .. Len(front) + Len(back) :
           (front \o back)[j] = IF j <= Len(front) THEN front[j] ELSE back[j - Len(front)]
  BY <1>2, <1>3, ConcatProperties
<1>6. ASSUME NEW j \in 1 .. Len(l) - 1
      PROVE  (front \o back)[j] = l[IF j < i THEN j ELSE j + 1]
  <2>1. CASE j < i
    BY <1>1, <1>2, <1>3, <1>5, <2>1
  <2>2. CASE ~(j < i)
    <3>1. j - (i - 1) \in 1 .. Len(l) - i /\ i + (j - (i - 1)) = j + 1 /\ ~(j <= i - 1)
      BY <1>1, <2>2
    <3>2. back[j - (i - 1)] = l[j + 1]
      BY <1>3, <3>1
    <3>3. j \in 1 .. Len(front) + Len(back)
      BY <1>1, <1>2, <1>3
    <3> QED
      BY <1>2, <1>5, <2>2, <3>1, <3>2, <3>3
  <2> QED
    BY <2>1, <2>2
<1>7. Len(front \o back) = Len(l) - 1
  BY <1>1, <1>2, <1>3, <1>5
<1> QED
  BY <1>4, <1>5, <1>6, <1>7

\* A gate that repeats one of the list before it is dropped.
LEMMA ScanRedundantKeeps ==
  ASSUME IInv, ScanRedundant
  PROVE  IInv'
<1> DEFINE n == Len(list)
           k == Tmp.id
           At(j) == IF j < cur + 1 THEN j ELSE j + 1
<1>1. /\ TypeOK /\ Phases /\ Ordered /\ Computes /\ Entered /\ CopySound
      /\ ConstantsKept /\ MapTargets /\ Scanning
  BY DEF IInv, ScanRedundant
<1>2. /\ Kept \subseteq Known /\ Known \subseteq Ids /\ Readable \subseteq Known
      /\ Kept = Inputs \cup ToSet(printed) \cup {list[i].id : i \in 1 .. n}
      /\ ToSet(printed) = {printed[i] : i \in 1 .. Len(printed)}
      /\ n \in Nat /\ next_gate \in Int /\ InpCnt \in Nat /\ InpCnt > 0
      /\ \A i \in 1 .. n : list[i] \in Gate
  BY <1>1, KeptKnown
<1>3. /\ pc \in {"scan", "last"} /\ cur \in 1 .. n - 1 /\ cur + 1 \in 1 .. n
      /\ k \in InpCnt .. next_gate /\ k \in Ids /\ k \in Known /\ k \in Kept /\ map[k] = k
      /\ \A i \in 1 .. n : i # cur + 1 => list[i].id # k
      /\ \A i \in 1 .. cur : i \in 1 .. n
      /\ \A i \in 1 .. Len(printed) : printed[i] # k
  BY <1>1, AtTmp
<1>4. ~Tmp.output /\ wval[k] = Apply(Tmp.table, wval[mtab[Tmp.x]], wval[mtab[Tmp.y]])
  BY <1>1, AtTmp DEF ScanRedundant
<1>5. PICK h \in htab : /\ SameDesc(Tmp, h) /\ map' = [map EXCEPT ![k] = h.id]
                       /\ mtab' = [mtab EXCEPT ![k] = h.id]
  BY DEF ScanRedundant
<1>6. /\ list' = RemoveAt(list, cur + 1)
      /\ UNCHANGED <<pc, next_gate, zero_gate, one_gate, cur, out_id, htab, printed, outs, wval>>
  BY DEF ScanRedundant
<1>7. list[cur + 1].id = k /\ list[cur + 1].table = Tmp.table /\ ~list[cur + 1].output
  BY <1>4 DEF Tmp
<1>8. wval[h.id] = wval[k] /\ h.table = Tmp.table
  BY <1>1, <1>4, <1>5 DEF Entered, SameDesc
<1>9. PICK e \in 1 .. cur : h.id = list[e].id /\ h.table = list[e].table /\ ~list[e].output
  BY <1>1, <1>5 DEF Entered
<1> HIDE DEF k
<1>10. /\ list' \in Seq(Gate) /\ Len(list') = n - 1
       /\ \A j \in 1 .. n - 1 : list'[j] = list[At(j)]
  <2>1. list \in Seq(Gate)
    BY <1>1 DEF TypeOK
  <2> HIDE DEF Gate
  <2> QED
    BY <1>3, <1>6, <2>1, Removed
<1>11. /\ \A j \in 1 .. n - 1 : At(j) \in 1 .. n /\ At(j) # cur + 1
       /\ \A i, j \in 1 .. n - 1 : i < j => At(i) < At(j)
       /\ \A j \in 1 .. cur : At(j) = j /\ j \in 1 .. n - 1
       /\ \A i \in 1 .. n : i # cur + 1 => \E j \in 1 .. n - 1 : At(j) = i
  <2>1. cur \in 1 .. n - 1
    BY <1>3
  <2>2. ASSUME NEW i \in 1 .. n, i # cur + 1
        PROVE  \E j \in 1 .. n - 1 : At(j) = i
    <3>1. CASE i < cur + 1
      <4>1. i \in 1 .. n - 1 /\ At(i) = i
        BY <1>2, <2>1, <3>1
      <4> QED
        BY <4>1
    <3>2. CASE ~(i < cur + 1)
      <4>1. i - 1 \in 1 .. n - 1 /\ At(i - 1) = i
        BY <1>2, <2>1, <2>2, <3>2
      <4> QED
        BY <4>1
    <3> QED
      BY <3>1, <3>2
  <2> QED
    BY <1>2, <2>1, <2>2
<1> HIDE DEF At
<1>12. /\ h.id \in InpCnt .. next_gate /\ h.id # 0 /\ h.id # k /\ h.id \in Ids /\ h.id \in Known
       /\ h.id \in Kept /\ h.id \in Passed \ {0}
  <2>1. e \in 1 .. n /\ e # cur + 1
    BY <1>2, <1>3
  <2>2. h.id \in InpCnt .. next_gate
    BY <1>1, <1>9, <2>1 DEF Computes
  <2>3. h.id # 0 /\ h.id \in Known
    BY <1>2, <2>2 DEF Known
  <2>4. h.id # k
    BY <1>3, <1>9, <2>1
  <2>5. h.id \in Kept
    BY <1>2, <1>9, <2>1
  <2>6. h.id \in Passed
    BY <1>9 DEF Passed
  <2> QED
    BY <1>2, <2>2, <2>3, <2>4, <2>5, <2>6
<1>13. Known' = Known /\ Readable' = Readable
  BY <1>6 DEF Known, Readable
<1>14. Kept' = Kept \ {k}
  <2>1. {list'[j].id : j \in 1 .. n - 1} = {list[i].id : i \in 1 .. n} \ {k}
    <3>1. ASSUME NEW j \in 1 .. n - 1
          PROVE  list'[j].id \in {list[i].id : i \in 1 .. n} \ {k}
      <4>1. list'[j] = list[At(j)] /\ At(j) \in 1 .. n /\ At(j) # cur + 1
        BY <1>10, <1>11
      <4>2. list[At(j)].id # k
        BY <1>3, <4>1
      <4> QED
        BY <4>1, <4>2
    <3>2. ASSUME NEW i \in 1 .. n, list[i].id # k
          PROVE  list[i].id \in {list'[j].id : j \in 1 .. n - 1}
      <4>1. i # cur + 1
        BY <1>7, <3>2
      <4>2. PICK j \in 1 .. n - 1 : At(j) = i
        BY <1>11, <4>1
      <4>3. list'[j] = list[i]
        BY <1>10, <4>2
      <4> QED
        BY <4>3
    <3> QED
      BY <3>1, <3>2
  <2>2. Kept' = Inputs \cup ToSet(printed) \cup {list'[j].id : j \in 1 .. n - 1}
    BY <1>6, <1>10, HeldIds DEF Kept, Held
  <2>3. k \notin Inputs /\ k \notin ToSet(printed)
    BY <1>2, <1>3
  <2> QED
    BY <1>2, <2>1, <2>2, <2>3
<1>15. zero_gate # k /\ one_gate # k
  <2>1. e \in 1 .. n /\ e # cur + 1 /\ list[e].id # k
    BY <1>2, <1>3, <1>9, <1>12
  <2>2. /\ list[e].table = ZERO <=> list[e].id = zero_gate
        /\ list[e].table = ONE <=> list[e].id = one_gate
    BY <1>1, <1>9, <2>1 DEF ConstantsKept
  <2>3. /\ list[cur + 1].table = ZERO <=> list[cur + 1].id = zero_gate
        /\ list[cur + 1].table = ONE <=> list[cur + 1].id = one_gate
    BY <1>1, <1>3, <1>7 DEF ConstantsKept
  <2> QED
    BY <1>7, <1>8, <1>9, <2>1, <2>2, <2>3
<1>16. k \notin Passed
  <2>1. k \notin {list[i].id : i \in 1 .. cur}
    BY <1>2, <1>3
  <2> QED
    BY <1>2, <1>3, <1>15, <2>1 DEF Passed
<1>17. Passed' = Passed
  <2>1. {list'[i].id : i \in 1 .. cur} = {list[i].id : i \in 1 .. cur}
    <3>1. \A i \in 1 .. cur : list'[i] = list[i]
      BY <1>10, <1>11
    <3> QED
      BY <3>1
  <2> QED
    BY <1>6, <2>1 DEF Passed
<1>18. /\ map' \in [Ids -> Ids] /\ map'[k] = h.id /\ \A z \in Ids \ {k} : map'[z] = map[z]
       /\ mtab' \in [Ids -> Nat] /\ mtab'[k] = h.id /\ \A z \in Ids \ {k} : mtab'[z] = mtab[z]
  <2>1. map \in [Ids -> Ids] /\ mtab \in [Ids -> Nat]
    BY <1>1 DEF TypeOK
  <2>4. h.id \in Nat
    BY <1>12
  <2>2. map' \in [Ids -> Ids] /\ map'[k] = h.id /\ \A z \in Ids \ {k} : map'[z] = map[z]
    BY <1>3, <1>5, <1>12, <2>1
  <2>3. mtab' \in [Ids -> Nat] /\ mtab'[k] = h.id /\ \A z \in Ids \ {k} : mtab'[z] = mtab[z]
    BY <1>3, <1>5, <2>1, <2>4
  <2> QED
    BY <2>2, <2>3
<1>19. TypeOK'
  <2>1. /\ pc' \in {"parse", "scan", "last", "done"} /\ next_gate' \in InpCnt - 1 .. MaxId
        /\ zero_gate' \in Known' /\ one_gate' \in Known' /\ printed' \in Seq(Ids)
    BY <1>1, <1>6, <1>13 DEF TypeOK
  <2>2. /\ cur' \in Nat /\ out_id' \in Nat
        /\ outs' \subseteq InpCnt .. next_gate' /\ wval' \in [Ids -> Bit]
    BY <1>1, <1>6 DEF TypeOK
  <2> QED
    BY <1>10, <1>18, <2>1, <2>2 DEF TypeOK
<1>20. Phases'
  BY <1>3, <1>6, <1>10 DEF Phases
<1>21. Ordered'
  <2>1. ASSUME NEW i \in 1 .. n - 1, NEW j \in 1 .. n - 1, i < j
        PROVE  list'[i].id < list'[j].id
    <3>1. /\ At(i) \in 1 .. n /\ At(j) \in 1 .. n /\ At(i) < At(j)
          /\ list'[i] = list[At(i)] /\ list'[j] = list[At(j)]
      BY <1>10, <1>11, <2>1
    <3> QED
      BY <1>1, <3>1 DEF Ordered
  <2>2. \A i \in 1 .. Len(printed), j \in 1 .. n - 1 : printed[i] < list'[j].id
    BY <1>1, <1>10, <1>11 DEF Ordered
  <2> QED
    BY <1>1, <1>6, <1>10, <2>1, <2>2 DEF Ordered
<1>22. Computes'
  <2> SUFFICES ASSUME NEW j \in 1 .. n - 1
               PROVE  /\ list'[j].id \in InpCnt .. next_gate
                      /\ list'[j].output <=> list'[j].id \in outs
                      /\ list'[j].x \in Readable /\ list'[j].y \in Readable
                      /\ ~list'[j].output => wval[list'[j].id]
                            = Apply(list'[j].table, wval[list'[j].x], wval[list'[j].y])
    BY <1>6, <1>10, <1>13 DEF Computes
  <2>1. At(j) \in 1 .. n /\ list'[j] = list[At(j)]
    BY <1>10, <1>11
  <2> QED
    BY <1>1, <2>1 DEF Computes
<1>23. Entered'
  <2> SUFFICES ASSUME NEW f \in htab
               PROVE  /\ f.table \in Table /\ f.x \in Known /\ f.y \in Known
                      /\ wval[f.id] = Apply(f.table, wval[f.x], wval[f.y])
                      /\ \E i \in 1 .. cur : /\ f.id = list'[i].id /\ f.table = list'[i].table
                                            /\ ~list'[i].output
    BY <1>6, <1>13 DEF Entered
  <2>1. PICK i \in 1 .. cur : f.id = list[i].id /\ f.table = list[i].table /\ ~list[i].output
    BY <1>1 DEF Entered
  <2>2. list'[i] = list[i]
    BY <1>10, <1>11
  <2> QED
    BY <1>1, <2>1, <2>2 DEF Entered
<1>24. CopySound'
  BY <1>1, <1>2, <1>6, <1>8, <1>12, <1>13, <1>18 DEF CopySound
<1>25. ConstantsKept'
  <2>1. /\ zero_gate # 0 => zero_gate \in Kept' /\ wval[zero_gate] = 0
        /\ one_gate # 0 => one_gate \in Kept' /\ wval[one_gate] = 1
    BY <1>1, <1>14, <1>15 DEF ConstantsKept
  <2>2. ASSUME NEW j \in 1 .. n - 1, ~list'[j].output
        PROVE  /\ list'[j].table = ZERO <=> list'[j].id = zero_gate
               /\ list'[j].table = ONE <=> list'[j].id = one_gate
    <3>1. At(j) \in 1 .. n /\ list'[j] = list[At(j)]
      BY <1>10, <1>11
    <3> QED
      BY <1>1, <2>2, <3>1 DEF ConstantsKept
  <2> QED
    BY <1>6, <1>10, <2>1, <2>2 DEF ConstantsKept
<1>26. MapTargets'
  <2>1. \A z \in Ids : map'[z] # z => z \in Known' /\ map'[z] \in Passed' \ {0}
    BY <1>1, <1>3, <1>12, <1>13, <1>17, <1>18 DEF MapTargets
  <2>2. \A z \in Known : map'[z] \in Kept' /\ wval[map'[z]] = wval[z]
    <3> SUFFICES ASSUME NEW z \in Known
                 PROVE  map'[z] \in Kept' /\ wval[map'[z]] = wval[z]
      OBVIOUS
    <3>1. CASE z = k
      BY <1>8, <1>12, <1>14, <1>18, <3>1
    <3>2. CASE z # k
      <4>1. map'[z] = map[z] /\ z \in Ids
        BY <1>2, <1>18, <3>2
      <4>2. map[z] \in Kept /\ wval[map[z]] = wval[z] /\ map[z] # k
        BY <1>1, <1>16, <3>2, <4>1 DEF MapTargets
      <4> QED
        BY <1>14, <4>1, <4>2
    <3> QED
      BY <3>1, <3>2
  <2>3. \A z \in Kept' : map'[z] = z
    BY <1>1, <1>2, <1>14, <1>18 DEF MapTargets
  <2> QED
    BY <1>6, <1>13, <2>1, <2>2, <2>3 DEF MapTargets
<1> QED
  BY <1>19, <1>20, <1>21, <1>22, <1>23, <1>24, <1>25, <1>26 DEF IInv

\* What is left of the list goes to the file, after what is there.
LEMMA PrintListKeeps ==
  ASSUME IInv, PrintList
  PROVE  IInv'
<1> DEFINE n == Len(list)
           m == Len(printed)
           ids == IdsOf(list)
<1>1. /\ TypeOK /\ Phases /\ Ordered /\ Computes /\ Entered /\ CopySound
      /\ ConstantsKept /\ MapTargets
  BY DEF IInv
<1>2. /\ Kept \subseteq Known /\ Known \subseteq Ids /\ Readable \subseteq Known
      /\ Kept = Inputs \cup ToSet(printed) \cup {list[i].id : i \in 1 .. n}
      /\ ToSet(printed) = {printed[i] : i \in 1 .. m}
      /\ n \in Nat /\ m \in Nat /\ next_gate \in Int /\ InpCnt \in Nat /\ InpCnt > 0
      /\ \A i \in 1 .. n : list[i] \in Gate
  BY <1>1, KeptKnown
<1>3. /\ pc \in {"scan", "last"} /\ cur = n
      /\ printed' = printed \o ids /\ list' = << >>
      /\ pc' = (IF pc = "last" THEN "done" ELSE "parse")
      /\ cur' = 0 /\ out_id' = 0 /\ htab' = {} /\ mtab' = Unmapped(Ids)
      /\ UNCHANGED <<next_gate, zero_gate, one_gate, map, outs, wval>>
  <2>1. cur \in 1 .. n /\ cur >= n
    BY <1>1 DEF Phases, PrintList
  <2> QED
    BY <1>2, <2>1 DEF PrintList
<1>4. ids \in Seq(Ids) /\ Len(ids) = n /\ \A i \in 1 .. n : ids[i] = list[i].id
  <2>1. \A i \in 1 .. n : list[i].id \in Ids
    BY <1>2 DEF Gate
  <2>2. ids = [i \in 1 .. n |-> list[i].id]
    BY DEF IdsOf
  <2> HIDE DEF Ids, ids
  <2> QED
    BY <1>2, <2>1, <2>2
<1> HIDE DEF ids
<1>5. /\ printed' \in Seq(Ids) /\ Len(printed') = m + n
      /\ \A i \in 1 .. m : printed'[i] = printed[i]
      /\ \A i \in 1 .. n : printed'[m + i] = list[i].id
      /\ \A i \in 1 .. m + n : i \in 1 .. m \/ (i - m \in 1 .. n /\ i = m + (i - m))
  <2>1. printed \in Seq(Ids)
    BY <1>1 DEF TypeOK
  <2> HIDE DEF Ids
  <2>2. /\ printed' \in Seq(Ids) /\ Len(printed') = m + n
        /\ \A i \in 1 .. m + n : printed'[i] = IF i <= m THEN printed[i] ELSE ids[i - m]
    <3> DEFINE both == printed \o ids
    <3>1. /\ both \in Seq(Ids) /\ Len(both) = m + Len(ids)
          /\ \A i \in 1 .. m + Len(ids) : both[i] = IF i <= m THEN printed[i] ELSE ids[i - m]
      BY <1>4, <2>1, ConcatProperties
    <3>2. printed' = both /\ Len(ids) = n
      BY <1>3, <1>4
    <3> HIDE DEF both
    <3> QED
      BY <3>1, <3>2
  <2>3. ASSUME NEW i \in 1 .. n
        PROVE  printed'[m + i] = list[i].id
    <3>1. m + i \in 1 .. m + n /\ ~(m + i <= m) /\ (m + i) - m = i
      BY <1>2
    <3> QED
      BY <1>4, <2>2, <3>1
  <2>4. \A i \in 1 .. m : printed'[i] = printed[i]
    BY <1>2, <2>2
  <2>5. \A i \in 1 .. m + n : i \in 1 .. m \/ (i - m \in 1 .. n /\ i = m + (i - m))
    BY <1>2
  <2> QED
    BY <2>2, <2>3, <2>4, <2>5
<1>6. ToSet(printed') = ToSet(printed) \cup {list[i].id : i \in 1 .. n}
  <2>1. DOMAIN printed' = 1 .. m + n
    <3> HIDE DEF Ids
    <3> QED
      BY <1>5
  <2>2. ToSet(printed') = {printed'[i] : i \in 1 .. m + n}
    BY <2>1 DEF ToSet
  <2>3. ASSUME NEW i \in 1 .. m + n
        PROVE  printed'[i] \in ToSet(printed) \cup {list[j].id : j \in 1 .. n}
    <3>1. CASE i \in 1 .. m
      BY <1>2, <1>5, <3>1
    <3>2. CASE i \notin 1 .. m
      <4>1. i - m \in 1 .. n /\ i = m + (i - m)
        BY <1>5, <3>2
      <4>2. printed'[i] = list[i - m].id
        BY <1>5, <4>1
      <4> QED
        BY <4>1, <4>2
    <3> QED
      BY <3>1, <3>2
  <2>4. ASSUME NEW i \in 1 .. m
        PROVE  printed[i] \in {printed'[j] : j \in 1 .. m + n}
    <3>1. i \in 1 .. m + n
      BY <1>2
    <3> QED
      BY <1>5, <3>1
  <2>5. ASSUME NEW i \in 1 .. n
        PROVE  list[i].id \in {printed'[j] : j \in 1 .. m + n}
    <3>1. m + i \in 1 .. m + n
      BY <1>2
    <3> QED
      BY <1>5, <3>1
  <2> QED
    BY <1>2, <2>2, <2>3, <2>4, <2>5
<1>7. Known' = Known /\ Readable' = Readable
  BY <1>3 DEF Known, Readable
<1>8. Len(list') = 0 /\ {list'[i].id : i \in 1 .. 0} = {}
  BY <1>3
<1>9. Kept' = Kept /\ Passed' = Passed
  <2>1. Held' = {}
    BY <1>8, HeldIds DEF Held
  <2>2. Kept' = Kept
    BY <1>2, <1>6, <2>1 DEF Kept
  <2>3. Passed = ToSet(printed) \cup {list[i].id : i \in 1 .. n} \cup {zero_gate, one_gate}
    BY <1>3 DEF Passed
  <2>4. Passed' = ToSet(printed') \cup {zero_gate, one_gate}
    BY <1>3, <1>8 DEF Passed
  <2> QED
    BY <1>6, <2>2, <2>3, <2>4
<1>10. TypeOK'
  <2>1. /\ pc' \in {"parse", "scan", "last", "done"} /\ next_gate' \in InpCnt - 1 .. MaxId
        /\ zero_gate' \in Known' /\ one_gate' \in Known'
    BY <1>1, <1>3, <1>7 DEF TypeOK
  <2>2. cur' \in Nat /\ out_id' \in Nat /\ list' \in Seq(Gate)
    BY <1>3
  <2>3. outs' \subseteq InpCnt .. next_gate' /\ wval' \in [Ids -> Bit] /\ map' \in [Ids -> Ids]
    BY <1>1, <1>3 DEF TypeOK
  <2>4. mtab' \in [Ids -> Nat]
    BY <1>3 DEF Unmapped
  <2> QED
    BY <1>5, <2>1, <2>2, <2>3, <2>4 DEF TypeOK
<1>11. Phases'
  BY <1>3 DEF Phases
<1>12. Ordered'
  <2>1. ASSUME NEW i \in 1 .. m + n, NEW j \in 1 .. m + n, i < j
        PROVE  printed'[i] < printed'[j]
    <3>1. CASE i \in 1 .. m /\ j \in 1 .. m
      BY <1>1, <1>5, <2>1, <3>1 DEF Ordered
    <3>2. CASE i \in 1 .. m /\ j \notin 1 .. m
      <4>1. j - m \in 1 .. n /\ printed'[j] = list[j - m].id
        BY <1>5, <3>2
      <4> QED
        BY <1>1, <1>5, <3>2, <4>1 DEF Ordered
    <3>3. CASE i \notin 1 .. m
      <4>1. j \notin 1 .. m
        BY <1>2, <2>1, <3>3
      <4>2. /\ i - m \in 1 .. n /\ printed'[i] = list[i - m].id
            /\ j - m \in 1 .. n /\ printed'[j] = list[j - m].id
        BY <1>5, <3>3, <4>1
      <4>3. i - m < j - m
        BY <1>2, <2>1
      <4> QED
        BY <1>1, <4>2, <4>3 DEF Ordered
    <3> QED
      BY <3>1, <3>2, <3>3
  <2>2. ASSUME NEW i \in 1 .. m + n
        PROVE  printed'[i] \in InpCnt .. next_gate
    <3>1. CASE i \in 1 .. m
      BY <1>1, <1>5, <3>1 DEF Ordered
    <3>2. CASE i \notin 1 .. m
      <4>1. i - m \in 1 .. n /\ printed'[i] = list[i - m].id
        BY <1>5, <3>2
      <4> QED
        BY <1>1, <4>1 DEF Computes
    <3> QED
      BY <3>1, <3>2
  <2> QED
    BY <1>3, <1>5, <1>8, <2>1, <2>2 DEF Ordered
<1>13. Computes' /\ Entered'
  BY <1>3, <1>8 DEF Computes, Entered
<1>14. CopySound'
  BY <1>2, <1>3, <1>7 DEF CopySound, Unmapped
<1>15. ConstantsKept'
  BY <1>1, <1>3, <1>8, <1>9 DEF ConstantsKept
<1>16. MapTargets'
  BY <1>1, <1>3, <1>7, <1>9 DEF MapTargets
<1> QED
  BY <1>10, <1>11, <1>12, <1>13, <1>14, <1>15, <1>16 DEF IInv

(***************************************************************************)
(* The theorems.                                                           *)
(***************************************************************************)

LEMMA InitHolds ==
  ASSUME Init
  PROVE  IInv
<1>1. PICK v \in [Inputs -> Bit] : wval = [x \in Ids |-> IF x \in Inputs THEN v[x] ELSE 0]
  BY DEF Init
<1>2. wval \in [Ids -> Bit]
  BY <1>1 DEF Bit
<1>3. /\ pc = "parse" /\ next_gate = InpCnt - 1 /\ zero_gate = 0 /\ one_gate = 0
      /\ list = << >> /\ cur = 0 /\ out_id = 0 /\ htab = {} /\ outs = {} /\ printed = << >>
      /\ mtab = Unmapped(Ids) /\ map = Unmapped(Ids)
  BY DEF Init
<1>4. Known = Inputs /\ Readable = Inputs /\ Inputs \subseteq Ids /\ 0 \in Inputs
  BY <1>3 DEF Known, Readable
<1>5. mtab \in [Ids -> Nat] /\ map \in [Ids -> Ids] /\ \A x \in Ids : mtab[x] = x /\ map[x] = x
  BY <1>3 DEF Unmapped
<1>6. Len(list) = 0 /\ Len(printed) = 0
  BY <1>3
<1>7. Inputs \subseteq Kept
  BY DEF Kept
<1>8. Kept = Inputs
  <2>1. Held = {}
    BY <1>6, HeldIds DEF Held
  <2>2. ToSet(printed) = {}
    BY <1>3 DEF ToSet
  <2> QED
    BY <2>1, <2>2 DEF Kept
<1>9. TypeOK
  <2>1. next_gate \in InpCnt - 1 .. MaxId
    BY <1>3
  <2>2. list \in Seq(Gate) /\ printed \in Seq(Ids)
    BY <1>3
  <2> QED
    BY <1>2, <1>3, <1>4, <1>5, <2>1, <2>2 DEF TypeOK
<1>10. Phases /\ Ordered /\ Computes /\ Entered
  BY <1>3, <1>6 DEF Phases, Ordered, Computes, Entered
<1>11. CopySound
  BY <1>4, <1>5 DEF CopySound
<1>12. ConstantsKept
  BY <1>3, <1>6 DEF ConstantsKept
<1>13. MapTargets
  BY <1>4, <1>5, <1>8 DEF MapTargets
<1> QED
  BY <1>9, <1>10, <1>11, <1>12, <1>13 DEF IInv

LEMMA StutterKeeps ==
  ASSUME IInv, UNCHANGED vars
  PROVE  IInv'
<1>1. /\ UNCHANGED <<pc, next_gate, zero_gate, one_gate, list, cur, out_id, htab, mtab, map>>
      /\ UNCHANGED <<printed, outs, wval>>
  BY DEF vars
<1>2. Known' = Known /\ Readable' = Readable /\ Kept' = Kept /\ Passed' = Passed
  BY <1>1 DEF Known, Readable, Kept, Held, Passed
<1>3. TypeOK' /\ Phases' /\ Ordered'
  BY <1>1, <1>2 DEF IInv, TypeOK, Phases, Ordered
<1>4. Computes' /\ Entered' /\ CopySound'
  BY <1>1, <1>2 DEF IInv, Computes, Entered, CopySound
<1>5. ConstantsKept' /\ MapTargets'
  BY <1>1, <1>2 DEF IInv, ConstantsKept, MapTargets
<1> QED
  BY <1>3, <1>4, <1>5 DEF IInv

\* The invariant holds of every program, window and input: the gate list, the
\* table of gates seen, the scan's copy of the map, the map file and the gate
\* file agree after every call of add_gate and every turn of
\* remove_redundant_gates.
THEOREM RedundantGatesCorrect == Spec => []IInv
<1>1. ASSUME IInv, Next
      PROVE  IInv'
  <2>1. CASE \E p \in Pairs \cap (Readable \X Readable), t \in Tables :
               AddGate(p[1], p[2], t) \/ AddConstant(p[1], p[2], t)
    <3>1. PICK p \in Pairs \cap (Readable \X Readable), t \in Tables :
                 AddGate(p[1], p[2], t) \/ AddConstant(p[1], p[2], t)
      BY <2>1
    <3>2. p[1] \in Readable /\ p[2] \in Readable
      BY <3>1
    <3> QED
      BY <1>1, <3>1, <3>2, AddGateKeeps, AddConstantKeeps
  <2>2. CASE \E x \in Readable : AddOutput(x)
    BY <1>1, <2>2, AddOutputKeeps
  <2>3. CASE EndOfInput
    BY <1>1, <2>3, EndOfInputKeeps
  <2>4. CASE ScanOutput
    BY <1>1, <2>4, ScanOutputKeeps
  <2>5. CASE ScanNew
    BY <1>1, <2>5, ScanNewKeeps
  <2>6. CASE ScanRedundant
    BY <1>1, <2>6, ScanRedundantKeeps
  <2>7. CASE PrintList
    BY <1>1, <2>7, PrintListKeeps
  <2> QED
    BY <1>1, <2>1, <2>2, <2>3, <2>4, <2>5, <2>6, <2>7 DEF Next
<1> QED
  BY <1>1, InitHolds, StutterKeeps, PTL DEF Spec

\* Whatever gates the parser adds and drops, and whatever the inputs are, the map
\* file replaces a wire only by one of the same value.
THEOREM MapSoundAlways == Spec => []MapSound
<1>1. IInv => MapSound
  <2> SUFFICES ASSUME IInv
               PROVE  MapSound
    OBVIOUS
  <2>1. Readable \subseteq Known
    BY KeptKnown DEF IInv
  <2> QED
    BY <2>1 DEF IInv, MapTargets, MapSound
<1> QED
  BY <1>1, RedundantGatesCorrect, PTL

\* The entries of the map file never form a chain, over any number of windows and
\* constants: one lookup per input, as the next pass does, is enough.
THEOREM OneLookupAlways == Spec => []OneLookup
<1>1. IInv => OneLookup
  <2> SUFFICES ASSUME IInv
               PROVE  OneLookup
    OBVIOUS
  <2>1. Readable \subseteq Known
    BY KeptKnown DEF IInv
  <2> QED
    BY <2>1 DEF IInv, MapTargets, OneLookup
<1> QED
  BY <1>1, RedundantGatesCorrect, PTL

\* Every wire leads to an input or to a gate that is printed or will be; once the
\* file is complete, to one that is in it.
THEOREM ResolvesAlways == Spec => []Resolves
<1>1. IInv => Resolves
  <2> SUFFICES ASSUME IInv, NEW x \in Readable
               PROVE  \/ map[x] \in Inputs \cup ToSet(printed)
                      \/ pc # "done" /\ map[x] \in Held
    BY DEF Resolves, Held
  <2>1. x \in Known
    BY KeptKnown DEF IInv
  <2>2. map[x] \in Inputs \cup ToSet(printed) \cup Held
    BY <2>1 DEF IInv, MapTargets, Kept
  <2>3. pc = "done" => Held = {}
    BY HeldIds DEF IInv, Phases, Held
  <2> QED
    BY <2>2, <2>3
<1> QED
  BY <1>1, RedundantGatesCorrect, PTL

\* The gates come out in the order of their ids, with those of all windows.
THEOREM InOrderAlways == Spec => []InOrder
<1>1. IInv => InOrder
  BY DEF IInv, Ordered, InOrder
<1> QED
  BY <1>1, RedundantGatesCorrect, PTL
=============================================================================
