--------------------------- MODULE BackendProofs ---------------------------
(***************************************************************************)
(* The back end, proved for gate files of every length and for either      *)
(* store.                                                                  *)
(*                                                                         *)
(* deadgates.cpp numbers the gates it emits without gaps, lets them read   *)
(* only what stands before them, and emits nothing no emitted gate reads,  *)
(* although it ranks the live wires in one loop and counts them in the     *)
(* next, and although the shared cache may answer a lookup of the map of   *)
(* the pass before with one of its own new numbers (DeadInv).              *)
(*                                                                         *)
(* binary.cpp and generate_count.cpp count every read and write every gate *)
(* so that its readers have it back (BinaryInv).  remove_hash then takes a *)
(* slot from a wire at its last read and no sooner, and its second walk    *)
(* needs no more slots than the header of the first one has (SlotsInv).    *)
(* That it finds every wire it reads, but after a misled lookup, goes back *)
(* to the third pass: it emits the gates of the file under new numbers     *)
(* (Faithful).                                                             *)
(*                                                                         *)
(* So an emitted gate has the value of the gate it was (NewValues), the    *)
(* outputs come in the same order, and a run of either binary file has, in *)
(* every slot a gate reads, the value of the wire that is meant (SoFar):   *)
(* both files compute what the file the back end was given computes.       *)
(***************************************************************************)
EXTENDS Backend, FiniteSetTheorems, WellFoundedInduction, TLAPS

(***************************************************************************)
(* The whole chain takes the steps of deadgates.cpp first.                 *)
(***************************************************************************)

LEMMA Chain == SpecAll => Spec
<1>1. InitAll => Init
  BY DEF InitAll
<1>2. [NextAll]_vars_all => [Next]_vars
  BY DEF NextAll, Dead, Write, RemoveHash, vars_all
<1> QED
  BY <1>1, <1>2, PTL DEF SpecAll, Spec

(***************************************************************************)
(* deadgates.cpp: the inductive invariant.                                 *)
(***************************************************************************)

DeadTypes ==
  /\ WellFormed(file) /\ file # << >>
  /\ pc \in {"mark", "number", "emit", "done", "aborted"}
  /\ next_id \in 0 .. Len(file) /\ pos \in 0 .. Len(file)
  /\ live \subseteq Ids /\ one_out \in BOOLEAN
  /\ newmap \in [Ids -> Ids]
  /\ cnt \in Nat /\ out_file \in Seq(Gate)

\* What the backward walk has marked: the outputs, with a gate all it reads, and
\* nothing without a gate that reads it.
Marked ==
  /\ \A i \in next_id + 1 .. Len(file) :
       /\ file[i].output => file[i].id \in live
       /\ file[i].id \in live => {file[i].x, file[i].y} \subseteq live
  /\ \A q \in live : \E i \in next_id + 1 .. Len(file) :
       \/ file[i].output /\ q = file[i].id
       \/ file[i].id \in live /\ q \in {file[i].x, file[i].y}

\* How far the pass is.  It stops in its first loop or not at all.
Phases ==
  /\ circuit_size = IF next_id = Len(file) THEN 0 ELSE file[Len(file)].id + 1
  /\ next_id < Len(file) /\ file[Len(file)].output => one_out
  /\ pc = "aborted" => ~file[Len(file)].output
  /\ pc \in {"number", "emit", "done"} => next_id = 0
  /\ pc \notin {"emit", "done"} =>
       pos = 0 /\ out_file = << >> /\ cnt = input_cnt /\ cache = {}
  /\ pc = "done" => pos = Len(file)
  /\ pc \in {"emit", "done"} =>
       newmap = [q \in Ids |-> IF q \in Numbered THEN NumberOf(q) ELSE q]

\* The live gates among the first n.
LiveOf(n) == {q \in live : \E i \in 1 .. n : q = file[i].id}

\* One of the gates in out reads q.
IsRead(out, q) == \E k \in 1 .. Len(out) : q \in {out[k].x, out[k].y}

\* The counter and the rank of the gate agree; a wire the cache knows has been
\* read under its new number, so that a lookup it misleads leaves no gate unread.
Emitted ==
  pc \in {"emit", "done"} =>
    /\ cnt = input_cnt + Len(out_file) /\ Len(out_file) = Cardinality(LiveOf(pos))
    /\ \A k \in 1 .. Len(out_file) :
         /\ out_file[k].id = input_cnt + k
         /\ {out_file[k].x, out_file[k].y} \subseteq 0 .. (input_cnt + k - 1)
         /\ out_file[k].output \/ \E i \in 1 .. pos : /\ file[i].id \in live /\ ~file[i].output
                                                      /\ out_file[k].id = newmap[file[i].id]
    /\ \A i \in 1 .. pos : file[i].id \in live =>
         \A w \in {file[i].x, file[i].y} : w \in Numbered => IsRead(out_file, newmap[w])
    /\ \A e \in cache : /\ e \in Ids \X Ids /\ e[1] \in Numbered /\ e[2] = newmap[e[1]]
                        /\ IsRead(out_file, newmap[e[1]])

DeadInv == DeadTypes /\ Marked /\ Phases /\ Emitted

(***************************************************************************)
(* What a gate file is.                                                    *)
(***************************************************************************)

\* The fields of a gate.
LEMMA GateFacts ==
  ASSUME NEW g \in Gate
  PROVE  /\ g.id \in Ids /\ g.x \in Ids /\ g.y \in Ids
         /\ g.output \in BOOLEAN /\ g.party \in {0, 1} /\ g.table \in Table
BY DEF Gate

\* The numbers of wires.
LEMMA Numbers ==
  /\ InpCnt \in Nat /\ InpCnt > 0 /\ MaxId \in Nat /\ input_cnt \in Nat
  /\ InpCnt = input_cnt + 1
  /\ \A q \in Ids : q \in Nat /\ q <= MaxId
  /\ \A q \in Nat : q \in Inputs <=> q <= input_cnt
BY FilesAssumption DEF input_cnt, Ids, Inputs

\* Ids ascend behind the inputs, and a gate reads inputs and earlier gates.
LEMMA FileFacts ==
  ASSUME WellFormed(file), file # << >>
  PROVE  /\ Len(file) \in Nat /\ Len(file) > 0
         /\ \A i \in 1 .. Len(file) :
              /\ file[i] \in Gate
              /\ file[i].id \in Nat /\ file[i].id > input_cnt
              /\ file[i].output => file[i].y = 0
              /\ \A j \in 1 .. (i - 1) : file[j].id < file[i].id
              /\ \A w \in {file[i].x, file[i].y} :
                   /\ w \in Ids /\ w < file[i].id
                   /\ w <= input_cnt \/ \E j \in 1 .. (i - 1) : w = file[j].id
<1>1. file \in Seq(Gate)
  BY DEF WellFormed
<1>2. Len(file) \in Nat /\ Len(file) > 0
  <2> HIDE DEF WellFormed
  <2> QED
    BY <1>1
<1>3. ASSUME NEW i \in 1 .. Len(file)
      PROVE  /\ file[i] \in Gate
             /\ file[i].id \in Nat /\ file[i].id > input_cnt
             /\ file[i].output => file[i].y = 0
             /\ \A j \in 1 .. (i - 1) : file[j].id < file[i].id
             /\ \A w \in {file[i].x, file[i].y} :
                  /\ w \in Ids /\ w < file[i].id
                  /\ w <= input_cnt \/ \E j \in 1 .. (i - 1) : w = file[j].id
  <2>1. file[i] \in Gate
    BY <1>1
  <2>2. file[i].id \in Ids /\ file[i].x \in Ids /\ file[i].y \in Ids
    BY <2>1, GateFacts
  <2>3. file[i].id \in Nat /\ file[i].x \in Nat /\ file[i].y \in Nat
    BY <2>2, Numbers
  <2>4. /\ file[i].id \notin Inputs
        /\ \A j \in 1 .. (i - 1) : file[j].id < file[i].id
        /\ file[i].output => file[i].y = 0
    BY DEF WellFormed
  <2>5. ASSUME NEW w \in {file[i].x, file[i].y}
        PROVE  w \in Inputs \/ \E j \in 1 .. (i - 1) : w = file[j].id
    BY DEF WellFormed
  <2>6. file[i].id > input_cnt
    BY <2>3, <2>4, Numbers
  <2>7. ASSUME NEW w \in {file[i].x, file[i].y}
        PROVE  /\ w \in Ids /\ w < file[i].id
               /\ w <= input_cnt \/ \E j \in 1 .. (i - 1) : w = file[j].id
    <3>1. w \in Ids /\ w \in Nat
      BY <2>2, <2>3
    <3>2. w \in Inputs => w <= input_cnt
      BY <3>1, Numbers
    <3>3. w <= input_cnt => w < file[i].id
      BY <2>3, <2>6, <3>1, Numbers
    <3> QED
      BY <2>4, <2>5, <3>1, <3>2, <3>3
  <2> QED
    BY <2>1, <2>3, <2>4, <2>6, <2>7
<1> QED
  BY <1>2, <1>3

(***************************************************************************)
(* New numbers are ranks.                                                  *)
(***************************************************************************)

\* They are above those of the inputs, no higher than the old ones, and in order.
LEMMA Ranks ==
  ASSUME live \subseteq Ids
  PROVE  /\ IsFiniteSet(live) /\ IsFiniteSet(Numbered)
         /\ \A q \in Numbered : /\ q \in Nat /\ NumberOf(q) \in Nat
                                /\ input_cnt < NumberOf(q) /\ NumberOf(q) <= q
         /\ \A p, q \in Numbered : p < q => NumberOf(p) < NumberOf(q)
<1> DEFINE Low(q) == {r \in Numbered : r <= q}
<1>1. IsFiniteSet(live) /\ IsFiniteSet(Numbered)
  <2>1. IsFiniteSet(Ids)
    BY Numbers, FS_Interval DEF Ids
  <2>2. live \in SUBSET Ids /\ Numbered \in SUBSET live
    BY DEF Numbered
  <2>3. IsFiniteSet(live)
    BY <2>1, <2>2, FS_Subset
  <2> QED
    BY <2>2, <2>3, FS_Subset
<1>2. \A r \in Numbered : r \in Nat /\ input_cnt < r
  BY Numbers DEF Numbered
<1>3. ASSUME NEW q \in Numbered
      PROVE  /\ IsFiniteSet(Low(q)) /\ Cardinality(Low(q)) \in Nat
             /\ 1 <= Cardinality(Low(q)) /\ Cardinality(Low(q)) <= q - input_cnt
  <2>1. Low(q) \in SUBSET Numbered
    OBVIOUS
  <2>2. IsFiniteSet(Low(q))
    BY <1>1, <2>1, FS_Subset
  <2>3. Cardinality(Low(q)) \in Nat
    BY <2>2, FS_CardinalityType
  <2>4. Cardinality(Low(q)) # 0
    <3>1. q \in Low(q)
      BY <1>2
    <3> QED
      BY <2>2, <3>1, FS_EmptySet
  <2>5. Cardinality(Low(q)) <= q - input_cnt
    <3>1. input_cnt + 1 \in Int /\ q \in Int /\ input_cnt \in Nat /\ input_cnt < q
      BY <1>2, Numbers
    <3>2. /\ IsFiniteSet((input_cnt + 1) .. q)
          /\ Cardinality((input_cnt + 1) .. q) = q - input_cnt
      <4>1. /\ IsFiniteSet((input_cnt + 1) .. q)
            /\ Cardinality((input_cnt + 1) .. q)
                 = IF input_cnt + 1 > q THEN 0 ELSE q - (input_cnt + 1) + 1
        BY <3>1, FS_Interval
      <4> QED
        BY <3>1, <4>1
    <3>3. Low(q) \in SUBSET ((input_cnt + 1) .. q)
      <4> SUFFICES ASSUME NEW r \in Low(q)
                   PROVE  r \in (input_cnt + 1) .. q
        OBVIOUS
      <4>1. r \in Nat /\ input_cnt < r /\ r <= q
        BY <1>2
      <4> QED
        BY <3>1, <4>1
    <3>4. Cardinality(Low(q)) <= Cardinality((input_cnt + 1) .. q)
      BY <3>2, <3>3, FS_Subset
    <3> QED
      BY <3>2, <3>4
  <2> QED
    BY <2>2, <2>3, <2>4, <2>5
<1>4. ASSUME NEW p \in Numbered, NEW q \in Numbered, p < q
      PROVE  Cardinality(Low(p)) < Cardinality(Low(q))
  <2>1. p \in Nat /\ q \in Nat /\ \A r \in Numbered : r \in Nat
    BY <1>2
  <2>2. q \notin Low(p) /\ Low(p) \cup {q} \in SUBSET Low(q)
    <3>1. q \notin Low(p)
      BY <1>4, <2>1
    <3>2. \A r \in Numbered : r <= p => r <= q
      BY <1>4, <2>1
    <3>3. ASSUME NEW r \in Low(p) \cup {q}
          PROVE  r \in Low(q)
      BY <2>1, <3>2, <3>3
    <3> QED
      BY <3>1, <3>3
  <2>3. /\ IsFiniteSet(Low(p)) /\ Cardinality(Low(p)) \in Nat
        /\ IsFiniteSet(Low(q)) /\ Cardinality(Low(q)) \in Nat
    BY <1>3
  <2> HIDE DEF Low
  <2>4. Cardinality(Low(p) \cup {q}) = Cardinality(Low(p)) + 1
    BY <2>2, <2>3, FS_AddElement
  <2>5. Cardinality(Low(p) \cup {q}) <= Cardinality(Low(q))
    BY <2>2, <2>3, FS_Subset
  <2> QED
    BY <2>3, <2>4, <2>5
<1>5. \A q : NumberOf(q) = input_cnt + Cardinality(Low(q))
  BY DEF NumberOf
<1> HIDE DEF Low
<1>6. ASSUME NEW q \in Numbered
      PROVE  /\ q \in Nat /\ NumberOf(q) \in Nat
             /\ input_cnt < NumberOf(q) /\ NumberOf(q) <= q
  BY <1>2, <1>3, <1>5, Numbers
<1>7. ASSUME NEW p \in Numbered, NEW q \in Numbered, p < q
      PROVE  NumberOf(p) < NumberOf(q)
  <2>1. Cardinality(Low(p)) \in Nat /\ Cardinality(Low(q)) \in Nat
    BY <1>3
  <2> QED
    BY <1>4, <1>5, <1>7, <2>1, Numbers
<1> QED
  BY <1>1, <1>6, <1>7

\* A wire the map of the pass has no number for keeps its own; no new number is
\* above the old one, and the inputs keep theirs.
LEMMA Renaming ==
  ASSUME live \subseteq Ids,
         newmap = [q \in Ids |-> IF q \in Numbered THEN NumberOf(q) ELSE q]
  PROVE  /\ \A q \in Ids : newmap[q] \in Ids /\ newmap[q] \in Nat /\ newmap[q] <= q
         /\ \A q \in Numbered : q \in Ids /\ newmap[q] = NumberOf(q)
         /\ \A q \in Ids : q \notin Numbered => newmap[q] = q
         /\ \A q \in Ids : q <= input_cnt => newmap[q] = q
<1>1. \A q \in Numbered : q \in Ids
  BY DEF Numbered
<1>2. \A q \in Numbered : newmap[q] = NumberOf(q)
  BY <1>1
<1>3. \A q \in Ids : q \notin Numbered => newmap[q] = q
  OBVIOUS
<1>4. ASSUME NEW q \in Ids
      PROVE  newmap[q] \in Ids /\ newmap[q] \in Nat /\ newmap[q] <= q
  <2>1. q \in Nat /\ q <= MaxId /\ MaxId \in Nat
    BY Numbers
  <2>2. CASE q \in Numbered
    <3>1. NumberOf(q) \in Nat /\ NumberOf(q) <= q
      BY <2>2, Ranks
    <3> QED
      BY <1>2, <2>1, <2>2, <3>1 DEF Ids
  <2>3. CASE q \notin Numbered
    BY <1>3, <2>1, <2>3
  <2> QED
    BY <2>2, <2>3
<1>5. \A q \in Ids : q <= input_cnt => q \notin Numbered
  BY Numbers DEF Numbered
<1> QED
  BY <1>1, <1>2, <1>3, <1>4, <1>5

(***************************************************************************)
(* Marking and numbering.                                                  *)
(***************************************************************************)

\* Nothing is marked, numbered or emitted.
LEMMA InitDead == Init => DeadInv
<1> SUFFICES ASSUME Init
             PROVE  DeadInv
  OBVIOUS
<1> USE DEF Init
<1>1. WellFormed(file) /\ file # << >>
  BY FilesAssumption
<1>2. Len(file) \in Nat /\ Len(file) > 0
  BY <1>1, FileFacts
<1>3. DeadTypes
  <2>1. next_id \in 0 .. Len(file) /\ pos \in 0 .. Len(file)
    BY <1>2
  <2>2. newmap \in [Ids -> Ids]
    BY DEF Unmapped
  <2>3. cnt \in Nat /\ out_file \in Seq(Gate)
    BY Numbers
  <2> QED
    BY <1>1, <2>1, <2>2, <2>3 DEF DeadTypes
<1>4. next_id + 1 .. Len(file) = {}
  BY <1>2
<1>5. Marked
  BY <1>4 DEF Marked
<1>6. Phases
  BY <1>2 DEF Phases
<1>7. Emitted
  BY DEF Emitted
<1> QED
  BY <1>3, <1>5, <1>6, <1>7 DEF DeadInv

\* A gate nothing behind it needs is passed over, any other marked with its inputs.
LEMMA MarkGateDead ==
  ASSUME DeadInv, MarkGate
  PROVE  DeadInv'
<1> DEFINE g == file[next_id]
<1>1. /\ pc = "mark" /\ next_id > 0 /\ next_id' = next_id - 1
      /\ circuit_size' = IF circuit_size = 0 THEN g.id + 1 ELSE circuit_size
      /\ UNCHANGED <<store_type, file, pos, newmap, cache, misled, cnt, out_file>>
  BY DEF MarkGate
<1>2. IF Needed(g)
      THEN live' = live \cup {g.id, g.x, g.y} /\ one_out' = (one_out \/ g.output) /\ pc' = pc
      ELSE pc' = (IF one_out THEN pc ELSE "aborted") /\ UNCHANGED <<live, one_out>>
  BY DEF MarkGate, MarkTarget
<1>3. WellFormed(file) /\ file # << >> /\ next_id \in 0 .. Len(file)
  BY DEF DeadInv, DeadTypes
<1>4. /\ Len(file) \in Nat /\ Len(file) > 0 /\ next_id \in 1 .. Len(file)
      /\ next_id' \in 0 .. Len(file) /\ next_id' < Len(file)
  BY <1>1, <1>3, FileFacts
<1>5. /\ g.id \in Ids /\ g.x \in Ids /\ g.y \in Ids /\ g.output \in BOOLEAN /\ g.id \in Nat
      /\ g.x < g.id /\ g.y < g.id
  BY <1>3, <1>4, FileFacts, GateFacts
<1>6. DeadTypes'
  <2>1. live' \subseteq Ids /\ one_out' \in BOOLEAN
    <3>1. CASE Needed(g)
      BY <1>2, <1>5, <3>1 DEF DeadInv, DeadTypes
    <3>2. CASE ~Needed(g)
      BY <1>2, <3>2 DEF DeadInv, DeadTypes
    <3> QED
      BY <3>1, <3>2
  <2>2. pc' \in {"mark", "number", "emit", "done", "aborted"}
    BY <1>1, <1>2
  <2> QED
    BY <1>1, <1>4, <2>1, <2>2 DEF DeadInv, DeadTypes
<1>7. Marked'
  <2>1. /\ \A i \in next_id + 1 .. Len(file) :
             /\ file[i].output => file[i].id \in live
             /\ file[i].id \in live => {file[i].x, file[i].y} \subseteq live
        /\ \A q \in live : \E i \in next_id + 1 .. Len(file) :
             \/ file[i].output /\ q = file[i].id
             \/ file[i].id \in live /\ q \in {file[i].x, file[i].y}
    BY DEF DeadInv, Marked
  <2>2. \A i \in next_id .. Len(file) : i = next_id \/ i \in next_id + 1 .. Len(file)
    BY <1>4
  <2>3. /\ next_id \in next_id .. Len(file)
        /\ \A i \in next_id + 1 .. Len(file) : i \in next_id .. Len(file)
        /\ next_id' + 1 = next_id
    BY <1>1, <1>4
\* A gate behind this one is none of those it marks.
  <2>4. ASSUME NEW i \in next_id + 1 .. Len(file), file[i].id \in {g.id, g.x, g.y}
        PROVE  FALSE
    <3>1. i \in 1 .. Len(file) /\ next_id \in 1 .. (i - 1)
      BY <1>4
    <3>2. g.id < file[i].id /\ file[i].id \in Nat
      BY <1>3, <3>1, FileFacts
    <3>3. g.x \in Nat /\ g.y \in Nat
      BY <1>5, Numbers
    <3> QED
      BY <1>5, <2>4, <3>2, <3>3
  <2>5. CASE Needed(g)
    <3>1. live' = live \cup {g.id, g.x, g.y}
      BY <1>2, <2>5
    <3>2. ASSUME NEW i \in next_id .. Len(file)
          PROVE  /\ file[i].output => file[i].id \in live'
                 /\ file[i].id \in live' => {file[i].x, file[i].y} \subseteq live'
      <4>1. CASE i = next_id
        BY <3>1, <4>1
      <4>2. CASE i \in next_id + 1 .. Len(file)
        <5>1. file[i].id \in live' => file[i].id \in live
          BY <2>4, <3>1, <4>2
        <5> QED
          BY <2>1, <3>1, <4>2, <5>1
      <4> QED
        BY <2>2, <4>1, <4>2
    <3>3. ASSUME NEW q \in live'
          PROVE  \E i \in next_id .. Len(file) :
                    \/ file[i].output /\ q = file[i].id
                    \/ file[i].id \in live' /\ q \in {file[i].x, file[i].y}
      <4>1. CASE q \in live
        BY <2>1, <2>3, <3>1, <4>1
      <4>2. CASE q \in {g.x, g.y}
        <5>1. file[next_id].id \in live'
          BY <3>1
        <5> QED
          BY <2>3, <4>2, <5>1
      <4>3. CASE q = g.id /\ q \notin live
        <5>1. file[next_id].output
          BY <2>5, <4>3 DEF Needed
        <5> QED
          BY <2>3, <4>3, <5>1
      <4> QED
        BY <3>1, <4>1, <4>2, <4>3
    <3> QED
      BY <1>1, <2>3, <3>2, <3>3 DEF Marked
  <2>6. CASE ~Needed(g)
    <3>1. live' = live /\ g.id \notin live /\ ~g.output
      BY <1>2, <2>6 DEF Needed
    <3>2. ASSUME NEW i \in next_id .. Len(file)
          PROVE  /\ file[i].output => file[i].id \in live
                 /\ file[i].id \in live => {file[i].x, file[i].y} \subseteq live
      BY <2>1, <2>2, <3>1
    <3>3. ASSUME NEW q \in live
          PROVE  \E i \in next_id .. Len(file) :
                    \/ file[i].output /\ q = file[i].id
                    \/ file[i].id \in live /\ q \in {file[i].x, file[i].y}
      BY <2>1, <2>3
    <3> QED
      BY <1>1, <2>3, <3>1, <3>2, <3>3 DEF Marked
  <2> QED
    BY <2>5, <2>6
<1>8. Phases'
  <2>1. circuit_size' = file[Len(file)].id + 1
    <3>1. CASE next_id = Len(file)
      BY <1>1, <3>1 DEF DeadInv, Phases
    <3>2. CASE next_id # Len(file)
      <4>1. circuit_size = file[Len(file)].id + 1
        BY <3>2 DEF DeadInv, Phases
      <4>2. Len(file) \in 1 .. Len(file) /\ file[Len(file)].id \in Nat
        BY <1>3, <1>4, FileFacts
      <4>3. circuit_size # 0
        BY <4>1, <4>2
      <4> QED
        BY <1>1, <4>1, <4>3
    <3> QED
      BY <3>1, <3>2
  <2>2. file[Len(file)].output => one_out' /\ pc' # "aborted"
    <3> SUFFICES ASSUME file[Len(file)].output
                 PROVE  one_out' /\ pc' # "aborted"
      OBVIOUS
    <3>1. CASE next_id = Len(file)
      <4>1. Needed(g)
        BY <3>1 DEF Needed
      <4> QED
        BY <1>1, <1>2, <3>1, <4>1
    <3>2. CASE next_id # Len(file)
      <4>1. one_out
        BY <1>4, <3>2 DEF DeadInv, Phases
      <4> QED
        BY <1>1, <1>2, <4>1
    <3> QED
      BY <3>1, <3>2
  <2>3. pc' \in {"mark", "aborted"}
    BY <1>1, <1>2
  <2>4. pos = 0 /\ out_file = << >> /\ cnt = input_cnt /\ cache = {}
    BY <1>1 DEF DeadInv, Phases
  <2>5. file' = file /\ input_cnt' = input_cnt /\ pos' = 0 /\ out_file' = << >>
        /\ cnt' = input_cnt /\ cache' = {}
    BY <1>1, <2>4 DEF input_cnt
  <2> QED
    BY <1>4, <2>1, <2>2, <2>3, <2>5 DEF Phases
<1>9. Emitted'
  BY <1>1, <1>2 DEF Emitted
<1> QED
  BY <1>6, <1>7, <1>8, <1>9 DEF DeadInv

\* The walk backward has come to the first gate.
LEMMA MarkDoneDead ==
  ASSUME DeadInv, MarkDone
  PROVE  DeadInv'
<1>1. /\ pc = "mark" /\ next_id = 0 /\ pc' = "number"
      /\ UNCHANGED <<store_type, file, next_id, pos, live, one_out, circuit_size, newmap, cache,
                     misled, cnt, out_file>>
  BY DEF MarkDone
<1>2. DeadTypes'
  BY <1>1 DEF DeadInv, DeadTypes
<1>3. Marked'
  BY <1>1 DEF DeadInv, Marked
<1>4. Phases'
  BY <1>1 DEF DeadInv, Phases, input_cnt
<1>5. Emitted'
  BY <1>1 DEF Emitted
<1> QED
  BY <1>2, <1>3, <1>4, <1>5 DEF DeadInv

\* The marked gates are numbered.
LEMMA NumberDead ==
  ASSUME DeadInv, Number
  PROVE  DeadInv'
<1>1. /\ pc = "number" /\ pc' = "emit"
      /\ newmap' = [q \in Ids |-> IF q \in Numbered THEN NumberOf(q) ELSE q]
      /\ UNCHANGED <<store_type, file, next_id, pos, live, one_out, circuit_size, cache,
                     misled, cnt, out_file>>
  BY DEF Number
<1>2. Numbered' = Numbered /\ \A q : NumberOf(q)' = NumberOf(q)
  BY <1>1 DEF Numbered, NumberOf, input_cnt
<1>3. /\ pos = 0 /\ out_file = << >> /\ cnt = input_cnt /\ cache = {} /\ next_id = 0
      /\ input_cnt' = input_cnt
  BY <1>1 DEF DeadInv, Phases, input_cnt
<1>4. DeadTypes'
  <2>1. live \subseteq Ids
    BY DEF DeadInv, DeadTypes
  <2>2. ASSUME NEW q \in Ids
        PROVE  (IF q \in Numbered THEN NumberOf(q) ELSE q) \in Ids
    <3>1. q \in Nat /\ q <= MaxId /\ MaxId \in Nat
      BY Numbers
    <3>2. q \in Numbered => NumberOf(q) \in Nat /\ NumberOf(q) <= q
      BY <2>1, Ranks
    <3> QED
      BY <3>1, <3>2 DEF Ids
  <2>3. newmap' \in [Ids -> Ids]
    BY <1>1, <2>2
  <2> QED
    BY <1>1, <2>3 DEF DeadInv, DeadTypes
<1>5. Marked'
  BY <1>1 DEF DeadInv, Marked
<1>6. Phases'
  <2>1. newmap' = [q \in Ids |-> IF q \in Numbered' THEN NumberOf(q)' ELSE q]
    BY <1>1, <1>2
  <2>2. /\ circuit_size = IF next_id = Len(file) THEN 0 ELSE file[Len(file)].id + 1
        /\ next_id < Len(file) /\ file[Len(file)].output => one_out
    BY DEF DeadInv, Phases
  <2> QED
    BY <1>1, <1>3, <2>1, <2>2 DEF Phases
<1>7. Emitted'
  <2>1. cnt' = input_cnt' + Len(out_file') /\ Len(out_file') = Cardinality(LiveOf(pos)')
    <3>1. LiveOf(pos)' = {}
      BY <1>1, <1>3 DEF LiveOf
    <3>2. Cardinality(LiveOf(pos)') = 0
      BY <3>1, FS_EmptySet
    <3>3. cnt' = input_cnt' /\ Len(out_file') = 0 /\ input_cnt' \in Nat
      BY <1>1, <1>3, Numbers
    <3> QED
      BY <3>2, <3>3
  <2> QED
    BY <1>1, <1>3, <2>1 DEF Emitted
<1> QED
  BY <1>4, <1>5, <1>6, <1>7 DEF DeadInv

\* The walk forward has come to the last gate.
LEMMA EmitDoneDead ==
  ASSUME DeadInv, EmitDone
  PROVE  DeadInv'
<1>1. /\ pc = "emit" /\ pos = Len(file) /\ pc' = "done"
      /\ UNCHANGED <<store_type, file, next_id, pos, live, one_out, circuit_size, newmap, cache,
                     misled, cnt, out_file>>
  BY DEF EmitDone
<1>2. Numbered' = Numbered /\ (\A q : NumberOf(q)' = NumberOf(q)) /\ input_cnt' = input_cnt
  BY <1>1 DEF Numbered, NumberOf, input_cnt
<1>3. \A n : LiveOf(n)' = LiveOf(n)
  BY <1>1 DEF LiveOf
<1>4. DeadTypes'
  BY <1>1 DEF DeadInv, DeadTypes
<1>5. Marked'
  BY <1>1 DEF DeadInv, Marked
<1>6. Phases'
  BY <1>1, <1>2 DEF DeadInv, Phases
<1>7. Emitted'
  BY <1>1, <1>2, <1>3 DEF DeadInv, Emitted
<1> QED
  BY <1>4, <1>5, <1>6, <1>7 DEF DeadInv

(***************************************************************************)
(* Emission.                                                               *)
(***************************************************************************)

\* A lookup in the map of the pass before yields the wire itself, unless the
\* cache knows it: then its new number.
LEMMA OldLookup ==
  ASSUME NEW c, NEW w \in Ids,
         \A e \in c : e \in Ids \X Ids /\ e[1] \in Numbered /\ e[2] = newmap[e[1]]
  PROVE  /\ OldWire(c, w).cache = c
         /\ \/ OldWire(c, w).to = w
            \/ w \in Numbered /\ OldWire(c, w).to = newmap[w] /\ <<w, newmap[w]>> \in c
<1>1. CASE store_type = "file"
  BY <1>1 DEF OldWire, Lookup, Unmapped
<1>2. CASE store_type # "file" /\ Cached(c, w) # {}
  <2> DEFINE to == CHOOSE y \in Cached(c, w) : TRUE
  <2>1. to \in Cached(c, w)
    BY <1>2
  <2>2. OldWire(c, w).cache = c /\ OldWire(c, w).to = to
    BY <1>2 DEF OldWire, Lookup
  <2> HIDE DEF to
  <2>3. PICK e \in c : e[1] = w /\ to = e[2]
    BY <2>1 DEF Cached
  <2>4. e = <<w, newmap[w]>> /\ w \in Numbered
    BY <2>3
  <2> QED
    BY <2>2, <2>3, <2>4
<1>3. CASE store_type # "file" /\ Cached(c, w) = {}
  BY <1>3 DEF OldWire, Lookup
<1> QED
  BY <1>1, <1>2, <1>3

\* A lookup in newmap yields the new number, from the cache or from the file, and
\* leaves no more than that in the cache.
LEMMA NewLookup ==
  ASSUME NEW c, NEW w \in Ids,
         \A q \in Ids : q \notin Numbered => newmap[q] = q,
         \A e \in c : e \in Ids \X Ids /\ e[1] \in Numbered /\ e[2] = newmap[e[1]]
  PROVE  /\ NewNumber(c, w).to = newmap[w]
         /\ \A e \in NewNumber(c, w).cache : e \in c \/ (w \in Numbered /\ e = <<w, newmap[w]>>)
<1>1. CASE store_type = "file"
  BY <1>1 DEF NewNumber, Lookup
<1>2. CASE store_type # "file" /\ Cached(c, w) # {}
  <2> DEFINE to == CHOOSE y \in Cached(c, w) : TRUE
  <2>1. to \in Cached(c, w)
    BY <1>2
  <2>2. NewNumber(c, w).cache = c /\ NewNumber(c, w).to = to
    BY <1>2 DEF NewNumber, Lookup
  <2> HIDE DEF to
  <2>3. PICK e \in c : e[1] = w /\ to = e[2]
    BY <2>1 DEF Cached
  <2> QED
    BY <2>2, <2>3
<1>3. CASE store_type # "file" /\ Cached(c, w) = {} /\ w \notin Numbered
  BY <1>3 DEF NewNumber, Lookup
<1>4. CASE store_type # "file" /\ Cached(c, w) = {} /\ w \in Numbered
  BY <1>4 DEF NewNumber, Lookup
<1> QED
  BY <1>1, <1>2, <1>3, <1>4

\* Every live wire behind the inputs is a gate's, and has a number.
LEMMA LiveWires ==
  ASSUME DeadInv, next_id = 0
  PROVE  /\ \A i \in 1 .. Len(file) : file[i].id \in live => file[i].id \in Numbered
         /\ \A q \in live : q \in Nat
              /\ (q <= input_cnt \/ (q \in Numbered /\ \E i \in 1 .. Len(file) : q = file[i].id))
<1>1. WellFormed(file) /\ file # << >> /\ live \subseteq Ids
  BY DEF DeadInv, DeadTypes
<1>2. Len(file) \in Nat /\ Len(file) > 0
  BY <1>1, FileFacts
<1>3. circuit_size = file[Len(file)].id + 1
  BY <1>2 DEF DeadInv, Phases
<1>4. ASSUME NEW i \in 1 .. Len(file), file[i].id \in live
      PROVE  file[i].id \in Numbered
  <2>1. /\ file[i].id \in Nat /\ file[i].id > input_cnt
        /\ file[Len(file)].id \in Nat
    BY <1>1, <1>2, FileFacts
  <2>2. file[i].id <= file[Len(file)].id
    <3>1. CASE i = Len(file)
      BY <2>1, <3>1
    <3>2. CASE i # Len(file)
      <4>1. Len(file) \in 1 .. Len(file) /\ i \in 1 .. (Len(file) - 1)
        BY <1>2, <3>2
      <4>2. file[i].id < file[Len(file)].id
        BY <1>1, <4>1, FileFacts
      <4> QED
        BY <2>1, <4>2
    <3> QED
      BY <3>1, <3>2
  <2> QED
    BY <1>3, <1>4, <2>1, <2>2, Numbers DEF Numbered
<1>5. ASSUME NEW q \in live
      PROVE  /\ q \in Nat
             /\ q <= input_cnt \/ (q \in Numbered /\ \E i \in 1 .. Len(file) : q = file[i].id)
  <2>1. q \in Nat
    BY <1>1, Numbers
  <2>2. PICK i \in 1 .. Len(file) : \/ q = file[i].id
                                    \/ q \in {file[i].x, file[i].y}
    BY <1>2 DEF DeadInv, Marked
  <2>3. CASE q = file[i].id
    BY <1>4, <2>1, <2>3
  <2>4. CASE q \in {file[i].x, file[i].y}
    <3>1. q <= input_cnt \/ \E j \in 1 .. (i - 1) : q = file[j].id
      BY <1>1, <2>4, FileFacts
    <3>2. \A j \in 1 .. (i - 1) : j \in 1 .. Len(file)
      BY <1>2
    <3> QED
      BY <1>4, <2>1, <3>1, <3>2
  <2> QED
    BY <2>2, <2>3, <2>4
<1> QED
  BY <1>4, <1>5

\* The live gates up to the next one; if it is live, their number is its rank.
LEMMA LiveNext ==
  ASSUME DeadInv, next_id = 0, NEW n \in 0 .. Len(file) - 1
  PROVE  /\ Cardinality(LiveOf(n)) \in Nat
         /\ file[n + 1].id \notin live => LiveOf(n + 1) = LiveOf(n)
         /\ file[n + 1].id \in live =>
              /\ Cardinality(LiveOf(n + 1)) = Cardinality(LiveOf(n)) + 1
              /\ NumberOf(file[n + 1].id) = input_cnt + Cardinality(LiveOf(n)) + 1
<1> DEFINE q == file[n + 1].id
<1>1. WellFormed(file) /\ file # << >> /\ live \subseteq Ids
  BY DEF DeadInv, DeadTypes
<1>2. Len(file) \in Nat /\ n \in Nat /\ n + 1 \in 1 .. Len(file)
  BY <1>1, FileFacts
<1>3. IsFiniteSet(LiveOf(n)) /\ Cardinality(LiveOf(n)) \in Nat
  <2>1. IsFiniteSet(live) /\ LiveOf(n) \in SUBSET live
    BY <1>1, Ranks DEF LiveOf
  <2>2. IsFiniteSet(LiveOf(n))
    BY <2>1, FS_Subset
  <2> QED
    BY <2>2, FS_CardinalityType
<1>4. \A i \in 1 .. n + 1 : i \in 1 .. n \/ i = n + 1
  BY <1>2
<1>5. n + 1 \in 1 .. n + 1 /\ \A i \in 1 .. n : i \in 1 .. n + 1
  BY <1>2
<1>6. ASSUME q \notin live
      PROVE  LiveOf(n + 1) = LiveOf(n)
  BY <1>4, <1>5, <1>6 DEF LiveOf
<1>7. ASSUME q \in live
      PROVE  /\ Cardinality(LiveOf(n + 1)) = Cardinality(LiveOf(n)) + 1
             /\ NumberOf(q) = input_cnt + Cardinality(LiveOf(n)) + 1
  <2>1. LiveOf(n + 1) = LiveOf(n) \cup {q}
    BY <1>4, <1>5, <1>7 DEF LiveOf
  <2>2. q \notin LiveOf(n)
    <3> SUFFICES ASSUME NEW i \in 1 .. n, q = file[i].id
                 PROVE  FALSE
      BY DEF LiveOf
    <3>1. i \in 1 .. ((n + 1) - 1)
      BY <1>2
    <3>2. file[i].id < file[n + 1].id /\ file[n + 1].id \in Nat
      BY <1>1, <1>2, <3>1, FileFacts
    <3> QED
      BY <3>2
  <2>3. Cardinality(LiveOf(n + 1)) = Cardinality(LiveOf(n)) + 1
    BY <1>3, <2>1, <2>2, FS_AddElement
  <2>4. {r \in Numbered : r <= q} = LiveOf(n + 1)
    <3>1. q \in Nat
      BY <1>1, <1>2, FileFacts
    <3>2. ASSUME NEW r \in Numbered, r <= q
          PROVE  r \in LiveOf(n + 1)
      <4>1. r \in live /\ input_cnt < r
        BY DEF Numbered
      <4>2. PICK i \in 1 .. Len(file) : r = file[i].id
        BY <4>1, LiveWires, Numbers
      <4>3. i \in 1 .. n + 1
        <5> SUFFICES ASSUME i \notin 1 .. n + 1
                     PROVE  FALSE
          OBVIOUS
        <5>1. n + 1 \in 1 .. (i - 1)
          BY <1>2
        <5>2. q < file[i].id /\ file[i].id \in Nat
          BY <1>1, <5>1, FileFacts
        <5> QED
          BY <3>1, <3>2, <4>2, <5>2
      <4> QED
        BY <4>1, <4>2, <4>3 DEF LiveOf
    <3>3. ASSUME NEW r \in LiveOf(n + 1)
          PROVE  r \in Numbered /\ r <= q
      <4>1. PICK i \in 1 .. n + 1 : r = file[i].id /\ r \in live
        BY DEF LiveOf
      <4>2. i \in 1 .. Len(file)
        BY <1>2
      <4>3. r \in Numbered
        BY <4>1, <4>2, LiveWires
      <4>4. CASE i = n + 1
        BY <3>1, <4>1, <4>3, <4>4
      <4>5. CASE i # n + 1
        <5>1. i \in 1 .. ((n + 1) - 1)
          BY <1>2, <4>5
        <5>2. r < q /\ r \in Nat
          BY <1>1, <1>2, <4>1, <4>2, <5>1, FileFacts
        <5> QED
          BY <3>1, <4>3, <5>2
      <4> QED
        BY <4>4, <4>5
    <3> QED
      BY <3>2, <3>3
  <2>5. NumberOf(q) = input_cnt + Cardinality(LiveOf(n + 1))
    BY <2>4 DEF NumberOf
  <2> QED
    BY <1>3, <2>3, <2>5, Numbers
<1> QED
  BY <1>3, <1>6, <1>7

\* A gate is dropped, or emitted under the next number: its own, as it is the rank.
\* Its inputs have numbers below that, also those that a lookup renumbers twice.
LEMMA EmitGateDead ==
  ASSUME DeadInv, EmitGate
  PROVE  DeadInv'
<1> DEFINE g  == file[pos + 1]
           r0 == OldWire(cache, g.x)
           r1 == IF g.output THEN [to |-> 0, cache |-> r0.cache] ELSE OldWire(r0.cache, g.y)
           n0 == NewNumber(r1.cache, r0.to)
           n1 == NewNumber(n0.cache, r1.to)
           x  == IF n0.to # 0 THEN n0.to ELSE r0.to
           y  == IF n1.to # 0 THEN n1.to ELSE r1.to
           new == [g EXCEPT !.id = cnt + 1, !.x = x, !.y = y]
<1>1. /\ pc = "emit" /\ pos < Len(file) /\ pos' = pos + 1
      /\ UNCHANGED <<store_type, file, next_id, live, one_out, circuit_size, newmap>>
  BY DEF EmitGate
<1>2. IF Kept(g)
      THEN /\ cnt' = cnt + 1 /\ cache' = n1.cache
           /\ IF g.id > y /\ cnt + 1 > y
              THEN out_file' = Append(out_file, new) /\ pc' = pc
              ELSE pc' = "aborted" /\ UNCHANGED out_file
      ELSE /\ cache' = r1.cache /\ pc' = (IF g.output THEN "aborted" ELSE pc)
           /\ UNCHANGED <<cnt, out_file>>
  BY DEF EmitGate
<1> HIDE DEF r0, r1, n0, n1, x, y, new
<1>3. /\ WellFormed(file) /\ file # << >> /\ live \subseteq Ids /\ newmap \in [Ids -> Ids]
      /\ pos \in 0 .. Len(file) /\ cnt \in Nat /\ out_file \in Seq(Gate)
      /\ Len(out_file) \in Nat
  BY DEF DeadInv, DeadTypes
<1>4. /\ next_id = 0
      /\ newmap = [q \in Ids |-> IF q \in Numbered THEN NumberOf(q) ELSE q]
  BY <1>1 DEF DeadInv, Phases
<1>5. /\ Len(file) \in Nat /\ pos \in Nat /\ pos \in 0 .. Len(file) - 1
      /\ pos + 1 \in 1 .. Len(file) /\ pos' \in 0 .. Len(file)
  BY <1>1, <1>3, FileFacts
<1>6. /\ g \in Gate /\ g.id \in Nat /\ g.id \in Ids /\ g.x \in Ids /\ g.y \in Ids
      /\ g.output \in BOOLEAN /\ g.output => g.y = 0
  BY <1>3, <1>5, FileFacts, GateFacts
<1>7. /\ \A q \in Ids : newmap[q] \in Ids /\ newmap[q] \in Nat /\ newmap[q] <= q
      /\ \A q \in Numbered : q \in Ids /\ newmap[q] = NumberOf(q)
      /\ \A q \in Ids : q \notin Numbered => newmap[q] = q
      /\ \A q \in Ids : q <= input_cnt => newmap[q] = q
  BY <1>3, <1>4, Renaming
<1>8. /\ cnt = input_cnt + Len(out_file) /\ Len(out_file) = Cardinality(LiveOf(pos))
      /\ \A k \in 1 .. Len(out_file) :
           /\ out_file[k].id = input_cnt + k
           /\ {out_file[k].x, out_file[k].y} \subseteq 0 .. (input_cnt + k - 1)
           /\ out_file[k].output \/ \E i \in 1 .. pos : /\ file[i].id \in live /\ ~file[i].output
                                                        /\ out_file[k].id = newmap[file[i].id]
      /\ \A i \in 1 .. pos : file[i].id \in live =>
           \A w \in {file[i].x, file[i].y} : w \in Numbered => IsRead(out_file, newmap[w])
      /\ \A e \in cache : /\ e \in Ids \X Ids /\ e[1] \in Numbered /\ e[2] = newmap[e[1]]
                          /\ IsRead(out_file, newmap[e[1]])
  BY <1>1 DEF DeadInv, Emitted
\* What the four lookups yield.
<1>9. /\ r0.cache = cache
      /\ r0.to = g.x \/ (g.x \in Numbered /\ r0.to = newmap[g.x] /\ <<g.x, newmap[g.x]>> \in cache)
  BY <1>6, <1>8, OldLookup DEF r0
<1>10. /\ r1.cache = cache
       /\ r1.to = g.y \/ (g.y \in Numbered /\ r1.to = newmap[g.y] /\ <<g.y, newmap[g.y]>> \in cache)
  <2>1. CASE g.output
    BY <1>6, <1>9, <2>1 DEF r1
  <2>2. CASE ~g.output
    <3>1. r1 = OldWire(cache, g.y)
      BY <1>9, <2>2 DEF r1
    <3> QED
      BY <1>6, <1>8, <3>1, OldLookup
  <2> QED
    BY <2>1, <2>2
<1>11. r0.to \in Ids /\ r1.to \in Ids
  BY <1>6, <1>7, <1>9, <1>10
<1>12. /\ n0.to = newmap[r0.to]
       /\ \A e \in n0.cache : \/ e \in cache
                              \/ r0.to \in Numbered /\ e = <<r0.to, newmap[r0.to]>>
  BY <1>7, <1>8, <1>10, <1>11, NewLookup DEF n0
<1>13. \A e \in n0.cache : e \in Ids \X Ids /\ e[1] \in Numbered /\ e[2] = newmap[e[1]]
  <2> TAKE e \in n0.cache
  <2>1. CASE e \in cache
    BY <1>8, <2>1
  <2>2. CASE r0.to \in Numbered /\ e = <<r0.to, newmap[r0.to]>>
    <3>1. newmap[r0.to] \in Ids
      BY <1>7, <1>11
    <3> QED
      BY <1>11, <2>2, <3>1
  <2> QED
    BY <1>12, <2>1, <2>2
<1>14. /\ n1.to = newmap[r1.to]
       /\ \A e \in n1.cache : \/ e \in n0.cache
                              \/ r1.to \in Numbered /\ e = <<r1.to, newmap[r1.to]>>
  BY <1>7, <1>11, <1>13, NewLookup DEF n1
<1>15. x = newmap[r0.to] /\ y = newmap[r1.to]
  <2>1. ASSUME NEW q \in Ids, newmap[q] = 0
        PROVE  q = 0
    <3>1. q \in Numbered => NumberOf(q) > input_cnt /\ NumberOf(q) \in Nat
      BY <1>3, Ranks
    <3>2. q \notin Numbered
      BY <1>7, <2>1, <3>1, Numbers
    <3> QED
      BY <1>7, <2>1, <3>2
  <2>2. newmap[r0.to] = 0 => r0.to = 0
    BY <1>11, <2>1
  <2>3. newmap[r1.to] = 0 => r1.to = 0
    BY <1>11, <2>1
  <2> QED
    BY <1>12, <1>14, <2>2, <2>3 DEF x, y
<1>16. x \in Ids /\ y \in Ids /\ x \in Nat /\ y \in Nat
  BY <1>7, <1>11, <1>15
<1>17. /\ Cardinality(LiveOf(pos)) \in Nat
       /\ g.id \notin live => LiveOf(pos + 1) = LiveOf(pos)
       /\ g.id \in live =>
            /\ Cardinality(LiveOf(pos + 1)) = Cardinality(LiveOf(pos)) + 1
            /\ NumberOf(g.id) = input_cnt + Cardinality(LiveOf(pos)) + 1
  BY <1>4, <1>5, LiveNext
<1>18. /\ Numbered' = Numbered /\ (\A q : NumberOf(q)' = NumberOf(q)) /\ input_cnt' = input_cnt
       /\ \A n : LiveOf(n)' = LiveOf(n)
  BY <1>1 DEF Numbered, NumberOf, input_cnt, LiveOf
<1>19. Marked'
  BY <1>1 DEF DeadInv, Marked
<1>20. \A i \in 1 .. pos + 1 : i \in 1 .. pos \/ i = pos + 1
  BY <1>5
<1>21. \A i \in 1 .. pos : i \in 1 .. pos + 1
  BY <1>5
<1>22. CASE ~Kept(g)
  <2>1. cache' = cache /\ cnt' = cnt /\ out_file' = out_file /\ g.id \notin live
    BY <1>2, <1>10, <1>22 DEF Kept
  <2>2. pc' = pc
    <3>1. ~g.output
      BY <1>4, <1>5, <2>1 DEF DeadInv, Marked
    <3> QED
      BY <1>2, <1>22, <3>1
  <2>3. DeadTypes'
    BY <1>1, <1>5, <2>1, <2>2 DEF DeadInv, DeadTypes
  <2>4. Phases'
    BY <1>1, <1>18, <2>1, <2>2 DEF DeadInv, Phases
  <2>6. /\ cnt' = input_cnt' + Len(out_file') /\ Len(out_file') = Cardinality(LiveOf(pos)')
    BY <1>1, <1>8, <1>17, <1>18, <2>1
  <2>7. \A k \in 1 .. Len(out_file') :
           /\ out_file'[k].id = input_cnt' + k
           /\ {out_file'[k].x, out_file'[k].y} \subseteq 0 .. (input_cnt' + k - 1)
           /\ \/ out_file'[k].output
              \/ \E i \in 1 .. pos' : /\ file'[i].id \in live' /\ ~file'[i].output
                                      /\ out_file'[k].id = newmap'[file'[i].id]
    BY <1>1, <1>8, <1>18, <1>21, <2>1
  <2>8. \A i \in 1 .. pos' : file'[i].id \in live' =>
           \A w \in {file'[i].x, file'[i].y} : w \in Numbered' => IsRead(out_file', newmap'[w])
    BY <1>1, <1>8, <1>18, <1>20, <2>1
  <2>9. \A e \in cache' : /\ e \in Ids \X Ids /\ e[1] \in Numbered' /\ e[2] = newmap'[e[1]]
                          /\ IsRead(out_file', newmap'[e[1]])
    BY <1>1, <1>8, <1>18, <2>1
  <2>10. Emitted'
    BY <2>6, <2>7, <2>8, <2>9 DEF Emitted
  <2> QED
    BY <1>19, <2>3, <2>4, <2>10 DEF DeadInv
<1>23. CASE Kept(g)
  <2>1. g.id \in live /\ g.id \in Numbered
    BY <1>4, <1>5, <1>23, LiveWires DEF Kept
  <2>2. NumberOf(g.id) = cnt + 1 /\ cnt + 1 <= g.id /\ newmap[g.id] = cnt + 1
    <3>1. NumberOf(g.id) = cnt + 1
      BY <1>8, <1>17, <2>1
    <3>2. NumberOf(g.id) <= g.id
      BY <1>3, <2>1, Ranks
    <3> QED
      BY <1>7, <2>1, <3>1, <3>2
\* A wire the gate reads has a number below its own, also when renumbered twice.
  <2>3. ASSUME NEW w \in {g.x, g.y}, NEW to \in {w, newmap[w]}
        PROVE  newmap[to] <= cnt
    <3>1. w \in live /\ w \in Ids /\ w < g.id /\ w \in Nat
      <4>1. w \in live
        BY <1>4, <1>5, <2>1 DEF DeadInv, Marked
      <4>2. w \in Ids /\ w < g.id
        BY <1>3, <1>5, FileFacts
      <4> QED
        BY <4>1, <4>2, Numbers
    <3>2. newmap[w] <= cnt
      <4>1. CASE w <= input_cnt
        BY <1>3, <1>7, <1>8, <3>1, <4>1, Numbers
      <4>2. CASE w \in Numbered
        <5>1. NumberOf(w) < NumberOf(g.id) /\ NumberOf(w) \in Nat
          BY <1>3, <2>1, <3>1, <4>2, Ranks
        <5> QED
          BY <1>3, <1>7, <2>2, <4>2, <5>1
      <4> QED
        BY <1>4, <3>1, <4>1, <4>2, LiveWires
    <3>3. /\ newmap[w] \in Ids /\ newmap[w] \in Nat
          /\ newmap[newmap[w]] \in Nat /\ newmap[newmap[w]] <= newmap[w]
      BY <1>7, <3>1
    <3>4. newmap[newmap[w]] <= cnt
      BY <1>3, <3>2, <3>3
    <3> QED
      BY <3>2, <3>4
  <2>4. x <= cnt /\ y <= cnt
    BY <1>9, <1>10, <1>15, <2>3
  <2>5. g.id > y /\ cnt + 1 > y
    BY <1>3, <1>6, <1>16, <2>2, <2>4
  <2>6. out_file' = Append(out_file, new) /\ pc' = "emit" /\ cnt' = cnt + 1 /\ cache' = n1.cache
    BY <1>1, <1>2, <1>23, <2>5
  <2>7. /\ new \in Gate /\ new.id = cnt + 1 /\ new.x = x /\ new.y = y /\ new.output = g.output
    <3>1. cnt + 1 \in Ids
      <4>1. newmap[g.id] \in Ids
        BY <1>6, <1>7
      <4> QED
        BY <2>2, <4>1
    <3> QED
      BY <1>6, <1>16, <3>1 DEF new, Gate
  <2>8. /\ out_file' \in Seq(Gate) /\ Len(out_file') = Len(out_file) + 1
        /\ \A k \in 1 .. Len(out_file) : out_file'[k] = out_file[k]
        /\ out_file'[Len(out_file) + 1] = new
    <3> HIDE DEF Gate, DeadInv
    <3> QED
      BY <1>3, <2>6, <2>7
  <2>9. DeadTypes'
    BY <1>1, <1>5, <2>6, <2>8, <1>3 DEF DeadInv, DeadTypes
  <2>10. Phases'
    BY <1>1, <1>18, <2>6 DEF DeadInv, Phases
  <2>11. /\ \A k \in 1 .. Len(out_file') : k \in 1 .. Len(out_file) \/ k = Len(out_file) + 1
         /\ \A k \in 1 .. Len(out_file) : k \in 1 .. Len(out_file')
         /\ Len(out_file) + 1 \in 1 .. Len(out_file')
    BY <1>3, <2>8
  <2>12. ASSUME NEW q, IsRead(out_file, q) \/ q \in {x, y}
         PROVE  IsRead(out_file', q)
    BY <2>7, <2>8, <2>11, <2>12 DEF IsRead
  <2>13. cnt' = input_cnt' + Len(out_file') /\ Len(out_file') = Cardinality(LiveOf(pos)')
    <3>1. LiveOf(pos)' = LiveOf(pos + 1)
      BY <1>1, <1>18
    <3>2. Cardinality(LiveOf(pos + 1)) = Len(out_file) + 1
      BY <1>8, <1>17, <2>1
    <3>3. cnt + 1 = input_cnt + (Len(out_file) + 1)
      BY <1>3, <1>8, Numbers
    <3> QED
      BY <1>18, <2>6, <2>8, <3>1, <3>2, <3>3
  <2>14. ASSUME NEW k \in 1 .. Len(out_file')
         PROVE  /\ out_file'[k].id = input_cnt' + k
                /\ {out_file'[k].x, out_file'[k].y} \subseteq 0 .. (input_cnt' + k - 1)
                /\ \/ out_file'[k].output
                   \/ \E i \in 1 .. pos' : /\ file'[i].id \in live' /\ ~file'[i].output
                                           /\ out_file'[k].id = newmap'[file'[i].id]
    <3>1. CASE k \in 1 .. Len(out_file)
      <4>1. out_file'[k] = out_file[k]
        BY <2>8, <3>1
      <4> QED
        BY <1>1, <1>8, <1>18, <1>21, <3>1, <4>1
    <3>2. CASE k = Len(out_file) + 1
      <4>1. out_file'[k] = new /\ cnt = input_cnt + k - 1 /\ cnt + 1 = input_cnt + k
        BY <1>3, <1>8, <2>8, <3>2, Numbers
      <4>2. x \in 0 .. cnt /\ y \in 0 .. cnt
        BY <1>3, <1>16, <2>4
      <4>3. ~g.output => \E i \in 1 .. pos' : /\ file'[i].id \in live' /\ ~file'[i].output
                                              /\ cnt + 1 = newmap'[file'[i].id]
        <5>1. pos + 1 \in 1 .. pos'
          BY <1>1, <1>5
        <5> QED
          BY <1>1, <2>1, <2>2, <5>1
      <4> QED
        BY <1>18, <2>7, <4>1, <4>2, <4>3
    <3> QED
      BY <2>11, <3>1, <3>2
\* What the gate reads is read under its new number, now or by an earlier gate.
  <2>15. ASSUME NEW w \in {g.x, g.y}, w \in Numbered
         PROVE  IsRead(out_file', newmap[w])
    <3>1. \/ newmap[w] \in {x, y}
          \/ <<w, newmap[w]>> \in cache
      BY <1>9, <1>10, <1>15
    <3>2. ASSUME <<w, newmap[w]>> \in cache
          PROVE  IsRead(out_file, newmap[w])
      <4> DEFINE e == <<w, newmap[w]>>
      <4>1. e[1] = w /\ e \in cache
        BY <3>2
      <4> HIDE DEF e
      <4> QED
        BY <1>8, <4>1
    <3> QED
      BY <2>12, <3>1, <3>2
  <2>16. ASSUME NEW i \in 1 .. pos', file'[i].id \in live',
                NEW w \in {file'[i].x, file'[i].y}, w \in Numbered'
         PROVE  IsRead(out_file', newmap'[w])
    <3>1. i \in 1 .. pos \/ i = pos + 1
      BY <1>1, <1>20
    <3>2. CASE i = pos + 1
      BY <1>1, <1>18, <2>15, <2>16, <3>2
    <3>3. CASE i \in 1 .. pos
      <4>1. IsRead(out_file, newmap[w])
        BY <1>1, <1>8, <1>18, <2>16, <3>3
      <4> QED
        BY <1>1, <2>12, <4>1
    <3> QED
      BY <3>1, <3>2, <3>3
  <2>17. ASSUME NEW e \in cache'
         PROVE  /\ e \in Ids \X Ids /\ e[1] \in Numbered' /\ e[2] = newmap'[e[1]]
                /\ IsRead(out_file', newmap'[e[1]])
    <3>1. \/ e \in cache
          \/ r0.to \in Numbered /\ e = <<r0.to, newmap[r0.to]>>
          \/ r1.to \in Numbered /\ e = <<r1.to, newmap[r1.to]>>
      BY <1>12, <1>14, <2>6
    <3>2. CASE e \in cache
      BY <1>1, <1>8, <1>18, <2>12, <3>2
    <3>3. ASSUME NEW w \in Ids, w \in Numbered, newmap[w] \in {x, y}, e = <<w, newmap[w]>>
          PROVE  /\ e \in Ids \X Ids /\ e[1] \in Numbered' /\ e[2] = newmap'[e[1]]
                 /\ IsRead(out_file', newmap'[e[1]])
      <4>1. newmap[w] \in Ids
        BY <1>7
      <4>2. e[1] = w /\ e[2] = newmap[w] /\ e \in Ids \X Ids
        BY <3>3, <4>1
      <4>3. IsRead(out_file', newmap[w])
        BY <2>12, <3>3
      <4> QED
        BY <1>1, <1>18, <3>3, <4>2, <4>3
    <3> QED
      BY <1>11, <1>15, <3>1, <3>2, <3>3
  <2>18. Emitted'
    BY <2>13, <2>14, <2>16, <2>17 DEF Emitted
  <2> QED
    BY <1>19, <2>9, <2>10, <2>18 DEF DeadInv
<1> QED
  BY <1>22, <1>23

\* The invariant speaks of no other variables.
LEMMA StutterDead ==
  ASSUME DeadInv, UNCHANGED vars
  PROVE  DeadInv'
<1>1. UNCHANGED <<store_type, pc, file, next_id, pos, live, one_out, circuit_size, newmap, cache,
                  cnt, out_file>>
  BY DEF vars
<1>2. /\ Numbered' = Numbered /\ (\A q : NumberOf(q)' = NumberOf(q)) /\ input_cnt' = input_cnt
      /\ \A n : LiveOf(n)' = LiveOf(n)
  BY <1>1 DEF Numbered, NumberOf, input_cnt, LiveOf
<1>3. DeadTypes'
  BY <1>1 DEF DeadInv, DeadTypes
<1>4. Marked'
  BY <1>1 DEF DeadInv, Marked
<1>5. Phases'
  BY <1>1, <1>2 DEF DeadInv, Phases
<1>6. Emitted'
  BY <1>1, <1>2 DEF DeadInv, Emitted
<1> QED
  BY <1>3, <1>4, <1>5, <1>6 DEF DeadInv

\* The whole pass, for every gate file and either store.
THEOREM DeadGatesCorrect == Spec => []DeadInv
<1>1. Init => DeadInv
  BY InitDead
<1>2. DeadInv /\ [Next]_vars => DeadInv'
  BY MarkGateDead, MarkDoneDead, NumberDead, EmitGateDead, EmitDoneDead, StutterDead DEF Next
<1> QED
  BY <1>1, <1>2, PTL DEF Spec

\* The id of a gate that is emitted is its position behind the inputs, and it
\* reads inputs and gates that stand before it (main of deadgates.cpp), for gate
\* files of every length, also when a wire is renumbered twice.
THEOREM RenumberedAlways == SpecAll => []Renumbered
<1>1. DeadInv => Renumbered
  <2> SUFFICES ASSUME DeadInv
               PROVE  Renumbered
    OBVIOUS
  <2>1. pc \notin {"emit", "done"} => out_file = << >>
    BY DEF DeadInv, Phases
  <2>2. pc \in {"emit", "done"} =>
          \A k \in 1 .. Len(out_file) :
            /\ out_file[k].id = input_cnt + k
            /\ {out_file[k].x, out_file[k].y} \subseteq 0 .. (input_cnt + k - 1)
    BY DEF DeadInv, Emitted
  <2>3. out_file = << >> => 1 .. Len(out_file) = {}
    OBVIOUS
  <2> QED
    BY <2>1, <2>2, <2>3 DEF Renumbered
<1> QED
  BY <1>1, Chain, DeadGatesCorrect, PTL

\* What is emitted leads to an output: a gate that is none is read by a gate that
\* is emitted.  With the shared cache a lookup may be answered with a number of
\* newmap, and the gate then reads another wire than it should; the wire it
\* should have read has by then been read by an earlier gate.
THEOREM OnlyLiveAlways == SpecAll => []OnlyLive
<1>1. DeadInv => OnlyLive
  <2> SUFFICES ASSUME DeadInv, pc = "done",
                      NEW k \in 1 .. Len(out_file), ~out_file[k].output
               PROVE  IsRead(out_file, out_file[k].id)
    BY DEF OnlyLive, IsRead
  <2>1. pos = Len(file) /\ next_id = 0 /\ WellFormed(file) /\ file # << >>
    BY DEF DeadInv, Phases, DeadTypes
  <2>2. PICK i \in 1 .. Len(file) : /\ file[i].id \in live /\ ~file[i].output
                                    /\ out_file[k].id = newmap[file[i].id]
    BY <2>1 DEF DeadInv, Emitted
  <2>3. file[i].id \in Numbered
    BY <2>1, <2>2, LiveWires
  <2>4. PICK l \in 1 .. Len(file) : \/ file[l].output /\ file[i].id = file[l].id
                                    \/ file[l].id \in live /\ file[i].id \in {file[l].x, file[l].y}
    BY <2>1, <2>2 DEF DeadInv, Marked
  <2>5. ~(file[l].output /\ file[i].id = file[l].id)
    <3> SUFFICES ASSUME file[l].output, file[i].id = file[l].id
                 PROVE  FALSE
      OBVIOUS
    <3>1. i # l
      BY <2>2
    <3>2. i \in 1 .. (l - 1) \/ l \in 1 .. (i - 1)
      BY <3>1
    <3>3. file[i].id \in Nat /\ (file[i].id < file[l].id \/ file[l].id < file[i].id)
      BY <2>1, <3>2, FileFacts
    <3> QED
      BY <3>3
  <2> QED
    BY <2>1, <2>2, <2>3, <2>4, <2>5 DEF DeadInv, Emitted
<1> QED
  BY <1>1, Chain, DeadGatesCorrect, PTL

\* The pass stops at an assertion only in its first loop, and only for a program
\* that goes on after its last output: never while it emits.
THEOREM DeadGatesHolds == Spec => [](pc = "aborted" => ~file[Len(file)].output /\ out_file = << >>)
<1>1. DeadInv => (pc = "aborted" => ~file[Len(file)].output /\ out_file = << >>)
  BY DEF DeadInv, Phases
<1> QED
  BY <1>1, DeadGatesCorrect, PTL

(***************************************************************************)
(* binary.cpp, generate_count.cpp and remove_hash: the inductive           *)
(* invariant.  o is the gates that are written, f a circuit file, and m    *)
(* how many of its gates, the inputs among them, have been gone through.   *)
(***************************************************************************)

Total(o) == InpCnt + Len(o)

Firsts(o, x, m)  == {k \in 1 .. Len(o) : k <= m - InpCnt /\ o[k].x = x}
Seconds(o, x, m) == {k \in 1 .. Len(o) : k <= m - InpCnt /\ ~o[k].output /\ o[k].y = x}
OutsTo(o, m)     == {k \in 1 .. Len(o) : k <= m - InpCnt /\ o[k].output}

\* How often wire x is read by the first m gates.
ReadBefore(o, x, m) == Cardinality(Firsts(o, x, m)) + Cardinality(Seconds(o, x, m))

IsOut(o, x) == \E k \in 1 .. Len(o) : o[k].output /\ o[k].id = x

\* What binary.cpp has counted for it then, and what generate_count.cpp writes.
Expected(o, x, m) ==
  IF x = 0 THEN ReadBefore(o, x, m) + Cardinality(OutsTo(o, m))
  ELSE IF IsOut(o, x) THEN ReadBefore(o, x, m) + 1 ELSE ReadBefore(o, x, m)
Rewritten(o, x) == IF IsOut(o, x) THEN 1 ELSE ReadBefore(o, x, Total(o))

\* Gate number k of a file, as its readers see it.
At(f, k) == Binary!next_gate_binary_old(f, k)
Cnt(f, x) == At(f, x).m_idx

TagOf(g) == IF g.output THEN IF g.party = 1 THEN Binary!EVL_OUT ELSE Binary!GEN_OUT
            ELSE Binary!ETC
InputTag(k) == IF InputParty[k + 1] = 1 THEN Binary!EVL_INP ELSE Binary!GEN_INP

\* The circuit file has the inputs and then the gates of o.
HeaderOf(f, o) ==
  f.header = Binary!Header(Total(o), Binary!InputsOf(0), Binary!InputsOf(1),
                           Cardinality({k \in 1 .. Len(o) : o[k].output /\ o[k].party = 0}),
                           Cardinality({k \in 1 .. Len(o) : o[k].output /\ o[k].party = 1}),
                           8, 0)
Lists(f, o) == f.gates = [k \in 1 .. Total(o) |-> f.gates[k]]
TableOf(g) == IF g.output THEN Binary!OutTable ELSE g.table
Matches(r, g) == /\ r.tag = TagOf(g) /\ r.table = TableOf(g) /\ r.m_input_idx[1] = g.x
                 /\ ~g.output => r.m_input_idx[2] = g.y
Shows(f, o, k) ==
  /\ At(f, k).aligned
  /\ k < InpCnt => At(f, k).tag = InputTag(k)
  /\ k >= InpCnt => Matches(At(f, k), o[k + 1 - InpCnt])
Holds(f, o) == HeaderOf(f, o) /\ Lists(f, o) /\ \A k \in 0 .. Total(o) - 1 : Shows(f, o, k)

\* The counts are right as far as they go, and so is the file that is written
\* with them.
BinaryInv ==
  /\ binary_pc \in {"count", "ready", "recount", "recounted"} /\ aligned
  /\ usage_cnt \in [0 .. MaxId -> Nat]
  /\ pc # "done" => binary_pc = "count" /\ xxx = 0 /\ usage_cnt = Binary!NoCounts
  /\ binary_pc = "count" /\ pc = "done" =>
       /\ xxx \in 0 .. Len(out_file)
       /\ \A x \in 0 .. input_cnt + xxx : usage_cnt[x] = Expected(out_file, x, InpCnt + xxx)
  /\ binary_pc = "recount" =>
       /\ xxx \in 0 .. Total(out_file)
       /\ \A x \in 0 .. xxx - 1 : usage_cnt[x] = ReadBefore(out_file, x, xxx)
  /\ binary_pc # "count" => Holds(bin, out_file)
  /\ binary_pc \in {"ready", "recount"} =>
       \A x \in 0 .. Total(out_file) - 1 : Cnt(bin, x) = Expected(out_file, x, Total(out_file))
  /\ binary_pc = "recounted" =>
       \A x \in 0 .. Total(out_file) - 1 : Cnt(bin, x) = Rewritten(out_file, x)

\* A state st of the tables between two reads of gate m, when rho[x] reads of
\* wire x have been counted down from count[x]: a wire has a slot as long as
\* there are reads left, and the slots handed out, slots of them, are those of
\* the wires and the free ones.
Slotted(st, m, count, rho, slots) ==
  /\ st = [tbl |-> st.tbl, avail |-> st.avail, failed |-> FALSE]
  /\ st.tbl = [x \in DOMAIN st.tbl |-> st.tbl[x]]
  /\ DOMAIN st.tbl = {x \in 0 .. m - 1 : count[x] = 0 \/ rho[x] < count[x]}
  /\ \A x \in 0 .. m - 1 : rho[x] <= count[x]
  /\ \A x \in DOMAIN st.tbl : /\ st.tbl[x].slot \in 0 .. slots - 1
                              /\ st.tbl[x].left = count[x] - rho[x]
                              /\ st.tbl[x].slot \notin st.avail
  /\ \A x, z \in DOMAIN st.tbl : x # z => st.tbl[x].slot # st.tbl[z].slot
  /\ st.avail \subseteq 0 .. slots - 1
  /\ \A s \in 0 .. slots - 1 : s \in st.avail \/ \E x \in DOMAIN st.tbl : st.tbl[x].slot = s

CountOf(f, n) == [x \in 0 .. n - 1 |-> Cnt(f, x)]
ReadsOf(o, m) == [x \in 0 .. Total(o) - 1 |-> ReadBefore(o, x, m)]

\* The wires that have a slot after m gates; no walk hands out more slots than
\* there have been at one time.
HeldAt(f, o, m) == {x \in 0 .. m - 1 : Cnt(f, x) = 0 \/ ReadBefore(o, x, m) < Cnt(f, x)}
Needs(f, o, m) == Cardinality(HeldAt(f, o, m))
Peak(f, o, m, slots) == /\ \A i \in 0 .. m : Needs(f, o, i) <= slots
                        /\ \E i \in 0 .. m : Needs(f, o, i) = slots

\* A walk is at gate m and has handed out so many slots.
WalkOf(st, f, o, m, slots) ==
  Slotted(st, m, CountOf(f, Total(o)), ReadsOf(o, m), slots) /\ Peak(f, o, m, slots)

\* Some wire is read more often than its count says.
Starved(f, o) == \E x \in 0 .. Total(o) - 1 : Cnt(f, x) < ReadBefore(o, x, Total(o))

\* The second walk writes, behind a header with slots enough, gates that name
\* slots it has handed out.
HeaderFor(f, n) ==
  SlotAlloc!Header(f.header.gate_cnt, f.header.gen_inp_cnt, f.header.evl_inp_cnt,
                   f.header.gen_out_cnt, f.header.evl_out_cnt, SlotAlloc!idx_sz(n), n)
Headed(hf, f, o) == \E n \in 0 .. Total(o) : /\ hf.header = HeaderFor(f, n)
                                             /\ \A i \in 0 .. Total(o) : Needs(f, o, i) <= n
InSlots(g, r, slots) ==
  /\ g.tag = r.tag /\ g.table = r.table /\ g.m_idx.value \in 0 .. slots - 1
  /\ \A j \in 1 .. Binary!Arity(r.tag) : g.inputs[j].value \in 0 .. slots - 1

\* Of the first m gates of a hash-free file the one of wire x wrote slot s, and
\* none after it.
Holding(hf, x, m, s) ==
  /\ x \in 0 .. m - 1 /\ hf.gates[x + 1].m_idx.value = s
  /\ \A i \in x + 2 .. m : hf.gates[i].m_idx.value # s

\* So do the slots gate k reads hold the wires it is to read.
Wired(hf, f, k) ==
  \A j \in 1 .. Binary!Arity(At(f, k - 1).tag) :
     Holding(hf, At(f, k - 1).m_input_idx[j], k - 1, hf.gates[k].inputs[j].value)

SecondOf(hf, hd, tbl, f, o, m, slots) ==
  /\ ~Starved(f, o)
  /\ \A x \in DOMAIN tbl : hd[tbl[x].slot] = x
  /\ Headed(hf, f, o)
  /\ hf.gates = [k \in 1 .. m |-> hf.gates[k]]
  /\ \A k \in 1 .. m : InSlots(hf.gates[k], At(f, k - 1), slots) /\ Wired(hf, f, k)
  /\ \A x \in DOMAIN tbl : Holding(hf, x, m, tbl[x].slot)

SlotsInv ==
  /\ slots_pc \in {"first", "second", "done", "aborted"}
  /\ binary_pc \notin {"ready", "recounted"} => slots_pc = "first" /\ m_gate_idx = 0
  /\ m_gate_idx \in 0 .. Total(out_file) /\ tbl_max \in 0 .. m_gate_idx
  /\ holder = [s \in 0 .. MaxId |-> holder[s]]
  /\ slots_pc # "aborted" => WalkOf(SlotAlloc!Tables, bin, out_file, m_gate_idx, tbl_max)
  /\ slots_pc \in {"first", "aborted"} => hash_free = SlotAlloc!NoFile
  /\ slots_pc = "aborted" => binary_pc = "recounted" /\ Starved(bin, out_file)
  /\ slots_pc \in {"second", "done"} =>
       SecondOf(hash_free, holder, hash_tbl, bin, out_file, m_gate_idx, tbl_max)
  /\ slots_pc = "done" => m_gate_idx = Total(out_file)

\* A gate that is emitted is one of the file under the new numbers of its wires,
\* unless a lookup was misled.
Faithful ==
  ~misled => \A k \in 1 .. Len(out_file) : \E i \in 1 .. pos :
               /\ file[i].id \in live /\ out_file[k].id = newmap[file[i].id]
               /\ out_file[k].output = file[i].output
               /\ out_file[k].x = newmap[file[i].x] /\ out_file[k].y = newmap[file[i].y]
               /\ out_file[k].table = file[i].table /\ out_file[k].party = file[i].party

(***************************************************************************)
(* Counting reads.                                                         *)
(***************************************************************************)

\* A gate file as the third pass leaves it.
Chained(o) ==
  /\ o \in Seq(Gate)
  /\ \A k \in 1 .. Len(o) : /\ o[k].id = input_cnt + k
                            /\ o[k].x \in 0 .. (input_cnt + k - 1)
                            /\ o[k].y \in 0 .. (input_cnt + k - 1)

\* What that says of its numbers.
LEMMA ChainedFacts ==
  ASSUME NEW o, Chained(o)
  PROVE  /\ Len(o) \in Nat /\ Total(o) \in Nat /\ Total(o) = InpCnt + Len(o)
         /\ Total(o) <= MaxId + 1 \/ Len(o) = 0
         /\ \A k \in 1 .. Len(o) :
              /\ o[k].id \in Nat /\ o[k].id = input_cnt + k /\ o[k].id <= MaxId
              /\ o[k].x \in Nat /\ o[k].x < o[k].id
              /\ o[k].y \in Nat /\ o[k].y < o[k].id
              /\ o[k].output \in BOOLEAN /\ o[k].party \in {0, 1}
<1> USE DEF Chained
<1>1. Len(o) \in Nat
  OBVIOUS
<1>2. Total(o) \in Nat /\ Total(o) = InpCnt + Len(o)
  BY <1>1, Numbers DEF Total
<1>3. ASSUME NEW k \in 1 .. Len(o)
      PROVE  /\ o[k].id \in Nat /\ o[k].id = input_cnt + k /\ o[k].id <= MaxId
             /\ o[k].x \in Nat /\ o[k].x < o[k].id
             /\ o[k].y \in Nat /\ o[k].y < o[k].id
             /\ o[k].output \in BOOLEAN /\ o[k].party \in {0, 1}
  <2>1. o[k] \in Gate
    OBVIOUS
  <2>2. o[k].id \in Ids /\ o[k].output \in BOOLEAN /\ o[k].party \in {0, 1}
    BY <2>1, GateFacts
  <2>3. o[k].id \in Nat /\ o[k].id <= MaxId
    BY <2>2, Numbers
  <2>4. /\ o[k].id = input_cnt + k
        /\ o[k].x \in 0 .. (input_cnt + k - 1) /\ o[k].y \in 0 .. (input_cnt + k - 1)
    OBVIOUS
  <2> HIDE DEF Chained
  <2> QED
    BY <1>1, <2>2, <2>3, <2>4, Numbers
<1> HIDE DEF Chained
<1>4. Total(o) <= MaxId + 1 \/ Len(o) = 0
  <2> SUFFICES ASSUME Len(o) # 0
               PROVE  Total(o) <= MaxId + 1
    OBVIOUS
  <2>1. Len(o) \in 1 .. Len(o)
    BY <1>1
  <2>2. input_cnt + Len(o) <= MaxId
    BY <1>3, <2>1
  <2> QED
    BY <1>1, <1>2, <2>2, Numbers
<1> QED
  BY <1>1, <1>2, <1>3, <1>4

\* Whether a gate reads x first, or second.
Hit1(g, x) == IF g.x = x THEN 1 ELSE 0
Hit2(g, x) == IF ~g.output /\ g.y = x THEN 1 ELSE 0
Ones(g) == IF g.output THEN 1 ELSE 0

\* The reads, and the outputs, of any part of a file can be counted.
LEMMA ReadsType ==
  ASSUME NEW o, Len(o) \in Nat, NEW x, NEW m
  PROVE  /\ IsFiniteSet(Firsts(o, x, m)) /\ Cardinality(Firsts(o, x, m)) \in Nat
         /\ IsFiniteSet(Seconds(o, x, m)) /\ Cardinality(Seconds(o, x, m)) \in Nat
         /\ IsFiniteSet(OutsTo(o, m)) /\ Cardinality(OutsTo(o, m)) \in Nat
         /\ ReadBefore(o, x, m) \in Nat
         /\ ReadBefore(o, x, m) = Cardinality(Firsts(o, x, m)) + Cardinality(Seconds(o, x, m))
<1>1. IsFiniteSet(1 .. Len(o))
  BY FS_Interval
<1>2. /\ Firsts(o, x, m) \in SUBSET (1 .. Len(o)) /\ Seconds(o, x, m) \in SUBSET (1 .. Len(o))
      /\ OutsTo(o, m) \in SUBSET (1 .. Len(o))
  BY DEF Firsts, Seconds, OutsTo
<1>3. IsFiniteSet(Firsts(o, x, m)) /\ IsFiniteSet(Seconds(o, x, m)) /\ IsFiniteSet(OutsTo(o, m))
  BY <1>1, <1>2, FS_Subset
<1>4. /\ Cardinality(Firsts(o, x, m)) \in Nat /\ Cardinality(Seconds(o, x, m)) \in Nat
      /\ Cardinality(OutsTo(o, m)) \in Nat
  BY <1>3, FS_CardinalityType
<1> QED
  BY <1>3, <1>4 DEF ReadBefore

\* The inputs read nothing.
LEMMA ReadsStart ==
  ASSUME NEW o, Len(o) \in Nat, NEW x, NEW m \in Nat, m <= InpCnt
  PROVE  ReadBefore(o, x, m) = 0 /\ Cardinality(OutsTo(o, m)) = 0
<1>1. \A k \in 1 .. Len(o) : ~(k <= m - InpCnt)
  BY Numbers
<1>2. Firsts(o, x, m) = {} /\ Seconds(o, x, m) = {} /\ OutsTo(o, m) = {}
  BY <1>1 DEF Firsts, Seconds, OutsTo
<1> QED
  BY <1>2, FS_EmptySet DEF ReadBefore

\* One set of gates and, if it is one of them, the next gate.
LEMMA OneMore ==
  ASSUME NEW n, NEW S \in SUBSET (1 .. n), NEW T \in SUBSET (1 .. n), NEW k \in 1 .. n,
         IsFiniteSet(S), k \notin S, NEW b \in BOOLEAN,
         \A j \in 1 .. n : j \in T <=> j \in S \/ (j = k /\ b)
  PROVE  Cardinality(T) = Cardinality(S) + IF b THEN 1 ELSE 0
<1>0. Cardinality(S) \in Nat
  BY FS_CardinalityType
<1>1. CASE b
  <2>1. T = S \cup {k}
    BY <1>1
  <2> QED
    BY <1>0, <1>1, <2>1, FS_AddElement
<1>2. CASE ~b
  <2>1. T = S
    BY <1>2
  <2> QED
    BY <1>0, <1>2, <2>1
<1> QED
  BY <1>1, <1>2

\* One gate on, its own reads and itself are added.
LEMMA ReadsNext ==
  ASSUME NEW o, Len(o) \in Nat, NEW x, NEW k \in 1 .. Len(o), o[k].output \in BOOLEAN,
         NEW m \in Nat, m = input_cnt + k
  PROVE  /\ ReadBefore(o, x, m + 1) = ReadBefore(o, x, m) + Hit1(o[k], x) + Hit2(o[k], x)
         /\ Cardinality(OutsTo(o, m + 1)) = Cardinality(OutsTo(o, m)) + Ones(o[k])
         /\ Hit1(o[k], x) \in {0, 1} /\ Hit2(o[k], x) \in {0, 1} /\ Ones(o[k]) \in {0, 1}
<1> DEFINE To(j, i) == j <= i - InpCnt
<1>1. /\ \A j \in 1 .. Len(o) : To(j, m + 1) <=> To(j, m) \/ j = k
      /\ ~To(k, m)
  BY Numbers
<1>2. /\ \A i : Firsts(o, x, i) = {j \in 1 .. Len(o) : To(j, i) /\ o[j].x = x}
      /\ \A i : Seconds(o, x, i) = {j \in 1 .. Len(o) : To(j, i) /\ ~o[j].output /\ o[j].y = x}
      /\ \A i : OutsTo(o, i) = {j \in 1 .. Len(o) : To(j, i) /\ o[j].output}
  BY DEF Firsts, Seconds, OutsTo
<1> HIDE DEF To
<1>3. /\ IsFiniteSet(Firsts(o, x, m)) /\ Cardinality(Firsts(o, x, m)) \in Nat
      /\ IsFiniteSet(Seconds(o, x, m)) /\ Cardinality(Seconds(o, x, m)) \in Nat
      /\ IsFiniteSet(OutsTo(o, m)) /\ Cardinality(OutsTo(o, m)) \in Nat
  BY ReadsType
<1>4. Cardinality(Firsts(o, x, m + 1)) = Cardinality(Firsts(o, x, m)) + Hit1(o[k], x)
  <2> DEFINE b == o[k].x = x
  <2>1. /\ Firsts(o, x, m) \in SUBSET (1 .. Len(o)) /\ Firsts(o, x, m + 1) \in SUBSET (1 .. Len(o))
        /\ k \notin Firsts(o, x, m)
        /\ \A j \in 1 .. Len(o) :
             j \in Firsts(o, x, m + 1) <=> j \in Firsts(o, x, m) \/ (j = k /\ b)
    BY <1>1, <1>2
  <2>2. b \in BOOLEAN /\ Hit1(o[k], x) = IF b THEN 1 ELSE 0
    BY DEF Hit1
  <2> HIDE DEF b
  <2>3. Cardinality(Firsts(o, x, m + 1)) = Cardinality(Firsts(o, x, m)) + IF b THEN 1 ELSE 0
    BY <1>3, <2>1, <2>2, OneMore
  <2> QED
    BY <2>2, <2>3
<1>5. Cardinality(Seconds(o, x, m + 1)) = Cardinality(Seconds(o, x, m)) + Hit2(o[k], x)
  <2> DEFINE b == ~o[k].output /\ o[k].y = x
  <2>1. /\ Seconds(o, x, m) \in SUBSET (1 .. Len(o)) /\ Seconds(o, x, m + 1) \in SUBSET (1 .. Len(o))
        /\ k \notin Seconds(o, x, m)
        /\ \A j \in 1 .. Len(o) :
             j \in Seconds(o, x, m + 1) <=> j \in Seconds(o, x, m) \/ (j = k /\ b)
    BY <1>1, <1>2
  <2>2. b \in BOOLEAN /\ Hit2(o[k], x) = IF b THEN 1 ELSE 0
    BY DEF Hit2
  <2> HIDE DEF b
  <2>3. Cardinality(Seconds(o, x, m + 1)) = Cardinality(Seconds(o, x, m)) + IF b THEN 1 ELSE 0
    BY <1>3, <2>1, <2>2, OneMore
  <2> QED
    BY <2>2, <2>3
<1>6. Cardinality(OutsTo(o, m + 1)) = Cardinality(OutsTo(o, m)) + Ones(o[k])
  <2> DEFINE b == o[k].output
  <2>1. /\ OutsTo(o, m) \in SUBSET (1 .. Len(o)) /\ OutsTo(o, m + 1) \in SUBSET (1 .. Len(o))
        /\ k \notin OutsTo(o, m)
        /\ \A j \in 1 .. Len(o) : j \in OutsTo(o, m + 1) <=> j \in OutsTo(o, m) \/ (j = k /\ b)
    BY <1>1, <1>2
  <2>2. b \in BOOLEAN /\ Ones(o[k]) = IF b THEN 1 ELSE 0
    BY DEF Ones
  <2> HIDE DEF b
  <2>3. Cardinality(OutsTo(o, m + 1)) = Cardinality(OutsTo(o, m)) + IF b THEN 1 ELSE 0
    BY <1>3, <2>1, <2>2, OneMore
  <2> QED
    BY <2>2, <2>3
<1>7. Hit1(o[k], x) \in {0, 1} /\ Hit2(o[k], x) \in {0, 1} /\ Ones(o[k]) \in {0, 1}
  BY DEF Hit1, Hit2, Ones
<1>8. ReadBefore(o, x, m + 1) = ReadBefore(o, x, m) + Hit1(o[k], x) + Hit2(o[k], x)
  BY <1>3, <1>4, <1>5, <1>7 DEF ReadBefore
<1> QED
  BY <1>6, <1>7, <1>8

\* Later there are no fewer; what is left to read is the rest.
LEMMA ReadsRest ==
  ASSUME NEW o, Chained(o), NEW x, NEW m \in 0 .. Total(o)
  PROVE  /\ ReadBefore(o, x, m) <= ReadBefore(o, x, Total(o))
         /\ o = out_file => ReadsFrom(x, m) = ReadBefore(o, x, Total(o)) - ReadBefore(o, x, m)
<1> DEFINE n == Total(o)
           late == {k \in 1 .. Len(o) : k >= m + 1 - InpCnt}
           F == {k \in late : o[k].x = x}
           S == {k \in late : ~o[k].output /\ o[k].y = x}
<1>1. Len(o) \in Nat /\ n \in Nat /\ n = InpCnt + Len(o) /\ m \in Nat
  BY ChainedFacts
<1>2. \A k \in 1 .. Len(o) : k <= n - InpCnt /\ (k >= m + 1 - InpCnt <=> ~(k <= m - InpCnt))
  BY <1>1, Numbers
<1>3. IsFiniteSet(F) /\ IsFiniteSet(S) /\ Cardinality(F) \in Nat /\ Cardinality(S) \in Nat
  <2>1. IsFiniteSet(1 .. Len(o))
    BY <1>1, FS_Interval
  <2>2. F \in SUBSET (1 .. Len(o)) /\ S \in SUBSET (1 .. Len(o))
    OBVIOUS
  <2>3. IsFiniteSet(F) /\ IsFiniteSet(S)
    BY <2>1, <2>2, FS_Subset
  <2> QED
    BY <2>3, FS_CardinalityType
<1>4. /\ Firsts(o, x, n) = Firsts(o, x, m) \cup F /\ Firsts(o, x, m) \cap F = {}
      /\ Seconds(o, x, n) = Seconds(o, x, m) \cup S /\ Seconds(o, x, m) \cap S = {}
  BY <1>2 DEF Firsts, Seconds
<1>5. /\ IsFiniteSet(Firsts(o, x, m)) /\ IsFiniteSet(Seconds(o, x, m))
      /\ Cardinality(Firsts(o, x, m)) \in Nat /\ Cardinality(Seconds(o, x, m)) \in Nat
  BY <1>1, ReadsType
<1> HIDE DEF F, S
<1>6. Cardinality(Firsts(o, x, n)) = Cardinality(Firsts(o, x, m)) + Cardinality(F)
  <2>1. Cardinality(Firsts(o, x, m) \cup F)
          = Cardinality(Firsts(o, x, m)) + Cardinality(F) - Cardinality(Firsts(o, x, m) \cap F)
    BY <1>3, <1>5, FS_Union
  <2>2. Cardinality(Firsts(o, x, m) \cap F) = 0
    BY <1>4, FS_EmptySet
  <2> QED
    BY <1>3, <1>4, <1>5, <2>1, <2>2
<1>7. Cardinality(Seconds(o, x, n)) = Cardinality(Seconds(o, x, m)) + Cardinality(S)
  <2>1. Cardinality(Seconds(o, x, m) \cup S)
          = Cardinality(Seconds(o, x, m)) + Cardinality(S) - Cardinality(Seconds(o, x, m) \cap S)
    BY <1>3, <1>5, FS_Union
  <2>2. Cardinality(Seconds(o, x, m) \cap S) = 0
    BY <1>4, FS_EmptySet
  <2> QED
    BY <1>3, <1>4, <1>5, <2>1, <2>2
<1>8. ReadBefore(o, x, n) = ReadBefore(o, x, m) + Cardinality(F) + Cardinality(S)
  BY <1>3, <1>5, <1>6, <1>7 DEF ReadBefore
<1>9. ReadBefore(o, x, m) \in Nat
  BY <1>1, ReadsType
<1>10. o = out_file => ReadsFrom(x, m) = Cardinality(F) + Cardinality(S)
  <2> SUFFICES ASSUME o = out_file
               PROVE  ReadsFrom(x, m) = Cardinality(F) + Cardinality(S)
    OBVIOUS
  <2>1. DOMAIN out_file = 1 .. Len(o)
    BY DEF Chained
  <2> QED
    BY <2>1 DEF ReadsFrom, F, S
<1> QED
  BY <1>3, <1>8, <1>9, <1>10

\* A wire is not read before the gate that writes it.
LEMMA ReadsLate ==
  ASSUME NEW o, Chained(o), NEW x \in Nat, NEW m \in Nat, m <= x + 1
  PROVE  ReadBefore(o, x, m) = 0
<1>1. \A k \in 1 .. Len(o) : k <= m - InpCnt => o[k].x # x /\ o[k].y # x
  <2> SUFFICES ASSUME NEW k \in 1 .. Len(o), k <= m - InpCnt
               PROVE  o[k].x # x /\ o[k].y # x
    OBVIOUS
  <2>1. /\ o[k].x \in Nat /\ o[k].x < o[k].id /\ o[k].y \in Nat /\ o[k].y < o[k].id
        /\ o[k].id = input_cnt + k /\ Len(o) \in Nat
    BY ChainedFacts
  <2> QED
    BY <2>1, Numbers
<1>2. Firsts(o, x, m) = {} /\ Seconds(o, x, m) = {}
  BY <1>1 DEF Firsts, Seconds
<1> QED
  BY <1>2, FS_EmptySet DEF ReadBefore

(***************************************************************************)
(* Reading what was written.                                               *)
(***************************************************************************)

\* The widths, of the assumption on the constants.
LEMMA Widths ==
  /\ UINT8_MAX \in Nat /\ UINT16_MAX \in Nat /\ UINT32_MAX \in Nat
  /\ UINT8_MAX < UINT16_MAX /\ UINT16_MAX < UINT32_MAX
BY WidthAssumption

\* The numbers up to that of a gate fit the width of its inputs.
LEMMA CutIndex ==
  ASSUME NEW ix \in Nat, NEW v \in 0 .. ix
  PROVE  Binary!Cut(v, Binary!IdxSize(ix)) = v
<1>1. ASSUME NEW q \in Nat, NEW u \in Nat, u <= q
      PROVE  u % (q + 1) = u
  BY <1>1
<1>2. v \in Nat /\ v <= ix
  OBVIOUS
<1>3. CASE ix <= UINT16_MAX
  <2>1. Binary!Cut(v, Binary!IdxSize(ix)) = v % (UINT16_MAX + 1)
    BY <1>3 DEF Binary!Cut, Binary!IdxSize
  <2>2. v <= UINT16_MAX
    BY <1>2, <1>3, Widths
  <2> QED
    BY <1>1, <1>2, <2>1, <2>2, Widths
<1>4. CASE ~(ix <= UINT16_MAX) /\ ix <= UINT32_MAX
  <2>1. Binary!Cut(v, Binary!IdxSize(ix)) = v % (UINT32_MAX + 1)
    BY <1>4 DEF Binary!Cut, Binary!IdxSize
  <2>2. v <= UINT32_MAX
    BY <1>2, <1>4, Widths
  <2> QED
    BY <1>1, <1>2, <2>1, <2>2, Widths
<1>5. CASE ~(ix <= UINT16_MAX) /\ ~(ix <= UINT32_MAX)
  BY <1>5 DEF Binary!Cut, Binary!IdxSize
<1> QED
  BY <1>3, <1>4, <1>5

\* Gate k of f was written so; its inputs have the width of its number.
Wrote(f, k, tag, table, inputs, w, n) ==
  /\ f.header.cnt_size = 8
  /\ f.gates[k + 1] = Binary!GateFields(tag, table, inputs, w, n, 8)
  /\ \A i \in 1 .. Binary!Arity(tag) : w = Binary!IdxSize(k)

\* Then it is read so.
LEMMA ReadBack ==
  ASSUME NEW f, NEW k \in Nat, NEW tag, NEW table, NEW inputs, NEW w, NEW n,
         Wrote(f, k, tag, table, inputs, w, n)
  PROVE  /\ At(f, k).tag = tag /\ At(f, k).table = table /\ At(f, k).m_idx = n
         /\ At(f, k).aligned
         /\ At(f, k).m_input_idx = [i \in 1 .. Binary!Arity(tag) |-> Binary!Cut(inputs[i], w)]
<1> USE DEF Wrote
<1> DEFINE g == f.gates[k + 1]
<1>1. /\ g.tag = tag /\ g.table = table /\ g.m_idx = Binary!Field(n, 8)
      /\ g.inputs = [i \in 1 .. Binary!Arity(tag) |-> Binary!Field(inputs[i], w)]
  BY DEF Binary!GateFields
<1>2. g.m_idx.value = n /\ g.m_idx.width = 8
  BY <1>1 DEF Binary!Field, Binary!Cut
<1>3. ASSUME NEW i \in 1 .. Binary!Arity(tag)
      PROVE  g.inputs[i].value = Binary!Cut(inputs[i], w) /\ g.inputs[i].width = w
  <2> HIDE DEF g
  <2>1. g.inputs[i] = Binary!Field(inputs[i], w)
    BY <1>1
  <2> QED
    BY <2>1 DEF Binary!Field
<1>4. At(f, k) = [tag |-> g.tag, table |-> g.table,
                  m_input_idx |-> [i \in 1 .. Binary!Arity(g.tag) |-> g.inputs[i].value],
                  m_idx |-> g.m_idx.value,
                  aligned |-> /\ \A i \in 1 .. Binary!Arity(g.tag) : g.inputs[i].width = Binary!IdxSize(k)
                              /\ g.m_idx.width = f.header.cnt_size]
  BY DEF At, Binary!next_gate_binary_old, Binary!GateAt
<1> HIDE DEF g
<1>5. At(f, k).m_input_idx = [i \in 1 .. Binary!Arity(tag) |-> Binary!Cut(inputs[i], w)]
  BY <1>1, <1>3, <1>4
<1> QED
  BY <1>1, <1>2, <1>3, <1>4, <1>5

\* remove_hash has the same readers.
LEMMA SameReader ==
  /\ \A t : SlotAlloc!Arity(t) = Binary!Arity(t)
  /\ \A f, k : SlotAlloc!next_gate_binary_old(f, k) = At(f, k)
<1>1. \A t : SlotAlloc!Arity(t) = Binary!Arity(t)
  BY DEF SlotAlloc!Arity, Binary!Arity, SlotAlloc!GEN_INP, Binary!GEN_INP,
         SlotAlloc!EVL_INP, Binary!EVL_INP, SlotAlloc!ETC, Binary!ETC
<1>2. \A n : SlotAlloc!IdxSize(n) = Binary!IdxSize(n)
  BY DEF SlotAlloc!IdxSize, Binary!IdxSize
<1>3. ASSUME NEW f, NEW k, NEW i, NEW w
      PROVE  SlotAlloc!GateAt(f, k, i, w) = Binary!GateAt(f, k, i, w)
  BY <1>1 DEF SlotAlloc!GateAt, Binary!GateAt
<1> QED
  BY <1>1, <1>2, <1>3 DEF At, SlotAlloc!next_gate_binary_old, Binary!next_gate_binary_old

\* The tags as numbers, and the inputs each has.
LEMMA Tags ==
  /\ Binary!ETC = 0 /\ Binary!GEN_INP = 1 /\ Binary!EVL_INP = 2
  /\ Binary!GEN_OUT = 3 /\ Binary!EVL_OUT = 4
  /\ SlotAlloc!GEN_INP = 1 /\ SlotAlloc!EVL_INP = 2
  /\ SlotAlloc!GEN_OUT = 3 /\ SlotAlloc!EVL_OUT = 4
  /\ Binary!Arity(0) = 2 /\ Binary!Arity(1) = 0 /\ Binary!Arity(2) = 0
  /\ Binary!Arity(3) = 1 /\ Binary!Arity(4) = 1
BY DEF Binary!ETC, Binary!GEN_INP, Binary!EVL_INP, Binary!GEN_OUT, Binary!EVL_OUT,
       SlotAlloc!GEN_INP, SlotAlloc!EVL_INP, SlotAlloc!GEN_OUT, SlotAlloc!EVL_OUT, Binary!Arity

\* An input has no inputs, an output one, any other gate two.
LEMMA TagArity ==
  /\ \A k : InputTag(k) \in {1, 2} /\ Binary!Arity(InputTag(k)) = 0
  /\ \A g : g.output => TagOf(g) \in {3, 4} /\ Binary!Arity(TagOf(g)) = 1
  /\ \A g : ~g.output => TagOf(g) = 0 /\ Binary!Arity(TagOf(g)) = 2
BY Tags DEF InputTag, TagOf

\* A party for every input; the inputs stand in front of the gates.
LEMMA Parties ==
  /\ Len(InputParty) = InpCnt
  /\ DOMAIN InputParty = 1 .. InpCnt
  /\ Binary!gate_cnt = Total(out_file)
<1>1. InputParty \in Seq({0, 1}) /\ Len(InputParty) = InpCnt
  BY InputsAssumption, Numbers
<1> QED
  BY <1>1, InputsAssumption DEF Binary!gate_cnt, Total

(***************************************************************************)
(* Counting: binary.cpp and generate_count.cpp.                            *)
(***************************************************************************)

\* What DeadInv says of the gates that are emitted, for gates o and phase p.
LEMMA ChainedFile ==
  ASSUME NEW p, NEW o \in Seq(Gate), p \notin {"emit", "done"} => o = << >>,
         p \in {"emit", "done"} =>
           \A k \in 1 .. Len(o) : /\ o[k].id = input_cnt + k
                                  /\ {o[k].x, o[k].y} \subseteq 0 .. (input_cnt + k - 1)
  PROVE  Chained(o)
<1>1. CASE p \in {"emit", "done"}
  BY <1>1 DEF Chained
<1>2. CASE p \notin {"emit", "done"}
  <2>1. 1 .. Len(o) = {}
    BY <1>2
  <2> QED
    BY <2>1 DEF Chained
<1> QED
  BY <1>1, <1>2

\* The third pass leaves such a file.
LEMMA DeadChained ==
  ASSUME DeadInv
  PROVE  Chained(out_file)
<1>1. out_file \in Seq(Gate) /\ (pc \notin {"emit", "done"} => out_file = << >>)
  BY DEF DeadInv, DeadTypes, Phases
<1>2. pc \in {"emit", "done"} =>
        \A k \in 1 .. Len(out_file) :
          /\ out_file[k].id = input_cnt + k
          /\ {out_file[k].x, out_file[k].y} \subseteq 0 .. (input_cnt + k - 1)
  BY DEF DeadInv, Emitted
<1> QED
  BY <1>1, <1>2, ChainedFile

\* Every wire of the circuit file has a place in the count file.
LEMMA Sizes ==
  ASSUME DeadInv
  PROVE  /\ Len(out_file) \in Nat /\ Total(out_file) \in Nat
         /\ Total(out_file) = InpCnt + Len(out_file)
         /\ InpCnt <= MaxId /\ Total(out_file) <= MaxId + 1
<1>1. /\ Len(out_file) \in Nat /\ Total(out_file) \in Nat
      /\ Total(out_file) = InpCnt + Len(out_file)
      /\ Total(out_file) <= MaxId + 1 \/ Len(out_file) = 0
  BY DeadChained, ChainedFacts
<1>2. WellFormed(file) /\ file # << >>
  BY DEF DeadInv, DeadTypes
<1>3. InpCnt <= MaxId
  <2>1. Len(file) \in Nat /\ 1 \in 1 .. Len(file)
    BY <1>2, FileFacts
  <2>2. file[1].id \in Ids /\ file[1].id \in Nat /\ file[1].id > input_cnt
    BY <1>2, <2>1, FileFacts, GateFacts
  <2> QED
    BY <2>2, Numbers
<1> QED
  BY <1>1, <1>3, Numbers

\* set_count changes one count.
LEMMA SetCount ==
  ASSUME NEW c \in [0 .. MaxId -> Nat], NEW a \in 0 .. MaxId, NEW n \in Nat
  PROVE  /\ Binary!set_count(c, a, n) \in [0 .. MaxId -> Nat]
         /\ Binary!set_count(c, a, n)[a] = n
         /\ \A x \in 0 .. MaxId : x # a => Binary!set_count(c, a, n)[x] = c[x]
BY DEF Binary!set_count

\* inc_count adds one to one count.
LEMMA IncCount ==
  ASSUME NEW c \in [0 .. MaxId -> Nat], NEW a \in 0 .. MaxId
  PROVE  /\ Binary!inc_count(c, a) \in [0 .. MaxId -> Nat]
         /\ \A x \in 0 .. MaxId :
              Binary!inc_count(c, a)[x] = c[x] + (IF a = x THEN 1 ELSE 0)
<1>1. c[a] + 1 \in Nat
  OBVIOUS
<1>2. Binary!inc_count(c, a) = [c EXCEPT ![a] = c[a] + 1]
  BY DEF Binary!inc_count
<1>3. Binary!inc_count(c, a) \in [0 .. MaxId -> Nat]
  BY <1>1, <1>2
<1>4. ASSUME NEW x \in 0 .. MaxId
      PROVE  Binary!inc_count(c, a)[x] = c[x] + (IF a = x THEN 1 ELSE 0)
  <2>1. c[x] \in Nat
    OBVIOUS
  <2>2. CASE a = x
    BY <1>2, <2>1, <2>2
  <2>3. CASE a # x
    BY <1>2, <2>1, <2>3
  <2> QED
    BY <2>2, <2>3
<1> QED
  BY <1>3, <1>4

\* Whether binary.cpp counts a read of x for the second input.
HitS(g, x) == IF Binary!Second(g) = x THEN 1 ELSE 0
After(n, g, x) == n + Hit1(g, x) + HitS(g, x)

\* What binary.cpp makes of the counts at gate g.
LEMMA CountedFacts ==
  ASSUME NEW cnt1 \in [0 .. MaxId -> Nat], NEW g,
         g.id \in 0 .. MaxId, g.x \in 0 .. MaxId, Binary!Second(g) \in 0 .. MaxId,
         g.x # g.id, Binary!Second(g) # g.id
  PROVE  /\ Binary!Counted(cnt1, g) \in [0 .. MaxId -> Nat]
         /\ Binary!Counted(cnt1, g)[g.id] = Ones(g)
         /\ \A x \in 0 .. MaxId :
              x # g.id => Binary!Counted(cnt1, g)[x] = After(cnt1[x], g, x)
<1> DEFINE b == Binary!Second(g)
           c1 == Binary!set_count(cnt1, g.id, 0)
           c2 == Binary!inc_count(c1, g.x)
           c3 == Binary!inc_count(c2, b)
           c4 == Binary!set_count(c3, g.id, 1)
<1>0. 0 \in Nat /\ 1 \in Nat
  OBVIOUS
<1>1. Binary!Counted(cnt1, g) = IF g.output THEN c4 ELSE c3
  BY DEF Binary!Counted
<1>2. /\ c1 \in [0 .. MaxId -> Nat] /\ c1[g.id] = 0
      /\ \A x \in 0 .. MaxId : x # g.id => c1[x] = cnt1[x]
  BY <1>0 DEF Binary!set_count
<1> HIDE DEF c1, b
<1>3. /\ c2 \in [0 .. MaxId -> Nat]
      /\ \A x \in 0 .. MaxId : c2[x] = c1[x] + (IF g.x = x THEN 1 ELSE 0)
  BY <1>2, IncCount
<1> HIDE DEF c2
<1>4. b \in 0 .. MaxId /\ b # g.id
  BY DEF b
<1>5. /\ c3 \in [0 .. MaxId -> Nat]
      /\ \A x \in 0 .. MaxId : c3[x] = c2[x] + (IF b = x THEN 1 ELSE 0)
  BY <1>3, <1>4, IncCount
<1> HIDE DEF c3
<1>6. /\ c4 \in [0 .. MaxId -> Nat] /\ c4[g.id] = 1
      /\ \A x \in 0 .. MaxId : x # g.id => c4[x] = c3[x]
  <2>1. c3 \in [0 .. MaxId -> Nat]
    BY <1>5
  <2> QED
    BY <1>0, <2>1 DEF c4, Binary!set_count
<1> HIDE DEF c4
<1>7. c2[g.id] = 0 /\ c3[g.id] = 0
  BY <1>2, <1>3, <1>4, <1>5
<1>8. ASSUME NEW x \in 0 .. MaxId, x # g.id
      PROVE  c3[x] = After(cnt1[x], g, x)
  <2>1. c1[x] = cnt1[x] /\ c2[x] = c1[x] + Hit1(g, x)
    BY <1>2, <1>3, <1>8 DEF Hit1
  <2>2. c3[x] = c2[x] + HitS(g, x)
    BY <1>5 DEF HitS, b
  <2> QED
    BY <2>1, <2>2 DEF After
<1>9. CASE g.output
  <2>1. Ones(g) = 1 /\ Binary!Counted(cnt1, g) = c4
    BY <1>1, <1>9 DEF Ones
  <2> QED
    BY <1>6, <1>8, <2>1
<1>10. CASE ~g.output
  <2>1. Ones(g) = 0 /\ Binary!Counted(cnt1, g) = c3
    BY <1>1, <1>10 DEF Ones
  <2> QED
    BY <1>5, <1>7, <1>8, <2>1
<1> QED
  BY <1>9, <1>10

\* One more gate counted.
LEMMA ExpectedNext ==
  ASSUME NEW o, Chained(o), NEW k \in 1 .. Len(o), NEW m \in Nat, m = input_cnt + k,
         NEW x \in 0 .. m
  PROVE  /\ x < m => Expected(o, x, m + 1) = After(Expected(o, x, m), o[k], x)
         /\ x = m => Expected(o, x, m + 1) = Ones(o[k])
         /\ Expected(o, x, m) \in Nat
<1> DEFINE g == o[k]
<1>1. /\ Len(o) \in Nat /\ x \in Nat /\ m > 0
      /\ \A j \in 1 .. Len(o) : o[j].id = input_cnt + j /\ o[j].output \in BOOLEAN
  <2>1. /\ Len(o) \in Nat
        /\ \A j \in 1 .. Len(o) : o[j].id = input_cnt + j /\ o[j].output \in BOOLEAN
    BY ChainedFacts
  <2>2. input_cnt \in Nat
    BY Numbers
  <2>3. x \in Nat /\ m > 0
    BY <2>1, <2>2
  <2> QED
    BY <2>1, <2>3
<1>2. /\ ReadBefore(o, x, m + 1) = ReadBefore(o, x, m) + Hit1(g, x) + Hit2(g, x)
      /\ Cardinality(OutsTo(o, m + 1)) = Cardinality(OutsTo(o, m)) + Ones(g)
      /\ Hit1(g, x) \in {0, 1} /\ Hit2(g, x) \in {0, 1} /\ Ones(g) \in {0, 1}
  <2>1. o[k].output \in BOOLEAN /\ Len(o) \in Nat
    BY <1>1
  <2> QED
    BY <2>1, ReadsNext
<1>3. ReadBefore(o, x, m) \in Nat /\ Cardinality(OutsTo(o, m)) \in Nat
  BY <1>1, ReadsType
<1>4. Expected(o, x, m) \in Nat
  BY <1>3 DEF Expected
<1>5. CASE x = 0
  <2>1. /\ Expected(o, x, m) = ReadBefore(o, x, m) + Cardinality(OutsTo(o, m))
        /\ Expected(o, x, m + 1) = ReadBefore(o, x, m + 1) + Cardinality(OutsTo(o, m + 1))
    BY <1>5 DEF Expected
  <2>2. Hit2(g, x) + Ones(g) = HitS(g, x)
    <3>1. CASE g.output
      BY <1>5, <3>1 DEF Hit2, Ones, HitS, Binary!Second
    <3>2. CASE ~g.output
      BY <3>2 DEF Hit2, Ones, HitS, Binary!Second
    <3> QED
      BY <3>1, <3>2
  <2>3. Expected(o, x, m + 1) = After(Expected(o, x, m), g, x)
    <3> HIDE DEF g
    <3>1. HitS(g, x) \in {0, 1}
      BY DEF HitS
    <3> QED
      BY <1>2, <1>3, <2>1, <2>2, <3>1 DEF After
  <2> QED
    BY <1>1, <1>4, <1>5, <2>3
<1>6. CASE x # 0 /\ x < m
  <2>1. Hit2(g, x) = HitS(g, x)
    BY <1>6 DEF Hit2, HitS, Binary!Second
  <2>2. CASE IsOut(o, x)
    <3>1. /\ Expected(o, x, m) = ReadBefore(o, x, m) + 1
          /\ Expected(o, x, m + 1) = ReadBefore(o, x, m + 1) + 1
      BY <1>6, <2>2 DEF Expected
    <3>2. Expected(o, x, m + 1) = After(Expected(o, x, m), g, x)
      <4> HIDE DEF g
      <4> QED
        BY <1>2, <1>3, <2>1, <3>1 DEF After
    <3> QED
      BY <1>1, <1>4, <1>6, <3>2
  <2>3. CASE ~IsOut(o, x)
    <3>1. /\ Expected(o, x, m) = ReadBefore(o, x, m)
          /\ Expected(o, x, m + 1) = ReadBefore(o, x, m + 1)
      BY <1>6, <2>3 DEF Expected
    <3>2. Expected(o, x, m + 1) = After(Expected(o, x, m), g, x)
      <4> HIDE DEF g
      <4> QED
        BY <1>2, <1>3, <2>1, <3>1 DEF After
    <3> QED
      BY <1>1, <1>4, <1>6, <3>2
  <2> QED
    BY <2>2, <2>3
<1>7. CASE x = m
  <2>1. ReadBefore(o, x, m + 1) = 0
    BY <1>1, <1>7, ReadsLate
  <2>2. IsOut(o, x) <=> g.output
    <3>1. \A j \in 1 .. Len(o) : o[j].id = x => j = k
      BY <1>1, <1>7, Numbers
    <3>2. o[k].id = x
      BY <1>1, <1>7
    <3> QED
      BY <3>1, <3>2 DEF IsOut
  <2>3. Expected(o, x, m + 1) = IF IsOut(o, x) THEN 0 + 1 ELSE 0
    BY <1>1, <1>7, <2>1 DEF Expected
  <2> QED
    BY <1>1, <1>4, <1>7, <2>2, <2>3 DEF Ones
<1> QED
  BY <1>1, <1>5, <1>6, <1>7

\* No gate is there before the third pass has run.
LEMMA InitBinary == Binary!Init /\ pc = "mark" => BinaryInv
<1> SUFFICES ASSUME Binary!Init, pc = "mark"
             PROVE  BinaryInv
  OBVIOUS
<1>1. /\ binary_pc = "count" /\ xxx = 0 /\ usage_cnt = Binary!NoCounts /\ aligned = TRUE
  BY DEF Binary!Init
<1>2. Binary!NoCounts \in [0 .. MaxId -> Nat]
  BY Numbers DEF Binary!NoCounts, Binary!Wires
<1> QED
  BY <1>1, <1>2 DEF BinaryInv

\* The pass before ends with its gate file complete and nothing counted.
LEMMA DeadBinary ==
  ASSUME DeadInv, DeadInv', BinaryInv, Dead
  PROVE  BinaryInv'
<1>1. /\ pc # "done"
      /\ UNCHANGED <<binary_pc, xxx, usage_cnt, bin, aligned>>
  BY DEF Dead, Next, MarkGate, MarkDone, Number, EmitGate, EmitDone, binary_vars
<1>2. binary_pc = "count" /\ xxx = 0 /\ usage_cnt = Binary!NoCounts /\ aligned
  BY <1>1 DEF BinaryInv
<1>3. Binary!NoCounts \in [0 .. MaxId -> Nat] /\ \A x \in 0 .. MaxId : Binary!NoCounts[x] = 0
  BY Numbers DEF Binary!NoCounts, Binary!Wires
<1>4. ASSUME NEW o, Chained(o), NEW x \in 0 .. input_cnt, InpCnt <= MaxId
      PROVE  Binary!NoCounts[x] = Expected(o, x, InpCnt)
  <2>1. /\ Len(o) \in Nat /\ x \in Nat /\ x <= input_cnt
        /\ \A k \in 1 .. Len(o) : o[k].id = input_cnt + k
    BY <1>4, ChainedFacts, Numbers
  <2>2. ReadBefore(o, x, InpCnt) = 0 /\ Cardinality(OutsTo(o, InpCnt)) = 0
    BY <2>1, ReadsStart, Numbers
  <2>3. ~IsOut(o, x)
    BY <2>1, Numbers DEF IsOut
  <2>4. Expected(o, x, InpCnt) = 0
    BY <2>2, <2>3 DEF Expected
  <2>5. x \in 0 .. MaxId
    BY <1>4, Numbers
  <2> QED
    BY <1>3, <2>4, <2>5
<1>5. /\ Chained(out_file') /\ Len(out_file') \in Nat
  <2>1. out_file' \in Seq(Gate) /\ (pc' \notin {"emit", "done"} => out_file' = << >>)
    BY DEF DeadInv, DeadTypes, Phases
  <2>2. pc' \in {"emit", "done"} =>
          \A k \in 1 .. Len(out_file') :
            /\ out_file'[k].id = input_cnt + k
            /\ {out_file'[k].x, out_file'[k].y} \subseteq 0 .. (input_cnt + k - 1)
    BY DEF DeadInv, Emitted, input_cnt
  <2>3. Chained(out_file')
    BY <2>1, <2>2, ChainedFile
  <2> QED
    BY <2>3, ChainedFacts
<1>6. InpCnt <= MaxId
  BY Sizes
<1>7. \A x \in 0 .. input_cnt + 0 : Binary!NoCounts[x] = Expected(out_file', x, InpCnt + 0)
  BY <1>4, <1>5, <1>6, Numbers
<1>8. xxx' \in 0 .. Len(out_file')
  BY <1>1, <1>2, <1>5
<1>9. \A x \in 0 .. input_cnt + xxx' : usage_cnt'[x] = Expected(out_file', x, InpCnt + xxx')
  BY <1>1, <1>2, <1>7
<1> QED
  BY <1>1, <1>2, <1>3, <1>8, <1>9 DEF BinaryInv, input_cnt

\* binary.cpp counts one more gate.
LEMMA CountGateBinary ==
  ASSUME DeadInv, BinaryInv, pc = "done", UNCHANGED vars, Binary!CountGate
  PROVE  BinaryInv'
<1> DEFINE k == xxx + 1
           m == InpCnt + xxx
           g == out_file[k]
<1>1. /\ binary_pc = "count" /\ xxx < Len(out_file)
      /\ usage_cnt' = Binary!Counted(usage_cnt, g) /\ xxx' = xxx + 1
      /\ UNCHANGED <<binary_pc, out_file, bin, aligned>>
  BY DEF Binary!CountGate
<1>2. pc' = pc
  BY DEF vars
<1>3. /\ usage_cnt \in [0 .. MaxId -> Nat] /\ aligned /\ xxx \in 0 .. Len(out_file)
      /\ \A x \in 0 .. input_cnt + xxx : usage_cnt[x] = Expected(out_file, x, m)
  BY <1>1 DEF BinaryInv
<1>4. /\ Chained(out_file) /\ Len(out_file) \in Nat /\ InpCnt <= MaxId
      /\ Total(out_file) = InpCnt + Len(out_file) /\ Total(out_file) <= MaxId + 1
  BY DeadChained, Sizes
<1>5. /\ k \in 1 .. Len(out_file) /\ m \in Nat /\ m = input_cnt + k /\ m > 0
      /\ m <= MaxId /\ input_cnt + xxx = m - 1 /\ InpCnt + (xxx + 1) = m + 1
      /\ input_cnt + (xxx + 1) = m /\ xxx + 1 \in 0 .. Len(out_file)
  BY <1>1, <1>3, <1>4, Numbers
<1> HIDE DEF k, m
<1>6. /\ g.id = m /\ g.x \in Nat /\ g.x < m /\ g.y \in Nat /\ g.y < m /\ g.output \in BOOLEAN
  BY <1>4, <1>5, ChainedFacts
<1>7. Binary!Second(g) \in Nat /\ Binary!Second(g) < m
  BY <1>5, <1>6 DEF Binary!Second
<1>8. /\ g.id \in 0 .. MaxId /\ g.x \in 0 .. MaxId /\ Binary!Second(g) \in 0 .. MaxId
      /\ g.x # g.id /\ Binary!Second(g) # g.id
  BY <1>5, <1>6, <1>7, Numbers
<1>9. /\ usage_cnt' \in [0 .. MaxId -> Nat] /\ usage_cnt'[m] = Ones(g)
      /\ \A x \in 0 .. MaxId :
           x # m => usage_cnt'[x] = After(usage_cnt[x], g, x)
  <2>1. /\ Binary!Counted(usage_cnt, g) \in [0 .. MaxId -> Nat]
        /\ Binary!Counted(usage_cnt, g)[g.id] = Ones(g)
        /\ \A x \in 0 .. MaxId :
             x # g.id => Binary!Counted(usage_cnt, g)[x] = After(usage_cnt[x], g, x)
    <3> HIDE DEF g
    <3>1. usage_cnt \in [0 .. MaxId -> Nat] /\ g.output \in BOOLEAN
      BY <1>3, <1>6
    <3> QED
      BY <1>8, <3>1, CountedFacts
  <2>2. g.id = m /\ usage_cnt' = Binary!Counted(usage_cnt, g)
    BY <1>1, <1>6
  <2> HIDE DEF g
  <2> QED
    BY <2>1, <2>2
<1>10. ASSUME NEW x \in 0 .. m
       PROVE  usage_cnt'[x] = Expected(out_file, x, m + 1)
  <2>1. /\ x < m => Expected(out_file, x, m + 1) = After(Expected(out_file, x, m), g, x)
        /\ x = m => Expected(out_file, x, m + 1) = Ones(g)
    BY <1>4, <1>5, ExpectedNext
  <2>2. CASE x = m
    BY <1>9, <2>1, <2>2
  <2>3. CASE x # m
    <3>1. x < m /\ x \in 0 .. MaxId /\ x \in 0 .. (m - 1)
      BY <1>5, <2>3, Numbers
    <3>2. usage_cnt[x] = Expected(out_file, x, m)
      BY <1>3, <1>5, <3>1
    <3> QED
      BY <1>9, <2>1, <2>3, <3>1, <3>2
  <2> QED
    BY <2>2, <2>3
<1>11. \A x \in 0 .. input_cnt + xxx' : usage_cnt'[x] = Expected(out_file', x, InpCnt + xxx')
  BY <1>1, <1>5, <1>10
<1>12. xxx' \in 0 .. Len(out_file')
  BY <1>1, <1>5
<1>13. usage_cnt' \in [0 .. MaxId -> Nat]
  BY <1>9
<1> HIDE DEF g
<1> QED
  BY <1>1, <1>2, <1>3, <1>11, <1>12, <1>13 DEF BinaryInv, input_cnt

\* The gates of o were written so, with the numbers c.
WroteGate(f, o, k, n) ==
  \E table, inputs, w :
    /\ k < InpCnt => Wrote(f, k, InputTag(k), table, inputs, w, n)
    /\ k >= InpCnt => /\ Wrote(f, k, TagOf(o[k + 1 - InpCnt]), table, inputs, w, n)
                      /\ w = Binary!IdxSize(k) /\ table = TableOf(o[k + 1 - InpCnt])
                      /\ inputs[1] = o[k + 1 - InpCnt].x
                      /\ ~o[k + 1 - InpCnt].output => inputs[2] = o[k + 1 - InpCnt].y

\* Then its reader has the gate back, and its count.
LEMMA Written ==
  ASSUME NEW o, Chained(o), NEW f, NEW k \in 0 .. Total(o) - 1, NEW n, WroteGate(f, o, k, n)
  PROVE  Shows(f, o, k) /\ Cnt(f, k) = n
<1>1. Len(o) \in Nat /\ Total(o) \in Nat /\ Total(o) = InpCnt + Len(o)
  BY ChainedFacts
<1>2. k \in Nat /\ k < Total(o)
  BY <1>1
<1>3. PICK table, inputs, w :
        /\ k < InpCnt => Wrote(f, k, InputTag(k), table, inputs, w, n)
        /\ k >= InpCnt => /\ Wrote(f, k, TagOf(o[k + 1 - InpCnt]), table, inputs, w, n)
                          /\ w = Binary!IdxSize(k) /\ table = TableOf(o[k + 1 - InpCnt])
                          /\ inputs[1] = o[k + 1 - InpCnt].x
                          /\ ~o[k + 1 - InpCnt].output => inputs[2] = o[k + 1 - InpCnt].y
  BY DEF WroteGate
<1>4. CASE k < InpCnt
  <2>1. Wrote(f, k, InputTag(k), table, inputs, w, n)
    BY <1>3, <1>4
  <2>2. At(f, k).tag = InputTag(k) /\ At(f, k).m_idx = n /\ At(f, k).aligned
    BY <1>2, <2>1, ReadBack
  <2> QED
    BY <1>2, <1>4, <2>2, Numbers DEF Cnt, Shows
<1>5. CASE k >= InpCnt
  <2> DEFINE g == o[k + 1 - InpCnt]
             t == TagOf(g)
  <2>1. Wrote(f, k, t, table, inputs, w, n)
    BY <1>3, <1>5
  <2>2. /\ w = Binary!IdxSize(k) /\ inputs[1] = g.x /\ (~g.output => inputs[2] = g.y)
        /\ table = TableOf(g)
    BY <1>3, <1>5
  <2>3. k + 1 - InpCnt \in 1 .. Len(o) /\ input_cnt + (k + 1 - InpCnt) = k
    BY <1>1, <1>2, <1>5, Numbers
  <2>4. g.id = k /\ g.x \in Nat /\ g.x < g.id /\ g.y \in Nat /\ g.y < g.id
    BY <2>3, ChainedFacts
  <2>5. g.x \in 0 .. k /\ g.y \in 0 .. k
    BY <1>2, <2>4
  <2> HIDE DEF t
  <2>6. /\ At(f, k).tag = t /\ At(f, k).m_idx = n /\ At(f, k).aligned
        /\ At(f, k).table = table
        /\ At(f, k).m_input_idx = [i \in 1 .. Binary!Arity(t) |-> Binary!Cut(inputs[i], w)]
    BY <1>2, <2>1, ReadBack
  <2>7. 1 \in 1 .. Binary!Arity(t) /\ (~g.output => 2 \in 1 .. Binary!Arity(t))
    BY TagArity DEF t
  <2> HIDE DEF g
  <2>8. Binary!Cut(g.x, w) = g.x /\ Binary!Cut(g.y, w) = g.y
    BY <1>2, <2>2, <2>5, CutIndex
  <2>9. At(f, k).m_input_idx[1] = g.x /\ (~g.output => At(f, k).m_input_idx[2] = g.y)
    BY <2>2, <2>6, <2>7, <2>8
  <2> QED
    BY <1>2, <1>5, <2>2, <2>6, <2>9, Numbers DEF Cnt, Shows, Matches, g, t
<1> QED
  BY <1>2, <1>4, <1>5, Numbers

\* binary.cpp writes its file: gates that read only what stands before them pass the
\* assertions, and their numbers fit the widths.
LEMMA WriteBinary ==
  ASSUME DeadInv, BinaryInv, pc = "done", UNCHANGED vars, Binary!Write
  PROVE  BinaryInv'
<1> DEFINE o == out_file
           n == Total(o)
<1>1. /\ binary_pc = "count" /\ xxx = Len(o)
      /\ UNCHANGED <<out_file, xxx, usage_cnt, aligned>>
  BY DEF Binary!Write
<1>2. pc' = pc
  BY DEF vars
<1>3. /\ usage_cnt \in [0 .. MaxId -> Nat] /\ aligned
      /\ \A x \in 0 .. input_cnt + xxx : usage_cnt[x] = Expected(o, x, InpCnt + xxx)
  BY <1>1 DEF BinaryInv
<1>4. /\ Chained(o) /\ Len(o) \in Nat /\ n \in Nat /\ n = InpCnt + Len(o)
      /\ \A k \in 1 .. Len(o) : /\ o[k].id \in Nat /\ o[k].id = input_cnt + k
                                /\ o[k].x \in Nat /\ o[k].x < o[k].id
                                /\ o[k].y \in Nat /\ o[k].y < o[k].id
  BY DeadChained, ChainedFacts
<1>5. ~\E i \in 1 .. Len(o) : o[i].id <= o[i].x \/ o[i].id <= o[i].y
  BY <1>4
<1>6. /\ binary_pc' = "ready"
      /\ bin' = [header |-> Binary!Header(Binary!gate_cnt, Binary!InputsOf(0), Binary!InputsOf(1),
                                          Binary!OutputsOf(0), Binary!OutputsOf(1), Binary!CNT_SIZE, 0),
                 gates |-> [k \in 1 .. Binary!gate_cnt |->
                              IF k <= Len(InputParty) THEN Binary!InputFields(k)
                              ELSE Binary!OperationFields(o[k - Len(InputParty)])]]
  BY <1>5 DEF Binary!Write
<1>7. Len(InputParty) = InpCnt /\ Binary!gate_cnt = n /\ Binary!CNT_SIZE = 8
  BY Parties DEF Binary!CNT_SIZE
<1>8. \A p : Binary!OutputsOf(p) = Cardinality({k \in 1 .. Len(o) : o[k].output /\ o[k].party = p})
  <2>1. DOMAIN o = 1 .. Len(o)
    BY <1>4 DEF Chained
  <2> QED
    BY <2>1 DEF Binary!OutputsOf, Binary!Cardinality, Cardinality
<1>9. \A x \in 0 .. n - 1 : usage_cnt[x] = Expected(o, x, n)
  <2>1. input_cnt + xxx = n - 1 /\ InpCnt + xxx = n
    BY <1>1, <1>4, Numbers
  <2> QED
    BY <1>3, <2>1
<1>10. Lists(bin', o)
  BY <1>6, <1>7 DEF Lists
<1>11. HeaderOf(bin', o) /\ bin'.header.cnt_size = 8
  <2>1. bin'.header = Binary!Header(n, Binary!InputsOf(0), Binary!InputsOf(1),
                                    Binary!OutputsOf(0), Binary!OutputsOf(1), 8, 0)
    BY <1>6, <1>7
  <2>2. bin'.header.cnt_size = 8
    BY <2>1 DEF Binary!Header
  <2> QED
    BY <1>8, <2>1, <2>2 DEF HeaderOf
<1>12. ASSUME NEW k \in 0 .. n - 1
       PROVE  WroteGate(bin', o, k, usage_cnt[k])
  <2>1. k \in Nat /\ k < n /\ k + 1 \in 1 .. n /\ (k + 1) - 1 = k
    BY <1>4
  <2>2. bin'.gates[k + 1] = IF k + 1 <= InpCnt THEN Binary!InputFields(k + 1)
                            ELSE Binary!OperationFields(o[k + 1 - InpCnt])
    BY <1>6, <1>7, <2>1
  <2>3. CASE k < InpCnt
    <3>1. bin'.gates[k + 1] = Binary!InputFields(k + 1)
      BY <2>1, <2>2, <2>3, Numbers
    <3>2. Binary!InputFields(k + 1)
            = Binary!GateFields(InputTag(k), Binary!ZERO, << >>, 0, usage_cnt[k], 8)
      BY <1>7, <2>1 DEF Binary!InputFields, InputTag
    <3>3. Wrote(bin', k, InputTag(k), Binary!ZERO, << >>, 0, usage_cnt[k])
      BY <1>11, <3>1, <3>2, TagArity DEF Wrote
    <3> QED
      BY <2>1, <2>3, <3>3, Numbers DEF WroteGate
  <2>4. CASE k >= InpCnt
    <3> DEFINE g == o[k + 1 - InpCnt]
    <3>1. k + 1 - InpCnt \in 1 .. Len(o) /\ input_cnt + (k + 1 - InpCnt) = k
      BY <1>4, <2>1, <2>4, Numbers
    <3>2. g.id = k
      BY <1>4, <3>1
    <3>3. bin'.gates[k + 1] = Binary!OperationFields(g)
      BY <2>1, <2>2, <2>4, Numbers
    <3> HIDE DEF g
    <3>4. CASE g.output
      <4>1. Binary!OperationFields(g)
              = Binary!GateFields(TagOf(g), Binary!OutTable, <<g.x>>, Binary!IdxSize(k), usage_cnt[k], 8)
        BY <1>7, <3>2, <3>4 DEF Binary!OperationFields, TagOf, Binary!idx_size
      <4>2. Wrote(bin', k, TagOf(g), Binary!OutTable, <<g.x>>, Binary!IdxSize(k), usage_cnt[k])
        BY <1>11, <3>3, <4>1 DEF Wrote
      <4>3. <<g.x>>[1] = g.x
        OBVIOUS
      <4> QED
        BY <2>1, <2>4, <3>4, <4>2, <4>3, Numbers DEF WroteGate, TableOf, g
    <3>5. CASE ~g.output
      <4>1. Binary!OperationFields(g)
              = Binary!GateFields(TagOf(g), g.table, <<g.x, g.y>>, Binary!IdxSize(k), usage_cnt[k], 8)
        BY <1>7, <3>2, <3>5 DEF Binary!OperationFields, TagOf, Binary!idx_size
      <4>2. Wrote(bin', k, TagOf(g), g.table, <<g.x, g.y>>, Binary!IdxSize(k), usage_cnt[k])
        BY <1>11, <3>3, <4>1 DEF Wrote
      <4>3. <<g.x, g.y>>[1] = g.x /\ <<g.x, g.y>>[2] = g.y
        OBVIOUS
      <4> QED
        BY <2>1, <2>4, <3>5, <4>2, <4>3, Numbers DEF WroteGate, TableOf, g
    <3> QED
      BY <3>4, <3>5
  <2> QED
    BY <2>1, <2>3, <2>4, Numbers
<1>13. Holds(bin', o) /\ \A k \in 0 .. n - 1 : Cnt(bin', k) = usage_cnt[k]
  BY <1>4, <1>10, <1>11, <1>12, Written DEF Holds
<1>14. \A x \in 0 .. n - 1 : Cnt(bin', x) = Expected(o, x, n)
  BY <1>9, <1>13
<1>15. /\ out_file' = o /\ xxx' = xxx /\ usage_cnt' = usage_cnt /\ aligned' = aligned
  BY <1>1
<1> QED
  BY <1>1, <1>2, <1>3, <1>6, <1>13, <1>14, <1>15 DEF BinaryInv

\* generate_count.cpp starts on the file of binary.cpp.
LEMMA ReadHeaderBinary ==
  ASSUME DeadInv, BinaryInv, pc = "done", UNCHANGED vars, Binary!ReadHeader
  PROVE  BinaryInv'
<1>1. /\ binary_pc = "ready" /\ binary_pc' = "recount" /\ xxx' = 0
      /\ usage_cnt' = Binary!NoCounts /\ out_file' = out_file /\ bin' = bin /\ aligned' = aligned
  BY DEF Binary!ReadHeader
<1>2. pc' = pc
  BY DEF vars
<1>3. /\ aligned /\ Holds(bin, out_file)
      /\ \A x \in 0 .. Total(out_file) - 1 : Cnt(bin, x) = Expected(out_file, x, Total(out_file))
  BY <1>1 DEF BinaryInv
<1>4. Binary!NoCounts \in [0 .. MaxId -> Nat]
  BY Numbers DEF Binary!NoCounts, Binary!Wires
<1>5. 0 \in 0 .. Total(out_file) /\ 0 .. 0 - 1 = {}
  BY Sizes
<1> QED
  BY <1>1, <1>2, <1>3, <1>4, <1>5 DEF BinaryInv

\* What generate_count.cpp counts for a gate.
ReadOf(n, g, x) == n + Hit1(g, x) + Hit2(g, x)

\* The counts old become new at gate number k.
CountsOne(new, old, k, g) ==
  /\ new \in [0 .. MaxId -> Nat] /\ new[k] = 0
  /\ \A x \in 0 .. MaxId : x # k => new[x] = ReadOf(old[x], g, x)

\* A gate r of the file that shows gate g is counted with the reads of g.
LEMMA RecountedFacts ==
  ASSUME NEW cnt1 \in [0 .. MaxId -> Nat], NEW k \in 0 .. MaxId, NEW r, NEW g,
         Matches(r, g),
         g.x \in 0 .. MaxId, g.y \in 0 .. MaxId, g.x # k, g.y # k
  PROVE  CountsOne(Binary!Recounted(cnt1, k, r), cnt1, k, g)
<1> DEFINE c1 == Binary!set_count(cnt1, k, 0)
           c2 == Binary!inc_count(c1, g.x)
           c3 == Binary!inc_count(c2, g.y)
<1>1. /\ c1 \in [0 .. MaxId -> Nat] /\ c1[k] = 0
      /\ \A x \in 0 .. MaxId : x # k => c1[x] = cnt1[x]
  BY DEF Binary!set_count
<1>2. /\ g.output => Binary!Recounted(cnt1, k, r) = c2
      /\ ~g.output => Binary!Recounted(cnt1, k, r) = c3
  BY TagArity DEF Binary!Recounted, Matches
<1> HIDE DEF c1
<1>3. /\ c2 \in [0 .. MaxId -> Nat]
      /\ \A x \in 0 .. MaxId : c2[x] = c1[x] + (IF g.x = x THEN 1 ELSE 0)
  <2>1. c1 \in [0 .. MaxId -> Nat]
    BY <1>1
  <2> QED
    BY <2>1, IncCount
<1> HIDE DEF c2
<1>4. /\ c3 \in [0 .. MaxId -> Nat]
      /\ \A x \in 0 .. MaxId : c3[x] = c2[x] + (IF g.y = x THEN 1 ELSE 0)
  BY <1>3, IncCount
<1> HIDE DEF c3
<1>5. c2[k] = 0 /\ c3[k] = 0
  BY <1>1, <1>3, <1>4
<1>6. ASSUME NEW x \in 0 .. MaxId, x # k
      PROVE  /\ g.output => c2[x] = ReadOf(cnt1[x], g, x)
             /\ ~g.output => c3[x] = ReadOf(cnt1[x], g, x)
  <2>1. c1[x] = cnt1[x] /\ cnt1[x] \in Nat /\ c2[x] = cnt1[x] + Hit1(g, x) /\ c2[x] \in Nat
    BY <1>1, <1>3, <1>6 DEF Hit1
  <2>2. CASE g.output
    <3>1. Hit2(g, x) = 0
      BY <2>2 DEF Hit2
    <3>2. Hit1(g, x) \in {0, 1}
      BY DEF Hit1
    <3> QED
      BY <2>1, <2>2, <3>1, <3>2 DEF ReadOf
  <2>3. CASE ~g.output
    <3>1. c3[x] = c2[x] + Hit2(g, x)
      BY <1>4, <2>3 DEF Hit2
    <3> QED
      BY <2>1, <2>3, <3>1 DEF ReadOf
  <2> QED
    BY <2>2, <2>3
<1>7. CASE g.output
  BY <1>2, <1>3, <1>5, <1>6, <1>7 DEF CountsOne
<1>8. CASE ~g.output
  BY <1>2, <1>4, <1>5, <1>6, <1>8 DEF CountsOne
<1> QED
  BY <1>7, <1>8

\* generate_count.cpp counts one more gate, in step with the file.
LEMMA RecountGateBinary ==
  ASSUME DeadInv, BinaryInv, pc = "done", UNCHANGED vars, Binary!RecountGate
  PROVE  BinaryInv'
<1> DEFINE o == out_file
           n == Total(o)
           r == At(bin, xxx)
<1>1. /\ binary_pc = "recount" /\ xxx < Binary!gate_cnt /\ xxx' = xxx + 1
      /\ aligned' = r.aligned
      /\ usage_cnt' = IF r.aligned THEN Binary!Recounted(usage_cnt, xxx, r) ELSE usage_cnt
      /\ UNCHANGED <<binary_pc, out_file, bin>>
  BY DEF Binary!RecountGate, At
<1>2. pc' = pc
  BY DEF vars
<1>3. /\ usage_cnt \in [0 .. MaxId -> Nat] /\ Holds(bin, o)
      /\ xxx \in 0 .. n /\ \A x \in 0 .. xxx - 1 : usage_cnt[x] = ReadBefore(o, x, xxx)
      /\ \A x \in 0 .. n - 1 : Cnt(bin, x) = Expected(o, x, n)
  BY <1>1 DEF BinaryInv
<1>4. /\ Chained(o) /\ Len(o) \in Nat /\ n \in Nat /\ n = InpCnt + Len(o) /\ n <= MaxId + 1
      /\ Binary!gate_cnt = n
  BY DeadChained, Sizes, Parties
<1>5. /\ xxx \in Nat /\ xxx < n /\ xxx \in 0 .. n - 1 /\ xxx \in 0 .. MaxId
      /\ xxx + 1 \in 0 .. n /\ (xxx + 1) - 1 = xxx
  BY <1>1, <1>3, <1>4, Numbers
<1>6. Shows(bin, o, xxx)
  BY <1>3, <1>5 DEF Holds
<1>7. r.aligned
  BY <1>6 DEF Shows
<1>8. usage_cnt' = Binary!Recounted(usage_cnt, xxx, r) /\ aligned'
  BY <1>1, <1>7
<1>9. /\ usage_cnt' \in [0 .. MaxId -> Nat]
      /\ \A x \in 0 .. xxx : usage_cnt'[x] = ReadBefore(o, x, xxx + 1)
  <2>1. CASE xxx < InpCnt
    <3>1. Binary!Arity(r.tag) = 0
      BY <1>6, <2>1, TagArity DEF Shows
    <3>2. usage_cnt' = Binary!set_count(usage_cnt, xxx, 0)
      BY <1>8, <3>1 DEF Binary!Recounted
    <3>3. /\ usage_cnt' \in [0 .. MaxId -> Nat] /\ usage_cnt'[xxx] = 0
          /\ \A x \in 0 .. MaxId : x # xxx => usage_cnt'[x] = usage_cnt[x]
      BY <1>3, <1>5, <3>2 DEF Binary!set_count
    <3>4. ASSUME NEW x \in 0 .. xxx
          PROVE  usage_cnt'[x] = ReadBefore(o, x, xxx + 1)
      <4>1. xxx + 1 \in Nat /\ xxx + 1 <= InpCnt /\ xxx <= InpCnt /\ x \in 0 .. MaxId
        BY <1>5, <2>1, Numbers
      <4>2. ReadBefore(o, x, xxx + 1) = 0 /\ ReadBefore(o, x, xxx) = 0
        BY <1>4, <1>5, <4>1, ReadsStart
      <4>3. x # xxx => x \in 0 .. xxx - 1
        BY <1>5
      <4> QED
        BY <1>3, <3>3, <4>1, <4>2, <4>3
    <3> QED
      BY <3>3, <3>4
  <2>2. CASE xxx >= InpCnt
    <3> DEFINE k == xxx + 1 - InpCnt
               g == o[k]
    <3>1. k \in 1 .. Len(o) /\ xxx = input_cnt + k
      BY <1>4, <1>5, <2>2, Numbers
    <3>2. /\ g.id = xxx /\ g.x \in Nat /\ g.x < xxx /\ g.y \in Nat /\ g.y < xxx
          /\ g.output \in BOOLEAN
      BY <1>4, <3>1, ChainedFacts
    <3>3. Matches(r, g)
      BY <1>6, <2>2 DEF Shows
    <3>4. \A x : ReadBefore(o, x, xxx + 1) = ReadOf(ReadBefore(o, x, xxx), g, x)
      <4> HIDE DEF k
      <4>1. g.output \in BOOLEAN /\ Len(o) \in Nat
        BY <1>4, <3>2
      <4> QED
        BY <1>5, <3>1, <4>1, ReadsNext DEF ReadOf
    <3> HIDE DEF g, k, r
    <3>5. g.x \in 0 .. MaxId /\ g.y \in 0 .. MaxId /\ g.x # xxx /\ g.y # xxx
      BY <1>5, <3>2, Numbers
    <3>6. CountsOne(usage_cnt', usage_cnt, xxx, g)
      <4>1. usage_cnt \in [0 .. MaxId -> Nat] /\ xxx \in 0 .. MaxId
        BY <1>3, <1>5
      <4> QED
        BY <1>8, <3>3, <3>5, <4>1, RecountedFacts
    <3>7. ASSUME NEW x \in 0 .. xxx
          PROVE  usage_cnt'[x] = ReadBefore(o, x, xxx + 1)
      <4>1. CASE x = xxx
        <5>1. ReadBefore(o, x, xxx + 1) = 0
          BY <1>4, <1>5, <4>1, ReadsLate
        <5> QED
          BY <3>6, <4>1, <5>1 DEF CountsOne
      <4>2. CASE x # xxx
        <5>1. x \in 0 .. xxx - 1 /\ x \in 0 .. MaxId
          BY <1>5, <4>2, Numbers
        <5>2. usage_cnt[x] = ReadBefore(o, x, xxx)
          BY <1>3, <5>1
        <5> QED
          BY <3>4, <3>6, <4>2, <5>1, <5>2 DEF CountsOne
      <4> QED
        BY <4>1, <4>2
    <3> QED
      BY <3>6, <3>7 DEF CountsOne
  <2> QED
    BY <1>5, <2>1, <2>2, Numbers
<1>10. \A x \in 0 .. xxx' - 1 : usage_cnt'[x] = ReadBefore(o, x, xxx')
  BY <1>1, <1>5, <1>9
<1>11. xxx' \in 0 .. n /\ out_file' = o /\ bin' = bin /\ binary_pc' = "recount"
  BY <1>1, <1>5
<1> HIDE DEF r
<1> QED
  BY <1>2, <1>3, <1>8, <1>9, <1>10, <1>11 DEF BinaryInv

\* The gates with one input are the outputs.
LEMMA OutputTags ==
  ASSUME NEW f, NEW o, Chained(o), NEW k \in 0 .. Total(o) - 1, Shows(f, o, k)
  PROVE  /\ Binary!Arity(At(f, k).tag) = 1 <=> IsOut(o, k)
         /\ Binary!Arity(At(f, k).tag) = 0 <=> k < InpCnt
         /\ Binary!Arity(At(f, k).tag) \in {0, 1, 2}
         /\ k >= InpCnt => (IsOut(o, k) <=> o[k + 1 - InpCnt].output)
<1>1. Len(o) \in Nat /\ Total(o) = InpCnt + Len(o) /\ k \in Nat /\ k < Total(o)
  BY ChainedFacts
<1>2. \A i \in 1 .. Len(o) : o[i].id = input_cnt + i
  BY ChainedFacts
<1>3. CASE k < InpCnt
  <2>1. ~IsOut(o, k)
    BY <1>1, <1>2, <1>3, Numbers DEF IsOut
  <2>2. Binary!Arity(At(f, k).tag) = 0
    BY <1>3, TagArity DEF Shows
  <2> QED
    BY <1>1, <1>3, <2>1, <2>2, Numbers
<1>4. CASE k >= InpCnt
  <2> DEFINE j == k + 1 - InpCnt
  <2>1. j \in 1 .. Len(o) /\ input_cnt + j = k
    BY <1>1, <1>4, Numbers
  <2>2. \A i \in 1 .. Len(o) : o[i].id = k => i = j
    BY <1>1, <1>2, <1>4, Numbers
  <2>3. At(f, k).tag = TagOf(o[j])
    BY <1>4 DEF Shows, Matches
  <2> HIDE DEF j
  <2>4. o[j].id = k
    BY <1>2, <2>1
  <2>5. IsOut(o, k) <=> o[j].output
    BY <2>1, <2>2, <2>4 DEF IsOut
  <2>6. CASE o[j].output
    <3>1. Binary!Arity(At(f, k).tag) = 1
      BY <2>3, <2>6, TagArity
    <3> QED
      BY <1>1, <1>4, <2>5, <2>6, <3>1, Numbers DEF j
  <2>7. CASE ~o[j].output
    <3>1. Binary!Arity(At(f, k).tag) = 2
      BY <2>3, <2>7, TagArity
    <3> QED
      BY <1>1, <1>4, <2>5, <2>7, <3>1, Numbers DEF j
  <2> QED
    BY <2>6, <2>7
<1> QED
  BY <1>1, <1>3, <1>4, Numbers

\* generate_count.cpp writes the gates it has read with its own counts.
LEMMA RewriteBinary ==
  ASSUME DeadInv, BinaryInv, pc = "done", UNCHANGED vars, Binary!Rewrite
  PROVE  BinaryInv'
<1> DEFINE o == out_file
           n == Total(o)
           num(k) == IF Binary!Arity(At(bin, k).tag) = 1 THEN 1 ELSE usage_cnt[k]
<1>1. /\ binary_pc = "recount" /\ xxx = Binary!gate_cnt /\ binary_pc' = "recounted"
      /\ bin' = [bin EXCEPT !.gates = [k \in 1 .. Binary!gate_cnt |->
                   Binary!GateFields(At(bin, k - 1).tag, At(bin, k - 1).table,
                                     At(bin, k - 1).m_input_idx, Binary!IdxSize(k - 1),
                                     num(k - 1), Binary!CNT_SIZE)]]
      /\ UNCHANGED <<out_file, xxx, usage_cnt, aligned>>
  BY DEF Binary!Rewrite, At
<1>2. pc' = pc
  BY DEF vars
<1>3. /\ usage_cnt \in [0 .. MaxId -> Nat] /\ Holds(bin, o) /\ aligned
      /\ \A x \in 0 .. xxx - 1 : usage_cnt[x] = ReadBefore(o, x, xxx)
  BY <1>1 DEF BinaryInv
<1>4. /\ Chained(o) /\ Len(o) \in Nat /\ n \in Nat /\ n = InpCnt + Len(o)
      /\ xxx = n /\ Binary!gate_cnt = n /\ Binary!CNT_SIZE = 8
  BY <1>1, DeadChained, ChainedFacts, Parties DEF Binary!CNT_SIZE
<1> HIDE DEF num
<1>5. DOMAIN bin.gates = 1 .. n /\ bin.header.cnt_size = 8
  BY <1>3 DEF Holds, Lists, HeaderOf, Binary!Header
<1>6. /\ bin'.header = bin.header
      /\ bin'.gates = [k \in 1 .. n |->
           Binary!GateFields(At(bin, k - 1).tag, At(bin, k - 1).table,
                             At(bin, k - 1).m_input_idx, Binary!IdxSize(k - 1), num(k - 1), 8)]
  BY <1>1, <1>4
<1>7. Lists(bin', o) /\ HeaderOf(bin', o) /\ bin'.header.cnt_size = 8
  BY <1>3, <1>5, <1>6 DEF Lists, Holds, HeaderOf
<1>8. ASSUME NEW k \in 0 .. n - 1
      PROVE  WroteGate(bin', o, k, num(k))
  <2> DEFINE r == At(bin, k)
  <2>1. k \in Nat /\ k < n /\ k + 1 \in 1 .. n /\ (k + 1) - 1 = k
    BY <1>4
  <2>2. bin'.gates[k + 1] = Binary!GateFields(r.tag, r.table, r.m_input_idx, Binary!IdxSize(k), num(k), 8)
    BY <1>6, <2>1
  <2>3. Shows(bin, o, k)
    BY <1>3 DEF Holds
  <2>4. Wrote(bin', k, r.tag, r.table, r.m_input_idx, Binary!IdxSize(k), num(k))
    BY <1>7, <2>2 DEF Wrote
  <2> HIDE DEF r
  <2>5. CASE k < InpCnt
    <3>1. r.tag = InputTag(k)
      BY <2>3, <2>5 DEF Shows, r
    <3> QED
      BY <2>1, <2>4, <2>5, <3>1, Numbers DEF WroteGate
  <2>6. CASE k >= InpCnt
    <3>1. /\ r.tag = TagOf(o[k + 1 - InpCnt]) /\ r.table = TableOf(o[k + 1 - InpCnt])
          /\ r.m_input_idx[1] = o[k + 1 - InpCnt].x
          /\ ~o[k + 1 - InpCnt].output => r.m_input_idx[2] = o[k + 1 - InpCnt].y
      BY <2>3, <2>6 DEF Shows, Matches, r
    <3> QED
      BY <2>1, <2>4, <2>6, <3>1, Numbers DEF WroteGate
  <2> QED
    BY <2>1, <2>5, <2>6, Numbers
<1>9. Holds(bin', o) /\ \A k \in 0 .. n - 1 : Cnt(bin', k) = num(k)
  BY <1>4, <1>7, <1>8, Written DEF Holds
<1>10. ASSUME NEW k \in 0 .. n - 1
       PROVE  num(k) = Rewritten(o, k)
  <2>1. k \in Nat /\ k < n /\ k \in 0 .. xxx - 1
    BY <1>4
  <2>2. usage_cnt[k] = ReadBefore(o, k, n)
    BY <1>3, <1>4, <2>1
  <2>3. Shows(bin, o, k)
    BY <1>3 DEF Holds
  <2>4. Binary!Arity(At(bin, k).tag) = 1 <=> IsOut(o, k)
    BY <1>4, <2>1, <2>3, OutputTags
  <2> QED
    BY <2>2, <2>4 DEF Rewritten, num
<1>11. \A x \in 0 .. n - 1 : Cnt(bin', x) = Rewritten(o, x)
  BY <1>9, <1>10
<1>12. out_file' = o /\ usage_cnt' = usage_cnt /\ aligned' = aligned /\ binary_pc' = "recounted"
  BY <1>1
<1> QED
  BY <1>2, <1>3, <1>9, <1>11, <1>12 DEF BinaryInv

\* The invariant speaks of no other variables.
LEMMA StutterBinary ==
  ASSUME BinaryInv, UNCHANGED <<vars, binary_vars, bin, aligned>>
  PROVE  BinaryInv'
<1>1. UNCHANGED <<pc, out_file, binary_pc, xxx, usage_cnt, bin, aligned>>
  BY DEF vars, binary_vars
<1> QED
  BY <1>1 DEF BinaryInv, input_cnt

\* The circuit file has as many gates as there are.
LEMMA FileLen ==
  ASSUME NEW f, NEW o, Lists(f, o), Total(o) \in Nat
  PROVE  Len(f.gates) = Total(o) /\ DOMAIN f.gates = 1 .. Total(o)
<1>1. DOMAIN f.gates = 1 .. Total(o)
  BY DEF Lists
<1>2. f.gates \in Seq({f.gates[k] : k \in 1 .. Total(o)})
  BY DEF Lists
<1> QED
  BY <1>1, <1>2

\* remove_hash reads what binary.cpp wrote.
LEMMA RemoveHashBinary ==
  ASSUME DeadInv, BinaryInv, pc = "done", UNCHANGED vars, RemoveHash, m_gate_idx \in Nat
  PROVE  BinaryInv'
<1>1. /\ binary_pc \in {"ready", "recounted"} /\ SlotAlloc!Next
      /\ UNCHANGED <<out_file, binary_pc, xxx, usage_cnt>>
  BY DEF RemoveHash, vars, binary_vars
<1>2. bin' = bin
  BY <1>1 DEF SlotAlloc!Next, SlotAlloc!FirstWalk, SlotAlloc!Between, SlotAlloc!SecondWalk,
              SlotAlloc!SecondDone
<1>3. aligned /\ Holds(bin, out_file)
  BY <1>1 DEF BinaryInv
<1>4. Total(out_file) \in Nat
  BY Sizes
<1>5. Len(bin.gates) = Total(out_file)
  BY <1>3, <1>4, FileLen DEF Holds
<1>6. ASSUME SlotAlloc!WalkGate
      PROVE  aligned'
  <2>1. m_gate_idx < Total(out_file) /\ aligned' = SlotAlloc!Current.aligned
    BY <1>5, <1>6 DEF SlotAlloc!WalkGate, SlotAlloc!more_gate_binary
  <2>2. m_gate_idx \in 0 .. Total(out_file) - 1
    BY <1>4, <2>1
  <2>3. At(bin, m_gate_idx).aligned
    BY <1>3, <2>2 DEF Holds, Shows
  <2> QED
    BY <2>1, <2>3, SameReader DEF SlotAlloc!Current
<1>7. aligned'
  BY <1>1, <1>3, <1>6 DEF SlotAlloc!Next, SlotAlloc!FirstWalk, SlotAlloc!Between,
                          SlotAlloc!SecondWalk, SlotAlloc!SecondDone
<1>8. pc' = pc
  BY DEF vars
<1> QED
  BY <1>1, <1>2, <1>3, <1>7, <1>8 DEF BinaryInv, input_cnt

\* A step of any program keeps the invariant of the circuit file.
LEMMA BinaryStep ==
  ASSUME DeadInv, DeadInv', BinaryInv, m_gate_idx \in Nat, [NextAll]_vars_all
  PROVE  BinaryInv'
<1>1. CASE Dead
  BY <1>1, DeadBinary
<1>2. CASE Write
  <2>1. pc = "done" /\ UNCHANGED vars /\ Binary!Next
    BY <1>2 DEF Write
  <2> QED
    BY <2>1, CountGateBinary, WriteBinary, ReadHeaderBinary, RecountGateBinary, RewriteBinary
    DEF Binary!Next
<1>3. CASE RemoveHash
  <2>1. UNCHANGED vars /\ binary_pc # "count"
    BY <1>3 DEF RemoveHash
  <2>2. pc = "done"
    BY <2>1 DEF BinaryInv
  <2> QED
    BY <1>3, <2>1, <2>2, RemoveHashBinary
<1>4. CASE UNCHANGED vars_all
  BY <1>4, StutterBinary DEF vars_all
<1> QED
  BY <1>1, <1>2, <1>3, <1>4 DEF NextAll

\* The gates of the file, in the terms of CountsExact.
LEMMA BinaryCounts ==
  ASSUME DeadInv, BinaryInv
  PROVE  CountsExact
<1> DEFINE o == out_file
           n == Total(o)
           gates == Binary!GatesOld(bin)
           outputs == Cardinality({k \in DOMAIN o : o[k].output})
<1> SUFFICES ASSUME binary_pc \in {"ready", "recounted"},
                    NEW k \in DOMAIN gates, Binary!Arity(gates[k].tag) # 1
             PROVE  gates[k].m_idx = ReadsFrom(k - 1, k)
                                     + IF k = 1 /\ binary_pc = "ready" THEN outputs ELSE 0
  BY DEF CountsExact
<1>1. /\ Chained(o) /\ Len(o) \in Nat /\ n \in Nat /\ n = InpCnt + Len(o) /\ DOMAIN o = 1 .. Len(o)
  BY DeadChained, ChainedFacts DEF Chained
<1>2. Holds(bin, o)
  BY DEF BinaryInv
<1>3. k \in 1 .. n /\ gates[k] = At(bin, k - 1)
  <2>1. DOMAIN bin.gates = 1 .. n
    BY <1>1, <1>2, FileLen DEF Holds
  <2> QED
    BY <2>1 DEF Binary!GatesOld, At
<1> DEFINE x == k - 1
<1>4. x \in Nat /\ x \in 0 .. n - 1 /\ k = x + 1 /\ k \in Nat /\ k \in 0 .. n
  BY <1>1, <1>3
<1> HIDE DEF gates
<1>5. ~IsOut(o, x)
  <2>1. Shows(bin, o, x)
    BY <1>2, <1>4 DEF Holds
  <2> QED
    BY <1>1, <1>3, <1>4, <2>1, OutputTags
<1>6. ReadsFrom(x, k) = ReadBefore(o, x, n)
  <2>1. ReadBefore(o, x, k) = 0
    BY <1>1, <1>4, ReadsLate
  <2>2. ReadsFrom(x, k) = ReadBefore(o, x, n) - ReadBefore(o, x, k)
    BY <1>1, <1>4, ReadsRest
  <2>3. ReadBefore(o, x, n) \in Nat
    BY <1>1, ReadsType
  <2> QED
    BY <2>1, <2>2, <2>3
<1>7. outputs = Cardinality(OutsTo(o, n)) /\ outputs \in Nat
  <2>1. {j \in DOMAIN o : o[j].output} = OutsTo(o, n)
    BY <1>1, Numbers DEF OutsTo
  <2> QED
    BY <1>1, <2>1, ReadsType
<1>8. gates[k].m_idx = Cnt(bin, x)
  BY <1>3 DEF Cnt
<1>9. ReadBefore(o, x, n) \in Nat
  BY <1>1, ReadsType
<1> HIDE DEF outputs, x
<1>10. CASE binary_pc = "ready"
  <2>1. Cnt(bin, x) = Expected(o, x, n)
    BY <1>4, <1>10 DEF BinaryInv
  <2> QED
    BY <1>4, <1>5, <1>6, <1>7, <1>8, <1>9, <1>10, <2>1 DEF Expected, x
<1>11. CASE binary_pc = "recounted"
  <2>1. Cnt(bin, x) = Rewritten(o, x)
    BY <1>4, <1>11 DEF BinaryInv
  <2> QED
    BY <1>4, <1>5, <1>6, <1>8, <1>9, <1>11, <2>1 DEF Rewritten, x
<1> QED
  BY <1>10, <1>11

(***************************************************************************)
(* Slots: the reads of a gate, and the slot it writes.                     *)
(***************************************************************************)

\* One more read of x0 counted down.
ReadOnce(rho, rho2, x0, m) ==
  /\ rho2[x0] = rho[x0] + 1
  /\ \A x \in 0 .. m - 1 : x # x0 => rho2[x] = rho[x]

\* The tables with one entry of the record, or two, replaced.
WithTbl(st, t) == [st EXCEPT !.tbl = t]
WithFailed(st, b) == [st EXCEPT !.failed = b]
WithAvail(st, a) == [st EXCEPT !.avail = a]
WithBoth(st, t, a) == [st EXCEPT !.tbl = t, !.avail = a]

\* Records of the type, with the entry of the name replaced.
LEMMA NewTable ==
  ASSUME NEW t2, NEW st, NEW T, NEW A, st \in [tbl : T, avail : A, failed : BOOLEAN], t2 \in T
  PROVE  WithTbl(st, t2) = [tbl |-> t2, avail |-> st.avail, failed |-> st.failed]
BY DEF WithTbl

LEMMA NewAvail ==
  ASSUME NEW t2, NEW st, NEW T, NEW A, st \in [tbl : T, avail : A, failed : BOOLEAN], t2 \in A
  PROVE  WithAvail(st, t2) = [tbl |-> st.tbl, avail |-> t2, failed |-> st.failed]
BY DEF WithAvail

LEMMA FailedSet ==
  ASSUME NEW b, NEW st, NEW T, NEW A, st \in [tbl : T, avail : A, failed : BOOLEAN], b \in BOOLEAN
  PROVE  WithFailed(st, b) = [tbl |-> st.tbl, avail |-> st.avail, failed |-> b]
BY DEF WithFailed

\* Tables that have not failed, with new entries.
LEMMA NewBoth ==
  ASSUME NEW t, NEW a, NEW t2, NEW a2, NEW st, st = [tbl |-> t, avail |-> a, failed |-> FALSE]
  PROVE  /\ WithTbl(st, t2) = [tbl |-> t2, avail |-> a, failed |-> FALSE]
         /\ WithBoth(st, t2, a2) = [tbl |-> t2, avail |-> a2, failed |-> FALSE]
<1> DEFINE T == {t, t2}
           A == {a, a2}
<1>1. /\ st \in [tbl : T, avail : A, failed : BOOLEAN]
      /\ st.avail = a /\ st.failed = FALSE /\ t2 \in T /\ a \in A /\ a2 \in A
  OBVIOUS
<1> HIDE DEF T, A
<1>2. WithTbl(st, t2) = [tbl |-> t2, avail |-> st.avail, failed |-> st.failed]
  BY <1>1, NewTable
<1>3. WithTbl(st, t2) = [tbl |-> t2, avail |-> a, failed |-> FALSE]
  BY <1>1, <1>2
<1> DEFINE s2 == WithTbl(st, t2)
<1>4. s2 = [tbl |-> t2, avail |-> a, failed |-> FALSE]
  BY <1>3
<1> HIDE DEF s2
<1>5. s2 \in [tbl : T, avail : A, failed : BOOLEAN] /\ s2.tbl = t2 /\ s2.failed = FALSE
  BY <1>1, <1>4
<1>6. WithAvail(s2, a2) = [tbl |-> t2, avail |-> a2, failed |-> FALSE]
  BY <1>1, <1>5, NewAvail
<1>7. WithBoth(st, t2, a2) = WithAvail(s2, a2)
  BY Zenon DEF WithBoth, WithAvail, WithTbl, s2
<1> QED
  BY <1>3, <1>6, <1>7

\* Tables that fail.
LEMMA NewFailed ==
  ASSUME NEW t, NEW a, NEW st, st = [tbl |-> t, avail |-> a, failed |-> FALSE]
  PROVE  WithFailed(st, TRUE) = [tbl |-> t, avail |-> a, failed |-> TRUE]
<1> DEFINE T == {t}
           A == {a}
<1>1. st \in [tbl : T, avail : A, failed : BOOLEAN] /\ st.tbl = t /\ st.avail = a
  OBVIOUS
<1> HIDE DEF T, A
<1>2. WithFailed(st, TRUE) = [tbl |-> st.tbl, avail |-> st.avail, failed |-> TRUE]
  BY <1>1, FailedSet
<1> QED
  BY <1>1, <1>2

\* What Release makes of the tables.
Dropped(t, x0) == [x \in DOMAIN t \ {x0} |-> t[x]]
Lowered(t, x0) == [x \in DOMAIN t |-> IF x = x0 THEN [slot |-> t[x0].slot, left |-> t[x0].left - 1]
                                      ELSE t[x]]

\* Release has three outcomes: a wire that is not in the table fails, its last read
\* frees the slot, and any other read is counted down.
LEMMA ReleaseFacts ==
  ASSUME NEW st, NEW x0, st = [tbl |-> st.tbl, avail |-> st.avail, failed |-> FALSE],
         st.tbl = [x \in DOMAIN st.tbl |-> st.tbl[x]]
  PROVE  /\ x0 \notin DOMAIN st.tbl =>
              SlotAlloc!Release(st, x0) = [tbl |-> st.tbl, avail |-> st.avail, failed |-> TRUE]
         /\ x0 \in DOMAIN st.tbl /\ st.tbl[x0].left = 1 =>
              SlotAlloc!Release(st, x0) = [tbl |-> Dropped(st.tbl, x0),
                                           avail |-> st.avail \cup {st.tbl[x0].slot},
                                           failed |-> FALSE]
         /\ x0 \in DOMAIN st.tbl /\ st.tbl[x0].left # 1 =>
              SlotAlloc!Release(st, x0) = [tbl |-> Lowered(st.tbl, x0),
                                           avail |-> st.avail, failed |-> FALSE]
<1>1. ASSUME x0 \notin DOMAIN st.tbl
      PROVE  SlotAlloc!Release(st, x0) = [tbl |-> st.tbl, avail |-> st.avail, failed |-> TRUE]
  <2>1. SlotAlloc!Release(st, x0) = WithFailed(st, TRUE)
    BY <1>1, Zenon DEF SlotAlloc!Release, WithFailed
  <2> QED
    BY <2>1, NewFailed
<1>2. ASSUME x0 \in DOMAIN st.tbl, st.tbl[x0].left = 1
      PROVE  SlotAlloc!Release(st, x0) = [tbl |-> Dropped(st.tbl, x0),
                                          avail |-> st.avail \cup {st.tbl[x0].slot},
                                          failed |-> FALSE]
  <2> DEFINE t == SlotAlloc!Restrict(st.tbl, DOMAIN st.tbl \ {x0})
             a == st.avail \cup {st.tbl[x0].slot}
  <2>1. SlotAlloc!Release(st, x0) = WithBoth(st, t, a)
    BY <1>2, Zenon DEF SlotAlloc!Release, SlotAlloc!LastRead, WithBoth
  <2>2. t = Dropped(st.tbl, x0)
    BY DEF SlotAlloc!Restrict, Dropped
  <2> HIDE DEF t, a
  <2>3. WithBoth(st, t, a) = [tbl |-> t, avail |-> a, failed |-> FALSE]
    BY NewBoth
  <2> QED
    BY <2>1, <2>2, <2>3 DEF a
<1>3. ASSUME x0 \in DOMAIN st.tbl, st.tbl[x0].left # 1
      PROVE  SlotAlloc!Release(st, x0) = [tbl |-> Lowered(st.tbl, x0),
                                          avail |-> st.avail, failed |-> FALSE]
  <2> DEFINE t == SlotAlloc!CountDown(st.tbl, x0)
  <2>1. SlotAlloc!Release(st, x0) = WithTbl(st, t)
    BY <1>3, Zenon DEF SlotAlloc!Release, SlotAlloc!LastRead, WithTbl
  <2>2. t = Lowered(st.tbl, x0)
    BY DEF Lowered, SlotAlloc!CountDown
  <2> HIDE DEF t
  <2>3. WithTbl(st, t) = [tbl |-> t, avail |-> st.avail, failed |-> FALSE]
    BY NewBoth
  <2> QED
    BY <2>1, <2>2, <2>3
<1> QED
  BY <1>1, <1>2, <1>3

\* A read of a wire that has reads left keeps the tables in order.
LEMMA Releasing ==
  ASSUME NEW st, NEW m \in Nat, NEW count, NEW rho, NEW rho2, NEW slots \in Nat,
         Slotted(st, m, count, rho, slots),
         NEW x0 \in 0 .. m - 1, count[x0] \in Nat, rho[x0] \in Nat,
         rho[x0] < count[x0], ReadOnce(rho, rho2, x0, m)
  PROVE  /\ Slotted(SlotAlloc!Release(st, x0), m, count, rho2, slots)
         /\ x0 \in DOMAIN st.tbl
         /\ \A x \in DOMAIN SlotAlloc!Release(st, x0).tbl :
              x \in DOMAIN st.tbl /\ SlotAlloc!Release(st, x0).tbl[x].slot = st.tbl[x].slot
<1> DEFINE new == SlotAlloc!Release(st, x0)
           e == st.tbl[x0]
<1>1. /\ st = [tbl |-> st.tbl, avail |-> st.avail, failed |-> FALSE]
      /\ st.tbl = [x \in DOMAIN st.tbl |-> st.tbl[x]]
      /\ DOMAIN st.tbl = {x \in 0 .. m - 1 : count[x] = 0 \/ rho[x] < count[x]}
      /\ \A x \in 0 .. m - 1 : rho[x] <= count[x]
      /\ \A x \in DOMAIN st.tbl : /\ st.tbl[x].slot \in 0 .. slots - 1
                                  /\ st.tbl[x].left = count[x] - rho[x]
                                  /\ st.tbl[x].slot \notin st.avail
      /\ \A x, z \in DOMAIN st.tbl : x # z => st.tbl[x].slot # st.tbl[z].slot
      /\ st.avail \subseteq 0 .. slots - 1
      /\ \A s \in 0 .. slots - 1 : s \in st.avail \/ \E x \in DOMAIN st.tbl : st.tbl[x].slot = s
  BY DEF Slotted
<1>2. x0 \in DOMAIN st.tbl /\ e.left = count[x0] - rho[x0]
  BY <1>1
<1>3. /\ rho2[x0] = rho[x0] + 1 /\ rho2[x0] <= count[x0]
      /\ \A x \in 0 .. m - 1 : x # x0 => rho2[x] = rho[x]
  BY DEF ReadOnce
<1>4. CASE e.left = 1
  <2>1. new = [tbl |-> Dropped(st.tbl, x0), avail |-> st.avail \cup {e.slot}, failed |-> FALSE]
    BY <1>1, <1>2, <1>4, ReleaseFacts
  <2> HIDE DEF new
  <2>2. /\ new.tbl = [x \in DOMAIN st.tbl \ {x0} |-> st.tbl[x]]
        /\ new.avail = st.avail \cup {e.slot} /\ new.failed = FALSE
        /\ DOMAIN new.tbl = DOMAIN st.tbl \ {x0}
    BY <2>1 DEF Dropped, Lowered
  <2>3. new = [tbl |-> new.tbl, avail |-> new.avail, failed |-> FALSE]
    BY <2>1, <2>2
  <2>4. rho2[x0] = count[x0] /\ count[x0] # 0
    BY <1>2, <1>3, <1>4
  <2>5. DOMAIN new.tbl = {x \in 0 .. m - 1 : count[x] = 0 \/ rho2[x] < count[x]}
    <3>1. ASSUME NEW x \in DOMAIN new.tbl
          PROVE  x \in 0 .. m - 1 /\ (count[x] = 0 \/ rho2[x] < count[x])
      BY <1>1, <1>3, <2>2
    <3>2. ASSUME NEW x \in 0 .. m - 1, count[x] = 0 \/ rho2[x] < count[x]
          PROVE  x \in DOMAIN new.tbl
      <4>1. x # x0
        BY <2>4, <3>2
      <4> QED
        BY <1>1, <1>3, <2>2, <3>2, <4>1
    <3> QED
      BY <3>1, <3>2
  <2>6. \A x \in DOMAIN new.tbl : x \in DOMAIN st.tbl /\ x # x0 /\ new.tbl[x] = st.tbl[x]
    BY <2>2
  <2>7. \A x \in DOMAIN new.tbl : /\ new.tbl[x].slot \in 0 .. slots - 1
                                  /\ new.tbl[x].left = count[x] - rho2[x]
                                  /\ new.tbl[x].slot \notin new.avail
    BY <1>1, <1>2, <1>3, <2>2, <2>6
  <2>8. \A x, z \in DOMAIN new.tbl : x # z => new.tbl[x].slot # new.tbl[z].slot
    BY <1>1, <2>6
  <2>9. ASSUME NEW s \in 0 .. slots - 1
        PROVE  s \in new.avail \/ \E x \in DOMAIN new.tbl : new.tbl[x].slot = s
    BY <1>1, <1>2, <2>2
  <2>10. new.avail \subseteq 0 .. slots - 1
    BY <1>1, <1>2, <2>2
  <2>11. \A x \in 0 .. m - 1 : rho2[x] <= count[x]
    BY <1>1, <1>3
  <2>12. new.tbl = [x \in DOMAIN new.tbl |-> new.tbl[x]]
    BY <2>2
  <2>13. Slotted(new, m, count, rho2, slots)
    BY <2>3, <2>5, <2>7, <2>8, <2>9, <2>10, <2>11, <2>12 DEF Slotted
  <2> QED
    BY <1>2, <2>6, <2>13 DEF new
<1>5. CASE e.left # 1
  <2>1. new = [tbl |-> Lowered(st.tbl, x0), avail |-> st.avail, failed |-> FALSE]
    BY <1>1, <1>2, <1>5, ReleaseFacts
  <2> HIDE DEF new
  <2>2. /\ new.tbl = [x \in DOMAIN st.tbl |->
                        IF x = x0 THEN [slot |-> e.slot, left |-> e.left - 1] ELSE st.tbl[x]]
        /\ new.avail = st.avail /\ new.failed = FALSE /\ DOMAIN new.tbl = DOMAIN st.tbl
    BY <2>1 DEF Dropped, Lowered
  <2>3. new = [tbl |-> new.tbl, avail |-> new.avail, failed |-> FALSE]
    BY <2>1, <2>2
  <2>4. rho2[x0] < count[x0]
    BY <1>2, <1>3, <1>5
  <2>5. DOMAIN new.tbl = {x \in 0 .. m - 1 : count[x] = 0 \/ rho2[x] < count[x]}
    <3>1. \A x \in 0 .. m - 1 : (count[x] = 0 \/ rho[x] < count[x])
                                 <=> (count[x] = 0 \/ rho2[x] < count[x])
      BY <1>3, <2>4
    <3> QED
      BY <1>1, <2>2, <3>1
  <2>6. \A x \in DOMAIN new.tbl : /\ x \in DOMAIN st.tbl /\ new.tbl[x].slot = st.tbl[x].slot
                                  /\ x # x0 => new.tbl[x] = st.tbl[x]
                                  /\ x = x0 => new.tbl[x].left = e.left - 1
    BY <2>2
  <2>7. \A x \in DOMAIN new.tbl : /\ new.tbl[x].slot \in 0 .. slots - 1
                                  /\ new.tbl[x].left = count[x] - rho2[x]
                                  /\ new.tbl[x].slot \notin new.avail
    <3> TAKE x \in DOMAIN new.tbl
    <3>1. new.tbl[x].slot \in 0 .. slots - 1 /\ new.tbl[x].slot \notin new.avail
      BY <1>1, <2>2, <2>6
    <3>2. x = x0 => new.tbl[x].left = count[x] - rho2[x]
      BY <1>2, <1>3, <2>6
    <3>3. x # x0 => new.tbl[x].left = count[x] - rho2[x]
      BY <1>1, <1>3, <2>6
    <3> QED
      BY <3>1, <3>2, <3>3
  <2>8. \A x, z \in DOMAIN new.tbl : x # z => new.tbl[x].slot # new.tbl[z].slot
    BY <1>1, <2>6
  <2>9. ASSUME NEW s \in 0 .. slots - 1
        PROVE  s \in new.avail \/ \E x \in DOMAIN new.tbl : new.tbl[x].slot = s
    <3>1. \A x \in DOMAIN st.tbl : x \in DOMAIN new.tbl /\ new.tbl[x].slot = st.tbl[x].slot
      BY <2>2
    <3>2. s \in st.avail \/ \E x \in DOMAIN st.tbl : st.tbl[x].slot = s
      BY <1>1
    <3>3. st.avail = new.avail
      BY <2>2
    <3> QED
      BY <3>1, <3>2, <3>3
  <2>10. new.avail \subseteq 0 .. slots - 1
    BY <1>1, <2>2
  <2>11. \A x \in 0 .. m - 1 : rho2[x] <= count[x]
    BY <1>1, <1>3
  <2>12. new.tbl = [x \in DOMAIN new.tbl |-> new.tbl[x]]
    BY <2>2
  <2>13. Slotted(new, m, count, rho2, slots)
    BY <2>3, <2>5, <2>7, <2>8, <2>9, <2>10, <2>11, <2>12 DEF Slotted
  <2> QED
    BY <1>2, <2>6, <2>13 DEF new
<1> QED
  BY <1>4, <1>5

\* A set of numbers that is not empty has a least one.
LEMMA Smallest ==
  ASSUME NEW S \in SUBSET Nat, S # {}
  PROVE  \E n \in S : \A m \in S : n <= m
<1> DEFINE I(n) == 0 .. n
           T == {I(n) : n \in S}
<1>1. IsWellFoundedOn(StrictSubsetOrdering(Nat), FiniteSubsetsOf(Nat))
  BY FS_StrictSubsetOrderingWellFounded
<1>2. T \subseteq FiniteSubsetsOf(Nat)
  <2>1. \A n \in S : I(n) \in SUBSET Nat /\ IsFiniteSet(I(n))
    BY FS_Interval
  <2> QED
    BY <2>1 DEF FiniteSubsetsOf
<1>3. T # {}
  OBVIOUS
<1>4. PICK x \in T : \A y \in T : ~ (<<y, x>> \in StrictSubsetOrdering(Nat))
  BY <1>1, <1>2, <1>3, WFMin
<1>5. PICK n \in S : x = I(n)
  OBVIOUS
<1>6. ASSUME NEW m \in S, m < n
      PROVE  FALSE
  <2>1. /\ I(m) \subseteq I(n) /\ I(m) # I(n) /\ I(m) \in T
        /\ I(m) \in SUBSET Nat /\ I(n) \in SUBSET Nat
    BY <1>6
  <2>2. <<I(m), I(n)>> \in StrictSubsetOrdering(Nat)
    BY <2>1 DEF StrictSubsetOrdering
  <2> QED
    BY <2>1, <2>2, <1>4, <1>5
<1> QED
  BY <1>6

\* The slot for gate m, of n handed out so far, n2 of them then.
Chosen(st, idx, n, n2) ==
  /\ st.avail = {} => idx = n /\ n2 = n + 1
  /\ st.avail # {} => idx \in st.avail /\ n2 = n

\* SlotFor chooses such a slot.
LEMMA SlotForChosen ==
  ASSUME NEW st, st.avail \in SUBSET Nat
  PROVE  Chosen(st, SlotAlloc!SlotFor(st), tbl_max, IF st.avail = {} THEN tbl_max + 1 ELSE tbl_max)
<1>1. CASE st.avail = {}
  BY <1>1 DEF Chosen, SlotAlloc!SlotFor
<1>2. CASE st.avail # {}
  <2>1. \E n \in st.avail : \A m \in st.avail : n <= m
    BY <1>2, Smallest
  <2>2. SlotAlloc!Min(st.avail) \in st.avail
    BY <2>1 DEF SlotAlloc!Min
  <2> QED
    BY <1>2, <2>2 DEF Chosen, SlotAlloc!SlotFor
<1> QED
  BY <1>1, <1>2

\* Wire m is given slot idx, with n reads to come.
Placed(t, m, idx, n) ==
  [x \in DOMAIN t \cup {m} |-> IF x = m THEN [slot |-> idx, left |-> n] ELSE t[x]]
WithGate(st, m, idx, n) ==
  [tbl |-> Placed(st.tbl, m, idx, n), avail |-> SlotAlloc!Popped(st.avail, idx), failed |-> FALSE]

\* The tables st are in order with wire m added, and no other wire has its slot.
Placement(st, m, count, rho, slots, idx, slots2) ==
  LET new == WithGate(st, m, idx, count[m])
  IN  /\ Slotted(new, m + 1, count, rho, slots2)
      /\ idx \in 0 .. slots2 - 1 /\ slots2 \in Nat /\ slots <= slots2 /\ slots2 <= slots + 1
      /\ \A x \in DOMAIN st.tbl : st.tbl[x].slot # idx
      /\ \A x \in DOMAIN new.tbl : x = m \/ x \in DOMAIN st.tbl
      /\ new.tbl[m].slot = idx
      /\ \A x \in DOMAIN st.tbl : new.tbl[x].slot = st.tbl[x].slot

\* A wire that is given such a slot has it for its own.
LEMMA Placing ==
  ASSUME NEW st, NEW m \in Nat, NEW count, NEW rho, NEW slots \in Nat,
         Slotted(st, m, count, rho, slots), NEW idx, NEW slots2, Chosen(st, idx, slots, slots2),
         count[m] \in Nat, rho[m] = 0
  PROVE  Placement(st, m, count, rho, slots, idx, slots2)
<1> DEFINE new == WithGate(st, m, idx, count[m])
<1>1. /\ st.tbl = [x \in DOMAIN st.tbl |-> st.tbl[x]]
      /\ DOMAIN st.tbl = {x \in 0 .. m - 1 : count[x] = 0 \/ rho[x] < count[x]}
      /\ \A x \in 0 .. m - 1 : rho[x] <= count[x]
      /\ \A x \in DOMAIN st.tbl : /\ st.tbl[x].slot \in 0 .. slots - 1
                                  /\ st.tbl[x].left = count[x] - rho[x]
                                  /\ st.tbl[x].slot \notin st.avail
      /\ \A x, z \in DOMAIN st.tbl : x # z => st.tbl[x].slot # st.tbl[z].slot
      /\ st.avail \subseteq 0 .. slots - 1
      /\ \A s \in 0 .. slots - 1 : s \in st.avail \/ \E x \in DOMAIN st.tbl : st.tbl[x].slot = s
  BY DEF Slotted
<1>2. /\ new.tbl = Placed(st.tbl, m, idx, count[m]) /\ new.avail = st.avail \ {idx}
      /\ new.failed = FALSE
      /\ new = [tbl |-> new.tbl, avail |-> new.avail, failed |-> FALSE]
  BY DEF WithGate, SlotAlloc!Popped
<1> HIDE DEF new
<1>3. /\ DOMAIN new.tbl = DOMAIN st.tbl \cup {m}
      /\ new.tbl = [x \in DOMAIN new.tbl |-> new.tbl[x]]
      /\ m \notin DOMAIN st.tbl
      /\ new.tbl[m].slot = idx /\ new.tbl[m].left = count[m]
      /\ \A x \in DOMAIN st.tbl : x # m /\ new.tbl[x] = st.tbl[x]
  <2>1. m \notin DOMAIN st.tbl
    BY <1>1
  <2> QED
    BY <1>2, <2>1 DEF Placed
<1>4. /\ slots2 \in Nat /\ slots <= slots2 /\ slots2 <= slots + 1 /\ idx \in 0 .. slots2 - 1
      /\ \A x \in DOMAIN st.tbl : st.tbl[x].slot # idx
      /\ \A s \in 0 .. slots2 - 1 : s \in 0 .. slots - 1 \/ s = idx
  <2>1. CASE st.avail = {}
    BY <1>1, <2>1 DEF Chosen
  <2>2. CASE st.avail # {}
    <3>1. idx \in st.avail /\ slots2 = slots
      BY <2>2 DEF Chosen
    <3>2. idx \in 0 .. slots - 1 /\ \A x \in DOMAIN st.tbl : st.tbl[x].slot # idx
      BY <1>1, <3>1
    <3> QED
      BY <3>1, <3>2
  <2> QED
    BY <2>1, <2>2
<1>5. DOMAIN new.tbl = {x \in 0 .. (m + 1) - 1 : count[x] = 0 \/ rho[x] < count[x]}
  <2>1. \A x \in 0 .. (m + 1) - 1 : x \in 0 .. m - 1 \/ x = m
    OBVIOUS
  <2>2. m \in 0 .. (m + 1) - 1 /\ \A x \in 0 .. m - 1 : x \in 0 .. (m + 1) - 1
    OBVIOUS
  <2>3. count[m] = 0 \/ rho[m] < count[m]
    OBVIOUS
  <2>4. ASSUME NEW x \in DOMAIN new.tbl
        PROVE  x \in 0 .. (m + 1) - 1 /\ (count[x] = 0 \/ rho[x] < count[x])
    <3>1. CASE x = m
      BY <2>2, <2>3, <3>1
    <3>2. CASE x # m
      <4>1. x \in 0 .. m - 1 /\ (count[x] = 0 \/ rho[x] < count[x])
        BY <1>1, <1>3, <3>2
      <4> QED
        BY <2>2, <4>1
    <3> QED
      BY <3>1, <3>2
  <2>5. ASSUME NEW x \in 0 .. (m + 1) - 1, count[x] = 0 \/ rho[x] < count[x]
        PROVE  x \in DOMAIN new.tbl
    <3>1. x = m \/ x \in {z \in 0 .. m - 1 : count[z] = 0 \/ rho[z] < count[z]}
      BY <2>1, <2>5
    <3> QED
      BY <1>1, <1>3, <3>1
  <2> QED
    BY <2>4, <2>5
<1>6. \A x \in 0 .. (m + 1) - 1 : rho[x] <= count[x]
  <2>1. \A x \in 0 .. (m + 1) - 1 : x \in 0 .. m - 1 \/ x = m
    OBVIOUS
  <2> QED
    BY <1>1, <2>1
<1>7. ASSUME NEW x \in DOMAIN new.tbl
      PROVE  /\ new.tbl[x].slot \in 0 .. slots2 - 1
             /\ new.tbl[x].left = count[x] - rho[x]
             /\ new.tbl[x].slot \notin new.avail
  <2>1. CASE x = m
    BY <1>2, <1>3, <1>4, <2>1
  <2>2. CASE x # m
    <3>1. x \in DOMAIN st.tbl /\ new.tbl[x] = st.tbl[x]
      BY <1>1, <1>3, <2>2
    <3>2. /\ st.tbl[x].slot \in 0 .. slots - 1 /\ st.tbl[x].left = count[x] - rho[x]
          /\ st.tbl[x].slot \notin st.avail
      BY <1>1, <3>1
    <3>3. st.tbl[x].slot \in 0 .. slots2 - 1
      BY <1>4, <3>2
    <3> QED
      BY <1>2, <3>1, <3>2, <3>3
  <2> QED
    BY <2>1, <2>2
<1>8. \A x, z \in DOMAIN new.tbl : x # z => new.tbl[x].slot # new.tbl[z].slot
  BY <1>1, <1>3, <1>4
<1>9. new.avail \subseteq 0 .. slots2 - 1
  BY <1>1, <1>2, <1>4
<1>10. ASSUME NEW s \in 0 .. slots2 - 1
       PROVE  s \in new.avail \/ \E x \in DOMAIN new.tbl : new.tbl[x].slot = s
  <2>1. CASE s = idx
    BY <1>3, <2>1
  <2>2. CASE s # idx
    <3>1. s \in st.avail \/ \E x \in DOMAIN st.tbl : st.tbl[x].slot = s
      BY <1>1, <1>4, <2>2
    <3>2. \A x \in DOMAIN st.tbl : x \in DOMAIN new.tbl /\ new.tbl[x].slot = st.tbl[x].slot
      BY <1>3
    <3>3. s \in st.avail => s \in new.avail
      BY <1>2, <2>2
    <3> QED
      BY <3>1, <3>2, <3>3
  <2> QED
    BY <2>1, <2>2
<1>11. Slotted(new, m + 1, count, rho, slots2)
  BY <1>2, <1>3, <1>5, <1>6, <1>7, <1>8, <1>9, <1>10 DEF Slotted
<1> QED
  BY <1>3, <1>4, <1>11 DEF new, Placement

\* There are as many slots as wires that have one, or more; no more when none
\* is free.
LEMMA Full ==
  ASSUME NEW st, NEW m \in Nat, NEW count, NEW rho, NEW slots \in Nat,
         Slotted(st, m, count, rho, slots)
  PROVE  /\ IsFiniteSet(DOMAIN st.tbl) /\ Cardinality(DOMAIN st.tbl) \in Nat
         /\ Cardinality(DOMAIN st.tbl) <= slots
         /\ st.avail = {} => Cardinality(DOMAIN st.tbl) = slots
<1> DEFINE D == DOMAIN st.tbl
           T == 0 .. slots - 1
           f == [x \in D |-> st.tbl[x].slot]
<1>1. /\ \A x \in D : st.tbl[x].slot \in T
      /\ \A x, z \in D : x # z => st.tbl[x].slot # st.tbl[z].slot
      /\ \A s \in T : s \in st.avail \/ \E x \in D : st.tbl[x].slot = s
  BY DEF Slotted
<1>2. IsFiniteSet(T) /\ Cardinality(T) = slots
  <2>1. slots - 1 \in Int /\ 0 \in Int
    OBVIOUS
  <2>2. IsFiniteSet(T) /\ Cardinality(T) = IF 0 > slots - 1 THEN 0 ELSE (slots - 1) - 0 + 1
    BY <2>1, FS_Interval
  <2> QED
    BY <2>2
<1> HIDE DEF D, T
<1>3. f \in Injection(D, T)
  BY <1>1 DEF Injection, IsInjective
<1>4. st.avail = {} => f \in Surjection(D, T)
  BY <1>1 DEF Surjection
<1> HIDE DEF f
<1>5. /\ IsFiniteSet(D) /\ Cardinality(D) <= Cardinality(T)
      /\ Cardinality(D) = Cardinality(T) <=> f \in Surjection(D, T)
  BY <1>2, <1>3, FS_Injection
<1>6. Cardinality(D) \in Nat
  BY <1>5, FS_CardinalityType
<1> QED
  BY <1>2, <1>4, <1>5, <1>6 DEF D

(***************************************************************************)
(* remove_hash: the two walks.                                             *)
(***************************************************************************)

\* A wire that is read has been counted.
Fed(f, o) ==
  \A x \in 0 .. Total(o) - 1 : /\ Cnt(f, x) \in Nat
                               /\ ReadBefore(o, x, Total(o)) > 0 => Cnt(f, x) > 0

\* A wire that keeps its entry keeps its slot.
Keeps(st, new) ==
  \A x \in DOMAIN new.tbl : x \in DOMAIN st.tbl /\ new.tbl[x].slot = st.tbl[x].slot

\* A read fails only where some wire is read more often than counted.
LEMMA ReleaseRead ==
  ASSUME NEW st, NEW m \in Nat, NEW f, NEW o, Fed(f, o), Total(o) \in Nat, m <= Total(o),
         NEW rho, NEW rho2, NEW slots \in Nat,
         Slotted(st, m, CountOf(f, Total(o)), rho, slots),
         NEW x0 \in 0 .. m - 1, rho[x0] \in Nat, ReadOnce(rho, rho2, x0, m),
         ReadBefore(o, x0, Total(o)) \in Nat, rho2[x0] <= ReadBefore(o, x0, Total(o))
  PROVE  \/ /\ SlotAlloc!Release(st, x0) = [tbl |-> st.tbl, avail |-> st.avail, failed |-> TRUE]
            /\ Starved(f, o)
         \/ /\ Slotted(SlotAlloc!Release(st, x0), m, CountOf(f, Total(o)), rho2, slots)
            /\ x0 \in DOMAIN st.tbl /\ st.tbl[x0].slot \in 0 .. slots - 1
            /\ Keeps(st, SlotAlloc!Release(st, x0))
<1> DEFINE n == Total(o)
           count == CountOf(f, n)
<1>1. x0 \in 0 .. n - 1 /\ x0 \in Nat
  OBVIOUS
<1>2. count[x0] = Cnt(f, x0) /\ Cnt(f, x0) \in Nat
  BY <1>1 DEF CountOf, Fed
<1>3. rho2[x0] = rho[x0] + 1
  BY DEF ReadOnce
<1>4. count[x0] > 0
  BY <1>1, <1>2, <1>3 DEF Fed
<1> HIDE DEF count
<1>5. CASE rho[x0] < count[x0]
  <2>1. count[x0] \in Nat
    BY <1>2
  <2>2. /\ Slotted(SlotAlloc!Release(st, x0), m, count, rho2, slots)
        /\ x0 \in DOMAIN st.tbl /\ Keeps(st, SlotAlloc!Release(st, x0))
    BY <1>5, <2>1, Releasing DEF Keeps, count
  <2>3. st.tbl[x0].slot \in 0 .. slots - 1
    BY <2>2 DEF Slotted
  <2> QED
    BY <2>2, <2>3 DEF count
<1>6. CASE ~(rho[x0] < count[x0])
  <2>1. /\ st = [tbl |-> st.tbl, avail |-> st.avail, failed |-> FALSE]
        /\ st.tbl = [x \in DOMAIN st.tbl |-> st.tbl[x]]
        /\ DOMAIN st.tbl = {x \in 0 .. m - 1 : count[x] = 0 \/ rho[x] < count[x]}
    BY DEF Slotted, count
  <2>2. x0 \notin DOMAIN st.tbl
    BY <1>2, <1>4, <1>6, <2>1
  <2>3. SlotAlloc!Release(st, x0) = [tbl |-> st.tbl, avail |-> st.avail, failed |-> TRUE]
    BY <2>1, <2>2, ReleaseFacts
  <2>4. Cnt(f, x0) < ReadBefore(o, x0, n)
    BY <1>2, <1>3, <1>6
  <2> QED
    BY <1>1, <2>3, <2>4 DEF Starved
<1> QED
  BY <1>5, <1>6

\* A failure is not undone by the gate's second input.
LEMMA FailedStays ==
  ASSUME NEW t, NEW a, NEW x0
  PROVE  SlotAlloc!Release([tbl |-> t, avail |-> a, failed |-> TRUE], x0).failed = TRUE
BY DEF SlotAlloc!Release

\* Reads counted in the middle of gate g.
Halfway(rho, g) == [x \in DOMAIN rho |-> rho[x] + Hit1(g, x)]

\* The first read of gate k of o, in the terms of Releasing.
LEMMA HalfwayFacts ==
  ASSUME NEW o, Chained(o), NEW m \in Nat, NEW k \in 1 .. Len(o), m = input_cnt + k
  PROVE  /\ o[k].x \in 0 .. m - 1
         /\ ReadOnce(ReadsOf(o, m), Halfway(ReadsOf(o, m), o[k]), o[k].x, m)
         /\ ReadsOf(o, m)[o[k].x] \in Nat
         /\ Halfway(ReadsOf(o, m), o[k])[o[k].x] <= ReadBefore(o, o[k].x, Total(o))
         /\ ReadBefore(o, o[k].x, Total(o)) \in Nat
         /\ o[k].output => \A x \in 0 .. m - 1 : ReadsOf(o, m + 1)[x] = Halfway(ReadsOf(o, m), o[k])[x]
         /\ ~o[k].output =>
              /\ o[k].y \in 0 .. m - 1
              /\ ReadOnce(Halfway(ReadsOf(o, m), o[k]), ReadsOf(o, m + 1), o[k].y, m)
              /\ Halfway(ReadsOf(o, m), o[k])[o[k].y] \in Nat
              /\ ReadsOf(o, m + 1)[o[k].y] <= ReadBefore(o, o[k].y, Total(o))
              /\ ReadBefore(o, o[k].y, Total(o)) \in Nat
<1> DEFINE g == o[k]
           n == Total(o)
           half == Halfway(ReadsOf(o, m), g)
<1>1. /\ Len(o) \in Nat /\ n \in Nat /\ n = InpCnt + Len(o) /\ m < n /\ m + 1 \in 0 .. n
      /\ m \in 0 .. n
  BY ChainedFacts, Numbers
<1>2. g.x \in 0 .. m - 1 /\ g.y \in 0 .. m - 1 /\ g.output \in BOOLEAN
  BY ChainedFacts
<1>3. \A x \in 0 .. m - 1 : /\ x \in 0 .. n - 1
                            /\ ReadsOf(o, m)[x] = ReadBefore(o, x, m)
                            /\ ReadsOf(o, m + 1)[x] = ReadBefore(o, x, m + 1)
                            /\ half[x] = ReadBefore(o, x, m) + Hit1(g, x)
  BY <1>1 DEF ReadsOf, Halfway
<1>4. \A x : ReadBefore(o, x, m) \in Nat /\ ReadBefore(o, x, n) \in Nat
  BY <1>1, ReadsType
<1> HIDE DEF half
<1>5. \A x : /\ ReadBefore(o, x, m + 1) = ReadBefore(o, x, m) + Hit1(g, x) + Hit2(g, x)
             /\ Hit1(g, x) \in {0, 1} /\ Hit2(g, x) \in {0, 1}
  BY <1>1, <1>2, ReadsNext
<1>6. \A x : ReadBefore(o, x, m + 1) <= ReadBefore(o, x, n)
  BY <1>1, ReadsRest
<1>7. Hit1(g, g.x) = 1 /\ \A x : x # g.x => Hit1(g, x) = 0
  BY DEF Hit1
<1>8. /\ g.output => \A x : Hit2(g, x) = 0
      /\ ~g.output => Hit2(g, g.y) = 1 /\ \A x : x # g.y => Hit2(g, x) = 0
  BY DEF Hit2
<1> HIDE DEF g
<1>9. ReadOnce(ReadsOf(o, m), half, g.x, m) /\ ReadsOf(o, m)[g.x] \in Nat
  BY <1>2, <1>3, <1>4, <1>7 DEF ReadOnce
<1>10. half[g.x] <= ReadBefore(o, g.x, n)
  <2>1. half[g.x] = ReadBefore(o, g.x, m) + 1
    BY <1>2, <1>3, <1>7
  <2> QED
    BY <1>4, <1>5, <1>6, <1>7, <2>1
<1>11. ASSUME g.output, NEW x \in 0 .. m - 1
       PROVE  ReadsOf(o, m + 1)[x] = half[x]
  BY <1>3, <1>4, <1>5, <1>8, <1>11
<1>12. ASSUME ~g.output
       PROVE  /\ ReadOnce(half, ReadsOf(o, m + 1), g.y, m) /\ half[g.y] \in Nat
              /\ ReadsOf(o, m + 1)[g.y] <= ReadBefore(o, g.y, n)
  <2>1. \A x \in 0 .. m - 1 : ReadsOf(o, m + 1)[x] = half[x] + Hit2(g, x) /\ half[x] \in Nat
    BY <1>3, <1>4, <1>5
  <2>2. ReadsOf(o, m + 1)[g.y] <= ReadBefore(o, g.y, n)
    BY <1>2, <1>3, <1>6
  <2> QED
    BY <1>2, <1>8, <1>12, <2>1, <2>2 DEF ReadOnce
<1> QED
  BY <1>2, <1>4, <1>9, <1>10, <1>11, <1>12 DEF g, half

\* Slotted looks at the counts of the wires up to the gate only.
LEMMA SlottedExt ==
  ASSUME NEW st, NEW m, NEW count, NEW rho, NEW rho2, NEW slots,
         Slotted(st, m, count, rho, slots), \A x \in 0 .. m - 1 : rho2[x] = rho[x]
  PROVE  Slotted(st, m, count, rho2, slots)
<1>1. /\ DOMAIN st.tbl = {x \in 0 .. m - 1 : count[x] = 0 \/ rho[x] < count[x]}
      /\ \A x \in 0 .. m - 1 : rho[x] <= count[x]
      /\ \A x \in DOMAIN st.tbl : st.tbl[x].left = count[x] - rho[x]
  BY DEF Slotted
<1>2. {x \in 0 .. m - 1 : count[x] = 0 \/ rho[x] < count[x]}
        = {x \in 0 .. m - 1 : count[x] = 0 \/ rho2[x] < count[x]}
  OBVIOUS
<1>3. \A x \in DOMAIN st.tbl : x \in 0 .. m - 1
  BY <1>1
<1>4. /\ DOMAIN st.tbl = {x \in 0 .. m - 1 : count[x] = 0 \/ rho2[x] < count[x]}
      /\ \A x \in 0 .. m - 1 : rho2[x] <= count[x]
      /\ \A x \in DOMAIN st.tbl : st.tbl[x].left = count[x] - rho2[x]
  BY <1>1, <1>2, <1>3
<1> QED
  BY <1>4 DEF Slotted

\* Gate r reads wires of the table, from their slots.
Found(r) ==
  \A j \in 1 .. Binary!Arity(r.tag) :
     /\ r.m_input_idx[j] \in DOMAIN hash_tbl
     /\ SlotAlloc!SlotOf(r, j) = hash_tbl[r.m_input_idx[j]].slot

\* The tables after the reads of gate m: a wire that is read has a slot, unless
\* some wire is read more often than counted.
ReadWell(f, o, m, st, r, slots) ==
  /\ Slotted(st, m, CountOf(f, Total(o)), ReadsOf(o, m + 1), slots)
  /\ Keeps(SlotAlloc!Tables, st)
  /\ \A j \in 1 .. Binary!Arity(r.tag) : SlotAlloc!SlotOf(r, j) \in 0 .. slots - 1
  /\ Found(r)

\* All reads of gate m: none for an input, one for an output, or two.
LEMMA ReadGate ==
  ASSUME NEW f, NEW o, Chained(o), Fed(f, o), NEW m \in 0 .. Total(o) - 1, Shows(f, o, m),
         NEW slots \in Nat,
         Slotted(SlotAlloc!Tables, m, CountOf(f, Total(o)), ReadsOf(o, m), slots)
  PROVE  \/ SlotAlloc!Released(At(f, m)).failed = TRUE /\ Starved(f, o)
         \/ ReadWell(f, o, m, SlotAlloc!Released(At(f, m)), At(f, m), slots)
<1> DEFINE r == At(f, m)
           n == Total(o)
           count == CountOf(f, n)
           t0 == SlotAlloc!Tables
           ar == Binary!Arity(r.tag)
<1>1. /\ Len(o) \in Nat /\ n \in Nat /\ n = InpCnt + Len(o) /\ m \in Nat /\ m < n /\ m <= n
  BY ChainedFacts
<1>2. /\ SlotAlloc!Released(r) = SlotAlloc!Reading(r, ar)
      /\ SlotAlloc!Reading(r, 0) = t0
      /\ SlotAlloc!Reading(r, 1) = SlotAlloc!Release(t0, r.m_input_idx[1])
      /\ SlotAlloc!Reading(r, 2)
           = SlotAlloc!Release(SlotAlloc!Release(t0, r.m_input_idx[1]), r.m_input_idx[2])
      /\ SlotAlloc!SlotOf(r, 1) = SlotAlloc!Reading(r, 0).tbl[r.m_input_idx[1]].slot
      /\ SlotAlloc!SlotOf(r, 2) = SlotAlloc!Reading(r, 1).tbl[r.m_input_idx[2]].slot
  BY SameReader DEF SlotAlloc!Released, SlotAlloc!Reading, SlotAlloc!SlotOf
<1>3. CASE m < InpCnt
  <2>1. ar = 0
    BY <1>3, TagArity DEF Shows
  <2>2. ASSUME NEW x \in 0 .. m - 1
        PROVE  ReadsOf(o, m + 1)[x] = ReadsOf(o, m)[x]
    <3>1. x \in 0 .. n - 1
      BY <1>1
    <3>2. m + 1 \in Nat /\ m + 1 <= InpCnt /\ m <= InpCnt
      BY <1>1, <1>3, Numbers
    <3>3. ReadBefore(o, x, m + 1) = 0 /\ ReadBefore(o, x, m) = 0
      BY <1>1, <3>2, ReadsStart
    <3> QED
      BY <3>1, <3>3 DEF ReadsOf
  <2>3. Slotted(t0, m, count, ReadsOf(o, m + 1), slots)
    BY <2>2, SlottedExt
  <2>4. SlotAlloc!Released(r) = t0
    BY <1>2, <2>1
  <2>5. Keeps(t0, t0)
    BY DEF Keeps
  <2>6. \A j \in 1 .. ar : FALSE
    BY <2>1
  <2> HIDE DEF t0, r
  <2> QED
    BY <2>3, <2>4, <2>5, <2>6 DEF ReadWell, Found, t0, r
<1>4. CASE m >= InpCnt
  <2> DEFINE k == m + 1 - InpCnt
             g == o[k]
             half == Halfway(ReadsOf(o, m), g)
             t1 == SlotAlloc!Release(t0, g.x)
             t2 == SlotAlloc!Release(t1, g.y)
  <2>1. k \in 1 .. Len(o) /\ m = input_cnt + k
    BY <1>1, <1>4, Numbers
  <2>2. r.tag = TagOf(g) /\ r.m_input_idx[1] = g.x /\ (~g.output => r.m_input_idx[2] = g.y)
    BY <1>4 DEF Shows, Matches
  <2> HIDE DEF k
  <2>3. /\ g.x \in 0 .. m - 1
        /\ ReadOnce(ReadsOf(o, m), half, g.x, m)
        /\ ReadsOf(o, m)[g.x] \in Nat
        /\ half[g.x] <= ReadBefore(o, g.x, n)
        /\ ReadBefore(o, g.x, n) \in Nat
        /\ g.output => \A x \in 0 .. m - 1 : ReadsOf(o, m + 1)[x] = half[x]
        /\ ~g.output =>
             /\ g.y \in 0 .. m - 1
             /\ ReadOnce(half, ReadsOf(o, m + 1), g.y, m)
             /\ half[g.y] \in Nat
             /\ ReadsOf(o, m + 1)[g.y] <= ReadBefore(o, g.y, n)
             /\ ReadBefore(o, g.y, n) \in Nat
    BY <1>1, <2>1, HalfwayFacts
  <2> HIDE DEF g, half, t0, r
  <2>4. \/ t1 = [tbl |-> t0.tbl, avail |-> t0.avail, failed |-> TRUE] /\ Starved(f, o)
        \/ /\ Slotted(t1, m, count, half, slots) /\ Keeps(t0, t1)
           /\ g.x \in DOMAIN t0.tbl /\ t0.tbl[g.x].slot \in 0 .. slots - 1
    <3>1. Slotted(t0, m, count, ReadsOf(o, m), slots)
      BY DEF t0
    <3> QED
      BY <1>1, <2>3, <3>1, ReleaseRead
  <2>5. CASE g.output
    <3>1. ar = 1 /\ SlotAlloc!Released(r) = t1 /\ SlotAlloc!SlotOf(r, 1) = t0.tbl[g.x].slot
      BY <1>2, <2>2, <2>5, TagArity DEF r, t0
    <3>2. CASE t1 = [tbl |-> t0.tbl, avail |-> t0.avail, failed |-> TRUE] /\ Starved(f, o)
      <4>1. t1.failed = TRUE
        BY <3>2
      <4> QED
        BY <3>1, <3>2, <4>1 DEF r
    <3>3. CASE /\ Slotted(t1, m, count, half, slots) /\ Keeps(t0, t1)
               /\ g.x \in DOMAIN t0.tbl /\ t0.tbl[g.x].slot \in 0 .. slots - 1
      <4>1. Slotted(t1, m, count, ReadsOf(o, m + 1), slots)
        BY <2>3, <2>5, <3>3, SlottedExt
      <4>2. \A j \in 1 .. ar : j = 1
        BY <3>1
      <4>3. \A j \in 1 .. ar : SlotAlloc!SlotOf(r, j) \in 0 .. slots - 1
        BY <3>1, <3>3, <4>2
      <4>4. Found(r)
        <5>1. t0.tbl = hash_tbl
          BY DEF t0, SlotAlloc!Tables
        <5> QED
          BY <2>2, <3>1, <3>3, <4>2, <5>1 DEF Found
      <4>5. ReadWell(f, o, m, SlotAlloc!Released(r), r, slots)
        BY <3>1, <3>3, <4>1, <4>3, <4>4 DEF ReadWell, t0
      <4> QED
        BY <4>5 DEF r
    <3> QED
      BY <2>4, <3>2, <3>3
  <2>6. CASE ~g.output
    <3>1. /\ ar = 2 /\ SlotAlloc!Released(r) = t2 /\ SlotAlloc!SlotOf(r, 1) = t0.tbl[g.x].slot
          /\ SlotAlloc!SlotOf(r, 2) = t1.tbl[g.y].slot
      BY <1>2, <2>2, <2>6, TagArity DEF r, t0
    <3>2. CASE t1 = [tbl |-> t0.tbl, avail |-> t0.avail, failed |-> TRUE] /\ Starved(f, o)
      <4>1. t2.failed = TRUE
        BY <3>2, FailedStays
      <4> QED
        BY <3>1, <3>2, <4>1 DEF r
    <3>3. CASE /\ Slotted(t1, m, count, half, slots) /\ Keeps(t0, t1)
               /\ g.x \in DOMAIN t0.tbl /\ t0.tbl[g.x].slot \in 0 .. slots - 1
      <4> HIDE DEF t1
      <4>1. \/ t2 = [tbl |-> t1.tbl, avail |-> t1.avail, failed |-> TRUE] /\ Starved(f, o)
            \/ /\ Slotted(t2, m, count, ReadsOf(o, m + 1), slots) /\ Keeps(t1, t2)
               /\ g.y \in DOMAIN t1.tbl /\ t1.tbl[g.y].slot \in 0 .. slots - 1
        BY <1>1, <2>3, <2>6, <3>3, ReleaseRead
      <4> HIDE DEF t2
      <4>2. CASE t2 = [tbl |-> t1.tbl, avail |-> t1.avail, failed |-> TRUE] /\ Starved(f, o)
        <5>1. t2.failed = TRUE
          BY <4>2
        <5> QED
          BY <3>1, <4>2, <5>1 DEF r
      <4>3. CASE /\ Slotted(t2, m, count, ReadsOf(o, m + 1), slots) /\ Keeps(t1, t2)
                 /\ g.y \in DOMAIN t1.tbl /\ t1.tbl[g.y].slot \in 0 .. slots - 1
        <5>1. Keeps(t0, t2)
          BY <3>3, <4>3 DEF Keeps
        <5>2. \A j \in 1 .. ar : j = 1 \/ j = 2
          BY <3>1
        <5>3. \A j \in 1 .. ar : SlotAlloc!SlotOf(r, j) \in 0 .. slots - 1
          BY <3>1, <3>3, <4>3, <5>2
        <5>4. Found(r)
          <6>1. t0.tbl = hash_tbl
            BY DEF t0, SlotAlloc!Tables
          <6>2. g.y \in DOMAIN t0.tbl /\ t1.tbl[g.y].slot = t0.tbl[g.y].slot
            BY <3>3, <4>3 DEF Keeps
          <6> QED
            BY <2>2, <2>6, <3>1, <3>3, <5>2, <6>1, <6>2 DEF Found
        <5>5. ReadWell(f, o, m, SlotAlloc!Released(r), r, slots)
          BY <3>1, <4>3, <5>1, <5>3, <5>4 DEF ReadWell, t0
        <5> QED
          BY <5>5 DEF r
      <4> QED
        BY <4>1, <4>2, <4>3
    <3> QED
      BY <2>4, <3>2, <3>3
  <2> QED
    BY <2>5, <2>6
<1>5. m < InpCnt \/ m >= InpCnt
  BY <1>1, Numbers
<1> QED
  BY <1>3, <1>4, <1>5

\* In the circuit file of the chain, a wire that is read has been counted; only
\* one of an output may be read more often than counted, and only by the counts
\* of generate_count.cpp.
LEMMA FedNow ==
  ASSUME DeadInv, BinaryInv, binary_pc \in {"ready", "recounted"}
  PROVE  /\ Fed(bin, out_file)
         /\ Starved(bin, out_file) =>
              /\ binary_pc = "recounted"
              /\ \E x \in Nat : IsOut(out_file, x)
                                /\ ReadBefore(out_file, x, Total(out_file)) > 0
<1> DEFINE o == out_file
           n == Total(o)
<1>1. Chained(o) /\ Len(o) \in Nat /\ n \in Nat
  BY DeadChained, ChainedFacts
<1>2. \A x : ReadBefore(o, x, n) \in Nat /\ Cardinality(OutsTo(o, n)) \in Nat
  BY <1>1, ReadsType
<1>3. ASSUME NEW x \in 0 .. n - 1
      PROVE  /\ Cnt(bin, x) \in Nat /\ (ReadBefore(o, x, n) > 0 => Cnt(bin, x) > 0)
             /\ Cnt(bin, x) < ReadBefore(o, x, n) =>
                  binary_pc = "recounted" /\ IsOut(o, x) /\ ReadBefore(o, x, n) > 0
  <2>1. CASE binary_pc = "ready"
    <3>1. Cnt(bin, x) = Expected(o, x, n)
      BY <2>1 DEF BinaryInv
    <3>2. Expected(o, x, n) \in Nat /\ Expected(o, x, n) >= ReadBefore(o, x, n)
      BY <1>2 DEF Expected
    <3> QED
      BY <1>2, <3>1, <3>2
  <2>2. CASE binary_pc = "recounted"
    <3>1. Cnt(bin, x) = Rewritten(o, x)
      BY <2>2 DEF BinaryInv
    <3>2. /\ IsOut(o, x) => Cnt(bin, x) = 1
          /\ ~IsOut(o, x) => Cnt(bin, x) = ReadBefore(o, x, n)
      BY <3>1 DEF Rewritten
    <3> QED
      BY <1>2, <2>2, <3>2
  <2> QED
    BY <2>1, <2>2
<1>4. Fed(bin, o)
  BY <1>3 DEF Fed
<1>5. ASSUME Starved(bin, o)
      PROVE  binary_pc = "recounted" /\ \E x \in Nat : IsOut(o, x) /\ ReadBefore(o, x, n) > 0
  <2>1. PICK x \in 0 .. n - 1 : Cnt(bin, x) < ReadBefore(o, x, n)
    BY <1>5 DEF Starved
  <2>2. x \in Nat
    OBVIOUS
  <2> QED
    BY <1>3, <2>1, <2>2
<1> QED
  BY <1>4, <1>5

\* The wires of the table, in the terms of the file.
LEMMA HeldSlots ==
  ASSUME NEW f, NEW o, NEW m \in Nat, Total(o) \in Nat, m <= Total(o), NEW st, NEW slots,
         Slotted(st, m, CountOf(f, Total(o)), ReadsOf(o, m), slots)
  PROVE  DOMAIN st.tbl = HeldAt(f, o, m)
<1>1. DOMAIN st.tbl = {x \in 0 .. m - 1 : \/ CountOf(f, Total(o))[x] = 0
                                          \/ ReadsOf(o, m)[x] < CountOf(f, Total(o))[x]}
  BY DEF Slotted
<1>2. \A x \in 0 .. m - 1 : CountOf(f, Total(o))[x] = Cnt(f, x) /\ ReadsOf(o, m)[x] = ReadBefore(o, x, m)
  BY DEF CountOf, ReadsOf
<1> QED
  BY <1>1, <1>2 DEF HeldAt

\* The peak, one gate on.
LEMMA PeakNext ==
  ASSUME NEW f, NEW o, NEW m \in Nat, Total(o) \in Nat, m + 1 <= Total(o),
         NEW st, NEW new, NEW idx, NEW slots \in Nat, NEW slots2 \in Nat, slots <= slots2,
         Peak(f, o, m, slots), Chosen(st, idx, slots, slots2),
         new.avail \subseteq st.avail,
         Slotted(new, m + 1, CountOf(f, Total(o)), ReadsOf(o, m + 1), slots2)
  PROVE  Peak(f, o, m + 1, slots2)
<1>1. DOMAIN new.tbl = HeldAt(f, o, m + 1)
  <2>1. m + 1 \in Nat
    OBVIOUS
  <2> QED
    BY <2>1, HeldSlots
<1>2. /\ Needs(f, o, m + 1) \in Nat /\ Needs(f, o, m + 1) <= slots2
      /\ new.avail = {} => Needs(f, o, m + 1) = slots2
  <2>1. m + 1 \in Nat
    OBVIOUS
  <2>2. /\ Cardinality(DOMAIN new.tbl) \in Nat /\ Cardinality(DOMAIN new.tbl) <= slots2
        /\ new.avail = {} => Cardinality(DOMAIN new.tbl) = slots2
    BY <2>1, Full
  <2> QED
    BY <1>1, <2>2 DEF Needs
<1>3. PICK j \in 0 .. m : Needs(f, o, j) = slots
  BY DEF Peak
<1>4. \A i \in 0 .. m : Needs(f, o, i) <= slots /\ Needs(f, o, i) \in Int => Needs(f, o, i) <= slots2
  OBVIOUS
<1>5. \A i \in 0 .. m + 1 : i \in 0 .. m \/ i = m + 1
  OBVIOUS
<1>6. j \in 0 .. m + 1 /\ m + 1 \in 0 .. m + 1
  OBVIOUS
<1>7. \E i \in 0 .. m + 1 : Needs(f, o, i) = slots2
  <2>1. CASE st.avail = {}
    BY <1>2, <1>6, <2>1
  <2>2. CASE st.avail # {}
    <3>1. slots2 = slots
      BY <2>2 DEF Chosen
    <3> QED
      BY <1>3, <1>6, <3>1
  <2> QED
    BY <2>1, <2>2
<1>8. \A i \in 0 .. m : Needs(f, o, i) \in Int
  <2>1. ASSUME NEW i \in 0 .. m
        PROVE  Needs(f, o, i) \in Int
    <3>1. IsFiniteSet(0 .. i - 1) /\ HeldAt(f, o, i) \in SUBSET (0 .. i - 1)
      <4>1. 0 \in Int /\ i - 1 \in Int
        OBVIOUS
      <4>2. IsFiniteSet(0 .. i - 1)
        BY <4>1, FS_Interval
      <4> QED
        BY <4>2 DEF HeldAt
    <3>2. IsFiniteSet(HeldAt(f, o, i))
      BY <3>1, FS_Subset
    <3> QED
      BY <3>2, FS_CardinalityType DEF Needs
  <2> QED
    BY <2>1
<1>9. \A i \in 0 .. m : Needs(f, o, i) <= slots2
  BY <1>4, <1>8 DEF Peak
<1>10. \A i \in 0 .. m + 1 : Needs(f, o, i) <= slots2
  BY <1>2, <1>5, <1>9
<1> QED
  BY <1>7, <1>10 DEF Peak

\* What a step of either walk does that does not end the program.
Walked(g, idx) ==
  /\ slots_pc' = slots_pc /\ m_gate_idx < Total(out_file) /\ m_gate_idx' = m_gate_idx + 1
  /\ tbl_max' \in 0 .. m_gate_idx + 1 /\ tbl_max <= tbl_max'
  /\ WalkOf(SlotAlloc!Tables', bin, out_file, m_gate_idx + 1, tbl_max')
  /\ idx \in 0 .. tbl_max' - 1 /\ hash_tbl'[m_gate_idx].slot = idx
  /\ \A x \in DOMAIN hash_tbl' : x # m_gate_idx =>
       /\ x \in DOMAIN hash_tbl /\ hash_tbl'[x].slot = hash_tbl[x].slot
       /\ hash_tbl[x].slot # idx
  /\ \A j \in 1 .. Binary!Arity(g.tag) : SlotAlloc!SlotOf(g, j) \in 0 .. tbl_max - 1
  /\ Found(g)

\* A step of either walk goes on, unless a wire is read more often than counted.
LEMMA WalkStep ==
  ASSUME DeadInv, BinaryInv, SlotsInv, binary_pc \in {"ready", "recounted"},
         slots_pc # "aborted", SlotAlloc!WalkGate
  PROVE  \/ /\ slots_pc' = "aborted" /\ Starved(bin, out_file)
            /\ UNCHANGED <<m_gate_idx, hash_tbl, avail_idx, tbl_max>>
         \/ Walked(At(bin, m_gate_idx), SlotAlloc!SlotFor(SlotAlloc!Released(At(bin, m_gate_idx))))
<1> DEFINE o == out_file
           n == Total(o)
           m == m_gate_idx
           g == At(bin, m)
           st == SlotAlloc!Released(g)
           idx == SlotAlloc!SlotFor(st)
           max2 == IF st.avail = {} THEN tbl_max + 1 ELSE tbl_max
           count == CountOf(bin, n)
<1>1. Chained(o) /\ Len(o) \in Nat /\ n \in Nat /\ Holds(bin, o) /\ Fed(bin, o)
  BY DeadChained, ChainedFacts, FedNow DEF BinaryInv
<1>2. /\ m \in 0 .. n /\ tbl_max \in 0 .. m
      /\ WalkOf(SlotAlloc!Tables, bin, o, m, tbl_max)
  BY DEF SlotsInv
<1>3. /\ m < n /\ aligned' = g.aligned
      /\ IF ~g.aligned \/ st.failed
         THEN slots_pc' = "aborted" /\ UNCHANGED <<m_gate_idx, hash_tbl, avail_idx, tbl_max>>
         ELSE /\ tbl_max' = max2
              /\ avail_idx' = SlotAlloc!Popped(st.avail, idx)
              /\ hash_tbl' = Placed(st.tbl, m, idx, g.m_idx)
              /\ m_gate_idx' = m + 1 /\ slots_pc' = slots_pc
  <2>1. Len(bin.gates) = n
    BY <1>1, FileLen DEF Holds
  <2>2. SlotAlloc!Current = g
    BY SameReader DEF SlotAlloc!Current
  <2> HIDE DEF g
  <2> QED
    BY <2>1, <2>2 DEF SlotAlloc!WalkGate, SlotAlloc!more_gate_binary, Placed
<1>4. m \in 0 .. n - 1 /\ m \in Nat /\ tbl_max \in Nat /\ m + 1 \in 0 .. n
  BY <1>1, <1>2, <1>3
<1>5. Shows(bin, o, m)
  BY <1>1, <1>4 DEF Holds
<1>6. g.aligned
  BY <1>5 DEF Shows
<1>7. \/ st.failed = TRUE /\ Starved(bin, o)
      \/ ReadWell(bin, o, m, st, g, tbl_max)
  <2>1. Slotted(SlotAlloc!Tables, m, CountOf(bin, n), ReadsOf(o, m), tbl_max)
    BY <1>2 DEF WalkOf
  <2> QED
    BY <1>1, <1>4, <1>5, <2>1, ReadGate
<1> HIDE DEF g, st, count
<1>8. CASE st.failed = TRUE /\ Starved(bin, o)
  BY <1>3, <1>8
<1>9. CASE ReadWell(bin, o, m, st, g, tbl_max)
  <2>1. Slotted(st, m, count, ReadsOf(o, m + 1), tbl_max) /\ Keeps(SlotAlloc!Tables, st)
    BY <1>9 DEF ReadWell, count
  <2>2. st.failed = FALSE /\ st.avail \subseteq 0 .. tbl_max - 1
    <3>1. /\ st = [tbl |-> st.tbl, avail |-> st.avail, failed |-> FALSE]
          /\ st.avail \subseteq 0 .. tbl_max - 1
      BY <2>1 DEF Slotted
    <3> QED
      BY <3>1
  <2>3. /\ tbl_max' = max2 /\ avail_idx' = SlotAlloc!Popped(st.avail, idx)
        /\ hash_tbl' = Placed(st.tbl, m, idx, g.m_idx)
        /\ m_gate_idx' = m + 1 /\ slots_pc' = slots_pc
    BY <1>3, <1>6, <2>2
  <2>4. Chosen(st, idx, tbl_max, max2)
    <3>1. st.avail \in SUBSET Nat
      BY <2>2
    <3> QED
      BY <3>1, SlotForChosen
  <2> HIDE DEF idx, max2
  <2>5. count[m] = g.m_idx /\ count[m] \in Nat
    <3>1. Cnt(bin, m) = g.m_idx
      BY DEF Cnt, g
    <3> QED
      BY <1>1, <1>4, <3>1 DEF Fed, count, CountOf
  <2>6. ReadsOf(o, m + 1)[m] = 0
    <3>1. ReadBefore(o, m, m + 1) = 0
      BY <1>1, <1>4, ReadsLate
    <3> QED
      BY <1>4, <3>1 DEF ReadsOf
  <2> DEFINE new == WithGate(st, m, idx, count[m])
  <2>7. /\ Slotted(new, m + 1, count, ReadsOf(o, m + 1), max2)
        /\ idx \in 0 .. max2 - 1 /\ max2 \in Nat /\ tbl_max <= max2 /\ max2 <= tbl_max + 1
        /\ \A x \in DOMAIN st.tbl : st.tbl[x].slot # idx
        /\ \A x \in DOMAIN new.tbl : x = m \/ x \in DOMAIN st.tbl
        /\ new.tbl[m].slot = idx
        /\ \A x \in DOMAIN st.tbl : new.tbl[x].slot = st.tbl[x].slot
    <3> DEFINE rho1 == ReadsOf(o, m + 1)
    <3> HIDE DEF rho1
    <3>2. Slotted(st, m, count, rho1, tbl_max) /\ rho1[m] = 0
      BY <2>1, <2>6 DEF rho1
    <3>3. m \in Nat /\ tbl_max \in Nat
      BY <1>4
    <3>4. Placement(st, m, count, rho1, tbl_max, idx, max2)
      BY <2>4, <2>5, <3>2, <3>3, Placing
    <3> QED
      BY <3>4 DEF Placement, rho1
  <2>8. SlotAlloc!Tables' = new /\ new.tbl = hash_tbl' /\ new.avail \subseteq st.avail
    BY <2>3, <2>5 DEF SlotAlloc!Tables, WithGate, SlotAlloc!Popped
  <2> HIDE DEF new
  <2>9. Peak(bin, o, m + 1, max2)
    <3>1. Peak(bin, o, m, tbl_max)
      BY <1>2 DEF WalkOf
    <3>2. m + 1 <= n
      BY <1>4
    <3>3. Slotted(new, m + 1, CountOf(bin, n), ReadsOf(o, m + 1), max2)
      BY <2>7 DEF count
    <3> QED
      BY <1>1, <1>4, <2>4, <2>7, <2>8, <3>1, <3>2, <3>3, PeakNext
  <2>10. WalkOf(SlotAlloc!Tables', bin, o, m + 1, tbl_max')
    BY <2>3, <2>7, <2>8, <2>9 DEF WalkOf, count
  <2>11. tbl_max' \in 0 .. m + 1 /\ tbl_max <= tbl_max' /\ idx \in 0 .. tbl_max' - 1
    BY <1>2, <1>4, <2>3, <2>7
  <2>12. \A x \in DOMAIN hash_tbl' : x # m =>
           /\ x \in DOMAIN hash_tbl /\ hash_tbl'[x].slot = hash_tbl[x].slot
           /\ hash_tbl[x].slot # idx
    <3>1. SlotAlloc!Tables.tbl = hash_tbl
      BY DEF SlotAlloc!Tables
    <3>3. \A x \in DOMAIN hash_tbl' : x = m \/ x \in DOMAIN st.tbl
      BY <2>7, <2>8
    <3>4. \A x \in DOMAIN st.tbl : hash_tbl'[x].slot = st.tbl[x].slot /\ st.tbl[x].slot # idx
      BY <2>7, <2>8
    <3>2. \A x \in DOMAIN st.tbl : x \in DOMAIN hash_tbl /\ st.tbl[x].slot = hash_tbl[x].slot
      BY <2>1, <3>1 DEF Keeps
    <3>5. ASSUME NEW x \in DOMAIN hash_tbl', x # m
          PROVE  x \in DOMAIN hash_tbl /\ hash_tbl'[x].slot = hash_tbl[x].slot /\ hash_tbl[x].slot # idx
      <4>1. x \in DOMAIN st.tbl
        BY <3>3, <3>5
      <4>2. st.tbl[x].slot = hash_tbl[x].slot /\ x \in DOMAIN hash_tbl
        BY <3>2, <4>1
      <4>3. hash_tbl'[x].slot = st.tbl[x].slot /\ st.tbl[x].slot # idx
        BY <3>4, <4>1
      <4> QED
        BY <4>2, <4>3
    <3> QED
      BY <3>5
  <2>13. hash_tbl'[m].slot = idx
    BY <2>7, <2>8
  <2>14. /\ \A j \in 1 .. Binary!Arity(g.tag) : SlotAlloc!SlotOf(g, j) \in 0 .. tbl_max - 1
         /\ Found(g)
    BY <1>9 DEF ReadWell
  <2> QED
    BY <1>3, <2>3, <2>10, <2>11, <2>12, <2>13, <2>14 DEF Walked, idx, st, g
<1> QED
  BY <1>7, <1>8, <1>9

\* A number is cut to a smaller one, and the slots fit the width of slots.
LEMMA CutSmall ==
  ASSUME NEW v \in Nat
  PROVE  /\ \A w : SlotAlloc!Cut(v, w) \in 0 .. v
         /\ SlotAlloc!Cut(v, SlotAlloc!idx_sz(v)) = v
<1>1. ASSUME NEW q \in Nat
      PROVE  /\ v % (q + 1) \in 0 .. v
             /\ v <= q => v % (q + 1) = v
  <2>1. v % (q + 1) \in 0 .. q
    OBVIOUS
  <2>2. v <= q => v % (q + 1) = v
    OBVIOUS
  <2>3. v > q => v % (q + 1) <= v
    BY <2>1
  <2> QED
    BY <2>1, <2>2, <2>3
<1> DEFINE a == v % (UINT8_MAX + 1)
           b == v % (UINT16_MAX + 1)
           c == v % (UINT32_MAX + 1)
<1>2. /\ a \in 0 .. v /\ (v <= UINT8_MAX => a = v)
      /\ b \in 0 .. v /\ (v <= UINT16_MAX => b = v)
      /\ c \in 0 .. v /\ (v <= UINT32_MAX => c = v)
  BY <1>1, Widths
<1>3. \A w : SlotAlloc!Cut(v, w) = IF w = 1 THEN a ELSE IF w = 2 THEN b ELSE IF w = 4 THEN c ELSE v
  BY DEF SlotAlloc!Cut
<1> HIDE DEF a, b, c
<1>4. \A w : SlotAlloc!Cut(v, w) \in {a, b, c, v}
  BY <1>3
<1>5. SlotAlloc!Cut(v, SlotAlloc!idx_sz(v)) = v
  BY <1>2, <1>3, Widths DEF SlotAlloc!idx_sz
<1> QED
  BY <1>2, <1>4, <1>5

\* Empty tables are in order.
LEMMA WalkStart ==
  ASSUME NEW t, NEW f, NEW o, DOMAIN t = {}, t = [x \in DOMAIN t |-> t[x]]
  PROVE  WalkOf([tbl |-> t, avail |-> {}, failed |-> FALSE], f, o, 0, 0)
<1> DEFINE st == [tbl |-> t, avail |-> {}, failed |-> FALSE]
<1>1. st.tbl = t /\ st.avail = {} /\ st = [tbl |-> st.tbl, avail |-> st.avail, failed |-> FALSE]
  OBVIOUS
<1> HIDE DEF st
<1>2. 0 .. 0 - 1 = {}
  OBVIOUS
<1>3. Slotted(st, 0, CountOf(f, Total(o)), ReadsOf(o, 0), 0)
  BY <1>1, <1>2 DEF Slotted
<1>4. Needs(f, o, 0) = 0
  <2>1. HeldAt(f, o, 0) = {}
    BY <1>2 DEF HeldAt
  <2> QED
    BY <2>1, FS_EmptySet DEF Needs
<1>5. Peak(f, o, 0, 0)
  <2>1. \A i \in 0 .. 0 : i = 0
    OBVIOUS
  <2>2. 0 \in 0 .. 0
    OBVIOUS
  <2> QED
    BY <1>4, <2>1, <2>2 DEF Peak
<1> QED
  BY <1>3, <1>5 DEF WalkOf, st

\* At the start of a walk no wire has a slot.
LEMMA NothingYet ==
  ASSUME NEW st, NEW f, NEW o, WalkOf(st, f, o, 0, 0)
  PROVE  /\ st = [tbl |-> st.tbl, avail |-> {}, failed |-> FALSE]
         /\ DOMAIN st.tbl = {} /\ st.tbl = [x \in DOMAIN st.tbl |-> st.tbl[x]]
<1>1. 0 .. 0 - 1 = {}
  OBVIOUS
<1>2. Slotted(st, 0, CountOf(f, Total(o)), ReadsOf(o, 0), 0)
  BY DEF WalkOf
<1>3. /\ st = [tbl |-> st.tbl, avail |-> st.avail, failed |-> FALSE]
      /\ st.tbl = [x \in DOMAIN st.tbl |-> st.tbl[x]] /\ st.avail = {} /\ DOMAIN st.tbl = {}
  BY <1>1, <1>2 DEF Slotted
<1> QED
  BY <1>3

\* remove_hash starts with such tables.
LEMMA InitSlots == SlotAlloc!Init /\ Len(out_file) \in Nat => SlotsInv
<1> SUFFICES ASSUME SlotAlloc!Init, Len(out_file) \in Nat
             PROVE  SlotsInv
  OBVIOUS
<1>1. /\ slots_pc = "first" /\ m_gate_idx = 0 /\ hash_tbl = SlotAlloc!NoTable /\ avail_idx = {}
      /\ tbl_max = 0 /\ hash_free = SlotAlloc!NoFile
      /\ holder = [s \in SlotAlloc!Slots |-> SlotAlloc!Nobody]
  BY DEF SlotAlloc!Init
<1>2. Total(out_file) \in Nat /\ MaxId \in Nat
  BY Numbers DEF Total
<1>3. holder = [s \in 0 .. MaxId |-> holder[s]]
  BY <1>1, <1>2 DEF SlotAlloc!Slots, SlotAlloc!Wires
<1>4. DOMAIN hash_tbl = {} /\ hash_tbl = [x \in DOMAIN hash_tbl |-> hash_tbl[x]]
  BY <1>1 DEF SlotAlloc!NoTable
<1>5. WalkOf(SlotAlloc!Tables, bin, out_file, 0, 0)
  BY <1>1, <1>4, WalkStart DEF SlotAlloc!Tables
<1>6. m_gate_idx \in 0 .. Total(out_file) /\ tbl_max \in 0 .. m_gate_idx
  BY <1>1, <1>2
<1> QED
  BY <1>1, <1>3, <1>5, <1>6 DEF SlotsInv

\* Before its first gate remove_hash depends on no file.
LEMMA IdleSlots ==
  ASSUME SlotsInv, slots_pc = "first", m_gate_idx = 0, UNCHANGED slots_vars, Total(out_file') \in Nat
  PROVE  SlotsInv'
<1>1. UNCHANGED <<slots_pc, m_gate_idx, hash_tbl, avail_idx, tbl_max, hash_free, holder>>
  BY DEF slots_vars
<1>2. tbl_max = 0 /\ WalkOf(SlotAlloc!Tables, bin, out_file, 0, 0)
  BY DEF SlotsInv
<1>3. /\ SlotAlloc!Tables = [tbl |-> hash_tbl, avail |-> {}, failed |-> FALSE]
      /\ DOMAIN hash_tbl = {} /\ hash_tbl = [x \in DOMAIN hash_tbl |-> hash_tbl[x]]
  <2> DEFINE st == SlotAlloc!Tables
  <2>1. /\ st = [tbl |-> st.tbl, avail |-> {}, failed |-> FALSE]
        /\ DOMAIN st.tbl = {} /\ st.tbl = [x \in DOMAIN st.tbl |-> st.tbl[x]]
    BY <1>2, NothingYet
  <2>2. st.tbl = hash_tbl
    BY DEF SlotAlloc!Tables
  <2> HIDE DEF st
  <2> QED
    BY <2>1, <2>2 DEF st
<1>4. WalkOf([tbl |-> hash_tbl, avail |-> {}, failed |-> FALSE], bin', out_file', 0, 0)
  BY <1>3, WalkStart
<1>5. SlotAlloc!Tables' = [tbl |-> hash_tbl, avail |-> {}, failed |-> FALSE]
  <2>1. SlotAlloc!Tables' = SlotAlloc!Tables
    BY <1>1 DEF SlotAlloc!Tables
  <2> QED
    BY <1>3, <2>1
<1>6. WalkOf(SlotAlloc!Tables', bin', out_file', m_gate_idx', tbl_max')
  BY <1>1, <1>2, <1>4, <1>5
<1>7. m_gate_idx' \in 0 .. Total(out_file') /\ tbl_max' \in 0 .. m_gate_idx'
  BY <1>1, <1>2
<1>8. slots_pc' = "first" /\ m_gate_idx' = 0 /\ hash_free' = SlotAlloc!NoFile
  BY <1>1 DEF SlotsInv
<1>9. holder' = [s \in 0 .. MaxId |-> holder'[s]]
  BY <1>1 DEF SlotsInv
<1> QED
  BY <1>6, <1>7, <1>8, <1>9 DEF SlotsInv

\* The first walk, one gate on.
LEMMA FirstWalkSlots ==
  ASSUME DeadInv, BinaryInv, SlotsInv, binary_pc \in {"ready", "recounted"}, UNCHANGED vars,
         UNCHANGED binary_vars, SlotAlloc!FirstWalk
  PROVE  SlotsInv'
<1> DEFINE g == At(bin, m_gate_idx)
           idx == SlotAlloc!SlotFor(SlotAlloc!Released(g))
<1>1. /\ slots_pc = "first" /\ SlotAlloc!WalkGate /\ UNCHANGED <<bin, hash_free, holder>>
      /\ binary_pc' = binary_pc /\ out_file' = out_file
  BY DEF SlotAlloc!FirstWalk, vars, binary_vars
<1>2. /\ hash_free = SlotAlloc!NoFile /\ holder = [s \in 0 .. MaxId |-> holder[s]]
      /\ m_gate_idx \in 0 .. Total(out_file) /\ tbl_max \in 0 .. m_gate_idx
  BY <1>1 DEF SlotsInv
<1>3. \/ /\ slots_pc' = "aborted" /\ Starved(bin, out_file)
         /\ UNCHANGED <<m_gate_idx, hash_tbl, avail_idx, tbl_max>>
      \/ Walked(g, idx)
  BY <1>1, WalkStep
<1>4. Total(out_file) \in Nat
  BY Sizes
<1>5. CASE /\ slots_pc' = "aborted" /\ Starved(bin, out_file)
           /\ UNCHANGED <<m_gate_idx, hash_tbl, avail_idx, tbl_max>>
  <2>1. binary_pc = "recounted"
    BY <1>5, FedNow
  <2>2. Starved(bin', out_file')
    BY <1>1, <1>5
  <2> QED
    BY <1>1, <1>2, <1>5, <2>1, <2>2 DEF SlotsInv
<1>6. CASE Walked(g, idx)
  <2>1. /\ slots_pc' = "first" /\ m_gate_idx < Total(out_file) /\ m_gate_idx' = m_gate_idx + 1
        /\ tbl_max' \in 0 .. m_gate_idx + 1
        /\ WalkOf(SlotAlloc!Tables', bin, out_file, m_gate_idx + 1, tbl_max')
    BY <1>1, <1>6 DEF Walked
  <2>2. /\ m_gate_idx' \in 0 .. Total(out_file') /\ tbl_max' \in 0 .. m_gate_idx'
        /\ WalkOf(SlotAlloc!Tables', bin', out_file', m_gate_idx', tbl_max')
    BY <1>1, <1>2, <1>4, <2>1
  <2> QED
    BY <1>1, <1>2, <2>1, <2>2 DEF SlotsInv
<1> QED
  BY <1>3, <1>5, <1>6

\* The first walk has come through, and there were reads enough.
LEMMA BetweenSlots ==
  ASSUME DeadInv, BinaryInv, SlotsInv, binary_pc \in {"ready", "recounted"}, UNCHANGED vars,
         UNCHANGED binary_vars, SlotAlloc!Between
  PROVE  SlotsInv'
<1> DEFINE o == out_file
           n == Total(o)
<1>1. /\ slots_pc = "first" /\ ~SlotAlloc!more_gate_binary
      /\ hash_free' = [header |-> SlotAlloc!NewHeader(tbl_max), gates |-> << >>]
      /\ m_gate_idx' = 0 /\ tbl_max' = 0 /\ hash_tbl' = SlotAlloc!NoTable /\ avail_idx' = {}
      /\ slots_pc' = "second" /\ UNCHANGED <<bin, holder, out_file, binary_pc>>
  BY DEF SlotAlloc!Between, vars, binary_vars
<1>2. /\ holder = [s \in 0 .. MaxId |-> holder[s]]
      /\ m_gate_idx \in 0 .. n /\ tbl_max \in 0 .. m_gate_idx
      /\ WalkOf(SlotAlloc!Tables, bin, o, m_gate_idx, tbl_max)
  BY <1>1 DEF SlotsInv
<1>3. Chained(o) /\ n \in Nat /\ Len(o) \in Nat
  BY DeadChained, ChainedFacts
<1>4. m_gate_idx = n
  <2>1. Holds(bin, o)
    BY DEF BinaryInv
  <2>2. Len(bin.gates) = n
    BY <1>3, <2>1, FileLen DEF Holds
  <2> QED
    BY <1>1, <1>2, <1>3, <2>2 DEF SlotAlloc!more_gate_binary
<1>5. ~Starved(bin, o)
  <2>1. \A x \in 0 .. n - 1 : ReadsOf(o, n)[x] <= CountOf(bin, n)[x]
    BY <1>2, <1>4 DEF WalkOf, Slotted
  <2>2. \A x \in 0 .. n - 1 : ReadBefore(o, x, n) <= Cnt(bin, x)
    BY <2>1 DEF ReadsOf, CountOf
  <2>3. Fed(bin, o)
    BY FedNow
  <2>4. \A x : ReadBefore(o, x, n) \in Nat
    BY <1>3, ReadsType
  <2>5. \A x \in 0 .. n - 1 : ~(Cnt(bin, x) < ReadBefore(o, x, n))
    BY <2>2, <2>3, <2>4 DEF Fed
  <2> QED
    BY <2>5 DEF Starved
<1>6. WalkOf(SlotAlloc!Tables', bin', o', m_gate_idx', tbl_max')
  <2>1. DOMAIN hash_tbl' = {} /\ hash_tbl' = [x \in DOMAIN hash_tbl' |-> hash_tbl'[x]]
    BY <1>1 DEF SlotAlloc!NoTable
  <2>2. SlotAlloc!Tables' = [tbl |-> hash_tbl', avail |-> {}, failed |-> FALSE]
    BY <1>1 DEF SlotAlloc!Tables
  <2>3. WalkOf([tbl |-> hash_tbl', avail |-> {}, failed |-> FALSE], bin', o', 0, 0)
    BY <2>1, WalkStart
  <2> QED
    BY <1>1, <2>2, <2>3
<1>7. Headed(hash_free', bin', o')
  <2>1. hash_free'.header = HeaderFor(bin', tbl_max)
    BY <1>1 DEF SlotAlloc!NewHeader, HeaderFor
  <2>2. \A i \in 0 .. n : Needs(bin, o, i) <= tbl_max
    BY <1>2, <1>4 DEF WalkOf, Peak
  <2>3. tbl_max \in 0 .. n
    BY <1>2, <1>4
  <2> QED
    BY <1>1, <2>1, <2>2, <2>3 DEF Headed
<1>8. SecondOf(hash_free', holder', hash_tbl', bin', o', 0, 0)
  <2>1. DOMAIN hash_tbl' = {} /\ 1 .. 0 = {}
    BY <1>1 DEF SlotAlloc!NoTable
  <2>2. hash_free'.gates = << >>
    BY <1>1
  <2>3. hash_free'.gates = [k \in 1 .. 0 |-> hash_free'.gates[k]]
    BY <2>1, <2>2
  <2>4. ~Starved(bin', o')
    BY <1>1, <1>5
  <2> QED
    BY <1>7, <2>1, <2>3, <2>4 DEF SecondOf
<1>9. m_gate_idx' \in 0 .. Total(o') /\ tbl_max' \in 0 .. m_gate_idx'
  BY <1>1, <1>3
<1>10. holder' = [s \in 0 .. MaxId |-> holder'[s]]
  BY <1>1, <1>2
<1> QED
  BY <1>1, <1>6, <1>8, <1>9, <1>10 DEF SlotsInv

\* The second walk has come through.
LEMMA SecondDoneSlots ==
  ASSUME DeadInv, BinaryInv, SlotsInv, binary_pc \in {"ready", "recounted"}, UNCHANGED vars,
         UNCHANGED binary_vars, SlotAlloc!SecondDone
  PROVE  SlotsInv'
<1>1. /\ slots_pc = "second" /\ ~SlotAlloc!more_gate_binary /\ slots_pc' = "done"
      /\ UNCHANGED <<bin, m_gate_idx, hash_tbl, avail_idx, tbl_max, hash_free, holder>>
      /\ UNCHANGED <<out_file, binary_pc>>
  BY DEF SlotAlloc!SecondDone, vars, binary_vars
<1>2. m_gate_idx \in 0 .. Total(out_file)
  BY DEF SlotsInv
<1>3. m_gate_idx = Total(out_file)
  <2>1. Holds(bin, out_file) /\ Total(out_file) \in Nat
    BY Sizes DEF BinaryInv
  <2>2. Len(bin.gates) = Total(out_file)
    BY <2>1, FileLen DEF Holds
  <2> QED
    BY <1>1, <1>2, <2>1, <2>2 DEF SlotAlloc!more_gate_binary
<1>4. SlotAlloc!Tables' = SlotAlloc!Tables
  BY <1>1 DEF SlotAlloc!Tables
<1> QED
  BY <1>1, <1>3, <1>4 DEF SlotsInv

\* The slots handed out before are among those handed out.
LEMMA Wider ==
  ASSUME NEW a \in Nat, NEW b \in Nat, a <= b
  PROVE  \A v \in 0 .. a - 1 : v \in 0 .. b - 1
OBVIOUS

\* The gate the second walk writes.
NewGate(g, sz, idx) ==
  SlotAlloc!GateFields(g.tag, g.table,
                       [j \in 1 .. SlotAlloc!Arity(g.tag) |-> SlotAlloc!SlotOf(g, j)], sz, idx, sz)

\* Numbers up to that of the slots fit the width of slots.
LEMMA CutBelow ==
  ASSUME NEW n \in Nat, NEW v \in 0 .. n
  PROVE  SlotAlloc!Cut(v, SlotAlloc!idx_sz(n)) = v
<1>1. ASSUME NEW q \in Nat, v <= q
      PROVE  v % (q + 1) = v
  BY <1>1
<1>2. /\ n <= UINT8_MAX => v % (UINT8_MAX + 1) = v
      /\ n <= UINT16_MAX => v % (UINT16_MAX + 1) = v
      /\ n <= UINT32_MAX => v % (UINT32_MAX + 1) = v
  <2>1. /\ n <= UINT8_MAX => v <= UINT8_MAX
        /\ n <= UINT16_MAX => v <= UINT16_MAX
        /\ n <= UINT32_MAX => v <= UINT32_MAX
    BY Widths
  <2> QED
    BY <1>1, <2>1, Widths
<1> DEFINE a == v % (UINT8_MAX + 1)
           b == v % (UINT16_MAX + 1)
           c == v % (UINT32_MAX + 1)
<1>3. \A w : SlotAlloc!Cut(v, w) = IF w = 1 THEN a ELSE IF w = 2 THEN b ELSE IF w = 4 THEN c ELSE v
  BY DEF SlotAlloc!Cut
<1> HIDE DEF a, b, c
<1>4. /\ n <= UINT8_MAX => a = v
      /\ n <= UINT16_MAX => b = v
      /\ n <= UINT32_MAX => c = v
  BY <1>2 DEF a, b, c
<1> QED
  BY <1>3, <1>4 DEF SlotAlloc!idx_sz

\* That gate names slots handed out, also when cut to their width.
LEMMA NewGateIn ==
  ASSUME NEW g, NEW sz, NEW slots \in Nat, NEW idx \in 0 .. slots - 1, NEW slots0 \in Nat,
         slots0 <= slots,
         \A j \in 1 .. Binary!Arity(g.tag) : SlotAlloc!SlotOf(g, j) \in 0 .. slots0 - 1
  PROVE  InSlots(NewGate(g, sz, idx), g, slots)
<1> DEFINE G == NewGate(g, sz, idx)
           ins == [j \in 1 .. SlotAlloc!Arity(g.tag) |-> SlotAlloc!SlotOf(g, j)]
<1>1. /\ G.tag = g.tag /\ G.m_idx.value = SlotAlloc!Cut(idx, sz)
      /\ G.inputs = [j \in 1 .. SlotAlloc!Arity(g.tag) |-> SlotAlloc!Field(ins[j], sz)]
  BY DEF NewGate, SlotAlloc!GateFields, SlotAlloc!Field
<1> HIDE DEF G
<1>2. ASSUME NEW v \in 0 .. slots - 1
      PROVE  SlotAlloc!Cut(v, sz) \in 0 .. slots - 1
  <2>1. v \in Nat /\ v <= slots - 1
    OBVIOUS
  <2>2. SlotAlloc!Cut(v, sz) \in 0 .. v
    BY <2>1, CutSmall
  <2> QED
    BY <2>1, <2>2
<1>3. ASSUME NEW j \in 1 .. Binary!Arity(g.tag)
      PROVE  G.inputs[j].value \in 0 .. slots - 1
  <2>1. j \in 1 .. SlotAlloc!Arity(g.tag)
    BY SameReader
  <2>2. SlotAlloc!SlotOf(g, j) \in 0 .. slots - 1
    OBVIOUS
  <2>3. G.inputs[j].value = SlotAlloc!Cut(SlotAlloc!SlotOf(g, j), sz)
    BY <1>1, <2>1 DEF SlotAlloc!Field
  <2> QED
    BY <1>2, <2>2, <2>3
<1>4. G.m_idx.value \in 0 .. slots - 1
  BY <1>1, <1>2
<1>5. G.table = g.table
  BY DEF G, NewGate, SlotAlloc!GateFields
<1> QED
  BY <1>1, <1>3, <1>4, <1>5 DEF InSlots, G

\* And if they fit that width, just those slots.
LEMMA NewGateExact ==
  ASSUME NEW g, NEW sz, NEW idx, SlotAlloc!Cut(idx, sz) = idx,
         \A j \in 1 .. Binary!Arity(g.tag) :
           SlotAlloc!Cut(SlotAlloc!SlotOf(g, j), sz) = SlotAlloc!SlotOf(g, j)
  PROVE  /\ NewGate(g, sz, idx).m_idx.value = idx
         /\ \A j \in 1 .. Binary!Arity(g.tag) :
              NewGate(g, sz, idx).inputs[j].value = SlotAlloc!SlotOf(g, j)
<1> DEFINE G == NewGate(g, sz, idx)
           ins == [j \in 1 .. SlotAlloc!Arity(g.tag) |-> SlotAlloc!SlotOf(g, j)]
<1>1. /\ G.m_idx.value = SlotAlloc!Cut(idx, sz)
      /\ G.inputs = [j \in 1 .. SlotAlloc!Arity(g.tag) |-> SlotAlloc!Field(ins[j], sz)]
  BY DEF NewGate, SlotAlloc!GateFields, SlotAlloc!Field
<1> HIDE DEF G
<1>2. ASSUME NEW j \in 1 .. Binary!Arity(g.tag)
      PROVE  G.inputs[j].value = SlotAlloc!SlotOf(g, j)
  <2>1. j \in 1 .. SlotAlloc!Arity(g.tag)
    BY SameReader
  <2>2. G.inputs[j].value = SlotAlloc!Cut(SlotAlloc!SlotOf(g, j), sz)
    BY <1>1, <2>1 DEF SlotAlloc!Field
  <2> QED
    BY <2>2
<1> QED
  BY <1>1, <1>2 DEF G

\* The header leaves room for every slot handed out.
LEMMA HeaderFits ==
  ASSUME NEW hf, NEW f, NEW o, NEW m \in 0 .. Total(o), NEW slots \in Nat, Total(o) \in Nat,
         Headed(hf, f, o), Peak(f, o, m, slots)
  PROVE  \A v \in 0 .. slots : SlotAlloc!Cut(v, hf.header.cnt_size) = v
<1>1. PICK n \in 0 .. Total(o) : /\ hf.header = HeaderFor(f, n)
                                 /\ \A i \in 0 .. Total(o) : Needs(f, o, i) <= n
  BY DEF Headed
<1>2. PICK i \in 0 .. m : Needs(f, o, i) = slots
  BY DEF Peak
<1>3. n \in Nat /\ i \in 0 .. Total(o)
  OBVIOUS
<1>4. slots <= n
  BY <1>1, <1>2, <1>3
<1>5. hf.header.cnt_size = SlotAlloc!idx_sz(n)
  BY <1>1 DEF HeaderFor, SlotAlloc!Header
<1>6. \A v \in 0 .. slots : v \in 0 .. n
  BY <1>3, <1>4
<1> QED
  BY <1>3, <1>5, <1>6, CutBelow

\* What the first m gates have left in a slot is no matter of the gates after them.
LEMMA HoldingSame ==
  ASSUME NEW hf, NEW hf2, NEW m \in Nat, \A k \in 1 .. m : hf2.gates[k] = hf.gates[k],
         NEW x, NEW i \in 0 .. m, NEW s, Holding(hf, x, i, s)
  PROVE  Holding(hf2, x, i, s)
<1>1. x \in 0 .. i - 1 /\ x + 1 \in 1 .. m /\ \A k \in x + 2 .. i : k \in 1 .. m
  BY DEF Holding
<1> QED
  BY <1>1 DEF Holding

\* One more gate at the end of a file.
LEMMA AppendFacts ==
  ASSUME NEW S, NEW s \in Seq(S), NEW e \in S, NEW m \in Nat, Len(s) = m
  PROVE  /\ Append(s, e) = [k \in 1 .. m + 1 |-> Append(s, e)[k]]
         /\ Append(s, e)[m + 1] = e
         /\ \A k \in 1 .. m : Append(s, e)[k] = s[k]
<1>1. Append(s, e) \in Seq(S) /\ Len(Append(s, e)) = m + 1
  OBVIOUS
<1>2. Append(s, e)[m + 1] = e
  OBVIOUS
<1>3. \A k \in 1 .. m : Append(s, e)[k] = s[k]
  OBVIOUS
<1> DEFINE t == Append(s, e)
<1>4. t \in Seq(S) /\ Len(t) = m + 1
  BY <1>1
<1> HIDE DEF t
<1>5. t = [k \in 1 .. m + 1 |-> t[k]]
  BY <1>4
<1> QED
  BY <1>2, <1>3, <1>5 DEF t

\* The second walk, one gate on: the slot it writes to is no wire's that has reads
\* left, so what the runtime has in the others is what the table says.
LEMMA SecondWalkSlots ==
  ASSUME DeadInv, BinaryInv, SlotsInv, binary_pc \in {"ready", "recounted"}, UNCHANGED vars,
         UNCHANGED binary_vars, SlotAlloc!SecondWalk
  PROVE  SlotsInv'
<1> DEFINE o == out_file
           n == Total(o)
           m == m_gate_idx
           g == At(bin, m)
           idx == SlotAlloc!SlotFor(SlotAlloc!Released(g))
           sz == hash_free.header.cnt_size
           G == NewGate(g, sz, idx)
<1>1. /\ slots_pc = "second" /\ SlotAlloc!WalkGate /\ bin' = bin
      /\ binary_pc' = binary_pc /\ out_file' = out_file
  BY DEF SlotAlloc!SecondWalk, vars, binary_vars
<1>2. slots_pc' # "aborted" =>
        /\ hash_free' = [hash_free EXCEPT !.gates = Append(@, G)]
        /\ holder' = [holder EXCEPT ![idx] = m]
  <2>1. SlotAlloc!Current = g
    BY SameReader DEF SlotAlloc!Current
  <2> HIDE DEF g
  <2> QED
    BY <2>1 DEF SlotAlloc!SecondWalk, NewGate
<1>3. /\ holder = [s \in 0 .. MaxId |-> holder[s]]
      /\ m \in 0 .. n /\ tbl_max \in 0 .. m
      /\ SecondOf(hash_free, holder, hash_tbl, bin, o, m, tbl_max)
  BY <1>1 DEF SlotsInv
<1>4. n \in Nat /\ n <= MaxId + 1 /\ MaxId \in Nat
  BY Sizes, Numbers
<1>5. \/ /\ slots_pc' = "aborted" /\ Starved(bin, o)
         /\ UNCHANGED <<m_gate_idx, hash_tbl, avail_idx, tbl_max>>
      \/ Walked(g, idx)
  BY <1>1, WalkStep
<1> HIDE DEF g, idx, sz, G
<1>6. Walked(g, idx)
  BY <1>3, <1>5 DEF SecondOf
<1>7. /\ slots_pc' = "second" /\ m < n /\ m_gate_idx' = m + 1
      /\ tbl_max' \in 0 .. m + 1 /\ tbl_max <= tbl_max'
      /\ WalkOf(SlotAlloc!Tables', bin, o, m + 1, tbl_max')
      /\ idx \in 0 .. tbl_max' - 1 /\ hash_tbl'[m].slot = idx
      /\ \A x \in DOMAIN hash_tbl' : x # m =>
           /\ x \in DOMAIN hash_tbl /\ hash_tbl'[x].slot = hash_tbl[x].slot
           /\ hash_tbl[x].slot # idx
      /\ \A j \in 1 .. Binary!Arity(g.tag) : SlotAlloc!SlotOf(g, j) \in 0 .. tbl_max - 1
      /\ Found(g)
  BY <1>1, <1>6 DEF Walked
<1>8. /\ m_gate_idx' \in 0 .. Total(o') /\ tbl_max' \in 0 .. m_gate_idx'
      /\ WalkOf(SlotAlloc!Tables', bin', o', m_gate_idx', tbl_max')
  BY <1>1, <1>3, <1>4, <1>7
<1>9. idx \in 0 .. MaxId /\ m \in Nat /\ tbl_max \in Nat /\ tbl_max' \in Nat
  BY <1>3, <1>4, <1>7
<1>10. holder' = [holder EXCEPT ![idx] = m] /\ hash_free' = [hash_free EXCEPT !.gates = Append(@, G)]
  BY <1>2, <1>7
<1>11. /\ holder' = [s \in 0 .. MaxId |-> holder'[s]]
       /\ holder'[idx] = m /\ \A s \in 0 .. MaxId : s # idx => holder'[s] = holder[s]
  BY <1>3, <1>9, <1>10
<1>12. \A x \in DOMAIN hash_tbl' : holder'[hash_tbl'[x].slot] = x
  <2> TAKE x \in DOMAIN hash_tbl'
  <2>1. CASE x = m
    BY <1>7, <1>11, <2>1
  <2>2. CASE x # m
    <3>1. x \in DOMAIN hash_tbl /\ hash_tbl'[x].slot = hash_tbl[x].slot /\ hash_tbl[x].slot # idx
      BY <1>7, <2>2
    <3>2. holder[hash_tbl[x].slot] = x
      BY <1>3, <3>1 DEF SecondOf
    <3>3. hash_tbl[x].slot \in 0 .. tbl_max - 1
      <4>1. Slotted(SlotAlloc!Tables, m, CountOf(bin, n), ReadsOf(o, m), tbl_max)
        BY <1>1 DEF SlotsInv, WalkOf
      <4>2. SlotAlloc!Tables.tbl = hash_tbl
        BY DEF SlotAlloc!Tables
      <4> QED
        BY <3>1, <4>1, <4>2 DEF Slotted
    <3>4. hash_tbl[x].slot \in 0 .. MaxId
      BY <1>3, <1>4, <1>9, <3>3
    <3> QED
      BY <1>11, <3>1, <3>2, <3>4
  <2> QED
    BY <2>1, <2>2
<1>13. hash_free'.header = hash_free.header /\ hash_free'.gates = Append(hash_free.gates, G)
  BY <1>10
<1>14. Headed(hash_free', bin', o')
  BY <1>1, <1>3, <1>13 DEF SecondOf, Headed
<1>15. /\ hash_free'.gates = [k \in 1 .. m + 1 |-> hash_free'.gates[k]]
       /\ hash_free'.gates[m + 1] = G
       /\ \A k \in 1 .. m : hash_free'.gates[k] = hash_free.gates[k]
  <2> DEFINE s == hash_free.gates
  <2>1. s = [k \in 1 .. m |-> s[k]]
    BY <1>3 DEF SecondOf
  <2> HIDE DEF s
  <2> DEFINE S == {s[k] : k \in 1 .. m} \cup {G}
  <2>2. s \in Seq(S) /\ Len(s) = m /\ G \in S
    BY <1>9, <2>1
  <2> HIDE DEF S
  <2>3. /\ Append(s, G) = [k \in 1 .. m + 1 |-> Append(s, G)[k]]
        /\ Append(s, G)[m + 1] = G
        /\ \A k \in 1 .. m : Append(s, G)[k] = s[k]
    BY <1>9, <2>2, AppendFacts
  <2> QED
    BY <1>13, <2>3 DEF s
<1>16. \A k \in 1 .. m + 1 : InSlots(hash_free'.gates[k], At(bin', k - 1), tbl_max')
  <2> TAKE k \in 1 .. m + 1
  <2>1. CASE k = m + 1
    <3>1. InSlots(G, g, tbl_max')
      BY <1>7, <1>9, NewGateIn DEF G
    <3>2. k - 1 = m
      BY <1>9, <2>1
    <3> QED
      BY <1>1, <1>15, <2>1, <3>1, <3>2 DEF g
  <2>2. CASE k # m + 1
    <3>1. k \in 1 .. m
      BY <1>9, <2>2
    <3>2. InSlots(hash_free.gates[k], At(bin, k - 1), tbl_max)
      BY <1>3, <3>1 DEF SecondOf
    <3>3. \A v \in 0 .. tbl_max - 1 : v \in 0 .. tbl_max' - 1
      <4>1. tbl_max <= tbl_max' /\ tbl_max \in Nat /\ tbl_max' \in Nat
        BY <1>7, <1>9
      <4> QED
        BY <4>1, Wider
    <3> QED
      BY <1>1, <1>15, <3>1, <3>2, <3>3 DEF InSlots
  <2> QED
    BY <2>1, <2>2
<1>17. /\ G.m_idx.value = idx
       /\ \A j \in 1 .. Binary!Arity(g.tag) : G.inputs[j].value = SlotAlloc!SlotOf(g, j)
  <2>1. Headed(hash_free, bin, o) /\ Peak(bin, o, m + 1, tbl_max') /\ m + 1 \in 0 .. n
    BY <1>3, <1>7, <1>8, <1>1 DEF SecondOf, WalkOf
  <2>2. \A v \in 0 .. tbl_max' : SlotAlloc!Cut(v, sz) = v
    BY <1>4, <1>9, <2>1, HeaderFits DEF sz
  <2>3. \A v : v \in 0 .. tbl_max' - 1 \/ v \in 0 .. tbl_max - 1 => v \in 0 .. tbl_max'
    BY <1>7, <1>9
  <2>4. SlotAlloc!Cut(idx, sz) = idx
    BY <1>7, <2>2, <2>3
  <2>5. \A j \in 1 .. Binary!Arity(g.tag) :
          SlotAlloc!Cut(SlotAlloc!SlotOf(g, j), sz) = SlotAlloc!SlotOf(g, j)
    BY <1>7, <2>2, <2>3
  <2> QED
    BY <2>4, <2>5, NewGateExact DEF G
<1>18. ASSUME NEW x, NEW i \in 0 .. m, NEW s, Holding(hash_free, x, i, s)
       PROVE  Holding(hash_free', x, i, s)
  <2>1. m \in Nat /\ \A k \in 1 .. m : hash_free'.gates[k] = hash_free.gates[k]
    BY <1>9, <1>15
  <2> QED
    BY <1>18, <2>1, HoldingSame
<1>19. \A x \in DOMAIN hash_tbl' : Holding(hash_free', x, m + 1, hash_tbl'[x].slot)
  <2> TAKE x \in DOMAIN hash_tbl'
  <2>1. CASE x = m
    <3>1. m + 2 .. m + 1 = {} /\ m \in 0 .. (m + 1) - 1
      BY <1>9
    <3> QED
      BY <1>7, <1>15, <1>17, <2>1, <3>1 DEF Holding
  <2>2. CASE x # m
    <3>1. x \in DOMAIN hash_tbl /\ hash_tbl'[x].slot = hash_tbl[x].slot /\ hash_tbl[x].slot # idx
      BY <1>7, <2>2
    <3>2. Holding(hash_free, x, m, hash_tbl[x].slot)
      BY <1>3, <3>1 DEF SecondOf
    <3>3. Holding(hash_free', x, m, hash_tbl'[x].slot)
      BY <1>9, <1>18, <3>1, <3>2
    <3>4. \A i \in x + 2 .. m + 1 : i \in x + 2 .. m \/ i = m + 1
      BY <1>9, <3>2 DEF Holding
    <3>5. x \in 0 .. (m + 1) - 1
      BY <1>9, <3>2 DEF Holding
    <3> QED
      BY <1>15, <1>17, <3>1, <3>3, <3>4, <3>5 DEF Holding
  <2> QED
    BY <2>1, <2>2
<1>20. \A k \in 1 .. m + 1 : Wired(hash_free', bin', k)
  <2> TAKE k \in 1 .. m + 1
  <2>1. CASE k = m + 1
    <3>1. k - 1 = m /\ At(bin', k - 1) = g
      BY <1>1, <1>9, <2>1 DEF g
    <3>2. ASSUME NEW j \in 1 .. Binary!Arity(g.tag)
          PROVE  Holding(hash_free', g.m_input_idx[j], m, hash_free'.gates[k].inputs[j].value)
      <4>1. /\ g.m_input_idx[j] \in DOMAIN hash_tbl
            /\ SlotAlloc!SlotOf(g, j) = hash_tbl[g.m_input_idx[j]].slot
        BY <1>7 DEF Found
      <4>2. Holding(hash_free, g.m_input_idx[j], m, SlotAlloc!SlotOf(g, j))
        BY <1>3, <4>1 DEF SecondOf
      <4>3. Holding(hash_free', g.m_input_idx[j], m, SlotAlloc!SlotOf(g, j))
        BY <1>9, <1>18, <4>2
      <4> QED
        BY <1>15, <1>17, <2>1, <4>3
    <3> QED
      BY <3>1, <3>2 DEF Wired
  <2>2. CASE k # m + 1
    <3>1. k \in 1 .. m /\ k - 1 \in 0 .. m
      BY <1>9, <2>2
    <3>2. Wired(hash_free, bin, k)
      BY <1>3, <3>1 DEF SecondOf
    <3>3. hash_free'.gates[k] = hash_free.gates[k]
      BY <1>15, <3>1
    <3> QED
      BY <1>1, <1>18, <3>1, <3>2, <3>3 DEF Wired
  <2> QED
    BY <2>1, <2>2
<1>21. SecondOf(hash_free', holder', hash_tbl', bin', o', m_gate_idx', tbl_max')
  <2>1. ~Starved(bin', o')
    BY <1>1, <1>3 DEF SecondOf
  <2> QED
    BY <1>7, <1>12, <1>14, <1>15, <1>16, <1>19, <1>20, <2>1 DEF SecondOf
<1> QED
  BY <1>1, <1>7, <1>8, <1>11, <1>21 DEF SlotsInv

\* A step of any program keeps the invariant of remove_hash.
LEMMA SlotsStep ==
  ASSUME DeadInv, DeadInv', BinaryInv, SlotsInv, [NextAll]_vars_all
  PROVE  SlotsInv'
<1>1. Total(out_file') \in Nat
  <2>1. out_file' \in Seq(Gate)
    BY DEF DeadInv, DeadTypes
  <2>2. Len(out_file') \in Nat
    BY <2>1
  <2> QED
    BY <2>2, Numbers DEF Total
<1>2. CASE Dead
  <2>1. pc # "done" /\ UNCHANGED slots_vars
    BY <1>2 DEF Dead, Next, MarkGate, MarkDone, Number, EmitGate, EmitDone
  <2>2. binary_pc = "count"
    BY <2>1 DEF BinaryInv
  <2>3. slots_pc = "first" /\ m_gate_idx = 0
    BY <2>2 DEF SlotsInv
  <2> QED
    BY <1>1, <2>1, <2>3, IdleSlots
<1>3. CASE Write
  <2>1. slots_pc = "first" /\ m_gate_idx = 0 /\ UNCHANGED slots_vars
    BY <1>3 DEF Write
  <2> QED
    BY <1>1, <2>1, IdleSlots
<1>4. CASE RemoveHash
  <2>1. /\ binary_pc \in {"ready", "recounted"} /\ UNCHANGED vars /\ UNCHANGED binary_vars
        /\ SlotAlloc!Next
    BY <1>4 DEF RemoveHash
  <2> QED
    BY <2>1, FirstWalkSlots, BetweenSlots, SecondWalkSlots, SecondDoneSlots DEF SlotAlloc!Next
<1>5. CASE UNCHANGED vars_all
  <2>1. /\ UNCHANGED <<slots_pc, m_gate_idx, hash_tbl, avail_idx, tbl_max, hash_free, holder>>
        /\ UNCHANGED <<binary_pc, bin, out_file>>
    BY <1>5 DEF vars_all, vars, binary_vars, slots_vars
  <2>2. SlotAlloc!Tables' = SlotAlloc!Tables
    BY <2>1 DEF SlotAlloc!Tables
  <2> QED
    BY <2>1, <2>2 DEF SlotsInv
<1> QED
  BY <1>2, <1>3, <1>4, <1>5 DEF NextAll

\* A wire that has reads left is in the table, and the runtime has it in its slot.
LEMMA HeldSafe ==
  ASSUME DeadInv, BinaryInv, SlotsInv
  PROVE  NoClobber
<1> DEFINE o == out_file
           n == Total(o)
           m == m_gate_idx
<1> SUFFICES ASSUME slots_pc = "second", NEW x \in 0 .. m - 1, ReadsFrom(x, m) > 0
             PROVE  x \in DOMAIN hash_tbl /\ holder[hash_tbl[x].slot] = x
  BY DEF NoClobber
<1>1. /\ Chained(o) /\ n \in Nat /\ Len(o) \in Nat
  BY DeadChained, ChainedFacts
<1>2. /\ m \in 0 .. n /\ WalkOf(SlotAlloc!Tables, bin, o, m, tbl_max)
      /\ SecondOf(hash_free, holder, hash_tbl, bin, o, m, tbl_max)
  BY DEF SlotsInv
<1>3. m \in Nat /\ x \in Nat /\ x \in 0 .. n - 1 /\ m <= n
  BY <1>1, <1>2
<1>4. /\ ReadBefore(o, x, m) \in Nat /\ ReadBefore(o, x, n) \in Nat
      /\ ReadBefore(o, x, m) < ReadBefore(o, x, n)
  <2>1. ReadBefore(o, x, m) \in Nat /\ ReadBefore(o, x, n) \in Nat
    BY <1>1, ReadsType
  <2>2. ReadsFrom(x, m) = ReadBefore(o, x, n) - ReadBefore(o, x, m)
    BY <1>1, <1>2, ReadsRest
  <2> QED
    BY <2>1, <2>2
<1>5. ~(Cnt(bin, x) < ReadBefore(o, x, n))
  BY <1>2, <1>3 DEF SecondOf, Starved
<1>6. Cnt(bin, x) \in Nat
  <2>1. binary_pc \in {"ready", "recounted"}
    BY DEF SlotsInv
  <2> QED
    BY <1>3, <2>1, FedNow DEF Fed
<1>7. x \in HeldAt(bin, o, m)
  BY <1>4, <1>5, <1>6 DEF HeldAt
<1>8. x \in DOMAIN hash_tbl
  <2>1. Slotted(SlotAlloc!Tables, m, CountOf(bin, n), ReadsOf(o, m), tbl_max)
    BY <1>2 DEF WalkOf
  <2>2. DOMAIN SlotAlloc!Tables.tbl = HeldAt(bin, o, m)
    BY <1>1, <1>3, <2>1, HeldSlots
  <2> QED
    BY <1>7, <2>2 DEF SlotAlloc!Tables
<1> QED
  BY <1>2, <1>8 DEF SecondOf

(***************************************************************************)
(* deadgates.cpp again: what it emits is the file under new numbers.       *)
(***************************************************************************)

\* A gate reads no output.
LEMMA NoOutputRead ==
  ASSUME WellFormed(file), file # << >>, NEW i \in 1 .. Len(file), NEW w \in {file[i].x, file[i].y}
  PROVE  \/ w \in Nat /\ w <= input_cnt
         \/ \E j \in 1 .. (i - 1) : ~file[j].output /\ w = file[j].id
<1>1. w \in Inputs \cup {file[j].id : j \in {k \in 1 .. (i - 1) : ~file[k].output}}
  BY DEF WellFormed
<1>2. w \in Ids
  BY FileFacts
<1>3. w \in Inputs => w \in Nat /\ w <= input_cnt
  BY <1>2, Numbers
<1> QED
  BY <1>1, <1>3

\* A lookup that is not misled yields the new number.
LEMMA EmitGateFaithful ==
  ASSUME DeadInv, EmitGate, Faithful
  PROVE  Faithful'
<1> DEFINE g  == file[pos + 1]
           r0 == OldWire(cache, g.x)
           r1 == IF g.output THEN [to |-> 0, cache |-> r0.cache] ELSE OldWire(r0.cache, g.y)
           n0 == NewNumber(r1.cache, r0.to)
           n1 == NewNumber(n0.cache, r1.to)
           x  == IF n0.to # 0 THEN n0.to ELSE r0.to
           y  == IF n1.to # 0 THEN n1.to ELSE r1.to
           new == [g EXCEPT !.id = cnt + 1, !.x = x, !.y = y]
<1> SUFFICES ASSUME ~misled'
             PROVE  Faithful'
  BY DEF Faithful
<1>1. /\ pc = "emit" /\ pos < Len(file) /\ pos' = pos + 1
      /\ UNCHANGED <<file, live, newmap>>
      /\ ~misled /\ r0.to = g.x /\ (~g.output => r1.to = g.y)
  BY DEF EmitGate
<1>2. out_file' = out_file \/ (Kept(g) /\ out_file' = Append(out_file, new))
  BY DEF EmitGate
<1> HIDE DEF r0, r1, n0, n1, x, y, new
<1>3. /\ WellFormed(file) /\ file # << >> /\ live \subseteq Ids
      /\ pos \in 0 .. Len(file) /\ cnt \in Nat /\ out_file \in Seq(Gate) /\ Len(out_file) \in Nat
  BY DEF DeadInv, DeadTypes
<1>4. /\ next_id = 0
      /\ newmap = [q \in Ids |-> IF q \in Numbered THEN NumberOf(q) ELSE q]
  BY <1>1 DEF DeadInv, Phases
<1>5. /\ pos \in Nat /\ pos \in 0 .. Len(file) - 1 /\ pos + 1 \in 1 .. Len(file)
  BY <1>1, <1>3, FileFacts
<1>6. /\ g \in Gate /\ g.id \in Ids /\ g.x \in Ids /\ g.y \in Ids
      /\ g.output \in BOOLEAN /\ g.output => g.y = 0
  BY <1>3, <1>5, FileFacts, GateFacts
<1>7. /\ \A q \in Ids : newmap[q] \in Ids /\ newmap[q] \in Nat /\ newmap[q] <= q
      /\ \A q \in Numbered : q \in Ids /\ newmap[q] = NumberOf(q)
      /\ \A q \in Ids : q \notin Numbered => newmap[q] = q
      /\ \A q \in Ids : q <= input_cnt => newmap[q] = q
  BY <1>3, <1>4, Renaming
<1>8. /\ cnt = input_cnt + Len(out_file) /\ Len(out_file) = Cardinality(LiveOf(pos))
      /\ \A e \in cache : e \in Ids \X Ids /\ e[1] \in Numbered /\ e[2] = newmap[e[1]]
  BY <1>1 DEF DeadInv, Emitted
<1>9. r0.cache = cache /\ r1.cache = cache /\ r0.to = g.x /\ r1.to = g.y
  <2>1. r0.cache = cache
    BY <1>6, <1>8, OldLookup DEF r0
  <2>2. CASE g.output
    BY <1>1, <1>6, <2>1, <2>2 DEF r1
  <2>3. CASE ~g.output
    <3>1. r1 = OldWire(cache, g.y)
      BY <2>1, <2>3 DEF r1
    <3>2. r1.cache = cache
      BY <1>6, <1>8, <3>1, OldLookup
    <3> QED
      BY <1>1, <2>1, <2>3, <3>2
  <2> QED
    BY <2>2, <2>3
<1>10. /\ n0.to = newmap[g.x]
       /\ \A e \in n0.cache : e \in cache \/ (g.x \in Numbered /\ e = <<g.x, newmap[g.x]>>)
  BY <1>6, <1>7, <1>8, <1>9, NewLookup DEF n0
<1>11. \A e \in n0.cache : e \in Ids \X Ids /\ e[1] \in Numbered /\ e[2] = newmap[e[1]]
  <2> TAKE e \in n0.cache
  <2>1. CASE e \in cache
    BY <1>8, <2>1
  <2>2. CASE g.x \in Numbered /\ e = <<g.x, newmap[g.x]>>
    <3>1. newmap[g.x] \in Ids
      BY <1>6, <1>7
    <3> QED
      BY <1>6, <2>2, <3>1
  <2> QED
    BY <1>10, <2>1, <2>2
<1>12. n1.to = newmap[g.y]
  BY <1>6, <1>7, <1>9, <1>11, NewLookup DEF n1
<1>13. x = newmap[g.x] /\ y = newmap[g.y]
  <2>1. ASSUME NEW q \in Ids, newmap[q] = 0
        PROVE  q = 0
    <3>1. q \in Numbered => NumberOf(q) > input_cnt /\ NumberOf(q) \in Nat
      BY <1>3, Ranks
    <3>2. q \notin Numbered
      BY <1>7, <2>1, <3>1, Numbers
    <3> QED
      BY <1>7, <2>1, <3>2
  <2>2. newmap[g.x] = 0 => g.x = 0
    BY <1>6, <2>1
  <2>3. newmap[g.y] = 0 => g.y = 0
    BY <1>6, <2>1
  <2> QED
    BY <1>9, <1>10, <1>12, <2>2, <2>3 DEF x, y
<1>14. \A k \in 1 .. Len(out_file) : \E i \in 1 .. pos :
         /\ file[i].id \in live /\ out_file[k].id = newmap[file[i].id]
         /\ out_file[k].output = file[i].output
         /\ out_file[k].x = newmap[file[i].x] /\ out_file[k].y = newmap[file[i].y]
         /\ out_file[k].table = file[i].table /\ out_file[k].party = file[i].party
  BY <1>1 DEF Faithful
<1>15. \A i \in 1 .. pos : i \in 1 .. pos + 1
  BY <1>5
<1>16. CASE out_file' = out_file
  BY <1>1, <1>14, <1>15, <1>16 DEF Faithful
<1>17. CASE Kept(g) /\ out_file' = Append(out_file, new)
  <2>1. g.id \in live /\ g.id \in Numbered
    BY <1>4, <1>5, <1>17, LiveWires DEF Kept
  <2>2. newmap[g.id] = cnt + 1
    <3>1. NumberOf(g.id) = input_cnt + Cardinality(LiveOf(pos)) + 1
      BY <1>4, <1>5, <2>1, LiveNext
    <3> QED
      BY <1>7, <1>8, <2>1, <3>1
  <2>3. /\ new.id = cnt + 1 /\ new.x = x /\ new.y = y /\ new.output = g.output
        /\ new.table = g.table /\ new.party = g.party
    BY <1>6 DEF new, Gate
  <2>4. /\ Len(out_file') = Len(out_file) + 1 /\ out_file'[Len(out_file) + 1] = new
        /\ \A k \in 1 .. Len(out_file) : out_file'[k] = out_file[k]
    <3>1. out_file' = Append(out_file, new)
      BY <1>17
    <3> QED
      BY <1>3, <3>1
  <2>5. \A k \in 1 .. Len(out_file') : k \in 1 .. Len(out_file) \/ k = Len(out_file) + 1
    BY <1>3, <2>4
  <2>6. ASSUME NEW k \in 1 .. Len(out_file')
        PROVE  \E i \in 1 .. pos + 1 :
                 /\ file[i].id \in live /\ out_file'[k].id = newmap[file[i].id]
                 /\ out_file'[k].output = file[i].output
                 /\ out_file'[k].x = newmap[file[i].x] /\ out_file'[k].y = newmap[file[i].y]
                 /\ out_file'[k].table = file[i].table /\ out_file'[k].party = file[i].party
    <3>1. CASE k \in 1 .. Len(out_file)
      BY <1>14, <1>15, <2>4, <3>1
    <3>2. CASE k = Len(out_file) + 1
      <4>1. /\ out_file'[k].id = newmap[g.id] /\ out_file'[k].output = g.output
            /\ out_file'[k].x = newmap[g.x] /\ out_file'[k].y = newmap[g.y]
            /\ out_file'[k].table = g.table /\ out_file'[k].party = g.party
        BY <1>13, <2>2, <2>3, <2>4, <3>2
      <4>2. pos + 1 \in 1 .. pos + 1
        BY <1>5
      <4> QED
        BY <2>1, <4>1, <4>2
    <3> QED
      BY <2>5, <3>1, <3>2
  <2> QED
    BY <1>1, <2>6 DEF Faithful
<1> QED
  BY <1>2, <1>16, <1>17

\* A step of any program keeps that.
LEMMA FaithfulStep ==
  ASSUME DeadInv, DeadInv', Faithful, [NextAll]_vars_all
  PROVE  Faithful'
<1>1. CASE Dead
  <2>1. CASE EmitGate
    BY <2>1, EmitGateFaithful
  <2>2. CASE MarkGate \/ MarkDone \/ Number
    <3>1. out_file' = out_file /\ pc \notin {"emit", "done"}
      BY <2>2 DEF MarkGate, MarkDone, Number
    <3>2. out_file' = << >>
      BY <3>1 DEF DeadInv, Phases
    <3>3. 1 .. Len(out_file') = {}
      BY <3>2
    <3> QED
      BY <3>3 DEF Faithful
  <2>3. CASE EmitDone
    BY <2>3 DEF EmitDone, Faithful
  <2> QED
    BY <1>1, <2>1, <2>2, <2>3 DEF Dead, Next
<1>2. CASE UNCHANGED vars
  BY <1>2 DEF vars, Faithful
<1> QED
  BY <1>1, <1>2 DEF NextAll, Write, RemoveHash, vars_all

\* The new number of a wire that a live gate reads is none of an output.
LEMMA NewApart ==
  ASSUME DeadInv, pc = "done", NEW i \in 1 .. Len(file), NEW j \in 1 .. Len(file),
         file[i].id \in live, file[j].id \in live, file[j].output,
         NEW w \in {file[i].x, file[i].y}
  PROVE  newmap[w] # newmap[file[j].id]
<1>1. /\ WellFormed(file) /\ file # << >> /\ live \subseteq Ids /\ next_id = 0
      /\ newmap = [q \in Ids |-> IF q \in Numbered THEN NumberOf(q) ELSE q]
  BY DEF DeadInv, DeadTypes, Phases
<1>2. /\ \A q \in Numbered : q \in Ids /\ newmap[q] = NumberOf(q)
      /\ \A q \in Ids : q <= input_cnt => newmap[q] = q
  BY <1>1, Renaming
<1>3. /\ \A q \in Numbered : q \in Nat /\ NumberOf(q) \in Nat /\ input_cnt < NumberOf(q)
      /\ \A p, q \in Numbered : p < q => NumberOf(p) < NumberOf(q)
  BY <1>1, Ranks
<1>4. w \in live /\ w \in Ids /\ w \in Nat
  <2>1. w \in live
    BY <1>1 DEF DeadInv, Marked
  <2> QED
    BY <1>1, <2>1, Numbers
<1>5. file[j].id \in Numbered
  BY <1>1, LiveWires
<1>6. CASE w <= input_cnt
  <2>1. newmap[w] = w
    BY <1>2, <1>4, <1>6
  <2> QED
    BY <1>2, <1>3, <1>4, <1>5, <1>6, <2>1, Numbers
<1>7. CASE ~(w <= input_cnt)
  <2>1. PICK l \in 1 .. (i - 1) : ~file[l].output /\ w = file[l].id
    BY <1>1, <1>7, NoOutputRead
  <2>2. l \in 1 .. Len(file) /\ l # j
    BY <2>1
  <2>3. l \in 1 .. (j - 1) \/ j \in 1 .. (l - 1)
    BY <2>2
  <2>4. w < file[j].id \/ file[j].id < w
    BY <1>1, <2>1, <2>2, <2>3, FileFacts
  <2>5. w \in Numbered
    BY <1>1, <2>1, <2>2, <1>4, LiveWires
  <2> QED
    BY <1>2, <1>3, <1>5, <2>4, <2>5
<1> QED
  BY <1>6, <1>7

\* So no gate that is emitted reads an output, unless a lookup was misled.
LEMMA OutputsUnread ==
  ASSUME DeadInv, Faithful, ~misled, pc = "done", NEW x, IsOut(out_file, x)
  PROVE  ReadBefore(out_file, x, Total(out_file)) = 0
<1> DEFINE o == out_file
<1>1. pos = Len(file)
  BY DEF DeadInv, Phases
<1>2. PICK l \in 1 .. Len(o) : o[l].output /\ o[l].id = x
  BY DEF IsOut
<1>3. PICK j \in 1 .. Len(file) : /\ file[j].id \in live /\ o[l].id = newmap[file[j].id]
                                  /\ o[l].output = file[j].output
  BY <1>1 DEF Faithful
<1>4. ASSUME NEW k \in 1 .. Len(o)
      PROVE  o[k].x # x /\ o[k].y # x
  <2>1. PICK i \in 1 .. Len(file) : /\ file[i].id \in live
                                    /\ o[k].x = newmap[file[i].x] /\ o[k].y = newmap[file[i].y]
    BY <1>1 DEF Faithful
  <2>2. newmap[file[i].x] # newmap[file[j].id] /\ newmap[file[i].y] # newmap[file[j].id]
    BY <1>2, <1>3, <2>1, NewApart
  <2> QED
    BY <1>2, <1>3, <2>1, <2>2
<1>5. Firsts(o, x, Total(o)) = {} /\ Seconds(o, x, Total(o)) = {}
  BY <1>4 DEF Firsts, Seconds
<1>6. Cardinality({}) = 0
  BY FS_EmptySet
<1> QED
  BY <1>5, <1>6 DEF ReadBefore

\* So remove_hash finds every wire it reads, but after a misled lookup.
LEMMA ChainOk ==
  ASSUME DeadInv, BinaryInv, SlotsInv, Faithful
  PROVE  ChainHolds
<1>1. aligned /\ binary_pc # "aborted"
  BY DEF BinaryInv
<1>2. pc = "aborted" => ~file[Len(file)].output
  BY DEF DeadInv, Phases
<1>3. ASSUME slots_pc = "aborted"
      PROVE  misled /\ binary_pc = "recounted" /\ hash_free = SlotAlloc!NoFile
  <2>1. hash_free = SlotAlloc!NoFile /\ binary_pc = "recounted" /\ Starved(bin, out_file)
    BY <1>3 DEF SlotsInv
  <2>2. pc = "done"
    BY <2>1 DEF BinaryInv
  <2>3. PICK x \in Nat : IsOut(out_file, x) /\ ReadBefore(out_file, x, Total(out_file)) > 0
    BY <2>1, FedNow
  <2>4. ~misled => ReadBefore(out_file, x, Total(out_file)) = 0
    BY <2>2, <2>3, OutputsUnread
  <2>5. misled
    BY <2>3, <2>4
  <2> QED
    BY <2>1, <2>5
<1> QED
  BY <1>1, <1>2, <1>3 DEF ChainHolds

(***************************************************************************)
(* The header of the hash-free file.                                       *)
(***************************************************************************)

\* Counting behind the inputs is counting.
Shift(n, d, S, T) ==
  /\ S \subseteq 1 .. n /\ T \subseteq d + 1 .. d + n
  /\ \A k \in 1 .. n : k \in S <=> d + k \in T

\* The two have the same number of elements.
LEMMA Shifted ==
  ASSUME NEW n \in Nat, NEW d \in Nat, NEW S, NEW T, Shift(n, d, S, T)
  PROVE  Cardinality(T) = Cardinality(S)
<1> USE DEF Shift
<1>1. IsFiniteSet(S)
  <2>1. 1 \in Int /\ n \in Int
    OBVIOUS
  <2>2. IsFiniteSet(1 .. n)
    BY <2>1, FS_Interval
  <2> QED
    BY <2>2, FS_Subset
<1> DEFINE f == [k \in S |-> d + k]
<1>2. f \in [S -> T] /\ \A k \in S : k \in Nat /\ f[k] = d + k
  OBVIOUS
<1> HIDE DEF f
<1>3. \A t \in T : \E k \in S : f[k] = t
  <2> TAKE t \in T
  <2>1. t \in Nat /\ t - d \in 1 .. n /\ d + (t - d) = t
    OBVIOUS
  <2>2. t - d \in S
    BY <2>1
  <2> QED
    BY <1>2, <2>1, <2>2
<1>4. f \in Surjection(S, T)
  BY <1>2, <1>3 DEF Surjection
<1>5. \A a, b \in S : f[a] = f[b] => a = b
  BY <1>2
<1>6. f \in Injection(S, T)
  BY <1>2, <1>5 DEF Injection, IsInjective
<1> QED
  BY <1>1, <1>4, <1>6, FS_Surjection

\* A number of the header that is cut twice is cut once.
LEMMA CutTwice ==
  ASSUME NEW v \in Nat
  PROVE  SlotAlloc!Cut(Binary!Cut(v, 4), 4) = v % (UINT32_MAX + 1)
<1>1. ASSUME NEW q \in Nat
      PROVE  (v % (q + 1)) % (q + 1) = v % (q + 1)
  <2> DEFINE r == v % (q + 1)
  <2>1. r \in Nat /\ r <= q
    OBVIOUS
  <2> HIDE DEF r
  <2>2. r % (q + 1) = r
    BY <2>1
  <2> QED
    BY <2>2 DEF r
<1>2. Binary!Cut(v, 4) = v % (UINT32_MAX + 1)
  BY DEF Binary!Cut
<1>3. \A u : SlotAlloc!Cut(u, 4) = u % (UINT32_MAX + 1)
  BY DEF SlotAlloc!Cut
<1> QED
  BY <1>1, <1>2, <1>3, Widths

\* The gates of the circuit file with tag t, and the inputs and outputs of party p.
TagsIn(f, n, t) == Cardinality({k \in 1 .. n : At(f, k - 1).tag = t})
OutsOf(o, p) == Cardinality({k \in 1 .. Len(o) : o[k].output /\ o[k].party = p})

\* The tags of the file say how many inputs and outputs each party has.
LEMMA TagCounts ==
  ASSUME NEW f, NEW o, Chained(o), Holds(f, o)
  PROVE  /\ TagsIn(f, Total(o), 1) = Binary!InputsOf(0)
         /\ TagsIn(f, Total(o), 2) = Binary!InputsOf(1)
         /\ TagsIn(f, Total(o), 3) = OutsOf(o, 0)
         /\ TagsIn(f, Total(o), 4) = OutsOf(o, 1)
         /\ \A t : TagsIn(f, Total(o), t) \in Nat
<1> DEFINE n == Total(o)
           S(t) == {k \in 1 .. n : At(f, k - 1).tag = t}
<1>1. /\ Len(o) \in Nat /\ n \in Nat /\ n = InpCnt + Len(o) /\ InpCnt \in Nat
      /\ \A k \in 1 .. Len(o) : o[k].output \in BOOLEAN /\ o[k].party \in {0, 1}
  BY ChainedFacts, Numbers
<1>2. ASSUME NEW k \in 1 .. InpCnt
      PROVE  At(f, k - 1).tag = IF InputParty[k] = 1 THEN 2 ELSE 1
  <2>1. k - 1 \in 0 .. n - 1 /\ k - 1 < InpCnt /\ (k - 1) + 1 = k
    BY <1>1
  <2>2. At(f, k - 1).tag = InputTag(k - 1)
    BY <2>1 DEF Holds, Shows
  <2> QED
    BY <2>1, <2>2, Tags DEF InputTag
<1>3. ASSUME NEW k \in 1 .. Len(o)
      PROVE  At(f, InpCnt + k - 1).tag = IF o[k].output THEN IF o[k].party = 1 THEN 4 ELSE 3 ELSE 0
  <2>1. /\ InpCnt + k - 1 \in 0 .. n - 1 /\ InpCnt + k - 1 >= InpCnt
        /\ (InpCnt + k - 1) + 1 - InpCnt = k
    BY <1>1
  <2>2. At(f, InpCnt + k - 1).tag = TagOf(o[k])
    BY <2>1 DEF Holds, Shows, Matches
  <2> QED
    BY <2>2, Tags DEF TagOf
<1>4. \A k \in 1 .. n : k \in 1 .. InpCnt \/ k - InpCnt \in 1 .. Len(o)
  BY <1>1
<1>5. ASSUME NEW p \in {0, 1}
      PROVE  S(p + 1) = {i \in 1 .. InpCnt : InputParty[i] = p}
  <2>1. \A i \in 1 .. InpCnt : InputParty[i] \in {0, 1} /\ i \in 1 .. n
    BY <1>1, InputsAssumption
  <2>2. ASSUME NEW k \in S(p + 1)
        PROVE  k \in 1 .. InpCnt /\ InputParty[k] = p
    <3>1. CASE k \in 1 .. InpCnt
      BY <1>2, <2>1, <3>1
    <3>2. CASE k - InpCnt \in 1 .. Len(o)
      <4>1. InpCnt + (k - InpCnt) - 1 = k - 1
        BY <1>1
      <4>2. At(f, k - 1).tag \in {0, 3, 4}
        BY <1>3, <3>2, <4>1
      <4> QED
        BY <4>2
    <3> QED
      BY <1>4, <3>1, <3>2
  <2>3. ASSUME NEW i \in 1 .. InpCnt, InputParty[i] = p
        PROVE  i \in S(p + 1)
    BY <1>2, <2>1, <2>3
  <2> QED
    BY <2>2, <2>3
<1>6. ASSUME NEW p \in {0, 1}
      PROVE  TagsIn(f, n, p + 1) = Binary!InputsOf(p)
  <2>1. Binary!InputsOf(p) = Cardinality({i \in 1 .. InpCnt : InputParty[i] = p})
    <3>1. DOMAIN InputParty = 1 .. InpCnt
      BY Parties
    <3> QED
      BY <3>1 DEF Binary!InputsOf, Binary!Cardinality, Cardinality
  <2> QED
    BY <1>5, <2>1 DEF TagsIn
<1>7. ASSUME NEW p \in {0, 1}
      PROVE  TagsIn(f, n, p + 3) = OutsOf(o, p)
  <2> DEFINE O == {k \in 1 .. Len(o) : o[k].output /\ o[k].party = p}
             T == S(p + 3)
  <2>1. T \subseteq InpCnt + 1 .. InpCnt + Len(o)
    <3> SUFFICES ASSUME NEW k \in T
                 PROVE  k \in InpCnt + 1 .. InpCnt + Len(o)
      OBVIOUS
    <3>1. k \notin 1 .. InpCnt
      BY <1>2
    <3> QED
      BY <1>1, <3>1
  <2>2. ASSUME NEW k \in 1 .. Len(o)
        PROVE  k \in O <=> InpCnt + k \in T
    <3>1. InpCnt + k \in 1 .. n
      BY <1>1
    <3>2. \A j \in 1 .. n : j \in T <=> At(f, j - 1).tag = p + 3
      OBVIOUS
    <3>3. InpCnt + k \in T <=> At(f, InpCnt + k - 1).tag = p + 3
      <4> HIDE DEF T, n
      <4> QED
        BY <1>1, <3>1, <3>2
    <3> QED
      BY <1>1, <1>3, <3>3
  <2>3. O \subseteq 1 .. Len(o)
    OBVIOUS
  <2> HIDE DEF O, T
  <2>4. \A k \in 1 .. Len(o) : k \in O <=> InpCnt + k \in T
    BY <2>2
  <2>5. Len(o) \in Nat /\ InpCnt \in Nat
    BY <1>1
  <2>6. Shift(Len(o), InpCnt, O, T)
    BY <2>1, <2>3, <2>4 DEF Shift
  <2>7. Cardinality(T) = Cardinality(O)
    BY <2>5, <2>6, Shifted
  <2> QED
    BY <2>7 DEF O, T, TagsIn, OutsOf
<1>8. ASSUME NEW t
      PROVE  TagsIn(f, n, t) \in Nat
  <2>1. 1 \in Int /\ n \in Int
    BY <1>1
  <2>2. IsFiniteSet(1 .. n)
    BY <2>1, FS_Interval
  <2>3. S(t) \in SUBSET (1 .. n)
    OBVIOUS
  <2>4. Cardinality(S(t)) \in Nat
    BY <2>2, <2>3, FS_Subset, FS_CardinalityType
  <2> QED
    BY <2>4 DEF TagsIn
<1>9. 0 \in {0, 1} /\ 1 \in {0, 1} /\ 0 + 1 = 1 /\ 1 + 1 = 2 /\ 0 + 3 = 3 /\ 1 + 3 = 4
  OBVIOUS
<1> QED
  BY <1>6, <1>7, <1>8, <1>9

\* Gates G are the first n of the hash-free file, all it has, as read from it.
AsWritten(G, hf, n) ==
  /\ DOMAIN G = 1 .. n /\ Len(G) = n
  /\ \A k \in 1 .. n :
       /\ G[k].tag = hf.gates[k].tag /\ G[k].table = hf.gates[k].table
       /\ G[k].m_idx = hf.gates[k].m_idx.value
       /\ G[k].m_input_idx
            = [j \in 1 .. SlotAlloc!Arity(hf.gates[k].tag) |-> hf.gates[k].inputs[j].value]

\* That is what the runtime makes of them.
LEMMA NewGates ==
  ASSUME NEW hf, NEW n \in Nat, hf.gates = [k \in 1 .. n |-> hf.gates[k]]
  PROVE  AsWritten(SlotAlloc!GatesNew(hf), hf, n)
<1> DEFINE G == SlotAlloc!GatesNew(hf)
<1>1. DOMAIN hf.gates = 1 .. n
  OBVIOUS
<1>2. G = [k \in 1 .. n |-> SlotAlloc!next_gate_binary(hf, k - 1)]
  BY <1>1 DEF SlotAlloc!GatesNew
<1>3. DOMAIN G = 1 .. n /\ G \in Seq({G[k] : k \in 1 .. n})
  <2> HIDE DEF G
  <2>1. DOMAIN G = 1 .. n /\ G = [k \in 1 .. n |-> G[k]]
    BY <1>2
  <2> QED
    BY <2>1
<1>4. Len(G) = n
  <2> HIDE DEF G
  <2> QED
    BY <1>3
<1>5. ASSUME NEW k \in 1 .. n
      PROVE  /\ G[k].tag = hf.gates[k].tag /\ G[k].table = hf.gates[k].table
             /\ G[k].m_idx = hf.gates[k].m_idx.value
             /\ G[k].m_input_idx
                  = [j \in 1 .. SlotAlloc!Arity(hf.gates[k].tag) |-> hf.gates[k].inputs[j].value]
  <2> DEFINE g == hf.gates[(k - 1) + 1]
  <2>1. g = hf.gates[k]
    OBVIOUS
  <2>2. /\ SlotAlloc!next_gate_binary(hf, k - 1).tag = g.tag
        /\ SlotAlloc!next_gate_binary(hf, k - 1).table = g.table
        /\ SlotAlloc!next_gate_binary(hf, k - 1).m_idx = g.m_idx.value
        /\ SlotAlloc!next_gate_binary(hf, k - 1).m_input_idx
             = [j \in 1 .. SlotAlloc!Arity(g.tag) |-> g.inputs[j].value]
    BY DEF SlotAlloc!next_gate_binary, SlotAlloc!GateAt
  <2>3. G[k] = SlotAlloc!next_gate_binary(hf, k - 1)
    BY <1>2
  <2> HIDE DEF g
  <2> QED
    BY <2>1, <2>2, <2>3
<1> HIDE DEF G
<1>6. AsWritten(G, hf, n)
  BY <1>3, <1>4, <1>5 DEF AsWritten
<1> QED
  BY <1>6 DEF G

\* The slots of the header are those handed out, or more.
LEMMA HeaderSlots ==
  ASSUME NEW hf, NEW f, NEW o, NEW slots \in Nat, Total(o) \in Nat,
         Headed(hf, f, o), Peak(f, o, Total(o), slots)
  PROVE  /\ hf.header.m_cnt \in Nat /\ slots <= hf.header.m_cnt
         /\ hf.header.gate_cnt = f.header.gate_cnt
         /\ hf.header.gen_inp_cnt = SlotAlloc!Cut(f.header.gen_inp_cnt, 4)
         /\ hf.header.evl_inp_cnt = SlotAlloc!Cut(f.header.evl_inp_cnt, 4)
         /\ hf.header.gen_out_cnt = SlotAlloc!Cut(f.header.gen_out_cnt, 4)
         /\ hf.header.evl_out_cnt = SlotAlloc!Cut(f.header.evl_out_cnt, 4)
<1>1. PICK n \in 0 .. Total(o) : /\ hf.header = HeaderFor(f, n)
                                 /\ \A i \in 0 .. Total(o) : Needs(f, o, i) <= n
  BY DEF Headed
<1>2. n \in Nat
  OBVIOUS
<1>3. PICK i \in 0 .. Total(o) : Needs(f, o, i) = slots
  BY DEF Peak
<1>4. slots <= n
  BY <1>1, <1>3
<1>5. SlotAlloc!Cut(n, SlotAlloc!idx_sz(n)) = n
  BY <1>2, CutSmall
<1> QED
  BY <1>1, <1>2, <1>4, <1>5 DEF HeaderFor, SlotAlloc!Header

\* The header is that of the gates written behind it.
LEMMA HeaderOk ==
  ASSUME DeadInv, BinaryInv, SlotsInv
  PROVE  HeaderHolds
<1> DEFINE o == out_file
           n == Total(o)
           gates == SlotAlloc!GatesNew(hash_free)
           header == hash_free.header
           Tagged(t) == Cardinality({k \in DOMAIN gates : gates[k].tag = t})
<1> SUFFICES ASSUME slots_pc = "done"
             PROVE  HeaderHolds
  BY DEF HeaderHolds
<1>1. /\ Chained(o) /\ n \in Nat /\ Holds(bin, o)
  <2>1. binary_pc \in {"ready", "recounted"}
    BY DEF SlotsInv
  <2> QED
    BY <2>1, DeadChained, ChainedFacts DEF BinaryInv
<1>2. /\ m_gate_idx = n /\ tbl_max \in Nat
      /\ SecondOf(hash_free, holder, hash_tbl, bin, o, n, tbl_max)
      /\ Peak(bin, o, n, tbl_max)
  BY <1>1 DEF SlotsInv, WalkOf
<1>3. /\ hash_free.gates = [k \in 1 .. n |-> hash_free.gates[k]]
      /\ \A k \in 1 .. n : InSlots(hash_free.gates[k], At(bin, k - 1), tbl_max)
      /\ Headed(hash_free, bin, o)
  BY <1>2 DEF SecondOf
<1>4. /\ DOMAIN gates = 1 .. n /\ Len(gates) = n
      /\ \A k \in 1 .. n :
           /\ gates[k].tag = hash_free.gates[k].tag
           /\ gates[k].m_idx = hash_free.gates[k].m_idx.value
           /\ gates[k].m_input_idx = [j \in 1 .. SlotAlloc!Arity(hash_free.gates[k].tag) |->
                                        hash_free.gates[k].inputs[j].value]
  <2>1. AsWritten(gates, hash_free, n)
    BY <1>1, <1>3, NewGates
  <2> HIDE DEF gates, n
  <2> QED
    BY <2>1 DEF AsWritten
<1>5. /\ header.m_cnt \in Nat /\ tbl_max <= header.m_cnt
      /\ header.gate_cnt = bin.header.gate_cnt
      /\ header.gen_inp_cnt = SlotAlloc!Cut(bin.header.gen_inp_cnt, 4)
      /\ header.evl_inp_cnt = SlotAlloc!Cut(bin.header.evl_inp_cnt, 4)
      /\ header.gen_out_cnt = SlotAlloc!Cut(bin.header.gen_out_cnt, 4)
      /\ header.evl_out_cnt = SlotAlloc!Cut(bin.header.evl_out_cnt, 4)
  BY <1>1, <1>2, <1>3, HeaderSlots
<1> HIDE DEF gates, header
<1>6. ASSUME NEW k \in DOMAIN gates
      PROVE  {gates[k].m_idx} \cup Range(gates[k].m_input_idx) \subseteq 0 .. (header.m_cnt - 1)
  <2> DEFINE g == hash_free.gates[k]
  <2>1. k \in 1 .. n
    BY <1>4
  <2>2. /\ g.tag = At(bin, k - 1).tag /\ g.m_idx.value \in 0 .. tbl_max - 1
        /\ \A j \in 1 .. SlotAlloc!Arity(g.tag) : g.inputs[j].value \in 0 .. tbl_max - 1
    BY <1>3, <2>1, SameReader DEF InSlots
  <2>3. \A v \in 0 .. tbl_max - 1 : v \in 0 .. header.m_cnt - 1
    BY <1>2, <1>5, Wider
  <2>4. gates[k].m_idx \in 0 .. header.m_cnt - 1
    BY <1>4, <2>1, <2>2, <2>3
  <2>5. ASSUME NEW v \in Range(gates[k].m_input_idx)
        PROVE  v \in 0 .. header.m_cnt - 1
    <3>1. gates[k].m_input_idx = [j \in 1 .. SlotAlloc!Arity(g.tag) |-> g.inputs[j].value]
      BY <1>4, <2>1
    <3>2. PICK j \in 1 .. SlotAlloc!Arity(g.tag) : v = g.inputs[j].value
      BY <3>1 DEF Range
    <3> QED
      BY <2>2, <2>3, <3>2
  <2> QED
    BY <2>4, <2>5
<1>7. /\ bin.header.gate_cnt = n
      /\ bin.header.gen_inp_cnt = Binary!Cut(Binary!InputsOf(0), 4)
      /\ bin.header.evl_inp_cnt = Binary!Cut(Binary!InputsOf(1), 4)
      /\ bin.header.gen_out_cnt = Binary!Cut(OutsOf(o, 0), 4)
      /\ bin.header.evl_out_cnt = Binary!Cut(OutsOf(o, 1), 4)
  BY <1>1 DEF Holds, HeaderOf, Binary!Header, OutsOf
<1>8. \A t : Tagged(t) = TagsIn(bin, n, t)
  <2> TAKE t
  <2>1. \A k \in 1 .. n : gates[k].tag = At(bin, k - 1).tag
    BY <1>3, <1>4 DEF InSlots
  <2>2. {k \in DOMAIN gates : gates[k].tag = t} = {k \in 1 .. n : At(bin, k - 1).tag = t}
    BY <1>4, <2>1
  <2> QED
    BY <2>2 DEF TagsIn
<1>9. /\ header.gen_inp_cnt = Tagged(1) % (UINT32_MAX + 1)
      /\ header.evl_inp_cnt = Tagged(2) % (UINT32_MAX + 1)
      /\ header.gen_out_cnt = Tagged(3) % (UINT32_MAX + 1)
      /\ header.evl_out_cnt = Tagged(4) % (UINT32_MAX + 1)
  <2> HIDE DEF Tagged, n, o
  <2>1. /\ TagsIn(bin, n, 1) = Binary!InputsOf(0) /\ TagsIn(bin, n, 2) = Binary!InputsOf(1)
        /\ TagsIn(bin, n, 3) = OutsOf(o, 0) /\ TagsIn(bin, n, 4) = OutsOf(o, 1)
        /\ \A t : TagsIn(bin, n, t) \in Nat
    BY <1>1, TagCounts DEF n
  <2>2. \A t : SlotAlloc!Cut(Binary!Cut(TagsIn(bin, n, t), 4), 4) = Tagged(t) % (UINT32_MAX + 1)
    BY <1>8, <2>1, CutTwice
  <2> QED
    BY <1>5, <1>7, <2>1, <2>2
<1>10. header.gate_cnt = Len(gates)
  BY <1>4, <1>5, <1>7
<1> QED
  BY <1>6, <1>9, <1>10, Tags DEF HeaderHolds, gates, header

(***************************************************************************)
(* What the files compute.                                                 *)
(***************************************************************************)

\* Induction up to N, with a set for what is to be shown.
LEMMA UpTo ==
  ASSUME NEW N \in Nat, NEW P, 0 \in P, \A k \in 1 .. N : k - 1 \in P => k \in P
  PROVE  0 .. N \subseteq P
<1> DEFINE Missing == {n \in 0 .. N : n \notin P}
<1>1. Missing \in SUBSET Nat
  OBVIOUS
<1>2. ASSUME Missing # {}
      PROVE  FALSE
  <2>1. PICK n \in Missing : \A m \in Missing : n <= m
    <3> HIDE DEF Missing
    <3> QED
      BY <1>1, <1>2, Smallest
  <2>2. n \in 1 .. N /\ n - 1 \notin Missing
    BY <2>1
  <2> QED
    BY <2>2
<1> QED
  BY <1>2

\* A row of a table is a bit; the table of an output gate is the identity.
LEMMA ApplyFacts ==
  /\ \A t \in Table : \A a, b : Apply(t, a, b) \in Bit
  /\ \A a \in Bit : Apply(Binary!OutTable, a, 0) = a
<1>1. ASSUME NEW t \in Table
      PROVE  t[1] \in Bit /\ t[2] \in Bit /\ t[3] \in Bit /\ t[4] \in Bit
  BY DEF Table
<1>2. Binary!OutTable[1] = 0 /\ Binary!OutTable[2] = 1
  BY DEF Binary!OutTable
<1>3. Bit = {0, 1}
  BY DEF Bit
<1> QED
  BY <1>1, <1>2, <1>3 DEF Apply

\* What a gate makes of the values of the wires.
GateValue(g, val) == IF g.output THEN val[g.x] ELSE Apply(g.table, val[g.x], val[g.y])

\* The value of a wire is an input, or what its only gate makes of the values.
LEMMA ValueInFacts ==
  ASSUME WellFormed(file), file # << >>, NEW v, NEW val
  PROVE  /\ \A x \in Inputs : ValueIn(file, v, val, x) = v[x]
         /\ \A i \in 1 .. Len(file) : ValueIn(file, v, val, file[i].id) = GateValue(file[i], val)
         /\ \A x \in Ids : \/ x \in Inputs \/ ValueIn(file, v, val, x) = 0
                           \/ \E i \in 1 .. Len(file) : x = file[i].id
<1> DEFINE S(x) == {i \in 1 .. Len(file) : file[i].id = x}
<1>1. \A x : ValueIn(file, v, val, x) = IF x \in Inputs THEN v[x]
                                        ELSE IF S(x) = {} THEN 0
                                        ELSE GateValue(file[CHOOSE i \in S(x) : TRUE], val)
  BY DEF ValueIn, GateValue
<1>2. ASSUME NEW i \in 1 .. Len(file)
      PROVE  ValueIn(file, v, val, file[i].id) = GateValue(file[i], val)
  <2>1. /\ Len(file) \in Nat /\ file[i].id \notin Inputs
        /\ \A a, b \in 1 .. Len(file) : b \in 1 .. (a - 1) => file[b].id < file[a].id
        /\ \A a \in 1 .. Len(file) : file[a].id \in Nat
    BY FileFacts DEF WellFormed
  <2>2. ASSUME NEW j \in S(file[i].id)
        PROVE  j = i
    <3>1. j \in 1 .. Len(file) /\ file[j].id = file[i].id
      OBVIOUS
    <3>2. j \in 1 .. (i - 1) \/ i \in 1 .. (j - 1) \/ i = j
      BY <2>1, <3>1
    <3>3. ~(file[i].id < file[i].id)
      BY <2>1
    <3> QED
      BY <2>1, <3>1, <3>2, <3>3
  <2>3. S(file[i].id) = {i}
    BY <2>2
  <2>4. (CHOOSE a \in {i} : TRUE) = i
    OBVIOUS
  <2> HIDE DEF S
  <2> QED
    BY <1>1, <2>1, <2>3, <2>4
<1>3. \A x \in Ids : S(x) # {} => \E i \in 1 .. Len(file) : x = file[i].id
  OBVIOUS
<1> HIDE DEF S
<1> QED
  BY <1>1, <1>2, <1>3

\* The values of the wires after the first n gates.
ValuedTo(val, v, n) ==
  \A x \in Ids : \/ \E j \in n + 1 .. Len(file) : x = file[j].id
                 \/ val[x] = ValueIn(file, v, val, x)

\* Gate n reads only what has a value by then.
LEMMA ValuedNext ==
  ASSUME WellFormed(file), file # << >>, NEW v, NEW n \in 1 .. Len(file),
         NEW val \in [Ids -> Bit], ValuedTo(val, v, n - 1)
  PROVE  \E new \in [Ids -> Bit] : ValuedTo(new, v, n)
<1> DEFINE q == file[n].id
           bit == GateValue(file[n], val)
           new == [val EXCEPT ![q] = bit]
<1>1. /\ Len(file) \in Nat /\ q \in Ids /\ q \in Nat
      /\ \A i \in 1 .. Len(file) :
           /\ file[i] \in Gate /\ file[i].table \in Table
           /\ file[i].id \in Nat /\ file[i].x \in Ids /\ file[i].x < file[i].id
           /\ file[i].y \in Ids /\ file[i].y < file[i].id
           /\ \A j \in 1 .. (i - 1) : file[j].id < file[i].id
  BY FileFacts, GateFacts
<1>2. bit \in Bit
  BY <1>1, ApplyFacts DEF GateValue
<1>3. /\ new \in [Ids -> Bit] /\ new[q] = bit
      /\ \A x \in Ids : x # q => new[x] = val[x]
  <2> HIDE DEF bit, q
  <2> QED
    BY <1>1, <1>2
<1> HIDE DEF bit, new
<1>4. ASSUME NEW i \in 1 .. n
      PROVE  GateValue(file[i], new) = GateValue(file[i], val)
  <2>1. i \in 1 .. Len(file) /\ (i = n \/ file[i].id < q)
    BY <1>1
  <2>2. /\ file[i].x \in Nat /\ file[i].y \in Nat /\ file[i].x \in Ids /\ file[i].y \in Ids
        /\ file[i].x < file[i].id /\ file[i].y < file[i].id /\ file[i].id \in Nat
    BY <1>1, <2>1, Numbers
  <2>3. file[i].x # q /\ file[i].y # q
    BY <1>1, <2>1, <2>2
  <2> QED
    BY <1>3, <2>2, <2>3 DEF GateValue
<1>5. ASSUME NEW x \in Ids, \A j \in n + 1 .. Len(file) : x # file[j].id
      PROVE  new[x] = ValueIn(file, v, new, x)
  <2>1. CASE x = q
    <3>1. new[x] = GateValue(file[n], new)
      BY <1>1, <1>3, <1>4, <2>1 DEF bit
    <3> QED
      BY <2>1, <3>1, ValueInFacts
  <2>2. CASE x # q
    <3>1. \A j \in n .. Len(file) : j = n \/ j \in n + 1 .. Len(file)
      BY <1>1
    <3>2. n - 1 + 1 = n
      BY <1>1
    <3>3. val[x] = ValueIn(file, v, val, x)
      BY <1>5, <2>2, <3>1, <3>2 DEF ValuedTo
    <3>4. new[x] = val[x]
      BY <1>3, <2>2
    <3>5. CASE \E i \in 1 .. Len(file) : x = file[i].id
      <4>1. PICK i \in 1 .. Len(file) : x = file[i].id
        BY <3>5
      <4>2. i \in 1 .. n
        BY <1>1, <1>5, <4>1
      <4> QED
        BY <1>4, <3>3, <3>4, <4>1, <4>2, ValueInFacts
    <3>6. CASE x \in Inputs
      BY <3>3, <3>4, <3>6, ValueInFacts
    <3>7. CASE x \notin Inputs /\ ~\E i \in 1 .. Len(file) : x = file[i].id
      BY <3>3, <3>4, <3>7, ValueInFacts
    <3> QED
      BY <3>5, <3>6, <3>7
  <2> QED
    BY <2>1, <2>2
<1> QED
  BY <1>3, <1>5 DEF ValuedTo

\* Every wire of the file has a value, a bit: that of an input, or the one its gate
\* makes of the values of the wires it reads.
LEMMA ValuesFacts ==
  ASSUME WellFormed(file), file # << >>, NEW v \in [Inputs -> Bit]
  PROVE  /\ \A x \in Inputs : x \in Ids /\ Values(file, v)[x] = v[x]
         /\ \A i \in 1 .. Len(file) :
              Values(file, v)[file[i].id] = GateValue(file[i], Values(file, v))
         /\ \A x \in Ids : Values(file, v)[x] \in Bit
<1> DEFINE val == Values(file, v)
           n == Len(file)
<1>1. /\ n \in Nat /\ n > 0
      /\ \A i \in 1 .. n : /\ file[i].id \in Ids /\ file[i].table \in Table
                           /\ file[i].x \in Ids /\ file[i].y \in Ids
                           /\ file[i].x <= input_cnt \/ \E j \in 1 .. (i - 1) : file[i].x = file[j].id
                           /\ file[i].y <= input_cnt \/ \E j \in 1 .. (i - 1) : file[i].y = file[j].id
  BY FileFacts, GateFacts
<1>2. \A x \in Inputs : x \in Ids
  <2>1. 1 \in 1 .. n
    BY <1>1
  <2>2. file[1].id > input_cnt /\ file[1].id \in Nat /\ file[1].id <= MaxId
    BY <1>1, <2>1, FileFacts, Numbers
  <2>3. input_cnt < MaxId
    BY <2>2, Numbers
  <2> QED
    BY <2>3, Numbers DEF Inputs, Ids
<1>3. \E u \in [Ids -> Bit] : ValuedTo(u, v, n)
  <2> DEFINE Built == {m \in 0 .. n : \E u \in [Ids -> Bit] : ValuedTo(u, v, m)}
  <2>1. 0 \in Built
    <3> DEFINE u == [x \in Ids |-> IF x \in Inputs THEN v[x] ELSE 0]
    <3>1. u \in [Ids -> Bit]
      BY DEF Bit
    <3>2. 0 + 1 = 1
      OBVIOUS
    <3>3. \A x \in Ids : u[x] = IF x \in Inputs THEN v[x] ELSE 0
      OBVIOUS
    <3> HIDE DEF u
    <3>4. ValuedTo(u, v, 0)
      BY <3>2, <3>3, ValueInFacts DEF ValuedTo
    <3> QED
      BY <1>1, <3>1, <3>4
  <2>2. ASSUME NEW m \in 1 .. n, m - 1 \in Built
        PROVE  m \in Built
    <3>1. PICK u \in [Ids -> Bit] : ValuedTo(u, v, m - 1)
      BY <2>2
    <3> QED
      BY <3>1, ValuedNext
  <2>3. 0 .. n \subseteq Built
    <3> HIDE DEF Built, n
    <3> QED
      BY <1>1, <2>1, <2>2, UpTo
  <2> QED
    BY <1>1, <2>3
<1>4. val = [x \in Ids |-> ValueIn(file, v, val, x)]
  <2>1. PICK u \in [Ids -> Bit] : ValuedTo(u, v, n)
    BY <1>3
  <2>2. n + 1 .. n = {}
    BY <1>1
  <2>3. \A x \in Ids : u[x] = ValueIn(file, v, u, x)
    BY <2>1, <2>2 DEF ValuedTo
  <2>4. u = [x \in Ids |-> ValueIn(file, v, u, x)]
    BY <2>3
  <2>5. val = CHOOSE w : w = [x \in Ids |-> ValueIn(file, v, w, x)]
    BY DEF Values
  <2> HIDE DEF val
  <2> QED
    BY <2>4, <2>5
<1> HIDE DEF val
<1>5. \A x \in Ids : val[x] = ValueIn(file, v, val, x)
  BY <1>4
<1>6. /\ \A x \in Inputs : val[x] = v[x] /\ val[x] \in Bit
      /\ \A i \in 1 .. n : val[file[i].id] = GateValue(file[i], val)
  BY <1>1, <1>2, <1>5, ValueInFacts
<1>7. \A i \in 1 .. n : val[file[i].id] \in Bit
  <2> DEFINE P == {m \in 0 .. n : \A i \in 1 .. m : val[file[i].id] \in Bit}
  <2>1. 0 \in P
    BY <1>1
  <2>2. ASSUME NEW m \in 1 .. n, m - 1 \in P
        PROVE  m \in P
    <3>1. \A i \in 1 .. (m - 1) : val[file[i].id] \in Bit
      BY <2>2
    <3>2. val[file[m].x] \in Bit
      <4>1. file[m].x \in Nat
        BY <1>1, Numbers
      <4> QED
        BY <1>1, <1>6, <3>1, <4>1, Numbers
    <3>3. val[file[m].id] \in Bit
      BY <1>1, <1>6, <3>2, ApplyFacts DEF GateValue
    <3>4. \A i \in 1 .. m : i \in 1 .. (m - 1) \/ i = m
      BY <1>1
    <3> QED
      BY <3>1, <3>3, <3>4
  <2>3. 0 .. n \subseteq P
    <3> HIDE DEF P, n
    <3> QED
      BY <1>1, <2>1, <2>2, UpTo
  <2>4. n \in 0 .. n
    BY <1>1
  <2>5. n \in P
    BY <2>3, <2>4
  <2> QED
    BY <2>5
<1>8. \A x \in Ids : val[x] \in Bit
  <2>1. 0 \in Bit
    BY DEF Bit
  <2> QED
    BY <1>5, <1>6, <1>7, <2>1, ValueInFacts
<1> QED
  BY <1>2, <1>6, <1>8 DEF val

(***************************************************************************)
(* The third pass: a wire has the value of the one it stands for.          *)
(***************************************************************************)

\* Gate g is gate h under the new numbers.
Renamed(g, h) ==
  /\ g.id = newmap[h.id] /\ g.x = newmap[h.x] /\ g.y = newmap[h.y]
  /\ g.output = h.output /\ g.table = h.table /\ g.party = h.party

\* The gate of the file that was emitted as number k.
Origin(k) ==
  CHOOSE i \in 1 .. Len(file) : file[i].id \in live /\ Renamed(out_file[k], file[i])

\* The values of the wires of the new file.
NewValues(v) ==
  [w \in 0 .. Total(out_file) - 1 |->
     IF w \in Inputs THEN v[w] ELSE Values(file, v)[file[Origin(w - input_cnt)].id]]

\* The pass has come through, and no lookup was misled.
Passed == DeadInv /\ Faithful /\ ~misled /\ pc = "done"

\* Every gate emitted has such a gate.
LEMMA OriginFacts ==
  ASSUME Passed, NEW k \in 1 .. Len(out_file)
  PROVE  /\ Origin(k) \in 1 .. Len(file) /\ file[Origin(k)].id \in live
         /\ Renamed(out_file[k], file[Origin(k)])
<1>1. pos = Len(file)
  BY DEF Passed, DeadInv, Phases
<1>2. \E i \in 1 .. Len(file) : file[i].id \in live /\ Renamed(out_file[k], file[i])
  BY <1>1 DEF Passed, Faithful, Renamed
<1> QED
  BY <1>2 DEF Origin

\* What is known of the numbers by then.
LEMMA PassedFacts ==
  ASSUME Passed
  PROVE  /\ WellFormed(file) /\ file # << >> /\ live \subseteq Ids /\ next_id = 0
         /\ Len(file) \in Nat /\ Len(out_file) \in Nat /\ Chained(out_file)
         /\ Total(out_file) = InpCnt + Len(out_file) /\ Total(out_file) \in Nat
         /\ \A i \in 1 .. Len(file) : file[i].id \in Ids /\ file[i].id \in Nat
         /\ \A i \in 1 .. Len(file) : file[i].id \in live =>
              {file[i].x, file[i].y} \subseteq live /\ file[i].id \in Numbered
         /\ \A i \in 1 .. Len(file) : file[i].output => file[i].id \in live
         /\ \A q \in Numbered : newmap[q] = NumberOf(q) /\ newmap[q] \in Nat /\ newmap[q] > input_cnt
         /\ \A q \in Ids : q <= input_cnt => newmap[q] = q
         /\ \A p, q \in Numbered : newmap[p] = newmap[q] => p = q
         /\ Len(out_file) = Cardinality(LiveOf(Len(file)))
<1> USE DEF Passed
<1>1. /\ WellFormed(file) /\ file # << >> /\ live \subseteq Ids /\ next_id = 0 /\ pos = Len(file)
      /\ newmap = [q \in Ids |-> IF q \in Numbered THEN NumberOf(q) ELSE q]
  BY DEF DeadInv, DeadTypes, Phases
<1>2. Chained(out_file)
  BY DeadChained
<1>3. /\ Len(file) \in Nat /\ \A i \in 1 .. Len(file) : file[i].id \in Nat /\ file[i] \in Gate
  BY <1>1, FileFacts
<1>4. \A i \in 1 .. Len(file) : file[i].id \in Ids
  BY <1>3, GateFacts
<1>5. /\ \A i \in 1 .. Len(file) : file[i].output => file[i].id \in live
      /\ \A i \in 1 .. Len(file) : file[i].id \in live => {file[i].x, file[i].y} \subseteq live
  <2>1. next_id + 1 = 1
    BY <1>1
  <2> QED
    BY <2>1 DEF DeadInv, Marked
<1>6. \A i \in 1 .. Len(file) : file[i].id \in live => file[i].id \in Numbered
  BY <1>1, LiveWires
<1>7. /\ \A q \in Numbered : q \in Ids /\ newmap[q] = NumberOf(q)
      /\ \A q \in Ids : q <= input_cnt => newmap[q] = q
  BY <1>1, Renaming
<1>8. /\ \A q \in Numbered : q \in Nat /\ NumberOf(q) \in Nat /\ input_cnt < NumberOf(q)
      /\ \A p, q \in Numbered : p < q => NumberOf(p) < NumberOf(q)
  BY <1>1, Ranks
<1>9. ASSUME NEW p \in Numbered, NEW q \in Numbered, newmap[p] = newmap[q]
      PROVE  p = q
  <2>1. p < q \/ q < p \/ p = q
    BY <1>8
  <2> QED
    BY <1>7, <1>8, <1>9, <2>1
<1>10. Len(out_file) = Cardinality(LiveOf(Len(file)))
  BY <1>1 DEF DeadInv, Emitted
<1>11. /\ \A q \in Numbered : newmap[q] = NumberOf(q) /\ newmap[q] \in Nat /\ newmap[q] > input_cnt
  BY <1>7, <1>8, Numbers
<1>12. /\ Len(out_file) \in Nat /\ Total(out_file) = InpCnt + Len(out_file) /\ Total(out_file) \in Nat
  BY <1>2, ChainedFacts
<1> QED
  BY <1>1, <1>2, <1>3, <1>4, <1>5, <1>6, <1>7, <1>9, <1>10, <1>11, <1>12

\* A wire has the value of the live wire, or the input, it is the number of.
LEMMA RenamedValue ==
  ASSUME Passed, NEW v \in [Inputs -> Bit], NEW q \in live \cup Inputs,
         newmap[q] \in 0 .. Total(out_file) - 1
  PROVE  NewValues(v)[newmap[q]] = Values(file, v)[q]
<1> DEFINE val == Values(file, v)
<1>1. NewValues(v)[newmap[q]] = IF newmap[q] \in Inputs THEN v[newmap[q]]
                                ELSE val[file[Origin(newmap[q] - input_cnt)].id]
  BY DEF NewValues
<1>2. /\ WellFormed(file) /\ file # << >> /\ DeadInv /\ next_id = 0 /\ live \subseteq Ids
      /\ Total(out_file) = InpCnt + Len(out_file) /\ Len(out_file) \in Nat
  BY PassedFacts DEF Passed
<1>3. /\ \A x \in Inputs : x \in Ids /\ val[x] = v[x]
  BY <1>2, ValuesFacts
<1> HIDE DEF val
<1>4. q \in Ids /\ q \in Nat
  BY <1>2, <1>3, Numbers
<1>5. CASE q <= input_cnt
  <2>1. newmap[q] = q /\ q \in Inputs
    BY <1>4, <1>5, PassedFacts, Numbers
  <2> QED
    BY <1>1, <1>3, <2>1 DEF val
<1>6. CASE ~(q <= input_cnt)
  <2>1. q \in live /\ q \in Numbered
    BY <1>2, <1>4, <1>6, LiveWires, Numbers
  <2>2. newmap[q] \in Nat /\ newmap[q] > input_cnt
    BY <2>1, PassedFacts
  <2> DEFINE k == newmap[q] - input_cnt
  <2>3. k \in 1 .. Len(out_file) /\ input_cnt + k = newmap[q] /\ newmap[q] \notin Inputs
    BY <1>2, <2>2, Numbers
  <2> HIDE DEF k
  <2>4. out_file[k].id = newmap[q]
    BY <2>3, PassedFacts, ChainedFacts
  <2>5. Origin(k) \in 1 .. Len(file) /\ file[Origin(k)].id \in live /\ out_file[k].id = newmap[file[Origin(k)].id]
    BY <2>3, OriginFacts DEF Renamed
  <2>6. file[Origin(k)].id \in Numbered
    BY <2>5, PassedFacts
  <2>7. file[Origin(k)].id = q
    BY <2>1, <2>4, <2>5, <2>6, PassedFacts
  <2> QED
    BY <1>1, <2>3, <2>7 DEF k, val
<1> QED
  BY <1>5, <1>6

\* So the new file computes of the inputs what the old one did.
LEMMA NewValuesFacts ==
  ASSUME Passed, NEW v \in [Inputs -> Bit]
  PROVE  /\ \A x \in Inputs : NewValues(v)[x] = v[x]
         /\ \A k \in 1 .. Len(out_file) :
              /\ NewValues(v)[out_file[k].id] = GateValue(out_file[k], NewValues(v))
              /\ NewValues(v)[out_file[k].id] = Values(file, v)[file[Origin(k)].id]
         /\ \A x \in 0 .. Total(out_file) - 1 : NewValues(v)[x] \in Bit
<1> DEFINE val == Values(file, v)
           new == NewValues(v)
           o == out_file
<1>1. /\ WellFormed(file) /\ file # << >> /\ DeadInv /\ next_id = 0 /\ live \subseteq Ids
      /\ Total(o) = InpCnt + Len(o) /\ Total(o) \in Nat /\ Len(o) \in Nat
      /\ \A i \in 1 .. Len(file) : file[i].id \in Ids
  BY PassedFacts DEF Passed
<1>2. /\ \A x \in Inputs : x \in Ids /\ val[x] = v[x]
      /\ \A i \in 1 .. Len(file) : val[file[i].id] = GateValue(file[i], val)
      /\ \A x \in Ids : val[x] \in Bit
  BY <1>1, ValuesFacts
<1>3. \A q \in live \cup Inputs : newmap[q] \in 0 .. Total(o) - 1 => new[newmap[q]] = val[q]
  BY RenamedValue
<1>4. \A x \in 0 .. Total(o) - 1 : new[x] = IF x \in Inputs THEN v[x]
                                            ELSE val[file[Origin(x - input_cnt)].id]
  BY DEF NewValues
<1> HIDE DEF val, new
<1>5. \A x \in Inputs : x \in 0 .. Total(o) - 1
  BY <1>1, Numbers DEF Inputs
<1>6. ASSUME NEW k \in 1 .. Len(o)
      PROVE  /\ new[o[k].id] = GateValue(o[k], new)
             /\ new[o[k].id] = val[file[Origin(k)].id]
             /\ new[input_cnt + k] = val[file[Origin(k)].id]
             /\ val[file[Origin(k)].id] \in Bit
  <2> DEFINE i == Origin(k)
             h == file[i]
  <2>1. i \in 1 .. Len(file) /\ h.id \in live /\ Renamed(o[k], h)
    BY OriginFacts
  <2>2. h.x \in live /\ h.y \in live
    BY <2>1, PassedFacts
  <2>3. /\ o[k].id \in 0 .. Total(o) - 1 /\ o[k].id = input_cnt + k
        /\ o[k].x \in 0 .. Total(o) - 1 /\ o[k].y \in 0 .. Total(o) - 1
    <3>1. /\ o[k].id \in Nat /\ o[k].id = input_cnt + k
          /\ o[k].x \in Nat /\ o[k].x < o[k].id /\ o[k].y \in Nat /\ o[k].y < o[k].id
      BY PassedFacts, ChainedFacts
    <3> QED
      BY <1>1, <3>1, Numbers
  <2>4. o[k].id = newmap[h.id] /\ o[k].x = newmap[h.x] /\ o[k].y = newmap[h.y]
    BY <2>1 DEF Renamed
  <2>5. new[o[k].id] = val[h.id] /\ new[o[k].x] = val[h.x] /\ new[o[k].y] = val[h.y]
    BY <1>3, <2>1, <2>2, <2>3, <2>4
  <2>6. val[h.id] = GateValue(h, val) /\ val[h.id] \in Bit
    BY <1>1, <1>2, <2>1
  <2>7. GateValue(o[k], new) = GateValue(h, val)
    BY <2>1, <2>5 DEF GateValue, Renamed
  <2> QED
    BY <2>3, <2>5, <2>6, <2>7
<1>7. ASSUME NEW x \in 0 .. Total(o) - 1
      PROVE  new[x] \in Bit
  <2>1. CASE x \in Inputs
    BY <1>4, <2>1
  <2>2. CASE x \notin Inputs
    <3>1. x - input_cnt \in 1 .. Len(o)
      BY <1>1, <2>2, Numbers
    <3> QED
      BY <1>4, <1>6, <2>2, <3>1
  <2> QED
    BY <2>1, <2>2
<1> QED
  BY <1>4, <1>5, <1>6, <1>7 DEF new, val

(***************************************************************************)
(* What a file yields: the outputs so far, and the inputs left.            *)
(***************************************************************************)

\* The outputs s of party p, and that of gate i; b is the values of the wires.
NextBits(f, b, p, i, s) ==
  IF f[i].output /\ f[i].party = p THEN Append(s, b[f[i].id]) ELSE s

\* The outputs of party p among the first gates.
BitsOf(f, b, p) ==
  CHOOSE s : s = [i \in 0 .. Len(f) |-> IF i = 0 THEN << >> ELSE NextBits(f, b, p, i, s[i - 1])]

\* Gate by gate.
LEMMA BitsFacts ==
  ASSUME NEW f, Len(f) \in Nat, NEW b, NEW p
  PROVE  /\ BitsOf(f, b, p)[0] = << >>
         /\ \A i \in 1 .. Len(f) : BitsOf(f, b, p)[i] = NextBits(f, b, p, i, BitsOf(f, b, p)[i - 1])
<1> DEFINE N == Len(f)
           Upto(s, n) == s = [i \in 0 .. n |-> IF i = 0 THEN << >> ELSE NextBits(f, b, p, i, s[i - 1])]
           Built == {n \in 0 .. N : \E s : Upto(s, n)}
<1>1. 0 \in Built
  <2> DEFINE s == [i \in 0 .. 0 |-> << >>]
  <2>1. Upto(s, 0)
    OBVIOUS
  <2>2. \E u : Upto(u, 0)
    <3> HIDE DEF Upto, s
    <3> QED
      BY <2>1
  <2> QED
    BY <2>2
<1>2. ASSUME NEW n \in 1 .. N, n - 1 \in Built
      PROVE  n \in Built
  <2>1. PICK s : Upto(s, n - 1)
    BY <1>2
  <2> DEFINE e == NextBits(f, b, p, n, s[n - 1])
             u == [i \in 0 .. n |-> IF i = n THEN e ELSE s[i]]
  <2>2. \A i \in 0 .. n : i # n => i \in 0 .. n - 1
    OBVIOUS
  <2>3. \A i \in 1 .. n : i - 1 \in 0 .. n /\ i - 1 # n /\ i # 0
    OBVIOUS
  <2>4. ASSUME NEW i \in 0 .. n
        PROVE  u[i] = IF i = 0 THEN << >> ELSE NextBits(f, b, p, i, u[i - 1])
    <3>1. CASE i = n
      <4>1. i \in 1 .. n /\ u[i] = e
        BY <3>1
      <4>2. u[i - 1] = s[i - 1] /\ i # 0
        BY <2>3, <4>1
      <4> HIDE DEF u
      <4> QED
        BY <3>1, <4>1, <4>2
    <3>2. CASE i # n
      <4>1. u[i] = s[i]
        BY <3>2
      <4>2. s[i] = IF i = 0 THEN << >> ELSE NextBits(f, b, p, i, s[i - 1])
        BY <2>1, <2>2, <3>2
      <4>3. i # 0 => u[i - 1] = s[i - 1]
        BY <2>3
      <4> HIDE DEF u
      <4> QED
        BY <4>1, <4>2, <4>3
    <3> QED
      BY <3>1, <3>2
  <2>5. Upto(u, n)
    <3>1. u = [i \in 0 .. n |-> u[i]]
      OBVIOUS
    <3> HIDE DEF u
    <3> QED
      BY <2>4, <3>1
  <2>6. \E w : Upto(w, n)
    <3> HIDE DEF Upto, u
    <3> QED
      BY <2>5
  <2> QED
    BY <2>6
<1>3. N \in Built
  <2> HIDE DEF Built, N
  <2>1. N \in Nat
    BY DEF N
  <2>2. 0 .. N \subseteq Built /\ N \in 0 .. N
    BY <1>1, <1>2, <2>1, UpTo
  <2> QED
    BY <2>2
<1>4. Upto(BitsOf(f, b, p), N)
  <2>1. \E s : Upto(s, N)
    BY <1>3
  <2> QED
    BY <2>1 DEF BitsOf
<1> QED
  <2>1. \A i \in 1 .. N : i # 0 /\ i \in 0 .. N
    OBVIOUS
  <2> QED
    BY <1>4, <2>1

\* The inputs s of party p among the last n - 1, and the one before them; from
\* these the inputs of p among the last n.
NextInput(v, p, n, s) == IF InputParty[InpCnt - n + 1] = p THEN <<v[InpCnt - n]>> \o s ELSE s

InBits(v, p) ==
  CHOOSE s : s = [n \in 0 .. InpCnt |-> IF n = 0 THEN << >> ELSE NextInput(v, p, n, s[n - 1])]

\* Input by input, from the end.
LEMMA InFacts ==
  ASSUME NEW v \in [Inputs -> Bit], NEW p
  PROVE  /\ InBits(v, p)[0] = << >>
         /\ \A n \in 1 .. InpCnt : InBits(v, p)[n] = NextInput(v, p, n, InBits(v, p)[n - 1])
         /\ \A n \in 0 .. InpCnt : InBits(v, p)[n] \in Seq(Bit)
<1> DEFINE N == InpCnt
           Upto(s, n) == s = [i \in 0 .. n |-> IF i = 0 THEN << >> ELSE NextInput(v, p, i, s[i - 1])]
           Built == {n \in 0 .. N : \E s : Upto(s, n)}
<1>1. 0 \in Built
  <2> DEFINE s == [i \in 0 .. 0 |-> << >>]
  <2>1. Upto(s, 0)
    OBVIOUS
  <2>2. \E u : Upto(u, 0)
    <3> HIDE DEF Upto, s
    <3> QED
      BY <2>1
  <2> QED
    BY <2>2, Numbers
<1>2. ASSUME NEW n \in 1 .. N, n - 1 \in Built
      PROVE  n \in Built
  <2>1. PICK s : Upto(s, n - 1)
    BY <1>2
  <2> DEFINE e == NextInput(v, p, n, s[n - 1])
             u == [i \in 0 .. n |-> IF i = n THEN e ELSE s[i]]
  <2>2. \A i \in 0 .. n : i # n => i \in 0 .. n - 1
    OBVIOUS
  <2>3. \A i \in 1 .. n : i - 1 \in 0 .. n /\ i - 1 # n /\ i # 0
    OBVIOUS
  <2>4. ASSUME NEW i \in 0 .. n
        PROVE  u[i] = IF i = 0 THEN << >> ELSE NextInput(v, p, i, u[i - 1])
    <3>1. CASE i = n
      <4>1. i \in 1 .. n /\ u[i] = e
        BY <3>1
      <4>2. u[i - 1] = s[i - 1] /\ i # 0
        BY <2>3, <4>1
      <4> HIDE DEF u
      <4> QED
        BY <3>1, <4>1, <4>2
    <3>2. CASE i # n
      <4>1. u[i] = s[i]
        BY <3>2
      <4>2. s[i] = IF i = 0 THEN << >> ELSE NextInput(v, p, i, s[i - 1])
        BY <2>1, <2>2, <3>2
      <4>3. i # 0 => u[i - 1] = s[i - 1]
        BY <2>3
      <4> HIDE DEF u
      <4> QED
        BY <4>1, <4>2, <4>3
    <3> QED
      BY <3>1, <3>2
  <2>5. Upto(u, n)
    <3>1. u = [i \in 0 .. n |-> u[i]]
      OBVIOUS
    <3> HIDE DEF u
    <3> QED
      BY <2>4, <3>1
  <2>6. \E w : Upto(w, n)
    <3> HIDE DEF Upto, u
    <3> QED
      BY <2>5
  <2> QED
    BY <2>6
<1>3. N \in Built
  <2> HIDE DEF Built, N
  <2>1. N \in Nat
    BY Numbers DEF N
  <2>2. 0 .. N \subseteq Built /\ N \in 0 .. N
    BY <1>1, <1>2, <2>1, UpTo
  <2> QED
    BY <2>2
<1> DEFINE b == InBits(v, p)
<1>4. Upto(b, N)
  <2>1. \E s : Upto(s, N)
    BY <1>3
  <2> QED
    BY <2>1 DEF InBits
<1>5. b[0] = << >> /\ \A n \in 1 .. N : b[n] = NextInput(v, p, n, b[n - 1])
  <2>1. \A i \in 1 .. N : i # 0 /\ i \in 0 .. N
    OBVIOUS
  <2>2. 0 \in 0 .. N
    BY Numbers
  <2> HIDE DEF b
  <2> QED
    BY <1>4, <2>1, <2>2
<1> HIDE DEF b
<1>6. ASSUME NEW n \in 1 .. N, b[n - 1] \in Seq(Bit)
      PROVE  b[n] \in Seq(Bit)
  <2>1. InpCnt - n \in Inputs
    BY Numbers
  <2>2. v[InpCnt - n] \in Bit
    BY <2>1
  <2>3. <<v[InpCnt - n]>> \o b[n - 1] \in Seq(Bit)
    BY <1>6, <2>2
  <2> QED
    BY <1>5, <1>6, <2>3 DEF NextInput
<1>7. 0 .. N \subseteq {n \in 0 .. N : b[n] \in Seq(Bit)}
  <2> DEFINE P == {n \in 0 .. N : b[n] \in Seq(Bit)}
  <2>1. 0 \in P /\ \A n \in 1 .. N : n - 1 \in P => n \in P
    BY <1>5, <1>6, Numbers
  <2> HIDE DEF P
  <2>2. 0 .. N \subseteq P
    BY <2>1, Numbers, UpTo
  <2> QED
    BY <2>2 DEF P
<1> QED
  BY <1>5, <1>7 DEF b

\* In terms of these.
LEMMA BitsAre ==
  /\ \A f, v, p : OutputBits(f, v, p) = BitsOf(f, Values(f, v), p)[Len(f)]
  /\ \A v, p : InputBits(v, p) = InBits(v, p)[InpCnt]
<1>1. ASSUME NEW f, NEW v, NEW p
      PROVE  OutputBits(f, v, p) = BitsOf(f, Values(f, v), p)[Len(f)]
  BY DEF OutputBits, BitsOf, NextBits
<1>2. ASSUME NEW v, NEW p
      PROVE  InputBits(v, p) = InBits(v, p)[InpCnt]
  BY DEF InputBits, InBits, NextInput
<1> QED
  BY <1>1, <1>2

(***************************************************************************)
(* The evaluators of the binary formats.                                   *)
(***************************************************************************)

\* The states of a run, before the first gate and after each.
Run(g, t, a, b) ==
  CHOOSE st : st = [k \in 0 .. Len(g) |-> IF k = 0 THEN Binary!Start(t, a, b)
                                          ELSE Binary!EvaluateGate(st[k - 1], g[k], t[k])]

\* Gate by gate.
LEMMA RunFacts ==
  ASSUME NEW g, Len(g) \in Nat, NEW t, NEW a, NEW b
  PROVE  /\ Run(g, t, a, b)[0] = Binary!Start(t, a, b)
         /\ \A k \in 1 .. Len(g) :
              Run(g, t, a, b)[k] = Binary!EvaluateGate(Run(g, t, a, b)[k - 1], g[k], t[k])
<1> DEFINE N == Len(g)
           first == Binary!Start(t, a, b)
           Next1(k, s) == Binary!EvaluateGate(s, g[k], t[k])
           Upto(s, n) == s = [k \in 0 .. n |-> IF k = 0 THEN first ELSE Next1(k, s[k - 1])]
           Built == {n \in 0 .. N : \E s : Upto(s, n)}
<1>0. Run(g, t, a, b) = CHOOSE s : Upto(s, N)
  BY DEF Run
<1> HIDE DEF first, Next1
<1>1. 0 \in Built
  <2> DEFINE s == [k \in 0 .. 0 |-> first]
  <2>1. Upto(s, 0)
    OBVIOUS
  <2>2. \E u : Upto(u, 0)
    <3> HIDE DEF Upto, s
    <3> QED
      BY <2>1
  <2> QED
    BY <2>2
<1>2. ASSUME NEW n \in 1 .. N, n - 1 \in Built
      PROVE  n \in Built
  <2>1. PICK s : Upto(s, n - 1)
    BY <1>2
  <2> DEFINE e == Next1(n, s[n - 1])
             u == [k \in 0 .. n |-> IF k = n THEN e ELSE s[k]]
  <2>2. \A k \in 0 .. n : k # n => k \in 0 .. n - 1
    OBVIOUS
  <2>3. \A k \in 1 .. n : k - 1 \in 0 .. n /\ k - 1 # n /\ k # 0
    OBVIOUS
  <2>4. ASSUME NEW k \in 0 .. n
        PROVE  u[k] = IF k = 0 THEN first ELSE Next1(k, u[k - 1])
    <3>1. CASE k = n
      <4>1. k \in 1 .. n /\ u[k] = e
        BY <3>1
      <4>2. u[k - 1] = s[k - 1] /\ k # 0
        BY <2>3, <4>1
      <4> HIDE DEF u
      <4> QED
        BY <3>1, <4>1, <4>2
    <3>2. CASE k # n
      <4>1. u[k] = s[k]
        BY <3>2
      <4>2. s[k] = IF k = 0 THEN first ELSE Next1(k, s[k - 1])
        BY <2>1, <2>2, <3>2
      <4>3. k # 0 => u[k - 1] = s[k - 1]
        BY <2>3
      <4> HIDE DEF u
      <4> QED
        BY <4>1, <4>2, <4>3
    <3> QED
      BY <3>1, <3>2
  <2>5. Upto(u, n)
    <3>1. u = [k \in 0 .. n |-> u[k]]
      OBVIOUS
    <3> HIDE DEF u
    <3> QED
      BY <2>4, <3>1
  <2>6. \E w : Upto(w, n)
    <3> HIDE DEF Upto, u
    <3> QED
      BY <2>5
  <2> QED
    BY <2>6
<1>3. N \in Built
  <2> HIDE DEF Built, N
  <2>1. N \in Nat
    BY DEF N
  <2>2. 0 .. N \subseteq Built /\ N \in 0 .. N
    BY <1>1, <1>2, <2>1, UpTo
  <2> QED
    BY <2>2
<1> DEFINE r == Run(g, t, a, b)
<1>4. Upto(r, N)
  <2>1. \E s : Upto(s, N)
    BY <1>3
  <2> HIDE DEF Upto
  <2> QED
    BY <1>0, <2>1
<1> QED
  <2>1. \A k \in 1 .. N : k # 0 /\ k \in 0 .. N
    OBVIOUS
  <2>2. r[0] = first /\ \A k \in 1 .. N : r[k] = Next1(k, r[k - 1])
    <3> HIDE DEF r
    <3> QED
      BY <1>4, <2>1
  <2> QED
    BY <2>2 DEF first, Next1

\* Both evaluators are that run.
LEMMA RunsAre ==
  /\ \A g, t, a, b : Binary!Evaluate(g, t, a, b)
                       = <<Run(g, t, a, b)[Len(g)].gen_out, Run(g, t, a, b)[Len(g)].evl_out>>
  /\ \A g, t, a, b : SlotAlloc!Evaluate(g, t, a, b) = Binary!Evaluate(g, t, a, b)
<1>1. ASSUME NEW g, NEW t, NEW a, NEW b
      PROVE  Binary!Evaluate(g, t, a, b)
               = <<Run(g, t, a, b)[Len(g)].gen_out, Run(g, t, a, b)[Len(g)].evl_out>>
  BY DEF Binary!Evaluate, Run
<1>2. ASSUME NEW g, NEW t, NEW a, NEW b
      PROVE  SlotAlloc!Evaluate(g, t, a, b) = Binary!Evaluate(g, t, a, b)
  BY DEF SlotAlloc!Evaluate, Binary!Evaluate, SlotAlloc!EvaluateGate, Binary!EvaluateGate,
         SlotAlloc!Start, Binary!Start, SlotAlloc!Result, Binary!Result,
         SlotAlloc!Operand, Binary!Operand, SlotAlloc!Apply, Binary!Apply,
         SlotAlloc!GEN_INP, Binary!GEN_INP, SlotAlloc!EVL_INP, Binary!EVL_INP,
         SlotAlloc!ETC, Binary!ETC, SlotAlloc!GEN_OUT, Binary!GEN_OUT,
         SlotAlloc!EVL_OUT, Binary!EVL_OUT
<1> QED
  BY <1>1, <1>2

\* Gate number k reads wire x where it stands, in the slot its gate wrote last.
StillIn(t, k, x, s) == s = t[x + 1] /\ \A i \in x + 2 .. k - 1 : t[i] # s

\* The gates g of a file, which write t, are the inputs and the gates of o.
Shown(g, t, o) ==
  /\ Len(g) = Total(o) /\ t = [k \in 1 .. Total(o) |-> t[k]]
  /\ \A k \in 1 .. InpCnt : g[k].tag = InputTag(k - 1)
  /\ \A k \in 1 .. Len(o) :
       /\ g[InpCnt + k].tag = TagOf(o[k]) /\ g[InpCnt + k].table = TableOf(o[k])
       /\ StillIn(t, InpCnt + k, o[k].x, g[InpCnt + k].m_input_idx[1])
       /\ ~o[k].output => StillIn(t, InpCnt + k, o[k].y, g[InpCnt + k].m_input_idx[2])

\* How many inputs are left, and gates gone, after k of them.
Unread(k) == IF k <= InpCnt THEN InpCnt - k ELSE 0
Gone(k) == IF k <= InpCnt THEN 0 ELSE k - InpCnt

\* The wires of a run that writes t.
Targets(t) == {t[i] : i \in DOMAIN t}
HasWires(st, t) == st.wire = [s \in Targets(t) |-> st.wire[s]]

\* After k gates a wire that no gate after its own has overwritten has its value.
WiresAt(st, new, t, k) ==
  \A x \in 0 .. k - 1 : (\A i \in x + 2 .. k : t[i] # t[x + 1]) => st.wire[t[x + 1]] = new[x]

\* So far the inputs have been taken and the outputs given.
SoFar(st, v, new, t, o, k) ==
  /\ HasWires(st, t)
  /\ WiresAt(st, new, t, k)
  /\ st.gen_inp = InBits(v, 0)[Unread(k)] /\ st.evl_inp = InBits(v, 1)[Unread(k)]
  /\ st.gen_out = BitsOf(o, new, 0)[Gone(k)] /\ st.evl_out = BitsOf(o, new, 1)[Gone(k)]

\* What gate g leaves, with result bit for wire s0.
Leaves(st, g, s0, t, bit, e) ==
  /\ HasWires(e, t)
  /\ \A s \in Targets(t) : e.wire[s] = IF s = s0 THEN bit ELSE st.wire[s]
  /\ e.gen_inp = IF g.tag = 1 THEN Tail(st.gen_inp) ELSE st.gen_inp
  /\ e.evl_inp = IF g.tag = 2 THEN Tail(st.evl_inp) ELSE st.evl_inp
  /\ e.gen_out = IF g.tag = 3 THEN Append(st.gen_out, bit) ELSE st.gen_out
  /\ e.evl_out = IF g.tag = 4 THEN Append(st.evl_out, bit) ELSE st.evl_out

\* That is what EvaluateGate does.
LEMMA GateLeaves ==
  ASSUME NEW st, NEW g, NEW s0, NEW t, HasWires(st, t)
  PROVE  Leaves(st, g, s0, t, Binary!Result(st, g), Binary!EvaluateGate(st, g, s0))
<1> DEFINE e == Binary!EvaluateGate(st, g, s0)
           bit == Binary!Result(st, g)
<1>1. /\ e.wire = [st.wire EXCEPT ![s0] = bit]
      /\ e.gen_inp = IF g.tag = 1 THEN Tail(st.gen_inp) ELSE st.gen_inp
      /\ e.evl_inp = IF g.tag = 2 THEN Tail(st.evl_inp) ELSE st.evl_inp
      /\ e.gen_out = IF g.tag = 3 THEN Append(st.gen_out, bit) ELSE st.gen_out
      /\ e.evl_out = IF g.tag = 4 THEN Append(st.evl_out, bit) ELSE st.evl_out
  BY Tags DEF Binary!EvaluateGate
<1> HIDE DEF e, bit
<1>2. e.wire = [s \in Targets(t) |-> IF s = s0 THEN bit ELSE st.wire[s]]
  BY <1>1 DEF HasWires
<1>3. Leaves(st, g, s0, t, bit, e)
  BY <1>1, <1>2 DEF HasWires, Leaves
<1> QED
  BY <1>3 DEF e, bit

\* What it makes of its operands.
LEMMA ResultFacts ==
  ASSUME NEW st, NEW g
  PROVE  /\ g.tag = 1 => Binary!Result(st, g) = Head(st.gen_inp)
         /\ g.tag = 2 => Binary!Result(st, g) = Head(st.evl_inp)
         /\ g.tag = 0 => Binary!Result(st, g) = Apply(g.table, st.wire[g.m_input_idx[1]],
                                                      st.wire[g.m_input_idx[2]])
         /\ g.tag \in {3, 4} => Binary!Result(st, g) = Apply(g.table, st.wire[g.m_input_idx[1]], 0)
BY Tags DEF Binary!Result, Binary!Operand, Binary!Apply, Apply

\* The head and the rest of a sequence that was put together.
LEMMA HeadTail ==
  ASSUME NEW S, NEW a \in S, NEW s \in Seq(S)
  PROVE  Head(<<a>> \o s) = a /\ Tail(<<a>> \o s) = s
OBVIOUS

\* val is what the gates of o make of the inputs v.
Solves(val, v, o) ==
  /\ \A x \in Inputs : val[x] = v[x]
  /\ \A k \in 1 .. Len(o) : val[o[k].id] = GateValue(o[k], val)
  /\ \A x \in 0 .. Total(o) - 1 : val[x] \in Bit

\* The wire gate k writes has its value then, and no other loses its own but one
\* in that slot.
LEMMA WireStep ==
  ASSUME NEW new, NEW t, NEW n \in Nat, t = [i \in 1 .. n |-> t[i]], NEW k \in 1 .. n,
         NEW st, NEW g, NEW e, Leaves(st, g, t[k], t, new[k - 1], e), WiresAt(st, new, t, k - 1)
  PROVE  WiresAt(e, new, t, k)
<1>1. \A x \in 0 .. (k - 1) - 1 :
        (\A i \in x + 2 .. k - 1 : t[i] # t[x + 1]) => st.wire[t[x + 1]] = new[x]
  BY DEF WiresAt
<1>2. DOMAIN t = 1 .. n
  OBVIOUS
<1>3. \A i \in 1 .. n : t[i] \in Targets(t)
  BY <1>2 DEF Targets
<1>4. \A s \in Targets(t) : e.wire[s] = IF s = t[k] THEN new[k - 1] ELSE st.wire[s]
  BY DEF Leaves
<1>5. ASSUME NEW x \in 0 .. k - 1, \A i \in x + 2 .. k : t[i] # t[x + 1]
      PROVE  e.wire[t[x + 1]] = new[x]
  <2>1. x + 1 \in 1 .. n
    OBVIOUS
  <2>2. t[x + 1] \in Targets(t)
    BY <1>3, <2>1
  <2>3. CASE x = k - 1
    <3>1. x + 1 = k
      BY <2>3
    <3> QED
      BY <1>4, <2>2, <2>3, <3>1
  <2>4. CASE x # k - 1
    <3>1. x \in 0 .. (k - 1) - 1 /\ k \in x + 2 .. k /\ \A i \in x + 2 .. k - 1 : i \in x + 2 .. k
      BY <2>4
    <3>2. t[k] # t[x + 1] /\ \A i \in x + 2 .. k - 1 : t[i] # t[x + 1]
      BY <1>5, <3>1
    <3>3. st.wire[t[x + 1]] = new[x]
      BY <1>1, <3>1, <3>2
    <3> QED
      BY <1>4, <2>2, <3>2, <3>3
  <2> QED
    BY <2>3, <2>4
<1> QED
  BY <1>5 DEF WiresAt

\* An input takes the next bit of its party.
LEMMA InputStep ==
  ASSUME NEW v \in [Inputs -> Bit], NEW new, NEW t, NEW o, Chained(o), NEW g, Shown(g, t, o),
         Solves(new, v, o), NEW k \in 1 .. InpCnt, NEW st, SoFar(st, v, new, t, o, k - 1)
  PROVE  SoFar(Binary!EvaluateGate(st, g[k], t[k]), v, new, t, o, k)
<1> DEFINE e == Binary!EvaluateGate(st, g[k], t[k])
           bit == Binary!Result(st, g[k])
           n == InpCnt - k + 1
<1>1. /\ Total(o) \in Nat /\ Total(o) = InpCnt + Len(o) /\ Len(o) \in Nat
      /\ k \in 1 .. Total(o) /\ t = [i \in 1 .. Total(o) |-> t[i]]
  BY ChainedFacts, Numbers DEF Shown
<1>2. /\ st.gen_inp = InBits(v, 0)[n] /\ st.evl_inp = InBits(v, 1)[n]
      /\ st.gen_out = BitsOf(o, new, 0)[Gone(k)] /\ st.evl_out = BitsOf(o, new, 1)[Gone(k)]
      /\ Unread(k) = n - 1 /\ Gone(k) = Gone(k - 1)
  <2>1. Unread(k - 1) = n /\ Unread(k) = n - 1 /\ Gone(k) = 0 /\ Gone(k - 1) = 0
    BY Numbers DEF Unread, Gone
  <2> QED
    BY <2>1 DEF SoFar
<1>3. g[k].tag = InputTag(k - 1) /\ InputParty[k] \in {0, 1}
  <2>1. g[k].tag = InputTag(k - 1)
    BY DEF Shown
  <2>2. k \in 1 .. InpCnt
    OBVIOUS
  <2>3. InputParty[k] \in {0, 1}
    BY InputsAssumption, <2>2
  <2> QED
    BY <2>1, <2>3
<1>4. g[k].tag = IF InputParty[k] = 1 THEN 2 ELSE 1
  <2>1. k - 1 + 1 = k
    OBVIOUS
  <2> QED
    BY <1>3, <2>1, Tags DEF InputTag
<1>5. n \in 1 .. InpCnt /\ InpCnt - n + 1 = k /\ InpCnt - n = k - 1 /\ n - 1 \in 0 .. InpCnt
      /\ k - 1 \in Inputs
  BY Numbers
<1> HIDE DEF n
<1>6. \A p : /\ InBits(v, p)[n] = IF InputParty[k] = p THEN <<v[k - 1]>> \o InBits(v, p)[n - 1]
                                  ELSE InBits(v, p)[n - 1]
             /\ InBits(v, p)[n - 1] \in Seq(Bit)
  <2> TAKE p
  <2>1. InBits(v, p)[n] = NextInput(v, p, n, InBits(v, p)[n - 1]) /\ InBits(v, p)[n - 1] \in Seq(Bit)
    BY <1>5, InFacts
  <2> QED
    BY <1>5, <2>1 DEF NextInput
<1>7. v[k - 1] \in Bit /\ new[k - 1] = v[k - 1]
  BY <1>5 DEF Solves
<1>8. ASSUME NEW p, InputParty[k] = p
      PROVE  Head(InBits(v, p)[n]) = v[k - 1] /\ Tail(InBits(v, p)[n]) = InBits(v, p)[n - 1]
  <2> DEFINE s == InBits(v, p)[n - 1]
             w == v[k - 1]
  <2>1. InBits(v, p)[n] = <<w>> \o s /\ s \in Seq(Bit) /\ w \in Bit
    BY <1>6, <1>7, <1>8
  <2> HIDE DEF s, w
  <2>2. Head(<<w>> \o s) = w /\ Tail(<<w>> \o s) = s
    BY <2>1, HeadTail
  <2> QED
    BY <2>1, <2>2 DEF s, w
<1>9. bit = new[k - 1]
  BY <1>2, <1>3, <1>4, <1>7, <1>8, ResultFacts
<1>10. Leaves(st, g[k], t[k], t, bit, e)
  <2>1. HasWires(st, t)
    BY DEF SoFar
  <2> QED
    BY <2>1, GateLeaves
<1> HIDE DEF e, bit
<1>11. /\ e.gen_inp = InBits(v, 0)[n - 1] /\ e.evl_inp = InBits(v, 1)[n - 1]
       /\ e.gen_out = st.gen_out /\ e.evl_out = st.evl_out
  BY <1>2, <1>3, <1>4, <1>6, <1>8, <1>10 DEF Leaves
<1>12. HasWires(e, t) /\ WiresAt(e, new, t, k)
  <2>1. HasWires(e, t)
    BY <1>10 DEF Leaves
  <2>2. WiresAt(st, new, t, k - 1)
    BY DEF SoFar
  <2> QED
    BY <1>1, <1>9, <1>10, <2>1, <2>2, WireStep
<1>13. SoFar(e, v, new, t, o, k)
  BY <1>2, <1>11, <1>12 DEF SoFar
<1> QED
  BY <1>13 DEF e

\* A gate applies its table to the values of the wires it reads.
LEMMA GateStep ==
  ASSUME NEW v \in [Inputs -> Bit], NEW new, NEW t, NEW o, Chained(o), NEW g, Shown(g, t, o),
         Solves(new, v, o), NEW j \in 1 .. Len(o), NEW st, SoFar(st, v, new, t, o, (InpCnt + j) - 1)
  PROVE  SoFar(Binary!EvaluateGate(st, g[InpCnt + j], t[InpCnt + j]), v, new, t, o, InpCnt + j)
<1> DEFINE k == InpCnt + j
           e == Binary!EvaluateGate(st, g[k], t[k])
           bit == Binary!Result(st, g[k])
<1>1. /\ Total(o) \in Nat /\ Total(o) = InpCnt + Len(o) /\ Len(o) \in Nat
      /\ k \in 1 .. Total(o) /\ k \in Nat /\ t = [i \in 1 .. Total(o) |-> t[i]]
      /\ o[j].id = k - 1 /\ o[j].x \in 0 .. k - 2 /\ o[j].y \in 0 .. k - 2
      /\ o[j].party \in {0, 1} /\ o[j].output \in BOOLEAN
  <2>1. /\ Total(o) \in Nat /\ Total(o) = InpCnt + Len(o) /\ Len(o) \in Nat
        /\ o[j].id \in Nat /\ o[j].id = input_cnt + j
        /\ o[j].x \in Nat /\ o[j].x < o[j].id /\ o[j].y \in Nat /\ o[j].y < o[j].id
        /\ o[j].output \in BOOLEAN /\ o[j].party \in {0, 1}
    BY ChainedFacts
  <2>2. t = [i \in 1 .. Total(o) |-> t[i]]
    BY DEF Shown
  <2>3. /\ k \in 1 .. Total(o) /\ k \in Nat /\ input_cnt + j = k - 1
    BY <2>1, Numbers
  <2>4. /\ o[j].x \in 0 .. k - 2 /\ o[j].y \in 0 .. k - 2
    <3> HIDE DEF k
    <3> QED
      BY <2>1, <2>3
  <2> QED
    BY <2>1, <2>2, <2>3, <2>4
<1>2. /\ Unread(k) = 0 /\ Unread(k - 1) = 0 /\ Gone(k) = j /\ Gone(k - 1) = j - 1
  <2>1. k - 1 <= InpCnt => k - 1 = InpCnt
    BY Numbers
  <2> QED
    BY <2>1, Numbers DEF Unread, Gone
<1>3. /\ g[k].tag = TagOf(o[j]) /\ g[k].table = TableOf(o[j])
      /\ StillIn(t, k, o[j].x, g[k].m_input_idx[1])
      /\ ~o[j].output => StillIn(t, k, o[j].y, g[k].m_input_idx[2])
  BY DEF Shown
<1>4. SoFar(st, v, new, t, o, k - 1)
  OBVIOUS
<1> HIDE DEF k
<1>5. ASSUME NEW x \in 0 .. k - 2, NEW s, StillIn(t, k, x, s)
      PROVE  st.wire[s] = new[x] /\ new[x] \in Bit
  <2>1. x \in 0 .. (k - 1) - 1 /\ x \in 0 .. Total(o) - 1
    BY <1>1
  <2>2. s = t[x + 1] /\ \A i \in x + 2 .. k - 1 : t[i] # t[x + 1]
    BY <1>5 DEF StillIn
  <2>3. st.wire[t[x + 1]] = new[x]
    BY <1>4, <2>1, <2>2 DEF SoFar, WiresAt
  <2> QED
    BY <2>1, <2>2, <2>3 DEF Solves
<1>6. /\ st.wire[g[k].m_input_idx[1]] = new[o[j].x] /\ new[o[j].x] \in Bit
      /\ ~o[j].output => st.wire[g[k].m_input_idx[2]] = new[o[j].y]
  BY <1>1, <1>3, <1>5
<1>7. bit = new[k - 1]
  <2>1. new[k - 1] = GateValue(o[j], new)
    BY <1>1 DEF Solves
  <2>2. CASE o[j].output
    <3>1. g[k].tag \in {3, 4} /\ g[k].table = Binary!OutTable
      BY <1>3, <2>2, TagArity DEF TableOf
    <3>2. bit = Apply(Binary!OutTable, new[o[j].x], 0)
      BY <1>6, <3>1, ResultFacts
    <3> QED
      BY <1>6, <2>1, <2>2, <3>2, ApplyFacts DEF GateValue
  <2>3. CASE ~o[j].output
    <3>1. g[k].tag = 0 /\ g[k].table = o[j].table
      BY <1>3, <2>3, TagArity DEF TableOf
    <3> QED
      BY <1>6, <2>1, <2>3, <3>1, ResultFacts DEF GateValue
  <2> QED
    BY <2>2, <2>3
<1>8. HasWires(st, t)
  BY <1>4 DEF SoFar
<1>9. /\ st.gen_inp = InBits(v, 0)[0] /\ st.evl_inp = InBits(v, 1)[0]
      /\ st.gen_out = BitsOf(o, new, 0)[j - 1] /\ st.evl_out = BitsOf(o, new, 1)[j - 1]
  BY <1>2, <1>4 DEF SoFar
<1>10. \A p : BitsOf(o, new, p)[j] = IF o[j].output /\ o[j].party = p
                                     THEN Append(BitsOf(o, new, p)[j - 1], new[k - 1])
                                     ELSE BitsOf(o, new, p)[j - 1]
  BY <1>1, BitsFacts DEF NextBits
<1>11. /\ g[k].tag = 3 <=> o[j].output /\ o[j].party = 0
       /\ g[k].tag = 4 <=> o[j].output /\ o[j].party = 1
       /\ g[k].tag # 1 /\ g[k].tag # 2
  BY <1>1, <1>3, Tags DEF TagOf
<1>12. Leaves(st, g[k], t[k], t, bit, e)
  BY <1>8, GateLeaves
<1> HIDE DEF e, bit
<1>13. /\ e.gen_inp = InBits(v, 0)[0] /\ e.evl_inp = InBits(v, 1)[0]
       /\ e.gen_out = BitsOf(o, new, 0)[j] /\ e.evl_out = BitsOf(o, new, 1)[j]
  BY <1>7, <1>9, <1>10, <1>11, <1>12 DEF Leaves
<1>14. HasWires(e, t) /\ WiresAt(e, new, t, k)
  <2>1. HasWires(e, t)
    BY <1>12 DEF Leaves
  <2>2. WiresAt(st, new, t, k - 1)
    BY <1>4 DEF SoFar
  <2> QED
    BY <1>1, <1>7, <1>12, <2>1, <2>2, WireStep
<1>15. SoFar(e, v, new, t, o, k)
  BY <1>2, <1>13, <1>14 DEF SoFar
<1> QED
  BY <1>15 DEF e, k

\* So the run of a file yields the outputs of the gates it shows.
LEMMA RunYields ==
  ASSUME NEW v \in [Inputs -> Bit], NEW new, NEW t, NEW o, Chained(o), NEW g, Shown(g, t, o),
         Solves(new, v, o)
  PROVE  Binary!Evaluate(g, t, InputBits(v, 0), InputBits(v, 1))
           = <<BitsOf(o, new, 0)[Len(o)], BitsOf(o, new, 1)[Len(o)]>>
<1> DEFINE a == InputBits(v, 0)
           b == InputBits(v, 1)
           r == Run(g, t, a, b)
           n == Total(o)
           P == {k \in 0 .. n : SoFar(r[k], v, new, t, o, k)}
<1>1. n \in Nat /\ n = InpCnt + Len(o) /\ Len(o) \in Nat /\ Len(g) = n
  BY ChainedFacts DEF Shown
<1>2. /\ r[0] = Binary!Start(t, a, b)
      /\ \A k \in 1 .. n : r[k] = Binary!EvaluateGate(r[k - 1], g[k], t[k])
  BY <1>1, RunFacts
<1>3. SoFar(r[0], v, new, t, o, 0)
  <2> DEFINE s == Binary!Start(t, a, b)
  <2>1. /\ s.wire = [x \in Targets(t) |-> 0] /\ s.gen_inp = a /\ s.evl_inp = b
        /\ s.gen_out = << >> /\ s.evl_out = << >>
    BY DEF Binary!Start, Targets
  <2>2. Unread(0) = InpCnt /\ Gone(0) = 0 /\ 0 .. 0 - 1 = {}
    BY Numbers DEF Unread, Gone
  <2>3. \A p : BitsOf(o, new, p)[0] = << >>
    BY <1>1, BitsFacts
  <2>4. a = InBits(v, 0)[InpCnt] /\ b = InBits(v, 1)[InpCnt]
    BY BitsAre
  <2>5. HasWires(s, t)
    BY <2>1 DEF HasWires
  <2> HIDE DEF s, a, b, r
  <2>6. SoFar(s, v, new, t, o, 0)
    BY <2>1, <2>2, <2>3, <2>4, <2>5 DEF SoFar, WiresAt
  <2> QED
    BY <1>2, <2>6 DEF s
<1> HIDE DEF r
<1>4. ASSUME NEW k \in 1 .. n, k - 1 \in P
      PROVE  k \in P
  <2>1. SoFar(r[k - 1], v, new, t, o, k - 1)
    BY <1>4
  <2>2. CASE k <= InpCnt
    <3>1. k \in 1 .. InpCnt
      BY <1>1, <2>2, Numbers
    <3>2. SoFar(r[k], v, new, t, o, k)
      BY <1>2, <2>1, <3>1, InputStep
    <3> QED
      BY <3>2
  <2>3. CASE ~(k <= InpCnt)
    <3> DEFINE j == k - InpCnt
    <3>1. j \in 1 .. Len(o) /\ InpCnt + j = k
      BY <1>1, <2>3, Numbers
    <3> HIDE DEF j
    <3>2. SoFar(r[k], v, new, t, o, k)
      BY <1>2, <2>1, <3>1, GateStep
    <3> QED
      BY <3>2
  <2> QED
    BY <2>2, <2>3
<1>5. n \in P
  <2>1. 0 \in P
    BY <1>1, <1>3
  <2>0. n \in Nat
    BY <1>1
  <2> HIDE DEF P, n
  <2>2. 0 .. n \subseteq P /\ n \in 0 .. n
    BY <1>4, <2>0, <2>1, UpTo
  <2> QED
    BY <2>2
<1>6. Gone(n) = Len(o)
  BY <1>1, Numbers DEF Gone
<1>7. r[n].gen_out = BitsOf(o, new, 0)[Len(o)] /\ r[n].evl_out = BitsOf(o, new, 1)[Len(o)]
  BY <1>5, <1>6 DEF SoFar
<1>8. Binary!Evaluate(g, t, a, b) = <<r[n].gen_out, r[n].evl_out>>
  BY <1>1, RunsAre DEF r
<1> QED
  BY <1>7, <1>8

\* The outputs that are emitted are those of the file, in its order.
LEMMA SameOutputs ==
  ASSUME Passed, NEW v \in [Inputs -> Bit], NEW p
  PROVE  BitsOf(file, Values(file, v), p)[Len(file)] = BitsOf(out_file, NewValues(v), p)[Len(out_file)]
<1> DEFINE o == out_file
           n == Len(file)
           val == Values(file, v)
           new == NewValues(v)
           c(i) == Cardinality(LiveOf(i))
           A(i) == BitsOf(file, val, p)[i]
           B(k) == BitsOf(o, new, p)[k]
           P == {i \in 0 .. n : A(i) = B(c(i))}
<1>1. /\ WellFormed(file) /\ file # << >> /\ live \subseteq Ids /\ next_id = 0 /\ DeadInv
      /\ n \in Nat /\ Len(o) \in Nat /\ Len(o) = c(n) /\ Chained(o)
  BY PassedFacts DEF Passed
<1>2. A(0) = << >> /\ \A i \in 1 .. n : A(i) = NextBits(file, val, p, i, A(i - 1))
  BY <1>1, BitsFacts
<1>3. B(0) = << >> /\ \A k \in 1 .. Len(o) : B(k) = NextBits(o, new, p, k, B(k - 1))
  BY <1>1, BitsFacts
<1>4. \A k \in 1 .. Len(o) : new[o[k].id] = val[file[Origin(k)].id]
  BY NewValuesFacts
<1> HIDE DEF val, new, A, B
<1>5. \A i \in 0 .. n : c(i) \in Nat /\ c(i) <= c(n)
  <2> TAKE i \in 0 .. n
  <2>1. IsFiniteSet(live) /\ LiveOf(n) \in SUBSET live
    BY <1>1, Ranks DEF LiveOf
  <2>2. \A j \in 1 .. i : j \in 1 .. n
    BY <1>1
  <2>3. LiveOf(i) \in SUBSET LiveOf(n)
    BY <2>2 DEF LiveOf
  <2>4. IsFiniteSet(LiveOf(n))
    BY <2>1, FS_Subset
  <2> QED
    BY <2>3, <2>4, FS_Subset, FS_CardinalityType
<1>6. c(0) = 0
  <2>1. LiveOf(0) = {}
    BY DEF LiveOf
  <2> QED
    BY <2>1, FS_EmptySet
<1>7. ASSUME NEW i \in 1 .. n
      PROVE  /\ file[i].id \notin live => c(i) = c(i - 1)
             /\ file[i].id \in live =>
                  c(i) = c(i - 1) + 1 /\ NumberOf(file[i].id) = input_cnt + c(i - 1) + 1
  <2>1. i - 1 \in 0 .. Len(file) - 1 /\ (i - 1) + 1 = i
    BY <1>1
  <2> DEFINE m == i - 1
  <2> HIDE DEF m
  <2>2. m \in 0 .. Len(file) - 1 /\ m + 1 = i
    BY <2>1 DEF m
  <2>3. /\ file[m + 1].id \notin live => LiveOf(m + 1) = LiveOf(m)
        /\ file[m + 1].id \in live =>
             /\ Cardinality(LiveOf(m + 1)) = Cardinality(LiveOf(m)) + 1
             /\ NumberOf(file[m + 1].id) = input_cnt + Cardinality(LiveOf(m)) + 1
    BY <1>1, <2>2, LiveNext
  <2> QED
    BY <2>2, <2>3 DEF m
<1> HIDE DEF c
<1>8. ASSUME NEW i \in 1 .. n, i - 1 \in P
      PROVE  i \in P
  <2>1. A(i - 1) = B(c(i - 1)) /\ A(i) = NextBits(file, val, p, i, A(i - 1))
    BY <1>2, <1>8
  <2>2. CASE file[i].id \notin live
    <3>1. ~file[i].output
      BY <2>2, PassedFacts
    <3>2. A(i) = A(i - 1)
      BY <2>1, <3>1 DEF NextBits
    <3> QED
      BY <1>7, <2>1, <2>2, <3>2
  <2>3. CASE file[i].id \in live
    <3> DEFINE k == c(i)
    <3>1. k \in 1 .. Len(o) /\ k - 1 = c(i - 1) /\ NumberOf(file[i].id) = input_cnt + k
      <4>1. i \in 0 .. n /\ i - 1 \in 0 .. n
        BY <1>1
      <4>2. c(i) = c(i - 1) + 1 /\ NumberOf(file[i].id) = input_cnt + c(i - 1) + 1
        BY <1>7, <2>3
      <4> QED
        BY <1>1, <1>5, <4>1, <4>2, Numbers
    <3> HIDE DEF k
    <3>2. /\ Origin(k) \in 1 .. n /\ file[Origin(k)].id \in live
          /\ Renamed(o[k], file[Origin(k)]) /\ o[k].id = input_cnt + k
      BY <1>1, <3>1, OriginFacts, ChainedFacts
    <3>3. Origin(k) = i
      <4> DEFINE j == Origin(k)
      <4>1. file[j].id \in Numbered /\ file[i].id \in Numbered
        BY <2>3, <3>2, PassedFacts
      <4>2. newmap[file[j].id] = newmap[file[i].id]
        BY <3>1, <3>2, <4>1, PassedFacts DEF Renamed
      <4>3. file[j].id = file[i].id
        BY <4>1, <4>2, PassedFacts
      <4>4. j \in 1 .. n
        BY <3>2
      <4> HIDE DEF j
      <4>5. \A b, d \in 1 .. n : d \in 1 .. (b - 1) => file[d].id < file[b].id
        BY <1>1, FileFacts
      <4>6. j \in 1 .. (i - 1) \/ i \in 1 .. (j - 1) \/ i = j
        BY <1>1, <4>4
      <4>7. file[i].id \in Nat /\ ~(file[i].id < file[i].id)
        BY <1>1, FileFacts
      <4>8. i = j
        BY <4>3, <4>4, <4>5, <4>6, <4>7
      <4> QED
        BY <4>8 DEF j
    <3>4. /\ o[k].output = file[i].output /\ o[k].party = file[i].party
          /\ new[o[k].id] = val[file[i].id]
      BY <1>4, <3>1, <3>2, <3>3 DEF Renamed
    <3>5. B(k) = NextBits(o, new, p, k, B(k - 1))
      BY <1>3, <3>1
    <3>6. A(i) = B(k)
      BY <2>1, <3>1, <3>4, <3>5 DEF NextBits
    <3> QED
      BY <3>6 DEF k
  <2> QED
    BY <2>2, <2>3
<1>9. n \in P
  <2>1. 0 \in P
    BY <1>1, <1>2, <1>3, <1>6
  <2>2. n \in Nat
    BY <1>1
  <2> HIDE DEF P, n
  <2>3. 0 .. n \subseteq P /\ n \in 0 .. n
    BY <1>8, <2>1, <2>2, UpTo
  <2> QED
    BY <2>3
<1>10. A(n) = B(c(n)) /\ c(n) = Len(o)
  BY <1>1, <1>9
<1> QED
  BY <1>10 DEF A, B, val, new

\* The older file shows the gates that were emitted, each writing its own wire.
LEMMA OldShown ==
  ASSUME NEW f, NEW o, Chained(o), Holds(f, o)
  PROVE  Shown(Binary!GatesOld(f), [k \in DOMAIN f.gates |-> k - 1], o)
<1> DEFINE g == Binary!GatesOld(f)
           t == [k \in DOMAIN f.gates |-> k - 1]
           n == Total(o)
<1>1. /\ n \in Nat /\ n = InpCnt + Len(o) /\ Len(o) \in Nat
      /\ \A k \in 1 .. Len(o) : /\ o[k].x \in Nat /\ o[k].x < InpCnt + k - 1
                                /\ o[k].y \in Nat /\ o[k].y < InpCnt + k - 1
  <2>1. n \in Nat /\ n = InpCnt + Len(o) /\ Len(o) \in Nat
    BY ChainedFacts
  <2>2. \A k \in 1 .. Len(o) : /\ o[k].x \in Nat /\ o[k].x < o[k].id /\ o[k].id = input_cnt + k
                               /\ o[k].y \in Nat /\ o[k].y < o[k].id
    BY ChainedFacts
  <2>3. \A k \in 1 .. Len(o) : input_cnt + k = InpCnt + k - 1
    BY <2>1, Numbers
  <2> QED
    BY <2>1, <2>2, <2>3
<1>2. DOMAIN f.gates = 1 .. n
  <2>1. f.gates = [k \in 1 .. n |-> f.gates[k]]
    BY DEF Holds, Lists
  <2> QED
    BY <2>1
<1>3. g = [k \in 1 .. n |-> At(f, k - 1)] /\ t = [k \in 1 .. n |-> k - 1]
  BY <1>2 DEF Binary!GatesOld, At
<1> HIDE DEF g, t
<1>4. Len(g) = n
  <2>1. DOMAIN g = 1 .. n /\ g = [k \in 1 .. n |-> g[k]]
    BY <1>3
  <2> HIDE DEF n
  <2>2. n \in Nat
    BY <1>1
  <2>3. g \in Seq({g[k] : k \in 1 .. n})
    BY <2>1, <2>2
  <2> QED
    BY <2>1, <2>2, <2>3
<1>5. ASSUME NEW k \in 1 .. InpCnt
      PROVE  g[k].tag = InputTag(k - 1)
  <2>1. k \in 1 .. n /\ k - 1 \in 0 .. n - 1 /\ k - 1 < InpCnt
    BY <1>1, Numbers
  <2>2. Shows(f, o, k - 1)
    BY <2>1 DEF Holds
  <2> QED
    BY <1>3, <2>1, <2>2 DEF Shows
<1>6. ASSUME NEW k \in 1 .. Len(o)
      PROVE  Matches(g[InpCnt + k], o[k])
  <2> DEFINE j == InpCnt + k - 1
  <2>1. InpCnt + k \in 1 .. n /\ j \in 0 .. n - 1 /\ j >= InpCnt /\ j + 1 - InpCnt = k
        /\ (InpCnt + k) - 1 = j
    BY <1>1, Numbers
  <2> HIDE DEF j
  <2>2. Shows(f, o, j)
    BY <2>1 DEF Holds
  <2>3. Matches(At(f, j), o[k])
    BY <2>1, <2>2 DEF Shows
  <2> QED
    BY <1>3, <2>1, <2>3
<1>7. ASSUME NEW k \in 1 .. Len(o), NEW x \in Nat, x < InpCnt + k - 1
      PROVE  StillIn(t, InpCnt + k, x, x)
  <2>1. \A i \in 1 .. n : t[i] = i - 1
    BY <1>3
  <2>2. x + 1 \in 1 .. n /\ \A i \in x + 2 .. (InpCnt + k) - 1 : i \in 1 .. n /\ i - 1 # x
    BY <1>1, <1>7, Numbers
  <2>3. (x + 1) - 1 = x
    OBVIOUS
  <2> QED
    BY <2>1, <2>2, <2>3 DEF StillIn
<1>8. ASSUME NEW k \in 1 .. Len(o)
      PROVE  /\ g[InpCnt + k].tag = TagOf(o[k]) /\ g[InpCnt + k].table = TableOf(o[k])
             /\ StillIn(t, InpCnt + k, o[k].x, g[InpCnt + k].m_input_idx[1])
             /\ ~o[k].output => StillIn(t, InpCnt + k, o[k].y, g[InpCnt + k].m_input_idx[2])
  BY <1>1, <1>6, <1>7 DEF Matches
<1>9. t = [k \in 1 .. n |-> t[k]]
  BY <1>3
<1> QED
  BY <1>4, <1>5, <1>8, <1>9 DEF Shown, g, t

\* The hash-free file shows them too: the slots a gate reads hold its wires.
LEMMA NewShown ==
  ASSUME NEW hf, NEW f, NEW o, Chained(o), Holds(f, o), NEW hd, NEW tbl, NEW slots,
         SecondOf(hf, hd, tbl, f, o, Total(o), slots)
  PROVE  Shown(SlotAlloc!GatesNew(hf), [k \in DOMAIN hf.gates |-> SlotAlloc!GatesNew(hf)[k].m_idx], o)
<1> DEFINE g == SlotAlloc!GatesNew(hf)
           t == [k \in DOMAIN hf.gates |-> SlotAlloc!GatesNew(hf)[k].m_idx]
           n == Total(o)
<1>1. n \in Nat /\ n = InpCnt + Len(o) /\ Len(o) \in Nat
  BY ChainedFacts
<1>2. /\ hf.gates = [k \in 1 .. n |-> hf.gates[k]]
      /\ \A k \in 1 .. n : /\ hf.gates[k].tag = At(f, k - 1).tag
                           /\ hf.gates[k].table = At(f, k - 1).table
                           /\ Wired(hf, f, k)
  BY DEF SecondOf, InSlots
<1>3. /\ Len(g) = n
      /\ \A k \in 1 .. n :
           /\ g[k].tag = hf.gates[k].tag /\ g[k].table = hf.gates[k].table
           /\ g[k].m_idx = hf.gates[k].m_idx.value
           /\ g[k].m_input_idx
                = [j \in 1 .. SlotAlloc!Arity(hf.gates[k].tag) |-> hf.gates[k].inputs[j].value]
  <2>1. AsWritten(g, hf, n)
    BY <1>1, <1>2, NewGates
  <2> HIDE DEF g, n
  <2> QED
    BY <2>1 DEF AsWritten
<1>4. t = [k \in 1 .. n |-> g[k].m_idx]
  <2>1. DOMAIN hf.gates = 1 .. n
    BY <1>2
  <2> QED
    BY <2>1
<1> HIDE DEF g, t
<1>5. \A k \in 1 .. n : t[k] = hf.gates[k].m_idx.value
  BY <1>3, <1>4
<1>6. ASSUME NEW k \in 1 .. InpCnt
      PROVE  g[k].tag = InputTag(k - 1)
  <2>1. k \in 1 .. n /\ k - 1 \in 0 .. n - 1 /\ k - 1 < InpCnt
    BY <1>1, Numbers
  <2>2. Shows(f, o, k - 1)
    BY <2>1 DEF Holds
  <2>3. At(f, k - 1).tag = InputTag(k - 1)
    BY <2>1, <2>2 DEF Shows
  <2> QED
    BY <1>2, <1>3, <2>1, <2>3
<1>7. ASSUME NEW k \in 1 .. n, NEW j \in 1 .. Binary!Arity(At(f, k - 1).tag)
      PROVE  StillIn(t, k, At(f, k - 1).m_input_idx[j], g[k].m_input_idx[j])
  <2> DEFINE x == At(f, k - 1).m_input_idx[j]
             s == hf.gates[k].inputs[j].value
  <2>1. Holding(hf, x, k - 1, s)
    BY <1>2, <1>7 DEF Wired
  <2>2. g[k].m_input_idx[j] = s
    <3>1. j \in 1 .. SlotAlloc!Arity(hf.gates[k].tag)
      BY <1>2, SameReader
    <3> QED
      BY <1>3, <3>1
  <2> HIDE DEF x, s
  <2>3. /\ x \in 0 .. (k - 1) - 1 /\ hf.gates[x + 1].m_idx.value = s
        /\ \A i \in x + 2 .. k - 1 : hf.gates[i].m_idx.value # s
    BY <2>1 DEF Holding
  <2>4. x + 1 \in 1 .. n /\ \A i \in x + 2 .. k - 1 : i \in 1 .. n
    BY <1>1, <2>3
  <2>5. StillIn(t, k, x, s)
    BY <1>5, <2>3, <2>4 DEF StillIn
  <2> QED
    BY <2>2, <2>5 DEF x
<1>8. ASSUME NEW k \in 1 .. Len(o)
      PROVE  /\ g[InpCnt + k].tag = TagOf(o[k]) /\ g[InpCnt + k].table = TableOf(o[k])
             /\ StillIn(t, InpCnt + k, o[k].x, g[InpCnt + k].m_input_idx[1])
             /\ ~o[k].output => StillIn(t, InpCnt + k, o[k].y, g[InpCnt + k].m_input_idx[2])
  <2> DEFINE K == InpCnt + k
             r == At(f, K - 1)
  <2>1. K \in 1 .. n /\ K - 1 \in 0 .. n - 1 /\ K - 1 >= InpCnt /\ (K - 1) + 1 - InpCnt = k
    BY <1>1, Numbers
  <2> HIDE DEF K
  <2>2. Shows(f, o, K - 1)
    BY <2>1 DEF Holds
  <2>3. Matches(r, o[k])
    BY <2>1, <2>2 DEF Shows
  <2>4. g[K].tag = r.tag /\ g[K].table = r.table
    BY <1>2, <1>3, <2>1
  <2>5. \A j \in 1 .. Binary!Arity(r.tag) : StillIn(t, K, r.m_input_idx[j], g[K].m_input_idx[j])
    BY <1>7, <2>1
  <2> HIDE DEF r
  <2>6. /\ r.tag = TagOf(o[k]) /\ r.table = TableOf(o[k]) /\ r.m_input_idx[1] = o[k].x
        /\ ~o[k].output => r.m_input_idx[2] = o[k].y
    BY <2>3 DEF Matches
  <2>7. 1 \in 1 .. Binary!Arity(r.tag) /\ (~o[k].output => 2 \in 1 .. Binary!Arity(r.tag))
    BY <2>6, TagArity
  <2>8. /\ g[K].tag = TagOf(o[k]) /\ g[K].table = TableOf(o[k])
        /\ StillIn(t, K, o[k].x, g[K].m_input_idx[1])
        /\ ~o[k].output => StillIn(t, K, o[k].y, g[K].m_input_idx[2])
    BY <2>4, <2>5, <2>6, <2>7
  <2> QED
    BY <2>8 DEF K
<1>9. t = [k \in 1 .. n |-> t[k]]
  BY <1>4
<1> QED
  BY <1>3, <1>6, <1>8, <1>9 DEF Shown, g, t

\* So both binary files compute what the file the back end was given computes.
LEMMA OutputsOk ==
  ASSUME DeadInv, BinaryInv, SlotsInv, Faithful
  PROVE  OutputsSame
<1> DEFINE o == out_file
<1> SUFFICES ASSUME slots_pc = "done", ~misled, NEW v \in [Inputs -> Bit]
             PROVE  LET right == <<OutputBits(file, v, 0), OutputBits(file, v, 1)>>
                    IN  /\ Binary!evaluate_binary_old(bin, InputBits(v, 0), InputBits(v, 1)) = right
                        /\ SlotAlloc!evaluate_binary(hash_free, InputBits(v, 0), InputBits(v, 1)) = right
  BY DEF OutputsSame
<1>1. binary_pc \in {"ready", "recounted"} /\ m_gate_idx = Total(o)
      /\ SecondOf(hash_free, holder, hash_tbl, bin, o, Total(o), tbl_max)
  BY DEF SlotsInv
<1>2. Holds(bin, o) /\ Passed
  BY <1>1 DEF BinaryInv, Passed
<1> DEFINE new == NewValues(v)
           right == <<OutputBits(file, v, 0), OutputBits(file, v, 1)>>
<1>3. Solves(new, v, o) /\ Chained(o)
  BY <1>2, NewValuesFacts, PassedFacts DEF Solves
<1>4. right = <<BitsOf(o, new, 0)[Len(o)], BitsOf(o, new, 1)[Len(o)]>>
  BY <1>2, SameOutputs, BitsAre
<1> HIDE DEF new, right
<1>5. Binary!evaluate_binary_old(bin, InputBits(v, 0), InputBits(v, 1)) = right
  <2> DEFINE g == Binary!GatesOld(bin)
             t == [k \in DOMAIN bin.gates |-> k - 1]
  <2>1. Shown(g, t, o)
    BY <1>2, <1>3, OldShown
  <2>2. Binary!evaluate_binary_old(bin, InputBits(v, 0), InputBits(v, 1))
          = Binary!Evaluate(g, t, InputBits(v, 0), InputBits(v, 1))
    BY DEF Binary!evaluate_binary_old
  <2> HIDE DEF g, t
  <2> QED
    BY <1>3, <1>4, <2>1, <2>2, RunYields
<1>6. SlotAlloc!evaluate_binary(hash_free, InputBits(v, 0), InputBits(v, 1)) = right
  <2> DEFINE g == SlotAlloc!GatesNew(hash_free)
             t == [k \in DOMAIN hash_free.gates |-> SlotAlloc!GatesNew(hash_free)[k].m_idx]
  <2>1. Shown(g, t, o)
    BY <1>1, <1>2, <1>3, NewShown
  <2>2. SlotAlloc!evaluate_binary(hash_free, InputBits(v, 0), InputBits(v, 1))
          = SlotAlloc!Evaluate(g, t, InputBits(v, 0), InputBits(v, 1))
    BY DEF SlotAlloc!evaluate_binary
  <2> HIDE DEF g, t
  <2> QED
    BY <1>3, <1>4, <2>1, <2>2, RunYields, RunsAre
<1> QED
  BY <1>5, <1>6 DEF right

(***************************************************************************)
(* The whole chain.                                                        *)
(***************************************************************************)

\* The invariant of the chain, program by program.
BackendInv == DeadInv /\ BinaryInv /\ SlotsInv /\ Faithful

\* The counts are right as far as they go, the circuit file has every gate as it
\* was emitted, a wire has a slot of its own as long as it is to be read, and the
\* hash-free file is written for the slots that takes: for gate files of every
\* length and either store, whether generate_count.cpp has been run or not.
THEOREM BackendCorrect == SpecAll => []BackendInv
<1>1. InitAll => BackendInv
  <2> SUFFICES ASSUME InitAll
               PROVE  BackendInv
    OBVIOUS
  <2>1. Init /\ Binary!Init /\ SlotAlloc!Init
    BY DEF InitAll
  <2>2. DeadInv
    BY <2>1, InitDead
  <2>3. pc = "mark" /\ out_file = << >>
    BY <2>1 DEF Init
  <2>4. BinaryInv
    BY <2>1, <2>3, InitBinary
  <2>5. Len(out_file) = 0
    BY <2>3
  <2>6. SlotsInv
    BY <2>1, <2>5, InitSlots
  <2>7. 1 .. Len(out_file) = {}
    BY <2>5
  <2>8. Faithful
    BY <2>7 DEF Faithful
  <2> QED
    BY <2>2, <2>4, <2>6, <2>8 DEF BackendInv
<1>2. BackendInv /\ [NextAll]_vars_all => BackendInv'
  <2> SUFFICES ASSUME BackendInv, [NextAll]_vars_all
               PROVE  BackendInv'
    OBVIOUS
  <2>1. DeadInv /\ BinaryInv /\ SlotsInv /\ Faithful
    BY DEF BackendInv
  <2>2. [Next]_vars
    BY DEF NextAll, Dead, Write, RemoveHash, vars_all
  <2>3. DeadInv'
    BY <2>1, <2>2, MarkGateDead, MarkDoneDead, NumberDead, EmitGateDead, EmitDoneDead, StutterDead
    DEF Next
  <2>4. m_gate_idx \in Nat
    <3>1. Total(out_file) \in Nat
      BY <2>1, Sizes
    <3> QED
      BY <2>1, <3>1 DEF SlotsInv
  <2>5. BinaryInv'
    BY <2>1, <2>3, <2>4, BinaryStep
  <2>6. SlotsInv'
    BY <2>1, <2>3, SlotsStep
  <2>7. Faithful'
    BY <2>1, <2>3, FaithfulStep
  <2> QED
    BY <2>3, <2>5, <2>6, <2>7 DEF BackendInv
<1> QED
  BY <1>1, <1>2, PTL DEF SpecAll

\* No program of the chain stops at an assertion, and none falls out of step with
\* the widths of the numbers, but where ChainHolds says so.  That remove_hash can
\* stop only after a misled lookup is Faithful: the numbers of live wires are
\* distinct, and no gate of the file reads an output, so that only generate_count
\* after a gate misled to an output leaves a wire with fewer reads than it has.
THEOREM ChainHoldsAlways == SpecAll => []ChainHolds
<1>1. BackendInv => ChainHolds
  BY ChainOk DEF BackendInv
<1> QED
  BY <1>1, BackendCorrect, PTL

\* The counts that are written are the numbers of reads, with what binary.cpp
\* counts for wire 0 too often.
THEOREM CountsExactAlways == SpecAll => []CountsExact
<1>1. BackendInv => CountsExact
  BY BinaryCounts DEF BackendInv
<1> QED
  BY <1>1, BackendCorrect, PTL

\* remove_hash hands out no slot as long as the wire in it has yet to be read.
THEOREM NoClobberAlways == SpecAll => []NoClobber
<1>1. BackendInv => NoClobber
  BY HeldSafe DEF BackendInv
<1> QED
  BY <1>1, BackendCorrect, PTL

\* The header of the hash-free file, written after the first walk, bounds every
\* slot the second walk writes, and counts the gates, inputs and outputs there.
THEOREM HeaderHoldsAlways == SpecAll => []HeaderHolds
<1>1. BackendInv => HeaderHolds
  BY HeaderOk DEF BackendInv
<1> QED
  BY <1>1, BackendCorrect, PTL

\* Both binary files, and the file the back end was given, compute the same of
\* all inputs, unless a lookup was misled.
THEOREM OutputsSameAlways == SpecAll => []OutputsSame
<1>1. BackendInv => OutputsSame
  BY OutputsOk DEF BackendInv
<1> QED
  BY <1>1, BackendCorrect, PTL
=============================================================================
