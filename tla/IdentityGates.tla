--------------------------- MODULE IdentityGates ---------------------------
(***************************************************************************)
(* The second pass of the compiler, main_berkeley_db of identitygates.cpp: *)
(* it reads the gates the parser wrote, replaces gates that only repeat a  *)
(* wire or a constant by an entry of the new map file, and gates that only *)
(* invert a wire by an entry of notmap, which is folded into the tables of *)
(* the gates reading it.                                                   *)
(*                                                                         *)
(* The circuit is evaluated alongside for one input, chosen in Init: wval  *)
(* holds the value every wire has in the circuit read, nval the value the  *)
(* gate has that is written under that id.  A property of all behaviours   *)
(* is thus one of all circuits and all inputs.                             *)
(***************************************************************************)
EXTENDS CompilerGates

CONSTANTS InpCnt,            \* input wires are 0 .. InpCnt-1
          Tables,            \* the tables of the gates read
          MaxId              \* bound on the gates of a circuit

ASSUME IdsAssumption ==
  /\ InpCnt \in Nat \ {0}
  /\ MaxId \in Nat
  /\ InpCnt <= MaxId
  /\ Tables \subseteq Table

Ids    == 0..MaxId
Inputs == 0..(InpCnt - 1)

VARIABLES
  last,                      \* the last id read
  oldmap, newmap, notmap,
  zero_gate, one_gate,       \* 0: none written yet
  binary,                    \* the wires the new circuit has
  outs,                      \* the output gates, nobody reads their wire
  flipped,                   \* those for which the pass computed a flipped table
  wval, nval

vars == <<last, oldmap, newmap, notmap, zero_gate, one_gate, binary, outs,
          flipped, wval, nval>>

Readable == (0..last) \ outs

TypeOK ==
  /\ last \in Ids
  /\ oldmap \in [Ids -> Ids]
  /\ newmap \in [Ids -> Ids]
  /\ notmap \in [Ids -> Ids]
  /\ zero_gate \in Ids
  /\ one_gate \in Ids
  /\ binary \subseteq Readable
  /\ outs \subseteq 0..last
  /\ flipped \subseteq outs
  /\ wval \in [Ids -> Bit]
  /\ nval \in [Ids -> Bit]

Init ==
  /\ last = InpCnt - 1
  /\ oldmap = Unmapped(Ids)
  /\ newmap = Unmapped(Ids)
  /\ notmap = Unmapped(Ids)
  /\ zero_gate = 0
  /\ one_gate = 0
  /\ binary = Inputs
  /\ outs = {}
  /\ flipped = {}
  /\ \E v \in [Inputs -> Bit] :
        /\ wval = [x \in Ids |-> IF x \in Inputs THEN v[x] ELSE 0]
        /\ nval = wval

-----------------------------------------------------------------------------
(* How an input of a gate is rewritten: read_binary_gate looks it up in the *)
(* parser's map, the pass in its own, and then in notmap.                   *)

Resolved(x) == newmap[oldmap[x]]
Inverted(x) == notmap[Resolved(x)] # Resolved(x)
Base(x)     == notmap[Resolved(x)]

\* (Mutant: the first input's inversion is applied to both.)
NewTableFirst(t, x, y) ==
  LET u == IF Inverted(x) THEN Flip0(t) ELSE t
  IN  IF Inverted(x) THEN Flip1(u) ELSE u

NewTable(t, x, y) ==
  LET u == IF Inverted(x) THEN Flip0(t) ELSE t
  IN  IF Inverted(y) THEN Flip1(u) ELSE u

\* What becomes of a gate: written ("keep"), written and remembered as the
\* constant ("zero", "one"), replaced by the wire "to" or by its inverse.
Keep      == [kind |-> "keep", to |-> 0]
NewZero   == [kind |-> "zero", to |-> 0]
NewOne    == [kind |-> "one",  to |-> 0]
SameAs(x) == [kind |-> "same", to |-> x]
NotOf(x)  == [kind |-> "not",  to |-> x]

IsZero(x) == zero_gate # 0 /\ x = zero_gate
IsOne(x)  == one_gate # 0 /\ x = one_gate

ConstZero == IF zero_gate = 0 THEN NewZero ELSE SameAs(zero_gate)
ConstOne  == IF one_gate = 0 THEN NewOne ELSE SameAs(one_gate)

\* The tests of the code in its order: the first that holds decides.
XorOutcome(a, b) ==
  IF a = b THEN ConstZero
  ELSE IF IsZero(a) THEN SameAs(b)
  ELSE IF IsZero(b) THEN SameAs(a)
  ELSE IF IsOne(a) THEN NotOf(b)
  ELSE IF IsOne(b) THEN NotOf(a)
  ELSE Keep

AndOutcome(a, b) ==
  IF a = b THEN SameAs(a)
  ELSE IF IsOne(a) THEN SameAs(b)
  ELSE IF IsOne(b) THEN SameAs(a)
  ELSE IF IsZero(a) \/ IsZero(b) THEN SameAs(zero_gate)
  ELSE Keep

XnorOutcome(a, b) ==
  IF a = b THEN ConstOne
  ELSE IF IsOne(a) THEN SameAs(b)
  ELSE IF IsOne(b) THEN SameAs(a)
  ELSE IF IsZero(a) THEN NotOf(b)
  ELSE IF IsZero(b) THEN NotOf(a)
  ELSE Keep

\* (Mutant: not-b for a constant 1 as first input loses its inversion.)
AndNotOutcomeWrong(a, b) ==
  IF a = b THEN ConstZero
  ELSE IF IsZero(a) THEN SameAs(zero_gate)
  ELSE IF IsZero(b) THEN SameAs(a)
  ELSE IF IsOne(a) THEN SameAs(b)
  ELSE IF IsOne(b) THEN ConstZero
  ELSE Keep

AndNotOutcome(a, b) ==
  IF a = b THEN ConstZero
  ELSE IF IsZero(a) THEN SameAs(zero_gate)
  ELSE IF IsZero(b) THEN SameAs(a)
  ELSE IF IsOne(a) THEN NotOf(b)
  ELSE IF IsOne(b) THEN ConstZero
  ELSE Keep

Outcome(t, a, b) ==
  CASE t = ZERO   -> NewZero
    [] t = ONE    -> NewOne
    [] t = XOR    -> XorOutcome(a, b)
    [] t = AND    -> AndOutcome(a, b)
    [] t = XNOR   -> XnorOutcome(a, b)
    [] t = ANDNOT -> AndNotOutcome(a, b)
    [] OTHER      -> Keep

-----------------------------------------------------------------------------
(* The loop of main_berkeley_db: each iteration reads the gate last + 1.    *)

Id == last + 1

Write(t, a, b) ==
  /\ binary' = binary \cup {Id}
  /\ nval' = [nval EXCEPT ![Id] = Apply(t, nval[a], nval[b])]

Drop == UNCHANGED <<binary, nval>>

\* (Mutant: the arguments are swapped.)
RemapSwapped(x) == newmap' = [newmap EXCEPT ![x] = Id]

\* map_file_print(id, x)
Remap(x) == newmap' = [newmap EXCEPT ![Id] = x]

\* A gate that is no output: rewritten inputs a, b and table t.
Rewrite(t, a, b) ==
  LET o == Outcome(t, a, b)
  IN  \/ /\ o.kind = "keep" /\ Write(t, a, b)
         /\ UNCHANGED <<zero_gate, one_gate, newmap, notmap>>
      \/ /\ o.kind = "zero" /\ Write(t, a, b)
         /\ zero_gate' = Id
         /\ UNCHANGED <<one_gate, newmap, notmap>>
      \/ /\ o.kind = "one" /\ Write(t, a, b)
         /\ one_gate' = Id
         /\ UNCHANGED <<zero_gate, newmap, notmap>>
      \/ /\ o.kind = "same" /\ Drop
         /\ Remap(o.to)
         /\ UNCHANGED <<zero_gate, one_gate, notmap>>
      \/ /\ o.kind = "not" /\ Drop
         /\ notmap' = [notmap EXCEPT ![Id] = o.to]
         /\ UNCHANGED <<zero_gate, one_gate, newmap>>

ReadGate(x, y, t) ==
  /\ Id <= MaxId
  /\ last' = Id
  /\ wval' = [wval EXCEPT ![Id] = Apply(t, wval[x], wval[y])]
  /\ Rewrite(NewTable(t, x, y), Base(x), Base(y))
  /\ UNCHANGED <<oldmap, outs, flipped>>

\* An output gate copies its one input.  The pass flips its table when the
\* input is an inverter, and write_binary_gate writes the identity whatever
\* the table.
ReadOutput(x) ==
  /\ Id <= MaxId
  /\ last' = Id
  /\ outs' = outs \cup {Id}
  /\ flipped' = IF Inverted(x) THEN flipped \cup {Id} ELSE flipped
  /\ wval' = [wval EXCEPT ![Id] = wval[x]]
  /\ nval' = [nval EXCEPT ![Id] = nval[Base(x)]]
  /\ UNCHANGED <<oldmap, newmap, notmap, zero_gate, one_gate, binary>>

\* The parser dropped the gate Id in favour of x (module RedundantGates): it
\* is not in the file read, but later gates may name it.
Redundant(x) ==
  /\ Id <= MaxId
  /\ oldmap[x] = x
  /\ last' = Id
  /\ oldmap' = [oldmap EXCEPT ![Id] = x]
  /\ wval' = [wval EXCEPT ![Id] = wval[x]]
  /\ UNCHANGED <<newmap, notmap, zero_gate, one_gate, binary, outs, flipped, nval>>

Next ==
  \/ \E x, y \in Readable, t \in Tables : ReadGate(x, y, t)
  \/ \E x \in Readable : ReadOutput(x)
  \/ \E x \in Readable : Redundant(x)

Spec == Init /\ [][Next]_vars

-----------------------------------------------------------------------------
(* Properties *)

\* Whatever wire of the circuit read a later gate may name, the maps lead in
\* one lookup each to a wire the new circuit has, and it carries the old
\* value, or its inverse just when the wire is in notmap.
Sound ==
  \A x \in Readable :
     /\ Base(x) \in binary
     /\ wval[x] = IF Inverted(x) THEN Not(nval[Base(x)]) ELSE nval[Base(x)]

\* An output gate yields what it yielded before the pass, unless the table
\* that undoes an inverter was lost in write_binary_gate.
OutputsRight == \A o \in outs \ flipped : nval[o] = wval[o]

\* No wire is mapped to itself or to a later one: the assertions ret <= id of
\* map_lookup and id > inputs[i] of read_binary_gate and write_binary_gate.
AssertsHold ==
  \A x \in 0..last : /\ newmap[x] <= x /\ notmap[x] <= x
                     /\ x \in Readable => Base(x) <= x
=============================================================================
