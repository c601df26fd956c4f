--------------------------- MODULE RedundantGates ---------------------------
(***************************************************************************)
(* What the parser does with the gates it generates, add_gate and          *)
(* remove_redundant_gates of compiler/gate.c: constants after the first    *)
(* are dropped at once; the other gates wait in a list until it holds      *)
(* "window" of them, then those that repeat an earlier gate of the list    *)
(* are dropped and the rest is printed.  A dropped gate gets an entry in   *)
(* the map file, which the next pass looks up once for every input         *)
(* (IdentityGates, action Redundant); the gates printed still name the     *)
(* dropped wires.                                                          *)
(*                                                                         *)
(* As in IdentityGates, wval holds the value of every wire for the input   *)
(* chosen in Init.                                                         *)
(***************************************************************************)
EXTENDS CompilerGates, Sequences, SequencesExt

CONSTANTS InpCnt, Tables, MaxId,
          Window,            \* window_size of parser.y
          Pairs              \* the pairs of wires the program's gates read

ASSUME SizeAssumption ==
  /\ InpCnt \in Nat \ {0}
  /\ MaxId \in Nat
  /\ InpCnt <= MaxId
  /\ Tables \subseteq Table
  /\ Window \in Nat \ {0}
  /\ Pairs \subseteq (0..MaxId) \X (0..MaxId)

Ids    == 0..MaxId
Inputs == 0..(InpCnt - 1)

Gate == [id : Ids, x : Ids, y : Ids, table : Table, output : BOOLEAN]

VARIABLES
  pc,                        \* "parse", "scan" a full list, "last" scan, "done"
  next_gate,                 \* the last id given out
  zero_gate, one_gate,
  list,                      \* circuit .. last, of length cursize
  cur, out_id,               \* position and "id" in remove_redundant_gates
  htab,                      \* gates of the list seen there
  mtab,                      \* its own copy of the map entries
  map,                       \* the map file
  printed,                   \* the ids in the gate file, in order
  outs,                      \* the output gates
  wval

vars == <<pc, next_gate, zero_gate, one_gate, list, cur, out_id, htab, mtab, map,
          printed, outs, wval>>

Readable == (0..next_gate) \ outs

Init ==
  /\ pc = "parse"
  /\ next_gate = InpCnt - 1
  /\ zero_gate = 0 /\ one_gate = 0
  /\ list = << >>
  /\ cur = 0 /\ out_id = 0
  /\ htab = {}
  /\ mtab = Unmapped(Ids)
  /\ map = Unmapped(Ids)
  /\ printed = << >>
  /\ outs = {}
  /\ \E v \in [Inputs -> Bit] :
        wval = [x \in Ids |-> IF x \in Inputs THEN v[x] ELSE 0]

-----------------------------------------------------------------------------
(* add_gate                                                                 *)

Id == next_gate + 1

\* remove_redundant_gates starts at the first gate of the list, which it
\* neither enters into htab nor drops, with fresh tables.
StartScan(l, how) ==
  /\ pc' = how
  /\ cur' = 1
  /\ out_id' = l[1].id
  /\ htab' = {}
  /\ mtab' = Unmapped(Ids)

Append2List(g) ==
  /\ list' = Append(list, g)
  /\ IF Len(list') >= Window THEN StartScan(list', "scan")
                             ELSE UNCHANGED <<pc, cur, out_id, htab, mtab>>

\* A constant gate after the first of its kind.
AddConstant(x, y, t) ==
  /\ pc = "parse" /\ Id <= MaxId
  /\ \/ t = ONE /\ one_gate # 0 /\ map' = [map EXCEPT ![Id] = one_gate]
     \/ t = ZERO /\ zero_gate # 0 /\ map' = [map EXCEPT ![Id] = zero_gate]
  /\ next_gate' = Id
  /\ wval' = [wval EXCEPT ![Id] = Apply(t, wval[x], wval[y])]
  /\ UNCHANGED <<pc, zero_gate, one_gate, list, cur, out_id, htab, mtab, printed, outs>>

AddGate(x, y, t) ==
  /\ pc = "parse" /\ Id <= MaxId
  /\ t = ONE => one_gate = 0
  /\ t = ZERO => zero_gate = 0
  /\ one_gate' = IF t = ONE THEN Id ELSE one_gate
  /\ zero_gate' = IF t = ZERO THEN Id ELSE zero_gate
  /\ next_gate' = Id
  /\ wval' = [wval EXCEPT ![Id] = Apply(t, wval[x], wval[y])]
  /\ Append2List([id |-> Id, x |-> x, y |-> y, table |-> t, output |-> FALSE])
  /\ UNCHANGED <<map, printed, outs>>

AddOutput(x) ==
  /\ pc = "parse" /\ Id <= MaxId
  /\ next_gate' = Id
  /\ outs' = outs \cup {Id}
  /\ wval' = [wval EXCEPT ![Id] = wval[x]]
  /\ Append2List([id |-> Id, x |-> x, y |-> 0, table |-> AND, output |-> TRUE])
  /\ UNCHANGED <<zero_gate, one_gate, map, printed>>

\* (Mutant: the last window is not printed.)
EndOfInputUnprinted ==
  /\ pc = "parse"
  /\ pc' = "done"
  /\ UNCHANGED <<next_gate, zero_gate, one_gate, list, cur, out_id, htab, mtab, map,
                 printed, outs, wval>>

\* The end of main: one more scan over what is left in the list.
EndOfInput ==
  /\ pc = "parse"
  /\ IF list = << >> THEN pc' = "done" /\ UNCHANGED <<cur, out_id, htab, mtab>>
                     ELSE StartScan(list, "last")
  /\ UNCHANGED <<next_gate, zero_gate, one_gate, list, map, printed, outs, wval>>

-----------------------------------------------------------------------------
(* remove_redundant_gates, one turn of its loop per step: tmp is the gate   *)
(* after cur.                                                               *)

Scanning == pc \in {"scan", "last"} /\ cur < Len(list)
Tmp == list[cur + 1]

\* (Mutant: gates are compared by their inputs only.)
SameDescNoTable(g, h) == mtab[g.x] = h.x /\ mtab[g.y] = h.y

\* gate_desc: the inputs as far as this list has remapped them, and the table.
SameDesc(g, h) == mtab[g.x] = h.x /\ mtab[g.y] = h.y /\ g.table = h.table

\* Output gates are kept; mtab gets an entry of no meaning.
ScanOutput ==
  /\ Scanning /\ Tmp.output
  /\ cur' = cur + 1
  /\ out_id' = out_id + 1
  /\ mtab' = [mtab EXCEPT ![Tmp.id] = out_id']
  /\ UNCHANGED <<pc, next_gate, zero_gate, one_gate, list, htab, map, printed, outs, wval>>

ScanNew ==
  /\ Scanning /\ ~Tmp.output
  /\ \A h \in htab : ~SameDesc(Tmp, h)
  /\ htab' = htab \cup {[Tmp EXCEPT !.x = mtab[Tmp.x], !.y = mtab[Tmp.y]]}
  /\ cur' = cur + 1
  /\ UNCHANGED <<pc, next_gate, zero_gate, one_gate, list, out_id, mtab, map, printed,
                 outs, wval>>

\* (Mutant: a map entry leads to the gate met last, which may be dropped too.)
ScanRedundantLatest ==
  /\ Scanning /\ ~Tmp.output
  /\ \E h \in htab :
        /\ SameDesc(Tmp, h)
        /\ map' = [map EXCEPT ![Tmp.id] = h.id]
        /\ mtab' = [mtab EXCEPT ![Tmp.id] = h.id]
        /\ htab' = (htab \ {h}) \cup {[h EXCEPT !.id = Tmp.id]}
  /\ list' = RemoveAt(list, cur + 1)
  /\ UNCHANGED <<pc, next_gate, zero_gate, one_gate, cur, out_id, printed, outs, wval>>

ScanRedundant ==
  /\ Scanning /\ ~Tmp.output
  /\ \E h \in htab :
        /\ SameDesc(Tmp, h)
        /\ map' = [map EXCEPT ![Tmp.id] = h.id]
        /\ mtab' = [mtab EXCEPT ![Tmp.id] = h.id]
  /\ list' = RemoveAt(list, cur + 1)
  /\ UNCHANGED <<pc, next_gate, zero_gate, one_gate, cur, out_id, htab, printed, outs, wval>>

\* (Mutant: the list is printed backwards.)
IdsReversed(l) == [i \in 1..Len(l) |-> l[Len(l) + 1 - i].id]

IdsOf(l) == [i \in 1..Len(l) |-> l[i].id]

\* The scan is over: print_gate_list, and the tables are destroyed.
PrintList ==
  /\ pc \in {"scan", "last"} /\ cur >= Len(list)
  /\ printed' = printed \o IdsOf(list)
  /\ list' = << >>
  /\ pc' = IF pc = "last" THEN "done" ELSE "parse"
  /\ cur' = 0 /\ out_id' = 0
  /\ htab' = {}
  /\ mtab' = Unmapped(Ids)
  /\ UNCHANGED <<next_gate, zero_gate, one_gate, map, outs, wval>>

Next ==
  \/ \E p \in Pairs \cap (Readable \X Readable), t \in Tables :
        AddGate(p[1], p[2], t) \/ AddConstant(p[1], p[2], t)
  \/ \E x \in Readable : AddOutput(x)
  \/ EndOfInput
  \/ ScanOutput \/ ScanNew \/ ScanRedundant
  \/ PrintList

Spec == Init /\ [][Next]_vars

-----------------------------------------------------------------------------
(* Properties *)

\* A wire is only ever replaced by one of the same value, for any input.
MapSound == \A x \in Readable : wval[map[x]] = wval[x]

\* The next pass looks a wire up once: what a wire is mapped to is not mapped
\* itself, although the scans of several windows and the constants of add_gate
\* all write to the map.
OneLookup == \A x \in Readable : map[map[x]] = map[x]

\* No gate gets lost: every wire leads to an input, a gate printed, or one that
\* still is in the list.
Resolves ==
  \A x \in Readable :
     \/ map[x] \in Inputs \cup ToSet(printed)
     \/ pc # "done" /\ map[x] \in ToSet(IdsOf(list))

\* The file lists the gates in the order of their ids, as the numbering of the
\* pass over dead gates needs.
InOrder == \A i, j \in 1..Len(printed) : i < j => printed[i] < printed[j]
=============================================================================
