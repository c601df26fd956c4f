----------------------------- MODULE DeadGates -----------------------------
(***************************************************************************)
(* The third pass of the compiler, main of deadgates.cpp.  It reads the    *)
(* gate file backward and marks the wires that lead to an output, numbers  *)
(* the marked gates from the first id after the inputs on, and reads the   *)
(* file forward to emit them under their new numbers.                      *)
(*                                                                         *)
(* All wire lookups go through map_lookup.  With the flat file or the      *)
(* memory map as the store, every map has storage of its own.  With        *)
(* Berkeley DB the new numbers are put into the old map, as map_file is,   *)
(* and newmap stays empty: read_binary_gate finds them there, and as the   *)
(* old map has no other entry for a wire of this file, an input is given   *)
(* its new number once, as with two maps.  These stores are "file".  With  *)
(* store type 2 ("stl") there is one cache, glob_map of util.cpp, that the *)
(* lookups of all maps share.                                              *)
(***************************************************************************)
EXTENDS CompilerGates, Sequences, FiniteSets

CONSTANTS InpCnt,            \* lines of the .inputs file
          MaxId,
          StoreTypes,        \* of "file" and "stl"
          Files(_),          \* the gate files IdentityGates may leave, by store
          MaxMapItems        \* max_map_items: where the cache is cleared

Ids    == 0..MaxId
Inputs == 0..(InpCnt - 1)

\* party is whose an output is: 0 the generator's, 1 the evaluator's.
Gate == [id : Ids, x : Ids, y : Ids, table : Table, output : BOOLEAN, party : {0, 1}]

\* Ids ascend, and a gate reads inputs and earlier gates that are no outputs.
WellFormed(f) ==
  /\ f \in Seq(Gate)
  /\ \A i \in 1..Len(f) :
        LET before == Inputs \cup {f[j].id : j \in {k \in 1..(i - 1) : ~f[k].output}}
        IN  /\ f[i].id \notin Inputs
            /\ \A j \in 1..(i - 1) : f[j].id < f[i].id
            /\ {f[i].x, f[i].y} \subseteq before
            /\ f[i].output => f[i].y = 0

ASSUME FilesAssumption ==
  /\ InpCnt \in Nat \ {0} /\ MaxId \in Nat
  /\ StoreTypes \subseteq {"file", "stl"}
  /\ \A t \in StoreTypes : \A f \in Files(t) : WellFormed(f) /\ f # << >>

VARIABLES
  store_type,
  pc,                        \* "mark", "number", "emit", "done", "aborted"
  file,                      \* the gates read, rep_size of them
  next_id,                   \* the next gate to mark (from the end), 0: none
  pos,                       \* gates already read forward
  live, one_out,
  circuit_size,              \* highest id plus one
  newmap,                    \* the new numbers
  cache,                     \* glob_map: pairs <<wire, number>>
  misled,                    \* has the cache answered for the other map?
  cnt,                       \* the last number given to an emitted gate
  out_file

vars == <<store_type, pc, file, next_id, pos, live, one_out, circuit_size, newmap, cache, misled, cnt, out_file>>

\* input_cnt as compile-circuit.sh computes it: the last input wire.
input_cnt == InpCnt - 1

Init ==
  /\ store_type \in StoreTypes
  /\ pc = "mark"
  /\ file \in Files(store_type)
  /\ next_id = Len(file)
  /\ pos = 0
  /\ live = {}
  /\ one_out = FALSE
  /\ circuit_size = 0
  /\ newmap = Unmapped(Ids)
  /\ cache = {}
  /\ misled = FALSE
  /\ cnt = input_cnt
  /\ out_file = << >>

-----------------------------------------------------------------------------
(* Marking, from the last gate to the first                                 *)

Needed(g) == g.output \/ g.id \in live

\* (Mutant: the second input of a gate is not marked.)
MarkTargetFirst(g) == {g.id, g.x}

MarkTarget(g) == {g.id, g.x, g.y}

MarkGate ==
  /\ pc = "mark" /\ next_id > 0
  /\ LET g == file[next_id]
     IN  /\ circuit_size' = IF circuit_size = 0 THEN g.id + 1 ELSE circuit_size
         /\ IF Needed(g)
            THEN /\ live' = live \cup MarkTarget(g)
                 /\ one_out' = (one_out \/ g.output)
                 /\ pc' = pc
            ELSE \* assert(one_out != 0)
                 /\ pc' = IF one_out THEN pc ELSE "aborted"
                 /\ UNCHANGED <<live, one_out>>
  /\ next_id' = next_id - 1
  /\ UNCHANGED <<store_type, file, pos, newmap, cache, misled, cnt, out_file>>

MarkDone ==
  /\ pc = "mark" /\ next_id = 0
  /\ pc' = "number"
  /\ UNCHANGED <<store_type, file, next_id, pos, live, one_out, circuit_size, newmap, cache, misled, cnt, out_file>>

-----------------------------------------------------------------------------
(* Numbering: live ids in ascending order, from input_cnt + 1               *)

Numbered == {q \in live : input_cnt < q /\ q < circuit_size}

\* (Mutant: numbers start one too late.)
NumberOfLate(q) == input_cnt + Cardinality({r \in Numbered : r <= q}) + 1

NumberOf(q) == input_cnt + Cardinality({r \in Numbered : r <= q})

Number ==
  /\ pc = "number"
  /\ newmap' = [q \in Ids |-> IF q \in Numbered THEN NumberOf(q) ELSE q]
  /\ pc' = "emit"
  /\ UNCHANGED <<store_type, file, next_id, pos, live, one_out, circuit_size, cache, misled, cnt, out_file>>

-----------------------------------------------------------------------------
(* Emission                                                                 *)

Cached(c, x) == {e[2] : e \in {p \in c : p[1] = x}}

\* map_lookup(x) in map m with cache c: the wire found and the cache after.
\* Only entries that are in the file m get into the cache.
Lookup(m, written, c, x) ==
  IF store_type = "file" THEN [to |-> m[x], cache |-> c]
  ELSE IF Cached(c, x) # {} THEN [to |-> CHOOSE y \in Cached(c, x) : TRUE, cache |-> c]
  ELSE IF x \notin written THEN [to |-> x, cache |-> c]
  ELSE [to |-> m[x],
        cache |-> (IF Cardinality(c) = MaxMapItems THEN {} ELSE c) \cup {<<x, m[x]>>}]

\* read_binary_gate looks an input up in the map of IdentityGates, in which no
\* wire of this file is mapped, and the loop looks it up in newmap.
OldWire(c, x)  == Lookup(Unmapped(Ids), {}, c, x)
NewNumber(c, x) == Lookup(newmap, Numbered, c, x)

\* (Mutant: dead gates are written too.)
KeptAll(g) == TRUE

Kept(g) == g.id \in live

EmitGate ==
  /\ pc = "emit" /\ pos < Len(file)
  /\ LET g  == file[pos + 1]
         r0 == OldWire(cache, g.x)
         r1 == IF g.output THEN [to |-> 0, cache |-> r0.cache] ELSE OldWire(r0.cache, g.y)
         n0 == NewNumber(r1.cache, r0.to)
         n1 == NewNumber(n0.cache, r1.to)
         x  == IF n0.to # 0 THEN n0.to ELSE r0.to
         y  == IF n1.to # 0 THEN n1.to ELSE r1.to
     IN  /\ misled' = (misled \/ r0.to # g.x \/ (~g.output /\ r1.to # g.y))
         /\ IF Kept(g)
            THEN /\ cnt' = cnt + 1
                 /\ cache' = n1.cache
                 /\ IF g.id > y /\ cnt + 1 > y
                    THEN /\ out_file' =
                              Append(out_file, [g EXCEPT !.id = cnt + 1, !.x = x, !.y = y])
                         /\ pc' = pc
                    ELSE /\ pc' = "aborted"
                         /\ UNCHANGED out_file
            ELSE /\ cache' = r1.cache
                 /\ pc' = IF g.output THEN "aborted" ELSE pc
                 /\ UNCHANGED <<cnt, out_file>>
  /\ pos' = pos + 1
  /\ UNCHANGED <<store_type, file, next_id, live, one_out, circuit_size, newmap>>

EmitDone ==
  /\ pc = "emit" /\ pos = Len(file)
  /\ pc' = "done"
  /\ UNCHANGED <<store_type, file, next_id, pos, live, one_out, circuit_size, newmap, cache, misled, cnt, out_file>>

Next == MarkGate \/ MarkDone \/ Number \/ EmitGate \/ EmitDone

Spec == Init /\ [][Next]_vars

-----------------------------------------------------------------------------
(* Properties *)

\* A gate's id is its position behind the inputs, which is how the runtime
\* finds the wire a gate reads; so the emission, which counts, agrees with the
\* numbering, which ranks.
Renumbered ==
  /\ \A k \in 1..Len(out_file) : out_file[k].id = input_cnt + k
  /\ pc = "done" =>
        \A k \in 1..Len(out_file) :
           {out_file[k].x, out_file[k].y} \subseteq 0..(input_cnt + k - 1)

\* Only gates that lead to an output are left: what is emitted and is no output
\* is read by a gate emitted.
OnlyLive ==
  pc = "done" =>
     \A k \in 1..Len(out_file) :
        out_file[k].output \/ \E j \in 1..Len(out_file) :
                                 out_file[k].id \in {out_file[j].x, out_file[j].y}
=============================================================================
