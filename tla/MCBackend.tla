----------------------------- MODULE MCBackend -----------------------------
(* Files of four gates behind two inputs, with one id of 2..6 left out as if *)
(* an earlier pass had removed that gate: one input of each party, gates of  *)
(* a symmetric and of an asymmetric table, outputs of either party.  With    *)
(* the cache as the store, the files whose first gate reads both inputs.     *)
EXTENDS Backend

MCInputParty == <<1, 0>>

OutputsAt(i) ==
  [id : {i}, x : 0..(i - 1), y : {0}, table : {AND}, output : {TRUE}, party : {i % 2}]

\* The smaller input of a symmetric gate comes first.
GatesAt(i) ==
  {g \in [id : {i}, x : 0..(i - 1), y : 0..(i - 1),
          table : {IF i % 2 = 0 THEN XOR ELSE ANDNOT}, output : {FALSE}, party : {0}]
     : g.table = XOR => g.x <= g.y}
  \cup OutputsAt(i)

\* Files that end with an output gate, and files of a program that goes on
\* after its only output.
FilesWellFormed ==
  {f \in UNION {GatesAt(ids[1]) \X GatesAt(ids[2]) \X GatesAt(ids[3]) \X OutputsAt(6) :
                ids \in {<<3, 4, 5>>, <<2, 3, 4>>}}
          \cup GatesAt(2) \X OutputsAt(3) \X GatesAt(4)
    : WellFormed(f)}

\* A file whose fourth gate is misled by the cache to an output gate, twice.
MCMisled ==
  LET In(i, x, y) == [id |-> i, x |-> x, y |-> y, table |-> AND, output |-> FALSE, party |-> 0]
      Out(i, x)   == [id |-> i, x |-> x, y |-> 0, table |-> AND, output |-> TRUE, party |-> 0]
  IN  <<Out(3, 0), In(4, 0, 1), Out(5, 4), In(6, 4, 4), Out(7, 6)>>

MCFiles(t) ==
  IF t = "stl" THEN {f \in FilesWellFormed : f[1].x = 0 /\ f[1].y = 1} \cup {MCMisled}
  ELSE FilesWellFormed
=============================================================================
