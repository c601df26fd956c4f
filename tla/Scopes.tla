------------------------------- MODULE Scopes -------------------------------
(***************************************************************************)
(* Conditionals in the compiler's front end (parser.y).  A circuit has no  *)
(* branches: both arms of an if are executed, each in a scope of its own,  *)
(* and at the end of an arm every variable assigned there is multiplexed   *)
(* with the enclosing scope's by the condition; of an array only the       *)
(* elements marked dirty.                                                  *)
(*                                                                         *)
(* The program is chosen statement by statement.  A wire is taken at the   *)
(* value it has for the inputs of one run, and beside the scopes goes an   *)
(* interpreter of the same program that executes the taken arms only.      *)
(* Functions and loops are left out.                                       *)
(***************************************************************************)
EXTENDS Bits, Sequences, SequencesExt

CONSTANTS
  Scalars, Arrays,     \* the names of the variables, all of the global scope
  Elements,            \* elements of an array, one bit each
  Assigned,            \* bound: the variables the program assigns
  MaxStmts,            \* bound on the statements, if, else and end included
  MaxDepth             \* bound on nested ifs

Names == Scalars \cup Arrays
Index == 1 .. Elements

ASSUME ScopesAssumption ==
  /\ {Elements, MaxStmts, MaxDepth} \subseteq Nat \ {0}
  /\ Scalars \cap Arrays = {} /\ Assigned \subseteq Names

VARIABLES
  stack,     \* symlist, then the scopes of st, the innermost last
  conds,     \* the open ifs: the variable asked, its wire, which arm is open
  env,       \* the interpreter's variables
  taken,     \* is the open arm of each open if the one to execute?
  stmts,     \* statements so far
  lost       \* ghost: what the program did that the multiplexers do not cope with

scopes_vars == <<stack, conds, env, taken, stmts, lost>>

Top   == Len(stack)
Clean == [i \in Index |-> FALSE]

\* A scalar is an array of one element that has no marks.
Value(n)  == IF n \in Arrays THEN [Index -> Bit] ELSE [{1} -> Bit]
Symbol(val, dirty_idx) == [val |-> val, dirty_idx |-> dirty_idx]

ScopesInit ==
  /\ env \in {e \in [Names -> [Index -> Bit] \cup [{1} -> Bit]] : \A n \in Names : e[n] \in Value(n)}
  /\ stack = << [n \in Names |-> Symbol(env[n], IF n \in Arrays THEN Clean ELSE << >>)] >>
  /\ conds = << >>
  /\ taken = << >>
  /\ stmts = 0
  /\ lost = {}

-----------------------------------------------------------------------------
(* The scopes                                                                *)

\* get, from scope k outward.
get(k, n) ==
  LET holds == {j \in 1 .. k : n \in DOMAIN stack[j]}
  IN  stack[CHOOSE j \in holds : \A i \in holds : i <= j][n]

\* What assign_ leaves in a scope.  A symbol that is there gets the marks, one
\* that is new gets all but the last, which stays what malloc returned.
Stored(scope, n, val, dirty_idx, junk) ==
  Symbol(val, IF n \in DOMAIN scope \/ n \in Scalars THEN dirty_idx
              ELSE [dirty_idx EXCEPT ![Elements] = junk])

\* A scope with the symbols of another put over it.
Over(new, scope) ==
  [n \in DOMAIN new \cup DOMAIN scope |-> IF n \in DOMAIN new THEN new[n] ELSE scope[n]]

\* assign_ in scope k of a stack.
assign_(st, k, n, val, dirty_idx, junk) ==
  [st EXCEPT ![k] = Over([m \in {n} |-> Stored(@, m, val, dirty_idx, junk)], @)]

\* No dirty indices in the top level scope, and none from a scalar.
Marks(k, n, dirty_idx) ==
  IF n \in Scalars THEN << >> ELSE IF k = 1 THEN Clean ELSE dirty_idx

\* XOR, AND, XOR.
Muxed(wire, new, old) == IF wire = 1 THEN new ELSE old

\* What scope k holds of n, brought into scope k - 1: of an array the marked
\* elements.  The marks there are the ones get finds, whatever k has marked.
Merged(k, n, wire) ==
  LET sym == get(k - 1, n)
      own == stack[k][n]
  IN  Symbol([i \in DOMAIN sym.val |->
                IF n \in Scalars \/ own.dirty_idx[i]
                THEN Muxed(wire, own.val[i], sym.val[i]) ELSE sym.val[i]],
             Marks(k - 1, n, sym.dirty_idx))

\* mux of the innermost scope into the one around it.  What it does with one
\* variable neither reads nor writes another.
mux(wire, junk) ==
  LET outer   == stack[Top - 1]
      Into(n) == LET m == Merged(Top, n, wire)
                 IN  Stored(outer, n, m.val, m.dirty_idx, junk[n])
  IN  [Front(stack) EXCEPT ![Top - 1] = Over([n \in DOMAIN stack[Top] |-> Into(n)], outer)]

\* The ghost's account of one mux: a mark of the innermost scope that the
\* scope around it (itself inside an if) does not have afterwards.
LostIn(st) ==
  IF Top > 2 /\ \E n \in DOMAIN stack[Top] \cap Arrays, i \in Index :
                  stack[Top][n].dirty_idx[i] /\ ~st[Top - 1][n].dirty_idx[i]
  THEN {"mark dropped"} ELSE {}

push_scope(st) == Append(st, << >>)

-----------------------------------------------------------------------------
(* Statements                                                                *)

Live == \A k \in DOMAIN taken : taken[k]

Counted == stmts < MaxStmts /\ stmts' = stmts + 1

\* The right side of an assignment to a bit is a variable: its value in the
\* compiler's scopes (variable_fetch_action), and the interpreter's.
Fetched(x) == get(Top, x).val[1]
Meant(x)   == env[x][1]

AssignScalar(n, x) ==
  /\ Counted
  /\ stack' = assign_(stack, Top, n, [i \in {1} |-> Fetched(x)], << >>, FALSE)
  /\ env' = IF Live THEN [env EXCEPT ![n] = [i \in {1} |-> Meant(x)]] ELSE env
  /\ UNCHANGED <<conds, taken, lost>>

\* A whole array: its marks are filled in, but in a variable of the inner block,
\* and what goes to assign_scope is 0.
AssignArray(n, from) ==
  /\ Counted
  /\ \E junk \in BOOLEAN :
       stack' = assign_(stack, Top, n, get(Top, from).val, Clean, junk)
  /\ env' = IF Live THEN [env EXCEPT ![n] = env[from]] ELSE env
  /\ lost' = IF Top > 1 THEN lost \cup {"whole array"} ELSE lost
  /\ UNCHANGED <<conds, taken>>

\* (Mutant: the element keeps the mark it had.)
MarkedNot(dirty_idx, i) == dirty_idx

Marked(dirty_idx, i) == [dirty_idx EXCEPT ![i] = TRUE]

AssignElement(n, i, x) ==
  /\ Counted
  /\ LET sym == get(Top, n)
         val == [sym.val EXCEPT ![i] = Fetched(x)]
         dirty_idx == Marks(Top, n, Marked(sym.dirty_idx, i))
     IN  \E junk \in BOOLEAN :
           LET st == assign_(stack, Top, n, val, dirty_idx, junk)
           IN  stack' = [st EXCEPT ![Top][n].dirty_idx = Marked(@, i)]
  /\ env' = IF Live THEN [env EXCEPT ![n][i] = Meant(x)] ELSE env
  /\ UNCHANGED <<conds, taken, lost>>

\* if_action, up to its body.
If(x) ==
  /\ Counted /\ Len(conds) < MaxDepth
  /\ conds' = Append(conds, [var |-> x, wire |-> Fetched(x), arm |-> "then"])
  /\ stack' = push_scope(stack)
  /\ taken' = Append(taken, env[x][1] = 1)
  /\ UNCHANGED <<env, lost>>

\* (Mutant: the condition of the else is not inverted.)
ElseWireSame(bit) == bit

\* XOR with the constant.
ElseWire(bit) == 1 - bit

\* The end of if_action, and else_action up to its body: the condition is
\* evaluated again, after the assignments of the first arm.
Else ==
  /\ Counted /\ conds # << >> /\ Last(conds).arm = "then"
  /\ \E junk \in [Arrays -> BOOLEAN] :
       LET st == mux(Last(conds).wire, junk)
           x  == Last(conds).var
           again == IF x \in DOMAIN stack[Top] THEN st[Top - 1][x] ELSE get(Top - 1, x)
       IN  /\ stack' = push_scope(st)
           /\ conds' = Append(Front(conds),
                              [var |-> x, wire |-> ElseWire(again.val[1]), arm |-> "else"])
           /\ lost' = lost \cup LostIn(st)
                      \cup IF x \in DOMAIN stack[Top] THEN {"condition assigned"} ELSE {}
  /\ taken' = [taken EXCEPT ![Len(taken)] = ~@]
  /\ UNCHANGED env

End ==
  /\ Counted /\ conds # << >>
  /\ \E junk \in [Arrays -> BOOLEAN] :
       LET st == mux(Last(conds).wire, junk)
       IN  stack' = st /\ lost' = lost \cup LostIn(st)
  /\ conds' = Front(conds)
  /\ taken' = Front(taken)
  /\ UNCHANGED env

ScopesNext ==
  \/ \E n \in Scalars \cap Assigned, x \in Scalars : AssignScalar(n, x)
  \/ \E n \in Arrays \cap Assigned, from \in Arrays : AssignArray(n, from)
  \/ \E n \in Arrays \cap Assigned, i \in Index, x \in Scalars : AssignElement(n, i, x)
  \/ \E x \in Scalars : If(x)
  \/ Else
  \/ End

ScopesSpec == ScopesInit /\ [][ScopesNext]_scopes_vars

-----------------------------------------------------------------------------
(* Properties                                                                *)

\* In an arm that is to be executed, and after it, every variable read from
\* the innermost scope has the value the program means (get after mux and
\* assign_scope), as long as the program has kept to what the multiplexers
\* cope with: no whole array assigned in an arm, no condition that the first
\* arm assigns before its else, no mark dropped on the way out of two ifs.
Reads == lost = {} /\ Live => \A n \in Names : get(Top, n).val = env[n]

\* mux copies the unmarked elements of an array from the enclosing scope: in
\* the arm they have to be what they are there (dirty_idx in assign_,
\* array_assign_action and mux, the mark that malloc leaves open included).
DirtySound ==
  lost = {} =>
    \A k \in 2 .. Top : \A n \in DOMAIN stack[k] \cap Arrays, i \in Index :
      ~stack[k][n].dirty_idx[i] => stack[k][n].val[i] = get(k - 1, n).val[i]
=============================================================================
