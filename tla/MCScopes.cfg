SPECIFICATION ScopesSpec
CONSTANTS
  Scalars = {flag, both}
  Arrays = {arr, src}
  Elements = 2
  Assigned = {both, arr}
  MaxStmts = 6
  MaxDepth = 2
  flag = flag
  both = both
  arr = arr
  src = src
INVARIANTS
  Reads
  DirtySound
\* The program ends at the bound.
CHECK_DEADLOCK FALSE
