------------------------- MODULE ObliviousTransfer -------------------------
(***************************************************************************)
(* The 1-out-of-2 oblivious transfer of BetterYao and BetterYao2           *)
(* (oblivious_transfer, ot_init and ot_random): the sender ends up with    *)
(* two random keys, the receiver with the one its bit chooses.  A group    *)
(* element is its logarithm to one base.                                   *)
(***************************************************************************)
EXTENDS Exponents

\* g[1] = g[0]^y, h[0] = g[0]^a, h[1] = g[1]^(a+1).
Crs(g0, y, a) ==
  [g |-> [b \in {0, 1} |-> IF b = 0 THEN g0 ELSE (g0 * y) % Q],
   h |-> [b \in {0, 1} |-> IF b = 0 THEN (g0 * a) % Q ELSE (g0 * y * (a + 1)) % Q]]

\* Step 1, by the receiver with bit b: gr = g[b]^r, hr = h[b]^r.
Ask(crs, b, r) == [gr |-> (crs.g[b] * r) % Q, hr |-> (crs.h[b] * r) % Q]

\* Step 2, by the sender: X[b] = (g[b]^s[b]) * (h[b]^t[b]) and
\* Y[b] = (gr^s[b]) * (hr^t[b]) * K[b] for both b.
Answer(crs, ask, K, s, t) ==
  [X |-> [b \in {0, 1} |-> (crs.g[b] * s[b] + crs.h[b] * t[b]) % Q],
   Y |-> [b \in {0, 1} |-> (ask.gr * s[b] + ask.hr * t[b] + K[b]) % Q]]

\* Step 3, by the receiver: K = Y[b]/X[b]^r.
Learn(answer, b, r) == (answer.Y[b] - answer.X[b] * r) % Q
=============================================================================
