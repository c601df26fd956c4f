-------------------------- MODULE ExponentsProofs --------------------------
(***************************************************************************)
(* What rests on the arithmetic of the group, for groups of every order:   *)
(* what the receiver of an oblivious transfer ends up with, and what the   *)
(* evaluator rebuilds of the generator's input in the consistency check,   *)
(* for any number of nodes, circuits and inputs.  The provers are told     *)
(* each step of a computation modulo Q.                                    *)
(***************************************************************************)
EXTENDS ObliviousTransfer, Consistency, FiniteSetTheorems, SequenceTheorems, TLAPS

(***************************************************************************)
(* Remainders.                                                             *)
(***************************************************************************)

\* A remainder differs from its number by a multiple of Q.
LEMMA Remainder ==
  ASSUME NEW x \in Int
  PROVE  /\ x % Q \in 0 .. Q - 1
         /\ \E k \in Int : x % Q = x - k * Q
<1>1. x % Q \in 0 .. Q - 1
  BY OrderAssumption
<1>2. x \div Q \in Int /\ x = Q * (x \div Q) + (x % Q)
  BY OrderAssumption
<1>3. x % Q = x - (x \div Q) * Q
  BY <1>1, <1>2, OrderAssumption
<1> QED
  BY <1>1, <1>2, <1>3

\* A number that differs from one below Q by a multiple of Q has it as its
\* remainder.
LEMMA RemainderOf ==
  ASSUME NEW k \in 0 .. Q - 1, NEW c \in Int
  PROVE  (k + c * Q) % Q = k
<1> DEFINE z == k + c * Q
<1>1. k \in Int /\ 0 <= k /\ k < Q /\ Q \in Int /\ Q > 0
  BY OrderAssumption
<1>2. z \in Int
  BY <1>1
<1>3. /\ z % Q \in Int /\ 0 <= z % Q /\ z % Q < Q
      /\ z \div Q \in Int /\ z = Q * (z \div Q) + (z % Q)
  BY <1>1, <1>2
<1>4. ASSUME NEW d \in Int, NEW e \in Int, 0 <= e, e < Q, k + c * Q = Q * d + e
      PROVE  e = k
  BY <1>1, <1>4, Z3
<1>5. k + c * Q = Q * (z \div Q) + (z % Q)
  BY <1>3
<1> HIDE DEF z
<1>6. z % Q = k
  BY <1>3, <1>4, <1>5
<1> QED
  BY <1>6 DEF z

(***************************************************************************)
(* Oblivious transfer.                                                     *)
(***************************************************************************)

\* Y/X^r for the messages made from one element of g and one of h.
Received(g, h, r, s, t, K) ==
  (((((g * r) % Q) * s + ((h * r) % Q) * t + K) % Q) - ((g * s + h * t) % Q) * r) % Q

\* Dividing X^r out of Y leaves the key: gr^s * hr^t and (g^s * h^t)^r are the
\* same element.
LEMMA Cancels ==
  ASSUME NEW g \in Int, NEW h \in Int, NEW r \in Int, NEW s \in Int, NEW t \in Int,
         NEW K \in 0 .. Q - 1
  PROVE  Received(g, h, r, s, t, K) = K
<1> DEFINE gr == (g * r) % Q
           hr == (h * r) % Q
           Y  == (gr * s + hr * t + K) % Q
           X  == (g * s + h * t) % Q
<1>1. Q \in Int /\ K \in Int
  BY OrderAssumption
<1>2. g * r \in Int /\ h * r \in Int /\ g * s + h * t \in Int
  OBVIOUS
<1>3. PICK k1 \in Int : gr = g * r - k1 * Q
  BY <1>2, Remainder
<1>4. PICK k2 \in Int : hr = h * r - k2 * Q
  BY <1>2, Remainder
<1>5. gr \in Int /\ hr \in Int
  BY <1>2, Remainder
<1> HIDE DEF gr, hr
<1> DEFINE sumY == gr * s + hr * t + K
           sumX == g * s + h * t
<1>6. sumY \in Int /\ sumX \in Int
  BY <1>1, <1>2, <1>5
<1> HIDE DEF sumY, sumX
<1>7. PICK k3 \in Int : sumY % Q = sumY - k3 * Q
  BY <1>6, Remainder
<1>8. PICK k4 \in Int : sumX % Q = sumX - k4 * Q
  BY <1>6, Remainder
<1> USE DEF sumY, sumX
<1>9. Y = gr * s + hr * t + K - k3 * Q
  BY <1>1, <1>5, <1>6, <1>7
<1>10. X = g * s + h * t - k4 * Q
  BY <1>1, <1>2, <1>6, <1>8
<1>11. Y \in Int /\ X \in Int
  BY <1>6, Remainder
<1> DEFINE c == k4 * r - k1 * s - k2 * t - k3
<1>12. c \in Int
  OBVIOUS
<1> HIDE DEF X, Y
<1>13. gr * s = g * r * s - k1 * s * Q /\ hr * t = h * r * t - k2 * t * Q
  BY <1>1, <1>3, <1>4
<1>14. X * r = g * r * s + h * r * t - k4 * r * Q
  BY <1>1, <1>10
<1>15. c * Q = k4 * r * Q - k1 * s * Q - k2 * t * Q - k3 * Q
  BY <1>1
<1>16. Y - X * r = K + c * Q
  BY <1>1, <1>5, <1>9, <1>11, <1>12, <1>13, <1>14, <1>15
<1>17. (Y - X * r) % Q = K
  BY <1>12, <1>16, RemainderOf
<1> QED
  BY <1>17 DEF Received, X, Y, gr, hr

\* One transfer gives the receiver the key its bit chooses: oblivious_transfer
\* and ot_random for every order of the group, every CRS, bit and exponent, and
\* every pair of keys.
THEOREM ReceiverGetsChosenKey ==
  ASSUME NEW g0 \in Int, NEW y \in Int, NEW a \in Int,
         NEW b \in {0, 1}, NEW r \in Int,
         NEW K \in [{0, 1} -> 0 .. Q - 1],
         NEW s \in [{0, 1} -> Int], NEW t \in [{0, 1} -> Int]
  PROVE  Learn(Answer(Crs(g0, y, a), Ask(Crs(g0, y, a), b, r), K, s, t), b, r) = K[b]
<1> DEFINE crs == Crs(g0, y, a)
<1>1. crs.g[b] \in Int /\ crs.h[b] \in Int
  <2>1. /\ g0 \in Int /\ g0 * y \in Int /\ g0 * a \in Int /\ g0 * y * (a + 1) \in Int
    OBVIOUS
  <2>2. (g0 * y) % Q \in Int /\ (g0 * a) % Q \in Int /\ (g0 * y * (a + 1)) % Q \in Int
    BY <2>1, Remainder
  <2> QED
    BY <2>1, <2>2 DEF Crs
<1> HIDE DEF crs
<1>2. s[b] \in Int /\ t[b] \in Int /\ K[b] \in 0 .. Q - 1
  OBVIOUS
<1>3. Ask(crs, b, r).gr = (crs.g[b] * r) % Q /\ Ask(crs, b, r).hr = (crs.h[b] * r) % Q
  BY DEF Ask
<1> DEFINE answer == Answer(crs, Ask(crs, b, r), K, s, t)
<1>4. /\ answer.X[b] = (crs.g[b] * s[b] + crs.h[b] * t[b]) % Q
      /\ answer.Y[b] = (((crs.g[b] * r) % Q) * s[b] + ((crs.h[b] * r) % Q) * t[b] + K[b]) % Q
  BY <1>3 DEF Answer
<1> HIDE DEF answer
<1>5. (answer.Y[b] - answer.X[b] * r) % Q = K[b]
  <2>1. Received(crs.g[b], crs.h[b], r, s[b], t[b], K[b]) = K[b]
    <3> DEFINE g == crs.g[b]
               h == crs.h[b]
    <3>1. g \in Int /\ h \in Int
      BY <1>1
    <3> HIDE DEF g, h
    <3>2. \A sb, tb \in Int : \A key \in 0 .. Q - 1 : Received(g, h, r, sb, tb, key) = key
      BY <3>1, Cancels
    <3>3. Received(g, h, r, s[b], t[b], K[b]) = K[b]
      BY <1>2, <3>2
    <3> QED
      BY <3>3 DEF g, h
  <2> QED
    BY <1>4, <2>1 DEF Received
<1> QED
  BY <1>5 DEF Learn, answer, crs

(***************************************************************************)
(* The consistency check: the inductive invariant.                         *)
(***************************************************************************)

\* The roots' broadcasts.
Exponents0 == [j \in Inp |-> m(0, 0, j)]
Elements0  == [j \in Inp |-> Committed(0, 0, j)]

\* A node's evaluation-circuits, and those before a circuit.
EvlsOf(d)    == Cardinality(Evls(d))
Before(d, i) == Cardinality({o \in Evls(d) : o < i})

\* The exponents generator d gives away, once it has the root's.
DiffsOf(d) ==
  [n \in 1 .. InpCnt * EvlsOf(d) |->
     LET i == EvlAt(d, (n - 1) % EvlsOf(d))
         j == 1 + (n - 1) \div EvlsOf(d)
     IN  (m(d, i, j) - Exponents0[j]) % Q]

Types ==
  /\ gen_inp \in [Inp -> {0, 1}] /\ m_chks \in [Node -> [Cct -> {0, 1}]] /\ seed \in Seeds
  /\ gpc \in [Node -> {"give", "bcast", "diffs", "done"}]
  /\ epc \in [Node -> {"take", "bcast", "diffs", "loop", "done"}]
  /\ DOMAIN chan = Node /\ DOMAIN chunks = Node
  /\ jx \in [Node -> Nat] /\ ix \in [Node -> Cct] /\ kx \in [Node -> Nat]
  /\ m_M \in [Node -> [Cct -> Seq(Group)]]

\* Who is where, and what the roots have handed to their clusters by then.
Clusters ==
  /\ gbuf \in {Unset, Exponents0} /\ ebuf \in {Unset, Elements0}
  /\ \A d \in Node :
       /\ gpc[d] \in {"diffs", "done"} => gbuf = Exponents0
       /\ epc[d] \in {"diffs", "loop", "done"} => ebuf = Elements0
       /\ gpc[d] = "give" => d = 0 /\ epc[d] = "take"
       /\ epc[d] = "take" => d = 0

\* What is under way to an evaluator is what its generator has sent and it has
\* not taken.
Flow ==
  \A d \in Node :
    /\ epc[d] = "take" =>
         /\ gpc[d] = "give" => chan[d] = << >>
         /\ gpc[d] \in {"bcast", "diffs"} => chan[d] = <<Elements0>>
         /\ gpc[d] = "done" => chan[d] = <<Elements0, DiffsOf(d)>>
    /\ epc[d] \in {"bcast", "diffs"} =>
         chan[d] = IF gpc[d] = "done" THEN <<DiffsOf(d)>> ELSE << >>
    /\ epc[d] \in {"loop", "done"} => gpc[d] = "done" /\ chunks[d] = DiffsOf(d)

\* The evaluator's three counters keep step, although it goes through all the
\* circuits and takes an exponent for some.
Counters ==
  \A d \in Node :
    /\ epc[d] \in {"take", "bcast", "diffs"} => jx[d] = 1 /\ ix[d] = 0
    /\ epc[d] # "done" =>
         /\ jx[d] \in Inp
         /\ kx[d] = (jx[d] - 1) * EvlsOf(d) + Before(d, ix[d]) + 1
         /\ \A i \in Evls(d) : Len(m_M[d][i]) = IF i < ix[d] THEN jx[d] ELSE jx[d] - 1
    /\ epc[d] = "done" =>
         /\ kx[d] = InpCnt * EvlsOf(d) + 1
         /\ \A i \in Evls(d) : Len(m_M[d][i]) = InpCnt

IInv == Types /\ Clusters /\ Flow /\ Counters /\ Rebuilt

(***************************************************************************)
(* Where an exponent is among those of a node, and what it yields.         *)
(***************************************************************************)

\* The h^(a-b) * h^b of the consistency check is h^a.
LEMMA Restored ==
  ASSUME NEW a \in Z, NEW b \in Z
  PROVE  ((((a - b) % Q) % Q) + (b % Q)) % Q = a /\ (a - b) % Q \in Z
<1> DEFINE x == (a - b) % Q
<1>1. Q \in Nat \ {0} /\ a \in 0 .. Q - 1 /\ b \in 0 .. Q - 1
  BY OrderAssumption DEF Z
<1>2. a - b \in Int
  BY <1>1
<1>3. PICK k \in Int : x = (a - b) - k * Q
  BY <1>2, Remainder
<1>4. x \in 0 .. Q - 1
  BY <1>2, Remainder
<1> HIDE DEF x
<1>5. x % Q = x /\ b % Q = b
  BY <1>1, <1>4
<1>6. x + b = a + (-k) * Q
  BY <1>1, <1>3, <1>4
<1>7. (x + b) % Q = a
  BY <1>1, <1>6, RemainderOf
<1> QED
  BY <1>4, <1>5, <1>7 DEF x, Z

\* Quotient and remainder of a number written as such.
LEMMA Digits ==
  ASSUME NEW e \in Nat, NEW c \in Nat, c < e, NEW j \in Nat
  PROVE  (j * e + c) % e = c /\ (j * e + c) \div e = j
<1> DEFINE x == j * e + c
<1>1. x \in Nat
  OBVIOUS
<1> DEFINE q == x \div e
           r == x % e
<1>2. q \in Int /\ r \in Int /\ 0 <= r /\ r < e /\ x = e * q + r
  BY <1>1
<1> HIDE DEF q, r
<1>3. j * e + c = e * q + r
  BY <1>2
<1>4. (j - q) * e = r - c /\ r - c < e /\ r - c > -e
  BY <1>2, <1>3
<1>5. j - q = 0
  <2>1. ASSUME NEW k \in Int, k * e < e, k * e > -e
        PROVE  k = 0
    BY <2>1, Z3
  <2> QED
    BY <1>2, <1>4, <2>1
<1>6. j = q /\ r = c
  BY <1>2, <1>4, <1>5
<1> QED
  BY <1>6 DEF q, r

LEMMA EvlsCounted ==
  ASSUME Types, NEW d \in Node
  PROVE  /\ EvlsOf(d) \in Nat /\ Evls(d) \subseteq Cct
         /\ Before(d, 0) = 0 /\ Before(d, Load) = EvlsOf(d)
         /\ \A i \in Cct : /\ Before(d, i) \in Nat
                          /\ Before(d, i + 1) = Before(d, i) + IF i \in Evls(d) THEN 1 ELSE 0
         /\ \A i \in Evls(d) : Before(d, i) < EvlsOf(d) /\ EvlAt(d, Before(d, i)) = i
<1> DEFINE Low(i) == {o \in Evls(d) : o < i}
<1>1. Load \in Nat \ {0} /\ Evls(d) \subseteq Cct /\ Cct \subseteq Nat
  BY ConsistencyAssumption DEF Evls, Cct
<1>2. IsFiniteSet(Evls(d)) /\ EvlsOf(d) \in Nat
  <2>1. IsFiniteSet(Cct)
    BY <1>1, FS_Interval DEF Cct
  <2>2. IsFiniteSet(Evls(d))
    BY <1>1, <2>1, FS_Subset
  <2> QED
    BY <2>2, FS_CardinalityType DEF EvlsOf
<1>3. \A i : /\ IsFiniteSet(Low(i)) /\ Cardinality(Low(i)) \in Nat
            /\ Cardinality(Low(i)) <= EvlsOf(d)
  <2> TAKE i
  <2>1. Low(i) \in SUBSET Evls(d)
    OBVIOUS
  <2> HIDE DEF Low
  <2>2. IsFiniteSet(Low(i)) /\ Cardinality(Low(i)) <= Cardinality(Evls(d))
    BY <1>2, <2>1, FS_Subset
  <2> QED
    BY <2>2, FS_CardinalityType DEF EvlsOf
<1>4. Low(0) = {} /\ Low(Load) = Evls(d)
  BY <1>1 DEF Cct
<1>5. ASSUME NEW i \in Cct
      PROVE  Low(i + 1) = IF i \in Evls(d) THEN Low(i) \cup {i} ELSE Low(i)
  <2>1. i \in Nat /\ \A o \in Evls(d) : o \in Nat
    BY <1>1
  <2>2. \A o \in Evls(d) : o < i + 1 <=> (o < i \/ o = i)
    BY <2>1
  <2> QED
    BY <2>2
<1>6. \A i \in Cct : i \notin Low(i)
  BY <1>1
<1>7. ASSUME NEW i \in Evls(d), NEW o \in Evls(d), i < o
      PROVE  Low(i) \cup {i} \subseteq Low(o)
  <2>1. i \in Nat /\ o \in Nat /\ \A l \in Evls(d) : l \in Nat
    BY <1>1
  <2>2. \A l \in Evls(d) : l < i => l < o
    BY <1>7, <2>1
  <2> QED
    BY <1>7, <2>2
<1>8. \A i : Before(d, i) = Cardinality(Low(i))
  BY DEF Before
<1> HIDE DEF Low
<1>9. Before(d, 0) = 0 /\ Before(d, Load) = EvlsOf(d)
  BY <1>4, <1>8, FS_EmptySet DEF EvlsOf
<1>10. ASSUME NEW i \in Cct
       PROVE  /\ Before(d, i) \in Nat
              /\ Before(d, i + 1) = Before(d, i) + IF i \in Evls(d) THEN 1 ELSE 0
  <2>1. Cardinality(Low(i) \cup {i}) = Cardinality(Low(i)) + 1
    BY <1>3, <1>6, FS_AddElement
  <2>2. Cardinality(Low(i)) \in Nat
    BY <1>3
  <2> QED
    BY <1>5, <1>8, <2>1, <2>2
<1>11. \A i, o \in Evls(d) : i < o => Before(d, i) < Before(d, o)
  <2> SUFFICES ASSUME NEW i \in Evls(d), NEW o \in Evls(d), i < o
               PROVE  Before(d, i) < Before(d, o)
    OBVIOUS
  <2>1. Low(i) \cup {i} \in SUBSET Low(o) /\ IsFiniteSet(Low(o)) /\ IsFiniteSet(Low(i))
    BY <1>3, <1>7
  <2>2. Cardinality(Low(i) \cup {i}) <= Cardinality(Low(o))
    BY <2>1, FS_Subset
  <2>3. Cardinality(Low(i) \cup {i}) = Cardinality(Low(i)) + 1
    <3>1. i \notin Low(i)
      BY <1>1, <1>6
    <3> QED
      BY <2>1, <3>1, FS_AddElement
  <2>4. Cardinality(Low(i)) \in Nat /\ Cardinality(Low(o)) \in Nat
    BY <1>3
  <2> QED
    BY <1>8, <2>2, <2>3, <2>4
<1>12. ASSUME NEW i \in Evls(d)
       PROVE  Before(d, i) < EvlsOf(d) /\ EvlAt(d, Before(d, i)) = i
  <2>1. i \in Cct /\ Before(d, i) \in Nat
    BY <1>1, <1>10
  <2>2. Before(d, i + 1) = Before(d, i) + 1 /\ Before(d, i + 1) <= EvlsOf(d)
    BY <1>3, <1>8, <1>10, <2>1
  <2>3. \A o \in Evls(d) : Before(d, o) = Before(d, i) => o = i
    <3> SUFFICES ASSUME NEW o \in Evls(d), Before(d, o) = Before(d, i)
                 PROVE  o = i
      OBVIOUS
    <3>1. ~(o < i) /\ ~(i < o)
      BY <1>11, <2>1
    <3>2. o \in Nat /\ i \in Nat
      BY <1>1
    <3> QED
      BY <3>1, <3>2
  <2>4. EvlAt(d, Before(d, i)) = CHOOSE o \in Evls(d) : Before(d, o) = Before(d, i)
    BY DEF EvlAt, Before
  <2> QED
    BY <1>2, <2>1, <2>2, <2>3, <2>4
<1> QED
  BY <1>1, <1>2, <1>9, <1>10, <1>12

\* The element an evaluator rebuilds with the exponent at the place of input j
\* of circuit i.
LEMMA DiffAt ==
  ASSUME Types, NEW d \in Node, NEW i \in Evls(d), NEW j \in Inp, NEW k,
         k = (j - 1) * EvlsOf(d) + Before(d, i) + 1
  PROVE  /\ k \in 1 .. InpCnt * EvlsOf(d)
         /\ Times(R(DiffsOf(d)[k]), Elements0[j]) = Committed(d, i, j)
         /\ Committed(d, i, j) \in Group
<1> DEFINE e == EvlsOf(d)
           c == Before(d, i)
           a == m(d, i, j)
           b == m(0, 0, j)
           x == gen_inp[j]
<1>1. e \in Nat /\ c \in Nat /\ c < e /\ EvlAt(d, c) = i /\ i \in Cct
  BY EvlsCounted
<1>2. InpCnt \in Nat \ {0} /\ j \in Nat /\ j - 1 \in Nat /\ j <= InpCnt
  BY ConsistencyAssumption DEF Inp
<1>3. a \in Z /\ b \in Z /\ x \in {0, 1}
  <2>1. x \in {0, 1} /\ seed \in Seeds
    BY DEF Types
  <2>2. d \in 0 .. NodeAmnt - 1 /\ 0 \in 0 .. NodeAmnt - 1 /\ i \in 0 .. Load - 1 /\ 0 \in 0 .. Load - 1
    BY <1>1, ConsistencyAssumption DEF Node, Cct
  <2> QED
    BY <2>1, <2>2, ConsistencyAssumption DEF m, Inp
<1> HIDE DEF e, c
<1>4. k \in 1 .. InpCnt * e
  <2>1. k = (j - 1) * e + c + 1
    BY DEF e, c
  <2>2. (j - 1) * e + e = j * e /\ (j - 1) * e >= 0
    BY <1>1, <1>2
  <2>3. j * e <= InpCnt * e
    BY <1>1, <1>2
  <2>4. (j - 1) * e \in Int /\ j * e \in Int /\ InpCnt * e \in Int
    BY <1>1, <1>2
  <2> QED
    BY <1>1, <2>1, <2>2, <2>3, <2>4
<1>5. (k - 1) % e = c /\ 1 + (k - 1) \div e = j
  <2>1. k - 1 = (j - 1) * e + c
    BY <1>1, <1>2 DEF e, c
  <2>2. (k - 1) % e = c /\ (k - 1) \div e = j - 1
    BY <1>1, <1>2, <2>1, Digits
  <2> QED
    BY <1>2, <2>2
<1>6. DiffsOf(d)[k] = (a - Exponents0[j]) % Q
  BY <1>1, <1>4, <1>5 DEF DiffsOf, e
<1>7. Exponents0[j] = b
  BY DEF Exponents0
<1>8. Elements0[j] = F(x, b)
  BY DEF Elements0, Committed
<1> HIDE DEF a, b, x
<1>9. DiffsOf(d)[k] = (a - b) % Q
  BY <1>6, <1>7
<1>10. Committed(d, i, j) = F(x, a)
  BY DEF Committed, a, x
<1>11. Times(R((a - b) % Q), F(x, b)) = F(x, a)
  <2>1. ((((a - b) % Q) % Q) + (b % Q)) % Q = a
    BY <1>3, Restored
  <2>2. (0 + (x % Q)) % Q = x % Q
    <3>1. x % Q \in 0 .. Q - 1
      BY <1>3, Remainder
    <3> QED
      BY <3>1, OrderAssumption
  <2>3. a % Q = a
    BY <1>3, OrderAssumption DEF Z
  <2> QED
    BY <2>1, <2>2, <2>3 DEF Times, R, F
<1>12. F(x, a) \in Group
  <2>1. x % Q \in Z /\ a % Q \in Z
    BY <1>3, Remainder DEF Z
  <2> QED
    BY <2>1 DEF F, Group
<1> QED
  BY <1>4, <1>8, <1>9, <1>10, <1>11, <1>12 DEF e
(***************************************************************************)
(* The invariant, action by action.                                        *)
(***************************************************************************)

\* What is made of the parameters alone stays what it is.
LEMMA Fixed ==
  ASSUME UNCHANGED params
  PROVE  /\ gen_inp' = gen_inp /\ m_chks' = m_chks /\ seed' = seed
         /\ Exponents0' = Exponents0 /\ Elements0' = Elements0
         /\ \A d : Evls(d)' = Evls(d) /\ EvlsOf(d)' = EvlsOf(d) /\ DiffsOf(d)' = DiffsOf(d)
         /\ \A d, i : Before(d, i)' = Before(d, i)
         /\ \A d, i, j : Committed(d, i, j)' = Committed(d, i, j)
<1>1. gen_inp' = gen_inp /\ m_chks' = m_chks /\ seed' = seed
  BY DEF params
<1>2. \A d, i, j : m(d, i, j)' = m(d, i, j)
  BY <1>1 DEF m
<1>3. Exponents0' = Exponents0
  BY <1>2 DEF Exponents0
<1>4. \A d, i, j : Committed(d, i, j)' = Committed(d, i, j)
  BY <1>1, <1>2 DEF Committed
<1>5. Elements0' = Elements0
  BY <1>4 DEF Elements0
<1>6. \A d : Evls(d)' = Evls(d)
  BY <1>1 DEF Evls
<1>7. /\ \A d : EvlsOf(d)' = EvlsOf(d)
      /\ \A d, i : Before(d, i)' = Before(d, i) /\ EvlAt(d, i)' = EvlAt(d, i)
  BY <1>6 DEF EvlsOf, Before, EvlAt
<1>8. \A d : DiffsOf(d)' = DiffsOf(d)
  BY <1>2, <1>3, <1>7 DEF DiffsOf
<1> QED
  BY <1>1, <1>3, <1>4, <1>5, <1>6, <1>7, <1>8

\* The counters and the elements stand for as long as no evaluator enters the
\* loop but from its start, or leaves it.
LEMMA LoopKept ==
  ASSUME Counters, Rebuilt, UNCHANGED <<params, loop>>,
         \A d \in Node : /\ epc'[d] = "done" <=> epc[d] = "done"
                         /\ epc'[d] \in {"take", "bcast", "diffs"} =>
                              epc[d] \in {"take", "bcast", "diffs"}
  PROVE  Counters' /\ Rebuilt'
<1>1. UNCHANGED params /\ jx' = jx /\ ix' = ix /\ kx' = kx /\ m_M' = m_M
  BY DEF loop
<1>2. /\ \A d : Evls(d)' = Evls(d) /\ EvlsOf(d)' = EvlsOf(d)
      /\ \A d, i : Before(d, i)' = Before(d, i)
      /\ \A d, i, j : Committed(d, i, j)' = Committed(d, i, j)
  BY <1>1, Fixed
<1>3. Counters'
  BY <1>1, <1>2 DEF Counters
<1>4. Rebuilt'
  BY <1>1, <1>2 DEF Rebuilt
<1> QED
  BY <1>3, <1>4

\* What is sent and received: one message, or a second behind a first.
LEMMA Queued ==
  ASSUME NEW x, NEW y
  PROVE  /\ Append(<< >>, x) = <<x>> /\ Append(<<x>>, y) = <<x, y>>
         /\ Head(<<x>>) = x /\ Tail(<<x>>) = << >> /\ <<x>> # << >>
         /\ Head(<<x, y>>) = x /\ Tail(<<x, y>>) = <<y>>
<1>1. Append(<< >>, x) = <<x>>
  OBVIOUS
<1>2. Append(<<x>>, y) = <<x, y>>
  <2>1. <<x>> \in Seq({x, y}) /\ <<x, y>> \in Seq({x, y}) /\ Len(<<x>>) = 1
    OBVIOUS
  <2>2. /\ Append(<<x>>, y) \in Seq({x, y}) /\ Len(Append(<<x>>, y)) = 2
        /\ Append(<<x>>, y)[1] = x /\ Append(<<x>>, y)[2] = y
    BY <2>1, AppendProperties
  <2>3. Len(<<x, y>>) = 2 /\ <<x, y>>[1] = x /\ <<x, y>>[2] = y
    OBVIOUS
  <2> DEFINE sent == Append(<<x>>, y)
             queue == <<x, y>>
  <2> HIDE DEF sent, queue
  <2>4. \A i \in 1 .. Len(sent) : sent[i] = queue[i]
    BY <2>2, <2>3 DEF sent, queue
  <2>5. sent = queue
    BY <2>1, <2>2, <2>3, <2>4, SeqEqual DEF sent, queue
  <2> QED
    BY <2>5 DEF sent, queue
<1>3. Head(<<x>>) = x /\ <<x>> # << >>
  OBVIOUS
<1>4. Tail(<<x>>) = << >>
  OBVIOUS
<1>5. Head(<<x, y>>) = x
  OBVIOUS
<1>6. Tail(<<x, y>>) = <<y>>
  OBVIOUS
<1> QED
  BY <1>1, <1>2, <1>3, <1>4, <1>5, <1>6

\* The root: the node the others get the broadcasts from.
LEMMA Root == 0 \in Node
  BY ConsistencyAssumption DEF Node

LEMMA InitIInv == Init => IInv
<1> SUFFICES ASSUME Init
             PROVE  IInv
  OBVIOUS
<1> USE DEF Init
<1>0. {NodeAmnt, Load, InpCnt, EvlCnt} \subseteq Nat \ {0}
  BY ConsistencyAssumption
<1>1. Types
  <2>1. gen_inp \in [Inp -> {0, 1}] /\ m_chks \in [Node -> [Cct -> {0, 1}]] /\ seed \in Seeds
    BY DEF Choices
  <2>2. gpc \in [Node -> {"give", "bcast", "diffs", "done"}]
    OBVIOUS
  <2>3. epc \in [Node -> {"take", "bcast", "diffs", "loop", "done"}]
    OBVIOUS
  <2>4. DOMAIN chan = Node /\ DOMAIN chunks = Node
    OBVIOUS
  <2>5. jx \in [Node -> Nat] /\ ix \in [Node -> Cct] /\ kx \in [Node -> Nat]
    BY <1>0 DEF Cct
  <2>6. m_M \in [Node -> [Cct -> Seq(Group)]]
    <3>1. << >> \in Seq(Group)
      OBVIOUS
    <3> QED
      BY <3>1
  <2> QED
    BY <2>1, <2>2, <2>3, <2>4, <2>5, <2>6 DEF Types
<1>2. Clusters
  BY DEF Clusters
<1>3. Flow
  BY DEF Flow
<1>4. Counters
  <2> SUFFICES ASSUME NEW d \in Node
               PROVE  /\ jx[d] = 1 /\ ix[d] = 0 /\ 1 \in Inp /\ epc[d] # "done"
                      /\ kx[d] = (1 - 1) * EvlsOf(d) + Before(d, 0) + 1
                      /\ \A i \in Evls(d) : Len(m_M[d][i]) = IF i < 0 THEN 1 ELSE 1 - 1
    BY DEF Counters
  <2>1. /\ EvlsOf(d) \in Nat /\ Before(d, 0) = 0 /\ Evls(d) \subseteq Cct
    BY <1>1, EvlsCounted
  <2>2. jx[d] = 1 /\ ix[d] = 0 /\ kx[d] = 1 /\ epc[d] # "done" /\ 1 \in Inp
    BY <1>0 DEF Inp
  <2>3. \A i \in Evls(d) : i \in Nat /\ m_M[d][i] = << >>
    BY <1>0, <2>1 DEF Cct
  <2> QED
    BY <2>1, <2>2, <2>3
<1>5. Rebuilt
  <2> SUFFICES ASSUME NEW d \in Node, NEW i \in Evls(d)
               PROVE  1 .. Len(m_M[d][i]) = {}
    BY DEF Rebuilt
  <2>1. m_M[d][i] = << >>
    BY DEF Evls
  <2> QED
    BY <2>1
<1> QED
  BY <1>1, <1>2, <1>3, <1>4, <1>5 DEF IInv

LEMMA GenGiveMIInv ==
  ASSUME IInv, GenGiveM
  PROVE  IInv'
<1> USE DEF IInv
<1>1. /\ gpc[0] = "give" /\ gpc' = [gpc EXCEPT ![0] = "bcast"]
      /\ chan' = [chan EXCEPT ![0] = Append(@, Elements0)]
      /\ UNCHANGED <<params, epc, gbuf, ebuf, chunks, loop>>
  BY DEF GenGiveM, Send, Elements0
<1>2. UNCHANGED <<gen_inp, m_chks, seed, jx, ix, kx, m_M>>
  BY <1>1 DEF params, loop
<1>3. 0 \in Node /\ epc[0] = "take"
  BY <1>1, Root DEF Clusters
<1>4. Types'
  BY <1>1, <1>2 DEF Types
<1>5. Clusters'
  <2>1. Exponents0' = Exponents0 /\ Elements0' = Elements0
    BY <1>1, Fixed
  <2> QED
    BY <1>1, <1>3, <2>1 DEF Clusters, Types
<1>6. Flow'
  <2>1. Elements0' = Elements0 /\ \A d : DiffsOf(d)' = DiffsOf(d)
    BY <1>1, Fixed
  <2>2. chan'[0] = <<Elements0>>
    <3>1. chan[0] = << >>
      BY <1>1, <1>3 DEF Flow
    <3>2. Append(<< >>, Elements0) = <<Elements0>>
      OBVIOUS
    <3> QED
      BY <1>1, <1>3, <3>1, <3>2 DEF Types
  <2>3. gpc'[0] = "bcast"
    BY <1>1, <1>3 DEF Types
  <2>4. \A d \in Node : d # 0 => chan'[d] = chan[d] /\ gpc'[d] = gpc[d]
    BY <1>1 DEF Types
  <2> QED
    BY <1>1, <1>3, <2>1, <2>2, <2>3, <2>4 DEF Flow
<1>7. Counters' /\ Rebuilt'
  BY <1>1, LoopKept
<1> QED
  BY <1>4, <1>5, <1>6, <1>7

LEMMA GenBcastIInv ==
  ASSUME IInv, NEW d \in Node, GenBcast(d)
  PROVE  IInv'
<1> USE DEF IInv
<1>1. /\ gpc[d] = "bcast" /\ gpc' = [gpc EXCEPT ![d] = "diffs"]
      /\ UNCHANGED <<params, epc, chan, ebuf, chunks, loop>>
  BY DEF GenBcast
<1>2. UNCHANGED <<gen_inp, m_chks, seed, jx, ix, kx, m_M>>
  BY <1>1 DEF params, loop
<1>3. gbuf' = Exponents0
  BY DEF GenBcast, Exponents0, Clusters
<1>4. Types'
  BY <1>1, <1>2 DEF Types
<1>5. Exponents0' = Exponents0 /\ Elements0' = Elements0 /\ \A n : DiffsOf(n)' = DiffsOf(n)
  BY <1>1, Fixed
<1>6. gpc'[d] = "diffs" /\ \A n \in Node : n # d => gpc'[n] = gpc[n]
  BY <1>1 DEF Types
<1>7. Clusters'
  BY <1>1, <1>3, <1>5, <1>6 DEF Clusters
<1>8. Flow'
  BY <1>1, <1>5, <1>6 DEF Flow
<1>9. Counters' /\ Rebuilt'
  BY <1>1, LoopKept
<1> QED
  BY <1>4, <1>7, <1>8, <1>9

LEMMA GenDiffsIInv ==
  ASSUME IInv, NEW d \in Node, GenDiffs(d)
  PROVE  IInv'
<1> USE DEF IInv
<1>1. /\ gpc[d] = "diffs" /\ gpc' = [gpc EXCEPT ![d] = "done"]
      /\ chan' = [chan EXCEPT ![d] = Append(@, Diffs(d))]
      /\ UNCHANGED <<params, epc, gbuf, ebuf, chunks, loop>>
  BY DEF GenDiffs, Send
<1>2. UNCHANGED <<gen_inp, m_chks, seed, jx, ix, kx, m_M>>
  BY <1>1 DEF params, loop
<1>3. Diffs(d) = DiffsOf(d)
  <2>1. gbuf = Exponents0
    BY <1>1 DEF Clusters
  <2> QED
    BY <2>1 DEF Diffs, DiffsOf, EvlsOf
<1>4. Types'
  BY <1>1, <1>2 DEF Types
<1>5. Exponents0' = Exponents0 /\ Elements0' = Elements0 /\ \A n : DiffsOf(n)' = DiffsOf(n)
  BY <1>1, Fixed
<1>6. /\ gpc'[d] = "done" /\ chan'[d] = Append(chan[d], DiffsOf(d))
      /\ \A n \in Node : n # d => gpc'[n] = gpc[n] /\ chan'[n] = chan[n]
  BY <1>1, <1>3 DEF Types
<1>7. Clusters'
  BY <1>1, <1>5, <1>6 DEF Clusters
<1>8. Flow'
  <2>1. /\ Append(<< >>, DiffsOf(d)) = <<DiffsOf(d)>>
        /\ Append(<<Elements0>>, DiffsOf(d)) = <<Elements0, DiffsOf(d)>>
    BY Queued
  <2>2. /\ epc[d] = "take" => chan[d] = <<Elements0>>
        /\ epc[d] \in {"bcast", "diffs"} => chan[d] = << >>
        /\ epc[d] \notin {"loop", "done"}
    BY <1>1 DEF Flow
  <2>3. /\ epc[d] = "take" => chan'[d] = <<Elements0, DiffsOf(d)>>
        /\ epc[d] \in {"bcast", "diffs"} => chan'[d] = <<DiffsOf(d)>>
    BY <1>6, <2>1, <2>2
  <2> DEFINE FlowAt(n) ==
        /\ epc[n] = "take" =>
             /\ gpc'[n] = "give" => chan'[n] = << >>
             /\ gpc'[n] \in {"bcast", "diffs"} => chan'[n] = <<Elements0>>
             /\ gpc'[n] = "done" => chan'[n] = <<Elements0, DiffsOf(n)>>
        /\ epc[n] \in {"bcast", "diffs"} =>
             chan'[n] = IF gpc'[n] = "done" THEN <<DiffsOf(n)>> ELSE << >>
        /\ epc[n] \in {"loop", "done"} => gpc'[n] = "done" /\ chunks[n] = DiffsOf(n)
  <2>4. FlowAt(d)
    BY <1>6, <2>2, <2>3
  <2>5. ASSUME NEW n \in Node, n # d
        PROVE  FlowAt(n)
    <3>1. gpc'[n] = gpc[n] /\ chan'[n] = chan[n]
      BY <1>6, <2>5
    <3> QED
      BY <3>1 DEF Flow
  <2>6. \A n \in Node : FlowAt(n)
    BY <2>4, <2>5
  <2> QED
    BY <1>1, <1>5, <2>6 DEF Flow
<1>9. Counters' /\ Rebuilt'
  BY <1>1, LoopKept
<1> QED
  BY <1>4, <1>7, <1>8, <1>9
LEMMA EvlTakeMIInv ==
  ASSUME IInv, EvlTakeM
  PROVE  IInv'
<1> USE DEF IInv
<1>1. /\ epc[0] = "take" /\ chan[0] # << >> /\ ebuf' = Head(chan[0])
      /\ chan' = [chan EXCEPT ![0] = Tail(chan[0])] /\ epc' = [epc EXCEPT ![0] = "bcast"]
      /\ UNCHANGED <<params, gpc, gbuf, chunks, loop>>
  BY DEF EvlTakeM
<1>2. UNCHANGED <<gen_inp, m_chks, seed, jx, ix, kx, m_M>>
  BY <1>1 DEF params, loop
<1>3. Types'
  BY <1>1, <1>2 DEF Types
<1>4. Exponents0' = Exponents0 /\ Elements0' = Elements0 /\ \A n : DiffsOf(n)' = DiffsOf(n)
  BY <1>1, Fixed
<1>5. /\ epc'[0] = "bcast" /\ chan'[0] = Tail(chan[0])
      /\ \A n \in Node : n # 0 => epc'[n] = epc[n] /\ chan'[n] = chan[n]
  BY <1>1, Root DEF Types
<1>6. /\ gpc[0] # "give" /\ ebuf' = Elements0
      /\ chan'[0] = IF gpc[0] = "done" THEN <<DiffsOf(0)>> ELSE << >>
  <2>1. gpc[0] \in {"give", "bcast", "diffs", "done"}
    BY Root DEF Types
  <2>2. CASE gpc[0] = "give"
    <3>1. chan[0] = << >>
      BY <1>1, <2>2, Root DEF Flow
    <3> QED
      BY <1>1, <3>1
  <2>3. CASE gpc[0] \in {"bcast", "diffs"}
    <3>1. chan[0] = <<Elements0>>
      BY <1>1, <2>3, Root DEF Flow
    <3>2. Head(<<Elements0>>) = Elements0 /\ Tail(<<Elements0>>) = << >>
      BY Queued
    <3> QED
      BY <1>1, <1>5, <2>3, <3>1, <3>2
  <2>4. CASE gpc[0] = "done"
    <3>1. chan[0] = <<Elements0, DiffsOf(0)>>
      BY <1>1, <2>4, Root DEF Flow
    <3>2. /\ Head(<<Elements0, DiffsOf(0)>>) = Elements0
          /\ Tail(<<Elements0, DiffsOf(0)>>) = <<DiffsOf(0)>>
      BY Queued
    <3> QED
      BY <1>1, <1>5, <2>4, <3>1, <3>2
  <2> QED
    BY <2>1, <2>2, <2>3, <2>4
<1>7. Clusters'
  BY <1>1, <1>4, <1>5, <1>6, Root DEF Clusters
<1>8. Flow'
  BY <1>1, <1>4, <1>5, <1>6 DEF Flow
<1>9. Counters' /\ Rebuilt'
  <2>1. \A n \in Node : /\ epc'[n] = "done" <=> epc[n] = "done"
                        /\ epc'[n] \in {"take", "bcast", "diffs"} =>
                             epc[n] \in {"take", "bcast", "diffs"}
    BY <1>1, <1>5
  <2> QED
    BY <1>1, <2>1, LoopKept
<1> QED
  BY <1>3, <1>7, <1>8, <1>9

LEMMA EvlBcastIInv ==
  ASSUME IInv, NEW d \in Node, EvlBcast(d)
  PROVE  IInv'
<1> USE DEF IInv
<1>1. /\ epc[d] = "bcast" /\ ebuf # Unset /\ epc' = [epc EXCEPT ![d] = "diffs"]
      /\ UNCHANGED <<params, gpc, chan, gbuf, ebuf, chunks, loop>>
  BY DEF EvlBcast
<1>2. UNCHANGED <<gen_inp, m_chks, seed, jx, ix, kx, m_M>>
  BY <1>1 DEF params, loop
<1>3. Types'
  BY <1>1, <1>2 DEF Types
<1>4. Exponents0' = Exponents0 /\ Elements0' = Elements0 /\ \A n : DiffsOf(n)' = DiffsOf(n)
  BY <1>1, Fixed
<1>5. epc'[d] = "diffs" /\ \A n \in Node : n # d => epc'[n] = epc[n]
  BY <1>1 DEF Types
<1>6. Clusters'
  BY <1>1, <1>4, <1>5 DEF Clusters
<1>7. Flow'
  BY <1>1, <1>4, <1>5 DEF Flow
<1>8. Counters' /\ Rebuilt'
  <2>1. \A n \in Node : /\ epc'[n] = "done" <=> epc[n] = "done"
                        /\ epc'[n] \in {"take", "bcast", "diffs"} =>
                             epc[n] \in {"take", "bcast", "diffs"}
    BY <1>1, <1>5
  <2> QED
    BY <1>1, <2>1, LoopKept
<1> QED
  BY <1>3, <1>6, <1>7, <1>8

LEMMA EvlDiffsIInv ==
  ASSUME IInv, NEW d \in Node, EvlDiffs(d)
  PROVE  IInv'
<1> USE DEF IInv
<1>1. /\ epc[d] = "diffs" /\ chan[d] # << >>
      /\ chunks' = [chunks EXCEPT ![d] = Head(chan[d])]
      /\ chan' = [chan EXCEPT ![d] = Tail(chan[d])] /\ epc' = [epc EXCEPT ![d] = "loop"]
      /\ UNCHANGED <<params, gpc, gbuf, ebuf, loop>>
  BY DEF EvlDiffs
<1>2. UNCHANGED <<gen_inp, m_chks, seed, jx, ix, kx, m_M>>
  BY <1>1 DEF params, loop
<1>3. Types'
  BY <1>1, <1>2 DEF Types
<1>4. Exponents0' = Exponents0 /\ Elements0' = Elements0 /\ \A n : DiffsOf(n)' = DiffsOf(n)
  BY <1>1, Fixed
<1>5. epc'[d] = "loop"
      /\ \A n \in Node : n # d => epc'[n] = epc[n] /\ chan'[n] = chan[n] /\ chunks'[n] = chunks[n]
  BY <1>1 DEF Types
<1>6. gpc[d] = "done" /\ chunks'[d] = DiffsOf(d)
  <2>1. gpc[d] = "done" /\ chan[d] = <<DiffsOf(d)>>
    BY <1>1 DEF Flow
  <2>2. Head(<<DiffsOf(d)>>) = DiffsOf(d)
    BY Queued
  <2> QED
    BY <1>1, <2>1, <2>2 DEF Types
<1>7. Clusters'
  BY <1>1, <1>4, <1>5 DEF Clusters
<1>8. Flow'
  BY <1>1, <1>4, <1>5, <1>6 DEF Flow
<1>9. Counters' /\ Rebuilt'
  <2>1. \A n \in Node : /\ epc'[n] = "done" <=> epc[n] = "done"
                        /\ epc'[n] \in {"take", "bcast", "diffs"} =>
                             epc[n] \in {"take", "bcast", "diffs"}
    BY <1>1, <1>5
  <2> QED
    BY <1>1, <2>1, LoopKept
<1> QED
  BY <1>3, <1>7, <1>8, <1>9

\* The loop goes on to a circuit and an input, and has had its messages.
LEMMA AdvanceStays ==
  ASSUME Types, Clusters, Flow, Counters, NEW d \in Node, epc[d] = "loop", Advance(d),
         UNCHANGED <<params, gpc, chan, gbuf, ebuf, chunks>>
  PROVE  /\ jx' \in [Node -> Nat] /\ ix' \in [Node -> Cct]
         /\ epc' \in [Node -> {"take", "bcast", "diffs", "loop", "done"}]
         /\ Clusters' /\ Flow'
<1>1. Load \in Nat \ {0} /\ jx[d] \in Nat /\ ix[d] \in 0 .. Load - 1
  BY ConsistencyAssumption DEF Types, Cct
<1>2. jx' \in [Node -> Nat]
  BY <1>1 DEF Advance, Types
<1>3. ix' \in [Node -> Cct]
  <2>1. (IF ix[d] = Load - 1 THEN 0 ELSE ix[d] + 1) \in Cct
    BY <1>1 DEF Cct
  <2> QED
    BY <2>1 DEF Advance, Types
<1>4. /\ epc' \in [Node -> {"take", "bcast", "diffs", "loop", "done"}]
      /\ epc'[d] \in {"loop", "done"}
      /\ \A n \in Node : n # d => epc'[n] = epc[n]
  BY DEF Advance, Types
<1>5. Exponents0' = Exponents0 /\ Elements0' = Elements0 /\ \A n : DiffsOf(n)' = DiffsOf(n)
  BY Fixed
<1>6. Clusters'
  BY <1>4, <1>5 DEF Clusters
<1>7. Flow'
  BY <1>4, <1>5 DEF Flow
<1> QED
  BY <1>2, <1>3, <1>4, <1>6, <1>7

\* An exponent and an element more for an evaluation-circuit, none for a
\* check-circuit: the counters keep step.
LEMMA AdvanceCounts ==
  ASSUME Types, Counters, NEW d \in Node, epc[d] = "loop", Advance(d), UNCHANGED params,
         kx'[d] = kx[d] + IF ix[d] \in Evls(d) THEN 1 ELSE 0,
         \A n \in Node : n # d => kx'[n] = kx[n],
         \A n \in Node : \A i \in Evls(n) :
           Len(m_M'[n][i]) = IF n = d /\ i = ix[d] THEN Len(m_M[n][i]) + 1
                                                   ELSE Len(m_M[n][i])
  PROVE  Counters'
<1> DEFINE e == EvlsOf(d)
           at == ix[d]
           j == jx[d]
           c == Before(d, at)
<1>1. /\ Load \in Nat \ {0} /\ InpCnt \in Nat \ {0} /\ at \in Nat /\ at < Load
      /\ at \in Cct /\ j \in Nat /\ j \in 1 .. InpCnt
  BY ConsistencyAssumption DEF Types, Cct, Counters, Inp
<1>2. /\ e \in Nat /\ Evls(d) \subseteq Nat /\ c \in Nat /\ \A i \in Evls(d) : i < Load
      /\ Before(d, 0) = 0 /\ Before(d, Load) = e
      /\ Before(d, at + 1) = c + IF at \in Evls(d) THEN 1 ELSE 0
  BY <1>1, EvlsCounted DEF Cct
<1>3. /\ kx[d] = (j - 1) * e + c + 1
      /\ \A i \in Evls(d) : Len(m_M[d][i]) = IF i < at THEN j ELSE j - 1
  BY DEF Counters
<1>4. /\ ix'[d] = IF at = Load - 1 THEN 0 ELSE at + 1
      /\ jx'[d] = IF at = Load - 1 THEN j + 1 ELSE j
      /\ epc'[d] = IF at = Load - 1 /\ j = InpCnt THEN "done" ELSE "loop"
      /\ \A n \in Node : n # d => ix'[n] = ix[n] /\ jx'[n] = jx[n] /\ epc'[n] = epc[n]
  BY DEF Advance, Types
<1>5. /\ \A n : Evls(n)' = Evls(n) /\ EvlsOf(n)' = EvlsOf(n)
      /\ \A n, i : Before(n, i)' = Before(n, i)
  BY Fixed
<1>6. \A i \in Evls(d) : Len(m_M'[d][i]) = IF i < at + 1 THEN j ELSE j - 1
  <2> TAKE i \in Evls(d)
  <2>1. i \in Nat
    BY <1>2
  <2>2. Len(m_M'[d][i]) = IF i = at THEN (IF i < at THEN j ELSE j - 1) + 1
                                    ELSE (IF i < at THEN j ELSE j - 1)
    BY <1>3
  <2> HIDE DEF at, j
  <2> QED
    BY <1>1, <2>1, <2>2
<1>7. kx'[d] = (j - 1) * e + Before(d, at + 1) + 1
  <2>1. (j - 1) * e \in Int
    BY <1>1, <1>2
  <2>2. kx'[d] = ((j - 1) * e + c + 1) + IF at \in Evls(d) THEN 1 ELSE 0
    BY <1>3
  <2> HIDE DEF at, j, e, c
  <2> QED
    BY <1>2, <2>1, <2>2
<1> DEFINE Here(n) ==
      /\ epc'[n] \in {"take", "bcast", "diffs"} => jx'[n] = 1 /\ ix'[n] = 0
      /\ epc'[n] # "done" =>
           /\ jx'[n] \in Inp
           /\ kx'[n] = (jx'[n] - 1) * EvlsOf(n) + Before(n, ix'[n]) + 1
           /\ \A i \in Evls(n) : Len(m_M'[n][i]) = IF i < ix'[n] THEN jx'[n] ELSE jx'[n] - 1
      /\ epc'[n] = "done" =>
           /\ kx'[n] = InpCnt * EvlsOf(n) + 1
           /\ \A i \in Evls(n) : Len(m_M'[n][i]) = InpCnt
<1>8. Here(d)
  <2>1. CASE at # Load - 1
    <3>1. ix'[d] = at + 1 /\ jx'[d] = j /\ epc'[d] = "loop"
      BY <1>4, <2>1
    <3> QED
      BY <1>1, <1>6, <1>7, <3>1 DEF Inp
  <2>2. CASE at = Load - 1
    <3>1. /\ kx'[d] = j * e + 1
          /\ \A i \in Evls(d) : Len(m_M'[d][i]) = j
      <4>1. at + 1 = Load
        BY <1>1, <2>2
      <4>2. kx'[d] = (j - 1) * e + e + 1
        BY <1>2, <1>7, <4>1
      <4>3. (j - 1) * e + e = j * e
        BY <1>1, <1>2
      <4> QED
        BY <1>2, <1>6, <4>1, <4>2, <4>3
    <3>2. CASE j = InpCnt
      <4>1. epc'[d] = "done"
        BY <1>4, <2>2, <3>2
      <4> QED
        BY <3>1, <3>2, <4>1
    <3>3. CASE j # InpCnt
      <4>1. ix'[d] = 0 /\ jx'[d] = j + 1 /\ epc'[d] = "loop" /\ j + 1 \in Inp /\ (j + 1) - 1 = j
        BY <1>1, <1>4, <2>2, <3>3 DEF Inp
      <4>2. j * e + 1 = j * e + Before(d, 0) + 1
        BY <1>1, <1>2
      <4>3. \A i \in Evls(d) : ~(i < 0)
        BY <1>2
      <4> HIDE DEF j, e
      <4>4. kx'[d] = (jx'[d] - 1) * e + Before(d, ix'[d]) + 1
        BY <3>1, <4>1, <4>2
      <4>5. \A i \in Evls(d) : Len(m_M'[d][i]) = IF i < ix'[d] THEN jx'[d] ELSE jx'[d] - 1
        BY <3>1, <4>1, <4>3
      <4> QED
        BY <4>1, <4>4, <4>5 DEF e
    <3> QED
      BY <3>2, <3>3
  <2> QED
    BY <2>1, <2>2
<1>9. ASSUME NEW n \in Node, n # d
      PROVE  Here(n)
  <2>1. \A i \in Evls(n) : Len(m_M'[n][i]) = Len(m_M[n][i])
    <3> TAKE i \in Evls(n)
    <3>1. n \in Node /\ i \in Cct
      BY DEF Evls
    <3> QED
      BY <1>9, <3>1
  <2>2. kx'[n] = kx[n] /\ ix'[n] = ix[n] /\ jx'[n] = jx[n] /\ epc'[n] = epc[n]
    BY <1>4, <1>9
  <2> QED
    BY <2>1, <2>2 DEF Counters
<1>10. \A n \in Node : Here(n)
  BY <1>8, <1>9
<1> QED
  BY <1>5, <1>10 DEF Counters
LEMMA EvlSkipIInv ==
  ASSUME IInv, NEW d \in Node, EvlSkip(d)
  PROVE  IInv'
<1> USE DEF IInv
<1>1. /\ epc[d] = "loop" /\ m_chks[d][ix[d]] = 1 /\ Advance(d)
      /\ UNCHANGED <<params, gpc, chan, gbuf, ebuf, chunks, kx, m_M>>
  BY DEF EvlSkip
<1>2. UNCHANGED <<gen_inp, m_chks, seed>>
  BY <1>1 DEF params
<1>3. ix[d] \notin Evls(d)
  BY <1>1 DEF Evls
<1>4. /\ jx' \in [Node -> Nat] /\ ix' \in [Node -> Cct]
      /\ epc' \in [Node -> {"take", "bcast", "diffs", "loop", "done"}]
      /\ Clusters' /\ Flow'
  BY <1>1, AdvanceStays
<1>5. Types'
  BY <1>1, <1>2, <1>4 DEF Types
<1>6. kx[d] \in Nat /\ \A n \in Node : \A i \in Evls(n) : Len(m_M[n][i]) \in Nat
  BY DEF Types, Evls
<1>7. kx'[d] = kx[d] + IF ix[d] \in Evls(d) THEN 1 ELSE 0
  BY <1>1, <1>3, <1>6
<1>8. ASSUME NEW n \in Node, NEW i \in Evls(n)
      PROVE  Len(m_M'[n][i]) = IF n = d /\ i = ix[d] THEN Len(m_M[n][i]) + 1
                                                     ELSE Len(m_M[n][i])
  <2>1. ~(n = d /\ i = ix[d])
    BY <1>3
  <2>2. m_M' = m_M /\ Len(m_M[n][i]) \in Nat
    BY <1>1, <1>6
  <2> HIDE DEF IInv
  <2> QED
    BY <2>1, <2>2
<1>9. Counters'
  <2>1. \A n \in Node : n # d => kx'[n] = kx[n]
    BY <1>1
  <2> QED
    BY <1>1, <1>7, <1>8, <2>1, AdvanceCounts
<1>10. Rebuilt'
  <2>1. (\A n : Evls(n)' = Evls(n)) /\ \A n, i, j : Committed(n, i, j)' = Committed(n, i, j)
    BY <1>1, Fixed
  <2> QED
    BY <1>1, <2>1 DEF Rebuilt
<1> QED
  BY <1>4, <1>5, <1>9, <1>10

LEMMA EvlRebuildIInv ==
  ASSUME IInv, NEW d \in Node, EvlRebuild(d)
  PROVE  IInv'
<1> USE DEF IInv
<1> DEFINE at == ix[d]
           j  == jx[d]
           M  == Times(R(chunks[d][kx[d]]), ebuf[jx[d]])
<1>1. /\ epc[d] = "loop" /\ m_chks[d][ix[d]] = 0 /\ Advance(d)
      /\ m_M' = [m_M EXCEPT ![d][ix[d]] = Append(m_M[d][ix[d]], M)]
      /\ kx' = [kx EXCEPT ![d] = kx[d] + 1]
      /\ UNCHANGED <<params, gpc, chan, gbuf, ebuf, chunks>>
  BY DEF EvlRebuild
<1>2. UNCHANGED <<gen_inp, m_chks, seed>>
  BY <1>1 DEF params
<1>3. at \in Cct /\ at \in Evls(d) /\ j \in Inp /\ at \in Nat /\ j \in Nat
  BY <1>1, ConsistencyAssumption DEF Evls, Types, Counters, Cct
\* The exponent taken is the one sent for this input of this circuit.
<1>4. M = Committed(d, at, j) /\ M \in Group
  <2>1. chunks[d] = DiffsOf(d) /\ ebuf = Elements0
    BY <1>1 DEF Flow, Clusters
  <2>2. kx[d] = (j - 1) * EvlsOf(d) + Before(d, at) + 1
    BY <1>1 DEF Counters
  <2>3. /\ Times(R(DiffsOf(d)[kx[d]]), Elements0[j]) = Committed(d, at, j)
        /\ Committed(d, at, j) \in Group
    BY <1>3, <2>2, DiffAt
  <2> QED
    BY <2>1, <2>3
<1> HIDE DEF M
<1> DEFINE had == m_M[d][at]
<1>5. had \in Seq(Group) /\ Len(had) \in Nat /\ Len(had) = j - 1
  <2>1. had \in Seq(Group)
    BY <1>3 DEF Types
  <2>2. Len(had) = IF at < at THEN j ELSE j - 1
    BY <1>1, <1>3 DEF Counters
  <2> QED
    BY <1>3, <2>1, <2>2
<1>6. /\ Append(had, M) \in Seq(Group) /\ Len(Append(had, M)) = Len(had) + 1
      /\ \A l \in 1 .. Len(had) : Append(had, M)[l] = had[l]
      /\ Append(had, M)[Len(had) + 1] = M
  <2> HIDE DEF had
  <2> QED
    BY <1>4, <1>5, AppendProperties
<1>7. /\ m_M' \in [Node -> [Cct -> Seq(Group)]] /\ m_M'[d][at] = Append(had, M)
      /\ \A n \in Node : \A i \in Cct : ~(n = d /\ i = at) => m_M'[n][i] = m_M[n][i]
  <2> DEFINE more == Append(had, M)
  <2>1. more \in Seq(Group) /\ m_M' = [m_M EXCEPT ![d][at] = more]
    BY <1>1, <1>6
  <2> HIDE DEF more, at
  <2>2. m_M \in [Node -> [Cct -> Seq(Group)]]
    BY DEF Types
  <2>3. m_M' \in [Node -> [Cct -> Seq(Group)]] /\ m_M'[d][at] = more
    BY <1>3, <2>1, <2>2
  <2>4. \A n \in Node : \A i \in Cct : ~(n = d /\ i = at) => m_M'[n][i] = m_M[n][i]
    BY <1>3, <2>1, <2>2
  <2> QED
    BY <2>3, <2>4 DEF more
<1>8. /\ jx' \in [Node -> Nat] /\ ix' \in [Node -> Cct]
      /\ epc' \in [Node -> {"take", "bcast", "diffs", "loop", "done"}]
      /\ Clusters' /\ Flow'
  BY <1>1, AdvanceStays
<1>9. Types'
  <2>1. kx' \in [Node -> Nat]
    BY <1>1 DEF Types
  <2> QED
    BY <1>1, <1>2, <1>7, <1>8, <2>1 DEF Types
<1>10. Counters'
  <2>1. /\ kx'[d] = kx[d] + IF ix[d] \in Evls(d) THEN 1 ELSE 0
        /\ \A n \in Node : n # d => kx'[n] = kx[n]
    BY <1>1, <1>3 DEF Types
  <2>2. ASSUME NEW n \in Node, NEW i \in Evls(n)
        PROVE  Len(m_M'[n][i]) = IF n = d /\ i = ix[d] THEN Len(m_M[n][i]) + 1
                                                       ELSE Len(m_M[n][i])
    <3>1. i \in Cct /\ Len(m_M[n][i]) \in Nat
      BY DEF Evls, Types
    <3>2. CASE n = d /\ i = at
      BY <1>6, <1>7, <3>2
    <3>3. CASE ~(n = d /\ i = at)
      BY <1>7, <3>1, <3>3
    <3> QED
      BY <3>2, <3>3
  <2> QED
    BY <1>1, <2>1, <2>2, AdvanceCounts
<1>11. Rebuilt'
  <2>1. (\A n : Evls(n)' = Evls(n)) /\ \A n, i, l : Committed(n, i, l)' = Committed(n, i, l)
    BY <1>1, Fixed
  <2> SUFFICES ASSUME NEW n \in Node, NEW i \in Evls(n), NEW l \in 1 .. Len(m_M'[n][i])
               PROVE  m_M'[n][i][l] = Committed(n, i, l)
    BY <2>1 DEF Rebuilt
  <2>2. i \in Cct
    BY DEF Evls
  <2>3. CASE n = d /\ i = at
    <3>1. m_M'[n][i] = Append(had, M) /\ l \in 1 .. Len(had) + 1
      BY <1>6, <1>7, <2>3
    <3>2. CASE l = Len(had) + 1
      BY <1>3, <1>4, <1>5, <1>6, <2>3, <3>1, <3>2
    <3>3. CASE l # Len(had) + 1
      <4>1. l \in 1 .. Len(had)
        BY <1>5, <3>1, <3>3
      <4>2. had[l] = Committed(n, i, l)
        BY <2>3, <4>1 DEF Rebuilt
      <4> QED
        BY <1>6, <3>1, <4>1, <4>2
    <3> QED
      BY <3>2, <3>3
  <2>4. CASE ~(n = d /\ i = at)
    <3>1. m_M'[n][i] = m_M[n][i]
      BY <1>7, <2>2, <2>4
    <3> QED
      BY <3>1 DEF Rebuilt
  <2> QED
    BY <2>3, <2>4
<1> QED
  BY <1>8, <1>9, <1>10, <1>11

LEMMA StutterIInv ==
  ASSUME IInv, UNCHANGED vars
  PROVE  IInv'
<1> USE DEF IInv
<1>1. /\ UNCHANGED <<params, gpc, epc, chan, gbuf, ebuf, chunks, loop>>
      /\ UNCHANGED <<gen_inp, m_chks, seed, jx, ix, kx, m_M>>
  BY DEF vars, params, loop
<1>2. Exponents0' = Exponents0 /\ Elements0' = Elements0 /\ \A n : DiffsOf(n)' = DiffsOf(n)
  BY <1>1, Fixed
<1>3. Types'
  BY <1>1 DEF Types
<1>4. Clusters'
  BY <1>1, <1>2 DEF Clusters
<1>5. Flow'
  BY <1>1, <1>2 DEF Flow
<1>6. Counters' /\ Rebuilt'
  BY <1>1, LoopKept
<1> QED
  BY <1>3, <1>4, <1>5, <1>6

\* The consistency check with everything the rebuilding rests on: what the roots
\* have handed out, what is under way, and the evaluators' counters.
THEOREM ConsistencyCorrect == Spec => []IInv
<1>1. Init => IInv
  BY InitIInv
<1>2. IInv /\ [Next]_vars => IInv'
  <2> SUFFICES ASSUME IInv, [Next]_vars
               PROVE  IInv'
    OBVIOUS
  <2>1. CASE GenGiveM
    BY <2>1, GenGiveMIInv
  <2>2. CASE \E d \in Node : GenBcast(d)
    BY <2>2, GenBcastIInv
  <2>3. CASE \E d \in Node : GenDiffs(d)
    BY <2>3, GenDiffsIInv
  <2>4. CASE EvlTakeM
    BY <2>4, EvlTakeMIInv
  <2>5. CASE \E d \in Node : EvlBcast(d)
    BY <2>5, EvlBcastIInv
  <2>6. CASE \E d \in Node : EvlDiffs(d)
    BY <2>6, EvlDiffsIInv
  <2>7. CASE \E d \in Node : EvlSkip(d)
    BY <2>7, EvlSkipIInv
  <2>8. CASE \E d \in Node : EvlRebuild(d)
    BY <2>8, EvlRebuildIInv
  <2>9. CASE UNCHANGED vars
    BY <2>9, StutterIInv
  <2>10. CASE Finished
    BY <2>10, StutterIInv DEF Finished
  <2> QED
    BY <2>1, <2>2, <2>3, <2>4, <2>5, <2>6, <2>7, <2>8, <2>9, <2>10
       DEF Next, GenStep, EvlStep, EvlRecvStep
<1> QED
  BY <1>1, <1>2, PTL DEF Spec

\* On every node the evaluator rebuilds, for every input of an evaluation-circuit,
\* the element the generator garbled that input of that circuit with
\* (consistency_check), for any number of nodes, circuits and inputs, any choice
\* of circuits and any order of the group.
THEOREM RebuiltAlways == Spec => []Rebuilt
<1>1. IInv => Rebuilt
  BY DEF IInv
<1> QED
  BY <1>1, ConsistencyCorrect, PTL

\* An evaluator that is through the loop has an element for every input of its
\* evaluation-circuits, and has used up the exponents it was sent: no index of
\* theirs is past the end, and none is left over.
THEOREM AllRebuiltAlways == Spec => []AllRebuilt
<1>1. IInv => AllRebuilt
  <2> SUFFICES ASSUME IInv, NEW d \in Node, epc[d] = "done"
               PROVE  /\ \A i \in Evls(d) : Len(m_M[d][i]) = InpCnt
                      /\ kx[d] = Len(chunks[d]) + 1
    BY DEF AllRebuilt
  <2>1. chunks[d] = DiffsOf(d)
    BY DEF IInv, Flow
  <2>2. /\ kx[d] = InpCnt * EvlsOf(d) + 1
        /\ \A i \in Evls(d) : Len(m_M[d][i]) = InpCnt
    BY DEF IInv, Counters
  <2>3. Len(DiffsOf(d)) = InpCnt * EvlsOf(d)
    <3>1. EvlsOf(d) \in Nat /\ InpCnt \in Nat
      BY EvlsCounted, ConsistencyAssumption DEF IInv
    <3>2. InpCnt * EvlsOf(d) \in Nat
      BY <3>1
    <3>3. DOMAIN DiffsOf(d) = 1 .. InpCnt * EvlsOf(d)
      BY DEF DiffsOf
    <3> DEFINE sent == DiffsOf(d)
               n == InpCnt * EvlsOf(d)
    <3>4. sent = [l \in 1 .. n |-> sent[l]]
      BY DEF DiffsOf
    <3> HIDE DEF sent, n
    <3>5. Len(sent) = n
      BY <3>2, <3>4 DEF n
    <3> QED
      BY <3>5 DEF sent, n
  <2> QED
    BY <2>1, <2>2, <2>3
<1> QED
  BY <1>1, ConsistencyCorrect, PTL
=============================================================================
