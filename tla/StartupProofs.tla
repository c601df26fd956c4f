--------------------------- MODULE StartupProofs ---------------------------
(***************************************************************************)
(* Proofs about the start-up: that every message read is one that was      *)
(* written, that the partners of a rank find each other, and that both     *)
(* roots have the same claw-free collection; for every number of nodes,    *)
(* every size of the chunks and of the messages, every split the kernel    *)
(* makes of them and every job that dies.                                  *)
(***************************************************************************)
EXTENDS Startup, FiniteSetTheorems, SequenceTheorems, WellFoundedInduction, TLAPS

-----------------------------------------------------------------------------
(***************************************************************************)
(* Induction and recursion, along the numbers up to a bound.               *)
(***************************************************************************)

\* A set of numbers that is not empty has a least one.
LEMMA Smallest ==
  ASSUME NEW S \in SUBSET Nat, S # {}
  PROVE  \E n \in S : \A m \in S : n <= m
<1> DEFINE I(n) == 0 .. n
           T == {I(n) : n \in S}
<1>1. IsWellFoundedOn(StrictSubsetOrdering(Nat), FiniteSubsetsOf(Nat))
  BY FS_StrictSubsetOrderingWellFounded
<1>2. T \subseteq FiniteSubsetsOf(Nat)
  <2>1. \A n \in S : I(n) \in SUBSET Nat /\ IsFiniteSet(I(n))
    BY FS_Interval
  <2> QED
    BY <2>1 DEF FiniteSubsetsOf
<1>3. T # {}
  OBVIOUS
<1>4. PICK x \in T : \A y \in T : ~ (<<y, x>> \in StrictSubsetOrdering(Nat))
  BY <1>1, <1>2, <1>3, WFMin
<1>5. PICK n \in S : x = I(n)
  OBVIOUS
<1>6. ASSUME NEW m \in S, m < n
      PROVE  FALSE
  <2>1. /\ I(m) \subseteq I(n) /\ I(m) # I(n) /\ I(m) \in T
        /\ I(m) \in SUBSET Nat /\ I(n) \in SUBSET Nat
    BY <1>6
  <2> QED
    BY <2>1, <1>4, <1>5 DEF StrictSubsetOrdering
<1> QED
  BY <1>6

\* Induction up to N, with a set for what is to be shown.
LEMMA UpTo ==
  ASSUME NEW N \in Nat, NEW P, 0 \in P, \A k \in 1 .. N : k - 1 \in P => k \in P
  PROVE  0 .. N \subseteq P
<1> DEFINE Missing == {n \in 0 .. N : n \notin P}
<1>1. Missing \in SUBSET Nat
  OBVIOUS
<1>2. ASSUME Missing # {}
      PROVE  FALSE
  <2>1. PICK n \in Missing : \A m \in Missing : n <= m
    <3> HIDE DEF Missing
    <3> QED
      BY <1>1, <1>2, Smallest
  <2>2. n \in 1 .. N /\ n - 1 \notin Missing
    BY <2>1
  <2> QED
    BY <2>2
<1> QED
  BY <1>2

\* f starts with a and takes the steps up to n.
Takes(f, a, step, n) ==
  f[0] = a /\ \A k \in 1 .. n : f[k] = step[k][f[k - 1]]

\* A function defined step by step along the numbers up to N.
LEMMA Steps ==
  ASSUME NEW S, NEW N \in Nat, NEW a \in S, NEW step \in [1 .. N -> [S -> S]]
  PROVE  \E f \in [0 .. N -> S] : Takes(f, a, step, N)
<1> DEFINE Built == {n \in 0 .. N : \E f \in [0 .. n -> S] : Takes(f, a, step, n)}
<1>1. 0 \in Built
  <2> DEFINE f == [k \in 0 .. 0 |-> a]
  <2>1. f \in [0 .. 0 -> S] /\ Takes(f, a, step, 0)
    BY DEF Takes
  <2>2. \E g \in [0 .. 0 -> S] : Takes(g, a, step, 0)
    BY <2>1
  <2> QED
    BY <2>2
<1>2. ASSUME NEW n \in 1 .. N, n - 1 \in Built
      PROVE  n \in Built
  <2>1. PICK f \in [0 .. n - 1 -> S] : Takes(f, a, step, n - 1)
    BY <1>2
  <2> DEFINE last == step[n][f[n - 1]]
             g == [k \in 0 .. n |-> IF k = n THEN last ELSE f[k]]
  <2>2. n - 1 \in 0 .. n - 1 /\ f[n - 1] \in S
    BY <2>1
  <2>3. last \in S
    BY <2>2
  <2>4. /\ g \in [0 .. n -> S]
        /\ \A k \in 0 .. n - 1 : g[k] = f[k]
        /\ g[n] = last
    <3> HIDE DEF last
    <3> QED
      BY <2>3
  <2>5. \A k \in 1 .. n : k - 1 \in 0 .. n - 1 /\ (k # n => k \in 1 .. n - 1 /\ k \in 0 .. n - 1)
    OBVIOUS
  <2>6. Takes(g, a, step, n)
    <3> HIDE DEF g
    <3> QED
      BY <2>1, <2>4, <2>5 DEF Takes
  <2>7. \E h \in [0 .. n -> S] : Takes(h, a, step, n)
    <3> HIDE DEF g
    <3> QED
      BY <2>4, <2>6
  <2> QED
    BY <2>7
<1>3. 0 .. N \subseteq Built
  <2> HIDE DEF Built
  <2> QED
    BY <1>1, <1>2, UpTo
<1> QED
  BY <1>3

\* There is only one.
LEMMA SameSteps ==
  ASSUME NEW N \in Nat, NEW a, NEW step, NEW f, NEW g,
         Takes(f, a, step, N), Takes(g, a, step, N)
  PROVE  \A k \in 0 .. N : f[k] = g[k]
<1> DEFINE Same == {k \in 0 .. N : f[k] = g[k]}
<1>1. 0 \in Same
  BY DEF Takes
<1>2. \A k \in 1 .. N : k - 1 \in Same => k \in Same
  BY DEF Takes
<1>3. 0 .. N \subseteq Same
  <2> HIDE DEF Same
  <2> QED
    BY <1>1, <1>2, UpTo
<1> QED
  BY <1>3

(***************************************************************************)
(* The header of a message.                                                *)
(***************************************************************************)

\* The equation of Shifted.
LEMMA ShiftedDef ==
  ASSUME NEW n \in Nat
  PROVE  /\ Shifted(n) \in [0 .. HEADER_SIZE -> Nat]
         /\ Shifted(n)[0] = n
         /\ \A k \in 1 .. HEADER_SIZE : Shifted(n)[k] = Shifted(n)[k - 1] \div Base
<1> DEFINE step == [k \in 1 .. HEADER_SIZE |-> [x \in Nat |-> x \div Base]]
           Eqn(f) == [k \in 0 .. HEADER_SIZE |-> IF k = 0 THEN n ELSE f[k - 1] \div Base]
<1>1. step \in [1 .. HEADER_SIZE -> [Nat -> Nat]] /\ HEADER_SIZE \in Nat
  BY NetIOAssumption
<1>2. PICK f \in [0 .. HEADER_SIZE -> Nat] : Takes(f, n, step, HEADER_SIZE)
  <2> HIDE DEF step
  <2> QED
    BY <1>1, Steps
<1>3. ASSUME NEW k \in 1 .. HEADER_SIZE
      PROVE  f[k] = f[k - 1] \div Base
  <2>1. k - 1 \in 0 .. HEADER_SIZE /\ f[k - 1] \in Nat
    BY NetIOAssumption
  <2>2. step[k][f[k - 1]] = f[k - 1] \div Base
    BY <2>1
  <2> QED
    BY <1>2, <2>2 DEF Takes
<1>4. f = Eqn(f)
  BY <1>2, <1>3 DEF Takes
<1>5. Shifted(n) = Eqn(Shifted(n))
  BY <1>4 DEF Shifted
<1>6. Shifted(n) = f
  <2> DEFINE g == Shifted(n)
             Same == {k \in 0 .. HEADER_SIZE : g[k] = f[k]}
  <2>1. g = Eqn(g)
    BY <1>5
  <2> HIDE DEF g
  <2>2. 0 \in Same
    BY <1>2, <2>1, NetIOAssumption DEF Takes
  <2>3. \A k \in 1 .. HEADER_SIZE : k - 1 \in Same => k \in Same
    BY <1>3, <2>1
  <2>4. 0 .. HEADER_SIZE \subseteq Same
    <3> HIDE DEF Same
    <3> QED
      BY <2>2, <2>3, <1>1, UpTo
  <2> QED
    BY <2>1, <2>4 DEF g
<1> QED
  BY <1>2, <1>3, <1>6 DEF Takes

\* The equation of Value.
LEMMA ValueDef ==
  ASSUME NEW b \in Seq(Byte), Len(b) = HEADER_SIZE
  PROVE  /\ Value(b)[0] = 0
         /\ \A k \in 1 .. HEADER_SIZE : Value(b)[k] = Value(b)[k - 1] * Base + b[k]
<1> DEFINE step == [k \in 1 .. HEADER_SIZE |-> [x \in Nat |-> x * Base + b[k]]]
           Eqn(f) == [k \in 0 .. HEADER_SIZE |-> IF k = 0 THEN 0 ELSE f[k - 1] * Base + b[k]]
<1>1. step \in [1 .. HEADER_SIZE -> [Nat -> Nat]] /\ HEADER_SIZE \in Nat
  <2>1. \A k \in 1 .. HEADER_SIZE : b[k] \in Nat
    BY NetIOAssumption DEF Byte
  <2>2. \A x \in Nat : x * Base \in Nat
    BY NetIOAssumption
  <2> QED
    BY <2>1, <2>2, NetIOAssumption
<1>2. PICK f \in [0 .. HEADER_SIZE -> Nat] : Takes(f, 0, step, HEADER_SIZE)
  <2> HIDE DEF step
  <2> QED
    BY <1>1, Steps
<1>3. ASSUME NEW k \in 1 .. HEADER_SIZE
      PROVE  f[k] = f[k - 1] * Base + b[k]
  <2>1. k - 1 \in 0 .. HEADER_SIZE /\ f[k - 1] \in Nat
    BY NetIOAssumption
  <2>2. step[k][f[k - 1]] = f[k - 1] * Base + b[k]
    BY <2>1
  <2> QED
    BY <1>2, <2>2 DEF Takes
<1>4. f = Eqn(f)
  BY <1>2, <1>3 DEF Takes
<1>5. Value(b) = Eqn(Value(b))
  BY <1>4 DEF Value
<1> HIDE DEF Eqn
<1>6. \A k \in 0 .. HEADER_SIZE :
         Value(b)[k] = IF k = 0 THEN 0 ELSE Value(b)[k - 1] * Base + b[k]
  BY <1>5 DEF Eqn
<1> QED
  BY <1>6, NetIOAssumption

\* A number divided and put together again.
LEMMA Rejoined ==
  ASSUME NEW x \in Nat
  PROVE  /\ x \div Base \in Nat /\ x % Base \in Byte
         /\ (x \div Base) * Base + (x % Base) = x
<1>1. x \div Base \in Nat /\ x % Base \in 0 .. Base - 1
  BY NetIOAssumption
<1>2. x = Base * (x \div Base) + (x % Base)
  BY NetIOAssumption
<1>3. \A q \in Nat : Base * q = q * Base
  BY NetIOAssumption
<1> QED
  BY <1>1, <1>2, <1>3 DEF Byte

\* A length comes out of its header as it went in.
LEMMA HeaderRead ==
  ASSUME NEW n, Fits(n)
  PROVE  htonl(n) \in Seq(Byte) /\ Len(htonl(n)) = HEADER_SIZE /\ ntohl(htonl(n)) = n
<1> DEFINE b == htonl(n)
           H == HEADER_SIZE
<1>0. n \in Nat /\ Shifted(n)[H] = 0 /\ H \in Nat \ {0}
  BY NetIOAssumption DEF Fits
<1>1. /\ Shifted(n) \in [0 .. H -> Nat] /\ Shifted(n)[0] = n
      /\ \A k \in 1 .. H : Shifted(n)[k] = Shifted(n)[k - 1] \div Base
  BY <1>0, ShiftedDef
<1>2. \A i \in 1 .. H : H - i \in 0 .. H /\ Shifted(n)[H - i] % Base \in Byte
  BY <1>0, <1>1, Rejoined
<1>3. b \in Seq(Byte) /\ Len(b) = H /\ \A i \in 1 .. H : b[i] = Shifted(n)[H - i] % Base
  <2>1. b \in [1 .. H -> Byte]
    BY <1>2 DEF htonl
  <2> QED
    BY <1>0, <2>1 DEF htonl
<1>4. /\ Value(b)[0] = 0
      /\ \A k \in 1 .. H : Value(b)[k] = Value(b)[k - 1] * Base + b[k]
  BY <1>3, ValueDef
<1> HIDE DEF b
<1> DEFINE Good == {k \in 0 .. H : Value(b)[k] = Shifted(n)[H - k]}
<1>5. 0 \in Good
  BY <1>0, <1>4
<1>6. ASSUME NEW k \in 1 .. H, k - 1 \in Good
      PROVE  k \in Good
  <2> DEFINE x == Shifted(n)[H - k]
  <2>1. H - k \in 0 .. H /\ H - k + 1 \in 1 .. H /\ H - k + 1 = H - (k - 1) /\ (H - k + 1) - 1 = H - k
    BY <1>0
  <2>2. x \in Nat /\ Shifted(n)[H - (k - 1)] = x \div Base
    BY <1>1, <2>1
  <2>3. Value(b)[k - 1] = x \div Base /\ b[k] = x % Base
    BY <1>3, <1>6, <2>2
  <2>4. Value(b)[k] = Value(b)[k - 1] * Base + b[k]
    BY <1>4
  <2>5. Value(b)[k] = x
    BY <2>2, <2>3, <2>4, Rejoined
  <2> QED
    BY <2>5
<1>7. 0 .. H \subseteq Good
  <2> HIDE DEF Good
  <2> QED
    BY <1>0, <1>5, <1>6, UpTo
<1>8. Value(b)[H] = Shifted(n)[0]
  BY <1>0, <1>7
<1> QED
  BY <1>1, <1>3, <1>8 DEF b, ntohl

(***************************************************************************)
(* The bytes of a link.  T are all bytes that are to go over it, for the   *)
(* messages S, and off says where each message ends.                       *)
(***************************************************************************)

\* s is what T has from position at on.
Piece(s, T, at) ==
  at + Len(s) <= Len(T) /\ \A k \in 1 .. Len(s) : s[k] = T[at + k]

\* The messages S lie framed in T, the k-th from off[k-1] on.
Framed(T, off, S) ==
  /\ S \in Seq(Seq(Byte))
  /\ T \in Seq(Byte)
  /\ off \in [0 .. Len(S) -> Nat]
  /\ off[0] = 0 /\ off[Len(S)] = Len(T)
  /\ \A k \in 1 .. Len(S) : /\ Fits(Len(S[k]))
                            /\ off[k] = off[k - 1] + HEADER_SIZE + Len(S[k])
                            /\ Piece(htonl(Len(S[k])), T, off[k - 1])
                            /\ Piece(S[k], T, off[k - 1] + HEADER_SIZE)

\* What a call of write_bytes and one of read_bytes keep.
Outgoing == [pc : {"idle", "chunks", "last"}, bytes : Seq(Byte), ix : Nat, sz : Nat,
             pend : Seq(Byte)]
Incoming == [pc : {"idle", "header", "chunk", "last"}, bytes : Seq(Byte), ix : Nat,
             size : Nat, sz : Nat, n : Nat, got : Seq(Byte)]

\* What the call o of write_bytes has not handed to the kernel is T from at on.
Sending(o, T, at) ==
  /\ o \in Outgoing
  /\ Piece(o.pend, T, at)
  /\ o.pc = "idle" => o.pend = << >>
  /\ o.pc # "chunks" => at + Len(o.pend) = Len(T)
  /\ o.pc = "chunks" =>
       /\ o.ix + o.sz = Len(o.bytes)
       /\ at + Len(o.pend) + o.sz = Len(T)
       /\ \A k \in 1 .. o.sz : o.bytes[o.ix + k] = T[at + Len(o.pend) + k]

\* The bytes the call i of read_bytes has taken from the stream.
Taken(i) ==
  IF i.pc = "idle" THEN 0
  ELSE IF i.pc = "header" THEN Len(i.got)
  ELSE HEADER_SIZE + i.ix + Len(i.got)

\* They are T from at on, where the message after the first h of S begins.
Receiving(i, S, h, T, at) ==
  /\ i \in Incoming
  /\ Len(i.got) <= i.n
  /\ i.pc = "idle" => i.got = << >>
  /\ i.pc = "header" => i.n = HEADER_SIZE /\ Piece(i.got, T, at)
  /\ i.pc \in {"chunk", "last"} =>
       /\ h < Len(S) /\ i.size = Len(S[h + 1])
       /\ i.ix = Len(i.bytes) /\ i.ix <= i.size /\ i.sz = i.size - i.ix
       /\ Piece(i.bytes, T, at + HEADER_SIZE)
       /\ Piece(i.got, T, at + HEADER_SIZE + i.ix)
  /\ i.pc = "chunk" => i.n = CHUNK_SIZE /\ i.sz > CHUNK_SIZE
  /\ i.pc = "last" => i.n = i.size - i.ix

\* The messages H have been read, the stream holds s; the sender is alive.
FlowOn(T, off, o, i, s, S, H, alive) ==
  /\ Framed(T, off, S)
  /\ Receiving(i, S, Len(H), T, off[Len(H)])
  /\ Piece(s, T, off[Len(H)] + Taken(i))
  /\ alive => Sending(o, T, off[Len(H)] + Taken(i) + Len(s))

\* One direction of a link: the sender's call o and the receiver's i, what is
\* under way, the messages said and those heard.
Flow(o, i, s, S, H, alive) ==
  /\ s \in Seq(Byte) /\ H \in Seq(Seq(Byte))
  /\ Len(H) <= Len(S) /\ \A k \in 1 .. Len(H) : H[k] = S[k]
  /\ \E T, off : FlowOn(T, off, o, i, s, S, H, alive)

-----------------------------------------------------------------------------
\* A piece is cut in two.
LEMMA PieceCut ==
  ASSUME NEW s \in Seq(Byte), NEW T \in Seq(Byte), NEW at \in Nat, Piece(s, T, at),
         NEW k \in 0 .. Len(s)
  PROVE  /\ SubSeq(s, 1, k) \in Seq(Byte) /\ SubSeq(s, k + 1, Len(s)) \in Seq(Byte)
         /\ Len(SubSeq(s, 1, k)) = k /\ Len(SubSeq(s, k + 1, Len(s))) = Len(s) - k
         /\ Piece(SubSeq(s, 1, k), T, at)
         /\ Piece(SubSeq(s, k + 1, Len(s)), T, at + k)
<1>1. Len(s) \in Nat /\ k \in Nat /\ Len(T) \in Nat /\ \A i \in 1 .. Len(s) : s[i] \in Byte
  OBVIOUS
<1>2. /\ SubSeq(s, 1, k) \in Seq(Byte) /\ Len(SubSeq(s, 1, k)) = k
      /\ \A i \in 1 .. k : SubSeq(s, 1, k)[i] = s[i]
  <2>1. \A i \in 1 .. k : s[i] \in Byte
    BY <1>1
  <2> QED
    BY <1>1, <2>1, SubSeqProperties
<1>3. /\ SubSeq(s, k + 1, Len(s)) \in Seq(Byte) /\ Len(SubSeq(s, k + 1, Len(s))) = Len(s) - k
      /\ \A i \in 1 .. Len(s) - k : SubSeq(s, k + 1, Len(s))[i] = s[k + i]
  <2>1. \A i \in k + 1 .. Len(s) : s[i] \in Byte
    BY <1>1
  <2>2. /\ SubSeq(s, k + 1, Len(s)) \in Seq(Byte)
        /\ Len(SubSeq(s, k + 1, Len(s))) = IF k + 1 <= Len(s) THEN Len(s) - (k + 1) + 1 ELSE 0
        /\ \A i \in 1 .. Len(s) - (k + 1) + 1 : SubSeq(s, k + 1, Len(s))[i] = s[(k + 1) + i - 1]
    BY <1>1, <2>1, SubSeqProperties
  <2>3. \A i \in 1 .. Len(s) - k : i \in 1 .. Len(s) - (k + 1) + 1 /\ (k + 1) + i - 1 = k + i
    BY <1>1
  <2> QED
    BY <1>1, <2>2, <2>3
<1>4. Piece(SubSeq(s, 1, k), T, at)
  BY <1>1, <1>2 DEF Piece
<1>5. Piece(SubSeq(s, k + 1, Len(s)), T, at + k)
  <2>1. \A i \in 1 .. Len(s) - k : s[k + i] = T[at + k + i]
    <3>1. \A i \in 1 .. Len(s) - k : k + i \in 1 .. Len(s) /\ at + (k + i) = at + k + i
      BY <1>1
    <3> QED
      BY <3>1 DEF Piece
  <2> DEFINE t == SubSeq(s, k + 1, Len(s))
  <2>2. Len(t) = Len(s) - k /\ \A i \in 1 .. Len(s) - k : t[i] = s[k + i]
    BY <1>3
  <2> HIDE DEF t
  <2>3. at + k + Len(t) <= Len(T)
    BY <1>1, <2>2 DEF Piece
  <2>4. Piece(t, T, at + k)
    BY <2>1, <2>2, <2>3 DEF Piece
  <2> QED
    BY <2>4 DEF t
<1> QED
  BY <1>2, <1>3, <1>4, <1>5

\* Two pieces, one behind the other, make up one.
LEMMA PieceJoin ==
  ASSUME NEW s \in Seq(Byte), NEW t \in Seq(Byte), NEW T \in Seq(Byte), NEW at \in Nat,
         Piece(s, T, at), Piece(t, T, at + Len(s))
  PROVE  s \o t \in Seq(Byte) /\ Len(s \o t) = Len(s) + Len(t) /\ Piece(s \o t, T, at)
<1>1. /\ s \o t \in Seq(Byte) /\ Len(s \o t) = Len(s) + Len(t)
      /\ \A i \in 1 .. Len(s) + Len(t) : (s \o t)[i] = IF i <= Len(s) THEN s[i] ELSE t[i - Len(s)]
  BY ConcatProperties
<1>2. Len(s) \in Nat /\ Len(t) \in Nat /\ Len(T) \in Nat
  OBVIOUS
<1>3. ASSUME NEW i \in 1 .. Len(s) + Len(t)
      PROVE  (s \o t)[i] = T[at + i]
  <2>1. CASE i <= Len(s)
    BY <1>1, <1>2, <2>1 DEF Piece
  <2>2. CASE i > Len(s)
    <3>1. i - Len(s) \in 1 .. Len(t) /\ at + Len(s) + (i - Len(s)) = at + i
      BY <1>2, <2>2
    <3>2. (s \o t)[i] = t[i - Len(s)]
      BY <1>1, <1>2, <2>2
    <3>3. t[i - Len(s)] = T[at + Len(s) + (i - Len(s))]
      BY <3>1 DEF Piece
    <3> QED
      BY <3>1, <3>2, <3>3
  <2> QED
    BY <1>2, <2>1, <2>2
<1> QED
  BY <1>1, <1>2, <1>3 DEF Piece

\* A piece of bytes is one of these and more bytes.
LEMMA PieceGrow ==
  ASSUME NEW s \in Seq(Byte), NEW T \in Seq(Byte), NEW U \in Seq(Byte), NEW at \in Nat,
         Piece(s, T, at)
  PROVE  T \o U \in Seq(Byte) /\ Len(T \o U) = Len(T) + Len(U) /\ Piece(s, T \o U, at)
<1>1. /\ T \o U \in Seq(Byte) /\ Len(T \o U) = Len(T) + Len(U)
      /\ \A i \in 1 .. Len(T) + Len(U) : (T \o U)[i] = IF i <= Len(T) THEN T[i] ELSE U[i - Len(T)]
  BY ConcatProperties
<1>2. Len(s) \in Nat /\ Len(T) \in Nat /\ Len(U) \in Nat
  OBVIOUS
<1>3. \A k \in 1 .. Len(s) : at + k \in 1 .. Len(T) + Len(U) /\ at + k <= Len(T)
  BY <1>2 DEF Piece
<1>4. \A k \in 1 .. Len(s) : (T \o U)[at + k] = T[at + k]
  BY <1>1, <1>3
<1> QED
  BY <1>1, <1>2, <1>4 DEF Piece

\* Who receives is at a place in what is to be sent.
LEMMA Place ==
  ASSUME NEW T, NEW off, NEW o, NEW i, NEW s \in Seq(Byte), NEW S, NEW H \in Seq(Seq(Byte)),
         NEW alive \in BOOLEAN, Len(H) <= Len(S), FlowOn(T, off, o, i, s, S, H, alive)
  PROVE  /\ T \in Seq(Byte) /\ Len(H) \in 0 .. Len(S) /\ Len(S) \in Nat
         /\ off[Len(H)] \in Nat /\ Taken(i) \in Nat /\ Len(s) \in Nat
         /\ off[Len(H)] + Taken(i) \in Nat
         /\ off[Len(H)] + Taken(i) + Len(s) \in Nat
         /\ i \in Incoming
<1>1. T \in Seq(Byte) /\ S \in Seq(Seq(Byte)) /\ off \in [0 .. Len(S) -> Nat] /\ i \in Incoming
  BY DEF FlowOn, Framed, Receiving
<1>2. Len(H) \in 0 .. Len(S) /\ Len(S) \in Nat /\ Len(s) \in Nat
  BY <1>1
<1>3. Taken(i) \in Nat
  BY <1>1, NetIOAssumption DEF Taken, Incoming
<1> QED
  BY <1>1, <1>2, <1>3

\* The kernel takes k bytes of the pending send.
LEMMA FlowSendSome ==
  ASSUME NEW o, NEW i, NEW s, NEW S, NEW H, Flow(o, i, s, S, H, TRUE), NEW k \in 1 .. Len(o.pend)
  PROVE  Flow([o EXCEPT !.pend = SubSeq(@, k + 1, Len(@))], i, s \o SubSeq(o.pend, 1, k), S, H, TRUE)
<1> DEFINE o2 == [o EXCEPT !.pend = SubSeq(@, k + 1, Len(@))]
           s2 == s \o SubSeq(o.pend, 1, k)
<1>1. PICK T, off : FlowOn(T, off, o, i, s, S, H, TRUE)
  BY DEF Flow
<1> DEFINE at == off[Len(H)] + Taken(i)
<1>2. /\ s \in Seq(Byte) /\ H \in Seq(Seq(Byte)) /\ T \in Seq(Byte) /\ at \in Nat /\ Len(s) \in Nat
      /\ at + Len(s) \in Nat
  BY <1>1, Place DEF Flow
<1>3. Piece(s, T, at) /\ Sending(o, T, at + Len(s))
  BY <1>1 DEF FlowOn
<1>4. o \in Outgoing /\ o.pend \in Seq(Byte) /\ Piece(o.pend, T, at + Len(s)) /\ k \in 0 .. Len(o.pend)
  BY <1>3 DEF Sending, Outgoing
<1> DEFINE head == SubSeq(o.pend, 1, k)
           tail == SubSeq(o.pend, k + 1, Len(o.pend))
<1> HIDE DEF at
<1>5. /\ head \in Seq(Byte) /\ tail \in Seq(Byte)
      /\ Len(head) = k /\ Len(tail) = Len(o.pend) - k
      /\ Piece(head, T, at + Len(s)) /\ Piece(tail, T, at + Len(s) + k)
  BY <1>2, <1>4, PieceCut
<1> HIDE DEF head, tail
<1>6. s \o head \in Seq(Byte) /\ Len(s \o head) = Len(s) + k /\ Piece(s \o head, T, at)
  BY <1>2, <1>3, <1>5, PieceJoin
<1>7. o2 = [o EXCEPT !.pend = tail]
  BY DEF tail
<1> HIDE DEF o2
<1>8. o2 \in Outgoing /\ o2.pc = o.pc /\ o2.bytes = o.bytes /\ o2.ix = o.ix /\ o2.sz = o.sz /\ o2.pend = tail
  BY <1>4, <1>5, <1>7 DEF Outgoing
<1>9. Sending(o2, T, at + Len(s \o head))
  <2> DEFINE n == Len(o.pend)
  <2>0. n \in Nat /\ k \in Nat /\ Len(tail) = n - k
    BY <1>4, <1>5
  <2> HIDE DEF n
  <2>1. at + Len(s) + k + Len(tail) = at + Len(s) + n
    BY <1>2, <2>0
  <2>2. o.pc # "idle"
    BY <1>3, <1>4 DEF Sending
  <2>3. at + Len(s \o head) = at + Len(s) + k
    BY <1>2, <1>4, <1>6
  <2> QED
    BY <1>3, <1>5, <1>8, <2>1, <2>2, <2>3 DEF Sending, n
<1>10. FlowOn(T, off, o2, i, s \o head, S, H, TRUE)
  BY <1>1, <1>6, <1>9 DEF FlowOn, at
<1> QED
  BY <1>6, <1>10 DEF Flow, head, o2

\* The next chunk, or the rest, is given to send.
NextChunk(o) ==
  [o EXCEPT !.pend = SubSeq(o.bytes, o.ix + 1, o.ix + CHUNK_SIZE),
            !.sz = @ - CHUNK_SIZE, !.ix = @ + CHUNK_SIZE]

TheRest(o) == [o EXCEPT !.pend = SubSeq(o.bytes, o.ix + 1, Len(o.bytes)), !.pc = "last"]

\* What is given to send lies where the last piece ended.
LEMMA FlowSendNext ==
  ASSUME NEW o, NEW i, NEW s, NEW S, NEW H, Flow(o, i, s, S, H, TRUE),
         o.pc = "chunks", o.pend = << >>
  PROVE  /\ o.sz > CHUNK_SIZE => Flow(NextChunk(o), i, s, S, H, TRUE)
         /\ Flow(TheRest(o), i, s, S, H, TRUE)
<1>1. PICK T, off : FlowOn(T, off, o, i, s, S, H, TRUE)
  BY DEF Flow
<1> DEFINE at == off[Len(H)] + Taken(i) + Len(s)
<1>2. s \in Seq(Byte) /\ H \in Seq(Seq(Byte)) /\ T \in Seq(Byte) /\ at \in Nat
  BY <1>1, Place DEF Flow
<1>3. Sending(o, T, at)
  BY <1>1 DEF FlowOn
<1> HIDE DEF at
<1>4. /\ o \in Outgoing /\ o.bytes \in Seq(Byte) /\ o.ix \in Nat /\ o.sz \in Nat
      /\ o.ix + o.sz = Len(o.bytes) /\ at + o.sz = Len(T)
      /\ \A k \in 1 .. o.sz : o.bytes[o.ix + k] = T[at + k]
      /\ Len(o.bytes) \in Nat /\ \A k \in 1 .. Len(o.bytes) : o.bytes[k] \in Byte
  <2>1. o \in Outgoing
    BY <1>3 DEF Sending
  <2>2. /\ o.ix + o.sz = Len(o.bytes)
        /\ at + 0 + o.sz = Len(T)
        /\ \A k \in 1 .. o.sz : o.bytes[o.ix + k] = T[at + 0 + k]
    BY <1>3 DEF Sending
  <2> QED
    BY <1>2, <2>1, <2>2 DEF Outgoing
\* What is given is a piece.
<1>5. ASSUME NEW n \in Nat, n <= o.sz
      PROVE  LET p == SubSeq(o.bytes, o.ix + 1, o.ix + n)
             IN  p \in Seq(Byte) /\ Len(p) = n /\ Piece(p, T, at)
  <2> DEFINE ix == o.ix
             sz == o.sz
             b == o.bytes
             p == SubSeq(b, ix + 1, ix + n)
  <2>1. /\ ix \in Nat /\ sz \in Nat /\ n <= sz /\ ix + sz = Len(b) /\ at + sz = Len(T)
        /\ \A k \in 1 .. sz : b[ix + k] = T[at + k]
        /\ \A k \in 1 .. Len(b) : b[k] \in Byte
    BY <1>4, <1>5
  <2> HIDE DEF ix, sz, b
  <2>2. \A k \in ix + 1 .. ix + n : b[k] \in Byte
    BY <2>1
  <2>3. /\ p \in Seq(Byte)
        /\ Len(p) = IF ix + 1 <= ix + n THEN (ix + n) - (ix + 1) + 1 ELSE 0
        /\ \A k \in 1 .. (ix + n) - (ix + 1) + 1 : p[k] = b[(ix + 1) + k - 1]
    BY <2>1, <2>2, SubSeqProperties
  <2>4. \A k \in 1 .. n : k \in 1 .. (ix + n) - (ix + 1) + 1 /\ (ix + 1) + k - 1 = ix + k
                          /\ k \in 1 .. sz
    BY <2>1
  <2> HIDE DEF p
  <2>5. Len(p) = n /\ \A k \in 1 .. n : p[k] = b[ix + k]
    BY <2>1, <2>3, <2>4
  <2>6. at + n <= Len(T)
    BY <1>2, <2>1
  <2>7. \A k \in 1 .. n : p[k] = T[at + k]
    BY <2>1, <2>4, <2>5
  <2>8. Piece(p, T, at)
    BY <2>5, <2>6, <2>7 DEF Piece
  <2> QED
    BY <2>3, <2>5, <2>8 DEF p, b, ix
<1>6. ASSUME o.sz > CHUNK_SIZE
      PROVE  Flow(NextChunk(o), i, s, S, H, TRUE)
  <2> DEFINE p == SubSeq(o.bytes, o.ix + 1, o.ix + CHUNK_SIZE)
             o2 == [o EXCEPT !.pend = p, !.sz = @ - CHUNK_SIZE, !.ix = @ + CHUNK_SIZE]
  <2>1. p \in Seq(Byte) /\ Len(p) = CHUNK_SIZE /\ Piece(p, T, at) /\ CHUNK_SIZE \in Nat
    <3>1. CHUNK_SIZE \in Nat /\ CHUNK_SIZE <= o.sz
      BY <1>4, <1>6, NetIOAssumption
    <3> QED
      BY <1>5, <3>1
  <2> HIDE DEF p
  <2>2. /\ o2 \in Outgoing /\ o2.pc = "chunks" /\ o2.bytes = o.bytes /\ o2.pend = p
        /\ o2.ix = o.ix + CHUNK_SIZE /\ o2.sz = o.sz - CHUNK_SIZE
    <3> DEFINE ix == o.ix
               sz == o.sz
    <3>0. ix \in Nat /\ sz \in Nat /\ sz > CHUNK_SIZE /\ CHUNK_SIZE \in Nat
      BY <1>4, <1>6, <2>1
    <3>1. ix + CHUNK_SIZE \in Nat /\ sz - CHUNK_SIZE \in Nat
      <4> HIDE DEF ix, sz
      <4> QED
        BY <3>0
    <3> QED
      BY <1>4, <2>1, <3>1 DEF Outgoing
  <2> HIDE DEF o2
  <2>3. \A k \in 1 .. o2.sz : /\ CHUNK_SIZE + k \in 1 .. o.sz
                              /\ o2.ix + k = o.ix + (CHUNK_SIZE + k)
                              /\ at + CHUNK_SIZE + k = at + (CHUNK_SIZE + k)
    <3>1. \A a, b, c, d \in Nat : \A k \in 1 .. (c - b) :
             b + k \in 1 .. c /\ (a + b) + k = a + (b + k) /\ d + b + k = d + (b + k)
      OBVIOUS
    <3>2. o.ix \in Nat /\ o.sz \in Nat /\ CHUNK_SIZE \in Nat /\ at \in Nat
      BY <1>2, <1>4, <2>1
    <3>3. o2.ix = o.ix + CHUNK_SIZE /\ o2.sz = o.sz - CHUNK_SIZE
      BY <2>2
    <3> QED
      BY <3>1, <3>2, <3>3
  <2>4. \A k \in 1 .. o2.sz : o2.bytes[o2.ix + k] = T[at + CHUNK_SIZE + k]
    BY <1>4, <2>2, <2>3
  <2>5. o2.ix + o2.sz = Len(o2.bytes) /\ at + CHUNK_SIZE + o2.sz = Len(T)
    <3>1. \A a, b, c \in Nat : (a + c) + (b - c) = a + b
      OBVIOUS
    <3> QED
      BY <1>2, <1>4, <2>1, <2>2, <3>1
  <2>6. Sending(o2, T, at)
    BY <2>1, <2>2, <2>4, <2>5 DEF Sending
  <2>7. FlowOn(T, off, o2, i, s, S, H, TRUE)
    BY <1>1, <2>6 DEF FlowOn, at
  <2> QED
    BY <2>7 DEF Flow, o2, p, NextChunk
<1>7. Flow(TheRest(o), i, s, S, H, TRUE)
  <2> DEFINE p == SubSeq(o.bytes, o.ix + 1, Len(o.bytes))
             o2 == [o EXCEPT !.pend = p, !.pc = "last"]
  <2>1. p \in Seq(Byte) /\ Len(p) = o.sz /\ Piece(p, T, at)
    <3>1. o.sz \in Nat /\ o.sz <= o.sz /\ o.ix + o.sz = Len(o.bytes)
      BY <1>4
    <3>2. p = SubSeq(o.bytes, o.ix + 1, o.ix + o.sz)
      BY <3>1
    <3> QED
      BY <1>5, <3>1, <3>2
  <2> HIDE DEF p
  <2>2. o2 \in Outgoing /\ o2.pc = "last" /\ o2.pend = p
    BY <1>4, <2>1 DEF Outgoing
  <2> HIDE DEF o2
  <2>3. Sending(o2, T, at)
    BY <1>4, <2>1, <2>2 DEF Sending
  <2>4. FlowOn(T, off, o2, i, s, S, H, TRUE)
    BY <1>1, <2>3 DEF FlowOn, at
  <2> QED
    BY <2>4 DEF Flow, o2, p, TheRest
<1> QED
  BY <1>6, <1>7

\* No bytes at all.
LEMMA PieceNone ==
  ASSUME NEW T \in Seq(Byte), NEW at \in Nat, at <= Len(T)
  PROVE  << >> \in Seq(Byte) /\ Len(<< >>) = 0 /\ Piece(<< >>, T, at)
<1>1. << >> \in Seq(Byte) /\ Len(<< >>) = 0 /\ Len(T) \in Nat
  OBVIOUS
<1> QED
  BY <1>1 DEF Piece

\* The calls have not been made, or are over: the sender.
LEMMA FlowWritten ==
  ASSUME NEW o, NEW i, NEW s, NEW S, NEW H, Flow(o, i, s, S, H, TRUE),
         o.pc = "last", o.pend = << >>
  PROVE  Flow(NoWrite, i, s, S, H, TRUE)
<1>1. PICK T, off : FlowOn(T, off, o, i, s, S, H, TRUE)
  BY DEF Flow
<1> DEFINE at == off[Len(H)] + Taken(i) + Len(s)
<1>0. s \in Seq(Byte) /\ H \in Seq(Seq(Byte)) /\ T \in Seq(Byte) /\ at \in Nat
  BY <1>1, Place DEF Flow
<1>2. s \in Seq(Byte) /\ H \in Seq(Seq(Byte)) /\ T \in Seq(Byte) /\ at \in Nat /\ Len(T) \in Nat
  BY <1>0
<1>3. Sending(o, T, at)
  BY <1>1 DEF FlowOn
<1> HIDE DEF at
<1>4. at = Len(T)
  BY <1>2, <1>3 DEF Sending
<1>5. << >> \in Seq(Byte) /\ Len(<< >>) = 0 /\ Piece(<< >>, T, at)
  BY <1>2, <1>4, PieceNone
<1>6. /\ NoWrite \in Outgoing /\ NoWrite.pc = "idle" /\ NoWrite.pend = << >>
  BY <1>5 DEF NoWrite, Outgoing
<1>7. at + Len(<< >>) = Len(T)
  BY <1>2, <1>4, <1>5
<1>8. Sending(NoWrite, T, at)
  <2> HIDE DEF NoWrite
  <2> QED
    BY <1>5, <1>6, <1>7 DEF Sending
<1>9. FlowOn(T, off, NoWrite, i, s, S, H, TRUE)
  BY <1>1, <1>8 DEF FlowOn, at
<1> QED
  BY <1>9 DEF Flow

\* A sender that has ended promises less.
LEMMA FlowEnds ==
  ASSUME NEW o, NEW i, NEW s, NEW S, NEW H, NEW alive \in BOOLEAN, Flow(o, i, s, S, H, alive)
  PROVE  Flow(o, i, s, S, H, FALSE)
<1>1. PICK T, off : FlowOn(T, off, o, i, s, S, H, alive)
  BY DEF Flow
<1>2. FlowOn(T, off, o, i, s, S, H, FALSE)
  BY <1>1 DEF FlowOn
<1> QED
  BY <1>2 DEF Flow

\* The beginning.
LEMMA FlowStart ==
  Flow(NoWrite, NoRead, << >>, << >>, << >>, TRUE)
<1> DEFINE T == << >>
           off == [k \in 0 .. 0 |-> 0]
<1>1. /\ << >> \in Seq(Byte) /\ << >> \in Seq(Seq(Byte)) /\ Len(<< >>) = 0
      /\ Piece(<< >>, << >>, 0)
  <2>1. << >> \in Seq(Byte) /\ Len(<< >>) = 0 /\ 0 \in Nat /\ 0 <= Len(<< >>)
        /\ << >> \in Seq(Seq(Byte))
    OBVIOUS
  <2>2. Piece(<< >>, << >>, 0)
    BY <2>1, PieceNone
  <2> QED
    BY <2>1, <2>2
<1>2. off \in [0 .. 0 -> Nat] /\ off[0] = 0
  OBVIOUS
<1>3. Framed(T, off, << >>)
  BY <1>1, <1>2 DEF Framed
<1>4. Receiving(NoRead, << >>, 0, T, 0)
  BY <1>1 DEF Receiving, NoRead, Incoming
<1>5. Taken(NoRead) = 0
  BY DEF Taken, NoRead
<1>6. Sending(NoWrite, T, 0)
  BY <1>1 DEF Sending, NoWrite, Outgoing
<1>7. off[0] + 0 = 0 /\ off[0] + 0 + 0 = 0
  BY <1>2
<1>8. FlowOn(T, off, NoWrite, NoRead, << >>, << >>, << >>, TRUE)
  <2> HIDE DEF off, T
  <2> QED
    BY <1>1, <1>2, <1>3, <1>4, <1>5, <1>6, <1>7 DEF FlowOn, T
<1> QED
  BY <1>1, <1>8 DEF Flow

\* What one more message adds to the bytes of a link.
LEMMA FramedGrow ==
  ASSUME NEW T, NEW off, NEW S, Framed(T, off, S), NEW m, Sendable(m)
  PROVE  LET h == htonl(Len(m))
             T2 == T \o (h \o m)
             off2 == [k \in 0 .. Len(S) + 1 |->
                        IF k = Len(S) + 1 THEN Len(T) + HEADER_SIZE + Len(m) ELSE off[k]]
         IN  /\ Framed(T2, off2, Append(S, m))
             /\ \A k \in 0 .. Len(S) : off2[k] = off[k]
             /\ Len(T2) = Len(T) + HEADER_SIZE + Len(m)
             /\ h \in Seq(Byte) /\ Len(h) = HEADER_SIZE
             /\ Piece(h, T2, Len(T)) /\ Piece(m, T2, Len(T) + HEADER_SIZE)
             /\ \A p \in Seq(Byte) : \A at \in Nat : Piece(p, T, at) => Piece(p, T2, at)
<1> DEFINE h == htonl(Len(m))
           U == h \o m
           T2 == T \o U
           n == Len(S)
           t == Len(T)
           off2 == [k \in 0 .. n + 1 |->
                        IF k = n + 1 THEN t + HEADER_SIZE + Len(m) ELSE off[k]]
<1>1. /\ S \in Seq(Seq(Byte)) /\ T \in Seq(Byte) /\ off \in [0 .. n -> Nat]
      /\ off[0] = 0 /\ off[n] = t /\ n \in Nat /\ t \in Nat
  BY DEF Framed
<1>2. m \in Seq(Byte) /\ Len(m) \in Nat /\ HEADER_SIZE \in Nat
  BY NetIOAssumption DEF Sendable
<1>3. h \in Seq(Byte) /\ Len(h) = HEADER_SIZE
  BY HeaderRead DEF Sendable
<1> HIDE DEF h
<1>4. /\ U \in Seq(Byte) /\ Len(U) = HEADER_SIZE + Len(m)
      /\ \A j \in 1 .. HEADER_SIZE + Len(m) :
            U[j] = IF j <= HEADER_SIZE THEN h[j] ELSE m[j - HEADER_SIZE]
  BY <1>2, <1>3, ConcatProperties
<1> HIDE DEF U
<1>5. /\ T2 \in Seq(Byte) /\ Len(T2) = t + Len(U)
      /\ \A j \in 1 .. t + Len(U) : T2[j] = IF j <= t THEN T[j] ELSE U[j - t]
  <2>1. T \in Seq(Byte) /\ U \in Seq(Byte)
    BY <1>1, <1>4
  <2> QED
    BY <2>1, ConcatProperties
<1>6. \A p \in Seq(Byte) : \A at \in Nat : Piece(p, T, at) => Piece(p, T2, at)
  BY <1>1, <1>4, PieceGrow
<1> HIDE DEF T2, n, t
<1>7. Len(T2) = t + HEADER_SIZE + Len(m)
  BY <1>1, <1>2, <1>4, <1>5
<1>8. Piece(h, T2, t)
  <2>1. \A j \in 1 .. HEADER_SIZE : t + j \in 1 .. t + Len(U) /\ ~ (t + j <= t) /\ (t + j) - t = j
                                    /\ j \in 1 .. HEADER_SIZE + Len(m) /\ j <= HEADER_SIZE
    BY <1>1, <1>2, <1>4
  <2>2. \A j \in 1 .. HEADER_SIZE : T2[t + j] = h[j]
    BY <1>4, <1>5, <2>1
  <2>3. t + HEADER_SIZE <= Len(T2)
    BY <1>1, <1>2, <1>7
  <2> QED
    BY <1>3, <2>2, <2>3 DEF Piece
<1>9. Piece(m, T2, t + HEADER_SIZE)
  <2>1. \A j \in 1 .. Len(m) : /\ t + HEADER_SIZE + j \in 1 .. t + Len(U)
                               /\ ~ (t + HEADER_SIZE + j <= t)
                               /\ (t + HEADER_SIZE + j) - t = HEADER_SIZE + j
                               /\ HEADER_SIZE + j \in 1 .. HEADER_SIZE + Len(m)
                               /\ ~ (HEADER_SIZE + j <= HEADER_SIZE)
                               /\ (HEADER_SIZE + j) - HEADER_SIZE = j
    BY <1>1, <1>2, <1>4, NetIOAssumption
  <2>2. \A j \in 1 .. Len(m) : T2[t + HEADER_SIZE + j] = m[j]
    BY <1>4, <1>5, <2>1
  <2>3. t + HEADER_SIZE + Len(m) <= Len(T2)
    BY <1>1, <1>2, <1>7
  <2> QED
    BY <2>2, <2>3 DEF Piece
<1>10. /\ Append(S, m) \in Seq(Seq(Byte)) /\ Len(Append(S, m)) = n + 1
       /\ \A k \in 1 .. n : Append(S, m)[k] = S[k]
       /\ Append(S, m)[n + 1] = m
  BY <1>1, <1>2, AppendProperties DEF n
<1>11. /\ off2 \in [0 .. n + 1 -> Nat]
       /\ \A k \in 0 .. n : off2[k] = off[k]
       /\ off2[n + 1] = t + HEADER_SIZE + Len(m)
  <2>1. t + HEADER_SIZE + Len(m) \in Nat
    BY <1>1, <1>2
  <2>2. \A k \in 0 .. n + 1 : k = n + 1 \/ (k \in 0 .. n /\ off[k] \in Nat)
    BY <1>1
  <2>3. \A k \in 0 .. n : k \in 0 .. n + 1 /\ k # n + 1
    BY <1>1
  <2>4. n + 1 \in 0 .. n + 1
    BY <1>1
  <2> QED
    BY <2>1, <2>2, <2>3, <2>4
<1> HIDE DEF off2
<1>12. ASSUME NEW k \in 1 .. n + 1
       PROVE  LET x == Append(S, m)[k] IN
              /\ Fits(Len(x))
              /\ off2[k] = off2[k - 1] + HEADER_SIZE + Len(x)
              /\ Piece(htonl(Len(x)), T2, off2[k - 1])
              /\ Piece(x, T2, off2[k - 1] + HEADER_SIZE)
  <2>1. CASE k = n + 1
    <3>1. k - 1 = n /\ n \in 0 .. n
      BY <1>1, <2>1
    <3>2. off2[k - 1] = t /\ off2[k] = t + HEADER_SIZE + Len(m) /\ Append(S, m)[k] = m
      BY <1>1, <1>10, <1>11, <2>1, <3>1
    <3> QED
      BY <1>8, <1>9, <3>2 DEF Sendable, h
  <2>2. CASE k # n + 1
    <3>1. k \in 1 .. n /\ k \in 0 .. n /\ k - 1 \in 0 .. n
      BY <1>1, <2>2
    <3>2. off2[k] = off[k] /\ off2[k - 1] = off[k - 1] /\ Append(S, m)[k] = S[k]
          /\ off[k - 1] \in Nat /\ off[k - 1] + HEADER_SIZE \in Nat
      <4>1. off2[k] = off[k] /\ off2[k - 1] = off[k - 1] /\ Append(S, m)[k] = S[k]
        BY <1>10, <1>11, <3>1
      <4>2. off[k - 1] \in Nat
        BY <1>1, <3>1
      <4> QED
        BY <1>2, <4>1, <4>2
    <3>3. /\ Fits(Len(S[k]))
          /\ off[k] = off[k - 1] + HEADER_SIZE + Len(S[k])
          /\ Piece(htonl(Len(S[k])), T, off[k - 1])
          /\ Piece(S[k], T, off[k - 1] + HEADER_SIZE)
      BY <3>1 DEF Framed, n
    <3>4. htonl(Len(S[k])) \in Seq(Byte) /\ S[k] \in Seq(Byte)
      BY <1>1, <3>1, <3>3, HeaderRead DEF n
    <3> QED
      BY <1>6, <3>2, <3>3, <3>4
  <2> QED
    BY <2>1, <2>2
<1>13. Framed(T2, off2, Append(S, m))
  <2>1. 0 \in 0 .. n
    BY <1>1
  <2> QED
    BY <1>1, <1>5, <1>7, <1>10, <1>11, <1>12, <2>1 DEF Framed
<1> QED
  BY <1>3, <1>6, <1>7, <1>8, <1>9, <1>11, <1>13 DEF T2, U, h, off2, n, t

\* What is received is so too when the messages are followed by one more.
LEMMA ReceivingGrow ==
  ASSUME NEW T \in Seq(Byte), NEW T2 \in Seq(Byte), NEW S \in Seq(Seq(Byte)), NEW m \in Seq(Byte),
         NEW i, NEW h \in 0 .. Len(S), NEW at \in Nat, Receiving(i, S, h, T, at),
         \A p \in Seq(Byte) : \A a \in Nat : Piece(p, T, a) => Piece(p, T2, a)
  PROVE  Receiving(i, Append(S, m), h, T2, at)
<1>1. /\ Append(S, m) \in Seq(Seq(Byte)) /\ Len(Append(S, m)) = Len(S) + 1 /\ Len(S) \in Nat
      /\ \A k \in 1 .. Len(S) : Append(S, m)[k] = S[k]
  BY AppendProperties
<1>2. i \in Incoming /\ i.got \in Seq(Byte) /\ i.bytes \in Seq(Byte)
  BY DEF Receiving, Incoming
<1>3. at + HEADER_SIZE \in Nat /\ at + HEADER_SIZE + i.ix \in Nat
  <2>1. i.ix \in Nat
    BY <1>2 DEF Incoming
  <2> QED
    BY <2>1, NetIOAssumption
<1>4. h < Len(S) => h < Len(Append(S, m)) /\ Append(S, m)[h + 1] = S[h + 1]
  BY <1>1
<1> QED
  BY <1>1, <1>2, <1>3, <1>4 DEF Receiving

\* The sender starts to write the message m.
LEMMA FlowWrite ==
  ASSUME NEW o, NEW i, NEW s, NEW S, NEW H, Flow(o, i, s, S, H, TRUE), o.pc = "idle",
         NEW m, Sendable(m)
  PROVE  Flow([pc |-> "chunks", bytes |-> m, ix |-> 0, sz |-> Len(m), pend |-> htonl(Len(m))],
              i, s, Append(S, m), H, TRUE)
<1>1. PICK T, off : FlowOn(T, off, o, i, s, S, H, TRUE)
  BY DEF Flow
<1> DEFINE at == off[Len(H)] + Taken(i) + Len(s)
           h == htonl(Len(m))
           T2 == T \o (h \o m)
           off2 == [k \in 0 .. Len(S) + 1 |->
                        IF k = Len(S) + 1 THEN Len(T) + HEADER_SIZE + Len(m) ELSE off[k]]
           o2 == [pc |-> "chunks", bytes |-> m, ix |-> 0, sz |-> Len(m), pend |-> h]
<1>2. /\ s \in Seq(Byte) /\ H \in Seq(Seq(Byte)) /\ T \in Seq(Byte) /\ at \in Nat
      /\ Len(H) \in 0 .. Len(S) /\ off[Len(H)] \in Nat /\ off[Len(H)] + Taken(i) \in Nat
      /\ Len(H) <= Len(S) /\ \A k \in 1 .. Len(H) : H[k] = S[k]
  BY <1>1, Place DEF Flow
<1>3. /\ Framed(T, off, S) /\ Receiving(i, S, Len(H), T, off[Len(H)])
      /\ Piece(s, T, off[Len(H)] + Taken(i)) /\ Sending(o, T, at)
  BY <1>1 DEF FlowOn
<1>4. m \in Seq(Byte) /\ Len(m) \in Nat /\ HEADER_SIZE \in Nat /\ Len(T) \in Nat
      /\ S \in Seq(Seq(Byte)) /\ Len(S) \in Nat
  BY <1>2, <1>3, NetIOAssumption DEF Sendable, Framed
<1>5. /\ Framed(T2, off2, Append(S, m))
      /\ \A k \in 0 .. Len(S) : off2[k] = off[k]
      /\ Len(T2) = Len(T) + HEADER_SIZE + Len(m)
      /\ h \in Seq(Byte) /\ Len(h) = HEADER_SIZE
      /\ Piece(h, T2, Len(T)) /\ Piece(m, T2, Len(T) + HEADER_SIZE)
      /\ \A p \in Seq(Byte) : \A a \in Nat : Piece(p, T, a) => Piece(p, T2, a)
  BY <1>3, FramedGrow
<1> HIDE DEF T2, off2, h, at
<1>6. at = Len(T)
  <2>1. at + Len(<< >>) = Len(T)
    BY <1>3 DEF Sending
  <2> QED
    BY <1>2, <2>1
<1>7. T2 \in Seq(Byte) /\ off2[Len(H)] = off[Len(H)]
  BY <1>2, <1>5 DEF Framed
<1>8. Receiving(i, Append(S, m), Len(H), T2, off2[Len(H)])
  BY <1>2, <1>3, <1>4, <1>5, <1>7, ReceivingGrow
<1>9. Piece(s, T2, off2[Len(H)] + Taken(i))
  BY <1>2, <1>3, <1>5, <1>7
<1>10. Sending(o2, T2, at)
  <2>1. o2 \in Outgoing
    BY <1>4, <1>5 DEF Outgoing
  <2>2. \A k \in 1 .. Len(m) : m[0 + k] = T2[at + Len(h) + k]
    BY <1>4, <1>5, <1>6 DEF Piece
  <2>3. 0 + Len(m) = Len(m) /\ at + Len(h) + Len(m) = Len(T2)
    BY <1>4, <1>5, <1>6
  <2> QED
    BY <1>5, <1>6, <2>1, <2>2, <2>3 DEF Sending
<1>11. FlowOn(T2, off2, o2, i, s, Append(S, m), H, TRUE)
  BY <1>5, <1>7, <1>8, <1>9, <1>10 DEF FlowOn, at
<1>12. Len(H) <= Len(Append(S, m)) /\ \A k \in 1 .. Len(H) : H[k] = Append(S, m)[k]
  <2>1. Len(Append(S, m)) = Len(S) + 1 /\ \A k \in 1 .. Len(S) : Append(S, m)[k] = S[k]
    BY <1>4, AppendProperties
  <2> QED
    BY <1>2, <1>4, <2>1
<1> HIDE DEF o2
<1>13. Flow(o2, i, s, Append(S, m), H, TRUE)
  BY <1>2, <1>11, <1>12 DEF Flow
<1> QED
  BY <1>13 DEF o2, h

-----------------------------------------------------------------------------
\* The receiver waits for a header.
Asked(i) == [i EXCEPT !.pc = "header", !.n = HEADER_SIZE]

\* The receiver starts to read.
LEMMA FlowRead ==
  ASSUME NEW o, NEW i, NEW s, NEW S, NEW H, NEW alive \in BOOLEAN, Flow(o, i, s, S, H, alive),
         i.pc = "idle"
  PROVE  Flow(o, Asked(i), s, S, H, alive)
<1>1. PICK T, off : FlowOn(T, off, o, i, s, S, H, alive)
  BY DEF Flow
<1> DEFINE at == off[Len(H)]
           i2 == [i EXCEPT !.pc = "header", !.n = HEADER_SIZE]
<1>2. s \in Seq(Byte) /\ H \in Seq(Seq(Byte)) /\ T \in Seq(Byte) /\ at \in Nat /\ i \in Incoming
      /\ at + Taken(i) \in Nat
  BY <1>1, Place DEF Flow
<1>3. Receiving(i, S, Len(H), T, at) /\ i.got = << >> /\ Piece(s, T, at + Taken(i))
  BY <1>1 DEF FlowOn, Receiving
<1> HIDE DEF at
<1>4. i2 \in Incoming /\ i2.pc = "header" /\ i2.n = HEADER_SIZE /\ i2.got = << >>
  BY <1>2, <1>3, NetIOAssumption DEF Incoming
<1> HIDE DEF i2
<1>5. Len(<< >>) = 0 /\ << >> \in Seq(Byte) /\ HEADER_SIZE \in Nat
  BY NetIOAssumption
<1>6. Taken(i2) = Taken(i) /\ Taken(i) = 0
  BY <1>4, <1>5 DEF Taken
<1>7. at <= Len(T)
  <2>1. Len(s) \in Nat /\ Len(T) \in Nat
    BY <1>2
  <2> QED
    BY <1>2, <1>3, <1>6, <2>1 DEF Piece
<1>8. Piece(<< >>, T, at)
  BY <1>2, <1>7, PieceNone
<1>9. Receiving(i2, S, Len(H), T, at)
  BY <1>4, <1>5, <1>8 DEF Receiving
<1>10. FlowOn(T, off, o, i2, s, S, H, alive)
  BY <1>1, <1>6, <1>9 DEF FlowOn, at
<1> QED
  BY <1>10 DEF Flow, i2, Asked

\* One recv brings k bytes of the stream.
LEMMA FlowRecvSome ==
  ASSUME NEW o, NEW i, NEW s, NEW S, NEW H, NEW alive \in BOOLEAN, Flow(o, i, s, S, H, alive),
         i.pc # "idle", NEW k \in 1 .. i.n - Len(i.got), k <= Len(s)
  PROVE  Flow(o, [i EXCEPT !.got = @ \o SubSeq(s, 1, k)], SubSeq(s, k + 1, Len(s)), S, H, alive)
<1>1. PICK T, off : FlowOn(T, off, o, i, s, S, H, alive)
  BY DEF Flow
<1> DEFINE at == off[Len(H)]
           g == i.got
           b == Taken(i) - Len(g)
           head == SubSeq(s, 1, k)
           tail == SubSeq(s, k + 1, Len(s))
           got == g \o head
           i2 == [i EXCEPT !.got = got]
<1>2. /\ s \in Seq(Byte) /\ H \in Seq(Seq(Byte)) /\ T \in Seq(Byte) /\ at \in Nat /\ i \in Incoming
      /\ at + Taken(i) \in Nat /\ Taken(i) \in Nat /\ Len(s) \in Nat
  BY <1>1, Place DEF Flow
<1>3. /\ Receiving(i, S, Len(H), T, at) /\ Piece(s, T, at + Taken(i))
      /\ alive => Sending(o, T, at + Taken(i) + Len(s))
  BY <1>1 DEF FlowOn
<1> HIDE DEF at
<1>4. /\ g \in Seq(Byte) /\ i.n \in Nat /\ Len(g) <= i.n /\ Len(g) \in Nat /\ i.ix \in Nat
      /\ HEADER_SIZE \in Nat /\ i.pc \in {"header", "chunk", "last"}
  BY <1>2, <1>3, NetIOAssumption DEF Receiving, Incoming
<1>5. b = IF i.pc = "header" THEN 0 ELSE HEADER_SIZE + i.ix
  BY <1>4 DEF Taken
<1>6. Piece(g, T, at + b)
  <2>1. CASE i.pc = "header"
    <3>1. at + b = at
      BY <1>2, <1>5, <2>1
    <3> QED
      BY <1>3, <2>1, <3>1 DEF Receiving
  <2>2. CASE i.pc # "header"
    <3>1. at + b = at + HEADER_SIZE + i.ix
      <4> DEFINE ix == i.ix
      <4>1. ix \in Nat /\ b = HEADER_SIZE + ix
        BY <1>4, <1>5, <2>2
      <4> HIDE DEF ix, b
      <4>2. at + b = at + HEADER_SIZE + ix
        BY <1>2, <1>4, <4>1
      <4> QED
        BY <4>2 DEF ix
    <3> QED
      BY <1>3, <1>4, <2>2, <3>1 DEF Receiving
  <2> QED
    BY <2>1, <2>2
<1>7. b \in Nat /\ at + b \in Nat /\ Taken(i) = b + Len(g) /\ at + Taken(i) = at + b + Len(g)
  <2> DEFINE t == Taken(i)
             l == Len(g)
  <2>1. b \in Nat
    <3> DEFINE ix == i.ix
    <3>1. ix \in Nat /\ b = IF i.pc = "header" THEN 0 ELSE HEADER_SIZE + ix
      BY <1>4, <1>5
    <3> HIDE DEF ix, b
    <3> QED
      BY <1>4, <3>1
  <2>2. t \in Nat /\ l \in Nat /\ b = t - l
    BY <1>2, <1>4
  <2> HIDE DEF t, l, b
  <2>3. at + b \in Nat /\ t = b + l /\ at + t = at + b + l
    BY <1>2, <2>1, <2>2
  <2> QED
    BY <2>1, <2>3 DEF t, l
<1> HIDE DEF b
<1>8. k \in 0 .. Len(s) /\ k \in Nat /\ Len(g) + k <= i.n
  <2> DEFINE n == i.n
             l == Len(g)
  <2>1. n \in Nat /\ l \in Nat /\ k \in 1 .. n - l
    BY <1>4
  <2> HIDE DEF n, l
  <2>2. k \in Nat /\ l + k <= n
    BY <2>1
  <2> QED
    BY <1>2, <2>2 DEF n, l
<1>9. /\ head \in Seq(Byte) /\ tail \in Seq(Byte)
      /\ Len(head) = k /\ Len(tail) = Len(s) - k
      /\ Piece(head, T, at + Taken(i)) /\ Piece(tail, T, at + Taken(i) + k)
  BY <1>2, <1>3, <1>8, PieceCut
<1> HIDE DEF head, tail
<1>10. got \in Seq(Byte) /\ Len(got) = Len(g) + k /\ Piece(got, T, at + b)
  BY <1>2, <1>4, <1>6, <1>7, <1>9, PieceJoin
<1> HIDE DEF got
<1>11. /\ i2 \in Incoming /\ i2.pc = i.pc /\ i2.bytes = i.bytes /\ i2.ix = i.ix
       /\ i2.size = i.size /\ i2.sz = i.sz /\ i2.n = i.n /\ i2.got = got
  BY <1>2, <1>10 DEF Incoming
<1> HIDE DEF i2
<1>12. Taken(i2) = Taken(i) + k
  <2> DEFINE l == Len(got)
             ix == i.ix
  <2>1. l \in Nat /\ ix \in Nat
    BY <1>4, <1>10
  <2>2. Taken(i2) = IF i.pc = "header" THEN l ELSE HEADER_SIZE + ix + l
    BY <1>4, <1>11 DEF Taken
  <2>3. b = IF i.pc = "header" THEN 0 ELSE HEADER_SIZE + ix
    BY <1>5
  <2> HIDE DEF l, ix
  <2>4. Taken(i2) = b + l
    BY <1>4, <1>7, <2>1, <2>2, <2>3
  <2> QED
    BY <1>4, <1>7, <1>8, <1>10, <2>4 DEF l
<1>13. Receiving(i2, S, Len(H), T, at)
  <2>1. i.pc = "header" => Piece(got, T, at)
    <3>1. i.pc = "header" => at + b = at
      BY <1>2, <1>5
    <3> QED
      BY <1>10, <3>1
  <2>2. i.pc # "header" => Piece(got, T, at + HEADER_SIZE + i.ix)
    <3>1. i.pc # "header" => at + b = at + HEADER_SIZE + i.ix
      <4> DEFINE ix == i.ix
      <4>1. ix \in Nat /\ b = IF i.pc = "header" THEN 0 ELSE HEADER_SIZE + ix
        BY <1>4, <1>5
      <4> HIDE DEF ix
      <4>2. i.pc # "header" => at + b = at + HEADER_SIZE + ix
        BY <1>2, <1>4, <4>1
      <4> QED
        BY <4>2 DEF ix
    <3> QED
      BY <1>10, <3>1
  <2>3. Len(got) <= i.n
    BY <1>8, <1>10
  <2> QED
    BY <1>3, <1>4, <1>11, <2>1, <2>2, <2>3 DEF Receiving
<1>14. at + Taken(i2) = at + Taken(i) + k /\ at + Taken(i2) + Len(tail) = at + Taken(i) + Len(s)
  <2> DEFINE t == Taken(i)
             ls == Len(s)
  <2>1. t \in Nat /\ ls \in Nat /\ Len(tail) = ls - k /\ Taken(i2) = t + k
    BY <1>2, <1>9, <1>12
  <2> HIDE DEF t, ls
  <2>2. at + (t + k) = at + t + k /\ at + (t + k) + (ls - k) = at + t + ls
    BY <1>2, <1>8, <2>1
  <2> QED
    BY <2>1, <2>2 DEF t, ls
<1>15. FlowOn(T, off, o, i2, tail, S, H, alive)
  BY <1>1, <1>3, <1>9, <1>13, <1>14 DEF FlowOn, at
<1> QED
  BY <1>9, <1>15 DEF Flow, i2, got, tail, head

\* The next my_read (NextRead): a chunk, or the rest.
Following(bytes, ix, size, sz) ==
  IF sz > CHUNK_SIZE
  THEN [pc |-> "chunk", bytes |-> bytes, ix |-> ix, size |-> size, sz |-> sz,
        n |-> CHUNK_SIZE, got |-> << >>]
  ELSE [pc |-> "last", bytes |-> bytes, ix |-> ix, size |-> size, sz |-> sz,
        n |-> size - ix, got |-> << >>]

\* It goes on where the earlier ones have stopped.
LEMMA FollowingReceives ==
  ASSUME NEW T \in Seq(Byte), NEW S, NEW h, NEW at \in Nat, NEW bytes \in Seq(Byte), NEW ix \in Nat,
         NEW size \in Nat, h < Len(S), size = Len(S[h + 1]), ix = Len(bytes), ix <= size,
         Piece(bytes, T, at + HEADER_SIZE)
  PROVE  /\ Receiving(Following(bytes, ix, size, size - ix), S, h, T, at)
         /\ Taken(Following(bytes, ix, size, size - ix)) = HEADER_SIZE + ix
<1> DEFINE i == Following(bytes, ix, size, size - ix)
<1>1. /\ HEADER_SIZE \in Nat /\ CHUNK_SIZE \in Nat /\ size - ix \in Nat
      /\ << >> \in Seq(Byte) /\ Len(<< >>) = 0
  BY NetIOAssumption
<1>2. /\ i \in Incoming /\ i.bytes = bytes /\ i.ix = ix /\ i.size = size /\ i.sz = size - ix
      /\ i.got = << >>
      /\ (i.pc = "chunk" /\ i.n = CHUNK_SIZE /\ i.sz > CHUNK_SIZE) \/ (i.pc = "last" /\ i.n = size - ix)
  BY <1>1 DEF Following, Incoming
<1> HIDE DEF i
<1>3. at + HEADER_SIZE + ix \in Nat /\ at + HEADER_SIZE + ix <= Len(T)
  <2>1. Len(T) \in Nat /\ at + HEADER_SIZE \in Nat
    BY <1>1
  <2> QED
    BY <1>1, <2>1 DEF Piece
<1>4. Piece(<< >>, T, at + HEADER_SIZE + ix)
  BY <1>3, PieceNone
<1>5. Receiving(i, S, h, T, at)
  <2>1. Len(<< >>) <= i.n
    BY <1>1, <1>2
  <2> QED
    BY <1>1, <1>2, <1>4, <2>1 DEF Receiving
<1>6. Taken(i) = HEADER_SIZE + ix + 0
  BY <1>1, <1>2 DEF Taken
<1> QED
  BY <1>1, <1>5, <1>6 DEF i

\* The messages end one behind the other.
LEMMA Ends ==
  ASSUME NEW T, NEW off, NEW S, Framed(T, off, S), NEW h \in 0 .. Len(S),
         off[h] + HEADER_SIZE <= Len(T)
  PROVE  h < Len(S)
<1>1. Len(S) \in Nat /\ off[h] \in Nat /\ off[Len(S)] = Len(T) /\ HEADER_SIZE \in Nat \ {0}
  <2>1. S \in Seq(Seq(Byte)) /\ off \in [0 .. Len(S) -> Nat] /\ off[Len(S)] = Len(T)
    BY DEF Framed
  <2> QED
    BY <2>1, NetIOAssumption
<1>2. ASSUME h = Len(S)
      PROVE  FALSE
  <2> DEFINE t == off[h]
  <2>1. t \in Nat /\ t + HEADER_SIZE <= t
    BY <1>1, <1>2
  <2> HIDE DEF t
  <2> QED
    BY <1>1, <2>1
<1> QED
  BY <1>1, <1>2

\* The same bytes at the same place.
LEMMA PieceSame ==
  ASSUME NEW s \in Seq(Byte), NEW t \in Seq(Byte), NEW T, NEW at, Piece(s, T, at), Piece(t, T, at),
         Len(s) = Len(t)
  PROVE  s = t
<1>1. \A k \in 1 .. Len(s) : s[k] = t[k]
  BY DEF Piece
<1> QED
  BY <1>1, SeqEqual

\* The length has arrived.
LEMMA FlowHeader ==
  ASSUME NEW o, NEW i, NEW s, NEW S, NEW H, NEW alive \in BOOLEAN, Flow(o, i, s, S, H, alive),
         i.pc = "header", Len(i.got) = i.n
  PROVE  Flow(o, Following(<< >>, 0, ntohl(i.got), ntohl(i.got)), s, S, H, alive)
<1>1. PICK T, off : FlowOn(T, off, o, i, s, S, H, alive)
  BY DEF Flow
<1> DEFINE h == Len(H)
           at == off[h]
           g == i.got
           x == S[h + 1]
           i2 == Following(<< >>, 0, ntohl(g), ntohl(g))
<1>2. /\ s \in Seq(Byte) /\ H \in Seq(Seq(Byte)) /\ T \in Seq(Byte) /\ at \in Nat /\ i \in Incoming
      /\ at + Taken(i) \in Nat /\ h \in 0 .. Len(S)
  BY <1>1, Place DEF Flow
<1>3. Framed(T, off, S) /\ Receiving(i, S, h, T, at) /\ Piece(s, T, at + Taken(i))
  BY <1>1 DEF FlowOn
<1>4. /\ g \in Seq(Byte) /\ Len(g) = HEADER_SIZE /\ Piece(g, T, at) /\ Taken(i) = HEADER_SIZE
      /\ HEADER_SIZE \in Nat /\ Len(T) \in Nat
  BY <1>2, <1>3, NetIOAssumption DEF Receiving, Incoming, Taken
<1>5. at + HEADER_SIZE <= Len(T)
  BY <1>4 DEF Piece
<1>6. h < Len(S)
  BY <1>2, <1>3, <1>5, Ends
<1> HIDE DEF h, at
<1>7. /\ h + 1 \in 1 .. Len(S) /\ (h + 1) - 1 = h
      /\ x \in Seq(Byte) /\ Len(x) \in Nat
  <2>1. S \in Seq(Seq(Byte)) /\ Len(S) \in Nat
    BY <1>3 DEF Framed
  <2>2. h + 1 \in 1 .. Len(S) /\ (h + 1) - 1 = h
    BY <1>2, <1>6, <2>1
  <2>3. x \in Seq(Byte)
    BY <2>1, <2>2
  <2> QED
    BY <2>2, <2>3
<1>8. Fits(Len(x)) /\ Piece(htonl(Len(x)), T, at)
  BY <1>3, <1>7 DEF Framed, at
<1>9. htonl(Len(x)) \in Seq(Byte) /\ Len(htonl(Len(x))) = HEADER_SIZE /\ ntohl(htonl(Len(x))) = Len(x)
  BY <1>8, HeaderRead
<1>10. g = htonl(Len(x))
  BY <1>4, <1>8, <1>9, PieceSame
<1>11. ntohl(g) = Len(x)
  BY <1>9, <1>10
<1>12. /\ << >> \in Seq(Byte) /\ Len(<< >>) = 0 /\ 0 \in Nat /\ 0 <= Len(x) /\ Len(x) - 0 = Len(x)
       /\ at + HEADER_SIZE \in Nat /\ HEADER_SIZE + 0 = HEADER_SIZE
  BY <1>2, <1>4, <1>7
<1>13. Piece(<< >>, T, at + HEADER_SIZE)
  BY <1>2, <1>5, <1>12, PieceNone
<1> HIDE DEF x
<1>14. Receiving(Following(<< >>, 0, Len(x), Len(x) - 0), S, h, T, at)
       /\ Taken(Following(<< >>, 0, Len(x), Len(x) - 0)) = HEADER_SIZE + 0
  <2> DEFINE n == Len(x)
             y == << >>
             z == 0
  <2>1. /\ T \in Seq(Byte) /\ at \in Nat /\ y \in Seq(Byte) /\ z \in Nat /\ n \in Nat
        /\ h < Len(S) /\ n = Len(S[h + 1]) /\ z = Len(y) /\ z <= n
        /\ Piece(y, T, at + HEADER_SIZE)
    BY <1>2, <1>6, <1>7, <1>12, <1>13 DEF x
  <2> HIDE DEF n, y, z
  <2>2. /\ Receiving(Following(y, z, n, n - z), S, h, T, at)
        /\ Taken(Following(y, z, n, n - z)) = HEADER_SIZE + z
    BY <2>1, FollowingReceives
  <2> QED
    BY <2>2 DEF n, y, z
<1>15. Receiving(i2, S, h, T, at) /\ Taken(i2) = Taken(i)
  BY <1>4, <1>11, <1>12, <1>14
<1> HIDE DEF i2
<1>16. FlowOn(T, off, o, i2, s, S, H, alive)
  BY <1>1, <1>15 DEF FlowOn, at, h
<1> QED
  BY <1>16 DEF Flow, i2, g

\* A chunk has arrived.
LEMMA FlowChunk ==
  ASSUME NEW o, NEW i, NEW s, NEW S, NEW H, NEW alive \in BOOLEAN, Flow(o, i, s, S, H, alive),
         i.pc = "chunk", Len(i.got) = i.n
  PROVE  Flow(o, Following(i.bytes \o i.got, i.ix + CHUNK_SIZE, i.size, i.sz - CHUNK_SIZE),
              s, S, H, alive)
<1>1. PICK T, off : FlowOn(T, off, o, i, s, S, H, alive)
  BY DEF Flow
<1> DEFINE h == Len(H)
           at == off[h]
           g == i.got
           b == i.bytes
           ix == i.ix
           size == i.size
           i2 == Following(b \o g, ix + CHUNK_SIZE, size, i.sz - CHUNK_SIZE)
<1>2. /\ s \in Seq(Byte) /\ H \in Seq(Seq(Byte)) /\ T \in Seq(Byte) /\ at \in Nat /\ i \in Incoming
      /\ at + Taken(i) \in Nat
  BY <1>1, Place DEF Flow
<1>3. Receiving(i, S, h, T, at) /\ Piece(s, T, at + Taken(i))
  BY <1>1 DEF FlowOn
<1> HIDE DEF h, at
<1>4. /\ g \in Seq(Byte) /\ b \in Seq(Byte) /\ ix \in Nat /\ size \in Nat
      /\ Len(g) = CHUNK_SIZE /\ Piece(g, T, at + HEADER_SIZE + ix)
      /\ h < Len(S) /\ size = Len(S[h + 1]) /\ ix = Len(b) /\ ix <= size /\ i.sz = size - ix
      /\ i.sz > CHUNK_SIZE
      /\ Piece(b, T, at + HEADER_SIZE)
      /\ Taken(i) = HEADER_SIZE + ix + Len(g)
      /\ HEADER_SIZE \in Nat /\ CHUNK_SIZE \in Nat
  BY <1>2, <1>3, NetIOAssumption DEF Receiving, Incoming, Taken
<1> HIDE DEF g, b, ix, size
<1>5. at + HEADER_SIZE \in Nat
  BY <1>2, <1>4
<1>6. b \o g \in Seq(Byte) /\ Len(b \o g) = ix + CHUNK_SIZE /\ Piece(b \o g, T, at + HEADER_SIZE)
  BY <1>2, <1>4, <1>5, PieceJoin
<1>7. ix + CHUNK_SIZE \in Nat /\ ix + CHUNK_SIZE <= size
      /\ i.sz - CHUNK_SIZE = size - (ix + CHUNK_SIZE)
      /\ HEADER_SIZE + (ix + CHUNK_SIZE) = HEADER_SIZE + ix + CHUNK_SIZE
  <2> DEFINE sz == i.sz
  <2>1. sz = size - ix /\ sz > CHUNK_SIZE
    BY <1>4
  <2> HIDE DEF sz
  <2>2. sz - CHUNK_SIZE = size - (ix + CHUNK_SIZE) /\ ix + CHUNK_SIZE <= size
    BY <1>4, <2>1
  <2> QED
    BY <1>4, <2>2 DEF sz
<1>8. /\ Receiving(Following(b \o g, ix + CHUNK_SIZE, size, size - (ix + CHUNK_SIZE)), S, h, T, at)
      /\ Taken(Following(b \o g, ix + CHUNK_SIZE, size, size - (ix + CHUNK_SIZE)))
           = HEADER_SIZE + (ix + CHUNK_SIZE)
  <2> DEFINE y == b \o g
             n == ix + CHUNK_SIZE
  <2>1. /\ T \in Seq(Byte) /\ at \in Nat /\ y \in Seq(Byte) /\ n \in Nat /\ size \in Nat
        /\ h < Len(S) /\ size = Len(S[h + 1]) /\ n = Len(y) /\ n <= size
        /\ Piece(y, T, at + HEADER_SIZE)
    BY <1>2, <1>4, <1>6, <1>7
  <2> HIDE DEF y, n
  <2>2. /\ Receiving(Following(y, n, size, size - n), S, h, T, at)
        /\ Taken(Following(y, n, size, size - n)) = HEADER_SIZE + n
    BY <2>1, FollowingReceives
  <2> QED
    BY <2>2 DEF y, n
<1>9. Receiving(i2, S, h, T, at) /\ Taken(i2) = Taken(i)
  BY <1>4, <1>7, <1>8
<1> HIDE DEF i2
<1>10. FlowOn(T, off, o, i2, s, S, H, alive)
  BY <1>1, <1>9 DEF FlowOn, at, h
<1> QED
  BY <1>10 DEF Flow, i2, g, b, ix, size

\* The message that the call i has read, and the messages read with it.
Got(i) == i.bytes \o i.got
WithNext(H, i) == Append(H, Got(i))
IsNext(i, S, H) == Len(H) + 1 \in 1 .. Len(S) /\ Got(i) = S[Len(H) + 1]

\* The message has been read: it is the next of those that were written.
LEMMA FlowHear ==
  ASSUME NEW o, NEW i, NEW s, NEW S, NEW H, NEW alive \in BOOLEAN, Flow(o, i, s, S, H, alive),
         i.pc = "last", Len(i.got) = i.n
  PROVE  Flow(o, NoRead, s, S, WithNext(H, i), alive) /\ IsNext(i, S, H)
<1>1. PICK T, off : FlowOn(T, off, o, i, s, S, H, alive)
  BY DEF Flow
<1> DEFINE h == Len(H)
           at == off[h]
           g == i.got
           b == i.bytes
           ix == i.ix
           size == i.size
           x == S[h + 1]
<1>2. /\ s \in Seq(Byte) /\ H \in Seq(Seq(Byte)) /\ T \in Seq(Byte) /\ at \in Nat /\ i \in Incoming
      /\ at + Taken(i) \in Nat /\ h \in 0 .. Len(S)
      /\ \A k \in 1 .. h : H[k] = S[k]
  <2>1. /\ s \in Seq(Byte) /\ H \in Seq(Seq(Byte)) /\ T \in Seq(Byte) /\ at \in Nat /\ i \in Incoming
        /\ at + Taken(i) \in Nat /\ h \in 0 .. Len(S)
    BY <1>1, Place DEF Flow
  <2> QED
    BY <2>1 DEF Flow
<1>3. /\ Framed(T, off, S) /\ Receiving(i, S, h, T, at) /\ Piece(s, T, at + Taken(i))
      /\ alive => Sending(o, T, at + Taken(i) + Len(s))
  BY <1>1 DEF FlowOn
<1> HIDE DEF at, x
<1>4. /\ g \in Seq(Byte) /\ b \in Seq(Byte) /\ ix \in Nat /\ size \in Nat
      /\ Len(g) = size - ix /\ Piece(g, T, at + HEADER_SIZE + ix)
      /\ h < Len(S) /\ size = Len(x) /\ ix = Len(b) /\ ix <= size
      /\ Piece(b, T, at + HEADER_SIZE)
      /\ Taken(i) = HEADER_SIZE + ix + Len(g)
      /\ HEADER_SIZE \in Nat
  BY <1>2, <1>3, NetIOAssumption DEF Receiving, Incoming, Taken, x
<1>5. /\ h + 1 \in 1 .. Len(S) /\ (h + 1) - 1 = h /\ x \in Seq(Byte)
      /\ S \in Seq(Seq(Byte)) /\ Len(S) \in Nat
  <2>1. S \in Seq(Seq(Byte)) /\ Len(S) \in Nat
    BY <1>3 DEF Framed
  <2>2. h \in Nat /\ h < Len(S)
    BY <1>2, <1>4, <2>1
  <2> HIDE DEF h
  <2>3. h + 1 \in 1 .. Len(S) /\ (h + 1) - 1 = h
    BY <2>1, <2>2
  <2> QED
    BY <2>1, <2>3 DEF x
<1>6. /\ off[h + 1] = at + HEADER_SIZE + Len(x)
      /\ Piece(x, T, at + HEADER_SIZE)
  BY <1>3, <1>5 DEF Framed, at, x
<1> HIDE DEF g, b, ix, size, h
<1>7. at + HEADER_SIZE \in Nat
  <2>1. at \in Nat /\ HEADER_SIZE \in Nat
    BY <1>2, <1>4
  <2> QED
    BY <2>1
<1>8. b \o g \in Seq(Byte) /\ Len(b \o g) = Len(x) /\ Piece(b \o g, T, at + HEADER_SIZE)
  <2>1. Len(b \o g) = ix + (size - ix) /\ b \o g \in Seq(Byte) /\ Piece(b \o g, T, at + HEADER_SIZE)
    BY <1>2, <1>4, <1>7, PieceJoin
  <2> QED
    BY <1>4, <2>1
<1>9. b \o g = x
  BY <1>5, <1>6, <1>8, PieceSame
<1>10. off[h + 1] = at + Taken(i)
  <2>1. /\ at \in Nat /\ HEADER_SIZE \in Nat /\ ix \in Nat /\ size \in Nat
        /\ Taken(i) = HEADER_SIZE + ix + (size - ix)
        /\ off[h + 1] = at + HEADER_SIZE + size
    BY <1>2, <1>4, <1>6
  <2> QED
    BY <2>1
<1> DEFINE H2 == Append(H, b \o g)
<1>11. /\ H2 \in Seq(Seq(Byte)) /\ Len(H2) = h + 1
       /\ \A k \in 1 .. h + 1 : H2[k] = S[k]
  <2>1. /\ H2 \in Seq(Seq(Byte)) /\ Len(H2) = h + 1
        /\ \A k \in 1 .. h : H2[k] = H[k]
        /\ H2[h + 1] = b \o g
    BY <1>2, <1>8, AppendProperties DEF h
  <2> QED
    BY <1>2, <1>9, <2>1 DEF x
<1> HIDE DEF H2
<1>12. Taken(NoRead) = 0 /\ NoRead \in Incoming /\ NoRead.pc = "idle" /\ NoRead.got = << >>
       /\ NoRead.n = 0
  BY DEF Taken, NoRead, Incoming
<1>13. Receiving(NoRead, S, h + 1, T, off[h + 1])
  <2>1. Len(<< >>) <= 0
    OBVIOUS
  <2> HIDE DEF NoRead
  <2> QED
    BY <1>12, <2>1 DEF Receiving
<1>14. off[Len(H2)] + Taken(NoRead) = at + Taken(i)
  BY <1>2, <1>10, <1>11, <1>12
<1>15. FlowOn(T, off, o, NoRead, s, S, H2, alive)
  BY <1>3, <1>11, <1>13, <1>14 DEF FlowOn
<1>16. Flow(o, NoRead, s, S, H2, alive)
  <2>1. Len(H2) <= Len(S) /\ \A k \in 1 .. Len(H2) : H2[k] = S[k]
    BY <1>5, <1>11
  <2> QED
    BY <1>2, <1>11, <1>15, <2>1 DEF Flow
<1> QED
  BY <1>5, <1>9, <1>16 DEF H2, b, g, h, x, IsNext, WithNext, Got

\* The connection to a sender that has ended is reset.
LEMMA FlowReset ==
  ASSUME NEW o, NEW i, NEW s, NEW S, NEW H, Flow(o, i, s, S, H, FALSE), i.pc # "idle"
  PROVE  Flow(o, [i EXCEPT !.got = IF @ = << >> THEN @ ELSE Front(@)], << >>, S, H, FALSE)
<1>1. PICK T, off : FlowOn(T, off, o, i, s, S, H, FALSE)
  BY DEF Flow
<1> DEFINE at == off[Len(H)]
           g == i.got
           got == IF g = << >> THEN g ELSE Front(g)
           i2 == [i EXCEPT !.got = got]
<1>2. /\ s \in Seq(Byte) /\ H \in Seq(Seq(Byte)) /\ T \in Seq(Byte) /\ at \in Nat /\ i \in Incoming
      /\ at + Taken(i) \in Nat /\ Taken(i) \in Nat
  BY <1>1, Place DEF Flow
<1>3. /\ Receiving(i, S, Len(H), T, at) /\ Piece(s, T, at + Taken(i)) /\ Framed(T, off, S)
  BY <1>1 DEF FlowOn
<1> HIDE DEF at
<1>4. /\ g \in Seq(Byte) /\ i.n \in Nat /\ Len(g) <= i.n /\ Len(g) \in Nat /\ i.ix \in Nat
      /\ HEADER_SIZE \in Nat
  BY <1>2, <1>3, NetIOAssumption DEF Receiving, Incoming
\* What is left of got is where it was.
<1>5. /\ got \in Seq(Byte) /\ Len(got) \in Nat /\ Len(got) <= Len(g)
      /\ \A a \in Nat : Piece(g, T, a) => Piece(got, T, a)
  <2>1. CASE g = << >>
    BY <1>4, <2>1
  <2>2. CASE g # << >>
    <3> DEFINE k == Len(g) - 1
    <3>1. k \in 0 .. Len(g) /\ got = SubSeq(g, 1, k) /\ k <= Len(g) /\ k \in Nat
      <4>1. Len(g) # 0
        BY <1>4, <2>2
      <4> QED
        BY <1>4, <2>2, <4>1 DEF Front
    <3> HIDE DEF k, got
    <3>2. got \in Seq(Byte) /\ Len(got) = k
      <4>1. \A j \in 1 .. k : g[j] \in Byte
        BY <1>4, <3>1
      <4> QED
        BY <1>4, <3>1, <4>1, SubSeqProperties
    <3>3. \A a \in Nat : Piece(g, T, a) => Piece(got, T, a)
      BY <1>2, <1>4, <3>1, PieceCut
    <3> QED
      BY <3>1, <3>2, <3>3
  <2> QED
    BY <2>1, <2>2
<1> HIDE DEF got
<1>6. /\ i2 \in Incoming /\ i2.pc = i.pc /\ i2.bytes = i.bytes /\ i2.ix = i.ix
      /\ i2.size = i.size /\ i2.sz = i.sz /\ i2.n = i.n /\ i2.got = got
  BY <1>2, <1>5 DEF Incoming
<1> HIDE DEF i2
<1>7. Receiving(i2, S, Len(H), T, at)
  <2>1. at + HEADER_SIZE + i.ix \in Nat
    <3> DEFINE ix == i.ix
    <3>1. ix \in Nat
      BY <1>4
    <3> HIDE DEF ix
    <3>2. at + HEADER_SIZE + ix \in Nat
      BY <1>2, <1>4, <3>1
    <3> QED
      BY <3>2 DEF ix
  <2>2. Len(got) <= i.n
    <3> DEFINE n == i.n
    <3>1. n \in Nat /\ Len(g) <= n
      BY <1>4
    <3> HIDE DEF n, g
    <3>2. Len(got) <= n
      BY <1>4, <1>5, <3>1
    <3> QED
      BY <3>2 DEF n
  <2> QED
    BY <1>2, <1>3, <1>5, <1>6, <2>1, <2>2 DEF Receiving
<1>8. Taken(i2) \in Nat /\ Taken(i2) <= Taken(i)
  <2> DEFINE ix == i.ix
             l == Len(g)
             l2 == Len(got)
  <2>1. /\ ix \in Nat /\ l \in Nat /\ l2 \in Nat /\ l2 <= l
        /\ Taken(i) = IF i.pc = "header" THEN l ELSE HEADER_SIZE + ix + l
        /\ Taken(i2) = IF i.pc = "header" THEN l2 ELSE HEADER_SIZE + ix + l2
    BY <1>4, <1>5, <1>6 DEF Taken
  <2> HIDE DEF ix, l, l2
  <2> QED
    BY <1>4, <2>1
<1>9. Piece(<< >>, T, at + Taken(i2))
  <2>1. Len(s) \in Nat /\ Len(T) \in Nat
    BY <1>2
  <2>2. at + Taken(i2) \in Nat /\ at + Taken(i2) <= Len(T)
    BY <1>2, <1>3, <1>8, <2>1 DEF Piece
  <2> QED
    BY <1>2, <2>2, PieceNone
<1>10. FlowOn(T, off, o, i2, << >>, S, H, FALSE)
  BY <1>3, <1>7, <1>9 DEF FlowOn, at
<1>11. << >> \in Seq(Byte)
  OBVIOUS
<1> QED
  BY <1>10, <1>11 DEF Flow, i2, got, g

(***************************************************************************)
(* The links of the system.                                                *)
(***************************************************************************)
Alive(l) == Job(l.from) \notin dead

\* The types of what the links keep.
WireType ==
  /\ out \in [Links -> Outgoing]
  /\ in \in [Links -> Incoming]
  /\ stream \in [Links -> Seq(Byte)]
  /\ said \in [Links -> Seq(Seq(Byte))]
  /\ heard \in [Links -> Seq(Seq(Byte))]

Wired(l) == Flow(out[l], in[l], stream[l], said[l], heard[l], Alive(l))

Wires == WireType /\ \A l \in Links : Wired(l)

\* Where a process may be.
PcVal == {"gather", "gathering", "ip_connect", "scatter", "ip_accept", "ip_write", "listen",
           "accept", "environ", "ip_read", "ip_reading", "connect", "clawfree", "sync",
           "private", "start", "talk", "done"}

\* What the processes are about to write can be sent.
SayType ==
  /\ host \in [Rank -> Hosts]
  /\ turn \in [Process -> Nat]
  /\ claw[Evl(0)] \in Claws
  /\ DOMAIN ips = {"gen", "evl"}
  /\ pc[Evl(0)] = "ip_accept" => ips["evl"] = [i \in 1 .. NodeAmnt |-> host[i - 1]]
  /\ pc \in [Process -> PcVal]
  /\ DOMAIN claw = Process

\* The part of the invariant about the messages.
WireInv == Wires /\ SayType

\* What Flow says of the types, for a sender that is alive.
LEMMA FlowType ==
  ASSUME NEW o, NEW i, NEW s, NEW S, NEW H, NEW alive \in BOOLEAN, Flow(o, i, s, S, H, alive)
  PROVE  /\ alive => o \in Outgoing
         /\ i \in Incoming /\ s \in Seq(Byte) /\ S \in Seq(Seq(Byte)) /\ H \in Seq(Seq(Byte))
<1>1. PICK T, off : FlowOn(T, off, o, i, s, S, H, alive)
  BY DEF Flow
<1>2. /\ s \in Seq(Byte) /\ H \in Seq(Seq(Byte)) /\ i \in Incoming /\ S \in Seq(Seq(Byte))
  BY <1>1 DEF Flow, FlowOn, Receiving, Framed
<1>3. alive => o \in Outgoing
  BY <1>1 DEF FlowOn, Sending
<1> QED
  BY <1>2, <1>3

\* The other links are left alone.
Alone(l) ==
  \A k \in Links \ {l} : /\ out'[k] = out[k] /\ in'[k] = in[k] /\ stream'[k] = stream[k]
                         /\ said'[k] = said[k] /\ heard'[k] = heard[k]

\* What every link has.
Domains ==
  /\ DOMAIN out = Links /\ DOMAIN in = Links /\ DOMAIN stream = Links
  /\ DOMAIN said = Links /\ DOMAIN heard = Links

\* One link moves on.
LEMMA OneLink ==
  ASSUME Wires, dead' = dead, NEW l \in Links, Alone(l), Wired(l)', out'[l] \in Outgoing,
         out' = [k \in Links |-> out'[k]], in' = [k \in Links |-> in'[k]],
         stream' = [k \in Links |-> stream'[k]], said' = [k \in Links |-> said'[k]],
         heard' = [k \in Links |-> heard'[k]]
  PROVE  Wires'
<1>1. ASSUME NEW k \in Links
      PROVE  Wired(k)'
  <2>1. CASE k = l
    BY <2>1
  <2>2. CASE k # l
    <3>1. Wired(k) /\ Alive(k)' = Alive(k)
      BY DEF Wires, Alive
    <3> QED
      BY <2>2, <3>1 DEF Alone, Wired
  <2> QED
    BY <2>1, <2>2
<1>2. ASSUME NEW k \in Links
      PROVE  /\ out'[k] \in Outgoing /\ in'[k] \in Incoming /\ stream'[k] \in Seq(Byte)
             /\ said'[k] \in Seq(Seq(Byte)) /\ heard'[k] \in Seq(Seq(Byte))
  <2>1. Alive(k)' \in BOOLEAN
    BY DEF Alive
  <2>2. Flow(out'[k], in'[k], stream'[k], said'[k], heard'[k], Alive(k)')
    BY <1>1 DEF Wired
  <2>3. /\ in'[k] \in Incoming /\ stream'[k] \in Seq(Byte)
        /\ said'[k] \in Seq(Seq(Byte)) /\ heard'[k] \in Seq(Seq(Byte))
    BY <2>1, <2>2, FlowType
  <2>4. out'[k] \in Outgoing
    BY DEF Alone, Wires, WireType
  <2> QED
    BY <2>3, <2>4
<1>3. WireType'
  BY <1>2 DEF WireType
<1> QED
  BY <1>1, <1>3 DEF Wires

\* Nothing moves; a job may end.
LEMMA NoLink ==
  ASSUME Wires, dead \subseteq dead', UNCHANGED <<netvars, said, heard>>
  PROVE  Wires'
<1>1. WireType'
  BY DEF Wires, WireType, netvars
<1>2. ASSUME NEW l \in Links
      PROVE  Wired(l)'
  <2>1. Flow(out[l], in[l], stream[l], said[l], heard[l], Alive(l)) /\ Alive(l) \in BOOLEAN
    BY DEF Wires, Wired, Alive
  <2>2. Flow(out[l], in[l], stream[l], said[l], heard[l], FALSE)
    BY <2>1, FlowEnds
  <2>3. Alive(l)' = Alive(l) \/ Alive(l)' = FALSE
    BY DEF Alive
  <2> QED
    BY <2>1, <2>2, <2>3 DEF Wired, netvars
<1> QED
  BY <1>1, <1>2 DEF Wires

\* A write to a link there is not (nobody is connected) touches none.
LEMMA NotALink ==
  ASSUME NEW f, NEW X, f \in [Links -> X], NEW l, l \notin Links, NEW x
  PROVE  [f EXCEPT ![l] = x] = f
OBVIOUS

\* A function changed at one link.
LEMMA AtLink ==
  ASSUME NEW f, NEW X, f \in [Links -> X], NEW l \in Links, NEW x, NEW g, g = [f EXCEPT ![l] = x]
  PROVE  /\ g = [k \in Links |-> g[k]] /\ g[l] = x
         /\ \A k \in Links \ {l} : g[k] = f[k]
OBVIOUS

\* A function that has not changed.
LEMMA SameLinks ==
  ASSUME NEW f, NEW X, f \in [Links -> X], NEW g, g = f, NEW l \in Links
  PROVE  /\ g = [k \in Links |-> g[k]] /\ g[l] = f[l]
         /\ \A k \in Links \ {l} : g[k] = f[k]
OBVIOUS

\* write_bytes begins.
LEMMA WriteKeeps ==
  ASSUME Wires, dead' = dead, NEW l, Alive(l), NEW m, Sendable(m), Write(l, m)
  PROVE  Wires'
<1> DEFINE o2 == [pc |-> "chunks", bytes |-> m, ix |-> 0, sz |-> Len(m), pend |-> htonl(Len(m))]
<1>1. /\ out' = [out EXCEPT ![l] = o2] /\ stream' = stream /\ in' = in /\ out[l].pc = "idle"
      /\ said' = [said EXCEPT ![l] = Append(said[l], m)] /\ heard' = heard
  BY DEF Write, WriteBytes
<1> HIDE DEF o2
<1>2. WireType
  BY DEF Wires
<1>3. CASE l \notin Links
  <2>1. out' = out /\ said' = said
    BY <1>1, <1>2, <1>3, NotALink DEF WireType
  <2> QED
    BY <1>1, <2>1, NoLink DEF netvars
<1>4. CASE l \in Links
  <2>1. /\ out' = [k \in Links |-> out'[k]] /\ out'[l] = o2
        /\ \A k \in Links \ {l} : out'[k] = out[k]
    BY <1>1, <1>2, <1>4, AtLink DEF WireType
  <2>2. /\ said' = [k \in Links |-> said'[k]] /\ said'[l] = Append(said[l], m)
        /\ \A k \in Links \ {l} : said'[k] = said[k]
    BY <1>1, <1>2, <1>4, AtLink DEF WireType
  <2>3. /\ in' = [k \in Links |-> in'[k]] /\ stream' = [k \in Links |-> stream'[k]]
        /\ heard' = [k \in Links |-> heard'[k]]
    BY <1>1, <1>2 DEF WireType
  <2>4. Flow(out[l], in[l], stream[l], said[l], heard[l], TRUE)
    BY <1>4 DEF Wires, Wired
  <2>5. Flow(o2, in[l], stream[l], Append(said[l], m), heard[l], TRUE)
    BY <1>1, <2>4, FlowWrite DEF o2
  <2>6. Wired(l)'
    BY <1>1, <2>1, <2>2, <2>5 DEF Wired, Alive
  <2>7. out'[l] \in Outgoing
    BY <2>1, <2>5, FlowType
  <2>8. Alone(l)
    BY <1>1, <2>1, <2>2 DEF Alone
  <2> QED
    BY <1>4, <2>1, <2>2, <2>3, <2>6, <2>7, <2>8, OneLink
<1> QED
  BY <1>3, <1>4

\* write_bytes returns.
LEMMA EndWriteKeeps ==
  ASSUME Wires, dead' = dead, NEW l, Alive(l), Written(l), EndWrite(l), UNCHANGED <<said, heard>>
  PROVE  Wires'
<1>1. /\ out' = [out EXCEPT ![l] = NoWrite] /\ stream' = stream /\ in' = in
      /\ out[l].pc = "last" /\ out[l].pend = << >> /\ said' = said /\ heard' = heard
  BY DEF EndWrite, Written
<1>2. WireType
  BY DEF Wires
<1>3. CASE l \notin Links
  <2>1. out' = out
    BY <1>1, <1>2, <1>3, NotALink DEF WireType
  <2> QED
    BY <1>1, <2>1, NoLink DEF netvars
<1>4. CASE l \in Links
  <2>1. /\ out' = [k \in Links |-> out'[k]] /\ out'[l] = NoWrite
        /\ \A k \in Links \ {l} : out'[k] = out[k]
    BY <1>1, <1>2, <1>4, AtLink DEF WireType
  <2>2. /\ in' = [k \in Links |-> in'[k]] /\ stream' = [k \in Links |-> stream'[k]]
        /\ heard' = [k \in Links |-> heard'[k]] /\ said' = [k \in Links |-> said'[k]]
    BY <1>1, <1>2 DEF WireType
  <2>3. Flow(out[l], in[l], stream[l], said[l], heard[l], TRUE)
    BY <1>4 DEF Wires, Wired
  <2>4. Flow(NoWrite, in[l], stream[l], said[l], heard[l], TRUE)
    BY <1>1, <2>3, FlowWritten
  <2>5. Wired(l)'
    BY <1>1, <2>1, <2>4 DEF Wired, Alive
  <2>6. out'[l] \in Outgoing
    BY <2>1, <2>4, FlowType
  <2>7. Alone(l)
    BY <1>1, <2>1 DEF Alone
  <2> QED
    BY <1>4, <2>1, <2>2, <2>5, <2>6, <2>7, OneLink
<1> QED
  BY <1>3, <1>4

\* The kernel and the loop of write_bytes.
LEMMA SendKeeps ==
  ASSUME Wires, dead' = dead, NEW l \in Links, Alive(l), Send(l), UNCHANGED <<said, heard>>
  PROVE  Wires'
<1>1. WireType /\ Flow(out[l], in[l], stream[l], said[l], heard[l], TRUE)
  BY DEF Wires, Wired
<1>2. in' = in /\ said' = said /\ heard' = heard
  BY DEF Send, SendSome, SendChunk, SendLast
\* One way of saying what has happened for the three cases.
<1>3. \E o2, s2 : /\ out' = [out EXCEPT ![l] = o2] /\ stream' = [stream EXCEPT ![l] = s2]
                  /\ Flow(o2, in[l], s2, said[l], heard[l], TRUE)
  <2>1. CASE SendSome(l)
    <3>1. PICK k \in 1 .. Len(out[l].pend) :
             /\ stream' = [stream EXCEPT ![l] = @ \o SubSeq(out[l].pend, 1, k)]
             /\ out' = [out EXCEPT ![l].pend = SubSeq(@, k + 1, Len(@))]
      BY <2>1 DEF SendSome
    <3> DEFINE o2 == [out[l] EXCEPT !.pend = SubSeq(@, k + 1, Len(@))]
               s2 == stream[l] \o SubSeq(out[l].pend, 1, k)
    <3>2. Flow(o2, in[l], s2, said[l], heard[l], TRUE)
      BY <1>1, FlowSendSome
    <3>3. out' = [out EXCEPT ![l] = o2] /\ stream' = [stream EXCEPT ![l] = s2]
      BY <3>1
    <3> HIDE DEF o2, s2
    <3> QED
      BY <3>2, <3>3
  <2>2. CASE SendChunk(l)
    <3> DEFINE o == out[l]
               o2 == NextChunk(o)
    <3>1. /\ o.pc = "chunks" /\ o.pend = << >> /\ o.sz > CHUNK_SIZE /\ stream' = stream
          /\ out' = [out EXCEPT ![l] = o2]
      BY <2>2 DEF SendChunk, NextChunk
    <3>2. Flow(o2, in[l], stream[l], said[l], heard[l], TRUE)
      <4>1. Flow(o, in[l], stream[l], said[l], heard[l], TRUE)
        BY <1>1
      <4> HIDE DEF o
      <4> QED
        BY <3>1, <4>1, FlowSendNext
    <3>3. stream' = [stream EXCEPT ![l] = stream[l]]
      BY <1>1, <3>1 DEF WireType
    <3> HIDE DEF o, o2
    <3> QED
      BY <3>1, <3>2, <3>3
  <2>3. CASE SendLast(l)
    <3> DEFINE o == out[l]
               o2 == TheRest(o)
    <3>1. /\ o.pc = "chunks" /\ o.pend = << >> /\ stream' = stream
          /\ out' = [out EXCEPT ![l] = o2]
      BY <2>3 DEF SendLast, TheRest
    <3>2. Flow(o2, in[l], stream[l], said[l], heard[l], TRUE)
      <4>1. Flow(o, in[l], stream[l], said[l], heard[l], TRUE)
        BY <1>1
      <4> HIDE DEF o
      <4> QED
        BY <3>1, <4>1, FlowSendNext
    <3>3. stream' = [stream EXCEPT ![l] = stream[l]]
      BY <1>1, <3>1 DEF WireType
    <3> HIDE DEF o, o2
    <3> QED
      BY <3>1, <3>2, <3>3
  <2> QED
    BY <2>1, <2>2, <2>3 DEF Send
<1>4. PICK o2, s2 : /\ out' = [out EXCEPT ![l] = o2] /\ stream' = [stream EXCEPT ![l] = s2]
                    /\ Flow(o2, in[l], s2, said[l], heard[l], TRUE)
  BY <1>3
<1>5. /\ out' = [k \in Links |-> out'[k]] /\ out'[l] = o2
      /\ \A k \in Links \ {l} : out'[k] = out[k]
  BY <1>1, <1>4, AtLink DEF WireType
<1>6. /\ stream' = [k \in Links |-> stream'[k]] /\ stream'[l] = s2
      /\ \A k \in Links \ {l} : stream'[k] = stream[k]
  BY <1>1, <1>4, AtLink DEF WireType
<1>7. /\ in' = [k \in Links |-> in'[k]] /\ heard' = [k \in Links |-> heard'[k]]
      /\ said' = [k \in Links |-> said'[k]]
  BY <1>1, <1>2 DEF WireType
<1>8. Wired(l)' /\ out'[l] \in Outgoing
  <2>1. Wired(l)'
    BY <1>2, <1>4, <1>5, <1>6 DEF Wired, Alive
  <2> QED
    BY <1>4, <1>5, <2>1, FlowType
<1>9. Alone(l)
  BY <1>2, <1>5, <1>6 DEF Alone
<1> QED
  BY <1>5, <1>6, <1>7, <1>8, <1>9, OneLink

\* read_bytes begins.
LEMMA ReadKeeps ==
  ASSUME Wires, dead' = dead, NEW l, ReadBytes(l), UNCHANGED <<said, heard>>
  PROVE  Wires'
<1> DEFINE i2 == Asked(in[l])
<1>1. /\ in' = [in EXCEPT ![l] = i2] /\ stream' = stream /\ out' = out
      /\ in[l].pc = "idle" /\ said' = said /\ heard' = heard
  BY DEF ReadBytes, Asked
<1>2. WireType
  BY DEF Wires
<1>3. CASE l \notin Links
  <2> HIDE DEF i2
  <2>1. in' = in
    BY <1>1, <1>2, <1>3, NotALink DEF WireType
  <2> QED
    BY <1>1, <2>1, NoLink DEF netvars
<1>4. CASE l \in Links
  <2>1. Flow(out[l], in[l], stream[l], said[l], heard[l], Alive(l)) /\ Alive(l) \in BOOLEAN
    BY <1>4 DEF Wires, Wired, Alive
  <2>2. Flow(out[l], i2, stream[l], said[l], heard[l], Alive(l))
    BY <1>1, <2>1, FlowRead
  <2> HIDE DEF i2
  <2>3. /\ in' = [k \in Links |-> in'[k]] /\ in'[l] = i2
        /\ \A k \in Links \ {l} : in'[k] = in[k]
    BY <1>1, <1>2, <1>4, AtLink DEF WireType
  <2>4. /\ out' = [k \in Links |-> out'[k]] /\ stream' = [k \in Links |-> stream'[k]]
        /\ heard' = [k \in Links |-> heard'[k]] /\ said' = [k \in Links |-> said'[k]]
        /\ out'[l] \in Outgoing
    BY <1>1, <1>2, <1>4 DEF WireType
  <2>5. Wired(l)'
    BY <1>1, <2>2, <2>3 DEF Wired, Alive
  <2>6. Alone(l)
    BY <1>1, <2>3 DEF Alone
  <2> QED
    BY <1>4, <2>3, <2>4, <2>5, <2>6, OneLink
<1> QED
  BY <1>3, <1>4

\* recv, and the loop of read_bytes.
LEMMA RecvKeeps ==
  ASSUME Wires, dead' = dead, NEW l \in Links, Recv(l), UNCHANGED <<said, heard>>
  PROVE  Wires'
<1> DEFINE alive == Alive(l)
<1>1. /\ WireType /\ Flow(out[l], in[l], stream[l], said[l], heard[l], alive)
      /\ alive \in BOOLEAN /\ alive' = alive
  BY DEF Wires, Wired, Alive
<1> HIDE DEF alive
<1>2. out' = out /\ said' = said /\ heard' = heard
  BY DEF Recv, RecvSome, RecvHeader, RecvChunk
<1>3. \E i2, s2 : /\ in' = [in EXCEPT ![l] = i2] /\ stream' = [stream EXCEPT ![l] = s2]
                  /\ Flow(out[l], i2, s2, said[l], heard[l], alive)
  <2>1. CASE RecvSome(l)
    <3>1. PICK k \in 1 .. in[l].n - Len(in[l].got) :
             /\ k <= Len(stream[l])
             /\ in' = [in EXCEPT ![l].got = @ \o SubSeq(stream[l], 1, k)]
             /\ stream' = [stream EXCEPT ![l] = SubSeq(@, k + 1, Len(@))]
      BY <2>1 DEF RecvSome
    <3> DEFINE i2 == [in[l] EXCEPT !.got = @ \o SubSeq(stream[l], 1, k)]
               s2 == SubSeq(stream[l], k + 1, Len(stream[l]))
    <3>2. in[l].pc # "idle"
      BY <2>1 DEF RecvSome
    <3>3. Flow(out[l], i2, s2, said[l], heard[l], alive)
      BY <1>1, <3>1, <3>2, FlowRecvSome
    <3>4. in' = [in EXCEPT ![l] = i2] /\ stream' = [stream EXCEPT ![l] = s2]
      BY <3>1
    <3> HIDE DEF i2, s2
    <3> QED
      BY <3>3, <3>4
  <2>2. CASE RecvHeader(l)
    <3> DEFINE n == ntohl(in[l].got)
               i2 == Following(<< >>, 0, n, n)
    <3>1. in[l].pc = "header" /\ Len(in[l].got) = in[l].n /\ stream' = stream
      BY <2>2 DEF RecvHeader, MyReadDone
    <3>2. in' = [in EXCEPT ![l] = i2]
      BY <2>2 DEF RecvHeader, NextRead, Following
    <3>3. Flow(out[l], i2, stream[l], said[l], heard[l], alive)
      BY <1>1, <3>1, FlowHeader
    <3>4. stream' = [stream EXCEPT ![l] = stream[l]]
      BY <1>1, <3>1 DEF WireType
    <3> HIDE DEF i2
    <3> QED
      BY <3>2, <3>3, <3>4
  <2>3. CASE RecvChunk(l)
    <3> DEFINE i == in[l]
               i2 == Following(i.bytes \o i.got, i.ix + CHUNK_SIZE, i.size, i.sz - CHUNK_SIZE)
    <3>1. in[l].pc = "chunk" /\ Len(in[l].got) = in[l].n /\ stream' = stream
      BY <2>3 DEF RecvChunk, MyReadDone
    <3>2. in' = [in EXCEPT ![l] = i2]
      BY <2>3 DEF RecvChunk, NextRead, Following
    <3>3. Flow(out[l], i2, stream[l], said[l], heard[l], alive)
      BY <1>1, <3>1, FlowChunk
    <3>4. stream' = [stream EXCEPT ![l] = stream[l]]
      BY <1>1, <3>1 DEF WireType
    <3> HIDE DEF i2
    <3> QED
      BY <3>2, <3>3, <3>4
  <2> QED
    BY <2>1, <2>2, <2>3 DEF Recv
<1>4. PICK i2, s2 : /\ in' = [in EXCEPT ![l] = i2] /\ stream' = [stream EXCEPT ![l] = s2]
                    /\ Flow(out[l], i2, s2, said[l], heard[l], alive)
  BY <1>3
<1>5. /\ in' = [k \in Links |-> in'[k]] /\ in'[l] = i2
      /\ \A k \in Links \ {l} : in'[k] = in[k]
  BY <1>1, <1>4, AtLink DEF WireType
<1>6. /\ stream' = [k \in Links |-> stream'[k]] /\ stream'[l] = s2
      /\ \A k \in Links \ {l} : stream'[k] = stream[k]
  BY <1>1, <1>4, AtLink DEF WireType
<1>7. /\ out' = [k \in Links |-> out'[k]] /\ heard' = [k \in Links |-> heard'[k]]
      /\ said' = [k \in Links |-> said'[k]] /\ out'[l] \in Outgoing
  BY <1>1, <1>2 DEF WireType
<1>8. Wired(l)'
  BY <1>1, <1>2, <1>4, <1>5, <1>6 DEF Wired, alive
<1>9. Alone(l)
  BY <1>2, <1>5, <1>6 DEF Alone
<1> QED
  BY <1>5, <1>6, <1>7, <1>8, <1>9, OneLink

\* The message is read: it is the next of those written.
LEMMA HearKeeps ==
  ASSUME Wires, dead' = dead, NEW l, Read(l), Hear(l)
  PROVE  /\ Wires'
         /\ l \in Links => Len(heard[l]) + 1 \in 1 .. Len(said[l])
                          /\ Message(l) = said[l][Len(heard[l]) + 1]
<1> DEFINE m == Message(l)
           alive == Alive(l)
<1>1. /\ in' = [in EXCEPT ![l] = NoRead] /\ stream' = stream /\ out' = out /\ said' = said
      /\ heard' = [heard EXCEPT ![l] = Append(heard[l], m)]
      /\ in[l].pc = "last" /\ Len(in[l].got) = in[l].n
  BY DEF Hear, EndRead, Read, MyReadDone
<1>2. WireType /\ alive \in BOOLEAN /\ alive' = alive
  BY DEF Wires, Alive
<1>3. CASE l \notin Links
  <2> HIDE DEF m
  <2>1. in' = in /\ heard' = heard
    BY <1>1, <1>2, <1>3, NotALink DEF WireType
  <2> QED
    BY <1>1, <1>3, <2>1, NoLink DEF netvars
<1>4. CASE l \in Links
  <2>1. Flow(out[l], in[l], stream[l], said[l], heard[l], alive)
    BY <1>4 DEF Wires, Wired
  <2> HIDE DEF alive
  <2>2. /\ Flow(out[l], NoRead, stream[l], said[l], Append(heard[l], m), alive)
        /\ Len(heard[l]) + 1 \in 1 .. Len(said[l]) /\ m = said[l][Len(heard[l]) + 1]
    <3> DEFINE i == in[l]
    <3>1. Flow(out[l], i, stream[l], said[l], heard[l], alive) /\ i.pc = "last" /\ Len(i.got) = i.n
      BY <1>1, <2>1
    <3>2. m = i.bytes \o i.got
      BY DEF Message
    <3> HIDE DEF i, m
    <3>3. Flow(out[l], NoRead, stream[l], said[l], WithNext(heard[l], i), alive)
          /\ IsNext(i, said[l], heard[l])
      BY <1>2, <3>1, FlowHear
    <3> QED
      BY <3>2, <3>3 DEF IsNext, WithNext, Got
  <2> HIDE DEF m
  <2>3. /\ in' = [k \in Links |-> in'[k]] /\ in'[l] = NoRead
        /\ \A k \in Links \ {l} : in'[k] = in[k]
    BY <1>1, <1>2, <1>4, AtLink DEF WireType
  <2>4. /\ heard' = [k \in Links |-> heard'[k]] /\ heard'[l] = Append(heard[l], m)
        /\ \A k \in Links \ {l} : heard'[k] = heard[k]
    BY <1>1, <1>2, <1>4, AtLink DEF WireType
  <2>5. /\ out' = [k \in Links |-> out'[k]] /\ stream' = [k \in Links |-> stream'[k]]
        /\ said' = [k \in Links |-> said'[k]] /\ out'[l] \in Outgoing
    BY <1>1, <1>2, <1>4 DEF WireType
  <2>6. Wired(l)'
    BY <1>1, <1>2, <2>2, <2>3, <2>4 DEF Wired, alive
  <2>7. Alone(l)
    BY <1>1, <2>3, <2>4 DEF Alone
  <2>8. Wires'
    BY <1>4, <2>3, <2>4, <2>5, <2>6, <2>7, OneLink
  <2> QED
    BY <2>2, <2>8 DEF m
<1> QED
  BY <1>3, <1>4

\* The connection is reset, the sender's job has ended.
LEMMA ResetKeeps ==
  ASSUME Wires, dead' = dead, NEW l \in Links, ~ Alive(l), Reset(l), UNCHANGED <<said, heard>>
  PROVE  Wires'
<1> DEFINE i2 == [in[l] EXCEPT !.got = IF @ = << >> THEN @ ELSE Front(@)]
<1>1. /\ in' = [in EXCEPT ![l] = i2] /\ stream' = [stream EXCEPT ![l] = << >>] /\ out' = out
      /\ said' = said /\ heard' = heard /\ in[l].pc # "idle"
  BY DEF Reset
<1>2. WireType /\ Flow(out[l], in[l], stream[l], said[l], heard[l], FALSE)
  <2>1. WireType /\ Flow(out[l], in[l], stream[l], said[l], heard[l], Alive(l)) /\ Alive(l) \in BOOLEAN
    BY DEF Wires, Wired, Alive
  <2> QED
    BY <2>1, FlowEnds
<1>3. Flow(out[l], i2, << >>, said[l], heard[l], FALSE)
  BY <1>1, <1>2, FlowReset
<1> HIDE DEF i2
<1>4. /\ in' = [k \in Links |-> in'[k]] /\ in'[l] = i2
      /\ \A k \in Links \ {l} : in'[k] = in[k]
  BY <1>1, <1>2, AtLink DEF WireType
<1>5. /\ stream' = [k \in Links |-> stream'[k]] /\ stream'[l] = << >>
      /\ \A k \in Links \ {l} : stream'[k] = stream[k]
  BY <1>1, <1>2, AtLink DEF WireType
<1>6. /\ out' = [k \in Links |-> out'[k]] /\ heard' = [k \in Links |-> heard'[k]]
      /\ said' = [k \in Links |-> said'[k]] /\ out'[l] \in Outgoing
  BY <1>1, <1>2 DEF WireType
<1>7. Wired(l)'
  <2>1. Alive(l)' = FALSE
    BY DEF Alive
  <2> QED
    BY <1>1, <1>3, <1>4, <1>5, <2>1 DEF Wired
<1>8. Alone(l)
  BY <1>1, <1>4, <1>5 DEF Alone
<1> QED
  BY <1>4, <1>5, <1>6, <1>7, <1>8, OneLink

-----------------------------------------------------------------------------
(***************************************************************************)
(* The steps.                                                              *)
(***************************************************************************)

\* The processes' numbers.
LEMMA Processes ==
  /\ \A r \in Rank : Gen(r) \in Process /\ Evl(r) \in Process
  /\ \A p \in Process : /\ Job(p) \in {"gen", "evl"} /\ node_rank(p) \in Rank
                        /\ p = <<Job(p), node_rank(p)>>
                        /\ Job(p) = "gen" => p = Gen(node_rank(p))
                        /\ Job(p) = "evl" => p = Evl(node_rank(p))
  /\ \A r, q \in Rank : Gen(r) # Evl(q) /\ (Gen(r) = Gen(q) => r = q) /\ (Evl(r) = Evl(q) => r = q)
  /\ \A r \in Rank : /\ Job(Gen(r)) = "gen" /\ Job(Evl(r)) = "evl"
                     /\ node_rank(Gen(r)) = r /\ node_rank(Evl(r)) = r
  /\ 0 \in Rank
BY StartupAssumption DEF Process, Gen, Evl, Job, node_rank, Rank

\* The hosts of the evaluators fit into a message.
LEMMA HostsSendable ==
  ASSUME host \in [Rank -> Hosts]
  PROVE  Sendable([i \in 1 .. NodeAmnt |-> host[i - 1]])
<1> DEFINE m == [i \in 1 .. NodeAmnt |-> host[i - 1]]
<1>1. \A i \in 1 .. NodeAmnt : i - 1 \in Rank /\ host[i - 1] \in Byte
  BY StartupAssumption DEF Rank
<1>2. m \in Seq(Byte) /\ Len(m) = NodeAmnt
  <2>1. m \in [1 .. NodeAmnt -> Byte]
    BY <1>1
  <2> QED
    BY <2>1, StartupAssumption
<1> QED
  BY <1>2, LinksAssumption DEF Sendable

\* A write of a message of the protocol.
LEMMA TalkSendable ==
  ASSUME NEW p \in Process, turn \in [Process -> Nat], turn[p] < Len(Traffic[node_rank(p)])
  PROVE  Sendable(Current(p).bytes)
<1>1. node_rank(p) \in Rank /\ turn[p] \in Nat
  BY Processes
<1>2. turn[p] + 1 \in 1 .. Len(Traffic[node_rank(p)])
  BY <1>1, LinksAssumption
<1> QED
  BY <1>1, <1>2, LinksAssumption DEF Current

\* Whatever a process does, the links stay right.
LEMMA WiresStep ==
  ASSUME WireInv, NEW p \in Process, Step(p)
  PROVE  Wires'
<1>1. Wires /\ Job(p) \notin dead
  BY DEF WireInv, Step
<1>2. CASE Silent /\ dead' = dead
  BY <1>1, <1>2, NoLink DEF Silent
<1>3. CASE Gather(p) \/ IpListen(p) \/ Listen(p) \/ Accept(p) \/ Connect(p) \/ Scattered(p)
           \/ CheckParams(p) \/ ReadPrivate(p) \/ Bcast(p) \/ Done(p)
  BY <1>2, <1>3 DEF Gather, IpListen, Listen, Accept, Connect, Scattered, CheckParams, ReadPrivate,
                    Bcast, Done
<1>4. CASE Refused(p) \/ Abort(p)
  <2>1. dead \subseteq dead' /\ Silent
    BY <1>4 DEF Refused, Abort
  <2> QED
    BY <1>1, <2>1, NoLink DEF Silent
<1>5. CASE IpAccept(p)
  <2>1. Write(IpLink, ips["evl"]) /\ dead' = dead /\ Alive(IpLink)
    BY <1>1, <1>5 DEF IpAccept, Alive, IpLink, Link
  <2>2. Sendable(ips["evl"])
    BY <1>5, HostsSendable DEF WireInv, SayType, IpAccept
  <2> QED
    BY <1>1, <2>1, <2>2, WriteKeeps
<1>6. CASE IpWritten(p)
  <2>1. /\ Written(IpLink) /\ EndWrite(IpLink) /\ dead' = dead /\ Alive(IpLink)
        /\ UNCHANGED <<said, heard>>
    BY <1>1, <1>6 DEF IpWritten, Alive, IpLink, Link
  <2> QED
    BY <1>1, <2>1, EndWriteKeeps
<1>7. CASE IpRead(p)
  BY <1>1, <1>7, ReadKeeps DEF IpRead
<1>8. CASE Scatter(p)
  BY <1>1, <1>8, HearKeeps DEF Scatter
<1>9. CASE SyncClawFree(p)
  <2>1. CASE p = Evl(0) /\ Write(ToPeer(p), claw[p])
    <3>1. Alive(ToPeer(p)) /\ Sendable(claw[p]) /\ dead' = dead
      BY <1>1, <1>9, <2>1, LinksAssumption DEF WireInv, SayType, Alive, ToPeer, Link, SyncClawFree
    <3> QED
      BY <1>1, <2>1, <3>1, WriteKeeps
  <2>2. CASE ReadBytes(FromPeer(p)) /\ UNCHANGED <<said, heard>>
    BY <1>1, <1>9, <2>2, ReadKeeps DEF SyncClawFree
  <2> QED
    BY <1>9, <2>1, <2>2 DEF SyncClawFree
<1>10. CASE Synced(p)
  <2>1. CASE Written(ToPeer(p)) /\ EndWrite(ToPeer(p)) /\ UNCHANGED <<said, heard>>
    <3>1. Alive(ToPeer(p)) /\ dead' = dead
      BY <1>1, <1>10 DEF Alive, ToPeer, Link, Synced
    <3> QED
      BY <1>1, <2>1, <3>1, EndWriteKeeps
  <2>2. CASE Read(FromPeer(p)) /\ Hear(FromPeer(p))
    BY <1>1, <1>10, <2>2, HearKeeps DEF Synced
  <2> QED
    BY <1>10, <2>1, <2>2 DEF Synced
<1>11. CASE Talk(p)
  <2>1. CASE Write(ToPeer(p), Current(p).bytes)
    <3>1. Alive(ToPeer(p)) /\ dead' = dead
      BY <1>1, <1>11 DEF Alive, ToPeer, Link, Talk
    <3>2. Sendable(Current(p).bytes)
      BY <1>11, TalkSendable DEF Talk, WireInv, SayType
    <3> QED
      BY <1>1, <2>1, <3>1, <3>2, WriteKeeps
  <2>2. CASE ReadBytes(FromPeer(p)) /\ UNCHANGED <<said, heard>>
    BY <1>1, <1>11, <2>2, ReadKeeps DEF Talk
  <2> QED
    BY <1>11, <2>1, <2>2 DEF Talk
<1>12. CASE Talked(p)
  <2>1. CASE Written(ToPeer(p)) /\ EndWrite(ToPeer(p)) /\ UNCHANGED <<said, heard>>
    <3>1. Alive(ToPeer(p)) /\ dead' = dead
      BY <1>1, <1>12 DEF Alive, ToPeer, Link, Talked
    <3> QED
      BY <1>1, <2>1, <3>1, EndWriteKeeps
  <2>2. CASE Read(FromPeer(p)) /\ Hear(FromPeer(p))
    BY <1>1, <1>12, <2>2, HearKeeps DEF Talked
  <2> QED
    BY <1>12, <2>1, <2>2 DEF Talked
<1>13. CASE NetStep(p)
  <2>1. PICK l \in Links : (l.from = p /\ Send(l)) \/ (l.to = p /\ Recv(l))
    BY <1>13 DEF NetStep
  <2>2. dead' = dead /\ UNCHANGED <<said, heard>>
    BY <1>13 DEF NetStep
  <2>3. CASE l.from = p /\ Send(l)
    BY <1>1, <2>2, <2>3, SendKeeps DEF Alive
  <2>4. CASE l.to = p /\ Recv(l)
    BY <1>1, <2>2, <2>4, RecvKeeps
  <2> QED
    BY <2>1, <2>3, <2>4
<1> QED
  BY <1>3, <1>4, <1>5, <1>6, <1>7, <1>8, <1>9, <1>10, <1>11, <1>12, <1>13 DEF Step

\* A fault does not mix up what is read.
LEMMA WiresFault ==
  ASSUME WireInv, NEW p \in Process, Fault(p)
  PROVE  Wires'
<1>1. Wires
  BY DEF WireInv
<1>2. CASE ConnectionReset(p)
  <2>1. PICK l \in Links : l.to = p /\ Job(l.from) \in dead /\ Reset(l)
    BY <1>2 DEF ConnectionReset
  <2>2. dead' = dead /\ UNCHANGED <<said, heard>>
    BY <1>2 DEF ConnectionReset
  <2> QED
    BY <1>1, <2>1, <2>2, ResetKeeps DEF Alive
<1>3. CASE BrokenPipe(p)
  <2>1. dead \subseteq dead' /\ Silent
    BY <1>3 DEF BrokenPipe
  <2> QED
    BY <1>1, <2>1, NoLink DEF Silent
<1> QED
  BY <1>2, <1>3 DEF Fault

\* How a step moves its process.
LEMMA PcStep ==
  ASSUME pc \in [Process -> PcVal], NEW p \in Process, Step(p) \/ Fault(p)
  PROVE  /\ pc' \in [Process -> PcVal]
         /\ \A q \in Process \ {p} : pc'[q] = pc[q]
         /\ pc'[p] = "ip_accept" /\ pc[p] # "ip_accept" => IpListen(p)
         /\ pc[p] \in Running => pc'[p] \in Running
<1>1. CASE UNCHANGED pc
  BY <1>1
<1>2. CASE \E to \in PcVal : Goto(p, to) /\ to # "ip_accept" /\ (pc[p] \in Running => to \in Running)
  BY <1>2 DEF Goto
<1>3. CASE Gather(p)
  BY <1>2, <1>3 DEF Gather, PcVal, Running
<1>4. CASE IpListen(p)
  <2>1. Goto(p, "ip_accept") /\ pc[p] \notin Running
    BY <1>4 DEF IpListen, Running
  <2> QED
    BY <1>4, <2>1 DEF Goto, PcVal
<1>5. CASE IpAccept(p) \/ IpWritten(p) \/ Listen(p)
  BY <1>2, <1>5 DEF IpAccept, IpWritten, Listen, PcVal, Running
<1>6. CASE Accept(p) \/ IpRead(p) \/ Scatter(p)
  BY <1>2, <1>6 DEF Accept, IpRead, Scatter, PcVal, Running
<1>7. CASE Connect(p)
  <2>1. Goto(p, "environ") \/ Goto(p, "ip_read")
    BY <1>7 DEF Connect
  <2>2. pc[p] \notin Running
    BY <1>7 DEF Connect, Connecting, Running
  <2> QED
    BY <1>2, <2>1, <2>2 DEF PcVal
<1>8. CASE Scattered(p) \/ CheckParams(p) \/ ReadPrivate(p)
  BY <1>2, <1>8 DEF Scattered, CheckParams, ReadPrivate, PcVal, Running
<1>9. CASE SyncClawFree(p) \/ Synced(p) \/ Bcast(p)
  BY <1>2, <1>9 DEF SyncClawFree, Synced, Bcast, PcVal, Running
<1>10. CASE Talk(p) \/ Talked(p) \/ Done(p)
  BY <1>2, <1>10 DEF Talk, Talked, Done, PcVal, Running
<1>11. CASE Refused(p) \/ Abort(p) \/ NetStep(p) \/ ConnectionReset(p) \/ BrokenPipe(p)
  BY <1>1, <1>11 DEF Refused, Abort, NetStep, ConnectionReset, BrokenPipe
<1> QED
  BY <1>3, <1>4, <1>5, <1>6, <1>7, <1>8, <1>9, <1>10, <1>11 DEF Step, Fault

\* What a step leaves alone.
LEMMA Frames ==
  ASSUME NEW p \in Process, Step(p) \/ Fault(p)
  PROVE  /\ host' = host
         /\ turn' = turn \/ turn' = [turn EXCEPT ![p] = @ + 1]
         /\ ips' = ips \/ IpListen(p) \/ Scatter(p)
         /\ claw' = claw \/ (Synced(p) /\ p = Gen(0)) \/ Bcast(p)
         /\ remote' = remote \/ Accept(p) \/ Connect(p)
         /\ backlog' = backlog \/ IpAccept(p) \/ Accept(p) \/ Connect(p)
         /\ listening' = listening \/ IpListen(p) \/ IpWritten(p) \/ Listen(p)
         /\ said' = said \/ IpAccept(p) \/ SyncClawFree(p) \/ Talk(p)
         /\ heard' = heard \/ Scatter(p) \/ Synced(p) \/ Talked(p)
<1>1. CASE Gather(p) \/ IpListen(p) \/ IpAccept(p) \/ IpWritten(p) \/ Listen(p)
  BY <1>1 DEF Gather, IpListen, IpAccept, IpWritten, Listen, Silent, Write
<1>2. CASE Accept(p) \/ Connect(p) \/ Refused(p) \/ IpRead(p) \/ Scatter(p) \/ Scattered(p)
  BY <1>2 DEF Accept, Connect, Refused, IpRead, Scatter, Scattered, Silent, Hear, netting
<1>3. CASE CheckParams(p) \/ ReadPrivate(p) \/ Abort(p) \/ Done(p)
  BY <1>3 DEF CheckParams, ReadPrivate, Abort, Done, Silent, netting
<1>4. CASE SyncClawFree(p) \/ Bcast(p)
  BY <1>4 DEF SyncClawFree, Bcast, Silent, Write, netting
<1>5. CASE Synced(p)
  BY <1>5 DEF Synced, Hear, netting
<1>6. CASE Talk(p)
  BY <1>6 DEF Talk, Write, netting
<1>7. CASE Talked(p)
  BY <1>7 DEF Talked, Hear, netting
<1>8. CASE NetStep(p) \/ ConnectionReset(p) \/ BrokenPipe(p)
  BY <1>8 DEF NetStep, ConnectionReset, BrokenPipe, Silent, netting
<1> QED
  BY <1>1, <1>2, <1>3, <1>4, <1>5, <1>6, <1>7, <1>8 DEF Step, Fault

\* What can be said to be sent stays so.
LEMMA SayStep ==
  ASSUME SayType, NEW p \in Process, Step(p) \/ Fault(p)
  PROVE  SayType'
<1>0. Evl(0) \in Process /\ Gen(0) \in Process /\ Evl(0) # Gen(0)
  BY Processes
<1>1. host' = host
  BY Frames
<1>2. turn' \in [Process -> Nat]
  <2>1. turn' = turn \/ turn' = [turn EXCEPT ![p] = @ + 1]
    BY Frames
  <2> QED
    BY <2>1 DEF SayType
<1>3. claw'[Evl(0)] = claw[Evl(0)] /\ DOMAIN claw' = Process
  <2>1. claw' = claw \/ \E x : claw' = [claw EXCEPT ![p] = x] /\ p # Evl(0)
    <3>1. CASE Synced(p) /\ p = Gen(0)
      BY <1>0, <3>1 DEF Synced
    <3>2. CASE Bcast(p)
      BY <3>2 DEF Bcast, Roots
    <3> QED
      BY <3>1, <3>2, Frames
  <2> QED
    BY <1>0, <2>1 DEF SayType
<1>4. pc' \in [Process -> PcVal]
  BY PcStep DEF SayType
<1>5. /\ DOMAIN ips' = {"gen", "evl"}
      /\ IpListen(p) => ips'["evl"] = [i \in 1 .. NodeAmnt |-> host[i - 1]]
      /\ ~ IpListen(p) => ips'["evl"] = ips["evl"]
  <2>1. CASE IpListen(p)
    <3> DEFINE x == [i \in 1 .. NodeAmnt |-> host[i - 1]]
    <3>1. ips' = [ips EXCEPT !["evl"] = x]
      BY <2>1 DEF IpListen
    <3> HIDE DEF x
    <3>2. DOMAIN ips' = {"gen", "evl"} /\ ips'["evl"] = x
      BY <3>1 DEF SayType
    <3> QED
      BY <2>1, <3>2 DEF x
  <2>2. CASE Scatter(p) /\ ~ IpListen(p)
    BY <2>2 DEF Scatter, SayType
  <2>3. CASE ips' = ips /\ ~ IpListen(p)
    BY <2>3 DEF SayType
  <2> QED
    BY <2>1, <2>2, <2>3, Frames
<1>6. ASSUME pc'[Evl(0)] = "ip_accept"
      PROVE  ips'["evl"] = [i \in 1 .. NodeAmnt |-> host'[i - 1]]
  <2>1. CASE IpListen(p)
    BY <1>1, <1>5, <2>1
  <2>2. CASE ~ IpListen(p)
    <3>1. pc[Evl(0)] = "ip_accept"
      BY <1>0, <1>6, <2>2, PcStep DEF SayType
    <3> QED
      BY <1>1, <1>5, <2>2, <3>1 DEF SayType
  <2> QED
    BY <2>1, <2>2
<1> QED
  BY <1>1, <1>2, <1>3, <1>4, <1>5, <1>6 DEF SayType

\* The beginning: nothing is under way.
LEMMA WireInit ==
  ASSUME Init
  PROVE  WireInv
<1>1. /\ dead = {} /\ out = [l \in Links |-> NoWrite] /\ in = [l \in Links |-> NoRead]
      /\ stream = [l \in Links |-> << >>] /\ said = [l \in Links |-> << >>]
      /\ heard = [l \in Links |-> << >>]
  BY DEF Init, NetInit
<1>2. Flow(NoWrite, NoRead, << >>, << >>, << >>, TRUE)
  BY FlowStart
<1>3. \A l \in Links : Wired(l)
  BY <1>1, <1>2 DEF Wired, Alive
<1>4. WireType
  <2>1. NoWrite \in Outgoing /\ NoRead \in Incoming /\ << >> \in Seq(Byte) /\ << >> \in Seq(Seq(Byte))
    BY <1>2, FlowType
  <2> QED
    BY <1>1, <2>1 DEF WireType
<1>5. SayType
  <2>1. pc \in [Process -> PcVal] /\ pc[Evl(0)] # "ip_accept"
    BY Processes DEF Init, PcVal
  <2>2. claw[Evl(0)] \in Claws /\ DOMAIN claw = Process
    BY Processes DEF Init
  <2>3. turn \in [Process -> Nat] /\ host \in [Rank -> Hosts] /\ DOMAIN ips = {"gen", "evl"}
    BY DEF Init
  <2> QED
    BY <2>1, <2>2, <2>3 DEF SayType
<1> QED
  BY <1>3, <1>4, <1>5 DEF WireInv, Wires

\* A step keeps the links right.
LEMMA WireNext ==
  ASSUME WireInv, [Next]_vars
  PROVE  WireInv'
<1>1. CASE UNCHANGED vars
  <2>1. Wires'
    BY <1>1, NoLink DEF WireInv, vars
  <2>2. SayType'
    BY <1>1 DEF WireInv, SayType, vars, netting
  <2> QED
    BY <2>1, <2>2 DEF WireInv
<1>2. CASE \E p \in Process : Step(p) \/ Fault(p)
  <2>1. PICK p \in Process : Step(p) \/ Fault(p)
    BY <1>2
  <2>2. Wires'
    BY <2>1, WiresStep, WiresFault
  <2>3. SayType'
    BY <2>1, SayStep DEF WireInv
  <2> QED
    BY <2>2, <2>3 DEF WireInv
<1> QED
  BY <1>1, <1>2 DEF Next, Finished

\* The messages read from a link are the first of those written to it.
LEMMA FlowPrefix ==
  ASSUME NEW H \in Seq(Seq(Byte)), NEW S \in Seq(Seq(Byte)), Len(H) <= Len(S),
         \A k \in 1 .. Len(H) : H[k] = S[k]
  PROVE  IsPrefix(H, S)
<1> DEFINE n == Len(H)
           P == SubSeq(S, 1, n)
<1>1. n \in Nat /\ Len(S) \in Nat /\ n <= Len(S)
  OBVIOUS
<1>2. \A k \in 1 .. n : S[k] \in Seq(Byte)
  BY <1>1
<1>3. P \in Seq(Seq(Byte)) /\ Len(P) = n /\ \A k \in 1 .. n : P[k] = S[k]
  <2> HIDE DEF n
  <2> QED
    BY <1>1, <1>2, SubSeqProperties
<1>4. P = H
  <2> HIDE DEF P
  <2> QED
    BY <1>3, SeqEqual
<1>5. SubSeq(H, 1, Len(H)) = H
  BY SubSeqFull
<1> QED
  BY <1>1, <1>4, <1>5 DEF IsPrefix

\* The messages read from a connection are the first of those written to it,
\* whole and in order (write_bytes, read_bytes, my_read).
THEOREM MessagesWhole == Spec => []WholeMessages
<1>1. Init => WireInv
  BY WireInit
<1>2. WireInv /\ [Next]_vars => WireInv'
  BY WireNext
<1>3. WireInv => WholeMessages
  <2> SUFFICES ASSUME WireInv, NEW l \in Links
               PROVE  IsPrefix(heard[l], said[l])
    BY DEF WholeMessages
  <2>1. /\ heard[l] \in Seq(Seq(Byte)) /\ said[l] \in Seq(Seq(Byte))
        /\ Flow(out[l], in[l], stream[l], said[l], heard[l], Alive(l))
    BY DEF WireInv, Wires, WireType, Wired
  <2> QED
    BY <2>1, FlowPrefix DEF Flow
<1> QED
  BY <1>1, <1>2, <1>3, PTL DEF Spec

-----------------------------------------------------------------------------
(***************************************************************************)
(* Who is connected to whom.                                               *)
(***************************************************************************)
PartnerOf(p) == <<IF Job(p) = "gen" THEN "evl" ELSE "gen", node_rank(p)>>

\* Where a process has its partner's socket.
Connected == {"environ", "clawfree", "sync"} \cup Running

\* Only the generator process of a rank queues up at that rank's port, and
\* only the evaluator process of the rank listens there.
PeerInv ==
  /\ remote \in [Process -> Process \cup {Nobody}]
  /\ \A p \in Process : remote[p] # Nobody => remote[p] = PartnerOf(p)
  /\ \A p \in Process : pc[p] \in Connected => remote[p] # Nobody
  /\ backlog \in [Address -> Seq(Process)]
  /\ \A r \in Rank : \A h \in Hosts : \A k \in 1 .. Len(backlog[<<h, Port(r)>>]) :
        backlog[<<h, Port(r)>>][k] = Gen(r)
  /\ \A a \in listening : \A r \in Rank : a[2] = Port(r) => a = <<host[r], Port(r)>>

\* The ports of the ranks differ, from each other and from the one for addresses.
LEMMA Ports ==
  /\ \A r \in Rank : Port(r) # IP_SERVER_PORT /\ \A q \in Rank : Port(r) = Port(q) => r = q
  /\ \A h \in Hosts : <<h, IP_SERVER_PORT>> \in Address /\ \A r \in Rank : <<h, Port(r)>> \in Address
<1>1. \A r \in Rank : Port(r) # IP_SERVER_PORT
  BY StartupAssumption
<1>2. \A r, q \in Rank : Port(r) = Port(q) => r = q
  BY StartupAssumption DEF Port, Rank
<1>3. \A h \in Hosts : <<h, IP_SERVER_PORT>> \in Address /\ \A r \in Rank : <<h, Port(r)>> \in Address
  BY DEF Address
<1> QED
  BY <1>1, <1>2, <1>3

\* Nobody is connected at first.
LEMMA PeerInit ==
  ASSUME Init
  PROVE  PeerInv
<1>1. remote = [p \in Process |-> Nobody] /\ backlog = [a \in Address |-> << >>] /\ listening = {}
  BY DEF Init
<1>2. \A p \in Process : pc[p] \notin Connected
  BY DEF Init, Connected, Running
<1>3. << >> \in Seq(Process) /\ Len(<< >>) = 0
  OBVIOUS
<1>4. \A r \in Rank : \A h \in Hosts : backlog[<<h, Port(r)>>] = << >>
  BY <1>1, Ports
<1> QED
  BY <1>1, <1>2, <1>3, <1>4 DEF PeerInv

\* The one who listens at a rank's port is the evaluator process of the rank.
LEMMA OwnerIs ==
  ASSUME NEW r \in Rank
  PROVE  Owner(<<host[r], Port(r)>>) = Evl(r)
<1> DEFINE a == <<host[r], Port(r)>>
<1>1. Evl(r) \in Process /\ Job(Evl(r)) = "evl" /\ a = <<host[node_rank(Evl(r))], Port(node_rank(Evl(r)))>>
  BY Processes
<1>2. ASSUME NEW q \in Process, Job(q) = "evl", a = <<host[node_rank(q)], Port(node_rank(q))>>
      PROVE  q = Evl(r)
  <2>1. node_rank(q) \in Rank /\ Port(node_rank(q)) = Port(r)
    BY <1>2, Processes
  <2>2. node_rank(q) = r
    BY <2>1, Ports
  <2> QED
    BY <1>2, <2>2, Processes
<1> HIDE DEF a
<1>3. Owner(a) = Evl(r)
  BY <1>1, <1>2 DEF Owner
<1> QED
  BY <1>3 DEF a

\* A connect succeeds at the socket of the process's partner.
LEMMA ConnectStep ==
  ASSUME PeerInv, SayType, NEW p \in Process, Connect(p)
  PROVE  PeerInv'
<1> DEFINE a == Goal(p)
           r == node_rank(p)
<1>1. /\ Job(p) = "gen" /\ pc[p] \in {"ip_connect", "connect"} /\ a \in listening
      /\ backlog' = [backlog EXCEPT ![a] = Append(@, p)]
      /\ remote' = IF pc[p] = "connect" THEN [remote EXCEPT ![p] = Owner(a)] ELSE remote
      /\ Goto(p, IF pc[p] = "connect" THEN "environ" ELSE "ip_read")
      /\ listening' = listening /\ host' = host
  BY DEF Connect, Connecting, Reachable
<1>2. p = Gen(r) /\ r \in Rank
  BY <1>1, Processes
<1>3. pc[p] = "connect" => a[2] = Port(r)
  BY DEF Goal
<1>4. pc[p] = "ip_connect" => a = <<host[0], IP_SERVER_PORT>>
  BY DEF Goal
<1> HIDE DEF a, r
<1>5. pc[p] = "connect" => a = <<host[r], Port(r)>> /\ Owner(a) = Evl(r)
  BY <1>1, <1>2, <1>3, OwnerIs DEF PeerInv
<1>6. Evl(r) \in Process /\ Evl(r) = PartnerOf(p) /\ Evl(r) # Nobody
  BY <1>1, <1>2, Processes DEF PartnerOf, Evl, Nobody, r
<1>7. /\ remote' \in [Process -> Process \cup {Nobody}]
      /\ \A q \in Process : remote'[q] # Nobody => remote'[q] = PartnerOf(q)
  <2>1. CASE pc[p] = "connect"
    <3>1. remote' = [remote EXCEPT ![p] = Evl(r)]
      BY <1>1, <1>5, <2>1
    <3> QED
      BY <1>6, <3>1 DEF PeerInv
  <2>2. CASE pc[p] # "connect"
    BY <1>1, <2>2 DEF PeerInv
  <2> QED
    BY <2>1, <2>2
<1>8. \A q \in Process : pc'[q] \in Connected => remote'[q] # Nobody
  <2>1. CASE pc[p] = "connect"
    <3>1. remote' = [remote EXCEPT ![p] = Evl(r)] /\ pc' = [pc EXCEPT ![p] = "environ"]
      BY <1>1, <1>5, <2>1 DEF Goto
    <3> QED
      BY <1>6, <3>1 DEF PeerInv, SayType
  <2>2. CASE pc[p] # "connect"
    <3>1. remote' = remote /\ pc' = [pc EXCEPT ![p] = "ip_read"]
      BY <1>1, <2>2 DEF Goto
    <3> QED
      BY <3>1 DEF PeerInv, SayType, Connected, Running
  <2> QED
    BY <2>1, <2>2
<1>9. a \in Address
  <2>1. host[0] \in Hosts /\ host[r] \in Hosts
    BY <1>2, Processes DEF SayType
  <2> QED
    BY <1>1, <1>2, <1>4, <1>5, <2>1, Ports
<1>10. backlog[a] \in Seq(Process) /\ backlog' \in [Address -> Seq(Process)]
  <2>1. backlog[a] \in Seq(Process)
    BY <1>9 DEF PeerInv
  <2>2. Append(backlog[a], p) \in Seq(Process)
    BY <2>1
  <2> QED
    BY <1>1, <1>9, <2>1, <2>2 DEF PeerInv
<1>11. ASSUME NEW q \in Rank, NEW h \in Hosts, NEW k \in 1 .. Len(backlog'[<<h, Port(q)>>])
       PROVE  backlog'[<<h, Port(q)>>][k] = Gen(q)
  <2> DEFINE b == <<h, Port(q)>>
  <2>1. b \in Address
    BY Ports
  <2>2. CASE b = a
    <3>1. q = r
      BY <1>1, <1>2, <1>4, <1>5, <2>2, Ports
    <3>2. backlog'[b] = Append(backlog[b], p)
      BY <1>1, <1>9, <2>2 DEF PeerInv
    <3>3. \A j \in 1 .. Len(backlog[b]) : backlog[b][j] = p
      BY <1>2, <3>1 DEF PeerInv
    <3>4. backlog[b] \in Seq(Process)
      BY <1>10, <2>2
    <3>5. /\ Len(backlog'[b]) = Len(backlog[b]) + 1
          /\ \A j \in 1 .. Len(backlog[b]) : backlog'[b][j] = backlog[b][j]
          /\ backlog'[b][Len(backlog[b]) + 1] = p
      BY <3>2, <3>4, AppendProperties
    <3>6. k \in 1 .. Len(backlog[b]) \/ k = Len(backlog[b]) + 1
      BY <3>4, <3>5
    <3> QED
      BY <1>2, <3>1, <3>3, <3>5, <3>6
  <2>3. CASE b # a
    <3>1. backlog'[b] = backlog[b]
      BY <1>1, <1>9, <2>1, <2>3 DEF PeerInv
    <3> QED
      BY <3>1 DEF PeerInv
  <2> QED
    BY <2>2, <2>3
<1>12. \A x \in listening' : \A q \in Rank : x[2] = Port(q) => x = <<host'[q], Port(q)>>
  BY <1>1 DEF PeerInv
<1> QED
  BY <1>7, <1>8, <1>10, <1>11, <1>12 DEF PeerInv

\* The queue of a port, whose members are all the same.
LEMMA QueueOf ==
  ASSUME NEW X, NEW s \in Seq(X), s # << >>, NEW x, \A k \in 1 .. Len(s) : s[k] = x
  PROVE  /\ Head(s) = x /\ Tail(s) \in Seq(X)
         /\ \A k \in 1 .. Len(Tail(s)) : Tail(s)[k] = x
<1>1. /\ Head(s) = s[1] /\ 1 \in 1 .. Len(s)
      /\ Tail(s) \in Seq(X) /\ Len(Tail(s)) = Len(s) - 1
  OBVIOUS
<1>2. \A k \in 1 .. Len(Tail(s)) : Tail(s)[k] = s[k + 1] /\ k + 1 \in 1 .. Len(s)
  OBVIOUS
<1> QED
  BY <1>1, <1>2

\* An accept takes the first in the queue, which is the partner.
LEMMA AcceptStep ==
  ASSUME PeerInv, SayType, NEW p \in Process, Accept(p)
  PROVE  PeerInv'
<1> DEFINE r == node_rank(p)
           a == <<host[r], Port(r)>>
<1>1. /\ Job(p) = "evl" /\ backlog[a] # << >>
      /\ remote' = [remote EXCEPT ![p] = Head(backlog[a])]
      /\ backlog' = [backlog EXCEPT ![a] = Tail(@)]
      /\ pc' = [pc EXCEPT ![p] = "environ"]
      /\ listening' = listening /\ host' = host
  BY DEF Accept, Goto
<1>2. p = Evl(r) /\ r \in Rank /\ host[r] \in Hosts
  BY <1>1, Processes DEF SayType
<1>3. a \in Address /\ backlog[a] \in Seq(Process)
  BY <1>2, Ports DEF PeerInv
<1>4. \A k \in 1 .. Len(backlog[a]) : backlog[a][k] = Gen(r)
  BY <1>2 DEF PeerInv
<1>5. /\ Head(backlog[a]) = Gen(r) /\ Tail(backlog[a]) \in Seq(Process)
      /\ \A k \in 1 .. Len(Tail(backlog[a])) : Tail(backlog[a])[k] = Gen(r)
  <2> DEFINE b == backlog[a]
  <2>1. b \in Seq(Process) /\ b # << >> /\ \A k \in 1 .. Len(b) : b[k] = Gen(r)
    BY <1>1, <1>3, <1>4
  <2> HIDE DEF b
  <2>2. /\ Head(b) = Gen(r) /\ Tail(b) \in Seq(Process)
        /\ \A k \in 1 .. Len(Tail(b)) : Tail(b)[k] = Gen(r)
    BY <2>1, QueueOf
  <2> QED
    BY <2>2 DEF b
<1>6. Gen(r) \in Process /\ Gen(r) = PartnerOf(p) /\ Gen(r) # Nobody
  BY <1>1, <1>2, Processes DEF PartnerOf, Gen, Nobody
<1> HIDE DEF r
<1>7. remote' = [remote EXCEPT ![p] = Gen(r)]
  BY <1>1, <1>5
<1>8. /\ remote' \in [Process -> Process \cup {Nobody}]
      /\ \A q \in Process : remote'[q] # Nobody => remote'[q] = PartnerOf(q)
      /\ \A q \in Process : pc'[q] \in Connected => remote'[q] # Nobody
  <2>1. \A q \in Process \ {p} : pc'[q] = pc[q] /\ remote'[q] = remote[q]
    BY <1>1, <1>7 DEF PeerInv, SayType
  <2>2. remote'[p] = Gen(r) /\ remote' \in [Process -> Process \cup {Nobody}]
    BY <1>6, <1>7 DEF PeerInv
  <2> QED
    BY <1>6, <2>1, <2>2 DEF PeerInv
<1> HIDE DEF a
<1>10. backlog' \in [Address -> Seq(Process)]
  BY <1>1, <1>3, <1>5 DEF PeerInv
<1>11. ASSUME NEW q \in Rank, NEW h \in Hosts, NEW k \in 1 .. Len(backlog'[<<h, Port(q)>>])
       PROVE  backlog'[<<h, Port(q)>>][k] = Gen(q)
  <2> DEFINE b == <<h, Port(q)>>
  <2>1. b \in Address
    BY Ports
  <2>2. CASE b = a
    <3>1. q = r
      BY <1>2, <2>2, Ports DEF a
    <3>2. backlog'[b] = Tail(backlog[a])
      BY <1>1, <1>3, <2>2 DEF PeerInv
    <3> QED
      BY <1>5, <3>1, <3>2
  <2>3. CASE b # a
    <3>1. backlog'[b] = backlog[b]
      BY <1>1, <1>3, <2>1, <2>3 DEF PeerInv
    <3> QED
      BY <3>1 DEF PeerInv
  <2> QED
    BY <2>2, <2>3
<1>12. \A x \in listening' : \A q \in Rank : x[2] = Port(q) => x = <<host'[q], Port(q)>>
  BY <1>1 DEF PeerInv
<1> QED
  BY <1>8, <1>10, <1>11, <1>12 DEF PeerInv

\* Who is connected stays so.
LEMMA PeerStep ==
  ASSUME PeerInv, SayType, NEW p \in Process, Step(p) \/ Fault(p)
  PROVE  PeerInv'
<1>1. CASE Connect(p)
  BY <1>1, ConnectStep
<1>2. CASE Accept(p)
  BY <1>2, AcceptStep
<1>3. CASE ~ Connect(p) /\ ~ Accept(p)
  <2>1. remote' = remote /\ host' = host
    BY <1>3, Frames
  <2>2. \A q \in Process : pc'[q] \in Connected => pc[q] \in Connected
    <3>1. \A q \in Process \ {p} : pc'[q] = pc[q]
      BY PcStep DEF SayType
    <3>2. pc'[p] \in Connected => pc[p] \in Connected
      <4>1. CASE UNCHANGED pc
        BY <4>1
      <4>2. CASE pc[p] \in Connected
        BY <4>2
      <4>3. CASE \E to : Goto(p, to) /\ to \notin Connected
        BY <4>3 DEF Goto, SayType
      <4>4. CASE Gather(p) \/ IpListen(p) \/ IpAccept(p) \/ IpWritten(p) \/ Listen(p)
        BY <4>3, <4>4 DEF Gather, IpListen, IpAccept, IpWritten, Listen, Connected, Running
      <4>5. CASE IpRead(p) \/ Scatter(p) \/ Scattered(p)
        BY <4>3, <4>5 DEF IpRead, Scatter, Scattered, Connected, Running
      <4>6. CASE CheckParams(p) \/ ReadPrivate(p) \/ SyncClawFree(p) \/ Synced(p) \/ Bcast(p)
                 \/ Talk(p) \/ Talked(p) \/ Done(p)
        BY <4>2, <4>6 DEF CheckParams, ReadPrivate, SyncClawFree, Synced, Bcast, Talk, Talked, Done,
                          Connected, Running
      <4>7. CASE Refused(p) \/ Abort(p) \/ NetStep(p) \/ ConnectionReset(p) \/ BrokenPipe(p)
        BY <4>1, <4>7 DEF Refused, Abort, NetStep, ConnectionReset, BrokenPipe
      <4> QED
        BY <1>3, <4>4, <4>5, <4>6, <4>7 DEF Step, Fault
    <3> QED
      BY <3>1, <3>2
  <2>3. /\ backlog' \in [Address -> Seq(Process)]
        /\ \A r \in Rank : \A h \in Hosts : backlog'[<<h, Port(r)>>] = backlog[<<h, Port(r)>>]
    <3>1. CASE IpAccept(p)
      <4> DEFINE a == <<host[0], IP_SERVER_PORT>>
      <4>1. backlog' = [backlog EXCEPT ![a] = Tail(@)] /\ backlog[a] # << >>
        BY <3>1 DEF IpAccept
      <4>2. a \in Address /\ \A r \in Rank : \A h \in Hosts : <<h, Port(r)>> \in Address /\ <<h, Port(r)>> # a
        BY Ports, Processes DEF SayType
      <4> HIDE DEF a
      <4>3. Tail(backlog[a]) \in Seq(Process)
        BY <4>1, <4>2 DEF PeerInv
      <4> QED
        BY <4>1, <4>2, <4>3 DEF PeerInv
    <3>2. CASE backlog' = backlog
      BY <3>2 DEF PeerInv
    <3> QED
      BY <1>3, <3>1, <3>2, Frames
  <2>4. \A a \in listening' : \A r \in Rank : a[2] = Port(r) => a = <<host[r], Port(r)>>
    <3>1. CASE IpListen(p)
      BY <3>1, Ports DEF IpListen, PeerInv
    <3>2. CASE IpWritten(p)
      BY <3>2 DEF IpWritten, PeerInv
    <3>3. CASE Listen(p)
      <4>1. listening' = listening \cup {<<host[node_rank(p)], Port(node_rank(p))>>} /\ node_rank(p) \in Rank
        BY <3>3, Processes DEF Listen
      <4> QED
        BY <4>1, Ports DEF PeerInv
    <3>4. CASE listening' = listening
      BY <3>4 DEF PeerInv
    <3> QED
      BY <3>1, <3>2, <3>3, <3>4, Frames
  <2> QED
    BY <2>1, <2>2, <2>3, <2>4 DEF PeerInv
<1> QED
  BY <1>1, <1>2, <1>3

\* A process is only ever connected to the process of the other party that
\* has its rank (init_network).
THEOREM PartnersMeet == Spec => []Partners
<1> DEFINE Inv == SayType /\ PeerInv
<1>1. Init => Inv
  BY WireInit, PeerInit DEF WireInv
<1>2. Inv /\ [Next]_vars => Inv'
  <2> SUFFICES ASSUME Inv, [Next]_vars
               PROVE  Inv'
    OBVIOUS
  <2>1. CASE UNCHANGED vars
    BY <2>1 DEF SayType, PeerInv, vars, netting
  <2>2. CASE \E p \in Process : Step(p) \/ Fault(p)
    BY <2>2, SayStep, PeerStep
  <2> QED
    BY <2>1, <2>2 DEF Next, Finished
<1>3. Inv => Partners
  <2> SUFFICES ASSUME Inv, NEW p \in Process, NEW q \in Process, remote[p] = q
               PROVE  Job(p) # Job(q) /\ node_rank(p) = node_rank(q)
    BY DEF Partners
  <2>1. remote[p] # Nobody
    BY DEF Process, Nobody
  <2>2. q = PartnerOf(p)
    BY <2>1 DEF PeerInv
  <2>3. Job(q) = (IF Job(p) = "gen" THEN "evl" ELSE "gen") /\ node_rank(q) = node_rank(p)
    BY <2>2 DEF PartnerOf, Job, node_rank
  <2> QED
    BY <2>3
<1> QED
  BY <1>1, <1>2, <1>3, PTL DEF Spec

-----------------------------------------------------------------------------
(***************************************************************************)
(* The claw-free collection.                                               *)
(***************************************************************************)
RootLink == Link(Evl(0), Gen(0), Port(0))

\* The first message between the roots is the evaluator's collection; the
\* generator's root has it before anything else is read.
ClawInv ==
  /\ \A p \in Process : pc[p] \in Running => claw[p] = claw[Evl(0)]
  /\ said[RootLink] # << >> => said[RootLink][1] = claw[Evl(0)]
  /\ pc[Evl(0)] \in {"sync"} \cup Running => said[RootLink] # << >>
  /\ heard[RootLink] # << >> => pc[Gen(0)] \in Running

\* The inductive invariant.
StartInv == WireInv /\ PeerInv /\ ClawInv

\* The link from the root evaluator to the root generator is none of ipserver's.
LEMMA RootLinkIs ==
  /\ RootLink \in Links /\ RootLink # IpLink
  /\ RootLink.from = Evl(0) /\ RootLink.to = Gen(0)
<1>1. 0 \in Rank
  BY Processes
<1>2. RootLink \in Links
  BY <1>1, LinksAssumption DEF RootLink
<1>3. RootLink.port = Port(0) /\ IpLink.port = IP_SERVER_PORT
  BY DEF RootLink, IpLink, Link
<1> QED
  BY <1>1, <1>2, <1>3, Ports DEF RootLink, Link

\* The roots' sockets lead to each other.
LEMMA RootPeers ==
  ASSUME PeerInv
  PROVE  /\ remote[Evl(0)] # Nobody => ToPeer(Evl(0)) = RootLink
         /\ remote[Gen(0)] # Nobody => FromPeer(Gen(0)) = RootLink
<1>1. /\ Evl(0) \in Process /\ Gen(0) \in Process
      /\ node_rank(Evl(0)) = 0 /\ node_rank(Gen(0)) = 0
      /\ PartnerOf(Evl(0)) = Gen(0) /\ PartnerOf(Gen(0)) = Evl(0)
  BY Processes DEF PartnerOf, Gen, Evl, Job, node_rank
<1>2. /\ remote[Evl(0)] # Nobody => remote[Evl(0)] = Gen(0)
      /\ remote[Gen(0)] # Nobody => remote[Gen(0)] = Evl(0)
  BY <1>1 DEF PeerInv
<1> QED
  BY <1>1, <1>2 DEF ToPeer, FromPeer, RootLink

\* No collection has been sent at first.
LEMMA ClawInit ==
  ASSUME Init
  PROVE  ClawInv
<1>1. said[RootLink] = << >> /\ heard[RootLink] = << >>
  BY RootLinkIs DEF Init
<1>2. \A p \in Process : pc[p] \notin {"sync"} \cup Running
  BY DEF Init, Running
<1> QED
  BY <1>1, <1>2, Processes DEF ClawInv

\* What is said between the roots grows at its end.
LEMMA SaidGrows ==
  ASSUME WireType, NEW l, NEW m, said' = [said EXCEPT ![l] = Append(@, m)],
         m \in Seq(Byte)
  PROVE  /\ l # RootLink => said'[RootLink] = said[RootLink]
         /\ l = RootLink => /\ said'[RootLink] # << >>
                            /\ said[RootLink] = << >> => said'[RootLink][1] = m
                            /\ said[RootLink] # << >> => said'[RootLink][1] = said[RootLink][1]
<1>1. said[RootLink] \in Seq(Seq(Byte)) /\ RootLink \in Links
  BY RootLinkIs DEF WireType
<1>2. CASE l # RootLink
  BY <1>1, <1>2 DEF WireType
<1>3. CASE l = RootLink
  <2> DEFINE S == said[RootLink]
  <2>1. said'[RootLink] = Append(S, m) /\ S \in Seq(Seq(Byte))
    BY <1>1, <1>3 DEF WireType
  <2> HIDE DEF S
  <2>2. /\ Append(S, m) # << >>
        /\ S = << >> => Append(S, m)[1] = m
        /\ S # << >> => Append(S, m)[1] = S[1]
    <3>1. Len(Append(S, m)) = Len(S) + 1 /\ Len(S) \in Nat /\ Append(S, m)[Len(S) + 1] = m
          /\ \A k \in 1 .. Len(S) : Append(S, m)[k] = S[k]
      BY <2>1, AppendProperties
    <3>2. S # << >> => 1 \in 1 .. Len(S)
      BY <2>1
    <3>3. S = << >> => Len(S) = 0
      OBVIOUS
    <3>4. Len(Append(S, m)) # 0
      BY <3>1
    <3> QED
      BY <3>1, <3>2, <3>3, <3>4
  <2> QED
    BY <1>3, <2>1, <2>2 DEF S
<1> QED
  BY <1>2, <1>3

\* What the root evaluator has said.
LEMMA ClawSaid ==
  ASSUME StartInv, NEW p \in Process, Step(p) \/ Fault(p)
  PROVE  /\ said'[RootLink] # << >> => said'[RootLink][1] = claw[Evl(0)]
         /\ pc'[Evl(0)] \in {"sync"} \cup Running => said'[RootLink] # << >>
<1>0. /\ WireType /\ pc \in [Process -> PcVal] /\ Evl(0) \in Process /\ RootLink \in Links
      /\ said[RootLink] # << >> => said[RootLink][1] = claw[Evl(0)]
      /\ pc[Evl(0)] \in {"sync"} \cup Running => said[RootLink] # << >>
      /\ Sendable(claw[Evl(0)])
  BY Processes, RootLinkIs, LinksAssumption DEF StartInv, WireInv, Wires, SayType, ClawInv
\* It is at the exchange, or was past it, only with its collection said.
<1>1. ASSUME said'[RootLink] = said[RootLink], ~ (p = Evl(0) /\ SyncClawFree(p))
      PROVE  /\ said'[RootLink] # << >> => said'[RootLink][1] = claw[Evl(0)]
             /\ pc'[Evl(0)] \in {"sync"} \cup Running => said'[RootLink] # << >>
  <2>1. pc'[Evl(0)] \in {"sync"} \cup Running => pc[Evl(0)] \in {"sync"} \cup Running
    <3>1. CASE p # Evl(0)
      BY <1>0, <3>1, PcStep
    <3>2. CASE p = Evl(0)
      <4>1. CASE UNCHANGED pc
        BY <4>1
      <4>2. CASE pc[p] \in {"sync"} \cup Running
        BY <3>2, <4>2
      <4>3. CASE \E to : Goto(p, to) /\ to \notin {"sync"} \cup Running
        BY <1>0, <3>2, <4>3 DEF Goto
      <4>4. CASE Gather(p) \/ IpListen(p) \/ IpAccept(p) \/ IpWritten(p) \/ Listen(p) \/ Accept(p)
        BY <4>3, <4>4 DEF Gather, IpListen, IpAccept, IpWritten, Listen, Accept, Running
      <4>5. CASE IpRead(p) \/ Scatter(p) \/ Scattered(p) \/ CheckParams(p)
        BY <4>3, <4>5 DEF IpRead, Scatter, Scattered, CheckParams, Running
      <4>6. CASE ReadPrivate(p) \/ Synced(p) \/ Talk(p) \/ Talked(p) \/ Done(p)
        BY <4>2, <4>6 DEF ReadPrivate, Synced, Talk, Talked, Done, Running
      <4>7. CASE Refused(p) \/ Abort(p) \/ NetStep(p) \/ ConnectionReset(p) \/ BrokenPipe(p)
        BY <4>1, <4>7 DEF Refused, Abort, NetStep, ConnectionReset, BrokenPipe
      <4>8. ~ Bcast(p) /\ ~ Connect(p)
        BY <3>2, Processes DEF Bcast, Roots, Connect, Connecting
      <4> QED
        BY <1>1, <3>2, <4>4, <4>5, <4>6, <4>7, <4>8 DEF Step, Fault
    <3> QED
      BY <3>1, <3>2
  <2> QED
    BY <1>0, <1>1, <2>1
<1>2. CASE IpAccept(p)
  <2>1. said' = [said EXCEPT ![IpLink] = Append(@, ips["evl"])] /\ ~ SyncClawFree(p)
    BY <1>2 DEF IpAccept, Write, SyncClawFree
  <2>2. said'[RootLink] = said[RootLink]
    BY <1>0, <2>1, RootLinkIs DEF WireType
  <2> QED
    BY <1>1, <2>1, <2>2
<1>3. CASE SyncClawFree(p)
  <2>1. CASE p = Evl(0)
    <3>1. Write(ToPeer(p), claw[p]) /\ pc[p] = "clawfree" /\ pc' = [pc EXCEPT ![p] = "sync"]
      BY <1>3, <2>1, Processes DEF SyncClawFree, Goto
    <3>2. ToPeer(p) = RootLink
      BY <2>1, <3>1, RootPeers DEF StartInv, PeerInv, Connected
    <3>3. said' = [said EXCEPT ![RootLink] = Append(@, claw[p])]
      BY <3>1, <3>2 DEF Write
    <3>4. claw[p] \in Seq(Byte)
      BY <1>0, <2>1 DEF Sendable
    <3> QED
      BY <1>0, <2>1, <3>3, <3>4, SaidGrows
  <2>2. CASE p # Evl(0)
    <3>1. said' = said
      BY <1>3, <2>2 DEF SyncClawFree
    <3> QED
      BY <1>1, <2>2, <3>1
  <2> QED
    BY <2>1, <2>2
<1>4. CASE Talk(p)
  <2>0. ~ SyncClawFree(p)
    BY <1>4 DEF Talk, SyncClawFree
  <2>1. CASE Write(ToPeer(p), Current(p).bytes)
    <3> DEFINE m == Current(p).bytes
               l == ToPeer(p)
    <3>1. said' = [said EXCEPT ![l] = Append(@, m)]
      BY <2>1 DEF Write
    <3>2. m \in Seq(Byte)
      BY <1>4, TalkSendable DEF Talk, StartInv, WireInv, SayType, Sendable
    <3> HIDE DEF l, m
    <3>3. CASE l # RootLink
      BY <1>0, <1>1, <2>0, <3>1, <3>2, <3>3, SaidGrows
    <3>4. CASE l = RootLink
      <4>1. p = Evl(0)
        BY <3>4, RootLinkIs DEF l, ToPeer, Link
      <4>2. said[RootLink] # << >>
        BY <1>0, <1>4, <4>1 DEF Talk, Running
      <4> QED
        BY <1>0, <3>1, <3>2, <3>4, <4>2, SaidGrows
    <3> QED
      BY <3>3, <3>4
  <2>2. CASE UNCHANGED said
    BY <1>1, <2>0, <2>2
  <2> QED
    BY <1>4, <2>1, <2>2 DEF Talk
<1>5. CASE said' = said /\ ~ SyncClawFree(p)
  BY <1>1, <1>5
<1> QED
  BY <1>2, <1>3, <1>4, <1>5, Frames

\* Nothing is read from the root evaluator before its collection.
LEMMA ClawHeard ==
  ASSUME StartInv, NEW p \in Process, Step(p) \/ Fault(p)
  PROVE  heard'[RootLink] # << >> => pc'[Gen(0)] \in Running
<1>0. /\ WireType /\ pc \in [Process -> PcVal] /\ Gen(0) \in Process /\ RootLink \in Links
      /\ heard[RootLink] # << >> => pc[Gen(0)] \in Running
  BY Processes, RootLinkIs DEF StartInv, WireInv, Wires, SayType, ClawInv
<1>1. pc[Gen(0)] \in Running => pc'[Gen(0)] \in Running
  <2>1. CASE p = Gen(0)
    BY <1>0, <2>1, PcStep
  <2>2. CASE p # Gen(0)
    BY <1>0, <2>2, PcStep
  <2> QED
    BY <2>1, <2>2
<1>2. CASE heard' = heard
  BY <1>0, <1>1, <1>2
<1>3. CASE Scatter(p)
  <2>1. heard' = [heard EXCEPT ![IpLink] = Append(@, Message(IpLink))]
    BY <1>3 DEF Scatter, Hear
  <2>2. heard'[RootLink] = heard[RootLink]
    BY <1>0, <2>1, RootLinkIs DEF WireType
  <2> QED
    BY <1>0, <1>1, <2>2
<1>4. CASE Synced(p)
  <2>1. CASE p = Gen(0)
    BY <1>0, <1>4, <2>1 DEF Synced, Goto, Running
  <2>2. CASE p # Gen(0)
    BY <1>2, <1>4, <2>2 DEF Synced
  <2> QED
    BY <2>1, <2>2
<1>5. CASE Talked(p)
  <2>1. CASE p = Gen(0)
    BY <1>0, <1>1, <1>5, <2>1 DEF Talked, Running
  <2>2. CASE p # Gen(0)
    <3> DEFINE l == FromPeer(p)
    <3>1. l # RootLink
      BY <2>2, RootLinkIs DEF FromPeer, Link
    <3>2. UNCHANGED heard \/ heard' = [heard EXCEPT ![l] = Append(@, Message(l))]
      BY <1>5 DEF Talked, Hear
    <3> HIDE DEF l
    <3>3. heard'[RootLink] = heard[RootLink]
      BY <1>0, <3>1, <3>2 DEF WireType
    <3> QED
      BY <1>0, <1>1, <3>3
  <2> QED
    BY <2>1, <2>2
<1> QED
  BY <1>2, <1>3, <1>4, <1>5, Frames

\* What the root generator reads is the root evaluator's collection.
LEMMA RootReads ==
  ASSUME StartInv, Synced(Gen(0))
  PROVE  Message(FromPeer(Gen(0))) = claw[Evl(0)]
<1>1. /\ Gen(0) \in Process /\ Gen(0) # Evl(0) /\ pc[Gen(0)] = "sync" /\ dead' = dead
      /\ Read(FromPeer(Gen(0))) /\ Hear(FromPeer(Gen(0)))
  BY Processes DEF Synced
<1>2. FromPeer(Gen(0)) = RootLink
  BY <1>1, RootPeers DEF StartInv, PeerInv, Connected
<1>3. heard[RootLink] = << >>
  BY <1>1 DEF StartInv, ClawInv, Running
<1>4. 0 + 1 \in 1 .. Len(said[RootLink]) /\ Message(RootLink) = said[RootLink][0 + 1]
  <2>1. Len(heard[RootLink]) = 0
    BY <1>3
  <2>2. /\ Len(heard[RootLink]) + 1 \in 1 .. Len(said[RootLink])
        /\ Message(RootLink) = said[RootLink][Len(heard[RootLink]) + 1]
    BY <1>1, <1>2, HearKeeps, RootLinkIs DEF StartInv, WireInv
  <2> QED
    BY <2>1, <2>2
<1>5. said[RootLink] # << >>
  <2>1. Len(<< >>) = 0
    OBVIOUS
  <2>2. Len(said[RootLink]) # 0
    BY <1>4
  <2> QED
    BY <2>1, <2>2
<1>6. said[RootLink][1] = claw[Evl(0)]
  BY <1>5 DEF StartInv, ClawInv
<1> QED
  BY <1>2, <1>4, <1>6

\* Who gets to run has the root evaluator's collection.
LEMMA ClawShared ==
  ASSUME StartInv, NEW p \in Process, Step(p) \/ Fault(p)
  PROVE  \A q \in Process : pc'[q] \in Running => claw'[q] = claw'[Evl(0)]
<1> SUFFICES ASSUME NEW q \in Process, pc'[q] \in Running
             PROVE  claw'[q] = claw'[Evl(0)]
  OBVIOUS
<1>0. /\ DOMAIN claw = Process /\ pc \in [Process -> PcVal] /\ Evl(0) \in Process
      /\ Gen(0) \in Process /\ Gen(0) # Evl(0)
      /\ \A o \in Process : pc[o] \in Running => claw[o] = claw[Evl(0)]
  BY Processes DEF StartInv, WireInv, SayType, ClawInv
<1>1. CASE Synced(p) /\ p = Gen(0)
  <2>1. claw' = [claw EXCEPT ![p] = claw[Evl(0)]]
    BY <1>0, <1>1, RootReads DEF Synced
  <2>2. q # p => pc[q] \in Running
    BY PcStep, <1>0
  <2> QED
    BY <1>0, <1>1, <2>1, <2>2
<1>2. CASE Bcast(p)
  <2> DEFINE root == <<Job(p), 0>>
  <2>1. root \in Process
    BY Processes, StartupAssumption DEF Process, Rank
  <2>2. pc[root] \in Running /\ claw' = [claw EXCEPT ![p] = claw[root]] /\ p # Evl(0)
    BY <1>2 DEF Bcast, Roots
  <2> HIDE DEF root
  <2>3. claw[root] = claw[Evl(0)]
    BY <1>0, <2>1, <2>2
  <2>4. q # p => pc[q] \in Running
    BY PcStep, <1>0
  <2> QED
    BY <1>0, <2>2, <2>3, <2>4
<1>3. CASE claw' = claw /\ ~ Bcast(p) /\ ~ (Synced(p) /\ p = Gen(0))
  <2>1. CASE q # p
    <3>1. pc[q] \in Running
      BY PcStep, <1>0, <2>1
    <3> QED
      BY <1>0, <1>3, <3>1
  <2>2. CASE q = p
    <3>1. pc[p] \in Running \/ p = Evl(0)
      <4>1. CASE UNCHANGED pc
        BY <2>2, <4>1
      <4>2. CASE \E to : Goto(p, to) /\ to \notin Running
        BY <1>0, <2>2, <4>2 DEF Goto
      <4>3. CASE pc[p] \in Running
        BY <4>3
      <4>4. CASE Gather(p) \/ IpListen(p) \/ IpAccept(p) \/ IpWritten(p) \/ Listen(p)
        BY <4>2, <4>4 DEF Gather, IpListen, IpAccept, IpWritten, Listen, Running
      <4>5. CASE Accept(p) \/ Connect(p) \/ IpRead(p) \/ Scatter(p) \/ Scattered(p)
        BY <4>2, <4>5 DEF Accept, Connect, IpRead, Scatter, Scattered, Running
      <4>6. CASE CheckParams(p) \/ SyncClawFree(p)
        BY <4>2, <4>6 DEF CheckParams, SyncClawFree, Running
      <4>7. CASE Synced(p)
        BY <1>3, <4>7 DEF Synced
      <4>8. CASE ReadPrivate(p) \/ Talk(p) \/ Talked(p) \/ Done(p)
        BY <4>3, <4>8 DEF ReadPrivate, Talk, Talked, Done, Running
      <4>9. CASE Refused(p) \/ Abort(p) \/ NetStep(p) \/ ConnectionReset(p) \/ BrokenPipe(p)
        BY <4>1, <4>9 DEF Refused, Abort, NetStep, ConnectionReset, BrokenPipe
      <4> QED
        BY <1>3, <4>4, <4>5, <4>6, <4>7, <4>8, <4>9 DEF Step, Fault
    <3> QED
      BY <1>0, <1>3, <2>2, <3>1
  <2> QED
    BY <2>1, <2>2
<1> QED
  BY <1>1, <1>2, <1>3, Frames

\* Every step keeps what is known of the root's collection.
LEMMA ClawStep ==
  ASSUME StartInv, NEW p \in Process, Step(p) \/ Fault(p)
  PROVE  ClawInv'
<1>1. RootLink' = RootLink /\ SayType
  BY DEF RootLink, Link, Evl, Gen, Port, StartInv, WireInv
<1>2. claw'[Evl(0)] = claw[Evl(0)]
  <2>1. claw' = claw \/ \E x : claw' = [claw EXCEPT ![p] = x] /\ p # Evl(0)
    <3>1. CASE Synced(p) /\ p = Gen(0)
      BY <3>1, Processes DEF Synced
    <3>2. CASE Bcast(p)
      BY <3>2 DEF Bcast, Roots
    <3> QED
      BY <3>1, <3>2, Frames
  <2> QED
    BY <1>1, <2>1, Processes DEF SayType
<1> QED
  BY <1>1, <1>2, ClawSaid, ClawHeard, ClawShared DEF ClawInv

(***************************************************************************)
(* Every process that starts the protocol uses the root evaluator's        *)
(* claw-free collection, whatever pieces the sockets make of it            *)
(* (init_environ).                                                         *)
(***************************************************************************)
THEOREM OneCollection == Spec => []SameClawFree
<1>1. Init => StartInv
  BY WireInit, PeerInit, ClawInit DEF StartInv
<1>2. StartInv /\ [Next]_vars => StartInv'
  <2> SUFFICES ASSUME StartInv, [Next]_vars
               PROVE  StartInv'
    OBVIOUS
  <2>1. WireInv'
    BY WireNext DEF StartInv
  <2>2. CASE UNCHANGED vars
    <3>1. PeerInv'
      BY <2>2 DEF StartInv, PeerInv, vars, netting
    <3>2. ClawInv'
      BY <2>2 DEF StartInv, ClawInv, vars, netting
    <3> QED
      BY <2>1, <3>1, <3>2 DEF StartInv
  <2>3. CASE \E p \in Process : Step(p) \/ Fault(p)
    <3>1. SayType /\ PeerInv
      BY DEF StartInv, WireInv
    <3>2. PeerInv' /\ ClawInv'
      BY <2>3, <3>1, PeerStep, ClawStep
    <3> QED
      BY <2>1, <3>2 DEF StartInv
  <2> QED
    BY <2>2, <2>3 DEF Next, Finished
<1>3. StartInv => SameClawFree
  BY DEF StartInv, ClawInv, SameClawFree
<1> QED
  BY <1>1, <1>2, <1>3, PTL DEF Spec
=============================================================================
