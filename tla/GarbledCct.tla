----------------------------- MODULE GarbledCct -----------------------------
(***************************************************************************)
(* One garbled circuit, generated and evaluated gate by gate:              *)
(* system/GarbledCct.{h,cpp} driven by the two loops of                    *)
(* Yao::circuit_evaluate.  The generator ("gen") garbles the next gate of  *)
(* the file and sends it at once; the evaluator ("evl") walks its own copy *)
(* of the file and consumes one message per gate.  The build options are   *)
(* the Makefile's: FREE_XOR and GRR.                                       *)
(*                                                                         *)
(* The hash functions and the pseudorandom generator are arbitrary         *)
(* functions, cut to K bits where the code cuts them: nothing here depends *)
(* on what they compute, only on both parties computing the same.          *)
(***************************************************************************)
EXTENDS Gates, Labels

CONSTANTS
  Seeds,                \* the seeds m_rnds a generator may draw
  Junk,                 \* what a fresh m_w array happens to hold
  OtKeys,               \* the key pairs oblivious transfer may leave for a wire
  ChannelCap,           \* messages the connection buffers before send blocks
  Rand(_, _),           \* Rand(s, n): the n-th block Prng draws from seed s
  InpKey(_, _, _),      \* InpKey(s, i, b): the hash of F(b, m_(i,b))
  KDF128(_, _),         \* KDF128(tweak, key)
  KDF256(_, _, _)       \* KDF256(tweak, key, key)

ASSUME GarblingAssumption ==
  /\ Junk \in Label
  /\ ChannelCap \in Nat \ {0}
  /\ OtKeys \subseteq [Bit -> Label]

VARIABLES
  \* Fixed by the steps before: the file, the private inputs, the generator's
  \* input mask and seed, and the keys oblivious transfer gave it.
  cct, gen_inp, evl_inp, gen_inp_mask, seed, ot_keys,
  gen,                  \* generator: m_w, m_gate_ix, m_gen_inp_ix, m_evl_inp_ix
  sent,                 \* the gate messages sent so far, never removed
  evl,                  \* evaluator: the same counters and wires, its outputs
  snap                  \* history: the generator's m_w before each gate

params == <<cct, gen_inp, evl_inp, gen_inp_mask, seed, ot_keys>>
vars   == <<params, gen, sent, evl, snap>>

Message == [keys : Seq(Label), perm : Seq(Bit)]

(***************************************************************************)
(* The secrets of a circuit garbled from seed s: R is the first block of   *)
(* the stream with bit 0 forced to 1; the exponents m_(i,b) come next;     *)
(* every input gate then takes a block for its zero key.                   *)
(***************************************************************************)
R(s) == [Clear(Rand(s, 0)) EXCEPT ![0] = 1]

InpZeroKey(s, n) == Clear(Rand(s, 1 + n))

\* The hash of M_(i,b) = F(b, m_(i,b)).
MKey(s, i, b) == Clear(InpKey(s, i, b))

(***************************************************************************)
(* What oblivious transfer and the message of the chosen M's leave the     *)
(* evaluator with: the masked input, one key and one M per input bit.      *)
(***************************************************************************)
MaskedInp(i) == BitXor(gen_inp_mask[i], gen_inp[i])
ChosenM(i)   == MKey(seed, i, gen_inp[i])
ChosenOt(i)  == ot_keys[i][evl_inp[i]]

(***************************************************************************)
(* gen_next_gate.  A gate is garbled under the zero keys w of its wires;   *)
(* n is m_gate_ix, the tweak.  Row e of the garbled table belongs to the   *)
(* input labels whose permutation bits spell e (low bit first), so the     *)
(* labels are found by shifting the zero keys by e xor their own bits.     *)
(***************************************************************************)
Low(e)  == e % 2
High(e) == e \div 2

LabelAt(s, z, p) == Offset(z, BitXor(Lsb(z), p), R(s))

\* (Mutant: row e of the garbled table holds row e of the truth table.)
TrueRowUnpermuted(g, w, e) == Row(g, Low(e), High(e))

TrueRow(g, w, e) ==
  Row(g, BitXor(Lsb(w[g.x]), Low(e)), BitXor(Lsb(w[g.y]), High(e)))

Pad(s, g, n, w, e) ==
  Clear(IF g.arity = 2
        THEN KDF256(n, LabelAt(s, w[g.x], Low(e)), LabelAt(s, w[g.y], High(e)))
        ELSE KDF128(n, LabelAt(s, w[g.x], Low(e))))

\* Garbled row reduction: the pad of row 0 is the output label of that row.
OpZeroKey(s, g, n, w) ==
  IF IsXor(g) THEN IF g.arity = 2 THEN w[g.x] \oplus w[g.y] ELSE w[g.x]
  ELSE Offset(Pad(s, g, n, w, 0), g.table[TrueRow(g, w, 0)], R(s))

OpRow(s, g, n, w, e) ==
  Pad(s, g, n, w, e)
    \oplus Offset(OpZeroKey(s, g, n, w), g.table[TrueRow(g, w, e)], R(s))

OpMessage(s, g, n, w) ==
  [keys |-> [e \in 1..Rows(g) |-> OpRow(s, g, n, w, e)],
   perm |-> IF g.tag \in {GEN_OUT, EVL_OUT} THEN <<Lsb(OpZeroKey(s, g, n, w))>>
            ELSE << >>]

\* Both labels of an input wire, the one for bit b masked by mask(b).  The
\* mask bit of a generator input decides which of the two goes first.
InpMessage(s, z, mask0, mask1, first) ==
  LET a0 == mask0 \oplus z
      a1 == mask1 \oplus (z \oplus R(s))
  IN  [keys |-> IF first = 0 THEN <<a0, a1>> ELSE <<a1, a0>>, perm |-> << >>]

GenInpMessage(s, i, bit, z) == InpMessage(s, z, MKey(s, i, 0), MKey(s, i, 1), bit)

EvlInpMessage(s, pair, z) == InpMessage(s, z, pair[0], pair[1], 0)

-----------------------------------------------------------------------------
Init ==
  /\ cct \in Circuits
  /\ seed \in Seeds
  /\ gen_inp \in Inputs(cct, GEN_INP)
  /\ gen_inp_mask \in Inputs(cct, GEN_INP)
  /\ evl_inp \in Inputs(cct, EVL_INP)
  /\ ot_keys \in [0 .. InpCnt(cct, EVL_INP) - 1 -> OtKeys]
  /\ gen = [w |-> [s \in Slot |-> Junk], gate_ix |-> 0,
            gen_inp_ix |-> 0, evl_inp_ix |-> 0]
  /\ evl = [w |-> [s \in Slot |-> Junk], gate_ix |-> 0,
            gen_inp_ix |-> 0, evl_inp_ix |-> 0, gen_out |-> << >>, evl_out |-> << >>]
  /\ sent = << >>
  /\ snap = <<gen.w>>

GenGate == cct[gen.gate_ix + 1]
EvlGate == cct[evl.gate_ix + 1]

\* gen_next_gate has its message and the zero key of the gate's output wire:
\* send the one, store the other.  The send blocks while the channel is full.
GenSend(msg, zero_key) ==
  /\ gen.gate_ix - evl.gate_ix < ChannelCap
  /\ gen' = [gen EXCEPT !.w[GenGate.idx] = zero_key,
                        !.gate_ix = @ + 1,
                        !.gen_inp_ix = IF GenGate.tag = GEN_INP THEN @ + 1 ELSE @,
                        !.evl_inp_ix = IF GenGate.tag = EVL_INP THEN @ + 1 ELSE @]
  /\ sent' = Append(sent, msg)
  /\ snap' = Append(snap, gen'.w)
  /\ UNCHANGED <<params, evl>>

GenMore == gen.gate_ix < Len(cct)

GenGenInp ==
  /\ GenMore /\ GenGate.tag = GEN_INP
  /\ LET z == InpZeroKey(seed, gen.gen_inp_ix + gen.evl_inp_ix)
         i == gen.gen_inp_ix
     IN  GenSend(GenInpMessage(seed, i, gen_inp_mask[i], z), z)

GenEvlInp ==
  /\ GenMore /\ GenGate.tag = EVL_INP
  /\ LET z == InpZeroKey(seed, gen.gen_inp_ix + gen.evl_inp_ix)
     IN  GenSend(EvlInpMessage(seed, ot_keys[gen.evl_inp_ix], z), z)

GenOp ==
  /\ GenMore /\ GenGate.tag \notin InpTags
  /\ GenSend(OpMessage(seed, GenGate, gen.gate_ix, gen.w),
             OpZeroKey(seed, GenGate, gen.gate_ix, gen.w))

(***************************************************************************)
(* evl_next_gate.  The evaluator holds one label per wire and picks the    *)
(* ciphertext its input bits, or the labels' permutation bits, point at.   *)
(***************************************************************************)
EvlMore == evl.gate_ix < gen.gate_ix
Arrived == sent[evl.gate_ix + 1]

EvlKeyGenInp ==
  ChosenM(evl.gen_inp_ix) \oplus Arrived.keys[MaskedInp(evl.gen_inp_ix) + 1]

EvlKeyEvlInp ==
  ChosenOt(evl.evl_inp_ix) \oplus Arrived.keys[evl_inp[evl.evl_inp_ix] + 1]

EvlPad(g) ==
  Clear(IF g.arity = 2 THEN KDF256(evl.gate_ix, evl.w[g.x], evl.w[g.y])
        ELSE KDF128(evl.gate_ix, evl.w[g.x]))

\* (Mutant: the second input selects the low bit.)
GarbledIxSwapped(g) == Row(g, Lsb(evl.w[g.y]), Lsb(evl.w[g.x]))

GarbledIx(g) == Row(g, Lsb(evl.w[g.x]), Lsb(evl.w[g.y]))

EvlKeyOp(g) ==
  IF IsXor(g) THEN IF g.arity = 2 THEN evl.w[g.x] \oplus evl.w[g.y] ELSE evl.w[g.x]
  ELSE IF GarbledIx(g) = 0 THEN EvlPad(g)
  ELSE EvlPad(g) \oplus Arrived.keys[GarbledIx(g)]

EvlGenInp ==
  /\ EvlMore /\ EvlGate.tag = GEN_INP
  /\ evl' = [evl EXCEPT !.w[EvlGate.idx] = EvlKeyGenInp,
                        !.gate_ix = @ + 1, !.gen_inp_ix = @ + 1]
  /\ UNCHANGED <<params, gen, sent, snap>>

\* (Mutant: the evaluator's input counter stays where it is.)
EvlEvlInpUncounted ==
  /\ EvlMore /\ EvlGate.tag = EVL_INP
  /\ evl' = [evl EXCEPT !.w[EvlGate.idx] = EvlKeyEvlInp, !.gate_ix = @ + 1]
  /\ UNCHANGED <<params, gen, sent, snap>>

EvlEvlInp ==
  /\ EvlMore /\ EvlGate.tag = EVL_INP
  /\ evl' = [evl EXCEPT !.w[EvlGate.idx] = EvlKeyEvlInp,
                        !.gate_ix = @ + 1, !.evl_inp_ix = @ + 1]
  /\ UNCHANGED <<params, gen, sent, snap>>

\* (Mutant: a gate that is no output is left in place, m_gate_ix not moved.)
EvlOpStuck ==
  /\ EvlMore /\ EvlGate.tag \notin InpTags
  /\ EvlGate.tag = ETC
  /\ evl' = [evl EXCEPT !.w[EvlGate.idx] = EvlKeyOp(EvlGate)]
  /\ UNCHANGED <<params, gen, sent, snap>>

EvlOp ==
  /\ EvlMore /\ EvlGate.tag \notin InpTags
  /\ LET key == EvlKeyOp(EvlGate)
         out == BitXor(Lsb(key), Arrived.perm[1])
     IN  evl' = [evl EXCEPT
           !.w[EvlGate.idx] = key,
           !.gate_ix = @ + 1,
           !.gen_out = IF EvlGate.tag = GEN_OUT THEN Append(@, out) ELSE @,
           !.evl_out = IF EvlGate.tag = EVL_OUT THEN Append(@, out) ELSE @]
  /\ UNCHANGED <<params, gen, sent, snap>>

GenStep == GenGenInp \/ GenEvlInp \/ GenOp
EvlStep == EvlGenInp \/ EvlEvlInp \/ EvlOp

\* Both loops have run to the end of their files.
Finished == evl.gate_ix = Len(cct) /\ UNCHANGED vars

Next == GenStep \/ EvlStep \/ Finished

Spec == Init /\ [][Next]_vars

\* Each party runs its loop until the file ends; neither stops on its own.
FairSpec == Spec /\ WF_vars(GenStep) /\ WF_vars(EvlStep)

-----------------------------------------------------------------------------
TypeOK ==
  /\ cct \in Circuits
  /\ seed \in Seeds
  /\ gen_inp \in Inputs(cct, GEN_INP)
  /\ gen_inp_mask \in Inputs(cct, GEN_INP)
  /\ evl_inp \in Inputs(cct, EVL_INP)
  /\ ot_keys \in [0 .. InpCnt(cct, EVL_INP) - 1 -> OtKeys]
  /\ gen \in [w : [Slot -> Label], gate_ix : Nat, gen_inp_ix : Nat, evl_inp_ix : Nat]
  /\ evl \in [w : [Slot -> Label], gate_ix : Nat, gen_inp_ix : Nat, evl_inp_ix : Nat,
              gen_out : Seq(Bit), evl_out : Seq(Bit)]
  /\ sent \in Seq(Message)
  /\ snap \in Seq([Slot -> Label])

\* The zero keys of the wires as they were when the generator garbled the
\* gate the evaluator looks at next.
Zeros == snap[evl.gate_ix + 1]

\* Every wire the evaluator holds a label for, it holds one of the two labels
\* the generator had for that wire when it garbled the gate the evaluator has
\* reached: never the label of a wire that shared the slot before or after,
\* never a third value (gen_next_gate against evl_next_gate).
LabelsAgree ==
  \A s \in Written(cct, evl.gate_ix) : evl.w[s] \in {Zeros[s], Zeros[s] \oplus R(seed)}

\* What gen_next_gate sends for gate i and stores for its output wire, given
\* the generator's wires before that gate.
MessageOf(i) ==
  LET g == cct[i]
      gi == Count(cct, GEN_INP, i - 1)
      ei == Count(cct, EVL_INP, i - 1)
  IN  IF g.tag = GEN_INP
      THEN GenInpMessage(seed, gi, gen_inp_mask[gi], InpZeroKey(seed, gi + ei))
      ELSE IF g.tag = EVL_INP
      THEN EvlInpMessage(seed, ot_keys[ei], InpZeroKey(seed, gi + ei))
      ELSE OpMessage(seed, g, i - 1, snap[i])

ZeroKeyOf(i) ==
  IF cct[i].tag \in InpTags
  THEN InpZeroKey(seed, Count(cct, GEN_INP, i - 1) + Count(cct, EVL_INP, i - 1))
  ELSE OpZeroKey(seed, cct[i], i - 1, snap[i])

\* The two parties never fall out of step: the evaluator stays behind the
\* generator, both count the inputs of the gates they have passed alike, and
\* message i is the garbling of gate i under the wires as they were then,
\* however far the generator has run ahead (gen_next_gate, evl_next_gate and
\* the four m_*_ix counters).
InStep ==
  /\ gen.gate_ix <= Len(cct)
  /\ evl.gate_ix <= gen.gate_ix
  /\ gen.gen_inp_ix = Count(cct, GEN_INP, gen.gate_ix)
  /\ gen.evl_inp_ix = Count(cct, EVL_INP, gen.gate_ix)
  /\ evl.gen_inp_ix = Count(cct, GEN_INP, evl.gate_ix)
  /\ evl.evl_inp_ix = Count(cct, EVL_INP, evl.gate_ix)
  /\ Len(sent) = gen.gate_ix
  /\ Len(snap) = gen.gate_ix + 1
  /\ snap[gen.gate_ix + 1] = gen.w
  /\ \A i \in 1..gen.gate_ix :
        /\ sent[i] = MessageOf(i)
        /\ snap[i + 1] = [snap[i] EXCEPT ![cct[i].idx] = ZeroKeyOf(i)]

\* What the evaluator's labels stand for.
PlainWire ==
  [s \in Slot |-> IF s \in Written(cct, evl.gate_ix) /\ evl.w[s] # Zeros[s]
                  THEN 1 ELSE 0]

Plain == INSTANCE Circuit WITH
  wire <- PlainWire, gate_ix <- evl.gate_ix,
  gen_inp_ix <- evl.gen_inp_ix, evl_inp_ix <- evl.evl_inp_ix,
  gen_out <- evl.gen_out, evl_out <- evl.evl_out

\* Decoded through the labels, garbled evaluation is plain evaluation: every
\* step of the evaluator is the step evaluate_binary takes on the clear bits,
\* whatever the seed, the mask and the hash functions, and the two outputs
\* are the circuit's.
PlainSpec == Plain!Spec

\* The evaluator gets through the whole file (circuit_evaluate returns).
Completes == <>(evl.gate_ix = Len(cct))
=============================================================================
