# Secure two-party computation, modelled in TLA+

This directory is a verification project for the system in `src/`. It has two
halves: a **compiler** (`src/compiler/`) that turns programs into Boolean
circuits, and an MPI/TCP **runtime** (`src/system/`) in which a *generator*
garbles the circuit and an *evaluator* evaluates it without either learning the
other's input. Three protocols share the runtime: Yao (honest but curious),
BetterYao and BetterYao2 (malicious setting, cut and choose over `s` copies of
the circuit). Each party is a cluster of `node_amnt` processes, paired one to
one with the other party's; a pair works on `s / node_amnt` circuits.

Contents: [inventory](#inventory) · [modules](#modules-and-the-code-they-model)
· [runs](#runs) · [bounds](#bounds-and-why-they-are-enough) ·
[fairness](#fairness) · [proofs](#proofs) ·
[disagreements](#where-the-code-and-its-comments-part) ·
[not modelled](#not-modelled) · [plan](#plan)

To check: `tlc -config <cfg> <module>` for each run in `PROJECT.json`, `tlapm
<module>Proofs.tla` for the proofs.

## Inventory

### Runtime (`src/system/`)

| part | state | operations | interacts with | correct when |
|---|---|---|---|---|
| `Circuit` | the mapped gate file, header counts, gate index | `load_binary`, `more/next_gate_binary`, `evaluate_binary`; a text format used by tests | every gate loop reads it | defines what a circuit computes |
| `GarbledCct` | labels `m_w` (one per wire *slot*), offset `m_R`, four counters, message buffer, output bits | `gen_init`, `evl_init`, `gen_next_gate`, `evl_next_gate`, `send`, `recv`; `com_init`, `com_next_gate`, `update_hash` | one object per circuit copy on both sides; one message per gate | the evaluator always holds one of the generator's two labels for a wire, and the decoded outputs are `evaluate_binary`'s |
| cut and choose (`BetterYao*::cut_and_choose`) | coins, commitment, `m_all_chks`, `m_chks` | commit, coins, open, shuffle, scatter | root to root by message, root to cluster by `MPI_Scatter` | both clusters get the same choice; circuit 0 is evaluated; the number checked is as prescribed; an honest run never aborts |
| consistency check (`consistency_check`) | exponents `m_{i,j}`, elements `M_{i,j}` | exchange, rebuild (BetterYao) or compare (BetterYao2) | pairs by message, clusters by `MPI_Bcast` and `MPI_Reduce` | one input enters all evaluation-circuits; an honest generator passes |
| evaluator's output (`proc_evl_out`) | outputs of the circuits | gather, blank check-circuits, `nth_element` | `MPI_Gather` at the root | the majority of the evaluation-circuits' outputs is taken |
| oblivious transfer (`oblivious_transfer`, `ot_init`, `ot_random`) | CRS, exponents, pairs of keys | CRS, question, answer, key | roots by message, clusters by `MPI_Bcast`, pairs by message | the receiver gets the key its bit chooses, for every input and circuit |
| commitments and openings (`circuit_commit`, `circuit_evaluate`, `cut_and_choose2`; `com_init`, `com_next_gate`, `update_hash`) | hashes, seeds, masks, pads, one stream per circuit | commit, pad, open, garble again and compare | `GarbledCct`, oblivious transfer | what checks or what evaluates a circuit is read at the position it was padded at; the verdict is the right one |
| protocol drivers (`Yao`, `BetterYao`, `BetterYao2::start`) | keys, masks, seeds, buffers | the calls of all of these in order | all of the above | sends and receives, written apart under `GEN_BEGIN` and `EVL_BEGIN`, are in the same order; collectives meet; nobody waits for ever |
| `YaoBase`, `Env` | ranks, communicators, sockets, options | `init_cluster`, `init_network`, `init_environ`, `init_private`, `step_report` | MPI, `NetIO`, files | every process is connected to its partner and has the same claw-free collection; a job that aborts leaves the other to end or wait |
| `NetIO` | sockets | connect, accept, framed read and write | kernel | messages arrive whole and in order |
| `Prng`, `Bytes`, `Aes`, `Hash` | stream state | random bits, `rand_range`, hash, bit strings | all | the range promised |
| `Algebra`, `ClawFree` | group elements | wrappers of the PBC library | protocols | external |

### Compiler (`src/compiler/`)

The passes are separate programs run in a row by `compile-circuit.sh`; they
communicate by gate files and *map files* (wire -> the wire that replaces it).

| part | state | operations | correct when |
|---|---|---|---|
| front end (`parser.y`, `tokens.lex`) | scopes of variables, dirty marks of array elements, wires of each bit | one semantic action per construct, emitting gates | both arms of an `if` are executed and multiplexed to what the taken arm means |
| pass 1, gate list (`gate.c`) | a window of gates, constants, map file | `add_gate`, `remove_redundant_gates`, `print_gate_list` | a dropped gate is mapped to a printed one of the same value, in one step |
| pass 2 (`identitygates.cpp`) | two maps, `notmap`, constant gates | one loop body per gate read | every wire is still found, with its value or a known inversion |
| pass 3 (`deadgates.cpp`) | liveness, new numbers | mark backward, number, emit forward | outputs unchanged, only live gates left, ids are positions |
| circuit file (`binary.cpp`, `generate_count.cpp`) | a count per wire, the file position | one pass to count, one to write, one to count again | the count is the number of reads; the width of a number is the one its reader expects |
| `remove_hash` (`test-circuit.cpp`) | wire -> slot table, free slots | two walks, header between them | a slot is reused only after the last read; the header bounds the slots |

### Hard behaviours

* *Order without tags.* Messages carry no type. Sender and receiver loop
  separately over circuits, inputs and gates; one message out of order is read
  as another of the same size.
* *Reused slots.* `m_w[idx]` is overwritten while other gates still name the
  slot. A slot handed back too early, by the compiler, or a label read after it
  was overwritten, by the runtime, goes wrong in large circuits only.
* *Derived randomness.* Generator and evaluator run the same shuffle
  separately; one draw more on either side changes every circuit's role.
* *Collectives.* `MPI_Bcast`, `MPI_Scatter`, `MPI_Reduce` and `MPI_Gather` are
  matched by their order only; branches on role and root must not skip one.
* *Two jobs.* In user mode the parties are separate MPI jobs: connections are
  tried until somebody listens, and `MPI_Abort`, `exit` or `SIGPIPE` end one job
  without telling the other.
* *Pads by position.* `cut_and_choose2` pads the parts of a circuit's data with a
  stream that both sides consume in the same order, over several loops.
* *Stale map entries.* Every compiler pass looks a wire up exactly once per map;
  chains of two entries, entries of a neighbouring map, or constants mistaken
  for wire 0 give a wrong but well-formed circuit.

* *Conditional assignment.* Whether an element of an array is multiplexed at the
  end of an `if` depends on marks kept in three places.

There is no crash recovery: nothing of a run persists, and every failure is
`MPI_Abort`. `PROJECT.json` lists each hazard at its line.

## Modules and the code they model

| module | models | state and actions |
|---|---|---|
| `Bits`, `Labels` | bits; `k`-bit strings, xor, offset | operators |
| `Gates` | `struct Gate`, `is_xor`, well-formed gate files | operators; `CircuitsAssumption` says what the compiler guarantees: slots are written before read, input counts are the header's |
| `Circuit` | `evaluate_binary` | *abstract specification*: wire bits by slot; `EvalGenInp`, `EvalEvlInp`, `EvalOp`: one step per gate |
| `GarbledCct` | garbling and evaluating one circuit, driven as in `Yao::circuit_evaluate` | `gen`, `evl`: the two objects' counters and `m_w`; `sent`: the messages; `snap`: history of `m_w` for stating properties. `GenStep` is one iteration of the generator's loop (`gen_next_gate` and `send`), `EvlStep` one of the evaluator's (`recv` and `evl_next_gate`). `Plain == INSTANCE Circuit` gives the refinement |
| `CutAndChoose` | `cut_and_choose` | `pc` of each root, `net` (in flight), coins, `indices`; one action per stretch between two messages, one per step of the shuffle, the scatter |
| `Exponents` | the cyclic groups behind `Algebra` and `ClawFree` | the order `Q`, exponents `Z` |
| `ObliviousTransfer` | the algebra of one transfer, by exponents | operators `Crs`, `Ask`, `Answer`, `Learn` |
| `CctObject` | a `GarbledCct` object as what it was seeded, hashed and filled with | operators per method: `GenInit`, `ComInit`, `EvlInit`, `GenNextGate`, `UpdateHash`, ... |
| `Openings` | transfer of keys and of pads, commitments, openings and checks of BetterYao and BetterYao2, on all node pairs | a `pc` and the objects of each process, FIFO channels, broadcasts; an action per loop body. `bad` is the generator's one deviation: a gate of one circuit garbled wrongly in some of its passes |
| `Consistency`, `Consistency2` | `consistency_check` of BetterYao; of BetterYao2, which extends it by the accumulator `M` and the reduced verdict | loops of each node as `jx`, `ix`, `kx`; the group as pairs of exponents |
| `EvlOutput` | `proc_evl_out` | gather node by node, then the pick of `nth_element` |
| `NetIO` | framing over `send` and `recv` | `stream` (bytes under way), `out`, `in`; partial sends and receives |
| `Startup` | `YaoBase::YaoBase` in user mode, then a conversation | gather, exchange and scatter of addresses, `listen`, `connect` with retries, `accept`, broadcast of the claw-free collection, checks of parameters and input files; `Fault`: abort, `SIGPIPE`, reset. EXTENDS `NetIO`, through which every byte goes |
| `Protocol` | ranks, channels, blocking sends, collectives | `todo` (what is left of each process's schedule), `chan`, `met`; `Send`, `Recv`, `FromRoot`, `ToRoot`, `BadRank` |
| `Schedules` | who sends what when, in the three protocols | constant operators: a schedule is a sequence of operations, one operator per function of the code; `For` is a loop, `Put` and `Get` the two ends of a message |
| `Protocols` | `Yao`, `BetterYao`, `BetterYao2` as programs of the two clusters | no state of its own: EXTENDS `Protocol` and `Schedules`, and its assumption says that a run follows them |
| `CompilerGates` | truth tables and map files | operators |
| `RedundantGates` | pass 1 | `list`, `htab`, `map`, `printed`; `AddGate`, `AddConstant`, `AddOutput`; the scan gate by gate (`ScanNew`, `ScanRedundant`, `ScanOutput`); `PrintList` |
| `IdentityGates` | pass 2 | three maps, constant gates; `ReadGate`, `ReadOutput`, and `Redundant` for a gate pass 1 has dropped |
| `DeadGates` | pass 3 | `MarkGate`, `Number`, `EmitGate`; `store_type` selects the map's storage, `misled` notes that a lookup found an entry of another map |
| `CircuitFile` | both binary formats: a header, and gates whose numbers have a value and a width in bytes | operators: readers and evaluators of `Circuit` |
| `BinaryFile` | `binary.cpp`, `generate_count.cpp` | `CountGate`, `Write`; `ReadHeader`, `RecountGate`, `Rewrite`: one step per gate counted |
| `SlotAllocator` | `remove_hash` | `FirstWalk`, `Between`, `SecondWalk`, each releasing what was read last |
| `Backend` | the programs from pass 3 to the hash-free file, one after the other | INSTANCEs of `BinaryFile` and `SlotAllocator` over the state of `DeadGates` |
| `Scopes` | conditionals in the front end | `stack` of scopes, `conds`; `AssignScalar`, `AssignArray`, `AssignElement`, `If`, `Else`, `End`; beside them `env`, an interpreter of the taken arms, and `lost`, which says what the program did that the multiplexers do not cope with |

How they fit together: `Schedules` is composed with `Protocol` in `Protocols`, which `MCProtocol` instantiates;
`GarbledCct` implements `Circuit`; `Consistency2` extends `Consistency`;
`Startup` extends `NetIO`; `Openings` extends `ObliviousTransfer` and
`CctObject`; `ObliviousTransfer` and `Consistency` extend `Exponents`. The compiler modules form a chain. `RedundantGates` shows
(`MapSound`, `OneLookup`, `Resolves`) what `IdentityGates` requires of the map it
reads; `IdentityGates` shows what the files of `DeadGates` look like (ids ascend,
gaps, reads of kept wires); from there on `Backend` composes the programs, and
shows end to end that the hash-free file computes what the file of pass 2 did
(`OutputsSame`) and what `Gates` assumes of a circuit file: slots written before
they are read, within the header's bound (`NoClobber`, `HeaderHolds`). `Handed`
of `Openings` is what `GarbledCct` starts from: masked inputs and chosen keys.

Cryptography enters as arbitrary functions of the right type: labels, hashes,
pseudorandom blocks. No property depends on what they compute, only on both
parties computing the same. Nothing here is a statement about secrecy.

Modelling choices a reader should know:

* `GarbledCct` has the Makefile's build options, `FREE_XOR` and `GRR`.
* `gen`, `evl` and the channel are separate state: generator and evaluator run
  at their own speed, up to `ChannelCap` messages apart.
* In `RedundantGates` and `IdentityGates` the circuit is generated by the
  behaviour itself, gate by gate, and evaluated alongside for an input chosen in
  `Init` (`wval`, and `nval` for the rewritten circuit): an invariant over all
  behaviours is a statement about all circuits and all inputs.
* `IdentityGates` gives every map its own storage, as the flat file, Berkeley DB
  and memory-map stores do. The shared cache of store type 2 is in `DeadGates`.
  There Berkeley DB is modelled with the flat file: `deadgates.cpp:322` lets
  `map_file` be the old map, so the new numbers are found there and not in the new
  one, but by one lookup either way.
* In `CircuitFile` a file is a header and its gates, and a number of a gate is a
  value with its width in bytes, cut to that width. Reading with another width
  than was written clears `aligned`; bytes themselves are not modelled.
* In `Openings` hashes, keys' encryptions and pads are terms, so two are equal
  only if all that went into them is; group elements are exponents modulo a prime.
* In `Scopes` a wire is its value for the inputs of one run, chosen in `Init`;
  the program is chosen by the behaviour.
* `Protocol` lets a channel hold `cap` messages, chosen in `Init`: 0 is a send
  that waits for its receiver, which `MPI_Send` may do. In user mode a send goes
  to the other job by socket, and the calls that address MPI ranks anyway name a
  rank of the caller's own job (`BadRank`, which sets `astray`).

## Runs

| run | question | what it shows |
|---|---|---|
| `garbled_cct` | does garbled evaluation compute the circuit, at any relative speed of the parties? | `InStep`: counters and messages agree; `LabelsAgree`: the evaluator's label is one of the generator's two at that point of the file; `PlainSpec`: refinement of `Circuit`; `Completes` |
| `cut_and_choose` | do both clusters end with one good choice? | `NoSpuriousAbort`, `GoodChoice`, `SameChoice`, `Completes` |
| `consistency` | does BetterYao rebuild every `M_{i,j}` from one input? | `Rebuilt` (in the loop), `AllRebuilt` (at its end), `Completes` |
| `consistency2` | does an honest generator pass BetterYao2's comparison? | violated, see below |
| `evl_output` | is the gathered, sorted pick the majority? | `MajorityWins`, `OutputIsEvaluated` (never a filler) |
| `openings` | does the evaluator get what its choice entitles it to, and does the check catch what it should? | `Handed`; `VerdictRight`: aborts exactly for a wrong gate in a check-circuit, or one that BetterYao's second garbling and the commitment disagree on |
| `startup` | do two jobs find each other and talk? | `WholeMessages`: framed messages arrive whole and in order under partial sends and receives; `Partners`: a connection leads to the process of the same rank; `SameClawFree`; `Started`: everyone gets through, or a job has ended, and then for a reason: `MPI_Abort` over its parameters or files, or a generator that has used up all its attempts to connect. What becomes of the other job is not asked (see below) |
| `protocols` | do the schedules fit, for all three protocols and both modes? | `Matched`: a message is read as what it was sent as; `CollectivesAgree`; `Terminates`: every run ends, but for BetterYao2 in user mode, which cannot (see below) |
| `redundant_gates` | are dropped gates replaced by equal, printed, earlier ones? | `MapSound`, `OneLookup`, `Resolves`, `InOrder` |
| `identity_gates` | does pass 2 preserve every wire? | `Sound`, `OutputsRight` (but for outputs whose table was flipped), `AssertsHold` |
| `backend` | does the chain from pass 3 to the hash-free file preserve the circuit, for either kind of store? | `OutputsSame` (end to end, all inputs; with the shared cache, as long as no lookup was misled), `Renumbered`, `OnlyLive`, `ChainHolds` (assertions, widths), `CountsExact`, `NoClobber`, `HeaderHolds` |
| `scopes` | do the multiplexers give what the program means? | `Reads`, `DirtySound`, up to the three exceptions below |

Every property of a passing run has a mutant in `PROJECT.json`: a definition
changed as a plausible bug would change the code, under which the property fails.

## Bounds and why they are enough

| run | bound | why |
|---|---|---|
| `garbled_cct` | labels of 2 bits, 3 slots, all 16 binary tables into all 4 unary ones, two longer circuits, channel of 2 messages | a label has its permutation bit and one more; every garbling rule depends on a table row and permutation bits; the longer circuits overwrite a slot that was an input, read a wire twice, and use both output tags and arities. The theorems cover every other size |
| `cut_and_choose` | `s` from 1 to 6, up to 3 nodes that divide it, all coins of 2 bits | odd and even `s` for the rounding of 2/5, `s = 1`, the scatter of more than one slice |
| `consistency`, `consistency2` | 2 nodes of 4 circuits, 2 inputs, 3 evaluation-circuits, group of order 5 | a node has none, one, two or three circuits to rebuild: the index that skips check-circuits matters |
| `evl_output` | 2 nodes of 3 circuits, 3 outputs, every choice with circuit 0 evaluated | majorities and their absence, check-circuits on either side |
| `openings` | shapes 2 nodes x 1 circuit and 1 x 2, all choices with circuit 0 evaluated, all inputs, every gate and every subset of the passes it is garbled wrongly in; `Q` = 11; hash buffer of 3 gates; channels of 1 | more than one node (broadcasts, ranks), more than one circuit on a node (the loops over inputs and circuits nest), a hash over more gates than fit a chunk and a rest. Every process is deterministic and every channel first in, first out, so a longer channel adds interleavings but no outcome |
| `startup` | 2 pairs, both on one host or on two, 4 attempts to connect, backlog 1, chunks of 2 bytes of 3 values, kernel buffers of 2 bytes | a root and a slave on each side; ports of two ranks on one host meet; messages empty, as long as a chunk and longer; a length of two digits |
| `protocols` | 1 pair of 1 circuit (Yao), 2 pairs of 2 circuits (the others; in user mode 2 of 1), 2 inputs, 2 gates, channels of 0 or 2 | two of everything the loops nest; a root and a slave; both extremes of `MPI_Send` |
| `redundant_gates` | 6 gates over 1 input, window of 4 | more than one window: entries of an earlier window meet gates of a later one |
| `identity_gates` | 4 gates over 2 inputs, the tables the pass singles out and two others | an inverter of an inverter of a constant's reader, read by an output |
| `backend` | files of 3 gates and an output over 2 inputs with one id missing, or of 2 gates after and before an output; `UINT8_MAX` = 2, `UINT16_MAX` = 4, `UINT32_MAX` = 15; cache of 2 (for it, files whose first gate reads both inputs, and one whose fourth gate is misled twice to the wire of an output, with `MaxId` = 7) | dead gates before, between and after live ones; the gap pass 2 leaves; indices and counts change width twice inside such a file; slots handed back and reused; a gate that reads a wire twice; a cache that fills; the one way `remove_hash` can come to its assertion |
| `scopes` | 6 statements, ifs nested to 2, a scalar that is asked, one that is asked and assigned, an array that is assigned and one it is copied from, 2 elements each | an element assigned around and inside an inner `if`, both arms assigning, a marked and an unmarked element, the element whose mark `malloc` leaves open. Without the guard on `lost`, `Reads` fails within these bounds for each of its three members |

`MaxNodes`, `MaxGates`, `MaxId`, `ChannelCap`, `Caps`, `Shapes`, `Traffic`,
`SockBuf`, `MaxStmts`, `MaxDepth`, `Assigned` are the named bounds;
`MaxMapItems`, `Window`, `UINT8_MAX`, `UINT16_MAX`, `CHUNK_SIZE`, `HEADER_SIZE`
and `MAX_TRIES` are constants of the code, made small.

`CHECK_DEADLOCK FALSE` stands only in the compiler's configurations, where the
pass is a program that ends. The protocols have an explicit `Finished` step, so that
TLC's deadlock check finds processes waiting for each other.

## Fairness

* `GarbledCct`: weak fairness of `GenStep` and of `EvlStep`. Each is a loop in a
  process of its own that blocks only in `send` or `recv`.
* `CutAndChoose`, `Consistency`: weak fairness of each root's, each node's steps,
  for the same reason.
* `Protocol`: weak fairness of each process's step. The operating system runs
  every process; a step is enabled when MPI can complete the call.
* `Startup`: weak fairness of each process's own steps, not of `Fault`: nothing
  has to go wrong. `connect` sleeps and tries again, up to its limit.
* `Openings` states no liveness: TLC's deadlock check with the `Finished` step
  shows that no process waits for ever.
* No strong fairness anywhere: a blocking call, once possible, stays possible,
  since nobody else takes from the channel.
* The compiler passes are sequential programs; only safety is stated.

## Proofs

Checked by TLAPS, for every value of the constants under the named assumptions.

| module | theorem | along which argument |
|---|---|---|
| `GarbledCctProofs` | `TypeCorrect`, `InStepAlways`, `LabelsAlwaysAgree` : `[]TypeOK`, `[]InStep`, `[]LabelsAgree` | the conjunction is inductive. `InStep` says every message sent is the garbling of its gate under the generator's wires *as they were* (`snap`), which is what survives slot reuse; `LabelsAgree` compares the evaluator's wires with the snapshot at *its* gate. The heart is `OpenGate`: opening the row the permutation bits select yields the label for the table's bit, with row reduction |
| | `ImplementsPlain` : `Spec => PlainSpec` | an `EvlStep` is a step of `Circuit`, a `GenStep` a stutter |
| `CutAndChooseProofs` | `TypeCorrect`, `NeverSpuriousAbort`, `ChoiceIsGood`, `ChoicesAgree` | `IInv` holds the stage of the coin toss with what is in flight (`Toss`), the coins as combined or not (`CoinsInv`), and the shuffle as a run from the identity (`TrailInv`), each step a swap; a swap keeps a permutation one, so exactly `num_of_evls` circuits are chosen; two runs from one seed agree |
| `StartupProofs` | `MessagesWhole`, `PartnersMeet`, `OneCollection` : `[]WholeMessages`, `[]Partners`, `[]SameClawFree` | `StartInv`, in three parts, see below |
| `ClusterProofs` | `MessagesMatch`, `CollectivesMeet` : `[]Matched`, `[]CollectivesAgree` | `ProtocolInv`, for programs whose messages and collectives `Fit`, and that the schedules of the three protocols are such programs, see below |
| | `MajorityAlwaysWins`, `OutputAlwaysEvaluated` | `RecvInv` (what is gathered so far) and `OutInv` (what `nth_element` promises); then counting: fewer than half below, fewer than half above |
| `CompilerProofs` | `SoundTheorem`, `OutputsRightTheorem`, `AssertsTheorem` | `IInv` says a readable wire is kept, or mapped in one step to a kept one, or an inverter of one (`KeptWires`), that the parser's map is one step deep (`OldWires`), that kept wires are in no map (`NewWires`), and that wires not read yet are unmapped (`Unread`) |
| | `ReadsAlways`, `DirtySoundAlways` | `ScopesInv`: each open `if` has its scope (`Nesting`); until its `else`, the variable it asks still has, in the scope around it, the value that was asked (`Asked`), so that the arm that is multiplexed is the one that is executed (`Chosen`); every executed scope gives each variable the value the interpreter has (`Followed`); unmarked elements are as outside (`DirtySound`). The heart is `mux`: which of the two operands an element comes from, and why an unmarked one may be left out |
| `RedundantGatesProofs` | `MapSoundAlways`, `OneLookupAlways`, `ResolvesAlways`, `InOrderAlways` | `IInv`: the list continues what is printed (`Ordered`); a waiting gate's wire has the value the gate yields on the wires it reads now (`Computes`); the table holds descriptions of gates of this window that are kept (`Entered`); the scan's own copy of the map, renewed with each window, is sound too (`CopySound`); a constant gate stays where it is found (`ConstantsKept`); an entry of the map leads to a gate that has none (`MapTargets`) |
| `ExponentsProofs` | `ReceiverGetsChosenKey` | the arithmetic modulo `Q` is taken apart into remainders and multiples of `Q` (`Remainder`, `RemainderOf`); dividing `X^r` out of `Y` cancels everything but the key (`Cancels`). `Q` need not be prime for it |
| | `RebuiltAlways`, `AllRebuiltAlways` | the exponent for input `j` of evaluation-circuit `i` is number `(j - 1) * EvlsOf(d) + Before(d, i) + 1` of those sent to node `d`; `Counters` says the evaluator's running index is that number although it advances in a loop that skips check-circuits; `Flow` says that what is sent, under way and received make up the node's `DiffsOf`, `Clusters` that both broadcasts handed out circuit 0's exponents; `Restored`: the difference put back gives the generator's element |
| `BackendProofs` | `RenumberedAlways`, `OnlyLiveAlways`, `DeadGatesHolds` | `DeadInv`: what the backward walk has marked is closed under reading and has a reader (`Marked`); ids come from ranks of live wires in one loop and a counter in another, and both number the gates emitted so far (`Emitted`). With store type 2 a lookup in the map of the pass before may be answered by an entry of the new one; then the gate reads another wire than it should, but an entry is in the cache only because some emitted gate has read that wire already, so nothing is left without a reader, and a new number is never above the old one, so nothing reads ahead |
| | `BackendCorrect`, `ChainHoldsAlways`, `CountsExactAlways`, `NoClobberAlways`, `HeaderHoldsAlways` | `BackendInv` adds three parts to `DeadInv`, see below |
| | `OutputsSameAlways` : `[]OutputsSame` | from `BackendInv`: the files' values, gate by gate, see below |

The invariant of the start-up. `WireInv`: on every link, the messages the sender has
written, each behind its header (`Framed`), are one text; the receiver has taken it up
to some position, the sender has handed it on up to a later one, and what lies between
is exactly what the kernel holds (`Flow`). The header and the chunk a receiver is
in are pieces of that text (`Receiving`), those a sender is in too (`Sending`), and a
header read back is the length it was made from (`HeaderRead`). A job that dies breaks
the text off: then the sender hands on nothing more, and what was heard is still a
prefix of what was said. `PeerInv`: only the generator process of a rank queues up at
that rank's port, and only the evaluator process of it listens there, so whoever is
accepted is the partner; it rests on the ports of the ranks being distinct, from each
other and from the one the addresses are exchanged at (`Ports`). `ClawInv`: the first
message from root to root is the evaluator's collection, and whoever has passed the
broadcast has that one. It needs the other two: that the link is the partners', and
that the first message heard is the first one said.

The invariant of the protocols. `Paired`: what is under way from `p` to `q`, followed by
what `p` has still to send to `q`, is what `q` has still to receive from `p`. `InStep`:
the collectives a process has entered, followed by those it has still to enter, are
those of its cluster's root. Both hold at the start if the partners' schedules `Fit`:
the messages of the one, picked from its schedule in order, are the receives of the
other, and the collectives of each are its root's. That is a fact about `Schedules` and
no run. Nothing, one message and one collective fit; one after the other what fits
fits (`FitConcat`), and so does a loop of as many passes as one likes (`FitFor`), hence
one lemma per function (`FitCutAndChoose2`, `FitAllGates`, ...) follows the code's
structure and covers any number of circuits, inputs, gates and nodes and every choice
of check-circuits. The one that does not fit is
`proc_gen_out` of BetterYao2 in user mode, which addresses ranks of its own job:
there a message is sent that nobody receives, or waited for that nobody sends
(`FitElsewhere`, and the other cases of `Match`), so `Matched` holds even there, and
what is lost is that the run ends.

The invariant of the back end in `BackendProofs`, program by program. `BinaryInv`:
after `m` gates the count of wire `x` is the number of reads by those gates
(`ReadBefore`), with what `binary.cpp` adds for outputs (`Expected`), and every gate
of the file is read back as it was emitted (`Holds`), since its inputs are below its
own number and its width is chosen by that. `SlotsInv`: in either walk exactly the
wires with reads left, by the file's counts, have a slot, no two the same, and the
slots handed out are those and the free ones (`Slotted`); so a walk hands out a new
slot only when all are held, and the slots it has handed out are the most held at one
time (`Peak`), which depends on the file only. That is why the two walks, of which
the second starts with empty tables, agree on the size in the header. `holder` has
the wire the table names in every slot (`SecondOf`), since the slot a gate is given
is nobody's. A walk stops only if some wire is read more often than the file says
(`Starved`). For the counts of `binary.cpp` that cannot be; `generate_count` gives
the wire of an output one read, so it can only be if a gate reads an output.
`Faithful` rules that out: unless a lookup was misled, emitted gates are gates of
the file under the new numbers, with their tables and parties; these numbers are
distinct for distinct live wires, and no gate of the file reads an output. For what
the files compute, `SecondOf` also remembers of every gate written that the slots it
reads were last written by the gates of the wires it means (`Wired`), which holds
when the gate is written because every wire still to be read has its slot to itself
(`Holding`). TLC checks each part of the invariant on all
states of `backend` before it is proved.

That the outputs are the same then follows in four steps. The values of a file exist
and are what its gates make of each other (`ValuesFacts`). A gate that was emitted
has, under its new number, the value of the gate it was (`NewValues`,
`NewValuesFacts`), and the outputs among the emitted gates come in the order they had
in the file, since ranks ascend (`SameOutputs`). Both binary files show the emitted
gates behind the inputs, with tags, tables and the places a gate reads (`OldShown`,
`NewShown`). And the run of a file that shows them has, after each gate, the value of
every wire that no later gate has overwritten, the inputs not yet taken and the
outputs given so far (`SoFar`, by `InputStep` and `GateStep`), so it ends with the
outputs of the file (`RunYields`). The evaluators are recursive functions; a function
so defined exists by induction along its arguments (`BitsFacts`, `InFacts`,
`RunFacts`).

`Reads` and the properties of pass 1 are not inductive
by themselves: `Reads` speaks of the innermost scope only while it is executed,
`MapSound` says nothing of the table that decides what is dropped next. The
strengthened invariants hold in the runs too, where TLC can check them before they
are proved.

Assumptions, each named in its module and evaluated by TLC for its instance:
`GarblingAssumption` (the types of keys; a channel holds a message),
`KAssumption` (`k > 0`), `CircuitsAssumption` (circuit files as the compiler
writes them), `CutAndChooseAssumption` (`rand_range(n)` is below `n`),
`EvlOutputAssumption`, `IdsAssumption` and `SizeAssumption` (there is an input
wire), `OrderAssumption` (`Q > 0`), `NetIOAssumption` (chunks, headers and buffers
have room for a byte), `StartupAssumption` and `LinksAssumption` (ports are distinct;
a message's length has room in the header), `ProtocolAssumption`,
`SchedulesAssumption` and `ProtocolsAssumption` (counts are numbers; a run follows
one of the three schedules), `ConsistencyAssumption` (sizes are positive,
the generator draws exponents), `FilesAssumption` (gate files as pass 2 writes
them, and not empty), `ScopesAssumption` (arrays have elements; a name is a scalar
or an array). Two of them are promises of another part of the system that the
models of that part show: `CircuitsAssumption` by `Backend`, `FilesAssumption` by
`IdentityGates`, each within the bounds of its run.

Where a proof runs over how many circuits, elements or scopes come before one
(`Before` in `ExponentsProofs`, `LiveOf` and `ReadBefore` in `BackendProofs`, the
scope a name is found in), it does so by cardinalities, and by the least or the greatest
element of a set (`Smallest`, `Greatest` in `CompilerProofs`), since the library's
induction theorems take an operator as a parameter, which the provers cannot
instantiate. Induction along numbers goes through all the same when the statement is
that a *set* of numbers is all of `0 .. n`: it has no least number outside it, because
finite subsets are well-founded (`Smallest`, `UpTo` in `StartupProofs`,
`ClusterProofs` and `BackendProofs`). The same way a function given step by step is shown to exist and to
be the only one (`Takes`, `Steps`, `SameSteps`), which is how the value of a header,
the text of a list of messages and the messages of a schedule are reasoned about. What
stays out of reach is recursion over data that is itself nested.

Only model-checked, and why:

* all liveness (`Completes`, `Started`, `Terminates`): out of the prover's reach, as
  is `ENABLED`;
* `Handed`, `VerdictRight` of `Openings`: terms of unbounded depth, compared after
  long runs of deterministic steps of every process. The messages themselves being in
  order is a theorem (`MessagesMatch`); that equal terms are behind them is not.

## Where the code and its comments part

One run shows a disagreement, as a finding in `PROJECT.json`:

* `consistency2`: BetterYao2 computes the element to compare by multiplying an
  accumulator that is set once per input, from `M_{0,j}`, and not per circuit. An
  evaluation-circuit fails the comparison, although the generator is honest, when
  the exponents of those before it on its node do not add up to 0: in general from
  the third evaluation-circuit of the root on (circuit 0's own exponent is 0), and
  from the second of a slave. The comment says `M_{i,j} = h^m * M_{0,j}`; BetterYao does that.

The others are kept visible as the exact boundary of a passing property:

* `Terminates` says that a run of BetterYao2 in user mode does *not* end:
  `proc_gen_out` (`BetterYao2.cpp:864`) calls `send_data` and `recv_data`, which
  `YaoBase.h:66` calls the calls of the simulation mode, and with separate jobs
  addresses a rank of its own job. All other schedules end.
* `OutputsSame` excludes files on which a lookup was `misled`: with store type 2
  one cache serves all maps (`util.cpp:99`), so an input may be renumbered twice,
  although `gate.c:255` presents the cache as a way to save memory. The other
  properties of `backend` hold then too, and no assertion notices, but in one case
  (`ChainHolds`).
* `OutputsRight` excludes outputs whose table pass 2 flipped: the flipped table
  is computed (`identitygates.cpp:442`) but `write_binary_gate` writes a fixed
  one for every output gate, so an output that reads an inverter directly comes
  out uninverted.
* `ChainHolds` excludes `assert(one_out != 0)` of pass 3 for a program that
  computes something unneeded after its last output. And it excludes the assertion
  of `remove_hash` that a wire read is in its table, after both a misled lookup and
  `generate_count`: a gate misled to the wire of an output reads a wire that
  `generate_count` gives one read, so the second read fails, in the first walk and
  before anything is written. That nothing else leads there is a theorem.
* `CountsExact` counts wire 0 once more for every output gate in the files of
  `binary.cpp`, which keeps one slot for good and does no other harm.
* `Reads` excludes programs that did one of three things. An `if` that assigns a
  *whole array* leaves it as it was: `variable_assignment_action` marks all
  elements ("All indices are modified here", `parser.y:587`), but in a variable of
  the inner block, and passes the 0 of the outer one. An *element assigned two ifs
  deep* is lost at the end of the outer one, unless it was marked there: `mux`
  hands on the marks of the outer symbol only (the other operand is commented
  out, `parser.y:1323`). And `else` evaluates the *condition again after the first
  arm's multiplexers* (`parser.y:1378`): if that arm assigned a variable of the
  condition, both arms, or neither, may take effect.
* The comment before `ot_init` (`BetterYao2.cpp:879`) names the evaluator the
  sender and the generator the receiver; in the code, and in `Openings`, it is the
  other way round. No behaviour depends on it.

## Not modelled

* `ipserver`: nothing in the source connects to it; the root evaluator exchanges
  the addresses itself (`Startup`).
* Of the front end: calls, loops, and what the arithmetic, comparison and shift
  actions emit. A `for` inside an `if` declares its counter as a constant in the
  inner scope, which `mux` then looks for in the outer one, so the compiler exits;
  `Scopes` has neither. The lexer is a table-driven scanner.
* The text circuit format, used by the test driver only, and its statistics and
  one-process Yao tests; `main_map` of `identitygates.cpp`, which the build does
  not select.
* Most of what `BetterYao.cpp` and `BetterYao2.cpp` hold beyond the modelled
  functions is commented out.
* `rand_range` enters by its promise; the bits it draws for `n > 256` or `n = 1`
  are listed as a hazard.
* `2^32` input gates or more: `binary.cpp` adds the parties' numbers in a `uint32_t` before
  it writes as many, the model writes all of them.
* What a job does after the other has ended: its `my_read` may loop for ever on a
  closed connection, and no property says that it ends.
* Options, input files and the masking of their last byte (I/O).
* Circuits that need more than `UINT32_MAX` slots at one time: a slot is a
  `uint32_t` in `remove_hash`, and in the model a number.
* Groups, AES, hash functions: external libraries or primitives, as functions or
  terms. Third-party and generated code, circuit data, timing and log output.

## Plan

Done, in the order of importance: the garbled circuit and its refinement; cut
and choose; output and consistency; the schedules in both modes; the compiler
passes, the circuit files and the slots, end to end; oblivious transfer,
commitments, pads and openings; start-up over sockets; conditionals in the front
end. What is left:

1. **Calls and loops** in `Scopes` (`push_scope_fun`, `get_from_global_scope`,
   the descent of `assign_scope`).
2. **Code generation** (`integer_add_action`, `emit_subtractor`, comparisons,
   shifts, constants, concatenation): pure operators from bit vectors to bit
   vectors against arithmetic modulo `2^w`, over all operands of small widths.
3. **Prng**: `rand_range` over all ranges up to 256 and beyond.
4. **Proofs**: `Handed` and `VerdictRight` of `Openings`, along the positions of
   its channels as `Flow` does it for `Consistency`.
