# A TLA+ verification project for coracle

Coracle is an AArch64 emulator in Rust, built for WebAssembly: an interpreter
core, a Linux system-call shim for user-mode guests, a floating-point engine,
and a differential-testing pipeline that compares the interpreter's trace with
QEMU's. This directory models the parts with logic of their own, checks the
models with TLC on small instances, and proves the central results with TLAPS
for every value of the constants. `PROJECT.json` lists components, runs,
mutants, hazards, findings, theorems, and the source lines behind every
definition.

## 1. Inventory

| Component | State | Operations | What makes it correct |
|---|---|---|---|
| Interpreter (`interp/mod.rs`) | registers, memory, `icount`, budget loop, shadow registers | `run`, `step`, `on_exception`; the host reads and writes `regs` and `memory` between runs | each step executes the word in memory now; traps are precise; `run` returns |
| Decode cache (`interp/cache.rs`) | tags, entries, hit and miss counts | `decoded` | never invalidated, so it must be right under self-modifying code |
| Datapath (`interp/flags.rs`, `fetch.rs`, `dispatch.rs`, `memory.rs`) | none | `execute` and its arms, flags, shifts, extensions, bounds checks | W forms ignore the upper half; flags mean what conditions read; faulting accesses change nothing |
| Trap log (`trap.rs`) | entries, dropped, total | `record` | bounded, counts add up |
| Trace sink (`trace/sink.rs`, `reg.rs`) and the differ's state (`tests/differ/compare.mjs`) | the last reported registers; the reconstructed ones | `deltas_between`, `on_block`, `on_exception`; `applyDeltas` | the reader rebuilds the registers entering every block |
| Syscall shim (`shim/mod.rs`, `dispatch.rs`, `structs.rs`, `number.rs`, `host.rs`) | deadline, unhandled numbers, exit status, transfer in progress | `Shim::run`, `service`, one handler per call; `HostIo` callbacks | one budget over many resumptions; transfers and counts agree; failures leave memory alone |
| Guest memory map (`shim/memory_map.rs`) | break, next mapping | `set_brk`, `map` | nothing handed out twice, outside its window, or refused while free |
| FP engine (`fp/engine.rs`, `control.rs`, `backend.rs`, `native.rs`, `operand.rs`) | selected backend, interpreted FPCR, FPSR flags | `set_fpcr`, `set_exceptions`, ten operations | the cached selection follows FPCR; both backends give the same numbers; flags are sticky |
| Softfloat (`fp/softfloat/*`) | none | add, subtract, multiply, divide, root, fused, conversions, comparison, extrema | IEEE 754 results and flags |
| Decoder (`decode/*`) | none: a pure function of the word | `decode`, one decoder per group | operands in the ranges the datapath takes for granted; every bit read; what the machine lacks faults |
| Trace file (`trace/writer.rs`, `format.rs`, `tests/differ/reader.mjs`, `cdt.mjs`) | the writer's buffer; the file | `on_marker`, `on_block`, `on_exception`, `finish`, `take`; `loadTrace`, `is-complete` | any cut of a file is refused or reads as a prefix of what was written |
| QEMU plugin (`tests/qemu-plugin/*`) | shadow registers, `icount`, buffer, `is_finished` | block, discontinuity and exit callbacks, buffered writer | records reach the file in order; deltas rebuild the registers |
| Differ (`tests/differ/compare.mjs`, `fp_policy.mjs`, `diff.mjs`) | two reconstructions, history | `compareTraces`, `choosePolicy`, `assertComparable` | the verdict is the first divergence there is |
| JavaScript package, wasm entry points, `devices`, `machine`, threading and memory-window constants | — | — | *not modelled: see section 7* |

How they interact. A harness calls `Shim::run`, which calls `Cpu::run` with what
is left of its budget. Every `step` fetches the word at PC, asks the cache for
its decoding, reports the block to the sink, and executes; a trap ends the run.
The shim answers a supervisor call, through `HostIo` where it concerns files,
and moves PC past it before it resumes. The sink's records go to a buffer the
host drains into a file; QEMU's plugin writes another; the differ reads both,
replays their deltas and walks them in lock step. `run_qemu.sh` polls the
plugin's file while it is being written, and kills QEMU when its time is up. The
FP engine is complete and unconnected at this commit: no arm of `execute`
reaches it, and the floating-point and vector instructions the decoder
produces all trap as undefined.

What is hard here: apart from that poll nothing runs concurrently, so the
difficulty is in long sequences of legal calls (runs, host writes, exceptions,
resumptions), in steps that fail half way, in values cached while what they
were computed from changes, and in arithmetic at the edges of words and
formats. The list, line by line, is `hazards` in `PROJECT.json`.

## 2. Modules

| Module | Models |
|---|---|
| `Alu` | flags, conditions, shifts, extensions |
| `Isa` | registers, memory, decoded instructions, traps, `execute`. EXTENDS `Alu` |
| `Encoding` | the encoding word and its fields, and the parts an `Instruction` is made of |
| `DecodeImmediate`, `DecodeRegister`, `DecodeBranch`, `DecodeLoadStore`, `DecodeLoadStoreVec`, `DecodeScalar`, `DecodeNeon` | `decode/group/*`, one module per file. EXTEND `Encoding` |
| `Decode` | the dispatch on `op0`, and `decode`. Instantiates the seven |
| `DecodeContract`, `AluContract` | **reference definitions**: the ranges and the free bits of a decoded instruction, the unadvertised encodings, what immediates stand for; the integers the datapath computes. `DecodeContract` also has the sweep over which both are checked: words reached from a set of seeds by flipping bits, and pairs of bytes |
| `TrapLog`, `Trace` | the trap log; deltas and their replay. EXTEND `Isa` |
| `Machine` | **abstract specification** of a vCPU: no cache, budget or trace; a step retires whole or changes nothing |
| `Cpu` | the vCPU. EXTENDS `Trace`, `TrapLog`; `RefinesMachine` instantiates `Machine` |
| `MemoryMap` | brk and mmap |
| `Shim` | the run loop and the calls. EXTENDS `Isa`, `MemoryMap` |
| `FpFormat` | formats, FPCR, FPSR |
| `Decompose` | unpacking, rounding, packing, NaN propagation |
| `SoftArith`, `SoftFused`, `SoftConvert` | the operations; `Softfloat` is the backend over them |
| `Ieee` | **reference definition**: IEEE rounding over exact rationals, and the host's arithmetic |
| `FpEngine` | selection, native backend, flags. EXTENDS `Softfloat`, `Ieee` |
| `Cdt` | the trace file: records, encoding, reader |
| `Differ` | comparison, policies, command. EXTENDS `Cdt` |
| `TracePipe` | two recordings, by plugin or emulator, cut off at any moment, and the differ. EXTENDS `Differ` |
| `IsaProofs`, `CpuProofs`, `ShimProofs`, `TracePipeProofs`, `DecodeProofs` | theorems about the module each is named after; `ShimProofs` also has those of `MemoryMap`, `TracePipeProofs` those of `Cdt`, and `DecodeProofs` is about `DecodeContract` |
| `SoftfloatProofs`, `SoftConvertProofs`, `FpEngineProofs` | powers of two, unpacking, rounding and packing; the conversions; the operations and the engine |
| `MC_*` | instances for TLC |

An action is a whole handler: `StepRetire` does the cache lookup, the block
record, the execution, the PC advance and the count, as `step()` does;
`Returns` in `Shim` is the write of X0 and the PC advance that follow every
call. `writev` and `readv` take one action per vector because each vector is a
separate call of the host, which may answer differently each time.

**Scale.** In `Alu`, `Isa`, `Cpu` and `Shim` one model bit stands for one byte:
a `u64` is 8 bits, a W register 4, a byte access one cell of one bit, an
instruction 4 cells. The ratios between widths, on which the code depends, are
kept, and a 64-bit word has 256 values, so sweeps are exhaustive. An encoding is
a number below 16 and `Decode` is a constant function from encodings to
instructions: the theorems hold for every decoder whose output has the ranges
`Isa` assumes. That the decoder of the code is one is `OperandsInRange`,
checked and proved on the real words.

The decoder modules are at full scale. A word is two halves of 16 bits, because
TLC's integers have 32; an immediate of up to 64 bits is the set of its bit
positions, so that rotating, replicating and inverting one is a set
comprehension, and reading it is `i \in imm`. An optional field is the empty
set or a singleton.

In the FP modules the field widths are constants. TLC uses Half with 2 exponent
and 1 mantissa bits, Single with 3 and 2, and Double with 5 and 2 (5 and 5 for
conversions, 4 and 2 in the engine). `WORD`, the width of `u64`, is 7 (10 for
conversions), and a `u128` has `2 * WORD` bits. FPCR's fields sit at adjacent
low positions, with meaningless bits above them. The loops of `normalise` and
`unpack` are the closed form of where they stop; `isqrt_u128` is bit by bit.

**Abstractions.** In `Shim` the guest is abstract: it may retire an
instruction that leaves any of a set of register files and memories, call the
supervisor, or trap. This is what `Machine` allows. Bytes read from
the host are all 0 or all 1. The contents of `stat` and `utsname` are one fill
value. Numbers above 255 in `shim/number.rs` have free numbers that fit the
model's word. In `Trace`, PSTATE shows NZCV alone: its other fields are constant
at EL0. An entry's group in the trap log is a function of its encoding.
In `Cdt` a cell is 8 bytes and every
cell is a number, so a reader that loses its place reads some number; the
producer's name is left out, and the reader never looks at a last cell that is
not whole. `TracePipe` has one general, one vector and one system register, and
a guest that may do any of a set of effects; the order in which the plugin scans
registers is that of the dense state, on which nothing depends. FPSR's
cumulative bits are its low ones. QEMU and stdio are external: a killed process
may lose the end of a file it had not closed.
`FpEngine` has the FPCR last written as a variable of its own; the code keeps
it in the register file.

**Additions that do not wrap.** `address + index * 16` in `readv`/`writev`,
`address + offset` in `read_c_string` and `entry + 8` are plain `u64` additions
in the code and plain in the model: an element is reached only after its
predecessors were inside RAM, so the sums exceed RAM's end by at most one
element.

## 3. Runs

| Run | Instance | Shows |
|---|---|---|
| `isa` | every word within two bit flips of the 223 encodings that the repository's tests decode (193 that must decode and 30 that must fault; they reach every group and every operation): 115 thousand words. And all pairs of bytes: as operands of the datapath, both widths, every condition, shift and extension; as the immediate fields of the decoder | operands in range, no bit skipped, unadvertised features fault, immediates are what they stand for, bits compute integers |
| `cpu` | programs of four instructions: every pair of 16 encodings, between one that points X0 into the code and a branch back; entry aligned or not; host patches, register writes, exceptions; two cache slots for four addresses; log of capacity 1; at most 5 fetches | TypeOK, cache coherence, replay, trap log, precise traps, and refinement of `Machine` |
| `cpu_live` | loops, traps, falling off RAM; budgets 0 and 2 | every `run` returns |
| `memory_map` | 64-value word, arena near its top, lengths at every edge | grants are disjoint and inside; refusals justified |
| `shim` | every call; two vectors, empty, faulting, oversized, self-overlapping; a host that fails or transfers any part; structures at the edges of RAM; several runs of budgets 0–2 | what the host gets is a prefix of the gather; counts agree; no memory change outside a result or on failure; exact budgets; the unhandled list has no duplicate (in `ShimTypeOK`); mappings are distinct, aligned and in RAM; every `Shim::run` returns |
| `softfloat` | all 4096 pairs of Single patterns, five modes; fused: all unordered pairs of non-negative multiplicands, every addend and sign | sum, product, quotient, root, fused, NaNs, order, flushing |
| `soft_convert` | all 2048 Double patterns, and the Single, Half and integer patterns among them | conversions, widening and back included, and rounding to integral |
| `trace` | five pairs of producers: plugin and emulator, plugins of one scope and of two, precise and native floating point, different feature masks; up to three records a side, blocks of one and two instructions, faults, interrupts, the limit, drains, losses of 0, 1 and 6 cells | a file being written is never complete; drained files are readable; the verdict is the first divergence |
| `fp_engine` | eight FPCR values (each field, and a meaningless bit), calls of every method, any order | selection, equal answers, sticky flags |

The bounds: one flip reaches every neighbour of an encoding the tests know, and
`EveryBitCounts` compares a word with each of its 32 neighbours; the second flip
makes those neighbours the start of the comparison too, and reaches pairs of
fields (an option and its amount, a size and its opcode) that no test combines.
Random words would mostly be unallocated. Five fetches are enough for code to be cached, overwritten and
fetched again, with a host write and an exception between; two cache slots are
enough for two addresses to share one; two vectors for one to end short and one
to be skipped; a run's budget of two for a resumption to get less than the
first entry. The FP formats have subnormals, several binades, guard bits that
overflow into sticky ones, and NaNs with payloads. Three records are enough
for a register to be reported, to move, and to be reported after an exception;
the plugin's buffer just holds the longest record, so it fills within a few. The
code's holds 256 KiB and a record is at most about 4 KiB, so a record longer than
the whole buffer, for which `trace_writer_emit` has a branch, is out of reach in
the code as in the run; the proofs cover the branch. Shift amounts go up to the
width of the register; the `isa` run sweeps every amount. A mutant of the code for
every property shows that the instance reaches what the property is about.

Runs marked `violation` (`soft_never_wraps`,
`soft_subnormal_carry`, `soft_fused_once`) each state a sentence of
the repository that the code does not satisfy; section 6.

**Deadlock** is checked in `cpu`, `cpu_live`, `memory_map` and `fp_engine`. The pipeline ends with its verdict, the shim's behaviours end when the bound on retired
instructions is reached, and the sweeps when their inputs are used up.

**Fairness.** `FairSpec` and `FairShimSpec` assume weak fairness of the steps
of `Cpu::run` and of `Shim::run`, and of nothing else: both are synchronous
loops in one thread, so once entered they are executed. No fairness is assumed
of the harness that calls them or of the guest's choices.

## 4. Proofs

All of these hold for every value of the constants the named assumptions allow.
Each temporal theorem rests on an inductive invariant; what follows says which
and why the property alone is not enough.

**Memory map** (`ShimProofs`): `MapTypeCorrect`, `NothingHandedOutTwice`,
`HandedOutInsideWindows`, `RefusalsAreExhaustion`, for every word size, page
size, layout and request. `NoOverlap` is not inductive: what keeps a new grant
off the old ones is that every grant ends at or below `mmap_next`. `MapInv` adds
that (`GrantsBelowNext`), and the same of the whole pages a mapping takes
(`PagesInv`). The theorem about refusals is about the arithmetic:
rounding up to a page and the checked additions turn nothing away that fits.

**Shim** (`ShimProofs`): `ShimTypeCorrect`, `ShimBudgetIsExact`,
`ShimKeepsArena`, `CountsAgree`, `GrantsAlwaysUsable` and `CallsWriteTheirResult`,
for every RAM, layout, host and guest. The invariant is
`ShimInv == ShimTypeOK /\ BudgetInv /\ VectorInv /\ MapInv`.

- `BudgetInv` says that the guest's share *equals* what is left of the run's
  budget; with `<=` a resumption that is given too little is not excluded, and
  `BudgetIsExact` asks that an exhausted run has used all of it. It also says
  that no exit is held while a run is in progress.
- `VectorInv` bounds what a `writev` or `readv` in progress has moved. Without
  it X0 need not stay a word: the count is added up over the vectors in plain
  `u64` arithmetic. The vectors lie one after the other in RAM, so there are at
  most `RamSize / 16` of them, and `TransferAssumption` says that this many
  transfers are a count and not an error value. In the code the product is 3 GiB
  / 16 times 1 MiB, far below the errors at the top of a `u64`.
- `ShimKeepsArena` takes the memory map's guarantees into the composition: no
  handler but `brk` and `mmap` touches the arena, and those two call it as it
  must be called.
- `GrantsAlwaysUsable` is about what the guest does with those grants: the pages of
  each mapping, to the last byte, and the heap below the break pass the bounds
  check of `FlatMemory`, and no two mappings share a page. A mapping's length need
  not be whole pages, so disjoint lengths are not enough; `PagesInv` keeps every
  base a whole number of pages above `mmap_base`. `LayoutAssumption` says that the
  two windows lie in RAM and that `mmap_base` is on a page.
- `WritevSendsItsGather`: what the host has is a prefix of the vectors joined.
  `GatherInv` is the strengthening: while a `writev` is under way the host has
  every vector so far, each of them whole. A vector longer than `MAX_TRANSFER`
  needs care, since only its first `MAX_TRANSFER` bytes have to be in RAM: the
  gather marks a byte outside RAM as `Unmapped`, and no such byte is sent.

**Datapath** (`IsaProofs`): `ExecuteSound`: any decoded instruction on any
registers and memory gives well-typed state, and an instruction that traps
leaves both untouched and names its PC. It goes through `execute` arm by arm,
over lemmas on the bit operators, the operand readers, and register and memory
writes.

**vCPU** (`CpuProofs`): the inductive invariant is
`IInv == TypeOK /\ CacheCoherent /\ ShadowIsReplay`. Coherence is needed for
types, because a hit executes what the slot holds. `ShadowIsReplay` is needed
because deltas are taken against the shadow while the differ applies them to its
own state: only their equality makes the omitted registers right. From `IInv`
follow `CpuTypeCorrect`, `DecodeCacheCoherent`, `DifferFollowsShadow`,
`TrapsArePrecise`, `DifferSeesEntryState`, `LogDropsOnlyUnknown`, and
`CpuImplementsMachine`: the refinement of the abstract machine, step by step,
where `DecodedIsDecode` turns each cached decoding into the decoding of the word
in memory. `LogAccounts` is about the sum of the trap log's counts, of any
length. The assumptions are those named in `Isa`, `TrapLog`, `Trace` and `Cpu`:
among them, that all registers of a file fit the delta buffer, which is so in
the code (255 against 31 + 5 + 64 = 100).

**Softfloat** (`SoftfloatProofs`, `FpEngineProofs`): `SumAlwaysCorrectlyRounded`
and `ScalingAlwaysCorrectlyRounded` (addition, subtraction, multiplication,
division, root), `FusedAlwaysCorrectlyRounded`, `NansAlwaysAccounted`, `OrderAlwaysNumeric` and
`FlushAlwaysHidesSubnormals`, for every number of mantissa and exponent bits, every
width of the word and every operand: the run's formats have 2 or 5 mantissa bits,
the theorems cover 23 and 52. The properties hold of every pair of operands, so
nothing has to be strengthened; the work is in the arithmetic. For NaNs it is in
which operand propagates (`PropagatedOperand`, `NanIsAnOperand`).

- The provers know nothing of powers. `pow2` is therefore a recursive function
  with its own lemmas (`PowSplit`: `pow2[m + n] = pow2[m] * pow2[n]`), and products
  of unknowns are kept behind names, with a handful of lemmas that compare them.
- `Floors(s, lost, num, den)` says that `s` is the floor of a fraction and `lost`
  whether anything is left over; `Stands` says that a significand with its sticky
  bit and exponent stands in this sense for an exact value in units of the format.
  Unpacking gives such a significand (`Carries`, `Weighs`); a sum, a product, a
  quotient or a root of two is one again; shifting right keeps it, because what is
  shifted out joins the sticky bit (the borrow of a subtraction included).
- Normalising puts the leading bit in its place (`Ready`). There the guard bits and
  the sticky bit say on which side of the middle the value lies, so that rounding
  and packing deliver `RoundedPattern`, with the flags of `Rounded`; below the
  normal range a second shift decides, which is where the carry can be lost and why
  `RoundedOrHalved` has its second disjunct. That disjunct asks for UNDERFLOW.
- The root needs the loop of `isqrt_u128`: its invariant says that the bits found
  are the root of the bits taken and that the remainder is what is left.
- A fused operation works at twice the scale: product and addend are both exact
  there (`Wide`). `fused_align` keeps the term of the larger exponent and gives what
  the other drops to the sticky bit (`BothAligned`). Of equal signs, the sum stands
  for the exact one with that sticky bit; of opposite signs it does only when the
  alignment dropped nothing, which is the exclusion of `LosesBorrow`. `round_wide`
  then moves the leading bit to where the wide format has it, however much has
  cancelled (`InPlace`), and narrows that to a `Ready` significand, so that the
  lemmas on rounding apply. A zero product returns the addend, which rounds to
  itself.

`FormatAssumption` bounds the mantissa by the word (`mantissa_bits + 5 <= WORD`; 57
of 64 for f64), and `RootAssumption` says that the bias exceeds the mantissa, which
makes the root of a subnormal a normal number. Both are so for the formats of the
code; for the second, with Half's 15 against 10.

**Conversions** (`SoftConvertProofs`): `IntegersAlwaysSaturate`,
`ConversionsAlwaysRounded`, `IntegralAlwaysRounded`. A value is a fraction in the
reference definition and a shifted significand in the code: two equal fractions
round to the same integer, and a number that a format can represent rounds to
itself with no flag. The first gives the integers, saturation being a comparison of
the rounded magnitude; the second gives the round trip of a widening, and that
FRINT's integer has a pattern. `WidthAssumption` says that Half, Single and Double
are each no wider than the next, and that the mantissa is within the bias for the
two formats FRINT takes.

**Floating-point engine** (`FpEngineProofs`): `SelectionAlwaysFollowsFpcr` and
`FlagsStaySticky` for every build, format and set of calls. The argument is that
the engine's fields are functions of the FPCR last written (`Cached`), and that
the mask of `is_default_mode_bits` names exactly the fields `is_default_mode`
reads. `SelectionAlwaysInvisible` rests on both parts: where the engine selects the
host, the mode is the default one, the host's answer is IEEE's by definition
(`HostAnswers`, `HostCast`, `HostOrder`), and the theorems above say that the
softfloat's is the same. `CallsAssumption` says that an operand is a pattern of its
format, as one read from a register of that width is.

**Trace file** (`TracePipeProofs`): `PrefixReads`: a file cut at any cell is refused
or reads as the first of the records written, for any number and size of
records. The reader is a recursive function over positions in the file; `Holds`
relates a file to the records in it and to where each begins, a lemma per kind
of record shows that what the writer encodes is read back, and the loop is
followed from the last record to the first.

**Trace pipeline** (`TracePipeProofs`): `PipeInvariant`, `PolledFileIsWhole`,
`DrainedFileIsReadable`, `FilesArePrefixes`, `DeltasTellRegisters`. `PipeInv`
says, of the side being recorded, that the file and the buffer after it are one
`Stream`: a header and the encodings of exactly the records emitted, in order.
That is what no step may break and what neither `CompleteMeansWhole` (about the
file alone) nor `DrainedIsReadable` says. A file the host drains ends between
two records (`Boundary`), a file stdio flushes ends anywhere; the shadow is what
the records so far tell a reader (`ShadowTells`); what a stopped process leaves
is the beginning of such a stream (`LeftBehind`). `FilesArePrefixes` and
`DeltasTellRegisters` are about `FilesAreLogPrefixes` and `RecordsTellRegisters`,
on which the next rests.

`VerdictIsExact` is the end of the pipeline: the differ's verdict is the first
divergence of the two executions, for any producers, guests, policies and moments
they were stopped at (and unless that divergence is one section 5 leaves open). `VerdictInv` says only that the differ ran over the files
left; the argument is about the loop. Its invariant is `Compared`: after n turns
it has returned with the first step that diverges (`Reports`), or no step so far
does, and each `RegisterState` holds what its producer had told (`Replayed`, kept
by `Replay` because the last of a block's deltas for a register counts and all
agree). The steps it walks are log entries with markers and the end record left
out, which still tell the registers one after the other (`Selects`,
`SelectedSteps`); that it compares only registers it has seen, and consults the
policy only for floating-point ones, makes no difference (`UnequalIsDifferent`).

`PipeAssumption` and `SessionAssumption` say that registers, addresses and
counts are unsigned, a block is never empty, and the registers fit one record,
as they do in the code; `RequestAssumption`, that `--history` is a number (the
code takes whatever `Number` makes of the text).

**Decoder** (`DecodeProofs`): `DecodedOperandsInRange`: every one of the 2^32
words decodes as unallocated or to an instruction whose operands are in range,
and `SweptOperandsInRange`, the same as the invariant of the run. The decoder is
a pure function, so there is nothing to strengthen: the proof is by cases, down
to each group decoder and each form it builds. First come the fields of a word
and their ranges (`Fields`, `AcrossFields`), then a lemma per kind of form that
says which operands are in range (`FineRegImm` to `FineTableLookup`), then per
group the copy of `Encoding` it is an instance of, and per decoder the argument
that its guards leave only such operands. The hard ones are those where a range
depends on several fields at once: the logical immediate is never empty or full
(`BitMasks`, `RotatedOnes`), a load or store's amount is its size
(`MemorySingleAddresses`), a lane fits its register (`LanesFit`), a vector shift
counts from the width `immh` names (`ElementOfImmh`).

`UnadvertisedAlwaysFault` is the converse bound: every word on the list
`Unadvertised` of `DecodeContract` (section 5) decodes as unallocated, and
`SweptUnadvertisedFault` is its invariant. Here the fields that identify an
encoding are written as quotients and remainders of the two halves of the word
(`HalfFields`), so that arithmetic finds the one group and row `decode` routes it
to (`Routed`); what is left is one lemma per row that such an encoding shares
with a claimed one (`ExclusiveRow`, `SingleRow`, `TwoSourceRow`), which says that
the row's own guards refuse it.

**Induction over data.** The library's induction theorems take an operator as a
parameter, which the installed provers cannot instantiate. What is proved here
about recursive functions (the reader, the flattened deltas, the scan of the
registers in slot order, the differ's selection and loop, the sum of the trap
log, the joined vectors of a `writev`) uses the least element of the set of counterexamples instead
(`LeastNatural` in `TracePipeProofs`, `LeastOf` in `ShimProofs`), and the function is
first shown to exist on each prefix of its domain. `in_slot_order` of
`TracePipe`, and `significant` and the loop of `compareTraces` in `Differ`, are
recursive functions for that reason.

Only model-checked:

- liveness, under the fairness of section 3;
- `EveryBitCounts`, which compares two decodings of every neighbouring pair and
  would need a proof for each pair of forms; `ImmediatesAreExpanded`, for which
  the run enumerates every value of the fields it depends on, so that a proof
  would add nothing;
- `DatapathIsArithmetic`: that the bit operators of `Alu` compute the integers
  they stand for is an induction over bit positions for each of them; the run
  enumerates every pair of bytes, which is every word of the model's scale.

## 5. What the properties leave out, and why

`ScalingIsCorrectlyRounded`, `ConversionIsRounded` and
`FusedIsCorrectlyRounded` accept a result below the
normal range that is half the correct one when rounding carried into a new bit,
and nothing else (`RoundedOrHalved`). `FusedIsCorrectlyRounded` leaves out
subtractions that lose bits in alignment. `IntegerOrSaturated` leaves out values
of 2^128 and more. `IntegralIsRounded` lets INEXACT be raised or not when the value
is not an integer, because the repository says both (section 6). `NansAreAccounted`
asks for the first NaN operand, quietened, and leaves the sign open when that is the
second operand of FSUB. `FlushHidesSubnormals` is about all of addition,
subtraction, multiplication and division; of a fused operation it is about the
result only, and of a non-zero product: `fused.rs` flushes no operand. `SelectionIsInvisible` leaves out NaN payloads, as
`docs/machine-spec.md` does, and results that underflow. Where the excluded
behaviour is a finding, its run below states the full property.
`IntegerOrSaturated` takes from the code and its test that a negative value
converted to an unsigned integer raises INVALID even when it rounds to zero.

`EveryBitCounts` leaves out three sets of bits, named bit by bit in
`DecodeContract`: `Aliased`, encodings the architecture gives one meaning;
`LeftInEncoding`, operands a `Form` has no slot for, which whoever executes the
instruction has to read back from `encoding`; and `Unread`, the bits the SIMD
decoders do not look at, which section 6 lists. `OperandsInRange` accepts a
vector of a single 64-bit lane from the twelve operations of `OneLane`, which
the architecture reserves. Each set is as small as the instance allows: a bit
missing from one of them is a violation of the run.
`UnadvertisedFaults` is over a list, `Unadvertised`: the encodings of the features
`docs/machine-spec.md` section 2 excludes, and of later revisions of the
architecture that share a row with a claimed encoding. Half-precision arithmetic
(FEAT_FP16) and the RDM, DotProd and FCMA encodings that decode as copies are not
on it, because the decoder accepts them (section 6).

`InsideWindows` is about the bytes handed out: a break, the address after the last
byte of the heap, may equal `heap_limit` (section 6). `GrantsAreUsable` assumes that
`mmap_base` is on a page. `CallWritesItsResult` bounds what a successful `read` and
a failed call write; a failed `clock_gettime` may have written its seconds, and the
bytes a failing `readv` or `writev` had already moved are not counted by anyone
(section 6).

`VerdictIsFirstDivergence` asks nothing when the register that the first
divergence would name is a system register and one of the streams says, by a clear `HAS_SYSREGS`, that it does
not report them: there the code and the format's description disagree (section 6).

## 6. Findings

1. `soft_never_wraps`: a double of 2^128 converts to the integer 0 with no flag,
   because the shift into a `u128` drops its only bit.
2. `soft_subnormal_carry`: a subnormal result whose rounding carries is halved.
3. `soft_fused_once`: fused subtraction takes no borrow for the bits alignment
   lost. In round-toward-zero, 1 - 2^-120 comes out as 1.

Observed while modelling, and in the model as the code has them, without a run
of their own:

- the plugin counts a block when it is entered (`on_block_exec`), so the record
  of an exception counts the faulting instruction; `EMULATOR_INTERFACE.md`
  section 2 says it does not, and that "the QEMU plugin already behaves as
  described". The emulator's record leaves it out, so the same faulting execution
  diverges at its first exception, on `icount`;
- the differ compares system and vector registers whatever `HAS_SYSREGS` and
  `HAS_VREGS` say (`compare.mjs`); `TRACE_FORMAT.md` section 5.3 and `writer.rs`
  say it then compares only the core. The emulator's exception record has zeros
  there, so it diverges from QEMU's at the first exception. The property on the
  verdict leaves this case open;
- the differ accepts files without an end record, and `run_qemu.sh` succeeds
  with one: a recording that was killed is compared as far as it goes;
- `isNanEquivalent` at 32-bit width ignores the upper half of the word;
- an exiting SVC is not retired; `tests/shim_run_loop.rs` asserts that it is,
  in a branch the test does not reach at this commit;
- with FZ set, `0 * x + subnormal` is the subnormal (`zero_product` in
  `softfloat/fused.rs`), where `control.rs` says FZ flushes results;
- in default mode FPSR does not stay zero, as a comment in `engine.rs` says it
  does, because the native backend's fallbacks raise flags;
- `fractional_bits` of a fixed-point conversion is not read
  (`softfloat/mod.rs`), where `backend.rs` says it scales;
- FSUB returns a NaN second operand with its sign flipped, because `add`
  negates before it propagates;
- `writev` and `readv` that fault on a later vector return the error and forget
  the bytes already transferred (`shim/dispatch.rs`), where Linux returns the
  count;
- `memory_map.rs` calls `heap_limit` "One past the last address `brk` can return",
  and `set_brk` accepts and returns `heap_limit` itself. No byte outside the window
  is handed out by it, and the break may be asked back;
- `scalar.rs` says that FRINTX and FRINTI "differ only in whether an inexact result
  raises". Both decode to the same `Frint` with the same mode, and
  `round_to_integral` raises INEXACT for neither;
- `default_layout` puts `mmap_base` half way into RAM. `reserve` accepts RAM of an
  odd number of pages, for which that is the middle of a page, and then so is the base of every
  mapping, where `memory_map.rs` says that addresses are aligned.

The SIMD decoders read fewer bits than they claim. `simd_fp/mod.rs` says that
an encoding not claimed "faults rather than decoding to something approximate",
and `group/mod.rs` says so of every slice in its tests; the model has the code's
behaviour, which is:

- structure loads and stores ignore bits 31 and 24, so a single-lane `LD1` is
  taken for one of the multiple-structure forms;
- the shift and modified-immediate group ignores bits 23 and 10, so multiplies
  by element decode as shifts or `MOVI`; odd `cmode` (`ORR` and `BIC` immediate)
  decodes as `MOVI` and `MVNI`; `MSL #16` is expanded as `MSL #8`, because
  `(cmode >> 1) & 1` is 0 for both (`neon.rs`, `expand_advsimd_immediate`);
- the copy group ignores bits 23, 22 and 15, and `INS` ignores Q: `FMLA` on
  half-precision lanes decodes as `DUP`, `SQRDMLAH` as `INS`;
- `PMUL` decodes as `MUL`; `ADDP` and `ADDV` ignore U; `TBL` and `TBX` ignore
  bits 29, 23, 22 and 15; permutes, `EXT` and `FCMP` ignore bit 15;
- `LDP` and `STP` of SIMD registers have no slot for Rt2; the SIMD register
  offset does not check `option<1>`; the SIMD literal ignores bit 24;
- half-precision scalar arithmetic decodes, though the machine advertises
  ARMv8.0 only;
- the comment in `compare` (`scalar.rs`) names bits 3 and 4 the wrong way round;
  the code has them right.

One more, in code that is not modelled: `reserve(MAX_RAM_BYTES)`
(`guest_memory.rs`) computes `RAM_BASE + ram_bytes`, which is 2^32 and does not
fit `usize` on wasm32, so the accepted size has no range `[start, end)` there.
No test tries that size: the one above it is refused, as it should be.

## 7. Not modelled

- `guest_memory.rs`, `threading.rs`: two checks over constants and a build-time
  choice, without callers that execute against them at this commit.
- *wasm entry points and JavaScript package*: getters of those constants, and a
  page's choice between the threaded and the plain build. No emulation is
  reachable through them at this commit, so there is no state to model and no
  interleaving to explore.
- `devices` and `machine`: placeholders.
- The printing commands of `cdt.mjs`, `report.mjs`, the plugin's argument
  parsing and matching of register names, and the shell around the recordings.
- `FilteredSink` and `CapturingHost`, a filter and a test double.
- Accessors of `decode/*` that nothing but tests calls (`reads_destination`).

## 8. Plan

Done: every component that has behaviour (sections 2 and 3), in the order
interpreter, memory map, shim, floating point, trace pipeline, decoder; and the
theorems of section 4. What could follow, in this order:

1. `EveryBitCounts`, group by group, for the groups whose forms hold every field.
2. `Shim` over `Cpu`: the abstract guest of `Shim` replaced by the vCPU, as a
   refinement.
