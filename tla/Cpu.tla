-------------------------------- MODULE Cpu --------------------------------
(***************************************************************************)
(* interp/mod.rs: one vCPU, its run loop, its decode cache                 *)
(* (interp/cache.rs), its trap log and the block records it reports to a   *)
(* trace sink.  The reader of those records (tests/differ) is the variable *)
(* replay.  The host owns the public fields regs and memory while no run   *)
(* is in progress.                                                         *)
(***************************************************************************)
EXTENDS Trace, TrapLog

CONSTANTS
    DECODE_CACHE_ENTRIES,   \* slots of the decode cache
    ENABLED_SINK,           \* S::ENABLED
    Images,                 \* the memories a harness may load
    Entry,                  \* the register files it may start from
    Budgets,                \* the budgets it may pass to run()
    HostWords,              \* the words it may write into a register
    HostCells,              \* the addresses it may patch
    MaxLookups              \* bound: instructions fetched in a behaviour

ASSUME CpuAssumption ==
    /\ DECODE_CACHE_ENTRIES \in Nat \ {0}
    /\ ENABLED_SINK \in BOOLEAN
    /\ Images \subseteq Memory /\ Entry \subseteq RegFile
    /\ Budgets \subseteq Nat
    /\ HostWords \subseteq Word /\ HostCells \subseteq Ram
    /\ MaxLookups \in Nat

VARIABLES
    regs,       \* RegFile
    mem,        \* FlatMemory
    cache,      \* DecodeCache
    icount,     \* instructions retired
    trap_log,   \* TrapLog
    previous,   \* registers as of the last block record
    left,       \* iterations left of the loop in run()
    stop,       \* Running, or the Stop the last run returned
    replay,     \* the differ's RegisterState
    record_out  \* the last record on the stream

cpuVars == <<cache, icount, trap_log, previous, replay, record_out>>
vars    == <<regs, mem, cpuVars, left, stop>>

Running         == [kind |-> "Running", pc |-> 0, info |-> 0]
BudgetExhausted == [kind |-> "BudgetExhausted", pc |-> 0, info |-> 0]

(***************************************************************************)
(* The decode cache.  EMPTY_TAG is the encoding 0, UDF.                    *)
(***************************************************************************)
EMPTY_TAG == 0
Slots     == 0 .. DECODE_CACHE_ENTRIES - 1
slot(pc)  == (pc \div 4) % DECODE_CACHE_ENTRIES

EmptyCache == [tags |-> [s \in Slots |-> EMPTY_TAG],
               entries |-> [s \in Slots |-> Decode[EMPTY_TAG]], hits |-> 0, misses |-> 0]

\* Mutant: the tag is not compared, only whether the slot is occupied.
is_hit_any_tag(c, pc, encoding) == c.tags[slot(pc)] # EMPTY_TAG /\ encoding # EMPTY_TAG

is_hit(c, pc, encoding) == c.tags[slot(pc)] = encoding /\ encoding # EMPTY_TAG

\* DecodeCache::decoded: the instruction it returns, and the cache it leaves.
decoded(c, pc, encoding) ==
    IF is_hit(c, pc, encoding) THEN c.entries[slot(pc)] ELSE Decode[encoding]

\* Mutant: a miss refills the entry and leaves the old tag.
looked_up_keeps_tag(c, pc, encoding) ==
    IF is_hit(c, pc, encoding) THEN [c EXCEPT !.hits = @ + 1]
    ELSE [c EXCEPT !.misses = @ + 1, !.entries[slot(pc)] = Decode[encoding],
                   !.tags[slot(pc)] = IF @ = EMPTY_TAG THEN encoding ELSE @]

looked_up(c, pc, encoding) ==
    IF is_hit(c, pc, encoding)
    THEN [c EXCEPT !.hits = @ + 1]
    ELSE [c EXCEPT !.misses = @ + 1, !.tags[slot(pc)] = encoding,
                   !.entries[slot(pc)] = Decode[encoding]]

lookups == cache.hits + cache.misses

Init ==
    /\ regs \in Entry /\ mem \in Images
    /\ cache = EmptyCache /\ icount = 0 /\ trap_log = EmptyLog
    /\ previous = None
    /\ left = 0 /\ stop = BudgetExhausted
    /\ replay = EmptyState /\ record_out = [kind |-> "Start", pc |-> 0, icount |-> 0]

(***************************************************************************)
(* The trace.                                                              *)
(***************************************************************************)
\* Mutant: the shadow keeps the state of the first block for ever.
on_block_keeps_shadow ==
    IF ENABLED_SINK
    THEN /\ replay' = applyDeltas(replay, deltas_between(previous, regs))
         /\ record_out' = [kind |-> "Block", pc |-> regs.pc, icount |-> icount]
         /\ previous' = IF previous.known THEN previous ELSE Some(regs)
    ELSE UNCHANGED <<replay, record_out, previous>>

\* step() reports the state entering the block, and remembers it.
on_block ==
    IF ENABLED_SINK
    THEN /\ replay' = applyDeltas(replay, deltas_between(previous, regs))
         /\ record_out' = [kind |-> "Block", pc |-> regs.pc, icount |-> icount]
         /\ previous' = Some(regs)
    ELSE UNCHANGED <<replay, record_out, previous>>

(***************************************************************************)
(* run() and step().                                                       *)
(***************************************************************************)
Run(budget) ==
    /\ stop # Running
    /\ lookups + budget <= MaxLookups
    /\ stop' = Running /\ left' = budget
    /\ UNCHANGED <<regs, mem, cpuVars>>

\* Mutant: run() returns only after at least one instruction retired.
Exhaust_after_progress ==
    /\ stop = Running /\ left = 0 /\ icount > 0
    /\ stop' = BudgetExhausted
    /\ UNCHANGED <<regs, mem, cpuVars, left>>

Exhaust ==
    /\ stop = Running /\ left = 0
    /\ stop' = BudgetExhausted
    /\ UNCHANGED <<regs, mem, cpuVars, left>>

fetched == read_uint(mem, regs.pc, INSN_BYTES)
insn    == decoded(cache, regs.pc, fetched)
outcome == execute(regs, mem, insn, regs.pc)

Stepping == stop = Running /\ left > 0

\* The fetch fails: nothing is looked up, recorded or logged.
StepFetchAbort ==
    /\ Stepping
    /\ ~in_window(regs.pc, INSN_BYTES)
    /\ stop' = instruction_abort(regs.pc) /\ left' = 0
    /\ UNCHANGED <<regs, mem, cpuVars>>

StepRetire ==
    /\ Stepping
    /\ in_window(regs.pc, INSN_BYTES)
    /\ outcome.flow # "Err"
    /\ cache' = looked_up(cache, regs.pc, fetched)
    /\ on_block
    /\ regs' = advanced(outcome, regs.pc)
    /\ mem' = outcome.mem
    /\ icount' = icount + 1
    /\ left' = left - 1
    /\ UNCHANGED <<trap_log, stop>>

\* The instruction traps: not retired, recorded, and whatever the arm had done
\* to registers and memory stays done.
StepTrap ==
    /\ Stepping
    /\ in_window(regs.pc, INSN_BYTES)
    /\ outcome.flow = "Err"
    /\ cache' = looked_up(cache, regs.pc, fetched)
    /\ on_block
    /\ regs' = outcome.regs
    /\ mem' = outcome.mem
    /\ trap_log' = record_trap(trap_log, outcome.trap)
    /\ stop' = outcome.trap /\ left' = 0
    /\ UNCHANGED icount

(***************************************************************************)
(* The host, between runs.                                                 *)
(***************************************************************************)
\* A handler writes a result register and steps over the trapping instruction.
HostService(value) ==
    /\ stop.kind = "SupervisorCall"
    /\ regs.pc = stop.pc
    /\ regs' = set_pc(write_x(regs, 0, value), wrapping_add(regs.pc, INSN_BYTES))
    /\ UNCHANGED <<mem, cpuVars, left, stop>>

\* store_slice patches memory, code included.
HostStore(address, bit) ==
    /\ stop # Running
    /\ mem' = [mem EXCEPT ![address] = bit]
    /\ UNCHANGED <<regs, cpuVars, left, stop>>

\* write_v and the public fpsr field.
HostWriteFp(n, lo, hi) ==
    /\ stop # Running
    /\ regs' = [regs EXCEPT !.v[n] = <<lo, hi>>, !.fpsr = lo]
    /\ UNCHANGED <<mem, cpuVars, left, stop>>

\* The state an exception record carries: after the redirect.
exception_state(vector) == applyException(set_pc(regs, vector))

\* The host redirects PC to a vector and reports the exception; the shadow is
\* dropped so that the next block emits the full register set.
OnException(vector) ==
    /\ stop.kind \in TrapKinds
    /\ regs' = set_pc(regs, vector)
    /\ IF ENABLED_SINK
       THEN /\ replay' = exception_state(vector)
            /\ record_out' = [kind |-> "Exception", pc |-> vector, icount |-> icount]
            /\ previous' = None
       ELSE UNCHANGED <<replay, record_out, previous>>
    /\ UNCHANGED <<mem, cache, icount, trap_log, left, stop>>

Step == StepFetchAbort \/ StepRetire \/ StepTrap

Next == \/ \E b \in Budgets : Run(b)
        \/ Step
        \/ Exhaust
        \/ \E w \in HostWords : HostService(w)
        \/ \E a \in HostCells, bit \in {0, 1} : HostStore(a, bit)
        \/ \E n \in VRegs, w \in HostWords : HostWriteFp(n, 0, w)
        \/ \E w \in HostWords : OnException(w)

Spec == Init /\ [][Next]_vars

\* The loop in run() is a for loop: once entered it is executed.
FairSpec == Spec /\ WF_vars(Step) /\ WF_vars(Exhaust)

(***************************************************************************)
(* Properties.                                                             *)
(***************************************************************************)
\* The state of every component of Cpu (interp/mod.rs) has its type.
TypeOK ==
    /\ regs \in RegFile /\ mem \in Memory
    /\ cache \in [tags : [Slots -> Encoding], entries : [Slots -> Instruction],
                  hits : Nat, misses : Nat]
    /\ icount \in Nat /\ left \in Nat
    /\ trap_log \in [entries : Seq([encoding : Word, count : Nat]), dropped : Nat, total : Nat]
    /\ previous \in Shadow
    /\ stop \in Trap \cup {Running, BudgetExhausted}
    /\ replay \in [TraceIds -> Word]
    /\ record_out \in [kind : {"Start", "Block", "Exception"}, pc : Word, icount : Nat]

\* DecodeCache (interp/cache.rs) needs no invalidation: whatever the guest or
\* the host has stored over code, and however slots have been shared, an
\* occupied slot holds the decoding of its own tag.
CacheCoherent ==
    \A s \in Slots : cache.tags[s] # EMPTY_TAG => cache.entries[s] = Decode[cache.tags[s]]

\* The vCPU with its cache, budget and trace is the plain machine: in
\* particular each step (interp/mod.rs step) executes the word that memory
\* holds at PC now, and a trapping step changes nothing.
Uncached(rg, m) ==
    LET r == execute(rg, m, Decode[read_uint(m, rg.pc, INSN_BYTES)], rg.pc)
    IN  IF ~in_window(rg.pc, INSN_BYTES)
        THEN [retires |-> FALSE, trap |-> instruction_abort(rg.pc)]
        ELSE IF r.flow = "Err" THEN [retires |-> FALSE, trap |-> r.trap]
        ELSE [retires |-> TRUE, regs |-> advanced(r, rg.pc), mem |-> r.mem]

M == INSTANCE Machine WITH Effect <- Uncached
RefinesMachine == M!Spec

\* A step that traps (dispatch.rs: "a faulting access must leave the base
\* register as the guest left it") leaves registers and memory as the
\* instruction found them, with PC and the trap naming the instruction.
PreciseTrap  == stop = Running /\ stop' \in Trap => /\ regs' = regs /\ mem' = mem
                                                    /\ stop'.pc = regs.pc /\ icount' = icount
PreciseTraps == [][PreciseTrap]_vars

\* While a shadow register file is kept (Cpu::previous), the differ's
\* reconstruction of the stream is exactly that file.
ShadowIsReplay ==
    ENABLED_SINK /\ previous.known => replay = TraceMap(previous.regs)

\* Replaying the deltas up to and including any block record gives the whole
\* register file entering that block (step: "both fields describe state
\* entering the block, so the deltas must too"), across exceptions and host
\* writes to registers between runs; and the record carries its PC and the
\* instructions retired before it.
BlockReplays ==
    ENABLED_SINK /\ cache' # cache =>
        /\ replay' = TraceMap(regs)
        /\ record_out' = [kind |-> "Block", pc |-> regs.pc, icount |-> icount]
BlocksReplayEntryState == [][BlockReplays]_vars

\* An encoding the log knows keeps being counted when the log is full: an
\* encounter is dropped only if the log has no entry for it.
DropIsUnknown ==
    trap_log'.dropped > trap_log.dropped =>
        \A i \in DOMAIN trap_log.entries : trap_log.entries[i].encoding # fetched
DropsOnlyUnknown == [][DropIsUnknown]_vars

\* The trap log (trap.rs TrapLog::record) accounts for every encounter: entries
\* are of distinct encodings, no more than its capacity, something is dropped
\* only when it is full, and the counts and the drops add up to the total.
TrapLogAccounts ==
    LET entries == trap_log.entries
        counted[n \in 0 .. Len(entries)] == IF n = 0 THEN 0 ELSE counted[n - 1] + entries[n].count
    IN  /\ \A i, j \in DOMAIN entries : entries[i].encoding = entries[j].encoding => i = j
        /\ Len(entries) <= TRAP_LOG_CAPACITY
        /\ trap_log.dropped > 0 => Len(entries) = TRAP_LOG_CAPACITY
        /\ trap_log.total = counted[Len(entries)] + trap_log.dropped

\* Every call of run() returns, whatever the guest does ("a guest that never
\* traps cannot wedge the tab").
RunReturns == stop = Running ~> stop # Running
=============================================================================
