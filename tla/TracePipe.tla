------------------------------ MODULE TracePipe ------------------------------
(***************************************************************************)
(* Differential testing end to end.  Two executions are recorded one after *)
(* the other, each by the QEMU plugin (tests/qemu-plugin/coracle_trace.c,  *)
(* trace_writer.c) or by the emulator (trace/writer.rs, sink.rs, driven by *)
(* interp/mod.rs); a recording may be cut off at any moment, as            *)
(* tests/run_qemu.sh does when its time is up; then the differ reads both  *)
(* files.                                                                  *)
(*                                                                         *)
(* The guest is any machine: a block leaves any of the effects of a set,   *)
(* faults, or is interrupted.                                              *)
(***************************************************************************)
EXTENDS Differ

CONSTANTS
    Sessions,      \* by side, a configuration [producer, scope, precise, feature] and a guest
                   \* [effects, sizes, records]: what a block may write (partial functions from
                   \* ids to values), its instructions, and a bound on blocks and exceptions
    Vectors,       \* where an exception may go
    Losses,        \* cells of a file a killed process may have left in stdio's buffer
    Requests,      \* command lines of the differ: [policy, depth, allow]
    LIMIT,         \* the plugin's limit= argument, 0 for none
    BUFFER,        \* TRACE_WRITER_BUFFER, in cells
    MAX_DELTAS,    \* MAX_DELTAS_PER_BLOCK
    RESIDUE        \* bits of QEMU's cpsr at and above this power of two mean nothing

VARIABLES
    session, phase,     \* phase: the side being recorded, or "compare"
    regs, icount,       \* the guest, and instructions counted by the producer
    shadow,             \* [valid, regs]: struct shadow, Cpu::previous
    faulted,            \* a block has faulted and its exception is due
    buffer, out,        \* the producer's own buffer, and the file it writes
    status,             \* "new", "started", "finished"
    files,              \* the files left behind by each side
    log,                \* ghost: for each side, the records emitted and what was last reported
    reported,           \* ghost: the value last reported of every register
    verdict

vars == <<session, phase, regs, icount, shadow, faulted, buffer, out, status, files, log, reported, verdict>>

Side == {"left", "right"}
ZeroRegs == [id \in Ids |-> 0]

ASSUME PipeAssumption == /\ BUFFER \in Nat
                         /\ LIMIT \in Nat
                         /\ MAX_DELTAS < FLAGS
                         /\ MAX_DELTAS \in Nat
                         /\ Len(StateIds) <= MAX_DELTAS
                         /\ RESIDUE \in Nat \ {0}
                         /\ Vectors \subseteq Nat
                         /\ Losses \subseteq Nat

\* --history=N; the policy and the switch are whatever the command line says.
ASSUME RequestAssumption == \A request \in Requests : request.depth \in Nat

\* A register, an address, a count and a feature mask are unsigned words; a
\* block has an instruction.
ASSUME SessionAssumption ==
    \A s \in Sessions, side \in Side :
        /\ s[side].feature \in Nat
        /\ s[side].sizes \subseteq Nat \ {0}
        /\ \A effect \in s[side].effects : \A id \in DOMAIN effect : effect[id] \in Nat

config == session[phase]
is_qemu(c) == c.producer = "qemu"

\* Registers scanned for a block record: slot_scope on QEMU's side, everything
\* but the system registers on the emulator's.
scanned(c) == IF is_qemu(c) /\ c.scope = "core" THEN CoreIds
              ELSE IF is_qemu(c) /\ c.scope = "all" THEN Ids
              ELSE CoreIds \cup FpIds

\* regmap_normalise_pstate, Pstate::to_trace_word: only the fields both sides model.
slot_value(r, id) == IF id = PSTATE THEN r[id] % RESIDUE ELSE r[id]

header_of(c) ==
    IF is_qemu(c)
    THEN file_header(PRECISE_FP + BLOCK_DELTAS + (IF c.scope # "core" THEN HAS_VREGS ELSE 0)
                     + (IF c.scope = "all" THEN HAS_SYSREGS ELSE 0), c.feature)
    ELSE file_header((IF c.precise THEN PRECISE_FP ELSE 0) + BLOCK_DELTAS + HAS_VREGS, c.feature)

-----------------------------------------------------------------------------
(* Deltas.                                                                 *)

moved(previous, r, id) == ~previous.valid \/ slot_value(previous.regs, id) # slot_value(r, id)

\* Mutant: the high half of a vector register is looked at when the low half moved.
collect_deltas_low_half(previous, r, ids) ==
    {id \in ids : moved(previous, r, IF id \in VecIds THEN id - (id % 2) ELSE id)}

\* QEMU: each half of a vector register by itself.
collect_deltas(previous, r, ids) == {id \in ids : moved(previous, r, id)}

\* The emulator: both halves when either moved.
deltas_between(previous, r, ids) ==
    {id \in ids : \/ moved(previous, r, id)
                  \/ id \in VecIds /\ moved(previous, r, IF id % 2 = 0 THEN id + 1 ELSE id - 1)}

\* The scan visits the registers in the order of the dense state.
in_slot_order(ids) ==
    LET scan[n \in 0 .. Len(StateIds)] ==
            IF n = 0 THEN <<>>
            ELSE IF StateIds[n] \in ids THEN Append(scan[n - 1], StateIds[n]) ELSE scan[n - 1]
    IN  scan[Len(StateIds)]

deltas(c) ==
    LET changed == IF is_qemu(c) THEN collect_deltas(shadow, regs, scanned(c))
                                 ELSE deltas_between(shadow, regs, scanned(c))
        ordered == in_slot_order(changed)
        all     == [n \in DOMAIN ordered |-> [regId |-> ordered[n], value |-> slot_value(regs, ordered[n])]]
    IN  SubSeq(all, 1, Min({Len(all), MAX_DELTAS}))

\* fill_exception_state, write_full_state: the emulator writes zeros for the
\* system registers it does not have.
full_state(c, r) == [id \in Ids |-> IF id \in SysIds /\ ~is_qemu(c) THEN 0 ELSE slot_value(r, id)]

-----------------------------------------------------------------------------
(* Writers.  w is [buffer, out].                                           *)

\* Mutant: a record that finds the buffer full overtakes the records in it.
trace_writer_emit_unordered(w, cells) ==
    IF Len(w.buffer) + Len(cells) > BUFFER THEN [w EXCEPT !.out = @ \o cells]
                                           ELSE [w EXCEPT !.buffer = @ \o cells]

\* A full buffer is flushed first.  TRACE_WRITER_BUFFER (256 KiB) holds the longest
\* record, so that none is longer than the buffer, as the second test allows.
trace_writer_emit(w, cells) ==
    LET flushed == IF Len(w.buffer) + Len(cells) > BUFFER
                   THEN [buffer |-> <<>>, out |-> w.out \o w.buffer] ELSE w
    IN  IF Len(cells) > BUFFER THEN [flushed EXCEPT !.out = @ \o cells]
                               ELSE [flushed EXCEPT !.buffer = @ \o cells]

emitted(c, w, record) == IF is_qemu(c) THEN trace_writer_emit(w, encode(record))
                                       ELSE [w EXCEPT !.buffer = @ \o encode(record)]

trace_writer_close(w) == [buffer |-> <<>>, out |-> w.out \o w.buffer]

\* The end record; the plugin closes its file with it (emit_end).
finished_with(c, w, record) == IF is_qemu(c) THEN trace_writer_close(emitted(c, w, record))
                                             ELSE emitted(c, w, record)

Writes(w) == /\ buffer' = w.buffer
             /\ out' = w.out

Logged(entries) == log' = [log EXCEPT ![phase] = @ \o entries]

-----------------------------------------------------------------------------
(* Recording.                                                              *)

recording == phase \in Side /\ status = "started"
Writer == [buffer |-> buffer, out |-> out]
Recorded(side) == Len(SelectSeq(log[side], LAMBDA e : e.record.type \in {BLOCK, EXCEPTION}))

\* on_vcpu_init, or the harness's first on_marker.
Start == /\ phase \in Side
         /\ status = "new"
         /\ LET record == Marker(0, TRACE_START, 0)
            IN  /\ Writes(emitted(config, Writer, record))
                /\ Logged(<<[record |-> record, reported |-> reported]>>)
         /\ status' = "started"
         /\ UNCHANGED <<session, phase, regs, icount, shadow, faulted, files, reported, verdict>>

\* The guest's part: the instructions of a block before the one that faults.
executed(effect, n) ==
    IF n = 0 THEN regs
    ELSE [id \in Ids |-> IF id \in DOMAIN effect THEN effect[id]
                         ELSE IF id = PC THEN regs[PC] + n ELSE regs[id]]

\* on_block_exec and step(): the record describes the state entering the block.
\* QEMU counts the whole block here; the emulator counts what retires.
OnBlock(n, effect, faults) ==
    /\ recording
    /\ ~faulted
    /\ Recorded(phase) < config.records
    /\ ~is_qemu(config) => n = 1      \* M1_INSNS_PER_BLOCK
    /\ LET record == Block(regs[PC], icount, n, deltas(config))
           w      == emitted(config, Writer, record)
           now    == [id \in Ids |-> IF id \in scanned(config) THEN slot_value(regs, id) ELSE reported[id]]
           count  == icount + (IF is_qemu(config) THEN n ELSE IF faults THEN 0 ELSE 1)
           limit  == is_qemu(config) /\ LIMIT # 0 /\ count >= LIMIT
           end    == End(count, 1)
       IN  /\ Writes(IF limit THEN finished_with(config, w, end) ELSE w)
           /\ Logged(<<[record |-> record, reported |-> now]>>
                     \o (IF limit THEN <<[record |-> end, reported |-> now]>> ELSE <<>>))
           /\ reported' = now
           /\ icount' = count
           /\ status' = IF limit THEN "finished" ELSE status
    /\ shadow' = [valid |-> TRUE, regs |-> regs]
    /\ regs' = executed(effect, IF faults THEN n - 1 ELSE n)
    /\ faulted' = faults
    /\ UNCHANGED <<session, phase, files, verdict>>

Redirected(to, discon) ==
    [id \in Ids |-> IF id = PC THEN to
                    ELSE IF id \in SysIds /\ is_qemu(config) /\ discon # 4 THEN regs[PC]
                    ELSE regs[id]]

\* on_discon, Cpu::on_exception: the full state after the redirect, and the
\* shadow is dropped.
OnException(to, discon) ==
    /\ recording
    /\ Recorded(phase) < config.records
    /\ faulted <=> discon # 1
    /\ regs' = Redirected(to, discon)
    /\ LET record == Exception(icount, regs[PC], to, discon, full_state(config, regs'))
       IN  /\ Writes(emitted(config, Writer, record))
           /\ Logged(<<[record |-> record, reported |-> record.state]>>)
           /\ reported' = record.state
    /\ shadow' = [shadow EXCEPT !.valid = FALSE]
    /\ faulted' = FALSE
    /\ UNCHANGED <<session, phase, icount, status, files, verdict>>

\* on_exit, or the harness's finish.
Finish == /\ recording
          /\ LET record == End(icount, 0)
             IN  /\ Writes(finished_with(config, Writer, record))
                 /\ Logged(<<[record |-> record, reported |-> reported]>>)
          /\ status' = "finished"
          /\ UNCHANGED <<session, phase, regs, icount, shadow, faulted, files, reported, verdict>>

\* CdtWriter::take: the host appends what it drained to its file.
Take == /\ phase \in Side
        /\ ~is_qemu(config)
        /\ buffer # <<>>
        /\ out' = out \o buffer
        /\ buffer' = <<>>
        /\ UNCHANGED <<session, phase, regs, icount, shadow, faulted, status, files, log, reported, verdict>>

\* The process ends, at any moment.  A file the plugin has not closed may lack
\* what stdio had not written; run_qemu.sh goes on with what there is.
Stop(loss) ==
    /\ phase \in Side
    /\ loss # 0 => is_qemu(config) /\ status # "finished" /\ loss <= Len(out)
    /\ files' = [files EXCEPT ![phase] = SubSeq(out, 1, Len(out) - loss)]
    /\ phase' = IF phase = "left" THEN "right" ELSE "compare"
    /\ regs' = ZeroRegs
    /\ icount' = 0
    /\ shadow' = [valid |-> FALSE, regs |-> ZeroRegs]
    /\ faulted' = FALSE
    /\ reported' = ZeroRegs
    /\ status' = "new"
    /\ Writes(IF phase = "right" THEN [buffer |-> <<>>, out |-> <<>>]
              ELSE IF is_qemu(session["right"])
              THEN [buffer |-> <<>>, out |-> header_of(session["right"])]
              ELSE [buffer |-> header_of(session["right"]), out |-> <<>>])
    /\ UNCHANGED <<session, log, verdict>>

NoVerdict == [done |-> FALSE]

\* diff.mjs, run once over the two files.
Diff(request) ==
    /\ phase = "compare"
    /\ ~verdict.done
    /\ verdict' = [done |-> TRUE, request |-> request,
                   result |-> main(files["left"], files["right"], request.policy, request.depth, request.allow)]
    /\ UNCHANGED <<session, phase, regs, icount, shadow, faulted, buffer, out, status, files, log, reported>>

Init == /\ session \in Sessions
        /\ phase = "left"
        /\ regs = ZeroRegs
        /\ icount = 0
        /\ shadow = [valid |-> FALSE, regs |-> ZeroRegs]
        /\ faulted = FALSE
        /\ buffer = IF is_qemu(session["left"]) THEN <<>> ELSE header_of(session["left"])
        /\ out = IF is_qemu(session["left"]) THEN header_of(session["left"]) ELSE <<>>
        /\ status = "new"
        /\ files = [s \in Side |-> <<>>]
        /\ log = [s \in Side |-> <<>>]
        /\ reported = ZeroRegs
        /\ verdict = NoVerdict

Next == \/ Start
        \/ /\ phase \in Side
           /\ \E n \in config.sizes, effect \in config.effects, faults \in BOOLEAN : OnBlock(n, effect, faults)
        \/ \E to \in Vectors, discon \in {1, 2, 4} : OnException(to, discon)
        \/ Finish
        \/ Take
        \/ \E loss \in Losses : Stop(loss)
        \/ \E request \in Requests : Diff(request)

Spec == Init /\ [][Next]_vars

-----------------------------------------------------------------------------
(* Properties.                                                             *)

RecordsOf(side) == [n \in DOMAIN log[side] |-> log[side][n].record]

\* run_qemu.sh polls the file with cdt.mjs is-complete while QEMU writes it,
\* and sees any prefix of what the plugin has handed to stdio.  Whatever it
\* sees is refused, or reads as the first records emitted, in order; and it
\* is complete only when the end record and all records before it are there.
\* (trace_writer.c trace_writer_emit, reader.mjs loadTrace)
CompleteMeansWhole ==
    phase \in Side =>
        \A n \in 0 .. Len(out) :
            LET seen  == SubSeq(out, 1, n)
                trace == loadTrace(seen)
            IN  /\ trace.ok => IsPrefix(trace.records, RecordsOf(phase))
                /\ is_complete(seen) => status = "finished" /\ trace.records = RecordsOf(phase)

\* What the host has drained from a CdtWriter is always a readable file, cut at
\* a record boundary, and with what is still in the buffer it is the whole
\* stream.  (writer.rs CdtWriter::take)
DrainedIsReadable ==
    phase \in Side /\ ~is_qemu(config) =>
        /\ out # <<>> => loadTrace(out).ok
        /\ loadTrace(out \o buffer).ok
        /\ loadTrace(out \o buffer).records = RecordsOf(phase)

\* The process of a side has ended.
Stopped(side) == phase = "compare" \/ (phase = "right" /\ side = "left")

\* Whatever file a process leaves, stopped at any moment and with any loss, is
\* refused or reads as the first records its execution emitted, and is complete
\* only when it has them all.  (tests/run_qemu.sh, which compares what there is)
FilesAreLogPrefixes ==
    \A side \in Side : Stopped(side) =>
        LET trace == loadTrace(files[side])
        IN  /\ trace.ok => IsPrefix(trace.records, RecordsOf(side))
            /\ is_complete(files[side]) => trace.records = RecordsOf(side)

\* A reader that applies a record to the registers it has so far gets the
\* registers at that record: every register in scope as the producer sees it,
\* the others as last told; and it is told of no other.  (coracle_trace.c
\* collect_deltas, sink.rs deltas_between, over a shadow that exceptions drop)
Tells(record, before, after) ==
    CASE record.type = BLOCK ->
            /\ \A k \in 1 .. Len(record.deltas) : record.deltas[k].regId \in Ids
            /\ \A id \in Ids :
                LET at == {k \in 1 .. Len(record.deltas) : record.deltas[k].regId = id}
                IN  IF at = {} THEN after[id] = before[id]
                               ELSE \A k \in at : record.deltas[k].value = after[id]
      [] record.type = EXCEPTION -> after = record.state
      [] OTHER -> after = before

RecordsTellRegisters ==
    \A side \in Side : \A i \in 1 .. Len(log[side]) :
        Tells(log[side][i].record,
              IF i = 1 THEN ZeroRegs ELSE log[side][i - 1].reported,
              log[side][i].reported)

\* The entries of a side's log that its file holds, blocks and exceptions only.
Comparable(side) ==
    LET held == SubSeq(RecordsOf(side), 1, Len(loadTrace(files[side]).records))
        at   == significant(held)
    IN  [k \in DOMAIN at |-> log[side][at[k]]]

\* What the two sides did at one step, the encoding of registers as deltas left out.
Fields(r) == IF r.type = BLOCK THEN <<r.type, r.icount, r.pc, r.nInsns>>
             ELSE <<r.type, r.icount, r.fromPc, r.toPc, r.disconType>>
DifferIn(l, r, policy) == {id \in Ids : ~areEqual(policy, id, l.reported[id], r.reported[id])}

has_sysregs(trace) == (trace.flags \div HAS_SYSREGS) % 2 = 1

\* The differ's verdict is the first step at which the two executions, each seen
\* as full register files, differ under the policy in force, with the least
\* register and the steps before it; a match means that there is none; files that
\* cannot be read or compared are refused, and so is an unknown policy.
\* (compare.mjs compareTraces, over the producers' deltas, diff.mjs main)
\* Left open: a first divergence in system registers alone when a stream clears
\* HAS_SYSREGS, where TRACE_FORMAT.md says that they are not compared and
\* compare.mjs compares what exception records say of them.
VerdictIsFirstDivergence ==
    verdict.done =>
        LET left   == loadTrace(files["left"])
            right  == loadTrace(files["right"])
            policy == choosePolicy(verdict.request.policy, left, right)
            l      == Comparable("left")
            r      == Comparable("right")
            steps  == Min({Len(l), Len(r)})
            bad    == {i \in 1 .. steps : \/ Fields(l[i].record) # Fields(r[i].record)
                                          \/ DifferIn(l[i], r[i], policy) # {}}
            first  == Min(bad \cup {steps + 1})
            result == verdict.result
            compared  == IF has_sysregs(left) /\ has_sysregs(right) THEN Ids ELSE Ids \ SysIds
            contested == /\ first <= steps
                         /\ Fields(l[first].record) = Fields(r[first].record)
                         /\ Min(DifferIn(l[first], r[first], policy)) \notin compared
        IN  IF \/ ~left.ok \/ ~right.ok
               \/ left.feature # right.feature /\ ~verdict.request.allow
               \/ verdict.request.policy \notin POLICIES \cup {"null"}
            THEN result.exit = 2
            ELSE contested \/
                 /\ result.index = first
                 /\ result.exit = (IF bad = {} /\ Len(l) = Len(r) THEN 0 ELSE 1)
                 /\ result.kind = "register" => result.regId = Min(DifferIn(l[first], r[first], policy))
                 /\ result.kind \notin {"register", "none", "trace_length"}
                       => Fields(l[first].record) # Fields(r[first].record)
                 /\ result.history = [n \in 1 .. Min({first - 1, verdict.request.depth}) |->
                                        n + first - 1 - Min({first - 1, verdict.request.depth})]
=============================================================================
