-------------------------------- MODULE Shim --------------------------------
(***************************************************************************)
(* shim/mod.rs and shim/dispatch.rs: the Linux personality.  Shim::run     *)
(* runs the guest, services each supervisor call and resumes, within one   *)
(* budget.  The guest is abstract here: at any PC inside RAM it may retire *)
(* an instruction, call the supervisor or trap, which is what Machine lets *)
(* it do.  The host is any HostIo (shim/host.rs): a call may fail, and a   *)
(* transfer may be short.  Each iteration of writev and readv is a step,   *)
(* because each is a separate call to the host.                            *)
(***************************************************************************)
EXTENDS Isa, MemoryMap, SequencesExt

CONSTANTS
    Setups,             \* the argument registers and memories a guest may prepare
    GuestPcs,           \* where its instructions may leave PC
    ShimBudgets,        \* budgets the harness passes to Shim::run
    MAX_TRANSFER, MAX_PATH, UNHANDLED_CAPACITY,
    STAT_BYTES, UTSNAME_BYTES,
    HostErrnos,         \* errors the host may return
    MaxIcount           \* bound: instructions retired in a behaviour

ASSUME ShimAssumption ==
    /\ MaxWord = 255
    /\ (0 .. 5) \cup {8} \subseteq XRegs
    /\ Setups \subseteq [regs : RegFile, mem : Memory] /\ GuestPcs \subseteq Word
    /\ ShimBudgets \subseteq Nat /\ MaxIcount \in Nat
    /\ MAX_TRANSFER \in Nat /\ MAX_PATH \in Nat /\ UNHANDLED_CAPACITY \in Nat
    /\ STAT_BYTES \in Nat /\ UTSNAME_BYTES \in Nat
    /\ HostErrnos \subseteq {1, 2, 9, 11, 22, 24}

\* What default_layout gives for a RAM that starts on a page and is an even
\* number of pages long.
ASSUME LayoutAssumption ==
    /\ RamBase <= heap_base /\ mmap_limit <= RamBase + RamSize
    /\ mmap_base % PAGE_SIZE = 0

VARIABLES
    regs, mem,      \* the CPU's registers and memory
    icount,         \* instructions retired
    deadline,       \* icount at which this run's budget is spent
    left,           \* budget of the cpu.run in progress
    phase,          \* where Shim::run is
    exit,           \* what the last Shim::run returned
    exit_status,    \* HostIo::exit's last argument; -1 before it is called
    unhandled,      \* syscall numbers with no implementation
    index, done,    \* writev and readv: the vector reached, the bytes so far
    sent            \* the bytes this call has handed to HostIo::write

ioVars    == <<index, done, sent>>
guestVars == <<regs, mem>>
loopVars  == <<icount, deadline, left, phase, exit>>
shimVars  == <<guestVars, loopVars, exit_status, unhandled, ioVars, mapVars>>

\* ShimExit; info is the bit pattern of the i32 status or, for a trap, 0.
NoExit         == [kind |-> "None", info |-> 0]
Exited(status) == [kind |-> "Exited", info |-> status]
Trapped        == [kind |-> "Trapped", info |-> 0]
Exhausted      == [kind |-> "BudgetExhausted", info |-> 0]

\* shim/number.rs.  Numbers above 255 do not fit the model's word and are given
\* free ones: 250 is GETRANDOM, 251 stands for RSEQ and PRLIMIT64, 252 for WAIT4.
Zero    == {25, 62, 99, 134, 135, 173, 174, 175, 176, 177, 215, 226, 233, 251}
One     == {96, 172, 178}
Absent  == {17, 48, 78}
Refused == {98, 131, 220, 221, 252}
EXIT    == {93, 94}
IOCTL   == 29
OPENAT  == 56
CLOSE   == 57
READ    == 63
WRITE   == 64
READV   == 65
WRITEV  == 66
NEWFSTATAT == 79
FSTAT      == 80
CLOCK_GETTIME     == 113
SCHED_GETAFFINITY == 123
UNAME   == 160
BRK     == 214
MMAP    == 222
GETRANDOM == 250
Handled == Zero \cup One \cup Absent \cup Refused \cup EXIT
           \cup {WRITE, READ, WRITEV, READV, BRK, MMAP, OPENAT, CLOSE, NEWFSTATAT, FSTAT, UNAME,
                 CLOCK_GETTIME, GETRANDOM, IOCTL, SCHED_GETAFFINITY}

\* Errno::to_return_value.
Err_(e) == 256 - e
Fault == Err_(14)
NoEnt == Err_(2)
NoMem == Err_(12)
Inval == Err_(22)
NoTty == Err_(25)
NoSys == Err_(38)
IsError(value) == value > 255 - 40
HostFails == {Err_(e) : e \in HostErrnos}

number  == regs.x[8]
args(n) == regs.x[n]

ShimInit ==
    /\ \E s \in Setups : regs = s.regs /\ mem = s.mem
    /\ icount = 0 /\ deadline = 0 /\ left = 0 /\ phase = "Idle" /\ exit = NoExit
    /\ exit_status = -1 /\ unhandled = <<>> /\ index = 0 /\ done = 0 /\ sent = <<>>
    /\ MapInit

(***************************************************************************)
(* Shim::run.                                                              *)
(***************************************************************************)
ShimRun(budget) ==
    /\ phase = "Idle" /\ icount + budget <= MaxIcount
    /\ deadline' = icount + budget /\ phase' = "Loop" /\ exit' = NoExit
    /\ UNCHANGED <<guestVars, icount, left, exit_status, unhandled, ioVars, mapVars>>

\* Mutant: each resumption gets the deadline itself as its budget.
EnterGuest_whole_budget ==
    /\ phase = "Loop" /\ icount < deadline
    /\ left' = deadline /\ phase' = "Guest"
    /\ UNCHANGED <<guestVars, icount, deadline, exit, exit_status, unhandled, ioVars, mapVars>>

EnterGuest ==
    /\ phase = "Loop" /\ icount < deadline
    /\ left' = deadline - icount /\ phase' = "Guest"
    /\ UNCHANGED <<guestVars, icount, deadline, exit, exit_status, unhandled, ioVars, mapVars>>

\* The run returns: out of the loop, or from inside it.
ReturnWith(result) ==
    /\ exit' = result /\ phase' = "Idle" /\ left' = 0
    /\ UNCHANGED <<guestVars, icount, deadline, unhandled, ioVars, mapVars>>

OutOfBudget ==
    /\ \/ phase = "Loop" /\ icount >= deadline
       \/ phase = "Guest" /\ left = 0
    /\ ReturnWith(Exhausted) /\ UNCHANGED exit_status

Executing == phase = "Guest" /\ left > 0

GuestRetire(s, pc) ==
    /\ Executing /\ in_window(regs.pc, INSN_BYTES)
    /\ regs' = set_pc(s.regs, pc) /\ mem' = s.mem
    /\ icount' = icount + 1 /\ left' = left - 1
    /\ UNCHANGED <<deadline, phase, exit, exit_status, unhandled, ioVars, mapVars>>

GuestTrap == Executing /\ ReturnWith(Trapped) /\ UNCHANGED exit_status

\* An SVC does not retire.  Its arguments stay in the registers.
GuestSvc ==
    /\ Executing /\ in_window(regs.pc, INSN_BYTES)
    /\ phase' = "Call" /\ index' = 0 /\ done' = 0 /\ sent' = <<>>
    /\ UNCHANGED <<guestVars, icount, deadline, left, exit, exit_status, unhandled, mapVars>>

(***************************************************************************)
(* Shim::service.                                                          *)
(***************************************************************************)
Calling(n) == phase = "Call" /\ number = n

\* Mutant: PC is left on the SVC, as service() alone leaves it.
resumed_on_svc(value) == write_x(regs, 0, value)

\* The registers the guest resumes with: service writes X0, run advances PC.
resumed(value) == set_pc(write_x(regs, 0, value), wrapping_add(regs.pc, INSN_BYTES))

\* The call returns value; memory and the memory map are the caller's to say.
Returns(value) ==
    /\ regs' = resumed(value) /\ phase' = "Loop"
    /\ UNCHANGED <<icount, deadline, left, exit, exit_status, index, done>>

ReturnsOnly(value) == Returns(value) /\ UNCHANGED <<mem, unhandled, sent, mapVars>>

Exit ==
    /\ phase = "Call" /\ number \in EXIT
    /\ exit_status' = masked(args(0), "W32")
    /\ ReturnWith(Exited(masked(args(0), "W32")))

\* The calls that are a value or a refusal.
Simple ==
    /\ phase = "Call"
    /\ \/ number \in Zero    /\ ReturnsOnly(0)
       \/ number \in One     /\ ReturnsOnly(1)
       \/ number \in Absent  /\ ReturnsOnly(NoEnt)
       \/ number \in Refused /\ ReturnsOnly(NoSys)
       \/ number = CLOSE     /\ \E r \in {0} \cup HostFails : ReturnsOnly(r)
       \/ number = IOCTL     /\ \E r \in {0, NoTty} : ReturnsOnly(r)

\* Mutant: a number is recorded every time it is met.
recorded_always(list, n) == IF Len(list) < UNHANDLED_CAPACITY THEN Append(list, n) ELSE list

\* record_unhandled.
recorded(list, n) ==
    IF (\E i \in DOMAIN list : list[i] = n) \/ Len(list) >= UNHANDLED_CAPACITY
    THEN list ELSE Append(list, n)

Unhandled ==
    /\ phase = "Call" /\ number \notin Handled
    /\ unhandled' = recorded(unhandled, number)
    /\ Returns(NoSys) /\ UNCHANGED <<mem, sent, mapVars>>

Brk ==
    /\ Calling(BRK)
    /\ SetBrk(args(0)) /\ Returns(set_brk(brk, args(0)))
    /\ UNCHANGED <<mem, unhandled, sent>>

Mmap ==
    /\ Calling(MMAP)
    /\ \/ Map(args(1)) /\ Returns(mmap_next)
       \/ MapRefused(args(1)) /\ Returns(NoMem)
    /\ UNCHANGED <<mem, unhandled, sent>>

MinOf(a, b) == IF a < b THEN a ELSE b

\* The len cells at address, as a sequence.
slice(address, len) == [i \in 1 .. len |-> mem[address + i - 1]]

\* Memory with the cells at address replaced by count copies of bit.
filled(address, count, bit) ==
    [a \in Ram |-> IF address <= a /\ a < address + count THEN bit ELSE mem[a]]

\* The host accepts some of the bytes, or fails.
host_write(len)  == [ok : {TRUE}, value : 0 .. len] \cup [ok : {FALSE}, value : HostFails]
host_read(len)   == host_write(len)

Write ==
    /\ Calling(WRITE)
    /\ LET len == MinOf(args(2), MAX_TRANSFER)
       IN  IF ~in_window(args(1), len) THEN ReturnsOnly(Fault)
           ELSE \E r \in host_write(len) :
                  /\ sent' = IF r.ok THEN slice(args(1), r.value) ELSE <<>>
                  /\ Returns(r.value) /\ UNCHANGED <<mem, unhandled, mapVars>>

\* Mutant: the whole staging buffer is copied to the guest, not the bytes read.
cells_written_all(len, count) == len

\* transfer_in copies bytes[..count] to the guest.
cells_written(len, count) == count

Read ==
    /\ Calling(READ)
    /\ LET len == MinOf(args(2), MAX_TRANSFER)
       IN  \E r \in host_read(len), bit \in {0, 1} :
             IF ~r.ok THEN ReturnsOnly(r.value)
             ELSE IF ~in_window(args(1), r.value) THEN ReturnsOnly(Fault)
             ELSE /\ mem' = filled(args(1), cells_written(len, r.value), bit)
                  /\ Returns(r.value) /\ UNCHANGED <<unhandled, sent, mapVars>>

(***************************************************************************)
(* writev and readv, one vector at a time.                                 *)
(***************************************************************************)
IOVEC_BYTES == 16

\* What a transfer may move, and what all the vectors that fit in RAM may move
\* together, is a count and not an error: 1 MiB, times 3 GiB / 16, in the code,
\* where an error is one of the last 4095 values of a u64.
ASSUME TransferAssumption ==
    /\ MAX_TRANSFER <= 255 - 40
    /\ (RamSize \div IOVEC_BYTES) * MAX_TRANSFER <= 255 - 40

entry       == args(1) + index * IOVEC_BYTES
has_iovec   == in_window(entry, 8) /\ in_window(entry + 8, 8)
iov_base    == read_uint(mem, entry, 8)
iov_len     == read_uint(mem, entry + 8, 8)
moved       == MinOf(iov_len, MAX_TRANSFER)

\* Mutant: a short transfer does not end the call.
is_short_never(count) == FALSE

is_short(count) == count < iov_len

\* Mutant: the short call reports only its last vector.
VectorDone_last_count(count) ==
    IF is_short(count) THEN Returns(count)
    ELSE /\ index' = index + 1 /\ done' = done + count
         /\ UNCHANGED <<regs, loopVars, exit_status>>

\* The vector is done with count bytes: the call ends if it was short.
VectorDone(count) ==
    IF is_short(count) THEN Returns(done + count)
    ELSE /\ index' = index + 1 /\ done' = done + count
         /\ UNCHANGED <<regs, loopVars, exit_status>>

VectorsEnd ==
    /\ phase = "Call" /\ number \in {WRITEV, READV}
    /\ \/ index = args(2) /\ ReturnsOnly(done)
       \/ index < args(2) /\ ~has_iovec /\ ReturnsOnly(Fault)

WritevStep ==
    /\ Calling(WRITEV) /\ index < args(2) /\ has_iovec
    /\ IF iov_len = 0
       THEN /\ index' = index + 1
            /\ UNCHANGED <<guestVars, loopVars, exit_status, unhandled, done, sent, mapVars>>
       ELSE IF ~in_window(iov_base, moved) THEN ReturnsOnly(Fault)
       ELSE \E r \in host_write(moved) :
              IF ~r.ok THEN ReturnsOnly(r.value)
              ELSE /\ sent' = sent \o slice(iov_base, r.value)
                   /\ VectorDone(r.value) /\ UNCHANGED <<mem, unhandled, mapVars>>

ReadvStep ==
    /\ Calling(READV) /\ index < args(2) /\ has_iovec
    /\ \E r \in host_read(moved), bit \in {0, 1} :
         IF ~r.ok THEN ReturnsOnly(r.value)
         ELSE IF ~in_window(iov_base, r.value) THEN ReturnsOnly(Fault)
         ELSE /\ mem' = filled(iov_base, cells_written(moved, r.value), bit)
              /\ VectorDone(r.value) /\ UNCHANGED <<unhandled, sent, mapVars>>

(***************************************************************************)
(* The calls that write a structure into guest memory (shim/structs.rs).   *)
(***************************************************************************)
\* read_c_string: the offset of the first NUL decides, or the first fault.
path_result(address) ==
    LET ok(n)  == in_window(address + n, 1)
        nul(n) == ok(n) /\ mem[address + n] = 0
    IN  IF \E n \in 0 .. MAX_PATH - 1 : nul(n) /\ \A k \in 0 .. n : ok(k) THEN "Path"
        ELSE IF \E n \in 0 .. MAX_PATH - 1 : ~ok(n) THEN "Fault" ELSE "Inval"

Openat ==
    /\ Calling(OPENAT)
    /\ CASE path_result(args(1)) = "Path"  -> \E r \in {3} \cup HostFails : ReturnsOnly(r)
         [] path_result(args(1)) = "Fault" -> ReturnsOnly(Fault)
         [] OTHER                          -> ReturnsOnly(Inval)

\* A structure of len cells is written whole or not at all.
WritesStruct(address, len, bit, value) ==
    IF ~in_window(address, len) THEN ReturnsOnly(Fault)
    ELSE mem' = filled(address, len, bit) /\ Returns(value) /\ UNCHANGED <<unhandled, sent, mapVars>>

Fstat ==
    /\ phase = "Call" /\ number \in {FSTAT, NEWFSTATAT}
    /\ \/ \E r \in HostFails : ReturnsOnly(r)
       \/ \E is_terminal \in {0, 1} :
            WritesStruct(IF number = FSTAT THEN args(1) ELSE args(2), STAT_BYTES, is_terminal, 0)

Uname == Calling(UNAME) /\ WritesStruct(args(0), UTSNAME_BYTES, 1, 0)

Getrandom ==
    /\ Calling(GETRANDOM)
    /\ LET len == MinOf(args(1), MAX_TRANSFER)
       IN  \E bit \in {0, 1} : WritesStruct(args(0), len, bit, len)

Affinity ==
    /\ Calling(SCHED_GETAFFINITY)
    /\ IF args(1) < 8 THEN ReturnsOnly(Inval)
       ELSE IF ~in_window(args(2), 8) THEN ReturnsOnly(Fault)
       ELSE mem' = write_uint(mem, args(2), 8, 1) /\ Returns(8) /\ UNCHANGED <<unhandled, sent, mapVars>>

\* write_timespec makes two writes: the second may fault after the first is made.
ClockGettime ==
    /\ Calling(CLOCK_GETTIME)
    /\ \E seconds, nanos \in {0, 1} :
         LET first == write_uint(mem, args(1), 8, seconds)
         IN  IF ~in_window(args(1), 8) THEN ReturnsOnly(Fault)
             ELSE IF ~in_window(args(1) + 8, 8)
             THEN mem' = first /\ Returns(Fault) /\ UNCHANGED <<unhandled, sent, mapVars>>
             ELSE /\ mem' = write_uint(first, args(1) + 8, 8, nanos)
                  /\ Returns(0) /\ UNCHANGED <<unhandled, sent, mapVars>>

Service == \/ Exit \/ Simple \/ Unhandled \/ Brk \/ Mmap \/ Write \/ Read \/ VectorsEnd
           \/ WritevStep \/ ReadvStep \/ Openat \/ Fstat \/ Uname \/ Getrandom \/ Affinity
           \/ ClockGettime

Guest == \/ \E s \in Setups, pc \in GuestPcs : GuestRetire(s, pc)
         \/ GuestTrap \/ GuestSvc

Progress == EnterGuest \/ OutOfBudget \/ Guest \/ Service
ShimNext == (\E b \in ShimBudgets : ShimRun(b)) \/ Progress

ShimSpec == ShimInit /\ [][ShimNext]_shimVars
\* Shim::run is one synchronous call: once entered, its steps are executed.
FairShimSpec == ShimSpec /\ WF_shimVars(Progress)

(***************************************************************************)
(* Properties.                                                             *)
(***************************************************************************)
\* The coverage report of record_unhandled: distinct numbers, none of them one
\* the shim implements, and never more than its capacity.
UnhandledIsASet ==
    /\ \A i, j \in DOMAIN unhandled : unhandled[i] = unhandled[j] => i = j
    /\ \A i \in DOMAIN unhandled : unhandled[i] \notin Handled
    /\ Len(unhandled) <= UNHANDLED_CAPACITY

\* The shim's state and the loop's have their types, and its report of
\* unimplemented calls (record_unhandled) is a set within its capacity.
ShimTypeOK ==
    /\ regs \in RegFile /\ mem \in Memory
    /\ icount \in Nat /\ deadline \in Nat /\ left \in Nat
    /\ phase \in {"Idle", "Loop", "Guest", "Call"}
    /\ exit \in [kind : {"None", "Exited", "Trapped", "BudgetExhausted"}, info : Word]
    /\ exit_status \in -1 .. 255 /\ unhandled \in Seq(Word)
    /\ index \in Nat /\ done \in Nat /\ sent \in Seq({0, 1})
    /\ MapTypeOK /\ UnhandledIsASet

\* writev as one gather: the bytes of its vectors end to end, Unmapped where a
\* vector leaves RAM.
Unmapped == 2
vector_bytes(k) ==
    LET at   == args(1) + (k - 1) * IOVEC_BYTES
        base == read_uint(mem, at, 8)
        len  == read_uint(mem, at + 8, 8)
    IN  IF in_window(at, IOVEC_BYTES)
        THEN [i \in 1 .. len |-> IF base + i - 1 \in Ram THEN mem[base + i - 1] ELSE Unmapped]
        ELSE <<>>
Vectors == [k \in 1 .. args(2) |-> vector_bytes(k)]

\* The host receives a prefix of the gathered bytes, with nothing skipped or
\* repeated, whatever it accepts of each vector (writev: "A short write ends the
\* call, as it does on Linux").
SentIsGatherPrefix ==
    [][Calling(WRITEV) /\ sent' # sent => IsPrefix(sent', FlattenSeq(Vectors))]_shimVars

\* Shim::run: "The budget bounds total instructions across all resumptions".
\* However a run is cut up by supervisor calls, it never retires more than its
\* budget, and when it reports exhaustion it has retired exactly that many.
BudgetIsExact ==
    /\ icount <= deadline
    /\ phase = "Guest" => icount + left <= deadline
    /\ exit.kind = "BudgetExhausted" => icount = deadline

\* "so a guest that never exits still returns control": every Shim::run returns,
\* although a supervisor call does not count against the budget.
ShimReturns == phase # "Idle" ~> phase = "Idle"

\* write and writev that do not fail report the bytes handed to the host.
ReturnCountsSent ==
    [][phase = "Call" /\ phase' = "Loop" /\ number \in {WRITE, WRITEV} /\ ~IsError(regs'.x[0])
          => regs'.x[0] = Len(sent')]_shimVars

\* read touches the guest's buffer only as far as the count it returns, and not
\* at all when it fails (transfer_in).
ReadStaysInCount ==
    Calling(READ) /\ phase' = "Loop" =>
        \A a \in Ram : mem'[a] # mem[a] =>
            ~IsError(regs'.x[0]) /\ args(1) <= a /\ a < args(1) + regs'.x[0]

\* The step in which a call fails changes no guest memory, except that
\* clock_gettime may already have stored the seconds (write_timespec).
FailedCallKeepsMemory ==
    phase = "Call" /\ phase' = "Loop" /\ IsError(regs'.x[0]) /\ mem' # mem =>
        /\ number = CLOCK_GETTIME
        /\ \A a \in Ram : mem'[a] # mem[a] => args(1) <= a /\ a < args(1) + 8

\* A call writes guest memory only where its result says it did: a step of a
\* call satisfies both (transfer_in, write_timespec, service).
CallWritesItsResult == [][ReadStaysInCount /\ FailedCallKeepsMemory]_shimVars

\* The bytes of the pages a mapping of that length touches.
whole_pages(length) == div_ceil(length, PAGE_SIZE) * PAGE_SIZE

\* memory_map.rs: "a static musl binary's allocator gets back distinct, aligned,
\* writable addresses that stay inside guest RAM".  Whatever mixture of brk, mmap
\* and other calls a guest has made, over any number of runs, every mapping it
\* holds starts on a page, its pages to the last byte are memory FlatMemory
\* accepts, no other mapping shares one of them, and the same memory holds the
\* heap up to its break.
GrantsAreUsable ==
    /\ \A g \in granted : g.base % PAGE_SIZE = 0 /\ in_window(g.base, whole_pages(g.length))
    /\ \A g, h \in granted : g # h =>
          Disjoint(g.base, whole_pages(g.length), h.base, whole_pages(h.length))
    /\ in_window(heap_base, brk - heap_base)
=============================================================================
