------------------------------- MODULE MC_Shim ------------------------------
(***************************************************************************)
(* Forty-eight cells of RAM: two iovecs at the bottom, data above them,    *)
(* and two instructions at the top, so that a guest that only makes calls  *)
(* runs off the end.                                                       *)
(***************************************************************************)
EXTENDS Shim

MC_RamBase == 32
MC_RamSize == 48
MC_Decode  == [e \in 0 .. 15 |->
    [encoding |-> e, op |-> IF e = 0 THEN "Unallocated" ELSE "Nop", form |-> "None",
     width |-> "X64", sets_flags |-> FALSE, rd |-> 0, rn |-> 0, rm |-> 0, kind |-> "Lsl",
     amount |-> 0, source_bits |-> 8, ext_signed |-> FALSE, imm |-> 0, mode |-> "Immediate",
     writeback |-> "None", bytes |-> 4, is_signed |-> FALSE]]

Layout == default_layout(MC_RamBase, MC_RamSize)
MC_heap_base  == Layout.heap_base
MC_heap_limit == Layout.heap_limit
MC_mmap_base  == Layout.mmap_base
MC_mmap_limit == Layout.mmap_limit

\* Two iovecs <<base, len>> at RamBase, then data cells 0 1 1 0 1 1 ...
Image(v, w) ==
    [a \in MC_RamBase .. MC_RamBase + MC_RamSize - 1 |->
        LET i == a - MC_RamBase
        IN  IF i < 8 THEN Bit(v[1], i)
            ELSE IF i < 16 THEN Bit(v[2], i - 8)
            ELSE IF i < 24 THEN Bit(w[1], i - 16)
            ELSE IF i < 32 THEN Bit(w[2], i - 24)
            ELSE IF i % 3 = 2 THEN 0 ELSE 1]
Blank == Image(<<0, 0>>, <<0, 0>>)

\* A call: number and up to three arguments, over a memory.
Call(n, a0, a1, a2, m) ==
    [regs |-> [v |-> [r \in VRegs |-> <<0, 0>>],
               x |-> [r \in XRegs |-> CASE r = 0 -> a0 [] r = 1 -> a1 [] r = 2 -> a2
                                        [] r = 8 -> n [] OTHER -> 0],
               sp |-> 0, pc |-> 72,
               nzcv |-> [v |-> FALSE, n |-> FALSE, z |-> FALSE, c |-> FALSE],
               fpcr |-> 0, fpsr |-> 0],
     mem |-> m]

\* Transfers: short ones, empty vectors, a buffer that runs off RAM, one that
\* does so only past MAX_TRANSFER, an array that does, a count of zero, and a
\* readv into its own second vector.
IoSetups ==
    {Call(n, 1, 32, 2, Image(v, w)) :
        n \in {WRITEV, READV}, v \in {<<64, 2>>, <<66, 0>>, <<79, 2>>}, w \in {<<67, 3>>, <<76, 5>>}}
    \cup {Call(READV, 0, 32, 2, Image(<<56, 2>>, <<64, 2>>)),
          Call(WRITEV, 1, 32, 0, Image(<<64, 2>>, <<67, 3>>)),
          Call(WRITEV, 1, 56, 2, Blank), Call(WRITEV, 1, 8, 1, Blank)}
    \cup {Call(n, 1, a, c, Blank) : n \in {WRITE, READ}, a \in {30, 64, 78}, c \in {0, 2, 9}}

\* Everything that is not a transfer: structures that end at the last cell of
\* RAM, just past it, or start outside it; three numbers nobody implements.
ControlSetups ==
    {Call(n, 3, 0, 0, Blank) : n \in {93, 172, 48, 98, 200, 201, 202, CLOSE, IOCTL}}
    \cup {Call(BRK, a, 0, 0, Blank) : a \in {0, 44, 56, 57}}
    \cup {Call(MMAP, 0, a, 0, Blank) : a \in {0, 5, 9, 250}}
    \cup {Call(n, a, a, a, Blank) : n \in {OPENAT, FSTAT, NEWFSTATAT, UNAME, CLOCK_GETTIME,
                                          GETRANDOM, SCHED_GETAFFINITY}, a \in {62, 64, 79, 4}}
    \cup {Call(CLOCK_GETTIME, 0, 72, 0, Image(<<255, 255>>, <<255, 255>>)),
          Call(OPENAT, 0, 40, 0, Image(<<255, 255>>, <<255, 255>>))}
MC_Setups == IoSetups \cup ControlSetups
=============================================================================
