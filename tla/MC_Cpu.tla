------------------------------- MODULE MC_Cpu -------------------------------
(***************************************************************************)
(* A small machine: sixteen cells of RAM (four instructions), five         *)
(* registers, one vector register, a two-slot decode cache that four       *)
(* instruction addresses share, and a trap log of capacity one.            *)
(***************************************************************************)
EXTENDS Cpu

MC_RamBase == 32
MC_RamSize == 16

\* An instruction with every field at a default, to be overridden.
Plain(e, op, form) ==
    [encoding |-> e, op |-> op, form |-> form, width |-> "X64", sets_flags |-> FALSE,
     rd |-> 0, rn |-> SP, rm |-> 1, kind |-> "Lsl", amount |-> 0, source_bits |-> 8,
     ext_signed |-> FALSE, imm |-> 0, mode |-> "Immediate", writeback |-> "None",
     bytes |-> 4, is_signed |-> FALSE]

\* Data processing, loads, stores and every way to trap.
MC_Decode ==
    [e \in 0 .. 15 |->
       CASE e = 0  -> Plain(0, "Unallocated", "None")
         [] e = 1  -> [Plain(1, "Add", "RegImm") EXCEPT !.imm = 244]       \* ADD X0, SP, #-12
         [] e = 2  -> [Plain(2, "Sub", "RegShifted") EXCEPT !.rd = 1, !.rn = 0, !.rm = 1,
                          !.width = "W32", !.amount = 1, !.kind = "Asr", !.sets_flags = TRUE]
         [] e = 3  -> [Plain(3, "Str", "LoadStore") EXCEPT !.rd = 1, !.rn = 0,
                          !.writeback = "Pre", !.imm = 4]                  \* STR X1, [X0, #4]!
         [] e = 4  -> [Plain(4, "Ldr", "LoadStore") EXCEPT !.rd = 1, !.writeback = "Post",
                          !.imm = 252, !.is_signed = TRUE]                 \* LDR X1, [SP], #-4
         [] e = 5  -> [Plain(5, "Ldr", "LoadStore") EXCEPT !.rd = 1, !.mode = "PcRelative",
                          !.imm = 2, !.bytes = 8]
         [] e = 6  -> [Plain(6, "B", "Branch") EXCEPT !.imm = 252]         \* B .-4
         [] e = 7  -> [Plain(7, "Blr", "BranchIndirect") EXCEPT !.rn = 0]
         [] e = 8  -> [Plain(8, "Svc", "Imm") EXCEPT !.imm = 1]
         [] e = 9  -> [Plain(9, "Brk", "Imm") EXCEPT !.imm = 2]
         [] e = 10 -> [Plain(10, "Eon", "RegShifted") EXCEPT !.rd = 1, !.rn = 0,
                          !.amount = 5, !.kind = "Ror", !.sets_flags = TRUE]
         [] e = 11 -> Plain(11, "Ldr", "Pair")
         [] e = 12 -> [Plain(12, "Add", "RegExtended") EXCEPT !.rn = 0, !.source_bits = 2,
                          !.ext_signed = TRUE, !.amount = 2]
         [] e = 13 -> [Plain(13, "Str", "LoadStore") EXCEPT !.rd = 0, !.mode = "Register",
                          !.rn = 0, !.rm = 1, !.bytes = 2, !.writeback = "Post"]
         [] e = 14 -> Plain(14, "Nop", "None")
         [] OTHER  -> Plain(15, "B", "BranchCond")]

\* The program a sequence of four encodings spells, least significant cell first.
Assemble(p) == [a \in MC_RamBase .. MC_RamBase + MC_RamSize - 1 |->
                  Bit(p[1 + (a - MC_RamBase) \div 4], (a - MC_RamBase) % 4)]

Boot == [ZeroRegs EXCEPT !.pc = MC_RamBase, !.sp = MC_RamBase + MC_RamSize]

\* Every pair of instructions, after ADD X0, SP, #-12 and before a branch back.
MC_Images == {Assemble(<<1, p, q, 6>>) : p, q \in 0 .. 15}
             \cup {Assemble(<<p, 4, 3, q>>) : p, q \in {0, 1, 6, 8}}
\* For liveness: loops, traps in the middle of a run, and falling off the end.
MC_LiveImages == {Assemble(<<1, p, 14, q>>) : p, q \in {0, 6, 8, 14}}
MC_Entry  == {Boot, [Boot EXCEPT !.pc = MC_RamBase + 2]}
=============================================================================
