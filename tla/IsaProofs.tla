------------------------------ MODULE IsaProofs ------------------------------
(***************************************************************************)
(* Lemmas about the pure operators of Alu and Isa: words stay words, and   *)
(* what execute returns for any instruction in any state.                  *)
(***************************************************************************)
EXTENDS Isa, TLAPS

(***************************************************************************)
(* The datapath is closed on words.                                        *)
(***************************************************************************)
LEMMA WordIsInt ==
    ASSUME NEW w \in Word
    PROVE  w \in Int /\ w \in Nat
  BY DEF Word

LEMMA Pow2Type ==
    ASSUME NEW n \in 0 .. 8
    PROVE  Pow2[n] \in Nat /\ Pow2[n] >= 1
  BY DEF Pow2

LEMMA MaskedType ==
    ASSUME NEW v \in Int, NEW width \in Widths
    PROVE  masked(v, width) \in Word
  BY DEF masked, modulus, Word, Widths

LEMMA BitType ==
    ASSUME NEW v \in Int, NEW i \in 0 .. 7
    PROVE  Bit(v, i) \in {0, 1}
<1>1. Pow2[i] \in Nat /\ Pow2[i] >= 1
  BY Pow2Type
<1>2. v \div Pow2[i] \in Int
  BY <1>1
<1> QED
  BY <1>2 DEF Bit

LEMMA FromBitsType ==
    ASSUME NEW b \in [0 .. 7 -> {0, 1}]
    PROVE  FromBits(b) \in Word
<1>1. /\ b[0] \in 0 .. 1 /\ b[1] \in 0 .. 1 /\ b[2] \in 0 .. 1 /\ b[3] \in 0 .. 1
      /\ b[4] \in 0 .. 1 /\ b[5] \in 0 .. 1 /\ b[6] \in 0 .. 1 /\ b[7] \in 0 .. 1
  OBVIOUS
<1> QED
  BY <1>1 DEF FromBits, Word

LEMMA BitwiseType ==
    ASSUME NEW a \in Int, NEW b \in Int
    PROVE  BitAnd(a, b) \in Word /\ BitOr(a, b) \in Word /\ BitXor(a, b) \in Word
<1>1. /\ [i \in 0 .. 7 |-> IF Bit(a, i) = 1 /\ Bit(b, i) = 1 THEN 1 ELSE 0] \in [0 .. 7 -> {0, 1}]
      /\ [i \in 0 .. 7 |-> IF Bit(a, i) = 1 \/ Bit(b, i) = 1 THEN 1 ELSE 0] \in [0 .. 7 -> {0, 1}]
      /\ [i \in 0 .. 7 |-> IF Bit(a, i) # Bit(b, i) THEN 1 ELSE 0] \in [0 .. 7 -> {0, 1}]
  OBVIOUS
<1> QED
  BY <1>1, FromBitsType DEF BitAnd, BitOr, BitXor

LEMMA ShlType ==
    ASSUME NEW v \in Int, NEW n \in 0 .. 8
    PROVE  Shl(v, n) \in Word
<1>1. v * Pow2[n] \in Int
  BY Pow2Type
<1> QED
  BY <1>1 DEF Shl, Word

LEMMA ShrType ==
    ASSUME NEW v \in Int, NEW n \in 0 .. 8
    PROVE  Shr(v, n) \in Int
  BY Pow2Type DEF Shr

LEMMA SarType ==
    ASSUME NEW v \in Int, NEW n \in 0 .. 8
    PROVE  Sar(v, n) \in Word
<1>1. Signed(v, XBits) \in Int
  BY Pow2Type DEF Signed, XBits
<1>2. Signed(v, XBits) \div Pow2[n] \in Int
  BY <1>1, Pow2Type
<1> QED
  BY <1>2 DEF Sar, Word

LEMMA SignExtendType ==
    ASSUME NEW v \in Word, NEW n \in SourceBits
    PROVE  sign_extend_to_64(v, n) \in Word
<1>1. CASE n >= XBits
  BY <1>1 DEF sign_extend_to_64
<1>2. CASE ~(n >= XBits)
  <2>1. XBits - n \in 0 .. 8
    BY DEF SourceBits, XBits
  <2>2. v \in Int
    BY WordIsInt
  <2>3. Shl(v, XBits - n) \in Word
    BY <2>1, <2>2, ShlType
  <2>4. Shl(v, XBits - n) \in Int
    BY <2>3, WordIsInt
  <2> QED
    BY <1>2, <2>1, <2>4, SarType DEF sign_extend_to_64
<1> QED
  BY <1>1, <1>2

LEMMA ShiftedType ==
    ASSUME NEW v \in Word, NEW kind \in ShiftKinds, NEW amount \in 0 .. XBits - 1, NEW width \in Widths
    PROVE  shifted(v, kind, amount, width) \in Word
<1> DEFINE value == masked(v, width)
           n     == bits(width)
<1>0. v \in Int /\ amount \in 0 .. 8
  BY WordIsInt DEF XBits
<1>1. value \in Word /\ n \in {4, 8}
  BY <1>0, MaskedType DEF bits, Widths, XBits
<1>2. value \in Int /\ n \in SourceBits
  BY <1>1, WordIsInt DEF SourceBits
<1> HIDE DEF value, n
<1>3. Shl(value, amount) \in Int /\ Shr(value, amount) \in Int
  BY <1>0, <1>2, ShlType, ShrType, WordIsInt
<1>4. Sar(sign_extend_to_64(value, n), amount) \in Int
  <2>1. sign_extend_to_64(value, n) \in Int
    BY <1>1, <1>2, SignExtendType, WordIsInt
  <2> QED
    BY <1>0, <2>1, SarType, WordIsInt
<1>5. rotate_right(value, amount) \in Int
  <2>1. Pow2[amount] \in Nat /\ Pow2[amount] >= 1
    BY <1>0, Pow2Type
  <2>2. value % Pow2[amount] \in Int /\ (XBits - amount) % XBits \in 0 .. 8
    BY <1>2, <2>1 DEF XBits
  <2>3. Shl(value % Pow2[amount], (XBits - amount) % XBits) \in Int
    BY <2>2, ShlType, WordIsInt
  <2> QED
    BY <1>3, <2>3 DEF rotate_right
<1>6. rotate_carry(value, amount, n) \in Int
  <2>1. n - (amount % n) \in 0 .. 8
    BY <1>1
  <2> QED
    BY <1>2, <2>1, ShlType, WordIsInt DEF rotate_carry
<1>7. BitOr(rotate_right(value, amount), rotate_carry(value, amount, n)) \in Int
  BY <1>5, <1>6, BitwiseType, WordIsInt
<1> DEFINE raw == CASE kind = "Lsl" -> Shl(value, amount)
                    [] kind = "Lsr" -> Shr(value, amount)
                    [] kind = "Asr" -> Sar(sign_extend_to_64(value, n), amount)
                    [] kind = "Ror" -> BitOr(rotate_right(value, amount),
                                             rotate_carry(value, amount, n))
<1>8. raw \in Int
  BY <1>3, <1>4, <1>7 DEF ShiftKinds
<1> HIDE DEF raw
<1>9. masked(raw, width) \in Word
  BY <1>8, MaskedType
<1> QED
  BY <1>9 DEF shifted, raw, value, n

LEMMA ExtendedType ==
    ASSUME NEW v \in Word, NEW sb \in SourceBits, NEW s \in BOOLEAN, NEW amount \in 0 .. XBits - 1
    PROVE  extended(v, sb, s, amount) \in Word
<1>1. sign_extend_to_64(v, sb) \in Int
  BY SignExtendType, WordIsInt
<1>2. mask_to(v, sb) \in Int
  <2>1. sb \in 0 .. 8
    BY DEF SourceBits
  <2> QED
    BY <2>1, Pow2Type, WordIsInt DEF mask_to
<1>3. amount \in 0 .. 8
  BY DEF XBits
<1> QED
  BY <1>1, <1>2, <1>3, ShlType DEF extended

LEMMA AddWithCarryType ==
    ASSUME NEW l \in Word, NEW r \in Word, NEW c \in BOOLEAN, NEW width \in Widths
    PROVE  /\ add_with_carry(l, r, c, width).value \in Word
           /\ add_with_carry(l, r, c, width).flags \in Nzcv
<1>1. masked(l, width) \in Int /\ masked(r, width) \in Int /\ (IF c THEN 1 ELSE 0) \in Int
  BY MaskedType, WordIsInt
<1>2. masked(l, width) + masked(r, width) + (IF c THEN 1 ELSE 0) \in Int
  BY <1>1
<1>3. masked(masked(l, width) + masked(r, width) + (IF c THEN 1 ELSE 0), width) \in Word
  BY <1>2, MaskedType
<1> QED
  BY <1>3 DEF add_with_carry, Nzcv, sign_bit, carry_out

LEMMA LogicalFlagsType ==
    ASSUME NEW v \in Word, NEW width \in Widths
    PROVE  logical_flags(v, width) \in Nzcv
  BY DEF logical_flags, Nzcv, sign_bit

LEMMA BitNotType ==
    ASSUME NEW v \in Word
    PROVE  BitNot(v) \in Word
  BY DEF BitNot, Word

LEMMA WrappingAddType ==
    ASSUME NEW a \in Word, NEW b \in Int
    PROVE  wrapping_add(a, b) \in Word
  BY DEF wrapping_add, Word

(***************************************************************************)
(* The register file.                                                      *)
(***************************************************************************)
LEMMA ReadXType ==
    ASSUME NEW regs \in RegFile, NEW r \in Gpr
    PROVE  read_x(regs, r) \in Word
<1>1. 0 \in Word
  BY DEF Word
<1> QED
  BY <1>1 DEF read_x, RegFile, Gpr

LEMMA WriteXType ==
    ASSUME NEW regs \in RegFile, NEW r \in Gpr, NEW v \in Word
    PROVE  write_x(regs, r, v) \in RegFile
  BY DEF write_x, RegFile, Gpr

LEMMA SetPcType ==
    ASSUME NEW regs \in RegFile, NEW v \in Word
    PROVE  set_pc(regs, v) \in RegFile
  BY DEF set_pc, RegFile

LEMMA SetNzcvType ==
    ASSUME NEW regs \in RegFile, NEW f \in Nzcv
    PROVE  set_nzcv(regs, f) \in RegFile
  BY DEF set_nzcv, RegFile

LEMMA ReadGprType ==
    ASSUME NEW regs \in RegFile, NEW r \in Gpr, NEW width \in Widths
    PROVE  read_gpr(regs, r, width) \in Word
<1>1. read_x(regs, r) \in Int
  BY ReadXType, WordIsInt
<1> QED
  BY <1>1, MaskedType DEF read_gpr

LEMMA WriteResultType ==
    ASSUME NEW regs \in RegFile, NEW r \in Gpr, NEW v \in Word, NEW width \in Widths
    PROVE  write_result(regs, r, v, width) \in RegFile
<1>1. masked(v, "W32") \in Word
  BY WordIsInt, MaskedType DEF Widths
<1> QED
  BY <1>1, WriteXType DEF write_result, write_w

(***************************************************************************)
(* Memory.                                                                 *)
(***************************************************************************)
LEMMA ReadUintType ==
    ASSUME NEW mem \in Memory, NEW address \in Word, NEW len \in SourceBits,
           in_window(address, len)
    PROVE  read_uint(mem, address, len) \in Word
<1>1. [i \in 0 .. 7 |-> cell(mem, address, i, len)] \in [0 .. 7 -> {0, 1}]
  <2>1. SUFFICES ASSUME NEW i \in 0 .. 7
                 PROVE  cell(mem, address, i, len) \in {0, 1}
    OBVIOUS
  <2>2. CASE i < len
    <3>1. address + i \in Ram
      BY <2>2, IsaAssumption DEF in_window, Ram, SourceBits, Word
    <3> QED
      BY <3>1, <2>2 DEF cell, Memory
  <2>3. CASE ~(i < len)
    BY <2>3 DEF cell
  <2> QED
    BY <2>2, <2>3
<1> QED
  BY <1>1, FromBitsType DEF read_uint

\* A fetched word is one of the encodings.
LEMMA FetchType ==
    ASSUME NEW mem \in Memory, NEW address \in Word, in_window(address, INSN_BYTES)
    PROVE  read_uint(mem, address, INSN_BYTES) \in Encoding
<1> DEFINE b == [i \in 0 .. 7 |-> cell(mem, address, i, INSN_BYTES)]
<1>1. /\ address \in Ram /\ address + 1 \in Ram
      /\ address + 2 \in Ram /\ address + 3 \in Ram
  BY IsaAssumption DEF in_window, INSN_BYTES, Ram, Word
<1>2. address + 0 = address
  BY WordIsInt
<1>3. /\ b[0] \in 0 .. 1 /\ b[1] \in 0 .. 1 /\ b[2] \in 0 .. 1 /\ b[3] \in 0 .. 1
      /\ b[4] = 0 /\ b[5] = 0 /\ b[6] = 0 /\ b[7] = 0
  BY <1>1, <1>2 DEF cell, Memory, INSN_BYTES
<1> HIDE DEF b
<1>4. FromBits(b) \in Encoding
  BY <1>3 DEF FromBits, Encoding
<1> QED
  BY <1>4 DEF read_uint, b

LEMMA WriteUintType ==
    ASSUME NEW mem \in Memory, NEW address \in Word, NEW len \in SourceBits, NEW v \in Word
    PROVE  write_uint(mem, address, len, v) \in Memory
<1>1. SUFFICES ASSUME NEW a \in Ram
               PROVE  (IF address <= a /\ a < address + len THEN Bit(v, a - address)
                       ELSE mem[a]) \in {0, 1}
  BY DEF write_uint, Memory
<1>2. CASE address <= a /\ a < address + len
  <2>1. a - address \in 0 .. 7
    BY <1>2, IsaAssumption DEF Ram, Word, SourceBits
  <2> QED
    BY <1>2, <2>1, BitType, WordIsInt
<1>3. CASE ~(address <= a /\ a < address + len)
  BY <1>3 DEF Memory
<1> QED
  BY <1>2, <1>3

(***************************************************************************)
(* The arms of execute.                                                    *)
(***************************************************************************)
\* What Cpu::step relies on: types are kept, and an instruction that traps
\* has changed nothing, names its own PC and, if undefined, its own encoding.
Sound(r, regs, mem, insn, pc) ==
    /\ r.regs \in RegFile /\ r.mem \in Memory
    /\ r.flow \in {"Next", "Branched", "Err"}
    /\ r.flow = "Err" =>
          /\ r.regs = regs /\ r.mem = mem /\ r.trap \in Trap /\ r.trap.pc = pc
          /\ r.trap.kind = "UndefinedInstruction" => r.trap.info = insn.encoding

LEMMA InstructionFields ==
    ASSUME NEW insn \in Instruction
    PROVE  /\ insn.encoding \in Word /\ insn.imm \in Word
           /\ insn.rd \in Gpr /\ insn.rn \in Gpr /\ insn.rm \in Gpr
           /\ insn.width \in Widths /\ insn.kind \in ShiftKinds /\ insn.amount \in 0 .. XBits - 1
           /\ insn.source_bits \in SourceBits /\ insn.bytes \in SourceBits
           /\ insn.ext_signed \in BOOLEAN /\ insn.op \in Ops
  BY DEF Instruction, Encoding, Word

LEMMA UndefinedIsTrap ==
    ASSUME NEW insn \in Instruction, NEW pc \in Word
    PROVE  /\ undefined(pc, insn) \in Trap /\ undefined(pc, insn).pc = pc
           /\ undefined(pc, insn).info = insn.encoding
  BY InstructionFields DEF undefined, Trap, TrapKinds

LEMMA ErrIsSound ==
    ASSUME NEW regs \in RegFile, NEW mem \in Memory, NEW insn, NEW pc, NEW trap \in Trap, trap.pc = pc,
           trap.kind = "UndefinedInstruction" => trap.info = insn.encoding
    PROVE  Sound(Err(regs, mem, trap), regs, mem, insn, pc)
  BY DEF Sound, Err

LEMMA NextIsSound ==
    ASSUME NEW regs, NEW mem, NEW insn, NEW pc, NEW regs2 \in RegFile, NEW mem2 \in Memory
    PROVE  Sound(Next_(regs2, mem2), regs, mem, insn, pc) /\ Sound(Branched(regs2, mem2), regs, mem, insn, pc)
  BY DEF Sound, Next_, Branched

LEMMA OperandType ==
    ASSUME NEW regs \in RegFile, NEW insn \in Instruction,
           insn.form \in {"RegImm", "RegShifted", "RegExtended"}
    PROVE  operand(regs, insn) \in Word
<1>1. read_x(regs, insn.rm) \in Word
  BY InstructionFields, ReadXType
<1>2. read_shifted(regs, insn) \in Word
  BY <1>1, InstructionFields, ShiftedType DEF read_shifted
<1>3. read_extended(regs, insn) \in Word
  BY <1>1, InstructionFields, ExtendedType DEF read_extended
<1> QED
  BY <1>2, <1>3, InstructionFields DEF operand

LEMMA FlagsIfType ==
    ASSUME NEW insn, NEW regs \in RegFile, NEW f \in Nzcv
    PROVE  flags_if(insn, regs, f) \in RegFile
  BY SetNzcvType DEF flags_if

LEMMA ArithmeticSound ==
    ASSUME NEW regs \in RegFile, NEW mem \in Memory, NEW insn \in Instruction
    PROVE  Sound(arithmetic(regs, mem, insn), regs, mem, insn, regs.pc)
<1>0. regs.pc \in Word
  BY DEF RegFile
<1>1. CASE insn.form \notin {"RegImm", "RegShifted", "RegExtended"}
  BY <1>0, <1>1, UndefinedIsTrap, ErrIsSound DEF arithmetic
<1>2. CASE insn.form \in {"RegImm", "RegShifted", "RegExtended"}
  <2> DEFINE is_sub == insn.op = "Sub"
             right  == IF is_sub THEN BitNot(operand(regs, insn)) ELSE operand(regs, insn)
             left   == read_gpr(regs, insn.rn, insn.width)
             result == add_with_carry(left, right, is_sub, insn.width)
  <2>1. right \in Word /\ left \in Word /\ is_sub \in BOOLEAN
    BY <1>2, OperandType, BitNotType, ReadGprType, InstructionFields
  <2> HIDE DEF right, left, is_sub
  <2>2. result.value \in Word /\ result.flags \in Nzcv
    BY <2>1, AddWithCarryType, InstructionFields
  <2> HIDE DEF result
  <2>3. flags_if(insn, write_result(regs, insn.rd, result.value, insn.width), result.flags)
           \in RegFile
    BY <2>2, WriteResultType, FlagsIfType, InstructionFields
  <2> QED
    BY <1>2, <2>3, NextIsSound DEF arithmetic, result, right, left, is_sub
<1> QED
  BY <1>1, <1>2

LEMMA BitwiseOpType ==
    ASSUME NEW op, NEW l \in Word, NEW r \in Word
    PROVE  bitwise(op, l, r) \in Word
<1>1. l \in Int /\ r \in Int /\ BitNot(r) \in Int
  BY BitNotType, WordIsInt
<1>2. /\ BitAnd(l, r) \in Word /\ BitOr(l, r) \in Word /\ BitXor(l, r) \in Word
      /\ BitAnd(l, BitNot(r)) \in Word /\ BitOr(l, BitNot(r)) \in Word
      /\ BitXor(l, BitNot(r)) \in Word
  BY <1>1, BitwiseType
<1> QED
  BY <1>2 DEF bitwise

LEMMA LogicalSound ==
    ASSUME NEW regs \in RegFile, NEW mem \in Memory, NEW insn \in Instruction
    PROVE  Sound(logical(regs, mem, insn), regs, mem, insn, regs.pc)
<1>0. regs.pc \in Word
  BY DEF RegFile
<1>1. CASE insn.form \notin {"RegImm", "RegShifted"}
  BY <1>0, <1>1, UndefinedIsTrap, ErrIsSound DEF logical
<1>2. CASE insn.form \in {"RegImm", "RegShifted"}
  <2> DEFINE value == bitwise(insn.op, read_gpr(regs, insn.rn, insn.width), operand(regs, insn))
  <2>1. value \in Word
    BY <1>2, OperandType, ReadGprType, InstructionFields, BitwiseOpType
  <2> HIDE DEF value
  <2>2. flags_if(insn, write_result(regs, insn.rd, value, insn.width),
                 logical_flags(value, insn.width)) \in RegFile
    BY <2>1, WriteResultType, LogicalFlagsType, FlagsIfType, InstructionFields
  <2> QED
    BY <1>2, <2>2, NextIsSound DEF logical, value
<1> QED
  BY <1>1, <1>2

LEMMA LinkedType ==
    ASSUME NEW regs \in RegFile, NEW pc \in Word
    PROVE  linked(regs, pc) \in RegFile
<1>1. 30 \in Gpr /\ wrapping_add(pc, INSN_BYTES) \in Word
  BY IsaAssumption, WrappingAddType DEF Gpr, INSN_BYTES
<1> QED
  BY <1>1, WriteXType DEF linked

LEMMA BranchImmediateSound ==
    ASSUME NEW regs \in RegFile, NEW mem \in Memory, NEW insn \in Instruction, NEW pc \in Word
    PROVE  Sound(branch_immediate(regs, mem, insn, pc), regs, mem, insn, pc)
<1>1. CASE insn.form # "Branch"
  BY <1>1, UndefinedIsTrap, ErrIsSound DEF branch_immediate
<1>2. CASE insn.form = "Branch"
  <2> DEFINE after == IF insn.op = "Bl" THEN linked(regs, pc) ELSE regs
  <2>1. after \in RegFile
    BY LinkedType
  <2>2. wrapping_add(pc, insn.imm) \in Word
    BY WrappingAddType, InstructionFields, WordIsInt
  <2> HIDE DEF after
  <2>3. set_pc(after, wrapping_add(pc, insn.imm)) \in RegFile
    BY <2>1, <2>2, SetPcType
  <2> QED
    BY <1>2, <2>3, NextIsSound DEF branch_immediate, after
<1> QED
  BY <1>1, <1>2

LEMMA BranchRegisterSound ==
    ASSUME NEW regs \in RegFile, NEW mem \in Memory, NEW insn \in Instruction, NEW pc \in Word
    PROVE  Sound(branch_register(regs, mem, insn, pc), regs, mem, insn, pc)
<1>1. CASE insn.form # "BranchIndirect"
  BY <1>1, UndefinedIsTrap, ErrIsSound DEF branch_register
<1>2. CASE insn.form = "BranchIndirect"
  <2> DEFINE after == IF insn.op = "Blr" THEN linked(regs, pc) ELSE regs
  <2>1. after \in RegFile
    BY LinkedType
  <2> HIDE DEF after
  <2>2. set_pc(after, read_x(regs, insn.rn)) \in RegFile
    BY <2>1, ReadXType, InstructionFields, SetPcType
  <2> QED
    BY <1>2, <2>2, NextIsSound DEF branch_register, after
<1> QED
  BY <1>1, <1>2

LEMMA EffectiveAddressType ==
    ASSUME NEW regs \in RegFile, NEW insn \in Instruction, NEW pc \in Word
    PROVE  /\ effective_address(regs, insn, pc).address \in Word
           /\ effective_address(regs, insn, pc).updated \in Word
<1> DEFINE offset == CASE insn.mode = "Immediate" -> insn.imm
                       [] insn.mode = "Register"  -> read_extended(regs, insn)
                       [] OTHER                   -> 0
           wb     == IF insn.mode \in {"Immediate", "Register"} THEN insn.writeback ELSE "None"
           base   == read_x(regs, insn.rn)
           upd    == wrapping_add(base, offset)
<1>1. read_x(regs, insn.rm) \in Word /\ base \in Word /\ 0 \in Word
  BY InstructionFields, ReadXType DEF Word
<1>2. read_extended(regs, insn) \in Word
  BY <1>1, InstructionFields, ExtendedType DEF read_extended
<1>3. offset \in Word
  BY <1>1, <1>2, InstructionFields
<1>4. wrapping_add(pc, insn.imm) \in Word
  BY InstructionFields, WordIsInt, WrappingAddType
<1> HIDE DEF offset, base
<1>5. upd \in Word
  BY <1>1, <1>3, WordIsInt, WrappingAddType
<1> HIDE DEF upd, wb
<1>6. effective_address(regs, insn, pc) =
        IF insn.mode = "PcRelative"
        THEN [address |-> wrapping_add(pc, insn.imm), writes |-> FALSE, updated |-> 0]
        ELSE [address |-> IF wb = "Post" THEN base ELSE upd, writes |-> wb # "None", updated |-> upd]
  BY DEF effective_address, upd, base, offset, wb
<1> QED
  BY <1>1, <1>4, <1>5, <1>6

LEMMA LoadedType ==
    ASSUME NEW regs \in RegFile, NEW mem \in Memory, NEW insn \in Instruction, NEW address \in Word,
           in_window(address, insn.bytes)
    PROVE  loaded(regs, mem, insn, address) \in RegFile
<1> DEFINE raw == read_uint(mem, address, insn.bytes)
           v   == IF insn.is_signed THEN sign_extend_to_64(raw, insn.bytes) ELSE raw
<1>1. raw \in Word
  BY ReadUintType, InstructionFields
<1> HIDE DEF raw
<1>2. v \in Word
  BY <1>1, SignExtendType, InstructionFields
<1> HIDE DEF v
<1>3. write_result(regs, insn.rd, v, insn.width) \in RegFile
  BY <1>2, WriteResultType, InstructionFields
<1> QED
  BY <1>3 DEF loaded, v, raw

LEMMA LoadStoreSound ==
    ASSUME NEW regs \in RegFile, NEW mem \in Memory, NEW insn \in Instruction, NEW pc \in Word
    PROVE  Sound(load_store(regs, mem, insn, pc), regs, mem, insn, pc)
<1> DEFINE computed == effective_address(regs, insn, pc)
           is_write == insn.op = "Str"
<1>1. computed.address \in Word /\ computed.updated \in Word
  BY EffectiveAddressType
<1> HIDE DEF computed, is_write
<1>2. \A rg \in RegFile : write_back(rg, insn, computed) \in RegFile
  BY <1>1, WriteXType, InstructionFields DEF write_back
<1>3. CASE insn.form # "LoadStore"
  BY <1>3, UndefinedIsTrap, ErrIsSound DEF load_store
<1>4. CASE insn.form = "LoadStore" /\ ~in_window(computed.address, insn.bytes)
  <2>1. /\ data_abort(pc, computed.address, is_write) \in Trap
        /\ data_abort(pc, computed.address, is_write).pc = pc
        /\ data_abort(pc, computed.address, is_write).kind # "UndefinedInstruction"
    BY <1>1 DEF data_abort, Trap, TrapKinds
  <2>2. Sound(Err(regs, mem, data_abort(pc, computed.address, is_write)), regs, mem, insn, pc)
    BY <2>1, ErrIsSound
  <2>3. load_store(regs, mem, insn, pc) = Err(regs, mem, data_abort(pc, computed.address, is_write))
    BY <1>4 DEF load_store, computed, is_write
  <2> QED
    BY <2>2, <2>3
<1>5. CASE /\ insn.form = "LoadStore" /\ in_window(computed.address, insn.bytes) /\ is_write
  <2>1. read_gpr(regs, insn.rd, insn.width) \in Word
    BY ReadGprType, InstructionFields
  <2>2. stored(regs, mem, insn, computed.address) \in Memory
    BY <1>1, <2>1, WriteUintType, InstructionFields DEF stored
  <2>3. load_store(regs, mem, insn, pc)
          = Next_(write_back(regs, insn, computed), stored(regs, mem, insn, computed.address))
    BY <1>5 DEF load_store, computed, is_write
  <2> QED
    BY <1>2, <2>2, <2>3, NextIsSound
<1>6. CASE /\ insn.form = "LoadStore" /\ in_window(computed.address, insn.bytes) /\ ~is_write
  <2>1. loaded(regs, mem, insn, computed.address) \in RegFile
    BY <1>1, <1>6, LoadedType
  <2>2. load_store(regs, mem, insn, pc)
          = Next_(write_back(loaded(regs, mem, insn, computed.address), insn, computed), mem)
    BY <1>6 DEF load_store, computed, is_write
  <2> QED
    BY <1>2, <2>1, <2>2, NextIsSound
<1> QED
  BY <1>3, <1>4, <1>5, <1>6

LEMMA ImmediateTrapSound ==
    ASSUME NEW regs \in RegFile, NEW mem \in Memory, NEW insn \in Instruction, NEW pc \in Word,
           NEW kind \in TrapKinds \ {"UndefinedInstruction"}
    PROVE  Sound(immediate_trap(regs, mem, insn, pc, kind), regs, mem, insn, pc)
<1>1. CASE insn.form = "Imm"
  <2>1. [kind |-> kind, pc |-> pc, info |-> insn.imm] \in Trap
    BY InstructionFields DEF Trap
  <2> QED
    BY <1>1, <2>1, ErrIsSound DEF immediate_trap
<1>2. CASE insn.form # "Imm"
  BY <1>2, UndefinedIsTrap, ErrIsSound DEF immediate_trap
<1> QED
  BY <1>1, <1>2

\* dispatch::execute, for every instruction the decoder can produce, in every
\* register file and memory: types are kept, and an instruction that traps has
\* changed no register and no memory, names its own PC and, when it is undefined,
\* its own encoding.
THEOREM ExecuteSound ==
    ASSUME NEW regs \in RegFile, NEW mem \in Memory, NEW insn \in Instruction
    PROVE  Sound(execute(regs, mem, insn, regs.pc), regs, mem, insn, regs.pc)
<1>0. regs.pc \in Word
  BY DEF RegFile
<1>1. CASE insn.op \in Arith
  BY <1>1, ArithmeticSound DEF execute, Arith, Logical, BranchImm, BranchInd
<1>2. CASE insn.op \in Logical
  BY <1>2, LogicalSound DEF execute, Arith, Logical, BranchImm, BranchInd
<1>3. CASE insn.op \in BranchImm
  BY <1>0, <1>3, BranchImmediateSound DEF execute, Arith, Logical, BranchImm, BranchInd
<1>4. CASE insn.op \in BranchInd
  BY <1>0, <1>4, BranchRegisterSound DEF execute, Arith, Logical, BranchImm, BranchInd
<1>5. CASE insn.op = "Nop"
  BY <1>5, NextIsSound DEF execute, Arith, Logical, BranchImm, BranchInd
<1>6. CASE insn.op \in {"Ldr", "Str"}
  BY <1>0, <1>6, LoadStoreSound DEF execute, Arith, Logical, BranchImm, BranchInd
<1>7. CASE insn.op = "Svc"
  BY <1>0, <1>7, ImmediateTrapSound DEF execute, Arith, Logical, BranchImm, BranchInd, TrapKinds
<1>8. CASE insn.op = "Brk"
  BY <1>0, <1>8, ImmediateTrapSound DEF execute, Arith, Logical, BranchImm, BranchInd, TrapKinds
<1>9. CASE insn.op \notin Arith \cup Logical \cup BranchImm \cup BranchInd
                         \cup {"Nop", "Ldr", "Str", "Svc", "Brk"}
  BY <1>0, <1>9, UndefinedIsTrap, ErrIsSound DEF execute
<1> QED
  BY <1>1, <1>2, <1>3, <1>4, <1>5, <1>6, <1>7, <1>8, <1>9

\* Cpu::step leaves a register file behind whether PC advances or was set.
LEMMA AdvancedType ==
    ASSUME NEW regs \in RegFile, NEW mem \in Memory, NEW insn \in Instruction
    PROVE  advanced(execute(regs, mem, insn, regs.pc), regs.pc) \in RegFile
<1>1. regs.pc \in Word /\ INSN_BYTES \in Int
  BY DEF RegFile, INSN_BYTES
<1>2. wrapping_add(regs.pc, INSN_BYTES) \in Word
  BY <1>1, WrappingAddType
<1>3. execute(regs, mem, insn, regs.pc).regs \in RegFile
  BY ExecuteSound DEF Sound
<1> QED
  BY <1>2, <1>3, SetPcType DEF advanced
=============================================================================
