---------------------------- MODULE DecodeProofs ----------------------------
(***************************************************************************)
(* Theorems about the decoder: every word of 32 bits decodes to nothing or *)
(* to an instruction whose operands are in range, and one that encodes a   *)
(* feature the machine lacks decodes to nothing.                           *)
(*                                                                         *)
(* Each group decoder is an instance with its own copy of the vocabulary   *)
(* of Encoding, so for each group a lemma first says what its copy         *)
(* computes: the fields it reads, and the record it builds (Insn).  Below  *)
(* them a lemma per kind of form says which operands make it in range, and *)
(* one lemma per decoder that its guards see to them.                      *)
(***************************************************************************)
EXTENDS DecodeContract, TLAPS

\* What a decoder may return.
Fine(i) == is_unallocated(i) \/ InRange(i)

\* The record that new, with_width, with_round and setting_flags build up.
Insn(w, op, form, width, round, is) ==
    [encoding |-> w, op |-> op, form |-> form, width |-> width, round |-> round, sets_flags |-> is]

Width == {"W32", "X64"}

(***************************************************************************)
(* The fields of a word.                                                   *)
(***************************************************************************)
LEMMA Powers ==
    /\ Pow2[0] = 1 /\ Pow2[1] = 2 /\ Pow2[2] = 4 /\ Pow2[3] = 8 /\ Pow2[4] = 16
    /\ Pow2[5] = 32 /\ Pow2[6] = 64 /\ Pow2[7] = 128 /\ Pow2[8] = 256 /\ Pow2[9] = 512
    /\ Pow2[10] = 1024 /\ Pow2[11] = 2048 /\ Pow2[12] = 4096 /\ Pow2[13] = 8192
    /\ Pow2[14] = 16384 /\ Pow2[15] = 32768 /\ Pow2[16] = 65536 /\ Pow2[17] = 131072
    /\ Pow2[18] = 262144 /\ Pow2[19] = 524288 /\ Pow2[20] = 1048576 /\ Pow2[21] = 2097152
    /\ Pow2[22] = 4194304 /\ Pow2[23] = 8388608 /\ Pow2[24] = 16777216
    /\ Pow2[25] = 33554432 /\ Pow2[26] = 67108864
  BY SMT DEF Pow2

LEMMA PowersPositive == \A i \in 0 .. 26 : Pow2[i] \in Nat \ {0}
  BY SMT DEF Pow2

LEMMA PowersGrow == \A i \in 0 .. 26, j \in 0 .. 26 : i <= j => Pow2[i] <= Pow2[j]
  BY Powers, SMT

\* A number below 2^k has no one bit from k on.
LEMMA OneBitsBelow ==
  ASSUME NEW k \in 0 .. 26, NEW n \in Nat, n < Pow2[k]
  PROVE  OneBits(n) \subseteq 0 .. k - 1
<1>1. SUFFICES ASSUME NEW i \in 0 .. 25, k <= i, (n \div Pow2[i]) % 2 = 1 PROVE FALSE
  BY DEF OneBits
<1>2. PICK p \in Nat \ {0} : p = Pow2[i]
  BY PowersPositive
<1>3. n < p
  BY <1>1, <1>2, PowersGrow, PowersPositive
<1>4. n \div p = 0
  BY <1>3
<1> QED
  BY <1>1, <1>2, <1>4

LEMMA ShiftedBits ==
  ASSUME NEW b, NEW k \in Nat, NEW m \in Nat, b \subseteq 0 .. m - 1
  PROVE  ShlBits(b, k) \subseteq 0 .. m + k - 1
  BY DEF ShlBits

LEMMA Halves == \A h \in Half : h \in Nat /\ h < 65536
  BY Powers DEF Half

\* A field inside one half of the word.
LEMMA FieldOfHalf ==
  ASSUME NEW w \in Word32, NEW hi \in 0 .. 31, NEW lo \in 0 .. 31, lo <= hi,
         lo >= 16 \/ hi < 16
  PROVE  bits(w, hi, lo) \in 0 .. Pow2[hi - lo + 1] - 1
<1>1. PICK h \in Half : bits(w, hi, lo) \in {(h \div Pow2[lo % 16]) % Pow2[hi - lo + 1]}
  <2>1. CASE lo >= 16
    <3>1. lo % 16 = lo - 16
      BY <2>1
    <3> QED
      BY <2>1, <3>1 DEF bits, Word32
  <2>2. CASE hi < 16
    <3>1. lo % 16 = lo /\ ~ lo >= 16
      BY <2>2
    <3> QED
      BY <2>2, <3>1 DEF bits, Word32
  <2> QED
    BY <2>1, <2>2
<1>2. PICK d \in Nat \ {0} : d = Pow2[lo % 16]
  BY PowersPositive
<1>3. PICK m \in Nat \ {0} : m = Pow2[hi - lo + 1]
  BY PowersPositive
<1>4. (h \div d) % m \in 0 .. m - 1
  BY Halves
<1> QED
  BY <1>1, <1>2, <1>3, <1>4

\* The fields the decoders read, with their ranges.
LEMMA Fields ==
  ASSUME NEW w \in Word32
  PROVE  /\ bits(w, 4, 0) \in 0 .. 31 /\ bits(w, 9, 5) \in 0 .. 31
         /\ bits(w, 20, 16) \in 0 .. 31 /\ bits(w, 14, 10) \in 0 .. 31
         /\ bits(w, 15, 10) \in 0 .. 63 /\ bits(w, 21, 16) \in 0 .. 63
         /\ bits(w, 31, 30) \in 0 .. 3 /\ bits(w, 30, 29) \in 0 .. 3
         /\ bits(w, 23, 22) \in 0 .. 3 /\ bits(w, 22, 21) \in 0 .. 3
         /\ bits(w, 24, 23) \in 0 .. 3 /\ bits(w, 11, 10) \in 0 .. 3
         /\ bits(w, 12, 10) \in 0 .. 7 /\ bits(w, 15, 13) \in 0 .. 7
         /\ bits(w, 15, 12) \in 0 .. 15 /\ bits(w, 14, 11) \in 0 .. 15
         /\ bits(w, 22, 22) \in 0 .. 1 /\ bits(w, 31, 31) \in 0 .. 1
         /\ bits(w, 23, 19) \in 0 .. 31
<1>1. bits(w, 4, 0) \in 0 .. Pow2[5] - 1 /\ bits(w, 9, 5) \in 0 .. Pow2[5] - 1
  BY FieldOfHalf, SMT
<1>2. bits(w, 20, 16) \in 0 .. Pow2[5] - 1 /\ bits(w, 14, 10) \in 0 .. Pow2[5] - 1
  BY FieldOfHalf, SMT
<1>3. bits(w, 23, 19) \in 0 .. Pow2[5] - 1 /\ bits(w, 15, 10) \in 0 .. Pow2[6] - 1
  BY FieldOfHalf, SMT
<1>4. bits(w, 21, 16) \in 0 .. Pow2[6] - 1 /\ bits(w, 31, 30) \in 0 .. Pow2[2] - 1
  BY FieldOfHalf, SMT
<1>5. bits(w, 30, 29) \in 0 .. Pow2[2] - 1 /\ bits(w, 23, 22) \in 0 .. Pow2[2] - 1
  BY FieldOfHalf, SMT
<1>6. bits(w, 22, 21) \in 0 .. Pow2[2] - 1 /\ bits(w, 24, 23) \in 0 .. Pow2[2] - 1
  BY FieldOfHalf, SMT
<1>7. bits(w, 11, 10) \in 0 .. Pow2[2] - 1 /\ bits(w, 12, 10) \in 0 .. Pow2[3] - 1
  BY FieldOfHalf, SMT
<1>8. bits(w, 15, 13) \in 0 .. Pow2[3] - 1 /\ bits(w, 15, 12) \in 0 .. Pow2[4] - 1
  BY FieldOfHalf, SMT
<1>9. bits(w, 14, 11) \in 0 .. Pow2[4] - 1 /\ bits(w, 22, 22) \in 0 .. Pow2[1] - 1
  BY FieldOfHalf, SMT
<1>10. bits(w, 31, 31) \in 0 .. Pow2[1] - 1
  BY FieldOfHalf, SMT
<1> QED
  BY <1>1, <1>2, <1>3, <1>4, <1>5, <1>6, <1>7, <1>8, <1>9, <1>10, Powers, SMT

\* The fields that lie across the halves.
LEMMA AcrossFields ==
  ASSUME NEW w \in Word32
  PROVE  /\ bits(w, 21, 10) \in Nat /\ bits(w, 21, 10) < 4096
         /\ bits(w, 20, 12) \in Nat /\ bits(w, 20, 12) < 512
         /\ bits(w, 23, 5) \in Nat /\ bits(w, 23, 5) < 524288 /\ bits(w, 18, 5) \in Nat /\ bits(w, 18, 5) < 16384
         /\ bits(w, 21, 15) \in 0 .. 127
<1>1. PICK h \in Half, l \in Half : w.hi = h /\ w.lo = l
  BY DEF Word32
<1>2. ASSUME NEW d \in {32, 1024, 4096, 32768} PROVE l \div d \in Nat /\ (l \div d) * d <= 65535
  BY Halves, SMT
<1>3. bits(w, 21, 10) \in Nat /\ bits(w, 21, 10) < 4096
  <2>1. bits(w, 21, 10) = (l \div 1024) + (h % 64) * 64
    BY <1>1, Powers, SMT DEF bits
  <2>2. PICK q \in Nat : q = l \div 1024 /\ q <= 63
    BY <1>2, SMT
  <2>3. PICK r \in 0 .. 63 : r = h % 64
    BY Halves, SMT
  <2> QED
    BY <2>1, <2>2, <2>3, Powers, SMT
<1>4. bits(w, 20, 12) \in Nat /\ bits(w, 20, 12) < 512
  <2>1. bits(w, 20, 12) = (l \div 4096) + (h % 32) * 16
    BY <1>1, Powers, SMT DEF bits
  <2>2. PICK q \in Nat : q = l \div 4096 /\ q <= 15
    BY <1>2, SMT
  <2>3. PICK r \in 0 .. 31 : r = h % 32
    BY Halves, SMT
  <2> QED
    BY <2>1, <2>2, <2>3, Powers, SMT
<1>5. bits(w, 23, 5) \in Nat /\ bits(w, 23, 5) < 524288
  <2>1. bits(w, 23, 5) = (l \div 32) + (h % 256) * 2048
    BY <1>1, Powers, SMT DEF bits
  <2>2. PICK q \in Nat : q = l \div 32 /\ q <= 2047
    BY <1>2, SMT
  <2>3. PICK r \in 0 .. 255 : r = h % 256
    BY Halves, SMT
  <2>4. q + r * 2048 \in Nat /\ q + r * 2048 < 524288
    BY <2>2, SMT
  <2> QED
    BY <2>1, <2>2, <2>3, <2>4, SMT
<1>6. bits(w, 18, 5) \in Nat /\ bits(w, 18, 5) < 16384
  <2>1. bits(w, 18, 5) = (l \div 32) + (h % 8) * 2048
    BY <1>1, Powers, SMT DEF bits
  <2>2. PICK q \in Nat : q = l \div 32 /\ q <= 2047
    BY <1>2, SMT
  <2>3. PICK r \in 0 .. 7 : r = h % 8
    BY Halves, SMT
  <2>4. q + r * 2048 \in Nat /\ q + r * 2048 < 16384
    BY <2>2, SMT
  <2> QED
    BY <2>1, <2>2, <2>3, <2>4, SMT
<1>7. bits(w, 21, 15) \in 0 .. 127
  <2>1. bits(w, 21, 15) = (l \div 32768) + (h % 64) * 2
    BY <1>1, Powers, SMT DEF bits
  <2>2. PICK q \in Nat : q = l \div 32768 /\ q <= 1
    BY <1>2, SMT
  <2>3. PICK r \in 0 .. 63 : r = h % 64
    BY Halves, SMT
  <2> QED
    BY <2>1, <2>2, <2>3, Powers, SMT
<1> QED
  BY <1>3, <1>4, <1>5, <1>6, <1>7, SMT

(***************************************************************************)
(* Which operands make a form in range.                                    *)
(***************************************************************************)
LEMMA FineRegImm ==
  ASSUME NEW w, NEW op, NEW rd, NEW rn, NEW imm, NEW width \in Width, NEW round, NEW is,
         imm \subseteq 0 .. width_bits(width) - 1, is => rd # SP,
         op \notin {"Add", "Sub"} => imm # {} /\ imm # 0 .. width_bits(width) - 1
  PROVE  Fine(Insn(w, op, [kind |-> "RegImm", rd |-> rd, rn |-> rn, imm |-> imm],
                   width, round, is))
  BY DEF Fine, Insn, InRange, DataRegisters

LEMMA FineRegShifted ==
  ASSUME NEW w, NEW op, NEW rd, NEW rn, NEW rm, NEW shift, NEW amount,
         NEW width \in Width, NEW round, NEW is,
         rd # SP, rn # SP, rm # SP, amount < width_bits(width),
         op \in {"Add", "Sub"} => shift # "Ror"
  PROVE  Fine(Insn(w, op, [kind |-> "RegShifted", rd |-> rd, rn |-> rn, rm |-> rm,
                           shift |-> shift, amount |-> amount], width, round, is))
  BY DEF Fine, Insn, InRange, DataRegisters

LEMMA FineRegExtended ==
  ASSUME NEW w, NEW op, NEW rd, NEW rn, NEW rm, NEW extend, NEW amount,
         NEW width \in Width, NEW round, NEW is,
         rm # SP, is => rd # SP, amount <= 4
  PROVE  Fine(Insn(w, op, [kind |-> "RegExtended", rd |-> rd, rn |-> rn, rm |-> rm,
                           extend |-> extend, amount |-> amount], width, round, is))
  BY DEF Fine, Insn, InRange, DataRegisters

LEMMA FineBitfield ==
  ASSUME NEW w, NEW op, NEW rd, NEW rn, NEW rm, NEW immr, NEW imms,
         NEW width \in Width, NEW round, NEW is,
         rd # SP, rn # SP, rm # SP, immr < width_bits(width), imms < width_bits(width)
  PROVE  Fine(Insn(w, op, [kind |-> "Bitfield", rd |-> rd, rn |-> rn, rm |-> rm,
                           immr |-> immr, imms |-> imms], width, round, is))
  BY DEF Fine, Insn, InRange, DataRegisters

LEMMA FineMoveWide ==
  ASSUME NEW w, NEW op, NEW rd, NEW imm16, NEW hw, NEW width \in Width, NEW round, NEW is,
         hw * 16 < width_bits(width)
  PROVE  Fine(Insn(w, op, [kind |-> "MoveWide", rd |-> rd, imm16 |-> imm16, hw |-> hw],
                   width, round, is))
  BY DEF Fine, Insn, InRange, DataRegisters

LEMMA FineCondSelect ==
  ASSUME NEW w, NEW op, NEW rd, NEW rn, NEW rm, NEW cond,
         NEW width \in Width, NEW round, NEW is, rd # SP, rn # SP, rm # SP
  PROVE  Fine(Insn(w, op, [kind |-> "CondSelect", rd |-> rd, rn |-> rn, rm |-> rm,
                           cond |-> cond], width, round, is))
  BY DEF Fine, Insn, InRange, DataRegisters

LEMMA FineThreeSource ==
  ASSUME NEW w, NEW op, NEW rd, NEW rn, NEW rm, NEW ra,
         NEW width \in Width, NEW round, NEW is, rd # SP, rn # SP, rm # SP, ra # SP
  PROVE  Fine(Insn(w, op, [kind |-> "ThreeSource", rd |-> rd, rn |-> rn, rm |-> rm,
                           ra |-> ra], width, round, is))
  BY DEF Fine, Insn, InRange, DataRegisters

LEMMA FineBranchReg ==
  ASSUME NEW w, NEW op, NEW rt, NEW offset, NEW tested,
         NEW width \in Width, NEW round, NEW is,
         tested < width_bits(width), offset % 4 = 0
  PROVE  Fine(Insn(w, op, [kind |-> "BranchReg", rt |-> rt, offset |-> offset,
                           tested |-> tested], width, round, is))
  BY DEF Fine, Insn, InRange, DataRegisters

\* The kinds of form whose operands InRange asks nothing of.
Unconstrained == {"None", "PcRelAddr", "Branch", "BranchCond", "BranchIndirect", "Imm", "System",
                  "CondCompare", "VecCondCompare", "VecCompare"}

LEMMA FineUnconstrained ==
  ASSUME NEW w, NEW op, NEW form, NEW width, NEW round, NEW is, form.kind \in Unconstrained
  PROVE  Fine(Insn(w, op, form, width, round, is))
  BY DEF Fine, Insn, InRange, DataRegisters, Unconstrained

LEMMA FinePrefetch ==
  ASSUME NEW w, NEW op, NEW prfop, NEW addr, NEW width, NEW round, NEW is,
         AddressInRange(addr, 8), ~ has_writeback(addr)
  PROVE  Fine(Insn(w, op, [kind |-> "Prefetch", prfop |-> prfop, addr |-> addr],
                   width, round, is))
  BY DEF Fine, Insn, InRange, DataRegisters

LEMMA FineLoadStore ==
  ASSUME NEW w, NEW op, NEW rt, NEW rt2, NEW rs, NEW addr, NEW size, NEW ordering,
         NEW width, NEW round, NEW is,
         rt # SP, SP \notin rt2, SP \notin rs,
         LoadStoreInRange([kind |-> "LoadStore", rt |-> rt, rt2 |-> rt2, rs |-> rs,
                           addr |-> addr, size |-> size, ordering |-> ordering], op, width)
  PROVE  Fine(Insn(w, op, [kind |-> "LoadStore", rt |-> rt, rt2 |-> rt2, rs |-> rs,
                           addr |-> addr, size |-> size, ordering |-> ordering],
                   width, round, is))
  BY DEF Fine, Insn, InRange, DataRegisters

LEMMA FineLoadStoreVec ==
  ASSUME NEW w, NEW op, NEW vt, NEW count, NEW addr, NEW ordering,
         NEW width, NEW round, NEW is,
         VecOperandInRange(vt, op), count \in 1 .. 4, AddressInRange(addr, Pow2[vt.elem])
  PROVE  Fine(Insn(w, op, [kind |-> "LoadStoreVec", vt |-> vt, count |-> count, addr |-> addr,
                           ordering |-> ordering], width, round, is))
  BY DEF Fine, Insn, InRange, DataRegisters

LEMMA FineVecData ==
  ASSUME NEW w, NEW op, NEW vd, NEW vn, NEW vm, NEW va, NEW width, NEW round, NEW is,
         VecOperandInRange(vd, op), VecOperandInRange(vn, op),
         \A v \in vm : VecOperandInRange(v, op)
  PROVE  Fine(Insn(w, op, [kind |-> "VecData", vd |-> vd, vn |-> vn, vm |-> vm, va |-> va],
                   width, round, is))
  BY DEF Fine, Insn, InRange, DataRegisters

LEMMA FineVecCond ==
  ASSUME NEW w, NEW op, NEW vd, NEW vn, NEW vm, NEW cond, NEW width, NEW round, NEW is,
         VecOperandInRange(vd, op), VecOperandInRange(vn, op),
         \A v \in vm : VecOperandInRange(v, op)
  PROVE  Fine(Insn(w, op, [kind |-> "VecCond", vd |-> vd, vn |-> vn, vm |-> vm, cond |-> cond],
                   width, round, is))
  BY DEF Fine, Insn, InRange, DataRegisters

LEMMA FineVecImm ==
  ASSUME NEW w, NEW op, NEW vd, NEW vn, NEW imm, NEW width, NEW round, NEW is,
         VecImmInRange([kind |-> "VecImm", vd |-> vd, vn |-> vn, imm |-> imm], op)
  PROVE  Fine(Insn(w, op, [kind |-> "VecImm", vd |-> vd, vn |-> vn, imm |-> imm],
                   width, round, is))
  BY DEF Fine, Insn, InRange, DataRegisters

LEMMA FineVecGprMove ==
  ASSUME NEW w, NEW op, NEW gpr, NEW vec, NEW width, NEW round, NEW is,
         gpr # SP, VecOperandInRange(vec, op)
  PROVE  Fine(Insn(w, op, [kind |-> "VecGprMove", gpr |-> gpr, vec |-> vec], width, round, is))
  BY DEF Fine, Insn, InRange, DataRegisters

LEMMA FineTableLookup ==
  ASSUME NEW w, NEW op, NEW vd, NEW table, NEW table_len, NEW vm, NEW width, NEW round, NEW is,
         table_len \in 1 .. 4, VecOperandInRange(vd, op)
  PROVE  Fine(Insn(w, op, [kind |-> "TableLookup", vd |-> vd, table |-> table,
                           table_len |-> table_len, vm |-> vm], width, round, is))
  BY DEF Fine, Insn, InRange, DataRegisters

(***************************************************************************)
(* Data processing (immediate).                                            *)
(***************************************************************************)
LEMMA ImmediateBits == \A w, hi, lo : Immediate!bits(w, hi, lo) = bits(w, hi, lo)
  BY DEF Immediate!bits, bits, Immediate!Pow2, Pow2

LEMMA ImmediateBuilds ==
  ASSUME NEW w, NEW op, NEW form, NEW width, NEW is
  PROVE  /\ Immediate!new(w, op, form) = Insn(w, op, form, "X64", "Current", FALSE)
         /\ Immediate!with_width(Immediate!new(w, op, form), width)
                = Insn(w, op, form, width, "Current", FALSE)
         /\ Immediate!setting_flags(Immediate!with_width(Immediate!new(w, op, form), width), is)
                = Insn(w, op, form, width, "Current", is)
<1>1. PICK i : i = Immediate!new(w, op, form)
  OBVIOUS
<1>2. i = Insn(w, op, form, "X64", "Current", FALSE)
  BY <1>1 DEF Immediate!new, Insn
<1>3. PICK j : j = Immediate!with_width(i, width)
  OBVIOUS
<1>4. j = Insn(w, op, form, width, "Current", FALSE)
  BY <1>2, <1>3 DEF Immediate!with_width, Insn
<1>5. Immediate!setting_flags(j, is) = Insn(w, op, form, width, "Current", is)
  BY <1>4 DEF Immediate!setting_flags, Insn
<1> QED
  BY <1>1, <1>2, <1>3, <1>4, <1>5

LEMMA ImmediateFaults == \A w : Fine(Immediate!unallocated(w))
  BY DEF Immediate!unallocated, Immediate!new, Fine, is_unallocated

LEMMA ImmediateRegisters ==
  ASSUME NEW w \in Word32
  PROVE  /\ Immediate!Rd_zr(w) # SP /\ Immediate!Rn_zr(w) # SP /\ Immediate!Rm_zr(w) # SP
         /\ \A b \in BOOLEAN : Immediate!from_sf(b) \in Width
  BY Fields, ImmediateBits
     DEF Immediate!Rd_zr, Immediate!Rn_zr, Immediate!Rm_zr, Immediate!from_index_zr,
         Immediate!Rd, Immediate!Rn, Immediate!Rm, Immediate!ZR, SP, Immediate!from_sf, Width

LEMMA ImmediatePowers == Immediate!Pow2 = Pow2
  BY SMT DEF Immediate!Pow2, Pow2

\* ADR and ADRP, and the move, bitfield and extract decoders.
LEMMA FinePcRelative == ASSUME NEW w \in Word32 PROVE Fine(Immediate!pc_relative(w))
<1>1. PICK op, form : Immediate!pc_relative(w) = Immediate!new(w, op, form) /\ form.kind = "PcRelAddr"
  BY DEF Immediate!pc_relative
<1>2. Immediate!pc_relative(w) = Insn(w, op, form, "X64", "Current", FALSE)
  BY <1>1, ImmediateBuilds
<1>3. form.kind \in Unconstrained
  BY <1>1 DEF Unconstrained
<1> QED
  BY <1>2, <1>3, FineUnconstrained

LEMMA FineMoveWideDecoder == ASSUME NEW w \in Word32 PROVE Fine(Immediate!move_wide(w))
<1>1. PICK hw \in 0 .. 3 : hw = Immediate!bits(w, 22, 21)
  BY Fields, ImmediateBits
<1>2. PICK width \in Width : width = Immediate!from_sf(Immediate!bit(w, 31))
  BY DEF Immediate!from_sf, Width
<1>3. CASE (width = "W32" /\ hw >= 2) \/ Immediate!bits(w, 30, 29) = 1
  BY <1>1, <1>2, <1>3, ImmediateFaults DEF Immediate!move_wide
<1>4. CASE ~ ((width = "W32" /\ hw >= 2) \/ Immediate!bits(w, 30, 29) = 1)
  <2>1. hw * 16 < width_bits(width)
    BY <1>4 DEF width_bits, Width
  <2>2. PICK op, rd, imm16 : Immediate!move_wide(w) = Immediate!with_width(Immediate!new(w, op,
            [kind |-> "MoveWide", rd |-> rd, imm16 |-> imm16, hw |-> hw]), width)
    BY <1>1, <1>2, <1>4 DEF Immediate!move_wide
  <2>3. Immediate!move_wide(w) = Insn(w, op,
            [kind |-> "MoveWide", rd |-> rd, imm16 |-> imm16, hw |-> hw], width, "Current", FALSE)
    BY <2>2, ImmediateBuilds
  <2> QED
    BY <2>1, <2>3, FineMoveWide
<1> QED
  BY <1>3, <1>4

LEMMA FineBitfieldDecoder == ASSUME NEW w \in Word32 PROVE Fine(Immediate!bitfield(w))
<1>1. PICK immr \in 0 .. 63, imms \in 0 .. 63 :
         immr = Immediate!bits(w, 21, 16) /\ imms = Immediate!bits(w, 15, 10)
  BY Fields, ImmediateBits
<1>2. PICK width \in Width : width = Immediate!from_sf(Immediate!bit(w, 31))
  BY DEF Immediate!from_sf, Width
<1>3. PICK rd, rn : rd = Immediate!Rd_zr(w) /\ rn = Immediate!Rn_zr(w) /\ rd # SP /\ rn # SP
  BY ImmediateRegisters
<1>4. CASE Immediate!bitfield(w) = Immediate!unallocated(w)
  BY <1>4, ImmediateFaults
<1>5. CASE Immediate!bitfield(w) # Immediate!unallocated(w)
  <2>1. immr < width_bits(width) /\ imms < width_bits(width)
    BY <1>1, <1>2, <1>5 DEF Immediate!bitfield, width_bits, Width
  <2>2. PICK op : Immediate!bitfield(w) = Immediate!with_width(Immediate!new(w, op,
            [kind |-> "Bitfield", rd |-> rd, rn |-> rn, rm |-> rn, immr |-> immr, imms |-> imms]), width)
    BY <1>1, <1>2, <1>3, <1>5 DEF Immediate!bitfield, Immediate!Bitfield
  <2>3. Immediate!bitfield(w) = Insn(w, op,
            [kind |-> "Bitfield", rd |-> rd, rn |-> rn, rm |-> rn, immr |-> immr, imms |-> imms],
            width, "Current", FALSE)
    BY <2>2, ImmediateBuilds
  <2> QED
    BY <2>1, <2>3, <1>3, FineBitfield
<1> QED
  BY <1>4, <1>5

LEMMA FineExtractDecoder == ASSUME NEW w \in Word32 PROVE Fine(Immediate!extract(w))
<1>1. PICK imms \in 0 .. 63 : imms = Immediate!bits(w, 15, 10)
  BY Fields, ImmediateBits
<1>2. PICK width \in Width : width = Immediate!from_sf(Immediate!bit(w, 31))
  BY DEF Immediate!from_sf, Width
<1>3. PICK rd, rn, rm : /\ rd = Immediate!Rd_zr(w) /\ rn = Immediate!Rn_zr(w)
                        /\ rm = Immediate!Rm_zr(w) /\ rd # SP /\ rn # SP /\ rm # SP
  BY ImmediateRegisters
<1>4. CASE Immediate!extract(w) = Immediate!unallocated(w)
  BY <1>4, ImmediateFaults
<1>5. CASE Immediate!extract(w) # Immediate!unallocated(w)
  <2>1. 0 < width_bits(width) /\ imms < width_bits(width)
    BY <1>1, <1>2, <1>5 DEF Immediate!extract, width_bits, Width
  <2>2. Immediate!extract(w) = Immediate!with_width(Immediate!new(w, "Extr",
            [kind |-> "Bitfield", rd |-> rd, rn |-> rn, rm |-> rm, immr |-> 0, imms |-> imms]), width)
    BY <1>1, <1>2, <1>3, <1>5 DEF Immediate!extract, Immediate!Bitfield
  <2>3. Immediate!extract(w) = Insn(w, "Extr",
            [kind |-> "Bitfield", rd |-> rd, rn |-> rn, rm |-> rm, immr |-> 0, imms |-> imms],
            width, "Current", FALSE)
    BY <2>2, ImmediateBuilds
  <2> QED
    BY <2>1, <2>3, <1>3, FineBitfield
<1> QED
  BY <1>4, <1>5

\* ADD and SUB (immediate): twelve bits, shifted by twelve at most.
LEMMA FineAddSubImmediate == ASSUME NEW w \in Word32 PROVE Fine(Immediate!add_sub_immediate(w))
<1>1. PICK n \in Nat : n = Immediate!bits(w, 21, 10) /\ n < 4096
  BY AcrossFields, ImmediateBits
<1>2. PICK k \in {0, 12} : k = IF Immediate!bits(w, 23, 22) % 2 = 0 THEN 0 ELSE 12
  OBVIOUS
<1>3. PICK imm : imm = Immediate!ShlBits(Immediate!OneBits(n), k)
  OBVIOUS
<1>4. imm \subseteq 0 .. 31
  <2>1. Immediate!OneBits(n) = OneBits(n) /\ OneBits(n) \subseteq 0 .. 11
    <3>1. Immediate!OneBits(n) = OneBits(n)
      BY ImmediatePowers DEF Immediate!OneBits, OneBits
    <3>2. PICK m \in 0 .. 26 : m = 12 /\ n < Pow2[m]
      BY <1>1, Powers, SMT
    <3>3. OneBits(n) \subseteq 0 .. m - 1
      BY <3>2, OneBitsBelow
    <3> QED
      BY <3>1, <3>2, <3>3
  <2>2. imm = ShlBits(OneBits(n), k)
    BY <2>1, <1>3 DEF Immediate!ShlBits, ShlBits
  <2> QED
    BY <2>1, <2>2, ShiftedBits, SMTT(30)
<1>5. PICK flags \in BOOLEAN : flags = (Immediate!bits(w, 29, 29) = 1)
  OBVIOUS
<1>6. PICK rd, rn : /\ rd = Immediate!destination(w, flags) /\ rn = Immediate!Rn_sp(w)
                    /\ flags => rd # SP
  BY ImmediateRegisters DEF Immediate!destination
<1>7. PICK width \in Width : width = Immediate!from_sf(Immediate!bit(w, 31))
  BY DEF Immediate!from_sf, Width
<1>8. PICK op \in {"Add", "Sub"} : op = IF Immediate!bit(w, 30) THEN "Sub" ELSE "Add"
  OBVIOUS
<1>9. CASE Immediate!add_sub_immediate(w) = Immediate!unallocated(w)
  BY <1>9, ImmediateFaults
<1>10. CASE Immediate!add_sub_immediate(w) # Immediate!unallocated(w)
  <2>1. Immediate!add_sub_immediate(w) = Immediate!setting_flags(Immediate!with_width(
            Immediate!new(w, op, [kind |-> "RegImm", rd |-> rd, rn |-> rn, imm |-> imm]),
            width), flags)
    BY <1>1, <1>2, <1>3, <1>5, <1>6, <1>7, <1>8, <1>10
       DEF Immediate!add_sub_immediate, Immediate!RegImm, Immediate!bit
  <2>2. Immediate!add_sub_immediate(w)
            = Insn(w, op, [kind |-> "RegImm", rd |-> rd, rn |-> rn, imm |-> imm],
                   width, "Current", flags)
    BY <2>1, ImmediateBuilds
  <2>3. imm \subseteq 0 .. width_bits(width) - 1
    BY <1>4 DEF width_bits, Width
  <2> QED
    BY <2>2, <2>3, <1>6, <1>8, FineRegImm
<1> QED
  BY <1>9, <1>10

\* A number of at most seven bits, not zero, has a highest bit.
LEMMA HighestBit ==
  ASSUME NEW n \in 1 .. 127
  PROVE  /\ Immediate!highest_bit(n) \in 0 .. 6
         /\ Pow2[Immediate!highest_bit(n)] <= n /\ n < Pow2[Immediate!highest_bit(n) + 1]
<1>1. \E i \in 0 .. 6 : Pow2[i] <= n /\ n < Pow2[i + 1]
  BY Powers, SMT
<1> QED
  BY <1>1, ImmediatePowers DEF Immediate!highest_bit

\* A run of s + 1 ones, rotated within an element it does not fill, is neither
\* empty nor full.
LEMMA RotatedOnes ==
  ASSUME NEW e \in 1 .. 64, NEW s \in Nat, NEW r \in Nat, s < e - 1, r < e
  PROVE  \E x \in 0 .. e - 1, y \in 0 .. e - 1 :
             x \in Immediate!rotated_ones(s, r, e) /\ y \notin Immediate!rotated_ones(s, r, e)
<1>1. CASE r = 0
  <2>1. 0 \in Immediate!rotated_ones(s, r, e) /\ e - 1 \notin Immediate!rotated_ones(s, r, e)
    BY <1>1 DEF Immediate!rotated_ones
  <2> QED
    BY <2>1
<1>2. CASE r # 0
  <2>1. e - r \in 0 .. e - 1 /\ e - 1 - r \in 0 .. e - 1
    BY <1>2
  <2>2. e - r \in Immediate!rotated_ones(s, r, e)
    <3>1. e - r \in Immediate!ShlBits(0 .. s, e - r)
      BY <2>1 DEF Immediate!ShlBits
    <3> QED
      BY <1>2, <2>1, <3>1 DEF Immediate!rotated_ones, Immediate!mask_of
  <2>3. e - 1 - r \notin Immediate!rotated_ones(s, r, e)
    BY <1>2, <2>1 DEF Immediate!rotated_ones, Immediate!ShlBits, Immediate!ShrBits
  <2> QED
    BY <2>1, <2>2, <2>3
<1> QED
  BY <1>1, <1>2

\* A logical immediate is neither all zeros nor all ones, and fits its width.
LEMMA BitMasks ==
  ASSUME NEW n \in 0 .. 1, NEW immr \in 0 .. 63, NEW imms \in 0 .. 63, NEW width \in Width,
         NEW m \in Immediate!decode_bit_masks(n, immr, imms, width)
  PROVE  /\ m \subseteq 0 .. width_bits(width) - 1
         /\ m # {} /\ m # 0 .. width_bits(width) - 1
<1> DEFINE combined == 64 * n + (63 - imms)
           len      == Immediate!highest_bit(combined)
           e        == Immediate!Pow2[len]
           s        == imms % e
           r        == immr % e
           bad      == combined = 0 \/ (width = "W32" /\ len = 6) \/ s = e - 1
<1>1. /\ ~ bad
      /\ m = Immediate!replicate(Immediate!rotated_ones(s, r, e), e, width)
  BY DEF Immediate!decode_bit_masks, Immediate!None, Immediate!Some
<1>2. len \in 0 .. 6 /\ e = Pow2[len]
  <2>1. combined \in 1 .. 127
    BY <1>1
  <2> QED
    BY <2>1, HighestBit, ImmediatePowers
<1>3. e \in 1 .. 64 /\ e <= width_bits(width)
  <2> HIDE DEF len, combined, s, r
  <2>1. len = 6 => width = "X64"
    BY <1>1 DEF Width
  <2>2. e \in 1 .. 64 /\ (len # 6 => e <= 32)
    BY <1>2, Powers, SMT
  <2> QED
    BY <2>1, <2>2 DEF width_bits, Width
<1>4. s \in Nat /\ r \in Nat /\ s < e - 1 /\ r < e
  <2> HIDE DEF len, combined, e
  <2>1. imms % e \in 0 .. e - 1 /\ immr % e \in 0 .. e - 1
    BY <1>3
  <2> QED
    BY <2>1, <1>1, <1>3
<1> HIDE DEF combined, len, e, s, r, bad
<1>5. PICK x \in 0 .. e - 1, y \in 0 .. e - 1 :
          x \in Immediate!rotated_ones(s, r, e) /\ y \notin Immediate!rotated_ones(s, r, e)
  BY <1>3, <1>4, RotatedOnes
<1>6. Immediate!width_bits(width) = width_bits(width) /\ width_bits(width) \in Nat
  BY DEF Immediate!width_bits, width_bits
<1>7. x % e = x /\ y % e = y
  BY <1>3
<1>8. x \in m /\ y \notin m /\ y \in 0 .. width_bits(width) - 1
  BY <1>1, <1>3, <1>5, <1>6, <1>7 DEF Immediate!replicate
<1>9. m \subseteq 0 .. width_bits(width) - 1
  BY <1>1, <1>6 DEF Immediate!replicate
<1> QED
  BY <1>8, <1>9

LEMMA FineLogicalImmediate == ASSUME NEW w \in Word32 PROVE Fine(Immediate!logical_immediate(w))
<1>1. PICK n \in 0 .. 1, immr \in 0 .. 63, imms \in 0 .. 63, opc \in 0 .. 3 :
         /\ n = Immediate!bits(w, 22, 22) /\ immr = Immediate!bits(w, 21, 16)
         /\ imms = Immediate!bits(w, 15, 10) /\ opc = Immediate!bits(w, 30, 29)
  BY Fields, ImmediateBits
<1>2. PICK width \in Width : width = Immediate!from_sf(Immediate!bit(w, 31))
  BY DEF Immediate!from_sf, Width
<1>3. PICK masks : masks = Immediate!decode_bit_masks(n, immr, imms, width)
  OBVIOUS
<1>4. CASE Immediate!logical_immediate(w) = Immediate!unallocated(w)
  BY <1>4, ImmediateFaults
<1>5. CASE Immediate!logical_immediate(w) # Immediate!unallocated(w)
  <2>1. PICK imm : imm \in masks /\ imm = CHOOSE m \in masks : TRUE
    BY <1>1, <1>2, <1>3, <1>5 DEF Immediate!logical_immediate, Immediate!None
  <2>2. PICK flags \in BOOLEAN : flags = (opc = 3)
    OBVIOUS
  <2>3. PICK rd, rn : /\ rd = Immediate!destination(w, flags) /\ rn = Immediate!Rn_zr(w)
                      /\ flags => rd # SP
    BY ImmediateRegisters DEF Immediate!destination
  <2>4. PICK op : op = Immediate!logical_op[opc + 1]
    OBVIOUS
  <2>5. Immediate!logical_immediate(w) = Immediate!setting_flags(Immediate!with_width(
            Immediate!new(w, op, [kind |-> "RegImm", rd |-> rd, rn |-> rn, imm |-> imm]),
            width), flags)
    BY <1>1, <1>2, <1>3, <1>5, <2>1, <2>2, <2>3, <2>4
       DEF Immediate!logical_immediate, Immediate!RegImm
  <2>6. Immediate!logical_immediate(w)
            = Insn(w, op, [kind |-> "RegImm", rd |-> rd, rn |-> rn, imm |-> imm],
                   width, "Current", flags)
    BY <2>5, ImmediateBuilds
  <2>7. /\ imm \subseteq 0 .. width_bits(width) - 1
        /\ imm # {} /\ imm # 0 .. width_bits(width) - 1
    <3>1. imm \in Immediate!decode_bit_masks(n, immr, imms, width)
      BY <2>1, <1>3
    <3> QED
      BY <3>1, BitMasks, Zenon
  <2> QED
    BY <2>3, <2>6, <2>7, FineRegImm
<1> QED
  BY <1>4, <1>5

LEMMA FineImmediate == ASSUME NEW w \in Word32 PROVE Fine(Immediate!data_processing_immediate(w))
  BY FinePcRelative, FineAddSubImmediate, FineLogicalImmediate, FineMoveWideDecoder,
     FineBitfieldDecoder, FineExtractDecoder, ImmediateFaults
     DEF Immediate!data_processing_immediate

(***************************************************************************)
(* Data processing (register).                                             *)
(***************************************************************************)
LEMMA RegisterBits == \A w, hi, lo : Register!bits(w, hi, lo) = bits(w, hi, lo)
  BY DEF Register!bits, bits, Register!Pow2, Pow2

LEMMA RegisterBuilds ==
  ASSUME NEW w, NEW op, NEW form, NEW width, NEW is
  PROVE  /\ Register!new(w, op, form) = Insn(w, op, form, "X64", "Current", FALSE)
         /\ Register!with_width(Register!new(w, op, form), width)
                = Insn(w, op, form, width, "Current", FALSE)
         /\ Register!setting_flags(Register!with_width(Register!new(w, op, form), width), is)
                = Insn(w, op, form, width, "Current", is)
<1>1. PICK i : i = Register!new(w, op, form)
  OBVIOUS
<1>2. i = Insn(w, op, form, "X64", "Current", FALSE)
  BY <1>1 DEF Register!new, Insn
<1>3. PICK j : j = Register!with_width(i, width)
  OBVIOUS
<1>4. j = Insn(w, op, form, width, "Current", FALSE)
  BY <1>2, <1>3 DEF Register!with_width, Insn
<1>5. Register!setting_flags(j, is) = Insn(w, op, form, width, "Current", is)
  BY <1>4 DEF Register!setting_flags, Insn
<1> QED
  BY <1>1, <1>2, <1>3, <1>4, <1>5

LEMMA RegisterFaults == \A w : Fine(Register!unallocated(w))
  BY DEF Register!unallocated, Register!new, Fine, is_unallocated

LEMMA RegisterRegisters ==
  ASSUME NEW w \in Word32
  PROVE  Register!Rd_zr(w) # SP /\ Register!Rn_zr(w) # SP /\ Register!Rm_zr(w) # SP
  BY Fields, RegisterBits
     DEF Register!Rd_zr, Register!Rn_zr, Register!Rm_zr, Register!from_index_zr, Register!Rd, Register!Rn, Register!Rm, Register!ZR, SP

LEMMA RegisterWidth == \A w : Register!width_of(w) \in Width
  BY DEF Register!width_of, Register!from_sf, Width

\* Bit 15 is the top bit of a six-bit amount.
LEMMA AmountFits ==
  ASSUME NEW w \in Word32, ~ Register!amount_too_wide(w)
  PROVE  bits(w, 15, 10) < width_bits(Register!width_of(w))
<1>1. PICK l \in Half : w.lo = l
  BY DEF Word32
<1>2. bits(w, 15, 10) = (l \div 1024) % 64 /\ bits(w, 15, 15) = (l \div 32768) % 2
  BY <1>1, Powers, SMT DEF bits
<1>3. bits(w, 15, 10) \in 0 .. 63
  BY Fields
<1>4. CASE Register!bit(w, 31)
  BY <1>3, <1>4 DEF Register!width_of, Register!from_sf, width_bits
<1>5. CASE ~ Register!bit(w, 31)
  <2>1. (l \div 32768) % 2 # 1
    BY <1>2, <1>5, RegisterBits DEF Register!amount_too_wide, Register!bit
  <2>2. (l \div 1024) % 64 < 32
    BY <2>1, Halves, SMT
  <2> QED
    BY <1>2, <1>5, <2>2 DEF Register!width_of, Register!from_sf, width_bits
<1> QED
  BY <1>4, <1>5

\* Three data registers, the last one shifted.
LEMMA FineShifted ==
  ASSUME NEW w \in Word32, NEW op, NEW shift, NEW amount, NEW is \in BOOLEAN,
         amount < width_bits(Register!width_of(w)), op \in {"Add", "Sub"} => shift # "Ror"
  PROVE  /\ Fine(Register!with_width(
                Register!new(w, op, Register!shifted(w, shift, amount)), Register!width_of(w)))
         /\ Fine(Register!setting_flags(Register!with_width(
                Register!new(w, op, Register!shifted(w, shift, amount)), Register!width_of(w)), is))
<1>1. PICK rd, rn, rm : /\ rd = Register!Rd_zr(w) /\ rn = Register!Rn_zr(w)
                        /\ rm = Register!Rm_zr(w) /\ rd # SP /\ rn # SP /\ rm # SP
  BY RegisterRegisters
<1>2. PICK width \in Width : width = Register!width_of(w)
  BY RegisterWidth
<1>3. Register!shifted(w, shift, amount)
          = [kind |-> "RegShifted", rd |-> rd, rn |-> rn, rm |-> rm, shift |-> shift, amount |-> amount]
  BY <1>1 DEF Register!shifted, Register!RegShifted
<1>4. /\ Register!with_width(Register!new(w, op, Register!shifted(w, shift, amount)), width)
             = Insn(w, op, Register!shifted(w, shift, amount), width, "Current", FALSE)
      /\ Register!setting_flags(Register!with_width(
             Register!new(w, op, Register!shifted(w, shift, amount)), width), is)
             = Insn(w, op, Register!shifted(w, shift, amount), width, "Current", is)
  BY RegisterBuilds
<1>5. amount < width_bits(width)
  BY <1>2
<1>6. ASSUME NEW b \in BOOLEAN
      PROVE  Fine(Insn(w, op, Register!shifted(w, shift, amount), width, "Current", b))
  BY <1>1, <1>3, <1>5, FineRegShifted
<1> QED
  BY <1>2, <1>4, <1>6

LEMMA FineLogicalShifted == ASSUME NEW w \in Word32 PROVE Fine(Register!logical_shifted(w))
<1>1. CASE Register!amount_too_wide(w)
  BY <1>1, RegisterFaults DEF Register!logical_shifted
<1>2. CASE ~ Register!amount_too_wide(w)
  <2>1. PICK opc \in 0 .. 3, amount \in 0 .. 63 : opc = Register!bits(w, 30, 29) /\ amount = Register!bits(w, 15, 10)
    BY Fields, RegisterBits
  <2>2. amount < width_bits(Register!width_of(w))
    BY <1>2, <2>1, AmountFits, RegisterBits
  <2>3. PICK is \in BOOLEAN : is = (opc = 3)
    OBVIOUS
  <2>4. PICK op, shift : /\ op \notin {"Add", "Sub"}
            /\ Register!logical_shifted(w) = Register!setting_flags(Register!with_width(
                   Register!new(w, op, Register!shifted(w, shift, amount)), Register!width_of(w)), is)
    <3> DEFINE ops == IF Register!bit(w, 21) THEN <<"Bic", "Orn", "Eon", "Bic">>
                      ELSE <<"And", "Orr", "Eor", "And">>
               op  == ops[opc + 1]
    <3>1. op \notin {"Add", "Sub"}
      BY <2>1
    <3>2. Register!logical_shifted(w) = Register!setting_flags(Register!with_width(
              Register!new(w, op, Register!shifted(w, Register!shift_kind(Register!bits(w, 23, 22)),
                                                   amount)), Register!width_of(w)), is)
      BY <1>2, <2>1, <2>3 DEF Register!logical_shifted
    <3> HIDE DEF op
    <3> QED
      BY <3>1, <3>2
  <2> QED
    BY <2>2, <2>4, FineShifted
<1> QED
  BY <1>1, <1>2

LEMMA FineAddSubShifted == ASSUME NEW w \in Word32 PROVE Fine(Register!add_sub_shifted(w))
<1>1. CASE Register!bits(w, 23, 22) = 3 \/ Register!amount_too_wide(w)
  BY <1>1, RegisterFaults DEF Register!add_sub_shifted
<1>2. CASE ~ (Register!bits(w, 23, 22) = 3 \/ Register!amount_too_wide(w))
  <2>1. PICK amount : amount = Register!bits(w, 15, 10)
    OBVIOUS
  <2>2. amount < width_bits(Register!width_of(w))
    BY <1>2, <2>1, AmountFits, RegisterBits
  <2>3. PICK is \in BOOLEAN : is = (Register!bits(w, 29, 29) = 1)
    OBVIOUS
  <2>4. PICK shift : shift = Register!shift_kind(Register!bits(w, 23, 22)) /\ shift # "Ror"
    BY <1>2, Fields, RegisterBits DEF Register!shift_kind, Register!Shift
  <2>5. PICK op : op = IF Register!bit(w, 30) THEN "Sub" ELSE "Add"
    OBVIOUS
  <2>6. Register!add_sub_shifted(w) = Register!setting_flags(Register!with_width(
            Register!new(w, op, Register!shifted(w, shift, amount)), Register!width_of(w)), is)
    BY <1>2, <2>1, <2>3, <2>4, <2>5
       DEF Register!add_sub_shifted, Register!finish_arithmetic, Register!sets_bit, Register!bit
  <2> QED
    BY <2>2, <2>4, <2>6, FineShifted
<1> QED
  BY <1>1, <1>2

LEMMA FineAddSubExtended == ASSUME NEW w \in Word32 PROVE Fine(Register!add_sub_extended(w))
<1>1. PICK amount \in 0 .. 7 : amount = Register!bits(w, 12, 10)
  BY Fields, RegisterBits
<1>2. CASE Register!bits(w, 23, 22) # 0 \/ amount > 4
  BY <1>1, <1>2, RegisterFaults DEF Register!add_sub_extended
<1>3. CASE ~ (Register!bits(w, 23, 22) # 0 \/ amount > 4)
  <2>1. PICK is \in BOOLEAN : is = (Register!bits(w, 29, 29) = 1)
    OBVIOUS
  <2>2. PICK rd, rn, rm : /\ rd = IF is THEN Register!Rd_zr(w) ELSE Register!from_index_sp(Register!Rd(w))
                          /\ rn = Register!Rn_sp(w) /\ rm = Register!Rm_zr(w)
                          /\ rm # SP /\ (is => rd # SP)
    BY RegisterRegisters
  <2>3. PICK op, extend : /\ op = IF Register!bit(w, 30) THEN "Sub" ELSE "Add"
                          /\ extend = Register!from_option(Register!bits(w, 15, 13))
    OBVIOUS
  <2>4. PICK width \in Width : width = Register!width_of(w)
    BY RegisterWidth
  <2>5. Register!add_sub_extended(w) = Register!setting_flags(Register!with_width(
            Register!new(w, op, [kind |-> "RegExtended", rd |-> rd, rn |-> rn, rm |-> rm,
                                 extend |-> extend, amount |-> amount]), width), is)
    BY <1>1, <1>3, <2>1, <2>2, <2>3, <2>4
       DEF Register!add_sub_extended, Register!finish_arithmetic, Register!sets_bit, Register!bit
  <2>6. Register!add_sub_extended(w)
            = Insn(w, op, [kind |-> "RegExtended", rd |-> rd, rn |-> rn, rm |-> rm,
                           extend |-> extend, amount |-> amount], width, "Current", is)
    BY <2>5, RegisterBuilds
  <2> QED
    BY <1>3, <2>2, <2>6, FineRegExtended
<1> QED
  BY <1>2, <1>3

\* A width is never empty, so an amount of zero fits.
LEMMA ZeroFits == \A w : 0 < width_bits(Register!width_of(w))
  BY DEF width_bits

LEMMA FineAddSubWithCarry == ASSUME NEW w \in Word32 PROVE Fine(Register!add_sub_with_carry(w))
<1>1. CASE Register!bits(w, 15, 10) # 0
  BY <1>1, RegisterFaults DEF Register!add_sub_with_carry
<1>2. CASE Register!bits(w, 15, 10) = 0
  <2>1. PICK is \in BOOLEAN : is = (Register!bits(w, 29, 29) = 1)
    OBVIOUS
  <2>2. PICK op : op = (IF Register!bit(w, 30) THEN "Sbc" ELSE "Adc") /\ op \notin {"Add", "Sub"}
    OBVIOUS
  <2>3. Register!add_sub_with_carry(w) = Register!setting_flags(Register!with_width(
            Register!new(w, op, Register!shifted(w, "Lsl", 0)), Register!width_of(w)), is)
    BY <1>2, <2>1, <2>2 DEF Register!add_sub_with_carry, Register!sets_bit, Register!bit
  <2> QED
    BY <2>2, <2>3, FineShifted, ZeroFits
<1> QED
  BY <1>1, <1>2

\* CondSelect, which CCMP and CCMN of a register borrow.
LEMMA FineSelect ==
  ASSUME NEW w \in Word32, NEW op, NEW rd, NEW cond, rd # SP
  PROVE  LET form == Register!CondSelect(rd, Register!Rn_zr(w), Register!Rm_zr(w), cond)
             i    == Register!with_width(Register!new(w, op, form), Register!width_of(w))
         IN  Fine(i) /\ Fine(Register!setting_flags(i, TRUE))
<1>1. PICK rn, rm : rn = Register!Rn_zr(w) /\ rm = Register!Rm_zr(w) /\ rn # SP /\ rm # SP
  BY RegisterRegisters
<1>2. PICK width \in Width : width = Register!width_of(w)
  BY RegisterWidth
<1> DEFINE form == Register!CondSelect(rd, rn, rm, cond)
<1>3. form = [kind |-> "CondSelect", rd |-> rd, rn |-> rn, rm |-> rm, cond |-> cond]
  BY DEF Register!CondSelect
<1>4. \A b : Fine(Insn(w, op, form, width, "Current", b))
  BY <1>1, <1>3, FineCondSelect
<1> HIDE DEF form
<1>5. /\ Register!with_width(Register!new(w, op, form), width)
             = Insn(w, op, form, width, "Current", FALSE)
      /\ Register!setting_flags(Register!with_width(Register!new(w, op, form), width), TRUE)
             = Insn(w, op, form, width, "Current", TRUE)
  BY RegisterBuilds, ZenonT(60)
<1> QED
  BY <1>1, <1>2, <1>4, <1>5 DEF form

LEMMA FineConditionalCompare == ASSUME NEW w \in Word32 PROVE Fine(Register!conditional_compare(w))
<1>1. CASE ~ Register!sets_bit(w) \/ Register!bit(w, 10) \/ Register!bit(w, 4)
  BY <1>1, RegisterFaults DEF Register!conditional_compare
<1>2. CASE ~ (~ Register!sets_bit(w) \/ Register!bit(w, 10) \/ Register!bit(w, 4))
  <2>1. PICK op, cond : /\ op = IF Register!bit(w, 30) THEN "Ccmp" ELSE "Ccmn"
                        /\ cond = Register!from_bits(Register!bits(w, 15, 12))
    OBVIOUS
  <2>2. CASE Register!bit(w, 11)
    <3> DEFINE form == [kind |-> "CondCompare", rn |-> Register!Rn_zr(w),
                        imm |-> Register!OneBits(Register!Rm(w)),
                        nzcv |-> Register!bits(w, 3, 0), cond |-> cond]
    <3>1. Register!conditional_compare(w) = Register!setting_flags(Register!with_width(
              Register!new(w, op, form), Register!width_of(w)), TRUE)
      BY <1>2, <2>1, <2>2 DEF Register!conditional_compare
    <3>3. form.kind \in Unconstrained
      BY DEF Unconstrained
    <3> HIDE DEF form
    <3>2. Register!setting_flags(Register!with_width(
              Register!new(w, op, form), Register!width_of(w)), TRUE)
              = Insn(w, op, form, Register!width_of(w), "Current", TRUE)
      BY RegisterBuilds, ZenonT(60)
    <3> QED
      BY <3>1, <3>2, <3>3, FineUnconstrained
  <2>3. CASE ~ Register!bit(w, 11)
    <3>1. Register!conditional_compare(w) = Register!setting_flags(Register!with_width(
              Register!new(w, op, Register!CondSelect(Register!ZR, Register!Rn_zr(w),
                                                      Register!Rm_zr(w), cond)),
              Register!width_of(w)), TRUE)
      BY <1>2, <2>1, <2>3 DEF Register!conditional_compare
    <3>2. Register!ZR # SP
      BY DEF Register!ZR, SP
    <3> QED
      BY <3>1, <3>2, FineSelect
  <2> QED
    BY <2>2, <2>3
<1> QED
  BY <1>1, <1>2

LEMMA FineConditionalSelect == ASSUME NEW w \in Word32 PROVE Fine(Register!conditional_select(w))
<1>1. CASE Register!sets_bit(w) \/ Register!bits(w, 11, 10) >= 2
  BY <1>1, RegisterFaults DEF Register!conditional_select
<1>2. CASE ~ (Register!sets_bit(w) \/ Register!bits(w, 11, 10) >= 2)
  <2>1. PICK op, cond : Register!conditional_select(w) = Register!with_width(Register!new(w, op,
            Register!CondSelect(Register!Rd_zr(w), Register!Rn_zr(w), Register!Rm_zr(w), cond)),
            Register!width_of(w))
    BY <1>2 DEF Register!conditional_select
  <2> QED
    BY <2>1, RegisterRegisters, FineSelect
<1> QED
  BY <1>1, <1>2

LEMMA FineTwoSource == ASSUME NEW w \in Word32 PROVE Fine(Register!two_source(w))
<1>1. CASE Register!two_source(w) = Register!unallocated(w)
  BY <1>1, RegisterFaults
<1>2. CASE Register!two_source(w) # Register!unallocated(w)
  <2>1. PICK op : /\ op \notin {"Add", "Sub"}
                  /\ Register!two_source(w) = Register!with_width(
                         Register!new(w, op, Register!shifted(w, "Lsl", 0)), Register!width_of(w))
    BY <1>2 DEF Register!two_source
  <2> QED
    BY <2>1, FineShifted, ZeroFits
<1> QED
  BY <1>1, <1>2

LEMMA FineOneSource == ASSUME NEW w \in Word32 PROVE Fine(Register!one_source(w))
<1>1. CASE Register!one_source(w) = Register!unallocated(w)
  BY <1>1, RegisterFaults
<1>2. CASE Register!one_source(w) # Register!unallocated(w)
  <2>1. PICK rd, rn : rd = Register!Rd_zr(w) /\ rn = Register!Rn_zr(w) /\ rd # SP /\ rn # SP
    BY RegisterRegisters
  <2>2. PICK width \in Width : width = Register!width_of(w)
    BY RegisterWidth
  <2>3. PICK op : /\ op \notin {"Add", "Sub"}
                  /\ Register!one_source(w) = Register!with_width(Register!new(w, op,
                         Register!RegShifted(rd, rn, rn, "Lsl", 0)), width)
    BY <1>2, <2>1, <2>2 DEF Register!one_source
  <2>4. Register!one_source(w)
            = Insn(w, op, Register!RegShifted(rd, rn, rn, "Lsl", 0), width, "Current", FALSE)
    BY <2>3, RegisterBuilds
  <2>5. Register!RegShifted(rd, rn, rn, "Lsl", 0)
            = [kind |-> "RegShifted", rd |-> rd, rn |-> rn, rm |-> rn, shift |-> "Lsl", amount |-> 0]
    BY DEF Register!RegShifted
  <2> QED
    BY <2>1, <2>2, <2>3, <2>4, <2>5, FineRegShifted, ZeroFits
<1> QED
  BY <1>1, <1>2

LEMMA FineThreeSourceDecoder == ASSUME NEW w \in Word32 PROVE Fine(Register!three_source(w))
<1>1. CASE Register!three_source(w) = Register!unallocated(w)
  BY <1>1, RegisterFaults
<1>2. CASE Register!three_source(w) # Register!unallocated(w)
  <2>1. PICK rd, rn, rm, ra :
           /\ rd = Register!Rd_zr(w) /\ rn = Register!Rn_zr(w) /\ rm = Register!Rm_zr(w)
           /\ ra = Register!from_index_zr(Register!Ra(w))
           /\ rd # SP /\ rn # SP /\ rm # SP /\ ra # SP
    BY RegisterRegisters, Fields, RegisterBits
       DEF Register!from_index_zr, Register!Ra, Register!ZR, SP
  <2>2. PICK width \in Width : width = Register!width_of(w)
    BY RegisterWidth
  <2>3. PICK op : Register!three_source(w) = Register!with_width(Register!new(w, op,
            [kind |-> "ThreeSource", rd |-> rd, rn |-> rn, rm |-> rm, ra |-> ra]), width)
    BY <1>2, <2>1, <2>2 DEF Register!three_source
  <2>4. Register!three_source(w)
            = Insn(w, op, [kind |-> "ThreeSource", rd |-> rd, rn |-> rn, rm |-> rm, ra |-> ra],
                   width, "Current", FALSE)
    BY <2>3, RegisterBuilds
  <2> QED
    BY <2>1, <2>4, FineThreeSource
<1> QED
  BY <1>1, <1>2

LEMMA FineRegister == ASSUME NEW w \in Word32 PROVE Fine(Register!data_processing_register(w))
<1>1. Fine(Register!two_source_or_one_source(w))
  BY FineTwoSource, FineOneSource, RegisterFaults DEF Register!two_source_or_one_source
<1> QED
  BY <1>1, FineLogicalShifted, FineAddSubShifted, FineAddSubExtended, FineAddSubWithCarry,
     FineConditionalCompare, FineConditionalSelect, FineThreeSourceDecoder, RegisterFaults
     DEF Register!data_processing_register

(***************************************************************************)
(* Branches, exceptions and system instructions.                           *)
(***************************************************************************)
LEMMA BranchBits == \A w, hi, lo : Branch!bits(w, hi, lo) = bits(w, hi, lo)
  BY DEF Branch!bits, bits, Branch!Pow2, Pow2

LEMMA BranchPowers == Branch!Pow2 = Pow2
  BY SMT DEF Branch!Pow2, Pow2

LEMMA BranchBuilds ==
  ASSUME NEW w, NEW op, NEW form, NEW width, NEW is
  PROVE  /\ Branch!new(w, op, form) = Insn(w, op, form, "X64", "Current", FALSE)
         /\ Branch!with_width(Branch!new(w, op, form), width)
                = Insn(w, op, form, width, "Current", FALSE)
         /\ Branch!setting_flags(Branch!with_width(Branch!new(w, op, form), width), is)
                = Insn(w, op, form, width, "Current", is)
<1>1. PICK i : i = Branch!new(w, op, form)
  OBVIOUS
<1>2. i = Insn(w, op, form, "X64", "Current", FALSE)
  BY <1>1 DEF Branch!new, Insn
<1>3. PICK j : j = Branch!with_width(i, width)
  OBVIOUS
<1>4. j = Insn(w, op, form, width, "Current", FALSE)
  BY <1>2, <1>3 DEF Branch!with_width, Insn
<1>5. Branch!setting_flags(j, is) = Insn(w, op, form, width, "Current", is)
  BY <1>4 DEF Branch!setting_flags, Insn
<1> QED
  BY <1>1, <1>2, <1>3, <1>4, <1>5

LEMMA BranchFaults == \A w : Fine(Branch!unallocated(w))
  BY DEF Branch!unallocated, Branch!new, Fine, is_unallocated

LEMMA BranchRegisters ==
  ASSUME NEW w \in Word32
  PROVE  Branch!Rd_zr(w) # SP
  BY Fields, BranchBits
     DEF Branch!Rd_zr, Branch!from_index_zr, Branch!Rd, Branch!ZR, SP

LEMMA WordOffset == \A v \in Int : (v * 4) % 4 = 0
  OBVIOUS

\* The forms without operands to speak of.
LEMMA BranchPlain ==
  ASSUME NEW w, NEW op, NEW form, form.kind \in Unconstrained
  PROVE  Fine(Branch!new(w, op, form))
<1>1. Branch!new(w, op, form) = Insn(w, op, form, "X64", "Current", FALSE)
  BY BranchBuilds
<1> QED
  BY <1>1, FineUnconstrained

LEMMA BranchPlainKinds ==
  /\ Branch!NoForm.kind \in Unconstrained
  /\ \A n : Branch!Imm(n).kind \in Unconstrained
  /\ \A rt, r : Branch!System(rt, r).kind \in Unconstrained
  BY DEF Branch!NoForm, Branch!Imm, Branch!System, Unconstrained

LEMMA FineBranchImmediate == ASSUME NEW w \in Word32 PROVE Fine(Branch!branch_immediate(w))
<1>1. PICK op, offset : Branch!branch_immediate(w)
          = Branch!new(w, op, [kind |-> "Branch", offset |-> offset])
  BY DEF Branch!branch_immediate
<1>2. [kind |-> "Branch", offset |-> offset].kind \in Unconstrained
  BY DEF Unconstrained
<1> QED
  BY <1>1, <1>2, BranchPlain

LEMMA FineConditionalBranch == ASSUME NEW w \in Word32 PROVE Fine(Branch!conditional_branch(w))
<1>1. CASE Branch!conditional_branch(w) = Branch!unallocated(w)
  BY <1>1, BranchFaults
<1>2. CASE Branch!conditional_branch(w) # Branch!unallocated(w)
  <2>1. PICK offset, cond : Branch!conditional_branch(w)
            = Branch!new(w, "B", [kind |-> "BranchCond", offset |-> offset, cond |-> cond])
    BY <1>2 DEF Branch!conditional_branch
  <2>2. [kind |-> "BranchCond", offset |-> offset, cond |-> cond].kind \in Unconstrained
    BY DEF Unconstrained
  <2> QED
    BY <2>1, <2>2, BranchPlain
<1> QED
  BY <1>1, <1>2

\* Both compare and test branches: a whole number of words away, a bit inside the width.
LEMMA FineBranchOnRegister ==
  ASSUME NEW w \in Word32, NEW op, NEW value \in Int, NEW tested, NEW width \in Width,
         tested < width_bits(width)
  PROVE  Fine(Branch!with_width(Branch!new(w, op,
                  Branch!BranchReg(Branch!Rd_zr(w), value * 4, tested)), width))
<1>1. PICK rt, offset : rt = Branch!Rd_zr(w) /\ offset = value * 4
  OBVIOUS
<1>2. offset % 4 = 0
  BY <1>1, WordOffset
<1>3. Branch!BranchReg(rt, offset, tested)
          = [kind |-> "BranchReg", rt |-> rt, offset |-> offset, tested |-> tested]
  BY DEF Branch!BranchReg
<1>4. Branch!with_width(Branch!new(w, op, Branch!BranchReg(rt, offset, tested)), width)
          = Insn(w, op, Branch!BranchReg(rt, offset, tested), width, "Current", FALSE)
  BY BranchBuilds
<1> QED
  BY <1>1, <1>2, <1>3, <1>4, FineBranchReg

LEMMA SignExtended ==
  ASSUME NEW v \in Int, NEW k \in 1 .. 26 PROVE Branch!sign_extend(v, k) \in Int
  BY BranchPowers, PowersPositive DEF Branch!sign_extend

LEMMA FineCompareAndBranch == ASSUME NEW w \in Word32 PROVE Fine(Branch!compare_and_branch(w))
<1>1. PICK value \in Int : value = Branch!sign_extend(Branch!bits(w, 23, 5), 19)
  BY AcrossFields, BranchBits, SignExtended, SMTT(30)
<1>2. PICK width \in Width : width = Branch!from_sf(Branch!bit(w, 31))
  BY DEF Branch!from_sf, Width
<1>3. 0 < width_bits(width)
  BY DEF width_bits
<1>4. PICK op : Branch!compare_and_branch(w) = Branch!with_width(Branch!new(w, op,
          Branch!BranchReg(Branch!Rd_zr(w), value * 4, 0)), width)
  BY <1>1, <1>2 DEF Branch!compare_and_branch
<1> QED
  BY <1>3, <1>4, FineBranchOnRegister

LEMMA FineTestAndBranch == ASSUME NEW w \in Word32 PROVE Fine(Branch!test_and_branch(w))
<1>1. PICK value \in Int : value = Branch!sign_extend(Branch!bits(w, 18, 5), 14)
  BY AcrossFields, BranchBits, SignExtended, SMTT(30)
<1>2. PICK width \in Width : width = Branch!from_sf(Branch!bit(w, 31))
  BY DEF Branch!from_sf, Width
<1>3. PICK tested : tested = Branch!bits(w, 31, 31) * 32 + Branch!bits(w, 23, 19)
  OBVIOUS
<1>4. tested < width_bits(width)
  BY <1>2, <1>3, Fields, BranchBits DEF Branch!from_sf, Branch!bit, width_bits, Width
<1>5. PICK op : Branch!test_and_branch(w) = Branch!with_width(Branch!new(w, op,
          Branch!BranchReg(Branch!Rd_zr(w), value * 4, tested)), width)
  BY <1>1, <1>2, <1>3 DEF Branch!test_and_branch
<1> QED
  BY <1>4, <1>5, FineBranchOnRegister

LEMMA FineBranchRegister == ASSUME NEW w \in Word32 PROVE Fine(Branch!branch_register(w))
<1>1. PICK rn : rn = Branch!Rn_zr(w)
  OBVIOUS
<1>2. [kind |-> "BranchIndirect", rn |-> rn].kind \in Unconstrained
  BY DEF Unconstrained
<1>3. \/ Branch!branch_register(w) = Branch!unallocated(w)
      \/ Branch!branch_register(w) = Branch!new(w, "Eret", Branch!NoForm)
      \/ \E op : Branch!branch_register(w) = Branch!new(w, op, [kind |-> "BranchIndirect", rn |-> rn])
  BY <1>1 DEF Branch!branch_register
<1> QED
  BY <1>2, <1>3, BranchFaults, BranchPlain, BranchPlainKinds

LEMMA FineException == ASSUME NEW w \in Word32 PROVE Fine(Branch!exception(w))
<1>1. \/ Branch!exception(w) = Branch!unallocated(w)
      \/ \E op, n : Branch!exception(w) = Branch!new(w, op, Branch!Imm(n))
  BY DEF Branch!exception
<1> QED
  BY <1>1, BranchFaults, BranchPlain, BranchPlainKinds

LEMMA FineSystem == ASSUME NEW w \in Word32 PROVE Fine(Branch!system(w))
<1>1. ASSUME NEW crm, NEW op2 PROVE Fine(Branch!hint(w, crm, op2))
  BY BranchPlain, BranchPlainKinds DEF Branch!hint
<1>2. ASSUME NEW crm, NEW op2 PROVE Fine(Branch!barrier(w, crm, op2))
  <2>1. \/ Branch!barrier(w, crm, op2) = Branch!unallocated(w)
        \/ \E op : Branch!barrier(w, crm, op2) = Branch!new(w, op, Branch!Imm(crm))
    BY DEF Branch!barrier
  <2> QED
    BY <2>1, BranchFaults, BranchPlain, BranchPlainKinds
<1>3. \/ Branch!system(w) = Branch!unallocated(w)
      \/ \E crm, op2 : Branch!system(w) = Branch!hint(w, crm, op2)
      \/ \E crm, op2 : Branch!system(w) = Branch!barrier(w, crm, op2)
      \/ \E op, rt, r : Branch!system(w) = Branch!new(w, op, Branch!System(rt, r))
  BY DEF Branch!system
<1> QED
  BY <1>1, <1>2, <1>3, BranchFaults, BranchPlain, BranchPlainKinds

LEMMA FineBranch == ASSUME NEW w \in Word32 PROVE Fine(Branch!branches_exceptions_system(w))
  BY FineConditionalBranch, FineException, FineSystem, FineBranchRegister, FineBranchImmediate,
     FineCompareAndBranch, FineTestAndBranch, BranchFaults
     DEF Branch!branches_exceptions_system

(***************************************************************************)
(* Addresses, for both groups of loads and stores.                         *)
(***************************************************************************)
AddressRecord(mode, base, offset, writeback, index, extend, amount) ==
    [mode |-> mode, base |-> base, offset |-> offset, writeback |-> writeback,
     index |-> index, extend |-> extend, amount |-> amount]

\* An offset no PC-relative address exceeds.
Near(offset) == offset \in -Pow2[20] .. Pow2[20] - 4

LEMMA OffsetFits ==
  ASSUME NEW offset \in Int, -1048576 <= offset, offset <= 1048572 PROVE Near(offset)
<1>1. PICK p \in Nat : p = Pow2[20] /\ -p <= offset /\ offset <= p - 4
  BY Powers, SMT
<1>2. offset \in -p .. p - 4
  BY <1>1
<1> QED
  BY <1>1, <1>2 DEF Near

LEMMA NearZero == Near(0)
  BY OffsetFits, SMT

LEMMA ImmediateAddress ==
  ASSUME NEW b, NEW offset, NEW writeback, NEW bytes, b # ZR, Near(offset)
  PROVE  AddressInRange(AddressRecord("Immediate", {b}, offset, writeback, {}, "Uxtx", 0), bytes)
  BY DEF Near, AddressInRange, AddressRecord, has_writeback

LEMMA RegisterAddress ==
  ASSUME NEW b, NEW index, NEW extend, NEW amount, NEW writeback, NEW bytes,
         ZR \notin b, SP \notin index, amount = 0 \/ Pow2[amount] = bytes,
         amount = 0 \/ writeback = "None"
  PROVE  AddressInRange(AddressRecord("Register", b, 0, writeback, index, extend, amount), bytes)
  BY NearZero DEF Near, AddressInRange, AddressRecord, has_writeback

LEMMA PcAddress ==
  ASSUME NEW offset, NEW bytes, Near(offset), offset % 4 = 0
  PROVE  AddressInRange(AddressRecord("PcRelative", {}, offset, "None", {}, "Uxtx", 0), bytes)
  BY DEF Near, AddressInRange, AddressRecord, has_writeback

LEMMA BaseAddress ==
  ASSUME NEW b, NEW bytes, b # ZR
  PROVE  AddressInRange(AddressRecord("BaseOnly", {b}, 0, "None", {}, "Uxtx", 0), bytes)
  BY NearZero DEF Near, AddressInRange, AddressRecord, has_writeback

(***************************************************************************)
(* Loads and stores of general-purpose registers.                          *)
(***************************************************************************)
LEMMA MemoryBits == \A w, hi, lo : Memory!bits(w, hi, lo) = bits(w, hi, lo)
  BY DEF Memory!bits, bits, Memory!Pow2, Pow2

LEMMA MemoryPowers == Memory!Pow2 = Pow2
  BY SMT DEF Memory!Pow2, Pow2

LEMMA MemoryBuilds ==
  ASSUME NEW w, NEW op, NEW form, NEW width, NEW is
  PROVE  /\ Memory!new(w, op, form) = Insn(w, op, form, "X64", "Current", FALSE)
         /\ Memory!with_width(Memory!new(w, op, form), width)
                = Insn(w, op, form, width, "Current", FALSE)
         /\ Memory!setting_flags(Memory!with_width(Memory!new(w, op, form), width), is)
                = Insn(w, op, form, width, "Current", is)
<1>1. PICK i : i = Memory!new(w, op, form)
  OBVIOUS
<1>2. i = Insn(w, op, form, "X64", "Current", FALSE)
  BY <1>1 DEF Memory!new, Insn
<1>3. PICK j : j = Memory!with_width(i, width)
  OBVIOUS
<1>4. j = Insn(w, op, form, width, "Current", FALSE)
  BY <1>2, <1>3 DEF Memory!with_width, Insn
<1>5. Memory!setting_flags(j, is) = Insn(w, op, form, width, "Current", is)
  BY <1>4 DEF Memory!setting_flags, Insn
<1> QED
  BY <1>1, <1>2, <1>3, <1>4, <1>5

LEMMA MemoryFaults == \A w : Fine(Memory!unallocated(w))
  BY DEF Memory!unallocated, Memory!new, Fine, is_unallocated

LEMMA MemoryRegisters ==
  ASSUME NEW w \in Word32
  PROVE  Memory!Rd_zr(w) # SP /\ Memory!Rm_zr(w) # SP
  BY Fields, MemoryBits
     DEF Memory!Rd_zr, Memory!Rm_zr, Memory!from_index_zr, Memory!Rd, Memory!Rm, Memory!ZR, SP

LEMMA MemoryBase == ASSUME NEW w \in Word32 PROVE Memory!base(w) # ZR
  BY Fields, MemoryBits DEF Memory!base, Memory!Rn_sp, Memory!from_index_sp, Memory!Rn, Memory!SP, ZR

LEMMA MemorySecond == ASSUME NEW w \in Word32 PROVE Memory!from_index_zr(Memory!Ra(w)) # SP
  BY Fields, MemoryBits DEF Memory!from_index_zr, Memory!Ra, Memory!ZR, SP

\* The signed fields of an address: seven, nine and nineteen bits.
LEMMA MemorySigned ==
  ASSUME NEW v \in Nat
  PROVE  /\ v < 128 => Memory!sign_extend(v, 7) \in -64 .. 63
         /\ v < 512 => Memory!sign_extend(v, 9) \in Int /\ Near(Memory!sign_extend(v, 9))
         /\ v < 524288 => Memory!sign_extend(v, 19) \in Int /\ Near(Memory!sign_extend(v, 19) * 4)
<1>1. /\ Memory!sign_extend(v, 7) = IF v < 64 THEN v ELSE v - 128
      /\ Memory!sign_extend(v, 9) = IF v < 256 THEN v ELSE v - 512
      /\ Memory!sign_extend(v, 19) = IF v < 262144 THEN v ELSE v - 524288
  BY MemoryPowers, Powers, SMT DEF Memory!sign_extend
<1>2. ASSUME v < 512
      PROVE  Memory!sign_extend(v, 9) \in Int /\ Near(Memory!sign_extend(v, 9))
  BY <1>1, <1>2, OffsetFits, SMT
<1>3. ASSUME v < 524288
      PROVE  Memory!sign_extend(v, 19) \in Int /\ Near(Memory!sign_extend(v, 19) * 4)
  BY <1>1, <1>3, OffsetFits, SMT
<1>4. v < 128 => Memory!sign_extend(v, 7) \in -64 .. 63
  BY <1>1, SMT
<1> QED
  BY <1>2, <1>3, <1>4, SMT

LEMMA MemoryAddresses ==
    /\ \A b, offset, writeback : Memory!at_immediate(b, offset, writeback)
           = AddressRecord("Immediate", {b}, offset, writeback, {}, "Uxtx", 0)
    /\ \A b, index, extend, amount, writeback :
           Memory!at_register(b, index, extend, amount, writeback)
               = AddressRecord("Register", {b}, 0, writeback, {index}, extend, amount)
    /\ \A offset : Memory!at_pc(offset)
           = AddressRecord("PcRelative", {}, offset, "None", {}, "Uxtx", 0)
    /\ \A b : Memory!at_base(b) = AddressRecord("BaseOnly", {b}, 0, "None", {}, "Uxtx", 0)
  BY DEF Memory!at_immediate, Memory!at_register, Memory!at_pc, Memory!at_base, Memory!Address,
     Memory!Some, Memory!None, AddressRecord

\* The addresses of the single-register loads and stores.
LEMMA MemorySingleAddresses ==
  ASSUME NEW w \in Word32, NEW size_field \in 0 .. 3,
         NEW a \in Memory!single_register_address(w, size_field)
  PROVE  AddressInRange(a, Pow2[size_field]) /\ a.mode # "BaseOnly"
<1>1. PICK b : b = Memory!base(w) /\ b # ZR
  BY MemoryBase
<1>2. PICK m \in 0 .. 3 : m = Memory!bits(w, 11, 10)
  BY Fields, MemoryBits
<1>3. ASSUME NEW offset, NEW writeback, Near(offset),
             a = Memory!at_immediate(b, offset, writeback)
      PROVE  AddressInRange(a, Pow2[size_field]) /\ a.mode # "BaseOnly"
  <2>1. a = AddressRecord("Immediate", {b}, offset, writeback, {}, "Uxtx", 0)
    BY <1>3, MemoryAddresses
  <2>2. a.mode # "BaseOnly"
    BY <2>1 DEF AddressRecord
  <2> QED
    BY <1>1, <1>3, <2>1, <2>2, ImmediateAddress
<1>4. CASE Memory!bit(w, 24)
  <2>1. PICK field \in Nat : field = Memory!bits(w, 21, 10) /\ field < 4096
    BY AcrossFields, MemoryBits, SMT
  <2>2. PICK p \in Nat : p = Memory!Pow2[size_field] /\ p <= 8
    BY MemoryPowers, Powers, SMT
  <2>3. a = Memory!at_immediate(b, field * p, "None")
    BY <1>1, <1>4, <2>1, <2>2, SMT DEF Memory!single_register_address, Memory!Some
  <2>4. Near(field * p)
    <3>1. p \in 0 .. 8
      BY <2>2
    <3>2. field * p \in Int /\ -1048576 <= field * p /\ field * p <= 1048572
      BY <2>1, <3>1, SMT
    <3> QED
      BY <3>2, OffsetFits, SMT
  <2> QED
    BY <1>3, <2>3, <2>4
<1>5. CASE ~ Memory!bit(w, 24) /\ Memory!bit(w, 21)
  <2>1. a \in Memory!register_offset(w, size_field)
    BY <1>5 DEF Memory!single_register_address, Memory!None
  <2>2. PICK index : index = Memory!Rm_zr(w) /\ index # SP
    BY MemoryRegisters
  <2>3. PICK extend, amount, writeback :
           /\ a = Memory!at_register(b, index, extend, amount, writeback)
           /\ amount \in {0, size_field} /\ writeback = "None"
    BY <1>1, <2>1, <2>2 DEF Memory!register_offset, Memory!Some, Memory!None
  <2>4. a = AddressRecord("Register", {b}, 0, writeback, {index}, extend, amount)
    BY <2>3, MemoryAddresses
  <2>5. PICK bytes : bytes = Pow2[size_field] /\ (amount = 0 \/ Pow2[amount] = bytes)
    BY <2>3
  <2>6. AddressInRange(AddressRecord("Register", {b}, 0, writeback, {index}, extend, amount), bytes)
    <3>1. amount = 0 \/ writeback = "None"
      BY <2>3
    <3>2. PICK bs, is : bs = {b} /\ is = {index}
      OBVIOUS
    <3>3. ZR \notin bs /\ SP \notin is
      BY <1>1, <2>2, <3>2
    <3>4. AddressInRange(AddressRecord("Register", bs, 0, writeback, is, extend, amount), bytes)
      BY <2>5, <3>1, <3>3, RegisterAddress
    <3> QED
      BY <3>2, <3>4
  <2>7. a.mode # "BaseOnly"
    BY <2>4 DEF AddressRecord
  <2> QED
    BY <2>4, <2>5, <2>6, <2>7
<1>6. CASE ~ Memory!bit(w, 24) /\ ~ Memory!bit(w, 21)
  <2>1. PICK field \in Nat : field = Memory!bits(w, 20, 12) /\ field < 512
    BY AcrossFields, MemoryBits, SMT
  <2>2. PICK offset : offset = Memory!sign_extend(field, 9) /\ Near(offset)
    BY <2>1, MemorySigned, SMT
  <2>3. PICK writeback : a = Memory!at_immediate(b, offset, writeback)
    BY <1>1, <1>2, <1>6, <2>1, <2>2, SMT
       DEF Memory!single_register_address, Memory!Some, Memory!None
  <2> QED
    BY <1>3, <2>2, <2>3
<1> QED
  BY <1>4, <1>5, <1>6

LEMMA FineTransfer ==
  ASSUME NEW w \in Word32, NEW op \in {"Ldr", "Str"}, NEW addr, NEW bytes \in Nat,
         NEW signed \in BOOLEAN, NEW width,
         AddressInRange(addr, bytes), addr.mode # "BaseOnly", bytes * 8 <= width_bits(width),
         signed => op = "Ldr" /\ bytes * 8 < width_bits(width)
  PROVE  Fine(Memory!with_width(Memory!new(w, op,
                  Memory!transfer(w, addr, Memory!access(bytes, signed))), width))
<1>1. PICK rt : rt = Memory!Rd_zr(w) /\ rt # SP
  BY MemoryRegisters
<1>2. PICK size, ordering : size = [bytes |-> bytes, is_signed |-> signed]
         /\ ordering = [is_acquire |-> FALSE, is_release |-> FALSE, is_exclusive |-> FALSE]
  OBVIOUS
<1>3. Memory!transfer(w, addr, Memory!access(bytes, signed))
          = [kind |-> "LoadStore", rt |-> rt, rt2 |-> {}, rs |-> {}, addr |-> addr,
             size |-> size, ordering |-> ordering]
  BY <1>1, <1>2 DEF Memory!transfer, Memory!transferred, Memory!LoadStore, Memory!access,
     Memory!PLAIN, Memory!None
<1>4. LoadStoreInRange([kind |-> "LoadStore", rt |-> rt, rt2 |-> {}, rs |-> {}, addr |-> addr,
                        size |-> size, ordering |-> ordering], op, width)
  BY <1>2 DEF LoadStoreInRange, None
<1>5. Memory!with_width(Memory!new(w, op,
          Memory!transfer(w, addr, Memory!access(bytes, signed))), width)
          = Insn(w, op, [kind |-> "LoadStore", rt |-> rt, rt2 |-> {}, rs |-> {}, addr |-> addr,
                         size |-> size, ordering |-> ordering], width, "Current", FALSE)
  BY <1>3, MemoryBuilds
<1> QED
  BY <1>1, <1>4, <1>5, FineLoadStore

LEMMA FineSingle ==
  ASSUME NEW w \in Word32, NEW size_field \in 0 .. 3, NEW opc \in 0 .. 3,
         NEW t \in Memory!decode_single(size_field, opc), NEW addr,
         AddressInRange(addr, Pow2[size_field]), addr.mode # "BaseOnly"
  PROVE  Fine(Memory!with_width(Memory!new(w, IF t.is_load THEN "Ldr" ELSE "Str",
                  Memory!transfer(w, addr, t.size)), t.width))
<1>1. PICK signed \in BOOLEAN : signed <=> opc >= 2
  OBVIOUS
<1>2. ~ (signed /\ (size_field = 3 \/ (size_field = 2 /\ opc = 3)))
  BY <1>1 DEF Memory!decode_single, Memory!None
<1>3. PICK bytes \in Nat : bytes = Memory!Pow2[size_field] /\ bytes = Pow2[size_field]
  BY MemoryPowers, PowersPositive
<1>4. PICK width : width = Memory!from_sf(IF signed THEN opc % 2 = 0 ELSE size_field = 3)
  OBVIOUS
<1>5. PICK is_load \in BOOLEAN : is_load = (signed \/ opc % 2 = 1)
  OBVIOUS
<1>6. t = [is_load |-> is_load, size |-> Memory!access(bytes, signed), width |-> width]
  BY <1>1, <1>2, <1>3, <1>4, <1>5 DEF Memory!decode_single, Memory!Some, Memory!None
<1>7. bytes * 8 <= width_bits(width) /\ (signed => bytes * 8 < width_bits(width))
  BY <1>1, <1>2, <1>3, <1>4, Powers DEF Memory!from_sf, width_bits
<1>8. PICK op \in {"Ldr", "Str"} : op = (IF is_load THEN "Ldr" ELSE "Str")
  OBVIOUS
<1>9. signed => op = "Ldr"
  BY <1>5, <1>8
<1>10. /\ t.size = Memory!access(bytes, signed) /\ t.width = width
       /\ (IF t.is_load THEN "Ldr" ELSE "Str") = op
  BY <1>6, <1>8
<1>11. Fine(Memory!with_width(Memory!new(w, op,
                Memory!transfer(w, addr, Memory!access(bytes, signed))), width))
  BY <1>3, <1>7, <1>9, FineTransfer
<1> QED
  BY <1>10, <1>11

LEMMA FineSingleRegister == ASSUME NEW w \in Word32 PROVE Fine(Memory!single_register(w))
<1>1. PICK size_field \in 0 .. 3, opc \in 0 .. 3 :
         size_field = Memory!bits(w, 31, 30) /\ opc = Memory!bits(w, 23, 22)
  BY Fields, MemoryBits
<1>2. PICK found : found = Memory!single_register_address(w, size_field)
  OBVIOUS
<1>3. PICK single : single = Memory!decode_single(size_field, opc)
  OBVIOUS
<1>4. PICK addr : addr = CHOOSE a \in found : TRUE
  OBVIOUS
<1>5. PICK t : t = CHOOSE s \in single : TRUE
  OBVIOUS
<1>6. CASE found = {}
  BY <1>1, <1>2, <1>6, MemoryFaults DEF Memory!single_register, Memory!None
<1>7. CASE found # {}
  <2>1. addr \in found
    BY <1>4, <1>7
  <2>2. AddressInRange(addr, Pow2[size_field]) /\ addr.mode # "BaseOnly"
    BY <1>2, <2>1, MemorySingleAddresses
  <2>3. CASE Memory!is_prefetch(size_field, opc)
    <3>1. Pow2[size_field] = 8
      BY <2>3, Powers DEF Memory!is_prefetch
    <3>2. CASE has_writeback(addr)
      BY <1>1, <1>2, <1>4, <1>7, <2>3, <3>2, MemoryFaults
         DEF Memory!single_register, Memory!None, has_writeback, Memory!has_writeback
    <3>3. CASE ~ has_writeback(addr)
      <4>1. PICK prfop : Memory!single_register(w) = Memory!new(w, "Prfm", Memory!Prefetch(prfop, addr))
        BY <1>1, <1>2, <1>4, <1>7, <2>3, <3>3
           DEF Memory!single_register, Memory!None, has_writeback, Memory!has_writeback
      <4>2. Memory!single_register(w) = Insn(w, "Prfm",
                [kind |-> "Prefetch", prfop |-> prfop, addr |-> addr], "X64", "Current", FALSE)
        BY <4>1, MemoryBuilds DEF Memory!Prefetch
      <4> QED
        BY <2>2, <3>1, <3>3, <4>2, FinePrefetch
    <3> QED
      BY <3>2, <3>3
  <2>4. CASE ~ Memory!is_prefetch(size_field, opc) /\ single = {}
    BY <1>1, <1>2, <1>3, <1>7, <2>4, MemoryFaults DEF Memory!single_register, Memory!None
  <2>5. CASE ~ Memory!is_prefetch(size_field, opc) /\ single # {}
    <3>1. t \in Memory!decode_single(size_field, opc)
      BY <1>3, <1>5, <2>5
    <3>2. Memory!single_register(w)
              = Memory!with_width(Memory!new(w, IF t.is_load THEN "Ldr" ELSE "Str",
                    Memory!transfer(w, addr, t.size)), t.width)
      BY <1>1, <1>2, <1>3, <1>4, <1>5, <1>7, <2>5 DEF Memory!single_register, Memory!None
    <3> QED
      BY <2>2, <3>1, <3>2, FineSingle
  <2> QED
    BY <2>3, <2>4, <2>5
<1> QED
  BY <1>6, <1>7

LEMMA FineLiteral == ASSUME NEW w \in Word32 PROVE Fine(Memory!literal(w))
<1>1. PICK value \in Int : value = Memory!sign_extend(Memory!bits(w, 23, 5), 19) /\ Near(value * 4)
  BY AcrossFields, MemoryBits, MemorySigned, SMT
<1>2. PICK addr : addr = Memory!at_pc(value * 4)
  OBVIOUS
<1>3. (value * 4) % 4 = 0
  OBVIOUS
<1>4. addr = AddressRecord("PcRelative", {}, value * 4, "None", {}, "Uxtx", 0)
  BY <1>2, MemoryAddresses
<1>5. ASSUME NEW bytes PROVE AddressInRange(addr, bytes)
  BY <1>1, <1>3, <1>4, PcAddress
<1>6. addr.mode # "BaseOnly" /\ ~ has_writeback(addr)
  BY <1>4 DEF AddressRecord, has_writeback
<1>7. PICK opc \in 0 .. 3 : opc = Memory!bits(w, 31, 30)
  BY Fields, MemoryBits
<1>8. CASE opc = 3
  <2>1. PICK prfop : Memory!literal(w) = Memory!new(w, "Prfm", Memory!Prefetch(prfop, addr))
    BY <1>1, <1>2, <1>7, <1>8 DEF Memory!literal
  <2>2. Memory!literal(w) = Insn(w, "Prfm", [kind |-> "Prefetch", prfop |-> prfop, addr |-> addr],
                                 "X64", "Current", FALSE)
    BY <2>1, MemoryBuilds DEF Memory!Prefetch
  <2> QED
    BY <1>5, <1>6, <2>2, FinePrefetch
<1>9. CASE opc # 3
  <2>1. PICK bytes \in Nat : bytes = IF opc = 1 THEN 8 ELSE 4
    OBVIOUS
  <2>2. PICK signed \in BOOLEAN : signed <=> opc = 2
    OBVIOUS
  <2>3. PICK width : width = Memory!from_sf(opc # 0)
    OBVIOUS
  <2>4. bytes * 8 <= width_bits(width) /\ (signed => bytes * 8 < width_bits(width))
    BY <1>9, <2>1, <2>2, <2>3 DEF Memory!from_sf, width_bits
  <2>5. PICK op \in {"Ldr", "Str"} : op = "Ldr"
    OBVIOUS
  <2>6. Memory!literal(w) = Memory!with_width(Memory!new(w, op,
            Memory!transfer(w, addr, Memory!access(bytes, opc = 2))), width)
    BY <1>1, <1>2, <1>7, <1>9, <2>1, <2>3, <2>5 DEF Memory!literal
  <2>7. Memory!access(bytes, opc = 2) = Memory!access(bytes, signed)
    BY <2>2 DEF Memory!access
  <2>8. Fine(Memory!with_width(Memory!new(w, op,
            Memory!transfer(w, addr, Memory!access(bytes, signed))), width))
    BY <1>5, <1>6, <2>4, <2>5, FineTransfer
  <2> QED
    BY <2>6, <2>7, <2>8
<1> QED
  BY <1>8, <1>9

LEMMA FinePair == ASSUME NEW w \in Word32 PROVE Fine(Memory!pair(w))
<1>1. PICK opc \in 0 .. 3 : opc = Memory!bits(w, 31, 30)
  BY Fields, MemoryBits
<1>2. CASE Memory!pair(w) = Memory!unallocated(w)
  BY <1>2, MemoryFaults
<1>3. CASE Memory!pair(w) # Memory!unallocated(w)
  <2>1. opc # 3 /\ (opc = 1 => Memory!bit(w, 22))
    BY <1>1, <1>3 DEF Memory!pair
  <2>2. PICK bytes \in {4, 8} : bytes = IF opc = 2 THEN 8 ELSE 4
    OBVIOUS
  <2>3. PICK signed \in BOOLEAN : signed <=> opc = 1
    OBVIOUS
  <2>4. PICK size : size = [bytes |-> bytes, is_signed |-> signed]
    OBVIOUS
  <2>5. Memory!access(IF opc = 2 THEN 8 ELSE 4, opc = 1) = size
    BY <2>2, <2>3, <2>4 DEF Memory!access
  <2>6. PICK width : width = Memory!from_sf(opc # 0)
    OBVIOUS
  <2>7. bytes * 8 <= width_bits(width) /\ (signed => bytes * 8 < width_bits(width))
    BY <2>1, <2>2, <2>3, <2>6 DEF Memory!from_sf, width_bits
  <2>8. PICK value \in -64 .. 63 : value = Memory!sign_extend(Memory!bits(w, 21, 15), 7)
    BY AcrossFields, MemoryBits, MemorySigned, SMTT(30)
  <2>9. PICK offset \in Int : offset = value * bytes /\ -512 <= offset /\ offset <= 512
                              /\ offset % bytes = 0
    BY <2>2, SMT
  <2>10. Near(offset)
    BY <2>9, OffsetFits, SMT
  <2>11. PICK b, rt, second : /\ b = Memory!base(w) /\ b # ZR
                           /\ rt = Memory!Rd_zr(w) /\ rt # SP
                           /\ second = Memory!from_index_zr(Memory!Ra(w)) /\ second # SP
    BY MemoryBase, MemoryRegisters, MemorySecond
  <2>12. PICK rt2, rs : rt2 = {second} /\ rs = {}
    OBVIOUS
  <2>13. SP \notin rt2 /\ SP \notin rs /\ rt2 # {} /\ rs = {}
    BY <2>11, <2>12
  <2>14. PICK writeback : writeback = Memory!pair_writeback(w)
    OBVIOUS
  <2>15. PICK addr : addr = Memory!at_immediate(b, offset, writeback)
    OBVIOUS
  <2>16. addr = AddressRecord("Immediate", {b}, offset, writeback, {}, "Uxtx", 0)
    BY <2>15, MemoryAddresses
  <2>17. AddressInRange(addr, bytes) /\ addr.mode # "BaseOnly" /\ addr.offset = offset
    <3>1. AddressInRange(addr, bytes)
      BY <2>10, <2>11, <2>16, ImmediateAddress
    <3> QED
      BY <2>16, <3>1 DEF AddressRecord
  <2>18. PICK op \in {"Ldp", "Stp"} : op = IF Memory!bit(w, 22) THEN "Ldp" ELSE "Stp"
    OBVIOUS
  <2>19. signed => op = "Ldp"
    BY <2>1, <2>3, <2>18
  <2>20. PICK ordering : ordering = [is_acquire |-> FALSE, is_release |-> FALSE, is_exclusive |-> FALSE]
    OBVIOUS
  <2>21. Memory!pair(w) = Memory!with_width(Memory!new(w, op,
             Memory!LoadStore(rt, rt2, rs, addr, size, ordering)), width)
    <3>1. size.bytes = bytes
      BY <2>4
    <3> QED
      BY <1>1, <1>3, <2>5, <2>6, <2>8, <2>9, <2>11, <2>14, <2>15, <2>18, <2>20, <2>12, <3>1
         DEF Memory!pair, Memory!transferred, Memory!Some, Memory!None, Memory!PLAIN
  <2>22. Memory!pair(w) = Insn(w, op, [kind |-> "LoadStore", rt |-> rt, rt2 |-> rt2, rs |-> rs,
             addr |-> addr, size |-> size, ordering |-> ordering], width, "Current", FALSE)
    BY <2>21, MemoryBuilds DEF Memory!LoadStore
  <2>23. LoadStoreInRange([kind |-> "LoadStore", rt |-> rt, rt2 |-> rt2, rs |-> rs,
             addr |-> addr, size |-> size, ordering |-> ordering], op, width)
    BY <2>4, <2>7, <2>9, <2>13, <2>17, <2>19, <2>20 DEF LoadStoreInRange, None
  <2>24. rt # SP /\ SP \notin rt2 /\ SP \notin rs
    BY <2>11, <2>13
  <2> QED
    BY <2>22, <2>23, <2>24, FineLoadStore
<1> QED
  BY <1>2, <1>3

LEMMA FineExclusive == ASSUME NEW w \in Word32 PROVE Fine(Memory!exclusive(w))
<1>1. PICK size_field \in 0 .. 3 : size_field = Memory!bits(w, 31, 30)
  BY Fields, MemoryBits
<1>2. PICK is_load \in BOOLEAN, is_exclusive \in BOOLEAN, is_pair \in BOOLEAN, is_ordered \in BOOLEAN :
         /\ is_load = (Memory!bits(w, 22, 22) = 1) /\ is_exclusive = ~ (Memory!bits(w, 23, 23) = 1)
         /\ is_pair = (Memory!bits(w, 21, 21) = 1) /\ is_ordered = (Memory!bits(w, 15, 15) = 1)
  OBVIOUS
<1>3. PICK size : size = Memory!exclusive_size(size_field, is_pair)
  OBVIOUS
<1>4. CASE size = {} \/ (~ is_exclusive /\ (is_pair \/ ~ is_ordered))
  BY <1>1, <1>2, <1>3, <1>4, MemoryFaults DEF Memory!exclusive, Memory!bit, Memory!None
<1>5. CASE size # {} /\ ~ (~ is_exclusive /\ (is_pair \/ ~ is_ordered))
  <2>1. PICK bytes \in Nat : bytes = Memory!Pow2[size_field] /\ bytes = Pow2[size_field]
    BY MemoryPowers, PowersPositive
  <2>2. PICK s : s = [bytes |-> bytes, is_signed |-> FALSE]
    OBVIOUS
  <2>3. (CHOOSE x \in size : TRUE) = s
    <3>1. size = {s}
      BY <1>3, <1>5, <2>1, <2>2 DEF Memory!exclusive_size, Memory!access, Memory!Some, Memory!None
    <3> QED
      BY <3>1
  <2>4. PICK width : width = Memory!from_sf(size_field = 3)
    OBVIOUS
  <2>5. bytes * 8 <= width_bits(width)
    BY <2>1, <2>4, Powers DEF Memory!from_sf, width_bits
  <2>6. PICK b, rt, second, status : /\ b = Memory!base(w) /\ b # ZR
                                     /\ rt = Memory!Rd_zr(w) /\ rt # SP
                                     /\ second = Memory!from_index_zr(Memory!Ra(w)) /\ second # SP
                                     /\ status = Memory!Rm_zr(w) /\ status # SP
    BY MemoryBase, MemoryRegisters, MemorySecond
  <2>7. PICK rt2, rs : rt2 = (IF is_pair THEN {second} ELSE {})
                       /\ rs = (IF is_exclusive /\ ~ is_load THEN {status} ELSE {})
    OBVIOUS
  <2>8. SP \notin rt2 /\ SP \notin rs /\ (rs # {} <=> is_exclusive /\ ~ is_load)
    BY <2>6, <2>7
  <2>9. PICK addr : addr = Memory!at_base(b)
    OBVIOUS
  <2>10. addr = AddressRecord("BaseOnly", {b}, 0, "None", {}, "Uxtx", 0)
    BY <2>9, MemoryAddresses
  <2>11. AddressInRange(addr, bytes) /\ addr.mode = "BaseOnly"
    <3>1. AddressInRange(addr, bytes)
      BY <2>6, <2>10, BaseAddress
    <3> QED
      BY <2>10, <3>1 DEF AddressRecord
  <2>12. PICK op \in {"Ldar", "Stlr"} : op = IF is_load THEN "Ldar" ELSE "Stlr"
    OBVIOUS
  <2>13. PICK ordering : ordering = [is_acquire |-> is_load /\ is_ordered,
             is_release |-> ~ is_load /\ is_ordered, is_exclusive |-> is_exclusive]
    OBVIOUS
  <2>14. Memory!exclusive(w) = Memory!with_width(Memory!new(w, op,
             Memory!LoadStore(rt, rt2, rs, addr, s, ordering)), width)
    BY <1>1, <1>2, <1>3, <1>5, <2>3, <2>4, <2>6, <2>7, <2>9, <2>12, <2>13
       DEF Memory!exclusive, Memory!bit, Memory!transferred, Memory!Some, Memory!None
  <2>15. Memory!exclusive(w) = Insn(w, op, [kind |-> "LoadStore", rt |-> rt, rt2 |-> rt2, rs |-> rs,
             addr |-> addr, size |-> s, ordering |-> ordering], width, "Current", FALSE)
    BY <2>14, MemoryBuilds DEF Memory!LoadStore
  <2>16. LoadStoreInRange([kind |-> "LoadStore", rt |-> rt, rt2 |-> rt2, rs |-> rs,
             addr |-> addr, size |-> s, ordering |-> ordering], op, width)
    BY <2>2, <2>5, <2>8, <2>11, <2>12, <2>13 DEF LoadStoreInRange, None
  <2> QED
    BY <2>6, <2>8, <2>15, <2>16, FineLoadStore
<1> QED
  BY <1>4, <1>5

LEMMA FineMemory == ASSUME NEW w \in Word32 PROVE Fine(Memory!loads_and_stores(w))
<1>1. PICK family : family = Memory!bits(w, 29, 28)
  OBVIOUS
<1>2. family \in 0 .. 3
  <2>1. bits(w, 29, 28) \in 0 .. Pow2[2] - 1
    BY FieldOfHalf, SMT
  <2> QED
    BY <1>1, <2>1, MemoryBits, Powers, SMT
<1> QED
  BY <1>1, <1>2, FineExclusive, FineLiteral, FinePair, FineSingleRegister, MemoryFaults
     DEF Memory!loads_and_stores

(***************************************************************************)
(* Vector operands, for the groups that build them.                        *)
(***************************************************************************)
LEMMA ElementSizes ==
    elem_bits(0) = 8 /\ elem_bits(1) = 16 /\ elem_bits(2) = 32 /\ elem_bits(3) = 64 /\ elem_bits(4) = 128
  BY Powers, SMT DEF elem_bits

LEMMA ScalarOperand ==
  ASSUME NEW reg \in 0 .. 31, NEW elem \in 0 .. 4, NEW op
  PROVE  VecOperandInRange(scalar(reg, elem), op) /\ scalar(reg, elem).elem = elem
  BY DEF scalar, VecOperandInRange, Vec, ElemSize, B8, Q128

LEMMA VectorOperand ==
  ASSUME NEW reg \in 0 .. 31, NEW elem \in 0 .. 3, NEW is_quad \in BOOLEAN, NEW op,
         elem = 3 /\ ~ is_quad => op \in OneLane
  PROVE  VecOperandInRange(vector(reg, elem, is_quad), op)
<1>1. PICK v : v = vector(reg, elem, is_quad)
  OBVIOUS
<1>2. /\ v.reg = reg /\ v.elem = elem /\ v.shape = "Vector"
      /\ v.count = (IF is_quad THEN 128 ELSE 64) \div elem_bits(elem)
      /\ v.half = IF is_quad THEN "Full" ELSE "Low"
  BY <1>1 DEF vector
<1>3. v.reg \in Vec /\ v.elem \in ElemSize
  BY <1>2 DEF Vec, ElemSize, B8, Q128
<1>4. CASE is_quad
  <2>1. v.count * elem_bits(v.elem) = 128 /\ v.count # 1
    BY <1>2, <1>4, ElementSizes, SMT
  <2> QED
    BY <1>1, <1>2, <1>3, <1>4, <2>1 DEF VecOperandInRange
<1>5. CASE ~ is_quad
  <2>1. v.count * elem_bits(v.elem) = 64 /\ (v.count = 1 => elem = 3)
    BY <1>2, <1>5, ElementSizes, SMT
  <2> QED
    BY <1>1, <1>2, <1>3, <1>5, <2>1 DEF VecOperandInRange
<1> QED
  BY <1>4, <1>5

LEMMA ElementOperand ==
  ASSUME NEW reg \in 0 .. 31, NEW elem \in 0 .. 4, NEW lane, NEW op,
         (lane + 1) * elem_bits(elem) <= 128
  PROVE  VecOperandInRange(element(reg, elem, lane), op)
  BY DEF element, VecOperandInRange, Vec, ElemSize, B8, Q128

(***************************************************************************)
(* Loads and stores of the SIMD and floating-point registers.              *)
(***************************************************************************)
LEMMA MemoryVecBits == \A w, hi, lo : MemoryVec!bits(w, hi, lo) = bits(w, hi, lo)
  BY DEF MemoryVec!bits, bits, MemoryVec!Pow2, Pow2

LEMMA MemoryVecPowers == MemoryVec!Pow2 = Pow2
  BY SMT DEF MemoryVec!Pow2, Pow2

LEMMA MemoryVecBuilds ==
  ASSUME NEW w, NEW op, NEW form, NEW width, NEW is
  PROVE  /\ MemoryVec!new(w, op, form) = Insn(w, op, form, "X64", "Current", FALSE)
         /\ MemoryVec!with_width(MemoryVec!new(w, op, form), width)
                = Insn(w, op, form, width, "Current", FALSE)
         /\ MemoryVec!setting_flags(MemoryVec!with_width(MemoryVec!new(w, op, form), width), is)
                = Insn(w, op, form, width, "Current", is)
<1>1. PICK i : i = MemoryVec!new(w, op, form)
  OBVIOUS
<1>2. i = Insn(w, op, form, "X64", "Current", FALSE)
  BY <1>1 DEF MemoryVec!new, Insn
<1>3. PICK j : j = MemoryVec!with_width(i, width)
  OBVIOUS
<1>4. j = Insn(w, op, form, width, "Current", FALSE)
  BY <1>2, <1>3 DEF MemoryVec!with_width, Insn
<1>5. MemoryVec!setting_flags(j, is) = Insn(w, op, form, width, "Current", is)
  BY <1>4 DEF MemoryVec!setting_flags, Insn
<1> QED
  BY <1>1, <1>2, <1>3, <1>4, <1>5

LEMMA MemoryVecFaults == \A w : Fine(MemoryVec!unallocated(w))
  BY DEF MemoryVec!unallocated, MemoryVec!new, Fine, is_unallocated

LEMMA MemoryVecRegisters ==
  ASSUME NEW w \in Word32
  PROVE  MemoryVec!Rm_zr(w) # SP
  BY Fields, MemoryVecBits
     DEF MemoryVec!Rm_zr, MemoryVec!from_index_zr, MemoryVec!Rm, MemoryVec!ZR, SP

LEMMA MemoryVecOperands ==
    /\ \A reg, elem : MemoryVec!scalar(reg, elem) = scalar(reg, elem)
    /\ \A reg, elem, is_quad : MemoryVec!vector(reg, elem, is_quad) = vector(reg, elem, is_quad)
    /\ \A reg, elem, lane : MemoryVec!element(reg, elem, lane) = element(reg, elem, lane)
  BY MemoryVecPowers DEF MemoryVec!scalar, MemoryVec!vector, MemoryVec!element, MemoryVec!elem_bits, scalar, vector, element, elem_bits

LEMMA MemoryVecBase == ASSUME NEW w \in Word32 PROVE MemoryVec!base(w) # ZR
  BY Fields, MemoryVecBits
     DEF MemoryVec!base, MemoryVec!Rn_sp, MemoryVec!from_index_sp, MemoryVec!Rn, MemoryVec!SP, ZR

\* The signed fields of an address: seven, nine and nineteen bits.
LEMMA MemoryVecSigned ==
  ASSUME NEW v \in Nat
  PROVE  /\ v < 128 => MemoryVec!sign_extend(v, 7) \in -64 .. 63
         /\ v < 512 => MemoryVec!sign_extend(v, 9) \in Int /\ Near(MemoryVec!sign_extend(v, 9))
         /\ v < 524288 => MemoryVec!sign_extend(v, 19) \in Int /\ Near(MemoryVec!sign_extend(v, 19) * 4)
<1>1. /\ MemoryVec!sign_extend(v, 7) = IF v < 64 THEN v ELSE v - 128
      /\ MemoryVec!sign_extend(v, 9) = IF v < 256 THEN v ELSE v - 512
      /\ MemoryVec!sign_extend(v, 19) = IF v < 262144 THEN v ELSE v - 524288
  BY MemoryVecPowers, Powers, SMT DEF MemoryVec!sign_extend
<1>2. ASSUME v < 512
      PROVE  MemoryVec!sign_extend(v, 9) \in Int /\ Near(MemoryVec!sign_extend(v, 9))
  BY <1>1, <1>2, OffsetFits, SMT
<1>3. ASSUME v < 524288
      PROVE  MemoryVec!sign_extend(v, 19) \in Int /\ Near(MemoryVec!sign_extend(v, 19) * 4)
  BY <1>1, <1>3, OffsetFits, SMT
<1>4. v < 128 => MemoryVec!sign_extend(v, 7) \in -64 .. 63
  BY <1>1, SMT
<1> QED
  BY <1>2, <1>3, <1>4, SMT

LEMMA MemoryVecAddresses ==
    /\ \A b, offset, writeback : MemoryVec!at_immediate(b, offset, writeback)
           = AddressRecord("Immediate", {b}, offset, writeback, {}, "Uxtx", 0)
    /\ \A b, index, extend, amount, writeback :
           MemoryVec!at_register(b, index, extend, amount, writeback)
               = AddressRecord("Register", {b}, 0, writeback, {index}, extend, amount)
    /\ \A offset : MemoryVec!at_pc(offset)
           = AddressRecord("PcRelative", {}, offset, "None", {}, "Uxtx", 0)
    /\ \A b : MemoryVec!at_base(b) = AddressRecord("BaseOnly", {b}, 0, "None", {}, "Uxtx", 0)
  BY DEF MemoryVec!at_immediate, MemoryVec!at_register, MemoryVec!at_pc, MemoryVec!at_base, MemoryVec!Address,
     MemoryVec!Some, MemoryVec!None, AddressRecord

LEMMA FineVecTransfer ==
  ASSUME NEW w \in Word32, NEW op, NEW size \in 0 .. 4, NEW count \in 1 .. 4, NEW addr,
         AddressInRange(addr, Pow2[size])
  PROVE  Fine(MemoryVec!new(w, op, MemoryVec!LoadStoreVec(
                  MemoryVec!scalar(MemoryVec!transferred(w), size), count, addr)))
<1>1. PICK reg \in 0 .. 31 : reg = MemoryVec!transferred(w)
  BY Fields, MemoryVecBits DEF MemoryVec!transferred, MemoryVec!Rd
<1>2. PICK vt : vt = scalar(reg, size)
  OBVIOUS
<1>3. VecOperandInRange(vt, op) /\ vt.elem = size
  BY <1>2, ScalarOperand
<1>4. PICK ordering : MemoryVec!LoadStoreVec(vt, count, addr)
          = [kind |-> "LoadStoreVec", vt |-> vt, count |-> count, addr |-> addr, ordering |-> ordering]
  BY DEF MemoryVec!LoadStoreVec
<1>5. MemoryVec!new(w, op, MemoryVec!LoadStoreVec(vt, count, addr))
          = Insn(w, op, [kind |-> "LoadStoreVec", vt |-> vt, count |-> count, addr |-> addr,
                         ordering |-> ordering], "X64", "Current", FALSE)
  BY <1>4, MemoryVecBuilds
<1>6. AddressInRange(addr, Pow2[vt.elem])
  BY <1>3
<1>7. Fine(MemoryVec!new(w, op, MemoryVec!LoadStoreVec(vt, count, addr)))
  BY <1>3, <1>5, <1>6, FineLoadStoreVec
<1>8. MemoryVec!scalar(MemoryVec!transferred(w), size) = vt
  BY <1>1, <1>2, MemoryVecOperands
<1> QED
  BY <1>7, <1>8

\* The addresses of the single-register loads and stores.
LEMMA MemoryVecSingleAddresses ==
  ASSUME NEW w \in Word32, NEW size \in 0 .. 4,
         NEW a \in MemoryVec!single_register_address(w, size)
  PROVE  AddressInRange(a, Pow2[size])
<1>1. PICK b : b = MemoryVec!base(w) /\ b # ZR
  BY MemoryVecBase
<1>2. PICK m \in 0 .. 3 : m = MemoryVec!bits(w, 11, 10)
  BY Fields, MemoryVecBits
<1>3. ASSUME NEW offset, NEW writeback, Near(offset),
             a = MemoryVec!at_immediate(b, offset, writeback)
      PROVE  AddressInRange(a, Pow2[size])
  <2>1. a = AddressRecord("Immediate", {b}, offset, writeback, {}, "Uxtx", 0)
    BY <1>3, MemoryVecAddresses
  <2> QED
    BY <1>1, <1>3, <2>1, ImmediateAddress
<1>4. CASE MemoryVec!bit(w, 24)
  <2>1. PICK field \in Nat : field = MemoryVec!bits(w, 21, 10) /\ field < 4096
    BY AcrossFields, MemoryVecBits, SMT
  <2>2. PICK p \in Nat : p = MemoryVec!Pow2[size] /\ p <= 16
    BY MemoryVecPowers, Powers, SMT
  <2>3. a = MemoryVec!at_immediate(b, field * p, "None")
    BY <1>1, <1>4, <2>1, <2>2, SMT
       DEF MemoryVec!single_register_address, MemoryVec!Some, MemoryVec!scale_of
  <2>4. Near(field * p)
    <3>1. p \in 0 .. 16
      BY <2>2
    <3>2. field * p \in Int /\ -1048576 <= field * p /\ field * p <= 1048572
      BY <2>1, <3>1, SMT
    <3> QED
      BY <3>2, OffsetFits, SMT
  <2> QED
    BY <1>3, <2>3, <2>4
<1>5. CASE ~ MemoryVec!bit(w, 24) /\ MemoryVec!bit(w, 21)
  <2>1. a = MemoryVec!register_offset(w, size)
    BY <1>5 DEF MemoryVec!single_register_address, MemoryVec!None, MemoryVec!Some
  <2>2. PICK index : index = MemoryVec!Rm_zr(w) /\ index # SP
    BY MemoryVecRegisters
  <2>3. PICK extend, amount, writeback :
           /\ a = MemoryVec!at_register(b, index, extend, amount, writeback)
           /\ amount \in {0, size} /\ writeback = "None"
    BY <1>1, <2>1, <2>2 DEF MemoryVec!register_offset, MemoryVec!scale_of
  <2>4. a = AddressRecord("Register", {b}, 0, writeback, {index}, extend, amount)
    BY <2>3, MemoryVecAddresses
  <2>5. PICK bytes : bytes = Pow2[size] /\ (amount = 0 \/ Pow2[amount] = bytes)
    BY <2>3
  <2>6. amount = 0 \/ writeback = "None"
    BY <2>3
  <2>7. PICK bs, is : bs = {b} /\ is = {index}
    OBVIOUS
  <2>8. ZR \notin bs /\ SP \notin is
    BY <1>1, <2>2, <2>7
  <2>9. AddressInRange(AddressRecord("Register", bs, 0, writeback, is, extend, amount), bytes)
    BY <2>5, <2>6, <2>8, RegisterAddress
  <2> QED
    BY <2>4, <2>5, <2>7, <2>9
<1>6. CASE ~ MemoryVec!bit(w, 24) /\ ~ MemoryVec!bit(w, 21)
  <2>1. PICK field \in Nat : field = MemoryVec!bits(w, 20, 12) /\ field < 512
    BY AcrossFields, MemoryVecBits, SMT
  <2>2. PICK offset : offset = MemoryVec!sign_extend(field, 9) /\ Near(offset)
    BY <2>1, MemoryVecSigned, SMT
  <2>3. PICK writeback : a = MemoryVec!at_immediate(b, offset, writeback)
    BY <1>1, <1>2, <1>6, <2>1, <2>2, SMT
       DEF MemoryVec!single_register_address, MemoryVec!Some, MemoryVec!None
  <2> QED
    BY <1>3, <2>2, <2>3
<1> QED
  BY <1>4, <1>5, <1>6

LEMMA FineVecSingleRegister == ASSUME NEW w \in Word32 PROVE Fine(MemoryVec!single_register(w))
<1>1. PICK found : found = MemoryVec!single_size(w)
  OBVIOUS
<1>2. PICK size : size = CHOOSE s \in found : TRUE
  OBVIOUS
<1>3. PICK addr : addr = MemoryVec!single_register_address(w, size)
  OBVIOUS
<1>4. PICK a : a = CHOOSE x \in addr : TRUE
  OBVIOUS
<1>5. CASE found = {} \/ addr = {}
  BY <1>1, <1>2, <1>3, <1>5, MemoryVecFaults DEF MemoryVec!single_register, MemoryVec!None
<1>6. CASE found # {} /\ addr # {}
  <2>1. size \in found /\ a \in addr
    BY <1>2, <1>4, <1>6
  <2>2. size \in 0 .. 4
    <3>1. MemoryVec!bits(w, 31, 30) \in 0 .. 3
      BY Fields, MemoryVecBits
    <3> QED
      BY <1>1, <2>1, <3>1 DEF MemoryVec!single_size, MemoryVec!Some, MemoryVec!None, MemoryVec!Q128
  <2>3. AddressInRange(a, Pow2[size])
    BY <1>3, <2>1, <2>2, MemoryVecSingleAddresses
  <2>4. PICK op, count : /\ count = 1
            /\ MemoryVec!single_register(w) = MemoryVec!new(w, op, MemoryVec!LoadStoreVec(
                   MemoryVec!scalar(MemoryVec!transferred(w), size), count, a))
    BY <1>1, <1>2, <1>3, <1>4, <1>6 DEF MemoryVec!single_register, MemoryVec!None
  <2>5. count \in 1 .. 4
    BY <2>4
  <2> QED
    BY <2>2, <2>3, <2>4, <2>5, FineVecTransfer
<1> QED
  BY <1>5, <1>6

LEMMA WideSize ==
  ASSUME NEW w \in Word32, NEW size \in MemoryVec!wide_size(w) PROVE size \in 2 .. 4
<1>1. MemoryVec!bits(w, 31, 30) \in 0 .. 3
  BY Fields, MemoryVecBits
<1> QED
  BY <1>1 DEF MemoryVec!wide_size, MemoryVec!Some, MemoryVec!None, MemoryVec!S32

LEMMA FineVecLiteral == ASSUME NEW w \in Word32 PROVE Fine(MemoryVec!literal(w))
<1>1. PICK found : found = MemoryVec!wide_size(w)
  OBVIOUS
<1>2. PICK size : size = CHOOSE s \in found : TRUE
  OBVIOUS
<1>3. CASE found = {}
  BY <1>1, <1>3, MemoryVecFaults DEF MemoryVec!literal, MemoryVec!None
<1>4. CASE found # {}
  <2>1. size \in 2 .. 4
    BY <1>1, <1>2, <1>4, WideSize
  <2>2. PICK value \in Int : /\ value = MemoryVec!sign_extend(MemoryVec!bits(w, 23, 5), 19)
                             /\ Near(value * 4)
    BY AcrossFields, MemoryVecBits, MemoryVecSigned, SMT
  <2>3. PICK addr : addr = MemoryVec!at_pc(value * 4)
    OBVIOUS
  <2>4. (value * 4) % 4 = 0
    OBVIOUS
  <2>5. addr = AddressRecord("PcRelative", {}, value * 4, "None", {}, "Uxtx", 0)
    BY <2>3, MemoryVecAddresses
  <2>6. AddressInRange(addr, Pow2[size])
    BY <2>2, <2>4, <2>5, PcAddress
  <2>7. PICK op, count : /\ count = 1
            /\ MemoryVec!literal(w) = MemoryVec!new(w, op, MemoryVec!LoadStoreVec(
                   MemoryVec!scalar(MemoryVec!transferred(w), size), count, addr))
    BY <1>1, <1>2, <1>4, <2>2, <2>3 DEF MemoryVec!literal, MemoryVec!None
  <2>8. count \in 1 .. 4 /\ size \in 0 .. 4
    BY <2>1, <2>7
  <2> QED
    BY <2>6, <2>7, <2>8, FineVecTransfer
<1> QED
  BY <1>3, <1>4

LEMMA FineVecPair == ASSUME NEW w \in Word32 PROVE Fine(MemoryVec!pair(w))
<1>1. PICK found : found = MemoryVec!wide_size(w)
  OBVIOUS
<1>2. PICK size : size = CHOOSE s \in found : TRUE
  OBVIOUS
<1>3. PICK mode, writeback : mode = MemoryVec!pair_writeback(w) /\ writeback = CHOOSE m \in mode : TRUE
  OBVIOUS
<1>4. CASE found = {} \/ mode = {}
  BY <1>1, <1>3, <1>4, MemoryVecFaults DEF MemoryVec!pair, MemoryVec!None
<1>5. CASE found # {} /\ mode # {}
  <2>1. size \in 2 .. 4
    BY <1>1, <1>2, <1>5, WideSize
  <2>2. PICK value \in -64 .. 63 : value = MemoryVec!sign_extend(MemoryVec!bits(w, 21, 15), 7)
    BY AcrossFields, MemoryVecBits, MemoryVecSigned, SMTT(30)
  <2>3. PICK p \in {4, 8, 16} : p = MemoryVec!Pow2[size]
    BY <2>1, MemoryVecPowers, Powers, SMT
  <2>4. PICK offset \in Int : offset = value * p /\ -1024 <= offset /\ offset <= 1024
    BY <2>2, SMT
  <2>5. Near(offset)
    BY <2>4, OffsetFits, SMT
  <2>6. PICK b : b = MemoryVec!base(w) /\ b # ZR
    BY MemoryVecBase
  <2>7. PICK addr : addr = MemoryVec!at_immediate(b, offset, writeback)
    OBVIOUS
  <2>8. addr = AddressRecord("Immediate", {b}, offset, writeback, {}, "Uxtx", 0)
    BY <2>7, MemoryVecAddresses
  <2>9. AddressInRange(addr, Pow2[size])
    BY <2>5, <2>6, <2>8, ImmediateAddress
  <2>10. PICK op, count : /\ count = 2
             /\ MemoryVec!pair(w) = MemoryVec!new(w, op, MemoryVec!LoadStoreVec(
                    MemoryVec!scalar(MemoryVec!transferred(w), size), count, addr))
    BY <1>1, <1>2, <1>3, <1>5, <2>2, <2>3, <2>4, <2>6, <2>7, SMT
       DEF MemoryVec!pair, MemoryVec!None, MemoryVec!scale_of
  <2>11. count \in 1 .. 4 /\ size \in 0 .. 4
    BY <2>1, <2>10
  <2> QED
    BY <2>9, <2>10, <2>11, FineVecTransfer
<1> QED
  BY <1>4, <1>5

LEMMA StructureAddress ==
  ASSUME NEW w \in Word32, NEW post \in BOOLEAN, NEW count \in 1 .. 4,
         NEW bytes_per_register \in {8, 16}, NEW bytes
  PROVE  AddressInRange(MemoryVec!structure_address(w, post, count, bytes_per_register), bytes)
<1>1. PICK b : b = MemoryVec!base(w) /\ b # ZR
  BY MemoryVecBase
<1>2. PICK a : a = MemoryVec!structure_address(w, post, count, bytes_per_register)
  OBVIOUS
<1>3. CASE ~ post
  <2>1. a = MemoryVec!at_base(b)
    BY <1>1, <1>2, <1>3 DEF MemoryVec!structure_address
  <2>2. a = AddressRecord("BaseOnly", {b}, 0, "None", {}, "Uxtx", 0)
    BY <2>1, MemoryVecAddresses
  <2> QED
    BY <1>1, <1>2, <2>2, BaseAddress
<1>4. CASE post /\ MemoryVec!Rm(w) = 31
  <2>1. PICK offset \in Int : offset = count * bytes_per_register /\ 0 <= offset /\ offset <= 64
    BY SMT
  <2>2. Near(offset)
    BY <2>1, OffsetFits, SMT
  <2>3. a = MemoryVec!at_immediate(b, offset, "Post")
    BY <1>1, <1>2, <1>4, <2>1 DEF MemoryVec!structure_address
  <2>4. a = AddressRecord("Immediate", {b}, offset, "Post", {}, "Uxtx", 0)
    BY <2>3, MemoryVecAddresses
  <2> QED
    BY <1>1, <1>2, <2>2, <2>4, ImmediateAddress
<1>5. CASE post /\ MemoryVec!Rm(w) # 31
  <2>1. PICK index : index = MemoryVec!Rm_zr(w) /\ index # SP
    BY MemoryVecRegisters
  <2>2. PICK extend, amount, writeback :
           /\ a = MemoryVec!at_register(b, index, extend, amount, writeback) /\ amount = 0
    BY <1>1, <1>2, <1>5, <2>1 DEF MemoryVec!structure_address
  <2>3. a = AddressRecord("Register", {b}, 0, writeback, {index}, extend, amount)
    BY <2>2, MemoryVecAddresses
  <2>4. PICK bs, is : bs = {b} /\ is = {index}
    OBVIOUS
  <2>5. ZR \notin bs /\ SP \notin is
    BY <1>1, <2>1, <2>4
  <2>6. amount = 0
    BY <2>2
  <2>7. AddressInRange(AddressRecord("Register", bs, 0, writeback, is, extend, amount), bytes)
    BY <2>5, <2>6, RegisterAddress
  <2> QED
    BY <1>2, <2>3, <2>4, <2>7
<1> QED
  BY <1>3, <1>4, <1>5

LEMMA FineStructure == ASSUME NEW w \in Word32 PROVE Fine(MemoryVec!structure(w))
<1>1. PICK post \in BOOLEAN, is_quad \in BOOLEAN :
         post = (MemoryVec!bits(w, 23, 23) = 1) /\ is_quad = (MemoryVec!bits(w, 30, 30) = 1)
  OBVIOUS
<1>2. PICK found : found = MemoryVec!structure_kind(MemoryVec!bits(w, 15, 12))
  OBVIOUS
<1>3. PICK kind : kind = CHOOSE k \in found : TRUE
  OBVIOUS
<1>4. PICK elem \in 0 .. 3 : elem = MemoryVec!bits(w, 11, 10)
  BY Fields, MemoryVecBits
<1>5. CASE MemoryVec!structure(w) = MemoryVec!unallocated(w)
  BY <1>5, MemoryVecFaults
<1>6. CASE MemoryVec!structure(w) # MemoryVec!unallocated(w)
  <2>1. found # {} /\ ~ (elem = 3 /\ ~ is_quad)
    BY <1>1, <1>2, <1>3, <1>4, <1>6
       DEF MemoryVec!structure, MemoryVec!bit, MemoryVec!None, MemoryVec!D64
  <2>2. kind \in found
    BY <1>3, <2>1
  <2>3. kind \in {<<4, 4>>, <<1, 4>>, <<3, 3>>, <<1, 3>>, <<1, 1>>, <<2, 2>>, <<1, 2>>}
    BY <1>2, <2>2 DEF MemoryVec!structure_kind, MemoryVec!Some, MemoryVec!None
  <2>4. PICK count \in 1 .. 4 : count = kind[2]
    BY <2>3
  <2>5. PICK reg \in 0 .. 31 : reg = MemoryVec!transferred(w)
    BY Fields, MemoryVecBits DEF MemoryVec!transferred, MemoryVec!Rd
  <2>6. PICK vt : vt = vector(reg, elem, is_quad)
    OBVIOUS
  <2>7. PICK bytes_per_register \in {8, 16} : bytes_per_register = IF is_quad THEN 16 ELSE 8
    OBVIOUS
  <2>8. PICK addr : addr = MemoryVec!structure_address(w, post, count, bytes_per_register)
    OBVIOUS
  <2>9. PICK op : MemoryVec!structure(w) = MemoryVec!new(w, op, MemoryVec!LoadStoreVec(
            MemoryVec!vector(reg, elem, is_quad), count, addr))
    BY <1>1, <1>2, <1>3, <1>4, <1>6, <2>4, <2>5, <2>7, <2>8
       DEF MemoryVec!structure, MemoryVec!bit
  <2>10. PICK ordering : MemoryVec!LoadStoreVec(vt, count, addr)
          = [kind |-> "LoadStoreVec", vt |-> vt, count |-> count, addr |-> addr, ordering |-> ordering]
    BY DEF MemoryVec!LoadStoreVec
  <2>11. MemoryVec!structure(w)
             = Insn(w, op, [kind |-> "LoadStoreVec", vt |-> vt, count |-> count, addr |-> addr,
                            ordering |-> ordering], "X64", "Current", FALSE)
    <3>1. MemoryVec!vector(reg, elem, is_quad) = vt
      BY <2>6, MemoryVecOperands
    <3> QED
      BY <2>9, <2>10, <3>1, MemoryVecBuilds
  <2>12. VecOperandInRange(vt, op)
    BY <2>1, <2>6, VectorOperand
  <2>13. AddressInRange(addr, Pow2[vt.elem])
    BY <2>8, StructureAddress
  <2> QED
    BY <2>11, <2>12, <2>13, FineLoadStoreVec
<1> QED
  BY <1>5, <1>6

LEMMA FineMemoryVec == ASSUME NEW w \in Word32 PROVE Fine(MemoryVec!loads_and_stores_vec(w))
<1>1. PICK family : family = MemoryVec!bits(w, 29, 28)
  OBVIOUS
<1>2. family \in 0 .. 3
  <2>1. bits(w, 29, 28) \in 0 .. Pow2[2] - 1
    BY FieldOfHalf, SMT
  <2> QED
    BY <1>1, <2>1, MemoryVecBits, Powers, SMT
<1> QED
  BY <1>1, <1>2, FineStructure, FineVecLiteral, FineVecPair, FineVecSingleRegister
     DEF MemoryVec!loads_and_stores_vec

(***************************************************************************)
(* Scalar floating point.                                                  *)
(***************************************************************************)
LEMMA ScalarBits == \A w, hi, lo : Scalar!bits(w, hi, lo) = bits(w, hi, lo)
  BY DEF Scalar!bits, bits, Scalar!Pow2, Pow2

LEMMA ScalarPowers == Scalar!Pow2 = Pow2
  BY SMT DEF Scalar!Pow2, Pow2

LEMMA ScalarBuilds ==
  ASSUME NEW w, NEW op, NEW form, NEW width, NEW round
  PROVE  /\ Scalar!new(w, op, form) = Insn(w, op, form, "X64", "Current", FALSE)
         /\ Scalar!with_width(Scalar!new(w, op, form), width)
                = Insn(w, op, form, width, "Current", FALSE)
         /\ Scalar!with_round(Scalar!new(w, op, form), round)
                = Insn(w, op, form, "X64", round, FALSE)
         /\ Scalar!with_round(Scalar!with_width(Scalar!new(w, op, form), width), round)
                = Insn(w, op, form, width, round, FALSE)
<1>1. PICK i : i = Scalar!new(w, op, form)
  OBVIOUS
<1>2. i = Insn(w, op, form, "X64", "Current", FALSE)
  BY <1>1 DEF Scalar!new, Insn
<1>3. PICK j : j = Scalar!with_width(i, width)
  OBVIOUS
<1>4. j = Insn(w, op, form, width, "Current", FALSE)
  BY <1>2, <1>3 DEF Scalar!with_width, Insn
<1>5. PICK k : k = Scalar!with_round(i, round)
  OBVIOUS
<1>6. k = Insn(w, op, form, "X64", round, FALSE)
  BY <1>2, <1>5 DEF Scalar!with_round, Insn
<1>7. PICK l : l = Scalar!with_round(j, round)
  OBVIOUS
<1>8. l = Insn(w, op, form, width, round, FALSE)
  BY <1>4, <1>7 DEF Scalar!with_round, Insn
<1> QED
  BY <1>1, <1>2, <1>3, <1>4, <1>5, <1>6, <1>7, <1>8

LEMMA ScalarFaults == \A w : Fine(Scalar!unallocated(w))
  BY DEF Scalar!unallocated, Scalar!new, Fine, is_unallocated

LEMMA ScalarRegisters ==
  ASSUME NEW w \in Word32
  PROVE  Scalar!Rd_zr(w) # SP /\ Scalar!Rn_zr(w) # SP
  BY Fields, ScalarBits
     DEF Scalar!Rd_zr, Scalar!Rn_zr, Scalar!from_index_zr, Scalar!Rd, Scalar!Rn, Scalar!ZR, SP

LEMMA ScalarOperands ==
    /\ \A reg, elem : Scalar!scalar(reg, elem) = scalar(reg, elem)
    /\ \A reg, elem, is_quad : Scalar!vector(reg, elem, is_quad) = vector(reg, elem, is_quad)
    /\ \A reg, elem, lane : Scalar!element(reg, elem, lane) = element(reg, elem, lane)
  BY ScalarPowers DEF Scalar!scalar, Scalar!vector, Scalar!element, Scalar!elem_bits, scalar, vector, element, elem_bits

LEMMA ScalarFields ==
  ASSUME NEW w \in Word32
  PROVE  /\ Scalar!Rd(w) \in 0 .. 31 /\ Scalar!Rn(w) \in 0 .. 31
         /\ Scalar!Rm(w) \in 0 .. 31 /\ Scalar!Ra(w) \in 0 .. 31
  BY Fields, ScalarBits DEF Scalar!Rd, Scalar!Rn, Scalar!Rm, Scalar!Ra

\* A format is a half, a single or a double.
LEMMA FloatSize ==
  ASSUME NEW ftype, Scalar!float_size(ftype) # {}
  PROVE  /\ Scalar!the(Scalar!float_size(ftype)) \in 1 .. 3
         /\ Scalar!float_size(ftype) = {Scalar!the(Scalar!float_size(ftype))}
  BY DEF Scalar!float_size, Scalar!the, Scalar!Some, Scalar!None, Scalar!S32, Scalar!D64, Scalar!H16

LEMMA ScalarRegister ==
  ASSUME NEW reg \in 0 .. 31, NEW elem \in 1 .. 3, NEW op
  PROVE  VecOperandInRange(Scalar!scalar(reg, elem), op)
  BY ScalarOperands, ScalarOperand

\* Data operands of a scalar instruction.
LEMMA FineScalarData ==
  ASSUME NEW w, NEW op, NEW rd \in 0 .. 31, NEW rn \in 0 .. 31, NEW vm, NEW va,
         NEW to \in 1 .. 3, NEW size \in 1 .. 3, NEW round,
         \A v \in vm : VecOperandInRange(v, op)
  PROVE  Fine(Insn(w, op, Scalar!VecData(Scalar!scalar(rd, to), Scalar!scalar(rn, size), vm, va),
                   "X64", round, FALSE))
<1>1. PICK vd, vn : vd = Scalar!scalar(rd, to) /\ vn = Scalar!scalar(rn, size)
  OBVIOUS
<1>2. VecOperandInRange(vd, op) /\ VecOperandInRange(vn, op)
  BY <1>1, ScalarRegister
<1>3. Fine(Insn(w, op, [kind |-> "VecData", vd |-> vd, vn |-> vn, vm |-> vm, va |-> va],
                "X64", round, FALSE))
  BY <1>2, FineVecData
<1> QED
  BY <1>1, <1>3 DEF Scalar!VecData

LEMMA ScalarThird ==
  ASSUME NEW w \in Word32, NEW size \in 1 .. 3, NEW op
  PROVE  \A v \in Scalar!Some(Scalar!scalar(Scalar!Rm(w), size)) : VecOperandInRange(v, op)
  BY ScalarFields, ScalarRegister DEF Scalar!Some

LEMMA FineScalarThreeSource ==
  ASSUME NEW w \in Word32, NEW size \in 1 .. 3 PROVE Fine(Scalar!three_source(w, size))
<1>1. PICK rd \in 0 .. 31, rn \in 0 .. 31 : rd = Scalar!Rd(w) /\ rn = Scalar!Rn(w)
  BY ScalarFields
<1>2. PICK vm : vm = Scalar!Some(Scalar!scalar(Scalar!Rm(w), size))
  OBVIOUS
<1>3. PICK op, va : Scalar!three_source(w, size) = Scalar!new(w, op,
          Scalar!VecData(Scalar!scalar(rd, size), Scalar!scalar(rn, size), vm, va))
  BY <1>1, <1>2 DEF Scalar!three_source
<1>4. \A v \in vm : VecOperandInRange(v, op)
  BY <1>2, ScalarThird
<1>5. Scalar!three_source(w, size) = Insn(w, op,
          Scalar!VecData(Scalar!scalar(rd, size), Scalar!scalar(rn, size), vm, va),
          "X64", "Current", FALSE)
  BY <1>3, ScalarBuilds
<1> QED
  BY <1>4, <1>5, FineScalarData

LEMMA FineScalarTwoSource ==
  ASSUME NEW w \in Word32, NEW size \in 1 .. 3 PROVE Fine(Scalar!two_source(w, size))
<1>1. PICK rd \in 0 .. 31, rn \in 0 .. 31 : rd = Scalar!Rd(w) /\ rn = Scalar!Rn(w)
  BY ScalarFields
<1>2. PICK vm : vm = Scalar!Some(Scalar!scalar(Scalar!Rm(w), size))
  OBVIOUS
<1>3. CASE Scalar!two_source(w, size) = Scalar!unallocated(w)
  BY <1>3, ScalarFaults
<1>4. CASE Scalar!two_source(w, size) # Scalar!unallocated(w)
  <2>1. PICK op, va : Scalar!two_source(w, size) = Scalar!new(w, op,
            Scalar!VecData(Scalar!scalar(rd, size), Scalar!scalar(rn, size), vm, va))
    BY <1>1, <1>2, <1>4 DEF Scalar!two_source
  <2>2. \A v \in vm : VecOperandInRange(v, op)
    BY <1>2, ScalarThird
  <2>3. Scalar!two_source(w, size) = Insn(w, op,
            Scalar!VecData(Scalar!scalar(rd, size), Scalar!scalar(rn, size), vm, va),
            "X64", "Current", FALSE)
    BY <2>1, ScalarBuilds
  <2> QED
    BY <2>2, <2>3, FineScalarData
<1> QED
  BY <1>3, <1>4

LEMMA FineScalarSelect ==
  ASSUME NEW w \in Word32, NEW size \in 1 .. 3 PROVE Fine(Scalar!conditional_select(w, size))
<1>1. PICK vd, vn, vm : /\ vd = Scalar!scalar(Scalar!Rd(w), size)
                        /\ vn = Scalar!scalar(Scalar!Rn(w), size)
                        /\ vm = Scalar!Some(Scalar!scalar(Scalar!Rm(w), size))
  OBVIOUS
<1>2. ASSUME NEW op PROVE /\ VecOperandInRange(vd, op) /\ VecOperandInRange(vn, op)
                          /\ \A v \in vm : VecOperandInRange(v, op)
  BY <1>1, ScalarFields, ScalarRegister, ScalarThird
<1>3. PICK op, cond : Scalar!conditional_select(w, size) = Scalar!new(w, op,
          [kind |-> "VecCond", vd |-> vd, vn |-> vn, vm |-> vm, cond |-> cond])
  BY <1>1 DEF Scalar!conditional_select
<1>4. Scalar!conditional_select(w, size) = Insn(w, op,
          [kind |-> "VecCond", vd |-> vd, vn |-> vn, vm |-> vm, cond |-> cond], "X64", "Current", FALSE)
  BY <1>3, ScalarBuilds
<1> QED
  BY <1>2, <1>4, FineVecCond

LEMMA FineScalarCompares ==
  ASSUME NEW w \in Word32, NEW size \in 1 .. 3
  PROVE  Fine(Scalar!compare(w, size)) /\ Fine(Scalar!conditional_compare(w, size))
<1>1. ASSUME NEW op, NEW form, form.kind \in {"VecCompare", "VecCondCompare"}
      PROVE  Fine(Scalar!new(w, op, form))
  <2>1. Scalar!new(w, op, form) = Insn(w, op, form, "X64", "Current", FALSE)
    BY ScalarBuilds
  <2>2. form.kind \in Unconstrained
    BY <1>1 DEF Unconstrained
  <2> QED
    BY <2>1, <2>2, FineUnconstrained
<1>2. Fine(Scalar!compare(w, size))
  <2>1. \/ Scalar!compare(w, size) = Scalar!unallocated(w)
        \/ \E op, form : /\ Scalar!compare(w, size) = Scalar!new(w, op, form)
                          /\ form.kind = "VecCompare"
    BY DEF Scalar!compare
  <2> QED
    BY <1>1, <2>1, ScalarFaults
<1>3. Fine(Scalar!conditional_compare(w, size))
  <2>1. PICK op, form : /\ Scalar!conditional_compare(w, size) = Scalar!new(w, op, form)
                        /\ form.kind = "VecCondCompare"
    BY DEF Scalar!conditional_compare
  <2> QED
    BY <1>1, <2>1
<1> QED
  BY <1>2, <1>3

LEMMA FineScalarOneSource ==
  ASSUME NEW w \in Word32, NEW size \in 1 .. 3 PROVE Fine(Scalar!one_source(w, size))
<1>1. PICK rd \in 0 .. 31, rn \in 0 .. 31 : rd = Scalar!Rd(w) /\ rn = Scalar!Rn(w)
  BY ScalarFields
<1>2. PICK opcode : opcode = Scalar!bits(w, 20, 15)
  OBVIOUS
<1>3. PICK to : to = IF opcode \in {4, 5, 7} THEN Scalar!the(Scalar!float_size(opcode % 4)) ELSE size
  OBVIOUS
<1>4. to \in 1 .. 3
  <2>1. CASE opcode \in {4, 5, 7}
    <3>1. opcode % 4 \in {0, 1, 3}
      BY <2>1
    <3>2. Scalar!float_size(opcode % 4) # {}
      BY <3>1 DEF Scalar!float_size, Scalar!Some
    <3> QED
      BY <1>3, <2>1, <3>2, FloatSize
  <2>2. CASE opcode \notin {4, 5, 7}
    BY <1>3, <2>2
  <2> QED
    BY <2>1, <2>2
<1>5. \/ Scalar!one_source(w, size) = Scalar!unallocated(w)
      \/ \E op, round : Scalar!one_source(w, size) = Scalar!with_round(Scalar!new(w, op,
             Scalar!VecData(Scalar!scalar(rd, to), Scalar!scalar(rn, size), {}, {})), round)
  BY <1>1, <1>2, <1>3 DEF Scalar!one_source, Scalar!None
<1>6. ASSUME NEW op, NEW round
      PROVE  Fine(Scalar!with_round(Scalar!new(w, op,
             Scalar!VecData(Scalar!scalar(rd, to), Scalar!scalar(rn, size), {}, {})), round))
  <2>1. PICK vm, va : vm = {} /\ va = {}
    OBVIOUS
  <2>2. \A v \in vm : VecOperandInRange(v, op)
    BY <2>1
  <2>3. Fine(Insn(w, op, Scalar!VecData(Scalar!scalar(rd, to), Scalar!scalar(rn, size), vm, va),
                  "X64", round, FALSE))
    BY <1>4, <2>2, FineScalarData
  <2> QED
    BY <2>1, <2>3, ScalarBuilds
<1> QED
  BY <1>5, <1>6, ScalarFaults

\* A number has no one bit above its width, and ShlBits moves them all up.
LEMMA SmallFields ==
  ASSUME NEW v \in Nat
  PROVE  /\ OneBits((v \div 16) % 4) \subseteq 0 .. 1 /\ OneBits(v % 16) \subseteq 0 .. 3
         /\ v < 256 => OneBits(v) \subseteq 0 .. 7
<1>1. PICK a \in 0 .. 3, b \in 0 .. 15 : a = (v \div 16) % 4 /\ b = v % 16
  BY SMT
<1>2. PICK k2 \in 0 .. 26, k4 \in 0 .. 26, k8 \in 0 .. 26 : k2 = 2 /\ k4 = 4 /\ k8 = 8
  OBVIOUS
<1>3. a < Pow2[k2] /\ b < Pow2[k4] /\ (v < 256 => v < Pow2[k8])
  BY <1>2, Powers, SMT
<1>4. a \in Nat /\ b \in Nat
  BY SMT
<1>5. OneBits(a) \subseteq 0 .. k2 - 1 /\ OneBits(b) \subseteq 0 .. k4 - 1
  BY <1>3, <1>4, OneBitsBelow
<1>6. ASSUME v < 256 PROVE OneBits(v) \subseteq 0 .. k8 - 1
  BY <1>3, <1>6, OneBitsBelow, SMT
<1> QED
  BY <1>1, <1>2, <1>5, <1>6, SMT

LEMMA ScalarBitSets ==
    /\ \A n : Scalar!OneBits(n) = OneBits(n)
    /\ \A b, k : Scalar!ShlBits(b, k) = ShlBits(b, k)
  BY ScalarPowers DEF Scalar!OneBits, OneBits, Scalar!ShlBits, ShlBits

\* VFPExpandImm builds a value of the format's width.
LEMMA ExpandedFields ==
  ASSUME NEW imm8 \in Nat, NEW e \in {5, 8, 11}, NEW m \in {10, 23, 52}
  PROVE  Scalar!expanded_float(imm8, e, m) \subseteq 0 .. e + m
<1>1. PICK low, mantissa : /\ low = Scalar!OneBits((imm8 \div 16) % 4)
                           /\ mantissa = Scalar!OneBits(imm8 % 16)
  OBVIOUS
<1>2. low \subseteq 0 .. 1 /\ mantissa \subseteq 0 .. 3
  BY <1>1, SmallFields, ScalarBitSets
<1>3. PICK not_b, repeated, sign :
         /\ not_b \subseteq {e - 1} /\ repeated \subseteq 2 .. e - 2 /\ sign \subseteq {e + m}
         /\ Scalar!expanded_float(imm8, e, m)
                = sign \cup Scalar!ShlBits(not_b \cup repeated \cup low, m) \cup Scalar!ShlBits(mantissa, m - 4)
  BY <1>1 DEF Scalar!expanded_float
<1>4. PICK exponent : exponent = not_b \cup repeated \cup low
  OBVIOUS
<1>5. exponent \subseteq 0 .. e - 1
  BY <1>2, <1>3, <1>4
<1>6. ShlBits(exponent, m) \subseteq 0 .. e + m - 1
  <2>1. PICK k \in Nat, n \in Nat : k = m /\ n = e
    OBVIOUS
  <2>2. exponent \subseteq 0 .. n - 1
    BY <1>5, <2>1
  <2>3. ShlBits(exponent, k) \subseteq 0 .. n + k - 1
    BY <2>2, ShiftedBits
  <2> QED
    BY <2>1, <2>3
<1>7. ShlBits(mantissa, m - 4) \subseteq 0 .. m - 1
  <2>1. PICK k \in Nat, n \in Nat : k = m - 4 /\ n = 4
    OBVIOUS
  <2>2. mantissa \subseteq 0 .. n - 1
    BY <1>2, <2>1
  <2>3. ShlBits(mantissa, k) \subseteq 0 .. n + k - 1
    BY <2>2, ShiftedBits
  <2> QED
    BY <2>1, <2>3
<1>8. Scalar!expanded_float(imm8, e, m) = sign \cup ShlBits(exponent, m) \cup ShlBits(mantissa, m - 4)
  BY <1>3, <1>4, ScalarBitSets
<1>9. sign \subseteq {e + m}
  BY <1>3
<1>10. PICK top \in Nat : top = e + m
  OBVIOUS
<1>11. 0 .. e + m - 1 \subseteq 0 .. top /\ 0 .. m - 1 \subseteq 0 .. top /\ {e + m} \subseteq 0 .. top
  BY <1>10
<1> QED
  BY <1>6, <1>7, <1>8, <1>9, <1>10, <1>11, Zenon

LEMMA ExpandedFloat ==
  ASSUME NEW imm8 \in Nat, NEW size \in 1 .. 3
  PROVE  Scalar!expand_float_immediate(imm8, size) \subseteq 0 .. elem_bits(size) - 1
<1>1. PICK e \in {5, 8, 11}, m \in {10, 23, 52} :
         /\ Scalar!expand_float_immediate(imm8, size) = Scalar!expanded_float(imm8, e, m)
         /\ e + m = elem_bits(size) - 1
  <2>1. CASE size = 1
    BY <2>1, ElementSizes DEF Scalar!expand_float_immediate, Scalar!H16, Scalar!D64
  <2>2. CASE size = 2
    BY <2>2, ElementSizes DEF Scalar!expand_float_immediate, Scalar!H16, Scalar!D64
  <2>3. CASE size = 3
    BY <2>3, ElementSizes DEF Scalar!expand_float_immediate, Scalar!H16, Scalar!D64
  <2> QED
    BY <2>1, <2>2, <2>3
<1> QED
  BY <1>1, ExpandedFields

LEMMA ImmediateField == ASSUME NEW w \in Word32 PROVE bits(w, 20, 13) \in Nat
<1>1. PICK h \in Half, l \in Half : w.hi = h /\ w.lo = l
  BY DEF Word32
<1>2. bits(w, 20, 13) = (l \div 8192) + (h % 32) * 8
  BY <1>1, Powers, SMT DEF bits
<1>3. PICK q \in Nat : q = l \div 8192
  BY Halves, SMT
<1>4. PICK r \in 0 .. 31 : r = h % 32
  BY Halves, SMT
<1> QED
  BY <1>2, <1>3, <1>4, SMT

LEMMA FineScalarMove ==
  ASSUME NEW w \in Word32, NEW size \in 1 .. 3 PROVE Fine(Scalar!move_immediate(w, size))
<1>1. PICK vd : vd = Scalar!scalar(Scalar!Rd(w), size)
  OBVIOUS
<1>2. PICK imm : imm = Scalar!expand_float_immediate(Scalar!bits(w, 20, 13), size)
  OBVIOUS
<1>3. imm \subseteq 0 .. elem_bits(size) - 1
  BY <1>2, ImmediateField, ScalarBits, ExpandedFloat
<1>4. vd.elem = size /\ \A op : VecOperandInRange(vd, op)
  BY <1>1, ScalarFields, ScalarOperand, ScalarOperands
<1>5. \/ Scalar!move_immediate(w, size) = Scalar!unallocated(w)
      \/ Scalar!move_immediate(w, size) = Scalar!new(w, "FmovImm", Scalar!VecImm(vd, vd, imm))
  BY <1>1, <1>2 DEF Scalar!move_immediate
<1>6. PICK op : op = "FmovImm"
  OBVIOUS
<1>7. Scalar!new(w, "FmovImm", Scalar!VecImm(vd, vd, imm))
          = Insn(w, op, [kind |-> "VecImm", vd |-> vd, vn |-> vd, imm |-> imm], "X64", "Current", FALSE)
  BY <1>6, ScalarBuilds DEF Scalar!VecImm
<1>8. VecImmInRange([kind |-> "VecImm", vd |-> vd, vn |-> vd, imm |-> imm], op)
  BY <1>3, <1>4, <1>6 DEF VecImmInRange
<1> QED
  BY <1>5, <1>7, <1>8, FineVecImm, ScalarFaults

LEMMA FineScalarGprMove ==
  ASSUME NEW w \in Word32, NEW op, NEW to_gpr, NEW vec, NEW width, NEW round,
         VecOperandInRange(vec, op)
  PROVE  Fine(Insn(w, op, Scalar!VecGprMove(Scalar!gpr_side(w, to_gpr), vec), width, round, FALSE))
<1>1. PICK gpr : gpr = Scalar!gpr_side(w, to_gpr) /\ gpr # SP
  BY ScalarRegisters DEF Scalar!gpr_side
<1>2. Fine(Insn(w, op, [kind |-> "VecGprMove", gpr |-> gpr, vec |-> vec], width, round, FALSE))
  BY <1>1, FineVecGprMove
<1> QED
  BY <1>1, <1>2 DEF Scalar!VecGprMove

LEMMA ScalarVecSide ==
  ASSUME NEW w \in Word32, NEW to_gpr PROVE Scalar!vec_side(w, to_gpr) \in 0 .. 31
  BY ScalarFields DEF Scalar!vec_side

LEMMA FineScalarMoveBetween ==
  ASSUME NEW w \in Word32, NEW width, NEW kind PROVE Fine(Scalar!move_between_files(w, width, kind))
<1>1. PICK reg \in 0 .. 31 : reg = Scalar!vec_side(w, kind.is_to_gpr)
  BY ScalarVecSide
<1>2. PICK size : size = Scalar!float_size(Scalar!bits(w, 23, 22))
  OBVIOUS
<1>3. CASE Scalar!move_between_files(w, width, kind) = Scalar!unallocated(w)
  BY <1>3, ScalarFaults
<1>4. CASE Scalar!move_between_files(w, width, kind) # Scalar!unallocated(w)
  <2>1. PICK vec : /\ \/ vec = Scalar!element(reg, Scalar!D64, 1)
                      \/ size # {} /\ vec = Scalar!scalar(reg, Scalar!the(size))
                   /\ Scalar!move_between_files(w, width, kind)
                          = Scalar!with_width(Scalar!new(w, kind.op,
                                Scalar!VecGprMove(Scalar!gpr_side(w, kind.is_to_gpr), vec)), width)
    BY <1>1, <1>2, <1>4 DEF Scalar!move_between_files, Scalar!None
  <2>2. PICK op, to_gpr : op = kind.op /\ to_gpr = kind.is_to_gpr
    OBVIOUS
  <2>3. Scalar!move_between_files(w, width, kind)
            = Insn(w, op, Scalar!VecGprMove(Scalar!gpr_side(w, to_gpr), vec), width, "Current", FALSE)
    BY <2>1, <2>2, ScalarBuilds
  <2>4. VecOperandInRange(vec, op)
    <3>1. CASE vec = Scalar!element(reg, Scalar!D64, 1)
      <4>1. PICK elem \in 0 .. 4, lane \in Nat : elem = 3 /\ lane = 1
        OBVIOUS
      <4>2. (lane + 1) * elem_bits(elem) <= 128
        BY <4>1, ElementSizes
      <4>3. vec = element(reg, elem, lane)
        BY <3>1, <4>1, ScalarOperands DEF Scalar!D64
      <4> QED
        BY <4>2, <4>3, ElementOperand
    <3>2. CASE size # {} /\ vec = Scalar!scalar(reg, Scalar!the(size))
      <4>1. Scalar!the(size) \in 1 .. 3
        BY <1>2, <3>2, FloatSize
      <4> QED
        BY <3>2, <4>1, ScalarRegister
    <3> QED
      BY <2>1, <3>1, <3>2
  <2> QED
    BY <2>3, <2>4, FineScalarGprMove
<1> QED
  BY <1>3, <1>4

LEMMA FineScalarInteger == ASSUME NEW w \in Word32 PROVE Fine(Scalar!integer_conversion(w))
<1>1. PICK size : size = Scalar!float_size(Scalar!bits(w, 23, 22))
  OBVIOUS
<1>2. PICK kind : kind = Scalar!the(Scalar!conversion_kind(Scalar!bits(w, 20, 19), Scalar!bits(w, 18, 16)))
  OBVIOUS
<1>3. PICK width : width = Scalar!from_sf(Scalar!bit(w, 31))
  OBVIOUS
<1>4. PICK reg \in 0 .. 31 : reg = Scalar!vec_side(w, kind.is_to_gpr)
  BY ScalarVecSide
<1>5. \/ Scalar!integer_conversion(w) = Scalar!unallocated(w)
      \/ Scalar!integer_conversion(w) = Scalar!move_between_files(w, width, kind)
      \/ size # {} /\ Scalar!integer_conversion(w) = Scalar!with_round(Scalar!with_width(
             Scalar!new(w, kind.op, Scalar!VecGprMove(Scalar!gpr_side(w, kind.is_to_gpr),
                 Scalar!scalar(reg, Scalar!the(size)))), width), kind.round)
  BY <1>1, <1>2, <1>3, <1>4 DEF Scalar!integer_conversion, Scalar!None
<1>6. CASE size # {} /\ Scalar!integer_conversion(w) = Scalar!with_round(Scalar!with_width(
             Scalar!new(w, kind.op, Scalar!VecGprMove(Scalar!gpr_side(w, kind.is_to_gpr),
                 Scalar!scalar(reg, Scalar!the(size)))), width), kind.round)
  <2>1. PICK vec : vec = Scalar!scalar(reg, Scalar!the(size))
    OBVIOUS
  <2>2. PICK op, to_gpr, round : op = kind.op /\ to_gpr = kind.is_to_gpr /\ round = kind.round
    OBVIOUS
  <2>3. Scalar!integer_conversion(w)
            = Insn(w, op, Scalar!VecGprMove(Scalar!gpr_side(w, to_gpr), vec), width, round, FALSE)
    BY <1>6, <2>1, <2>2, ScalarBuilds
  <2>4. VecOperandInRange(vec, op)
    BY <1>1, <1>6, <2>1, FloatSize, ScalarRegister
  <2> QED
    BY <2>3, <2>4, FineScalarGprMove
<1> QED
  BY <1>5, <1>6, FineScalarMoveBetween, ScalarFaults

LEMMA FineScalarFixed == ASSUME NEW w \in Word32 PROVE Fine(Scalar!fixed_point_conversion(w))
<1>1. PICK size : size = Scalar!float_size(Scalar!bits(w, 23, 22))
  OBVIOUS
<1>2. PICK width : width = Scalar!from_sf(Scalar!bit(w, 31))
  OBVIOUS
<1>3. CASE Scalar!fixed_point_conversion(w) = Scalar!unallocated(w)
  BY <1>3, ScalarFaults
<1>4. CASE Scalar!fixed_point_conversion(w) # Scalar!unallocated(w)
  <2>1. size # {}
    BY <1>1, <1>4 DEF Scalar!fixed_point_conversion, Scalar!None
  <2>2. PICK op, to_gpr : Scalar!fixed_point_conversion(w) = Scalar!with_round(Scalar!with_width(
            Scalar!new(w, op, Scalar!VecGprMove(Scalar!gpr_side(w, to_gpr),
                Scalar!scalar(Scalar!vec_side(w, to_gpr), Scalar!the(size)))), width), "Zero")
    BY <1>1, <1>2, <1>4 DEF Scalar!fixed_point_conversion
  <2>3. PICK vec, round : vec = Scalar!scalar(Scalar!vec_side(w, to_gpr), Scalar!the(size))
                          /\ round = "Zero"
    OBVIOUS
  <2>4. Scalar!fixed_point_conversion(w)
            = Insn(w, op, Scalar!VecGprMove(Scalar!gpr_side(w, to_gpr), vec), width, round, FALSE)
    BY <2>2, <2>3, ScalarBuilds
  <2>5. VecOperandInRange(vec, op)
    BY <1>1, <2>1, <2>3, FloatSize, ScalarRegister, ScalarVecSide
  <2> QED
    BY <2>4, <2>5, FineScalarGprMove
<1> QED
  BY <1>3, <1>4

LEMMA FineScalar == ASSUME NEW w \in Word32 PROVE Fine(Scalar!data_processing(w))
<1>1. PICK found, size : found = Scalar!float_size(Scalar!bits(w, 23, 22)) /\ size = Scalar!the(found)
  OBVIOUS
<1>2. PICK row \in 0 .. 3 : row = Scalar!bits(w, 11, 10)
  BY Fields, ScalarBits
<1>3. ASSUME found # {} PROVE size \in 1 .. 3
  BY <1>1, <1>3, FloatSize
<1>4. CASE found = {}
  <2>1. \/ Scalar!data_processing(w) = Scalar!unallocated(w)
        \/ Scalar!data_processing(w) = Scalar!fixed_point_conversion(w)
        \/ Scalar!data_processing(w) = Scalar!integer_conversion(w)
    BY <1>1, <1>4 DEF Scalar!data_processing, Scalar!None
  <2> QED
    BY <2>1, FineScalarFixed, FineScalarInteger, ScalarFaults
<1>5. CASE found # {}
  <2>1. size \in 1 .. 3
    BY <1>3, <1>5
  <2>2. Fine(Scalar!compare_or_one_source(w, size))
    BY <2>1, FineScalarOneSource, FineScalarCompares, FineScalarMove, ScalarFaults
       DEF Scalar!compare_or_one_source
  <2>3. \/ Scalar!data_processing(w) = Scalar!unallocated(w)
        \/ Scalar!data_processing(w) = Scalar!fixed_point_conversion(w)
        \/ Scalar!data_processing(w) = Scalar!integer_conversion(w)
        \/ Scalar!data_processing(w) = Scalar!three_source(w, size)
        \/ Scalar!data_processing(w) = CASE row = 0 -> Scalar!compare_or_one_source(w, size)
                                          [] row = 1 -> Scalar!conditional_compare(w, size)
                                          [] row = 2 -> Scalar!two_source(w, size)
                                          [] row = 3 -> Scalar!conditional_select(w, size)
    BY <1>1, <1>2, <1>5 DEF Scalar!data_processing, Scalar!None
  <2> QED
    BY <2>1, <2>2, <2>3, FineScalarThreeSource, FineScalarCompares, FineScalarTwoSource,
       FineScalarSelect, FineScalarFixed, FineScalarInteger, ScalarFaults
<1> QED
  BY <1>4, <1>5

(***************************************************************************)
(* Advanced SIMD.                                                          *)
(***************************************************************************)
LEMMA NeonBits == \A w, hi, lo : Neon!bits(w, hi, lo) = bits(w, hi, lo)
  BY DEF Neon!bits, bits, Neon!Pow2, Pow2

LEMMA NeonPowers == Neon!Pow2 = Pow2
  BY SMT DEF Neon!Pow2, Pow2

LEMMA NeonBuilds ==
  ASSUME NEW w, NEW op, NEW form, NEW width, NEW is
  PROVE  /\ Neon!new(w, op, form) = Insn(w, op, form, "X64", "Current", FALSE)
         /\ Neon!with_width(Neon!new(w, op, form), width)
                = Insn(w, op, form, width, "Current", FALSE)
         /\ Neon!setting_flags(Neon!with_width(Neon!new(w, op, form), width), is)
                = Insn(w, op, form, width, "Current", is)
<1>1. PICK i : i = Neon!new(w, op, form)
  OBVIOUS
<1>2. i = Insn(w, op, form, "X64", "Current", FALSE)
  BY <1>1 DEF Neon!new, Insn
<1>3. PICK j : j = Neon!with_width(i, width)
  OBVIOUS
<1>4. j = Insn(w, op, form, width, "Current", FALSE)
  BY <1>2, <1>3 DEF Neon!with_width, Insn
<1>5. Neon!setting_flags(j, is) = Insn(w, op, form, width, "Current", is)
  BY <1>4 DEF Neon!setting_flags, Insn
<1> QED
  BY <1>1, <1>2, <1>3, <1>4, <1>5

LEMMA NeonFaults == \A w : Fine(Neon!unallocated(w))
  BY DEF Neon!unallocated, Neon!new, Fine, is_unallocated

LEMMA NeonRegisters ==
  ASSUME NEW w \in Word32
  PROVE  Neon!Rd_zr(w) # SP /\ Neon!Rn_zr(w) # SP
  BY Fields, NeonBits
     DEF Neon!Rd_zr, Neon!Rn_zr, Neon!from_index_zr, Neon!Rd, Neon!Rn, Neon!ZR, SP

LEMMA NeonOperands ==
    /\ \A reg, elem : Neon!scalar(reg, elem) = scalar(reg, elem)
    /\ \A reg, elem, is_quad : Neon!vector(reg, elem, is_quad) = vector(reg, elem, is_quad)
    /\ \A reg, elem, lane : Neon!element(reg, elem, lane) = element(reg, elem, lane)
  BY NeonPowers DEF Neon!scalar, Neon!vector, Neon!element, Neon!elem_bits, scalar, vector, element, elem_bits

LEMMA NeonFields ==
  ASSUME NEW w \in Word32
  PROVE  /\ Neon!Rd(w) \in 0 .. 31 /\ Neon!Rn(w) \in 0 .. 31 /\ Neon!Rm(w) \in 0 .. 31
         /\ Neon!bits(w, 23, 22) \in 0 .. 3 /\ Neon!bits(w, 14, 11) \in 0 .. 15
  BY Fields, NeonBits DEF Neon!Rd, Neon!Rn, Neon!Rm

LEMMA NeonVectors ==
  ASSUME NEW w \in Word32, NEW elem \in 0 .. 3, NEW op,
         elem = 3 /\ ~ Neon!is_quad(w) => op \in OneLane
  PROVE  /\ VecOperandInRange(Neon!vec_rd(w, elem), op) /\ VecOperandInRange(Neon!vec_rn(w, elem), op)
         /\ VecOperandInRange(Neon!vec_rm(w, elem), op)
<1>1. PICK is_quad \in BOOLEAN : is_quad = Neon!is_quad(w)
  BY DEF Neon!is_quad, Neon!bit
<1>2. ASSUME NEW reg \in 0 .. 31 PROVE VecOperandInRange(vector(reg, elem, is_quad), op)
  BY <1>1, VectorOperand
<1> QED
  BY <1>1, <1>2, NeonFields, NeonOperands DEF Neon!vec_rd, Neon!vec_rn, Neon!vec_rm

LEMMA FineNeonData ==
  ASSUME NEW w, NEW op, NEW vd, NEW vn, NEW vm,
         VecOperandInRange(vd, op), VecOperandInRange(vn, op), \A v \in vm : VecOperandInRange(v, op)
  PROVE  Fine(Neon!new(w, op, Neon!VecData(vd, vn, vm, Neon!None)))
<1>1. PICK va : va = Neon!None
  OBVIOUS
<1>2. Neon!new(w, op, Neon!VecData(vd, vn, vm, Neon!None)) = Insn(w, op,
          [kind |-> "VecData", vd |-> vd, vn |-> vn, vm |-> vm, va |-> va], "X64", "Current", FALSE)
  BY <1>1, NeonBuilds DEF Neon!VecData
<1> QED
  BY <1>2, FineVecData

LEMMA FineNeonPair ==
  ASSUME NEW w, NEW op, NEW vd, NEW vn, VecOperandInRange(vd, op), VecOperandInRange(vn, op)
  PROVE  Fine(Neon!new(w, op, Neon!VecData(vd, vn, Neon!None, Neon!None)))
<1>1. PICK vm : vm = Neon!None
  OBVIOUS
<1>2. \A v \in vm : VecOperandInRange(v, op)
  BY <1>1 DEF Neon!None
<1>3. Fine(Neon!new(w, op, Neon!VecData(vd, vn, vm, Neon!None)))
  BY <1>2, FineNeonData
<1> QED
  BY <1>1, <1>3

LEMMA FineUnary ==
  ASSUME NEW w \in Word32, NEW elem \in 0 .. 3, NEW op,
         elem = 3 /\ ~ Neon!is_quad(w) => op \in OneLane
  PROVE  Fine(Neon!unary(w, op, elem))
<1>1. PICK vd, vn : vd = Neon!vec_rd(w, elem) /\ vn = Neon!vec_rn(w, elem)
  OBVIOUS
<1>2. VecOperandInRange(vd, op) /\ VecOperandInRange(vn, op)
  BY <1>1, NeonVectors
<1> QED
  BY <1>1, <1>2, FineNeonPair DEF Neon!unary

LEMMA FineBinary ==
  ASSUME NEW w \in Word32, NEW elem \in 0 .. 3, NEW op,
         elem = 3 /\ ~ Neon!is_quad(w) => op \in OneLane
  PROVE  Fine(Neon!binary(w, op, elem))
<1>1. PICK vd, vn, vm : /\ vd = Neon!vec_rd(w, elem) /\ vn = Neon!vec_rn(w, elem)
                        /\ vm = Neon!Some(Neon!vec_rm(w, elem))
  OBVIOUS
<1>2. VecOperandInRange(vd, op) /\ VecOperandInRange(vn, op)
  BY <1>1, NeonVectors
<1>3. \A v \in vm : VecOperandInRange(v, op)
  BY <1>1, NeonVectors DEF Neon!Some
<1>4. Neon!binary(w, op, elem) = Neon!new(w, op, Neon!VecData(vd, vn, vm, Neon!None))
  BY <1>1 DEF Neon!binary
<1> QED
  BY <1>2, <1>3, <1>4, FineNeonData

LEMMA FineThreeSame ==
  ASSUME NEW w \in Word32
  PROVE  Fine(Neon!three_same(w)) /\ Fine(Neon!three_same_logical(w)) /\ Fine(Neon!permute(w))
<1>1. PICK elem \in 0 .. 3 : elem = Neon!bits(w, 23, 22)
  BY NeonFields
<1>2. ASSUME elem = 3, ~ Neon!is_quad(w)
      PROVE  Neon!three_same(w) = Neon!unallocated(w) /\ Neon!permute(w) = Neon!unallocated(w)
  BY <1>1, <1>2 DEF Neon!three_same, Neon!permute, Neon!D64
<1>3. ASSUME ~ (elem = 3 /\ ~ Neon!is_quad(w)), NEW op PROVE Fine(Neon!binary(w, op, elem))
  BY <1>3, FineBinary
<1>4. Fine(Neon!three_same(w))
  <2>1. \/ Neon!three_same(w) = Neon!unallocated(w)
        \/ \E op : Neon!three_same(w) = Neon!binary(w, op, elem)
    BY <1>1 DEF Neon!three_same
  <2> QED
    BY <1>2, <1>3, <2>1, NeonFaults
<1>5. Fine(Neon!permute(w))
  <2>1. \/ Neon!permute(w) = Neon!unallocated(w)
        \/ \E op : Neon!permute(w) = Neon!binary(w, op, elem)
    BY <1>1 DEF Neon!permute
  <2> QED
    BY <1>2, <1>3, <2>1, NeonFaults
<1>6. Fine(Neon!three_same_logical(w))
  <2>1. PICK byte \in 0 .. 3 : byte = Neon!B8 /\ ~ (byte = 3)
    BY DEF Neon!B8
  <2>2. PICK op : Neon!three_same_logical(w) = Neon!binary(w, op, byte)
    BY <2>1 DEF Neon!three_same_logical
  <2> QED
    BY <2>1, <2>2, FineBinary
<1> QED
  BY <1>4, <1>5, <1>6

LEMMA FineAcrossLanes == ASSUME NEW w \in Word32 PROVE Fine(Neon!across_lanes(w))
<1>1. PICK elem \in 0 .. 3 : elem = Neon!bits(w, 23, 22)
  BY NeonFields
<1>2. PICK vd, vn : vd = Neon!scalar(Neon!Rd(w), elem) /\ vn = Neon!vec_rn(w, elem)
  OBVIOUS
<1>3. \/ Neon!across_lanes(w) = Neon!unallocated(w)
      \/ \E op \in {"Uminv", "Umaxv", "Addv"} :
            Neon!across_lanes(w) = Neon!new(w, op, Neon!VecData(vd, vn, Neon!None, Neon!None))
  BY <1>1, <1>2 DEF Neon!across_lanes
<1>4. ASSUME NEW op \in {"Uminv", "Umaxv", "Addv"}
      PROVE  Fine(Neon!new(w, op, Neon!VecData(vd, vn, Neon!None, Neon!None)))
  <2>1. op \in OneLane
    BY DEF OneLane
  <2>2. VecOperandInRange(vd, op)
    BY <1>2, NeonFields, NeonOperands, ScalarOperand
  <2>3. VecOperandInRange(vn, op)
    BY <1>2, <2>1, NeonVectors
  <2> QED
    BY <2>2, <2>3, FineNeonPair
<1> QED
  BY <1>3, <1>4, NeonFaults

LEMMA FineTwoRegister == ASSUME NEW w \in Word32 PROVE Fine(Neon!two_register(w))
<1>1. PICK elem \in 0 .. 3 : elem = IF Neon!bits(w, 16, 12) = 5 THEN Neon!B8 ELSE Neon!bits(w, 23, 22)
  BY NeonFields DEF Neon!B8
<1>2. \/ Neon!two_register(w) = Neon!unallocated(w)
      \/ \E op \in {"VecRev64", "VecRev16", "VecNeg", "VecAbs"} :
            Neon!two_register(w) = Neon!unary(w, op, elem)
      \/ elem = 0 /\ \E op : Neon!two_register(w) = Neon!unary(w, op, elem)
  BY <1>1 DEF Neon!two_register, Neon!B8
<1>3. ASSUME NEW op \in {"VecRev64", "VecRev16", "VecNeg", "VecAbs"} PROVE Fine(Neon!unary(w, op, elem))
  <2>1. op \in OneLane
    BY DEF OneLane
  <2> QED
    BY <2>1, FineUnary
<1>4. ASSUME elem = 0, NEW op PROVE Fine(Neon!unary(w, op, elem))
  <2>1. ~ (elem = 3)
    BY <1>4
  <2> QED
    BY <2>1, FineUnary
<1> QED
  BY <1>2, <1>3, <1>4, NeonFaults

\* A lane that an imm5 or an imm4 names lies inside the register.
LEMMA LanesFit ==
  ASSUME NEW f \in 0 .. 31, NEW e \in 0 .. 3
  PROVE  /\ (f \div Pow2[e + 1] + 1) * elem_bits(e) <= 128
         /\ f < 16 => (f \div Pow2[e] + 1) * elem_bits(e) <= 128
<1>1. CASE e = 0
  BY <1>1, Powers, ElementSizes, SMT
<1>2. CASE e = 1
  BY <1>2, Powers, ElementSizes, SMT
<1>3. CASE e = 2
  BY <1>3, Powers, ElementSizes, SMT
<1>4. CASE e = 3
  BY <1>4, Powers, ElementSizes, SMT
<1> QED
  BY <1>1, <1>2, <1>3, <1>4

LEMMA FineNeonGprMove ==
  ASSUME NEW w, NEW op, NEW gpr, NEW vec, NEW width, gpr # SP, VecOperandInRange(vec, op)
  PROVE  /\ Fine(Neon!new(w, op, Neon!VecGprMove(gpr, vec)))
         /\ Fine(Neon!with_width(Neon!new(w, op, Neon!VecGprMove(gpr, vec)), width))
<1>1. /\ Neon!new(w, op, Neon!VecGprMove(gpr, vec))
             = Insn(w, op, [kind |-> "VecGprMove", gpr |-> gpr, vec |-> vec], "X64", "Current", FALSE)
      /\ Neon!with_width(Neon!new(w, op, Neon!VecGprMove(gpr, vec)), width)
             = Insn(w, op, [kind |-> "VecGprMove", gpr |-> gpr, vec |-> vec], width, "Current", FALSE)
  BY NeonBuilds DEF Neon!VecGprMove
<1> QED
  BY <1>1, FineVecGprMove

LEMMA NeonElement ==
  ASSUME NEW reg \in 0 .. 31, NEW elem \in 0 .. 3, NEW lane, NEW op,
         (lane + 1) * elem_bits(elem) <= 128
  PROVE  VecOperandInRange(Neon!element(reg, elem, lane), op)
  BY NeonOperands, ElementOperand

LEMMA FineCopy == ASSUME NEW w \in Word32 PROVE Fine(Neon!copy(w))
<1>1. PICK imm5 \in 0 .. 31, imm4 \in 0 .. 15, rd \in 0 .. 31, rn \in 0 .. 31 :
         imm5 = Neon!Rm(w) /\ imm4 = Neon!bits(w, 14, 11) /\ rd = Neon!Rd(w) /\ rn = Neon!Rn(w)
  BY NeonFields
<1>2. PICK found, f : found = Neon!lane_from_imm5(imm5) /\ f = CHOOSE x \in found : TRUE
  OBVIOUS
<1>3. CASE found = {}
  BY <1>1, <1>2, <1>3, NeonFaults DEF Neon!copy, Neon!None
<1>4. CASE found # {}
  <2>1. f \in found
    BY <1>2, <1>4
  <2>2. PICK elem \in 0 .. 3 : f = <<elem, imm5 \div Pow2[elem + 1]>>
    BY <1>2, <2>1, NeonPowers DEF Neon!lane_from_imm5, Neon!B8, Neon!D64
  <2>3. PICK lane, source : lane = imm5 \div Pow2[elem + 1] /\ source = imm4 \div Pow2[elem]
    OBVIOUS
  <2>4. (lane + 1) * elem_bits(elem) <= 128 /\ (source + 1) * elem_bits(elem) <= 128
    BY <2>3, LanesFit
  <2>5. f[1] = elem /\ f[2] = lane
    BY <2>2, <2>3
  <2>6. Fine(Neon!insert_element(w, elem, lane))
    <3>1. PICK op, vd, vn : op = "Ins" /\ vd = Neon!element(rd, elem, lane)
                            /\ vn = Neon!element(rn, elem, source)
      OBVIOUS
    <3>2. VecOperandInRange(vd, op) /\ VecOperandInRange(vn, op)
      BY <2>4, <3>1, NeonElement
    <3>3. Neon!insert_element(w, elem, lane) = Neon!new(w, op, Neon!VecData(vd, vn, Neon!None, Neon!None))
      BY <1>1, <2>3, <3>1, NeonPowers DEF Neon!insert_element
    <3> QED
      BY <3>2, <3>3, FineNeonPair
  <2>7. PICK dup : dup = "Dup" /\ dup \in OneLane
    BY DEF OneLane
  <2>8. VecOperandInRange(Neon!vec_rd(w, elem), dup)
    BY <2>7, NeonVectors
  <2>9. Fine(Neon!duplicate_from_element(w, elem, lane))
    <3>1. PICK vd, vn : vd = Neon!vec_rd(w, elem) /\ vn = Neon!element(rn, elem, lane)
      OBVIOUS
    <3>2. VecOperandInRange(vd, dup) /\ VecOperandInRange(vn, dup)
      BY <2>4, <2>8, <3>1, NeonElement
    <3>3. Neon!duplicate_from_element(w, elem, lane)
              = Neon!new(w, dup, Neon!VecData(vd, vn, Neon!None, Neon!None))
      BY <1>1, <2>7, <3>1 DEF Neon!duplicate_from_element
    <3> QED
      BY <3>2, <3>3, FineNeonPair
  <2>10. Fine(Neon!duplicate_from_gpr(w, elem))
    <3>1. PICK gpr : gpr = Neon!Rn_zr(w) /\ gpr # SP
      BY NeonRegisters
    <3>2. Neon!duplicate_from_gpr(w, elem) = Neon!new(w, dup, Neon!VecGprMove(gpr, Neon!vec_rd(w, elem)))
      BY <2>7, <3>1 DEF Neon!duplicate_from_gpr
    <3> QED
      BY <2>8, <3>1, <3>2, FineNeonGprMove
  <2>11. Fine(Neon!insert_from_gpr(w, elem, lane))
    <3>1. PICK gpr, op, vec : /\ gpr = Neon!Rn_zr(w) /\ gpr # SP /\ op = "InsGpr"
                              /\ vec = Neon!element(rd, elem, lane)
      BY NeonRegisters
    <3>2. VecOperandInRange(vec, op)
      BY <2>4, <3>1, NeonElement
    <3>3. Neon!insert_from_gpr(w, elem, lane) = Neon!new(w, op, Neon!VecGprMove(gpr, vec))
      BY <1>1, <3>1 DEF Neon!insert_from_gpr
    <3> QED
      BY <3>1, <3>2, <3>3, FineNeonGprMove
  <2>12. ASSUME NEW signed PROVE Fine(Neon!move_to_gpr(w, elem, lane, signed))
    <3>1. PICK gpr, op, vec, width :
             /\ gpr = Neon!Rd_zr(w) /\ gpr # SP /\ op = (IF signed THEN "Smov" ELSE "Umov")
             /\ vec = Neon!element(rn, elem, lane) /\ width = Neon!from_sf(Neon!is_quad(w))
      BY NeonRegisters
    <3>2. VecOperandInRange(vec, op)
      BY <2>4, <3>1, NeonElement
    <3>3. Neon!move_to_gpr(w, elem, lane, signed)
              = Neon!with_width(Neon!new(w, op, Neon!VecGprMove(gpr, vec)), width)
      BY <1>1, <3>1 DEF Neon!move_to_gpr
    <3> QED
      BY <3>1, <3>2, <3>3, FineNeonGprMove
  <2>13. Fine(Neon!move_to_gpr(w, elem, lane, TRUE)) /\ Fine(Neon!move_to_gpr(w, elem, lane, FALSE))
    BY <2>12
  <2>14. Fine(Neon!copy_lane(w, elem, lane))
    BY <2>6, <2>9, <2>10, <2>11, <2>13, NeonFaults DEF Neon!copy_lane
  <2>15. Neon!copy(w) = Neon!copy_lane(w, f[1], f[2])
    BY <1>1, <1>2, <1>4 DEF Neon!copy, Neon!None
  <2> QED
    BY <2>5, <2>14, <2>15
<1> QED
  BY <1>3, <1>4

LEMMA FineTable == ASSUME NEW w \in Word32 PROVE Fine(Neon!table_lookup(w))
<1>1. PICK byte \in 0 .. 3 : byte = Neon!B8 /\ byte # 3
  BY DEF Neon!B8
<1>2. PICK vd : vd = Neon!vec_rd(w, byte)
  OBVIOUS
<1>3. PICK table_len \in 1 .. 4 : table_len = Neon!bits(w, 14, 13) + 1
  <2>1. bits(w, 14, 13) \in 0 .. Pow2[2] - 1
    BY FieldOfHalf, SMT
  <2>2. bits(w, 14, 13) \in 0 .. 3
    BY <2>1, Powers, SMT
  <2> QED
    BY <2>2, NeonBits
<1>4. PICK op, table, vm : Neon!table_lookup(w) = Neon!new(w, op, [kind |-> "TableLookup", vd |-> vd,
          table |-> table, table_len |-> table_len, vm |-> vm])
  BY <1>1, <1>2, <1>3 DEF Neon!table_lookup
<1>5. Neon!table_lookup(w) = Insn(w, op, [kind |-> "TableLookup", vd |-> vd,
          table |-> table, table_len |-> table_len, vm |-> vm], "X64", "Current", FALSE)
  BY <1>4, NeonBuilds
<1>6. VecOperandInRange(vd, op)
  BY <1>1, <1>2, NeonVectors
<1> QED
  BY <1>5, <1>6, FineTableLookup

LEMMA NeonBitSets ==
    /\ \A n : Neon!OneBits(n) = OneBits(n)
    /\ \A b, k : Neon!ShlBits(b, k) = ShlBits(b, k)
    /\ \A e : Neon!elem_bits(e) = elem_bits(e)
  BY NeonPowers DEF Neon!OneBits, OneBits, Neon!ShlBits, ShlBits, Neon!elem_bits, elem_bits

\* A number below 128 is what NumberOf reads back from its one bits.
LEMMA NumberOfBits ==
  ASSUME NEW n \in 0 .. 127
  PROVE  NumberOf(OneBits(n)) = n /\ OneBits(n) \subseteq 0 .. 6
<1>1. /\ 0 \in OneBits(n) <=> (n \div 1) % 2 = 1
      /\ 1 \in OneBits(n) <=> (n \div 2) % 2 = 1
      /\ 2 \in OneBits(n) <=> (n \div 4) % 2 = 1
      /\ 3 \in OneBits(n) <=> (n \div 8) % 2 = 1
      /\ 4 \in OneBits(n) <=> (n \div 16) % 2 = 1
      /\ 5 \in OneBits(n) <=> (n \div 32) % 2 = 1
      /\ 6 \in OneBits(n) <=> (n \div 64) % 2 = 1
  BY Powers, SMT DEF OneBits
<1>2. PICK b : b = OneBits(n)
  OBVIOUS
<1>3. NumberOf(b) = (IF 0 \in b THEN 1 ELSE 0) + (IF 1 \in b THEN 2 ELSE 0)
                        + (IF 2 \in b THEN 4 ELSE 0) + (IF 3 \in b THEN 8 ELSE 0)
                        + (IF 4 \in b THEN 16 ELSE 0) + (IF 5 \in b THEN 32 ELSE 0)
                        + (IF 6 \in b THEN 64 ELSE 0)
  BY Powers, SMT DEF NumberOf
<1>4. NumberOf(b) = n
  BY <1>1, <1>2, <1>3, SMT
<1>5. OneBits(n) \subseteq 0 .. 6
  <2>1. PICK k \in 0 .. 26 : k = 7 /\ n < Pow2[k]
    BY Powers, SMT
  <2> QED
    BY <2>1, OneBitsBelow
<1> QED
  BY <1>2, <1>4, <1>5

\* The number of lanes and their width, of a vector operand.
LEMMA NeonCounts ==
  ASSUME NEW w \in Word32, NEW elem \in 0 .. 3
  PROVE  /\ Neon!vec_rd(w, elem).elem = elem
         /\ Neon!vec_rd(w, elem).count = (IF Neon!is_quad(w) THEN 128 ELSE 64) \div elem_bits(elem)
<1>1. Neon!vec_rd(w, elem) = vector(Neon!Rd(w), elem, Neon!is_quad(w))
  BY NeonOperands DEF Neon!vec_rd
<1> QED
  BY <1>1 DEF vector

LEMMA FineNeonImm ==
  ASSUME NEW w, NEW op, NEW vd, NEW vn, NEW imm,
         VecImmInRange([kind |-> "VecImm", vd |-> vd, vn |-> vn, imm |-> imm], op)
  PROVE  Fine(Neon!new(w, op, Neon!VecImm(vd, vn, imm)))
<1>1. Neon!new(w, op, Neon!VecImm(vd, vn, imm))
          = Insn(w, op, [kind |-> "VecImm", vd |-> vd, vn |-> vn, imm |-> imm], "X64", "Current", FALSE)
  BY NeonBuilds DEF Neon!VecImm
<1> QED
  BY <1>1, FineVecImm

LEMMA FineExtractVector == ASSUME NEW w \in Word32 PROVE Fine(Neon!extract(w))
<1>1. PICK index \in 0 .. 15 : index = Neon!bits(w, 14, 11)
  BY NeonFields
<1>2. CASE ~ Neon!is_quad(w) /\ index >= 8
  BY <1>1, <1>2, NeonFaults DEF Neon!extract
<1>3. CASE ~ (~ Neon!is_quad(w) /\ index >= 8)
  <2>1. PICK byte \in 0 .. 3 : byte = Neon!B8 /\ byte = 0 /\ byte # 3
    BY DEF Neon!B8
  <2>2. PICK op, vd, vn, imm : /\ op = "Ext" /\ vd = Neon!vec_rd(w, byte) /\ vn = Neon!vec_rn(w, byte)
                               /\ imm = OneBits(index)
    OBVIOUS
  <2>3. VecOperandInRange(vd, op) /\ VecOperandInRange(vn, op)
    BY <2>1, <2>2, NeonVectors
  <2>4. vd.elem = 0 /\ elem_bits(vd.elem) = 8 /\ vd.count = (IF Neon!is_quad(w) THEN 16 ELSE 8)
    BY <2>1, <2>2, NeonCounts, ElementSizes
  <2>5. index \in 0 .. 127
    OBVIOUS
  <2>6. NumberOf(imm) = index /\ imm \subseteq 0 .. 6
    BY <2>2, <2>5, NumberOfBits
  <2>7. NumberOf(imm) < vd.count
    BY <1>3, <2>4, <2>6
  <2>8. imm \subseteq 0 .. elem_bits(vd.elem) - 1
    BY <2>4, <2>6
  <2>9. VecImmInRange([kind |-> "VecImm", vd |-> vd, vn |-> vn, imm |-> imm], op)
    BY <2>2, <2>3, <2>7, <2>8 DEF VecImmInRange
  <2>10. Neon!extract(w) = Neon!new(w, op, Neon!VecImm(vd, vn, imm))
    BY <1>1, <1>3, <2>1, <2>2, NeonBitSets DEF Neon!extract
  <2> QED
    BY <2>9, <2>10, FineNeonImm
<1> QED
  BY <1>2, <1>3

\* Bits below m, moved up by k, are below m + k.
LEMMA MovedUp ==
  ASSUME NEW v \in Nat, v < 256, NEW k \in {0, 8, 16, 24} PROVE ShlBits(OneBits(v), k) \subseteq 0 .. k + 7
<1>1. PICK b : b = OneBits(v)
  OBVIOUS
<1>2. b \subseteq 0 .. 7
  BY <1>1, SmallFields, SMT
<1> QED
  BY <1>1, <1>2, SMT DEF ShlBits

LEMMA ExpandedSingle ==
  ASSUME NEW imm8 \in Nat, imm8 < 256 PROVE Neon!expand_float32(imm8) \subseteq 0 .. 31
<1>1. PICK low, mantissa : low = Neon!OneBits((imm8 \div 16) % 4) /\ mantissa = Neon!OneBits(imm8 % 16)
  OBVIOUS
<1>2. low \subseteq 0 .. 1 /\ mantissa \subseteq 0 .. 3
  BY <1>1, SmallFields, NeonBitSets
<1>3. PICK sign, exponent :
         /\ sign = (IF 7 \in Neon!OneBits(imm8) THEN {31} ELSE {})
         /\ exponent = (IF 6 \in Neon!OneBits(imm8) THEN 25 .. 29 ELSE {30})
  OBVIOUS
<1>6. Neon!expand_float32(imm8)
          = sign \cup exponent \cup Neon!ShlBits(low, 23) \cup Neon!ShlBits(mantissa, 19)
  BY <1>1, <1>3, Zenon DEF Neon!expand_float32
<1>7. sign \subseteq {31} /\ exponent \subseteq 25 .. 30
  BY <1>3
<1>4. Neon!ShlBits(low, 23) \subseteq 23 .. 24 /\ Neon!ShlBits(mantissa, 19) \subseteq 19 .. 22
  BY <1>2, SMT DEF Neon!ShlBits
<1>5. /\ {31} \subseteq 0 .. 31 /\ 25 .. 30 \subseteq 0 .. 31
      /\ 23 .. 24 \subseteq 0 .. 31 /\ 19 .. 22 \subseteq 0 .. 31
  OBVIOUS
<1> QED
  BY <1>4, <1>5, <1>6, <1>7, Zenon

\* What expand_advsimd_immediate finds: bits within an element, and the element
\* a doubleword for the byte mask alone.
LEMMA ExpandedVector ==
  ASSUME NEW imm8 \in Nat, imm8 < 256, NEW cmode \in 0 .. 15, NEW is_inverted \in BOOLEAN,
         NEW f \in Neon!expand_advsimd_immediate(imm8, cmode, is_inverted)
  PROVE  /\ f[2] \in 0 .. 3 /\ f[1] \subseteq 0 .. elem_bits(f[2]) - 1
         /\ f[2] = 3 => cmode = 14
<1>1. PICK half \in 0 .. 7 : half = cmode \div 2
  BY SMT
<1>2. PICK b : b = OneBits(imm8)
  OBVIOUS
<1>3. b \subseteq 0 .. 7
  BY <1>2, SmallFields, SMT
<1>4. CASE half < 4
  <2>1. PICK k \in {0, 8, 16, 24} : k = 8 * half
    BY <1>4, SMT
  <2>2. f = <<ShlBits(b, k), 2>>
    BY <1>1, <1>2, <1>4, <2>1, NeonBitSets
       DEF Neon!expand_advsimd_immediate, Neon!Some, Neon!S32
  <2>3. ShlBits(b, k) \subseteq 0 .. k + 7
    BY <1>2, MovedUp
  <2>4. f[1] \subseteq 0 .. 31 /\ f[2] = 2
    BY <2>2, <2>3
  <2> QED
    BY <2>4, ElementSizes
<1>5. CASE half \in {4, 5}
  <2>1. PICK k \in {0, 8, 16, 24} : k = 8 * (half % 2) /\ k <= 8
    BY <1>5, SMT
  <2>2. f = <<ShlBits(b, k), 1>>
    BY <1>1, <1>2, <1>5, <2>1, NeonBitSets
       DEF Neon!expand_advsimd_immediate, Neon!Some, Neon!H16
  <2>3. ShlBits(b, k) \subseteq 0 .. k + 7
    BY <1>2, MovedUp
  <2>4. f[1] \subseteq 0 .. 15 /\ f[2] = 1
    BY <2>1, <2>2, <2>3
  <2> QED
    BY <2>4, ElementSizes
<1>6. CASE half = 6
  <2>1. PICK k \in {0, 8, 16, 24} : k = 8 * ((half % 2) + 1) /\ k = 8
    BY <1>6, SMT
  <2>2. f = <<ShlBits(b, k) \cup 0 .. k - 1, 2>>
    BY <1>1, <1>2, <1>6, <2>1, NeonBitSets
       DEF Neon!expand_advsimd_immediate, Neon!Some, Neon!S32
  <2>3. ShlBits(b, k) \subseteq 0 .. k + 7
    BY <1>2, MovedUp
  <2>4. f[1] \subseteq 0 .. 31 /\ f[2] = 2
    BY <2>1, <2>2, <2>3
  <2> QED
    BY <2>4, ElementSizes
<1>7. CASE half = 7
  <2>1. f \in Neon!expand_wide_immediate(imm8, cmode, is_inverted)
    BY <1>1, <1>7 DEF Neon!expand_advsimd_immediate
  <2>2. CASE cmode = 14 /\ ~ is_inverted
    <3>1. f = <<b, 0>>
      BY <1>2, <2>1, <2>2, NeonBitSets DEF Neon!expand_wide_immediate, Neon!Some, Neon!B8
    <3> QED
      BY <1>3, <3>1, ElementSizes
  <2>3. CASE cmode = 14 /\ is_inverted
    <3>1. PICK mask : f = <<mask, 3>> /\ mask \subseteq 0 .. 63
      BY <2>1, <2>3 DEF Neon!expand_wide_immediate, Neon!Some, Neon!D64
    <3> QED
      BY <2>3, <3>1, ElementSizes
  <2>4. CASE cmode # 14
    <3>1. f = <<Neon!expand_float32(imm8), 2>>
      BY <2>1, <2>4 DEF Neon!expand_wide_immediate, Neon!Some, Neon!None, Neon!S32
    <3>2. f[1] \subseteq 0 .. 31 /\ f[2] = 2
      BY <3>1, ExpandedSingle
    <3> QED
      BY <3>2, ElementSizes
  <2> QED
    BY <2>2, <2>3, <2>4
<1> QED
  BY <1>4, <1>5, <1>6, <1>7

LEMMA NeonImmediates ==
  ASSUME NEW w \in Word32
  PROVE  /\ Neon!bits(w, 15, 12) \in 0 .. 15 /\ Neon!bits(w, 22, 19) \in 0 .. 15
         /\ Neon!bits(w, 18, 16) \in 0 .. 7 /\ Neon!bits(w, 9, 5) \in 0 .. 31
<1>1. bits(w, 22, 19) \in 0 .. Pow2[4] - 1 /\ bits(w, 18, 16) \in 0 .. Pow2[3] - 1
  BY FieldOfHalf, SMT
<1>2. bits(w, 22, 19) \in 0 .. 15 /\ bits(w, 18, 16) \in 0 .. 7
  BY <1>1, Powers, SMT
<1> QED
  BY <1>2, Fields, NeonBits

LEMMA FineMoveImmediate == ASSUME NEW w \in Word32 PROVE Fine(Neon!move_immediate(w))
<1>1. PICK cmode \in 0 .. 15, high \in 0 .. 7, low \in 0 .. 31 :
         /\ cmode = Neon!bits(w, 15, 12) /\ high = Neon!bits(w, 18, 16) /\ low = Neon!bits(w, 9, 5)
  BY NeonImmediates
<1>2. PICK is_inverted \in BOOLEAN : is_inverted = Neon!bit(w, 29)
  BY DEF Neon!bit
<1>3. PICK imm8 \in Nat : imm8 = high * 32 + low /\ imm8 < 256
  BY SMT
<1>4. PICK found, f : /\ found = Neon!expand_advsimd_immediate(imm8, cmode, is_inverted)
                      /\ f = CHOOSE x \in found : TRUE
  OBVIOUS
<1>5. CASE found = {}
  <2>1. Neon!move_immediate(w) = Neon!unallocated(w)
    BY <1>1, <1>2, <1>3, <1>4, <1>5 DEF Neon!move_immediate, Neon!None
  <2> QED
    BY <2>1, NeonFaults
<1>6. CASE found # {}
  <2>1. f \in found
    BY <1>4, <1>6
  <2>2. PICK elem, imm : elem = f[2] /\ imm = f[1]
    OBVIOUS
  <2>9. elem \in 0 .. 3 /\ imm \subseteq 0 .. elem_bits(elem) - 1 /\ (elem = 3 => cmode = 14)
    <3>1. f \in Neon!expand_advsimd_immediate(imm8, cmode, is_inverted)
      BY <1>4, <2>1
    <3>2. /\ f[2] \in 0 .. 3 /\ f[1] \subseteq 0 .. elem_bits(f[2]) - 1
          /\ f[2] = 3 => cmode = 14
      BY <1>3, <3>1, ExpandedVector
    <3> QED
      BY <2>2, <3>2
  <2>3. PICK op, vd : /\ op = (IF is_inverted /\ cmode # 14 THEN "Mvni" ELSE "Movi")
                      /\ vd = Neon!vec_rd(w, elem)
    OBVIOUS
  <2>4. elem = 3 /\ ~ Neon!is_quad(w) => op \in OneLane
    BY <2>3, <2>9 DEF OneLane
  <2>5. VecOperandInRange(vd, op) /\ vd.elem = elem
    BY <2>3, <2>4, <2>9, NeonVectors, NeonCounts
  <2>6. op \notin {"VecShl", "VecSshr", "VecUshr", "Ext"}
    BY <2>3
  <2>7. VecImmInRange([kind |-> "VecImm", vd |-> vd, vn |-> vd, imm |-> imm], op)
    BY <2>5, <2>6, <2>9 DEF VecImmInRange
  <2>8. Neon!move_immediate(w) = Neon!new(w, op, Neon!VecImm(vd, vd, imm))
    BY <1>1, <1>2, <1>3, <1>4, <1>6, <2>2, <2>3 DEF Neon!move_immediate, Neon!None
  <2> QED
    BY <2>7, <2>8, FineNeonImm
<1> QED
  BY <1>5, <1>6

\* The element that immh names puts the encoded amount between its width and
\* twice that.
LEMMA ElementOfImmh ==
  ASSUME NEW immh \in 0 .. 15, NEW low \in 0 .. 7, NEW elem \in Neon!element_from_immh(immh)
  PROVE  /\ elem \in 0 .. 3
         /\ immh * 8 + low \in elem_bits(elem) .. 2 * elem_bits(elem) - 1
<1>1. elem \in 0 .. 3 /\ Pow2[elem] <= immh /\ immh < Pow2[elem + 1]
  BY NeonPowers DEF Neon!element_from_immh, Neon!B8, Neon!D64
<1>2. PICK p \in {1, 2, 4, 8} : p = Pow2[elem] /\ 2 * p = Pow2[elem + 1] /\ elem_bits(elem) = 8 * p
  BY <1>1, Powers, ElementSizes, SMT
<1> QED
  BY <1>1, <1>2, SMT

LEMMA FineShiftByImmediate == ASSUME NEW w \in Word32 PROVE Fine(Neon!shift_by_immediate(w))
<1>1. PICK immh \in 0 .. 15, low \in 0 .. 7 : immh = Neon!bits(w, 22, 19) /\ low = Neon!bits(w, 18, 16)
  BY NeonImmediates
<1>2. PICK found, elem, opcode :
         /\ found = Neon!element_from_immh(immh) /\ elem = CHOOSE e \in found : TRUE
         /\ opcode = Neon!bits(w, 15, 11)
  OBVIOUS
<1>3. CASE found = {} \/ opcode \notin {0, 10}
  <2>1. Neon!shift_by_immediate(w) = Neon!unallocated(w)
    BY <1>1, <1>2, <1>3 DEF Neon!shift_by_immediate, Neon!None
  <2> QED
    BY <2>1, NeonFaults
<1>4. CASE ~ (found = {} \/ opcode \notin {0, 10})
  <2>1. elem \in found
    BY <1>2, <1>4
  <2>2. PICK width \in {8, 16, 32, 64}, encoded \in Nat :
           /\ elem \in 0 .. 3 /\ width = elem_bits(elem)
           /\ encoded = immh * 8 + low /\ encoded \in width .. 2 * width - 1
    <3>1. elem \in 0 .. 3 /\ immh * 8 + low \in elem_bits(elem) .. 2 * elem_bits(elem) - 1
      BY <1>2, <2>1, ElementOfImmh
    <3>2. elem_bits(elem) \in {8, 16, 32, 64}
      BY <3>1, ElementSizes
    <3> QED
      BY <3>1, <3>2
  <2>3. PICK is_left \in BOOLEAN : is_left = (opcode = 10)
    OBVIOUS
  <2>4. PICK n \in 0 .. 127 : /\ n = (IF is_left THEN encoded - width ELSE 2 * width - encoded)
                              /\ is_left => n < width
                              /\ n \in 0 .. width /\ (~ is_left => n # 0)
    BY <2>2, SMT
  <2>5. PICK op, vd, vn, imm :
           /\ op = (IF is_left THEN "VecShl" ELSE IF Neon!bit(w, 29) THEN "VecUshr" ELSE "VecSshr")
           /\ vd = Neon!vec_rd(w, elem) /\ vn = Neon!vec_rn(w, elem) /\ imm = OneBits(n)
    OBVIOUS
  <2>6. op \in OneLane
    BY <2>5 DEF OneLane
  <2>7. VecOperandInRange(vd, op) /\ VecOperandInRange(vn, op) /\ vd.elem = elem
    BY <2>2, <2>5, <2>6, NeonVectors, NeonCounts
  <2>8. NumberOf(imm) = n /\ imm \subseteq 0 .. 6
    BY <2>5, NumberOfBits
  <2>9. imm \subseteq 0 .. width - 1
    BY <2>8
  <2>10. op = "VecShl" => n < width
    BY <2>4, <2>5
  <2>11. op \in {"VecSshr", "VecUshr"} => n \in 1 .. width
    BY <2>4, <2>5
  <2>12. op # "Ext"
    BY <2>5
  <2>13. VecImmInRange([kind |-> "VecImm", vd |-> vd, vn |-> vn, imm |-> imm], op)
    BY <2>2, <2>7, <2>8, <2>9, <2>10, <2>11, <2>12 DEF VecImmInRange
  <2>14. Neon!shift_by_immediate(w) = Neon!new(w, op, Neon!VecImm(vd, vn, imm))
    BY <1>1, <1>2, <1>4, <2>2, <2>3, <2>4, <2>5, NeonBitSets DEF Neon!shift_by_immediate, Neon!None
  <2> QED
    BY <2>13, <2>14, FineNeonImm
<1> QED
  BY <1>3, <1>4

LEMMA FineNeon == ASSUME NEW w \in Word32 PROVE Fine(Neon!data_processing(w))
<1>1. Fine(Neon!immediate_or_shift(w))
  BY FineMoveImmediate, FineShiftByImmediate DEF Neon!immediate_or_shift
<1>2. Fine(Neon!bit21_clear(w))
  BY FineCopy, FineTable, FineThreeSame, FineExtractVector, NeonFaults DEF Neon!bit21_clear
<1>3. Fine(Neon!bit21_set(w))
  BY FineAcrossLanes, FineTwoRegister, FineThreeSame, NeonFaults DEF Neon!bit21_set
<1> QED
  BY <1>1, <1>2, <1>3, NeonFaults DEF Neon!data_processing

(***************************************************************************)
(* The decoder and its sweep.                                              *)
(***************************************************************************)
LEMMA FineDecode == ASSUME NEW w \in Word32 PROVE Fine(decode(w))
<1>1. Fine(unallocated(w))
  BY DEF unallocated, new, Fine, is_unallocated
<1>2. Fine(data_processing_simd_fp(w))
  BY FineScalar, FineNeon DEF data_processing_simd_fp
<1>3. PICK group : group = group_of(w)
  OBVIOUS
<1> QED
  BY <1>1, <1>2, <1>3, FineImmediate, FineBranch, FineMemory, FineMemoryVec, FineRegister DEF decode

\* A flip sets a clear bit of one half or clears a set one.
LEMMA FlippedHalf ==
  ASSUME NEW h \in Half, NEW i \in 0 .. 15
  PROVE  /\ (h \div Pow2[i]) % 2 = 1 => h - Pow2[i] \in Half
         /\ (h \div Pow2[i]) % 2 # 1 => h + Pow2[i] \in Half
<1>1. h \in Nat /\ h < 65536
  BY Halves
<1>2. PICK p \in Nat \ {0}, q \in Nat \ {0} : p = Pow2[i] /\ 2 * p * q = 65536
  <2>1. PICK q : q = Pow2[15 - i]
    OBVIOUS
  <2>2. q \in Nat \ {0} /\ Pow2[i] \in Nat \ {0} /\ 2 * Pow2[i] * q = 65536
    BY <2>1, Powers, SMT
  <2> QED
    BY <2>2
<1>3. ASSUME (h \div p) % 2 = 1 PROVE h - p \in Nat /\ h - p < 65536
  <2>1. h \div p >= 1
    BY <1>1, <1>3, SMT
  <2>2. h >= p
    BY <1>1, <2>1, SMT
  <2> QED
    BY <1>1, <2>2, SMT
<1>4. ASSUME (h \div p) % 2 # 1 PROVE h + p \in Nat /\ h + p < 65536
  <2>1. PICK d \in Nat : h \div p = 2 * d
    BY <1>1, <1>4, SMT
  <2>2. h < (2 * d + 1) * p
    BY <1>1, <2>1, SMT
  <2>3. d < q
    BY <1>1, <1>2, <2>1, SMT
  <2> QED
    BY <1>1, <1>2, <2>2, <2>3, SMT
<1>5. PICK top \in Int : top = Pow2[16] - 1 /\ top = 65535
  BY Powers, SMT
<1>6. \A n \in Nat : n < 65536 => n \in Half
  BY <1>5, SMT DEF Half
<1> QED
  BY <1>2, <1>3, <1>4, <1>6

LEMMA FlippedWord == ASSUME NEW w \in Word32, NEW i \in 0 .. 31 PROVE Flipped(w, i) \in Word32
<1>1. PICK h \in Half, l \in Half : w = [hi |-> h, lo |-> l]
  BY DEF Word32
<1>2. CASE i >= 16
  <2>1. PICK place \in 0 .. 15 : place = i - 16
    BY <1>2, SMT
  <2>2. PICK p \in Nat \ {0} : p = Pow2[place]
    BY PowersPositive, SMT
  <2>3. bit(w, i) <=> (h \div p) % 2 = 1
    BY <1>1, <1>2, <2>1, <2>2, Powers, SMT DEF bit, bits
  <2>4. PICK step : step = (IF bit(w, i) THEN -p ELSE p)
    OBVIOUS
  <2>5. h + step \in Half
    BY <2>2, <2>3, <2>4, FlippedHalf, Halves
  <2>6. Flipped(w, i) = [hi |-> h + step, lo |-> l]
    BY <1>1, <1>2, <2>1, <2>2, <2>4 DEF Flipped
  <2> QED
    BY <2>5, <2>6 DEF Word32
<1>3. CASE ~ i >= 16
  <2>1. i \in 0 .. 15
    BY <1>3, SMT
  <2>2. PICK p \in Nat \ {0} : p = Pow2[i]
    BY <2>1, PowersPositive, SMT
  <2>3. bit(w, i) <=> (l \div p) % 2 = 1
    BY <1>1, <1>3, <2>1, <2>2, Powers, SMT DEF bit, bits
  <2>4. PICK step : step = (IF bit(w, i) THEN -p ELSE p)
    OBVIOUS
  <2>5. l + step \in Half
    BY <2>1, <2>2, <2>3, <2>4, FlippedHalf, Halves
  <2>6. Flipped(w, i) = [hi |-> h, lo |-> l + step]
    BY <1>1, <1>3, <2>2, <2>4 DEF Flipped
  <2> QED
    BY <2>5, <2>6 DEF Word32
<1> QED
  BY <1>2, <1>3

LEMMA NopIsAWord == NOP \in Word32
<1>1. PICK h \in Nat, l \in Nat : h = 54531 /\ l = 8223
  BY SMT
<1>2. h < 65536 /\ l < 65536
  BY <1>1, SMT
<1>3. PICK top \in Int : top = Pow2[16] - 1 /\ top = 65535
  BY Powers, SMT
<1>4. h \in Half /\ l \in Half
  BY <1>2, <1>3, SMT DEF Half
<1> QED
  BY <1>1, <1>4 DEF NOP, Word32

\* The word is one of 32 bits, and insn is what it decodes to.
SweepInv == word \in Word32 /\ insn = decode(word)

LEMMA SweepInvariant == Spec => []SweepInv
<1>1. Init => SweepInv
  BY SeedsAssumption, NopIsAWord DEF Init, SweepInv
<1>2. SweepInv /\ [Next]_vars => SweepInv'
  <2>1. SUFFICES ASSUME SweepInv, [Next]_vars PROVE SweepInv'
    OBVIOUS
  <2>2. CASE FlipBit
    BY <2>1, <2>2, FlippedWord DEF FlipBit, SweepInv
  <2>3. CASE NextOperand
    BY <2>1, <2>3 DEF NextOperand, SweepInv
  <2>4. CASE UNCHANGED vars
    BY <2>1, <2>4 DEF vars, SweepInv
  <2> QED
    BY <2>1, <2>2, <2>3, <2>4 DEF Next
<1> QED
  BY <1>1, <1>2, PTL DEF Spec

(***************************************************************************)
(* decode/mod.rs: whatever the word, the decoder faults or returns an      *)
(* instruction whose operands are all in range.                            *)
(***************************************************************************)
THEOREM DecodedOperandsInRange ==
  \A w \in Word32 : is_unallocated(decode(w)) \/ InRange(decode(w))
  BY FineDecode DEF Fine

(***************************************************************************)
(* The sweep of any seeds, to any distance, meets no instruction with an   *)
(* operand outside its range.                                              *)
(***************************************************************************)
THEOREM SweptOperandsInRange == Spec => []OperandsInRange
<1>1. SweepInv => OperandsInRange
  BY FineDecode DEF SweepInv, OperandsInRange, Fine
<1> QED
  BY <1>1, SweepInvariant, PTL

(***************************************************************************)
(* The encodings of features the machine lacks.                            *)
(***************************************************************************)
\* Every field as a quotient and a remainder of its half.
High(w, h) ==
    /\ bits(w, 31, 31) = (h \div 32768) % 2 /\ bits(w, 30, 30) = (h \div 16384) % 2
    /\ bits(w, 29, 29) = (h \div 8192) % 2 /\ bits(w, 28, 28) = (h \div 4096) % 2
    /\ bits(w, 26, 26) = (h \div 1024) % 2 /\ bits(w, 24, 24) = (h \div 256) % 2
    /\ bits(w, 23, 23) = (h \div 128) % 2 /\ bits(w, 22, 22) = (h \div 64) % 2
    /\ bits(w, 21, 21) = (h \div 32) % 2
    /\ bits(w, 31, 30) = (h \div 16384) % 4 /\ bits(w, 30, 29) = (h \div 8192) % 4
    /\ bits(w, 29, 28) = (h \div 4096) % 4 /\ bits(w, 31, 29) = (h \div 8192) % 8
    /\ bits(w, 29, 27) = (h \div 2048) % 8 /\ bits(w, 26, 24) = (h \div 256) % 8
    /\ bits(w, 25, 23) = (h \div 128) % 8 /\ bits(w, 28, 25) = (h \div 512) % 16
    /\ bits(w, 25, 22) = (h \div 64) % 16 /\ bits(w, 24, 21) = (h \div 32) % 16
    /\ bits(w, 20, 17) = (h \div 2) % 16 /\ bits(w, 20, 16) = (h \div 1) % 32
    /\ bits(w, 21, 17) = (h \div 2) % 32 /\ bits(w, 28, 24) = (h \div 256) % 32
    /\ bits(w, 29, 24) = (h \div 256) % 64 /\ bits(w, 28, 23) = (h \div 128) % 64
    /\ bits(w, 31, 25) = (h \div 512) % 128 /\ bits(w, 31, 24) = (h \div 256) % 256
    /\ bits(w, 28, 21) = (h \div 32) % 256 /\ bits(w, 31, 22) = (h \div 64) % 1024
    /\ bits(w, 30, 21) = (h \div 32) % 1024

Low(w, l) ==
    /\ bits(w, 15, 15) = (l \div 32768) % 2 /\ bits(w, 11, 11) = (l \div 2048) % 2
    /\ bits(w, 10, 10) = (l \div 1024) % 2 /\ bits(w, 4, 4) = (l \div 16) % 2
    /\ bits(w, 11, 10) = (l \div 1024) % 4 /\ bits(w, 15, 13) = (l \div 8192) % 8
    /\ bits(w, 15, 10) = (l \div 1024) % 64

LEMMA HalfFields ==
  ASSUME NEW w \in Word32
  PROVE  \E h \in Nat, l \in Nat : h < 65536 /\ l < 65536 /\ High(w, h) /\ Low(w, l)
<1>1. PICK h \in Half, l \in Half : w.hi = h /\ w.lo = l
  BY DEF Word32
<1>2. h \in Nat /\ h < 65536 /\ l \in Nat /\ l < 65536
  BY Halves
<1>3. High(w, h)
  BY <1>1, Powers, SMT DEF bits, High
<1>4. Low(w, l)
  BY <1>1, Powers, SMT DEF bits, Low
<1> QED
  BY <1>2, <1>3, <1>4

\* The group a word is routed to.
LEMMA Routed ==
  ASSUME NEW w \in Word32
  PROVE  /\ bits(w, 28, 25) = 2 => decode(w) = unallocated(w)
         /\ bits(w, 28, 25) \in {8, 9} => decode(w) = Immediate!data_processing_immediate(w)
         /\ bits(w, 28, 25) \in {10, 11} => decode(w) = Branch!branches_exceptions_system(w)
         /\ bits(w, 28, 25) \in {4, 6, 12, 14} /\ bits(w, 26, 26) = 0
                => decode(w) = Memory!loads_and_stores(w)
         /\ bits(w, 28, 25) \in {5, 13} => decode(w) = Register!data_processing_register(w)
         /\ bits(w, 28, 25) = 7 /\ bits(w, 28, 28) = 0 => decode(w) = Neon!data_processing(w)
         /\ bits(w, 28, 25) = 15 /\ bits(w, 28, 28) = 1 => decode(w) = Scalar!data_processing(w)
<1>1. PICK n \in 0 .. 15 : n = bits(w, 28, 25)
  <2>1. PICK h \in Nat : h < 65536 /\ High(w, h)
    BY HalfFields
  <2>2. bits(w, 28, 25) = (h \div 512) % 16
    BY <2>1 DEF High
  <2>3. (h \div 512) % 16 \in 0 .. 15
    BY SMT
  <2> QED
    BY <2>2, <2>3
<1>2. group_of(w) = CASE n = 0              -> "Reserved"
          [] n \in {1, 3}       -> "Unallocated"
          [] n = 2              -> "Sve"
          [] n \in {8, 9}       -> "DataProcessingImmediate"
          [] n \in {10, 11}     -> "BranchesExceptionsSystem"
          [] n \in {4, 6, 12, 14} -> "LoadsAndStores"
          [] n \in {5, 13}      -> "DataProcessingRegister"
          [] n \in {7, 15}      -> "DataProcessingSimdFp"
  BY <1>1 DEF group_of
<1>3. PICK g : g = group_of(w)
  OBVIOUS
<1>4. /\ n = 2 => g = "Sve"
      /\ n \in {8, 9} => g = "DataProcessingImmediate"
      /\ n \in {10, 11} => g = "BranchesExceptionsSystem"
      /\ n \in {4, 6, 12, 14} => g = "LoadsAndStores"
      /\ n \in {5, 13} => g = "DataProcessingRegister"
      /\ n \in {7, 15} => g = "DataProcessingSimdFp"
  BY <1>2, <1>3, SMT
<1> QED
  BY <1>1, <1>3, <1>4 DEF decode, data_processing_simd_fp, bit

LEMMA AllFault ==
  \A w : /\ is_unallocated(unallocated(w)) /\ is_unallocated(Immediate!unallocated(w))
         /\ is_unallocated(Branch!unallocated(w)) /\ is_unallocated(Memory!unallocated(w))
         /\ is_unallocated(Register!unallocated(w)) /\ is_unallocated(Neon!unallocated(w))
         /\ is_unallocated(Scalar!unallocated(w))
  BY DEF is_unallocated, unallocated, new, Immediate!unallocated, Immediate!new,
         Branch!unallocated, Branch!new, Memory!unallocated, Memory!new, Register!unallocated,
         Register!new, Neon!unallocated, Neon!new, Scalar!unallocated, Scalar!new

\* The routing of each row that an unadvertised encoding shares.
LEMMA ExclusiveRow ==
  ASSUME NEW w \in Word32, bits(w, 29, 24) = 8
  PROVE  decode(w) = Memory!exclusive(w)
<1>1. PICK h \in Nat, l \in Nat : h < 65536 /\ l < 65536 /\ High(w, h) /\ Low(w, l)
  BY HalfFields
<1>2. /\ bits(w, 28, 25) = 4 /\ bits(w, 26, 26) = 0 /\ bits(w, 29, 28) = 0
      /\ bits(w, 24, 24) = 0
  <2>1. (h \div 256) % 64 = 8
    BY <1>1 DEF High
  <2>2. /\ (h \div 512) % 16 = 4 /\ (h \div 1024) % 2 = 0 /\ (h \div 4096) % 4 = 0
        /\ (h \div 256) % 2 = 0
    BY <2>1, SMT
  <2> QED
    BY <1>1, <2>2 DEF High
<1>3. Memory!loads_and_stores(w) = Memory!exclusive(w)
  BY <1>2, MemoryBits DEF Memory!loads_and_stores, Memory!bit
<1> QED
  BY <1>2, <1>3, Routed

LEMMA SingleRow ==
  ASSUME NEW w \in Word32, bits(w, 29, 27) = 7, bits(w, 26, 24) = 0
  PROVE  decode(w) = Memory!single_register(w) /\ bits(w, 24, 24) = 0
<1>1. PICK h \in Nat, l \in Nat : h < 65536 /\ l < 65536 /\ High(w, h) /\ Low(w, l)
  BY HalfFields
<1>2. /\ bits(w, 28, 25) = 12 /\ bits(w, 26, 26) = 0 /\ bits(w, 29, 28) = 3
      /\ bits(w, 24, 24) = 0
  <2>1. (h \div 2048) % 8 = 7 /\ (h \div 256) % 8 = 0
    BY <1>1 DEF High
  <2>2. /\ (h \div 512) % 16 = 12 /\ (h \div 1024) % 2 = 0 /\ (h \div 4096) % 4 = 3
        /\ (h \div 256) % 2 = 0
    BY <2>1, SMT
  <2> QED
    BY <1>1, <2>2 DEF High
<1>3. Memory!loads_and_stores(w) = Memory!single_register(w)
  BY <1>2, MemoryBits DEF Memory!loads_and_stores, Memory!bit
<1> QED
  BY <1>2, <1>3, Routed

LEMMA TwoSourceRow ==
  ASSUME NEW w \in Word32, bits(w, 30, 21) = 214
  PROVE  decode(w) = Register!two_source(w)
<1>1. PICK h \in Nat, l \in Nat : h < 65536 /\ l < 65536 /\ High(w, h) /\ Low(w, l)
  BY HalfFields
<1>2. /\ bits(w, 28, 25) = 13 /\ bits(w, 28, 28) = 1 /\ bits(w, 24, 21) = 6
      /\ bits(w, 29, 29) = 0 /\ bits(w, 30, 30) = 0
  <2>1. (h \div 32) % 1024 = 214
    BY <1>1 DEF High
  <2>2. /\ (h \div 512) % 16 = 13 /\ (h \div 4096) % 2 = 1 /\ (h \div 32) % 16 = 6
        /\ (h \div 8192) % 2 = 0 /\ (h \div 16384) % 2 = 0
    BY <2>1, SMT
  <2> QED
    BY <1>1, <2>2 DEF High
<1>3. Register!data_processing_register(w) = Register!two_source(w)
  BY <1>2, RegisterBits
     DEF Register!data_processing_register, Register!two_source_or_one_source, Register!sets_bit,
         Register!bit
<1> QED
  BY <1>2, <1>3, Routed

\* LSE and LOR, beside the exclusives.
LEMMA ExclusiveFaults ==
  ASSUME NEW w \in Word32, bits(w, 29, 24) = 8,
         \/ bits(w, 23, 23) = 1 /\ bits(w, 21, 21) = 1
         \/ bits(w, 31, 31) = 0 /\ bits(w, 23, 23) = 0 /\ bits(w, 21, 21) = 1
         \/ bits(w, 23, 23) = 1 /\ bits(w, 15, 15) = 0
  PROVE  is_unallocated(decode(w))
<1>1. PICK h \in Nat : h < 65536 /\ High(w, h)
  BY HalfFields
<1>2. bits(w, 31, 31) = 0 => bits(w, 31, 30) < 2
  <2>1. (h \div 32768) % 2 = 0 => (h \div 16384) % 4 < 2
    BY <1>1, SMT
  <2> QED
    BY <1>1, <2>1 DEF High
<1>3. Memory!exclusive(w) = Memory!unallocated(w)
  BY <1>2, MemoryBits DEF Memory!exclusive, Memory!exclusive_size, Memory!bit, Memory!None
<1> QED
  BY <1>3, ExclusiveRow, AllFault

\* LSE, PAuth and the unprivileged accesses, beside the loads and stores of one
\* register.
LEMMA SingleFaults ==
  ASSUME NEW w \in Word32, bits(w, 29, 27) = 7, bits(w, 26, 24) = 0,
         \/ bits(w, 21, 21) = 1 /\ bits(w, 11, 10) = 0
         \/ bits(w, 21, 21) = 1 /\ bits(w, 10, 10) = 1
         \/ bits(w, 21, 21) = 0 /\ bits(w, 11, 10) = 2
  PROVE  is_unallocated(decode(w))
<1>1. PICK l \in Nat : l < 65536 /\ Low(w, l)
  BY HalfFields
<1>2. bits(w, 10, 10) = 1 => bits(w, 11, 10) # 2
  <2>1. (l \div 1024) % 2 = 1 => (l \div 1024) % 4 # 2
    BY <1>1, SMT
  <2> QED
    BY <1>1, <2>1 DEF Low
<1>3. \A size_field : Memory!single_register_address(w, size_field) = {}
  BY <1>2, SingleRow, MemoryBits DEF Memory!single_register_address, Memory!bit, Memory!None
<1>4. Memory!single_register(w) = Memory!unallocated(w)
  BY <1>3 DEF Memory!single_register, Memory!None
<1> QED
  BY <1>4, SingleRow, AllFault

\* MTE, in the literal, pair and immediate rows.
LEMMA TagAccessFaults ==
  ASSUME NEW w \in Word32, bits(w, 29, 24) = 25
  PROVE  is_unallocated(decode(w))
<1>1. PICK h \in Nat, l \in Nat : h < 65536 /\ l < 65536 /\ High(w, h) /\ Low(w, l)
  BY HalfFields
<1>2. /\ bits(w, 28, 25) = 12 /\ bits(w, 26, 26) = 0 /\ bits(w, 29, 28) = 1
      /\ bits(w, 24, 24) = 1
  <2>1. (h \div 256) % 64 = 25
    BY <1>1 DEF High
  <2>2. /\ (h \div 512) % 16 = 12 /\ (h \div 1024) % 2 = 0 /\ (h \div 4096) % 4 = 1
        /\ (h \div 256) % 2 = 1
    BY <2>1, SMT
  <2> QED
    BY <1>1, <2>2 DEF High
<1>3. Memory!loads_and_stores(w) = Memory!unallocated(w)
  BY <1>2, MemoryBits DEF Memory!loads_and_stores, Memory!bit
<1> QED
  BY <1>2, <1>3, Routed, AllFault

LEMMA TagPairFaults ==
  ASSUME NEW w \in Word32, bits(w, 31, 22) = 418
  PROVE  is_unallocated(decode(w))
<1>1. PICK h \in Nat, l \in Nat : h < 65536 /\ l < 65536 /\ High(w, h) /\ Low(w, l)
  BY HalfFields
<1>2. /\ bits(w, 28, 25) = 4 /\ bits(w, 26, 26) = 0 /\ bits(w, 29, 28) = 2
      /\ bits(w, 31, 30) = 1 /\ bits(w, 22, 22) = 0
  <2>1. (h \div 64) % 1024 = 418
    BY <1>1 DEF High
  <2>2. /\ (h \div 512) % 16 = 4 /\ (h \div 1024) % 2 = 0 /\ (h \div 4096) % 4 = 2
        /\ (h \div 16384) % 4 = 1 /\ (h \div 64) % 2 = 0
    BY <2>1, SMT
  <2> QED
    BY <1>1, <2>2 DEF High
<1>3. Memory!loads_and_stores(w) = Memory!pair(w)
  BY <1>2, MemoryBits DEF Memory!loads_and_stores, Memory!bit
<1>4. Memory!pair(w) = Memory!unallocated(w)
  BY <1>2, MemoryBits DEF Memory!pair, Memory!bit
<1> QED
  BY <1>2, <1>3, <1>4, Routed, AllFault

LEMMA TagAddFaults ==
  ASSUME NEW w \in Word32, bits(w, 28, 23) = 35
  PROVE  is_unallocated(decode(w))
<1>1. PICK h \in Nat, l \in Nat : h < 65536 /\ l < 65536 /\ High(w, h) /\ Low(w, l)
  BY HalfFields
<1>2. bits(w, 28, 25) = 8 /\ bits(w, 25, 23) = 3
  <2>1. (h \div 128) % 64 = 35
    BY <1>1 DEF High
  <2>2. (h \div 512) % 16 = 8 /\ (h \div 128) % 8 = 3
    BY <2>1, SMT
  <2> QED
    BY <1>1, <2>2 DEF High
<1>3. Immediate!data_processing_immediate(w) = Immediate!unallocated(w)
  BY <1>2, ImmediateBits DEF Immediate!data_processing_immediate
<1> QED
  BY <1>2, <1>3, Routed, AllFault

\* CRC32, PACGA and the MTE subtractions, beside the two-source operations.
LEMMA TwoSourceFaults ==
  ASSUME NEW w \in Word32, bits(w, 30, 21) = 214,
         bits(w, 15, 13) = 2 \/ bits(w, 15, 10) \in {0, 4, 12}
  PROVE  is_unallocated(decode(w))
<1>1. PICK l \in Nat : l < 65536 /\ Low(w, l)
  BY HalfFields
<1>2. bits(w, 15, 13) = 2 => bits(w, 15, 10) \in 16 .. 23
  <2>1. (l \div 8192) % 8 = 2 => (l \div 1024) % 64 \in 16 .. 23
    BY <1>1, SMT
  <2> QED
    BY <1>1, <2>1 DEF Low
<1>3. PICK opcode \in {0, 4, 12} \cup 16 .. 23 : opcode = bits(w, 15, 10)
  BY <1>2
<1>4. Register!two_source(w) = Register!unallocated(w)
  BY <1>3, RegisterBits DEF Register!two_source
<1> QED
  BY <1>4, TwoSourceRow, AllFault

\* PAuth, beside the one-source operations and the branches to a register.
LEMMA PointerSignFaults ==
  ASSUME NEW w \in Word32, bits(w, 30, 21) = 726, bits(w, 20, 16) = 1
  PROVE  is_unallocated(decode(w))
<1>1. PICK h \in Nat, l \in Nat : h < 65536 /\ l < 65536 /\ High(w, h) /\ Low(w, l)
  BY HalfFields
<1>2. /\ bits(w, 28, 25) = 13 /\ bits(w, 28, 28) = 1 /\ bits(w, 24, 21) = 6
      /\ bits(w, 29, 29) = 0 /\ bits(w, 30, 30) = 1
  <2>1. (h \div 32) % 1024 = 726
    BY <1>1 DEF High
  <2>2. /\ (h \div 512) % 16 = 13 /\ (h \div 4096) % 2 = 1 /\ (h \div 32) % 16 = 6
        /\ (h \div 8192) % 2 = 0 /\ (h \div 16384) % 2 = 1
    BY <2>1, SMT
  <2> QED
    BY <1>1, <2>2 DEF High
<1>3. Register!data_processing_register(w) = Register!one_source(w)
  BY <1>2, RegisterBits
     DEF Register!data_processing_register, Register!two_source_or_one_source, Register!sets_bit,
         Register!bit
<1>4. Register!one_source(w) = Register!unallocated(w)
  BY RegisterBits DEF Register!one_source, Register!Rm
<1> QED
  BY <1>2, <1>3, <1>4, Routed, AllFault

LEMMA PointerBranchFaults ==
  ASSUME NEW w \in Word32, bits(w, 31, 25) = 107, bits(w, 11, 11) = 1
  PROVE  is_unallocated(decode(w))
<1>1. PICK h \in Nat, l \in Nat : h < 65536 /\ l < 65536 /\ High(w, h) /\ Low(w, l)
  BY HalfFields
<1>2. bits(w, 28, 25) = 11 /\ bits(w, 31, 29) = 6 /\ bits(w, 25, 22) \in 8 .. 15
  <2>1. (h \div 512) % 128 = 107
    BY <1>1 DEF High
  <2>2. (h \div 512) % 16 = 11 /\ (h \div 8192) % 8 = 6 /\ (h \div 64) % 16 \in 8 .. 15
    BY <2>1, SMT
  <2> QED
    BY <1>1, <2>2 DEF High
<1>3. bits(w, 15, 10) # 0
  <2>1. (l \div 2048) % 2 = 1
    BY <1>1 DEF Low
  <2>2. (l \div 1024) % 64 # 0
    BY <2>1, SMT
  <2> QED
    BY <1>1, <2>2 DEF Low
<1>4. Branch!branches_exceptions_system(w) = Branch!branch_register(w)
  BY <1>2, BranchBits DEF Branch!branches_exceptions_system
<1>5. Branch!branch_register(w) = Branch!unallocated(w)
  BY <1>3, BranchBits DEF Branch!branch_register
<1> QED
  BY <1>2, <1>4, <1>5, Routed, AllFault

\* FlagM beside the additions with carry, and HBC beside the conditional branch.
LEMMA FlagRotateFaults ==
  ASSUME NEW w \in Word32, bits(w, 28, 21) = 208, bits(w, 10, 10) = 1
  PROVE  is_unallocated(decode(w))
<1>1. PICK h \in Nat, l \in Nat : h < 65536 /\ l < 65536 /\ High(w, h) /\ Low(w, l)
  BY HalfFields
<1>2. bits(w, 28, 25) = 13 /\ bits(w, 28, 28) = 1 /\ bits(w, 24, 21) = 0
  <2>1. (h \div 32) % 256 = 208
    BY <1>1 DEF High
  <2>2. (h \div 512) % 16 = 13 /\ (h \div 4096) % 2 = 1 /\ (h \div 32) % 16 = 0
    BY <2>1, SMT
  <2> QED
    BY <1>1, <2>2 DEF High
<1>3. bits(w, 15, 10) # 0
  <2>1. (l \div 1024) % 2 = 1
    BY <1>1 DEF Low
  <2>2. (l \div 1024) % 64 # 0
    BY <2>1, SMT
  <2> QED
    BY <1>1, <2>2 DEF Low
<1>4. Register!data_processing_register(w) = Register!add_sub_with_carry(w)
  BY <1>2, RegisterBits DEF Register!data_processing_register, Register!bit
<1>5. Register!add_sub_with_carry(w) = Register!unallocated(w)
  BY <1>3, RegisterBits DEF Register!add_sub_with_carry
<1> QED
  BY <1>2, <1>4, <1>5, Routed, AllFault

LEMMA HintedBranchFaults ==
  ASSUME NEW w \in Word32, bits(w, 31, 24) = 84, bits(w, 4, 4) = 1
  PROVE  is_unallocated(decode(w))
<1>1. PICK h \in Nat, l \in Nat : h < 65536 /\ l < 65536 /\ High(w, h) /\ Low(w, l)
  BY HalfFields
<1>2. bits(w, 28, 25) = 10 /\ bits(w, 31, 29) = 2 /\ bits(w, 25, 22) \in 0 .. 3
  <2>1. (h \div 256) % 256 = 84
    BY <1>1 DEF High
  <2>2. (h \div 512) % 16 = 10 /\ (h \div 8192) % 8 = 2 /\ (h \div 64) % 16 \in 0 .. 3
    BY <2>1, SMT
  <2> QED
    BY <1>1, <2>2 DEF High
<1>3. Branch!branches_exceptions_system(w) = Branch!conditional_branch(w)
  BY <1>2, BranchBits DEF Branch!branches_exceptions_system
<1>4. Branch!conditional_branch(w) = Branch!unallocated(w)
  BY BranchBits DEF Branch!conditional_branch, Branch!bit
<1> QED
  BY <1>2, <1>3, <1>4, Routed, AllFault

\* The cryptographic extensions, beside advanced SIMD and scalar floating point.
LEMMA AesFaults ==
  ASSUME NEW w \in Word32, bits(w, 31, 24) = 78, bits(w, 21, 17) = 20, bits(w, 11, 10) = 2
  PROVE  is_unallocated(decode(w))
<1>1. PICK h \in Nat, l \in Nat : h < 65536 /\ l < 65536 /\ High(w, h) /\ Low(w, l)
  BY HalfFields
<1>2. /\ bits(w, 28, 25) = 7 /\ bits(w, 28, 28) = 0 /\ bits(w, 31, 31) = 0
      /\ bits(w, 28, 24) = 14 /\ bits(w, 21, 21) = 1 /\ bits(w, 20, 17) = 4
  <2>1. (h \div 256) % 256 = 78 /\ (h \div 2) % 32 = 20
    BY <1>1 DEF High
  <2>2. /\ (h \div 512) % 16 = 7 /\ (h \div 4096) % 2 = 0 /\ (h \div 32768) % 2 = 0
        /\ (h \div 256) % 32 = 14 /\ (h \div 32) % 2 = 1 /\ (h \div 2) % 16 = 4
    BY <2>1, SMT
  <2> QED
    BY <1>1, <2>2 DEF High
<1>3. bits(w, 10, 10) = 0 /\ bits(w, 15, 10) # 7
  <2>1. (l \div 1024) % 4 = 2
    BY <1>1 DEF Low
  <2>2. (l \div 1024) % 2 = 0 /\ (l \div 1024) % 64 # 7
    BY <2>1, SMT
  <2> QED
    BY <1>1, <2>2 DEF Low
<1>4. Neon!data_processing(w) = Neon!bit21_set(w)
  BY <1>2, NeonBits DEF Neon!data_processing, Neon!bit
<1>5. Neon!bit21_set(w) = Neon!unallocated(w)
  BY <1>2, <1>3, NeonBits DEF Neon!bit21_set, Neon!bit
<1> QED
  BY <1>2, <1>4, <1>5, Routed, AllFault

LEMMA PolynomialFaults ==
  ASSUME NEW w \in Word32, bits(w, 31, 31) = 0, bits(w, 29, 24) = 14, bits(w, 21, 21) = 1, bits(w, 15, 10) = 56
  PROVE  is_unallocated(decode(w))
<1>1. PICK h \in Nat, l \in Nat : h < 65536 /\ l < 65536 /\ High(w, h) /\ Low(w, l)
  BY HalfFields
<1>2. bits(w, 28, 25) = 7 /\ bits(w, 28, 28) = 0 /\ bits(w, 28, 24) = 14
  <2>1. (h \div 256) % 64 = 14
    BY <1>1 DEF High
  <2>2. (h \div 512) % 16 = 7 /\ (h \div 4096) % 2 = 0 /\ (h \div 256) % 32 = 14
    BY <2>1, SMT
  <2> QED
    BY <1>1, <2>2 DEF High
<1>3. bits(w, 10, 10) = 0 /\ bits(w, 11, 10) = 0
  <2>1. (l \div 1024) % 64 = 56
    BY <1>1 DEF Low
  <2>2. (l \div 1024) % 2 = 0 /\ (l \div 1024) % 4 = 0
    BY <2>1, SMT
  <2> QED
    BY <1>1, <2>2 DEF Low
<1>4. Neon!data_processing(w) = Neon!bit21_set(w)
  BY <1>2, NeonBits DEF Neon!data_processing, Neon!bit
<1>5. Neon!bit21_set(w) = Neon!unallocated(w)
  BY <1>2, <1>3, NeonBits DEF Neon!bit21_set, Neon!bit
<1> QED
  BY <1>2, <1>4, <1>5, Routed, AllFault

LEMMA WideHashFaults ==
  ASSUME NEW w \in Word32, bits(w, 31, 24) = 206
  PROVE  is_unallocated(decode(w))
<1>1. PICK h \in Nat, l \in Nat : h < 65536 /\ l < 65536 /\ High(w, h) /\ Low(w, l)
  BY HalfFields
<1>2. bits(w, 28, 25) = 7 /\ bits(w, 28, 28) = 0 /\ bits(w, 31, 31) = 1
  <2>1. (h \div 256) % 256 = 206
    BY <1>1 DEF High
  <2>2. (h \div 512) % 16 = 7 /\ (h \div 4096) % 2 = 0 /\ (h \div 32768) % 2 = 1
    BY <2>1, SMT
  <2> QED
    BY <1>1, <2>2 DEF High
<1>3. Neon!data_processing(w) = Neon!unallocated(w)
  BY <1>2, NeonBits DEF Neon!data_processing, Neon!bit
<1> QED
  BY <1>2, <1>3, Routed, AllFault

LEMMA HashFaults ==
  ASSUME NEW w \in Word32, bits(w, 31, 24) = 94
  PROVE  is_unallocated(decode(w))
<1>1. PICK h \in Nat, l \in Nat : h < 65536 /\ l < 65536 /\ High(w, h) /\ Low(w, l)
  BY HalfFields
<1>2. bits(w, 28, 25) = 15 /\ bits(w, 28, 28) = 1 /\ bits(w, 30, 30) = 1
  <2>1. (h \div 256) % 256 = 94
    BY <1>1 DEF High
  <2>2. (h \div 512) % 16 = 15 /\ (h \div 4096) % 2 = 1 /\ (h \div 16384) % 2 = 1
    BY <2>1, SMT
  <2> QED
    BY <1>1, <2>2 DEF High
<1>3. Scalar!data_processing(w) = Scalar!unallocated(w)
  BY <1>2, ScalarBits DEF Scalar!data_processing, Scalar!bit
<1> QED
  BY <1>2, <1>3, Routed, AllFault

(***************************************************************************)
(* Every word that encodes a feature on the list Unadvertised decodes as   *)
(* unallocated, and so traps, although decode/group claims the row around  *)
(* it.                                                                     *)
(***************************************************************************)
THEOREM UnadvertisedAlwaysFault ==
  \A w \in Word32 : IsUnadvertised(w) => is_unallocated(decode(w))
<1>1. SUFFICES ASSUME NEW w \in Word32, NEW pattern \in Unadvertised, Matches(w, pattern)
               PROVE  is_unallocated(decode(w))
  BY DEF IsUnadvertised
<1>2. ASSUME NEW hi, NEW lo, NEW v, <<hi, lo, v>> \in pattern PROVE bits(w, hi, lo) = v
  BY <1>1, <1>2 DEF Matches
<1>3. \/ pattern = {<<28, 25, 2>>}
      \/ pattern = {Exclusive, <<23, 23, 1>>, <<21, 21, 1>>}
      \/ pattern = {Exclusive, <<31, 31, 0>>, <<23, 23, 0>>, <<21, 21, 1>>}
      \/ pattern = {Exclusive, <<23, 23, 1>>, <<15, 15, 0>>}
      \/ pattern = SingleReg \cup {<<21, 21, 1>>, <<11, 10, 0>>}
      \/ pattern = SingleReg \cup {<<21, 21, 1>>, <<10, 10, 1>>}
      \/ pattern = SingleReg \cup {<<21, 21, 0>>, <<11, 10, 2>>}
      \/ pattern = {<<29, 24, 25>>}
      \/ pattern = {<<31, 22, 418>>}
      \/ pattern = {<<28, 23, 35>>}
      \/ pattern = TwoSource \cup {<<15, 13, 2>>}
      \/ pattern = TwoSource \cup {<<15, 10, 12>>}
      \/ pattern = TwoSource \cup {<<15, 10, 0>>}
      \/ pattern = TwoSource \cup {<<15, 10, 4>>}
      \/ pattern = {<<30, 21, 726>>, <<20, 16, 1>>}
      \/ pattern = {<<28, 21, 208>>, <<10, 10, 1>>}
      \/ pattern = {<<31, 25, 107>>, <<11, 11, 1>>}
      \/ pattern = {<<31, 24, 84>>, <<4, 4, 1>>}
      \/ pattern = {<<31, 24, 78>>, <<21, 17, 20>>, <<11, 10, 2>>}
      \/ pattern = {<<31, 24, 94>>, <<21, 21, 0>>, <<15, 15, 0>>, <<11, 10, 0>>}
      \/ pattern = {<<31, 24, 94>>, <<21, 17, 20>>, <<11, 10, 2>>}
      \/ pattern = {<<31, 24, 206>>}
      \/ pattern = {<<31, 31, 0>>, <<29, 24, 14>>, <<21, 21, 1>>, <<15, 10, 56>>}
  BY <1>1 DEF Unadvertised
<1>4. CASE pattern = {<<28, 25, 2>>}
  <2>1. bits(w, 28, 25) = 2
    BY <1>2, <1>4
  <2> QED
    BY <2>1, Routed, AllFault
<1>5. CASE pattern = {Exclusive, <<23, 23, 1>>, <<21, 21, 1>>}
  <2>1. bits(w, 29, 24) = 8 /\ bits(w, 23, 23) = 1 /\ bits(w, 21, 21) = 1
    BY <1>2, <1>5 DEF Exclusive
  <2> QED
    BY <2>1, ExclusiveFaults
<1>6. CASE pattern = {Exclusive, <<31, 31, 0>>, <<23, 23, 0>>, <<21, 21, 1>>}
  <2>1. /\ bits(w, 29, 24) = 8 /\ bits(w, 31, 31) = 0 /\ bits(w, 23, 23) = 0
        /\ bits(w, 21, 21) = 1
    BY <1>2, <1>6 DEF Exclusive
  <2> QED
    BY <2>1, ExclusiveFaults
<1>7. CASE pattern = {Exclusive, <<23, 23, 1>>, <<15, 15, 0>>}
  <2>1. bits(w, 29, 24) = 8 /\ bits(w, 23, 23) = 1 /\ bits(w, 15, 15) = 0
    BY <1>2, <1>7 DEF Exclusive
  <2> QED
    BY <2>1, ExclusiveFaults
<1>8. CASE pattern = SingleReg \cup {<<21, 21, 1>>, <<11, 10, 0>>}
  <2>1. /\ bits(w, 29, 27) = 7 /\ bits(w, 26, 24) = 0 /\ bits(w, 21, 21) = 1
        /\ bits(w, 11, 10) = 0
    BY <1>2, <1>8 DEF SingleReg
  <2> QED
    BY <2>1, SingleFaults
<1>9. CASE pattern = SingleReg \cup {<<21, 21, 1>>, <<10, 10, 1>>}
  <2>1. /\ bits(w, 29, 27) = 7 /\ bits(w, 26, 24) = 0 /\ bits(w, 21, 21) = 1
        /\ bits(w, 10, 10) = 1
    BY <1>2, <1>9 DEF SingleReg
  <2> QED
    BY <2>1, SingleFaults
<1>10. CASE pattern = SingleReg \cup {<<21, 21, 0>>, <<11, 10, 2>>}
  <2>1. /\ bits(w, 29, 27) = 7 /\ bits(w, 26, 24) = 0 /\ bits(w, 21, 21) = 0
        /\ bits(w, 11, 10) = 2
    BY <1>2, <1>10 DEF SingleReg
  <2> QED
    BY <2>1, SingleFaults
<1>11. CASE pattern = {<<29, 24, 25>>}
  <2>1. bits(w, 29, 24) = 25
    BY <1>2, <1>11
  <2> QED
    BY <2>1, TagAccessFaults
<1>12. CASE pattern = {<<31, 22, 418>>}
  <2>1. bits(w, 31, 22) = 418
    BY <1>2, <1>12
  <2> QED
    BY <2>1, TagPairFaults
<1>13. CASE pattern = {<<28, 23, 35>>}
  <2>1. bits(w, 28, 23) = 35
    BY <1>2, <1>13
  <2> QED
    BY <2>1, TagAddFaults
<1>14. CASE pattern = TwoSource \cup {<<15, 13, 2>>}
  <2>1. bits(w, 30, 21) = 214 /\ bits(w, 15, 13) = 2
    BY <1>2, <1>14 DEF TwoSource
  <2> QED
    BY <2>1, TwoSourceFaults
<1>15. CASE pattern = TwoSource \cup {<<15, 10, 12>>}
  <2>1. bits(w, 30, 21) = 214 /\ bits(w, 15, 10) = 12
    BY <1>2, <1>15 DEF TwoSource
  <2> QED
    BY <2>1, TwoSourceFaults
<1>16. CASE pattern = TwoSource \cup {<<15, 10, 0>>}
  <2>1. bits(w, 30, 21) = 214 /\ bits(w, 15, 10) = 0
    BY <1>2, <1>16 DEF TwoSource
  <2> QED
    BY <2>1, TwoSourceFaults
<1>17. CASE pattern = TwoSource \cup {<<15, 10, 4>>}
  <2>1. bits(w, 30, 21) = 214 /\ bits(w, 15, 10) = 4
    BY <1>2, <1>17 DEF TwoSource
  <2> QED
    BY <2>1, TwoSourceFaults
<1>18. CASE pattern = {<<30, 21, 726>>, <<20, 16, 1>>}
  <2>1. bits(w, 30, 21) = 726 /\ bits(w, 20, 16) = 1
    BY <1>2, <1>18
  <2> QED
    BY <2>1, PointerSignFaults
<1>19. CASE pattern = {<<28, 21, 208>>, <<10, 10, 1>>}
  <2>1. bits(w, 28, 21) = 208 /\ bits(w, 10, 10) = 1
    BY <1>2, <1>19
  <2> QED
    BY <2>1, FlagRotateFaults
<1>20. CASE pattern = {<<31, 25, 107>>, <<11, 11, 1>>}
  <2>1. bits(w, 31, 25) = 107 /\ bits(w, 11, 11) = 1
    BY <1>2, <1>20
  <2> QED
    BY <2>1, PointerBranchFaults
<1>21. CASE pattern = {<<31, 24, 84>>, <<4, 4, 1>>}
  <2>1. bits(w, 31, 24) = 84 /\ bits(w, 4, 4) = 1
    BY <1>2, <1>21
  <2> QED
    BY <2>1, HintedBranchFaults
<1>22. CASE pattern = {<<31, 24, 78>>, <<21, 17, 20>>, <<11, 10, 2>>}
  <2>1. bits(w, 31, 24) = 78 /\ bits(w, 21, 17) = 20 /\ bits(w, 11, 10) = 2
    BY <1>2, <1>22
  <2> QED
    BY <2>1, AesFaults
<1>23. CASE pattern = {<<31, 24, 94>>, <<21, 21, 0>>, <<15, 15, 0>>, <<11, 10, 0>>}
  <2>1. /\ bits(w, 31, 24) = 94 /\ bits(w, 21, 21) = 0 /\ bits(w, 15, 15) = 0
        /\ bits(w, 11, 10) = 0
    BY <1>2, <1>23
  <2> QED
    BY <2>1, HashFaults
<1>24. CASE pattern = {<<31, 24, 94>>, <<21, 17, 20>>, <<11, 10, 2>>}
  <2>1. bits(w, 31, 24) = 94 /\ bits(w, 21, 17) = 20 /\ bits(w, 11, 10) = 2
    BY <1>2, <1>24
  <2> QED
    BY <2>1, HashFaults
<1>25. CASE pattern = {<<31, 24, 206>>}
  <2>1. bits(w, 31, 24) = 206
    BY <1>2, <1>25
  <2> QED
    BY <2>1, WideHashFaults
<1>26. CASE pattern = {<<31, 31, 0>>, <<29, 24, 14>>, <<21, 21, 1>>, <<15, 10, 56>>}
  <2>1. /\ bits(w, 31, 31) = 0 /\ bits(w, 29, 24) = 14 /\ bits(w, 21, 21) = 1
        /\ bits(w, 15, 10) = 56
    BY <1>2, <1>26
  <2> QED
    BY <2>1, PolynomialFaults
<1> QED
  BY <1>3, <1>4, <1>5, <1>6, <1>7, <1>8, <1>9, <1>10, <1>11, <1>12, <1>13, <1>14, <1>15, <1>16,
     <1>17, <1>18, <1>19, <1>20, <1>21, <1>22, <1>23, <1>24, <1>25, <1>26

(***************************************************************************)
(* The sweep of any seeds, to any distance, finds no encoding of such a    *)
(* feature that decodes to an instruction.                                 *)
(***************************************************************************)
THEOREM SweptUnadvertisedFault == Spec => []UnadvertisedFaults
<1>1. SweepInv => UnadvertisedFaults
  BY UnadvertisedAlwaysFault DEF SweepInv, UnadvertisedFaults
<1> QED
  BY <1>1, SweepInvariant, PTL
=============================================================================
