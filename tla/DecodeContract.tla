--------------------------- MODULE DecodeContract ---------------------------
(***************************************************************************)
(* What the rest of the machine may rely on in a decoded instruction: the  *)
(* ranges of its operands, the bits of the word that may be left out of    *)
(* it, the encodings that must fault, and what its immediates stand for;   *)
(* and the words over which that is checked.                               *)
(***************************************************************************)
EXTENDS Decode

SameMeaning(a, b) ==
    /\ a.op = b.op /\ a.form.kind = b.form.kind
    /\ a.form = b.form
    /\ a.width = b.width /\ a.round = b.round /\ a.sets_flags = b.sets_flags

(***************************************************************************)
(* Ranges.                                                                 *)
(***************************************************************************)
NumberOf(b) == LET weight(i) == IF i \in b THEN Pow2[i] ELSE 0
               IN  weight(0) + weight(1) + weight(2) + weight(3) + weight(4) + weight(5) + weight(6)

\* The operations that build a 64-bit vector of one 64-bit lane.
OneLane == {"Movi", "Dup", "VecShl", "VecSshr", "VecUshr", "VecRev64", "VecRev16", "VecAbs",
            "VecNeg", "Addv", "Uminv", "Umaxv"}

VecOperandInRange(v, op) ==
    /\ v.reg \in Vec /\ v.elem \in ElemSize
    /\ v.shape = "Vector" => /\ v.count * elem_bits(v.elem) = IF v.half = "Full" THEN 128 ELSE 64
                             /\ v.count = 1 => op \in OneLane
    /\ v.shape = "Element" => (v.index + 1) * elem_bits(v.elem) <= 128

\* A base is never the zero register; an index and a transferred register are
\* never the stack pointer; an index is scaled by the access or not at all; a
\* write-back never goes with a scaled index or a PC-relative address.
AddressInRange(addr, bytes) ==
    /\ ZR \notin addr.base /\ SP \notin addr.index
    /\ addr.amount # 0 => Pow2[addr.amount] = bytes
    /\ has_writeback(addr) => addr.amount = 0 /\ addr.mode \in {"Immediate", "Register"}
    /\ addr.offset \in -Pow2[20] .. Pow2[20] - 4
    /\ addr.mode = "PcRelative" => addr.offset % 4 = 0

DataRegisters(form) ==
    CASE form.kind = "RegShifted"  -> {form.rd, form.rn, form.rm}
      [] form.kind = "RegExtended" -> {form.rm}
      [] form.kind = "Bitfield"    -> {form.rd, form.rn, form.rm}
      [] form.kind = "CondSelect"  -> {form.rd, form.rn, form.rm}
      [] form.kind = "ThreeSource" -> {form.rd, form.rn, form.rm, form.ra}
      [] form.kind = "LoadStore"   -> {form.rt} \cup form.rt2 \cup form.rs
      [] form.kind = "VecGprMove"  -> {form.gpr}
      [] OTHER -> {}

LoadStoreInRange(form, op, width) ==
    /\ AddressInRange(form.addr, form.size.bytes)
    /\ form.size.bytes * 8 <= width_bits(width)
    /\ form.size.is_signed => op \in {"Ldr", "Ldp"} /\ form.size.bytes * 8 < width_bits(width)
    \* A status register belongs to a store-exclusive, and to nothing else.
    /\ form.rs # None <=> op = "Stlr" /\ form.ordering.is_exclusive
    /\ form.ordering.is_acquire => op = "Ldar"
    /\ form.ordering.is_release => op = "Stlr"
    /\ op \in {"Ldar", "Stlr"} <=> form.addr.mode = "BaseOnly"
    /\ op \in {"Ldp", "Stp"} => form.rt2 # None /\ form.addr.offset % form.size.bytes = 0

VecImmInRange(form, op) ==
    LET lane == elem_bits(form.vd.elem)
        n    == NumberOf(form.imm)
    IN  /\ VecOperandInRange(form.vd, op) /\ VecOperandInRange(form.vn, op)
        /\ form.imm \subseteq 0 .. lane - 1
        /\ op = "VecShl" => n < lane
        /\ op \in {"VecSshr", "VecUshr"} => n \in 1 .. lane
        /\ op = "Ext" => n < form.vd.count

InRange(insn) ==
    LET form == insn.form
        op   == insn.op
        n    == width_bits(insn.width)
    IN  /\ SP \notin DataRegisters(form)
        /\ CASE form.kind = "RegImm" ->
                /\ form.imm \subseteq 0 .. n - 1
                /\ insn.sets_flags => form.rd # SP
                /\ op \notin {"Add", "Sub"} => form.imm # {} /\ form.imm # 0 .. n - 1
             [] form.kind = "RegShifted" ->
                form.amount < n /\ (op \in {"Add", "Sub"} => form.shift # "Ror")
             [] form.kind = "RegExtended" -> form.amount <= 4 /\ (insn.sets_flags => form.rd # SP)
             [] form.kind = "Bitfield"    -> form.immr < n /\ form.imms < n
             [] form.kind = "MoveWide"    -> form.hw * 16 < n
             [] form.kind = "BranchReg"   -> form.tested < n /\ form.offset % 4 = 0
             [] form.kind = "LoadStore"   -> LoadStoreInRange(form, op, insn.width)
             [] form.kind = "Prefetch"    -> AddressInRange(form.addr, 8) /\ ~has_writeback(form.addr)
             [] form.kind = "LoadStoreVec" ->
                /\ VecOperandInRange(form.vt, op) /\ form.count \in 1 .. 4
                /\ AddressInRange(form.addr, Pow2[form.vt.elem])
             [] form.kind \in {"VecData", "VecCond"} ->
                \A v \in {form.vd, form.vn} \cup form.vm : VecOperandInRange(v, op)
             [] form.kind = "VecImm"      -> VecImmInRange(form, op)
             [] form.kind = "VecGprMove"  -> VecOperandInRange(form.vec, op)
             [] form.kind = "TableLookup" -> form.table_len \in 1 .. 4 /\ VecOperandInRange(form.vd, op)
             [] OTHER -> TRUE

(***************************************************************************)
(* The bits of a word that its meaning does not depend on.                 *)
(***************************************************************************)
\* A rotation of a pattern by a multiple of its period is no rotation.
Period(b, n) ==
    CHOOSE p \in {2, 4, 8, 16, 32, 64} :
        /\ \A i \in 0 .. n - 1 : i \in b <=> (i + p) % n \in b
        /\ \A q \in {2, 4, 8, 16, 32} : q < p => \E i \in 0 .. n - 1 : (i \in b) # ((i + q) % n \in b)

\* Two encodings the architecture gives one meaning.
Aliased(insn) ==
    LET form == insn.form
        op   == insn.op
    IN  CASE op \in {"Add", "Sub"} /\ form.kind = "RegImm" -> IF form.imm = {} THEN {22} ELSE {}
          [] op \in {"And", "Orr", "Eor"} /\ form.kind = "RegImm" ->
             {16 + j : j \in {k \in 0 .. 5 : Pow2[k] >= Period(form.imm, width_bits(insn.width))}}
          [] op \in {"Ldr", "Str", "Prfm"} ->
             (IF form.addr.mode = "Immediate" /\ form.addr.offset = 0 THEN {24} ELSE {})
                 \cup (IF form.addr.mode = "Register" /\ form.addr.amount = 0 THEN {12} ELSE {})
          \* A non-temporal pair is a pair.
          [] op \in {"Ldp", "Stp"} /\ form.kind = "LoadStore" ->
             (IF has_writeback(form.addr) THEN {} ELSE {24})
          \* Fields that should be ones.
          [] op \in {"Ldar", "Stlr"} ->
             (IF form.rs = None THEN 16 .. 20 ELSE {}) \cup (IF form.rt2 = None THEN 10 .. 14 ELSE {})
          [] op = "Nop"  -> 5 .. 11
          [] op = "Sev"  -> {5}
          [] op = "Frint" /\ insn.round = "Current" -> {15}
          [] op = "Dup" /\ form.kind = "VecGprMove" -> {i \in 16 .. 20 : i > 16 + form.vec.elem}
          [] op = "Ins"  -> {i \in 11 .. 13 : i < 11 + form.vd.elem}
          [] OTHER -> {}

\* Fields the Form has no slot for, to be read back from the encoding: nzcv of
\* a register CCMP, Rm of EXT, the fraction bits of a fixed-point conversion.
LeftInEncoding(insn) ==
    CASE insn.op \in {"Ccmp", "Ccmn"} /\ insn.form.kind = "CondSelect" -> 0 .. 3
      [] insn.op = "Ext" -> 16 .. 20
      [] insn.op \in {"Fcvtzs", "Fcvtzu", "Scvtf", "Ucvtf"} -> 10 .. 15 \cup {21}
      [] OTHER -> {}

\* Bits the SIMD decoders never look at.
Unread(insn) ==
    LET op == insn.op
    IN  CASE op \in {"Ld1", "Ld2", "Ld3", "Ld4", "St1", "St2", "St3", "St4"} ->
             {31, 24} \cup (IF has_writeback(insn.form.addr) THEN {21} ELSE {})
          [] op \in {"Ldp", "Stp"} /\ insn.form.kind = "LoadStoreVec" -> 10 .. 14
          [] op = "Ldr" /\ insn.form.kind = "LoadStoreVec" ->
             (IF insn.form.addr.mode = "PcRelative" THEN {24} ELSE {})
          [] op \in {"Movi", "Mvni"} -> {23, 12, 11, 10}
          [] op = "VecShl" -> {29, 23, 10}
          [] op \in {"VecSshr", "VecUshr"} -> {23, 10}
          [] op \in {"Tbl", "Tbx"} -> {29, 23, 22, 15}
          [] op \in {"Trn1", "Trn2", "Uzp1", "Uzp2", "Zip1", "Zip2", "Ext", "Fcmp", "Fcmpe"} -> {15}
          [] op \in {"Dup", "Umov", "Smov"} -> {23, 22, 15}
          [] op \in {"InsGpr", "Ins"} -> {30, 23, 22, 15}
          [] op \in {"VecMul", "Addp", "Addv"} -> {29}
          [] op \in {"VecCnt", "VecNot"} -> {23, 22}
          [] OTHER -> {}

(***************************************************************************)
(* The encodings of the features docs/machine-spec.md section 2 says this  *)
(* machine lacks, as fields hi..lo with their values, and the EL1-only and *)
(* later-revision encodings that share their rows.  Not on the list, since *)
(* the decoder takes them: half-precision arithmetic (FP16), and the RDM,  *)
(* DotProd and FCMA encodings that the copy group decodes as INS or DUP.   *)
(***************************************************************************)
Exclusive == <<29, 24, 8>>
SingleReg == {<<29, 27, 7>>, <<26, 24, 0>>}
TwoSource == {<<30, 21, 214>>}
Unadvertised == {
    {<<28, 25, 2>>},                                                    \* SVE
    {Exclusive, <<23, 23, 1>>, <<21, 21, 1>>},                          \* LSE CAS
    {Exclusive, <<31, 31, 0>>, <<23, 23, 0>>, <<21, 21, 1>>},           \* LSE CASP
    {Exclusive, <<23, 23, 1>>, <<15, 15, 0>>},                          \* LOR LDLAR, STLLR
    SingleReg \cup {<<21, 21, 1>>, <<11, 10, 0>>},                      \* LSE LDADD, SWP
    SingleReg \cup {<<21, 21, 1>>, <<10, 10, 1>>},                      \* PAuth LDRAA
    SingleReg \cup {<<21, 21, 0>>, <<11, 10, 2>>},                      \* LDTR, STTR
    {<<29, 24, 25>>},                                                   \* MTE tags, LDAPUR
    {<<31, 22, 418>>},                                                  \* MTE STGP, STP of tags
    {<<28, 23, 35>>},                                                   \* MTE ADDG
    TwoSource \cup {<<15, 13, 2>>},                                     \* CRC32
    TwoSource \cup {<<15, 10, 12>>},                                    \* PAuth PACGA
    TwoSource \cup {<<15, 10, 0>>}, TwoSource \cup {<<15, 10, 4>>},     \* MTE SUBP, IRG
    {<<30, 21, 726>>, <<20, 16, 1>>},                                   \* PAuth PACIA, AUTIA
    {<<28, 21, 208>>, <<10, 10, 1>>},                                   \* FlagM RMIF
    {<<31, 25, 107>>, <<11, 11, 1>>},                                   \* PAuth BRAA, RETAA
    {<<31, 24, 84>>, <<4, 4, 1>>},                                      \* HBC BC.cond
    {<<31, 24, 78>>, <<21, 17, 20>>, <<11, 10, 2>>},                    \* AES
    {<<31, 24, 94>>, <<21, 21, 0>>, <<15, 15, 0>>, <<11, 10, 0>>},      \* SHA1, SHA256, three registers
    {<<31, 24, 94>>, <<21, 17, 20>>, <<11, 10, 2>>},                    \* SHA1, SHA256, two registers
    {<<31, 24, 206>>},                                                  \* SHA512, SHA3, SM3, SM4
    {<<31, 31, 0>>, <<29, 24, 14>>, <<21, 21, 1>>, <<15, 10, 56>>}}     \* PMULL

Matches(w, pattern) == \A f \in pattern : bits(w, f[1], f[2]) = f[3]

IsUnadvertised(w) == \E pattern \in Unadvertised : Matches(w, pattern)

(***************************************************************************)
(* What an immediate stands for.                                           *)
(***************************************************************************)
\* The element width that N and the leading ones of imms spell.
ElementOf(n, imms) ==
    IF n = 1 THEN {64} ELSE {e \in {2, 4, 8, 16, 32} : imms \in 64 - 2 * e .. 63 - e}

\* A logical immediate: the bits whose place, immr further round an element, is
\* among its imms + 1 lowest.  An element of all ones names nothing.
LogicalPattern(n, immr, imms, width) ==
    {{i \in 0 .. width_bits(width) - 1 : (i + immr) % e <= imms % e} :
        e \in {x \in ElementOf(n, imms) : x <= width_bits(width) /\ imms % x # x - 1}}

\* A floating-point immediate abcdefgh is (16 + efgh) / 16 * 2^e with e in
\* -3 .. 4, here as an m-bit fraction and an e-bit biased exponent.
FloatPattern(imm8, e, m) ==
    LET cd       == (imm8 \div 16) % 4
        exponent == Pow2[e - 1] - 1 + IF (imm8 \div 64) % 2 = 1 THEN cd - 3 ELSE cd + 1
    IN  (IF imm8 >= 128 THEN {e + m} ELSE {})
            \cup ShlBits(OneBits(exponent), m) \cup ShlBits(OneBits(imm8 % 16), m - 4)

(***************************************************************************)
(* Two sweeps.  The decoder's: every word within MaxFlips bits of one of   *)
(* Seeds; each step flips one bit.  And a sweep of two bytes, left and     *)
(* right, which are the operands of the datapath of Alu at its scale of    *)
(* one bit for a byte, and the immediate fields of the decoder; it leaves  *)
(* the word at NOP.                                                        *)
(***************************************************************************)
CONSTANTS Seeds, MaxFlips

ASSUME SeedsAssumption == Seeds \subseteq Word32

Datapath == INSTANCE AluContract

VARIABLES word, insn, flips, left, right
vars == <<word, insn, flips, left, right>>

\* The word \hd503201f.
NOP == [hi |-> 54531, lo |-> 8223]

Flipped(w, i) ==
    LET step(place) == IF bit(w, i) THEN -Pow2[place] ELSE Pow2[place]
    IN  IF i >= 16 THEN [w EXCEPT !.hi = @ + step(i - 16)] ELSE [w EXCEPT !.lo = @ + step(i)]

Init ==
    /\ flips = 0 /\ right = 0
    /\ \/ word \in Seeds \ {NOP} /\ left = 0
       \/ word = NOP /\ left \in Datapath!Word
    /\ insn = decode(word)

FlipBit ==
    /\ word # NOP /\ flips < MaxFlips
    /\ \E i \in 0 .. 31 : Flipped(word, i) # NOP /\ word' = Flipped(word, i)
    /\ insn' = decode(word')
    /\ flips' = flips + 1
    /\ UNCHANGED <<left, right>>

NextOperand ==
    /\ word = NOP /\ right < 255
    /\ right' = right + 1
    /\ UNCHANGED <<word, insn, flips, left>>

Next == FlipBit \/ NextOperand
Spec == Init /\ [][Next]_vars

(***************************************************************************)
(* Every operand of a decoded instruction (decode/group) is one the        *)
(* datapath is defined for: a shift amount, a bit position or a halfword   *)
(* within the width, an extension of at most 4, a lane inside the          *)
(* register, no stack pointer where data is read and no zero register      *)
(* where an address is, a status register on a store-exclusive and on      *)
(* nothing else, no write-back on a prefetch.  interp/fetch.rs and         *)
(* interp/memory.rs check none of this again.                              *)
(***************************************************************************)
OperandsInRange == is_unallocated(insn) \/ InRange(insn)

(***************************************************************************)
(* Flipping any one bit of an allocated word changes what it decodes to,   *)
(* or makes it fault, so no reserved field is skipped and no operand lost: *)
(* but for the encodings the architecture gives one meaning, the fields a  *)
(* Form leaves in the encoding, and the bits the SIMD decoders never read. *)
(***************************************************************************)
EveryBitCounts ==
    [][\A i \in 0 .. 31 :
          word' = Flipped(word, i) /\ ~is_unallocated(insn) /\ SameMeaning(insn, insn')
              => i \in Aliased(insn) \cup LeftInEncoding(insn) \cup Unread(insn)]_vars

(***************************************************************************)
(* An encoding on the list Unadvertised (SVE, LSE, LOR, PAuth, LDTR, MTE,  *)
(* CRC32, FlagM, HBC, the cryptographic extensions and PMULL: those of     *)
(* docs/machine-spec.md section 2 and their neighbours) decodes as         *)
(* unallocated, although its row is shared with one that is claimed.       *)
(***************************************************************************)
UnadvertisedFaults == IsUnadvertised(word) => is_unallocated(insn)

(***************************************************************************)
(* decode_bit_masks, VFPExpandImm (twice, scalar.rs and neon.rs) and the   *)
(* byte mask of MOVI build the value their fields stand for, for every     *)
(* value of the fields and at every width.                                 *)
(***************************************************************************)
ImmediatesAreExpanded ==
    /\ word = NOP /\ left < 64 /\ right < 128 =>
          \A width \in {"W32", "X64"} :
              Immediate!decode_bit_masks(right \div 64, left, right % 64, width)
                  = LogicalPattern(right \div 64, left, right % 64, width)
    /\ word = NOP /\ right = 0 =>
          /\ Scalar!expand_float_immediate(left, H16) = FloatPattern(left, 5, 10)
          /\ Scalar!expand_float_immediate(left, S32) = FloatPattern(left, 8, 23)
          /\ Scalar!expand_float_immediate(left, D64) = FloatPattern(left, 11, 52)
          /\ Neon!expand_float32(left) = FloatPattern(left, 8, 23)
          /\ \A i \in 0 .. 63 : (left \div Pow2[i \div 8]) % 2 = 1
                <=> \E f \in Neon!expand_wide_immediate(left, 14, TRUE) : i \in f[1]

(***************************************************************************)
(* The datapath the decoded operands go to (interp/flags.rs, fetch.rs) is  *)
(* integer arithmetic at both widths: C and V of an addition are unsigned  *)
(* and signed overflow; a compare and a condition decide the order the     *)
(* condition is named for; a shift, a rotate or an extension gives the     *)
(* multiple, the quotient or the permutation it stands for, for every      *)
(* amount OperandsInRange lets through.                                    *)
(***************************************************************************)
DatapathIsArithmetic ==
    word = NOP =>
    /\ Datapath!AddFlagsMeanOverflow(left, right)
    /\ Datapath!CompareDecidesOrder(left, right)
    /\ Datapath!ShiftsStayInWidth(left, right)
    /\ Datapath!ExtensionIsArithmetic(left, right)
=============================================================================
