------------------------- MODULE DecodeLoadStoreVec -------------------------
(***************************************************************************)
(* op0 = x1x0 with V = 1, the SIMD and floating-point loads and stores:    *)
(* decode/group/simd_fp/loads_stores.rs.                                   *)
(***************************************************************************)
EXTENDS Encoding

base(w)        == Rn_sp(w)
transferred(w) == Rd(w)

\* opc<1> is the top bit of the width, so a Q access has size 0.
single_size(w) ==
    LET size == bits(w, 31, 30)
    IN  CASE ~bit(w, 23) -> Some(size)
          [] bit(w, 23) /\ size = 0 -> Some(Q128)
          [] OTHER -> None

\* An ElemSize is already the log2 of its bytes.
scale_of(size) == size

register_offset(w, size) ==
    at_register(base(w), Rm_zr(w), from_option(bits(w, 15, 13)),
                IF bit(w, 12) THEN scale_of(size) ELSE 0, "None")

single_register_address(w, size) ==
    LET mode == bits(w, 11, 10)
    IN  CASE bit(w, 24) ->
             Some(at_immediate(base(w), bits(w, 21, 10) * Pow2[scale_of(size)], "None"))
          [] ~bit(w, 24) /\ bit(w, 21) ->
             (IF mode = 2 THEN Some(register_offset(w, size)) ELSE None)
          [] OTHER ->
             (IF mode = 2 THEN None
              ELSE Some(at_immediate(base(w), sign_extend(bits(w, 20, 12), 9),
                                     <<"None", "Post", "None", "Pre">>[mode + 1])))

single_register(w) ==
    LET found == single_size(w)
        size  == CHOOSE s \in found : TRUE
        addr  == single_register_address(w, size)
    IN  CASE found = None -> unallocated(w)
          [] OTHER ->
             (IF addr = None THEN unallocated(w)
              ELSE new(w, IF bit(w, 22) THEN "Ldr" ELSE "Str",
                       LoadStoreVec(scalar(transferred(w), size), 1, CHOOSE a \in addr : TRUE)))

\* opc names the width of a literal and of a pair: 4, 8 or 16 bytes.
wide_size(w) == IF bits(w, 31, 30) = 3 THEN None ELSE Some(S32 + bits(w, 31, 30))

literal(w) ==
    LET size == wide_size(w)
    IN  IF size = None THEN unallocated(w)
        ELSE new(w, "Ldr", LoadStoreVec(scalar(transferred(w), CHOOSE s \in size : TRUE), 1,
                                        at_pc(sign_extend(bits(w, 23, 5), 19) * 4)))

\* The non-temporal pair is unclaimed.
pair_writeback(w) ==
    LET mode == bits(w, 24, 23)
    IN  IF mode = 0 THEN None ELSE Some(<<"Post", "None", "Pre">>[mode])

\* Rt2 is not decoded: the form counts consecutive registers from Rt.
pair(w) ==
    LET found == wide_size(w)
        size  == CHOOSE s \in found : TRUE
        mode  == pair_writeback(w)
    IN  IF found = None \/ mode = None THEN unallocated(w)
        ELSE new(w, IF bit(w, 22) THEN "Ldp" ELSE "Stp",
                 LoadStoreVec(scalar(transferred(w), size), 2,
                     at_immediate(base(w), sign_extend(bits(w, 21, 15), 7) * Pow2[scale_of(size)],
                                  CHOOSE m \in mode : TRUE)))

\* The mnemonic's number and the number of registers, by opcode.
structure_kind(opcode) ==
    CASE opcode = 0  -> Some(<<4, 4>>)
      [] opcode = 2  -> Some(<<1, 4>>)
      [] opcode = 4  -> Some(<<3, 3>>)
      [] opcode = 6  -> Some(<<1, 3>>)
      [] opcode = 7  -> Some(<<1, 1>>)
      [] opcode = 8  -> Some(<<2, 2>>)
      [] opcode = 10 -> Some(<<1, 2>>)
      [] OTHER       -> None

\* Rm = 31 advances the base by the bytes transferred.
structure_address(w, is_post_indexed, count, bytes_per_register) ==
    CASE ~is_post_indexed -> at_base(base(w))
      [] is_post_indexed /\ Rm(w) = 31 ->
         at_immediate(base(w), count * bytes_per_register, "Post")
      [] OTHER -> at_register(base(w), Rm_zr(w), "Uxtx", 0, "Post")

structure(w) ==
    LET is_post_indexed == bit(w, 23)
        found   == structure_kind(bits(w, 15, 12))
        kind    == CHOOSE k \in found : TRUE
        is_quad == bit(w, 30)
        elem    == bits(w, 11, 10)
        op      == IF bit(w, 22) THEN <<"Ld1", "Ld2", "Ld3", "Ld4">> ELSE <<"St1", "St2", "St3", "St4">>
    IN  IF \/ ~is_post_indexed /\ bits(w, 21, 16) # 0
           \/ found = None
           \/ elem = D64 /\ ~is_quad
        THEN unallocated(w)
        ELSE new(w, op[kind[1]],
                 LoadStoreVec(vector(transferred(w), elem, is_quad), kind[2],
                     structure_address(w, is_post_indexed, kind[2], IF is_quad THEN 16 ELSE 8)))

loads_and_stores_vec(w) ==
    LET family == bits(w, 29, 28)
    IN  CASE family = 0 -> structure(w)
          [] family = 1 -> literal(w)
          [] family = 2 -> pair(w)
          [] family = 3 -> single_register(w)
=============================================================================
