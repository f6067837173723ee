-------------------------- MODULE DecodeLoadStore --------------------------
(***************************************************************************)
(* op0 = x1x0 with V = 0, the general-purpose loads and stores:            *)
(* decode/group/loads_stores.rs.                                           *)
(***************************************************************************)
EXTENDS Encoding

transferred(w) == Rd_zr(w)
base(w)        == Rn_sp(w)

transfer(w, addr, size) == LoadStore(transferred(w), None, None, addr, size, PLAIN)

\* SingleRegister::decode.  opc<1> asks for sign extension, and then opc<0>,
\* inverted, is the destination width and not the load bit.
decode_single(size_field, opc) ==
    LET signed == opc >= 2
    IN  IF signed /\ (size_field = 3 \/ (size_field = 2 /\ opc = 3)) THEN None
        ELSE Some([is_load |-> signed \/ opc % 2 = 1,
                   size    |-> access(Pow2[size_field], signed),
                   width   |-> from_sf(IF signed THEN opc % 2 = 0 ELSE size_field = 3)])

is_prefetch(size_field, opc) == size_field = 3 /\ opc = 2

\* option<1> must be set: an index is read as a word or a doubleword.
register_offset(w, size_field) ==
    LET option == bits(w, 15, 13)
    IN  IF option \in {0, 1, 4, 5} THEN None
        ELSE Some(at_register(base(w), Rm_zr(w), from_option(option),
                              IF bit(w, 12) THEN size_field ELSE 0, "None"))

\* What is left of the register-offset space is LSE, and mode 2 of the
\* unscaled space is LDTR and STTR.
single_register_address(w, size_field) ==
    LET mode == bits(w, 11, 10)
    IN  CASE bit(w, 24) ->
             Some(at_immediate(base(w), bits(w, 21, 10) * Pow2[size_field], "None"))
          [] ~bit(w, 24) /\ bit(w, 21) ->
             (IF mode = 2 THEN register_offset(w, size_field) ELSE None)
          [] OTHER ->
             (IF mode = 2 THEN None
              ELSE Some(at_immediate(base(w), sign_extend(bits(w, 20, 12), 9),
                                     <<"None", "Post", "None", "Pre">>[mode + 1])))

single_register(w) ==
    LET size_field == bits(w, 31, 30)
        opc        == bits(w, 23, 22)
        found      == single_register_address(w, size_field)
        single     == decode_single(size_field, opc)
        addr       == CHOOSE a \in found : TRUE
        t          == CHOOSE s \in single : TRUE
    IN  CASE found = None -> unallocated(w)
          [] found # None /\ is_prefetch(size_field, opc) ->
             (IF has_writeback(addr) THEN unallocated(w)
              ELSE new(w, "Prfm", Prefetch(bits(w, 4, 0), addr)))
          [] OTHER ->
             (IF single = None THEN unallocated(w)
              ELSE with_width(new(w, IF t.is_load THEN "Ldr" ELSE "Str",
                                  transfer(w, addr, t.size)), t.width))

literal(w) ==
    LET addr == at_pc(sign_extend(bits(w, 23, 5), 19) * 4)
        opc  == bits(w, 31, 30)
    IN  IF opc = 3 THEN new(w, "Prfm", Prefetch(bits(w, 4, 0), addr))
        ELSE with_width(new(w, "Ldr", transfer(w, addr,
                 access(IF opc = 1 THEN 8 ELSE 4, opc = 2))), from_sf(opc # 0))

pair_writeback(w) == <<"None", "Post", "None", "Pre">>[bits(w, 24, 23) + 1]

\* opc 1 is LDPSW, which has no store and no non-temporal form.
pair(w) ==
    LET opc     == bits(w, 31, 30)
        is_load == bit(w, 22)
        size    == access(IF opc = 2 THEN 8 ELSE 4, opc = 1)
    IN  IF opc = 3 \/ (opc = 1 /\ (~is_load \/ bits(w, 24, 23) = 0)) THEN unallocated(w)
        ELSE with_width(new(w, IF is_load THEN "Ldp" ELSE "Stp",
                 LoadStore(transferred(w), Some(from_index_zr(Ra(w))), None,
                           at_immediate(base(w), sign_extend(bits(w, 21, 15), 7) * size.bytes,
                                        pair_writeback(w)),
                           size, PLAIN)), from_sf(opc # 0))

exclusive_size(size_field, is_pair) ==
    IF is_pair /\ size_field < 2 THEN None ELSE Some(access(Pow2[size_field], FALSE))

\* Mutant: the pair bit of an acquire or release form is not refused.
exclusive_takes_cas(w) ==
    LET size     == exclusive_size(bits(w, 31, 30), bit(w, 21))
        ordering == [is_acquire |-> bit(w, 22) /\ bit(w, 15),
                     is_release |-> ~bit(w, 22) /\ bit(w, 15), is_exclusive |-> ~bit(w, 23)]
    IN  IF size = None \/ (bit(w, 23) /\ ~bit(w, 15)) THEN unallocated(w)
        ELSE with_width(new(w, IF bit(w, 22) THEN "Ldar" ELSE "Stlr",
                 LoadStore(transferred(w),
                           IF bit(w, 21) THEN Some(from_index_zr(Ra(w))) ELSE None,
                           IF ~bit(w, 23) /\ ~bit(w, 22) THEN Some(Rm_zr(w)) ELSE None,
                           at_base(base(w)), CHOOSE s \in size : TRUE, ordering)),
                 from_sf(bits(w, 31, 30) = 3))

\* Without the monitor there is neither a pair form, which would be CAS, nor
\* an unordered one.
exclusive(w) ==
    LET size_field   == bits(w, 31, 30)
        is_load      == bit(w, 22)
        is_exclusive == ~bit(w, 23)
        is_pair      == bit(w, 21)
        is_ordered   == bit(w, 15)
        size         == exclusive_size(size_field, is_pair)
        ordering     == [is_acquire   |-> is_load /\ is_ordered,
                         is_release   |-> ~is_load /\ is_ordered,
                         is_exclusive |-> is_exclusive]
    IN  IF size = None \/ (~is_exclusive /\ (is_pair \/ ~is_ordered)) THEN unallocated(w)
        ELSE with_width(new(w, IF is_load THEN "Ldar" ELSE "Stlr",
                 LoadStore(transferred(w),
                           IF is_pair THEN Some(from_index_zr(Ra(w))) ELSE None,
                           IF is_exclusive /\ ~is_load THEN Some(Rm_zr(w)) ELSE None,
                           at_base(base(w)), CHOOSE s \in size : TRUE, ordering)),
                 from_sf(size_field = 3))

\* Bit 24 is fixed at zero in the exclusive and literal families.
loads_and_stores(w) ==
    LET family == bits(w, 29, 28)
    IN  CASE bit(w, 26) \/ (family < 2 /\ bit(w, 24)) -> unallocated(w)
          [] OTHER -> (CASE family = 0 -> exclusive(w)
                         [] family = 1 -> literal(w)
                         [] family = 2 -> pair(w)
                         [] family = 3 -> single_register(w))
=============================================================================
