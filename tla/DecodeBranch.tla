---------------------------- MODULE DecodeBranch ----------------------------
(***************************************************************************)
(* op0 = 101x, branches, exceptions and system instructions:               *)
(* decode/group/branch_system.rs.                                          *)
(***************************************************************************)
EXTENDS Encoding

branch_immediate(w) ==
    new(w, IF bit(w, 31) THEN "Bl" ELSE "B",
        [kind |-> "Branch", offset |-> sign_extend(bits(w, 25, 0), 26) * 4])

\* Bit 24 is BC.cond, which needs HBC.
conditional_branch(w) ==
    IF bit(w, 24) \/ bit(w, 4) THEN unallocated(w)
    ELSE new(w, "B", [kind |-> "BranchCond", offset |-> sign_extend(bits(w, 23, 5), 19) * 4,
                      cond |-> from_bits(bits(w, 3, 0))])

compare_and_branch(w) ==
    with_width(new(w, IF bit(w, 24) THEN "Cbnz" ELSE "Cbz",
        BranchReg(Rd_zr(w), sign_extend(bits(w, 23, 5), 19) * 4, 0)), from_sf(bit(w, 31)))

\* The top bit of the tested position is also the operand width.
test_and_branch(w) ==
    with_width(new(w, IF bit(w, 24) THEN "Tbnz" ELSE "Tbz",
        BranchReg(Rd_zr(w), sign_extend(bits(w, 18, 5), 14) * 4,
                  bits(w, 31, 31) * 32 + bits(w, 23, 19))), from_sf(bit(w, 31)))

\* A non-zero op3 authenticates a pointer.  ERET names no register.
branch_register(w) ==
    LET opc      == bits(w, 24, 21)
        rm       == bits(w, 4, 0)
        indirect == [kind |-> "BranchIndirect", rn |-> Rn_zr(w)]
    IN  CASE Rm(w) # 31 \/ bits(w, 15, 10) # 0 \/ rm # 0 -> unallocated(w)
          [] OTHER ->
             CASE opc <= 2 -> new(w, <<"Br", "Blr", "Ret">>[opc + 1], indirect)
               [] opc = 4 /\ Rn(w) = 31 -> new(w, "Eret", NoForm)
               [] OTHER -> unallocated(w)

exception(w) ==
    LET opc == bits(w, 23, 21)
        ll  == bits(w, 1, 0)
        op == CASE opc = 0 /\ ll # 0 -> <<"Svc", "Hvc", "Smc">>[ll]
                [] opc = 1 /\ ll = 0 -> "Brk"
                [] opc = 2 /\ ll = 0 -> "Hlt"
                [] OTHER -> "Unallocated"
    IN  IF bits(w, 4, 2) # 0 \/ op = "Unallocated" THEN unallocated(w)
        ELSE new(w, op, Imm(bits(w, 20, 5)))

\* Every unnamed point of the hint space is a NOP.
hint(w, crm, op2) ==
    new(w, IF crm = 0 /\ op2 < 6 THEN <<"Nop", "Yield", "Wfe", "Wfi", "Sev", "Sev">>[op2 + 1]
           ELSE "Nop", NoForm)

barrier(w, crm, op2) ==
    LET op == CASE op2 = 2 -> "Clrex" [] op2 = 4 -> "Dsb" [] op2 = 5 -> "Dmb" [] op2 = 6 -> "Isb"
                [] OTHER -> "Unallocated"
    IN  IF op = "Unallocated" THEN unallocated(w) ELSE new(w, op, Imm(crm))

pack_sysreg(op0, op1, crn, crm, op2) ==
    (op0 % 4) * 16384 + (op1 % 8) * 2048 + (crn % 16) * 128 + (crm % 16) * 8 + (op2 % 8)

\* SYS and SYSL, architectural op0 = 1, are left unclaimed.
system(w) ==
    LET l   == bit(w, 21)
        op0 == bits(w, 20, 19)
        op1 == bits(w, 18, 16)
        crn == bits(w, 15, 12)
        crm == bits(w, 11, 8)
        op2 == bits(w, 7, 5)
        rt  == bits(w, 4, 0)
    IN  CASE op0 = 0 /\ ~l /\ rt = 31 ->
             (CASE op1 = 3 /\ crn = 2 -> hint(w, crm, op2)
                [] op1 = 3 /\ crn = 3 -> barrier(w, crm, op2)
                [] crn = 4 -> new(w, "Msr", System(ZR, pack_sysreg(0, op1, crn, crm, op2)))
                [] OTHER -> unallocated(w))
          [] op0 >= 2 -> new(w, IF l THEN "Mrs" ELSE "Msr",
                             System(from_index_zr(rt), pack_sysreg(op0, op1, crn, crm, op2)))
          [] OTHER -> unallocated(w)

branches_exceptions_system(w) ==
    LET op0 == bits(w, 31, 29)
        op1 == bits(w, 25, 22)
    IN  CASE op0 = 2 /\ op1 < 8    -> conditional_branch(w)
          [] op0 = 6 /\ op1 < 4    -> exception(w)
          [] op0 = 6 /\ op1 = 4    -> system(w)
          [] op0 = 6 /\ op1 >= 8   -> branch_register(w)
          [] op0 \in {0, 4}        -> branch_immediate(w)
          [] op0 \in {1, 5} /\ op1 < 8  -> compare_and_branch(w)
          [] op0 \in {1, 5} /\ op1 >= 8 -> test_and_branch(w)
          [] OTHER -> unallocated(w)
=============================================================================
