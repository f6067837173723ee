---------------------------- MODULE MC_TracePipe ----------------------------
(***************************************************************************)
(* One general, one vector and one system register; words of 12 bits whose *)
(* halves are floating-point numbers too.  The plugin's buffer just holds  *)
(* the longest record, a block with every register in it, so that it fills *)
(* within a few records.                                                   *)
(***************************************************************************)
EXTENDS TracePipe

Qemu(scope, effects, sizes, records) ==
    [producer |-> "qemu", scope |-> scope, precise |-> TRUE, feature |-> 5,
     effects |-> effects, sizes |-> sizes, records |-> records]
Coracle(precise, feature, effects, records) ==
    [producer |-> "coracle", scope |-> "fp", precise |-> precise, feature |-> feature,
     effects |-> effects, sizes |-> {1}, records |-> records]
Pair(l, r) == [s \in Side |-> IF s = "left" THEN l ELSE r]

\* 2000 and 2001 are quiet NaNs of 12 bits, 1921 a signalling one; 9 is a cpsr
\* whose upper bits mean nothing.
X0(n)     == (0 :> n)
Lo(n)     == (V_BASE :> n)
Hi(n)     == (V_BASE + 1 :> n)
Fpsr(n)   == (FPSR :> n)
Pstate(n) == (PSTATE :> n)

\* Deltas of either producer; blocks, limit and exceptions between two plugins of
\* different scopes; system registers in both; floating-point policies; feature masks.
MC_Sessions ==
    {Pair(Qemu("fp", {Lo(1), Hi(1)}, {1}, 3), Coracle(TRUE, 5, {Lo(1), Hi(1)}, 3)),
     Pair(Qemu("all", {Pstate(9)}, {1, 2}, 3), Qemu("core", {Pstate(1), X0(1)}, {1, 2}, 3)),
     Pair(Qemu("all", {X0(1)}, {1, 2}, 2), Qemu("all", {X0(1)}, {2}, 2)),
     Pair(Qemu("fp", {Lo(2000), Fpsr(1), Fpsr(4)}, {1}, 2),
          Coracle(FALSE, 5, {Lo(2001), Lo(1921), Fpsr(0), Fpsr(4)}, 2)),
     Pair(Coracle(FALSE, 5, {X0(1)}, 2), Coracle(FALSE, 6, {X0(1)}, 2))}

MC_Requests == {[policy |-> "null", depth |-> 1, allow |-> FALSE],
                [policy |-> "ignore-fpsr", depth |-> 2, allow |-> TRUE],
                [policy |-> "strict", depth |-> 0, allow |-> TRUE]}
=============================================================================
