------------------------------- MODULE Differ -------------------------------
(***************************************************************************)
(* The differ: lock-step comparison of two loaded traces                   *)
(* (tests/differ/compare.mjs), the floating-point policies                 *)
(* (fp_policy.mjs) and the command's decisions and exit code (diff.mjs).   *)
(*                                                                         *)
(* The fields of a floating-point word are parameters: EXP64 exponent and  *)
(* MAN64 mantissa bits under the sign of a whole word, EXP32 and MAN32     *)
(* under the sign of its low half.                                         *)
(***************************************************************************)
EXTENDS Cdt

CONSTANTS EXP64, MAN64, EXP32, MAN32,
          CUMULATIVE           \* FPSR's cumulative bits are those below this power of two

ASSUME DifferAssumption == /\ {EXP64, MAN64, EXP32, MAN32} \subseteq Nat \ {0, 1}
                           /\ 1 + EXP64 + MAN64 = 2 * (1 + EXP32 + MAN32)
                           /\ CUMULATIVE \in Nat \ {0}

-----------------------------------------------------------------------------
(* fp_policy.mjs                                                           *)

POLICIES == {"bitwise", "nan-insensitive", "ignore-fpsr"}

\* "null" for a value that is not a NaN, infinities included.
classify(bits, exp, man) ==
    IF (bits \div 2 ^ man) % 2 ^ exp # 2 ^ exp - 1 \/ bits % 2 ^ man = 0 THEN "null"
    ELSE IF bits % 2 ^ man >= 2 ^ (man - 1) THEN "qnan" ELSE "snan"
classify64(bits) == classify(bits, EXP64, MAN64)
classify32(bits) == classify(bits % 2 ^ (1 + EXP32 + MAN32), EXP32, MAN32)

isNanEquivalent(left, right) ==
    \/ classify64(left) # "null" /\ classify64(left) = classify64(right)
    \/ classify32(left) # "null" /\ classify32(left) = classify32(right)

areEqual(policy, id, left, right) ==
    \/ left = right
    \/ /\ policy = "ignore-fpsr"
       /\ id = FPSR
       /\ left \div CUMULATIVE = right \div CUMULATIVE
    \/ /\ policy # "bitwise"
       /\ id \in VecIds
       /\ isNanEquivalent(left, right)

-----------------------------------------------------------------------------
(* compare.mjs.  A RegisterState is a function on the ids set so far.      *)

NoRegs == [id \in {} |-> 0]
get(regs, id) == IF id \in DOMAIN regs THEN regs[id] ELSE 0

\* The last delta of a register counts.
applyDeltas(regs, deltas) ==
    LET at(id) == {k \in 1 .. Len(deltas) : deltas[k].regId = id}
    IN  [id \in DOMAIN regs \cup {deltas[k].regId : k \in 1 .. Len(deltas)} |->
            IF at(id) = {} THEN regs[id] ELSE deltas[Max(at(id))].value]
applyException(regs, record) ==
    [id \in DOMAIN regs \cup Ids |-> IF id \in Ids THEN record.state[id] ELSE regs[id]]
applied(regs, record) == IF record.type = BLOCK THEN applyDeltas(regs, record.deltas)
                                                ELSE applyException(regs, record)

\* Where the blocks and exceptions are, in order.
significant(records) ==
    LET kept[n \in 0 .. Len(records)] ==
            IF n = 0 THEN <<>>
            ELSE IF records[n].type \in {BLOCK, EXCEPTION} THEN Append(kept[n - 1], n) ELSE kept[n - 1]
    IN  kept[Len(records)]
significantRecords(trace) ==
    LET at == significant(trace.records) IN [k \in DOMAIN at |-> trace.records[at[k]]]

isFpReg(id) == id \in FpIds

\* The ids compareRegisters does not accept; it reports the least.
unequalIds(left, right, policy) ==
    {id \in DOMAIN left \cup DOMAIN right :
        /\ get(left, id) # get(right, id)
        /\ ~(isFpReg(id) /\ areEqual(policy, id, get(left, id), get(right, id)))}

\* The first structural mismatch of two records, or "none".
compareStep(l, r) ==
    IF l.type # r.type THEN "record_type"
    ELSE IF l.icount # r.icount THEN "icount"
    ELSE IF l.type = BLOCK
    THEN IF l.pc # r.pc THEN "pc" ELSE IF l.nInsns # r.nInsns THEN "n_insns" ELSE "none"
    ELSE IF <<l.fromPc, l.toPc, l.disconType>> # <<r.fromPc, r.toPc, r.disconType>>
    THEN "exception_field" ELSE "none"

\* The last `depth` aligned steps.
pushed(history, index, depth) ==
    LET longer == Append(history, index)
    IN  IF Len(longer) > depth THEN Tail(longer) ELSE longer

\* What main reports: exit code, kind of divergence, 1-based step, register, history.
Verdict(exit, kind, index, regId, history) ==
    [exit |-> exit, kind |-> kind, index |-> index, regId |-> regId, history |-> history]
NoReg == -1

\* One turn of the loop over the aligned records; nothing happens once it has returned.
compareAt(acc, l, r, index, policy, depth) ==
    LET structural == compareStep(l, r)
        left       == applied(acc.left, l)
        right      == applied(acc.right, r)
        unequal    == unequalIds(left, right, policy)
    IN  IF acc.returned THEN acc
        ELSE IF structural # "none"
        THEN [acc EXCEPT !.returned = TRUE, !.verdict = Verdict(1, structural, index, NoReg, acc.history)]
        ELSE IF unequal # {}
        THEN [acc EXCEPT !.returned = TRUE, !.verdict = Verdict(1, "register", index, Min(unequal), acc.history)]
        ELSE [acc EXCEPT !.left = left, !.right = right, !.history = pushed(acc.history, index, depth)]

compareTraces(leftTrace, rightTrace, policy, depth) ==
    LET left  == significantRecords(leftTrace)
        right == significantRecords(rightTrace)
        steps == Min({Len(left), Len(right)})
        start == [left |-> NoRegs, right |-> NoRegs, history |-> <<>>, returned |-> FALSE, verdict |-> <<>>]
        turn[n \in 0 .. steps] ==
            IF n = 0 THEN start ELSE compareAt(turn[n - 1], left[n], right[n], n, policy, depth)
        end   == turn[steps]
    IN  IF end.returned THEN end.verdict
        ELSE IF Len(left) # Len(right) THEN Verdict(1, "trace_length", steps + 1, NoReg, end.history)
        ELSE Verdict(0, "none", steps + 1, NoReg, end.history)

-----------------------------------------------------------------------------
(* diff.mjs                                                                *)

Failed == Verdict(2, "error", 0, NoReg, <<>>)

isPrecise(trace) == trace.flags % 2 = PRECISE_FP

\* "null" when no policy was requested.
choosePolicy(requested, leftTrace, rightTrace) ==
    IF requested # "null" THEN requested
    ELSE IF isPrecise(leftTrace) /\ isPrecise(rightTrace) THEN "bitwise" ELSE "nan-insensitive"

isComparable(leftTrace, rightTrace, allowMismatch) ==
    leftTrace.feature = rightTrace.feature \/ allowMismatch

main(leftFile, rightFile, requested, depth, allowMismatch) ==
    LET left  == loadTrace(leftFile)
        right == loadTrace(rightFile)
    IN  IF /\ left.ok
           /\ right.ok
           /\ isComparable(left, right, allowMismatch)
           /\ requested \in POLICIES \cup {"null"}
        THEN compareTraces(left, right, choosePolicy(requested, left, right), depth)
        ELSE Failed
=============================================================================
