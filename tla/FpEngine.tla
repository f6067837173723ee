------------------------------ MODULE FpEngine ------------------------------
(***************************************************************************)
(* fp/engine.rs, fp/backend.rs and fp/native.rs: the floating-point unit.  *)
(* The engine caches which backend serves the current FPCR and gathers the *)
(* FPSR flags its answers raise.  The native backend serves what the host  *)
(* can and falls back to the softfloat for the rest; its host operations   *)
(* are those of Ieee, with NaN payloads left open.                         *)
(***************************************************************************)
EXTENDS Softfloat, Ieee

CONSTANTS
    IS_PRECISE_BUILD,   \* the fp-precise feature
    Fpcrs, Fpsrs,       \* the values MSR may write
    Calls               \* the operations the interpreter may ask for

ASSUME EngineAssumption == IS_PRECISE_BUILD \in BOOLEAN /\ Fpcrs \subseteq Nat

\* The operands of the calls the host may serve are patterns of their formats: the
\* interpreter reads them from a register at the width of the format.
ASSUME CallsAssumption ==
    \A call \in Calls :
        /\ call.method \in {"binary", "compare"} =>
             /\ call.operands.format \in Formats
             /\ {call.operands.lhs, call.operands.rhs} \subseteq Patterns(call.operands.format)
        /\ call.method = "convert_format" =>
             /\ {call.operand.format, call.target} \subseteq Formats
             /\ call.operand.bits \in Patterns(call.operand.format)

VARIABLES
    fpcr,           \* the register the guest wrote; the engine keeps only what it selects
    selected, control, exceptions,
    answer          \* the last call and what it returned

engineVars == <<fpcr, selected, control, exceptions, answer>>

(***************************************************************************)
(* Native: the calls return sets of results.                               *)
(***************************************************************************)
\* Mutant: the rounding mode of the instruction is not looked at.
can_serve_any_rounding(f, r) == f.name \in {"Single", "Double"}

can_serve(f, r) == r = "Nearest" /\ f.name \in {"Single", "Double"}

native_binary(op, o, c) ==
    IF can_serve(o.format, o.rounding) /\ op \in {"Add", "Sub", "Mul", "Div"}
    THEN {Exact(b) : b \in HostAnswers(op, o.lhs, o.rhs, o.format)}
    ELSE {soft_binary(op, o, c)}

native_compare(o, is_signalling) ==
    IF o.format.name \in {"Single", "Double"}
    THEN [ordering |-> HostOrder(o.lhs, o.rhs, o.format), raised |-> {}]
    ELSE soft_compare(o, is_signalling)

native_convert_format(value, target, c) ==
    IF {value.format.name, target.name} = {"Single", "Double"}
    THEN {Exact(b) : b \in HostCast(value.bits, value.format, target)}
    ELSE {soft_convert_format(value, target, c)}

(***************************************************************************)
(* Selection.                                                              *)
(***************************************************************************)
select(bits) == IF IS_PRECISE_BUILD \/ ~is_default_mode_bits(bits) THEN "Reference" ELSE "Native"

tracks_exceptions == selected = "Reference"

NoAnswer == [method |-> "None"]

EngineInit ==
    /\ fpcr = 0 /\ selected = select(0) /\ control = from_bits(0)
    /\ exceptions = {} /\ answer = NoAnswer

set_fpcr(bits) ==
    /\ fpcr' = bits /\ selected' = select(bits) /\ control' = from_bits(bits)
    /\ answer' = NoAnswer /\ UNCHANGED exceptions

set_exceptions(fpsr) ==
    /\ exceptions' = fpsr /\ answer' = [method |-> "set_exceptions"]
    /\ UNCHANGED <<fpcr, selected, control>>

(***************************************************************************)
(* The operations.                                                         *)
(***************************************************************************)
\* record: the flags are gathered, the bits returned.
record_answer(call, bits, raised) ==
    /\ exceptions' = accumulate(exceptions, raised)
    /\ answer' = [method |-> call.method, call |-> call, bits |-> bits, raised |-> raised]
    /\ UNCHANGED <<fpcr, selected, control>>

Binary(call) ==
    /\ call.method = "binary"
    /\ \E result \in IF selected = "Native" THEN native_binary(call.op, call.operands, control)
                     ELSE {soft_binary(call.op, call.operands, control)} :
          record_answer(call, result.bits, result.raised)

\* The native backend has neither a square root nor a rounding to integral, no
\* fused multiply-add and no integer conversion: these are the softfloat's.
Unary(call) ==
    /\ call.method = "unary"
    /\ LET result == soft_unary(call.op, call.operand, call.rounding, control)
       IN  record_answer(call, result.bits, result.raised)

FusedMultiplyAdd(call) ==
    /\ call.method = "fused_multiply_add"
    /\ LET result == soft_fused_multiply_add(call.operands, control)
       IN  record_answer(call, result.bits, result.raised)

ToInteger(call) ==
    /\ call.method = "to_integer"
    /\ LET result == soft_to_integer(call.operand, call.target)
       IN  record_answer(call, result.bits, result.raised)

ConvertFromInteger(call) ==
    /\ call.method = "convert_from_integer"
    /\ LET result == soft_convert_from_integer(call.value, call.source, control)
       IN  record_answer(call, result.bits, result.raised)

ConvertFormat(call) ==
    /\ call.method = "convert_format"
    /\ \E result \in IF selected = "Native" THEN native_convert_format(call.operand, call.target, control)
                     ELSE {soft_convert_format(call.operand, call.target, control)} :
          record_answer(call, result.bits, result.raised)

Compared(call) == IF selected = "Native" THEN native_compare(call.operands, call.is_signalling)
                  ELSE soft_compare(call.operands, call.is_signalling)

\* compare returns NZCV; compare_ordering, never signalling, the ordering it
\* stands for, written here as the same number.
Compare(call) ==
    /\ call.method = "compare"
    /\ record_answer(call, to_nzcv(Compared(call).ordering), Compared(call).raised)

CompareOrdering(call) ==
    /\ call.method = "compare_ordering" /\ ~call.is_signalling
    /\ record_answer(call, to_nzcv(Compared(call).ordering), Compared(call).raised)

\* copy_sign takes &self: both backends answer alike and nothing is recorded.
CopySign(call) ==
    /\ call.method = "copy_sign"
    /\ LET f == call.operand.format
           b == call.operand.bits
       IN  answer' = [method |-> "copy_sign", call |-> call, raised |-> {},
                      bits |-> IF call.op = "Negate" THEN negated(f, b) ELSE magnitude_bits(f, b)]
    /\ UNCHANGED <<fpcr, selected, control, exceptions>>

Operate(call) == \/ Binary(call) \/ Unary(call) \/ FusedMultiplyAdd(call) \/ ToInteger(call)
                 \/ ConvertFromInteger(call) \/ ConvertFormat(call) \/ Compare(call)
                 \/ CompareOrdering(call) \/ CopySign(call)

EngineNext == \/ \E bits \in Fpcrs : set_fpcr(bits)
              \/ \E fpsr \in Fpsrs : set_exceptions(fpsr)
              \/ \E call \in Calls : Operate(call)

EngineSpec == EngineInit /\ [][EngineNext]_engineVars

(***************************************************************************)
(* Properties.                                                             *)
(***************************************************************************)
\* The cached selection is the one docs/machine-spec.md section 6 asks for, of
\* the FPCR last written: the host serves default mode and nothing else, and a
\* precise build never uses it.  engine.rs decides this from a mask of raw bits,
\* machine-spec.md from the fields.
SelectionFollowsFpcr ==
    /\ control = from_bits(fpcr)
    /\ (selected = "Native") = (~IS_PRECISE_BUILD /\ is_default_mode(from_bits(fpcr)))

\* "The flags are cumulative and sticky: an operation never clears one another
\* operation set.  Only a write to FPSR does" (control.rs accumulate), and
\* neither does changing the backend.
FlagsAreSticky ==
    [][answer'.method # "set_exceptions" => exceptions \subseteq exceptions']_engineVars

\* What the softfloat answers to a call under an FPCR: engine.rs, test
\* the_engine_computes_the_same_answer_whichever_backend_is_selected: "The
\* selection must be invisible in the result for ordinary values."  Not ordinary:
\* NaNs, and results that underflow, where pack_subnormal may halve.
SelectionIsInvisible ==
    /\ answer.method = "binary" =>
         LET o    == answer.call.operands
             soft == soft_binary(answer.call.op, o, control)
         IN  IF is_nan(o.format, soft.bits) THEN is_nan(o.format, answer.bits)
             ELSE "UNDERFLOW" \in soft.raised \/ answer.bits = soft.bits
    /\ answer.method = "convert_format" =>
         LET soft == soft_convert_format(answer.call.operand, answer.call.target, control)
         IN  IF is_nan(answer.call.target, soft.bits) THEN is_nan(answer.call.target, answer.bits)
             ELSE "UNDERFLOW" \in soft.raised \/ answer.bits = soft.bits
    /\ answer.method = "compare" =>
         answer.bits = to_nzcv(soft_compare(answer.call.operands, answer.call.is_signalling).ordering)
=============================================================================
