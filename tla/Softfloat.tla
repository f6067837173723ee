----------------------------- MODULE Softfloat ------------------------------
(***************************************************************************)
(* fp/softfloat/mod.rs: the reference backend's FpBackend methods.         *)
(* Operands are records as in fp/backend.rs.                               *)
(***************************************************************************)
EXTENDS SoftArith, SoftFused, SoftConvert

soft_binary(op, o, c) ==
    CASE op = "Add" -> add(o.lhs, o.rhs, FALSE, o.format, o.rounding, c)
      [] op = "Sub" -> add(o.lhs, o.rhs, TRUE, o.format, o.rounding, c)
      [] op = "Mul" -> multiply(o.lhs, o.rhs, o.format, o.rounding, c)
      [] op = "Div" -> divide(o.lhs, o.rhs, o.format, o.rounding, c)
      [] op \in {"Max", "Min", "MaxNum", "MinNum"} -> extremum(o.lhs, o.rhs, op, o.format, c)

soft_unary(op, value, r, c) ==
    CASE op = "Sqrt"            -> square_root(value.bits, value.format, r, c)
      [] op = "RoundToIntegral" -> round_to_integral(value.bits, value.format, r, c)

soft_fused_multiply_add(o, c) == multiply_add(o, o.format, o.rounding, c)

soft_compare(o, is_signalling) == compare(o.lhs, o.rhs, o.format, is_signalling)

soft_convert_format(value, target, c) ==
    convert_format(value.bits, value.format, target, c, c.rounding)

\* Neither conversion reads its fractional_bits.
soft_to_integer(value, target) ==
    to_integer(value.bits, value.format, target.format, target.rounding)

soft_convert_from_integer(value, source, c) ==
    from_integer(value, source.format, source.target, source.rounding, c)
=============================================================================
