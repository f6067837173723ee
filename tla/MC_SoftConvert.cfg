SPECIFICATION Spec
CONSTANTS
    Half <- MC_Half
    Single <- MC_Single
    Double <- MC_LongDouble
    WORD = 10
INVARIANT IntegerOrSaturated
INVARIANT ConversionIsRounded
INVARIANT IntegralIsRounded
CHECK_DEADLOCK FALSE
