SPECIFICATION Spec
CONSTANTS
    Half <- MC_Half
    Single <- MC_Single
    Double <- MC_Double
    WORD = 7
INVARIANT SumIsCorrectlyRounded
INVARIANT ScalingIsCorrectlyRounded
INVARIANT NansAreAccounted
INVARIANT FusedIsCorrectlyRounded
INVARIANT OrderIsNumeric
INVARIANT FlushHidesSubnormals
CHECK_DEADLOCK FALSE
