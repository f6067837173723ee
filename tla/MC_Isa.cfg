SPECIFICATION Spec
CONSTANT MaxFlips = 2
CONSTANT Seeds <- TestedWords
INVARIANT OperandsInRange
INVARIANT UnadvertisedFaults
INVARIANT ImmediatesAreExpanded
INVARIANT DatapathIsArithmetic
PROPERTY EveryBitCounts
CHECK_DEADLOCK FALSE
