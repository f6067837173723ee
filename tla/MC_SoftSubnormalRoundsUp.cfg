SPECIFICATION Spec
CONSTANTS
    Half <- MC_Half
    Single <- MC_Single
    Double <- MC_Double
    WORD = 7
CHECK_DEADLOCK FALSE
INVARIANT SubnormalRoundsUp
