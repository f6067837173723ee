SPECIFICATION Spec
CONSTANTS
    NUM_GPR = 1
    NUM_VREG = 1
    NUM_SYSREG = 1
    FLAGS = 16
    LENGTHS = 64
    EXP64 = 4
    MAN64 = 7
    EXP32 = 3
    MAN32 = 2
    CUMULATIVE = 4
    Vectors = {8}
    Losses = {0, 1, 6}
    LIMIT = 3
    BUFFER = 22
    MAX_DELTAS = 15
    RESIDUE = 8
    Sessions <- MC_Sessions
    Requests <- MC_Requests
INVARIANT CompleteMeansWhole
INVARIANT DrainedIsReadable
INVARIANT VerdictIsFirstDivergence
CHECK_DEADLOCK FALSE
