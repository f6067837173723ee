SPECIFICATION EngineSpec
CONSTANTS
    Half <- MC_Half
    Single <- MC_Single
    Double <- MC_Double
    WORD = 7
    IS_PRECISE_BUILD = FALSE
    Fpcrs <- MC_Fpcrs
    Fpsrs <- MC_Fpsrs
    Calls <- MC_Calls
INVARIANT SelectionFollowsFpcr
INVARIANT SelectionIsInvisible
PROPERTY FlagsAreSticky
CHECK_DEADLOCK FALSE
