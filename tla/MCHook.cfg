\* Both surfaces, with and without a deadline; the child may leave a process behind.
CONSTANTS
    Surfaces = {"claude-code", "shell"}
    TimedAsk = {TRUE, FALSE}
    MayFork = TRUE
SPECIFICATION FairSpec
INVARIANTS TypeOK NothingProceedsUndecided TimeoutIsFinal ErrorsReachStderr
PROPERTIES HookReturns
CHECK_DEADLOCK FALSE
