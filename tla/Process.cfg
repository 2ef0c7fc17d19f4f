CONSTANTS
    CycleSettings = {0, 1, 3}
    SizeMax = 3
    RunCap = 4
SPECIFICATION FairSpec
INVARIANTS ProcessTypeOK SignalsAreHandled ExactCycles RunsArePaced OverrunIsReported
PROPERTIES TerminateIsFinal TerminationEnds WaitsEnd FiniteRunsEnd
