CONSTANTS
    Messages <- MCMessages
    Expected <- MCExpected
    AskedTurns = {2, 5}
    AskedRuns = {2}
    Windows = {0, 1024, 4096, 131072}
    Errors = 2
    ResetFaults = 1
SPECIFICATION BenchmarkSpec
INVARIANTS CleanStart HeadlineSound DemoCountsOnce
CHECK_DEADLOCK FALSE
