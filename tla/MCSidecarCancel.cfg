CONSTANTS
    a1 = a1
    s1 = s1
    Runs <- MCRuns
    KindOf <- MCKindOf
    Threads = {"t1"}
    Sizes = {1}
    Trigger = 2
    KeepRecent = 1
    MaxStored = 3
    SummaryCap = 1
    ExcerptCap = 1
    MaxHistory = 1
    MaxEvents = 2
    MaxReports = 1
    MaxTurns = 1
    MaxCrashes = 0
SPECIFICATION Spec
INVARIANTS EndedRunsAreSettled
