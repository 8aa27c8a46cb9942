SPECIFICATION Spec
CONSTANTS
    Status = {"active", "completed"}
    Accounts = {a1}
    Slots = {s1, s2}
    Null = Null
    Keep = Keep
    MaxCommits = 5
SYMMETRY LifecycleSymmetry
INVARIANTS StatusRecorded AnnouncedInOrder
PROPERTY AloneTellsAll
CHECK_DEADLOCK FALSE
