SPECIFICATION Spec
CONSTANTS
    Tables = {"form"}
    Templates = {}
    Slots = {s1}
    Null = Null
    Keep = Keep
    MaxVersion <- SmallVersions
    MaxRevision <- SmallRevisions
INVARIANT NextVersionIsFree
CHECK_DEADLOCK FALSE
