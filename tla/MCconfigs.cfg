SPECIFICATION Spec
CONSTANTS
    Tables = {"form", "priceConfig"}
    Templates = {t1}
    Slots = {s1, s2}
    Null = Null
    Keep = Keep
    MaxVersion <- SmallVersions
    MaxRevision <- SmallRevisions
SYMMETRY ConfigSymmetry
INVARIANTS Gapless ReferencesCreated
PROPERTY CreatedIsLatest
CHECK_DEADLOCK FALSE
