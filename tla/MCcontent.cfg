SPECIFICATION MCSpec
CONSTANTS
    Calls = {c1, c2}
    Supplies <- MCSupplies
    Payloads <- MCPayloads
    MaxPosts = 1
    Services = {"settings", "permissions", "orgConfigs", "types", "productCategories",
                "industries", "postCategories"}
    Halves = {h1, h2}
    MaxRows = 2
    Paths = {p1, p2}
    MaxAttachments = 2
    MaxMoves = 1
SYMMETRY Symmetry
INVARIANTS DuplicatesAreRaces UnhandledHasCause StoredIffLive PublishedHasDate WinHasType
PROPERTIES SavesKeepOtherKeys
CHECK_DEADLOCK FALSE
