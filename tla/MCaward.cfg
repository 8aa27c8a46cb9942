SPECIFICATION FairSpec
CONSTANTS
    Calls = {c1, c2}
    Users = {u1, u2}
    Null = Null
    Opportunity = Opportunity
    Request = Request
    Applications = {a1, a2}
    Members = {m1, m2, m3}
    FirstRoles = {"customer", "manager"}
    MaxCrashes = 1
CHECK_DEADLOCK FALSE
INVARIANTS OneWinner AwardIsWhole
PROPERTIES ImplementsAward CallsEnd Decided
