SPECIFICATION Spec
CONSTANTS
    Null = Null
    Projects = {p1}
    Users = {u1, u2}
    Types = {dev}
    Roles = {"manager", "copilot"}
    MaxRequests = 1
    MaxOpportunities = 2
    MaxApplications = 2
    MaxMembers = 2
    MaxInvites = 1
SYMMETRY UserSymmetry
INVARIANTS TypeOK AcceptedIsCompleted OneWinner ActiveIsUndecided OneMembership
PROPERTIES AwardedIsMember PrimarySucceeds
CHECK_DEADLOCK FALSE
