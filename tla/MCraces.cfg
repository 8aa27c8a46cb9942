SPECIFICATION RacesSpec
CONSTANTS
    Projects = {p1}
    Users = {u1, u2}
    Types = {dev}
    Roles = {"copilot"}
    Null = Null
    MaxRequests = 1
    MaxOpportunities = 1
    MaxApplications = 2
    MaxMembers = 2
    MaxInvites = 1
    MaxRows = 5
    Slots = {s1, s2}
    Handlers = {"create", "update", "approve", "apply", "assign", "cancel", "accept", "deleteInvite", "addMember", "createInvites", "declineInvite", "linkInvite", "updateMember", "deleteMember", "deleteProject"}
CONSTRAINT FewRows
SYMMETRY RaceSymmetry
CHECK_DEADLOCK FALSE
INVARIANTS AwardedWasMember ApplicationOverrun MembershipOverrun
