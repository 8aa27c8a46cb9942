SPECIFICATION Spec
CONSTANTS
    Callers <- MCCallers
    Memberships = {"none", "customer", "copilot", "manager", "observer", "program_manager"}
    MaxChanges = 2
INVARIANTS VerdictHasReason DocumentedReach InternalProjectsKept
CHECK_DEADLOCK FALSE
