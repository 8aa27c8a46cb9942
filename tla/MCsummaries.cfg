SPECIFICATION Spec
CONSTANTS
    Callers <- MCProjectManager
    Memberships = {"none", "customer", "copilot", "manager"}
    MaxChanges = 0
INVARIANT SummariesMirror
CHECK_DEADLOCK FALSE
