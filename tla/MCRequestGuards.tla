--------------------------- MODULE MCRequestGuards -------------------------
(* Callers with one role or one scope each, and those with a pair that        *)
(* matters: who has more is admitted by one of the facts it has.              *)
EXTENDS RequestGuards

Human(roles) == [roles |-> roles, scopes |-> {}, isMachine |-> FALSE]
Machine(scopes) == [roles |-> {}, scopes |-> scopes, isMachine |-> TRUE]

MCCallers ==
    {Human({r}) : r \in UserRole} \cup {Machine({s}) : s \in Scope} \cup
    {Human({}), Human({"TALENT_MANAGER", "TOPCODER_ADMIN"}), Machine({}),
     [roles |-> {"TOPCODER_USER"}, scopes |-> {"PROJECTS_ALL"}, isMachine |-> FALSE]}

(* A project manager, who is a member of some projects.                       *)
MCProjectManager == {Human({"PROJECT_MANAGER"})}
=============================================================================
