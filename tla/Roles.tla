------------------------------- MODULE Roles -------------------------------
(* The roles and scopes callers present, the role sets the source names, and  *)
(* the expansion of scopes (src/shared/enums, m2m.service.ts).  A value is    *)
(* called by its enum key; values differ after trimming and lower-casing, so  *)
(* the case-insensitive comparisons of the source are plain membership.       *)
EXTENDS Sequences, FiniteSets

ADMIN_ROLES == {"CONNECT_ADMIN", "TOPCODER_ADMIN", "TG_ADMIN"}

MANAGER_ROLES ==
    ADMIN_ROLES \cup
    {"MANAGER", "TOPCODER_ACCOUNT_MANAGER", "COPILOT_MANAGER",
     "BUSINESS_DEVELOPMENT_REPRESENTATIVE", "PRESALES", "ACCOUNT_EXECUTIVE",
     "PROGRAM_MANAGER", "SOLUTION_ARCHITECT", "PROJECT_MANAGER"}

TALENT_MANAGER_ROLES == {"TALENT_MANAGER", "TOPCODER_TALENT_MANAGER"}

TASK_MANAGER_ROLES == {"TASK_MANAGER", "TOPCODER_TASK_MANAGER"}

UserRole ==
    MANAGER_ROLES \cup TALENT_MANAGER_ROLES \cup TASK_MANAGER_ROLES \cup
    {"TOPCODER_MANAGER", "COPILOT", "TOPCODER_USER", "TC_COPILOT"}

PROJECT_MEMBER_MANAGER_ROLES ==
    {"manager", "account_manager", "account_executive", "project_manager",
     "program_manager", "solution_architect"}

ProjectMemberRole ==
    PROJECT_MEMBER_MANAGER_ROLES \cup {"customer", "copilot", "observer"}

(* The role a project gives its creator by default: the first rule whose      *)
(* Topcoder role the user has.                                                *)
DEFAULT_PROJECT_ROLE ==
    << <<"MANAGER", "manager">>, <<"COPILOT_MANAGER", "manager">>,
       <<"CONNECT_ADMIN", "manager">>, <<"TOPCODER_ADMIN", "manager">>,
       <<"TOPCODER_ACCOUNT_MANAGER", "manager">>,
       <<"BUSINESS_DEVELOPMENT_REPRESENTATIVE", "manager">>,
       <<"PRESALES", "manager">>, <<"COPILOT", "copilot">>,
       <<"ACCOUNT_EXECUTIVE", "manager">>, <<"PROGRAM_MANAGER", "manager">>,
       <<"SOLUTION_ARCHITECT", "manager">>, <<"PROJECT_MANAGER", "manager">>,
       <<"TOPCODER_USER", "customer">> >>

(* The Topcoder roles that may hold a project role.                           *)
PROJECT_TO_TOPCODER_ROLES_MATRIX ==
    [r \in {"customer", "observer", "manager", "copilot"} |->
        CASE r = "manager" -> (MANAGER_ROLES \ {"TG_ADMIN"}) \cup TALENT_MANAGER_ROLES
          [] r = "copilot" -> {"COPILOT", "TC_COPILOT"}
          [] OTHER -> UserRole]

----------------------------------------------------------------------------

Family(f) == {f \o "_ALL", f \o "_READ", f \o "_WRITE"}

Families == {"PROJECTS", "PROJECT_MEMBERS", "PROJECT_INVITES", "CUSTOMER_PAYMENT"}

ALL_PROJECT_RELATED_SCOPES ==
    UNION {Family(f) : f \in Families} \cup
    {"PROJECTS_READ_USER_BILLING_ACCOUNTS", "PROJECTS_WRITE_PROJECTS_BILLING_ACCOUNTS",
     "PROJECTS_READ_PROJECT_BILLING_ACCOUNT_DETAILS"}

ALIAS == "CONNECT_PROJECT_ADMIN_ALIAS"

Scope == ALL_PROJECT_RELATED_SCOPES \cup {"CONNECT_PROJECT_ADMIN", ALIAS}

(* What a scope implies, and the scope that an alias stands for.              *)
SCOPE_HIERARCHY ==
    [s \in Scope |->
        IF s = "CONNECT_PROJECT_ADMIN" THEN ALL_PROJECT_RELATED_SCOPES
        ELSE UNION {Family(f) : f \in {g \in Families : s = g \o "_ALL"}}]

NormalizeScope(s) == IF s = ALIAS THEN "CONNECT_PROJECT_ADMIN" ELSE s

(* expandScopes walks the hierarchy breadth first until nothing is new.  The  *)
(* hierarchy is two levels deep, so two rounds reach everything.              *)
Implied(S) == S \cup UNION {SCOPE_HIERARCHY[s] : s \in S}
ExpandScopes(S) == Implied(Implied({NormalizeScope(s) : s \in S}))

(* Any scope required, expanded like those of the token, is enough.           *)
HasRequiredScopes(tokenScopes, requiredScopes) ==
    requiredScopes = {} \/
    ExpandScopes(requiredScopes) \cap ExpandScopes(tokenScopes) # {}
=============================================================================
