---------------------------- MODULE Permissions ----------------------------
(* Who has a named permission (permission.service.ts).  Every case of the     *)
(* switch is a disjunction of the same few facts about a caller and the       *)
(* project, so a case is the record of what it accepts:                       *)
(*   any            any authenticated caller                                  *)
(*   roles          callers with one of these Topcoder roles                  *)
(*   members        members of the project with one of these project roles    *)
(*   primary        the primary members among those with these project roles  *)
(*   invite         callers whom a pending invite names                       *)
(*   scopes         callers with one of these scopes                          *)
(*   machineScopes  machine tokens with one of these scopes                   *)
EXTENDS Roles, TLC

Nobody == [any |-> FALSE, roles |-> {}, members |-> {}, primary |-> {}, invite |-> FALSE,
           scopes |-> {}, machineScopes |-> {}]

AnyAuthenticated == [Nobody EXCEPT !.any = TRUE]

(* One rule for several permissions.                                          *)
Each(permissions, rule) == [p \in permissions |-> rule]

Admins == ADMIN_ROLES \cup {"MANAGER", "TOPCODER_MANAGER"}
ManagerReaders == MANAGER_ROLES \cup {"TOPCODER_MANAGER"}
ProjectReaders == Admins \cup {"PROJECT_MANAGER"} \cup TASK_MANAGER_ROLES \cup TALENT_MANAGER_ROLES
ProjectUpdaters == Admins \cup TALENT_MANAGER_ROLES \cup {"PROJECT_MANAGER"}
BillingReaders == ADMIN_ROLES \cup {"PROJECT_MANAGER"} \cup TASK_MANAGER_ROLES \cup TALENT_MANAGER_ROLES
CopilotRequestManagers == {"TOPCODER_ADMIN", "PROJECT_MANAGER"}

Management == PROJECT_MEMBER_MANAGER_ROLES
ManagementAndCopilot == Management \cup {"copilot"}

AdminScope == {"CONNECT_PROJECT_ADMIN"}
ReadScopes(f) == AdminScope \cup {f \o "_ALL", f \o "_READ"}
WriteScopes(f) == AdminScope \cup {f \o "_ALL", f \o "_WRITE"}

ProjectRules ==
    ("READ_PROJECT_ANY" :> [Nobody EXCEPT
        !.roles = ProjectReaders, !.scopes = ReadScopes("PROJECTS") \cup {"PROJECTS_WRITE"}]) @@
    ("VIEW_PROJECT" :> [Nobody EXCEPT
        !.roles = ProjectReaders, !.members = ProjectMemberRole, !.invite = TRUE,
        !.scopes = ReadScopes("PROJECTS") \cup {"PROJECTS_WRITE"}]) @@
    ("CREATE_PROJECT" :> AnyAuthenticated) @@
    ("EDIT_PROJECT" :> [Nobody EXCEPT
        !.roles = ProjectUpdaters, !.members = Management,
        !.machineScopes = WriteScopes("PROJECTS")]) @@
    ("MANAGE_PROJECT_SHOWCASE_POST" :> [Nobody EXCEPT
        !.roles = ProjectUpdaters, !.members = ManagementAndCopilot,
        !.machineScopes = WriteScopes("PROJECTS")]) @@
    ("DELETE_PROJECT" :> [Nobody EXCEPT
        !.roles = Admins, !.members = {"manager"}, !.machineScopes = WriteScopes("PROJECTS")])

MemberRules ==
    LET Write(roles, members) ==
            [Nobody EXCEPT !.roles = roles, !.members = members,
                           !.scopes = WriteScopes("PROJECT_MEMBERS")]
    IN  ("READ_PROJECT_MEMBER" :> [Nobody EXCEPT
            !.roles = ManagerReaders \cup TALENT_MANAGER_ROLES, !.members = ProjectMemberRole,
            !.scopes = ReadScopes("PROJECT_MEMBERS")]) @@
        ("CREATE_PROJECT_MEMBER_OWN" :> AnyAuthenticated) @@
        Each({"CREATE_PROJECT_MEMBER_NOT_OWN", "UPDATE_PROJECT_MEMBER_NON_CUSTOMER",
              "DELETE_PROJECT_MEMBER_TOPCODER"}, Write(Admins, Management)) @@
        ("DELETE_PROJECT_MEMBER_CUSTOMER" :> Write(Admins, ManagementAndCopilot)) @@
        ("DELETE_PROJECT_MEMBER_COPILOT" :>
            Write(Admins \cup {"COPILOT_MANAGER"}, ManagementAndCopilot))

InviteRules ==
    LET Write(roles, members) ==
            [Nobody EXCEPT !.roles = roles, !.members = members,
                           !.scopes = WriteScopes("PROJECT_INVITES")]
        WithCopilotManager == Admins \cup {"COPILOT_MANAGER"}
    IN  Each({"READ_PROJECT_INVITE_OWN", "UPDATE_PROJECT_INVITE_OWN",
              "DELETE_PROJECT_INVITE_OWN"}, AnyAuthenticated) @@
        ("READ_PROJECT_INVITE_NOT_OWN" :> [Nobody EXCEPT
            !.roles = ManagerReaders \cup TALENT_MANAGER_ROLES, !.members = ProjectMemberRole,
            !.scopes = ReadScopes("PROJECT_INVITES")]) @@
        Each({"CREATE_PROJECT_INVITE_TOPCODER", "UPDATE_PROJECT_INVITE_NOT_OWN",
              "DELETE_PROJECT_INVITE_NOT_OWN_TOPCODER"}, Write(Admins, Management)) @@
        Each({"CREATE_PROJECT_INVITE_CUSTOMER", "DELETE_PROJECT_INVITE_NOT_OWN_CUSTOMER"},
             Write(Admins, ManagementAndCopilot)) @@
        ("CREATE_PROJECT_INVITE_COPILOT" :> Write(WithCopilotManager, {})) @@
        Each({"UPDATE_PROJECT_INVITE_REQUESTED", "DELETE_PROJECT_INVITE_REQUESTED"},
             Write(WithCopilotManager, Management)) @@
        ("DELETE_PROJECT_INVITE_NOT_OWN_COPILOT" :>
            Write(WithCopilotManager, ManagementAndCopilot))

BillingRules ==
    ("MANAGE_PROJECT_BILLING_ACCOUNT_ID" :>
        [Nobody EXCEPT !.roles = ADMIN_ROLES, !.members = {"manager"}]) @@
    ("MANAGE_PROJECT_DIRECT_PROJECT_ID" :> [Nobody EXCEPT !.roles = Admins]) @@
    ("READ_AVL_PROJECT_BILLING_ACCOUNTS" :> [Nobody EXCEPT
        !.roles = BillingReaders, !.members = ManagementAndCopilot,
        !.scopes = AdminScope \cup {"PROJECTS_READ_USER_BILLING_ACCOUNTS"}]) @@
    ("READ_PROJECT_BILLING_ACCOUNT_DETAILS" :> [Nobody EXCEPT
        !.roles = BillingReaders, !.members = ManagementAndCopilot,
        !.scopes = {"PROJECTS_READ_PROJECT_BILLING_ACCOUNT_DETAILS"}])

CopilotRules ==
    Each({"MANAGE_COPILOT_REQUEST", "ASSIGN_COPILOT_OPPORTUNITY", "CANCEL_COPILOT_OPPORTUNITY"},
         [Nobody EXCEPT !.roles = CopilotRequestManagers,
                        !.machineScopes = WriteScopes("PROJECTS")]) @@
    ("APPLY_COPILOT_OPPORTUNITY" :> [Nobody EXCEPT !.roles = {"TC_COPILOT"}]) @@
    ("CREATE_PROJECT_AS_MANAGER" :>
        [Nobody EXCEPT !.roles = ADMIN_ROLES \cup TALENT_MANAGER_ROLES])

AttachmentRules ==
    ("VIEW_PROJECT_ATTACHMENT" :> [Nobody EXCEPT
        !.roles = ManagerReaders \cup TALENT_MANAGER_ROLES, !.members = ProjectMemberRole]) @@
    Each({"CREATE_PROJECT_ATTACHMENT", "EDIT_PROJECT_ATTACHMENT", "DELETE_PROJECT_ATTACHMENT"},
         [Nobody EXCEPT !.roles = Admins, !.members = ManagementAndCopilot \cup {"customer"}]) @@
    ("UPDATE_PROJECT_ATTACHMENT_NOT_OWN" :> [Nobody EXCEPT !.roles = Admins])

WorkPermissions(action) ==
    {"WORKSTREAM_" \o action, "WORK_" \o action, "WORKITEM_" \o action}

WorkRules ==
    Each({"ADD_PROJECT_PHASE", "UPDATE_PROJECT_PHASE", "DELETE_PROJECT_PHASE",
          "ADD_PHASE_PRODUCT", "UPDATE_PHASE_PRODUCT", "DELETE_PHASE_PRODUCT"}
            \cup WorkPermissions("CREATE") \cup WorkPermissions("EDIT"),
         [Nobody EXCEPT !.roles = Admins, !.members = ManagementAndCopilot]) @@
    Each(WorkPermissions("VIEW"),
         [Nobody EXCEPT !.roles = ManagerReaders, !.members = ProjectMemberRole,
                        !.scopes = AdminScope]) @@
    Each(WorkPermissions("DELETE"), [Nobody EXCEPT !.roles = Admins, !.members = Management]) @@
    ("WORK_MANAGEMENT_PERMISSION_VIEW" :> AnyAuthenticated) @@
    ("WORK_MANAGEMENT_PERMISSION_EDIT" :>
        [Nobody EXCEPT !.roles = ADMIN_ROLES, !.scopes = AdminScope])

(* The one inline permission, of the endpoint that tells a caller's           *)
(* permissions.                                                               *)
InlineRules ==
    "INLINE_PERMISSIONS_READERS" :>
        [Nobody EXCEPT !.roles = TALENT_MANAGER_ROLES \cup {"PROJECT_MANAGER"}]

Rules == ProjectRules @@ MemberRules @@ InviteRules @@ BillingRules @@ CopilotRules @@
         AttachmentRules @@ WorkRules @@ InlineRules

Permission == DOMAIN Rules

----------------------------------------------------------------------------

(* Whether a rule accepts a caller with this membership, [role, isPrimary] of *)
(* the project (role "none": not a member), and whether a pending invite of   *)
(* the project names the caller.                                              *)
Accepts(rule, caller, member, invited) ==
    \/ rule.any
    \/ caller.roles \cap rule.roles # {}
    \/ member.role \in rule.members
    \/ member.isPrimary /\ member.role \in rule.primary
    \/ rule.invite /\ invited
    \/ rule.scopes # {} /\ HasRequiredScopes(caller.scopes, rule.scopes)
    \/ /\ caller.isMachine
       /\ rule.machineScopes # {}
       /\ HasRequiredScopes(caller.scopes, rule.machineScopes)

HasNamedPermission(p, caller, member, invited) == Accepts(Rules[p], caller, member, invited)

(* The list of permissions for which the guard loads the members first: those *)
(* not listed are decided as if the project had no members.  The list is kept *)
(* by hand beside the switch.                                                 *)
MembersRequired ==
    {"VIEW_PROJECT", "EDIT_PROJECT", "MANAGE_PROJECT_SHOWCASE_POST", "DELETE_PROJECT",
     "READ_PROJECT_MEMBER", "READ_PROJECT_INVITE_NOT_OWN", "CREATE_PROJECT_MEMBER_NOT_OWN",
     "UPDATE_PROJECT_MEMBER_NON_CUSTOMER", "DELETE_PROJECT_MEMBER_TOPCODER",
     "DELETE_PROJECT_MEMBER_CUSTOMER", "DELETE_PROJECT_MEMBER_COPILOT",
     "CREATE_PROJECT_INVITE_CUSTOMER", "CREATE_PROJECT_INVITE_TOPCODER",
     "UPDATE_PROJECT_INVITE_NOT_OWN", "DELETE_PROJECT_INVITE_NOT_OWN_TOPCODER",
     "DELETE_PROJECT_INVITE_NOT_OWN_CUSTOMER", "DELETE_PROJECT_INVITE_NOT_OWN_COPILOT",
     "MANAGE_PROJECT_BILLING_ACCOUNT_ID", "MANAGE_PROJECT_DIRECT_PROJECT_ID",
     "READ_AVL_PROJECT_BILLING_ACCOUNTS", "READ_PROJECT_BILLING_ACCOUNT_DETAILS",
     "VIEW_PROJECT_ATTACHMENT", "CREATE_PROJECT_ATTACHMENT", "EDIT_PROJECT_ATTACHMENT",
     "DELETE_PROJECT_ATTACHMENT", "ADD_PROJECT_PHASE", "UPDATE_PROJECT_PHASE",
     "DELETE_PROJECT_PHASE", "ADD_PHASE_PRODUCT", "UPDATE_PHASE_PRODUCT", "DELETE_PHASE_PRODUCT"}
    \cup UNION {WorkPermissions(a) : a \in {"CREATE", "VIEW", "EDIT", "DELETE"}}

InvitesRequired == {"VIEW_PROJECT"}
=============================================================================
