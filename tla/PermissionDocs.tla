--------------------------- MODULE PermissionDocs --------------------------
(* What Swagger shows of the named permissions (permission-docs.utils.ts), in *)
(* the form of the rules of Permissions.                                      *)
EXTENDS Permissions

Summary(roles, members, scopes) ==
    [Nobody EXCEPT !.roles = roles, !.members = members, !.scopes = scopes]

ReadByMembers(roles, scopes) == Summary(roles, ProjectMemberRole, scopes)

ProjectSummaries ==
    ("READ_PROJECT_ANY" :> Summary(Admins, {}, ReadScopes("PROJECTS") \cup {"PROJECTS_WRITE"})) @@
    ("VIEW_PROJECT" :>
        [ReadByMembers(Admins, ReadScopes("PROJECTS") \cup {"PROJECTS_WRITE"})
            EXCEPT !.invite = TRUE]) @@
    ("CREATE_PROJECT" :> AnyAuthenticated) @@
    ("EDIT_PROJECT" :> Summary(ProjectUpdaters, Management, WriteScopes("PROJECTS"))) @@
    ("MANAGE_PROJECT_SHOWCASE_POST" :>
        Summary(ProjectUpdaters, ManagementAndCopilot, WriteScopes("PROJECTS"))) @@
    ("DELETE_PROJECT" :> Summary(Admins, {"manager"}, WriteScopes("PROJECTS")))

MemberSummaries ==
    ("READ_PROJECT_MEMBER" :>
        ReadByMembers(Admins \cup TALENT_MANAGER_ROLES, ReadScopes("PROJECT_MEMBERS"))) @@
    ("CREATE_PROJECT_MEMBER_OWN" :> AnyAuthenticated) @@
    Each({"CREATE_PROJECT_MEMBER_NOT_OWN", "UPDATE_PROJECT_MEMBER_NON_CUSTOMER",
          "DELETE_PROJECT_MEMBER_TOPCODER"}, Summary(Admins, Management, {})) @@
    ("DELETE_PROJECT_MEMBER_CUSTOMER" :> Summary(Admins, ManagementAndCopilot, {})) @@
    ("DELETE_PROJECT_MEMBER_COPILOT" :>
        Summary(Admins \cup {"COPILOT_MANAGER"}, ManagementAndCopilot, {}))

InviteSummaries ==
    LET Write(roles, members) == Summary(roles, members, WriteScopes("PROJECT_INVITES"))
        WithCopilotManager == Admins \cup {"COPILOT_MANAGER"}
    IN  Each({"READ_PROJECT_INVITE_OWN", "UPDATE_PROJECT_INVITE_OWN",
              "DELETE_PROJECT_INVITE_OWN"}, AnyAuthenticated) @@
        ("READ_PROJECT_INVITE_NOT_OWN" :>
            ReadByMembers(Admins \cup TALENT_MANAGER_ROLES, ReadScopes("PROJECT_INVITES"))) @@
        Each({"CREATE_PROJECT_INVITE_TOPCODER", "UPDATE_PROJECT_INVITE_NOT_OWN",
              "DELETE_PROJECT_INVITE_NOT_OWN_TOPCODER"}, Write(Admins, Management)) @@
        Each({"CREATE_PROJECT_INVITE_CUSTOMER", "DELETE_PROJECT_INVITE_NOT_OWN_CUSTOMER"},
             Write(Admins, ManagementAndCopilot)) @@
        ("CREATE_PROJECT_INVITE_COPILOT" :> Write(WithCopilotManager, {})) @@
        Each({"UPDATE_PROJECT_INVITE_REQUESTED", "DELETE_PROJECT_INVITE_REQUESTED"},
             Write(WithCopilotManager, Management)) @@
        ("DELETE_PROJECT_INVITE_NOT_OWN_COPILOT" :>
            Write(WithCopilotManager, ManagementAndCopilot))

BillingAndCopilotSummaries ==
    ("MANAGE_PROJECT_BILLING_ACCOUNT_ID" :> Summary(ADMIN_ROLES, {"manager"}, {})) @@
    ("MANAGE_PROJECT_DIRECT_PROJECT_ID" :> Summary(Admins, {}, {})) @@
    ("READ_AVL_PROJECT_BILLING_ACCOUNTS" :> Summary(BillingReaders, ManagementAndCopilot,
        AdminScope \cup {"PROJECTS_READ_USER_BILLING_ACCOUNTS"})) @@
    ("READ_PROJECT_BILLING_ACCOUNT_DETAILS" :> Summary(BillingReaders, ManagementAndCopilot,
        {"PROJECTS_READ_PROJECT_BILLING_ACCOUNT_DETAILS"})) @@
    Each({"MANAGE_COPILOT_REQUEST", "ASSIGN_COPILOT_OPPORTUNITY", "CANCEL_COPILOT_OPPORTUNITY"},
         Summary(CopilotRequestManagers, {}, WriteScopes("PROJECTS"))) @@
    ("APPLY_COPILOT_OPPORTUNITY" :> Summary({"TC_COPILOT"}, {}, {})) @@
    ("CREATE_PROJECT_AS_MANAGER" :> Summary(ADMIN_ROLES \cup TALENT_MANAGER_ROLES, {}, {}))

ContentSummaries ==
    ("VIEW_PROJECT_ATTACHMENT" :> ReadByMembers(Admins \cup TALENT_MANAGER_ROLES, {})) @@
    Each({"CREATE_PROJECT_ATTACHMENT", "EDIT_PROJECT_ATTACHMENT", "DELETE_PROJECT_ATTACHMENT"},
         Summary(Admins, ManagementAndCopilot \cup {"customer"}, {})) @@
    ("UPDATE_PROJECT_ATTACHMENT_NOT_OWN" :> Summary(Admins, {}, {})) @@
    Each({"ADD_PROJECT_PHASE", "UPDATE_PROJECT_PHASE", "DELETE_PROJECT_PHASE",
          "ADD_PHASE_PRODUCT", "UPDATE_PHASE_PRODUCT", "DELETE_PHASE_PRODUCT"}
            \cup WorkPermissions("CREATE") \cup WorkPermissions("EDIT"),
         Summary(Admins, ManagementAndCopilot, {})) @@
    Each(WorkPermissions("VIEW"), ReadByMembers(ManagerReaders, AdminScope)) @@
    Each(WorkPermissions("DELETE"), Summary(Admins, Management, {})) @@
    ("WORK_MANAGEMENT_PERMISSION_VIEW" :> AnyAuthenticated) @@
    ("WORK_MANAGEMENT_PERMISSION_EDIT" :> Summary(ADMIN_ROLES, {}, AdminScope))

(* An inline permission is summarised from its own fields.                    *)
Summaries == ProjectSummaries @@ MemberSummaries @@ InviteSummaries @@
             BillingAndCopilotSummaries @@ ContentSummaries @@ InlineRules

(* The summary of a route is the union of those of its permissions.  A caller *)
(* is named by its role or membership, or, being a machine, by its scopes.    *)
Documented(permissions, caller, member, invited) ==
    \E p \in permissions :
        LET s == Summaries[p]
        IN  \/ Accepts([s EXCEPT !.scopes = {}], caller, member, invited)
            \/ /\ caller.isMachine
               /\ s.scopes # {}
               /\ HasRequiredScopes(caller.scopes, s.scopes)

=============================================================================
