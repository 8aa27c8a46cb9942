----------------------------- MODULE Endpoints -----------------------------
(* What the decorators of every controller declare of each of its handlers:   *)
(*   public, optional   @Public(), @OptionalAuthenticated()                   *)
(*   roles, scopes      @Roles(), @Scopes(), of the handler or of its class   *)
(*   any, adminOnly     @AnyAuthenticated(), @AdminOnly()                     *)
(*   permissions        @RequirePermission() under PermissionGuard            *)
(*   project            the route has a projectId                             *)
(* A definition per controller, or part of one, a field per handler; what a   *)
(* handler does once it is reached is the subject of the other modules.       *)
EXTENDS Permissions

Undeclared == [public |-> FALSE, optional |-> FALSE, roles |-> {}, scopes |-> {}, any |-> FALSE,
               adminOnly |-> FALSE, permissions |-> {}, project |-> FALSE]

Public == [Undeclared EXCEPT !.public = TRUE]
AdminOnly == [Undeclared EXCEPT !.adminOnly = TRUE]
AnyToken == [Undeclared EXCEPT !.any = TRUE]
AnyTokenAdminOnly == [AnyToken EXCEPT !.adminOnly = TRUE]

Declared(roles, scopes, permissions) ==
    [Undeclared EXCEPT !.roles = roles, !.scopes = scopes, !.permissions = permissions]

InProject(endpoint) == [endpoint EXCEPT !.project = TRUE]

AnyProjectScope == ReadScopes("PROJECTS") \cup {"PROJECTS_WRITE"}
WriteProjects == WriteScopes("PROJECTS")

(* Handlers of a project that any role may call, reading or writing.          *)
Reads(permission) == InProject(Declared(UserRole, AnyProjectScope, {permission}))
Writes(permission) == InProject(Declared(UserRole, WriteProjects, {permission}))

----------------------------------------------------------------------------

CopilotApplicationController ==
    [applyToOpportunity |-> Declared({"TC_COPILOT"}, WriteProjects, {"APPLY_COPILOT_OPPORTUNITY"}),
     listApplications |-> Declared(UserRole, AnyProjectScope, {})]

(* Roles and scopes of a public handler are declared and never looked at.     *)
PublicOpportunities ==
    LET Listed == [Declared(UserRole, AnyProjectScope, {})
                    EXCEPT !.public = TRUE, !.optional = TRUE]
    IN  [listOpportunities |-> Listed, getOpportunity |-> Listed]

OpportunityDecisions ==
    [assignCopilot |->
        Declared(CopilotRequestManagers, WriteProjects, {"ASSIGN_COPILOT_OPPORTUNITY"}),
     cancelOpportunity |->
        Declared(CopilotRequestManagers, WriteProjects, {"CANCEL_COPILOT_OPPORTUNITY"})]

(* The class declares roles, scopes and permission for all of its handlers.   *)
CopilotRequests ==
    LET Managed == Declared(CopilotRequestManagers, WriteProjects, {"MANAGE_COPILOT_REQUEST"})
    IN  [listAllRequests |-> Managed, getRequest |-> Managed, updateRequest |-> Managed,
         createRequestFromPayloadProject |-> Managed]

CopilotRequestsOfProject ==
    LET Managed == InProject(CopilotRequests.getRequest)
    IN  [listProjectRequests |-> Managed, createRequest |-> Managed, approveRequest |-> Managed]

HealthCheckController == [healthCheck |-> Public]

FormRevisionController ==
    [listRevisions |-> Public, getRevision |-> Public,
     createRevision |-> AdminOnly, deleteRevision |-> AdminOnly]

FormVersionController ==
    [listVersions |-> Public, getVersion |-> Public,
     createVersion |-> AdminOnly, updateVersion |-> AdminOnly, deleteVersion |-> AdminOnly]

LatestControllers == [getLatest |-> Public]
PlanConfigController == LatestControllers
PriceConfigController == LatestControllers

MetadataListController == [getAllMetadata |-> Public]

(* The reads of these four controllers declare nothing at all.                *)
OrgConfigController ==
    [list |-> Undeclared, getOne |-> Undeclared,
     create |-> AdminOnly, update |-> AdminOnly, delete |-> AdminOnly]

PlanConfigRevisionController ==
    [listRevisions |-> Undeclared, getRevision |-> Undeclared,
     createRevision |-> AdminOnly, deleteRevision |-> AdminOnly]

PlanConfigVersionController ==
    [listVersions |-> Undeclared, getVersion |-> Undeclared,
     createVersion |-> AdminOnly, updateVersion |-> AdminOnly, deleteVersion |-> AdminOnly]

PriceConfigRevisionController == PlanConfigRevisionController
PriceConfigVersionController == PlanConfigVersionController

ProductCategoryController ==
    [list |-> Undeclared, getOne |-> Undeclared,
     create |-> AdminOnly, update |-> AdminOnly, delete |-> AdminOnly]

ProductTemplateController ==
    [list |-> Public, getOne |-> Public, create |-> AdminOnly, update |-> AdminOnly,
     delete |-> AdminOnly, upgrade |-> AdminOnly]

ProjectTemplateController == ProductTemplateController

(* @AnyAuthenticated() on the class, @AdminOnly() on the writes.              *)
ProjectTypeController ==
    [list |-> AnyToken, getOne |-> AnyToken, create |-> AnyTokenAdminOnly,
     update |-> AnyTokenAdminOnly, delete |-> AnyTokenAdminOnly]

PostCategoryController == ProjectTypeController
PostIndustryController == ProjectTypeController

WorkManagementPermissionRead ==
    [listOrGet |-> Declared(UserRole, AnyProjectScope, {"WORK_MANAGEMENT_PERMISSION_VIEW"})]

WorkManagementPermissionWrites ==
    LET Edited == [Declared(UserRole, AnyProjectScope, {"WORK_MANAGEMENT_PERMISSION_EDIT"})
                    EXCEPT !.adminOnly = TRUE]
    IN  [create |-> Edited, update |-> Edited, delete |-> Edited]

----------------------------------------------------------------------------

PhaseProductReads ==
    [listPhaseProducts |-> Reads("VIEW_PROJECT"), getPhaseProduct |-> Reads("VIEW_PROJECT")]

PhaseProductWrites ==
    [createPhaseProduct |-> Writes("ADD_PHASE_PRODUCT"),
     updatePhaseProduct |-> Writes("UPDATE_PHASE_PRODUCT"),
     deletePhaseProduct |-> Writes("DELETE_PHASE_PRODUCT")]

WorkItemReads == [listWorkItems |-> Reads("WORKITEM_VIEW"), getWorkItem |-> Reads("WORKITEM_VIEW")]

WorkItemWrites ==
    [createWorkItem |-> Writes("WORKITEM_CREATE"), updateWorkItem |-> Writes("WORKITEM_EDIT")]

WorkItemDelete == [deleteWorkItem |-> Writes("WORKITEM_DELETE")]

WorkReads == [listWorks |-> Reads("WORK_VIEW"), getWork |-> Reads("WORK_VIEW")]

WorkWrites ==
    [createWork |-> Writes("WORK_CREATE"), updateWork |-> Writes("WORK_EDIT"),
     deleteWork |-> Writes("WORK_DELETE")]

WorkStreamReads ==
    [listWorkStreams |-> Reads("WORKSTREAM_VIEW"), createWorkStream |-> Writes("WORKSTREAM_CREATE"),
     getWorkStream |-> Reads("WORKSTREAM_VIEW")]

WorkStreamWrites ==
    [updateWorkStream |-> Writes("WORKSTREAM_EDIT"), deleteWorkStream |-> Writes("WORKSTREAM_DELETE")]

ProjectPhaseReads == [listPhases |-> Reads("VIEW_PROJECT"), getPhase |-> Reads("VIEW_PROJECT")]

ProjectPhaseWrites ==
    [createPhase |-> Writes("ADD_PROJECT_PHASE"), updatePhase |-> Writes("UPDATE_PROJECT_PHASE"),
     deletePhase |-> Writes("DELETE_PROJECT_PHASE")]

AttachmentReads ==
    [listAttachments |-> Reads("VIEW_PROJECT_ATTACHMENT"),
     getAttachment |-> Reads("VIEW_PROJECT_ATTACHMENT")]

AttachmentWrites ==
    [createAttachment |-> Writes("CREATE_PROJECT_ATTACHMENT"),
     updateAttachment |-> Writes("EDIT_PROJECT_ATTACHMENT"),
     deleteAttachment |-> Writes("DELETE_PROJECT_ATTACHMENT")]

(* A handler that several permissions open is open to whoever has one.        *)
InviteHandler(scopes, permissions) == InProject(Declared(UserRole, scopes, permissions))

InviteListAndCreate ==
    [listInvites |-> InviteHandler(ReadScopes("PROJECT_INVITES"),
        {"READ_PROJECT_INVITE_OWN", "READ_PROJECT_INVITE_NOT_OWN"}),
     createInvites |-> InviteHandler(WriteScopes("PROJECT_INVITES"),
        {"CREATE_PROJECT_INVITE_CUSTOMER", "CREATE_PROJECT_INVITE_TOPCODER",
         "CREATE_PROJECT_INVITE_COPILOT"})]

InviteChanges ==
    [updateInvite |-> InviteHandler(WriteScopes("PROJECT_INVITES"),
        {"UPDATE_PROJECT_INVITE_OWN", "UPDATE_PROJECT_INVITE_REQUESTED",
         "UPDATE_PROJECT_INVITE_NOT_OWN"}),
     deleteInvite |-> InviteHandler(WriteScopes("PROJECT_INVITES"),
        {"DELETE_PROJECT_INVITE_OWN", "DELETE_PROJECT_INVITE_REQUESTED",
         "DELETE_PROJECT_INVITE_NOT_OWN_TOPCODER", "DELETE_PROJECT_INVITE_NOT_OWN_CUSTOMER",
         "DELETE_PROJECT_INVITE_NOT_OWN_COPILOT"}),
     getInvite |-> InviteListAndCreate.listInvites]

MemberChanges ==
    [addMember |-> InviteHandler(WriteScopes("PROJECT_MEMBERS"),
        {"CREATE_PROJECT_MEMBER_OWN", "CREATE_PROJECT_MEMBER_NOT_OWN"}),
     updateMember |-> InviteHandler(WriteScopes("PROJECT_MEMBERS"),
        {"UPDATE_PROJECT_MEMBER_NON_CUSTOMER", "CREATE_PROJECT_MEMBER_OWN"}),
     deleteMember |-> InviteHandler(WriteScopes("PROJECT_MEMBERS"),
        {"DELETE_PROJECT_MEMBER_TOPCODER", "DELETE_PROJECT_MEMBER_CUSTOMER",
         "DELETE_PROJECT_MEMBER_COPILOT"})]

MemberReads ==
    LET Read == InviteHandler(ReadScopes("PROJECT_MEMBERS"), {"READ_PROJECT_MEMBER"})
    IN  [listMembers |-> Read, getMember |-> Read]

SettingReads == [findAll |-> Reads("VIEW_PROJECT"), create |-> Writes("EDIT_PROJECT")]

SettingWrites == [update |-> Writes("EDIT_PROJECT"), delete |-> Writes("EDIT_PROJECT")]

ShowcasePostReads ==
    [searchPosts |-> Declared(UserRole, ReadScopes("PROJECTS"), {"READ_PROJECT_ANY"}),
     listProjectPosts |-> Reads("VIEW_PROJECT"), getProjectPost |-> Reads("VIEW_PROJECT")]

ShowcasePostWrites ==
    [createProjectPost |-> Writes("MANAGE_PROJECT_SHOWCASE_POST"),
     updateProjectPost |-> Writes("MANAGE_PROJECT_SHOWCASE_POST"),
     deleteProjectPost |-> Writes("MANAGE_PROJECT_SHOWCASE_POST")]

ProjectReads ==
    [listProjects |-> Declared(UserRole, AnyProjectScope, {"READ_PROJECT_ANY", "CREATE_PROJECT"}),
     getProject |-> [Reads("VIEW_PROJECT") EXCEPT !.scopes = @ \ AdminScope]]

ProjectBilling ==
    [listProjectBillingAccounts |-> InProject(Declared(UserRole,
        AdminScope \cup {"PROJECTS_READ_USER_BILLING_ACCOUNTS"},
        {"READ_AVL_PROJECT_BILLING_ACCOUNTS"})),
     getProjectBillingAccount |-> InProject(Declared(UserRole,
        {"PROJECTS_READ_PROJECT_BILLING_ACCOUNT_DETAILS"},
        {"READ_PROJECT_BILLING_ACCOUNT_DETAILS"}))]

ProjectPermissions ==
    [getProjectPermissions |-> InProject(Declared(UserRole, AnyProjectScope,
        {"VIEW_PROJECT", "INLINE_PERMISSIONS_READERS"}))]

ProjectCreation ==
    [createProject |-> Declared(UserRole, WriteProjects, {"CREATE_PROJECT"}),
     upgradeProject |-> InProject(AdminOnly)]

ProjectChanges ==
    [updateProject |-> Writes("EDIT_PROJECT"), deleteProject |-> Writes("DELETE_PROJECT")]

SalesforceOpportunityController ==
    [getOpportunity |-> Declared(MANAGER_ROLES \cup TALENT_MANAGER_ROLES, {}, {})]

----------------------------------------------------------------------------

Handlers(controller) == {controller[h] : h \in DOMAIN controller}

MetadataEndpoints ==
    UNION {Handlers(HealthCheckController), Handlers(FormRevisionController),
           Handlers(FormVersionController), Handlers(LatestControllers),
           Handlers(PlanConfigController), Handlers(PriceConfigController),
           Handlers(MetadataListController), Handlers(OrgConfigController),
           Handlers(PlanConfigRevisionController), Handlers(PlanConfigVersionController),
           Handlers(PriceConfigRevisionController), Handlers(PriceConfigVersionController),
           Handlers(ProductCategoryController), Handlers(ProductTemplateController),
           Handlers(ProjectTemplateController), Handlers(ProjectTypeController),
           Handlers(PostCategoryController), Handlers(PostIndustryController),
           Handlers(WorkManagementPermissionRead), Handlers(WorkManagementPermissionWrites)}

ProjectEndpoints ==
    UNION {Handlers(PhaseProductReads), Handlers(PhaseProductWrites), Handlers(WorkItemReads),
           Handlers(WorkItemWrites), Handlers(WorkItemDelete), Handlers(WorkReads),
           Handlers(WorkWrites), Handlers(WorkStreamReads), Handlers(WorkStreamWrites),
           Handlers(ProjectPhaseReads), Handlers(ProjectPhaseWrites), Handlers(AttachmentReads),
           Handlers(AttachmentWrites), Handlers(InviteListAndCreate), Handlers(InviteChanges),
           Handlers(MemberChanges), Handlers(MemberReads), Handlers(SettingReads),
           Handlers(SettingWrites), Handlers(ShowcasePostReads), Handlers(ShowcasePostWrites),
           Handlers(ProjectReads), Handlers(ProjectBilling), Handlers(ProjectPermissions),
           Handlers(ProjectCreation), Handlers(ProjectChanges)}

CopilotEndpoints ==
    UNION {Handlers(CopilotApplicationController), Handlers(PublicOpportunities),
           Handlers(OpportunityDecisions), Handlers(CopilotRequests),
           Handlers(CopilotRequestsOfProject), Handlers(SalesforceOpportunityController)}

Endpoints == MetadataEndpoints \cup ProjectEndpoints \cup CopilotEndpoints
=============================================================================
