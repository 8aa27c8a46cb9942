--------------------------- MODULE RequestGuards ---------------------------
(* The way of one request to its handler: TokenRolesGuard, PermissionGuard,   *)
(* AdminOnlyGuard and ProjectContextInterceptor, in the order Nest runs them. *)
(* Each looks at what the decorators of the endpoint declare; each query is a *)
(* step of its own, between which other requests change who belongs to the    *)
(* project.                                                                   *)
EXTENDS Endpoints, PermissionDocs, Integers

CONSTANTS
    Callers,        \* the records [roles, scopes, isMachine] a token may hold
    Memberships,    \* the project roles the caller may have, "none" included
    MaxChanges      \* bounds the changes made to the project meanwhile

ASSUME CallersAssumption ==
    \A c \in Callers : c.roles \subseteq UserRole /\ c.scopes \subseteq Scope /\ c.isMachine \in BOOLEAN

ASSUME ChangesAssumption == MaxChanges \in Nat

ASSUME MembershipsAssumption == "none" \in Memberships /\ Memberships \subseteq ProjectMemberRole \cup {"none"}

----------------------------------------------------------------------------
(* What the tables owe each other.  They have no constants, so this is a fact *)
(* of the source that TLC evaluates, and a table that breaks it stops TLC.    *)

(* Whomever the rule accepts, one of the rules accepts.                       *)
Covers(rules, rule) ==
    \/ \E r \in rules : r.any
    \/ /\ ~rule.any
       /\ rule.roles \subseteq UNION {r.roles : r \in rules}
       /\ rule.members \subseteq UNION {r.members : r \in rules}
       /\ rule.invite => \E r \in rules : r.invite
       /\ ExpandScopes(rule.scopes) \subseteq UNION {ExpandScopes(r.scopes) : r \in rules}
       /\ ExpandScopes(rule.machineScopes) \subseteq
              UNION {ExpandScopes(r.scopes) \cup ExpandScopes(r.machineScopes) : r \in rules}

RulesOf(e) == {Rules[p] : p \in e.permissions}

(* A summary names callers by their scopes only if they are machines.         *)
SummariesOf(e) ==
    {[Summaries[p] EXCEPT !.scopes = {}, !.machineScopes = Summaries[p].scopes] : p \in e.permissions}

(* Rules that ask for members or invites are of routes that load them, and    *)
(* only a permission that every member has is one an invite gives.            *)
Loads(e) ==
    \A rule \in RulesOf(e) :
        /\ "none" \notin rule.members
        /\ rule.members # {} => e.project /\ e.permissions \cap MembersRequired # {}
        /\ rule.invite => /\ e.permissions \cap InvitesRequired # {}
                          /\ ProjectMemberRole \subseteq rule.members

(* A summary has all of its scopes in one field.                              *)
SummaryRecord ==
    [any : BOOLEAN, roles : SUBSET UserRole, members : SUBSET ProjectMemberRole, primary : {{}},
     invite : BOOLEAN, scopes : SUBSET Scope, machineScopes : {{}}]

ASSUME TablesAgree ==
    \A e \in Endpoints :
        /\ Loads(e)
        /\ \A s \in SummariesOf(e) : Covers(RulesOf(e), s)
        /\ \A p \in e.permissions : Summaries[p] \in SummaryRecord

----------------------------------------------------------------------------
VARIABLES
    request,    \* the endpoint asked for, the caller of its token, and the token
    project,    \* the rows: the caller's role in the project, an open invite, the account
    context,    \* request.projectContext, of the caller: what was loaded of it
    stage,      \* the guard that is next, or how the request ended
    changes,
    verdicts,   \* what the permissions say of the rows, at every moment so far
    insides     \* and whether the rows let a Talent Manager in

vars == <<request, project, context, stage, changes, verdicts, insides>>

Refusals == {"unauthorized", "noMetadata", "noScope", "noRole", "noPermission", "notAdmin",
             "outsider"}

NotLoaded == "notLoaded"

TypeOK ==
    /\ request \in [endpoint : Endpoints, caller : Callers, token : {"none", "invalid", "valid"}]
    /\ project \in [role : Memberships, invited : BOOLEAN, internal : BOOLEAN]
    /\ context \in [role : Memberships \cup {NotLoaded}, invited : {{}, {TRUE}, {FALSE}},
                    user : BOOLEAN]
    /\ stage \in {"token", "permission", "admin", "restriction", "context", "handled"} \cup Refusals
    /\ changes \in 0 .. MaxChanges
    /\ verdicts \subseteq BOOLEAN /\ insides \subseteq BOOLEAN

Member(role) == [role |-> IF role = NotLoaded THEN "none" ELSE role, isPrimary |-> FALSE]

Permitted(e, c, role, invited) ==
    \E p \in e.permissions : HasNamedPermission(p, c, Member(role), invited)

Verdict(r, rows) == Permitted(r.endpoint, r.caller, rows.role, rows.invited)

(* Members, and anyone if the project is not internal.                        *)
Inside(rows) == ~rows.internal \/ rows.role # "none"

(* Machines are users of no project.                                          *)
Init ==
    /\ request \in [endpoint : Endpoints, caller : Callers, token : {"none", "invalid", "valid"}]
    /\ project \in [role : Memberships, invited : BOOLEAN, internal : BOOLEAN]
    /\ request.caller.isMachine => project.role = "none" /\ ~project.invited
    /\ context = [role |-> NotLoaded, invited |-> {}, user |-> FALSE]
    /\ stage = "token"
    /\ changes = 0
    /\ verdicts = {Verdict(request, project)}
    /\ insides = {Inside(project)}

endpoint == request.endpoint
caller == request.caller

To(next) == stage' = next /\ UNCHANGED <<request, project, changes, verdicts, insides>>

----------------------------------------------------------------------------
(* TokenRolesGuard.                                                           *)

DeclaresAccess(e) == e.roles # {} \/ e.scopes # {} \/ e.any \/ e.adminOnly

(* What a valid token comes to, the checks in the order of the source.        *)
TokenVerdict(e, c) ==
    CASE ~DeclaresAccess(e) -> "noMetadata"
      [] DeclaresAccess(e) /\ (e.any \/ (e.roles = {} /\ e.scopes = {})) -> "permission"
      [] OTHER ->
            LET scoped == e.scopes # {} /\ HasRequiredScopes(c.scopes, e.scopes)
            IN  IF scoped \/ (~c.isMachine /\ c.roles \cap e.roles # {}) THEN "permission"
                ELSE IF c.isMachine THEN "noScope" ELSE "noRole"

(* A public endpoint reads the token only if it is optional there, and then   *)
(* refuses one that is there and invalid.                                     *)
CheckToken ==
    /\ stage = "token"
    /\ LET read == ~endpoint.public \/ endpoint.optional
           user == read /\ request.token = "valid"
           refused == read /\ ~user /\ (endpoint.public => request.token = "invalid")
       IN  /\ context' = [context EXCEPT !.user = user]
           /\ To(IF refused THEN "unauthorized"
                 ELSE IF endpoint.public THEN "permission"
                 ELSE TokenVerdict(endpoint, caller))

----------------------------------------------------------------------------
(* PermissionGuard: the members and invites are loaded only for permissions   *)
(* that are listed to need them.  What was not loaded is an empty list.       *)

(* Bug: the members are loaded only if every permission needs them.           *)
MustLoadMembersOfAll ==
    /\ context.user /\ endpoint.project
    /\ endpoint.permissions \subseteq MembersRequired
    /\ context.role = NotLoaded

MustLoadMembers ==
    /\ context.user /\ endpoint.project
    /\ endpoint.permissions \cap MembersRequired # {}
    /\ context.role = NotLoaded

(* Bug: the invites are not loaded once the members are.                      *)
MustLoadInvitesInstead ==
    /\ context.user /\ endpoint.project
    /\ endpoint.permissions \cap InvitesRequired # {}
    /\ context.invited = {} /\ context.role = NotLoaded

MustLoadInvites ==
    /\ context.user /\ endpoint.project
    /\ endpoint.permissions \cap InvitesRequired # {}
    /\ context.invited = {}

LoadMembers ==
    /\ stage = "permission" /\ MustLoadMembers
    /\ context' = [context EXCEPT !.role = project.role]
    /\ To("permission")

LoadInvites ==
    /\ stage = "permission" /\ ~MustLoadMembers /\ MustLoadInvites
    /\ context' = [context EXCEPT !.invited = {project.invited}]
    /\ To("permission")

CheckPermission ==
    /\ stage = "permission" /\ ~MustLoadMembers /\ ~MustLoadInvites
    /\ To(IF endpoint.permissions = {} THEN "admin"
          ELSE IF ~context.user THEN "unauthorized"
          ELSE IF Permitted(endpoint, caller, context.role, TRUE \in context.invited) THEN "admin"
          ELSE "noPermission")
    /\ UNCHANGED context

(* AdminOnlyGuard.                                                            *)
IsAdmin(c) ==
    c.roles \cap ADMIN_ROLES # {} \/ HasRequiredScopes(c.scopes, {"CONNECT_PROJECT_ADMIN"})

CheckAdmin ==
    /\ stage = "admin"
    /\ To(IF ~endpoint.adminOnly THEN "restriction"
          ELSE IF ~context.user THEN "unauthorized"
          ELSE IF IsAdmin(caller) THEN "restriction" ELSE "notAdmin")
    /\ UNCHANGED context

----------------------------------------------------------------------------
(* ProjectContextInterceptor: Talent Managers stay out of internal projects   *)
(* they are no members of; then the members are loaded, unless they were.  A  *)
(* failure to load them is an empty list.                                     *)

IsRestrictedTalentManager(c) ==
    ~c.isMachine /\ c.roles \cap ADMIN_ROLES = {} /\ c.roles \cap TALENT_MANAGER_ROLES # {}

Restricted == context.user /\ IsRestrictedTalentManager(caller)

(* Bug: the cached members are looked at before the restriction.              *)
CheckRestrictionCacheFirst ==
    /\ stage = "restriction"
    /\ To(IF ~endpoint.project THEN "handled"
          ELSE IF context.role # NotLoaded THEN "context"
          ELSE IF Restricted /\ ~Inside(project) THEN "outsider"
          ELSE "context")
    /\ UNCHANGED context

CheckRestriction ==
    /\ stage = "restriction"
    /\ To(IF ~endpoint.project THEN "handled"
          ELSE IF Restricted /\ ~Inside(project) THEN "outsider"
          ELSE "context")
    /\ UNCHANGED context

LoadContext ==
    /\ stage = "context"
    /\ \/ context.role # NotLoaded /\ UNCHANGED context
       \/ /\ context.role = NotLoaded
          /\ \E role \in {project.role, "none"} : context' = [context EXCEPT !.role = role]
    /\ To("handled")

----------------------------------------------------------------------------
(* What other requests do to the project meanwhile.                           *)

Waiting == stage \notin {"token", "handled"} \cup Refusals

Change(rows) ==
    /\ Waiting /\ changes < MaxChanges
    /\ project' = rows
    /\ verdicts' = verdicts \cup {Verdict(request, rows)}
    /\ insides' = insides \cup {Inside(rows)}
    /\ changes' = changes + 1
    /\ UNCHANGED <<request, context, stage>>

IsUser == ~caller.isMachine

\* updateInvite: the acceptance makes the member and ends the invite in one transaction.
AcceptInvite ==
    /\ IsUser /\ project.invited /\ project.role = "none"
    /\ \E role \in Memberships \ {"none"} :
        Change([project EXCEPT !.role = role, !.invited = FALSE])

AddMember ==
    /\ IsUser /\ project.role = "none"
    /\ \E role \in Memberships \ {"none"} : Change([project EXCEPT !.role = role])

UpdateMember ==
    /\ project.role # "none"
    /\ \E role \in Memberships \ {"none", project.role} : Change([project EXCEPT !.role = role])

DeleteMember == project.role # "none" /\ Change([project EXCEPT !.role = "none"])

CreateInvite ==
    /\ IsUser /\ project.role = "none" /\ ~project.invited
    /\ Change([project EXCEPT !.invited = TRUE])

EndInvite == project.invited /\ Change([project EXCEPT !.invited = FALSE])

SetBillingAccount == Change([project EXCEPT !.internal = ~@])

Next ==
    \/ CheckToken \/ LoadMembers \/ LoadInvites \/ CheckPermission \/ CheckAdmin
    \/ CheckRestriction \/ LoadContext
    \/ AcceptInvite \/ AddMember \/ UpdateMember \/ DeleteMember
    \/ CreateInvite \/ EndInvite \/ SetBillingAccount

Spec == Init /\ [][Next]_vars

----------------------------------------------------------------------------
(* Properties.                                                                *)

Admitted == stage \in {"admin", "restriction", "context", "handled"}

(* PermissionGuard decides on what it loaded, and loads what a list kept      *)
(* apart from the rules names.  Whom it admits had a permission at some       *)
(* moment of the request.  Whom it refuses lacked all of them at some moment, *)
(* save who accepted an invite between the two queries: neither saw it.       *)
VerdictHasReason ==
    endpoint.project =>
        /\ Admitted /\ endpoint.permissions # {} => TRUE \in verdicts
        /\ stage = "noPermission" =>
              FALSE \in verdicts \/ (context.role = "none" /\ context.invited = {FALSE})

(* Swagger shows each route the roles, memberships and scopes that open it    *)
(* (permission-docs.utils.ts), from a table of its own.  On a project that    *)
(* does not change, who is named there is not refused for lack of permission. *)
DocumentedReach ==
    stage = "noPermission" /\ changes = 0 =>
        ~Documented(endpoint.permissions, caller, Member(project.role), project.invited)

(* "The returned data mirrors the current switch", permission-docs.utils.ts   *)
(* says of the summaries.  The other half of it: on a project that does not   *)
(* change, whomever the switch admits to a route is named by its summary.     *)
SummariesMirror ==
    Admitted /\ endpoint.permissions # {} /\ changes = 0 =>
        Documented(endpoint.permissions, caller, Member(project.role), project.invited)

(* A Talent Manager is let into an internal project only if he was a member   *)
(* of it, or it was not internal, at some moment of the request: the members  *)
(* PermissionGuard cached, and what it decided on them, do not stand in for   *)
(* the restriction.                                                           *)
InternalProjectsKept ==
    stage = "handled" /\ endpoint.project /\ Restricted => TRUE \in insides

=============================================================================
