--------------------------- MODULE CopilotWorkflow ---------------------------
(***************************************************************************)
(* The copilot workflow of the projects API: copilot requests, the         *)
(* opportunities they open, the applications to those opportunities, the   *)
(* project invites that may be linked to an application and the project    *)
(* members they all end in.                                                *)
(*                                                                         *)
(* Every table of the database is a function from row ids to rows.  A row  *)
(* whose status is "none" has not been inserted yet; ids are handed out in *)
(* increasing order, as the autoincrement columns do.  One action is one   *)
(* handler of the API, run on its own from its first read to its last      *)
(* write; CopilotRaces.tla interleaves the handlers.                       *)
(*                                                                         *)
(* The caller's permission is not part of this module: every action is     *)
(* taken by some caller who holds the permission its handler asks for.     *)
(***************************************************************************)
EXTENDS Integers, FiniteSets

CONSTANTS
    Projects,           \* ids of the projects
    Users,              \* ids of registered users
    Types,              \* CopilotOpportunityType
    Roles,              \* ProjectMemberRole
    Null,               \* an SQL null
    MaxRequests,        \* bounds on the rows of each table
    MaxOpportunities,
    MaxApplications,
    MaxMembers,
    MaxInvites

RequestIds     == 1..MaxRequests
OpportunityIds == 1..MaxOpportunities
ApplicationIds == 1..MaxApplications
MemberIds      == 1..MaxMembers
InviteIds      == 1..MaxInvites

ASSUME BoundsAssumption ==
    /\ MaxRequests \in Nat /\ MaxOpportunities \in Nat
    /\ MaxApplications \in Nat /\ MaxMembers \in Nat /\ MaxInvites \in Nat

ASSUME NullAssumption ==
    /\ Null \notin Projects /\ Null \notin Users /\ Null \notin Types
    /\ Null \notin Roles /\ Null \notin Int

\* The handlers compare a role with "customer", "manager" and "copilot" only.
ASSUME RolesAssumption == "copilot" \in Roles

VARIABLES
    projects,           \* ids of the projects that are not soft-deleted
    requests,           \* copilot_requests
    opportunities,      \* copilot_opportunities
    applications,       \* copilot_applications
    members,            \* project_members
    invites             \* project_member_invites

vars == <<projects, requests, opportunities, applications, members, invites>>

-----------------------------------------------------------------------------
(* Rows.                                                                   *)

RequestStatus     == {"new", "approved", "rejected", "seeking", "canceled", "fulfilled"}
OpportunityStatus == {"active", "completed", "canceled"}
ApplicationStatus == {"pending", "invited", "accepted", "canceled"}
InviteStatus      == {"pending", "accepted", "refused", "requested",
                      "request_rejected", "request_approved", "canceled"}

Request == [status : RequestStatus \cup {"none"}, project : Projects \cup {Null},
            type : Types \cup {Null}]

Opportunity == [status : OpportunityStatus \cup {"none"},
                request : RequestIds \cup {Null},
                project : Projects \cup {Null}, type : Types \cup {Null}]

Application == [status : ApplicationStatus \cup {"none"},
                opportunity : OpportunityIds \cup {Null}, user : Users \cup {Null}]

Member == [status : {"none", "active", "deleted"}, project : Projects \cup {Null},
           user : Users \cup {Null}, role : Roles \cup {Null}, isPrimary : BOOLEAN]

\* An invite whose user is Null was sent to the e-mail address of nobody registered.
Invite == [status : InviteStatus \cup {"none"}, project : Projects \cup {Null},
           user : Users \cup {Null}, role : Roles \cup {Null},
           application : ApplicationIds \cup {Null}]

NoRequest     == [status |-> "none", project |-> Null, type |-> Null]
NoOpportunity == [status |-> "none", request |-> Null, project |-> Null, type |-> Null]
NoApplication == [status |-> "none", opportunity |-> Null, user |-> Null]
NoMember      == [status |-> "none", project |-> Null, user |-> Null,
                  role |-> Null, isPrimary |-> FALSE]
NoInvite      == [status |-> "none", project |-> Null, user |-> Null,
                  role |-> Null, application |-> Null]

\* The id the next insert into a table gets: none when the bound is reached.
Fresh(table) ==
    {i \in DOMAIN table : /\ table[i].status = "none"
                          /\ \A j \in 1..(i - 1) : table[j].status # "none"}

\* UPDATE table SET status = s WHERE id IN ids
SetStatus(table, ids, s) ==
    [i \in DOMAIN table |-> IF i \in ids THEN [table[i] EXCEPT !.status = s]
                                         ELSE table[i]]

TypeOK ==
    /\ projects \subseteq Projects
    /\ requests \in [RequestIds -> Request]
    /\ opportunities \in [OpportunityIds -> Opportunity]
    /\ applications \in [ApplicationIds -> Application]
    /\ members \in [MemberIds -> Member]
    /\ invites \in [InviteIds -> Invite]

\* Projects that a machine token created: no member yet, nothing requested.
Init ==
    /\ projects = Projects
    /\ requests = [r \in RequestIds |-> NoRequest]
    /\ opportunities = [o \in OpportunityIds |-> NoOpportunity]
    /\ applications = [a \in ApplicationIds |-> NoApplication]
    /\ members = [m \in MemberIds |-> NoMember]
    /\ invites = [i \in InviteIds |-> NoInvite]

-----------------------------------------------------------------------------
(* Queries several handlers share.                                         *)

OpenRequestStatus == {"new", "approved", "seeking"}
OpenInviteStatus  == {"pending", "requested"}

\* ensureNoDuplicateRequestType: requests that conflict with one of this type.
DuplicateRequests(p, t) ==
    {r \in RequestIds : /\ requests[r].project = p
                        /\ requests[r].status \in OpenRequestStatus
                        /\ requests[r].type = t}

ActiveOpportunities(p, t) ==
    {o \in OpportunityIds : /\ opportunities[o].project = p
                            /\ opportunities[o].type = t
                            /\ opportunities[o].status = "active"}

ApplicationsOf(o) == {a \in ApplicationIds : applications[a].opportunity = o}

MembersOf(p, u) ==
    {m \in MemberIds : /\ members[m].status = "active"
                       /\ members[m].project = p
                       /\ members[m].user = u}

\* What findFirst or find may return for a user: Null when there is no row.
FindMember(p, u) == IF MembersOf(p, u) = {} THEN {Null} ELSE MembersOf(p, u)

OpenInvites(p) ==
    {i \in InviteIds : /\ invites[i].project = p
                       /\ invites[i].status \in OpenInviteStatus}

\* INSERT INTO project_members
CreateMember(p, u, role) ==
    \E m \in Fresh(members) :
        members' = [members EXCEPT ![m] =
            [status |-> "active", project |-> p, user |-> u, role |-> role,
             isPrimary |-> FALSE]]

-----------------------------------------------------------------------------
(* copilot-request.service                                                 *)
(*                                                                         *)
(* A handler is split into the rows it reads and checks and the writes it  *)
(* makes; here the two happen together, in CopilotRaces.tla other handlers *)
(* may write in between.                                                   *)

\* approveRequestInternal: p is the project of the path, t the type of the
\* opportunity.
ApproveReads(p, t) ==
    /\ p \in projects
    /\ ActiveOpportunities(p, t) = {}

ApproveWrites(p, r, req, t) ==
    /\ requests' = [requests EXCEPT ![r] = [req EXCEPT !.status = "approved"]]
    /\ \E o \in Fresh(opportunities) :
        opportunities' = [opportunities EXCEPT ![o] =
            [status |-> "active", request |-> r, project |-> p, type |-> t]]
    /\ UNCHANGED <<projects, applications, members, invites>>

CreateRequestReads(p, t) == DuplicateRequests(p, t) = {} /\ ApproveReads(p, t)

\* The request is inserted as new and approved in the same transaction.
CreateRequestWrites(p, t) ==
    \E r \in Fresh(requests) :
        ApproveWrites(p, r, [status |-> "new", project |-> p, type |-> t], t)

CreateRequest(p, t) == CreateRequestReads(p, t) /\ CreateRequestWrites(p, t)

\* A patch that carries a projectType; other patches change no modelled column.
UpdateRequestReads(r, t) ==
    /\ requests[r].status \notin {"none", "canceled", "fulfilled"}
    /\ t # requests[r].type => DuplicateRequests(requests[r].project, t) \ {r} = {}

UpdateRequestWrites(r, t) ==
    /\ requests' = [requests EXCEPT ![r].type = t]
    /\ opportunities' = [o \in OpportunityIds |->
            IF opportunities[o].request = r THEN [opportunities[o] EXCEPT !.type = t]
                                            ELSE opportunities[o]]
    /\ UNCHANGED <<projects, applications, members, invites>>

UpdateRequest(r, t) == UpdateRequestReads(r, t) /\ UpdateRequestWrites(r, t)

\* t is the override or the request's own type.  Neither the request's status
\* nor its project is compared with anything.
ApproveRequest(p, r, t) ==
    /\ requests[r].status # "none"
    /\ ApproveReads(p, t)
    /\ ApproveWrites(p, r, requests[r], t)

-----------------------------------------------------------------------------
(* copilot-application.service                                             *)

\* Bug: the existing application is not looked for.
ApplyReadsNoLookup(o, u) == opportunities[o].status = "active" /\ u \in Users

\* An existing application is returned as it is: no step.
ApplyReads(o, u) ==
    /\ opportunities[o].status = "active"
    /\ \A a \in ApplicationsOf(o) : applications[a].user # u

ApplyWrites(o, u) ==
    /\ \E a \in Fresh(applications) :
        applications' = [applications EXCEPT ![a] =
            [status |-> "pending", opportunity |-> o, user |-> u]]
    /\ UNCHANGED <<projects, requests, opportunities, members, invites>>

ApplyToOpportunity(o, u) == ApplyReads(o, u) /\ ApplyWrites(o, u)

-----------------------------------------------------------------------------
(* copilot-opportunity.service                                             *)

AssignReads(o, a) ==
    /\ opportunities[o].status = "active"
    /\ opportunities[o].project # Null
    /\ applications[a].opportunity = o
    /\ applications[a].status # "accepted"

\* Steps 5 and 6: the application is accepted, every other one canceled.
\* Bug: only the pending ones are canceled.
AcceptCancelingPending(o, a) ==
    applications' = [SetStatus(applications,
                               {b \in ApplicationsOf(o) : applications[b].status = "pending"},
                               "canceled")
                         EXCEPT ![a].status = "accepted"]

AcceptCancelingOthers(o, a) ==
    applications' = [SetStatus(applications, ApplicationsOf(o), "canceled")
                         EXCEPT ![a].status = "accepted"]

\* Step 4: m is the member row the transaction read for the applicant, Null when
\* there was none, and role the role that row had.
\* Bug: a user who is not a member yet is not made one.
UpdateMemberOnly(p, u, m, role) ==
    IF m = Null \/ role \in {"copilot", "manager"} THEN UNCHANGED members
    ELSE members' = [members EXCEPT ![m].role = "copilot"]

UpsertCopilot(p, u, m, role) ==
    IF m = Null THEN CreateMember(p, u, "copilot")
    ELSE IF role \in {"copilot", "manager"} THEN UNCHANGED members
    ELSE members' = [members EXCEPT ![m].role = "copilot"]

\* Bug: step 7, the opportunity is not completed.
AssignWritesOpen(o, a, m, role) ==
    /\ UpsertCopilot(opportunities[o].project, applications[a].user, m, role)
    /\ AcceptCancelingOthers(o, a)
    /\ requests' = SetStatus(requests, {opportunities[o].request}, "fulfilled")
    /\ UNCHANGED <<projects, opportunities, invites>>

AssignWrites(o, a, m, role) ==
    /\ UpsertCopilot(opportunities[o].project, applications[a].user, m, role)
    /\ AcceptCancelingOthers(o, a)
    /\ opportunities' = [opportunities EXCEPT ![o].status = "completed"]
    /\ requests' = SetStatus(requests, {opportunities[o].request}, "fulfilled")
    /\ UNCHANGED <<projects, invites>>

AssignCopilot(o, a) ==
    /\ AssignReads(o, a)
    /\ \E m \in FindMember(opportunities[o].project, applications[a].user) :
        AssignWrites(o, a, m, IF m = Null THEN Null ELSE members[m].role)

\* Bug: an application that has been decided is left as it is.
CancelWritesPending(o, listed) ==
    /\ applications' = SetStatus(applications,
                           {a \in listed : applications[a].status = "pending"}, "canceled")
    /\ opportunities' = [opportunities EXCEPT ![o].status = "canceled"]
    /\ UNCHANGED <<projects, requests, members, invites>>

\* Bug: a status that the column does not have.
CancelWritesMisspelt(o, listed) ==
    /\ applications' = SetStatus(applications, listed, "cancelled")
    /\ opportunities' = [opportunities EXCEPT ![o].status = "canceled"]
    /\ UNCHANGED <<projects, requests, members, invites>>

\* listed are the applications the transaction read; the opportunity is
\* canceled whatever its status.
CancelWrites(o, listed) ==
    /\ applications' = SetStatus(applications, listed, "canceled")
    /\ opportunities' = [opportunities EXCEPT ![o].status = "canceled"]
    /\ UNCHANGED <<projects, requests, members, invites>>

CancelOpportunity(o) ==
    /\ opportunities[o].status # "none"
    /\ CancelWrites(o, ApplicationsOf(o))

-----------------------------------------------------------------------------
(* project-invite.service                                                  *)

\* The users of a list of handles or e-mails who are neither members nor
\* invited according to the rows read before anything is inserted.
InviteTargets(p, named) ==
    {u \in named : /\ MembersOf(p, u) = {}
                   /\ \A i \in OpenInvites(p) : invites[i].user # u}

\* handles and emails name registered users, and Null in emails stands for the
\* one address that belongs to nobody.  E-mails are for customers only.  An
\* invite is only requested when the caller may not invite copilots directly.
CreateInvites(p, role, handles, emails, status) ==
    LET byEmail == IF role = "customer" THEN InviteTargets(p, emails) ELSE {}
        targets == {<<"handle", u>> : u \in InviteTargets(p, handles)}
                     \cup {<<"email", u>> : u \in byEmail}
        used    == Cardinality({i \in InviteIds : invites[i].status # "none"})
        new     == (used + 1)..(used + Cardinality(targets))
    IN
    /\ p \in projects
    /\ status = "pending" \/ (status = "requested" /\ role = "copilot")
    /\ targets # {} /\ new \subseteq InviteIds
    /\ \E target \in [new -> targets] :
        /\ \A t \in targets : \E i \in new : target[i] = t
        /\ invites' = [i \in InviteIds |->
             IF i \in new
             THEN [status |-> status, project |-> p, user |-> target[i][2],
                   role |-> role, application |-> Null]
             ELSE invites[i]]
    /\ UNCHANGED <<projects, requests, opportunities, applications, members>>

\* updateApplicationToPendingIfNoOpenInvites, on the invites a handler leaves.
ReopenApplication(a, invitesAfter) ==
    IF \E i \in InviteIds : /\ invitesAfter[i].application = a
                            /\ invitesAfter[i].status \in OpenInviteStatus
    THEN applications
    ELSE SetStatus(applications, {a}, "pending")

\* updateCopilotApplicationStateBySource; any other source reads as "work_manager".
Sources == {"copilot_portal", "work_manager"}

\* Bug: the opportunity stays open.
SettleOpen(i, source) ==
    LET a == invites[i].application
        portal == source = "copilot_portal"
    IN
    /\ applications' = [applications EXCEPT ![a].status =
                            IF portal THEN "accepted" ELSE "canceled"]
    /\ requests' = SetStatus(requests, {opportunities[applications[a].opportunity].request},
                             IF portal THEN "fulfilled" ELSE "canceled")
    /\ UNCHANGED opportunities

SettleLinkedApplication(i, source) ==
    LET a == invites[i].application
        o == applications[a].opportunity
        portal == source = "copilot_portal"
    IN
    /\ applications' = [applications EXCEPT ![a].status =
                            IF portal THEN "accepted" ELSE "canceled"]
    /\ opportunities' = [opportunities EXCEPT ![o].status =
                            IF portal THEN "completed" ELSE "canceled"]
    /\ requests' = SetStatus(requests, {opportunities[o].request},
                             IF portal THEN "fulfilled" ELSE "canceled")

\* cancelProjectCopilotWorkflow: everything of the project, settled or not.
CancelProjectWorkflow(p, invitesAfter) ==
    LET rs == {r \in RequestIds : requests[r].status # "none" /\ requests[r].project = p}
        os == {o \in OpportunityIds : opportunities[o].request \in rs}
        apps == {a \in ApplicationIds : applications[a].opportunity \in os}
    IN
    /\ requests' = SetStatus(requests, rs, "canceled")
    /\ opportunities' = SetStatus(opportunities, os, "canceled")
    /\ applications' = SetStatus(applications, apps, "canceled")
    /\ invites' = SetStatus(invitesAfter,
                      {i \in InviteIds : /\ invitesAfter[i].application \in apps
                                         /\ invitesAfter[i].status \in OpenInviteStatus},
                      "canceled")

\* Bug: ensureActiveOpportunity is not called.
UpdateInviteReadsAny(i) ==
    /\ invites[i].status \in OpenInviteStatus
    /\ invites[i].project \in projects

\* What updateInvite reads before its transaction.
UpdateInviteReads(i) ==
    /\ invites[i].status \in OpenInviteStatus
    /\ invites[i].project \in projects
    /\ invites[i].application # Null =>
         opportunities[applications[invites[i].application].opportunity].status = "active"

\* The invited user becomes a member unless the transaction finds one.
\* Bug: it does not look.
JoinAgain(p, u, role) == CreateMember(p, u, role)

JoinOnce(p, u, role) ==
    IF MembersOf(p, u) = {} THEN CreateMember(p, u, role) ELSE UNCHANGED members

\* updateInvite to accepted or request_approved.  u is the invited user, or,
\* for an invite to an e-mail address, the caller who has that address.
AcceptReads(i, u) == UpdateInviteReads(i) /\ invites[i].user \in {u, Null}

AcceptWrites(i, status, source, u) ==
    LET p     == invites[i].project
        after == [invites EXCEPT ![i].status = status]
    IN
    /\ JoinOnce(p, u, invites[i].role)
    /\ \/ /\ invites[i].application # Null
          /\ SettleLinkedApplication(i, source)
          /\ invites' = after
       \/ /\ invites[i].application = Null
          /\ CancelProjectWorkflow(p, after)
    /\ UNCHANGED projects

AcceptInvite(i, status, source, u) ==
    /\ status \in {"accepted", "request_approved"}
    /\ AcceptReads(i, u)
    /\ AcceptWrites(i, status, source, u)

\* updateInvite to any other status but canceled.
DeclineInvite(i, status) ==
    LET after == [invites EXCEPT ![i].status = status]
    IN
    /\ status \in {"refused", "request_rejected", "pending", "requested"}
    /\ UpdateInviteReads(i)
    /\ invites' = after
    /\ applications' = IF status = "refused" /\ invites[i].application # Null
                       THEN ReopenApplication(invites[i].application, after)
                       ELSE applications
    /\ UNCHANGED <<projects, requests, opportunities, members>>

DeleteInviteReads(i) ==
    /\ invites[i].status \in OpenInviteStatus
    /\ invites[i].project \in projects

DeleteInviteWrites(i) ==
    LET after == [invites EXCEPT ![i].status = "canceled"]
    IN
    /\ invites' = after
    /\ applications' = IF invites[i].application # Null
                       THEN ReopenApplication(invites[i].application, after)
                       ELSE applications
    /\ UNCHANGED <<projects, requests, opportunities, members>>

DeleteInvite(i) == DeleteInviteReads(i) /\ DeleteInviteWrites(i)

\* No handler of this API links an invite to an application, but its invite
\* service serves the linked invites it finds in the shared database: they come
\* from the v5 API, which invites an applicant of an active opportunity.
LinkInvite(o, a) ==
    /\ opportunities[o].status = "active"
    /\ applications[a].opportunity = o
    /\ applications[a].status \in {"pending", "invited"}
    /\ applications' = [applications EXCEPT ![a].status = "invited"]
    /\ \E i \in Fresh(invites) :
        invites' = [invites EXCEPT ![i] =
            [status |-> "pending", project |-> opportunities[o].project, role |-> "copilot",
             user |-> applications[a].user, application |-> a]]
    /\ UNCHANGED <<projects, requests, opportunities, members>>

-----------------------------------------------------------------------------
(* project-member.service                                                  *)

\* Bug: an existing membership is not looked for.
AddMemberReadsNoLookup(p, u) == p \in projects /\ u \in Users

AddMemberReads(p, u) == p \in projects /\ MembersOf(p, u) = {}

AddMemberWrites(p, u, role) ==
    /\ CreateMember(p, u, role)
    /\ invites' = SetStatus(invites, {i \in OpenInvites(p) : invites[i].user = u}, "canceled")
    /\ UNCHANGED <<projects, requests, opportunities, applications>>

AddMember(p, u, role) == AddMemberReads(p, u) /\ AddMemberWrites(p, u, role)

\* The applications that lose when u is awarded what apps apply to.
\* Bug: only the pending ones are canceled.
PendingOfOthers(apps, u) ==
    {a \in apps : applications[a].user # u /\ applications[a].status = "pending"}

OfOthers(apps, u) == {a \in apps : applications[a].user # u}

\* completeCopilotRequests: of the user's own applications only the first one
\* the query happens to return is accepted.
CompleteCopilotRequests(p, u) ==
    LET rs == {r \in RequestIds :
                 /\ requests[r].project = p
                 /\ requests[r].status \in OpenRequestStatus
                 /\ \E a \in ApplicationIds :
                      /\ applications[a].user = u
                      /\ applications[a].opportunity # Null
                      /\ opportunities[applications[a].opportunity].request = r}
        os == {o \in OpportunityIds : opportunities[o].request \in rs}
        apps == {a \in ApplicationIds : applications[a].opportunity \in os}
        own == {a \in apps : applications[a].user = u}
    IN
    /\ requests' = SetStatus(requests, rs, "fulfilled")
    /\ opportunities' = SetStatus(opportunities, os, "completed")
    /\ \/ own = {} /\ applications' = applications
       \/ \E a \in own :
            applications' = [SetStatus(applications, OfOthers(apps, u), "canceled")
                                 EXCEPT ![a].status = "accepted"]

\* primary is the isPrimary of the patch, Null when it has none.
UpdateMember(m, role, primary, complete) ==
    LET p == members[m].project
        demoted == {n \in MemberIds \ {m} : /\ primary = TRUE
                                            /\ members[n].status = "active"
                                            /\ members[n].project = p
                                            /\ members[n].role = role}
    IN
    /\ members[m].status = "active"
    /\ p \in projects
    /\ members' = [n \in MemberIds |->
         IF n = m THEN [members[n] EXCEPT !.role = role,
                                          !.isPrimary = IF primary = Null THEN @ ELSE primary]
         ELSE IF n \in demoted THEN [members[n] EXCEPT !.isPrimary = FALSE]
         ELSE members[n]]
    /\ IF complete /\ members[m].role = "manager" /\ role = "copilot"
       THEN CompleteCopilotRequests(p, members[m].user)
       ELSE UNCHANGED <<requests, opportunities, applications>>
    /\ UNCHANGED <<projects, invites>>

\* Bug: the primary flag is dropped with the member.
DeleteMemberDropsFlag(m) ==
    /\ members[m].status = "active"
    /\ members[m].project \in projects
    /\ members' = [members EXCEPT ![m].status = "deleted"]
    /\ UNCHANGED <<projects, requests, opportunities, applications, invites>>

\* The oldest remaining copilot inherits the primary flag of a deleted copilot.
DeleteMember(m) ==
    LET p    == members[m].project
        next == {n \in MemberIds \ {m} :
                   /\ members[m].role = "copilot" /\ members[m].isPrimary
                   /\ members[n].status = "active"
                   /\ members[n].project = p
                   /\ members[n].role = "copilot"}
    IN
    /\ members[m].status = "active"
    /\ p \in projects
    /\ members' = [n \in MemberIds |->
         IF n = m THEN [members[n] EXCEPT !.status = "deleted"]
         ELSE IF n \in next /\ \A k \in next : n <= k
         THEN [members[n] EXCEPT !.isPrimary = TRUE]
         ELSE members[n]]
    /\ UNCHANGED <<projects, requests, opportunities, applications, invites>>

-----------------------------------------------------------------------------
(* project.service: deleting a project touches no other table.             *)

DeleteProject(p) ==
    /\ p \in projects
    /\ projects' = projects \ {p}
    /\ UNCHANGED <<requests, opportunities, applications, members, invites>>

-----------------------------------------------------------------------------
\* The addresses it makes a difference to name in an invite for a role.
Addresses(role) == IF role = "customer" THEN Users \cup {Null} ELSE {}

RequestNext ==
    \/ \E p \in Projects, t \in Types : CreateRequest(p, t)
    \/ \E r \in RequestIds, t \in Types : UpdateRequest(r, t)
    \/ \E p \in Projects, r \in RequestIds, t \in Types : ApproveRequest(p, r, t)

OpportunityNext ==
    \/ \E o \in OpportunityIds, u \in Users : ApplyToOpportunity(o, u)
    \/ \E o \in OpportunityIds, a \in ApplicationIds : AssignCopilot(o, a)
    \/ \E o \in OpportunityIds : CancelOpportunity(o)

InviteNext ==
    \/ \E p \in Projects, role \in Roles, handles \in SUBSET Users, s \in OpenInviteStatus :
          \E emails \in SUBSET Addresses(role) : CreateInvites(p, role, handles, emails, s)
    \/ \E i \in InviteIds, s \in InviteStatus, source \in Sources, u \in Users :
            AcceptInvite(i, s, source, u)
    \/ \E i \in InviteIds, s \in InviteStatus : DeclineInvite(i, s)
    \/ \E i \in InviteIds : DeleteInvite(i)
    \/ \E o \in OpportunityIds, a \in ApplicationIds : LinkInvite(o, a)

MemberNext ==
    \/ \E p \in Projects, u \in Users, role \in Roles : AddMember(p, u, role)
    \/ \E m \in MemberIds, role \in Roles, primary \in BOOLEAN \cup {Null},
          complete \in BOOLEAN : UpdateMember(m, role, primary, complete)
    \/ \E m \in MemberIds : DeleteMember(m)

Next == RequestNext \/ OpportunityNext \/ InviteNext \/ MemberNext
          \/ \E p \in Projects : DeleteProject(p)

Spec == Init /\ [][Next]_vars

-----------------------------------------------------------------------------
(* What the workflow promises.                                             *)

\* Every application belongs to an opportunity that was opened.
ApplicationsReferential ==
    \A a \in ApplicationIds : applications[a].status # "none" =>
        /\ applications[a].opportunity \in OpportunityIds
        /\ opportunities[applications[a].opportunity].status # "none"

\* Every linked invite is linked to an application that was made.
InvitesReferential ==
    \A i \in InviteIds : invites[i].application # Null =>
        applications[invites[i].application].status # "none"

\* An application is accepted only while its opportunity is completed: no way of
\* settling, canceling or withdrawing an opportunity leaves a winner behind.
AcceptedIsCompleted ==
    \A a \in ApplicationIds : applications[a].status = "accepted" =>
        opportunities[applications[a].opportunity].status = "completed"

\* assignCopilot and the linked invites only ever decide among candidates still
\* in the running: no application to an active opportunity has been decided.
ActiveIsUndecided ==
    \A a \in ApplicationIds :
        /\ applications[a].status # "none"
        /\ opportunities[applications[a].opportunity].status = "active"
        => applications[a].status \in {"pending", "invited"}

\* The double-accept guard: an opportunity has at most one accepted application,
\* whichever of the three ways of accepting one (assignment, linked invite,
\* promotion of a manager) are mixed.
OneWinner ==
    \A a, b \in ApplicationIds :
        /\ applications[a].status = "accepted" /\ applications[b].status = "accepted"
        /\ applications[a].opportunity = applications[b].opportunity
        => a = b

\* A user has at most one active membership of a project, whichever of the three
\* ways of joining (added, invited, assigned) are mixed.
OneMembership ==
    \A m, n \in MemberIds :
        /\ members[m].status = "active" /\ members[n].status = "active"
        /\ members[m].project = members[n].project /\ members[m].user = members[n].user
        => m = n

\* Whoever wins an opportunity is an active member of its project, or of the
\* project of its request, by the time the application reads accepted.
AwardedIsMember ==
    [][\A a \in ApplicationIds :
        applications[a].status # "accepted" /\ applications'[a].status = "accepted" =>
            \E o \in OpportunityIds, m \in MemberIds :
                /\ o = applications'[a].opportunity
                /\ members'[m].status = "active"
                /\ members'[m].user = applications'[a].user
                /\ \/ members'[m].project = opportunities'[o].project
                   \/ \E r \in RequestIds : /\ opportunities'[o].request = r
                                            /\ members'[m].project = requests'[r].project
      ]_vars

PrimaryCopilots(rows, p) ==
    {m \in MemberIds : /\ rows[m].status = "active" /\ rows[m].project = p
                       /\ rows[m].role = "copilot" /\ rows[m].isPrimary}

\* A project that loses its primary copilot has another one as long as a copilot
\* remains: the flag is handed on by deleteMember, not dropped.
PrimarySucceeds ==
    [][\A m \in MemberIds :
        LET p == members[m].project
        IN
        /\ m \in PrimaryCopilots(members, p)
        /\ members'[m].status = "deleted"
        /\ \E n \in MemberIds : /\ members'[n].status = "active" /\ members'[n].project = p
                                /\ members'[n].role = "copilot"
        => PrimaryCopilots(members', p) # {}
      ]_vars

=============================================================================
