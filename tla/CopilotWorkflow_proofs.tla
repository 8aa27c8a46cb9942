----------------------- MODULE CopilotWorkflow_proofs -----------------------
EXTENDS CopilotRaces, TLAPS, FiniteSetTheorems, WellFoundedInduction

LEMMA FreshRow ==
    ASSUME NEW table, NEW i \in Fresh(table)
    PROVE  i \in DOMAIN table /\ table[i].status = "none"
BY DEF Fresh

LEMMA SetStatusRequests ==
    ASSUME requests \in [RequestIds -> Request], NEW ids, NEW s \in RequestStatus
    PROVE  SetStatus(requests, ids, s) \in [RequestIds -> Request]
BY DEF SetStatus, Request

LEMMA SetStatusOpportunities ==
    ASSUME opportunities \in [OpportunityIds -> Opportunity], NEW ids,
           NEW s \in OpportunityStatus
    PROVE  SetStatus(opportunities, ids, s) \in [OpportunityIds -> Opportunity]
BY DEF SetStatus, Opportunity

LEMMA SetStatusApplications ==
    ASSUME applications \in [ApplicationIds -> Application], NEW ids,
           NEW s \in ApplicationStatus
    PROVE  SetStatus(applications, ids, s) \in [ApplicationIds -> Application]
BY DEF SetStatus, Application

LEMMA DecideApplicationType ==
    ASSUME NEW rows \in [ApplicationIds -> Application], NEW a, NEW s \in ApplicationStatus
    PROVE  [rows EXCEPT ![a].status = s] \in [ApplicationIds -> Application]
BY DEF Application

LEMMA CloseOpportunityType ==
    ASSUME NEW rows \in [OpportunityIds -> Opportunity], NEW o, NEW s \in OpportunityStatus
    PROVE  [rows EXCEPT ![o].status = s] \in [OpportunityIds -> Opportunity]
BY DEF Opportunity

LEMMA SetStatusInvites ==
    ASSUME NEW rows \in [InviteIds -> Invite], NEW ids, NEW s \in InviteStatus
    PROVE  SetStatus(rows, ids, s) \in [InviteIds -> Invite]
BY DEF SetStatus, Invite

LEMMA CreateMemberType ==
    ASSUME TypeOK, NEW p \in Projects, NEW u \in Users, NEW role \in Roles,
           CreateMember(p, u, role)
    PROVE  members' \in [MemberIds -> Member]
BY DEF TypeOK, CreateMember, Fresh, Member

LEMMA ApproveWritesType ==
    ASSUME TypeOK, NEW p \in Projects, NEW r \in RequestIds, NEW req \in Request,
           NEW t \in Types, ApproveWrites(p, r, req, t)
    PROVE  /\ requests' \in [RequestIds -> Request]
           /\ opportunities' \in [OpportunityIds -> Opportunity]
<1>1. requests' \in [RequestIds -> Request]
  BY DEF TypeOK, ApproveWrites, Request, RequestStatus
<1>2. opportunities' \in [OpportunityIds -> Opportunity]
  BY DEF TypeOK, ApproveWrites, Fresh, Opportunity, OpportunityStatus
<1>3. QED BY <1>1, <1>2

\* What assignCopilot does to the members: it inserts the applicant, or promotes
\* the row the applicant has, or leaves the rows alone.
LEMMA AssignMembers ==
    ASSUME TypeOK, NEW o \in OpportunityIds, NEW a \in ApplicationIds, AssignCopilot(o, a)
    PROVE  LET p == opportunities[o].project
               u == applications[a].user
           IN  \/ MembersOf(p, u) = {} /\ CreateMember(p, u, "copilot")
               \/ UNCHANGED members
               \/ \E m \in MemberIds : members' = [members EXCEPT ![m].role = "copilot"]
<1> DEFINE p == opportunities[o].project
           u == applications[a].user
<1>1. PICK m \in FindMember(p, u) :
        AssignWrites(o, a, m, IF m = Null THEN Null ELSE members[m].role)
  BY DEF AssignCopilot
<1>2. CASE MembersOf(p, u) = {}
  BY <1>1, <1>2 DEF AssignWrites, AcceptCancelingOthers, UpsertCopilot, FindMember
<1>3. CASE MembersOf(p, u) # {}
  <2>1. m \in MemberIds
    BY <1>3 DEF FindMember, MembersOf
  <2>2. m # Null
    BY <2>1, NullAssumption DEF MemberIds
  <2>3. QED BY <1>1, <2>1, <2>2 DEF AssignWrites, AcceptCancelingOthers, UpsertCopilot
<1>4. QED BY <1>2, <1>3

THEOREM TypeInit == Init => TypeOK
BY DEF Init, TypeOK, Request, Opportunity, Application, Member, Invite,
       NoRequest, NoOpportunity, NoApplication, NoMember, NoInvite

THEOREM TypeNext == TypeOK /\ [Next]_vars => TypeOK'
<1> SUFFICES ASSUME TypeOK, [Next]_vars PROVE TypeOK'
  OBVIOUS
<1> USE DEF TypeOK
<1>1. ASSUME NEW p \in Projects, NEW t \in Types, CreateRequest(p, t) PROVE TypeOK'
  <2>1. PICK r \in Fresh(requests) :
          ApproveWrites(p, r, [status |-> "new", project |-> p, type |-> t], t)
    BY <1>1 DEF CreateRequest, CreateRequestReads, CreateRequestWrites, ApproveReads,
                ApproveWrites
  <2>2. r \in RequestIds
    BY FreshRow
  <2>3. [status |-> "new", project |-> p, type |-> t] \in Request
    BY DEF Request, RequestStatus
  <2>4. requests' \in [RequestIds -> Request] /\ opportunities' \in [OpportunityIds -> Opportunity]
    BY <2>1, <2>2, <2>3, ApproveWritesType
  <2>5. QED BY <1>1, <2>4 DEF CreateRequest, CreateRequestReads, CreateRequestWrites,
                              ApproveReads, ApproveWrites
<1>2. ASSUME NEW r \in RequestIds, NEW t \in Types, UpdateRequest(r, t) PROVE TypeOK'
  BY <1>2 DEF UpdateRequest, UpdateRequestReads, UpdateRequestWrites, Request, Opportunity
<1>3. ASSUME NEW p \in Projects, NEW r \in RequestIds, NEW t \in Types, ApproveRequest(p, r, t)
      PROVE TypeOK'
  <2>1. requests' \in [RequestIds -> Request] /\ opportunities' \in [OpportunityIds -> Opportunity]
    BY <1>3, ApproveWritesType DEF ApproveRequest, ApproveReads, ApproveWrites
  <2>2. QED BY <1>3, <2>1 DEF ApproveRequest, ApproveReads, ApproveWrites
<1>4. ASSUME NEW o \in OpportunityIds, NEW u \in Users, ApplyToOpportunity(o, u) PROVE TypeOK'
  BY <1>4 DEF ApplyToOpportunity, ApplyReads, ApplyWrites, Fresh, Application,
              ApplicationStatus
<1>5. ASSUME NEW o \in OpportunityIds, NEW a \in ApplicationIds, AssignCopilot(o, a) PROVE TypeOK'
  <2>1. members' \in [MemberIds -> Member]
    <3> DEFINE p == opportunities[o].project
               u == applications[a].user
    <3>1. CASE CreateMember(p, u, "copilot")
      <4>1. p \in Projects
        BY <1>5 DEF AssignCopilot, AssignReads, Opportunity
      <4>2. u \in Users \cup {Null}
        BY DEF Application
      <4>3. QED BY <3>1, <4>1, <4>2, RolesAssumption DEF CreateMember, Fresh, Member
    <3>2. CASE \E m \in MemberIds : members' = [members EXCEPT ![m].role = "copilot"]
      BY <3>2, RolesAssumption DEF Member
    <3>3. QED BY <1>5, <3>1, <3>2, AssignMembers
  <2>2. opportunities' \in [OpportunityIds -> Opportunity]
    BY <1>5 DEF AssignCopilot, AssignWrites, AcceptCancelingOthers, UpsertCopilot,
                Opportunity, OpportunityStatus
  <2>3. applications' \in [ApplicationIds -> Application]
    <3>1. applications' = [SetStatus(applications, ApplicationsOf(o), "canceled")
                               EXCEPT ![a].status = "accepted"]
      BY <1>5 DEF AssignCopilot, AssignWrites, AcceptCancelingOthers, UpsertCopilot
    <3>2. SetStatus(applications, ApplicationsOf(o), "canceled") \in [ApplicationIds -> Application]
      BY SetStatusApplications DEF ApplicationStatus
    <3>3. QED BY <3>1, <3>2, DecideApplicationType DEF ApplicationStatus
  <2>4. requests' \in [RequestIds -> Request]
    BY <1>5, SetStatusRequests DEF AssignCopilot, AssignWrites, AcceptCancelingOthers,
                                   UpsertCopilot, RequestStatus
  <2>5. QED BY <1>5, <2>1, <2>2, <2>3, <2>4 DEF AssignCopilot, AssignWrites,
                                                AcceptCancelingOthers, UpsertCopilot
<1>6. ASSUME NEW o \in OpportunityIds, CancelOpportunity(o) PROVE TypeOK'
  BY <1>6, SetStatusApplications
  DEF CancelOpportunity, CancelWrites, Opportunity, OpportunityStatus, ApplicationStatus
<1>7. ASSUME NEW p \in Projects, NEW role \in Roles, NEW handles \in SUBSET Users,
             NEW emails \in SUBSET (Users \cup {Null}), NEW status \in OpenInviteStatus,
             CreateInvites(p, role, handles, emails, status)
      PROVE TypeOK'
  <2> DEFINE byEmail == IF role = "customer" THEN InviteTargets(p, emails) ELSE {}
             targets == {<<"handle", u>> : u \in InviteTargets(p, handles)}
                          \cup {<<"email", u>> : u \in byEmail}
             used == Cardinality({i \in InviteIds : invites[i].status # "none"})
             new == (used + 1)..(used + Cardinality(targets))
  <2>1. \A t \in targets : t[2] \in Users \cup {Null}
    BY DEF InviteTargets
  <2>2. status \in InviteStatus
    BY DEF InviteStatus, OpenInviteStatus
  <2>3. PICK target \in [new -> targets] :
          invites' = [i \in InviteIds |->
             IF i \in new
             THEN [status |-> status, project |-> p, user |-> target[i][2],
                   role |-> role, application |-> Null]
             ELSE invites[i]]
    BY <1>7 DEF CreateInvites
  <2>4. \A i \in new : target[i][2] \in Users \cup {Null}
    <3> HIDE DEF targets, new
    <3> QED BY <2>1
  <2>5. invites' \in [InviteIds -> Invite]
    <3> HIDE DEF targets, new
    <3> QED BY <2>2, <2>3, <2>4 DEF Invite
  <2>6. QED BY <1>7, <2>5 DEF CreateInvites
<1>8. ASSUME NEW i \in InviteIds, NEW s \in InviteStatus, NEW source \in Sources, NEW u \in Users,
             AcceptInvite(i, s, source, u)
      PROVE TypeOK'
  <2>1. [invites EXCEPT ![i].status = s] \in [InviteIds -> Invite]
    BY DEF Invite
  <2>2. members' \in [MemberIds -> Member]
    <3>1. invites[i].project \in Projects
      BY <1>8 DEF AcceptInvite, AcceptReads, AcceptWrites, JoinOnce, UpdateInviteReads
    <3>2. invites[i].role \in Roles \cup {Null}
      BY DEF Invite
    <3>3. CASE CreateMember(invites[i].project, u, invites[i].role)
      BY <3>1, <3>2, <3>3 DEF CreateMember, Fresh, Member
    <3>4. CASE UNCHANGED members
      BY <3>4
    <3>5. QED BY <1>8, <3>3, <3>4 DEF AcceptInvite, AcceptReads, AcceptWrites, JoinOnce
  <2>3. CASE SettleLinkedApplication(i, source) /\ invites' = [invites EXCEPT ![i].status = s]
    <3>1. requests' \in [RequestIds -> Request]
      BY <2>3, SetStatusRequests DEF SettleLinkedApplication, RequestStatus
    <3>2. opportunities' \in [OpportunityIds -> Opportunity]
      BY <2>3, CloseOpportunityType DEF SettleLinkedApplication, OpportunityStatus
    <3>3. applications' \in [ApplicationIds -> Application]
      BY <2>3, DecideApplicationType DEF SettleLinkedApplication, ApplicationStatus
    <3>4. QED BY <1>8, <2>1, <2>2, <2>3, <3>1, <3>2, <3>3 DEF AcceptInvite, AcceptReads,
                                                              AcceptWrites, JoinOnce
  <2>4. CASE CancelProjectWorkflow(invites[i].project, [invites EXCEPT ![i].status = s])
    <3>1. /\ requests' \in [RequestIds -> Request]
          /\ opportunities' \in [OpportunityIds -> Opportunity]
          /\ applications' \in [ApplicationIds -> Application]
      BY <2>4, SetStatusRequests, SetStatusOpportunities, SetStatusApplications
      DEF CancelProjectWorkflow, RequestStatus, OpportunityStatus, ApplicationStatus
    <3>2. invites' \in [InviteIds -> Invite]
      BY <2>1, <2>4, SetStatusInvites DEF CancelProjectWorkflow, InviteStatus
    <3>3. QED BY <1>8, <2>2, <3>1, <3>2 DEF AcceptInvite, AcceptReads, AcceptWrites,
                                            JoinOnce
  <2>5. QED BY <1>8, <2>3, <2>4 DEF AcceptInvite, AcceptReads, AcceptWrites, JoinOnce
<1>9. ASSUME NEW i \in InviteIds, NEW s \in InviteStatus, DeclineInvite(i, s) PROVE TypeOK'
  BY <1>9, SetStatusApplications
  DEF DeclineInvite, ReopenApplication, Invite, ApplicationStatus
<1>10. ASSUME NEW i \in InviteIds, DeleteInvite(i) PROVE TypeOK'
  BY <1>10, SetStatusApplications
  DEF DeleteInvite, DeleteInviteReads, DeleteInviteWrites, ReopenApplication, Invite,
      InviteStatus, ApplicationStatus
<1>11. ASSUME NEW o \in OpportunityIds, NEW a \in ApplicationIds, LinkInvite(o, a) PROVE TypeOK'
  <2>1. invites' \in [InviteIds -> Invite]
    <3> DEFINE p == opportunities[o].project
               row == [status |-> "pending", project |-> p, role |-> "copilot",
                       user |-> applications[a].user, application |-> a]
    <3>2. p \in Projects \cup {Null}
      BY DEF Opportunity
    <3>3. applications[a].user \in Users \cup {Null}
      BY DEF Application
    <3>4. row \in Invite
      BY <3>2, <3>3, RolesAssumption DEF Invite, InviteStatus
    <3>5. \E i \in InviteIds : invites' = [invites EXCEPT ![i] = row]
      BY <1>11 DEF LinkInvite, Fresh
    <3>6. QED BY <3>4, <3>5
  <2>2. applications' \in [ApplicationIds -> Application]
    BY <1>11 DEF LinkInvite, Application, ApplicationStatus
  <2>3. QED BY <1>11, <2>1, <2>2 DEF LinkInvite
<1>12. ASSUME NEW p \in Projects, NEW u \in Users, NEW role \in Roles, AddMember(p, u, role)
       PROVE TypeOK'
  BY <1>12, CreateMemberType, SetStatusInvites DEF AddMember, AddMemberReads,
                                                   AddMemberWrites, InviteStatus
<1>13. ASSUME NEW m \in MemberIds, NEW role \in Roles, NEW primary \in BOOLEAN \cup {Null},
              NEW complete \in BOOLEAN, UpdateMember(m, role, primary, complete)
       PROVE TypeOK'
  <2>1. members' \in [MemberIds -> Member]
    BY <1>13 DEF UpdateMember, Member
  <2>2. CASE CompleteCopilotRequests(members[m].project, members[m].user)
    <3>1. requests' \in [RequestIds -> Request] /\ opportunities' \in [OpportunityIds -> Opportunity]
      BY <2>2, SetStatusRequests, SetStatusOpportunities
      DEF CompleteCopilotRequests, OfOthers, RequestStatus, OpportunityStatus
    <3>2. applications' \in [ApplicationIds -> Application]
      <4>1. \/ applications' = applications
            \/ \E ids, a : applications' = [SetStatus(applications, ids, "canceled")
                                                EXCEPT ![a].status = "accepted"]
        BY <2>2, Zenon DEF CompleteCopilotRequests, OfOthers
      <4>2. ASSUME NEW ids, NEW a, applications' = [SetStatus(applications, ids, "canceled")
                                                        EXCEPT ![a].status = "accepted"]
            PROVE  applications' \in [ApplicationIds -> Application]
        <5>1. SetStatus(applications, ids, "canceled") \in [ApplicationIds -> Application]
          BY SetStatusApplications DEF ApplicationStatus
        <5>2. QED BY <4>2, <5>1, DecideApplicationType DEF ApplicationStatus
      <4>3. QED BY <4>1, <4>2
    <3>3. QED BY <1>13, <2>1, <3>1, <3>2 DEF UpdateMember
  <2>3. CASE UNCHANGED <<requests, opportunities, applications>>
    BY <1>13, <2>1, <2>3 DEF UpdateMember
  <2>4. QED BY <1>13, <2>2, <2>3 DEF UpdateMember
<1>14. ASSUME NEW m \in MemberIds, DeleteMember(m) PROVE TypeOK'
  BY <1>14 DEF DeleteMember, Member
<1>15. ASSUME NEW p \in Projects, DeleteProject(p) PROVE TypeOK'
  BY <1>15 DEF DeleteProject
<1>16. CASE UNCHANGED vars
  BY <1>16 DEF vars
<1>17. CASE RequestNext
  BY <1>1, <1>2, <1>3, <1>17 DEF RequestNext
<1>18. CASE OpportunityNext
  BY <1>4, <1>5, <1>6, <1>18 DEF OpportunityNext
<1>19. CASE InviteNext
  <2>1. CASE \E p \in Projects, role \in Roles, handles \in SUBSET Users,
                s \in OpenInviteStatus : \E emails \in SUBSET Addresses(role) :
                  CreateInvites(p, role, handles, emails, s)
    BY <1>7, <2>1 DEF Addresses
  <2>2. CASE \E i \in InviteIds, s \in InviteStatus, source \in Sources, u \in Users :
                AcceptInvite(i, s, source, u)
    BY <1>8, <2>2
  <2>3. CASE \E i \in InviteIds, s \in InviteStatus : DeclineInvite(i, s)
    BY <1>9, <2>3
  <2>4. QED BY <1>10, <1>11, <1>19, <2>1, <2>2, <2>3 DEF InviteNext
<1>20. CASE MemberNext
  BY <1>12, <1>13, <1>14, <1>20 DEF MemberNext
<1>21. QED
  BY <1>15, <1>16, <1>17, <1>18, <1>19, <1>20 DEF Next

\* Every row keeps its columns' types, whatever the bounds on the tables.
THEOREM TypeCorrect == Spec => []TypeOK
BY TypeInit, TypeNext, PTL DEF Spec

-----------------------------------------------------------------------------
(* One membership.                                                         *)

LEMMA CreateMemberKeepsOne ==
    ASSUME TypeOK, OneMembership, NEW p, NEW u, NEW role,
           MembersOf(p, u) = {}, CreateMember(p, u, role)
    PROVE  OneMembership'
<1>1. PICK m \in MemberIds : /\ members[m].status = "none"
                             /\ members' = [members EXCEPT ![m] =
                                  [status |-> "active", project |-> p, user |-> u,
                                   role |-> role, isPrimary |-> FALSE]]
  BY DEF CreateMember, Fresh, TypeOK
<1>2. \A n \in MemberIds : members[n].status = "active" =>
        ~(members[n].project = p /\ members[n].user = u)
  BY DEF MembersOf
<1>3. QED BY <1>1, <1>2 DEF OneMembership, TypeOK

\* A step that activates no row and moves no member keeps memberships unique.
LEMMA SameMembersKeepOne ==
    ASSUME OneMembership,
           \A m \in MemberIds : /\ members'[m].status = "active" => members[m].status = "active"
                                /\ members'[m].project = members[m].project
                                /\ members'[m].user = members[m].user
    PROVE  OneMembership'
BY DEF OneMembership

THEOREM OneMembershipNext == TypeOK /\ OneMembership /\ [Next]_vars => OneMembership'
<1> SUFFICES ASSUME TypeOK, OneMembership, [Next]_vars PROVE OneMembership'
  OBVIOUS
<1>1. CASE UNCHANGED members
  BY <1>1 DEF OneMembership
<1>2. ASSUME NEW o \in OpportunityIds, NEW a \in ApplicationIds, AssignCopilot(o, a)
      PROVE  OneMembership'
  <2> DEFINE p == opportunities[o].project
             u == applications[a].user
  <2>1. CASE MembersOf(p, u) = {} /\ CreateMember(p, u, "copilot")
    BY <2>1, CreateMemberKeepsOne
  <2>2. CASE \E m \in MemberIds : members' = [members EXCEPT ![m].role = "copilot"]
    <3>1. \A m \in MemberIds : /\ members'[m].status = members[m].status
                               /\ members'[m].project = members[m].project
                               /\ members'[m].user = members[m].user
      BY <2>2 DEF TypeOK, Member
    <3>2. QED BY <3>1, SameMembersKeepOne
  <2>3. QED BY <1>1, <1>2, <2>1, <2>2, AssignMembers
<1>3. ASSUME NEW i \in InviteIds, NEW s \in InviteStatus, NEW source \in Sources, NEW u \in Users,
             AcceptInvite(i, s, source, u)
      PROVE  OneMembership'
  BY <1>1, <1>3, CreateMemberKeepsOne DEF AcceptInvite, AcceptReads, AcceptWrites, JoinOnce
<1>4. ASSUME NEW p \in Projects, NEW u \in Users, NEW role \in Roles, AddMember(p, u, role)
      PROVE  OneMembership'
  BY <1>4, CreateMemberKeepsOne DEF AddMember, AddMemberReads, AddMemberWrites
<1>5. ASSUME NEW m \in MemberIds, NEW role \in Roles, NEW primary \in BOOLEAN \cup {Null},
             NEW complete \in BOOLEAN, UpdateMember(m, role, primary, complete)
      PROVE  OneMembership'
  <2>1. \A n \in MemberIds : /\ members'[n].status = members[n].status
                             /\ members'[n].project = members[n].project
                             /\ members'[n].user = members[n].user
    BY <1>5 DEF UpdateMember, TypeOK, Member
  <2>2. QED BY <2>1, SameMembersKeepOne
<1>6. ASSUME NEW m \in MemberIds, DeleteMember(m) PROVE OneMembership'
  <2>1. \A n \in MemberIds : /\ members'[n].status \in {members[n].status, "deleted"}
                             /\ members'[n].project = members[n].project
                             /\ members'[n].user = members[n].user
    BY <1>6 DEF DeleteMember, TypeOK, Member
  <2>2. QED BY <2>1, SameMembersKeepOne
<1>7. CASE RequestNext
  BY <1>1, <1>7 DEF RequestNext, CreateRequest, CreateRequestReads, CreateRequestWrites,
                    ApproveReads, ApproveWrites, UpdateRequest, UpdateRequestReads,
                    UpdateRequestWrites, ApproveRequest
<1>8. CASE OpportunityNext
  BY <1>1, <1>2, <1>8 DEF OpportunityNext, ApplyToOpportunity, ApplyReads, ApplyWrites,
                          CancelOpportunity, CancelWrites
<1>9. CASE InviteNext
  <2>1. \A p, role, handles, emails, s :
          CreateInvites(p, role, handles, emails, s) => UNCHANGED members
    BY DEF CreateInvites
  <2>2. QED
    BY <1>1, <1>3, <1>9, <2>1 DEF InviteNext, DeclineInvite, DeleteInvite,
                                  DeleteInviteReads, DeleteInviteWrites, LinkInvite
<1>10. CASE MemberNext
  BY <1>4, <1>5, <1>6, <1>10 DEF MemberNext
<1>11. QED
  BY <1>1, <1>7, <1>8, <1>9, <1>10 DEF Next, DeleteProject, vars

\* However users join a project, none of them is a member of it twice.
THEOREM MembershipCorrect == Spec => []OneMembership
<1>1. Init => OneMembership
  BY DEF Init, OneMembership, NoMember
<1>2. QED BY <1>1, TypeCorrect, OneMembershipNext, PTL DEF Spec

-----------------------------------------------------------------------------
(* One winner per opportunity.                                             *)

\* A row that was never inserted belongs to nothing.
UnusedApplications ==
    \A a \in ApplicationIds : applications[a].status = "none" => applications[a].opportunity = Null

\* Handlers that run one at a time take one application per user and opportunity.
OneApplicationPerUser ==
    \A a, b \in ApplicationIds :
        /\ applications[a].status # "none" /\ applications[b].status # "none"
        /\ applications[a].opportunity = applications[b].opportunity
        /\ applications[a].user = applications[b].user
        => a = b

\* The invariant of the applications and their opportunities.  OneWinner is not
\* inductive by itself: an opportunity must be undecided while it is active, a
\* winner must have left its opportunity completed, and a user must have a
\* single application for "the applications of the promoted user" to be one.
Award ==
    /\ UnusedApplications
    /\ ApplicationsReferential
    /\ AcceptedIsCompleted
    /\ ActiveIsUndecided
    /\ OneApplicationPerUser
    /\ OneWinner

LEMMA SetStatusPoint ==
    ASSUME NEW rows \in [ApplicationIds -> Application], NEW ids, NEW s \in ApplicationStatus,
           NEW a \in ApplicationIds
    PROVE  /\ SetStatus(rows, ids, s)[a].opportunity = rows[a].opportunity
           /\ SetStatus(rows, ids, s)[a].user = rows[a].user
           /\ SetStatus(rows, ids, s)[a].status = IF a \in ids THEN s ELSE rows[a].status
BY DEF SetStatus, Application

LEMMA SetStatusOpportunityPoint ==
    ASSUME NEW ids, NEW s \in OpportunityStatus, NEW o \in OpportunityIds, TypeOK
    PROVE  SetStatus(opportunities, ids, s)[o].status =
              IF o \in ids THEN s ELSE opportunities[o].status
BY DEF SetStatus, Opportunity, TypeOK

\* What every step but an application's creation does to the applications: it
\* neither creates nor moves one.
SameApplications ==
    \A a \in ApplicationIds :
        /\ applications'[a].opportunity = applications[a].opportunity
        /\ applications'[a].user = applications[a].user

\* A step that decides nothing: applications and the statuses of the
\* opportunities they belong to stay.
LEMMA UndecidedStep ==
    ASSUME Award, UNCHANGED applications,
           \A o \in OpportunityIds :
              opportunities[o].status # "none" => opportunities'[o].status = opportunities[o].status
    PROVE  Award'
BY DEF Award, UnusedApplications, ApplicationsReferential, AcceptedIsCompleted,
       ActiveIsUndecided, OneApplicationPerUser, OneWinner

\* A step that closes the opportunities in closed with status s and decides
\* applications to them: those in won are accepted, the others in lost canceled.
Decides(closed, s, won, lost) ==
    /\ SameApplications
    /\ \A o \in OpportunityIds :
          opportunities'[o].status = IF o \in closed THEN s ELSE opportunities[o].status
    /\ \A a \in ApplicationIds :
          applications'[a].status = IF a \in won THEN "accepted"
                                    ELSE IF a \in lost THEN "canceled"
                                    ELSE applications[a].status
    /\ \A a \in ApplicationIds : a \in won \cup lost =>
          applications[a].opportunity \in closed \cap OpportunityIds
    /\ \A a \in ApplicationIds : a \in won => s = "completed"
    /\ \A a, b \in ApplicationIds :
          /\ a \in won /\ a # b
          /\ applications[a].opportunity = applications[b].opportunity
          => b \notin won /\ (b \in lost \/ applications[b].status # "accepted")
    /\ s = "canceled" => \A a \in ApplicationIds :
          applications[a].opportunity \in closed =>
             a \in lost \/ applications[a].status # "accepted"

LEMMA DecidingStep ==
    ASSUME TypeOK, Award, NEW closed, NEW s \in {"completed", "canceled"}, NEW won, NEW lost,
           Decides(closed, s, won, lost)
    PROVE  Award'
<1> USE DEF Decides
<1>1. UnusedApplications' /\ ApplicationsReferential'
  BY NullAssumption DEF Award, SameApplications, UnusedApplications,
                        ApplicationsReferential,
                       OpportunityIds
<1>2. AcceptedIsCompleted'
  BY DEF Award, SameApplications, AcceptedIsCompleted, ApplicationsReferential
<1>3. ActiveIsUndecided'
  BY DEF Award, SameApplications, ActiveIsUndecided, ApplicationsReferential,
         UnusedApplications
<1>4. OneApplicationPerUser'
  BY NullAssumption DEF Award, SameApplications, OneApplicationPerUser,
                        UnusedApplications, OpportunityIds
<1>5. OneWinner'
  BY DEF Award, SameApplications, OneWinner
<1>6. QED BY <1>1, <1>2, <1>3, <1>4, <1>5 DEF Award

\* A step that puts one application, or none, back in the running.
LEMMA ReopeningStep ==
    ASSUME TypeOK, Award, UNCHANGED opportunities, NEW b \in ApplicationIds,
           NEW s \in {"pending", "invited"}, applications[b].status # "none",
           applications' \in {applications, [applications EXCEPT ![b].status = s]}
    PROVE  Award'
<1>1. \A a \in ApplicationIds : /\ applications'[a].opportunity = applications[a].opportunity
                               /\ applications'[a].user = applications[a].user
                               /\ \/ applications'[a].status = applications[a].status
                                  \/ a = b /\ applications'[a].status = s
  BY DEF TypeOK, Application
<1>2. QED
  BY <1>1 DEF Award, UnusedApplications, ApplicationsReferential, AcceptedIsCompleted,
              ActiveIsUndecided, OneApplicationPerUser, OneWinner

LEMMA ApplyStep ==
    ASSUME TypeOK, Award, NEW o \in OpportunityIds, NEW u \in Users, ApplyToOpportunity(o, u)
    PROVE  Award'
<1>1. PICK a \in ApplicationIds : /\ applications[a].status = "none"
                                  /\ applications' = [applications EXCEPT ![a] =
                                       [status |-> "pending", opportunity |-> o, user |-> u]]
  BY DEF ApplyToOpportunity, ApplyReads, ApplyWrites, Fresh, TypeOK
<1>2. /\ applications'[a].status = "pending"
      /\ applications'[a].opportunity = o
      /\ applications'[a].user = u
      /\ \A b \in ApplicationIds \ {a} : applications'[b] = applications[b]
  BY <1>1 DEF TypeOK
<1>3. opportunities[o].status = "active" /\ UNCHANGED opportunities
  BY DEF ApplyToOpportunity, ApplyReads, ApplyWrites
<1>4. \A b \in ApplicationIds : applications[b].opportunity = o => applications[b].user # u
  BY DEF ApplyToOpportunity, ApplyReads, ApplyWrites, ApplicationsOf
<1>5. QED
  BY <1>1, <1>2, <1>3, <1>4 DEF Award, UnusedApplications, ApplicationsReferential,
     AcceptedIsCompleted, ActiveIsUndecided, OneApplicationPerUser, OneWinner

LEMMA AssignStep ==
    ASSUME TypeOK, Award, NEW o \in OpportunityIds, NEW a \in ApplicationIds, AssignCopilot(o, a)
    PROVE  Award'
<1> DEFINE won  == {a}
           lost == ApplicationsOf(o)
<1>1. SetStatus(applications, lost, "canceled") \in [ApplicationIds -> Application]
  BY SetStatusApplications DEF TypeOK, ApplicationStatus
<1>2. \A b \in ApplicationIds :
        /\ applications'[b].opportunity = applications[b].opportunity
        /\ applications'[b].user = applications[b].user
        /\ applications'[b].status = IF b \in won THEN "accepted"
                                     ELSE IF b \in lost THEN "canceled" ELSE applications[b].status
  <2> SUFFICES ASSUME NEW b \in ApplicationIds
      PROVE  /\ applications'[b].opportunity = applications[b].opportunity
             /\ applications'[b].user = applications[b].user
             /\ applications'[b].status = IF b \in won THEN "accepted"
                                          ELSE IF b \in lost THEN "canceled" ELSE applications[b].status
    OBVIOUS
  <2>1. /\ SetStatus(applications, lost, "canceled")[b].opportunity = applications[b].opportunity
        /\ SetStatus(applications, lost, "canceled")[b].user = applications[b].user
        /\ SetStatus(applications, lost, "canceled")[b].status =
              IF b \in lost THEN "canceled" ELSE applications[b].status
    BY SetStatusPoint DEF TypeOK, ApplicationStatus
  <2>2. applications' = [SetStatus(applications, lost, "canceled") EXCEPT ![a].status = "accepted"]
    BY DEF AssignCopilot, AssignWrites, AcceptCancelingOthers, UpsertCopilot
  <2> HIDE DEF lost
  <2>3. QED BY <1>1, <2>1, <2>2 DEF Application
<1>3. \A x \in OpportunityIds :
        opportunities'[x].status = IF x \in {o} THEN "completed" ELSE opportunities[x].status
  BY DEF AssignCopilot, AssignWrites, AcceptCancelingOthers, UpsertCopilot, TypeOK,
         Opportunity
<1>4. applications[a].opportunity = o
  BY DEF AssignCopilot, AssignReads
<1>5. \A b \in ApplicationIds : b \in lost <=> applications[b].opportunity = o
  BY DEF ApplicationsOf
<1> HIDE DEF lost
<1>6. Decides({o}, "completed", won, lost)
  BY <1>2, <1>3, <1>4, <1>5 DEF Decides, SameApplications
<1>7. QED BY <1>6, DecidingStep

LEMMA CancelStep ==
    ASSUME TypeOK, Award, NEW o \in OpportunityIds, CancelOpportunity(o)
    PROVE  Award'
<1> DEFINE lost == ApplicationsOf(o)
<1>1. \A b \in ApplicationIds :
        /\ applications'[b].opportunity = applications[b].opportunity
        /\ applications'[b].user = applications[b].user
        /\ applications'[b].status = IF b \in lost THEN "canceled" ELSE applications[b].status
  BY SetStatusPoint DEF CancelOpportunity, CancelWrites, TypeOK, ApplicationStatus
<1>2. \A x \in OpportunityIds :
        opportunities'[x].status = IF x \in {o} THEN "canceled" ELSE opportunities[x].status
  BY DEF CancelOpportunity, CancelWrites, TypeOK, Opportunity
<1>3. \A b \in ApplicationIds : b \in lost <=> applications[b].opportunity = o
  BY DEF ApplicationsOf
<1> HIDE DEF lost
<1>4. Decides({o}, "canceled", {}, lost)
  BY <1>1, <1>2, <1>3 DEF Decides, SameApplications
<1>5. QED BY <1>4, DecidingStep

LEMMA SettleStep ==
    ASSUME TypeOK, Award, InvitesReferential, NEW i \in InviteIds, NEW source \in Sources,
           UpdateInviteReads(i), invites[i].application # Null,
           SettleLinkedApplication(i, source)
    PROVE  Award'
<1> DEFINE a == invites[i].application
           o == applications[a].opportunity
<1>1. a \in ApplicationIds /\ applications[a].status # "none"
  BY DEF InvitesReferential, TypeOK, Invite
<1>2. o \in OpportunityIds /\ opportunities[o].status = "active"
  BY <1>1 DEF Award, ApplicationsReferential, UpdateInviteReads
<1>3. \A b \in ApplicationIds : applications[b].opportunity = o => applications[b].status # "accepted"
  BY <1>2 DEF Award, ActiveIsUndecided
<1>4. CASE source = "copilot_portal"
  <2>1. applications' = [applications EXCEPT ![a].status = "accepted"]
    BY <1>4 DEF SettleLinkedApplication
  <2>2. opportunities' = [opportunities EXCEPT ![o].status = "completed"]
    BY <1>4 DEF SettleLinkedApplication
  <2> HIDE DEF a, o
  <2>3. \A b \in ApplicationIds :
          /\ applications'[b].opportunity = applications[b].opportunity
          /\ applications'[b].user = applications[b].user
          /\ applications'[b].status = IF b \in {a} THEN "accepted" ELSE applications[b].status
    BY <1>1, <2>1 DEF TypeOK, Application
  <2>4. \A x \in OpportunityIds :
          opportunities'[x].status = IF x \in {o} THEN "completed" ELSE opportunities[x].status
    BY <1>2, <2>2 DEF TypeOK, Opportunity
  <2>5. Decides({o}, "completed", {a}, {})
    BY <1>1, <1>2, <1>3, <2>3, <2>4 DEF Decides, SameApplications, o
  <2>6. QED BY <2>5, DecidingStep
<1>5. CASE source # "copilot_portal"
  <2>1. applications' = [applications EXCEPT ![a].status = "canceled"]
    BY <1>5 DEF SettleLinkedApplication
  <2>2. opportunities' = [opportunities EXCEPT ![o].status = "canceled"]
    BY <1>5 DEF SettleLinkedApplication
  <2> HIDE DEF a, o
  <2>3. \A b \in ApplicationIds :
          /\ applications'[b].opportunity = applications[b].opportunity
          /\ applications'[b].user = applications[b].user
          /\ applications'[b].status = IF b \in {a} THEN "canceled" ELSE applications[b].status
    BY <1>1, <2>1 DEF TypeOK, Application
  <2>4. \A x \in OpportunityIds :
          opportunities'[x].status = IF x \in {o} THEN "canceled" ELSE opportunities[x].status
    BY <1>2, <2>2 DEF TypeOK, Opportunity
  <2>5. Decides({o}, "canceled", {}, {a})
    BY <1>1, <1>2, <1>3, <2>3, <2>4 DEF Decides, SameApplications, o
  <2>6. QED BY <2>5, DecidingStep
<1>6. QED BY <1>4, <1>5

LEMMA CancelProjectStep ==
    ASSUME TypeOK, Award, NEW p, NEW after, CancelProjectWorkflow(p, after)
    PROVE  Award'
<1> DEFINE rs == {r \in RequestIds : requests[r].status # "none" /\ requests[r].project = p}
           os == {o \in OpportunityIds : opportunities[o].request \in rs}
           apps == {a \in ApplicationIds : applications[a].opportunity \in os}
<1>1. /\ opportunities' = SetStatus(opportunities, os, "canceled")
      /\ applications' = SetStatus(applications, apps, "canceled")
  BY DEF CancelProjectWorkflow
<1>2. /\ \A a \in ApplicationIds : a \in apps <=> applications[a].opportunity \in os
      /\ os \subseteq OpportunityIds
  OBVIOUS
<1> HIDE DEF os, apps
<1>3. \A a \in ApplicationIds :
        /\ applications'[a].opportunity = applications[a].opportunity
        /\ applications'[a].user = applications[a].user
        /\ applications'[a].status = IF a \in apps THEN "canceled" ELSE applications[a].status
  <2>1. \A a \in ApplicationIds :
          /\ SetStatus(applications, apps, "canceled")[a].opportunity = applications[a].opportunity
          /\ SetStatus(applications, apps, "canceled")[a].user = applications[a].user
          /\ SetStatus(applications, apps, "canceled")[a].status =
                IF a \in apps THEN "canceled" ELSE applications[a].status
    BY SetStatusPoint DEF TypeOK, ApplicationStatus
  <2>2. QED BY <1>1, <2>1
<1>4. \A o \in OpportunityIds :
        opportunities'[o].status = IF o \in os THEN "canceled" ELSE opportunities[o].status
  BY <1>1, SetStatusOpportunityPoint DEF OpportunityStatus
<1>5. Decides(os, "canceled", {}, apps)
  BY <1>2, <1>3, <1>4 DEF Decides, SameApplications
<1>6. QED BY <1>5, DecidingStep

LEMMA CompleteStep ==
    ASSUME TypeOK, Award, NEW p, NEW u, CompleteCopilotRequests(p, u)
    PROVE  Award'
<1> DEFINE rs == {r \in RequestIds :
                 /\ requests[r].project = p
                 /\ requests[r].status \in OpenRequestStatus
                 /\ \E a \in ApplicationIds :
                      /\ applications[a].user = u
                      /\ applications[a].opportunity # Null
                      /\ opportunities[applications[a].opportunity].request = r}
           os == {o \in OpportunityIds : opportunities[o].request \in rs}
           apps == {a \in ApplicationIds : applications[a].opportunity \in os}
           own == {a \in apps : applications[a].user = u}
           lost == apps \ own
<1>1. /\ opportunities' = SetStatus(opportunities, os, "completed")
      /\ \/ own = {} /\ applications' = applications
         \/ \E a \in own : applications' = [SetStatus(applications, lost, "canceled")
                                               EXCEPT ![a].status = "accepted"]
  BY DEF CompleteCopilotRequests, OfOthers
<1>2. /\ \A a \in ApplicationIds :
            /\ a \in apps <=> applications[a].opportunity \in os
            /\ a \in own <=> a \in apps /\ applications[a].user = u
            /\ a \in lost <=> a \in apps /\ applications[a].user # u
      /\ os \subseteq OpportunityIds /\ own \subseteq ApplicationIds
  OBVIOUS
<1> HIDE DEF os, apps, own, lost
<1>3. \A o \in OpportunityIds :
        opportunities'[o].status = IF o \in os THEN "completed" ELSE opportunities[o].status
  BY <1>1, SetStatusOpportunityPoint DEF OpportunityStatus
<1>4. CASE applications' = applications
  <2>1. Decides(os, "completed", {}, {})
    BY <1>3, <1>4 DEF Decides, SameApplications
  <2>2. QED BY <2>1, DecidingStep
<1>5. ASSUME NEW a \in own,
             applications' = [SetStatus(applications, lost, "canceled")
                                  EXCEPT ![a].status = "accepted"]
      PROVE  Award'
  <2>1. SetStatus(applications, lost, "canceled") \in [ApplicationIds -> Application]
    BY SetStatusApplications DEF TypeOK, ApplicationStatus
  <2>2. \A b \in ApplicationIds :
          /\ SetStatus(applications, lost, "canceled")[b].opportunity = applications[b].opportunity
          /\ SetStatus(applications, lost, "canceled")[b].user = applications[b].user
          /\ SetStatus(applications, lost, "canceled")[b].status =
                IF b \in lost THEN "canceled" ELSE applications[b].status
    BY SetStatusPoint DEF TypeOK, ApplicationStatus
  <2>3. \A b \in ApplicationIds :
          /\ applications'[b].opportunity = applications[b].opportunity
          /\ applications'[b].user = applications[b].user
          /\ applications'[b].status = IF b \in {a} THEN "accepted"
                                       ELSE IF b \in lost THEN "canceled" ELSE applications[b].status
    BY <1>2, <1>5, <2>1, <2>2 DEF Application
  <2>4. a \in ApplicationIds /\ a \in apps /\ applications[a].user = u
    BY <1>2
  <2>5. applications[a].status # "none"
    <3>1. applications[a].opportunity \in OpportunityIds
      BY <1>2, <2>4
    <3>2. applications[a].opportunity # Null
      BY <3>1, NullAssumption DEF OpportunityIds
    <3>3. QED BY <2>4, <3>2 DEF Award, UnusedApplications
  <2>6. \A b \in ApplicationIds :
          /\ a # b /\ applications[a].opportunity = applications[b].opportunity
          => b \in lost \/ applications[b].status # "accepted"
    BY <1>2, <2>4, <2>5 DEF Award, OneApplicationPerUser
  <2>7. Decides(os, "completed", {a}, lost)
    BY <1>2, <1>3, <2>3, <2>4, <2>6 DEF Decides, SameApplications
  <2>8. QED BY <2>7, DecidingStep
<1>6. QED BY <1>1, <1>4, <1>5

THEOREM AwardNext ==
    TypeOK /\ InvitesReferential /\ Award /\ [Next]_vars => Award'
<1> SUFFICES ASSUME TypeOK, InvitesReferential, Award, [Next]_vars PROVE Award'
  OBVIOUS
<1>1. CASE UNCHANGED <<applications, opportunities>>
  BY <1>1, UndecidedStep
<1>2. ASSUME NEW p, NEW r \in RequestIds, NEW req, NEW t, ApproveWrites(p, r, req, t)
      PROVE  Award'
  <2>1. \A o \in OpportunityIds :
          opportunities[o].status # "none" => opportunities'[o].status = opportunities[o].status
    BY <1>2 DEF ApproveWrites, Fresh, TypeOK
  <2>2. QED BY <1>2, <2>1, UndecidedStep DEF ApproveWrites
<1>3. ASSUME NEW r \in RequestIds, NEW t \in Types, UpdateRequest(r, t) PROVE Award'
  <2>1. \A o \in OpportunityIds : opportunities'[o].status = opportunities[o].status
    BY <1>3 DEF UpdateRequest, UpdateRequestReads, UpdateRequestWrites, TypeOK, Opportunity
  <2>2. QED BY <1>3, <2>1, UndecidedStep DEF UpdateRequest, UpdateRequestReads,
                                             UpdateRequestWrites
<1>4. CASE RequestNext
  <2>1. ASSUME NEW p \in Projects, NEW t \in Types, CreateRequest(p, t) PROVE Award'
    <3>1. PICK r \in Fresh(requests) :
            ApproveWrites(p, r, [status |-> "new", project |-> p, type |-> t], t)
      BY <2>1 DEF CreateRequest, CreateRequestWrites
    <3>2. r \in RequestIds
      BY FreshRow DEF TypeOK
    <3>3. QED BY <1>2, <3>1, <3>2
  <2>2. ASSUME NEW p \in Projects, NEW r \in RequestIds, NEW t \in Types, ApproveRequest(p, r, t)
        PROVE  Award'
    BY <1>2, <2>2 DEF ApproveRequest
  <2>3. QED BY <1>3, <1>4, <2>1, <2>2 DEF RequestNext
<1>5. CASE OpportunityNext
  BY <1>5, ApplyStep, AssignStep, CancelStep DEF OpportunityNext
<1>6. ASSUME NEW i \in InviteIds, NEW s \in InviteStatus, NEW source \in Sources, NEW u \in Users,
             AcceptInvite(i, s, source, u)
      PROVE  Award'
  BY <1>6, SettleStep, CancelProjectStep DEF AcceptInvite, AcceptReads, AcceptWrites,
                                             JoinOnce
<1>7. ASSUME NEW i \in InviteIds, NEW after, UNCHANGED opportunities,
             invites[i].application # Null,
             applications' = ReopenApplication(invites[i].application, after)
      PROVE  Award'
  <2> DEFINE a == invites[i].application
  <2>1. a \in ApplicationIds /\ applications[a].status # "none"
    BY <1>7 DEF InvitesReferential, TypeOK, Invite
  <2>2. SetStatus(applications, {a}, "pending") = [applications EXCEPT ![a].status = "pending"]
    BY <2>1 DEF SetStatus, TypeOK
  <2>3. applications' \in {applications, [applications EXCEPT ![a].status = "pending"]}
    BY <1>7, <2>2 DEF ReopenApplication
  <2>4. QED BY <1>7, <2>1, <2>3, ReopeningStep
<1>8. ASSUME NEW i \in InviteIds, NEW s \in InviteStatus, DeclineInvite(i, s) PROVE Award'
  BY <1>1, <1>7, <1>8 DEF DeclineInvite
<1>9. ASSUME NEW i \in InviteIds, DeleteInvite(i) PROVE Award'
  BY <1>1, <1>7, <1>9 DEF DeleteInvite, DeleteInviteReads, DeleteInviteWrites
<1>10. ASSUME NEW o \in OpportunityIds, NEW a \in ApplicationIds, LinkInvite(o, a) PROVE Award'
  <2>1. applications[a].status # "none" /\ UNCHANGED opportunities
        /\ applications' = [applications EXCEPT ![a].status = "invited"]
    BY <1>10 DEF LinkInvite
  <2>2. QED BY <2>1, ReopeningStep
<1>11. CASE InviteNext
  <2>1. \A p, role, handles, emails, s :
          CreateInvites(p, role, handles, emails, s) => UNCHANGED <<applications, opportunities>>
    BY DEF CreateInvites
  <2>2. QED BY <1>1, <1>6, <1>8, <1>9, <1>10, <1>11, <2>1 DEF InviteNext
<1>12. CASE MemberNext
  BY <1>1, <1>12, CompleteStep DEF MemberNext, AddMember, AddMemberReads, AddMemberWrites,
                                   UpdateMember, DeleteMember
<1>13. QED
  BY <1>1, <1>4, <1>5, <1>11, <1>12 DEF Next, DeleteProject, vars

-----------------------------------------------------------------------------
(* Linked invites.                                                         *)

ApplicationsStay ==
    \A a \in ApplicationIds : applications[a].status # "none" => applications'[a].status # "none"

LEMMA StatusUpdateStays ==
    ASSUME TypeOK, NEW ids, NEW b, NEW s \in ApplicationStatus,
           \/ UNCHANGED applications
           \/ applications' = SetStatus(applications, ids, "canceled")
           \/ applications' = SetStatus(applications, ids, "pending")
           \/ applications' = [applications EXCEPT ![b].status = s]
           \/ applications' = [SetStatus(applications, ids, "canceled") EXCEPT ![b].status = s]
    PROVE  ApplicationsStay
<1>1. CASE UNCHANGED applications
  BY <1>1 DEF ApplicationsStay
<1>2. \A t \in {"canceled", "pending"} : \A a \in ApplicationIds :
        /\ SetStatus(applications, ids, t) \in [ApplicationIds -> Application]
        /\ SetStatus(applications, ids, t)[a].status = IF a \in ids THEN t ELSE applications[a].status
  BY SetStatusApplications, SetStatusPoint DEF TypeOK, ApplicationStatus
<1>3. CASE applications' = SetStatus(applications, ids, "canceled")
  BY <1>2, <1>3 DEF ApplicationsStay
<1>4. CASE applications' = SetStatus(applications, ids, "pending")
  BY <1>2, <1>4 DEF ApplicationsStay
<1>5. ASSUME NEW rows \in [ApplicationIds -> Application],
             \A a \in ApplicationIds : applications[a].status # "none" => rows[a].status # "none",
             applications' = [rows EXCEPT ![b].status = s]
      PROVE  ApplicationsStay
  BY <1>5 DEF ApplicationsStay, Application, ApplicationStatus
<1>6. CASE applications' = [applications EXCEPT ![b].status = s]
  BY <1>5, <1>6 DEF TypeOK
<1>7. CASE applications' = [SetStatus(applications, ids, "canceled") EXCEPT ![b].status = s]
  <2>1. \A a \in ApplicationIds : applications[a].status # "none" =>
          SetStatus(applications, ids, "canceled")[a].status # "none"
    BY <1>2
  <2>2. SetStatus(applications, ids, "canceled") \in [ApplicationIds -> Application]
    BY SetStatusApplications DEF TypeOK, ApplicationStatus
  <2>3. QED BY <1>5, <1>7, <2>1, <2>2
<1>8. QED BY <1>1, <1>3, <1>4, <1>6, <1>7

\* A step that keeps every application and links no invite anew.
LEMMA LinksStay ==
    ASSUME TypeOK, InvitesReferential, ApplicationsStay,
           \A i \in InviteIds : invites'[i].application \in {invites[i].application, Null}
    PROVE  InvitesReferential'
BY DEF InvitesReferential, ApplicationsStay, TypeOK, Invite

LEMMA SetStatusLinks ==
    ASSUME NEW rows \in [InviteIds -> Invite], NEW ids, NEW s, NEW i \in InviteIds
    PROVE  SetStatus(rows, ids, s)[i].application = rows[i].application
BY DEF SetStatus, Invite

LEMMA AnswerLinks ==
    ASSUME TypeOK, NEW i \in InviteIds, NEW s \in InviteStatus
    PROVE  /\ [invites EXCEPT ![i].status = s] \in [InviteIds -> Invite]
           /\ \A j \in InviteIds :
                [invites EXCEPT ![i].status = s][j].application = invites[j].application
BY DEF TypeOK, Invite

THEOREM InvitesReferentialNext ==
    TypeOK /\ InvitesReferential /\ [Next]_vars => InvitesReferential'
<1> SUFFICES ASSUME TypeOK, InvitesReferential, [Next]_vars PROVE InvitesReferential'
  OBVIOUS
<1>1. CASE UNCHANGED <<applications, invites>>
  BY <1>1 DEF InvitesReferential
<1>2. UNCHANGED invites => \A i \in InviteIds : invites'[i].application = invites[i].application
  OBVIOUS
<1>3. CASE RequestNext
  BY <1>1, <1>3 DEF RequestNext, CreateRequest, CreateRequestReads, CreateRequestWrites,
                    ApproveReads, ApproveWrites, UpdateRequest, UpdateRequestReads,
                    UpdateRequestWrites, ApproveRequest
<1>4. CASE OpportunityNext
  <2>1. ASSUME NEW o \in OpportunityIds, NEW u \in Users, ApplyToOpportunity(o, u)
        PROVE  InvitesReferential'
    <3>1. ApplicationsStay
      BY <2>1 DEF ApplicationsStay, ApplyToOpportunity, ApplyReads, ApplyWrites, TypeOK
    <3>2. QED BY <1>2, <2>1, <3>1, LinksStay DEF ApplyToOpportunity, ApplyReads, ApplyWrites
  <2>2. ASSUME NEW o \in OpportunityIds, NEW a \in ApplicationIds, AssignCopilot(o, a)
        PROVE  InvitesReferential'
    <3>1. applications' = [SetStatus(applications, ApplicationsOf(o), "canceled")
                               EXCEPT ![a].status = "accepted"]
      BY <2>2 DEF AssignCopilot, AssignWrites, AcceptCancelingOthers, UpsertCopilot
    <3>2. ApplicationsStay
      BY <3>1, StatusUpdateStays DEF ApplicationStatus
    <3>3. QED BY <1>2, <2>2, <3>2, LinksStay DEF AssignCopilot, AssignWrites,
                                                 AcceptCancelingOthers, UpsertCopilot
  <2>3. ASSUME NEW o \in OpportunityIds, CancelOpportunity(o) PROVE InvitesReferential'
    <3>1. ApplicationsStay
      BY <2>3, StatusUpdateStays DEF CancelOpportunity, CancelWrites, ApplicationStatus
    <3>2. QED BY <1>2, <2>3, <3>1, LinksStay DEF CancelOpportunity, CancelWrites
  <2>4. QED BY <1>4, <2>1, <2>2, <2>3 DEF OpportunityNext
<1>5. ASSUME NEW p \in Projects, NEW role \in Roles, NEW handles \in SUBSET Users,
             NEW emails \in SUBSET (Users \cup {Null}), NEW s \in OpenInviteStatus,
             CreateInvites(p, role, handles, emails, s)
      PROVE  InvitesReferential'
  <2>1. ApplicationsStay
    BY <1>5 DEF CreateInvites, ApplicationsStay
  <2>2. \A i \in InviteIds : invites'[i].application \in {invites[i].application, Null}
    BY <1>5 DEF CreateInvites
  <2>3. QED BY <2>1, <2>2, LinksStay
<1>6. ASSUME NEW i \in InviteIds, NEW s \in InviteStatus, NEW source \in Sources, NEW u \in Users,
             AcceptInvite(i, s, source, u)
      PROVE  InvitesReferential'
  <2>1. CASE SettleLinkedApplication(i, source) /\ invites' = [invites EXCEPT ![i].status = s]
    <3>1. ApplicationsStay
      BY <2>1, StatusUpdateStays DEF SettleLinkedApplication, ApplicationStatus
    <3>2. QED BY <2>1, <3>1, AnswerLinks, LinksStay
  <2>2. CASE CancelProjectWorkflow(invites[i].project, [invites EXCEPT ![i].status = s])
    <3>1. ApplicationsStay
      BY <2>2, StatusUpdateStays DEF CancelProjectWorkflow, ApplicationStatus
    <3> DEFINE after == [invites EXCEPT ![i].status = s]
    <3>2. PICK ids : invites' = SetStatus(after, ids, "canceled")
      BY <2>2, Zenon DEF CancelProjectWorkflow
    <3>3. \A j \in InviteIds : invites'[j].application = invites[j].application
      <4>1. after \in [InviteIds -> Invite]
            /\ \A j \in InviteIds : after[j].application = invites[j].application
        BY AnswerLinks
      <4> HIDE DEF after
      <4>2. QED BY <3>2, <4>1, SetStatusLinks
    <3>4. QED BY <3>1, <3>3, LinksStay
  <2>3. QED BY <1>6, <2>1, <2>2 DEF AcceptInvite, AcceptReads, AcceptWrites, JoinOnce
<1>7. ASSUME NEW i \in InviteIds, NEW s \in InviteStatus, DeclineInvite(i, s)
      PROVE  InvitesReferential'
  <2>1. ApplicationsStay
    BY <1>7, StatusUpdateStays DEF DeclineInvite, ReopenApplication, ApplicationStatus
  <2>2. QED BY <1>7, <2>1, AnswerLinks, LinksStay DEF DeclineInvite
<1>8. ASSUME NEW i \in InviteIds, DeleteInvite(i) PROVE InvitesReferential'
  <2>1. ApplicationsStay
    BY <1>8, StatusUpdateStays DEF DeleteInvite, DeleteInviteReads, DeleteInviteWrites,
                                   ReopenApplication, ApplicationStatus
  <2>2. QED BY <1>8, <2>1, AnswerLinks, LinksStay DEF DeleteInvite, DeleteInviteReads,
                                                      DeleteInviteWrites, InviteStatus
<1>9. ASSUME NEW o \in OpportunityIds, NEW a \in ApplicationIds, LinkInvite(o, a)
      PROVE  InvitesReferential'
  <2>1. ApplicationsStay
    BY <1>9, StatusUpdateStays DEF LinkInvite, ApplicationStatus
  <2>2. \A i \in InviteIds : invites'[i].application \in {invites[i].application, a}
    BY <1>9 DEF LinkInvite, TypeOK
  <2>3. applications[a].status # "none"
    BY <1>9 DEF LinkInvite
  <2>4. QED BY <2>1, <2>2, <2>3 DEF InvitesReferential, ApplicationsStay, TypeOK, Invite
<1>10. CASE InviteNext
  <2>1. CASE \E p \in Projects, role \in Roles, handles \in SUBSET Users,
                s \in OpenInviteStatus : \E emails \in SUBSET Addresses(role) :
                  CreateInvites(p, role, handles, emails, s)
    BY <1>5, <2>1 DEF Addresses
  <2>2. QED BY <1>6, <1>7, <1>8, <1>9, <1>10, <2>1 DEF InviteNext
<1>11. CASE MemberNext
  <2>1. ASSUME NEW p \in Projects, NEW u \in Users, NEW role \in Roles, AddMember(p, u, role)
        PROVE  InvitesReferential'
    <3>1. \A i \in InviteIds : invites'[i].application = invites[i].application
      BY <2>1, SetStatusLinks DEF AddMember, AddMemberReads, AddMemberWrites, TypeOK
    <3>2. QED BY <2>1, <3>1, LinksStay DEF AddMember, AddMemberReads, AddMemberWrites,
                                           ApplicationsStay
  <2>2. ASSUME NEW m \in MemberIds, NEW role \in Roles, NEW primary \in BOOLEAN \cup {Null},
               NEW complete \in BOOLEAN, UpdateMember(m, role, primary, complete)
        PROVE  InvitesReferential'
    <3>1. CASE CompleteCopilotRequests(members[m].project, members[m].user)
      <4>1. \/ UNCHANGED applications
            \/ \E ids, a : applications' = [SetStatus(applications, ids, "canceled")
                                                EXCEPT ![a].status = "accepted"]
        BY <3>1, Zenon DEF CompleteCopilotRequests, OfOthers
      <4>2. ApplicationsStay
        BY <4>1, StatusUpdateStays DEF ApplicationStatus
      <4>3. QED BY <1>2, <2>2, <4>2, LinksStay DEF UpdateMember
    <3>2. QED BY <1>1, <2>2, <3>1 DEF UpdateMember
  <2>3. QED BY <1>1, <1>11, <2>1, <2>2 DEF MemberNext, DeleteMember
<1>12. QED
  BY <1>1, <1>3, <1>4, <1>10, <1>11 DEF Next, DeleteProject, vars

\* Linked invites point to applications that exist, and the applications of an
\* opportunity are settled consistently, whichever handlers run.
THEOREM AwardCorrect == Spec => [](InvitesReferential /\ Award)
<1>1. Init => InvitesReferential /\ Award
  BY DEF Init, InvitesReferential, Award, UnusedApplications, ApplicationsReferential,
         AcceptedIsCompleted, ActiveIsUndecided, OneApplicationPerUser, OneWinner,
         NoApplication, NoInvite
<1>2. QED BY <1>1, TypeCorrect, AwardNext, InvitesReferentialNext, PTL DEF Spec

\* The double-accept guard: an opportunity never has two accepted applications.
THEOREM OneWinnerCorrect == Spec => []OneWinner
BY AwardCorrect, PTL DEF Award

\* An accepted application is never left on an active or canceled opportunity.
THEOREM AcceptedIsCompletedCorrect == Spec => []AcceptedIsCompleted
BY AwardCorrect, PTL DEF Award

\* No application to an active opportunity has been accepted or canceled.
THEOREM ActiveIsUndecidedCorrect == Spec => []ActiveIsUndecided
BY AwardCorrect, PTL DEF Award

-----------------------------------------------------------------------------
(* The primary copilot.                                                    *)

LEMMA Least ==
    ASSUME NEW T, T \subseteq Nat, T # {}
    PROVE  \E x \in T : \A y \in T : x <= y
<1>1. IsWellFoundedOn(OpToRel(<, Nat), Nat)
  BY NatLessThanWellFounded
<1>2. PICK x \in T : \A y \in T : <<y, x>> \notin OpToRel(<, Nat)
  BY <1>1, WFMin
<1>3. ASSUME NEW y \in T PROVE x <= y
  <2>1. x \in Nat /\ y \in Nat
    OBVIOUS
  <2>2. ~(y < x)
    BY <1>2, <2>1 DEF OpToRel
  <2>3. QED BY <2>1, <2>2
<1>4. QED BY <1>2, <1>3

\* No handler but deleteMember takes an active member away.
NobodyLeaves ==
    \A m \in MemberIds : members[m].status = "active" => members'[m].status = "active"

LEMMA CreateMemberKeepsAll ==
    ASSUME TypeOK, NEW p, NEW u, NEW role, CreateMember(p, u, role) PROVE NobodyLeaves
BY DEF TypeOK, CreateMember, NobodyLeaves

LEMMA DeleteMemberHandsOn ==
    ASSUME TypeOK, NEW d \in MemberIds, DeleteMember(d), NEW m \in MemberIds,
           m \in PrimaryCopilots(members, members[m].project),
           members'[m].status = "deleted",
           NEW n \in MemberIds, members'[n].status = "active",
           members'[n].project = members[m].project, members'[n].role = "copilot"
    PROVE  PrimaryCopilots(members', members[m].project) # {}
<1> DEFINE next == {k \in MemberIds \ {d} :
                      /\ members[d].role = "copilot" /\ members[d].isPrimary
                      /\ members[k].status = "active"
                      /\ members[k].project = members[d].project
                      /\ members[k].role = "copilot"}
<1>1. members' = [k \in MemberIds |->
         IF k = d THEN [members[k] EXCEPT !.status = "deleted"]
         ELSE IF k \in next /\ \A j \in next : k <= j
         THEN [members[k] EXCEPT !.isPrimary = TRUE]
         ELSE members[k]]
  BY DEF DeleteMember
<1>2. /\ members[m].status = "active" /\ members[m].role = "copilot" /\ members[m].isPrimary
  BY DEF PrimaryCopilots
<1>3. \A k \in next : k \in MemberIds \ {d}
  OBVIOUS
<1> HIDE DEF next
<1>4. \A k \in MemberIds \ {d} :
        /\ members'[k].status = members[k].status
        /\ members'[k].project = members[k].project
        /\ members'[k].role = members[k].role
        /\ (k \in next /\ \A j \in next : k <= j) => members'[k].isPrimary
  BY <1>1 DEF TypeOK, Member
<1>5. members'[d].status = "deleted"
  BY <1>1 DEF TypeOK, Member
<1>6. m = d
  BY <1>2, <1>4
<1>7. n \in next
  BY <1>2, <1>4, <1>5, <1>6 DEF next
<1>8. next \subseteq Nat
  BY <1>3 DEF MemberIds
<1>9. PICK k \in next : \A j \in next : k <= j
  BY <1>7, <1>8, Least
<1>10. members[k].status = "active" /\ members[k].project = members[d].project
       /\ members[k].role = "copilot"
  BY DEF next
<1>11. QED BY <1>3, <1>4, <1>6, <1>9, <1>10 DEF PrimaryCopilots

LEMMA PrimaryNext ==
    ASSUME TypeOK, [Next]_vars PROVE NobodyLeaves \/ \E d \in MemberIds : DeleteMember(d)
<1>1. CASE UNCHANGED members
  BY <1>1 DEF NobodyLeaves
<1>2. ASSUME NEW o \in OpportunityIds, NEW a \in ApplicationIds, AssignCopilot(o, a)
      PROVE  NobodyLeaves
  BY <1>1, <1>2, AssignMembers, CreateMemberKeepsAll DEF NobodyLeaves, TypeOK, Member
<1>3. ASSUME NEW i \in InviteIds, NEW s \in InviteStatus, NEW source \in Sources, NEW u \in Users,
             AcceptInvite(i, s, source, u)
      PROVE  NobodyLeaves
  BY <1>1, <1>3, CreateMemberKeepsAll DEF AcceptInvite, AcceptReads, AcceptWrites, JoinOnce, NobodyLeaves
<1>4. ASSUME NEW p \in Projects, NEW u \in Users, NEW role \in Roles, AddMember(p, u, role)
      PROVE  NobodyLeaves
  BY <1>4, CreateMemberKeepsAll DEF AddMember, AddMemberWrites
<1>5. ASSUME NEW m \in MemberIds, NEW role \in Roles, NEW primary \in BOOLEAN \cup {Null},
             NEW complete \in BOOLEAN, UpdateMember(m, role, primary, complete)
      PROVE  NobodyLeaves
  BY <1>5 DEF UpdateMember, TypeOK, Member, NobodyLeaves
<1>6. CASE RequestNext
  BY <1>1, <1>6 DEF RequestNext, CreateRequest, CreateRequestWrites, ApproveWrites, UpdateRequest,
                    UpdateRequestWrites, ApproveRequest
<1>7. CASE OpportunityNext
  BY <1>1, <1>2, <1>7 DEF OpportunityNext, ApplyToOpportunity, ApplyWrites,
                          CancelOpportunity, CancelWrites
<1>8. CASE InviteNext
  <2>1. \A p, role, handles, emails, s :
          CreateInvites(p, role, handles, emails, s) => UNCHANGED members
    BY DEF CreateInvites
  <2>2. QED
    BY <1>1, <1>3, <1>8, <2>1 DEF InviteNext, DeclineInvite, DeleteInvite,
                                  DeleteInviteWrites, LinkInvite
<1>9. CASE MemberNext
  BY <1>4, <1>5, <1>9 DEF MemberNext
<1>10. QED
  BY <1>1, <1>6, <1>7, <1>8, <1>9 DEF Next, DeleteProject, vars

\* A project that loses its primary copilot has another one as long as a copilot
\* remains, whatever the number of its members.
THEOREM PrimarySucceedsCorrect == Spec => PrimarySucceeds
<1>1. ASSUME TypeOK, [Next]_vars, NEW m \in MemberIds,
             m \in PrimaryCopilots(members, members[m].project),
             members'[m].status = "deleted",
             \E n \in MemberIds : /\ members'[n].status = "active"
                                  /\ members'[n].project = members[m].project
                                  /\ members'[n].role = "copilot"
      PROVE  PrimaryCopilots(members', members[m].project) # {}
  <2>1. ~NobodyLeaves
    BY <1>1 DEF PrimaryCopilots, NobodyLeaves
  <2>2. PICK d \in MemberIds : DeleteMember(d)
    BY <1>1, <2>1, PrimaryNext
  <2>3. QED BY <1>1, <2>2, DeleteMemberHandsOn
<1>2. TypeOK /\ [Next]_vars =>
        [\A m \in MemberIds :
           LET p == members[m].project
           IN
           /\ m \in PrimaryCopilots(members, p)
           /\ members'[m].status = "deleted"
           /\ \E n \in MemberIds : /\ members'[n].status = "active" /\ members'[n].project = p
                                   /\ members'[n].role = "copilot"
           => PrimaryCopilots(members', p) # {}]_vars
  BY <1>1
<1>3. QED BY <1>2, TypeCorrect, PTL DEF Spec, PrimarySucceeds

-----------------------------------------------------------------------------
(* The members who are awarded something.                                  *)

\* Who applied is known, and an invite linked to an application names its applicant
\* and the project of its opportunity.
LinkedToApplicant ==
    /\ \A a \in ApplicationIds : applications[a].status # "none" => applications[a].user \in Users
    /\ \A i \in InviteIds : LET a == invites[i].application
                            IN  a # Null =>
         /\ invites[i].user = applications[a].user
         /\ invites[i].project = opportunities[applications[a].opportunity].project

\* What a step keeps of the rows that were inserted before it.
KeepsApplications ==
    \A a \in ApplicationIds : applications[a].status # "none" =>
        /\ applications'[a].opportunity = applications[a].opportunity
        /\ applications'[a].user = applications[a].user

KeepsOpportunities ==
    \A o \in OpportunityIds : opportunities[o].status # "none" =>
        /\ opportunities'[o].project = opportunities[o].project
        /\ opportunities'[o].request = opportunities[o].request

KeepsLinks ==
    \A i \in InviteIds : invites'[i].application # Null =>
        /\ invites'[i].application = invites[i].application
        /\ invites'[i].user = invites[i].user
        /\ invites'[i].project = invites[i].project

NothingNew == \A a \in ApplicationIds : applications'[a].status # "none" => applications[a].status # "none"

LEMMA KeepingStep ==
    ASSUME TypeOK, InvitesReferential, Award, LinkedToApplicant,
           KeepsApplications, KeepsOpportunities, KeepsLinks, NothingNew
    PROVE  LinkedToApplicant'
<1>1. ASSUME NEW i \in InviteIds, invites'[i].application # Null
      PROVE  /\ invites'[i].user = applications'[invites'[i].application].user
             /\ invites'[i].project =
                  opportunities'[applications'[invites'[i].application].opportunity].project
  <2> DEFINE a == invites[i].application
  <2>1. /\ invites'[i].application = a /\ invites'[i].user = invites[i].user
        /\ invites'[i].project = invites[i].project /\ a # Null
    BY <1>1 DEF KeepsLinks
  <2>2. a \in ApplicationIds /\ applications[a].status # "none"
    BY <2>1 DEF InvitesReferential, TypeOK, Invite
  <2>3. /\ applications[a].opportunity \in OpportunityIds
        /\ opportunities[applications[a].opportunity].status # "none"
    BY <2>2 DEF Award, ApplicationsReferential
  <2>4. /\ applications'[a].opportunity = applications[a].opportunity
        /\ applications'[a].user = applications[a].user
        /\ opportunities'[applications[a].opportunity].project =
             opportunities[applications[a].opportunity].project
    BY <2>2, <2>3 DEF KeepsApplications, KeepsOpportunities
  <2>5. QED BY <2>1, <2>4 DEF LinkedToApplicant
<1>2. \A a \in ApplicationIds : applications'[a].status # "none" => applications'[a].user \in Users
  BY DEF LinkedToApplicant, NothingNew, KeepsApplications
<1>3. QED BY <1>1, <1>2 DEF LinkedToApplicant

LEMMA ApplicationsKept ==
    ASSUME TypeOK, NEW ids, NEW b, NEW s \in ApplicationStatus,
           b \in ApplicationIds => applications[b].status # "none",
           \A a \in ids : a \in ApplicationIds => applications[a].status # "none",
           \/ applications' = SetStatus(applications, ids, "canceled")
           \/ applications' = [SetStatus(applications, ids, "canceled") EXCEPT ![b].status = s]
    PROVE  KeepsApplications /\ NothingNew
<1> DEFINE Kept(rows) == \A a \in ApplicationIds :
             /\ rows[a].opportunity = applications[a].opportunity
             /\ rows[a].user = applications[a].user
             /\ rows[a].status # "none" => applications[a].status # "none"
<1>1. Kept(applications') => KeepsApplications /\ NothingNew
  BY DEF KeepsApplications, NothingNew
<1>2. /\ SetStatus(applications, ids, "canceled") \in [ApplicationIds -> Application]
      /\ Kept(SetStatus(applications, ids, "canceled"))
  BY SetStatusApplications, SetStatusPoint DEF TypeOK, ApplicationStatus
<1>3. ASSUME NEW rows \in [ApplicationIds -> Application], Kept(rows)
      PROVE  Kept([rows EXCEPT ![b].status = s])
  BY <1>3 DEF Application
<1> HIDE DEF Kept
<1>4. QED BY <1>1, <1>2, <1>3

LEMMA SettingKeeps ==
    ASSUME TypeOK, NEW b \in ApplicationIds, applications[b].status # "none",
           NEW s \in ApplicationStatus, applications' = [applications EXCEPT ![b].status = s]
    PROVE  KeepsApplications /\ NothingNew
BY DEF TypeOK, Application, KeepsApplications, NothingNew

LEMMA OpportunitiesKept ==
    ASSUME TypeOK, NEW ids, NEW b, NEW s \in OpportunityStatus,
           \/ UNCHANGED opportunities
           \/ opportunities' = SetStatus(opportunities, ids, s)
           \/ opportunities' = [opportunities EXCEPT ![b].status = s]
    PROVE  KeepsOpportunities
BY DEF KeepsOpportunities, TypeOK, Opportunity, SetStatus

LEMMA LinksKept ==
    ASSUME TypeOK, NEW i, NEW ids, NEW s, NEW t,
           \/ UNCHANGED invites
           \/ invites' = SetStatus(invites, ids, t)
           \/ invites' = [invites EXCEPT ![i].status = s]
           \/ invites' = SetStatus([invites EXCEPT ![i].status = s], ids, t)
    PROVE  KeepsLinks
BY DEF KeepsLinks, TypeOK, Invite, SetStatus

\* A row that belongs to an opportunity was inserted.
LEMMA Belonging ==
    ASSUME Award, NEW a \in ApplicationIds, applications[a].opportunity \in OpportunityIds
    PROVE  applications[a].status # "none"
BY NullAssumption DEF Award, UnusedApplications, OpportunityIds

LEMMA ApplyKeeps ==
    ASSUME TypeOK, LinkedToApplicant, InvitesReferential, Award,
           NEW o \in OpportunityIds, NEW u \in Users, ApplyToOpportunity(o, u)
    PROVE  LinkedToApplicant'
<1>1. PICK a \in ApplicationIds : /\ applications[a].status = "none"
                                  /\ applications' = [applications EXCEPT ![a] =
                                       [status |-> "pending", opportunity |-> o, user |-> u]]
  BY DEF ApplyToOpportunity, ApplyWrites, Fresh, TypeOK
<1>2. UNCHANGED <<opportunities, invites>>
  BY DEF ApplyToOpportunity, ApplyWrites
<1>3. \A b \in ApplicationIds : applications[b].status # "none" => applications'[b] = applications[b]
  BY <1>1 DEF TypeOK
<1>4. \A b \in ApplicationIds : applications'[b].status # "none" => applications'[b].user \in Users
  BY <1>1 DEF TypeOK, LinkedToApplicant
<1>5. \A i \in InviteIds : invites[i].application # Null =>
        /\ invites[i].application \in ApplicationIds
        /\ applications[invites[i].application].status # "none"
  BY DEF InvitesReferential, TypeOK, Invite
<1>6. QED BY <1>2, <1>3, <1>4, <1>5 DEF LinkedToApplicant

LEMMA AssignKeeps ==
    ASSUME TypeOK, LinkedToApplicant, InvitesReferential, Award,
           NEW o \in OpportunityIds, NEW a \in ApplicationIds, AssignCopilot(o, a)
    PROVE  LinkedToApplicant'
<1>1. /\ applications' = [SetStatus(applications, ApplicationsOf(o), "canceled")
                               EXCEPT ![a].status = "accepted"]
      /\ opportunities' = [opportunities EXCEPT ![o].status = "completed"]
      /\ UNCHANGED invites /\ applications[a].opportunity = o
  BY DEF AssignCopilot, AssignReads, AssignWrites, AcceptCancelingOthers, UpsertCopilot
<1>2. \A b \in ApplicationsOf(o) : b \in ApplicationIds /\ applications[b].opportunity = o
  BY DEF ApplicationsOf
<1>3. applications[a].status # "none" /\ \A b \in ApplicationsOf(o) : applications[b].status # "none"
  BY <1>1, <1>2, Belonging
<1>4. KeepsApplications /\ NothingNew
  BY <1>1, <1>3, ApplicationsKept DEF ApplicationStatus
<1>5. KeepsOpportunities /\ KeepsLinks
  BY <1>1, OpportunitiesKept, LinksKept DEF OpportunityStatus
<1>6. QED BY <1>4, <1>5, KeepingStep

LEMMA CancelKeeps ==
    ASSUME TypeOK, LinkedToApplicant, InvitesReferential, Award,
           NEW o \in OpportunityIds, CancelOpportunity(o)
    PROVE  LinkedToApplicant'
<1>1. /\ applications' = SetStatus(applications, ApplicationsOf(o), "canceled")
      /\ opportunities' = [opportunities EXCEPT ![o].status = "canceled"]
      /\ UNCHANGED invites
  BY DEF CancelOpportunity, CancelWrites
<1>2. \A b \in ApplicationsOf(o) : applications[b].status # "none"
  BY Belonging DEF ApplicationsOf
<1>3. KeepsApplications /\ NothingNew
  BY <1>1, <1>2, NullAssumption, ApplicationsKept DEF ApplicationStatus, ApplicationIds
<1>4. KeepsOpportunities /\ KeepsLinks
  BY <1>1, OpportunitiesKept, LinksKept DEF OpportunityStatus
<1>5. QED BY <1>3, <1>4, KeepingStep

\* The application an invite is linked to was made.
LEMMA Linked ==
    ASSUME TypeOK, InvitesReferential, Award, NEW i \in InviteIds, invites[i].application # Null
    PROVE  /\ invites[i].application \in ApplicationIds
           /\ applications[invites[i].application].status # "none"
           /\ applications[invites[i].application].opportunity \in OpportunityIds
BY DEF TypeOK, Invite, InvitesReferential, Award, ApplicationsReferential

LEMMA AcceptKeeps ==
    ASSUME TypeOK, LinkedToApplicant, InvitesReferential, Award,
           NEW i \in InviteIds, NEW s \in InviteStatus, NEW source \in Sources, NEW u \in Users,
           AcceptInvite(i, s, source, u)
    PROVE  LinkedToApplicant'
<1> DEFINE a == invites[i].application
<1>1. CASE /\ a # Null /\ SettleLinkedApplication(i, source)
           /\ invites' = [invites EXCEPT ![i].status = s]
  <2>1. a \in ApplicationIds /\ applications[a].status # "none"
    BY <1>1, Linked
  <2>2. \E t \in ApplicationStatus : applications' = [applications EXCEPT ![a].status = t]
    BY <1>1 DEF SettleLinkedApplication, ApplicationStatus
  <2>3. \E t \in OpportunityStatus :
          opportunities' = [opportunities EXCEPT ![applications[a].opportunity].status = t]
    BY <1>1 DEF SettleLinkedApplication, OpportunityStatus
  <2> HIDE DEF a
  <2>4. KeepsApplications /\ NothingNew
    BY <2>1, <2>2, SettingKeeps
  <2>5. KeepsOpportunities
    BY <2>3, OpportunitiesKept
  <2>6. KeepsLinks
    BY <1>1, LinksKept
  <2>7. QED BY <2>4, <2>5, <2>6, KeepingStep
<1>2. CASE CancelProjectWorkflow(invites[i].project, [invites EXCEPT ![i].status = s])
  <2> DEFINE rs == {r \in RequestIds : /\ requests[r].status # "none"
                                       /\ requests[r].project = invites[i].project}
             os == {o \in OpportunityIds : opportunities[o].request \in rs}
             apps == {b \in ApplicationIds : applications[b].opportunity \in os}
             after == [invites EXCEPT ![i].status = s]
  <2>1. /\ opportunities' = SetStatus(opportunities, os, "canceled")
        /\ applications' = SetStatus(applications, apps, "canceled")
        /\ invites' = SetStatus(after,
                      {j \in InviteIds : /\ after[j].application \in apps
                                         /\ after[j].status \in OpenInviteStatus}, "canceled")
    BY <1>2 DEF CancelProjectWorkflow
  <2>2. \A b \in apps : b \in ApplicationIds /\ applications[b].status # "none"
    BY Belonging
  <2> HIDE DEF os, apps
  <2>3. KeepsApplications /\ NothingNew
    BY <2>1, <2>2, NullAssumption, ApplicationsKept DEF ApplicationStatus, ApplicationIds
  <2>4. KeepsOpportunities
    BY <2>1, OpportunitiesKept DEF OpportunityStatus
  <2>5. KeepsLinks
    BY <2>1, LinksKept
  <2>6. QED BY <2>3, <2>4, <2>5, KeepingStep
<1>3. QED BY <1>1, <1>2 DEF AcceptInvite, AcceptWrites, JoinOnce

LEMMA ReopenKeeps ==
    ASSUME TypeOK, LinkedToApplicant, InvitesReferential, Award, UNCHANGED opportunities,
           NEW i \in InviteIds, NEW s, invites' = [invites EXCEPT ![i].status = s],
           \/ UNCHANGED applications
           \/ invites[i].application # Null /\
              applications' = ReopenApplication(invites[i].application, invites')
    PROVE  LinkedToApplicant'
<1>1. KeepsOpportunities /\ KeepsLinks
  BY OpportunitiesKept, LinksKept DEF OpportunityStatus
<1>2. CASE UNCHANGED applications
  BY <1>1, <1>2, KeepingStep DEF KeepsApplications, NothingNew
<1>3. CASE invites[i].application # Null /\
           applications' = SetStatus(applications, {invites[i].application}, "pending")
  <2> DEFINE a == invites[i].application
  <2>1. a \in ApplicationIds /\ applications[a].status # "none"
    BY <1>3, Linked
  <2>2. applications' = [applications EXCEPT ![a].status = "pending"]
    BY <1>3, <2>1 DEF SetStatus, TypeOK
  <2> HIDE DEF a
  <2>3. KeepsApplications /\ NothingNew
    BY <2>1, <2>2, SettingKeeps DEF ApplicationStatus
  <2>4. QED BY <1>1, <2>3, KeepingStep
<1>4. QED BY <1>2, <1>3 DEF ReopenApplication

LEMMA LinkKeeps ==
    ASSUME TypeOK, LinkedToApplicant, InvitesReferential, Award,
           NEW o \in OpportunityIds, NEW a \in ApplicationIds, LinkInvite(o, a)
    PROVE  LinkedToApplicant'
<1>1. /\ applications[a].opportunity = o /\ applications[a].status # "none"
      /\ applications' = [applications EXCEPT ![a].status = "invited"] /\ UNCHANGED opportunities
  BY DEF LinkInvite
<1>2. PICK i \in InviteIds : invites' = [invites EXCEPT ![i] =
            [status |-> "pending", project |-> opportunities[o].project, role |-> "copilot",
             user |-> applications[a].user, application |-> a]]
  BY DEF LinkInvite, Fresh, TypeOK
<1>3. \A b \in ApplicationIds :
        /\ applications'[b].user = applications[b].user
        /\ applications'[b].opportunity = applications[b].opportunity
        /\ applications'[b].status # "none" => applications[b].status # "none"
  BY <1>1 DEF TypeOK, Application
<1>4. /\ invites'[i].application = a /\ invites'[i].user = applications[a].user
      /\ invites'[i].project = opportunities[o].project
      /\ \A j \in InviteIds \ {i} : invites'[j] = invites[j]
  BY <1>2 DEF TypeOK
<1>5. \A j \in InviteIds : invites[j].application # Null => invites[j].application \in ApplicationIds
  BY Linked
<1>6. QED BY <1>1, <1>3, <1>4, <1>5 DEF LinkedToApplicant

LEMMA CompleteKeeps ==
    ASSUME TypeOK, LinkedToApplicant, InvitesReferential, Award, UNCHANGED invites,
           NEW p, NEW u, CompleteCopilotRequests(p, u)
    PROVE  LinkedToApplicant'
<1> DEFINE rs == {r \in RequestIds :
                 /\ requests[r].project = p
                 /\ requests[r].status \in OpenRequestStatus
                 /\ \E a \in ApplicationIds :
                      /\ applications[a].user = u
                      /\ applications[a].opportunity # Null
                      /\ opportunities[applications[a].opportunity].request = r}
           os == {o \in OpportunityIds : opportunities[o].request \in rs}
           apps == {a \in ApplicationIds : applications[a].opportunity \in os}
           own == {a \in apps : applications[a].user = u}
           others == OfOthers(apps, u)
<1>1. /\ opportunities' = SetStatus(opportunities, os, "completed")
      /\ \/ UNCHANGED applications
         \/ \E a \in own : applications' = [SetStatus(applications, others, "canceled")
                                               EXCEPT ![a].status = "accepted"]
  BY DEF CompleteCopilotRequests
<1>2. \A b \in own \cup others : b \in ApplicationIds /\ applications[b].status # "none"
  BY Belonging DEF OfOthers
<1> HIDE DEF os, own, others
<1>3. KeepsApplications /\ NothingNew
  <2>1. CASE UNCHANGED applications
    BY <2>1 DEF KeepsApplications, NothingNew
  <2>2. ASSUME NEW a \in own, applications' = [SetStatus(applications, others, "canceled")
                                               EXCEPT ![a].status = "accepted"]
        PROVE  KeepsApplications /\ NothingNew
    BY <1>2, <2>2, ApplicationsKept DEF ApplicationStatus
  <2>3. QED BY <1>1, <2>1, <2>2
<1>4. KeepsOpportunities /\ KeepsLinks
  BY <1>1, OpportunitiesKept, LinksKept DEF OpportunityStatus
<1>5. QED BY <1>3, <1>4, KeepingStep

THEOREM LinkedNext ==
    TypeOK /\ InvitesReferential /\ Award /\ LinkedToApplicant /\ [Next]_vars => LinkedToApplicant'
<1> SUFFICES ASSUME TypeOK, InvitesReferential, Award, LinkedToApplicant, [Next]_vars
             PROVE  LinkedToApplicant'
  OBVIOUS
<1>1. CASE UNCHANGED <<applications, opportunities, invites>>
  BY <1>1 DEF LinkedToApplicant
<1>2. CASE UNCHANGED <<applications, opportunities>> /\ KeepsLinks
  BY <1>2, KeepingStep DEF KeepsApplications, NothingNew, KeepsOpportunities
<1>3. CASE UNCHANGED <<applications, invites>> /\ KeepsOpportunities
  BY <1>3, KeepingStep DEF KeepsApplications, NothingNew, KeepsLinks
<1>4. CASE RequestNext
  <2>1. ASSUME NEW p, NEW r, NEW req, NEW t, ApproveWrites(p, r, req, t) PROVE LinkedToApplicant'
    <3>1. KeepsOpportunities
      BY <2>1 DEF ApproveWrites, Fresh, TypeOK, KeepsOpportunities
    <3>2. QED BY <1>3, <2>1, <3>1 DEF ApproveWrites
  <2>2. ASSUME NEW r \in RequestIds, NEW t \in Types, UpdateRequest(r, t) PROVE LinkedToApplicant'
    <3>1. KeepsOpportunities
      BY <2>2 DEF UpdateRequest, UpdateRequestWrites, TypeOK, Opportunity, KeepsOpportunities
    <3>2. QED BY <1>3, <2>2, <3>1 DEF UpdateRequest, UpdateRequestWrites
  <2>3. QED BY <1>4, <2>1, <2>2 DEF RequestNext, CreateRequest, CreateRequestWrites, ApproveRequest
<1>5. CASE OpportunityNext
  BY <1>5, ApplyKeeps, AssignKeeps, CancelKeeps DEF OpportunityNext
<1>6. CASE InviteNext
  <2>1. ASSUME NEW p \in Projects, NEW role \in Roles, NEW handles \in SUBSET Users,
               NEW emails \in SUBSET (Users \cup {Null}), NEW s \in OpenInviteStatus,
               CreateInvites(p, role, handles, emails, s)
        PROVE  LinkedToApplicant'
    <3>1. KeepsLinks
      BY <2>1 DEF CreateInvites, KeepsLinks
    <3>2. UNCHANGED <<applications, opportunities>>
      BY <2>1 DEF CreateInvites
    <3>3. QED BY <1>2, <3>1, <3>2
  <2>2. CASE \E p \in Projects, role \in Roles, handles \in SUBSET Users,
                s \in OpenInviteStatus : \E emails \in SUBSET Addresses(role) :
                  CreateInvites(p, role, handles, emails, s)
    BY <2>1, <2>2 DEF Addresses
  <2>3. ASSUME NEW i \in InviteIds, NEW s \in InviteStatus, DeclineInvite(i, s)
        PROVE  LinkedToApplicant'
    BY <2>3, ReopenKeeps DEF DeclineInvite
  <2>4. ASSUME NEW i \in InviteIds, DeleteInvite(i) PROVE LinkedToApplicant'
    BY <2>4, ReopenKeeps DEF DeleteInvite, DeleteInviteWrites
  <2>5. QED BY <1>6, <2>2, <2>3, <2>4, AcceptKeeps, LinkKeeps DEF InviteNext
<1>7. CASE MemberNext
  <2>1. ASSUME NEW p \in Projects, NEW u \in Users, NEW role \in Roles, AddMember(p, u, role)
        PROVE  LinkedToApplicant'
    <3>1. KeepsLinks
      BY <2>1, LinksKept DEF AddMember, AddMemberWrites
    <3>2. QED BY <1>2, <2>1, <3>1 DEF AddMember, AddMemberWrites
  <2>2. ASSUME NEW m \in MemberIds, NEW role \in Roles, NEW primary \in BOOLEAN \cup {Null},
               NEW complete \in BOOLEAN, UpdateMember(m, role, primary, complete)
        PROVE  LinkedToApplicant'
    BY <1>1, <2>2, CompleteKeeps DEF UpdateMember
  <2>3. QED BY <1>1, <1>7, <2>1, <2>2 DEF MemberNext, DeleteMember
<1>8. QED BY <1>1, <1>4, <1>5, <1>6, <1>7 DEF Next, DeleteProject, vars

\* The winner of application a is a member of the project of the opportunity, or of its
\* request.
WinnerJoined(a) ==
    \E o \in OpportunityIds, m \in MemberIds :
        /\ o = applications'[a].opportunity
        /\ members'[m].status = "active"
        /\ members'[m].user = applications'[a].user
        /\ \/ members'[m].project = opportunities'[o].project
           \/ \E r \in RequestIds : /\ opportunities'[o].request = r
                                    /\ members'[m].project = requests'[r].project

\* Whoever this step makes a winner has joined the project when it ends.
AwardsJoin ==
    \A a \in ApplicationIds :
        applications[a].status # "accepted" /\ applications'[a].status = "accepted" => WinnerJoined(a)

\* A step that accepts application b alone, of a user u who ends as a member of project p.
LEMMA WinningStep ==
    ASSUME NEW b, NEW o \in OpportunityIds, NEW m \in MemberIds,
           \A a \in ApplicationIds \ {b} :
             applications'[a].status = "accepted" => applications[a].status = "accepted",
           applications'[b].opportunity = o,
           members'[m].status = "active", members'[m].user = applications'[b].user,
           \/ members'[m].project = opportunities'[o].project
           \/ \E r \in RequestIds : /\ opportunities'[o].request = r
                                    /\ members'[m].project = requests'[r].project
    PROVE  AwardsJoin
BY DEF AwardsJoin, WinnerJoined

\* Who joins a project, or is found to be a member of it, is one.
JoinedBy(p, u) ==
    \E m \in MemberIds : /\ members'[m].status = "active" /\ members'[m].project = p
                         /\ members'[m].user = u

LEMMA Joins ==
    ASSUME TypeOK, NEW p, NEW u, NEW role, CreateMember(p, u, role) PROVE JoinedBy(p, u)
BY DEF CreateMember, Fresh, TypeOK, JoinedBy

LEMMA Remains ==
    ASSUME TypeOK, NEW p, NEW u, MembersOf(p, u) # {},
           \A n \in MemberIds : /\ members'[n].status = members[n].status
                                /\ members'[n].project = members[n].project
                                /\ members'[n].user = members[n].user
    PROVE  JoinedBy(p, u)
BY DEF MembersOf, JoinedBy

LEMMA AssignAwards ==
    ASSUME TypeOK, NEW o \in OpportunityIds, NEW b \in ApplicationIds, AssignCopilot(o, b)
    PROVE  AwardsJoin
<1> DEFINE p == opportunities[o].project
           u == applications[b].user
           lost == ApplicationsOf(o)
<1>1. PICK n \in FindMember(p, u) :
        AssignWrites(o, b, n, IF n = Null THEN Null ELSE members[n].role)
  BY DEF AssignCopilot
<1>2. JoinedBy(p, u)
  <2>1. CASE MembersOf(p, u) = {}
    <3>1. CreateMember(p, u, "copilot")
      BY <1>1, <2>1 DEF AssignWrites, UpsertCopilot, FindMember
    <3>2. QED BY <3>1, Joins
  <2>2. CASE MembersOf(p, u) # {}
    <3>1. n \in MemberIds
      BY <2>2 DEF FindMember, MembersOf
    <3>2. n # Null
      BY <3>1, NullAssumption DEF MemberIds
    <3>3. UNCHANGED members \/ members' = [members EXCEPT ![n].role = "copilot"]
      BY <1>1, <3>2 DEF AssignWrites, UpsertCopilot
    <3>4. \A k \in MemberIds : /\ members'[k].status = members[k].status
                               /\ members'[k].project = members[k].project
                               /\ members'[k].user = members[k].user
      BY <3>3 DEF TypeOK, Member
    <3>5. QED BY <2>2, <3>4, Remains
  <2>3. QED BY <2>1, <2>2
<1>3. /\ applications' = [SetStatus(applications, lost, "canceled") EXCEPT ![b].status = "accepted"]
      /\ opportunities' = [opportunities EXCEPT ![o].status = "completed"]
      /\ applications[b].opportunity = o
  BY DEF AssignCopilot, AssignReads, AssignWrites, AcceptCancelingOthers
<1>4. SetStatus(applications, lost, "canceled") \in [ApplicationIds -> Application]
  BY SetStatusApplications DEF TypeOK, ApplicationStatus
<1>5. \A a \in ApplicationIds :
        /\ SetStatus(applications, lost, "canceled")[a].opportunity = applications[a].opportunity
        /\ SetStatus(applications, lost, "canceled")[a].user = applications[a].user
        /\ SetStatus(applications, lost, "canceled")[a].status \in {"canceled", applications[a].status}
  BY SetStatusPoint DEF TypeOK, ApplicationStatus
<1> HIDE DEF lost
<1>6. /\ \A a \in ApplicationIds \ {b} : applications'[a].status \in {"canceled", applications[a].status}
      /\ applications'[b].opportunity = o /\ applications'[b].user = u
  BY <1>3, <1>4, <1>5 DEF Application
<1>7. opportunities'[o].project = p
  BY <1>3 DEF TypeOK, Opportunity
<1>8. QED BY <1>2, <1>6, <1>7, WinningStep DEF JoinedBy

LEMMA AcceptAwards ==
    ASSUME TypeOK, InvitesReferential, Award, LinkedToApplicant,
           NEW i \in InviteIds, NEW s \in InviteStatus, NEW source \in Sources, NEW u \in Users,
           AcceptInvite(i, s, source, u)
    PROVE  AwardsJoin
<1> DEFINE b == invites[i].application
           o == applications[b].opportunity
<1>1. CASE b # Null /\ SettleLinkedApplication(i, source)
  <2>1. b \in ApplicationIds /\ applications[b].status # "none" /\ o \in OpportunityIds
    BY <1>1, Linked
  <2>2. /\ applications[b].user = invites[i].user /\ applications[b].user \in Users
        /\ invites[i].project = opportunities[o].project
    BY <1>1, <2>1 DEF LinkedToApplicant
  <2>3. invites[i].user = u /\ JoinOnce(invites[i].project, u, invites[i].role)
    BY <2>2, NullAssumption DEF AcceptInvite, AcceptReads, AcceptWrites
  <2>4. PICK m \in MemberIds : /\ members'[m].status = "active"
                               /\ members'[m].project = invites[i].project
                               /\ members'[m].user = u
    BY <2>3, Joins, Remains DEF JoinOnce, JoinedBy
  <2>5. PICK t \in ApplicationStatus : applications' = [applications EXCEPT ![b].status = t]
    BY <1>1 DEF SettleLinkedApplication, ApplicationStatus
  <2>6. PICK z \in OpportunityStatus : opportunities' = [opportunities EXCEPT ![o].status = z]
    BY <1>1 DEF SettleLinkedApplication, OpportunityStatus
  <2> HIDE DEF b, o
  <2>7. /\ \A a \in ApplicationIds \ {b} : applications'[a] = applications[a]
        /\ applications'[b].opportunity = o /\ applications'[b].user = applications[b].user
    BY <2>1, <2>5 DEF TypeOK, Application, o
  <2>8. opportunities'[o].project = opportunities[o].project
    BY <2>6, <2>1 DEF TypeOK, Opportunity
  <2>9. QED BY <2>1, <2>2, <2>3, <2>4, <2>7, <2>8, WinningStep
<1>2. CASE CancelProjectWorkflow(invites[i].project, [invites EXCEPT ![i].status = s])
  <2>1. PICK ids : applications' = SetStatus(applications, ids, "canceled")
    BY <1>2 DEF CancelProjectWorkflow
  <2>2. \A a \in ApplicationIds : applications'[a].status \in {"canceled", applications[a].status}
    BY <2>1, SetStatusPoint DEF TypeOK, ApplicationStatus
  <2>3. QED BY <2>2 DEF AwardsJoin
<1>3. QED BY <1>1, <1>2 DEF AcceptInvite, AcceptWrites

LEMMA PromotionAwards ==
    ASSUME TypeOK, NEW m \in MemberIds, NEW role \in Roles, NEW primary \in BOOLEAN \cup {Null},
           NEW complete \in BOOLEAN, UpdateMember(m, role, primary, complete)
    PROVE  AwardsJoin
<1> DEFINE p == members[m].project
           u == members[m].user
           rs == {r \in RequestIds :
                 /\ requests[r].project = p
                 /\ requests[r].status \in OpenRequestStatus
                 /\ \E a \in ApplicationIds :
                      /\ applications[a].user = u
                      /\ applications[a].opportunity # Null
                      /\ opportunities[applications[a].opportunity].request = r}
           os == {o \in OpportunityIds : opportunities[o].request \in rs}
           apps == {a \in ApplicationIds : applications[a].opportunity \in os}
           own == {a \in apps : applications[a].user = u}
           others == OfOthers(apps, u)
<1>1. /\ members'[m].status = "active" /\ members'[m].project = p /\ members'[m].user = u
  BY DEF UpdateMember, TypeOK, Member
<1>2. CASE UNCHANGED applications
  BY <1>2 DEF AwardsJoin
<1>3. ASSUME CompleteCopilotRequests(p, u), NEW b \in own,
             applications' = [SetStatus(applications, others, "canceled")
                                 EXCEPT ![b].status = "accepted"]
      PROVE  AwardsJoin
  <2>1. /\ opportunities' = SetStatus(opportunities, os, "completed")
        /\ requests' = SetStatus(requests, rs, "fulfilled")
    BY <1>3 DEF CompleteCopilotRequests
  <2>2. /\ b \in ApplicationIds /\ applications[b].opportunity \in os /\ applications[b].user = u
    OBVIOUS
  <2>3. PICK o \in OpportunityIds : o = applications[b].opportunity
    BY <2>2
  <2>4. PICK r \in RequestIds : opportunities[o].request = r /\ requests[r].project = p
    BY <2>2, <2>3
  <2> HIDE DEF rs, os, apps, own, others
  <2>5. opportunities'[o].request = r /\ requests'[r].project = p
    BY <2>1, <2>4 DEF SetStatus, TypeOK, Opportunity, Request
  <2>6. SetStatus(applications, others, "canceled") \in [ApplicationIds -> Application]
    BY SetStatusApplications DEF TypeOK, ApplicationStatus
  <2>7. \A a \in ApplicationIds :
          /\ SetStatus(applications, others, "canceled")[a].opportunity = applications[a].opportunity
          /\ SetStatus(applications, others, "canceled")[a].user = applications[a].user
          /\ SetStatus(applications, others, "canceled")[a].status \in {"canceled", applications[a].status}
    BY SetStatusPoint DEF TypeOK, ApplicationStatus
  <2>8. /\ \A a \in ApplicationIds \ {b} :
             applications'[a].status \in {"canceled", applications[a].status}
        /\ applications'[b].opportunity = o /\ applications'[b].user = u
    BY <1>3, <2>2, <2>3, <2>6, <2>7 DEF Application
  <2>9. QED BY <1>1, <2>5, <2>8, WinningStep
<1>4. QED BY <1>2, <1>3 DEF UpdateMember, CompleteCopilotRequests

LEMMA AwardsNext ==
    ASSUME TypeOK, InvitesReferential, Award, LinkedToApplicant, [Next]_vars
    PROVE  AwardsJoin
<1>1. CASE UNCHANGED applications
  BY <1>1 DEF AwardsJoin
<1>2. ASSUME NEW ids, NEW s \in {"pending", "canceled"}, applications' = SetStatus(applications, ids, s)
      PROVE  AwardsJoin
  <2>1. \A a \in ApplicationIds : applications'[a].status \in {s, applications[a].status}
    BY <1>2, SetStatusPoint DEF TypeOK, ApplicationStatus
  <2>2. QED BY <2>1 DEF AwardsJoin
<1>3. CASE RequestNext
  BY <1>1, <1>3 DEF RequestNext, CreateRequest, CreateRequestWrites, ApproveWrites, UpdateRequest,
                    UpdateRequestWrites, ApproveRequest
<1>4. CASE OpportunityNext
  <2>1. ASSUME NEW o \in OpportunityIds, NEW u \in Users, ApplyToOpportunity(o, u) PROVE AwardsJoin
    <3>1. \A a \in ApplicationIds : applications'[a].status = "accepted" => applications[a].status = "accepted"
      BY <2>1 DEF ApplyToOpportunity, ApplyWrites, TypeOK
    <3>2. QED BY <3>1 DEF AwardsJoin
  <2>2. ASSUME NEW o \in OpportunityIds, CancelOpportunity(o) PROVE AwardsJoin
    BY <1>2, <2>2 DEF CancelOpportunity, CancelWrites
  <2>3. QED BY <1>4, <2>1, <2>2, AssignAwards DEF OpportunityNext
<1>5. CASE InviteNext
  <2>1. \A p, role, handles, emails, s :
          CreateInvites(p, role, handles, emails, s) => UNCHANGED applications
    BY DEF CreateInvites
  <2>2. ASSUME NEW i \in InviteIds, NEW s \in InviteStatus, DeclineInvite(i, s) PROVE AwardsJoin
    BY <1>1, <1>2, <2>2 DEF DeclineInvite, ReopenApplication
  <2>3. ASSUME NEW i \in InviteIds, DeleteInvite(i) PROVE AwardsJoin
    BY <1>1, <1>2, <2>3 DEF DeleteInvite, DeleteInviteWrites, ReopenApplication
  <2>4. ASSUME NEW o \in OpportunityIds, NEW a \in ApplicationIds, LinkInvite(o, a) PROVE AwardsJoin
    <3>1. applications' = [applications EXCEPT ![a].status = "invited"]
      BY <2>4 DEF LinkInvite
    <3>2. \A b \in ApplicationIds : applications'[b].status \in {"invited", applications[b].status}
      BY <3>1 DEF TypeOK, Application
    <3>3. QED BY <3>2 DEF AwardsJoin
  <2>5. QED BY <1>1, <1>5, <2>1, <2>2, <2>3, <2>4, AcceptAwards DEF InviteNext
<1>6. CASE MemberNext
  BY <1>1, <1>6, PromotionAwards DEF MemberNext, AddMember, AddMemberWrites, DeleteMember
<1>7. QED BY <1>1, <1>3, <1>4, <1>5, <1>6 DEF Next, DeleteProject, vars

\* Whoever wins an opportunity - by an assignment, a linked invite or a promotion - is a
\* member of its project, or of that of its request, when the application reads accepted.
THEOREM AwardedIsMemberCorrect == Spec => AwardedIsMember
<1>1. Init => LinkedToApplicant
  BY DEF Init, LinkedToApplicant, NoApplication, NoInvite
<1>2. TypeOK /\ InvitesReferential /\ Award /\ LinkedToApplicant /\ [Next]_vars =>
        [\A a \in ApplicationIds :
           applications[a].status # "accepted" /\ applications'[a].status = "accepted" =>
            \E o \in OpportunityIds, m \in MemberIds :
                /\ o = applications'[a].opportunity
                /\ members'[m].status = "active"
                /\ members'[m].user = applications'[a].user
                /\ \/ members'[m].project = opportunities'[o].project
                   \/ \E r \in RequestIds : /\ opportunities'[o].request = r
                                            /\ members'[m].project = requests'[r].project]_vars
  BY AwardsNext DEF AwardsJoin, WinnerJoined
<1>3. QED BY <1>1, <1>2, LinkedNext, TypeCorrect, AwardCorrect, PTL DEF Spec, AwardedIsMember

-----------------------------------------------------------------------------
(* Interleaved handlers.                                                   *)

\* Rows refer to rows that exist, a row that was never inserted to none, and an invite
\* that is linked to an application names its applicant and the project of its opportunity.
ApplicationsRefer ==
    \A a \in ApplicationIds :
        LET o == applications[a].opportunity
        IN  IF applications[a].status = "none" THEN o = Null
            ELSE /\ applications[a].user \in Users
                 /\ o \in OpportunityIds /\ opportunities[o].status # "none"

OpportunitiesRefer ==
    \A o \in OpportunityIds :
        LET r == opportunities[o].request
        IN  IF opportunities[o].status = "none" THEN r = Null
            ELSE r \in RequestIds /\ requests[r].status # "none"

LinksRefer ==
    \A i \in InviteIds :
        LET a == invites[i].application
        IN  a # Null => /\ applications[a].status # "none"
                        /\ invites[i].user = applications[a].user
                        /\ invites[i].project = opportunities[applications[a].opportunity].project

RowsRefer == ApplicationsRefer /\ OpportunitiesRefer /\ LinksRefer

\* What of a call's reads is still true when it writes, whatever other calls have written
\* since: rows it has seen are not taken back, and keep what they refer to.
Remembers(k) ==
    /\ k.op \in {"update", "approve"} => requests[k.request].status # "none"
    /\ k.op \in {"apply", "assign", "cancel"} => opportunities[k.opportunity].status # "none"
    /\ k.op = "cancel" => \A a \in k.listed : applications[a].status # "none"
    /\ k.op = "assign" =>
         /\ applications[k.application].status # "none"
         /\ applications[k.application].opportunity = k.opportunity
         /\ k.member # Null => /\ members[k.member].status # "none"
                               /\ members[k.member].project = opportunities[k.opportunity].project
                               /\ members[k.member].user = applications[k.application].user
    /\ k.op \in {"accept", "deleteInvite"} => invites[k.invite].status # "none"
    /\ k.op = "accept" /\ invites[k.invite].application # Null => invites[k.invite].user = k.user

\* The inductive invariant.
RacesInv ==
    /\ RacesTypeOK
    /\ RowsRefer
    /\ AwardedWasMember
    /\ \A s \in Slots : calls[s] # Idle => Remembers(calls[s])

\* u was made a member of project p.
Joined(p, u) ==
    \E m \in MemberIds :
        members[m].status # "none" /\ members[m].user = u /\ members[m].project = p

\* Application a may be accepted.
Won(a) ==
    LET o == applications[a].opportunity
        u == applications[a].user
    IN  \/ Joined(opportunities[o].project, u)
        \/ \E r \in RequestIds : r = opportunities[o].request /\ Joined(requests[r].project, u)

LEMMA WonIsWon ==
    AwardedWasMember <=> \A a \in ApplicationIds : applications[a].status = "accepted" => Won(a)
BY DEF AwardedWasMember, Won, Joined

-----------------------------------------------------------------------------
\* How the tables grow: what was inserted stays and keeps what it refers to.
RequestsGrow ==
    \A r \in RequestIds : requests[r].status # "none" =>
        requests'[r].status # "none" /\ requests'[r].project = requests[r].project

OpportunitiesGrow ==
    \A o \in OpportunityIds : opportunities[o].status # "none" =>
        /\ opportunities'[o].status # "none"
        /\ opportunities'[o].project = opportunities[o].project
        /\ opportunities'[o].request = opportunities[o].request

ApplicationsGrow ==
    \A a \in ApplicationIds : applications[a].status # "none" =>
        /\ applications'[a].status # "none"
        /\ applications'[a].opportunity = applications[a].opportunity
        /\ applications'[a].user = applications[a].user

MembersGrow ==
    \A m \in MemberIds : members[m].status # "none" =>
        /\ members'[m].status # "none"
        /\ members'[m].project = members[m].project
        /\ members'[m].user = members[m].user

InvitesGrow ==
    \A i \in InviteIds : invites[i].status # "none" =>
        /\ invites'[i].status # "none"
        /\ invites'[i].application # Null =>
              invites'[i].application = invites[i].application /\ invites'[i].user = invites[i].user

Grows == RequestsGrow /\ OpportunitiesGrow /\ ApplicationsGrow /\ MembersGrow /\ InvitesGrow

\* No row is inserted, either.
SameOpportunities ==
    \A o \in OpportunityIds :
        /\ opportunities'[o].status = "none" <=> opportunities[o].status = "none"
        /\ opportunities'[o].project = opportunities[o].project
        /\ opportunities'[o].request = opportunities[o].request

SameRows(rows) ==
    \A a \in ApplicationIds :
        /\ rows[a].status = "none" <=> applications[a].status = "none"
        /\ rows[a].opportunity = applications[a].opportunity
        /\ rows[a].user = applications[a].user

LEMMA SameGrow ==
    /\ SameOpportunities => OpportunitiesGrow
    /\ SameRows(applications') => ApplicationsGrow
BY DEF SameOpportunities, OpportunitiesGrow, SameRows, ApplicationsGrow

LEMMA Unchanging ==
    /\ UNCHANGED requests => RequestsGrow
    /\ UNCHANGED opportunities => SameOpportunities
    /\ UNCHANGED applications => SameRows(applications')
    /\ UNCHANGED members => MembersGrow
    /\ UNCHANGED invites => InvitesGrow /\ KeepsLinks
BY DEF RequestsGrow, SameOpportunities, SameRows, MembersGrow, InvitesGrow, KeepsLinks

\* What a call remembers stays true.
LEMMA MemoryStays ==
    ASSUME TypeOK, RowsRefer, Grows, NEW k \in Call, Remembers(k)
    PROVE  Remembers(k)'
<1>1. CASE k.op \in {"create", "update", "approve", "addMember"}
  BY <1>1 DEF Call, Remembers, Grows, RequestsGrow
<1>2. CASE k.op \in {"apply", "cancel"}
  BY <1>2 DEF Call, Remembers, Grows, OpportunitiesGrow, ApplicationsGrow
<1>3. CASE k.op = "assign"
  <2>1. /\ k.opportunity \in OpportunityIds /\ k.application \in ApplicationIds
        /\ k.member \in MemberIds \cup {Null}
    BY <1>3 DEF Call
  <2>2. QED BY <1>3, <2>1 DEF Remembers, Grows, OpportunitiesGrow, ApplicationsGrow, MembersGrow
<1>4. CASE k.op \in {"accept", "deleteInvite"}
  <2>1. k.invite \in InviteIds
    BY <1>4 DEF Call
  <2>2. QED BY <1>4, <2>1 DEF Remembers, Grows, InvitesGrow
<1>5. QED BY <1>1, <1>2, <1>3, <1>4 DEF Call

\* A winner stays one.
LEMMA WinnersStay ==
    ASSUME TypeOK, RowsRefer, Grows, NEW a \in ApplicationIds, applications[a].status # "none", Won(a)
    PROVE  Won(a)'
<1> DEFINE o == applications[a].opportunity
           u == applications[a].user
<1>1. /\ o \in OpportunityIds /\ opportunities[o].status # "none"
      /\ applications'[a].opportunity = o /\ applications'[a].user = u
  BY DEF RowsRefer, ApplicationsRefer, Grows, ApplicationsGrow
<1>2. /\ opportunities'[o].project = opportunities[o].project
      /\ opportunities'[o].request = opportunities[o].request
      /\ opportunities[o].request \in RequestIds
      /\ requests'[opportunities[o].request].project = requests[opportunities[o].request].project
  BY <1>1 DEF RowsRefer, OpportunitiesRefer, Grows, OpportunitiesGrow, RequestsGrow
<1>3. PICK m \in MemberIds :
        /\ members[m].status # "none" /\ members[m].user = u
        /\ \/ members[m].project = opportunities[o].project
           \/ members[m].project = requests[opportunities[o].request].project
  BY DEF Won, Joined
<1>4. /\ members'[m].status # "none" /\ members'[m].user = u
      /\ members'[m].project = members[m].project
  BY <1>3 DEF Grows, MembersGrow
<1>5. QED BY <1>1, <1>2, <1>3, <1>4 DEF Won, Joined

LEMMA NewWinners ==
    ASSUME TypeOK, RowsRefer, AwardedWasMember, Grows,
           \A a \in ApplicationIds :
             applications'[a].status = "accepted" => applications[a].status = "accepted" \/ Won(a)'
    PROVE  AwardedWasMember'
<1>1. ASSUME NEW a \in ApplicationIds, applications'[a].status = "accepted" PROVE Won(a)'
  BY <1>1, WonIsWon, WinnersStay
<1>2. QED BY <1>1 DEF AwardedWasMember, Won, Joined

\* A step that inserts no application and no opportunity, and links no invite.
LEMMA SameRefer ==
    ASSUME TypeOK, RowsRefer, RequestsGrow, SameOpportunities, SameRows(applications'), KeepsLinks
    PROVE  RowsRefer'
<1>1. ApplicationsRefer'
  BY DEF RowsRefer, ApplicationsRefer, SameRows, SameOpportunities
<1>2. OpportunitiesRefer'
  BY DEF RowsRefer, OpportunitiesRefer, RequestsGrow, SameOpportunities
<1>3. LinksRefer'
  <2> SUFFICES ASSUME NEW i \in InviteIds, invites'[i].application # Null
               PROVE  LET a == invites'[i].application
                      IN  /\ applications'[a].status # "none"
                          /\ invites'[i].user = applications'[a].user
                          /\ invites'[i].project = opportunities'[applications'[a].opportunity].project
    BY DEF LinksRefer
  <2> DEFINE a == invites[i].application
  <2>1. /\ invites'[i].application = a /\ a # Null
        /\ invites'[i].user = invites[i].user /\ invites'[i].project = invites[i].project
    BY DEF KeepsLinks
  <2>2. /\ a \in ApplicationIds /\ applications[a].status # "none"
        /\ invites[i].user = applications[a].user
        /\ invites[i].project = opportunities[applications[a].opportunity].project
    BY <2>1 DEF RowsRefer, LinksRefer, TypeOK, Invite
  <2>3. applications[a].opportunity \in OpportunityIds
    BY <2>2 DEF RowsRefer, ApplicationsRefer
  <2>4. QED BY <2>1, <2>2, <2>3 DEF SameRows, SameOpportunities
<1>4. QED BY <1>1, <1>2, <1>3 DEF RowsRefer

-----------------------------------------------------------------------------
(* What the statements of the handlers do to one table.                    *)

LEMMA SetRows ==
    ASSUME TypeOK, NEW ids, NEW s \in ApplicationStatus,
           \A a \in ids : a \in ApplicationIds => applications[a].status # "none"
    PROVE  /\ SetStatus(applications, ids, s) \in [ApplicationIds -> Application]
           /\ SameRows(SetStatus(applications, ids, s))
<1>1. s # "none"
  BY DEF ApplicationStatus
<1>2. QED BY <1>1, SetStatusApplications, SetStatusPoint DEF TypeOK, SameRows

LEMMA SetRow ==
    ASSUME NEW rows \in [ApplicationIds -> Application], SameRows(rows),
           NEW b \in ApplicationIds, applications[b].status # "none", NEW s \in ApplicationStatus
    PROVE  /\ [rows EXCEPT ![b].status = s] \in [ApplicationIds -> Application]
           /\ SameRows([rows EXCEPT ![b].status = s])
           /\ \A a \in ApplicationIds \ {b} : [rows EXCEPT ![b].status = s][a] = rows[a]
           /\ [rows EXCEPT ![b].status = s][b].status = s
BY DEF SameRows, Application, ApplicationStatus

LEMMA SetRequests ==
    ASSUME TypeOK, NEW ids, NEW s \in RequestStatus, requests' = SetStatus(requests, ids, s)
    PROVE  RequestsGrow /\ requests' \in [RequestIds -> Request]
BY DEF TypeOK, Request, SetStatus, RequestsGrow, RequestStatus

LEMMA SetOpportunities ==
    ASSUME TypeOK, NEW ids, NEW s \in OpportunityStatus,
           \A o \in ids : o \in OpportunityIds => opportunities[o].status # "none",
           opportunities' = SetStatus(opportunities, ids, s)
    PROVE  SameOpportunities /\ opportunities' \in [OpportunityIds -> Opportunity]
BY DEF TypeOK, Opportunity, SetStatus, SameOpportunities, OpportunityStatus

LEMMA SetOpportunity ==
    ASSUME TypeOK, NEW o \in OpportunityIds, opportunities[o].status # "none", NEW s \in OpportunityStatus,
           opportunities' = [opportunities EXCEPT ![o].status = s]
    PROVE  SameOpportunities /\ opportunities' \in [OpportunityIds -> Opportunity]
BY DEF TypeOK, Opportunity, SameOpportunities, OpportunityStatus

LEMMA SetInvites ==
    ASSUME TypeOK, NEW rows \in [InviteIds -> Invite], NEW ids, NEW s \in InviteStatus,
           \A i \in InviteIds : /\ rows[i].application = invites[i].application
                                /\ rows[i].user = invites[i].user
                                /\ rows[i].project = invites[i].project
                                /\ invites[i].status # "none" => rows[i].status # "none",
           invites' = SetStatus(rows, ids, s)
    PROVE  InvitesGrow /\ KeepsLinks /\ invites' \in [InviteIds -> Invite]
BY DEF Invite, SetStatus, InvitesGrow, KeepsLinks, InviteStatus

LEMMA SetInvite ==
    ASSUME TypeOK, NEW i \in InviteIds, NEW s \in InviteStatus
    PROVE  LET after == [invites EXCEPT ![i].status = s]
           IN  /\ after \in [InviteIds -> Invite]
               /\ \A j \in InviteIds : /\ after[j].application = invites[j].application
                                       /\ after[j].user = invites[j].user
                                       /\ after[j].project = invites[j].project
                                       /\ invites[j].status # "none" => after[j].status # "none"
               /\ invites' = after => InvitesGrow /\ KeepsLinks
BY DEF TypeOK, Invite, InvitesGrow, KeepsLinks, InviteStatus

LEMMA InsertMember ==
    ASSUME TypeOK, NEW p \in Projects \cup {Null}, NEW u \in Users \cup {Null},
           NEW role \in Roles \cup {Null}, CreateMember(p, u, role)
    PROVE  MembersGrow /\ members' \in [MemberIds -> Member] /\ Joined(p, u)'
BY DEF TypeOK, CreateMember, Fresh, Member, MembersGrow, Joined

-----------------------------------------------------------------------------
(* The writes of every handler, whenever they are made.                    *)

\* The rows after a step: typed, referring to rows, grown, and with winners who joined.
Sound == TypeOK' /\ RowsRefer' /\ Grows /\ AwardedWasMember'

LEMMA SoundStep ==
    ASSUME TypeOK, RowsRefer, AwardedWasMember, TypeOK',
           RequestsGrow, SameOpportunities, SameRows(applications'), MembersGrow, InvitesGrow, KeepsLinks,
           \A a \in ApplicationIds :
             applications'[a].status = "accepted" => applications[a].status = "accepted" \/ Won(a)'
    PROVE  Sound
<1>1. Grows
  BY SameGrow DEF Grows
<1>2. QED BY <1>1, SameRefer, NewWinners DEF Sound

\* approveRequestInternal: the request is new, or keeps its project.
LEMMA ApproveSound ==
    ASSUME TypeOK, RowsRefer, AwardedWasMember,
           NEW p \in Projects, NEW r \in RequestIds, NEW req \in Request, NEW t \in Types,
           requests[r].status # "none" => req.project = requests[r].project,
           ApproveWrites(p, r, req, t)
    PROVE  Sound
<1>1. PICK o \in OpportunityIds :
        /\ opportunities[o].status = "none"
        /\ opportunities' = [opportunities EXCEPT ![o] =
                [status |-> "active", request |-> r, project |-> p, type |-> t]]
  BY DEF ApproveWrites, Fresh, TypeOK
<1>2. /\ requests' = [requests EXCEPT ![r] = [req EXCEPT !.status = "approved"]]
      /\ UNCHANGED <<projects, applications, members, invites>>
  BY DEF ApproveWrites
<1>3. TypeOK'
  BY <1>2, ApproveWritesType DEF TypeOK
<1>4. RequestsGrow /\ requests'[r].status # "none"
  BY <1>2 DEF TypeOK, RequestsGrow, Request
<1>5. /\ \A q \in OpportunityIds \ {o} : opportunities'[q] = opportunities[q]
      /\ opportunities'[o].status # "none" /\ opportunities'[o].request = r
  BY <1>1 DEF TypeOK
<1>6. Grows
  BY <1>1, <1>2, <1>4, <1>5, Unchanging, SameGrow DEF Grows, OpportunitiesGrow
<1>7. ApplicationsRefer'
  BY <1>2, <1>5 DEF RowsRefer, ApplicationsRefer
<1>8. OpportunitiesRefer'
  BY <1>4, <1>5 DEF RowsRefer, OpportunitiesRefer, RequestsGrow
<1>9. LinksRefer'
  <2> SUFFICES ASSUME NEW i \in InviteIds, invites[i].application # Null
               PROVE  LET a == invites[i].application
                      IN  /\ applications[a].status # "none"
                          /\ invites[i].user = applications[a].user
                          /\ invites[i].project = opportunities'[applications[a].opportunity].project
    BY <1>2 DEF LinksRefer
  <2> DEFINE a == invites[i].application
  <2>1. /\ a \in ApplicationIds /\ applications[a].status # "none"
        /\ invites[i].user = applications[a].user
        /\ invites[i].project = opportunities[applications[a].opportunity].project
    BY DEF RowsRefer, LinksRefer, TypeOK, Invite
  <2>2. /\ applications[a].opportunity \in OpportunityIds
        /\ opportunities[applications[a].opportunity].status # "none"
    BY <2>1 DEF RowsRefer, ApplicationsRefer
  <2>3. QED BY <2>1, <2>2, <1>1, <1>5
<1>10. QED BY <1>2, <1>3, <1>6, <1>7, <1>8, <1>9, NewWinners DEF Sound, RowsRefer

LEMMA CreateSound ==
    ASSUME TypeOK, RowsRefer, AwardedWasMember, NEW p \in Projects, NEW t \in Types,
           CreateRequestWrites(p, t)
    PROVE  Sound
<1> DEFINE req == [status |-> "new", project |-> p, type |-> t]
<1>1. PICK r \in Fresh(requests) : ApproveWrites(p, r, req, t)
  BY DEF CreateRequestWrites, ApproveWrites
<1>2. r \in RequestIds /\ requests[r].status = "none"
  BY FreshRow DEF TypeOK
<1>3. req \in Request
  BY DEF Request, RequestStatus
<1> HIDE DEF req
<1>4. QED BY <1>1, <1>2, <1>3, ApproveSound

LEMMA UpdateRequestSound ==
    ASSUME TypeOK, RowsRefer, AwardedWasMember, NEW r \in RequestIds, NEW t \in Types,
           UpdateRequestWrites(r, t)
    PROVE  Sound
<1>1. TypeOK'
  BY DEF UpdateRequestWrites, TypeOK, Request, Opportunity
<1>2. RequestsGrow /\ SameOpportunities
  BY DEF UpdateRequestWrites, TypeOK, Request, Opportunity, RequestsGrow, SameOpportunities
<1>3. UNCHANGED <<applications, members, invites>>
  BY DEF UpdateRequestWrites
<1>4. QED BY <1>1, <1>2, <1>3, Unchanging, SoundStep

LEMMA ApplySound ==
    ASSUME TypeOK, RowsRefer, AwardedWasMember, NEW o \in OpportunityIds, NEW u \in Users,
           opportunities[o].status # "none", ApplyWrites(o, u)
    PROVE  Sound
<1>1. PICK b \in ApplicationIds :
        /\ applications[b].status = "none"
        /\ applications' = [applications EXCEPT ![b] =
                [status |-> "pending", opportunity |-> o, user |-> u]]
  BY DEF ApplyWrites, Fresh, TypeOK
<1>2. UNCHANGED <<projects, requests, opportunities, members, invites>>
  BY DEF ApplyWrites
<1>3. TypeOK'
  BY <1>1, <1>2 DEF TypeOK, Application, ApplicationStatus
<1>4. /\ \A a \in ApplicationIds \ {b} : applications'[a] = applications[a]
      /\ applications'[b] = [status |-> "pending", opportunity |-> o, user |-> u]
  BY <1>1 DEF TypeOK
<1>5. Grows
  BY <1>1, <1>2, <1>4, Unchanging, SameGrow DEF Grows, ApplicationsGrow
<1>6. ApplicationsRefer'
  BY <1>2, <1>4 DEF RowsRefer, ApplicationsRefer
<1>7. OpportunitiesRefer'
  BY <1>2 DEF RowsRefer, OpportunitiesRefer
<1>8. LinksRefer'
  <2>1. \A i \in InviteIds : invites[i].application # Null =>
          invites[i].application \in ApplicationIds \ {b}
    BY <1>1 DEF RowsRefer, LinksRefer, TypeOK, Invite
  <2>2. QED BY <1>2, <1>4, <2>1 DEF RowsRefer, LinksRefer
<1>9. \A a \in ApplicationIds :
        applications'[a].status = "accepted" => applications[a].status = "accepted"
  BY <1>4
<1>10. QED BY <1>3, <1>5, <1>6, <1>7, <1>8, <1>9, NewWinners DEF Sound, RowsRefer

LEMMA PromoteMember ==
    ASSUME TypeOK, NEW m \in MemberIds, members[m].status # "none",
           members' = members \/ members' = [members EXCEPT ![m].role = "copilot"]
    PROVE  /\ MembersGrow /\ members' \in [MemberIds -> Member]
           /\ members'[m].status = members[m].status
           /\ members'[m].user = members[m].user /\ members'[m].project = members[m].project
<1>1. CASE members' = members
  BY <1>1 DEF TypeOK, MembersGrow
<1>2. CASE members' = [members EXCEPT ![m].role = "copilot"]
  <2>1. members' \in [MemberIds -> Member]
    BY <1>2, RolesAssumption DEF TypeOK, Member
  <2>2. \A n \in MemberIds : /\ members'[n].status = members[n].status
                             /\ members'[n].user = members[n].user
                             /\ members'[n].project = members[n].project
    BY <1>2 DEF TypeOK, Member
  <2>3. QED BY <2>1, <2>2 DEF MembersGrow
<1>3. QED BY <1>1, <1>2

\* assignCopilot, with the member row it has found, or none.
LEMMA AssignSound ==
    ASSUME TypeOK, RowsRefer, AwardedWasMember,
           NEW o \in OpportunityIds, NEW b \in ApplicationIds,
           NEW m \in MemberIds \cup {Null}, NEW role \in Roles \cup {Null},
           opportunities[o].status # "none", applications[b].status # "none",
           applications[b].opportunity = o,
           m # Null => /\ members[m].status # "none"
                       /\ members[m].project = opportunities[o].project
                       /\ members[m].user = applications[b].user,
           AssignWrites(o, b, m, role)
    PROVE  Sound
<1> DEFINE p == opportunities[o].project
           u == applications[b].user
           lost == ApplicationsOf(o)
           rest == SetStatus(applications, lost, "canceled")
<1>1. /\ UpsertCopilot(p, u, m, role)
      /\ applications' = [rest EXCEPT ![b].status = "accepted"]
      /\ opportunities' = [opportunities EXCEPT ![o].status = "completed"]
      /\ requests' = SetStatus(requests, {opportunities[o].request}, "fulfilled")
      /\ UNCHANGED <<projects, invites>>
  BY DEF AssignWrites, AcceptCancelingOthers
<1>2. p \in Projects \cup {Null} /\ u \in Users \cup {Null}
  BY DEF TypeOK, Opportunity, Application
<1>3. MembersGrow /\ members' \in [MemberIds -> Member] /\ Joined(p, u)'
  <2>1. CASE m = Null
    <3>1. CreateMember(p, u, "copilot")
      BY <1>1, <2>1 DEF UpsertCopilot
    <3>2. /\ MembersGrow /\ members' \in [MemberIds -> Member]
          /\ \E n \in MemberIds : /\ members'[n].status # "none" /\ members'[n].user = u
                                  /\ members'[n].project = p
      BY <1>2, <3>1, RolesAssumption DEF TypeOK, CreateMember, Fresh, Member, MembersGrow
    <3>3. p' = p /\ u' = u
      BY <1>1, SetRows, SetRow DEF TypeOK, Opportunity, Application, SetStatus
    <3>4. QED BY <3>2, <3>3 DEF Joined
  <2>2. CASE m # Null
    <3>1. members' = members \/ members' = [members EXCEPT ![m].role = "copilot"]
      BY <1>1, <2>2 DEF UpsertCopilot
    <3>2. m \in MemberIds
      BY <2>2
    <3>3. /\ MembersGrow /\ members' \in [MemberIds -> Member]
          /\ members'[m].status # "none" /\ members'[m].user = u /\ members'[m].project = p
      BY <3>1, <3>2, <2>2, PromoteMember
    <3>4. p' = p /\ u' = u
      BY <1>1, SetRows, SetRow DEF TypeOK, Opportunity, Application, SetStatus
    <3>5. QED BY <3>2, <3>3, <3>4 DEF Joined
  <2>3. QED BY <2>1, <2>2
<1>4. \A a \in lost : a \in ApplicationIds /\ applications[a].status # "none"
  BY NullAssumption DEF ApplicationsOf, RowsRefer, ApplicationsRefer, OpportunityIds
<1> HIDE DEF lost
<1>5. rest \in [ApplicationIds -> Application] /\ SameRows(rest)
  BY <1>4, SetRows DEF ApplicationStatus
<1>a. \A a \in ApplicationIds : rest[a].status \in {"canceled", applications[a].status}
  BY SetStatusPoint DEF TypeOK, ApplicationStatus
<1> HIDE DEF rest
<1>6. /\ applications' \in [ApplicationIds -> Application] /\ SameRows(applications')
      /\ \A a \in ApplicationIds \ {b} : applications'[a] = rest[a]
  <2>1. "accepted" \in ApplicationStatus
    BY DEF ApplicationStatus
  <2> DEFINE after == [rest EXCEPT ![b].status = "accepted"]
  <2>2. /\ after \in [ApplicationIds -> Application] /\ SameRows(after)
        /\ \A a \in ApplicationIds \ {b} : after[a] = rest[a]
    BY <1>5, <2>1, SetRow
  <2>3. applications' = after
    BY <1>1
  <2> HIDE DEF after
  <2>4. QED BY <2>2, <2>3
<1>7. SameOpportunities /\ opportunities' \in [OpportunityIds -> Opportunity]
  BY <1>1, SetOpportunity DEF OpportunityStatus
<1>8. RequestsGrow /\ requests' \in [RequestIds -> Request]
  BY <1>1, SetRequests DEF RequestStatus
<1>9. Won(b)'
  <2>1. applications'[b].opportunity = o
    BY <1>6 DEF SameRows
  <2>2. QED BY <1>3, <2>1 DEF Won
<1>10. \A a \in ApplicationIds : applications'[a].status = "accepted" =>
         applications[a].status = "accepted" \/ Won(a)'
  <2>1. \A a \in ApplicationIds \ {b} : applications'[a].status \in {"canceled", applications[a].status}
    BY <1>6, <1>a
  <2>2. QED BY <1>9, <2>1
<1>11. TypeOK'
  BY <1>1, <1>3, <1>6, <1>7, <1>8 DEF TypeOK
<1>12. QED BY <1>1, <1>3, <1>6, <1>7, <1>8, <1>10, <1>11, Unchanging, SoundStep

\* cancelOpportunity, with the applications it has listed.
LEMMA CancelSound ==
    ASSUME TypeOK, RowsRefer, AwardedWasMember,
           NEW o \in OpportunityIds, opportunities[o].status # "none",
           NEW listed, \A a \in listed : a \in ApplicationIds /\ applications[a].status # "none",
           CancelWrites(o, listed)
    PROVE  Sound
<1>1. /\ applications' = SetStatus(applications, listed, "canceled")
      /\ opportunities' = [opportunities EXCEPT ![o].status = "canceled"]
      /\ UNCHANGED <<projects, requests, members, invites>>
  BY DEF CancelWrites
<1>2. applications' \in [ApplicationIds -> Application] /\ SameRows(applications')
  <2> DEFINE after == SetStatus(applications, listed, "canceled")
  <2>1. after \in [ApplicationIds -> Application] /\ SameRows(after)
    BY SetRows DEF ApplicationStatus
  <2>2. applications' = after
    BY <1>1
  <2> HIDE DEF after
  <2>3. QED BY <2>1, <2>2
<1>3. SameOpportunities /\ opportunities' \in [OpportunityIds -> Opportunity]
  BY <1>1, SetOpportunity DEF OpportunityStatus
<1>4. \A a \in ApplicationIds :
        applications'[a].status = "accepted" => applications[a].status = "accepted"
  BY <1>1, SetStatusPoint DEF TypeOK, ApplicationStatus
<1>5. TypeOK'
  BY <1>1, <1>2, <1>3 DEF TypeOK
<1>6. QED BY <1>1, <1>2, <1>3, <1>4, <1>5, Unchanging, SoundStep

\* Whoever accepts is a member then, or was one.
LEMMA JoinsOnce ==
    ASSUME TypeOK, NEW p \in Projects \cup {Null}, NEW u \in Users,
           NEW role \in Roles \cup {Null}, JoinOnce(p, u, role)
    PROVE  MembersGrow /\ members' \in [MemberIds -> Member] /\ Joined(p, u)'
<1>1. CASE MembersOf(p, u) = {}
  BY <1>1, InsertMember DEF JoinOnce
<1>2. CASE MembersOf(p, u) # {}
  <2>1. UNCHANGED members
    BY <1>2 DEF JoinOnce
  <2>2. \E m \in MemberIds :
          members[m].status # "none" /\ members[m].user = u /\ members[m].project = p
    BY <1>2 DEF MembersOf
  <2>3. QED BY <2>1, <2>2, Unchanging DEF TypeOK, Joined
<1>3. QED BY <1>1, <1>2

\* updateInvite to an accepted status, with an invite that is linked.
LEMMA AcceptLinkedSound ==
    ASSUME TypeOK, RowsRefer, AwardedWasMember,
           NEW i \in InviteIds, NEW status \in InviteStatus, NEW source, NEW u \in Users,
           invites[i].application # Null, invites[i].user = u,
           JoinOnce(invites[i].project, u, invites[i].role),
           SettleLinkedApplication(i, source),
           invites' = [invites EXCEPT ![i].status = status], UNCHANGED projects
    PROVE  Sound
<1> DEFINE b == invites[i].application
           o == applications[b].opportunity
           p == invites[i].project
<1>1. PICK s \in {"accepted", "canceled"}, t \in {"completed", "canceled"},
           w \in {"fulfilled", "canceled"} :
        /\ applications' = [applications EXCEPT ![b].status = s]
        /\ opportunities' = [opportunities EXCEPT ![o].status = t]
        /\ requests' = SetStatus(requests, {opportunities[o].request}, w)
  BY DEF SettleLinkedApplication
<1>2. /\ b \in ApplicationIds /\ applications[b].status # "none"
      /\ u = applications[b].user /\ p = opportunities[o].project
  BY DEF RowsRefer, LinksRefer, TypeOK, Invite
<1>3. o \in OpportunityIds /\ opportunities[o].status # "none"
  BY <1>2 DEF RowsRefer, ApplicationsRefer
<1>4. p \in Projects \cup {Null} /\ invites[i].role \in Roles \cup {Null}
  BY DEF TypeOK, Invite
<1>5. MembersGrow /\ members' \in [MemberIds -> Member]
  BY <1>4, JoinsOnce
<1>6. \E m \in MemberIds : /\ members'[m].status # "none" /\ members'[m].user = u
                           /\ members'[m].project = p
  BY <1>4, JoinsOnce DEF Joined
<1>7. /\ applications' \in [ApplicationIds -> Application] /\ SameRows(applications')
      /\ \A a \in ApplicationIds \ {b} : applications'[a] = applications[a]
  <2>1. s \in ApplicationStatus /\ SameRows(applications) /\ applications \in [ApplicationIds -> Application]
    BY DEF ApplicationStatus, SameRows, TypeOK
  <2> DEFINE after == [applications EXCEPT ![b].status = s]
  <2>2. /\ after \in [ApplicationIds -> Application] /\ SameRows(after)
        /\ \A a \in ApplicationIds \ {b} : after[a] = applications[a]
    BY <1>2, <2>1, SetRow
  <2>3. applications' = after
    BY <1>1
  <2> HIDE DEF after
  <2>4. QED BY <2>2, <2>3
<1>8. SameOpportunities /\ opportunities' \in [OpportunityIds -> Opportunity]
  <2>1. t \in OpportunityStatus
    BY DEF OpportunityStatus
  <2>2. QED BY <1>1, <1>3, <2>1, SetOpportunity
<1>9. RequestsGrow /\ requests' \in [RequestIds -> Request]
  <2>1. w \in RequestStatus
    BY DEF RequestStatus
  <2>2. QED BY <1>1, <2>1, SetRequests
<1>10. /\ InvitesGrow /\ KeepsLinks /\ invites' \in [InviteIds -> Invite]
  BY SetInvite
<1>11. Won(b)'
  <2>1. applications'[b].opportunity = o /\ applications'[b].user = u
    BY <1>2, <1>7 DEF SameRows
  <2>2. opportunities'[o].project = p
    BY <1>2, <1>3, <1>8 DEF SameOpportunities
  <2>3. invites'[i].application = b
    BY DEF TypeOK, Invite
  <2>4. QED BY <1>6, <2>1, <2>2, <2>3 DEF Won, Joined
<1>12. TypeOK'
  BY <1>5, <1>7, <1>8, <1>9, <1>10 DEF TypeOK
<1>13. \A a \in ApplicationIds : applications'[a].status = "accepted" =>
         applications[a].status = "accepted" \/ Won(a)'
  <2>1. TAKE a \in ApplicationIds
  <2>2. CASE a = b
    <3>1. invites'[i].application = b
      BY DEF TypeOK, Invite
    <3>2. QED BY <1>11, <2>2, <3>1
  <2>3. CASE a # b
    BY <1>7, <2>3
  <2>4. QED BY <2>2, <2>3
<1>14. QED BY <1>5, <1>7, <1>8, <1>9, <1>10, <1>12, <1>13, SoundStep

\* ... and with any other.
LEMMA AcceptUnlinkedSound ==
    ASSUME TypeOK, RowsRefer, AwardedWasMember,
           NEW i \in InviteIds, NEW status \in InviteStatus, NEW u \in Users,
           JoinOnce(invites[i].project, u, invites[i].role),
           CancelProjectWorkflow(invites[i].project, [invites EXCEPT ![i].status = status]),
           UNCHANGED projects
    PROVE  Sound
<1> DEFINE p == invites[i].project
           after == [invites EXCEPT ![i].status = status]
           rs == {r \in RequestIds : requests[r].status # "none" /\ requests[r].project = p}
           os == {o \in OpportunityIds : opportunities[o].request \in rs}
           apps == {a \in ApplicationIds : applications[a].opportunity \in os}
           open == {j \in InviteIds : /\ after[j].application \in apps
                                      /\ after[j].status \in OpenInviteStatus}
<1>1. /\ requests' = SetStatus(requests, rs, "canceled")
      /\ opportunities' = SetStatus(opportunities, os, "canceled")
      /\ applications' = SetStatus(applications, apps, "canceled")
      /\ invites' = SetStatus(after, open, "canceled")
  BY DEF CancelProjectWorkflow
<1>2. \A o \in os : o \in OpportunityIds /\ opportunities[o].status # "none"
  BY NullAssumption DEF RowsRefer, OpportunitiesRefer, RequestIds
<1>3. \A a \in apps : a \in ApplicationIds /\ applications[a].status # "none"
  BY NullAssumption DEF RowsRefer, ApplicationsRefer, OpportunityIds
<1>4. p \in Projects \cup {Null} /\ invites[i].role \in Roles \cup {Null}
  BY DEF TypeOK, Invite
<1>5. MembersGrow /\ members' \in [MemberIds -> Member]
  BY <1>4, JoinsOnce
<1>6. /\ after \in [InviteIds -> Invite]
      /\ \A j \in InviteIds : /\ after[j].application = invites[j].application
                              /\ after[j].user = invites[j].user
                              /\ after[j].project = invites[j].project
                              /\ invites[j].status # "none" => after[j].status # "none"
  BY SetInvite
<1> HIDE DEF rs, os, apps, open, after
<1>7. InvitesGrow /\ KeepsLinks /\ invites' \in [InviteIds -> Invite]
  BY <1>1, <1>6, SetInvites DEF InviteStatus
<1>8. RequestsGrow /\ requests' \in [RequestIds -> Request]
  BY <1>1, SetRequests DEF RequestStatus
<1>9. SameOpportunities /\ opportunities' \in [OpportunityIds -> Opportunity]
  BY <1>1, <1>2, SetOpportunities DEF OpportunityStatus
<1>10. applications' \in [ApplicationIds -> Application] /\ SameRows(applications')
  <2> DEFINE left == SetStatus(applications, apps, "canceled")
  <2>1. left \in [ApplicationIds -> Application] /\ SameRows(left)
    BY <1>3, SetRows DEF ApplicationStatus
  <2>2. applications' = left
    BY <1>1
  <2> HIDE DEF left
  <2>3. QED BY <2>1, <2>2
<1>11. \A a \in ApplicationIds :
        applications'[a].status = "accepted" => applications[a].status = "accepted"
  BY <1>1, SetStatusPoint DEF TypeOK, ApplicationStatus
<1>12. TypeOK'
  BY <1>5, <1>7, <1>8, <1>9, <1>10 DEF TypeOK
<1>13. QED BY <1>5, <1>7, <1>8, <1>9, <1>10, <1>11, <1>12, SoundStep

LEMMA AcceptSound ==
    ASSUME TypeOK, RowsRefer, AwardedWasMember,
           NEW i \in InviteIds, NEW status \in InviteStatus, NEW source, NEW u \in Users,
           invites[i].application # Null => invites[i].user = u,
           AcceptWrites(i, status, source, u)
    PROVE  Sound
BY AcceptLinkedSound, AcceptUnlinkedSound DEF AcceptWrites

\* What the decline and the withdrawal of an invite do to the applications.
LEMMA Reopened ==
    ASSUME TypeOK, RowsRefer, NEW i \in InviteIds, NEW after,
           \/ UNCHANGED applications
           \/ invites[i].application # Null /\ applications' = ReopenApplication(invites[i].application, after)
    PROVE  /\ applications' \in [ApplicationIds -> Application] /\ SameRows(applications')
           /\ \A a \in ApplicationIds :
                applications'[a].status = "accepted" => applications[a].status = "accepted"
<1> DEFINE b == invites[i].application
           left == SetStatus(applications, {b}, "pending")
<1>1. CASE UNCHANGED applications
  BY <1>1 DEF TypeOK, SameRows
<1>2. CASE b # Null /\ applications' = left
  <2>1. b \in ApplicationIds /\ applications[b].status # "none"
    BY <1>2 DEF RowsRefer, LinksRefer, TypeOK, Invite
  <2> HIDE DEF b
  <2>2. left \in [ApplicationIds -> Application] /\ SameRows(left)
    BY <2>1, SetRows DEF ApplicationStatus
  <2>3. \A a \in ApplicationIds : left[a].status = "accepted" => applications[a].status = "accepted"
    BY SetStatusPoint DEF TypeOK, ApplicationStatus
  <2>4. applications' = left
    BY <1>2
  <2> HIDE DEF left
  <2>5. QED BY <2>2, <2>3, <2>4
<1>3. QED BY <1>1, <1>2 DEF ReopenApplication

LEMMA DeleteInviteSound ==
    ASSUME TypeOK, RowsRefer, AwardedWasMember, NEW i \in InviteIds, DeleteInviteWrites(i)
    PROVE  Sound
<1>1. /\ invites' = [invites EXCEPT ![i].status = "canceled"]
      /\ UNCHANGED <<projects, requests, opportunities, members>>
  BY DEF DeleteInviteWrites
<1>2. /\ applications' \in [ApplicationIds -> Application] /\ SameRows(applications')
      /\ \A a \in ApplicationIds :
           applications'[a].status = "accepted" => applications[a].status = "accepted"
  BY Reopened DEF DeleteInviteWrites
<1>3. InvitesGrow /\ KeepsLinks /\ invites' \in [InviteIds -> Invite]
  BY <1>1, SetInvite DEF InviteStatus
<1>4. TypeOK'
  BY <1>1, <1>2, <1>3 DEF TypeOK
<1>5. QED BY <1>1, <1>2, <1>3, <1>4, Unchanging, SoundStep

LEMMA AddMemberSound ==
    ASSUME TypeOK, RowsRefer, AwardedWasMember,
           NEW p \in Projects, NEW u \in Users, NEW role \in Roles, AddMemberWrites(p, u, role)
    PROVE  Sound
<1>1. PICK ids : invites' = SetStatus(invites, ids, "canceled")
  BY DEF AddMemberWrites
<1>2. CreateMember(p, u, role) /\ UNCHANGED <<projects, requests, opportunities, applications>>
  BY DEF AddMemberWrites
<1>3. MembersGrow /\ members' \in [MemberIds -> Member]
  BY <1>2, InsertMember
<1>4. InvitesGrow /\ KeepsLinks /\ invites' \in [InviteIds -> Invite]
  <2>1. "canceled" \in InviteStatus /\ invites \in [InviteIds -> Invite]
    BY DEF InviteStatus, TypeOK
  <2>2. QED BY <1>1, <2>1, SetInvites
<1>5. TypeOK'
  BY <1>2, <1>3, <1>4 DEF TypeOK
<1>6. QED BY <1>2, <1>3, <1>4, <1>5, Unchanging, SoundStep

-----------------------------------------------------------------------------
(* The handlers that are one step.                                         *)

LEMMA WholeTypes ==
    ASSUME TypeOK, Whole
    PROVE  TypeOK'
<1>1. Whole => Next
  <2>1. ASSUME NEW p \in Projects, NEW role \in Roles, NEW u \in Users, NEW s \in OpenInviteStatus,
               CreateInvites(p, role, {u}, {}, s)
        PROVE  Next
    <3>1. {u} \in SUBSET Users /\ {} \in SUBSET Addresses(role)
      OBVIOUS
    <3> DEFINE handles == {u}
    <3>2. CreateInvites(p, role, handles, {}, s) /\ handles \in SUBSET Users
      BY <2>1, <3>1
    <3> HIDE DEF handles
    <3>3. QED BY <3>1, <3>2 DEF Next, InviteNext
  <2>2. QED BY <2>1 DEF Whole, Next, InviteNext, MemberNext
<1>2. QED BY <1>1, TypeNext

LEMMA CreateInvitesSound ==
    ASSUME TypeOK, RowsRefer, AwardedWasMember, TypeOK',
           NEW p, NEW role, NEW handles, NEW emails, NEW s,
           s \in OpenInviteStatus, CreateInvites(p, role, handles, emails, s)
    PROVE  Sound
<1>1. UNCHANGED <<requests, opportunities, applications, members>>
  BY DEF CreateInvites
<1>2. /\ KeepsLinks
      /\ \A i \in InviteIds : invites'[i].status \in {invites[i].status, s}
  BY DEF CreateInvites, KeepsLinks
<1>3. InvitesGrow /\ KeepsLinks
  BY <1>2 DEF InvitesGrow, KeepsLinks, OpenInviteStatus
<1>4. QED BY <1>1, <1>3, Unchanging, SoundStep

LEMMA DeclineInviteSound ==
    ASSUME TypeOK, RowsRefer, AwardedWasMember, TypeOK',
           NEW i \in InviteIds, NEW s \in InviteStatus, DeclineInvite(i, s)
    PROVE  Sound
<1>1. /\ invites' = [invites EXCEPT ![i].status = s]
      /\ UNCHANGED <<projects, requests, opportunities, members>>
  BY DEF DeclineInvite
<1>2. /\ SameRows(applications')
      /\ \A a \in ApplicationIds :
           applications'[a].status = "accepted" => applications[a].status = "accepted"
  BY Reopened DEF DeclineInvite
<1>3. InvitesGrow /\ KeepsLinks
  BY <1>1, SetInvite
<1>4. QED BY <1>1, <1>2, <1>3, Unchanging, SoundStep

LEMMA LinkInviteSound ==
    ASSUME TypeOK, RowsRefer, AwardedWasMember, TypeOK',
           NEW o \in OpportunityIds, NEW b \in ApplicationIds, LinkInvite(o, b)
    PROVE  Sound
<1>1. /\ applications[b].opportunity = o /\ applications[b].status # "none"
      /\ applications' = [applications EXCEPT ![b].status = "invited"]
      /\ UNCHANGED <<projects, requests, opportunities, members>>
  BY DEF LinkInvite
<1>2. PICK n \in InviteIds :
        /\ invites[n].status = "none"
        /\ invites' = [invites EXCEPT ![n] =
            [status |-> "pending", project |-> opportunities[o].project, role |-> "copilot",
             user |-> applications[b].user, application |-> b]]
  BY DEF LinkInvite, Fresh, TypeOK
<1>3. /\ \A j \in InviteIds \ {n} : invites'[j] = invites[j]
      /\ invites'[n] = [status |-> "pending", project |-> opportunities[o].project,
                        role |-> "copilot", user |-> applications[b].user, application |-> b]
  BY <1>2 DEF TypeOK
<1>4. /\ SameRows(applications')
      /\ \A a \in ApplicationIds :
           applications'[a].status = "accepted" => applications[a].status = "accepted"
  BY <1>1 DEF TypeOK, SameRows, Application
<1>5. Grows
  <2>1. InvitesGrow
    BY <1>2, <1>3 DEF InvitesGrow
  <2>2. QED BY <1>1, <1>4, <2>1, Unchanging, SameGrow DEF Grows
<1>6. ApplicationsRefer' /\ OpportunitiesRefer'
  BY <1>1, <1>4 DEF RowsRefer, ApplicationsRefer, OpportunitiesRefer, SameRows
<1>7. LinksRefer'
  <2> SUFFICES ASSUME NEW i \in InviteIds, invites'[i].application # Null
               PROVE  LET a == invites'[i].application
                      IN  /\ applications'[a].status # "none"
                          /\ invites'[i].user = applications'[a].user
                          /\ invites'[i].project = opportunities'[applications'[a].opportunity].project
    BY DEF LinksRefer
  <2>1. CASE i = n
    BY <1>1, <1>3, <1>4, <2>1 DEF SameRows
  <2>2. CASE i # n
    <3> DEFINE a == invites[i].application
    <3>1. invites'[i] = invites[i]
      BY <1>3, <2>2
    <3>2. /\ a \in ApplicationIds /\ applications[a].status # "none"
          /\ invites[i].user = applications[a].user
          /\ invites[i].project = opportunities[applications[a].opportunity].project
      BY <3>1 DEF RowsRefer, LinksRefer, TypeOK, Invite
    <3>3. QED BY <1>1, <1>4, <3>1, <3>2 DEF SameRows
  <2>3. QED BY <2>1, <2>2
<1>8. QED BY <1>4, <1>5, <1>6, <1>7, NewWinners DEF Sound, RowsRefer

\* The promotion of a manager: the member's row is of the project of the requests.
LEMMA UpdateMemberSound ==
    ASSUME TypeOK, RowsRefer, AwardedWasMember, TypeOK',
           NEW m \in MemberIds, NEW role \in Roles, NEW primary \in BOOLEAN \cup {Null},
           NEW complete \in BOOLEAN,
           UpdateMember(m, role, primary, complete)
    PROVE  Sound
<1> DEFINE p == members[m].project
           u == members[m].user
<1>1. members[m].status = "active" /\ UNCHANGED <<projects, invites>>
  BY DEF UpdateMember
<1>2. \A n \in MemberIds : /\ members'[n].status = members[n].status
                           /\ members'[n].user = members[n].user
                           /\ members'[n].project = members[n].project
  BY DEF UpdateMember, TypeOK, Member
<1>3. MembersGrow
  BY <1>2 DEF MembersGrow
<1>4. CASE UNCHANGED <<requests, opportunities, applications>>
  BY <1>1, <1>3, <1>4, Unchanging, SoundStep
<1>5. CASE CompleteCopilotRequests(p, u)
  <2> DEFINE rs == {r \in RequestIds :
                 /\ requests[r].project = p
                 /\ requests[r].status \in OpenRequestStatus
                 /\ \E a \in ApplicationIds :
                      /\ applications[a].user = u
                      /\ applications[a].opportunity # Null
                      /\ opportunities[applications[a].opportunity].request = r}
             os == {o \in OpportunityIds : opportunities[o].request \in rs}
             apps == {a \in ApplicationIds : applications[a].opportunity \in os}
             own == {a \in apps : applications[a].user = u}
             lost == OfOthers(apps, u)
             rest == SetStatus(applications, lost, "canceled")
  <2>1. /\ requests' = SetStatus(requests, rs, "fulfilled")
        /\ opportunities' = SetStatus(opportunities, os, "completed")
        /\ \/ UNCHANGED applications
           \/ \E b \in own : applications' = [rest EXCEPT ![b].status = "accepted"]
    BY <1>5 DEF CompleteCopilotRequests
  <2>2. \A o \in os : /\ o \in OpportunityIds /\ opportunities[o].status # "none"
                      /\ opportunities[o].request \in RequestIds
                      /\ requests[opportunities[o].request].project = p
    BY NullAssumption DEF RowsRefer, OpportunitiesRefer, RequestIds
  <2>3. \A a \in apps : /\ a \in ApplicationIds /\ applications[a].status # "none"
                        /\ applications[a].opportunity \in os
    BY NullAssumption DEF RowsRefer, ApplicationsRefer, OpportunityIds
  <2>4. lost \subseteq apps /\ own \subseteq apps /\ \A a \in own : applications[a].user = u
    BY DEF OfOthers
  <2> HIDE DEF rs, os, apps, own, lost
  <2>5. RequestsGrow /\ requests' \in [RequestIds -> Request]
    BY <2>1, SetRequests DEF RequestStatus
  <2>6. SameOpportunities
    BY <2>1, <2>2, SetOpportunities DEF OpportunityStatus
  <2>7. CASE UNCHANGED applications
    BY <1>1, <1>3, <2>5, <2>6, <2>7, Unchanging, SoundStep
  <2>8. ASSUME NEW b \in own, applications' = [rest EXCEPT ![b].status = "accepted"]
        PROVE  Sound
    <3>1. /\ b \in ApplicationIds /\ applications[b].status # "none"
          /\ applications[b].opportunity \in os /\ applications[b].user = u
      BY <2>3, <2>4
    <3>2. /\ rest \in [ApplicationIds -> Application] /\ SameRows(rest)
          /\ \A a \in ApplicationIds : rest[a].status \in {"canceled", applications[a].status}
      <4>1. \A a \in lost : a \in ApplicationIds => applications[a].status # "none"
        BY <2>3, <2>4
      <4>2. QED BY <4>1, SetRows, SetStatusPoint DEF TypeOK, ApplicationStatus
    <3> HIDE DEF rest
    <3>3. /\ SameRows(applications')
          /\ \A a \in ApplicationIds \ {b} : applications'[a] = rest[a]
      <4>1. "accepted" \in ApplicationStatus
        BY DEF ApplicationStatus
      <4> DEFINE after == [rest EXCEPT ![b].status = "accepted"]
      <4>2. /\ after \in [ApplicationIds -> Application] /\ SameRows(after)
            /\ \A a \in ApplicationIds \ {b} : after[a] = rest[a]
        BY <3>1, <3>2, <4>1, SetRow
      <4>3. applications' = after
        BY <2>8
      <4> HIDE DEF after
      <4>4. QED BY <4>2, <4>3
    <3>4. Won(b)'
      <4> DEFINE o == applications[b].opportunity
                 r == opportunities[o].request
      <4>1. applications'[b].opportunity = o /\ applications'[b].user = u
        BY <3>1, <3>3 DEF SameRows
      <4>2. o \in OpportunityIds /\ r \in RequestIds /\ requests[r].project = p
        BY <2>2, <3>1
      <4>3. opportunities'[o].request = r
        BY <2>6, <4>2 DEF SameOpportunities
      <4>4. requests'[r].project = p
        BY <2>1, <4>2 DEF SetStatus, TypeOK, Request
      <4>5. members'[m].status # "none" /\ members'[m].user = u /\ members'[m].project = p
        BY <1>1, <1>2
      <4> HIDE DEF o, r
      <4>6. QED BY <4>1, <4>2, <4>3, <4>4, <4>5 DEF Won, Joined
    <3>5. \A a \in ApplicationIds : applications'[a].status = "accepted" =>
            applications[a].status = "accepted" \/ Won(a)'
      BY <3>2, <3>3, <3>4
    <3>6. QED BY <1>1, <1>3, <2>5, <2>6, <3>3, <3>5, Unchanging, SoundStep
  <2>9. QED BY <2>1, <2>7, <2>8
<1>6. QED BY <1>4, <1>5 DEF UpdateMember

LEMMA WholeSound ==
    ASSUME TypeOK, RowsRefer, AwardedWasMember, Whole
    PROVE  Sound
<1>1. TypeOK'
  BY WholeTypes
<1>2. ASSUME NEW p \in Projects, NEW role \in Roles, NEW u \in Users, NEW s \in OpenInviteStatus,
             CreateInvites(p, role, {u}, {}, s)
      PROVE  Sound
  BY <1>1, <1>2, CreateInvitesSound
<1>3. ASSUME NEW m \in MemberIds, DeleteMember(m)
      PROVE  Sound
  <2>1. UNCHANGED <<projects, requests, opportunities, applications, invites>>
    BY <1>3 DEF DeleteMember
  <2>2. MembersGrow
    BY <1>3 DEF DeleteMember, MembersGrow, TypeOK, Member
  <2>3. QED BY <1>1, <2>1, <2>2, Unchanging, SoundStep
<1>4. ASSUME NEW p \in Projects, DeleteProject(p)
      PROVE  Sound
  <2>1. UNCHANGED <<requests, opportunities, applications, members, invites>>
    BY <1>4 DEF DeleteProject
  <2>2. QED BY <1>1, <2>1, Unchanging, SoundStep
<1>5. QED BY <1>1, <1>2, <1>3, <1>4, DeclineInviteSound, LinkInviteSound, UpdateMemberSound DEF Whole

-----------------------------------------------------------------------------
(* The interleaving.                                                       *)

\* A call that begins has seen what it remembers.
LEMMA BeginsRemembering ==
    ASSUME TypeOK, RowsRefer, NEW k \in Call, Reads(k)
    PROVE  Remembers(k)
<1>1. CASE k.op \in {"create", "update", "approve", "addMember"}
  BY <1>1 DEF Reads, Remembers, UpdateRequestReads
<1>2. CASE k.op \in {"apply", "cancel"}
  <2>1. opportunities[k.opportunity].status # "none"
    BY <1>2 DEF Reads, ApplyReads
  <2>2. k.op = "cancel" => \A a \in k.listed : applications[a].status # "none"
    <3>1. k.opportunity \in OpportunityIds
      BY <1>2 DEF Call
    <3>2. QED BY <3>1, NullAssumption DEF Reads, ApplicationsOf, RowsRefer, ApplicationsRefer, OpportunityIds
  <2>3. QED BY <1>2, <2>1, <2>2 DEF Remembers
<1>3. CASE k.op = "assign"
  <2>1. /\ AssignReads(k.opportunity, k.application)
        /\ k.member \in FindMember(opportunities[k.opportunity].project, applications[k.application].user)
    BY <1>3 DEF Reads
  <2>2. k.opportunity \in OpportunityIds /\ k.application \in ApplicationIds
    BY <1>3 DEF Call
  <2>3. applications[k.application].status # "none"
    BY <2>1, <2>2, NullAssumption DEF AssignReads, RowsRefer, ApplicationsRefer, OpportunityIds
  <2>4. k.member # Null => /\ members[k.member].status # "none"
                           /\ members[k.member].project = opportunities[k.opportunity].project
                           /\ members[k.member].user = applications[k.application].user
    BY <2>1 DEF FindMember, MembersOf
  <2>5. QED BY <1>3, <2>1, <2>3, <2>4 DEF AssignReads, Remembers
<1>4. CASE k.op \in {"accept", "deleteInvite"}
  <2>1. k.invite \in InviteIds
    BY <1>4 DEF Call
  <2>2. invites[k.invite].status \in OpenInviteStatus
    BY <1>4 DEF Reads, AcceptReads, UpdateInviteReads, DeleteInviteReads
  <2>3. k.op = "accept" => k.user \in Users /\ invites[k.invite].user \in {k.user, Null}
    BY <1>4 DEF Reads, AcceptReads, Call
  <2>4. invites[k.invite].application # Null => invites[k.invite].user # Null
    BY <2>1, NullAssumption DEF RowsRefer, LinksRefer, ApplicationsRefer, TypeOK, Invite
  <2>5. QED BY <1>4, <2>2, <2>3, <2>4 DEF Remembers, OpenInviteStatus
<1>5. QED BY <1>1, <1>2, <1>3, <1>4 DEF Call

\* A call that writes, whatever was written since it began.
LEMMA WritesSound ==
    ASSUME TypeOK, RowsRefer, AwardedWasMember, NEW k \in Call, Remembers(k), Writes(k)
    PROVE  Sound
<1>1. CASE k.op = "create"
  BY <1>1, CreateSound DEF Call, Writes
<1>2. CASE k.op = "update"
  BY <1>2, UpdateRequestSound DEF Call, Writes
<1>3. CASE k.op = "approve"
  <2>1. k.project \in Projects /\ k.request \in RequestIds /\ k.type \in Types
    BY <1>3 DEF Call
  <2>2. requests[k.request] \in Request
    BY <2>1 DEF TypeOK
  <2>3. ApproveWrites(k.project, k.request, requests[k.request], k.type)
    BY <1>3 DEF Writes
  <2>4. QED BY <2>1, <2>2, <2>3, ApproveSound
<1>4. CASE k.op = "apply"
  BY <1>4, ApplySound DEF Call, Writes, Remembers
<1>5. CASE k.op = "assign"
  <2>1. /\ k.opportunity \in OpportunityIds /\ k.application \in ApplicationIds
        /\ k.member \in MemberIds \cup {Null} /\ k.role \in Roles \cup {Null}
    BY <1>5 DEF Call
  <2>2. AssignWrites(k.opportunity, k.application, k.member, k.role)
    BY <1>5 DEF Writes
  <2>3. QED BY <1>5, <2>1, <2>2, AssignSound DEF Remembers
<1>6. CASE k.op = "cancel"
  <2>1. k.opportunity \in OpportunityIds /\ k.listed \subseteq ApplicationIds
    BY <1>6 DEF Call
  <2>2. QED BY <1>6, <2>1, CancelSound DEF Writes, Remembers
<1>7. CASE k.op = "accept"
  <2>1. k.invite \in InviteIds /\ k.status \in InviteStatus /\ k.user \in Users
    BY <1>7 DEF Call, InviteStatus
  <2>2. QED BY <1>7, <2>1, AcceptSound DEF Writes, Remembers
<1>8. CASE k.op = "deleteInvite"
  BY <1>8, DeleteInviteSound DEF Call, Writes
<1>9. CASE k.op = "addMember"
  BY <1>9, AddMemberSound DEF Call, Writes
<1>10. QED BY <1>1, <1>2, <1>3, <1>4, <1>5, <1>6, <1>7, <1>8, <1>9 DEF Writes

LEMMA RacesStart == RacesInit => RacesInv
<1>1. RacesInit => TypeOK
  BY TypeInit DEF RacesInit
<1>2. RacesInit => calls \in [Slots -> Call \cup {Idle}] /\ \A s \in Slots : calls[s] = Idle
  BY DEF RacesInit
<1>3. RacesInit => RowsRefer /\ AwardedWasMember
  BY DEF RacesInit, Init, RowsRefer, ApplicationsRefer, OpportunitiesRefer, LinksRefer,
         AwardedWasMember, NoApplication, NoOpportunity, NoInvite
<1>4. QED BY <1>1, <1>2, <1>3 DEF RacesInv, RacesTypeOK

\* What calls leave of another's memory, when the rows they write are sound.
LEMMA CallsStay ==
    ASSUME RacesInv, Sound, calls' \in [Slots -> Call \cup {Idle}],
           \A s \in Slots : calls'[s] \in {calls[s], Idle}
    PROVE  RacesInv'
<1>1. ASSUME NEW s \in Slots, calls'[s] # Idle
      PROVE  Remembers(calls[s])' /\ calls'[s] = calls[s]
  <2>1. calls'[s] = calls[s] /\ calls[s] \in Call
    BY <1>1 DEF RacesInv, RacesTypeOK
  <2>2. PICK k \in Call : k = calls[s]
    BY <2>1
  <2>3. Remembers(k)
    BY <1>1, <2>1, <2>2 DEF RacesInv
  <2>4. Remembers(k)'
    BY <2>3, MemoryStays DEF RacesInv, RacesTypeOK, Sound
  <2>5. QED BY <2>1, <2>2, <2>4
<1>2. QED BY <1>1 DEF RacesInv, RacesTypeOK, Sound

\* The inductive step.
LEMMA RacesStep == RacesInv /\ [RacesNext]_raceVars => RacesInv'
<1> SUFFICES ASSUME RacesInv, [RacesNext]_raceVars
             PROVE  RacesInv'
  OBVIOUS
<1>1. /\ TypeOK /\ RowsRefer /\ AwardedWasMember /\ calls \in [Slots -> Call \cup {Idle}]
      /\ \A s \in Slots : calls[s] # Idle => Remembers(calls[s])
  BY DEF RacesInv, RacesTypeOK
<1>2. ASSUME NEW s \in Slots, NEW k \in Call, Begin(s, k)
      PROVE  RacesInv'
  <2>1. /\ UNCHANGED <<projects, requests, opportunities, applications, members, invites>>
        /\ calls' = [calls EXCEPT ![s] = k]
    BY <1>2 DEF Begin, vars
  <2>2. Remembers(k)
    BY <1>1, <1>2, BeginsRemembering DEF Begin
  <2>3. \A j \in Slots : calls'[j] # Idle => Remembers(calls'[j])
    BY <1>1, <2>1, <2>2
  <2>4. \A j \in Slots : calls'[j] # Idle => Remembers(calls[j])'
    BY <2>1, <2>3 DEF Remembers
  <2>5. QED
    BY <1>1, <2>1, <2>4
    DEF RacesInv, RacesTypeOK, TypeOK, RowsRefer, ApplicationsRefer, OpportunitiesRefer, LinksRefer,
        AwardedWasMember
<1>3. ASSUME NEW s \in Slots, Commit(s)
      PROVE  RacesInv'
  <2>1. calls[s] \in Call /\ Remembers(calls[s]) /\ Writes(calls[s])
    BY <1>1, <1>3 DEF Commit
  <2>2. Sound
    BY <1>1, <2>1, WritesSound
  <2>3. QED BY <1>1, <1>3, <2>2, CallsStay DEF Commit
<1>4. ASSUME UNCHANGED vars, calls' \in [Slots -> Call \cup {Idle}],
             \A s \in Slots : calls'[s] \in {calls[s], Idle}
      PROVE  RacesInv'
  <2>1. UNCHANGED <<requests, opportunities, applications, members, invites>> /\ TypeOK'
    BY <1>1, <1>4 DEF vars, TypeOK
  <2>2. Sound
    BY <1>1, <2>1, Unchanging, SoundStep
  <2>3. QED BY <1>4, <2>2, CallsStay
<1>5. ASSUME NEW s \in Slots, Abort(s)
      PROVE  RacesInv'
  BY <1>1, <1>4, <1>5 DEF Abort
<1>6. CASE Whole /\ UNCHANGED calls
  BY <1>1, <1>6, WholeSound, CallsStay
<1>7. CASE UNCHANGED raceVars
  BY <1>1, <1>4, <1>7 DEF raceVars, vars
<1>8. QED BY <1>2, <1>3, <1>5, <1>6, <1>7 DEF RacesNext

\* Whatever calls interleave, the tables and what the calls in flight keep of them
\* stay well typed.
THEOREM RacesTypeCorrect == RacesSpec => []RacesTypeOK
<1>1. RacesInv => RacesTypeOK
  BY DEF RacesInv
<1>2. QED BY RacesStart, RacesStep, <1>1, PTL DEF RacesSpec

\* ... and whoever is awarded an opportunity was made a member of its project or of
\* the project of its request: a call that has read its rows writes them unseen, but
\* the rows it has read are never taken back, and keep what they refer to.
THEOREM AwardedWasMemberCorrect == RacesSpec => []AwardedWasMember
<1>1. RacesInv => AwardedWasMember
  BY DEF RacesInv
<1>2. QED BY RacesStart, RacesStep, <1>1, PTL DEF RacesSpec

-----------------------------------------------------------------------------
(* Lookups apart from their inserts.                                       *)

\* The arithmetic of both overruns: rows stands for the rows a lookup finds, waiting for
\* the calls that looked for them in vain and will insert one.
LEMMA Overrun ==
    ASSUME NEW rows, NEW after, NEW waiting \in SUBSET Slots, NEW left \in SUBSET Slots,
           IsFiniteSet(rows),
           Cardinality(rows) + Cardinality(waiting) <= Cardinality(Slots),
           \/ after \subseteq rows /\ left \subseteq waiting
           \/ after = {}
           \/ \E s \in Slots : /\ \E x : after \subseteq rows \cup {x}
                               /\ left \subseteq waiting \ {s}
                               /\ s \in waiting \/ rows = {}
    PROVE  Cardinality(after) + Cardinality(left) <= Cardinality(Slots)
<1>1. /\ IsFiniteSet(waiting) /\ IsFiniteSet(left)
      /\ Cardinality(left) <= Cardinality(Slots)
      /\ Cardinality(Slots) \in Nat /\ Cardinality(rows) \in Nat
      /\ Cardinality(waiting) \in Nat /\ Cardinality(left) \in Nat
  BY SlotsAssumption, FS_Subset, FS_CardinalityType
<1>2. CASE after \subseteq rows /\ left \subseteq waiting
  <2>1. /\ Cardinality(after) <= Cardinality(rows) /\ Cardinality(after) \in Nat
        /\ Cardinality(left) <= Cardinality(waiting)
    BY <1>1, <1>2, FS_Subset, FS_CardinalityType
  <2>2. QED BY <1>1, <2>1
<1>3. CASE after = {}
  BY <1>1, <1>3, FS_EmptySet
<1>4. ASSUME NEW x, NEW s \in Slots, after \subseteq rows \cup {x}, left \subseteq waiting \ {s},
             s \in waiting \/ rows = {}
      PROVE  Cardinality(after) + Cardinality(left) <= Cardinality(Slots)
  <2>1. /\ Cardinality(after) <= Cardinality(rows \cup {x}) /\ Cardinality(after) \in Nat
        /\ Cardinality(rows \cup {x}) \in Nat
        /\ Cardinality(rows \cup {x}) <= Cardinality(rows) + 1
    <3>1. IsFiniteSet(rows \cup {x}) /\ Cardinality(rows \cup {x}) <= Cardinality(rows) + 1
      <4>1. /\ IsFiniteSet(rows \cup {x})
            /\ Cardinality(rows \cup {x}) = IF x \in rows THEN Cardinality(rows)
                                                          ELSE Cardinality(rows) + 1
        BY FS_AddElement
      <4>2. QED BY <1>1, <4>1
    <3>2. QED BY <1>4, <3>1, FS_Subset, FS_CardinalityType
  <2>2. CASE s \in waiting
    <3>1. /\ IsFiniteSet(waiting \ {s})
          /\ Cardinality(waiting \ {s}) = Cardinality(waiting) - 1
      BY <1>1, <2>2, FS_RemoveElement
    <3>2. Cardinality(left) <= Cardinality(waiting) - 1
      BY <1>4, <3>1, FS_Subset
    <3>3. QED BY <1>1, <2>1, <3>2
  <2>3. CASE rows = {}
    <3>1. /\ IsFiniteSet(Slots \ {s})
          /\ Cardinality(Slots \ {s}) = Cardinality(Slots) - 1
      BY SlotsAssumption, FS_RemoveElement
    <3>2. left \subseteq Slots \ {s}
      BY <1>4
    <3>3. Cardinality(left) <= Cardinality(Slots) - 1
      BY <3>1, <3>2, FS_Subset
    <3>4. Cardinality(rows) = 0
      BY <2>3, FS_EmptySet
    <3>5. QED BY <1>1, <2>1, <3>3, <3>4
  <2>4. QED BY <1>4, <2>2, <2>3
<1>5. QED BY <1>2, <1>3, <1>4

LEMMA FiniteRows ==
    ASSUME NEW n \in Nat, NEW S \in SUBSET (1..n)
    PROVE  IsFiniteSet(S)
<1>1. IsFiniteSet(1..n)
  BY FS_Interval
<1>2. QED BY <1>1, FS_Subset

\* What every step but an application's insert keeps of the applications.
ColumnsStay ==
    \A a \in ApplicationIds : /\ applications'[a].opportunity = applications[a].opportunity
                              /\ applications'[a].user = applications[a].user

LEMMA StatusColumnsStay ==
    ASSUME TypeOK, NEW ids, NEW b, NEW s \in ApplicationStatus, NEW t \in ApplicationStatus,
           \/ UNCHANGED applications
           \/ applications' = SetStatus(applications, ids, s)
           \/ applications' = [applications EXCEPT ![b].status = s]
           \/ applications' = [SetStatus(applications, ids, s) EXCEPT ![b].status = t]
    PROVE  ColumnsStay
<1> DEFINE Same(rows) == \A a \in ApplicationIds :
             /\ rows[a].opportunity = applications[a].opportunity
             /\ rows[a].user = applications[a].user
           set == SetStatus(applications, ids, s)
<1>1. set \in [ApplicationIds -> Application] /\ Same(set)
  BY SetStatusApplications, SetStatusPoint DEF TypeOK
<1>2. ASSUME NEW rows \in [ApplicationIds -> Application], NEW c \in ApplicationStatus, Same(rows)
      PROVE  Same([rows EXCEPT ![b].status = c])
  BY <1>2 DEF Application
<1>3. Same(applications) /\ applications \in [ApplicationIds -> Application]
  BY DEF TypeOK
<1>4. Same(applications') => ColumnsStay
  BY DEF ColumnsStay
<1> HIDE DEF Same, set
<1>5. CASE \/ UNCHANGED applications
           \/ applications' = [applications EXCEPT ![b].status = s]
  BY <1>2, <1>3, <1>4, <1>5
<1>6. CASE \/ applications' = set
           \/ applications' = [set EXCEPT ![b].status = t]
  BY <1>1, <1>2, <1>4, <1>6
<1>7. QED BY <1>5, <1>6 DEF set

LEMMA WritesColumnsStay ==
    ASSUME TypeOK, NEW k \in Call, Writes(k), k.op # "apply"
    PROVE  ColumnsStay
<1>1. CASE k.op \in {"create", "update", "approve", "addMember"}
  BY <1>1, StatusColumnsStay
  DEF ApplicationStatus, Writes, CreateRequestWrites, ApproveWrites, UpdateRequestWrites, AddMemberWrites
<1>2. CASE k.op = "assign"
  <2>1. AcceptCancelingOthers(k.opportunity, k.application)
    BY <1>2 DEF Writes, AssignWrites
  <2>2. QED BY <2>1, StatusColumnsStay DEF ApplicationStatus, AcceptCancelingOthers
<1>3. CASE k.op = "cancel"
  BY <1>3, StatusColumnsStay DEF ApplicationStatus, Writes, CancelWrites
<1>4. CASE k.op = "accept"
  <2>1. \/ SettleLinkedApplication(k.invite, k.source)
        \/ \E p, rows : CancelProjectWorkflow(p, rows)
    BY <1>4 DEF Writes, AcceptWrites
  <2>2. QED BY <2>1, StatusColumnsStay DEF ApplicationStatus, SettleLinkedApplication, CancelProjectWorkflow
<1>5. CASE k.op = "deleteInvite"
  BY <1>5, StatusColumnsStay DEF ApplicationStatus, Writes, DeleteInviteWrites, ReopenApplication
<1>6. QED BY <1>1, <1>2, <1>3, <1>4, <1>5 DEF Call

LEMMA WholeColumnsStay ==
    ASSUME TypeOK, Whole
    PROVE  ColumnsStay
<1>1. ASSUME NEW m \in MemberIds, NEW role, NEW primary, NEW complete,
             UpdateMember(m, role, primary, complete)
      PROVE  ColumnsStay
  <2>1. \/ UNCHANGED applications
        \/ \E ids, a : applications' = [SetStatus(applications, ids, "canceled")
                                           EXCEPT ![a].status = "accepted"]
    BY <1>1, Zenon DEF UpdateMember, CompleteCopilotRequests
  <2>2. QED BY <2>1, StatusColumnsStay DEF ApplicationStatus
<1>2. ASSUME NEW i, NEW s, DeclineInvite(i, s)
      PROVE  ColumnsStay
  BY <1>2, StatusColumnsStay DEF ApplicationStatus, DeclineInvite, ReopenApplication
<1>3. ASSUME NEW o, NEW a, LinkInvite(o, a)
      PROVE  ColumnsStay
  BY <1>3, StatusColumnsStay DEF ApplicationStatus, LinkInvite
<1>4. ASSUME NEW p, NEW role, NEW u, NEW s, CreateInvites(p, role, {u}, {}, s)
      PROVE  ColumnsStay
  BY <1>4, StatusColumnsStay DEF ApplicationStatus, CreateInvites
<1>5. ASSUME NEW m, DeleteMember(m)
      PROVE  ColumnsStay
  BY <1>5, StatusColumnsStay DEF ApplicationStatus, DeleteMember
<1>6. ASSUME NEW p, DeleteProject(p)
      PROVE  ColumnsStay
  BY <1>6, StatusColumnsStay DEF ApplicationStatus, DeleteProject
<1>7. QED BY <1>1, <1>2, <1>3, <1>4, <1>5, <1>6 DEF Whole

LEMMA ApplicationsStep ==
    ASSUME RacesInv, ApplicationOverrun, [RacesNext]_raceVars
    PROVE  ApplicationOverrun'
<1> SUFFICES ASSUME NEW o \in OpportunityIds, NEW u \in Users
             PROVE  Cardinality({a \in ApplicationsOf(o)' : applications'[a].user = u})
                       + Cardinality(Applying(o, u)') <= Cardinality(Slots)
  BY DEF ApplicationOverrun
<1> DEFINE rows == {a \in ApplicationsOf(o) : applications[a].user = u}
           after == {a \in ApplicationsOf(o)' : applications'[a].user = u}
           waiting == Applying(o, u)
           left == Applying(o, u)'
<1>1. /\ rows \in SUBSET (1..MaxApplications) /\ MaxApplications \in Nat
      /\ waiting \in SUBSET Slots /\ left \in SUBSET Slots
      /\ Cardinality(rows) + Cardinality(waiting) <= Cardinality(Slots)
      /\ TypeOK /\ calls \in [Slots -> Call \cup {Idle}]
  BY BoundsAssumption
  DEF ApplicationOverrun, ApplicationsOf, ApplicationIds, Applying, RacesInv, RacesTypeOK
<1>2. ColumnsStay => after \subseteq rows
  BY DEF ColumnsStay, ApplicationsOf
<1>3. UNCHANGED vars => ColumnsStay
  BY DEF vars, ColumnsStay
<1>4. ASSUME NEW s \in Slots, NEW k \in Call, Begin(s, k)
      PROVE  after = {} \/ (after \subseteq rows /\ left \subseteq waiting)
  <2>1. after \subseteq rows
    BY <1>2, <1>3, <1>4 DEF Begin
  <2>2. CASE k.op = "apply" /\ k.opportunity = o /\ k.user = u
    <3>1. ApplyReads(o, u)
      BY <1>4, <2>2 DEF Begin, Reads
    <3>2. rows = {}
      BY <3>1 DEF ApplyReads
    <3>3. QED BY <2>1, <3>2
  <2>3. CASE ~(k.op = "apply" /\ k.opportunity = o /\ k.user = u)
    BY <1>1, <1>4, <2>1, <2>3 DEF Begin, Applying
  <2>4. QED BY <2>2, <2>3
<1>5. ASSUME NEW s \in Slots, Commit(s), calls[s].op = "apply",
             calls[s].opportunity = o, calls[s].user = u
      PROVE  \E x : after \subseteq rows \cup {x} /\ left \subseteq waiting \ {s} /\ s \in waiting
  <2>1. ApplyWrites(o, u)
    BY <1>1, <1>5 DEF Commit, Writes, Call
  <2>2. PICK x \in ApplicationIds :
          \A a \in ApplicationIds \ {x} : applications'[a] = applications[a]
    BY <1>1, <2>1 DEF ApplyWrites, Fresh, TypeOK
  <2>3. after \subseteq rows \cup {x}
    BY <2>2 DEF ApplicationsOf
  <2>4. calls' = [calls EXCEPT ![s] = Idle]
    BY <1>5 DEF Commit
  <2>5. left \subseteq waiting \ {s} /\ s \in waiting
    BY <1>1, <1>5, <2>4 DEF Applying, Idle
  <2>6. QED BY <2>3, <2>5
<1>6. ASSUME NEW s \in Slots, Commit(s),
             ~(calls[s].op = "apply" /\ calls[s].opportunity = o /\ calls[s].user = u)
      PROVE  after \subseteq rows /\ left \subseteq waiting
  <2>1. left \subseteq waiting
    BY <1>1, <1>6 DEF Commit, Applying, Idle
  <2>2. calls[s] \in Call /\ Writes(calls[s])
    BY <1>1, <1>6 DEF Commit
  <2>3. CASE calls[s].op = "apply"
    <3>1. ApplyWrites(calls[s].opportunity, calls[s].user)
      BY <2>2, <2>3 DEF Writes
    <3>2. \A a \in ApplicationIds :
            \/ applications'[a] = applications[a]
            \/ /\ applications'[a].opportunity = calls[s].opportunity
               /\ applications'[a].user = calls[s].user
      BY <1>1, <3>1 DEF ApplyWrites, Fresh, TypeOK
    <3>3. QED BY <1>6, <2>1, <2>3, <3>2 DEF ApplicationsOf
  <2>4. CASE calls[s].op # "apply"
    BY <1>1, <1>2, <2>1, <2>2, <2>4, WritesColumnsStay
  <2>5. QED BY <2>3, <2>4
<1>7. ASSUME NEW s \in Slots, Abort(s)
      PROVE  after \subseteq rows /\ left \subseteq waiting
  BY <1>1, <1>2, <1>3, <1>7 DEF Abort, Applying, Idle
<1>8. ASSUME Whole, UNCHANGED calls
      PROVE  after \subseteq rows /\ left \subseteq waiting
  <2>1. after \subseteq rows
    BY <1>1, <1>2, <1>8, WholeColumnsStay
  <2>2. QED BY <1>8, <2>1 DEF Applying
<1>9. ASSUME UNCHANGED raceVars
      PROVE  after \subseteq rows /\ left \subseteq waiting
  <2>1. after \subseteq rows
    BY <1>2, <1>3, <1>9 DEF raceVars, vars
  <2>2. QED BY <1>9, <2>1 DEF raceVars, Applying
<1> HIDE DEF rows, after, waiting, left
<1>10. \/ after \subseteq rows /\ left \subseteq waiting
       \/ after = {}
       \/ \E s \in Slots : /\ \E x : after \subseteq rows \cup {x}
                           /\ left \subseteq waiting \ {s}
                           /\ s \in waiting \/ rows = {}
  <2>1. CASE \E s \in Slots : Commit(s)
    BY <1>5, <1>6, <2>1
  <2>2. CASE \E s \in Slots, k \in Call : Begin(s, k)
    BY <1>4, <2>2
  <2>3. QED BY <1>7, <1>8, <1>9, <2>1, <2>2 DEF RacesNext
<1>11. Cardinality(after) + Cardinality(left) <= Cardinality(Slots)
  BY <1>1, <1>10, FiniteRows, Overrun
<1>12. QED BY <1>11 DEF after, left

\* Every step leaves the tables sound.
LEMMA RacesSound ==
    ASSUME RacesInv, [RacesNext]_raceVars
    PROVE  Sound
<1>1. /\ TypeOK /\ RowsRefer /\ AwardedWasMember /\ calls \in [Slots -> Call \cup {Idle}]
      /\ \A s \in Slots : calls[s] # Idle => Remembers(calls[s])
  BY DEF RacesInv, RacesTypeOK
<1>2. ASSUME NEW s \in Slots, Commit(s)
      PROVE  Sound
  BY <1>1, <1>2, WritesSound DEF Commit
<1>3. CASE Whole
  BY <1>1, <1>3, WholeSound
<1>4. CASE UNCHANGED vars
  <2>1. UNCHANGED <<requests, opportunities, applications, members, invites>> /\ TypeOK'
    BY <1>1, <1>4 DEF vars, TypeOK
  <2>2. QED BY <1>1, <2>1, Unchanging, SoundStep
<1>5. QED BY <1>2, <1>3, <1>4 DEF RacesNext, Begin, Abort, raceVars, vars

\* What a call in flight is going to insert does not change under it.
LEMMA JoiningStays ==
    ASSUME RacesInv, Sound, NEW p, NEW u, NEW s \in Joining(p, u)', calls'[s] = calls[s]
    PROVE  s \in Joining(p, u)
<1>1. s \in Slots /\ (calls[s].op = "addMember" \/ calls[s].op = "assign")
  BY DEF Joining
<1>2. CASE calls[s].op = "addMember"
  BY <1>2 DEF Joining
<1>3. CASE calls[s].op = "assign"
  <2>1. calls[s] \in Call /\ Remembers(calls[s])
    BY <1>1, <1>3 DEF RacesInv, RacesTypeOK, Idle
  <2>2. /\ calls[s].opportunity \in OpportunityIds /\ calls[s].application \in ApplicationIds
        /\ opportunities[calls[s].opportunity].status # "none"
        /\ applications[calls[s].application].status # "none"
    BY <1>3, <2>1 DEF Call, Remembers
  <2>3. /\ opportunities'[calls[s].opportunity].project = opportunities[calls[s].opportunity].project
        /\ applications'[calls[s].application].user = applications[calls[s].application].user
    BY <2>2 DEF Sound, Grows, OpportunitiesGrow, ApplicationsGrow
  <2>4. /\ calls'[s].member = Null
        /\ opportunities'[calls'[s].opportunity].project = p
        /\ applications'[calls'[s].application].user = u
    BY <1>3 DEF Joining
  <2>5. QED BY <1>1, <1>3, <2>3, <2>4 DEF Joining
<1>4. QED BY <1>1, <1>2, <1>3

\* What a step does to the memberships: none becomes active, or one is inserted.
MembersStay ==
    \A m \in MemberIds : members'[m].status = "active" =>
        /\ members[m].status = "active"
        /\ members'[m].project = members[m].project /\ members'[m].user = members[m].user

Inserts(p, u) ==
    \E x \in MemberIds : /\ members'[x].project = p /\ members'[x].user = u
                         /\ \A m \in MemberIds \ {x} : members'[m] = members[m]

LEMMA CreateInserts ==
    ASSUME TypeOK, NEW p, NEW u, NEW role, CreateMember(p, u, role)
    PROVE  Inserts(p, u)
BY DEF TypeOK, CreateMember, Fresh, Inserts

LEMMA WritesInsert ==
    ASSUME TypeOK, NEW s \in Slots, calls[s] \in Call, Writes(calls[s])
    PROVE  \/ MembersStay
           \/ \E p, u : Inserts(p, u) /\ (s \in Joining(p, u) \/ MembersOf(p, u) = {})
<1> DEFINE k == calls[s]
<1>1. UNCHANGED members => MembersStay
  BY DEF MembersStay
<1>2. CASE k.op \in {"create", "update", "approve", "apply", "cancel", "deleteInvite"}
  BY <1>1, <1>2
  DEF Writes, CreateRequestWrites, ApproveWrites, UpdateRequestWrites, ApplyWrites, CancelWrites,
      DeleteInviteWrites
<1>3. CASE k.op = "assign"
  <2> DEFINE p == opportunities[k.opportunity].project
             u == applications[k.application].user
  <2>1. UpsertCopilot(p, u, k.member, k.role)
    BY <1>3 DEF Writes, AssignWrites
  <2>2. CASE k.member = Null
    <3>1. CreateMember(p, u, "copilot") /\ s \in Joining(p, u)
      BY <1>3, <2>1, <2>2 DEF UpsertCopilot, Joining
    <3>2. QED BY <3>1, CreateInserts
  <2>3. CASE k.member # Null
    BY <1>1, <2>1, <2>3 DEF UpsertCopilot, MembersStay, TypeOK, Member
  <2>4. QED BY <2>2, <2>3
<1>4. CASE k.op = "accept"
  <2>1. \E p, u, role : JoinOnce(p, u, role)
    BY <1>4 DEF Writes, AcceptWrites
  <2>2. QED BY <1>1, <2>1, CreateInserts DEF JoinOnce
<1>5. CASE k.op = "addMember"
  <2>1. CreateMember(k.project, k.user, k.role) /\ s \in Joining(k.project, k.user)
    BY <1>5 DEF Writes, AddMemberWrites, Joining
  <2>2. QED BY <2>1, CreateInserts
<1>6. QED BY <1>2, <1>3, <1>4, <1>5 DEF Call

LEMMA WholeMembersStay ==
    ASSUME TypeOK, Whole
    PROVE  MembersStay
<1>1. UNCHANGED members => MembersStay
  BY DEF MembersStay
<1>2. ASSUME NEW p, NEW role, NEW u, NEW s, CreateInvites(p, role, {u}, {}, s)
      PROVE  MembersStay
  BY <1>1, <1>2 DEF CreateInvites
<1>3. ASSUME NEW m \in MemberIds, NEW role, NEW primary, NEW complete,
             UpdateMember(m, role, primary, complete)
      PROVE  MembersStay
  BY <1>3 DEF UpdateMember, MembersStay, TypeOK, Member
<1>4. ASSUME NEW m \in MemberIds, DeleteMember(m)
      PROVE  MembersStay
  BY <1>4 DEF DeleteMember, MembersStay, TypeOK, Member
<1>5. QED BY <1>1, <1>2, <1>3, <1>4 DEF Whole, DeclineInvite, LinkInvite, DeleteProject

LEMMA MembershipsStep ==
    ASSUME RacesInv, MembershipOverrun, [RacesNext]_raceVars
    PROVE  MembershipOverrun'
<1> SUFFICES ASSUME NEW p \in Projects, NEW u \in Users
             PROVE  Cardinality(MembersOf(p, u)') + Cardinality(Joining(p, u)')
                       <= Cardinality(Slots)
  BY DEF MembershipOverrun
<1> DEFINE rows == MembersOf(p, u)
           after == MembersOf(p, u)'
           waiting == Joining(p, u)
           left == Joining(p, u)'
<1>1. /\ rows \in SUBSET (1..MaxMembers) /\ MaxMembers \in Nat
      /\ waiting \in SUBSET Slots /\ left \in SUBSET Slots
      /\ Cardinality(rows) + Cardinality(waiting) <= Cardinality(Slots)
      /\ TypeOK /\ calls \in [Slots -> Call \cup {Idle}]
  BY BoundsAssumption DEF MembershipOverrun, MembersOf, MemberIds, Joining, RacesInv, RacesTypeOK
<1>2. MembersStay => after \subseteq rows
  BY DEF MembersStay, MembersOf
<1>3. UNCHANGED members => after \subseteq rows
  BY DEF MembersOf
<1>4. \A s \in left : calls'[s] = calls[s] => s \in waiting
  BY RacesSound, JoiningStays
<1>5. ASSUME NEW s \in Slots, NEW k \in Call, Begin(s, k)
      PROVE  after = {} \/ (after \subseteq rows /\ left \subseteq waiting)
  <2>1. /\ after \subseteq rows /\ calls' = [calls EXCEPT ![s] = k] /\ Reads(k)
        /\ UNCHANGED <<opportunities, applications>>
    BY <1>3, <1>5 DEF Begin, vars
  <2>2. CASE s \in left
    <3>1. calls'[s] = k
      BY <1>1, <2>1
    <3>2. CASE k.op = "addMember"
      <4>1. k.project = p /\ k.user = u
        BY <2>2, <3>1, <3>2 DEF Joining
      <4>2. rows = {}
        BY <2>1, <3>2, <4>1 DEF Reads, AddMemberReads
      <4>3. QED BY <2>1, <4>2
    <3>3. CASE k.op = "assign"
      <4>1. /\ k.member = Null
            /\ opportunities[k.opportunity].project = p /\ applications[k.application].user = u
        BY <2>1, <2>2, <3>1, <3>3 DEF Joining
      <4>2. Null \in FindMember(p, u)
        BY <2>1, <3>3, <4>1 DEF Reads
      <4>3. rows = {}
        BY <1>1, <4>2, NullAssumption DEF FindMember
      <4>4. QED BY <2>1, <4>3
    <3>4. QED BY <2>2, <3>1, <3>2, <3>3 DEF Joining
  <2>3. CASE s \notin left
    BY <1>1, <1>4, <2>1, <2>3
  <2>4. QED BY <2>2, <2>3
<1>6. ASSUME NEW s \in Slots, Commit(s)
      PROVE  \/ after \subseteq rows /\ left \subseteq waiting
             \/ /\ \E x : after \subseteq rows \cup {x}
                /\ left \subseteq waiting \ {s}
                /\ s \in waiting \/ rows = {}
  <2>1. calls[s] \in Call /\ Writes(calls[s]) /\ calls' = [calls EXCEPT ![s] = Idle]
    BY <1>1, <1>6 DEF Commit
  <2>2. s \notin left
    BY <1>1, <2>1 DEF Joining, Idle
  <2>3. left \subseteq waiting \ {s}
    BY <1>1, <1>4, <2>1, <2>2
  <2>4. CASE MembersStay
    BY <1>2, <2>3, <2>4
  <2>5. ASSUME NEW q, NEW v, Inserts(q, v), s \in Joining(q, v) \/ MembersOf(q, v) = {}
        PROVE  \/ after \subseteq rows
               \/ /\ \E x : after \subseteq rows \cup {x}
                  /\ s \in waiting \/ rows = {}
    <3>1. CASE q = p /\ v = u
      BY <2>5, <3>1 DEF Inserts, MembersOf
    <3>2. CASE ~(q = p /\ v = u)
      BY <2>5, <3>2 DEF Inserts, MembersOf
    <3>3. QED BY <3>1, <3>2
  <2>6. QED BY <1>1, <2>1, <2>3, <2>4, <2>5, WritesInsert
<1>7. ASSUME NEW s \in Slots, Abort(s)
      PROVE  after \subseteq rows /\ left \subseteq waiting
  <2>1. after \subseteq rows /\ calls' = [calls EXCEPT ![s] = Idle]
    BY <1>3, <1>7 DEF Abort, vars
  <2>2. s \notin left
    BY <1>1, <2>1 DEF Joining, Idle
  <2>3. QED BY <1>1, <1>4, <2>1, <2>2
<1>8. ASSUME Whole, UNCHANGED calls
      PROVE  after \subseteq rows /\ left \subseteq waiting
  BY <1>1, <1>2, <1>4, <1>8, WholeMembersStay
<1>9. ASSUME UNCHANGED raceVars
      PROVE  after \subseteq rows /\ left \subseteq waiting
  BY <1>1, <1>3, <1>4, <1>9 DEF raceVars
<1> HIDE DEF rows, after, waiting, left
<1>10. \/ after \subseteq rows /\ left \subseteq waiting
       \/ after = {}
       \/ \E s \in Slots : /\ \E x : after \subseteq rows \cup {x}
                           /\ left \subseteq waiting \ {s}
                           /\ s \in waiting \/ rows = {}
  <2>1. CASE \E s \in Slots : Commit(s)
    BY <1>6, <2>1
  <2>2. CASE \E s \in Slots, k \in Call : Begin(s, k)
    BY <1>5, <2>2
  <2>3. QED BY <1>7, <1>8, <1>9, <2>1, <2>2 DEF RacesNext
<1>11. Cardinality(after) + Cardinality(left) <= Cardinality(Slots)
  BY <1>1, <1>10, FiniteRows, Overrun
<1>12. QED BY <1>11 DEF after, left

LEMMA OverrunStart == RacesInit => ApplicationOverrun /\ MembershipOverrun
<1> SUFFICES ASSUME RacesInit
             PROVE  ApplicationOverrun /\ MembershipOverrun
  OBVIOUS
<1>1. Cardinality({}) = 0 /\ Cardinality(Slots) \in Nat
  BY SlotsAssumption, FS_EmptySet, FS_CardinalityType
<1>2. ASSUME NEW o \in OpportunityIds, NEW u \in Users
      PROVE  {a \in ApplicationsOf(o) : applications[a].user = u} = {} /\ Applying(o, u) = {}
  BY NullAssumption DEF RacesInit, Init, NoApplication, ApplicationsOf, Applying, Idle
<1>3. ASSUME NEW p \in Projects, NEW u \in Users
      PROVE  MembersOf(p, u) = {} /\ Joining(p, u) = {}
  BY DEF RacesInit, Init, NoMember, MembersOf, Joining, Idle
<1>4. ApplicationOverrun
  <2>1. ASSUME NEW o \in OpportunityIds, NEW u \in Users
        PROVE  Cardinality({a \in ApplicationsOf(o) : applications[a].user = u})
                  + Cardinality(Applying(o, u)) <= Cardinality(Slots)
    <3> DEFINE own == {a \in ApplicationsOf(o) : applications[a].user = u}
    <3>1. own = {} /\ Applying(o, u) = {}
      BY <1>2
    <3> HIDE DEF own
    <3>2. Cardinality(own) + Cardinality(Applying(o, u)) <= Cardinality(Slots)
      BY <1>1, <3>1
    <3>3. QED BY <3>2 DEF own
  <2>2. QED BY <2>1 DEF ApplicationOverrun
<1>5. MembershipOverrun
  BY <1>1, <1>3 DEF MembershipOverrun
<1>6. QED BY <1>4, <1>5

\* Lookups and inserts apart, a user has no more applications to an opportunity than
\* calls can be in flight: for any number of calls, users and rows.
THEOREM ApplicationOverrunCorrect == RacesSpec => []ApplicationOverrun
BY RacesStart, RacesStep, OverrunStart, ApplicationsStep, PTL DEF RacesSpec

\* ... and no more active memberships of a project, though three handlers insert them.
THEOREM MembershipOverrunCorrect == RacesSpec => []MembershipOverrun
BY RacesStart, RacesStep, OverrunStart, MembershipsStep, PTL DEF RacesSpec

=============================================================================
