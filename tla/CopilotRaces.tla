---------------------------- MODULE CopilotRaces ----------------------------
(***************************************************************************)
(* The handlers of CopilotWorkflow.tla, interleaved.                       *)
(*                                                                         *)
(* A handler awaits its queries one after the other, and PostgreSQL runs   *)
(* its transaction at READ COMMITTED: rows it has read and checked may be  *)
(* changed by another handler before it writes.  A call is therefore two   *)
(* steps here, Begin with what the handler reads and checks and Commit     *)
(* with its writes, and any other call may come in between.  Rows that the *)
(* handler reads after its first write are read at Commit.                 *)
(*                                                                         *)
(* Every behaviour of this module is one of the service; the finer         *)
(* interleavings of the single statements of an award, with their row      *)
(* locks, are in AwardTransactions.tla.                                    *)
(***************************************************************************)
EXTENDS CopilotWorkflow

CONSTANTS
    Slots,          \* calls in flight at the same time
    Handlers        \* the handlers that are called

ASSUME SlotsAssumption == IsFiniteSet(Slots)

VARIABLE calls      \* the call of every slot

raceVars == <<projects, requests, opportunities, applications, members, invites, calls>>

\* Calls, with what their handler keeps of the rows it has read.
Call ==
         [op : {"create"}, project : Projects, type : Types]
    \cup [op : {"update"}, request : RequestIds, type : Types]
    \cup [op : {"approve"}, project : Projects, request : RequestIds, type : Types]
    \cup [op : {"apply"}, opportunity : OpportunityIds, user : Users]
    \cup [op : {"assign"}, opportunity : OpportunityIds, application : ApplicationIds,
          member : MemberIds \cup {Null}, role : Roles \cup {Null}]
    \cup [op : {"cancel"}, opportunity : OpportunityIds, listed : SUBSET ApplicationIds]
    \cup [op : {"accept"}, invite : InviteIds, status : {"accepted", "request_approved"},
          source : Sources, user : Users]
    \cup [op : {"deleteInvite"}, invite : InviteIds]
    \cup [op : {"addMember"}, project : Projects, user : Users, role : Roles]

Idle == [op |-> "idle"]

\* The reads and checks of a call.
Reads(k) ==
    \/ k.op = "create" /\ CreateRequestReads(k.project, k.type)
    \/ k.op = "update" /\ UpdateRequestReads(k.request, k.type)
    \/ /\ k.op = "approve"
       /\ requests[k.request].status # "none"
       /\ ApproveReads(k.project, k.type)
    \/ k.op = "apply" /\ ApplyReads(k.opportunity, k.user)
    \/ /\ k.op = "assign"
       /\ AssignReads(k.opportunity, k.application)
       /\ k.member \in FindMember(opportunities[k.opportunity].project,
                                  applications[k.application].user)
       /\ k.role = IF k.member = Null THEN Null ELSE members[k.member].role
    \/ /\ k.op = "cancel"
       /\ opportunities[k.opportunity].status # "none"
       /\ k.listed = ApplicationsOf(k.opportunity)
    \/ k.op = "accept" /\ AcceptReads(k.invite, k.user)
    \/ k.op = "deleteInvite" /\ DeleteInviteReads(k.invite)
    \/ k.op = "addMember" /\ AddMemberReads(k.project, k.user)

Begin(s, k) ==
    /\ calls[s] = Idle
    /\ k.op \in Handlers
    /\ Reads(k)
    /\ calls' = [calls EXCEPT ![s] = k]
    /\ UNCHANGED vars

\* The writes of a call.
Writes(k) ==
    \/ k.op = "create" /\ CreateRequestWrites(k.project, k.type)
    \/ k.op = "update" /\ UpdateRequestWrites(k.request, k.type)
    \/ k.op = "approve" /\ ApproveWrites(k.project, k.request, requests[k.request], k.type)
    \/ k.op = "apply" /\ ApplyWrites(k.opportunity, k.user)
    \/ k.op = "assign" /\ AssignWrites(k.opportunity, k.application, k.member, k.role)
    \/ k.op = "cancel" /\ CancelWrites(k.opportunity, k.listed)
    \/ k.op = "accept" /\ AcceptWrites(k.invite, k.status, k.source, k.user)
    \/ k.op = "deleteInvite" /\ DeleteInviteWrites(k.invite)
    \/ k.op = "addMember" /\ AddMemberWrites(k.project, k.user, k.role)

Commit(s) ==
    /\ calls[s] # Idle
    /\ Writes(calls[s])
    /\ calls' = [calls EXCEPT ![s] = Idle]

\* A request may fail before its first write (a lost connection, an aborted
\* transaction, a restart of the service): none of its writes is made.
Abort(s) ==
    /\ calls[s] # Idle
    /\ calls' = [calls EXCEPT ![s] = Idle]
    /\ UNCHANGED vars

\* Handlers whose own reads are not split from their writes here; they come
\* between the reads and writes of the calls in flight all the same.
Whole ==
    \/ /\ "createInvites" \in Handlers
       /\ \E p \in Projects, role \in Roles, u \in Users, s \in OpenInviteStatus :
            CreateInvites(p, role, {u}, {}, s)
    \/ /\ "declineInvite" \in Handlers
       /\ \E i \in InviteIds, s \in InviteStatus : DeclineInvite(i, s)
    \/ /\ "linkInvite" \in Handlers
       /\ \E o \in OpportunityIds, a \in ApplicationIds : LinkInvite(o, a)
    \/ /\ "updateMember" \in Handlers
       /\ \E m \in MemberIds, role \in Roles, primary \in BOOLEAN \cup {Null},
             complete \in BOOLEAN : UpdateMember(m, role, primary, complete)
    \/ "deleteMember" \in Handlers /\ \E m \in MemberIds : DeleteMember(m)
    \/ "deleteProject" \in Handlers /\ \E p \in Projects : DeleteProject(p)

RacesInit == Init /\ calls = [s \in Slots |-> Idle]

RacesNext ==
    \/ \E s \in Slots : \/ \E k \in Call : Begin(s, k)
                        \/ Commit(s)
                        \/ Abort(s)
    \/ Whole /\ UNCHANGED calls

RacesSpec == RacesInit /\ [][RacesNext]_raceVars

-----------------------------------------------------------------------------
RacesTypeOK == TypeOK /\ calls \in [Slots -> Call \cup {Idle}]

\* Nobody is awarded an opportunity without having been made a member, whatever
\* calls interleave: assigning, accepting a linked invite and promoting a manager
\* all leave a member row (deleted since, perhaps) in the opportunity's project or
\* in the project of its request.
AwardedWasMember ==
    \A a \in ApplicationIds : applications[a].status = "accepted" =>
        \E m \in MemberIds :
            /\ members[m].status # "none"
            /\ members[m].user = applications[a].user
            /\ \/ members[m].project = opportunities[applications[a].opportunity].project
               \/ \E r \in RequestIds :
                    /\ r = opportunities[applications[a].opportunity].request
                    /\ members[m].project = requests[r].project

\* The calls in flight that have found no application of u to o.
Applying(o, u) ==
    {s \in Slots : /\ calls[s].op = "apply"
                   /\ calls[s].opportunity = o /\ calls[s].user = u}

\* The lookup of applyToOpportunity is apart from its insert and no index of
\* the table is unique, so a user may apply twice (copilot-application.service.ts:84).
\* But a call that starts after an application was made finds it: applications
\* of one user to one opportunity are never more than the calls that can be in
\* flight at once, whatever happens to applications and opportunity meanwhile.
ApplicationOverrun ==
    \A o \in OpportunityIds, u \in Users :
        Cardinality({a \in ApplicationsOf(o) : applications[a].user = u})
            + Cardinality(Applying(o, u)) <= Cardinality(Slots)

\* The calls in flight that have found u not to be a member of p and are going to
\* make him one.
Joining(p, u) ==
    {s \in Slots :
        \/ /\ calls[s].op = "addMember"
           /\ calls[s].project = p /\ calls[s].user = u
        \/ /\ calls[s].op = "assign" /\ calls[s].member = Null
           /\ opportunities[calls[s].opportunity].project = p
           /\ applications[calls[s].application].user = u}

\* The same of memberships: addMember, an assignment and an accepted invite each
\* look for the member before they insert one (project-member.service.ts:161).  A
\* user's active memberships of a project are never more than the calls that can
\* be in flight, though members leave, invites are accepted and applications are
\* decided between a lookup and its insert.
MembershipOverrun ==
    \A p \in Projects, u \in Users :
        Cardinality(MembersOf(p, u)) + Cardinality(Joining(p, u)) <= Cardinality(Slots)

=============================================================================
