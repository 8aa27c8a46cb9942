------------------------- MODULE AwardTransactions -------------------------
(***************************************************************************)
(* The calls that apply to, award and cancel one copilot opportunity,      *)
(* statement by statement.                                                 *)
(*                                                                         *)
(* assignCopilot and cancelOpportunity each run in an interactive          *)
(* transaction, at PostgreSQL's default isolation (READ COMMITTED): every  *)
(* statement sees what was committed when it starts and what its own       *)
(* transaction has written; a written row stays locked until the           *)
(* transaction ends, and who writes it next waits and then writes over the *)
(* version it finds.  Reads lock nothing.  applyToOpportunity runs outside *)
(* of a transaction.                                                       *)
(*                                                                         *)
(* A call is made once.  Its pc names its next statement.                  *)
(***************************************************************************)
EXTENDS Integers, FiniteSets

CONSTANTS
    Calls,              \* the calls that clients make
    Users,
    Null,
    Opportunity,        \* the one opportunity row
    Request,            \* the row of the request it was opened for
    Applications,       \* ids of the application rows
    Members,            \* ids of the member rows of the opportunity's project
    FirstRoles,         \* the roles of those who are members at the start
    MaxCrashes          \* bounds the calls that fail

Rows == {Opportunity, Request} \cup Applications \cup Members

ASSUME RowsAssumption ==
    /\ Opportunity # Request
    /\ {Opportunity, Request} \cap (Applications \cup Members) = {}
    /\ Applications \cap Members = {}

ASSUME NullIsNoRow == Null \notin Rows /\ Null \notin Users

ASSUME CrashesAssumption == MaxCrashes \in Nat

VARIABLES
    db,         \* the last committed version of every row
    writes,     \* the version of a row a transaction has written, Null when none
    call        \* the progress of every call

vars == <<db, writes, call>>

-----------------------------------------------------------------------------
Status == {"none", "active", "completed", "canceled", "approved", "fulfilled",
           "pending", "accepted"}

\* ProjectMemberRole: customer stands for every role that an award replaces.
MemberRoles == {"customer", "copilot", "manager"}

ASSUME FirstRolesAssumption == FirstRoles \subseteq MemberRoles

\* The roles that an award leaves as they are.
KeptRoles == {"copilot", "manager"}

\* Rows of four tables: user and role are Null where a table has no such column.
Version == [status : Status, user : Users \cup {Null}, role : MemberRoles \cup {Null}]

ASSUME NullIsNoVersion == Null \notin Version

None == [status |-> "none", user |-> Null, role |-> Null]

NoWrites == [r \in Rows |-> Null]

Ended == {"committed", "rejected", "deadlock", "crashed"}

Pc == {"idle", "findExisting", "create", "findApplication", "findMembers", "createMember",
       "updateMember", "accept", "list", "cancelListed", "close", "fulfil", "commit"}
        \cup Ended

\* listed holds the applications a transaction has listed to cancel them.
CallState == [op : {"none", "apply", "assign", "cancel"}, pc : Pc,
              user : Users \cup {Null}, application : Applications \cup {Null},
              member : Members \cup {Null}, listed : SUBSET Applications]

NoCall == [op |-> "none", pc |-> "idle", user |-> Null, application |-> Null,
           member |-> Null, listed |-> {}]

TypeOK ==
    /\ db \in [Rows -> Version]
    /\ writes \in [Calls -> [Rows -> Version \cup {Null}]]
    /\ call \in [Calls -> CallState]
    /\ \A c \in Calls : /\ call[c].op = "assign" <=> call[c].application # Null
                        /\ call[c].pc = "updateMember" => call[c].member # Null

Row(status) == [None EXCEPT !.status = status]

Pending(u)  == [status |-> "pending", user |-> u, role |-> Null]
Joined(u, role) == [status |-> "active", user |-> u, role |-> role]

\* An active opportunity; any applications to it, any members of its project, nobody twice.
Init ==
    /\ \E applications \in [Applications -> {None} \cup {Pending(u) : u \in Users}],
          members \in [Members -> {None} \cup {Joined(u, role) : u \in Users, role \in FirstRoles}] :
         /\ \A m, n \in Members : members[m] # None /\ members[m].user = members[n].user => m = n
         /\ db = [r \in Rows |-> IF r = Opportunity THEN Row("active")
                                 ELSE IF r = Request THEN Row("approved")
                                 ELSE IF r \in Applications THEN applications[r]
                                 ELSE members[r]]
    /\ writes = [c \in Calls |-> NoWrites]
    /\ call = [c \in Calls |-> NoCall]

-----------------------------------------------------------------------------
(* Statements.                                                             *)

\* What a statement of c finds in row r.
Visible(c, r) == IF writes[c][r] = Null THEN db[r] ELSE writes[c][r]

LockedByOther(c, r) == \E d \in Calls \ {c} : writes[d][r] # Null

\* An id the sequence of a table has not handed out.
Unused(r) == db[r] = None /\ \A d \in Calls : writes[d][r] = Null

\* Bound: a call is only made while its table has a row left for it and for every
\* other call that may still insert one.
Room(table, inserting) ==
    Cardinality({c \in Calls : call[c].pc \in inserting})
        < Cardinality({r \in table : Unused(r)})

\* UPDATE by id: waits while another transaction holds the row.
SetStatus(c, r, s) ==
    /\ ~LockedByOther(c, r)
    /\ writes' = [writes EXCEPT ![c][r] = [Visible(c, r) EXCEPT !.status = s]]

At(c, op, pc) == call[c].op = op /\ call[c].pc = pc

GoTo(c, pc) == call' = [call EXCEPT ![c].pc = pc]

VisibleApplications(c) == {a \in Applications : Visible(c, a).status # "none"}

VisibleMembers(c, u) ==
    {m \in Members : Visible(c, m).status = "active" /\ Visible(c, m).user = u}

-----------------------------------------------------------------------------
(* applyToOpportunity                                                      *)

BeginApply(c, u) ==
    /\ call[c] = NoCall
    /\ Room(Applications, {"findExisting", "create"})
    /\ db[Opportunity].status = "active"
    /\ call' = [call EXCEPT ![c] = [NoCall EXCEPT !.op = "apply", !.user = u,
                                                  !.pc = "findExisting"]]
    /\ UNCHANGED <<db, writes>>

FindExisting(c) ==
    /\ At(c, "apply", "findExisting")
    /\ GoTo(c, IF \E a \in VisibleApplications(c) : db[a].user = call[c].user
               THEN "committed" ELSE "create")
    /\ UNCHANGED <<db, writes>>

CreateApplication(c) ==
    /\ At(c, "apply", "create")
    /\ \E a \in Applications :
        /\ Unused(a)
        /\ db' = [db EXCEPT ![a] = Pending(call[c].user)]
    /\ GoTo(c, "committed")
    /\ UNCHANGED writes

-----------------------------------------------------------------------------
(* assignCopilot                                                           *)

BeginAssign(c, a) ==
    /\ call[c] = NoCall
    /\ Room(Members, {"findApplication", "findMembers", "createMember"})
    /\ db[Opportunity].status = "active"
    /\ call' = [call EXCEPT ![c] = [NoCall EXCEPT !.op = "assign", !.application = a,
                                                  !.pc = "findApplication"]]
    /\ UNCHANGED <<db, writes>>

FindApplication(c) ==
    /\ At(c, "assign", "findApplication")
    /\ GoTo(c, IF Visible(c, call[c].application).status \in {"none", "accepted"}
               THEN "rejected" ELSE "findMembers")
    /\ UNCHANGED <<db, writes>>

\* Bug: a member keeps the role it has.
FindMembersAnyRole(c) ==
    LET found == VisibleMembers(c, Visible(c, call[c].application).user)
    IN
    /\ At(c, "assign", "findMembers")
    /\ GoTo(c, IF found = {} THEN "createMember" ELSE "accept")
    /\ UNCHANGED <<db, writes>>

\* The role of the member read here decides whether it is written.
FindMembers(c) ==
    LET found == VisibleMembers(c, Visible(c, call[c].application).user)
    IN
    /\ At(c, "assign", "findMembers")
    /\ \/ /\ found = {}
          /\ GoTo(c, "createMember")
       \/ \E m \in found :
            call' = [call EXCEPT ![c].member = m,
                                 ![c].pc = IF Visible(c, m).role \in KeptRoles THEN "accept"
                                                                    ELSE "updateMember"]
    /\ UNCHANGED <<db, writes>>

CreateMember(c) ==
    /\ At(c, "assign", "createMember")
    /\ \E m \in Members :
        /\ Unused(m)
        /\ writes' = [writes EXCEPT ![c][m] =
                          Joined(Visible(c, call[c].application).user, "copilot")]
    /\ GoTo(c, "accept")
    /\ UNCHANGED db

UpdateMember(c) ==
    LET m == call[c].member
    IN
    /\ At(c, "assign", "updateMember")
    /\ ~LockedByOther(c, m)
    /\ writes' = [writes EXCEPT ![c][m] = [Visible(c, m) EXCEPT !.role = "copilot"]]
    /\ GoTo(c, "accept")
    /\ UNCHANGED db

AcceptApplication(c) ==
    /\ At(c, "assign", "accept")
    /\ SetStatus(c, call[c].application, "accepted")
    /\ GoTo(c, "list")
    /\ UNCHANGED db

\* Bug: only the pending applications are listed.
ListPending(c) ==
    /\ call[c].pc = "list"
    /\ call' = [call EXCEPT
         ![c].listed = {a \in VisibleApplications(c) : Visible(c, a).status = "pending"}
                           \ {call[c].application},
         ![c].pc = "cancelListed"]
    /\ UNCHANGED <<db, writes>>

\* assignCopilot lists the other applications, cancelOpportunity all of them.
ListApplications(c) ==
    /\ call[c].pc = "list"
    /\ call' = [call EXCEPT ![c].listed = VisibleApplications(c) \ {call[c].application},
                            ![c].pc = "cancelListed"]
    /\ UNCHANGED <<db, writes>>

\* Bug: what has been canceled is still to be canceled.
UncanceledForEver(c) == call[c].listed

\* UPDATE ... WHERE id IN (...): one row after the other, in any order.
Uncanceled(c) == {b \in call[c].listed : writes[c][b] = Null}

CancelListed(c) ==
    /\ call[c].pc = "cancelListed"
    /\ \/ /\ \E b \in Uncanceled(c) : SetStatus(c, b, "canceled")
          /\ UNCHANGED call
       \/ /\ Uncanceled(c) = {}
          /\ GoTo(c, "close")
          /\ UNCHANGED writes
    /\ UNCHANGED db

\* Bug: step 7, the opportunity is not completed.
CompleteNothing(c) ==
    /\ At(c, "assign", "close")
    /\ GoTo(c, "fulfil")
    /\ UNCHANGED <<db, writes>>

CompleteOpportunity(c) ==
    /\ At(c, "assign", "close")
    /\ SetStatus(c, Opportunity, "completed")
    /\ GoTo(c, "fulfil")
    /\ UNCHANGED db

FulfilRequest(c) ==
    /\ At(c, "assign", "fulfil")
    /\ SetStatus(c, Request, "fulfilled")
    /\ GoTo(c, "commit")
    /\ UNCHANGED db

-----------------------------------------------------------------------------
(* cancelOpportunity                                                       *)

BeginCancel(c) ==
    /\ call[c] = NoCall
    /\ call' = [call EXCEPT ![c] = [NoCall EXCEPT !.op = "cancel", !.pc = "list"]]
    /\ UNCHANGED <<db, writes>>

\* Bug: a status that the column does not have.
CloseMisspelt(c) ==
    /\ At(c, "cancel", "close")
    /\ SetStatus(c, Opportunity, "cancelled")
    /\ GoTo(c, "commit")
    /\ UNCHANGED db

CloseCanceled(c) ==
    /\ At(c, "cancel", "close")
    /\ SetStatus(c, Opportunity, "canceled")
    /\ GoTo(c, "commit")
    /\ UNCHANGED db

-----------------------------------------------------------------------------
(* The end of a transaction.                                               *)

Commit(c) ==
    /\ call[c].pc = "commit"
    /\ db' = [r \in Rows |-> Visible(c, r)]
    /\ writes' = [writes EXCEPT ![c] = NoWrites]
    /\ GoTo(c, "committed")

RollBack(c, pc) ==
    /\ writes' = [writes EXCEPT ![c] = NoWrites]
    /\ GoTo(c, pc)
    /\ UNCHANGED db

\* The rows the next statement of c writes.
Wanted(c) ==
    CASE call[c].pc = "updateMember" -> {call[c].member}
      [] call[c].pc = "accept"       -> {call[c].application}
      [] call[c].pc = "cancelListed" -> Uncanceled(c)
      [] call[c].pc = "close"        -> {Opportunity}
      [] call[c].pc = "fulfil"       -> {Request}
      [] OTHER                       -> {}

WaitsFor(c) ==
    IF \A r \in Wanted(c) : LockedByOther(c, r)
    THEN {d \in Calls \ {c} : \E r \in Wanted(c) : writes[d][r] # Null}
    ELSE {}

\* c waits, directly or not, for itself.
Deadlocked(c) ==
    \A S \in SUBSET Calls :
        WaitsFor(c) \subseteq S /\ (\A d \in S : WaitsFor(d) \subseteq S) => c \in S

\* PostgreSQL aborts a transaction of a cycle; the handler has no retry.
AbortVictim(c) == Deadlocked(c) /\ RollBack(c, "deadlock")

\* A lost connection, a restart, or the time limit of the transaction.
Crash(c) ==
    /\ call[c].pc \notin Ended \cup {"idle"}
    /\ Cardinality({d \in Calls : call[d].pc = "crashed"}) < MaxCrashes
    /\ RollBack(c, "crashed")

-----------------------------------------------------------------------------
Begin(c) ==
    \/ \E u \in Users : BeginApply(c, u)
    \/ \E a \in Applications : BeginAssign(c, a)
    \/ BeginCancel(c)

Step(c) ==
    \/ FindExisting(c) \/ CreateApplication(c)
    \/ FindApplication(c) \/ FindMembers(c) \/ CreateMember(c) \/ UpdateMember(c)
    \/ AcceptApplication(c) \/ ListApplications(c) \/ CancelListed(c)
    \/ CompleteOpportunity(c) \/ FulfilRequest(c) \/ CloseCanceled(c)
    \/ Commit(c)

Next == \E c \in Calls : Begin(c) \/ Step(c) \/ AbortVictim(c) \/ Crash(c)

Spec == Init /\ [][Next]_vars

\* The event loop runs every call that is not waiting for a row, and PostgreSQL
\* detects every deadlock; nobody has to make a call.
Fairness == \A c \in Calls : WF_vars(Step(c)) /\ WF_vars(AbortVictim(c))

FairSpec == Spec /\ Fairness

-----------------------------------------------------------------------------
Accepted == {a \in Applications : db[a].status = "accepted"}

\* Every commit is one whole award or cancellation of OpportunityAward: however the
\* statements of concurrent assignments and cancellations interleave, an award
\* leaves exactly one accepted application, although every check it makes was made
\* on rows that others may have changed since.
Abstract == INSTANCE OpportunityAward WITH
    status   <- db[Opportunity].status,
    applied  <- {a \in Applications : db[a].status # "none"},
    accepted <- Accepted

ImplementsAward == Abstract!AwardSpec

\* The double-accept guard of assignCopilot.
OneWinner == \A a, b \in Accepted : a = b

\* A completed opportunity has a winner, who is a copilot or a manager of the project,
\* and its request is fulfilled: no part of the transaction is ever seen without the others,
\* nor undone alone by another call.
AwardIsWhole ==
    db[Opportunity].status = "completed" =>
        /\ db[Request].status = "fulfilled"
        /\ \E a \in Accepted, m \in Members :
             db[m].status = "active" /\ db[m].user = db[a].user /\ db[m].role \in KeptRoles

\* Every call ends, by being answered or by being the victim of a deadlock: no set
\* of calls waits for each other's rows for ever.
CallsEnd ==
    \A c \in Calls : call[c].pc \notin Ended \cup {"idle"} ~> call[c].pc \in Ended

\* Once some call has written a row, some call gets the opportunity decided, unless
\* one crashes: aborting the victim of a deadlock lets another one through.
Decided ==
    (\E c \in Calls : writes[c] # NoWrites) ~>
        \/ db[Opportunity].status # "active"
        \/ \E c \in Calls : call[c].pc = "crashed"

-----------------------------------------------------------------------------
(* Why there is one winner: the inductive invariant of the proofs.         *)

HasAccepted == {"list", "cancelListed", "close", "fulfil", "commit"}
HasListed   == {"cancelListed", "close", "fulfil", "commit"}
HasCanceled == {"close", "fulfil", "commit"}

\* An assignment has found its application once it is at one of these.
Found == {"findMembers", "createMember", "updateMember", "accept"} \cup HasAccepted

Assigning(c, pcs) == call[c].op = "assign" /\ call[c].pc \in pcs

\* Two transactions never hold the same row.
LocksExclusive ==
    \A c, d \in Calls, r \in Rows : writes[c][r] # Null /\ writes[d][r] # Null => c = d

\* The statements of a call come in the order of its handler.
InOrder(c) ==
    /\ call[c].pc \in HasAccepted => call[c].op \in {"assign", "cancel"}
    /\ call[c].pc = "fulfil" => call[c].op = "assign"
    /\ call[c].application \notin call[c].listed
    /\ call[c].op = "assign" /\ call[c].pc \in Found =>
         db[call[c].application].status # "none"
    /\ \A b \in call[c].listed : db[b].status # "none"

\* What a transaction has written at each of its statements, no more and no less.
WroteInOrder(c) ==
    /\ \A b \in Applications : writes[c][b] # Null =>
         \/ /\ Assigning(c, HasAccepted) /\ b = call[c].application
            /\ writes[c][b].status = "accepted"
         \/ /\ call[c].pc \in HasListed /\ b \in call[c].listed
            /\ writes[c][b].status = "canceled"
    /\ Assigning(c, HasAccepted) => writes[c][call[c].application] # Null
    /\ call[c].pc \in HasCanceled => \A b \in call[c].listed : writes[c][b] # Null
    /\ Assigning(c, {"fulfil", "commit"}) =>
         /\ writes[c][Opportunity] # Null
         /\ writes[c][Opportunity].status = "completed"
    /\ call[c].op = "cancel" /\ call[c].pc = "commit" =>
         /\ writes[c][Opportunity] # Null
         /\ writes[c][Opportunity].status = "canceled"
    /\ writes[c][Opportunity] # Null => call[c].pc \in {"fulfil", "commit"}

CallsInOrder == \A c \in Calls : InOrder(c) /\ WroteInOrder(c)

\* Of two assignments that have listed, the later one has listed the earlier one's
\* application: the row was committed before either began to write.
ListedEachOther ==
    \A c, d \in Calls : c # d /\ Assigning(c, HasListed) /\ Assigning(d, HasListed) =>
        \/ call[d].application \in call[c].listed
        \/ call[c].application \in call[d].listed

\* An assignment that has listed is going to cancel every committed winner.
WinnersListed ==
    \A c \in Calls, b \in Accepted : Assigning(c, HasListed) =>
        b = call[c].application \/ b \in call[c].listed

AwardInv ==
    /\ TypeOK /\ LocksExclusive /\ CallsInOrder
    /\ ListedEachOther /\ WinnersListed /\ OneWinner

=============================================================================
