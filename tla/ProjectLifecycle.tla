-------------------------- MODULE ProjectLifecycle --------------------------
(***************************************************************************)
(* One project: its status and the history of it, its billing account and  *)
(* the events that announce a change of it, its deletion.                  *)
(*                                                                         *)
(* Calls read the project, write it in a transaction or a statement, read  *)
(* it again and post events, with awaits in between: what a call compares  *)
(* with is the project that it read first.  A call may fail at any await.  *)
(***************************************************************************)
EXTENDS Integers, Sequences, SequencesExt

CONSTANTS
    Status,             \* of projects
    Accounts,           \* ids of billing accounts
    Slots,              \* calls in flight at the same time
    Null, Keep,         \* null, and undefined: the payload does not name the column
    MaxCommits          \* bound on writes

ASSUME LifecycleBounds ==
    MaxCommits \in Nat /\ Null # Keep /\ {Null, Keep} \cap (Status \cup Accounts) = {}

VARIABLES
    project,        \* the row of the project
    history,        \* the statuses of project_history, in the order of their ids
    posted,         \* the changes of the billing account that were announced
    past,           \* the billing accounts after every commit; no code keeps them
    calls           \* the call of every slot

vars == <<project, history, posted, past, calls>>

-----------------------------------------------------------------------------
Account == Accounts \cup {Null}

Project == [state : {"none", "live", "deleted"}, status : Status \cup {Null},
            billing : Account]

\* status and billing are those of the payload, until they are written.  read is the
\* project that the call has read, and readAt the number of commits before it.  change
\* is what an update will announce: at most one pair of the old account and the new.
Call == [op : {"create", "update", "delete"}, pc : {"write", "reread", "post"},
         status : Status \cup {Keep}, billing : Account \cup {Keep},
         read : Project, readAt : 0..MaxCommits,
         change : {{}} \cup {{<<old, new>>} : old, new \in Account}]

Idle == [op |-> "idle"]

TypeOK ==
    /\ project \in Project
    /\ history \in Seq(Status) /\ Len(history) <= MaxCommits
    /\ posted \subseteq Account \X Account
    /\ past \in Seq(Account) /\ Len(past) <= MaxCommits
    /\ calls \in [Slots -> Call \cup {Idle}]

NoProject == [state |-> "none", status |-> Null, billing |-> Null]

Init ==
    /\ project = NoProject
    /\ history = <<>>
    /\ posted = {}
    /\ past = <<>>
    /\ calls = [s \in Slots |-> Idle]

-----------------------------------------------------------------------------
Begin(s, op, status, billing) ==
    /\ calls[s] = Idle
    /\ calls' = [calls EXCEPT ![s] =
            [op |-> op, pc |-> "write", status |-> status, billing |-> billing,
             read |-> project, readAt |-> Len(past), change |-> {}]]
    /\ UNCHANGED <<project, history, posted, past>>

At(s, op, pc) == calls[s] # Idle /\ calls[s].op = op /\ calls[s].pc = pc

\* The call goes on to read the project again, with nothing left of its payload.
Written(s, change) ==
    calls' = [calls EXCEPT ![s] =
        [op |-> @.op, pc |-> "reread", status |-> Keep, billing |-> Keep,
         read |-> NoProject, readAt |-> 0, change |-> change]]

End(s) == calls' = [calls EXCEPT ![s] = Idle]

\* A commit that leaves row and the entries that its transaction adds to the history.
Commit(row, entries) ==
    /\ Len(past) < MaxCommits                       \* bound
    /\ project' = row
    /\ history' = history \o entries
    /\ past' = Append(past, row.billing)
    /\ UNCHANGED posted

\* The column after a write of value.
Column(value, old) == IF value = Keep THEN old ELSE value

-----------------------------------------------------------------------------
(* createProject                                                           *)

BeginCreate(s, status, billing) ==
    /\ project.state = "none"
    /\ Begin(s, "create", status, billing)

WriteCreate(s) ==
    LET k == calls[s]
    IN
    /\ At(s, "create", "write")
    /\ project.state = "none"                       \* one project
    /\ Commit([state |-> "live", status |-> k.status, billing |-> k.billing], <<k.status>>)
    /\ Written(s, {})

-----------------------------------------------------------------------------
(* updateProject                                                           *)

BeginUpdate(s, status, billing) ==
    /\ project.state = "live"
    /\ Begin(s, "update", status, billing)

\* Bug: only the end of a project makes an entry.
EntriesOfEnd(k) ==
    IF k.status \in {"completed", "cancelled"} \ {k.read.status} THEN <<k.status>> ELSE <<>>

\* Bug: a payload without a status makes an entry.
EntriesOfAll(k) == IF k.status # k.read.status THEN <<k.status>> ELSE <<>>

\* statusChanged: an entry of the history.
Entries(k) == IF k.status \notin {Keep, k.read.status} THEN <<k.status>> ELSE <<>>

\* Bug: the change that the payload asked for.
ChangeOfPayload(k, written) ==
    IF k.billing = Keep THEN {} ELSE {<<k.read.billing, k.billing>>}

\* Bug: old and new are swapped.
ChangeSwapped(k, written) ==
    IF written = k.read.billing THEN {} ELSE {<<written, k.read.billing>>}

\* billingAccountChanged: from the account that was read to the one that was written.
Change(k, written) ==
    IF written = k.read.billing THEN {} ELSE {<<k.read.billing, written>>}

Row(k) == [project EXCEPT !.status = Column(k.status, @), !.billing = Column(k.billing, @)]

\* By id: a project deleted since is updated as well.
WriteUpdate(s) ==
    LET k == calls[s]
    IN
    /\ At(s, "update", "write")
    /\ Commit(Row(k), Entries(k))
    /\ Written(s, Change(k, Row(k).billing))

\* The project is looked for again; if it has been deleted the call fails.
Reread(s) ==
    /\ At(s, "create", "reread") \/ At(s, "update", "reread")
    /\ IF project.state = "live" THEN calls' = [calls EXCEPT ![s].pc = "post"] ELSE End(s)
    /\ UNCHANGED <<project, history, posted, past>>

Post(s) ==
    /\ At(s, "create", "post") \/ At(s, "update", "post")
    /\ posted' = posted \cup calls[s].change
    /\ End(s)
    /\ UNCHANGED <<project, history, past>>

-----------------------------------------------------------------------------
(* deleteProject                                                           *)

BeginDelete(s) ==
    /\ project.state = "live"
    /\ Begin(s, "delete", Keep, Keep)

WriteDelete(s) ==
    /\ At(s, "delete", "write")
    /\ Commit([project EXCEPT !.state = "deleted"], <<>>)
    /\ End(s)

\* A query fails, or the process stops.
Abort(s) == calls[s] # Idle /\ End(s) /\ UNCHANGED <<project, history, posted, past>>

-----------------------------------------------------------------------------
Next == \E s \in Slots :
    \/ \E status \in Status, billing \in Account : BeginCreate(s, status, billing)
    \/ \E status \in Status \cup {Keep}, billing \in Account \cup {Keep} :
        BeginUpdate(s, status, billing)
    \/ WriteCreate(s) \/ WriteUpdate(s) \/ Reread(s) \/ Post(s)
    \/ BeginDelete(s) \/ WriteDelete(s)
    \/ Abort(s)

Spec == Init /\ [][Next]_vars

-----------------------------------------------------------------------------
\* The status of a project is in its history, whatever it was when the updates that
\* changed it read it.
StatusRecorded == project.state # "none" => project.status \in ToSet(history)

\* The call in slot s writes the project that it has read.
Alone(s) == calls[s] # Idle /\ calls[s].readAt = Len(past)

\* An update that is alone with the project leaves a history that ends with the status
\* of the project, if it did or the status changes, and is about to announce exactly
\* the change of the account that it made.
AloneTellsAll ==
    [][\A s \in Slots :
        Alone(s) /\ WriteUpdate(s) =>
            /\ project'.status # project.status \/ Last(history) = project.status
                    => Last(history') = project'.status
            /\ calls'[s].change = IF project'.billing = project.billing THEN {}
                                  ELSE {<<project.billing, project'.billing>>}]_vars

\* What is announced has happened: the project had the new account after the old one.
AnnouncedInOrder ==
    \A change \in posted :
        \E i, j \in 1..Len(past) : i < j /\ past[i] = change[1] /\ past[j] = change[2]

=============================================================================
