----------------------- MODULE ProjectLifecycle_proofs -----------------------
(* What holds of the history and of the announced changes for any number   *)
(* of calls, statuses and accounts.                                        *)
EXTENDS ProjectLifecycle, SequenceTheorems, TLAPS

\* The project had the new account after the old one.
Ordered(change) ==
    \E i, j \in 1..Len(past) : i < j /\ past[i] = change[1] /\ past[j] = change[2]

\* The last commit left the row, and every entry of the history came with one.
Current ==
    /\ Len(history) <= Len(past)
    /\ project.state # "none" => Len(past) >= 1 /\ past[Len(past)] = project.billing

\* What a call in flight knows: a creation names its columns, the others have found a
\* project, an update has read a recorded status and the account of an earlier commit,
\* or of the last one with all of the project, and what it will announce has happened.
Staged(s) ==
    calls[s] # Idle =>
        /\ calls[s].op = "create" /\ calls[s].pc = "write" =>
                calls[s].status \in Status /\ calls[s].billing \in Account
        /\ calls[s].op \in {"update", "delete"} => project.state # "none"
        /\ calls[s].op = "update" /\ calls[s].pc = "write" =>
                /\ calls[s].readAt \in 1..Len(past)
                /\ past[calls[s].readAt] = calls[s].read.billing
                /\ calls[s].read.status \in ToSet(history)
                /\ calls[s].readAt = Len(past) => calls[s].read = project
        /\ \A change \in calls[s].change : Ordered(change)

\* The inductive invariant.
Inv == /\ TypeOK /\ Current /\ StatusRecorded /\ AnnouncedInOrder
       /\ \A s \in Slots : Staged(s)

-----------------------------------------------------------------------------
LEMMA InitInv == Init => Inv
<1> SUFFICES ASSUME Init PROVE Inv
    OBVIOUS
<1>1. TypeOK
    BY LifecycleBounds DEF Init, TypeOK, NoProject, Project, Account
<1>2. Current /\ StatusRecorded /\ AnnouncedInOrder /\ \A s \in Slots : Staged(s)
    BY DEF Init, Current, StatusRecorded, AnnouncedInOrder, Staged, NoProject, Idle
<1> QED
    BY <1>1, <1>2 DEF Inv

\* A call that is not idle is one of the type.
LEMMA InFlight == ASSUME TypeOK, NEW s \in Slots, calls[s] # Idle PROVE calls[s] \in Call
BY DEF TypeOK

\* Any call may end.
LEMMA EndKeeps ==
    ASSUME Inv, NEW s \in Slots, End(s), UNCHANGED <<project, history, posted, past>>
    PROVE  Inv'
<1>1. calls' \in [Slots -> Call \cup {Idle}]
    BY DEF Inv, TypeOK, End
<1>2. \A t \in Slots : calls'[t] = Idle \/ calls'[t] = calls[t]
    BY DEF Inv, TypeOK, End
<1>3. ASSUME NEW t \in Slots PROVE Staged(t)'
    BY <1>2 DEF Inv, Staged, Ordered
<1> QED
    BY <1>1, <1>3 DEF Inv, TypeOK, Current, StatusRecorded, AnnouncedInOrder

-----------------------------------------------------------------------------
\* A commit records the status it leaves, and takes nothing from history and past.
LEMMA CommitKeeps ==
    ASSUME Inv, NEW row \in Project, NEW entries \in Seq(Status), Len(entries) <= 1,
           row.state # "none", row.status \in ToSet(history \o entries),
           Commit(row, entries)
    PROVE  /\ project' \in Project /\ project'.state # "none"
           /\ history' \in Seq(Status) /\ Len(history') <= MaxCommits
           /\ past' \in Seq(Account) /\ Len(past') = Len(past) + 1 /\ Len(past') <= MaxCommits
           /\ past'[Len(past) + 1] = row.billing
           /\ \A i \in 1..Len(past) : past'[i] = past[i]
           /\ ToSet(history) \subseteq ToSet(history')
           /\ \A change : Ordered(change) => Ordered(change)'
           /\ Current' /\ StatusRecorded' /\ AnnouncedInOrder'
<1> USE LifecycleBounds
<1>1. /\ past \in Seq(Account) /\ history \in Seq(Status) /\ row.billing \in Account
      /\ Len(past) \in Nat /\ Len(history) \in Nat /\ Len(entries) \in Nat
      /\ Len(history) <= Len(past)
    BY DEF Inv, TypeOK, Current, Project
<1>2. /\ past' = Append(past, row.billing) /\ history' = history \o entries
      /\ project' = row /\ posted' = posted /\ Len(past) < MaxCommits
    BY DEF Commit
<1>3. /\ past' \in Seq(Account) /\ Len(past') = Len(past) + 1
      /\ past'[Len(past) + 1] = row.billing
      /\ \A i \in 1..Len(past) : past'[i] = past[i]
    BY <1>1, <1>2, AppendProperties
<1>4. /\ history' \in Seq(Status) /\ Len(history') = Len(history) + Len(entries)
      /\ \A i \in 1..Len(history) : history'[i] = history[i]
    BY <1>1, <1>2, ConcatProperties
<1>5. ToSet(history) \subseteq ToSet(history')
    <2>1. DOMAIN history = 1..Len(history) /\ DOMAIN history' = 1..Len(history')
        BY <1>1, <1>4
    <2>2. \A i \in DOMAIN history : i \in DOMAIN history' /\ history'[i] = history[i]
        BY <1>1, <1>4, <2>1
    <2> QED
        BY <2>2, Zenon DEF ToSet
<1>6. ASSUME NEW change, Ordered(change) PROVE Ordered(change)'
    <2>1. PICK i, j \in 1..Len(past) : i < j /\ past[i] = change[1] /\ past[j] = change[2]
        BY <1>6 DEF Ordered
    <2>2. i \in 1..Len(past') /\ j \in 1..Len(past')
        BY <1>1, <1>3
    <2> QED
        BY <2>1, <2>2, <1>3 DEF Ordered
<1>7. Current'
    BY <1>1, <1>2, <1>3, <1>4 DEF Current
<1>8. StatusRecorded'
    BY <1>2 DEF StatusRecorded
<1>9. AnnouncedInOrder'
    BY <1>2, <1>6 DEF Inv, AnnouncedInOrder, Ordered
<1>10. Len(past') <= MaxCommits /\ Len(history') <= MaxCommits
    BY <1>1, <1>2, <1>3, <1>4
<1> QED
    BY <1>2, <1>3, <1>4, <1>5, <1>6, <1>7, <1>8, <1>9, <1>10

\* A call that a commit does not belong to knows what it knew.
LEMMA OthersStaged ==
    ASSUME Inv, NEW t \in Slots, calls'[t] = calls[t],
           project'.state # "none", Len(past') = Len(past) + 1,
           \A i \in 1..Len(past) : past'[i] = past[i],
           ToSet(history) \subseteq ToSet(history'),
           \A change : Ordered(change) => Ordered(change)'
    PROVE  Staged(t)'
<1> SUFFICES ASSUME calls[t] # Idle PROVE Staged(t)'
    BY DEF Staged
<1>1. Staged(t) /\ Len(past) \in Nat
    BY DEF Inv, TypeOK
<1>2. \A change \in calls'[t].change : Ordered(change)'
    BY <1>1 DEF Staged
<1>3. calls'[t].op = "update" /\ calls'[t].pc = "write" =>
        /\ calls'[t].readAt \in 1..Len(past')
        /\ past'[calls'[t].readAt] = calls'[t].read.billing
        /\ calls'[t].read.status \in ToSet(history')
        /\ calls'[t].readAt # Len(past')
    BY <1>1 DEF Staged
<1> QED
    BY <1>1, <1>2, <1>3 DEF Staged

\* The call of a commit goes on with a change that has happened, or ends.
LEMMA WrittenKeeps ==
    ASSUME Inv, NEW s \in Slots, calls[s] # Idle, posted' = posted,
           NEW change \in {{}} \cup {{<<old, new>>} : old, new \in Account},
           Written(s, change),
           \A c \in change : Ordered(c)',
           NEW row \in Project, NEW entries \in Seq(Status), Len(entries) <= 1,
           row.state # "none", row.status \in ToSet(history \o entries),
           Commit(row, entries)
    PROVE  Inv'
<1> USE LifecycleBounds
<1>1. calls[s] \in Call
    BY InFlight DEF Inv
<1> DEFINE next == [op |-> calls[s].op, pc |-> "reread", status |-> Keep, billing |-> Keep,
                    read |-> NoProject, readAt |-> 0, change |-> change]
<1>2. next \in Call
    <2>1. NoProject \in Project /\ 0 \in 0..MaxCommits /\ Keep \in Account \cup {Keep}
        BY DEF NoProject, Project, Account
    <2>2. calls[s].op \in {"create", "update", "delete"}
        BY <1>1 DEF Call
    <2> QED
        BY <2>1, <2>2 DEF Call
<1>3. calls' = [calls EXCEPT ![s] = next]
    BY DEF Written
<1>4. calls' \in [Slots -> Call \cup {Idle}]
    BY <1>2, <1>3 DEF Inv, TypeOK
<1>5. TypeOK'
    BY <1>4, CommitKeeps DEF Inv, TypeOK
<1>6. calls'[s] = next
    BY <1>3 DEF Inv, TypeOK
<1>7. Staged(s)'
    BY <1>6, CommitKeeps DEF Staged
<1>8. ASSUME NEW t \in Slots, t # s PROVE Staged(t)'
    <2>1. calls'[t] = calls[t]
        BY <1>3, <1>8 DEF Inv, TypeOK
    <2> QED
        BY <2>1, CommitKeeps, OthersStaged
<1> QED
    BY <1>5, <1>7, <1>8, CommitKeeps DEF Inv

-----------------------------------------------------------------------------
\* What a call reads when it begins is the project of the last commit.
LEMMA BeginKeeps ==
    ASSUME Inv, NEW s \in Slots, NEW op \in {"create", "update", "delete"},
           NEW status \in Status \cup {Keep}, NEW billing \in Account \cup {Keep},
           Begin(s, op, status, billing),
           op = "create" => status \in Status /\ billing \in Account,
           op # "create" => project.state = "live"
    PROVE  Inv'
<1> USE LifecycleBounds
<1> DEFINE next == [op |-> op, pc |-> "write", status |-> status, billing |-> billing,
                    read |-> project, readAt |-> Len(past), change |-> {}]
<1>1. calls' = [calls EXCEPT ![s] = next] /\ UNCHANGED <<project, history, posted, past>>
    BY DEF Begin
<1>2. Len(past) \in 0..MaxCommits
    BY DEF Inv, TypeOK
<1>3. next \in Call
    BY <1>2 DEF Inv, TypeOK, Call
<1>4. calls' \in [Slots -> Call \cup {Idle}]
    BY <1>1, <1>3 DEF Inv, TypeOK
<1>5. calls'[s] = next /\ \A t \in Slots \ {s} : calls'[t] = calls[t]
    BY <1>1 DEF Inv, TypeOK
<1>6. Staged(s)'
    <2>1. op # "create" =>
            /\ Len(past) \in 1..Len(past) /\ past[Len(past)] = project.billing
            /\ project.status \in ToSet(history)
        BY <1>2 DEF Inv, Current, StatusRecorded
    <2> QED
        BY <1>1, <1>5, <2>1 DEF Staged
<1>7. ASSUME NEW t \in Slots \ {s} PROVE Staged(t)'
    BY <1>1, <1>5 DEF Inv, Staged, Ordered
<1> QED
    BY <1>1, <1>4, <1>6, <1>7 DEF Inv, TypeOK, Current, StatusRecorded, AnnouncedInOrder

LEMMA CreateKeeps == ASSUME Inv, NEW s \in Slots, WriteCreate(s) PROVE Inv'
<1> DEFINE k == calls[s]
           row == [state |-> "live", status |-> k.status, billing |-> k.billing]
           entries == <<k.status>>
<1>1. /\ k # Idle /\ k.status \in Status /\ k.billing \in Account
      /\ Commit(row, entries) /\ Written(s, {})
    BY DEF WriteCreate, At, Inv, Staged
<1>2. row \in Project /\ row.state # "none"
    BY <1>1 DEF Project
<1>3. entries \in Seq(Status) /\ Len(entries) <= 1
    BY <1>1
<1>4. row.status \in ToSet(history \o entries)
    <2>1. history \in Seq(Status) /\ Len(history) \in Nat
        BY DEF Inv, TypeOK
    <2>2. (history \o entries)[Len(history) + 1] = k.status
          /\ Len(history) + 1 \in DOMAIN (history \o entries)
        BY <1>1, <2>1
    <2> QED
        BY <2>2 DEF ToSet
<1>5. posted' = posted
    BY <1>1 DEF Commit
<1>6. {} \in {{}} \cup {{<<old, new>>} : old, new \in Account}
    OBVIOUS
<1>7. \A c \in {} : Ordered(c)'
    OBVIOUS
<1> HIDE DEF row, entries, k
<1> QED
    BY <1>1, <1>2, <1>3, <1>4, <1>5, <1>6, <1>7, WrittenKeeps DEF k

\* The status that an update leaves was there, was read, or gets an entry.
LEMMA UpdateRecords ==
    ASSUME Inv, NEW s \in Slots, WriteUpdate(s)
    PROVE  /\ Row(calls[s]) \in Project /\ Row(calls[s]).state # "none"
           /\ Entries(calls[s]) \in Seq(Status) /\ Len(Entries(calls[s])) <= 1
           /\ Row(calls[s]).status \in ToSet(history \o Entries(calls[s]))
<1> USE LifecycleBounds
<1> DEFINE k == calls[s]
<1>1. /\ k \in Call /\ k # Idle /\ k.op = "update" /\ k.pc = "write"
      /\ project.state # "none"
      /\ k.read.status \in ToSet(history) /\ history \in Seq(Status) /\ Len(history) \in Nat
    BY InFlight DEF WriteUpdate, At, Inv, Staged, TypeOK
<1>2. k.status \in Status \cup {Keep} /\ k.billing \in Account \cup {Keep} /\ project \in Project
    BY <1>1 DEF Call, Inv, TypeOK
<1>3. Row(k) = [project EXCEPT !.status = Column(k.status, project.status),
                               !.billing = Column(k.billing, project.billing)]
    BY DEF Row
<1>4. Row(k) \in Project /\ Row(k).state # "none" /\ Row(k).status = Column(k.status, project.status)
    BY <1>1, <1>2, <1>3 DEF Project, Column
<1>5. Entries(k) \in Seq(Status) /\ Len(Entries(k)) <= 1
    BY <1>2 DEF Entries
<1>6. \A x \in ToSet(history) : x \in ToSet(history \o Entries(k))
    BY <1>1, <1>5, ConcatProperties DEF ToSet
<1>7. Row(k).status \in ToSet(history \o Entries(k))
    <2>1. CASE k.status = Keep
        BY <2>1, <1>1, <1>4, <1>6 DEF Column, Inv, StatusRecorded
    <2>2. CASE k.status # Keep /\ k.status = k.read.status
        BY <2>2, <1>1, <1>4, <1>6 DEF Column
    <2>3. CASE k.status \notin {Keep, k.read.status}
        <3>1. Entries(k) = <<k.status>>
            BY <2>3 DEF Entries
        <3>2. (history \o <<k.status>>)[Len(history) + 1] = k.status
              /\ Len(history) + 1 \in DOMAIN (history \o <<k.status>>)
            BY <1>1, <1>2, <2>3
        <3> QED
            BY <3>1, <3>2, <1>4, <2>3 DEF ToSet, Column
    <2> QED
        BY <2>1, <2>2, <2>3
<1> QED
    BY <1>4, <1>5, <1>7

\* The old account of the change is that of the commit that was read, the new one that
\* of this commit.
LEMMA UpdateKeeps == ASSUME Inv, NEW s \in Slots, WriteUpdate(s) PROVE Inv'
<1> DEFINE k == calls[s]
           new == Row(k).billing
<1>1. /\ k \in Call /\ k # Idle
      /\ Commit(Row(k), Entries(k)) /\ Written(s, Change(k, new))
      /\ k.readAt \in 1..Len(past) /\ past[k.readAt] = k.read.billing
    BY InFlight DEF WriteUpdate, At, Inv, Staged
<1>2. /\ Len(past') = Len(past) + 1 /\ past'[Len(past) + 1] = new
      /\ \A i \in 1..Len(past) : past'[i] = past[i]
    BY <1>1, UpdateRecords, CommitKeeps
<1>3. k.read.billing \in Account /\ new \in Account
    BY <1>1, UpdateRecords DEF Call, Project
<1>4. Change(k, new) \in {{}} \cup {{<<a, b>>} : a, b \in Account}
    BY <1>3 DEF Change
<1>5. \A c \in Change(k, new) : Ordered(c)'
    <2> SUFFICES ASSUME NEW c \in Change(k, new) PROVE Ordered(c)'
        OBVIOUS
    <2>1. c = <<k.read.billing, new>>
        BY DEF Change
    <2>2. /\ k.readAt \in 1..Len(past') /\ Len(past) + 1 \in 1..Len(past')
          /\ k.readAt < Len(past) + 1
        BY <1>1, <1>2 DEF Inv, TypeOK
    <2>3. past'[k.readAt] = c[1] /\ past'[Len(past) + 1] = c[2]
        BY <1>1, <1>2, <2>1
    <2> QED
        BY <2>2, <2>3 DEF Ordered
<1>6. posted' = posted
    BY <1>1 DEF Commit
<1> HIDE DEF new
<1> QED
    BY <1>1, <1>4, <1>5, <1>6, UpdateRecords, WrittenKeeps

LEMMA DeleteKeeps == ASSUME Inv, NEW s \in Slots, WriteDelete(s) PROVE Inv'
<1> DEFINE row == [project EXCEPT !.state = "deleted"]
<1>1. project.state # "none" /\ Commit(row, <<>>) /\ End(s)
    BY DEF WriteDelete, At, Inv, Staged
<1>2. row \in Project /\ row.state # "none" /\ row.status = project.status
    BY DEF Inv, TypeOK, Project
<1>3. <<>> \in Seq(Status) /\ Len(<<>>) <= 1 /\ history \o <<>> = history
    BY DEF Inv, TypeOK
<1>4. row.status \in ToSet(history \o <<>>)
    BY <1>1, <1>2, <1>3 DEF Inv, StatusRecorded
<1> HIDE DEF row
<1>5. calls' \in [Slots -> Call \cup {Idle}]
    BY <1>1 DEF Inv, TypeOK, End
<1>6. TypeOK'
    BY <1>1, <1>2, <1>3, <1>4, <1>5, CommitKeeps DEF Inv, TypeOK, Commit
<1>7. ASSUME NEW t \in Slots PROVE Staged(t)'
    <2>1. calls'[t] = Idle \/ calls'[t] = calls[t]
        BY <1>1 DEF Inv, TypeOK, End
    <2>2. CASE calls'[t] = Idle
        BY <2>2 DEF Staged, Idle
    <2>3. CASE calls'[t] = calls[t]
        BY <2>3, <1>1, <1>2, <1>3, <1>4, CommitKeeps, OthersStaged
    <2> QED
        BY <2>1, <2>2, <2>3
<1> QED
    BY <1>1, <1>2, <1>3, <1>4, <1>6, <1>7, CommitKeeps DEF Inv

LEMMA RereadKeeps == ASSUME Inv, NEW s \in Slots, Reread(s) PROVE Inv'
<1>1. CASE project.state # "live"
    BY <1>1, EndKeeps DEF Reread
<1>2. CASE project.state = "live"
    <2>1. calls[s] \in Call /\ calls[s].pc = "reread"
        BY InFlight DEF Reread, At, Inv
    <2>2. calls' = [calls EXCEPT ![s] = [calls[s] EXCEPT !.pc = "post"]]
          /\ UNCHANGED <<project, history, posted, past>>
        BY <1>2 DEF Reread
    <2>3. [calls[s] EXCEPT !.pc = "post"] \in Call
        BY <2>1 DEF Call
    <2>4. calls' \in [Slots -> Call \cup {Idle}]
        BY <2>2, <2>3 DEF Inv, TypeOK
    <2>5. calls'[s] = [calls[s] EXCEPT !.pc = "post"] /\ \A t \in Slots \ {s} : calls'[t] = calls[t]
        BY <2>2 DEF Inv, TypeOK
    <2>6. calls'[s].op = calls[s].op /\ calls'[s].pc = "post" /\ calls'[s].change = calls[s].change
          /\ calls[s] # Idle
        BY <2>1, <2>5 DEF Call, Reread, At
    <2>7. Staged(s)'
        BY <2>2, <2>6, <1>2 DEF Inv, Staged, Ordered
    <2>8. ASSUME NEW t \in Slots \ {s} PROVE Staged(t)'
        BY <2>2, <2>5 DEF Inv, Staged, Ordered
    <2> QED
        BY <2>2, <2>4, <2>7, <2>8 DEF Inv, TypeOK, Current, StatusRecorded, AnnouncedInOrder
<1> QED
    BY <1>1, <1>2

LEMMA PostKeeps == ASSUME Inv, NEW s \in Slots, Post(s) PROVE Inv'
<1>1. calls[s] \in Call /\ calls[s] # Idle
    BY InFlight DEF Post, At, Inv
<1>2. posted' = posted \cup calls[s].change /\ End(s) /\ UNCHANGED <<project, history, past>>
    BY DEF Post
<1>3. calls[s].change \subseteq Account \X Account
    BY <1>1 DEF Call
<1>4. calls' \in [Slots -> Call \cup {Idle}]
    BY <1>2 DEF Inv, TypeOK, End
<1>5. TypeOK'
    BY <1>2, <1>3, <1>4 DEF Inv, TypeOK
<1>6. AnnouncedInOrder'
    <2> SUFFICES ASSUME NEW change \in posted \cup calls[s].change PROVE Ordered(change)
        BY <1>2 DEF AnnouncedInOrder, Ordered
    <2>1. CASE change \in posted
        BY <2>1 DEF Inv, AnnouncedInOrder, Ordered
    <2>2. CASE change \in calls[s].change
        BY <2>2, <1>1 DEF Inv, Staged
    <2> QED
        BY <2>1, <2>2
<1>7. \A t \in Slots : calls'[t] = Idle \/ calls'[t] = calls[t]
    BY <1>2 DEF Inv, TypeOK, End
<1>8. ASSUME NEW t \in Slots PROVE Staged(t)'
    BY <1>2, <1>7 DEF Inv, Staged, Ordered
<1> QED
    BY <1>2, <1>5, <1>6, <1>8 DEF Inv, Current, StatusRecorded

LEMMA NextInv == Inv /\ [Next]_vars => Inv'
<1> SUFFICES ASSUME Inv, [Next]_vars PROVE Inv'
    OBVIOUS
<1>1. ASSUME NEW s \in Slots, NEW status \in Status, NEW billing \in Account,
             BeginCreate(s, status, billing)
      PROVE  Inv'
    BY <1>1, BeginKeeps DEF BeginCreate
<1>2. ASSUME NEW s \in Slots, NEW status \in Status \cup {Keep},
             NEW billing \in Account \cup {Keep}, BeginUpdate(s, status, billing)
      PROVE  Inv'
    BY <1>2, BeginKeeps DEF BeginUpdate
<1>3. ASSUME NEW s \in Slots, BeginDelete(s) PROVE Inv'
    BY <1>3, BeginKeeps DEF BeginDelete
<1>4. ASSUME NEW s \in Slots, Abort(s) PROVE Inv'
    BY <1>4, EndKeeps DEF Abort
<1>5. CASE UNCHANGED vars
    BY <1>5 DEF vars, Inv, TypeOK, Current, StatusRecorded, AnnouncedInOrder, Staged, Ordered
<1> QED
    BY <1>1, <1>2, <1>3, <1>4, <1>5, CreateKeeps, UpdateKeeps, DeleteKeeps, RereadKeeps,
       PostKeeps DEF Next

\* An update that is alone compares with the project that it writes.
LEMMA AloneTells ==
    ASSUME Inv, NEW s \in Slots, Alone(s), WriteUpdate(s)
    PROVE  /\ project'.status # project.status \/ Last(history) = project.status
                    => Last(history') = project'.status
           /\ calls'[s].change = IF project'.billing = project.billing THEN {}
                                 ELSE {<<project.billing, project'.billing>>}
<1> USE LifecycleBounds
<1> DEFINE k == calls[s]
<1>1. /\ k \in Call /\ k.read = project /\ Commit(Row(k), Entries(k))
      /\ Written(s, Change(k, Row(k).billing))
    BY InFlight DEF WriteUpdate, At, Inv, Staged, Alone
<1>2. project' = Row(k) /\ history' = history \o Entries(k)
    BY <1>1 DEF Commit
<1>3. calls'[s].change = Change(k, Row(k).billing)
    BY <1>1 DEF Written, Inv, TypeOK
<1>4. calls'[s].change = IF project'.billing = project.billing THEN {}
                         ELSE {<<project.billing, project'.billing>>}
    BY <1>1, <1>2, <1>3 DEF Change
<1>5. Row(k).status = Column(k.status, project.status)
    BY DEF Row, Inv, TypeOK, Project
<1>6. history \in Seq(Status) /\ k.status \in Status \cup {Keep}
    BY <1>1 DEF Inv, TypeOK, Call
<1>7. CASE k.status \in {Keep, project.status}
    <2>1. Entries(k) = <<>> /\ project'.status = project.status
        BY <1>1, <1>2, <1>5, <1>7 DEF Entries, Column
    <2>2. history' = history
        BY <1>2, <1>6, <2>1
    <2> QED
        BY <1>4, <2>1, <2>2
<1>8. CASE k.status \notin {Keep, project.status}
    <2>1. Entries(k) = <<k.status>> /\ project'.status = k.status
        BY <1>1, <1>2, <1>5, <1>8 DEF Entries, Column
    <2>2. Last(history \o <<k.status>>) = k.status
        BY <1>6, <1>8 DEF Last
    <2> QED
        BY <1>2, <1>4, <2>1, <2>2
<1> QED
    BY <1>7, <1>8

-----------------------------------------------------------------------------
\* The tables and the calls keep their types under createProject, updateProject and
\* deleteProject, for any bounds.
THEOREM TypeCorrect == Spec => []TypeOK
<1>1. Inv => TypeOK
    BY DEF Inv
<1> QED
    BY <1>1, InitInv, NextInv, PTL DEF Spec

\* The status of a project is in its history, although updateProject decides on an
\* entry by the status it read before its transaction.
THEOREM StatusRecordedCorrect == Spec => []StatusRecorded
<1>1. Inv => StatusRecorded
    BY DEF Inv
<1> QED
    BY <1>1, InitInv, NextInv, PTL DEF Spec

\* A change of the billing account that is announced has happened, although the old
\* account is the one that updateProject read before its transaction.
THEOREM AnnouncedInOrderCorrect == Spec => []AnnouncedInOrder
<1>1. Inv => AnnouncedInOrder
    BY DEF Inv
<1> QED
    BY <1>1, InitInv, NextInv, PTL DEF Spec

\* updateProject leaves a history that ends with the status it wrote, and announces the
\* change of the billing account that it made, when nobody wrote the project since it
\* was read.
THEOREM AloneTellsAllCorrect == Spec => AloneTellsAll
<1>1. ASSUME Inv
      PROVE  \A s \in Slots :
                Alone(s) /\ WriteUpdate(s) =>
                    /\ project'.status # project.status \/ Last(history) = project.status
                            => Last(history') = project'.status
                    /\ calls'[s].change = IF project'.billing = project.billing THEN {}
                                          ELSE {<<project.billing, project'.billing>>}
    BY <1>1, AloneTells
<1> QED
    BY <1>1, InitInv, NextInv, PTL DEF Spec, AloneTellsAll

=============================================================================
