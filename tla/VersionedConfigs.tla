-------------------------- MODULE VersionedConfigs --------------------------
(***************************************************************************)
(* The versioned configurations of one key - forms, plan configurations    *)
(* and price configurations - and the templates that refer to them.        *)
(*                                                                         *)
(* A row is numbered by its version and its revision.  Rows are only ever  *)
(* marked deleted, the lookups skip deleted rows and the unique index      *)
(* (key, version, revision) does not.  The three services are the same     *)
(* code on three tables: an action takes the table as its argument.        *)
(*                                                                         *)
(* No call is a transaction: each statement is a step, and a call may fail *)
(* between any two of them.                                                *)
(***************************************************************************)
EXTENDS Integers, FiniteSets

CONSTANTS
    Tables,             \* {"form", "planConfig", "priceConfig"} or some of them
    Templates,          \* ids of project templates
    Slots,              \* calls in flight at the same time
    Null, Keep,
    MaxVersion,         \* bounds of every table
    MaxRevision

Versions(table)  == 1..MaxVersion[table]
Revisions(table) == 1..MaxRevision[table]

ASSUME ConfigBounds ==
    /\ Tables \subseteq {"form", "planConfig", "priceConfig"} /\ Tables # {}
    /\ MaxVersion \in [Tables -> Nat] /\ MaxRevision \in [Tables -> Nat \ {0}]
    /\ Null # Keep /\ {Null, Keep} \cap Int = {}

VARIABLES
    stored,         \* the numbers <<version, revision>> of the rows of each table
    live,           \* of those that are not deleted
    templates,      \* project_templates
    calls           \* the call of every slot

vars == <<stored, live, templates, calls>>

-----------------------------------------------------------------------------
\* The legacy column that a table takes the place of.
LegacyOf(table) == IF table = "planConfig" THEN "phases" ELSE "scope"

Legacy == {LegacyOf(table) : table \in Tables}

Reference(table) == Versions(table) \cup {Null}

AnyReference == UNION {Reference(table) : table \in Tables}

\* A reference to each table, or one of the values in more instead.
References(more) ==
    {r \in [Tables -> AnyReference \cup more] :
        \A table \in Tables : r[table] \in Reference(table) \cup more}

\* legacy holds the legacy columns that are not null.
Template == [state : {"none", "live", "deleted"}, legacy : SUBSET Legacy,
             refs : References({})]

Ops == {"createRow", "deleteVersion", "deleteRevision",
        "createTemplate", "updateTemplate", "upgradeTemplate"}

\* pc is the next statement.  A call that writes a template validates the references in
\* turn; todo holds the tables it has not come to and refs what it found so far, or
\* Keep.  legacy is what an upgrade has read.  table, version and revision number the
\* row that a call creates or deletes.
Call == [op : Ops, pc : {"validate", "latest", "insert", "write"},
         table : Tables \cup {Null}, version : Nat, revision : Nat,
         template : Templates \cup {Null}, legacy : SUBSET Legacy,
         todo : SUBSET Tables, refs : References({Keep})]

Idle == [op |-> "idle"]

TypeOK ==
    /\ {stored, live} \subseteq [Tables -> SUBSET (Nat \X Nat)]
    /\ \A table \in Tables :
        /\ live[table] \subseteq stored[table]
        /\ stored[table] \subseteq Versions(table) \X Revisions(table)
    /\ templates \in [Templates -> Template]
    /\ calls \in [Slots -> Call \cup {Idle}]

Init ==
    /\ stored = [table \in Tables |-> {}]
    /\ live = [table \in Tables |-> {}]
    /\ templates \in [Templates ->
                        {[state |-> st, legacy |-> l, refs |-> [table \in Tables |-> Null]] :
                            st \in {"none", "live"}, l \in SUBSET Legacy}]
    /\ calls = [s \in Slots |-> Idle]

-----------------------------------------------------------------------------
(* Numbers.                                                                *)

LiveVersions(table) == {n[1] : n \in live[table]}

LiveRevisions(table, v) == {n[2] : n \in {m \in live[table] : m[1] = v}}

\* findFirst with orderBy desc, or 0
Latest(S) == IF S = {} THEN 0 ELSE CHOOSE x \in S : \A y \in S : y <= x

NextVersion(table) == Latest(LiveVersions(table)) + 1

NextRevision(table, v) == Latest(LiveRevisions(table, v)) + 1

\* Bug: the index has a condition deletedAt is null.
TakenByLive(table, n) == n \in live[table]

\* The unique index refuses the number.
Taken(table, n) == n \in stored[table]

-----------------------------------------------------------------------------
(* Calls.                                                                  *)

NewCall == [op |-> "createRow", pc |-> "insert", table |-> Null, version |-> 0,
            revision |-> 0, template |-> Null, legacy |-> {}, todo |-> {},
            refs |-> [table \in Tables |-> Keep]]

Begin(s, k) ==
    /\ calls[s] = Idle
    /\ calls' = [calls EXCEPT ![s] = k]
    /\ UNCHANGED <<stored, live, templates>>

At(s, pc) == calls[s] # Idle /\ calls[s].pc = pc

End(s) == calls' = [calls EXCEPT ![s] = Idle]

\* A call fails: an error of the database, or a check that refuses.
Abort(s) == calls[s] # Idle /\ End(s) /\ UNCHANGED <<stored, live, templates>>

-----------------------------------------------------------------------------
(* form.service, plan-config.service, price-config.service.  updateVersion *)
(* writes no modelled column.                                              *)

BeginCreateVersion(s, table) ==
    /\ NextVersion(table) \in Versions(table)       \* bound
    /\ Begin(s, [NewCall EXCEPT !.table = table, !.version = NextVersion(table), !.revision = 1])

\* Bug: a version that does not exist gets a revision.
BeginCreateAnyRevision(s, table, v) ==
    /\ NextRevision(table, v) \in Revisions(table)  \* bound
    /\ Begin(s, [NewCall EXCEPT !.table = table, !.version = v,
                                !.revision = NextRevision(table, v)])

BeginCreateRevision(s, table, v) ==
    /\ v \in LiveVersions(table)
    /\ NextRevision(table, v) \in Revisions(table)  \* bound
    /\ Begin(s, [NewCall EXCEPT !.table = table, !.version = v,
                                !.revision = NextRevision(table, v)])

\* An upgrade goes on with the version it has created as its reference.
Insert(s) ==
    LET k == calls[s]
        n == <<k.version, k.revision>>
    IN
    /\ At(s, "insert") /\ ~Taken(k.table, n)
    /\ stored' = [stored EXCEPT ![k.table] = @ \cup {n}]
    /\ live' = [live EXCEPT ![k.table] = @ \cup {n}]
    /\ IF k.op = "upgradeTemplate"
       THEN calls' = [calls EXCEPT ![s].pc = IF k.todo = {} THEN "write" ELSE "validate",
                                   ![s].refs[k.table] = k.version,
                                   ![s].table = Null, ![s].version = 0, ![s].revision = 0]
       ELSE End(s)
    /\ UNCHANGED templates

BeginDeleteVersion(s, table, v) ==
    /\ v \in LiveVersions(table)
    /\ Begin(s, [NewCall EXCEPT !.op = "deleteVersion", !.pc = "write",
                                !.table = table, !.version = v])

\* updateMany looks for the rows of the version again.
WriteDeleteVersion(s) ==
    LET k == calls[s]
    IN
    /\ At(s, "write") /\ k.op = "deleteVersion"
    /\ live' = [live EXCEPT ![k.table] = {n \in @ : n[1] # k.version}]
    /\ End(s)
    /\ UNCHANGED <<stored, templates>>

BeginDeleteRevision(s, table, n) ==
    /\ n \in live[table]
    /\ Begin(s, [NewCall EXCEPT !.op = "deleteRevision", !.pc = "write",
                                !.table = table, !.version = n[1], !.revision = n[2]])

WriteDeleteRevision(s) ==
    LET k == calls[s]
    IN
    /\ At(s, "write") /\ k.op = "deleteRevision"
    /\ live' = [live EXCEPT ![k.table] = @ \ {<<k.version, k.revision>>}]
    /\ End(s)
    /\ UNCHANGED <<stored, templates>>

-----------------------------------------------------------------------------
(* project-template.service                                                *)

\* form, then planConfig, then priceConfig
Precedes == {<<"form", "planConfig">>, <<"form", "priceConfig">>, <<"planConfig", "priceConfig">>}

First(todo) == CHOOSE table \in todo : \A t \in todo \ {table} : <<table, t>> \in Precedes

BeginCreateTemplate(s, t) ==
    /\ templates[t].state = "none"
    /\ Begin(s, [NewCall EXCEPT !.op = "createTemplate", !.pc = "validate", !.template = t,
                                !.todo = Tables])

BeginUpdateTemplate(s, t) ==
    /\ templates[t].state = "live"
    /\ Begin(s, [NewCall EXCEPT !.op = "updateTemplate", !.pc = "validate", !.template = t,
                                !.todo = Tables])

\* The upgrade keeps the references and legacy columns that it has read.
BeginUpgradeTemplate(s, t) ==
    /\ templates[t].state = "live"
    /\ Begin(s, [NewCall EXCEPT !.op = "upgradeTemplate", !.pc = "validate", !.template = t,
                                !.legacy = templates[t].legacy, !.todo = Tables,
                                !.refs = templates[t].refs])

\* Bug: a given version is not looked for.
FoundAny(table, requested) ==
    IF requested = 0 THEN LiveVersions(table) # {} ELSE TRUE

\* A live row of the requested version, or of any if that is 0.
Found(table, requested) ==
    IF requested = 0 THEN LiveVersions(table) # {} ELSE requested \in LiveVersions(table)

\* Bug: the template keeps 0.
ResolvedLater(table, requested) == requested

\* validateVersionedReference: 0 stands for the latest version.
Resolved(table, requested) ==
    IF requested = 0 THEN Latest(LiveVersions(table)) ELSE requested

\* The next reference of the call is resolved to ref, and the call goes on.
Validated(s, ref) ==
    LET k     == calls[s]
        table == First(k.todo)
        todo  == k.todo \ {table}
    IN
    /\ calls' = [calls EXCEPT ![s].todo = todo, ![s].refs[table] = ref,
                              ![s].pc = IF todo = {} THEN "write" ELSE "validate"]
    /\ UNCHANGED <<stored, live, templates>>

ValidateReference(s, requested) ==
    LET table == First(calls[s].todo)
    IN
    /\ At(s, "validate")
    /\ Found(table, requested)
    /\ Validated(s, Resolved(table, requested))

\* The reference is not given: a new template has none, others keep theirs; or it is
\* null, which an upgrade does not keep.
NoReference(s, given) ==
    LET k == calls[s]
    IN
    /\ At(s, "validate")
    /\ \/ k.op = "createTemplate" /\ Validated(s, Null)
       \/ k.op = "updateTemplate" /\ Validated(s, IF given THEN Null ELSE Keep)
       \/ k.op = "upgradeTemplate" /\ ~given /\ k.refs[First(k.todo)] # Null
            /\ Validated(s, k.refs[First(k.todo)])

\* An upgrade without a reference creates a version from the legacy column.
UpgradeFromLegacy(s, given) ==
    LET k     == calls[s]
        table == First(k.todo)
    IN
    /\ At(s, "validate") /\ k.op = "upgradeTemplate"
    /\ given \/ k.refs[table] = Null
    /\ LegacyOf(table) \in k.legacy
    /\ calls' = [calls EXCEPT ![s].pc = "latest", ![s].table = table,
                              ![s].todo = @ \ {table}, ![s].refs[table] = Null]
    /\ UNCHANGED <<stored, live, templates>>

\* createVersion, called by the upgrade.
FindLatest(s) ==
    LET table == calls[s].table
    IN
    /\ At(s, "latest")
    /\ NextVersion(table) \in Versions(table)       \* bound
    /\ calls' = [calls EXCEPT ![s].pc = "insert", ![s].version = NextVersion(table),
                              ![s].revision = 1]
    /\ UNCHANGED <<stored, live, templates>>

\* validateTemplateConfigConstraints: a call that gives a reference does not give the
\* legacy column it replaces.
Exclusive(refs, legacy) ==
    \A table \in Tables : refs[table] \in {Null, Keep} \/ LegacyOf(table) \notin legacy

\* legacy and clear are the legacy columns that the call sets and sets to null.
WriteTemplate(s, legacy, clear) ==
    LET k   == calls[s]
        row == templates[k.template]
        written == CASE k.op = "createTemplate" -> legacy
                     [] k.op = "updateTemplate" -> (row.legacy \cup legacy) \ clear
                     [] k.op = "upgradeTemplate" -> {}
    IN
    /\ At(s, "write")
    /\ k.op \in {"createTemplate", "updateTemplate", "upgradeTemplate"}
    /\ k.op = "createTemplate" => row.state = "none"
    /\ IF k.op = "upgradeTemplate" THEN legacy = {} ELSE Exclusive(k.refs, legacy)
    /\ k.op # "updateTemplate" => clear = {}
    /\ templates' = [templates EXCEPT ![k.template] =
            [state  |-> IF k.op = "createTemplate" THEN "live" ELSE row.state,
             legacy |-> written,
             refs   |-> [table \in Tables |->
                            IF k.refs[table] = Keep THEN row.refs[table] ELSE k.refs[table]]]]
    /\ End(s)
    /\ UNCHANGED <<stored, live>>

DeleteTemplate(t) ==
    /\ templates[t].state = "live"
    /\ templates' = [templates EXCEPT ![t].state = "deleted"]
    /\ UNCHANGED <<stored, live, calls>>

-----------------------------------------------------------------------------
ConfigCall(s) ==
    \/ \E table \in Tables :
        \/ BeginCreateVersion(s, table)
        \/ \E v \in Versions(table) :
            BeginCreateRevision(s, table, v) \/ BeginDeleteVersion(s, table, v)
        \/ \E n \in live[table] : BeginDeleteRevision(s, table, n)
    \/ Insert(s) \/ WriteDeleteVersion(s) \/ WriteDeleteRevision(s)

TemplateCall(s) ==
    \/ \E t \in Templates :
        BeginCreateTemplate(s, t) \/ BeginUpdateTemplate(s, t) \/ BeginUpgradeTemplate(s, t)
    \/ \E requested \in UNION {Versions(table) : table \in Tables} \cup {0} :
        ValidateReference(s, requested)
    \/ \E given \in BOOLEAN : NoReference(s, given) \/ UpgradeFromLegacy(s, given)
    \/ FindLatest(s)
    \/ \E legacy \in SUBSET Legacy : \E clear \in SUBSET (Legacy \ legacy) :
        WriteTemplate(s, legacy, clear)

Next ==
    \/ \E s \in Slots : ConfigCall(s) \/ TemplateCall(s) \/ Abort(s)
    \/ \E t \in Templates : DeleteTemplate(t)

Spec == Init /\ [][Next]_vars

-----------------------------------------------------------------------------
\* The numbers that were ever given are without gaps: versions 1, 2, ..., each with
\* revisions 1, 2, ..., whatever was deleted in between and whichever calls raced.
Gapless ==
    \A table \in Tables : \A n \in stored[table] :
        /\ n[1] > 1 => <<n[1] - 1, 1>> \in stored[table]
        /\ n[2] > 1 => <<n[1], n[2] - 1>> \in stored[table]

\* A row that is created is the one the lookups find from then on: the latest revision
\* of its version, and a first revision the latest version, although its number was
\* chosen from rows that may have been deleted, or followed by others, since.
CreatedIsLatest ==
    [][\A table \in Tables : \A n \in live'[table] \ live[table] :
        /\ \A m \in live'[table] : m[1] = n[1] => m[2] <= n[2]
        /\ n[2] = 1 => \A m \in live'[table] : m[1] <= n[1]]_vars

\* A template refers to versions that were created, deleted since or not.
ReferencesCreated ==
    \A t \in Templates, table \in Tables :
        templates[t].refs[table] # Null => <<templates[t].refs[table], 1>> \in stored[table]

\* createVersion "creates a new version for a key with revision 1": the number it
\* chooses is free.  Refuted by a run: the latest version is looked for among rows that
\* are not deleted, and the number after it may belong to a deleted one.
NextVersionIsFree ==
    \A table \in Tables : ~Taken(table, <<NextVersion(table), 1>>)

=============================================================================
