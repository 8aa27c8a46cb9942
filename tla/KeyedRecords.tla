---------------------------- MODULE KeyedRecords ----------------------------
(* The services that keep rows under a key: project settings, work management *)
(* permissions, org configs, project types, product categories, and the       *)
(* industries and categories of showcase posts.  All of them look for a row   *)
(* of the key and then write, in statements of their own, and leave the rest  *)
(* to the unique index, if there is one; they differ in what they look at.    *)
(* An operation of a service is the record of how it goes about it:           *)
(*   template  whether it looks for the project template of the key first     *)
(*   guarded   whether the permission kept in the row, or in the payload, may *)
(*             refuse the caller                                              *)
(*   lookup    which rows of the key it looks for: "no", "live", "all"        *)
(*   when      an update looks if the key "moves", is "given", or "always"    *)
(*   hard      a deletion removes the row                                     *)
(*   caught    errors of the database are translated for the caller           *)
EXTENDS Integers, Sequences

CONSTANTS
    Services,   \* the services looked at, of those below
    Halves,     \* the values of each half of a key
    Calls,      \* the calls in flight
    MaxRows     \* bounds the rows ever created

VARIABLES
    service,    \* the one this is about, chosen at the start
    rows,       \* its rows: [key, state, raced]
    templates,  \* the second halves that name a template that is not deleted
    calls       \* per call [op, stage, row, key, patch, look, answer, alone]

vars == <<service, rows, templates, calls>>

----------------------------------------------------------------------------
(* The services.                                                              *)

Plain == [template |-> FALSE, guarded |-> FALSE, lookup |-> "no", when |-> "always",
          hard |-> FALSE, caught |-> TRUE]

SettingCreate == [Plain EXCEPT !.guarded = TRUE, !.lookup = "all"]
SettingUpdate ==
    [Plain EXCEPT !.guarded = TRUE, !.lookup = "live", !.when = "moves", !.caught = FALSE]
SettingDelete == [Plain EXCEPT !.guarded = TRUE, !.caught = FALSE]

(* Bug: the errors of the database are passed on.                             *)
PermissionCreateUncaught ==
    [Plain EXCEPT !.template = TRUE, !.lookup = "live", !.caught = FALSE]

PermissionCreate == [Plain EXCEPT !.template = TRUE, !.lookup = "live"]

PermissionUpdate == [Plain EXCEPT !.template = TRUE, !.lookup = "live"]
PermissionDelete == Plain

OrgConfigCreate == [Plain EXCEPT !.lookup = "live"]

(* Bug: an update looks for nothing.                                          *)
OrgConfigUpdateUnlooked == Plain

OrgConfigUpdate == [Plain EXCEPT !.lookup = "live", !.when = "given"]

OrgConfigDelete == Plain

(* The key of a type or category is its id: no update changes it.             *)
TypeCreate == [Plain EXCEPT !.lookup = "all"]
TypeUpdate == Plain
TypeDelete == Plain

ProductCategoryCreate == TypeCreate
ProductCategoryUpdate == TypeUpdate
ProductCategoryDelete == TypeDelete

IndustryCreate == [Plain EXCEPT !.lookup = "all"]
IndustryUpdate == [Plain EXCEPT !.caught = FALSE]
IndustryDelete == [Plain EXCEPT !.hard = TRUE, !.caught = FALSE]

PostCategoryCreate == IndustryCreate
PostCategoryUpdate == IndustryUpdate
PostCategoryDelete == IndustryDelete

(* index: a unique index over all rows, deleted ones included.  halves: the   *)
(* parts of the key.  changes: whether an update may change them.             *)
ServiceOf(create, update, delete) ==
    [create |-> create, update |-> update, delete |-> delete,
     index |-> TRUE, halves |-> {1}, changes |-> TRUE]

Operations ==
    [settings |-> ServiceOf(SettingCreate, SettingUpdate, SettingDelete),
     permissions |->
        [ServiceOf(PermissionCreate, PermissionUpdate, PermissionDelete) EXCEPT !.halves = {1, 2}],
     orgConfigs |->
        [ServiceOf(OrgConfigCreate, OrgConfigUpdate, OrgConfigDelete)
            EXCEPT !.halves = {1, 2}, !.index = FALSE],
     types |-> [ServiceOf(TypeCreate, TypeUpdate, TypeDelete) EXCEPT !.changes = FALSE],
     productCategories |->
        [ServiceOf(ProductCategoryCreate, ProductCategoryUpdate, ProductCategoryDelete)
            EXCEPT !.changes = FALSE],
     industries |-> ServiceOf(IndustryCreate, IndustryUpdate, IndustryDelete),
     postCategories |-> ServiceOf(PostCategoryCreate, PostCategoryUpdate, PostCategoryDelete)]

Operation(c) == service[calls[c].op]

----------------------------------------------------------------------------

Keys == [service.halves -> Halves]

Ids == DOMAIN rows

Idle == [op |-> "none", stage |-> "idle", row |-> 0, key |-> <<>>, patch |-> {},
         look |-> FALSE, answer |-> "none", alone |-> FALSE]

(* The halves of a key that a payload gives, or all of them.                  *)
GivenKeys == UNION {[halves -> Halves] : halves \in SUBSET service.halves}

Row == [key : Keys, state : {"live", "deleted", "gone"}, raced : BOOLEAN]

Call ==
    [op : {"none", "create", "update", "delete"},
     stage : {"idle", "row", "admit", "lookup", "write", "ended"},
     row : Nat, key : GivenKeys \cup {<<>>}, patch : SUBSET service.halves, look : BOOLEAN,
     answer : {"none", "unhandled"}, alone : BOOLEAN]

TypeOK ==
    /\ service \in {Operations[s] : s \in Services}
    /\ rows \in Seq(Row) /\ Len(rows) <= MaxRows
    /\ templates \subseteq Halves
    /\ calls \in [Calls -> Call]

Init ==
    /\ service \in {Operations[s] : s \in Services}
    /\ rows = <<>>
    /\ templates = Halves
    /\ calls = [c \in Calls |-> Idle]

(* A call is alone while no other is in flight.                               *)
Begin(c, call) ==
    LET flying == {d \in Calls \ {c} : calls[d].stage \notin {"idle", "ended"}}
    IN  /\ calls[c].stage \in {"idle", "ended"}
        /\ calls' = [d \in Calls |->
            IF d = c THEN [call EXCEPT !.alone = flying = {}]
            ELSE [calls[d] EXCEPT !.alone = FALSE]]
        /\ UNCHANGED <<service, rows, templates>>

Admission(op) == IF op.template \/ op.guarded THEN "admit" ELSE "lookup"

BeginCreate(c) ==
    \E k \in Keys :
        Begin(c, [Idle EXCEPT !.op = "create", !.key = k, !.look = TRUE,
                              !.stage = Admission(service.create)])

(* The payload of an update gives some halves of the key.                     *)
BeginUpdate(c) ==
    \E i \in Ids, halves \in SUBSET (IF service.changes THEN service.halves ELSE {}) :
        \E given \in [halves -> Halves] :
            Begin(c, [Idle EXCEPT !.op = "update", !.stage = "row", !.row = i,
                                  !.key = given, !.patch = halves])

BeginDelete(c) ==
    \E i \in Ids : Begin(c, [Idle EXCEPT !.op = "delete", !.stage = "row", !.row = i])

Goto(c, stage) ==
    /\ calls' = [calls EXCEPT ![c].stage = stage]
    /\ UNCHANGED <<service, rows, templates>>

(* Of a call that ended only an unhandled error is kept.                      *)
End(c, answer) ==
    /\ calls' = [calls EXCEPT
            ![c] = IF answer = "unhandled" THEN [@ EXCEPT !.stage = "ended", !.answer = answer]
                   ELSE Idle]
    /\ UNCHANGED <<service, templates>>

Refuse(c, answer) == End(c, answer) /\ UNCHANGED rows

(* The key the row gets, seen from the row as it is now: halves that the      *)
(* payload does not give are neither written nor compared.                    *)
KeyOf(c) ==
    IF calls[c].op = "create" THEN calls[c].key
    ELSE [h \in service.halves |->
            IF h \in calls[c].patch THEN calls[c].key[h] ELSE rows[calls[c].row].key[h]]

Holders(key, states) == {i \in Ids : rows[i].key = key /\ rows[i].state \in states}

----------------------------------------------------------------------------

(* Reads the row of an update or deletion; an update completes its key with   *)
(* the halves read, and sees whether it has to look for that key.             *)
FindRow(c) ==
    /\ calls[c].stage = "row"
    /\ LET op == Operation(c)
           i == calls[c].row
           moves == KeyOf(c) # rows[i].key
       IN  \/ rows[i].state # "live" /\ Refuse(c, "NotFound")
           \/ rows[i].state = "live" /\ op.guarded /\ Refuse(c, "Forbidden")
           \/ /\ rows[i].state = "live"
              /\ calls' = [calls EXCEPT
                    ![c].stage = CASE calls[c].op = "delete" -> "write"
                                   [] op.template -> "admit"
                                   [] OTHER -> "lookup",
                    ![c].key = IF calls[c].op = "update" THEN KeyOf(c) ELSE @,
                    ![c].look = /\ op.lookup # "no"
                                /\ op.when = "moves" => moves
                                /\ op.when = "given" => calls[c].patch # {}]
              /\ UNCHANGED <<service, rows, templates>>

(* The template of the key, and the permission in the payload of a setting    *)
(* that is created.                                                           *)
Admit(c) ==
    /\ calls[c].stage = "admit"
    /\ LET op == Operation(c)
           known == op.template => calls[c].key[2] \in templates
       IN  \/ ~known /\ Refuse(c, "NotFound")
           \/ known /\ op.guarded /\ Refuse(c, "Forbidden")
           \/ known /\ Goto(c, "lookup")

Lookup(c) ==
    /\ calls[c].stage = "lookup"
    /\ LET states == IF Operation(c).lookup = "all" THEN {"live", "deleted"} ELSE {"live"}
           found == calls[c].look /\ Holders(calls[c].key, states) \ {calls[c].row} # {}
       IN  IF found THEN Refuse(c, "Conflict") ELSE Goto(c, "write")

(* What the caller is told of an error of the database.                       *)
Told(c, answer) == IF Operation(c).caught THEN answer ELSE "unhandled"

Collides(c) ==
    service.index /\ Holders(KeyOf(c), {"live", "deleted"}) \ {calls[c].row} # {}

(* P2002 and P2003 of a setting that is created are translated on the spot.   *)
Insert(c) ==
    /\ calls[c].stage = "write" /\ calls[c].op = "create"
    /\ IF Collides(c) THEN Refuse(c, Told(c, "Conflict"))
       ELSE /\ Len(rows) < MaxRows
            /\ rows' = Append(rows, [key |-> calls[c].key, state |-> "live",
                                     raced |-> ~calls[c].alone])
            /\ End(c, "done")

(* Rows are written by id: one that was deleted in between is written too,    *)
(* one that is gone is an error.                                              *)
Update(c) ==
    /\ calls[c].stage = "write" /\ calls[c].op = "update"
    /\ LET i == calls[c].row
           key == KeyOf(c)
       IN  CASE rows[i].state = "gone" -> Refuse(c, Told(c, "NotFound"))
             [] rows[i].state # "gone" /\ Collides(c) -> Refuse(c, Told(c, "Conflict"))
             [] OTHER ->
                  /\ rows' = [rows EXCEPT
                        ![i].key = key,
                        ![i].raced = IF key = rows[i].key THEN @ ELSE ~calls[c].alone]
                  /\ End(c, "done")

Delete(c) ==
    /\ calls[c].stage = "write" /\ calls[c].op = "delete"
    /\ LET i == calls[c].row
       IN  IF rows[i].state = "gone" THEN Refuse(c, Told(c, "NotFound"))
           ELSE /\ rows' = [rows EXCEPT
                        ![i].state = IF Operation(c).hard THEN "gone" ELSE "deleted"]
                /\ End(c, "done")

\* A template is deleted, by the service of the templates; one is enough here.
DeleteTemplate ==
    /\ service.create.template
    /\ templates = Halves
    /\ \E t \in Halves : templates' = Halves \ {t}
    /\ UNCHANGED <<service, rows, calls>>

Next ==
    \/ \E c \in Calls :
        \/ BeginCreate(c) \/ BeginUpdate(c) \/ BeginDelete(c)
        \/ FindRow(c) \/ Admit(c) \/ Lookup(c) \/ Insert(c) \/ Update(c) \/ Delete(c)
    \/ DeleteTemplate

Spec == Init /\ [][Next]_vars

----------------------------------------------------------------------------
(* Properties.                                                                *)

(* Two rows of one key are live only where no index forbids it, and then one  *)
(* of them got its key in a call that was not alone: whatever halves of keys  *)
(* are changed, looking before writing is enough for calls that do not race.  *)
DuplicatesAreRaces ==
    \A i, j \in Ids :
        i # j /\ {rows[i].state, rows[j].state} = {"live"} /\ rows[i].key = rows[j].key =>
            ~service.index /\ (rows[i].raced \/ rows[j].raced)

(* An error of the database reaches the caller as it is in two places only,   *)
(* unless calls raced: a setting that moves to the key of a deleted one,      *)
(* which the lookup leaves out and the index counts, and a post taxonomy that *)
(* is renamed without a lookup.  No creation ends so, raced or not.           *)
UnhandledHasCause ==
    \A c \in Calls :
        calls[c].answer = "unhandled" =>
            /\ calls[c].op # "create"
            /\ calls[c].alone =>
                  /\ calls[c].op = "update"
                  /\ Holders(calls[c].key, {"deleted"}) # {} \/ service.update.lookup = "no"

=============================================================================
