---------------------------- MODULE Attachments ----------------------------
(* Attachments of a project (project-attachment.service.ts) and the files     *)
(* they stand for.  The row is written first; the file is copied to, or       *)
(* deleted from, the bucket by a request nobody waits for, whose failure is   *)
(* logged and whose place in the order nothing fixes.  The path of a file is  *)
(* made of the project and the base name of its source, so that files of one  *)
(* name share it.                                                             *)
EXTENDS Integers, Sequences

CONSTANTS
    Calls,      \* the calls in flight
    Paths,      \* the paths in the bucket
    MaxRows,    \* bounds the attachments ever created
    MaxMoves    \* bounds the changes of paths

VARIABLES
    attachments,    \* the rows: [type, path, live, past, late]
    bucket,         \* the paths that hold a file
    requests,       \* the requests in the background: [kind, path, row, of]
    handlers,       \* per call [stage, row, type, path]
    moves

vars == <<attachments, bucket, requests, handlers, moves>>

Rows == DOMAIN attachments

Idle == [stage |-> "idle", row |-> 0, type |-> "none", path |-> "none"]

Attachment ==
    [type : {"link", "file"}, path : Paths, live : BOOLEAN, past : SUBSET Paths, late : BOOLEAN]

Handler ==
    [stage : {"idle", "describe", "update", "delete"}, row : Nat, type : {"none", "link", "file"},
     path : Paths \cup {"none"}]

TypeOK ==
    /\ attachments \in Seq(Attachment)
    /\ \A i \in Rows : attachments[i].path \in attachments[i].past
    /\ bucket \subseteq Paths
    /\ requests \subseteq [kind : {"transfer", "delete"}, path : Paths, row : Rows, of : Calls]
    /\ handlers \in [Calls -> Handler]
    /\ moves \in Nat

Init ==
    /\ attachments = <<>>
    /\ bucket = {}
    /\ requests = {}
    /\ handlers = [c \in Calls |-> Idle]
    /\ moves = 0

(* past remembers the paths a row has had, late that a request of it failed,  *)
(* was never made, or was overtaken by a later one.                           *)
Row(type, path) ==
    [type |-> type, path |-> path, live |-> TRUE, past |-> {path}, late |-> FALSE]

IsLate(i) == attachments' = [attachments EXCEPT ![i].late = TRUE]

----------------------------------------------------------------------------
(* createAttachment: a link is whole once it is inserted.  A file is inserted *)
(* with its destination, then described to the caller (its URL is signed, the *)
(* handle of its creator looked up), and only then is the transfer requested. *)

Insert(c, type) ==
    /\ handlers[c].stage = "idle" /\ Len(attachments) < MaxRows
    /\ \E p \in Paths :
        /\ attachments' = Append(attachments, Row(type, p))
        /\ handlers' = [handlers EXCEPT ![c] =
                IF type = "link" THEN Idle
                ELSE [Idle EXCEPT !.stage = "describe", !.row = Len(attachments) + 1, !.path = p]]
    /\ UNCHANGED <<bucket, requests, moves>>

InsertLink(c) == Insert(c, "link")
InsertFile(c) == Insert(c, "file")

RequestTransfer(c) ==
    /\ handlers[c].stage = "describe"
    /\ requests' = requests \cup
            {[kind |-> "transfer", path |-> handlers[c].path, row |-> handlers[c].row, of |-> c]}
    /\ handlers' = [handlers EXCEPT ![c] = Idle]
    /\ UNCHANGED <<attachments, bucket, moves>>

(* The caller is told of an error; the row stays.                             *)
DescriptionFails(c) ==
    /\ handlers[c].stage = "describe"
    /\ IsLate(handlers[c].row)
    /\ handlers' = [handlers EXCEPT ![c] = Idle]
    /\ UNCHANGED <<bucket, requests, moves>>

----------------------------------------------------------------------------
(* updateAttachment and deleteAttachment find the row among those that are    *)
(* not deleted, and write it by id.                                           *)

Find(c, stage) ==
    /\ handlers[c].stage = "idle"
    /\ \E i \in Rows :
        /\ attachments[i].live
        /\ handlers' = [handlers EXCEPT ![c] =
                [stage |-> stage, row |-> i, type |-> attachments[i].type, path |-> attachments[i].path]]
    /\ UNCHANGED <<attachments, bucket, requests, moves>>

FindToUpdate(c) == Find(c, "update")
FindToDelete(c) == Find(c, "delete")

\* Nobody but its creator, and who may update those of others, changes an attachment.
UpdateForbidden(c) ==
    /\ handlers[c].stage = "update"
    /\ handlers' = [handlers EXCEPT ![c] = Idle]
    /\ UNCHANGED <<attachments, bucket, requests, moves>>

(* The path is replaced as it is given; no file moves with it.                *)
Update(c) ==
    /\ handlers[c].stage = "update"
    /\ \/ UNCHANGED <<attachments, moves>>
       \/ /\ moves < MaxMoves /\ moves' = moves + 1
          /\ \E p \in Paths : attachments' = [attachments EXCEPT
                ![handlers[c].row].path = p, ![handlers[c].row].past = @ \cup {p}]
    /\ handlers' = [handlers EXCEPT ![c] = Idle]
    /\ UNCHANGED <<bucket, requests>>

(* Bug: the file behind a link is deleted too.                                *)
DeletesAny(c) == TRUE

(* Only a file has something in the bucket to delete.                         *)
DeletesFile(c) == handlers[c].type = "file"

(* A deletion overtakes a transfer that is still to come.                     *)
Overtakes(i) ==
    \/ \E r \in requests : r.row = i /\ r.kind = "transfer"
    \/ \E d \in Calls : handlers[d].stage = "describe" /\ handlers[d].row = i

Delete(c) ==
    /\ handlers[c].stage = "delete"
    /\ LET i == handlers[c].row
       IN  /\ attachments' = [attachments EXCEPT ![i].live = FALSE, ![i].late = @ \/ Overtakes(i)]
           /\ requests' = requests \cup
                {r \in {[kind |-> "delete", path |-> handlers[c].path, row |-> i, of |-> c]} : DeletesFile(c)}
    /\ handlers' = [handlers EXCEPT ![c] = Idle]
    /\ UNCHANGED <<bucket, moves>>

----------------------------------------------------------------------------
(* The background.                                                            *)

Copied(r) ==
    /\ r.kind = "transfer"
    /\ bucket' = bucket \cup {r.path}
    /\ requests' = requests \ {r}
    /\ UNCHANGED <<attachments, handlers, moves>>

Removed(r) ==
    /\ r.kind = "delete"
    /\ bucket' = bucket \ {r.path}
    /\ requests' = requests \ {r}
    /\ UNCHANGED <<attachments, handlers, moves>>

RequestFails(r) ==
    /\ requests' = requests \ {r}
    /\ IsLate(r.row)
    /\ UNCHANGED <<bucket, handlers, moves>>

(* A process that stops forgets its calls and its background; a request on    *)
(* its way may have been carried out before.                                  *)
Restart ==
    /\ attachments' = [i \in Rows |->
            [attachments[i] EXCEPT !.late =
                \/ @
                \/ \E r \in requests : r.row = i
                \/ \E c \in Calls : handlers[c].stage = "describe" /\ handlers[c].row = i]]
    /\ handlers' = [c \in Calls |-> Idle]
    /\ requests' = {}
    /\ UNCHANGED <<bucket, moves>>

Next ==
    \/ \E c \in Calls :
        \/ InsertLink(c) \/ InsertFile(c) \/ RequestTransfer(c) \/ DescriptionFails(c)
        \/ FindToUpdate(c) \/ FindToDelete(c) \/ UpdateForbidden(c) \/ Update(c) \/ Delete(c)
    \/ \E r \in requests : Copied(r) \/ Removed(r) \/ RequestFails(r)
    \/ Restart

Spec == Init /\ [][Next]_vars

----------------------------------------------------------------------------
(* Properties.                                                                *)

(* The path of a file attachment is its own if no other file attachment has   *)
(* ever had it and it has had no other.                                       *)
OwnPath(i) ==
    /\ attachments[i].past = {attachments[i].path}
    /\ \A j \in Rows \ {i} :
        attachments[j].type = "file" => attachments[i].path \notin attachments[j].past

Settled(i) ==
    /\ ~\E r \in requests : r.row = i
    /\ ~\E c \in Calls : handlers[c].stage = "describe" /\ handlers[c].row = i

(* Row and file agree in spite of the background: the path of a file          *)
(* attachment holds its file as long as the attachment is there, and not      *)
(* longer.  What can come between them is a name that is used twice or        *)
(* changed, and a request that failed, was lost or was overtaken: nothing     *)
(* that other attachments, links and calls in flight do.                      *)
StoredIffLive ==
    \A i \in Rows :
        attachments[i].type = "file" /\ OwnPath(i) /\ Settled(i) /\ ~attachments[i].late =>
            (attachments[i].path \in bucket <=> attachments[i].live)

=============================================================================
