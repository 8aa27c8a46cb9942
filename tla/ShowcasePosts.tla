--------------------------- MODULE ShowcasePosts ---------------------------
(* Showcase posts of a project and the metadata they share with it            *)
(* (project-showcase-post.service.ts).  A post is saved in one transaction    *)
(* with the metadata its payload supplies, which are merged into the details  *)
(* of the project under a lock of the project's row; what the post was like   *)
(* is read before.  Updates of the project replace its details without a look *)
(* at the posts.                                                              *)
EXTENDS Integers, Sequences

CONSTANTS
    Calls,          \* the calls in flight
    Supplies,       \* the metadata a payload may supply: functions of some Keys
    Payloads,       \* the payloads of a save: [status, typed, win, supplied]
    MaxPosts        \* bounds the posts ever created

Keys == {"customer", "smu", "smuOther", "dealCloseDate"}

(* A value is blank, valid or not; an SMU may be a legacy label of "AMPE", or *)
(* ask for a name of its own.  A key that details lack is absent.             *)
Absent == "absent"
Blank == ""
Values == {Absent, Blank, "a", "b", "bad", "APME", "AMPE", "Others"}

ASSUME SuppliesAssumption ==
    \A s \in Supplies : DOMAIN s \subseteq Keys /\ \A k \in DOMAIN s : s[k] \in Values \ {Absent}

Status == {"DRAFT", "PUBLISHED", "ARCHIVED"}

ASSUME PayloadsAssumption ==
    Payloads \subseteq [status : Status \cup {"none"}, typed : BOOLEAN,
                       win : {"none", "yes", "no"}, supplied : Supplies]

ASSUME PostsAssumption == MaxPosts \in Nat \ {0}

VARIABLES
    details,    \* of the project
    deleted,    \* whether the project is
    posts,      \* [status, dated, typed, win] or Gone
    saves       \* per call [stage, post, payload, existing, seen]

vars == <<details, deleted, posts, saves>>

Ids == DOMAIN posts

Gone == [status |-> "gone", dated |-> FALSE, typed |-> FALSE, win |-> FALSE]

----------------------------------------------------------------------------
(* normalizeShowcaseProjectMetadata.                                          *)

Filled(v) == v \notin {Absent, Blank}

NormalizeSmu(v) == IF v = "APME" THEN "AMPE" ELSE v

(* What is saved of the merged metadata: the label of today, and no name of   *)
(* an SMU that has one.                                                       *)
Normalize(d) ==
    LET smu == NormalizeSmu(d["smu"])
    IN  [d EXCEPT !["smu"] = smu,
                  !["smuOther"] = IF smu \in {Absent, "Others"} THEN @ ELSE Blank]

Valid(d, required) ==
    LET smu == NormalizeSmu(d["smu"])
    IN  /\ required => \A k \in {"customer", "smu", "dealCloseDate"} : Filled(d[k])
        /\ smu \in {Absent, Blank, "AMPE", "Others"}
        /\ smu = "Others" => Filled(d["smuOther"])
        /\ d["dealCloseDate"] # "bad"

Merge(d, supplied) == [k \in Keys |-> IF k \in DOMAIN supplied THEN supplied[k] ELSE d[k]]

----------------------------------------------------------------------------

Idle == [stage |-> "idle", post |-> 0, payload |-> <<>>, existing |-> Gone, seen |-> <<>>]

Details == [Keys -> Values]

Post == [status : Status \cup {"gone"}, dated : BOOLEAN, typed : BOOLEAN, win : BOOLEAN]

Save == [stage : {"idle", "begun", "locked", "delete"}, post : Nat, payload : Payloads \cup {<<>>},
         existing : Post, seen : Details \cup {<<>>}]

TypeOK ==
    /\ details \in Details
    /\ deleted \in BOOLEAN
    /\ posts \in Seq(Post) /\ Len(posts) <= MaxPosts
    /\ saves \in [Calls -> Save]

NoDetails == [k \in Keys |-> Absent]

(* Details of any age, and posts from before there were types.                *)
Init ==
    /\ details \in {d \in {Merge(NoDetails, s) : s \in Supplies} : Valid(d, FALSE)}
    /\ deleted = FALSE
    /\ posts \in {<<>>, <<[status |-> "PUBLISHED", dated |-> TRUE, typed |-> FALSE, win |-> FALSE]>>}
    /\ saves = [c \in Calls |-> Idle]

Goto(c, call) == saves' = [saves EXCEPT ![c] = call]

Locked == \E c \in Calls : saves[c].stage = "locked"

\* Whoever manages posts must find the project; a creation gives type and status.
BeginCreate(c) ==
    /\ saves[c].stage = "idle" /\ ~deleted /\ Len(posts) < MaxPosts
    /\ \E p \in Payloads :
        /\ p.typed
        /\ Goto(c, [Idle EXCEPT !.stage = "begun", !.payload = p])
    /\ UNCHANGED <<details, deleted, posts>>

BeginUpdate(c) ==
    /\ saves[c].stage = "idle" /\ ~deleted
    /\ \E i \in Ids, p \in Payloads :
        /\ posts[i] # Gone
        /\ Goto(c, [Idle EXCEPT !.stage = "begun", !.post = i, !.payload = p, !.existing = posts[i]])
    /\ UNCHANGED <<details, deleted, posts>>

BeginDelete(c) ==
    /\ saves[c].stage = "idle" /\ ~deleted
    /\ \E i \in Ids : posts[i] # Gone /\ Goto(c, [Idle EXCEPT !.stage = "delete", !.post = i])
    /\ UNCHANGED <<details, deleted, posts>>

Delete(c) ==
    /\ saves[c].stage = "delete"
    /\ posts' = [posts EXCEPT ![saves[c].post] = Gone]
    /\ Goto(c, Idle)
    /\ UNCHANGED <<details, deleted>>

----------------------------------------------------------------------------
(* The transaction of a save.                                                 *)

Creates(c) == saves[c].post = 0

(* A post that is sent to WIN has a type, of the payload or from before.      *)
HasType(c) == saves[c].payload.typed \/ saves[c].existing.typed

Syncs(c) == Creates(c) \/ saves[c].payload.win = "yes" \/ saves[c].payload.supplied # <<>>

Required(c) ==
    Creates(c) \/ saves[c].payload.win = "yes" \/ (saves[c].payload.win = "none" /\ saves[c].existing.win)

(* Bug: only a post that is in the report already must have a type.           *)
RefusedLater(c) ==
    ~Creates(c) /\ saves[c].payload.win = "yes" /\ ~HasType(c) /\ saves[c].existing.win

Refused(c) ==
    ~Creates(c) /\ saves[c].payload.win = "yes" /\ ~HasType(c)

(* Bug: the details are read without a lock of the row.                       *)
LockProjectFree(c) ==
    /\ saves[c].stage = "begun" /\ ~Refused(c) /\ Syncs(c)
    /\ IF deleted THEN Goto(c, Idle)
       ELSE Goto(c, [saves[c] EXCEPT !.stage = "locked", !.seen = details])
    /\ UNCHANGED <<details, deleted, posts>>

(* syncProjectMetadata locks the project's row with a write and reads the     *)
(* details with it; the project may have been deleted by then.                *)
LockProject(c) ==
    /\ saves[c].stage = "begun" /\ ~Refused(c) /\ Syncs(c) /\ ~Locked
    /\ IF deleted THEN Goto(c, Idle)
       ELSE Goto(c, [saves[c] EXCEPT !.stage = "locked", !.seen = details])
    /\ UNCHANGED <<details, deleted, posts>>

Refuse(c) ==
    /\ saves[c].stage = "begun" /\ Refused(c)
    /\ Goto(c, Idle)
    /\ UNCHANGED <<details, deleted, posts>>

(* The columns a payload gives; the date is set when the post read before was *)
(* not published, and never taken away.                                       *)
Written(post, p, publishes) ==
    [status |-> IF p.status = "none" THEN post.status ELSE p.status,
     dated |-> post.dated \/ publishes,
     typed |-> post.typed \/ p.typed,
     win |-> IF p.win = "none" THEN post.win ELSE p.win = "yes"]

(* Bug: only drafts are dated.                                                *)
PublishesDraft(c) == saves[c].payload.status = "PUBLISHED" /\ saves[c].existing.status = "DRAFT"

Publishes(c) == saves[c].payload.status = "PUBLISHED" /\ saves[c].existing.status # "PUBLISHED"

New == [status |-> "DRAFT", dated |-> FALSE, typed |-> FALSE, win |-> FALSE]

WritePost(c) ==
    LET p == saves[c].payload
        i == saves[c].post
    IN  IF Creates(c)
        THEN Len(posts) < MaxPosts /\ posts' = Append(posts, Written(New, p, Publishes(c)))
        ELSE posts' = [posts EXCEPT ![i] = Written(@, p, Publishes(c))]

(* A save fails, and changes nothing, when the metadata are not valid, when   *)
(* the post was deleted in between, or an industry or category is unknown.    *)
Rollback(c) ==
    /\ saves[c].stage = "locked" \/ (saves[c].stage = "begun" /\ ~Refused(c) /\ ~Syncs(c))
    /\ Goto(c, Idle)
    /\ UNCHANGED <<details, deleted, posts>>

Found(c) == saves[c].post \in {0} \cup {i \in Ids : posts[i] # Gone}

Commit(c) ==
    /\ saves[c].stage = "locked" /\ Found(c)
    /\ LET merged == Merge(saves[c].seen, saves[c].payload.supplied)
       IN  /\ Valid(merged, Required(c))
           /\ details' = Normalize(merged)
    /\ WritePost(c)
    /\ Goto(c, Idle)
    /\ UNCHANGED deleted

\* Nothing of the project's is supplied: the post alone is written.
CommitPost(c) ==
    /\ saves[c].stage = "begun" /\ ~Refused(c) /\ ~Syncs(c) /\ Found(c)
    /\ WritePost(c)
    /\ Goto(c, Idle)
    /\ UNCHANGED <<details, deleted>>

----------------------------------------------------------------------------
(* updateProject and deleteProject, which wait for the row.                   *)

ReplaceDetails ==
    /\ ~deleted /\ ~Locked
    /\ \E s \in Supplies :
        /\ Valid(Merge(NoDetails, s), FALSE)
        /\ details' = Normalize(Merge(NoDetails, s))
    /\ UNCHANGED <<deleted, posts, saves>>

DeleteProject ==
    /\ ~deleted /\ ~Locked
    /\ deleted' = TRUE
    /\ UNCHANGED <<details, posts, saves>>

Next ==
    \/ \E c \in Calls :
        \/ BeginCreate(c) \/ BeginUpdate(c) \/ BeginDelete(c) \/ Delete(c)
        \/ Refuse(c) \/ LockProject(c) \/ Rollback(c) \/ Commit(c) \/ CommitPost(c)
    \/ ReplaceDetails \/ DeleteProject

Spec == Init /\ [][Next]_vars

----------------------------------------------------------------------------
(* Properties.                                                                *)

(* A published post has the date of a publication, although whether to set it *)
(* is decided on a status that may have changed since.                        *)
PublishedHasDate == \A i \in Ids : posts[i].status = "PUBLISHED" => posts[i].dated

(* A post of the WIN report has a type, although posts from before there were *)
(* types are updated by payloads that leave it out.                           *)
WinHasType == \A i \in Ids : posts[i].win => posts[i].typed

(* "concurrent showcase saves cannot overwrite each other's unrelated         *)
(* Project.details keys" (syncProjectMetadata): a save changes the keys that  *)
(* it supplies, writes the label of today for a legacy one, and blanks the    *)
(* name of an SMU that has one.                                               *)
KeptBySaves(k, c) ==
    \/ k \in DOMAIN saves[c].payload.supplied
    \/ details'[k] = details[k]
    \/ k = "smu" /\ details'[k] = NormalizeSmu(details[k])
    \/ k = "smuOther" /\ details'[k] = Blank /\ details'["smu"] # "Others"

SavesKeepOtherKeys ==
    [][\A c \in Calls, k \in Keys :
        saves[c].stage = "locked" /\ saves'[c] = Idle => KeptBySaves(k, c)]_vars

=============================================================================
