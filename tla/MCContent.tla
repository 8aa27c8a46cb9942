----------------------------- MODULE MCContent -----------------------------
(* The services of a project's content and of keyed metadata.  They share no  *)
(* state: a behavior is about one of them, its subject.                       *)
EXTENDS ShowcasePosts, TLC

CONSTANTS Services, Halves, MaxRows, Paths, MaxAttachments, MaxMoves

VARIABLES
    subject,
    service, rows, templates, calls,
    attachments, bucket, requests, handlers, moves

Records == INSTANCE KeyedRecords
Files == INSTANCE Attachments WITH MaxRows <- MaxAttachments

ASSUME RecordsAssumption == MaxRows \in Nat /\ Services \subseteq DOMAIN Records!Operations

recordVars == <<service, rows, templates, calls>>
fileVars == <<attachments, bucket, requests, handlers, moves>>

Symmetry == Permutations(Calls) \cup Permutations(Halves) \cup Permutations(Paths)

Full == ("customer" :> "a") @@ ("smu" :> "AMPE") @@ ("dealCloseDate" :> "a")

MCSupplies ==
    {<<>>, Full, "customer" :> "b", "customer" :> Blank, "smu" :> "APME", "smu" :> "Others",
     "smuOther" :> "b", "dealCloseDate" :> "bad"}

Payload(status, typed, win, supplied) ==
    [status |-> status, typed |-> typed, win |-> win, supplied |-> supplied]

MCPayloads ==
    {Payload("none", TRUE, "yes", Full), Payload("DRAFT", TRUE, "none", Full),
     Payload("PUBLISHED", FALSE, "none", <<>>), Payload("ARCHIVED", FALSE, "no", <<>>),
     Payload("none", FALSE, "yes", <<>>)}
    \cup {Payload("none", FALSE, "none", s) : s \in MCSupplies \ {<<>>, Full}}

NoPosts ==
    /\ details = NoDetails /\ deleted = FALSE /\ posts = <<>>
    /\ saves = [c \in Calls |-> Idle]

NoRecords ==
    /\ service = <<>> /\ rows = <<>> /\ templates = {}
    /\ calls = [c \in Calls |-> Records!Idle]

MCInit ==
    /\ subject \in {"posts", "records", "files"}
    /\ IF subject = "posts" THEN Init ELSE NoPosts
    /\ IF subject = "records" THEN Records!Init ELSE NoRecords
    /\ Files!Init

MCNext ==
    \/ subject = "posts" /\ Next /\ UNCHANGED <<subject, recordVars, fileVars>>
    \/ subject = "records" /\ Records!Next /\ UNCHANGED <<subject, vars, fileVars>>
    \/ subject = "files" /\ Files!Next /\ UNCHANGED <<subject, vars, recordVars>>

MCSpec == MCInit /\ [][MCNext]_<<subject, vars, recordVars, fileVars>>

DuplicatesAreRaces == subject = "records" => Records!DuplicatesAreRaces
UnhandledHasCause == Records!UnhandledHasCause
StoredIffLive == Files!StoredIffLive
=============================================================================
