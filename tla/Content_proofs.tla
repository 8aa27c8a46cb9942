--------------------------- MODULE Content_proofs ---------------------------
(* What holds of the content of a project and of keyed metadata, for any      *)
(* number of calls, rows, posts and attachments.                              *)
EXTENDS MCContent, SequenceTheorems, TLAPS

----------------------------------------------------------------------------
(* Showcase posts.                                                            *)


\* What was true of a post when it was read and stays true: a date and a type are never
\* taken away.
Keeps(old, post) ==
    post # Gone =>
        /\ old.status = "PUBLISHED" => post.dated
        /\ old.typed => post.typed

\* What a call knows: the post it works on has kept what was read of it, what a creation
\* brings has a type, and who holds the lock has read the details as they are.
Fits(call) ==
    /\ call.stage \in {"begun", "locked"} =>
        /\ call.payload \in Payloads
        /\ call.post = 0 => call.payload.typed /\ call.existing = Gone
        /\ call.post # 0 => call.post \in Ids /\ Keeps(call.existing, posts[call.post])
    /\ call.stage = "delete" => call.post \in Ids
    /\ call.stage = "locked" =>
        /\ call.seen = details
        /\ call.post # 0 /\ call.payload.win = "yes" => call.payload.typed \/ call.existing.typed

OneHolder ==
    \A c, d \in Calls : saves[c].stage = "locked" /\ saves[d].stage = "locked" => c = d

\* The inductive invariant.
Inv ==
    /\ TypeOK
    /\ PublishedHasDate
    /\ WinHasType
    /\ OneHolder
    /\ \A c \in Calls : Fits(saves[c])

-----------------------------------------------------------------------------
(* Metadata.                                                                  *)

LEMMA SupplyType ==
    ASSUME NEW p \in Payloads
    PROVE  /\ DOMAIN p.supplied \subseteq Keys
           /\ \A k \in DOMAIN p.supplied : p.supplied[k] \in Values
           /\ p.status \in Status \cup {"none"} /\ p.typed \in BOOLEAN
           /\ p.win \in {"none", "yes", "no"}
BY SuppliesAssumption, PayloadsAssumption

LEMMA MergeType ==
    ASSUME NEW d \in Details, NEW s, DOMAIN s \subseteq Keys,
           \A k \in DOMAIN s : s[k] \in Values
    PROVE  /\ Merge(d, s) \in Details
           /\ \A k \in Keys \ DOMAIN s : Merge(d, s)[k] = d[k]
BY DEF Merge, Details

LEMMA NormalizeType ==
    ASSUME NEW d \in Details
    PROVE  /\ Normalize(d) \in Details
           /\ Normalize(d)["smu"] = NormalizeSmu(d["smu"])
           /\ \A k \in Keys \ {"smu", "smuOther"} : Normalize(d)[k] = d[k]
           /\ Normalize(d)["smuOther"] # d["smuOther"] =>
                 Normalize(d)["smuOther"] = Blank /\ Normalize(d)["smu"] # "Others"
<1>1. NormalizeSmu(d["smu"]) \in Values /\ Blank \in Values
    BY DEF Details, Keys, NormalizeSmu, Values, Absent, Blank
<1> QED
    BY <1>1 DEF Normalize, Details, Keys, Absent

-----------------------------------------------------------------------------
LEMMA InitInv == Init => Inv
<1> SUFFICES ASSUME Init PROVE Inv
    OBVIOUS
<1>1. PICK s \in Supplies : details = Merge(NoDetails, s)
    BY DEF Init
<1>2. NoDetails \in Details
    BY DEF NoDetails, Details, Values
<1>3. details \in Details
    BY <1>1, <1>2, MergeType, SuppliesAssumption
<1>4. posts \in Seq(Post) /\ Len(posts) <= MaxPosts
    <2> DEFINE old == [status |-> "PUBLISHED", dated |-> TRUE, typed |-> FALSE, win |-> FALSE]
    <2>1. old \in Post
        BY DEF Post, Status
    <2>2. posts = <<>> \/ posts = <<old>>
        BY DEF Init
    <2> HIDE DEF old
    <2>3. <<>> \in Seq(Post) /\ Len(<<>>) = 0
        OBVIOUS
    <2>4. <<old>> \in Seq(Post) /\ Len(<<old>>) = 1
        BY <2>1
    <2>5. 0 <= MaxPosts /\ 1 <= MaxPosts
        BY PostsAssumption
    <2>6. CASE posts = <<>>
        BY <2>3, <2>5, <2>6, Zenon
    <2>7. CASE posts = <<old>>
        BY <2>4, <2>5, <2>7, Zenon
    <2> QED
        BY <2>2, <2>6, <2>7
<1>5. saves \in [Calls -> Save]
    BY DEF Init, Idle, Save, Gone, Post
<1>6. TypeOK
    BY <1>3, <1>4, <1>5 DEF TypeOK, Init
<1>7. OneHolder /\ \A c \in Calls : Fits(saves[c])
    BY DEF Init, Idle, Fits, OneHolder
<1>8. PublishedHasDate /\ WinHasType
    BY DEF Init, PublishedHasDate, WinHasType, Ids
<1> QED
    BY <1>6, <1>7, <1>8 DEF Inv

\* A call goes on, and nothing else changes.
LEMMA CallMoves ==
    ASSUME Inv, NEW c \in Calls, NEW call \in Save, Fits(call), call.stage = "locked" => ~Locked,
           Goto(c, call), UNCHANGED <<details, posts>>, deleted' \in BOOLEAN
    PROVE  Inv'
<1>1. /\ saves' \in [Calls -> Save] /\ saves'[c] = call
      /\ \A d \in Calls \ {c} : saves'[d] = saves[d]
    BY DEF Inv, TypeOK, Goto
<1>2. TypeOK'
    BY <1>1 DEF Inv, TypeOK
<1>3. PublishedHasDate' /\ WinHasType'
    BY DEF Inv, PublishedHasDate, WinHasType, Ids
<1>4. OneHolder'
    BY <1>1 DEF Inv, OneHolder, Locked
<1>5. ASSUME NEW d \in Calls PROVE Fits(saves[d])'
    <2>1. Fits(saves'[d])
        BY <1>1 DEF Inv
    <2> QED
        BY <2>1 DEF Fits, Ids
<1> QED
    BY <1>2, <1>3, <1>4, <1>5 DEF Inv

\* A call that has nothing to remember.
LEMMA IdleFits == Idle \in Save /\ Fits(Idle)
BY DEF Idle, Save, Gone, Post, Fits

\* A post that is written has its date and its type, and keeps those it had.
LEMMA PostWritten ==
    ASSUME Inv, NEW c \in Calls, saves[c].stage \in {"begun", "locked"}, Found(c), ~Refused(c),
           WritePost(c)
    PROVE  /\ posts' \in Seq(Post) /\ Len(posts') <= MaxPosts
           /\ PublishedHasDate' /\ WinHasType'
           /\ Ids \subseteq Ids'
           /\ \A i \in Ids, old \in Post : Keeps(old, posts[i]) => Keeps(old, posts'[i])
<1> DEFINE p == saves[c].payload
           i == saves[c].post
<1>1. /\ p.status \in Status \cup {"none"} /\ p.typed \in BOOLEAN /\ p.win \in {"none", "yes", "no"}
      /\ i \in Nat /\ saves[c].existing \in Post
      /\ i = 0 => p.typed /\ saves[c].existing = Gone
      /\ i # 0 => i \in Ids /\ posts[i] # Gone /\ Keeps(saves[c].existing, posts[i])
      /\ i # 0 /\ p.win = "yes" => p.typed \/ saves[c].existing.typed
    <2>1. Fits(saves[c]) /\ saves[c] \in Save
        BY DEF Inv, TypeOK
    <2>2. p \in Payloads
        BY <2>1 DEF Fits
    <2> QED
        BY <2>1, <2>2, SupplyType DEF Fits, Save, Found, Refused, Creates, HasType
<1>2. /\ posts \in Seq(Post) /\ Len(posts) \in Nat /\ Ids = 1..Len(posts)
      /\ Len(posts) <= MaxPosts /\ \A j \in Ids : posts[j] \in Post
    BY DEF Inv, TypeOK, Ids
<1>3. ASSUME NEW post \in Post,
             \/ i = 0 /\ post = New
             \/ i # 0 /\ post = posts[i]
      PROVE  LET written == Written(post, p, Publishes(c))
             IN  /\ written \in Post
                 /\ written.status = "PUBLISHED" => written.dated
                 /\ written.win => written.typed
                 /\ post.dated => written.dated
                 /\ post.typed => written.typed
    <2>1. Publishes(c) \in BOOLEAN /\ Gone.status # "PUBLISHED"
        BY DEF Publishes, Gone
    <2>2. post.status = "PUBLISHED" => post.dated
        BY <1>2, <1>3, <1>1 DEF New, Inv, PublishedHasDate
    <2>3. post.win => post.typed
        BY <1>2, <1>3, <1>1 DEF New, Inv, WinHasType
    <2>4. Written(post, p, Publishes(c)) \in Post
        BY <1>1, <1>3, <2>1 DEF Written, Post
    <2>5. p.status = "PUBLISHED" => post.dated \/ Publishes(c)
        BY <1>1, <1>3, <2>1 DEF Publishes, Keeps
    <2>6. p.win = "yes" => post.typed \/ p.typed
        BY <1>1, <1>3 DEF Keeps
    <2> QED
        BY <1>1, <1>3, <2>1, <2>2, <2>3, <2>4, <2>5, <2>6 DEF Written, Post
<1>4. CASE i = 0
    <2> DEFINE new == Written(New, p, Publishes(c))
    <2>1. posts' = Append(posts, new) /\ Len(posts) < MaxPosts
        BY <1>4 DEF WritePost, Creates
    <2>2. New \in Post
        BY DEF New, Post, Status
    <2>3. new \in Post /\ (new.status = "PUBLISHED" => new.dated) /\ (new.win => new.typed)
        BY <1>3, <1>4, <2>2
    <2> HIDE DEF new
    <2>4. /\ posts' \in Seq(Post) /\ Len(posts') = Len(posts) + 1
          /\ \A j \in Ids : posts'[j] = posts[j]
          /\ posts'[Len(posts) + 1] = new
        BY <1>2, <2>1, <2>3, AppendProperties
    <2>5. Ids' = Ids \cup {Len(posts) + 1} /\ Len(posts') <= MaxPosts
        BY <1>2, <2>1, <2>4, PostsAssumption DEF Ids
    <2> QED
        BY <2>3, <2>4, <2>5 DEF Inv, PublishedHasDate, WinHasType
<1>5. CASE i # 0
    <2> DEFINE new == Written(posts[i], p, Publishes(c))
    <2>1. posts' = [posts EXCEPT ![i] = new]
        BY <1>5 DEF WritePost, Creates
    <2>2. i \in Ids /\ posts[i] \in Post /\ posts[i] # Gone
        BY <1>1, <1>2, <1>5
    <2>3. /\ new \in Post /\ (new.status = "PUBLISHED" => new.dated) /\ (new.win => new.typed)
          /\ (posts[i].dated => new.dated) /\ (posts[i].typed => new.typed)
        BY <1>3, <1>5, <2>2
    <2> HIDE DEF new
    <2>4. /\ posts' \in Seq(Post) /\ Len(posts') = Len(posts) /\ posts'[i] = new
          /\ \A j \in Ids \ {i} : posts'[j] = posts[j]
        BY <1>2, <2>1, <2>2, <2>3
    <2>5. Ids' = Ids
        BY <1>2, <2>4 DEF Ids
    <2>6. ASSUME NEW j \in Ids, NEW old \in Post, Keeps(old, posts[j]) PROVE Keeps(old, posts'[j])
        BY <2>2, <2>3, <2>4, <2>6 DEF Keeps
    <2>7. PublishedHasDate' /\ WinHasType'
        BY <2>2, <2>3, <2>4, <2>5 DEF Inv, PublishedHasDate, WinHasType
    <2> QED
        BY <1>2, <2>4, <2>5, <2>6, <2>7
<1> QED
    BY <1>4, <1>5

-----------------------------------------------------------------------------
(* Steps.                                                                     *)

LEMMA BeginCreateInv == ASSUME Inv, NEW c \in Calls, BeginCreate(c) PROVE Inv'
<1>1. PICK p \in Payloads :
        /\ p.typed
        /\ Goto(c, [Idle EXCEPT !.stage = "begun", !.payload = p])
    BY DEF BeginCreate
<1>2. PICK call : call = [Idle EXCEPT !.stage = "begun", !.payload = p]
    OBVIOUS
<1>3. call \in Save /\ Fits(call) /\ call.stage = "begun"
    BY <1>1, <1>2 DEF Idle, Save, Fits, Gone, Post
<1> QED
    BY <1>1, <1>2, <1>3, CallMoves DEF BeginCreate, Inv, TypeOK

LEMMA BeginUpdateInv == ASSUME Inv, NEW c \in Calls, BeginUpdate(c) PROVE Inv'
<1>1. PICK i \in Ids, p \in Payloads :
        /\ posts[i] # Gone
        /\ Goto(c, [Idle EXCEPT !.stage = "begun", !.post = i, !.payload = p, !.existing = posts[i]])
    BY DEF BeginUpdate
<1>2. PICK call : call = [Idle EXCEPT !.stage = "begun", !.post = i, !.payload = p, !.existing = posts[i]]
    OBVIOUS
<1>3. posts[i] \in Post /\ i \in Nat \ {0} /\ Keeps(posts[i], posts[i])
    BY DEF Inv, TypeOK, Ids, PublishedHasDate, Keeps
<1>4. call \in Save /\ Fits(call) /\ call.stage = "begun"
    BY <1>1, <1>2, <1>3 DEF Idle, Save, Fits
<1> QED
    BY <1>1, <1>2, <1>4, CallMoves DEF BeginUpdate, Inv, TypeOK

LEMMA BeginDeleteInv == ASSUME Inv, NEW c \in Calls, BeginDelete(c) PROVE Inv'
<1>1. PICK i \in Ids : Goto(c, [Idle EXCEPT !.stage = "delete", !.post = i])
    BY DEF BeginDelete
<1>2. PICK call : call = [Idle EXCEPT !.stage = "delete", !.post = i]
    OBVIOUS
<1>3. i \in Nat
    BY DEF Inv, TypeOK, Ids
<1>4. call \in Save /\ Fits(call) /\ call.stage = "delete"
    BY <1>2, <1>3 DEF Idle, Save, Fits, Gone, Post
<1> QED
    BY <1>1, <1>2, <1>4, CallMoves DEF BeginDelete, Inv, TypeOK

LEMMA LockProjectInv == ASSUME Inv, NEW c \in Calls, LockProject(c) PROVE Inv'
<1>1. /\ saves[c].stage = "begun" /\ ~Refused(c) /\ ~Locked
      /\ UNCHANGED <<details, deleted, posts>>
    BY DEF LockProject
<1>2. CASE deleted
    BY <1>1, <1>2, CallMoves, IdleFits DEF LockProject, Inv, TypeOK, Idle
<1>3. CASE ~deleted
    <2>1. PICK call : call = [saves[c] EXCEPT !.stage = "locked", !.seen = details]
        OBVIOUS
    <2>2. saves[c] \in Save /\ Fits(saves[c]) /\ details \in Details
        BY DEF Inv, TypeOK
    <2>3. /\ call \in Save /\ call.stage = "locked" /\ call.seen = details
          /\ call.post = saves[c].post /\ call.payload = saves[c].payload
          /\ call.existing = saves[c].existing
        BY <2>1, <2>2 DEF Save
    <2>4. Fits(call)
        BY <1>1, <2>2, <2>3 DEF Fits, Refused, Creates, HasType
    <2> QED
        BY <1>1, <1>3, <2>1, <2>3, <2>4, CallMoves DEF LockProject, Inv, TypeOK
<1> QED
    BY <1>2, <1>3

\* Refused, or rolled back.
LEMMA GivesUpInv == ASSUME Inv, NEW c \in Calls, Refuse(c) \/ Rollback(c) PROVE Inv'
BY CallMoves, IdleFits DEF Refuse, Rollback, Inv, TypeOK, Idle

\* A call ends with posts that keep what the others know of them.
LEMMA CallEnds ==
    ASSUME Inv, NEW c \in Calls, Goto(c, Idle), UNCHANGED deleted,
           details' \in Details, details' = details \/ ~\E d \in Calls \ {c} : saves[d].stage = "locked",
           posts' \in Seq(Post), Len(posts') <= MaxPosts, PublishedHasDate', WinHasType',
           Ids \subseteq Ids',
           \A i \in Ids, old \in Post : Keeps(old, posts[i]) => Keeps(old, posts'[i])
    PROVE  Inv'
<1>1. /\ saves' \in [Calls -> Save] /\ saves'[c] = Idle
      /\ \A d \in Calls \ {c} : saves'[d] = saves[d]
    BY IdleFits DEF Inv, TypeOK, Goto
<1>2. TypeOK'
    BY <1>1 DEF Inv, TypeOK
<1>3. OneHolder'
    BY <1>1 DEF Inv, OneHolder, Idle
<1>4. ASSUME NEW d \in Calls PROVE Fits(saves[d])'
    <2>1. CASE d = c
        BY <1>1, <2>1 DEF Fits, Idle
    <2>2. CASE d # c
        <3>1. Fits(saves[d]) /\ saves[d] \in Save /\ saves'[d] = saves[d]
            BY <1>1, <2>2 DEF Inv, TypeOK
        <3>2. saves[d].existing \in Post
            BY <3>1 DEF Save
        <3>3. saves[d].stage = "locked" => details' = details
            BY <2>2
        <3> QED
            BY <3>1, <3>2, <3>3 DEF Fits
    <2> QED
        BY <2>1, <2>2
<1> QED
    BY <1>2, <1>3, <1>4 DEF Inv

LEMMA DeleteInv == ASSUME Inv, NEW c \in Calls, Delete(c) PROVE Inv'
<1> DEFINE i == saves[c].post
<1>1. i \in Ids /\ posts \in Seq(Post) /\ Gone \in Post /\ details \in Details
    BY DEF Delete, Inv, Fits, TypeOK, Gone, Post
<1>2. /\ posts' \in Seq(Post) /\ Len(posts') = Len(posts) /\ posts'[i] = Gone
      /\ \A j \in Ids \ {i} : posts'[j] = posts[j]
    BY <1>1 DEF Delete, Ids
<1>3. Ids' = Ids
    BY <1>1, <1>2 DEF Ids
<1>4. ASSUME NEW j \in Ids, NEW old \in Post, Keeps(old, posts[j]) PROVE Keeps(old, posts'[j])
    BY <1>1, <1>2, <1>4 DEF Keeps
<1>5. PublishedHasDate' /\ WinHasType'
    BY <1>2, <1>3 DEF Inv, PublishedHasDate, WinHasType, Gone
<1>6. Len(posts') <= MaxPosts
    BY <1>2 DEF Inv, TypeOK
<1> QED
    BY <1>1, <1>2, <1>3, <1>4, <1>5, <1>6, CallEnds DEF Delete

LEMMA CommitPostInv == ASSUME Inv, NEW c \in Calls, CommitPost(c) PROVE Inv'
<1>1. details' = details /\ details \in Details /\ UNCHANGED deleted /\ Goto(c, Idle)
    BY DEF CommitPost, Inv, TypeOK
<1> QED
    BY <1>1, PostWritten, CallEnds DEF CommitPost

\* What a commit merges and saves.
LEMMA Merged ==
    ASSUME Inv, NEW c \in Calls, Commit(c)
    PROVE  /\ details \in Details
           /\ Merge(details, saves[c].payload.supplied) \in Details
           /\ details' = Normalize(Merge(details, saves[c].payload.supplied))
           /\ \A k \in Keys \ DOMAIN saves[c].payload.supplied :
                 Merge(details, saves[c].payload.supplied)[k] = details[k]
<1>1. details \in Details /\ saves[c].payload \in Payloads /\ saves[c].seen = details
    BY DEF Commit, Inv, TypeOK, Fits
<1>2. details' = Normalize(Merge(details, saves[c].payload.supplied))
    BY <1>1 DEF Commit
<1> QED
    BY <1>1, <1>2, SupplyType, MergeType

LEMMA CommitInv == ASSUME Inv, NEW c \in Calls, Commit(c) PROVE Inv'
<1>1. saves[c].stage = "locked" /\ Found(c) /\ WritePost(c) /\ Goto(c, Idle) /\ UNCHANGED deleted
    BY DEF Commit
<1>2. ~Refused(c)
    BY <1>1 DEF Inv, Fits, Refused, Creates, HasType
<1>3. details' \in Details
    BY Merged, NormalizeType
<1>4. ~\E d \in Calls \ {c} : saves[d].stage = "locked"
    BY <1>1 DEF Inv, OneHolder
<1>5. /\ posts' \in Seq(Post) /\ Len(posts') <= MaxPosts
      /\ PublishedHasDate' /\ WinHasType'
      /\ Ids \subseteq Ids'
      /\ \A i \in Ids, old \in Post : Keeps(old, posts[i]) => Keeps(old, posts'[i])
    BY <1>1, <1>2, PostWritten
<1> QED
    BY <1>1, <1>3, <1>4, <1>5, CallEnds

\* The project is updated or deleted while nobody holds its row.
LEMMA ProjectInv == ASSUME Inv, ReplaceDetails \/ DeleteProject PROVE Inv'
<1>1. UNCHANGED <<posts, saves>> /\ ~Locked /\ deleted' \in BOOLEAN
    BY DEF ReplaceDetails, DeleteProject, Inv, TypeOK
<1>2. details' \in Details
    <2>1. CASE ReplaceDetails
        <3>1. PICK s \in Supplies : details' = Normalize(Merge(NoDetails, s))
            BY <2>1 DEF ReplaceDetails
        <3>2. NoDetails \in Details
            BY DEF NoDetails, Details, Values
        <3>3. Merge(NoDetails, s) \in Details
            BY <3>2, MergeType, SuppliesAssumption
        <3> QED
            BY <3>1, <3>3, NormalizeType
    <2>2. CASE DeleteProject
        BY <2>2 DEF DeleteProject, Inv, TypeOK
    <2> QED
        BY <2>1, <2>2
<1>3. TypeOK'
    BY <1>1, <1>2 DEF Inv, TypeOK
<1>4. PublishedHasDate' /\ WinHasType' /\ OneHolder'
    BY <1>1 DEF Inv, PublishedHasDate, WinHasType, OneHolder, Ids
<1>5. ASSUME NEW c \in Calls PROVE Fits(saves[c])'
    BY <1>1 DEF Inv, Fits, Ids, Locked
<1> QED
    BY <1>3, <1>4, <1>5 DEF Inv

LEMMA NextInv == ASSUME Inv, [Next]_vars PROVE Inv'
<1>1. CASE UNCHANGED vars
    <2>1. UNCHANGED <<details, deleted, posts, saves>>
        BY <1>1 DEF vars
    <2>2. TypeOK' /\ PublishedHasDate' /\ WinHasType' /\ OneHolder'
        BY <2>1 DEF Inv, TypeOK, PublishedHasDate, WinHasType, OneHolder, Ids
    <2>3. ASSUME NEW c \in Calls PROVE Fits(saves[c])'
        BY <2>1 DEF Inv, Fits, Ids
    <2> QED
        BY <2>2, <2>3 DEF Inv
<1>2. ASSUME NEW c \in Calls,
             \/ BeginCreate(c) \/ BeginUpdate(c) \/ BeginDelete(c) \/ Delete(c)
             \/ Refuse(c) \/ LockProject(c) \/ Rollback(c) \/ Commit(c) \/ CommitPost(c)
      PROVE  Inv'
    BY <1>2, BeginCreateInv, BeginUpdateInv, BeginDeleteInv, DeleteInv, GivesUpInv,
       LockProjectInv, CommitInv, CommitPostInv
<1>3. CASE ReplaceDetails \/ DeleteProject
    BY <1>3, ProjectInv
<1> QED
    BY <1>1, <1>2, <1>3 DEF Next

\* The inductive invariant holds.
THEOREM InvCorrect == Spec => []Inv
<1> QED
    BY InitInv, NextInv, PTL DEF Spec

-----------------------------------------------------------------------------
(* What follows.                                                              *)

\* TypeOK: project, posts and calls keep their types, for any number of calls and posts.
THEOREM TypeCorrect == Spec => []TypeOK
<1>1. Inv => TypeOK
    BY DEF Inv
<1> QED
    BY <1>1, InvCorrect, PTL

\* PublishedHasDate: however stale the status is on which createPost and updatePost decide
\* whether to set the date, a published post has one.
THEOREM PublishedHasDateCorrect == Spec => []PublishedHasDate
<1>1. Inv => PublishedHasDate
    BY DEF Inv
<1> QED
    BY <1>1, InvCorrect, PTL

\* WinHasType: however stale the type is on which updatePost lets a post into the WIN
\* report, a post in the report has one.
THEOREM WinHasTypeCorrect == Spec => []WinHasType
<1>1. Inv => WinHasType
    BY DEF Inv
<1> QED
    BY <1>1, InvCorrect, PTL

\* SavesKeepOtherKeys: any number of concurrent saves change the keys of Project.details
\* they supply, and no others, as syncProjectMetadata promises.
THEOREM SavesKeepOtherKeysCorrect == Spec => SavesKeepOtherKeys
<1>1. ASSUME Inv, [Next]_vars, NEW c \in Calls, NEW k \in Keys,
             saves[c].stage = "locked", saves'[c] = Idle
      PROVE  KeptBySaves(k, c)
    <2>1. saves'[c] # saves[c] /\ saves \in [Calls -> Save]
        BY <1>1 DEF Idle, Inv, TypeOK
    <2>2. CASE details' = details
        BY <2>2 DEF KeptBySaves
    <2>3. CASE details' # details
        <3>1. Commit(c)
            <4>1. PICK d \in Calls : Commit(d)
                BY <1>1, <2>1, <2>3 DEF Next, vars, BeginCreate, BeginUpdate, BeginDelete, Delete, Refuse,
                   LockProject, Rollback, CommitPost, ReplaceDetails, DeleteProject
            <4> QED
                BY <1>1, <4>1 DEF Commit, Inv, OneHolder
        <3> DEFINE supplied == saves[c].payload.supplied
                   merged == Merge(details, supplied)
        <3>2. /\ details' = Normalize(merged) /\ merged \in Details
              /\ \A j \in Keys \ DOMAIN supplied : merged[j] = details[j]
            BY <1>1, <3>1, Merged
        <3> HIDE DEF merged
        <3>3. /\ details'["smu"] = NormalizeSmu(merged["smu"])
              /\ \A j \in Keys \ {"smu", "smuOther"} : details'[j] = merged[j]
              /\ details'["smuOther"] # merged["smuOther"] =>
                    details'["smuOther"] = Blank /\ details'["smu"] # "Others"
            BY <3>2, NormalizeType
        <3> QED
            BY <3>2, <3>3 DEF KeptBySaves
    <2> QED
        BY <2>2, <2>3
<1>2. Inv /\ [Next]_vars =>
        [\A c \in Calls, k \in Keys :
            saves[c].stage = "locked" /\ saves'[c] = Idle => KeptBySaves(k, c)]_vars
    BY <1>1
<1> QED
    BY <1>2, InvCorrect, PTL DEF Spec, SavesKeepOtherKeys

----------------------------------------------------------------------------
(* Attachments.                                                               *)


\* A handler at work has found its row, and its path is one the row has had; only a file
\* is described.
HasFound(c) ==
    LET h == handlers[c]
    IN  h.stage # "idle" =>
            /\ h.row \in Files!Rows
            /\ h.path \in attachments[h.row].past
            /\ h.stage = "describe" => attachments[h.row].type = "file"
            /\ h.stage # "describe" => h.type = attachments[h.row].type

\* A request is about a file at a path its row has had; what it deletes is deleted.
Meant(r) ==
    /\ attachments[r.row].type = "file"
    /\ r.path \in attachments[r.row].past
    /\ r.kind = "delete" => ~attachments[r.row].live

\* A file with a path of its own is there once it was copied, and gone once it was removed.
Kept(i) ==
    /\ ~attachments[i].live /\ ~attachments[i].late => ~Files!Overtakes(i)
    /\ attachments[i].type = "file" /\ Files!OwnPath(i) /\ ~attachments[i].late =>
        /\ attachments[i].live /\ ~Files!Overtakes(i) => attachments[i].path \in bucket
        /\ ~attachments[i].live /\ ~(\E r \in requests : r.row = i /\ r.kind = "delete") =>
                attachments[i].path \notin bucket

\* The inductive invariant.
FileInv ==
    /\ Files!TypeOK
    /\ \A c \in Calls : HasFound(c)
    /\ \A r \in requests : Meant(r)
    /\ \A i \in Files!Rows : Kept(i)

-----------------------------------------------------------------------------
LEMMA FileInitInv == Files!Init => FileInv
BY DEF Files!Init, FileInv, Files!TypeOK, Files!Rows, HasFound, Meant, Kept, Files!Idle, Files!Handler

LEMMA FileTypes ==
    ASSUME FileInv
    PROVE  /\ attachments \in Seq(Files!Attachment) /\ Files!Rows = 1..Len(attachments) /\ Len(attachments) \in Nat
           /\ \A i \in Files!Rows : attachments[i] \in Files!Attachment
           /\ \A c \in Calls : handlers[c] \in Files!Handler
           /\ \A r \in requests : r.row \in Files!Rows /\ r.path \in Paths /\ r.of \in Calls
                                  /\ r.kind \in {"transfer", "delete"}
BY DEF FileInv, Files!TypeOK, Files!Rows

\* Rows that are rewritten keep their type and what they were; a path is given up only for
\* one more in the past.
Rewritten ==
    /\ attachments' \in Seq(Files!Attachment) /\ Files!Rows \subseteq Files!Rows'
    /\ \A i \in Files!Rows :
        /\ attachments'[i].type = attachments[i].type
        /\ attachments[i].past \subseteq attachments'[i].past
        /\ attachments'[i].path \in attachments'[i].past
        /\ attachments[i].late => attachments'[i].late
        /\ attachments'[i].live => attachments[i].live
        /\ attachments'[i].path = attachments[i].path \/ attachments'[i].past # {attachments'[i].path}

\* A path that is a row's own was its own before.
LEMMA FileOwnBefore ==
    ASSUME FileInv, Rewritten, NEW i \in Files!Rows, Files!OwnPath(i)'
    PROVE  Files!OwnPath(i) /\ attachments'[i].path = attachments[i].path
<1>1. attachments'[i].past = {attachments'[i].path} /\ attachments'[i].path = attachments[i].path
    BY DEF Rewritten, Files!OwnPath
<1>2. attachments[i].path \in attachments[i].past /\ attachments[i].past \subseteq {attachments[i].path}
    BY <1>1 DEF FileInv, Files!TypeOK, Rewritten
<1>3. ASSUME NEW j \in Files!Rows \ {i}, attachments[j].type = "file"
      PROVE  attachments[i].path \notin attachments[j].past
    BY <1>1, <1>3 DEF Rewritten, Files!OwnPath
<1> QED
    BY <1>1, <1>2, <1>3 DEF Files!OwnPath

\* A file with a path of its own is only meant by requests of its own.
LEMMA FileOwnRequests ==
    ASSUME FileInv, NEW i \in Files!Rows, Files!OwnPath(i), NEW r \in requests, r.path = attachments[i].path
    PROVE  r.row = i
BY FileTypes DEF FileInv, Meant, Files!OwnPath

-----------------------------------------------------------------------------
LEMMA FileInsertInv ==
    ASSUME FileInv, NEW c \in Calls, Files!InsertLink(c) \/ Files!InsertFile(c)
    PROVE  FileInv'
<1>1. PICK type \in {"link", "file"} : Files!Insert(c, type)
    BY DEF Files!InsertLink, Files!InsertFile
<1>2. PICK p \in Paths :
        /\ attachments' = Append(attachments, Files!Row(type, p))
        /\ handlers' = [handlers EXCEPT ![c] =
                IF type = "link" THEN Files!Idle
                ELSE [Files!Idle EXCEPT !.stage = "describe", !.row = Len(attachments) + 1, !.path = p]]
    BY <1>1 DEF Files!Insert
<1>3. /\ handlers[c].stage = "idle" /\ UNCHANGED <<bucket, requests, moves>>
    BY <1>1 DEF Files!Insert
<1>n. PICK n \in Nat : n = Len(attachments) + 1
    BY FileTypes
<1>4. Files!Row(type, p) \in Files!Attachment
    BY DEF Files!Row, Files!Attachment
<1>5. /\ attachments' \in Seq(Files!Attachment) /\ Len(attachments') = n
      /\ \A i \in Files!Rows : attachments'[i] = attachments[i]
      /\ attachments'[n] = Files!Row(type, p)
    BY <1>2, <1>4, <1>n, FileTypes, AppendProperties
<1>6. Files!Rows' = Files!Rows \cup {n} /\ n \notin Files!Rows /\ n \in Nat
    BY <1>5, <1>n, FileTypes DEF Files!Rows
<1>7. Rewritten
    BY <1>5, <1>6 DEF Rewritten, FileInv, Files!TypeOK
<1>8. /\ handlers' \in [Calls -> Files!Handler]
      /\ \A d \in Calls \ {c} : handlers'[d] = handlers[d]
      /\ type = "link" => handlers'[c] = Files!Idle
      /\ type = "file" => /\ handlers'[c].stage = "describe" /\ handlers'[c].row = n
                          /\ handlers'[c].path = p
    BY <1>2, <1>6, <1>n DEF FileInv, Files!TypeOK, Files!Handler, Files!Idle
<1>9. Files!TypeOK'
    <2>1. \A i \in Files!Rows' : attachments'[i].path \in attachments'[i].past
        BY <1>5, <1>6 DEF FileInv, Files!TypeOK, Files!Row
    <2> QED
        BY <1>3, <1>5, <1>6, <1>8, <2>1 DEF FileInv, Files!TypeOK
<1>10. ASSUME NEW d \in Calls PROVE HasFound(d)'
    <2>1. CASE d = c
        BY <2>1, <1>5, <1>6, <1>8 DEF HasFound, Files!Row, Files!Idle
    <2>2. CASE d # c
        BY <2>2, <1>5, <1>6, <1>8 DEF FileInv, HasFound
    <2> QED
        BY <2>1, <2>2
<1>11. ASSUME NEW r \in requests' PROVE Meant(r)'
    BY <1>3, <1>5, FileTypes DEF FileInv, Meant
<1>12. ASSUME NEW i \in Files!Rows' PROVE Kept(i)'
    <2>1. CASE i = n
        <3>1. ~\E r \in requests : r.row = n
            BY <1>6, FileTypes
        <3>2. attachments'[n] = Files!Row(type, p)
            BY <1>5
        <3>3. type = "file" => Files!Overtakes(n)'
            BY <1>8 DEF Files!Overtakes
        <3> QED
            BY <2>1, <3>2, <3>3 DEF Kept, Files!Row
    <2>2. CASE i \in Files!Rows
        <3>1. attachments'[i] = attachments[i] /\ i # n /\ Kept(i)
            BY <2>2, <1>5, <1>6 DEF FileInv
        <3>2. Files!Overtakes(i)' <=> Files!Overtakes(i)
            BY <3>1, <1>3, <1>6, <1>8 DEF Files!Overtakes, Files!Idle
        <3>3. Files!OwnPath(i)' => Files!OwnPath(i)
            BY <1>7, <2>2, FileOwnBefore
        <3> QED
            BY <3>1, <3>2, <3>3, <1>3 DEF Kept
    <2> QED
        BY <1>6, <2>1, <2>2
<1> QED
    BY <1>9, <1>10, <1>11, <1>12 DEF FileInv

\* A call that takes up a row, gives up, or asks for a transfer leaves the rows alone.
LEMMA FileCallInv ==
    ASSUME FileInv, NEW c \in Calls,
           \/ Files!RequestTransfer(c) \/ Files!FindToUpdate(c) \/ Files!FindToDelete(c) \/ Files!UpdateForbidden(c)
    PROVE  FileInv'
<1>1. UNCHANGED <<attachments, bucket, moves>>
    BY DEF Files!RequestTransfer, Files!FindToUpdate, Files!FindToDelete, Files!UpdateForbidden, Files!Find
<1>2. PICK h \in Files!Handler : handlers' = [handlers EXCEPT ![c] = h]
    <2>1. Files!Idle \in Files!Handler
        BY DEF Files!Idle, Files!Handler
    <2>2. CASE Files!RequestTransfer(c) \/ Files!UpdateForbidden(c)
        BY <2>1, <2>2 DEF Files!RequestTransfer, Files!UpdateForbidden
    <2>3. ASSUME NEW stage \in {"update", "delete"}, Files!Find(c, stage)
          PROVE  \E h \in Files!Handler : handlers' = [handlers EXCEPT ![c] = h]
        <3>1. PICK i \in Files!Rows : handlers' = [handlers EXCEPT ![c] =
                [stage |-> stage, row |-> i, type |-> attachments[i].type, path |-> attachments[i].path]]
            BY <2>3 DEF Files!Find
        <3>2. attachments[i] \in Files!Attachment /\ i \in Nat
            BY FileTypes
        <3>3. [stage |-> stage, row |-> i, type |-> attachments[i].type, path |-> attachments[i].path]
                \in Files!Handler
            BY <3>2 DEF Files!Attachment, Files!Handler
        <3> QED
            BY <3>1, <3>3
    <2> QED
        BY <2>2, <2>3 DEF Files!FindToUpdate, Files!FindToDelete
<1>3. /\ handlers' \in [Calls -> Files!Handler] /\ handlers'[c] = h
      /\ \A d \in Calls \ {c} : handlers'[d] = handlers[d]
    BY <1>2 DEF FileInv, Files!TypeOK
<1>4. h.stage \in {"idle", "update", "delete"} /\ HasFound(c)'
    <2>1. CASE Files!RequestTransfer(c) \/ Files!UpdateForbidden(c)
        BY <1>3, <2>1 DEF Files!RequestTransfer, Files!UpdateForbidden, FileInv, Files!TypeOK, HasFound, Files!Idle
    <2>2. ASSUME NEW stage \in {"update", "delete"}, Files!Find(c, stage)
          PROVE  h.stage \in {"idle", "update", "delete"} /\ HasFound(c)'
        <3>1. PICK i \in Files!Rows :
                h = [stage |-> stage, row |-> i, type |-> attachments[i].type, path |-> attachments[i].path]
            BY <2>2, <1>3 DEF Files!Find, FileInv, Files!TypeOK
        <3> QED
            BY <1>1, <1>3, <2>2, <3>1 DEF HasFound, FileInv, Files!TypeOK, Files!Rows
    <2> QED
        BY <2>1, <2>2 DEF Files!FindToUpdate, Files!FindToDelete
<1>5. ASSUME NEW d \in Calls PROVE HasFound(d)'
    BY <1>1, <1>3, <1>4 DEF FileInv, HasFound, Files!Rows
<1>6. \/ requests' = requests /\ handlers[c].stage # "describe"
      \/ /\ handlers[c].stage = "describe"
         /\ requests' = requests \cup
              {[kind |-> "transfer", path |-> handlers[c].path, row |-> handlers[c].row, of |-> c]}
    BY DEF Files!RequestTransfer, Files!FindToUpdate, Files!FindToDelete, Files!UpdateForbidden, Files!Find
<1>7. CASE requests' = requests /\ handlers[c].stage # "describe"
    <2>1. Files!TypeOK'
        BY <1>1, <1>3, <1>7 DEF FileInv, Files!TypeOK, Files!Rows
    <2>2. ASSUME NEW r \in requests' PROVE Meant(r)'
        BY <1>1, <1>7 DEF FileInv, Meant
    <2>3. ASSUME NEW i \in Files!Rows' PROVE Kept(i)'
        <3>1. Files!Overtakes(i)' <=> Files!Overtakes(i)
            BY <1>3, <1>4, <1>7 DEF Files!Overtakes
        <3>2. Kept(i) /\ (Files!OwnPath(i)' <=> Files!OwnPath(i))
            BY <1>1 DEF FileInv, Files!OwnPath, Files!Rows
        <3> QED
            BY <1>1, <1>7, <3>1, <3>2 DEF Kept
    <2> QED
        BY <1>5, <2>1, <2>2, <2>3 DEF FileInv
<1>8. CASE /\ handlers[c].stage = "describe"
           /\ requests' = requests \cup
                {[kind |-> "transfer", path |-> handlers[c].path, row |-> handlers[c].row, of |-> c]}
    <2>1. PICK q : q = [kind |-> "transfer", path |-> handlers[c].path, row |-> handlers[c].row, of |-> c]
        OBVIOUS
    <2>2. /\ handlers[c].row \in Files!Rows /\ handlers[c].path \in attachments[handlers[c].row].past
          /\ attachments[handlers[c].row].type = "file"
          /\ attachments[handlers[c].row] \in Files!Attachment
        BY <1>8, FileTypes DEF FileInv, HasFound
    <2>3. handlers[c].path \in Paths
        BY <2>2 DEF Files!Attachment
    <2>4. Files!TypeOK'
        <3>1. q \in [kind : {"transfer", "delete"}, path : Paths, row : Files!Rows, of : Calls]
            BY <2>1, <2>2, <2>3
        <3>2. requests' = requests \cup {q}
            BY <1>8, <2>1
        <3> QED
            BY <1>1, <1>3, <3>1, <3>2 DEF FileInv, Files!TypeOK, Files!Rows
    <2>5. ASSUME NEW r \in requests' PROVE Meant(r)'
        BY <1>1, <1>8, <2>2 DEF FileInv, Meant
    <2>6. ASSUME NEW i \in Files!Rows' PROVE Kept(i)'
        <3>1. Files!Overtakes(i)' <=> Files!Overtakes(i)
            <4>1. /\ requests' = requests \cup {q} /\ q.kind = "transfer"
                  /\ q.row = handlers[c].row
                BY <1>8, <2>1
            <4>2. CASE i = handlers[c].row
                BY <1>8, <4>1, <4>2 DEF Files!Overtakes
            <4>3. CASE i # handlers[c].row
                BY <1>3, <1>4, <1>8, <4>1, <4>3 DEF Files!Overtakes
            <4> QED
                BY <4>2, <4>3
        <3>2. Kept(i) /\ (Files!OwnPath(i)' <=> Files!OwnPath(i))
            BY <1>1 DEF FileInv, Files!OwnPath, Files!Rows
        <3>3. (\E r \in requests' : r.row = i /\ r.kind = "delete")
                <=> (\E r \in requests : r.row = i /\ r.kind = "delete")
            BY <1>8
        <3> QED
            BY <1>1, <3>1, <3>2, <3>3 DEF Kept
    <2> QED
        BY <1>5, <2>4, <2>5, <2>6 DEF FileInv
<1> QED
    BY <1>6, <1>7, <1>8

\* A row is written by a call that is done with it.
LEMMA FileWriteInv ==
    ASSUME FileInv, NEW c \in Calls, handlers[c].stage # "idle", NEW k \in Files!Rows, k = handlers[c].row,
           NEW row \in Files!Attachment, attachments' = [attachments EXCEPT ![k] = row],
           row.type = attachments[k].type, row.path \in row.past, attachments[k].past \subseteq row.past,
           attachments[k].late => row.late, row.live => attachments[k].live,
           row.path = attachments[k].path \/ row.past # {row.path},
           handlers' = [handlers EXCEPT ![c] = Files!Idle],
           handlers[c].stage = "describe" => row.late,
           UNCHANGED bucket, moves' \in Nat,
           NEW q \in [kind : {"delete"}, path : Paths, row : {k}, of : Calls],
           q.path \in attachments[k].past,
           \/ requests' = requests /\ (row.type = "file" => row.live = attachments[k].live)
           \/ requests' = requests \cup {q} /\ row.type = "file" /\ ~row.live,
           ~row.live /\ ~row.late => ~Files!Overtakes(k)
    PROVE  FileInv'
<1>1. /\ attachments' \in Seq(Files!Attachment) /\ Files!Rows' = Files!Rows
      /\ attachments'[k] = row /\ \A i \in Files!Rows \ {k} : attachments'[i] = attachments[i]
    BY FileTypes DEF Files!Rows
<1>2. Rewritten
    BY <1>1 DEF Rewritten, FileInv, Files!TypeOK
<1>3. /\ handlers' \in [Calls -> Files!Handler] /\ handlers'[c] = Files!Idle
      /\ \A d \in Calls \ {c} : handlers'[d] = handlers[d]
    BY DEF FileInv, Files!TypeOK, Files!Idle, Files!Handler
<1>4. Files!TypeOK'
    <2>1. requests' \subseteq [kind : {"transfer", "delete"}, path : Paths, row : Files!Rows, of : Calls]
        BY DEF FileInv, Files!TypeOK
    <2>2. \A i \in Files!Rows : attachments'[i].path \in attachments'[i].past
        BY <1>2 DEF Rewritten
    <2> QED
        BY <1>1, <1>3, <2>1, <2>2 DEF FileInv, Files!TypeOK
<1>5. ASSUME NEW d \in Calls PROVE HasFound(d)'
    <2>1. CASE d = c
        BY <1>3, <2>1 DEF HasFound, Files!Idle
    <2>2. CASE d # c
        BY <1>1, <1>2, <1>3, <2>2 DEF FileInv, HasFound, Rewritten
    <2> QED
        BY <2>1, <2>2
<1>6. ASSUME NEW r \in requests' PROVE Meant(r)'
    <2>1. CASE r \in requests
        BY <1>2, <2>1, FileTypes DEF FileInv, Meant, Rewritten
    <2>2. CASE r = q
        BY <1>1, <2>2, <1>6 DEF FileInv, Meant
    <2> QED
        BY <1>6, <2>1, <2>2
<1>7. ASSUME NEW i \in Files!Rows' PROVE Kept(i)'
    <2>1. Kept(i) /\ (Files!OwnPath(i)' => Files!OwnPath(i) /\ attachments'[i].path = attachments[i].path)
        BY <1>1, <1>2, FileOwnBefore DEF FileInv
    <2>2. CASE i # k
        <3>1. attachments'[i] = attachments[i]
            BY <1>1, <2>2
        <3>2. Files!Overtakes(i)' <=> Files!Overtakes(i)
            BY <1>3, <2>2 DEF Files!Overtakes, Files!Idle
        <3>3. (\E r \in requests' : r.row = i /\ r.kind = "delete")
                <=> (\E r \in requests : r.row = i /\ r.kind = "delete")
            BY <2>2
        <3> QED
            BY <2>1, <3>1, <3>2, <3>3 DEF Kept
    <2>3. CASE i = k
        <3>1. ~row.late => (Files!Overtakes(i)' <=> Files!Overtakes(i))
            BY <1>3, <2>3 DEF Files!Overtakes, Files!Idle
        <3>2. row \in Files!Attachment /\ attachments[k] \in Files!Attachment
            BY FileTypes
        <3>3. CASE requests' = requests /\ (row.type = "file" => row.live = attachments[k].live)
            BY <1>1, <2>1, <2>3, <3>1, <3>2, <3>3 DEF Kept, Files!Attachment
        <3>4. CASE requests' = requests \cup {q} /\ row.type = "file" /\ ~row.live
            BY <1>1, <2>1, <2>3, <3>1, <3>2, <3>4 DEF Kept, Files!Attachment
        <3> QED
            BY <3>3, <3>4
    <2> QED
        BY <2>2, <2>3
<1> QED
    BY <1>4, <1>5, <1>6, <1>7 DEF FileInv

LEMMA FileDescriptionFailsInv == ASSUME FileInv, NEW c \in Calls, Files!DescriptionFails(c) PROVE FileInv'
<1>1. PICK k \in Files!Rows : k = handlers[c].row
    BY DEF Files!DescriptionFails, FileInv, HasFound
<1>2. PICK row : row = [attachments[k] EXCEPT !.late = TRUE]
    OBVIOUS
<1>3. attachments[k] \in Files!Attachment /\ attachments[k].path \in attachments[k].past
    BY FileTypes DEF FileInv, Files!TypeOK
<1>4. /\ row \in Files!Attachment /\ row.type = attachments[k].type /\ row.path = attachments[k].path
      /\ row.past = attachments[k].past /\ row.late /\ row.live = attachments[k].live
    BY <1>2, <1>3 DEF Files!Attachment
<1>5. PICK q \in [kind : {"delete"}, path : Paths, row : {k}, of : Calls] : q.path = attachments[k].path
    <2>1. [kind |-> "delete", path |-> attachments[k].path, row |-> k, of |-> c]
            \in [kind : {"delete"}, path : Paths, row : {k}, of : Calls]
        BY <1>3 DEF Files!Attachment
    <2> QED
        BY <2>1
<1>6. /\ attachments' = [attachments EXCEPT ![k] = row]
      /\ handlers' = [handlers EXCEPT ![c] = Files!Idle] /\ handlers[c].stage = "describe"
      /\ UNCHANGED <<bucket, requests, moves>> /\ moves \in Nat
    BY <1>1, <1>2 DEF Files!DescriptionFails, Files!IsLate, FileInv, Files!TypeOK
<1> QED
    BY <1>1, <1>3, <1>4, <1>5, <1>6, FileWriteInv

LEMMA FileUpdateInv == ASSUME FileInv, NEW c \in Calls, Files!Update(c) PROVE FileInv'
<1>1. PICK k \in Files!Rows : k = handlers[c].row
    BY DEF Files!Update, FileInv, HasFound
<1>2. attachments[k] \in Files!Attachment /\ attachments[k].path \in attachments[k].past
    BY FileTypes DEF FileInv, Files!TypeOK
<1>3. PICK row : /\ attachments' = [attachments EXCEPT ![k] = row]
                 /\ \/ row = attachments[k]
                    \/ \E p \in Paths : row = [attachments[k] EXCEPT !.path = p, !.past = @ \cup {p}]
    <2>1. CASE UNCHANGED attachments
        <3>1. attachments' = [attachments EXCEPT ![k] = attachments[k]]
            BY <2>1, FileTypes
        <3> QED
            BY <3>1
    <2>2. ASSUME NEW p \in Paths,
                 attachments' = [attachments EXCEPT ![k].path = p, ![k].past = @ \cup {p}]
          PROVE  attachments' = [attachments EXCEPT
                    ![k] = [attachments[k] EXCEPT !.path = p, !.past = @ \cup {p}]]
        BY <2>2, FileTypes, <1>2 DEF Files!Attachment
    <2> QED
        BY <1>1, <2>1, <2>2 DEF Files!Update
<1>4. /\ row \in Files!Attachment /\ row.type = attachments[k].type /\ row.path \in row.past
      /\ attachments[k].past \subseteq row.past /\ row.late = attachments[k].late
      /\ row.live = attachments[k].live
      /\ row.path = attachments[k].path \/ row.past # {row.path}
    <2>1. CASE row = attachments[k]
        BY <1>2, <2>1 DEF Files!Attachment
    <2>2. ASSUME NEW p \in Paths, row = [attachments[k] EXCEPT !.path = p, !.past = @ \cup {p}]
          PROVE  /\ row \in Files!Attachment /\ row.type = attachments[k].type /\ row.path \in row.past
                 /\ attachments[k].past \subseteq row.past /\ row.late = attachments[k].late
                 /\ row.live = attachments[k].live
                 /\ row.path = attachments[k].path \/ row.past # {row.path}
        <3>1. /\ row.type = attachments[k].type /\ row.late = attachments[k].late
              /\ row.live = attachments[k].live /\ row.path = p
              /\ row.past = attachments[k].past \cup {p} /\ row \in Files!Attachment
            BY <1>2, <2>2 DEF Files!Attachment
        <3>2. p # attachments[k].path => row.past # {p}
            BY <1>2, <3>1
        <3> QED
            BY <1>2, <3>1, <3>2
    <2> QED
        BY <1>3, <2>1, <2>2
<1>5. PICK q \in [kind : {"delete"}, path : Paths, row : {k}, of : Calls] : q.path = attachments[k].path
    <2>1. [kind |-> "delete", path |-> attachments[k].path, row |-> k, of |-> c]
            \in [kind : {"delete"}, path : Paths, row : {k}, of : Calls]
        BY <1>2 DEF Files!Attachment
    <2> QED
        BY <2>1
<1>6. /\ handlers' = [handlers EXCEPT ![c] = Files!Idle] /\ handlers[c].stage = "update"
      /\ UNCHANGED <<bucket, requests>> /\ moves' \in Nat
    BY DEF Files!Update, FileInv, Files!TypeOK
<1>7. ~row.live /\ ~row.late => ~Files!Overtakes(k)
    BY <1>4 DEF FileInv, Kept
<1>8. attachments' = [attachments EXCEPT ![k] = row]
    BY <1>3
<1>9. q.path \in attachments[k].past
    BY <1>2, <1>5
<1>10. /\ requests' = requests /\ (row.type = "file" => row.live = attachments[k].live)
       /\ row.live => attachments[k].live
       /\ attachments[k].late => row.late
       /\ handlers[c].stage = "describe" => row.late
       /\ handlers[c].stage # "idle"
    BY <1>4, <1>6
<1> QED
    BY <1>1, <1>4, <1>5, <1>6, <1>7, <1>8, <1>9, <1>10, FileWriteInv

LEMMA FileDeleteInv == ASSUME FileInv, NEW c \in Calls, Files!Delete(c) PROVE FileInv'
<1>1. PICK k \in Files!Rows : k = handlers[c].row
    BY DEF Files!Delete, FileInv, HasFound
<1>2. attachments[k] \in Files!Attachment /\ attachments[k].path \in attachments[k].past
    BY FileTypes DEF FileInv, Files!TypeOK
<1>3. PICK row : row = [attachments[k] EXCEPT !.live = FALSE, !.late = @ \/ Files!Overtakes(k)]
    OBVIOUS
<1>4. Files!Overtakes(k) \in BOOLEAN
    BY DEF Files!Overtakes
<1>5. /\ row \in Files!Attachment /\ row.type = attachments[k].type /\ row.path = attachments[k].path
      /\ row.past = attachments[k].past /\ ~row.live
      /\ attachments[k].late => row.late
      /\ ~row.late => ~Files!Overtakes(k)
    BY <1>2, <1>3, <1>4 DEF Files!Attachment
<1>6. attachments' = [attachments EXCEPT ![k] = row]
    <2>1. attachments' = [attachments EXCEPT ![k].live = FALSE, ![k].late = @ \/ Files!Overtakes(k)]
        BY <1>1 DEF Files!Delete
    <2> QED
        BY <1>2, <1>3, <2>1, FileTypes DEF Files!Attachment
<1>7. /\ handlers' = [handlers EXCEPT ![c] = Files!Idle] /\ handlers[c].stage = "delete"
      /\ UNCHANGED <<bucket, moves>> /\ moves \in Nat
      /\ handlers[c].type = attachments[k].type /\ handlers[c].path \in attachments[k].past
    BY <1>1 DEF Files!Delete, FileInv, Files!TypeOK, HasFound
<1>8. PICK q : q = [kind |-> "delete", path |-> handlers[c].path, row |-> k, of |-> c]
    OBVIOUS
<1>9. /\ q \in [kind : {"delete"}, path : Paths, row : {k}, of : Calls]
      /\ q.path \in attachments[k].past
    BY <1>2, <1>7, <1>8 DEF Files!Attachment
<1>10. requests' = requests \cup {r \in {q} : Files!DeletesFile(c)}
    BY <1>1, <1>8 DEF Files!Delete
<1>11. \/ requests' = requests /\ row.type # "file"
       \/ requests' = requests \cup {q} /\ row.type = "file"
    BY <1>5, <1>7, <1>10 DEF Files!DeletesFile
<1> QED
    BY <1>1, <1>2, <1>5, <1>6, <1>7, <1>9, <1>11, FileWriteInv

-----------------------------------------------------------------------------
(* The background.                                                            *)

LEMMA FileCopiedInv == ASSUME FileInv, NEW r \in requests, Files!Copied(r) PROVE FileInv'
<1>1. /\ r.kind = "transfer" /\ bucket' = bucket \cup {r.path} /\ requests' = requests \ {r}
      /\ UNCHANGED <<attachments, handlers, moves>>
    BY DEF Files!Copied
<1>2. Files!TypeOK'
    BY <1>1, FileTypes DEF FileInv, Files!TypeOK, Files!Rows
<1>3. \A c \in Calls : HasFound(c)'
    BY <1>1 DEF FileInv, HasFound, Files!Rows
<1>4. \A q \in requests' : Meant(q)'
    BY <1>1 DEF FileInv, Meant
<1>5. ASSUME NEW i \in Files!Rows' PROVE Kept(i)'
    <2>1. i \in Files!Rows /\ Kept(i) /\ (Files!OwnPath(i)' => Files!OwnPath(i)) /\ (Files!Overtakes(i)' => Files!Overtakes(i))
        BY <1>1 DEF FileInv, Files!Rows, Files!OwnPath, Files!Overtakes
    <2>2. (\E q \in requests' : q.row = i /\ q.kind = "delete")
            <=> (\E q \in requests : q.row = i /\ q.kind = "delete")
        BY <1>1
    <2>3. CASE i = r.row
        <3>1. Files!Overtakes(i)
            BY <1>1, <2>3 DEF Files!Overtakes
        <3>2. Files!OwnPath(i) => r.path = attachments[i].path
            BY <2>3 DEF FileInv, Meant, Files!OwnPath
        <3> QED
            BY <1>1, <2>1, <3>1, <3>2 DEF Kept
    <2>4. CASE i # r.row
        <3>1. Files!Overtakes(i)' <=> Files!Overtakes(i)
            BY <1>1, <2>4 DEF Files!Overtakes
        <3>2. Files!OwnPath(i) => r.path # attachments[i].path
            BY <2>1, <2>4, FileOwnRequests
        <3> QED
            BY <1>1, <2>1, <2>2, <3>1, <3>2 DEF Kept
    <2> QED
        BY <2>3, <2>4
<1> QED
    BY <1>2, <1>3, <1>4, <1>5 DEF FileInv

LEMMA FileRemovedInv == ASSUME FileInv, NEW r \in requests, Files!Removed(r) PROVE FileInv'
<1>1. /\ r.kind = "delete" /\ bucket' = bucket \ {r.path} /\ requests' = requests \ {r}
      /\ UNCHANGED <<attachments, handlers, moves>>
    BY DEF Files!Removed
<1>2. Files!TypeOK'
    BY <1>1, FileTypes DEF FileInv, Files!TypeOK, Files!Rows
<1>3. \A c \in Calls : HasFound(c)'
    BY <1>1 DEF FileInv, HasFound, Files!Rows
<1>4. \A q \in requests' : Meant(q)'
    BY <1>1 DEF FileInv, Meant
<1>5. ASSUME NEW i \in Files!Rows' PROVE Kept(i)'
    <2>1. /\ i \in Files!Rows /\ Kept(i) /\ (Files!OwnPath(i)' => Files!OwnPath(i))
          /\ (Files!Overtakes(i)' <=> Files!Overtakes(i))
        BY <1>1 DEF FileInv, Files!Rows, Files!OwnPath, Files!Overtakes
    <2>2. CASE i = r.row
        <3>1. ~attachments[i].live /\ (Files!OwnPath(i) => r.path = attachments[i].path)
            BY <1>1, <2>2 DEF FileInv, Meant, Files!OwnPath
        <3> QED
            BY <1>1, <2>1, <3>1 DEF Kept
    <2>3. CASE i # r.row
        <3>1. (\E q \in requests' : q.row = i /\ q.kind = "delete")
                <=> (\E q \in requests : q.row = i /\ q.kind = "delete")
            BY <1>1, <2>3
        <3>2. Files!OwnPath(i) => r.path # attachments[i].path
            BY <2>1, <2>3, FileOwnRequests
        <3> QED
            BY <1>1, <2>1, <3>1, <3>2 DEF Kept
    <2> QED
        BY <2>2, <2>3
<1> QED
    BY <1>2, <1>3, <1>4, <1>5 DEF FileInv

\* Rows of which requests are lost are late.
LEMMA FileLosesInv ==
    ASSUME FileInv, attachments' \in Seq(Files!Attachment), Files!Rows' = Files!Rows,
           requests' \subseteq requests, UNCHANGED <<bucket, moves>>,
           handlers' \in [Calls -> Files!Handler],
           \A c \in Calls : handlers'[c] = Files!Idle \/ handlers'[c] = handlers[c],
           \A i \in Files!Rows :
              /\ attachments'[i].type = attachments[i].type /\ attachments'[i].path = attachments[i].path
              /\ attachments'[i].past = attachments[i].past /\ attachments'[i].live = attachments[i].live
              /\ attachments[i].late => attachments'[i].late
              /\ \/ attachments'[i].late
                 \/ /\ \A r \in requests : r.row = i => r \in requests'
                    /\ Files!Overtakes(i)' <=> Files!Overtakes(i)
    PROVE  FileInv'
<1>1. Files!TypeOK'
    BY DEF FileInv, Files!TypeOK
<1>2. Rewritten
    BY DEF Rewritten, FileInv, Files!TypeOK
<1>3. ASSUME NEW c \in Calls PROVE HasFound(c)'
    BY <1>1 DEF FileInv, HasFound, Files!Idle
<1>4. ASSUME NEW r \in requests' PROVE Meant(r)'
    BY <1>4, FileTypes DEF FileInv, Meant
<1>5. ASSUME NEW i \in Files!Rows' PROVE Kept(i)'
    <2>1. Kept(i) /\ (Files!OwnPath(i)' => Files!OwnPath(i))
        BY <1>2, FileOwnBefore DEF FileInv
    <2> QED
        BY <2>1 DEF Kept
<1> QED
    BY <1>1, <1>3, <1>4, <1>5 DEF FileInv

LEMMA FileRequestFailsInv == ASSUME FileInv, NEW r \in requests, Files!RequestFails(r) PROVE FileInv'
<1>1. /\ requests' = requests \ {r} /\ attachments' = [attachments EXCEPT ![r.row].late = TRUE]
      /\ UNCHANGED <<bucket, handlers, moves>> /\ r.row \in Files!Rows
    BY FileTypes DEF Files!RequestFails, Files!IsLate
<1>2. attachments[r.row] \in Files!Attachment
    BY <1>1, FileTypes
<1>3. PICK row : row = [attachments[r.row] EXCEPT !.late = TRUE]
    OBVIOUS
<1>4. /\ row \in Files!Attachment /\ row.type = attachments[r.row].type /\ row.path = attachments[r.row].path
      /\ row.past = attachments[r.row].past /\ row.live = attachments[r.row].live /\ row.late
    BY <1>2, <1>3 DEF Files!Attachment
<1>5. attachments' = [attachments EXCEPT ![r.row] = row]
    BY <1>1, <1>3
<1>6. /\ attachments' \in Seq(Files!Attachment) /\ Files!Rows' = Files!Rows /\ attachments'[r.row] = row
      /\ \A i \in Files!Rows \ {r.row} : attachments'[i] = attachments[i]
    BY <1>1, <1>4, <1>5, FileTypes DEF Files!Rows
<1>7. \A i \in Files!Rows \ {r.row} : Files!Overtakes(i)' <=> Files!Overtakes(i)
    BY <1>1 DEF Files!Overtakes
<1>8. handlers' \in [Calls -> Files!Handler]
    BY <1>1 DEF FileInv, Files!TypeOK
<1> QED
    BY <1>1, <1>4, <1>6, <1>7, <1>8, FileLosesInv

LEMMA FileRestartInv == ASSUME FileInv, Files!Restart PROVE FileInv'
<1> DEFINE lost(i) == \/ attachments[i].late
                      \/ \E r \in requests : r.row = i
                      \/ \E c \in Calls : handlers[c].stage = "describe" /\ handlers[c].row = i
<1>1. /\ attachments' = [i \in Files!Rows |-> [attachments[i] EXCEPT !.late = lost(i)]]
      /\ handlers' = [c \in Calls |-> Files!Idle] /\ requests' = {} /\ UNCHANGED <<bucket, moves>>
    BY FileTypes DEF Files!Restart, Files!Attachment
<1>2. \A i \in Files!Rows : lost(i) \in BOOLEAN
    BY FileTypes DEF Files!Attachment
<1>3. \A i \in Files!Rows : attachments'[i] \in Files!Attachment /\ attachments'[i].late = lost(i)
    <2> HIDE DEF lost
    <2> QED
        BY <1>1, <1>2, FileTypes DEF Files!Attachment
<1>4. /\ attachments' \in [1..Len(attachments) -> Files!Attachment]
      /\ \A i \in Files!Rows :
            /\ attachments'[i].type = attachments[i].type /\ attachments'[i].path = attachments[i].path
            /\ attachments'[i].past = attachments[i].past /\ attachments'[i].live = attachments[i].live
    <2> HIDE DEF lost
    <2> QED
        BY <1>1, <1>3, FileTypes DEF Files!Attachment
<1>5. attachments' \in Seq(Files!Attachment) /\ Files!Rows' = Files!Rows
    BY <1>4, FileTypes DEF Files!Rows
<1>6. ASSUME NEW i \in Files!Rows, ~attachments'[i].late
      PROVE  /\ ~attachments[i].late
             /\ \A r \in requests : r.row # i
             /\ Files!Overtakes(i)' <=> Files!Overtakes(i)
    BY <1>1, <1>3, <1>6 DEF Files!Overtakes, Files!Idle
<1>7. handlers' \in [Calls -> Files!Handler] /\ \A c \in Calls : handlers'[c] = Files!Idle
    BY <1>1 DEF Files!Idle, Files!Handler
<1>8. requests' \subseteq requests /\ UNCHANGED <<bucket, moves>>
    BY <1>1
<1> HIDE DEF lost
<1> QED
    BY <1>4, <1>5, <1>6, <1>7, <1>8, FileLosesInv

-----------------------------------------------------------------------------
LEMMA FileNextInv == ASSUME FileInv, [Files!Next]_Files!vars PROVE FileInv'
<1>1. CASE UNCHANGED Files!vars
    BY <1>1 DEF Files!vars, FileInv, Files!TypeOK, Files!Rows, HasFound, Meant, Kept, Files!OwnPath, Files!Overtakes
<1>2. ASSUME NEW c \in Calls,
             \/ Files!InsertLink(c) \/ Files!InsertFile(c) \/ Files!RequestTransfer(c) \/ Files!DescriptionFails(c)
             \/ Files!FindToUpdate(c) \/ Files!FindToDelete(c) \/ Files!UpdateForbidden(c) \/ Files!Update(c) \/ Files!Delete(c)
      PROVE  FileInv'
    BY <1>2, FileInsertInv, FileCallInv, FileDescriptionFailsInv, FileUpdateInv, FileDeleteInv
<1>3. ASSUME NEW r \in requests, Files!Copied(r) \/ Files!Removed(r) \/ Files!RequestFails(r) PROVE FileInv'
    BY <1>3, FileCopiedInv, FileRemovedInv, FileRequestFailsInv
<1>4. CASE Files!Restart
    BY <1>4, FileRestartInv
<1> QED
    BY <1>1, <1>2, <1>3, <1>4 DEF Files!Next

\* The inductive invariant holds.
THEOREM FileInvCorrect == Files!Spec => []FileInv
BY FileInitInv, FileNextInv, PTL DEF Files!Spec

\* TypeOK: rows, bucket, requests and calls keep their types, for any number of them.
THEOREM FileTypeCorrect == Files!Spec => []Files!TypeOK
<1>1. FileInv => Files!TypeOK
    BY DEF FileInv
<1> QED
    BY <1>1, FileInvCorrect, PTL

\* StoredIffLive: whatever calls, failures and restarts come between createAttachment,
\* deleteAttachment and the requests they leave behind, a file attachment with a path of its
\* own that has lost no request has its file exactly as long as its row.
THEOREM FileStoredIffLiveCorrect == Files!Spec => []Files!StoredIffLive
<1>1. ASSUME FileInv PROVE Files!StoredIffLive
    <2>1. ASSUME NEW i \in Files!Rows, attachments[i].type = "file", Files!OwnPath(i), Files!Settled(i),
                 ~attachments[i].late
          PROVE  attachments[i].path \in bucket <=> attachments[i].live
        <3>1. Kept(i) /\ ~Files!Overtakes(i)
            BY <1>1, <2>1 DEF FileInv, Files!Settled, Files!Overtakes
        <3>2. ~\E r \in requests : r.row = i /\ r.kind = "delete"
            BY <2>1 DEF Files!Settled
        <3>3. attachments[i].live \in BOOLEAN
            BY <1>1, FileTypes DEF Files!Attachment
        <3> QED
            BY <2>1, <3>1, <3>2, <3>3 DEF Kept
    <2> QED
        BY <2>1 DEF Files!StoredIffLive
<1> QED
    BY <1>1, FileInvCorrect, PTL

-----------------------------------------------------------------------------
(* Keyed records.                                                             *)

\* What the services have in common, and where they differ.
Kind(v) ==
    /\ v.halves \in {{1}, {1, 2}}
    /\ v.create.caught /\ v.create.lookup \in {"live", "all"}
    /\ ~v.index => v.create.lookup = "live" /\ v.update.lookup = "live" /\ v.update.when = "given"
    /\ v.update.when \in {"always", "given", "moves"}
    /\ v.update.lookup \in {"no", "live"} /\ v.delete.lookup = "no"
    /\ v.update.template \in BOOLEAN /\ ~v.delete.template
    /\ v.update.caught \in BOOLEAN /\ v.index \in BOOLEAN
    /\ ~v.update.caught /\ v.update.lookup # "no" => v.index

LEMMA Kinds == ASSUME service \in {Records!Operations[s] : s \in Services} PROVE Kind(service)
<1>1. PICK s \in DOMAIN Records!Operations : service = Records!Operations[s]
  BY RecordsAssumption
<1>2. s \in {"settings", "permissions", "orgConfigs", "types", "productCategories", "industries",
             "postCategories"}
  BY DEF Records!Operations
<1>3. CASE s = "settings"
  BY <1>1, <1>3 DEF Records!Operations, Records!ServiceOf, Records!SettingCreate, Records!SettingUpdate, Records!SettingDelete, Records!Plain, Kind
<1>4. CASE s = "permissions"
  BY <1>1, <1>4 DEF Records!Operations, Records!ServiceOf, Records!PermissionCreate, Records!PermissionUpdate, Records!PermissionDelete, Records!Plain, Kind
<1>5. CASE s = "orgConfigs"
  BY <1>1, <1>5 DEF Records!Operations, Records!ServiceOf, Records!OrgConfigCreate, Records!OrgConfigUpdate, Records!OrgConfigDelete, Records!Plain, Kind
<1>6. CASE s = "types"
  BY <1>1, <1>6 DEF Records!Operations, Records!ServiceOf, Records!TypeCreate, Records!TypeUpdate, Records!TypeDelete, Records!Plain, Kind
<1>7. CASE s = "productCategories"
  BY <1>1, <1>7 DEF Records!Operations, Records!ServiceOf, Records!ProductCategoryCreate, Records!ProductCategoryUpdate, Records!ProductCategoryDelete,
        Records!TypeCreate, Records!TypeUpdate, Records!TypeDelete, Records!Plain, Kind
<1>8. CASE s = "industries"
  BY <1>1, <1>8 DEF Records!Operations, Records!ServiceOf, Records!IndustryCreate, Records!IndustryUpdate, Records!IndustryDelete, Records!Plain, Kind
<1>9. CASE s = "postCategories"
  BY <1>1, <1>9 DEF Records!Operations, Records!ServiceOf, Records!PostCategoryCreate, Records!PostCategoryUpdate, Records!PostCategoryDelete,
        Records!IndustryCreate, Records!IndustryUpdate, Records!IndustryDelete, Records!Plain, Kind
<1>10. QED BY <1>2, <1>3, <1>4, <1>5, <1>6, <1>7, <1>8, <1>9

\* An index keeps the keys of all rows apart that are not gone.
Unique ==
    service.index =>
        \A i, j \in Records!Ids : i # j /\ rows[i].key = rows[j].key => "gone" \in {rows[i].state, rows[j].state}

Flying(c) == calls[c].stage \in {"row", "admit", "lookup", "write"}

\* What a call has of its row and its key, stage by stage.
Sane(c) ==
    LET k == calls[c]
    IN  /\ k.answer # "none" => k.stage = "ended"
        /\ k.stage = "row" => k.op \in {"update", "delete"}
        /\ k.stage \in {"admit", "lookup"} => k.op \in {"create", "update"}
        /\ k.stage = "write" => k.op # "none"
        /\ Flying(c) /\ k.op # "create" => k.row \in Records!Ids
        /\ Flying(c) /\ k.op = "create" => k.row = 0 /\ k.look
        /\ k.op = "update" /\ k.stage = "row" => k.key \in [k.patch -> Halves]
        /\ Flying(c) /\ k.stage # "row" /\ k.op # "delete" => k.key \in Records!Keys

\* What a call that is alone knows, because nobody else writes: its row is live still, the
\* key it has completed is the one the row gets, and no live row has it.
Knows(c) ==
    LET k == calls[c]
    IN  /\ \A d \in Calls \ {c} : ~Flying(d)
        /\ k.stage \in {"admit", "lookup", "write"} =>
            /\ k.op # "create" => rows[k.row].state = "live"
            /\ k.op = "update" =>
                /\ Records!KeyOf(c) = k.key
                /\ ~k.look => k.key = rows[k.row].key \/ service.update.lookup = "no"
        /\ k.stage = "write" /\ k.look => Records!Holders(k.key, {"live"}) \ {k.row} = {}

\* The inductive invariant.
RecordInv ==
    /\ Records!TypeOK
    /\ Unique
    /\ Records!DuplicatesAreRaces
    /\ Records!UnhandledHasCause
    /\ \A c \in Calls : Sane(c) /\ (calls[c].alone => Knows(c))

LEMMA RecordsInit == Records!Init => RecordInv
<1> SUFFICES ASSUME Records!Init PROVE RecordInv
  OBVIOUS
<1>1. rows \in Seq(Records!Row) /\ Len(rows) <= MaxRows /\ Records!Ids = {}
  BY RecordsAssumption DEF Records!Init, Records!Ids
<1>2. Records!Idle \in Records!Call
  BY DEF Records!Idle, Records!Call
<1>3. Records!TypeOK
  BY <1>1, <1>2 DEF Records!Init, Records!TypeOK
<1>4. QED BY <1>1, <1>3 DEF Records!Init, RecordInv, Unique, Records!DuplicatesAreRaces, Records!UnhandledHasCause, Sane, Flying, Records!Idle

\* A call that goes on or ends, and writes nothing.
LEMMA CallGoes ==
    ASSUME RecordInv, NEW c \in Calls, NEW k \in Records!Call, Flying(c),
           calls' = [calls EXCEPT ![c] = k], UNCHANGED <<service, rows, templates>>,
           Sane(c)', k.alone => calls[c].alone /\ Knows(c)',
           k.answer = "unhandled" =>
            /\ k.op # "create"
            /\ k.alone => /\ k.op = "update"
                          /\ Records!Holders(k.key, {"deleted"}) # {} \/ service.update.lookup = "no"
    PROVE  RecordInv'
<1>1. Records!TypeOK'
  BY DEF RecordInv, Records!TypeOK, Records!Row, Records!Keys, Records!Call, Records!GivenKeys
<1>2. Unique' /\ Records!DuplicatesAreRaces'
  BY DEF RecordInv, Unique, Records!DuplicatesAreRaces, Records!Ids
<1>3. calls'[c] = k /\ \A d \in Calls \ {c} : calls'[d] = calls[d]
  BY DEF RecordInv, Records!TypeOK
<1>4. Records!UnhandledHasCause'
  BY <1>3 DEF RecordInv, Records!UnhandledHasCause, Records!Holders, Records!Ids
<1>5. ASSUME NEW d \in Calls \ {c}
      PROVE  Sane(d)' /\ ~calls[d].alone /\ ~calls'[d].alone
  BY <1>3 DEF RecordInv, Sane, Knows, Flying, Records!Ids, Records!Keys
<1>6. QED BY <1>1, <1>2, <1>3, <1>4, <1>5 DEF RecordInv

\* A call that writes, and ends.
LEMMA CallWrites ==
    ASSUME RecordInv, NEW c \in Calls, Flying(c),
           calls' = [calls EXCEPT ![c] = Records!Idle], UNCHANGED <<service, templates>>,
           rows' \in Seq(Records!Row), Len(rows') <= MaxRows, Len(rows) <= Len(rows'),
           Unique', Records!DuplicatesAreRaces'
    PROVE  RecordInv'
<1>1. Records!TypeOK'
  <2>1. Records!Idle \in Records!Call
    BY DEF Records!Idle, Records!Call
  <2>2. QED BY <2>1 DEF RecordInv, Records!TypeOK, Records!Row, Records!Keys, Records!Call, Records!GivenKeys
<1>2. calls'[c] = Records!Idle /\ \A d \in Calls \ {c} : calls'[d] = calls[d]
  BY DEF RecordInv, Records!TypeOK
<1>3. Records!Ids \subseteq Records!Ids'
  BY DEF RecordInv, Records!TypeOK, Records!Ids
<1>4. Sane(c)' /\ ~calls'[c].alone /\ calls'[c].answer = "none"
  BY <1>2 DEF Sane, Flying, Records!Idle
<1>5. ASSUME NEW d \in Calls \ {c}
      PROVE  Sane(d)' /\ ~calls'[d].alone
  BY <1>2, <1>3 DEF RecordInv, Sane, Knows, Flying, Records!Keys
<1>6. Records!UnhandledHasCause'
  BY <1>2, <1>4, <1>5 DEF RecordInv, Records!UnhandledHasCause
<1>7. QED BY <1>1, <1>4, <1>5, <1>6 DEF RecordInv

\* A call that is refused: it ends, and of the answers only an unhandled one is kept.
LEMMA CallRefused ==
    ASSUME RecordInv, NEW c \in Calls, Flying(c), NEW answer, answer # "unhandled", Records!Refuse(c, answer)
    PROVE  RecordInv'
<1>1. calls' = [calls EXCEPT ![c] = Records!Idle] /\ UNCHANGED <<service, rows, templates>>
  BY DEF Records!Refuse, Records!End
<1>2. Records!Idle \in Records!Call /\ ~Records!Idle.alone /\ Records!Idle.answer = "none"
  BY DEF Records!Idle, Records!Call
<1>3. calls'[c] = Records!Idle
  BY <1>1 DEF RecordInv, Records!TypeOK
<1>4. Sane(c)'
  BY <1>3 DEF Sane, Flying, Records!Idle
<1>5. QED BY <1>1, <1>2, <1>4, CallGoes

\* A call begins: no other is alone any more.
LEMMA CallBegins ==
    ASSUME RecordInv, NEW c \in Calls, NEW k \in Records!Call, Records!Begin(c, k),
           k.answer = "none", k.stage \in {"row", "admit", "lookup"},
           k.stage = "row" => k.op \in {"update", "delete"} /\ k.row \in Records!Ids,
           k.stage \in {"admit", "lookup"} => k.op = "create" /\ k.key \in Records!Keys /\ k.row = 0 /\ k.look,
           k.op = "update" => k.key \in [k.patch -> Halves]
    PROVE  RecordInv'
<1> DEFINE alone == {d \in Calls \ {c} : calls[d].stage \notin {"idle", "ended"}} = {}
           mine == [k EXCEPT !.alone = alone]
<1>1. /\ calls' = [d \in Calls |-> IF d = c THEN mine ELSE [calls[d] EXCEPT !.alone = FALSE]]
      /\ UNCHANGED <<service, rows, templates>>
  BY DEF Records!Begin
<1>2. alone => \A d \in Calls \ {c} : ~Flying(d)
  BY DEF Flying
<1>3. alone \in BOOLEAN
  OBVIOUS
<1> HIDE DEF alone
<1>4. /\ mine \in Records!Call /\ mine.op = k.op /\ mine.stage = k.stage /\ mine.row = k.row /\ mine.key = k.key
      /\ mine.patch = k.patch /\ mine.look = k.look /\ mine.answer = k.answer /\ mine.alone = alone
  BY <1>3 DEF Records!Call
<1> HIDE DEF mine
<1>5. calls'[c] = mine
  BY <1>1
<1>6. ASSUME NEW d \in Calls \ {c}
      PROVE  /\ calls'[d] \in Records!Call /\ ~calls'[d].alone
             /\ calls'[d].op = calls[d].op /\ calls'[d].stage = calls[d].stage
             /\ calls'[d].row = calls[d].row /\ calls'[d].key = calls[d].key
             /\ calls'[d].patch = calls[d].patch /\ calls'[d].look = calls[d].look
             /\ calls'[d].answer = calls[d].answer
  BY <1>1 DEF RecordInv, Records!TypeOK, Records!Call
<1>7. Records!TypeOK'
  <2>1. \A d \in Calls : calls'[d] \in Records!Call
    BY <1>4, <1>5, <1>6
  <2>2. calls' \in [Calls -> Records!Call]
    BY <1>1, <2>1
  <2>3. QED BY <1>1, <2>2 DEF RecordInv, Records!TypeOK, Records!Row, Records!Keys, Records!Call, Records!GivenKeys
<1>8. Unique' /\ Records!DuplicatesAreRaces'
  BY <1>1 DEF RecordInv, Unique, Records!DuplicatesAreRaces, Records!Ids
<1>9. Sane(c)'
  BY <1>1, <1>4, <1>5 DEF Sane, Flying, Records!Ids, Records!Keys
<1>10. ASSUME NEW d \in Calls \ {c} PROVE Sane(d)'
  <2>1. Sane(d)
    BY DEF RecordInv
  <2>2. Records!Keys' = Records!Keys /\ Records!Ids' = Records!Ids
    BY <1>1 DEF Records!Keys, Records!Ids
  <2>3. QED BY <1>6, <2>1, <2>2 DEF Sane, Flying
<1>11. Records!UnhandledHasCause'
  BY <1>4, <1>5, <1>6 DEF RecordInv, Records!UnhandledHasCause
<1>12. calls'[c].alone => Knows(c)'
  <2> SUFFICES ASSUME alone PROVE Knows(c)'
    BY <1>4, <1>5
  <2>1. \A d \in Calls \ {c} : ~Flying(d)'
    BY <1>2, <1>6 DEF Flying
  <2>2. QED BY <1>4, <1>5, <2>1 DEF Knows
<1>13. QED BY <1>6, <1>7, <1>8, <1>9, <1>10, <1>11, <1>12 DEF RecordInv

LEMMA BeginInv ==
    ASSUME RecordInv, NEW c \in Calls, Records!BeginCreate(c) \/ Records!BeginUpdate(c) \/ Records!BeginDelete(c)
    PROVE  RecordInv'
<1>0. Kind(service) /\ service.halves \in SUBSET service.halves
  BY Kinds DEF RecordInv, Records!TypeOK
<1>1. CASE Records!BeginCreate(c)
  <2>1. PICK key \in Records!Keys :
          Records!Begin(c, [Records!Idle EXCEPT !.op = "create", !.key = key, !.look = TRUE,
                                !.stage = Records!Admission(service.create)])
    BY <1>1 DEF Records!BeginCreate
  <2> DEFINE k == [Records!Idle EXCEPT !.op = "create", !.key = key, !.look = TRUE,
                               !.stage = Records!Admission(service.create)]
  <2>2. key \in Records!GivenKeys
    BY <1>0 DEF Records!Keys, Records!GivenKeys
  <2>3. Records!Admission(service.create) \in {"admit", "lookup"}
    BY DEF Records!Admission
  <2>4. /\ k \in Records!Call /\ k.op = "create" /\ k.stage \in {"admit", "lookup"} /\ k.key = key /\ k.row = 0
        /\ k.look /\ k.answer = "none"
    BY <2>2, <2>3 DEF Records!Idle, Records!Call
  <2> HIDE DEF k
  <2>5. Records!Begin(c, k)
    BY <2>1 DEF k
  <2>6. QED BY <2>4, <2>5, CallBegins
<1>2. CASE Records!BeginUpdate(c)
  <2>1. PICK i \in Records!Ids, halves \in SUBSET (IF service.changes THEN service.halves ELSE {}) :
          \E given \in [halves -> Halves] :
            Records!Begin(c, [Records!Idle EXCEPT !.op = "update", !.stage = "row", !.row = i,
                                  !.key = given, !.patch = halves])
    BY <1>2 DEF Records!BeginUpdate
  <2>2. PICK given \in [halves -> Halves] :
            Records!Begin(c, [Records!Idle EXCEPT !.op = "update", !.stage = "row", !.row = i,
                                  !.key = given, !.patch = halves])
    BY <2>1
  <2> DEFINE k == [Records!Idle EXCEPT !.op = "update", !.stage = "row", !.row = i,
                               !.key = given, !.patch = halves]
  <2>3. halves \in SUBSET service.halves
    OBVIOUS
  <2>4. given \in Records!GivenKeys
    BY <2>3 DEF Records!GivenKeys
  <2>5. i \in Nat
    BY DEF RecordInv, Records!TypeOK, Records!Ids
  <2>6. /\ k \in Records!Call /\ k.op = "update" /\ k.stage = "row" /\ k.row = i /\ k.key = given /\ k.patch = halves
        /\ k.answer = "none"
    BY <2>3, <2>4, <2>5 DEF Records!Idle, Records!Call
  <2> HIDE DEF k
  <2>7. Records!Begin(c, k)
    BY <2>2 DEF k
  <2>8. QED BY <2>6, <2>7, CallBegins
<1>3. CASE Records!BeginDelete(c)
  <2>1. PICK i \in Records!Ids : Records!Begin(c, [Records!Idle EXCEPT !.op = "delete", !.stage = "row", !.row = i])
    BY <1>3 DEF Records!BeginDelete
  <2> DEFINE k == [Records!Idle EXCEPT !.op = "delete", !.stage = "row", !.row = i]
  <2>2. i \in Nat
    BY DEF RecordInv, Records!TypeOK, Records!Ids
  <2>3. k \in Records!Call /\ k.op = "delete" /\ k.stage = "row" /\ k.row = i /\ k.answer = "none"
    BY <2>2 DEF Records!Idle, Records!Call
  <2> HIDE DEF k
  <2>4. Records!Begin(c, k)
    BY <2>1 DEF k
  <2>5. QED BY <2>3, <2>4, CallBegins
<1>4. QED BY <1>1, <1>2, <1>3

\* The key an update gives its row is a key, and stays the same once it is complete.
LEMMA CompleteKey ==
    ASSUME RecordInv, NEW c \in Calls, Flying(c), calls[c].op = "update"
    PROVE  /\ Records!KeyOf(c) \in Records!Keys
           /\ rows[calls[c].row].key \in Records!Keys
           /\ calls[c].patch = {} => Records!KeyOf(c) = rows[calls[c].row].key
<1>1. calls[c] \in Records!Call /\ Sane(c) /\ rows \in Seq(Records!Row)
  BY DEF RecordInv, Records!TypeOK
<1>2. calls[c].row \in 1..Len(rows)
  BY <1>1 DEF Sane, Records!Ids
<1>3. rows[calls[c].row] \in Records!Row
  BY <1>1, <1>2
<1>4. rows[calls[c].row].key \in [service.halves -> Halves]
  BY <1>3 DEF Records!Row, Records!Keys
<1>5. \A h \in calls[c].patch : h \in service.halves /\ calls[c].key[h] \in Halves
  <2>1. calls[c].patch \subseteq service.halves
    BY <1>1 DEF Records!Call
  <2>2. CASE calls[c].stage = "row"
    BY <1>1, <2>1, <2>2 DEF Sane
  <2>3. CASE calls[c].stage # "row"
    BY <1>1, <2>1, <2>3 DEF Sane, Records!Keys
  <2>4. QED BY <2>2, <2>3
<1>6. Records!KeyOf(c) = [h \in service.halves |->
        IF h \in calls[c].patch THEN calls[c].key[h] ELSE rows[calls[c].row].key[h]]
  BY DEF Records!KeyOf
<1>7. QED BY <1>4, <1>5, <1>6 DEF Records!Keys

LEMMA ThreeFields ==
    ASSUME calls \in [Calls -> Records!Call], NEW c \in Calls, NEW stage, NEW key, NEW look
    PROVE  [calls EXCEPT ![c].stage = stage, ![c].key = key, ![c].look = look] =
             [calls EXCEPT ![c] = [calls[c] EXCEPT !.stage = stage, !.key = key, !.look = look]]
BY DEF Records!Call

\* findFirst of an update or a deletion.
LEMMA FindRowInv ==
    ASSUME RecordInv, NEW c \in Calls, Records!FindRow(c)
    PROVE  RecordInv'
<1> DEFINE op == Records!Operation(c)
           i == calls[c].row
           key == IF calls[c].op = "update" THEN Records!KeyOf(c) ELSE calls[c].key
           stage == CASE calls[c].op = "delete" -> "write"
                      [] op.template -> "admit"
                      [] OTHER -> "lookup"
           look == /\ op.lookup # "no"
                   /\ op.when = "moves" => Records!KeyOf(c) # rows[i].key
                   /\ op.when = "given" => calls[c].patch # {}
           k == [calls[c] EXCEPT !.stage = stage, !.key = key, !.look = look]
<1>1. /\ Flying(c) /\ calls[c] \in Records!Call /\ calls[c].stage = "row" /\ Sane(c)
      /\ calls[c].op \in {"update", "delete"} /\ calls[c].answer = "none"
  BY DEF Records!FindRow, Flying, RecordInv, Records!TypeOK, Sane
<1>2. Kind(service) /\ (calls[c].op = "update" => op = service.update)
        /\ (calls[c].op = "delete" => op = service.delete)
  BY Kinds DEF RecordInv, Records!TypeOK, Records!Operation
<1>3. \/ RecordInv'
      \/ /\ rows[i].state = "live"
         /\ calls' = [calls EXCEPT ![c] = k]
         /\ UNCHANGED <<service, rows, templates>>
  <2>1. ASSUME NEW answer \in {"NotFound", "Forbidden"}, Records!Refuse(c, answer) PROVE RecordInv'
    BY <1>1, <2>1, CallRefused
  <2>2. CASE rows[i].state # "live" /\ Records!Refuse(c, "NotFound")
    BY <2>1, <2>2
  <2>3. CASE Records!Refuse(c, "Forbidden")
    BY <2>1, <2>3
  <2>4. CASE /\ rows[i].state = "live"
             /\ calls' = [calls EXCEPT ![c].stage = stage, ![c].key = key, ![c].look = look]
             /\ UNCHANGED <<service, rows, templates>>
    <3> HIDE DEF stage, key, look
    <3>1. calls' = [calls EXCEPT ![c] = k]
      BY <2>4, ThreeFields DEF RecordInv, Records!TypeOK
    <3>2. QED BY <2>4, <3>1
  <2>5. QED BY <2>2, <2>3, <2>4 DEF Records!FindRow
<1> SUFFICES ASSUME rows[i].state = "live", calls' = [calls EXCEPT ![c] = k],
                    UNCHANGED <<service, rows, templates>>
             PROVE  RecordInv'
  BY <1>3
<1>4. /\ stage \in {"admit", "lookup", "write"}
      /\ stage = "write" <=> calls[c].op = "delete"
      /\ look \in BOOLEAN
  BY <1>1, <1>2 DEF Kind
<1>5. calls[c].op = "delete" => ~look
  BY <1>2 DEF Kind
<1>6. /\ calls[c].op = "update" => key = Records!KeyOf(c) /\ key \in Records!Keys
      /\ key \in Records!GivenKeys \cup {<<>>}
  <2>1. Records!Keys \subseteq Records!GivenKeys
    BY DEF Records!Keys, Records!GivenKeys
  <2>2. QED BY <1>1, <2>1, CompleteKey DEF Records!Call
<1>7. calls[c].op = "update" /\ ~look => key = rows[i].key \/ service.update.lookup = "no"
  BY <1>1, <1>2, <1>6, CompleteKey DEF Kind
<1> HIDE DEF stage, look, key
<1>8. /\ k \in Records!Call /\ k.op = calls[c].op /\ k.stage = stage /\ k.row = i /\ k.key = key
      /\ k.patch = calls[c].patch /\ k.look = look /\ k.answer = "none" /\ k.alone = calls[c].alone
  BY <1>1, <1>4, <1>6 DEF Records!Call
<1>9. calls'[c] = k /\ \A d \in Calls \ {c} : calls'[d] = calls[d]
  BY DEF RecordInv, Records!TypeOK
<1> HIDE DEF k
<1>10. Sane(c)'
  BY <1>1, <1>4, <1>6, <1>8, <1>9 DEF Sane, Flying, Records!Ids, Records!Keys
<1>11. ASSUME k.alone PROVE Knows(c)'
  <2>1. \A d \in Calls \ {c} : ~Flying(d)'
    BY <1>8, <1>9, <1>11 DEF RecordInv, Knows, Flying
  <2>2. calls[c].op = "update" => Records!KeyOf(c)' = key
    BY <1>6, <1>8, <1>9 DEF Records!KeyOf, key
  <2>3. QED BY <1>1, <1>4, <1>5, <1>7, <1>8, <1>9, <2>1, <2>2 DEF Knows
<1>12. QED BY <1>1, <1>8, <1>10, <1>11, CallGoes

\* A stage that writes nothing and changes nothing else of the call.
LEMMA GotoInv ==
    ASSUME RecordInv, NEW c \in Calls, NEW stage,
           \/ calls[c].stage = "admit" /\ stage = "lookup"
           \/ /\ calls[c].stage = "lookup" /\ stage = "write"
              /\ calls[c].look => Records!Holders(calls[c].key, {"live"}) \ {calls[c].row} = {},
           Records!Goto(c, stage)
    PROVE  RecordInv'
<1> DEFINE k == [calls[c] EXCEPT !.stage = stage]
<1>1. /\ Flying(c) /\ calls[c] \in Records!Call /\ Sane(c) /\ calls[c].answer = "none"
      /\ calls[c].op \in {"create", "update"}
  BY DEF Flying, RecordInv, Records!TypeOK, Sane
<1>2. calls' = [calls EXCEPT ![c] = k] /\ UNCHANGED <<service, rows, templates>>
  BY DEF Records!Goto, RecordInv, Records!TypeOK, Records!Call
<1>3. /\ k \in Records!Call /\ k.op = calls[c].op /\ k.stage = stage /\ k.row = calls[c].row /\ k.key = calls[c].key
      /\ k.patch = calls[c].patch /\ k.look = calls[c].look /\ k.answer = "none" /\ k.alone = calls[c].alone
  BY <1>1 DEF Records!Call
<1>4. calls'[c] = k /\ \A d \in Calls \ {c} : calls'[d] = calls[d]
  BY <1>2 DEF RecordInv, Records!TypeOK
<1> HIDE DEF k
<1>5. Sane(c)'
  BY <1>1, <1>2, <1>3, <1>4 DEF Sane, Flying, Records!Ids, Records!Keys
<1>6. ASSUME k.alone PROVE Knows(c)'
  <2>1. Knows(c) /\ \A d \in Calls \ {c} : ~Flying(d)'
    BY <1>3, <1>4, <1>6 DEF RecordInv, Knows, Flying
  <2>2. calls[c].op = "update" => Records!KeyOf(c)' = Records!KeyOf(c)
    BY <1>2, <1>3, <1>4 DEF Records!KeyOf
  <2>3. \A key : Records!Holders(key, {"live"})' = Records!Holders(key, {"live"})
    BY <1>2 DEF Records!Holders, Records!Ids
  <2>4. QED BY <1>1, <1>2, <1>3, <1>4, <2>1, <2>2, <2>3 DEF Knows
<1>7. QED BY <1>1, <1>2, <1>3, <1>5, <1>6, CallGoes

LEMMA AdmitInv == ASSUME RecordInv, NEW c \in Calls, Records!Admit(c) PROVE RecordInv'
<1>1. Flying(c) /\ calls[c].stage = "admit"
  BY DEF Records!Admit, Flying
<1>2. ASSUME NEW answer \in {"NotFound", "Forbidden"}, Records!Refuse(c, answer) PROVE RecordInv'
  BY <1>1, <1>2, CallRefused
<1>3. ASSUME Records!Goto(c, "lookup") PROVE RecordInv'
  BY <1>1, <1>3, GotoInv
<1>4. QED BY <1>2, <1>3 DEF Records!Admit

LEMMA LookupInv == ASSUME RecordInv, NEW c \in Calls, Records!Lookup(c) PROVE RecordInv'
<1>1. Flying(c) /\ calls[c].stage = "lookup"
  BY DEF Records!Lookup, Flying
<1>2. ASSUME Records!Refuse(c, "Conflict") PROVE RecordInv'
  BY <1>1, <1>2, CallRefused
<1>3. ASSUME calls[c].look => Records!Holders(calls[c].key, {"live"}) \ {calls[c].row} = {}, Records!Goto(c, "write")
      PROVE  RecordInv'
  BY <1>1, <1>3, GotoInv
<1>4. QED BY <1>2, <1>3 DEF Records!Lookup, Records!Holders

\* A row is inserted: no call that is alone has overlooked a live row of its key.
LEMMA InsertRowInv == ASSUME RecordInv, NEW c \in Calls, Records!Insert(c) PROVE RecordInv'
<1> DEFINE n == Len(rows) + 1
           row == [key |-> calls[c].key, state |-> "live", raced |-> ~calls[c].alone]
<1>1. /\ Flying(c) /\ calls[c] \in Records!Call /\ calls[c].stage = "write" /\ calls[c].op = "create"
      /\ calls[c].key \in Records!Keys /\ calls[c].look /\ calls[c].row = 0 /\ rows \in Seq(Records!Row)
  BY DEF Records!Insert, Flying, RecordInv, Records!TypeOK, Sane
<1>2. Kind(service) /\ Records!Operation(c) = service.create /\ Records!KeyOf(c) = calls[c].key
  BY <1>1, Kinds DEF RecordInv, Records!TypeOK, Records!Operation, Records!KeyOf
<1>3. CASE Records!Refuse(c, Records!Told(c, "Conflict"))
  <2>1. Records!Told(c, "Conflict") = "Conflict"
    BY <1>2 DEF Records!Told, Kind
  <2>2. QED BY <1>1, <1>3, <2>1, CallRefused
<1>4. CASE ~Records!Collides(c) /\ Len(rows) < MaxRows /\ rows' = Append(rows, row) /\ Records!End(c, "done")
  <2>1. row \in Records!Row
    BY <1>1 DEF Records!Row, Records!Call
  <2>2. /\ rows' \in Seq(Records!Row) /\ Len(rows') = n /\ Len(rows') <= MaxRows
        /\ rows'[n] = row /\ \A i \in 1..Len(rows) : rows'[i] = rows[i]
    BY <1>1, <1>4, <2>1, RecordsAssumption
  <2>3. Records!Ids = 1..Len(rows) /\ Records!Ids' = Records!Ids \cup {n} /\ n \notin Records!Ids /\ service' = service
    BY <1>1, <1>4, <2>2 DEF Records!Ids, Records!End
  <2>4. calls' = [calls EXCEPT ![c] = Records!Idle] /\ UNCHANGED <<service, templates>>
    BY <1>4 DEF Records!End
  <2>5. service.index => \A i \in Records!Ids : rows[i].key = row.key => rows[i].state = "gone"
    <3>a. \A i \in Records!Ids : rows[i] \in Records!Row
      BY <1>1, <2>3
    <3>1. \A i \in Records!Ids : rows[i].state \in {"live", "deleted", "gone"}
      BY <3>a DEF Records!Row
    <3>2. QED BY <1>1, <1>2, <1>4, <2>3, <3>1 DEF Records!Collides, Records!Holders
  <2>6. ~service.index /\ ~row.raced => \A i \in Records!Ids : ~(rows[i].key = row.key /\ rows[i].state = "live")
    <3>1. calls[c].alone => Records!Holders(calls[c].key, {"live"}) \ {0} = {}
      BY <1>1 DEF RecordInv, Knows
    <3>2. calls[c].alone \in BOOLEAN
      BY <1>1 DEF Records!Call
    <3>3. row.key = calls[c].key /\ row.raced = ~calls[c].alone
      OBVIOUS
    <3>4. 0 \notin Records!Ids
      BY <2>3
    <3> HIDE DEF row
    <3>5. QED BY <3>1, <3>2, <3>3, <3>4 DEF Records!Holders
  <2> HIDE DEF row, n
  <2>7. row.state = "live"
    BY DEF row
  <2>8. Unique'
    BY <2>2, <2>3, <2>5 DEF RecordInv, Unique
  <2>9. Records!DuplicatesAreRaces'
    <3> SUFFICES ASSUME NEW i \in Records!Ids \cup {n}, NEW j \in Records!Ids \cup {n}, i # j,
                        {rows'[i].state, rows'[j].state} = {"live"}, rows'[i].key = rows'[j].key
                 PROVE  ~service.index /\ (rows'[i].raced \/ rows'[j].raced)
      BY <2>3 DEF Records!DuplicatesAreRaces
    <3>1. rows'[i].state = "live" /\ rows'[j].state = "live"
      OBVIOUS
    <3>2. CASE i \in Records!Ids /\ j \in Records!Ids
      BY <2>2, <2>3, <3>2 DEF RecordInv, Records!DuplicatesAreRaces
    <3>3. CASE i = n
      BY <2>2, <2>3, <2>5, <2>6, <3>1, <3>3
    <3>4. CASE j = n
      BY <2>2, <2>3, <2>5, <2>6, <3>1, <3>4
    <3>5. QED BY <3>2, <3>3, <3>4
  <2>10. Len(rows) <= Len(rows')
    BY <1>1, <2>2 DEF n
  <2>11. QED BY <1>1, <2>2, <2>4, <2>8, <2>9, <2>10, CallWrites
<1>5. QED BY <1>3, <1>4 DEF Records!Insert

\* A row is written by id: an update that is alone moves its row to no key of a live one.
LEMMA UpdateRowInv == ASSUME RecordInv, NEW c \in Calls, Records!Update(c) PROVE RecordInv'
<1> DEFINE i == calls[c].row
           key == Records!KeyOf(c)
<1>1. /\ Flying(c) /\ calls[c] \in Records!Call /\ calls[c].stage = "write" /\ calls[c].op = "update"
      /\ i \in Records!Ids /\ calls[c].answer = "none" /\ rows \in Seq(Records!Row) /\ Sane(c)
  BY DEF Records!Update, Flying, RecordInv, Records!TypeOK, Sane
<1>2. Kind(service) /\ Records!Operation(c) = service.update /\ service.index \in BOOLEAN
  BY <1>1, Kinds DEF RecordInv, Records!TypeOK, Records!Operation, Kind
<1>3. calls[c].alone => Knows(c) /\ rows[i].state = "live" /\ key = calls[c].key
        /\ (~calls[c].look => key = rows[i].key \/ service.update.lookup = "no")
        /\ (calls[c].look => Records!Holders(key, {"live"}) \ {i} = {})
  BY <1>1 DEF RecordInv, Knows
<1>4. key \in Records!Keys
  BY <1>1, CompleteKey
<1>5. ASSUME NEW answer \in {"NotFound", "Conflict"}, Records!Refuse(c, Records!Told(c, answer)),
             calls[c].alone => Records!Collides(c)
      PROVE  RecordInv'
  <2>1. CASE service.update.caught
    BY <1>1, <1>2, <1>5, <2>1, CallRefused DEF Records!Told
  <2>2. CASE ~service.update.caught
    <3> DEFINE k == [calls[c] EXCEPT !.stage = "ended", !.answer = "unhandled"]
    <3>1. calls' = [calls EXCEPT ![c] = k] /\ UNCHANGED <<service, rows, templates>>
      BY <1>2, <1>5, <2>2 DEF Records!Told, Records!Refuse, Records!End
    <3>2. /\ k \in Records!Call /\ k.op = "update" /\ k.stage = "ended" /\ k.row = i /\ k.key = calls[c].key
          /\ k.answer = "unhandled" /\ k.alone = calls[c].alone
      BY <1>1 DEF Records!Call
    <3>3. calls'[c] = k /\ \A d \in Calls \ {c} : calls'[d] = calls[d]
      BY <3>1 DEF RecordInv, Records!TypeOK
    <3> HIDE DEF k
    <3>4. Sane(c)'
      BY <3>2, <3>3 DEF Sane, Flying
    <3>5. ASSUME k.alone PROVE Knows(c)'
      BY <1>3, <3>2, <3>3, <3>5 DEF Knows, Flying
    <3>6. ASSUME k.alone, service.update.lookup # "no"
          PROVE  Records!Holders(k.key, {"deleted"}) # {}
      <4>1. calls[c].alone /\ service.index /\ k.key = key
        BY <1>2, <1>3, <2>2, <3>2, <3>6 DEF Kind
      <4>2. PICK j \in Records!Ids : j # i /\ rows[j].key = key /\ rows[j].state \in {"live", "deleted"}
        BY <1>5, <4>1 DEF Records!Collides, Records!Holders
      <4>3. calls[c].look
        BY <1>1, <1>3, <3>6, <4>1, <4>2 DEF RecordInv, Unique
      <4>4. rows[j].state # "live"
        BY <1>3, <4>1, <4>2, <4>3 DEF Records!Holders
      <4>5. QED BY <4>1, <4>2, <4>4 DEF Records!Holders
    <3>7. QED BY <1>1, <3>1, <3>2, <3>4, <3>5, <3>6, CallGoes
  <2>3. QED BY <2>1, <2>2
<1>6. CASE rows[i].state = "gone" /\ Records!Refuse(c, Records!Told(c, "NotFound"))
  BY <1>3, <1>5, <1>6
<1>7. CASE Records!Collides(c) /\ Records!Refuse(c, Records!Told(c, "Conflict"))
  BY <1>5, <1>7
<1>8. ASSUME rows[i].state # "gone", ~Records!Collides(c), Records!End(c, "done"),
             rows' = [rows EXCEPT ![i].key = key,
                                  ![i].raced = IF key = rows[i].key THEN @ ELSE ~calls[c].alone]
      PROVE  RecordInv'
  <2>1. calls' = [calls EXCEPT ![c] = Records!Idle] /\ UNCHANGED <<service, templates>>
    BY <1>8 DEF Records!End
  <2>2. Records!Ids = 1..Len(rows) /\ \A j \in Records!Ids : rows[j] \in Records!Row
    BY <1>1 DEF Records!Ids
  <2> DEFINE raced == IF key = rows[i].key THEN rows[i].raced ELSE ~calls[c].alone
  <2>a. rows[i] \in Records!Row /\ raced \in BOOLEAN
    BY <1>1, <2>2 DEF Records!Row, Records!Call
  <2>b. rows' = [rows EXCEPT ![i].key = key, ![i].raced = raced]
    BY <1>8, <2>a DEF Records!Row
  <2> HIDE DEF raced, key
  <2>3. DOMAIN rows' = 1..Len(rows) /\ \A j \in Records!Ids \ {i} : rows'[j] = rows[j]
    BY <1>1, <2>2, <2>b
  <2>4. /\ rows'[i] \in Records!Row /\ rows'[i].key = key /\ rows'[i].state = rows[i].state
        /\ rows'[i].raced = raced
    <3> DEFINE row == [rows[i] EXCEPT !.key = key, !.raced = raced]
    <3>1. rows' = [rows EXCEPT ![i] = row]
      BY <1>1, <2>2, <2>a, <2>b DEF Records!Row
    <3>2. row \in Records!Row /\ row.key = key /\ row.state = rows[i].state /\ row.raced = raced
      BY <1>4, <2>a DEF Records!Row, key
    <3> HIDE DEF row
    <3>3. rows'[i] = row
      BY <1>1, <2>2, <3>1
    <3>4. QED BY <3>2, <3>3
  <2>5. rows' \in Seq(Records!Row) /\ Len(rows') = Len(rows)
    <3>1. \A j \in 1..Len(rows) : rows'[j] \in Records!Row
      BY <2>2, <2>3, <2>4
    <3>2. rows' = [j \in 1..Len(rows) |-> rows'[j]]
      BY <1>8, <2>3
    <3>3. Len(rows) \in Nat
      BY <1>1
    <3>4. QED BY <3>1, <3>2, <3>3, SeqDef, LenProperties
  <2>6. Records!Ids' = Records!Ids
    BY <2>2, <2>3 DEF Records!Ids
  <2>7. service.index => \A j \in Records!Ids \ {i} : rows[j].key = key => rows[j].state = "gone"
    <3>1. \A j \in Records!Ids : rows[j].state \in {"live", "deleted", "gone"}
      BY <2>2 DEF Records!Row
    <3>2. QED BY <1>8, <3>1 DEF Records!Collides, Records!Holders, key
  <2>8. Unique'
    <3> SUFFICES ASSUME service.index, NEW a \in Records!Ids, NEW b \in Records!Ids, a # b, rows'[a].key = rows'[b].key
                 PROVE  "gone" \in {rows'[a].state, rows'[b].state}
      BY <2>1, <2>6 DEF Unique
    <3>1. CASE a # i /\ b # i
      <4>1. rows'[a] = rows[a] /\ rows'[b] = rows[b]
        BY <2>3, <3>1
      <4>2. QED BY <4>1 DEF RecordInv, Unique
    <3>2. CASE a = i
      BY <2>3, <2>4, <2>7, <3>2
    <3>3. CASE b = i
      BY <2>3, <2>4, <2>7, <3>3
    <3>4. QED BY <3>1, <3>2, <3>3
  <2>9. ASSUME NEW j \in Records!Ids \ {i}, rows[i].state = "live", rows[j].state = "live", rows[j].key = key
        PROVE  ~service.index /\ (rows'[i].raced \/ rows[j].raced)
    <3>1. ~service.index
      BY <2>7, <2>9
    <3>2. CASE key = rows[i].key
      BY <1>1, <2>4, <2>9, <3>2 DEF RecordInv, Records!DuplicatesAreRaces, raced
    <3>3. CASE key # rows[i].key
      <4>1. calls[c].alone => FALSE
        <5>1. service.update.lookup = "live"
          BY <1>2, <3>1 DEF Kind
        <5>2. QED BY <1>3, <2>9, <3>3, <5>1 DEF Records!Holders
      <4>2. QED BY <2>4, <3>1, <3>3, <4>1 DEF raced
    <3>4. QED BY <3>2, <3>3
  <2>10. Records!DuplicatesAreRaces'
    <3> SUFFICES ASSUME NEW a \in Records!Ids, NEW b \in Records!Ids, a # b,
                        {rows'[a].state, rows'[b].state} = {"live"}, rows'[a].key = rows'[b].key
                 PROVE  ~service.index /\ (rows'[a].raced \/ rows'[b].raced)
      BY <2>1, <2>6 DEF Records!DuplicatesAreRaces
    <3>1. rows'[a].state = "live" /\ rows'[b].state = "live"
      OBVIOUS
    <3>2. CASE a # i /\ b # i
      <4>1. rows'[a] = rows[a] /\ rows'[b] = rows[b]
        BY <2>3, <3>2
      <4>2. QED BY <4>1 DEF RecordInv, Records!DuplicatesAreRaces
    <3>3. CASE a = i
      BY <2>3, <2>4, <2>9, <3>1, <3>3
    <3>4. CASE b = i
      BY <2>3, <2>4, <2>9, <3>1, <3>4
    <3>5. QED BY <3>2, <3>3, <3>4
  <2>11. Len(rows') <= MaxRows /\ Len(rows) <= Len(rows')
    BY <1>1, <2>5 DEF RecordInv, Records!TypeOK
  <2>12. QED BY <1>1, <2>1, <2>5, <2>8, <2>10, <2>11, CallWrites
<1>9. QED BY <1>6, <1>7, <1>8 DEF Records!Update

LEMMA DeleteRowInv == ASSUME RecordInv, NEW c \in Calls, Records!Delete(c) PROVE RecordInv'
<1> DEFINE i == calls[c].row
<1>1. /\ Flying(c) /\ calls[c] \in Records!Call /\ calls[c].stage = "write" /\ calls[c].op = "delete"
      /\ i \in Records!Ids /\ calls[c].answer = "none" /\ rows \in Seq(Records!Row)
  BY DEF Records!Delete, Flying, RecordInv, Records!TypeOK, Sane
<1>2. CASE rows[i].state = "gone" /\ Records!Refuse(c, Records!Told(c, "NotFound"))
  <2>1. ~calls[c].alone
    BY <1>1, <1>2 DEF RecordInv, Knows
  <2>2. CASE Records!Operation(c).caught
    BY <1>1, <1>2, <2>2, CallRefused DEF Records!Told
  <2>3. CASE ~Records!Operation(c).caught
    <3> DEFINE k == [calls[c] EXCEPT !.stage = "ended", !.answer = "unhandled"]
    <3>1. calls' = [calls EXCEPT ![c] = k] /\ UNCHANGED <<service, rows, templates>>
      BY <1>2, <2>3 DEF Records!Told, Records!Refuse, Records!End
    <3>2. k \in Records!Call /\ k.op = "delete" /\ k.stage = "ended" /\ ~k.alone
      BY <1>1, <2>1 DEF Records!Call
    <3>3. calls'[c] = k
      BY <3>1 DEF RecordInv, Records!TypeOK
    <3> HIDE DEF k
    <3>4. Sane(c)'
      BY <3>2, <3>3 DEF Sane, Flying
    <3>5. QED BY <1>1, <3>1, <3>2, <3>4, CallGoes
  <2>4. QED BY <2>2, <2>3
<1>3. ASSUME NEW state \in {"gone", "deleted"}, rows[i].state # "gone",
             rows' = [rows EXCEPT ![i].state = state], Records!End(c, "done")
      PROVE  RecordInv'
  <2>1. calls' = [calls EXCEPT ![c] = Records!Idle] /\ UNCHANGED <<service, templates>>
    BY <1>3 DEF Records!End
  <2>2. rows' \in Seq(Records!Row) /\ Len(rows') = Len(rows) /\ Records!Ids' = Records!Ids
    <3>1. Records!Ids = 1..Len(rows) /\ \A j \in Records!Ids : rows[j] \in Records!Row
      BY <1>1 DEF Records!Ids
    <3>2. [rows[i] EXCEPT !.state = state] \in Records!Row
      BY <1>1, <3>1 DEF Records!Row
    <3>3. rows' = [rows EXCEPT ![i] = [rows[i] EXCEPT !.state = state]]
      BY <1>3
    <3>4. QED BY <1>1, <3>1, <3>2, <3>3, ExceptSeq DEF Records!Ids
  <2>3. /\ \A j \in Records!Ids : rows'[j].key = rows[j].key /\ rows'[j].raced = rows[j].raced
        /\ \A j \in Records!Ids : rows'[j].state = IF j = i THEN state ELSE rows[j].state
    BY <1>1, <1>3 DEF Records!Row, Records!Ids
  <2>4. Unique'
    BY <1>3, <2>1, <2>2, <2>3 DEF RecordInv, Unique
  <2>5. Records!DuplicatesAreRaces'
    <3> SUFFICES ASSUME NEW a \in Records!Ids, NEW b \in Records!Ids, a # b,
                        {rows'[a].state, rows'[b].state} = {"live"}, rows'[a].key = rows'[b].key
                 PROVE  ~service.index /\ (rows'[a].raced \/ rows'[b].raced)
      BY <2>1, <2>2 DEF Records!DuplicatesAreRaces
    <3>1. rows'[a].state = "live" /\ rows'[b].state = "live"
      OBVIOUS
    <3>2. a # i /\ b # i
      BY <1>3, <2>3, <3>1
    <3>3. QED BY <2>3, <3>1, <3>2 DEF RecordInv, Records!DuplicatesAreRaces
  <2>6. Len(rows') <= MaxRows /\ Len(rows) <= Len(rows')
    BY <1>1, <2>2 DEF RecordInv, Records!TypeOK
  <2>7. QED BY <1>1, <2>1, <2>2, <2>4, <2>5, <2>6, CallWrites
<1>4. QED BY <1>2, <1>3 DEF Records!Delete

LEMMA TemplatesApart ==
    ASSUME RecordInv, UNCHANGED <<service, rows, calls>>, templates' \subseteq Halves
    PROVE  RecordInv'
<1>1. Records!TypeOK'
  BY DEF RecordInv, Records!TypeOK, Records!Row, Records!Keys, Records!Call, Records!GivenKeys
<1>2. Unique' /\ Records!DuplicatesAreRaces'
  BY DEF RecordInv, Unique, Records!DuplicatesAreRaces, Records!Ids
<1>3. Records!UnhandledHasCause'
  BY DEF RecordInv, Records!UnhandledHasCause, Records!Holders, Records!Ids
<1>4. ASSUME NEW c \in Calls PROVE Sane(c)'
  BY DEF RecordInv, Sane, Flying, Records!Ids, Records!Keys
<1>5. ASSUME NEW c \in Calls, calls[c].alone PROVE Knows(c)'
  <2>1. Knows(c)
    BY <1>5 DEF RecordInv
  <2>2. Records!KeyOf(c)' = Records!KeyOf(c)
    BY DEF Records!KeyOf
  <2>3. Records!Holders(calls[c].key, {"live"})' = Records!Holders(calls[c].key, {"live"})
    BY DEF Records!Holders, Records!Ids
  <2>4. QED BY <2>1, <2>2, <2>3 DEF Knows, Flying
<1>6. QED BY <1>1, <1>2, <1>3, <1>4, <1>5 DEF RecordInv

LEMMA DeleteTemplateInv == ASSUME RecordInv, Records!DeleteTemplate PROVE RecordInv'
BY TemplatesApart DEF Records!DeleteTemplate

LEMMA RecordsNext == RecordInv /\ [Records!Next]_Records!vars => RecordInv'
<1> SUFFICES ASSUME RecordInv, [Records!Next]_Records!vars PROVE RecordInv'
  OBVIOUS
<1>1. CASE UNCHANGED Records!vars
  BY <1>1, TemplatesApart DEF Records!vars, RecordInv, Records!TypeOK
<1>2. QED
  BY <1>1, BeginInv, FindRowInv, AdmitInv, LookupInv, InsertRowInv, UpdateRowInv, DeleteRowInv,
     DeleteTemplateInv DEF Records!Next

-----------------------------------------------------------------------------
(* The services side by side: a behavior is about one of them.                *)

\* While it is about the records nothing else writes them; otherwise no call is made.
RecordsApart ==
    /\ subject = "records" => RecordInv
    /\ subject # "records" => calls = [c \in Calls |-> Records!Idle]

LEMMA RecordsAlways == MCSpec => []RecordsApart
<1>1. MCInit => RecordsApart
    BY RecordsInit DEF MCInit, NoRecords, RecordsApart
<1>2. RecordsApart /\ [MCNext]_<<subject, vars, recordVars, fileVars>> => RecordsApart'
    <2> SUFFICES ASSUME RecordsApart, [MCNext]_<<subject, vars, recordVars, fileVars>>
                 PROVE  RecordsApart'
        OBVIOUS
    <2>1. subject' = subject
        BY DEF MCNext
    <2>2. CASE subject = "records"
        <3>1. [Records!Next]_Records!vars
            BY <2>2 DEF MCNext, recordVars, Records!vars
        <3> QED
            BY <2>1, <2>2, <3>1, RecordsNext DEF RecordsApart
    <2>3. CASE subject # "records"
        BY <2>1, <2>3 DEF RecordsApart, MCNext, recordVars
    <2> QED
        BY <2>2, <2>3
<1> QED
    BY <1>1, <1>2, PTL DEF MCSpec

\* Keyed records keep their types: rows, keys and calls, whatever service they are of.
THEOREM RecordTypeCorrect == MCSpec => [](subject = "records" => Records!TypeOK)
<1>1. RecordsApart => (subject = "records" => Records!TypeOK)
    BY DEF RecordsApart, RecordInv
<1> QED
    BY <1>1, RecordsAlways, PTL

\* Two live rows of one key come from a race only, and only where no index forbids them:
\* what a call looks for before it writes is all there is to look for, in every service.
THEOREM DuplicatesAreRacesCorrect == MCSpec => []DuplicatesAreRaces
<1>1. RecordsApart => DuplicatesAreRaces
    BY DEF RecordsApart, RecordInv, DuplicatesAreRaces
<1> QED
    BY <1>1, RecordsAlways, PTL

\* No creation ends in an error of the database, and an update or deletion that is alone
\* ends in one only where the lookup leaves out what the index counts, or is not made.
THEOREM UnhandledHasCauseCorrect == MCSpec => []UnhandledHasCause
<1>1. RecordsApart => UnhandledHasCause
    BY DEF RecordsApart, RecordInv, UnhandledHasCause, Records!UnhandledHasCause, Records!Idle
<1> QED
    BY <1>1, RecordsAlways, PTL

\* The attachments are those of Attachments.tla in every behavior.
LEMMA FilesAlways == MCSpec => Files!Spec
<1>1. MCInit => Files!Init
    BY DEF MCInit
<1>2. [MCNext]_<<subject, vars, recordVars, fileVars>> => [Files!Next]_Files!vars
    BY DEF MCNext, fileVars, Files!vars
<1> QED
    BY <1>1, <1>2, PTL DEF MCSpec, Files!Spec

\* A file is stored exactly while its attachment is live, but for what is said there.
THEOREM StoredIffLiveCorrect == MCSpec => []StoredIffLive
<1>1. Files!StoredIffLive => StoredIffLive
    BY DEF StoredIffLive
<1> QED
    BY <1>1, FilesAlways, FileStoredIffLiveCorrect, PTL

=============================================================================
