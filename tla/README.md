# Formal models of the projects API

TLA+ models of `projects-api-v6`, the NestJS service that keeps Topcoder's
projects, their members, invites, phases and copilots in PostgreSQL (through
Prisma). Every definition is translated from the code; `PROJECT.json` names the
lines each of them stands for, the runs of TLC, the mutants that show each
property can fail, and the theorems.

    tlc -workers 2 -config MCinvites.cfg MCCopilotWorkflow
    tlapm CopilotWorkflow_proofs.tla

## The system

One Node process (or several behind a load balancer) serves HTTP. A handler is
an `async` method of a service: a series of awaited queries, some of them inside
an interactive `prisma.$transaction`, which PostgreSQL runs at READ COMMITTED.
Between two awaits any other handler may run; nothing takes a lock explicitly,
no request is retried, and few tables have a unique index. State lives in the
database only, but for the Salesforce session and the event publisher of each
process. After its commit a handler publishes events without waiting for them, with
up to four attempts behind a circuit breaker, and sends e-mails; failures are logged.

| Component | State | Operations | What is hard | What makes it correct |
|---|---|---|---|---|
| Copilot requests | `copilot_requests` | create (approves at once), update, approve | duplicate checks before writes; approval looks at no status | one open request and one active opportunity per type are checked for, and an opportunity follows its request |
| Copilot applications | `copilot_applications` | apply | lookup and insert are separate | a user applies once, but for calls in flight together |
| Copilot opportunities | `copilot_opportunities` | assign, cancel | four tables in one transaction, row locks taken in no fixed order | one winner, who is a member; all or nothing |
| Invites | `project_member_invites` | create, update (accept, refuse...), delete | settles applications and cancels a project's workflow from outside of the opportunity service | the opportunity is settled with the application; nobody joins twice |
| Members | `project_members` | add, update (may complete copilot requests), delete | four ways of joining; the primary flag moves from row to row | one membership per user, but for calls in flight together; a successor for a primary copilot |
| Projects | `projects`, history | create, update, delete, upgrade | history and events derived from a row read before the transaction | the status is in the history; an announced change has happened |
| Phases, products, work streams | `project_phases`, `phase_products`, `work_streams`, `phase_work_streams` | create, update, delete, reorder; link | every order is rewritten from a list read earlier; limit counted before insert | orders are 1..n; at most N products; closed phases stay closed |
| Versioned metadata | `form`, `plan_config`, `price_config` | create version/revision, update, delete | numbers are chosen among rows that are not deleted, unique among all | no gaps; the latest version is found |
| Project templates | `project_templates` | create, update, delete, upgrade from legacy columns | references validated before the write; an upgrade is many statements without a transaction | references to versions that exist |
| Salesforce client | session and token exchange, in memory | query | session shared by concurrent queries and refused at any time; retries | a refused session is never reused, a good one never dropped, every query ends |
| Keyed rows: settings, work permissions, org configs, project types, product categories, post industries and categories | a table each | create, update, delete | each looks for a row of the key in its own way (all rows, live rows, none), in a statement before the write; unique index over deleted rows, or none; some translate the errors of the database | one live row per key, and errors a caller understands |
| Attachments | `project_attachments`, files in S3 | create, update, delete | the file is copied and deleted in the background after the row is written, by base name | a file is there as long as its row |
| Showcase posts | `project_showcase_posts`, `projects.details` | create, update, delete | post and project written together; decisions on a row read earlier; the details are one JSON column | a published post has its date, a WIN post its type, and no save loses another one's keys |
| Permissions | none | decide a named permission | what a permission accepts is written twice, in the switch and in the summaries for Swagger; scopes expand | whoever the summaries name is let in |
| Guards and project context | `request.projectContext`, per request | token, permission, admin and restriction checks | members and invites loaded by a hand-kept list, by separate queries, and cached | nobody is let in or refused for what was true at no moment |
| Event publishing | bus client, failure count, circuit, in memory | publish | nested retries; publishes that end while the circuit is open | every publish ends; the circuit closes once the bus is back |
| Notifications | none | send e-mails | lost after commit | - |

Hazards of all of these, each at its line, are listed in `PROJECT.json`.

## Modules

* `CopilotWorkflow` - five tables and every handler that writes to them, run one
  at a time: `CreateRequest`, `UpdateRequest`, `ApproveRequest`,
  `ApplyToOpportunity`, `AssignCopilot`, `CancelOpportunity`, `CreateInvites`,
  `AcceptInvite`/`DeclineInvite` (together `updateInvite`), `DeleteInvite`,
  `AddMember`, `UpdateMember`, `DeleteMember`, `DeleteProject`. A table is a
  function from ids to rows; status `"none"` is a row not inserted yet, ids go up
  as an autoincrement column does. A handler is `XReads` (what it reads and
  checks) and `XWrites` (what its transaction writes).
  `LinkInvite` is external: no handler here writes `applicationId`, but the
  service answers linked invites of the database it shares with the v5 API
  (`docs/MIGRATION_FROM_TC_PROJECT_SERVICE.md`), and settles applications by them.
* `CopilotRaces` - the same handlers with `Begin` (the reads) and `Commit` (the
  writes) as separate steps of calls in flight, and `Abort`. Rows a handler reads
  inside its transaction, after its first write, are read at `Commit`.
* `OpportunityAward` - what the opportunity service promises about one
  opportunity: an award names one application and completes the opportunity in
  one step; a cancellation adds no winner.
* `AwardTransactions` - applying, assigning and canceling statement by statement:
  committed rows (`db`), each transaction's own versions (`writes`, which are its
  row locks as well), a program counter per call, deadlocks and their victims,
  crashes. It implements `OpportunityAward`.
* `ProjectWorks` - the phases of one project, their products, and the work streams
  that serve them as works and work items. A call is `Begin*` (existence, link,
  status and limit checks), `List*` (the orders of the live phases, read in the
  transaction) and `Write*` (what the transaction leaves, taken at its commit);
  `createWork` adds `CreateLink`, a statement of its own. The list a call has read
  is kept as the position every listed phase will get, and written by id, to rows
  deleted meanwhile as well, as `reindexProjectPhases` does. `stale` is not in the
  code: it records that another call wrote phases after this one listed them, for
  the properties about calls that are alone. `Init` is any project a template
  makes: any orders, any number of products.
* `VersionedConfigs` - the rows of one key in the tables of forms, plan and price
  configurations (three services, one code), and the templates that refer to them.
  A row is its pair of version and revision; `stored` are all of them, `live` those
  that are not deleted. No call is a transaction: `Begin*` is the lookup, then every
  reference is validated in a step of its own, an upgrade creates its versions in
  between, and `Insert`, `WriteDelete*`, `WriteTemplate` are single statements. The
  key is left out (a template is taken to refer to the key it has), and so are the
  configurations; a legacy column is null or not. Publishing an event of metadata
  does nothing in this repository.
* `SalesforceSession` - `SalesforceClient`: `Begin` and `SecondRound` run
  `authenticate` up to its await, `ExchangeSucceeds`/`ExchangeFails` settle the
  promise that all queries of an exchange share, `Retry` is the loop of `request`,
  `Refused` and `Answered` the answer. A session is a number because sessions are
  compared by identity. What Salesforce answers is free, a 401 at any time included.
* `ProjectLifecycle` - one project: `BeginCreate`/`BeginUpdate`/`BeginDelete` are the
  reads and checks of `createProject`, `updateProject`, `deleteProject`, `Write*` their
  transaction or statement, `Reread` the second read, after which the call fails if the
  project is gone, and `Post` hands the events over. `past` is not in the code: it keeps
  the billing account after every commit, to say in which order they were. Two
  statuses and one account next to null are enough for a value to be left and come back.
* `EventPublisher` - `event.utils`: every publish is in `getBusApiClient` or in
  `postEvent` with the attempts that each has lost; `BeginPublish` and `CreateClient` are one
  step of the code when nothing fails. Delays are left out; `Expire` ends the 30 seconds
  of the circuit. The count of failures has no end in the code; here it goes past the
  threshold up to `MaxFailures` and stays there, a bound of the model and no result about the code.
* `Roles`, `Permissions`, `PermissionDocs`, `Endpoints` - no state. `Roles` has the
  roles, the scopes and the closure of scopes (`expandScopes`). A case of the switch of
  `hasNamedPermission` is a record of what it accepts (`Permissions`), and so is the
  summary of it that Swagger shows (`PermissionDocs`), so that the two can be compared
  caller by caller. `Endpoints` has one definition per controller, or part
  of one, with the metadata its decorators leave at each handler.
* `RequestGuards` - one request to any of these endpoints: `CheckToken`
  (`TokenRolesGuard`), `LoadMembers`, `LoadInvites`, `CheckPermission`
  (`PermissionGuard`), `CheckAdmin`, `CheckRestriction` and `LoadContext` (the
  interceptor), while other requests make, change and end the membership and the invite
  of its caller and the project becomes internal or ceases to be. `verdicts` and
  `insides` are not in the code: they keep what could have been decided at any moment.
* `KeyedRecords` - seven services, one at a time (`service`, chosen at the start). A
  service is three records that say how its operations go about it, and whether there is a
  unique index; `FindRow`, `Admit`, `Lookup` and `Insert`/`Update`/`Delete` are the
  statements of a call. `raced` and `alone` are not in the code: they record which calls
  others were in flight with. A permission check may refuse or not: who may is the subject of
  `RequestGuards`.
* `Attachments` - `Insert`, `RequestTransfer` and `Delete` are the statements of a call,
  `Copied`, `Removed` and `RequestFails` what becomes of the requests nobody waits
  for, in any order; `Restart` forgets all of them. `past` and `late` are not in the
  code: the paths a row has had, and whether a request of it failed, was never made or was
  overtaken.
* `ShowcasePosts` - the posts of one project with the `details` they share.
  `LockProject` is the update by which `syncProjectMetadata` takes the lock of the row
  and reads it; `Commit` the rest of the transaction. `ReplaceDetails` and
  `DeleteProject` are what the project service does to the row meanwhile.
* `MCContent` runs the last three in one instance; they share no state, and `subject` says
  which of them a behavior is about.
* `MCServiceClients` does the same with `SalesforceSession` and `EventPublisher`.
* The other `MC*` modules instantiate a module for TLC; `*_proofs` hold the theorems.

Left out of all of them: free-form `data`, notes, audit columns, the text of events and
e-mails, and lookups in other services (a handle or e-mail is the user it names).
The modules of the services leave out who may call, save `KeyedRecords` and
`Attachments`, whose calls may be refused after their first read.

## Runs

| Run | Instance | Shows |
|---|---|---|
| `invites` | 1 request, 2 opportunities, 2 applications, 2 members, 1 invite, 2 users | one winner, who is a member; decided exactly when not active; one membership; primary copilots have successors |
| `races` | every handler, 2 calls in flight, 2 applications, 2 members, 1 invite, 5 rows and calls in flight at once | winners were made members whatever was stale; applications and memberships of a user are no more than the calls that can be in flight |
| `award_transactions` | 2 calls, 2 applications, 3 member rows, customers and managers to begin with, 1 crash | one winner, whole awards, refinement of `OpportunityAward`, every call ends, one gets through |
| `phase_order` | 2 template phases with orders missing, equal or past the end, 3 rows, requested orders 0, 2, 9, 2 calls | a call that is alone numbers the phases 1..n and moves only its own, whatever state races left |
| `works` | 2 phases, 1 work stream, 3 products, limit 1, statuses draft and completed, 2 calls | the product limit is exceeded by fewer than the calls in flight; a completed phase is taken back only by an update that saw it earlier, or moves it |
| `configs` | 2 tables, 2 versions in one and 2 revisions in the other, 1 template, 2 calls | numbers without gaps, created rows are found, references to versions that were created |
| `clients` | 3 queries, 3 sessions; 3 publishes, 3 attempts, threshold 3, 5 failures | good sessions stay, refused ones are not asked with again, every query ends; every publish ends, the circuit is open over a full count only and does not stay open when the bus is back |
| `lifecycle` | 2 statuses, 1 account or none, 2 calls, 5 commits | the status is in the history, announced changes happened in that order, an update that is alone tells exactly what it did |
| `next_version` | 1 table, 1 call | *refuted*: createVersion creates a new version - after the newest is deleted it never does again |
| `access` | every endpoint, callers with one role or one scope each and pairs that matter, 6 project roles, 2 changes meanwhile | verdicts have a reason in the rows of some moment; whom Swagger names is not refused; Talent Managers stay out of internal projects |
| `summaries` | every endpoint, a project manager, nothing changes meanwhile | *refuted*: the summaries Swagger shows do not mirror the switch - who is admitted may not be named |
| `content` | 2 calls; 7 services with 2 rows and 2 values of each half of a key; 2 attachments on 2 paths, 1 move; 1 post and 11 payloads | duplicates of a key are races without an index, raw errors of the database have two causes; files are there as long as their rows; dates and types of posts; saves keep each other's keys |

Two users suffice because every property is about one user or a pair of rows;
two calls because every race found is one of a stale read against one commit.
Every table is large enough for its conflict to happen (a second application
after a re-approval, a member row per winner, an invite left open after an
assignment); the theorems remove the bounds. `MCaward` starts
from every choice of applications, and of customers and managers, already in the tables: an
award promotes the former and leaves the latter as they are (other roles are promoted as
customers are). In `races` two applications, or two memberships, are what two racing lookups
insert, and the property forbids a third call to join in; `MaxRows` keeps the
tables from being full all at once, not any of them from being full: there may be three rows
under two racing calls, such as two applications and the invite linked to one of them.
`phase_order` and `works` are two instances of one module, because phases in
three rows and products in three rows together are too many states: orders do not
depend on products, nor the limit on orders. Two slots are a race, and a slot is
used again, so sequences of races of any length are explored. `MAX_PHASE_PRODUCT_COUNT`
is 20 by default; the limit is 1 here, so that it is reached.
Deadlock is not checked: with a bounded table, or when all calls are made, the
system may stop.

`configs` has two versions in one table and two revisions in the other, so that a
second version and a second revision both happen without their product; a plan
configuration behaves as the other two tables do. In `clients` three queries are
one that was refused, one that has renewed the session and one that is late; three
sessions let every query make both of its rounds. In `lifecycle` five commits are a
creation and four more, among which an update reads before and writes after two others;
in `clients` (4 attempts and a threshold of 5 in the code) three publishes fail one
after the other while any of them may have begun before the circuit opened. In `access`
every fact that admits (a role, a scope, a membership, an invite) is one field of one
caller or row, so callers with one of each reach every disjunct of every rule; the pairs are those the
guards treat apart (an admin who is a Talent Manager, a user with a scope). Two
changes are an invite accepted and what becomes of the member. In `content` two rows are a
pair of one key; two attachments a path in common; one post is enough, because posts meet in
the details of the project only, which other saves reach through the same post.

Two findings have runs: `next_version`, and `summaries`. The comment of the summaries says that they
mirror the switch of `hasNamedPermission` (`permission-docs.utils.ts:226`). They are narrower: the
switch grants `READ_PROJECT_ANY` and `VIEW_PROJECT` to project, task and talent managers, whom
the summaries do not name, and `CREATE_PROJECT_MEMBER_NOT_OWN` to scopes that its summary does not
list. The other half of the claim, that whoever is named is not refused, holds
(`DocumentedReach`).

Observed with the same models, without a run of their own: two applications of one
user at once insert two rows (`applyToOpportunity` is documented as idempotent), and
no more than the calls in flight do (`ApplicationOverrun`);
two updates that see a phase in draft complete it and take it back; changing the type of
a request moves its opportunity onto a type that has an active one already; one
`createInvites` call naming a user by handle and by e-mail makes two open
invites; two `addMember` calls at once make a user a member twice, and again no more
(`MembershipOverrun`); an
application made between the listing and the write of a cancellation can be
awarded and stay accepted on the canceled opportunity; a linked invite accepted after
another assignment committed leaves two accepted applications; an invite that was found open
is canceled although it was accepted meanwhile; a revision added while its
version is deleted revives the version; a failed upgrade of a template leaves
versions that nothing refers to; a fulfilled or canceled request is approved again,
and opens an opportunity again, although the documentation of `updateRequest` calls
such requests immutable; an assignment that began before another one committed cancels
the committed winner and accepts its own application; an update that repeats the
status or the billing account it read undoes the change of another one without an
entry or an announcement, and one that leaves the account alone announces the change
of another one; an update of a project deleted meanwhile is committed and
answered with "not found".

And with those of this part: required scopes are expanded as the caller's are, so that
a scope is satisfied by any it implies (`hasRequiredScopes`); the reading handlers of plan
and price configurations, org configurations and product categories declare no metadata and
are refused to everybody, although `plan-config-version.controller.ts:33` calls them
"currently unguarded"; a machine token has no permission on attachments, phases, products and
works that are written, although `README.md` lists their endpoints as "JWT / M2M"; a setting
that is moved to the key of a deleted one ends in an error of the database, although
`update` promises a `ConflictException`; a deleted project type or product category keeps its
key for ever, as a TODO in the source says; attachments of files with one base name share
a path, so that deleting one deletes the file of the other; a create that fails after the
row is written leaves a row without a file; `updateProject` replaces the details whole and
may leave posts of the WIN report with incomplete metadata; a template may be left with both
a legacy column and the reference that replaces it, by two updates that set one each.

Fairness (`FairSpec`, `FairPublisherSpec`), in `AwardTransactions`: each call's next statement and PostgreSQL's abort of a
deadlock victim are weakly fair - the event loop runs whatever is ready and the
server detects deadlocks. Making a call, and crashing, are not. In
`SalesforceSession`: each query's next step, because `fetch` is called with a time
limit of 15 seconds, so that a request is always answered or lost. In
`EventPublisher`: each publish's next step and the end of the circuit's period - timers
fire and posts are settled. Nothing has to be published, and the bus need not come
back: `Recovers` speaks of the runs in which it does, for good.

## Proofs

`CopilotWorkflow_proofs`, for all constants: `TypeCorrect`; `MembershipCorrect`
(`OneMembership` is inductive with the type invariant); `AwardCorrect`, the joint
invariant of applications, opportunities and linked invites from which
`OneWinner`, `AcceptedIsCompleted` and `ActiveIsUndecided` follow, strengthened by
`OneApplicationPerUser`, which handlers that run alone keep. None of them is inductive alone: that a
linked invite may only be settled on an active opportunity protects the winner
only because no application to an active opportunity is decided, and both need
every application and invite to refer to rows that exist. `PrimarySucceedsCorrect`:
only `deleteMember` takes a member away, and of the copilots that remain there is a
least id (`<` is well-founded on the naturals, however many rows there are).
`AwardedIsMemberCorrect` needs `LinkedToApplicant`: an invite that is linked to an
application names its applicant and the project of its opportunity, so that accepting
the invite makes the right user a member of the right project.

The same module proves `CopilotRaces`, for any number of calls in flight:
`RacesTypeCorrect`, `AwardedWasMemberCorrect`, `ApplicationOverrunCorrect`,
`MembershipOverrunCorrect`. A call writes what it read when the tables
were other ones, so the invariant (`RacesInv`) speaks of what no other call can take back
(`Remembers`): the rows that a call holds exist, and the user and the opportunity of an
application, the project of an opportunity and what an invite is linked to are never written again.
Members leave by their status only, so who was made a member stays a row of the project. Each handler's writes keep the
tables `Sound` from any memory of that kind, stale or not; that the handlers run one at a time
is used nowhere. For the two overruns it is not the number of rows that is inductive but its sum with the calls
that are about to insert one: a call whose lookup finds nothing is one of at most `Slots` calls and
finds no row, and an insert turns a call into a row. Calls in flight are finitely
many (`SlotsAssumption`).

`AwardTransactions_proofs`, for any number of calls, rows and crashes:
`TypeCorrect`; `InvCorrect`; `OneWinnerCorrect`; `Refinement`. The argument: a
row lock has one holder; each statement's writes are known from the program
counter (`CallsInOrder`); an assignment holds the row of its own application from
before it lists the others, so of two assignments that have listed, the later has
listed the other's application if that was committed (`ListedEachOther`), and each
cancels every winner committed so far (`WinnersListed`). Hence a commit leaves one
accepted application.
`AwardIsWholeCorrect` adds what the membership rests on (`WholeInv`): member rows are
inserted active, change their role to copilot only and never change their user (a manager stays one); an
application keeps its user; and from the statement after the upsert on, an assignment sees a copilot
or a manager in its applicant and, before it
commits, has fulfilled the request.

`ServiceClients_proofs`, for any number of queries and sessions: `TypeCorrect`,
`InvCorrect`, `NoSessionWastedCorrect`, `RetryIsFreshCorrect`. The invariant: who
awaits an exchange awaits the one in flight (`Staged`), there is no session while
one is in flight, and the session in use is the newest (`Current`) - so the end of
an exchange replaces nothing, and a session that is not the refused one is newer.
And of `EventPublisher`, for any number of publishes, attempts and any threshold:
`OpenAfterFailuresCorrect` and `RetriesRunOutCorrect`. The second is why publishes end, which is only
model-checked: a publish never goes back to an attempt it has lost, in the attempts to post or in those
to create the client nested in each, and has no more of either than the limit.

`ProjectLifecycle_proofs`, for any number of calls, statuses and accounts:
`TypeCorrect`, `StatusRecordedCorrect`, `AnnouncedInOrderCorrect`,
`AloneTellsAllCorrect`. The invariant (`Staged`) is what a call in flight knows: the
status it read is in the history, the account it read was left by the commit it names,
and if that is the last commit, the project is as it was read. The history only grows,
so a status that was read and is written back has its entry already.

`ProjectWorks_proofs`, for any number of calls, phases, products, streams, orders and any
limit: `WorksTypeCorrect`, `LimitOverrunCorrect`, `TerminalStaysCorrect`,
`AloneRenumbersCorrect`, `OthersKeepOrderCorrect`. The positions of the phases are a
permutation of 1..n (`Positions`, by cardinalities of the sets of phases before each other),
and taking one out or putting one in at an order keeps them one. The invariant (`WorksInv`)
has three parts: what a call has of its arguments (`Sane`); what it knows of the phases as
long as nobody overtook it (`Knows`: its list is theirs, or its transition is allowed); and the
room for products (`Overrun`). Calls about to add a product to a phase and its products are together
fewer than the limit and the calls: a call that counts finds fewer products than the limit, and there
are no more calls about to add than calls. That sum, and not the number of products, is inductive.

`RequestGuards_proofs`, for any callers, with any roles and scopes together, any memberships and
any number of changes: `GuardsTypeCorrect`, `VerdictHasReasonCorrect`,
`DocumentedReachCorrect`, `InternalProjectsKeptCorrect`. The
invariant (`GuardInv`): what was loaded of members and invites was true of the rows at some
moment (`Loaded`), and what was decided was decided on it (`Decided`). `TablesAgree` is what the tables owe
each other: a rule that looks at members or invites is of a route that loads them (`Loads`), and
every summary of a route is covered by its rules, set by set (`Covers`). It has no
constants; TLC evaluates it over all endpoints in the run `access`, and the theorems take it
from there to all callers: whom a covered rule accepts, a covering one accepts (`Coverage`). A table that
breaks it stops that run, so the mutants of the run are of the guard.

`Content_proofs`. Of `ShowcasePosts`, for any number of saves, posts and payloads: `TypeCorrect`,
`PublishedHasDateCorrect`, `WinHasTypeCorrect`, `SavesKeepOtherKeysCorrect`. The
invariant: the columns a decision rests on only grow (a post that had a date or a type
when it was read has it when it is written), and what a save that holds the
lock has read is what the details are.
Of `Attachments`, for any number of calls, attachments, paths, failures and
restarts: `FileTypeCorrect`, `FileStoredIffLiveCorrect`. The invariant: a handler at work and a
request on its way belong to a row and a path that row has had (`Found`, `Meant`), so that a
file with a path of its own is only touched by requests of its own; and once a row was
deleted in time no transfer of it is to come (`Kept`).
Of `KeyedRecords`, for any of the seven services, any number of calls and rows and any
values: `RecordTypeCorrect`, `DuplicatesAreRacesCorrect`, `UnhandledHasCauseCorrect`. The
invariant (`RecordInv`): an index keeps keys apart (`Unique`), and what a call that is alone has found
still holds when it writes (`Knows`): its row is live, the key it has completed is the one
the row gets, and no other live row has it. Every service is shown to be one of the kinds
that the argument tells apart. The last two theorems, and `StoredIffLiveCorrect`, are of `MCContent`, as the run
checks them.

`VersionedConfigs_proofs`, for any number of calls, templates, versions and revisions:
`TypeCorrect`, `InvCorrect`, `GaplessCorrect`, `ReferencesCreatedCorrect`,
`CreatedIsLatestCorrect`. The invariant: with a number every number before it was given
(`Closed`), and a call about to insert holds a number that follows one that was given
(`Knows`). Hence there are no gaps, a number that is still free has nothing after it, and the
references that a call carries were created when it found them.

Every invariant and action property that a passing run checks is a theorem. Model-checked only: liveness
(`CallsEnd`, `Decided`, `QueriesEnd`, `PublishEnds`, `Recovers`), which with fairness and `ENABLED` is
out of the prover's reach, and `TablesAgree`, a fact about values.
Assumptions: bounds are naturals (those of revisions and posts, the limit of products and the threshold
of failures are not 0), `Null` is no id, order or value, the role `"copilot"` and the status
`"draft"` (of the phases of a template) exist, calls in flight and products are finitely many, the bound of the count of failures is not below its threshold, there is a table of configurations, rows of
different tables are different, roles and scopes are those of the source, and a caller may be no member.

## Plan

1. Done: copilot workflow, its races, the award transactions and their proofs.
2. Done: `ProjectWorks`, `VersionedConfigs`, `SalesforceSession`, `ProjectLifecycle`,
   `EventPublisher`, with the safety proofs of the last four.
3. Done: roles, permissions, their documentation, endpoints and guards.
4. Done: `KeyedRecords`, `Attachments`, `ShowcasePosts`, with the safety proofs of the last two.
5. Done: the safety proofs of `CopilotRaces`, `ProjectWorks`, `RequestGuards` and `KeyedRecords`.
6. Left: abstract specifications of the other components, refined as `OpportunityAward` is.

## Not modelled

* Copilot notifications, e-mails, the event bus service and the clients of other services:
  input and output, after a commit, of which nothing depends.
* The lists (opportunities, projects, posts, metadata) with their filters, sorting and
  paging, the Salesforce opportunity that is read through to a project, and the health check: reads
  whose answer is not written back.
* Product templates: the code of project templates (`VersionedConfigs`) with one reference and
  one legacy column. Milestone templates: no controller reaches their service.
* `ProjectMemberGuard` and `CopilotAndAboveGuard`: no controller uses them.
* `upgradeProject`, `updatePhaseProduct`, the update of a work stream and of a version: columns
  no other operation looks at.
* The policies of `permissions.constants.ts`: no guard that a controller uses consults them, and the
  API documentation does not show them. The roles and the default role of that file are in `Roles`.
* Signatures and expiry of tokens, which a library checks.
