--------------------------- MODULE EventPublisher ---------------------------
(***************************************************************************)
(* Publishing of events to the bus: event.utils.                           *)
(*                                                                         *)
(* Every publish retries on its own; the client, the count of consecutive  *)
(* failures and the circuit are shared by all that are in flight.  The     *)
(* bus comes and goes; while it is there a client can be created and a     *)
(* post succeeds, while it is away both fail, in a transient way or not.   *)
(* Time is abstracted to the end of the period for which the circuit is    *)
(* open.                                                                   *)
(***************************************************************************)
EXTENDS Integers

CONSTANTS
    Slots,              \* publishes in flight at the same time
    MaxRetry,           \* MAX_RETRY_ATTEMPTS
    Threshold,          \* CIRCUIT_BREAKER_FAILURE_THRESHOLD
    MaxFailures         \* bounds the count, which has no end in the code

ASSUME PublisherBounds ==
    /\ MaxRetry \in Nat /\ Threshold \in Nat \ {0}
    /\ MaxFailures \in Nat /\ MaxFailures >= Threshold

VARIABLES
    up,             \* the bus is there
    client,         \* busApiClient has been created
    failures,       \* consecutiveFailures
    open,           \* Date.now() < circuitOpenUntil
    publish         \* the publish of every slot

publisherVars == <<up, client, failures, open, publish>>

-----------------------------------------------------------------------------
AttemptNumbers == 0..MaxRetry

\* In getBusApiClient or in postEvent, with the attempts that each has lost.
Publish == [pc : {"client", "post"}, attempt : AttemptNumbers, clientAttempt : AttemptNumbers]

NoPublish == [pc |-> "idle"]

PublisherTypeOK ==
    /\ up \in BOOLEAN /\ client \in BOOLEAN /\ open \in BOOLEAN
    /\ failures \in 0..MaxFailures
    /\ publish \in [Slots -> Publish \cup {NoPublish}]

PublisherInit ==
    /\ up \in BOOLEAN
    /\ client = FALSE
    /\ failures = 0
    /\ open = FALSE
    /\ publish = [s \in Slots |-> NoPublish]

-----------------------------------------------------------------------------
\* An attempt begins: getBusApiClient returns the client there is, or creates one.
Attempt(n) == [pc |-> IF client THEN "post" ELSE "client", attempt |-> n, clientAttempt |-> 0]

\* An event that finds the circuit open is skipped.
BeginPublish(s) ==
    /\ publish[s] = NoPublish
    /\ ~open
    /\ publish' = [publish EXCEPT ![s] = Attempt(0)]
    /\ UNCHANGED <<up, client, failures, open>>

\* Bug: the circuit stays open for its period.
ResetCounter == failures' = 0 /\ UNCHANGED open

ResetCircuitBreaker == failures' = 0 /\ open' = FALSE

\* A failure opens the circuit, or keeps it open for another period.
RegisterFailure ==
    /\ failures' = IF failures < MaxFailures THEN failures + 1 ELSE MaxFailures
    /\ open' = (open \/ failures' >= Threshold)

-----------------------------------------------------------------------------
\* An attempt of s fails: the next one, after a delay, or the publish is abandoned.
AttemptFails(s, transient) ==
    LET k == publish[s]
    IN
    IF transient /\ k.attempt < MaxRetry
    THEN /\ publish' = [publish EXCEPT ![s] = Attempt(k.attempt + 1)]
         /\ UNCHANGED <<failures, open>>
    ELSE /\ publish' = [publish EXCEPT ![s] = NoPublish]
         /\ RegisterFailure

\* The client is not looked for again after a failure and its delay: two publishes may create two.
CreateClient(s) ==
    /\ publish[s].pc = "client" /\ up
    /\ client' = TRUE
    /\ publish' = [publish EXCEPT ![s].pc = "post"]
    /\ UNCHANGED <<up, failures, open>>

\* The error that is thrown in the end is as transient as the last one: its text names
\* the category, which the classification of the attempt finds in it.
CreateClientFails(s, transient) ==
    LET k == publish[s]
    IN
    /\ k.pc = "client" /\ ~up
    /\ IF transient /\ k.clientAttempt < MaxRetry
       THEN /\ publish' = [publish EXCEPT ![s].clientAttempt = @ + 1]
            /\ UNCHANGED <<failures, open>>
       ELSE AttemptFails(s, transient)
    /\ UNCHANGED <<up, client>>

PostSucceeds(s) ==
    /\ publish[s].pc = "post" /\ up
    /\ publish' = [publish EXCEPT ![s] = NoPublish]
    /\ ResetCircuitBreaker
    /\ UNCHANGED <<up, client>>

\* Bug: every attempt is the first.
PostFailsForEver(s, transient) ==
    /\ publish[s].pc = "post" /\ ~up
    /\ IF transient
       THEN /\ publish' = [publish EXCEPT ![s].attempt = (@ + 1) % (MaxRetry + 1)]
            /\ UNCHANGED <<failures, open>>
       ELSE AttemptFails(s, transient)
    /\ UNCHANGED <<up, client>>

PostFails(s, transient) ==
    /\ publish[s].pc = "post" /\ ~up
    /\ AttemptFails(s, transient)
    /\ UNCHANGED <<up, client>>

-----------------------------------------------------------------------------
\* Bug: only a success closes the circuit.
ExpireNever == open /\ failures = 0 /\ open' = FALSE /\ UNCHANGED <<up, client, failures, publish>>

\* isCircuitOpen, after CIRCUIT_BREAKER_OPEN_MS: the count stays.
Expire == open /\ open' = FALSE /\ UNCHANGED <<up, client, failures, publish>>

BusComesOrGoes == up' = ~up /\ UNCHANGED <<client, failures, open, publish>>

PublishStep(s) ==
    \/ CreateClient(s) \/ PostSucceeds(s)
    \/ \E transient \in BOOLEAN : CreateClientFails(s, transient) \/ PostFails(s, transient)

PublisherNext == (\E s \in Slots : BeginPublish(s) \/ PublishStep(s)) \/ Expire \/ BusComesOrGoes

PublisherSpec == PublisherInit /\ [][PublisherNext]_publisherVars

\* Timers fire and posts are answered or fail.  Nothing has to be published, and the
\* bus need not come back.
FairPublisherSpec ==
    /\ PublisherSpec
    /\ WF_publisherVars(Expire)
    /\ \A s \in Slots : WF_publisherVars(PublishStep(s))

-----------------------------------------------------------------------------
\* Events are skipped only after Threshold publishes in a row have been abandoned: a
\* success of any publish in flight closes the circuit that others have opened.
OpenAfterFailures == open => failures >= Threshold

\* What publish l has lost more than k, the same publish at an earlier moment.
FurtherThan(l, k) ==
    \/ l.attempt > k.attempt
    \/ /\ l.attempt = k.attempt
       /\ \/ l.clientAttempt > k.clientAttempt
          \/ l.clientAttempt = k.clientAttempt /\ k.pc = "client" /\ l.pc = "post"

\* The nested retries run out: whatever happens to a publish takes it further, and
\* neither postEventWithRetry nor getBusApiClient goes past MAX_RETRY_ATTEMPTS.
RetriesRunOut ==
    [][\A s \in Slots :
         \/ publish'[s] \in {publish[s], NoPublish}
         \/ publish[s] = NoPublish
         \/ /\ FurtherThan(publish'[s], publish[s])
            /\ publish'[s].attempt <= MaxRetry /\ publish'[s].clientAttempt <= MaxRetry
      ]_publisherVars

\* Every publish ends, delivered or abandoned, however often the bus comes and goes.
PublishEnds == \A s \in Slots : publish[s] # NoPublish ~> publish[s] = NoPublish

\* Once the bus is there for good no event is skipped any more, although nothing but an
\* event that happens to be published tells that it is back.
Recovers == <>[]up => <>[]~open

=============================================================================
