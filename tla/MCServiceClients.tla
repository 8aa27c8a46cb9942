--------------------------- MODULE MCServiceClients --------------------------
(* The clients of Salesforce and of the event bus on small instances.  They   *)
(* share no state: a behavior is about one of them, its subject, and leaves   *)
(* the other as it starts.                                                    *)
EXTENDS SalesforceSession, EventPublisher

VARIABLE subject

MCVars == <<subject, vars, publisherVars>>

MCInit ==
    /\ subject \in {"session", "publisher"}
    /\ Init
    /\ PublisherInit /\ (subject = "session" => up)

MCNext ==
    \/ subject = "session" /\ Next /\ UNCHANGED <<subject, publisherVars>>
    \/ subject = "publisher" /\ PublisherNext /\ UNCHANGED <<subject, vars>>

\* The fairness of FairSpec and of FairPublisherSpec.
MCSpec ==
    /\ MCInit /\ [][MCNext]_MCVars
    /\ \A q \in Queries : WF_vars(Step(q))
    /\ WF_publisherVars(Expire)
    /\ \A s \in Slots : WF_publisherVars(PublishStep(s))

=============================================================================
