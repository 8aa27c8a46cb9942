------------------------ MODULE ServiceClients_proofs ------------------------
(* The clients of outside services: the session that queries to Salesforce    *)
(* share, for any number of queries, and the circuit that publishes of events *)
(* share, for any number of publishes.                                        *)
EXTENDS SalesforceSession, EventPublisher, TLAPS

\* The stages of a query: whom it awaits, whose session it asks with, and which one it
\* was refused with before.
Staged(q) ==
    /\ query[q].pc = "exchange" =>
            query[q].awaits = authenticating /\ authenticating # None
    /\ query[q].pc \in {"ask", "cancel"} => query[q].session \in 1..obtained
    /\ query[q].pc = "cancel" => query[q].session \in refused
    /\ query[q].pc \in {"exchange", "ask"} /\ query[q].refusedWith # None =>
            query[q].refusedWith \in 1..obtained

\* A session in use is the newest one, and nobody makes an exchange meanwhile.
Current ==
    /\ session # None => session = obtained
    /\ authenticating # None => session = None

\* The inductive invariant.
Inv == TypeOK /\ Current /\ NoSessionWasted /\ RetryIsFresh /\ \A q \in Queries : Staged(q)

-----------------------------------------------------------------------------
LEMMA InitInv == Init => Inv
BY SessionBounds DEF Init, Inv, TypeOK, Current, NoSessionWasted, RetryIsFresh, Staged,
    Sessions, Idle

LEMMA RoundType ==
    ASSUME TypeOK, NEW q \in Queries, NEW current \in Sessions \cup {None},
           NEW refusedWith \in Sessions \cup {None}, Round(q, current, refusedWith),
           UNCHANGED refused
    PROVE  TypeOK'
<1>1. SharedExchange(q) \in Queries
    BY DEF TypeOK, SharedExchange
<1>2. 0 \in Attempts
    BY DEF Attempts
<1> QED
    BY <1>1, <1>2 DEF TypeOK, Round, Query

\* Every step keeps the types; that a refused query had a session is in Staged.
LEMMA TypeStep == Inv /\ [Next]_vars => TypeOK'
<1> SUFFICES ASSUME Inv, TypeOK, [Next]_vars PROVE TypeOK'
    BY DEF Inv
<1>1. ASSUME NEW q \in Queries, Begin(q) PROVE TypeOK'
    BY <1>1, RoundType DEF Begin, TypeOK
<1>2. ASSUME NEW q \in Queries, ExchangeSucceeds(q) PROVE TypeOK'
    <2>1. obtained + 1 \in Sessions /\ obtained + 1 \in 0..MaxSessions /\ 0 \in Attempts
        <3>1. obtained < MaxSessions
            BY <1>2 DEF ExchangeSucceeds
        <3> QED
            BY <3>1, SessionBounds DEF TypeOK, Sessions, Attempts
    <2>2. \A p \in Awaiting(q) : query[p] \in Query
        BY DEF Awaiting, TypeOK, Idle
    <2> QED
        BY <1>2, <2>1, <2>2 DEF ExchangeSucceeds, TypeOK, Query
<1>3. ASSUME NEW q \in Queries, ExchangeFails(q) PROVE TypeOK'
    BY <1>3 DEF ExchangeFails, TypeOK
<1>4. ASSUME NEW q \in Queries, Retry(q) PROVE TypeOK'
    <2>1. query[q] \in Query
        BY <1>4 DEF Retry, Exchanging, TypeOK, Idle
    <2> QED
        BY <1>4, <2>1 DEF Retry, TypeOK, Query
<1>5. ASSUME NEW q \in Queries, Refused(q) PROVE TypeOK'
    <2>1. query[q] \in Query
        BY <1>5 DEF Refused, TypeOK, Idle
    <2>2. query[q].session \in Sessions
        <3>1. query[q].session \in 1..obtained
            BY <1>5 DEF Refused, Inv, Staged
        <3> QED
            BY <3>1, SessionBounds DEF TypeOK, Sessions
    <2> QED
        BY <1>5, <2>1, <2>2 DEF Refused, TypeOK, Query
<1>6. ASSUME NEW q \in Queries, Answered(q) \/ CancelFails(q) PROVE TypeOK'
    BY <1>6 DEF Answered, CancelFails, TypeOK
<1>7. ASSUME NEW q \in Queries, SecondRound(q) PROVE TypeOK'
    <2>1. query[q] \in Query
        BY <1>7 DEF SecondRound, TypeOK, Idle
    <2>2. Drop(query[q].session) \in Sessions \cup {None}
        BY DEF Drop, TypeOK
    <2> QED
        BY <1>7, <2>1, <2>2, RoundType DEF SecondRound, Query
<1>8. CASE UNCHANGED vars
    BY <1>8 DEF vars, TypeOK
<1> QED
    BY <1>1, <1>2, <1>3, <1>4, <1>5, <1>6, <1>7, <1>8 DEF Next, Step

-----------------------------------------------------------------------------
\* A round with the session there is, or with none, keeps the invariant.
LEMMA RoundKeeps ==
    ASSUME Inv, NEW q \in Queries, NEW current \in {session, None},
           NEW refusedWith \in Sessions \cup {None},
           Round(q, current, refusedWith), UNCHANGED refused,
           current = None => session = None \/ session \in refused,
           refusedWith # None => refusedWith \in 1..obtained,
           refusedWith # None /\ current # None => current # refusedWith
    PROVE  Inv'
<1> USE SessionBounds
<1>1. TypeOK'
    BY RoundType DEF Inv, TypeOK
<1>2. Current'
    BY DEF Inv, Current, Round, SharedExchange
<1>3. NoSessionWasted'
    BY DEF Inv, NoSessionWasted, Round
<1>4. query'[q] = [pc |-> IF current # None THEN "ask" ELSE "exchange",
                   session |-> current, refusedWith |-> refusedWith, tries |-> 0,
                   awaits |-> IF current # None THEN None ELSE SharedExchange(q)]
    BY DEF Inv, TypeOK, Round
<1>5. \A p \in Queries \ {q} : query'[p] = query[p]
    BY DEF Inv, TypeOK, Round
<1>6. current # None => current = obtained /\ current \in 1..obtained
    BY DEF Inv, TypeOK, Current, Sessions
<1>7. obtained \in Nat /\ obtained' = obtained
    BY DEF Inv, TypeOK, Round
<1>8. RetryIsFresh'
    <2>1. ASSUME NEW p \in Queries \ {q}, query[p]'.pc = "ask", query[p]'.refusedWith # None
          PROVE  query[p]'.session > query[p]'.refusedWith
        BY <2>1, <1>5 DEF Inv, RetryIsFresh
    <2>2. query[q]'.pc = "ask" /\ query[q]'.refusedWith # None
            => query[q]'.session > query[q]'.refusedWith
        BY <1>4, <1>6, <1>7
    <2> QED
        BY <2>1, <2>2 DEF RetryIsFresh
<1>9. ASSUME NEW p \in Queries PROVE Staged(p)'
    <2>1. CASE p = q
        <3>1. query[q]'.pc = "exchange" =>
                    query[q]'.awaits = authenticating' /\ authenticating' # None
            BY <1>4 DEF Round, SharedExchange
        <3> QED
            BY <2>1, <3>1, <1>4, <1>6, <1>7 DEF Staged
    <2>2. CASE p # q
        <3>1. query'[p] = query[p] /\ Staged(p)
            BY <2>2, <1>5 DEF Inv
        <3>2. query[p].pc = "exchange" => authenticating' = authenticating
            BY <3>1 DEF Staged, Inv, Current, Round, SharedExchange
        <3> QED
            BY <3>1, <3>2, <1>7 DEF Staged
    <2> QED
        BY <2>1, <2>2
<1> QED
    BY <1>1, <1>2, <1>3, <1>8, <1>9 DEF Inv

\* The end of an exchange keeps the invariant: there was no session to replace, and
\* nobody else awaits an exchange.
LEMMA SucceedsKeeps == ASSUME Inv, NEW q \in Queries, ExchangeSucceeds(q) PROVE Inv'
<1> USE SessionBounds
<1>1. TypeOK'
    BY TypeStep DEF Inv, Next, Step
<1>2. Staged(q) /\ session = None /\ authenticating = q
    BY DEF Inv, ExchangeSucceeds, Exchanging, Staged, Current
<1>3. obtained \in Nat /\ obtained' = obtained + 1 /\ session' = obtained' /\ refused' = refused
    <2>1. obtained' = obtained + 1 /\ session' = obtained' /\ refused' = refused
        BY DEF ExchangeSucceeds
    <2> QED
        BY <2>1 DEF Inv, TypeOK
<1>4. Current'
    BY <1>3 DEF Current, ExchangeSucceeds
<1>5. NoSessionWasted'
    <2> SUFFICES ASSUME NEW s \in 1..obtained' PROVE s = session' \/ s \in refused'
        BY DEF NoSessionWasted
    <2>1. s = obtained' \/ s \in 1..obtained
        BY <1>3
    <2>2. s \in 1..obtained => s \in refused
        BY <1>2 DEF Inv, NoSessionWasted
    <2> QED
        BY <1>3, <2>1, <2>2
<1>6. ASSUME NEW p \in Queries
      PROVE  /\ Staged(p)'
             /\ query[p]'.pc = "ask" /\ query[p]'.refusedWith # None
                    => query[p]'.session > query[p]'.refusedWith
    <2>1. CASE p \in Awaiting(q)
        <3>1. query[p] \in Query /\ query[p].pc = "exchange"
            BY <2>1 DEF Awaiting, Inv, TypeOK, Idle
        <3>2. query'[p] = [query[p] EXCEPT !.pc = "ask", !.session = obtained',
                                           !.awaits = None, !.tries = 0]
            BY <2>1 DEF ExchangeSucceeds
        <3>3. /\ query'[p].pc = "ask" /\ query'[p].session = obtained'
              /\ query'[p].refusedWith = query[p].refusedWith
            BY <3>1, <3>2 DEF Query
        <3>4. query[p].refusedWith # None => query[p].refusedWith \in 1..obtained
            BY <3>1 DEF Inv, Staged
        <3> QED
            BY <3>3, <3>4, <1>3 DEF Staged
    <2>2. CASE p \notin Awaiting(q)
        <3>1. query'[p] = query[p]
            BY <2>2 DEF ExchangeSucceeds
        <3>2. Staged(p) /\ query[p].pc # "exchange"
            BY <2>2, <1>2 DEF Inv, Staged, Awaiting
        <3>3. query[p].pc = "ask" /\ query[p].refusedWith # None
                => query[p].session > query[p].refusedWith
            BY DEF Inv, RetryIsFresh
        <3> QED
            BY <3>1, <3>2, <3>3, <1>3 DEF Staged
    <2> QED
        BY <2>1, <2>2
<1> QED
    BY <1>1, <1>4, <1>5, <1>6 DEF Inv, RetryIsFresh

\* Steps that leave the session and the sessions obtained alone, and put no query
\* into an exchange or a new round.
LEMMA OthersKeep ==
    ASSUME Inv, NEW q \in Queries,
           ExchangeFails(q) \/ Retry(q) \/ Refused(q) \/ Answered(q) \/ CancelFails(q)
    PROVE  Inv'
<1> USE SessionBounds
<1>1. TypeOK'
    BY TypeStep DEF Inv, Next, Step
<1>2. session' = session /\ obtained' = obtained /\ refused \subseteq refused'
    BY DEF ExchangeFails, Retry, Refused, Answered, CancelFails
<1>3. authenticating' \in {authenticating, None}
    BY DEF ExchangeFails, Retry, Refused, Answered, CancelFails
<1>4. Current'
    BY <1>2, <1>3 DEF Inv, Current
<1>5. NoSessionWasted'
    BY <1>2 DEF Inv, NoSessionWasted
<1>6. ASSUME NEW p \in Queries
      PROVE  /\ Staged(p)'
             /\ query[p]'.pc = "ask" /\ query[p]'.refusedWith # None
                    => query[p]'.session > query[p]'.refusedWith
    <2>1. Staged(p) /\ (query[p].pc = "ask" /\ query[p].refusedWith # None
                            => query[p].session > query[p].refusedWith)
        BY DEF Inv, RetryIsFresh
    <2>2. CASE query'[p] = Idle
        BY <2>2 DEF Staged, Idle
    <2>3. CASE /\ query'[p] = query[p]
               /\ authenticating' = authenticating \/ query[p].pc # "exchange"
        BY <2>1, <2>3, <1>2 DEF Staged
    <2>4. CASE Retry(p)
        <3>1. query[p] \in Query
            BY <2>4 DEF Retry, Exchanging, Inv, TypeOK, Idle
        <3>2. query'[p] = [query[p] EXCEPT !.tries = query[p].tries + 1]
            BY <2>4 DEF Retry, Inv, TypeOK
        <3>3. /\ query'[p].pc = query[p].pc /\ query'[p].session = query[p].session
              /\ query'[p].awaits = query[p].awaits
              /\ query'[p].refusedWith = query[p].refusedWith
            BY <3>1, <3>2 DEF Query
        <3>4. authenticating' = authenticating
            BY <2>4 DEF Retry
        <3> QED
            BY <2>1, <3>3, <3>4, <1>2 DEF Staged
    <2>5. CASE Refused(p) /\ query'[p] # Idle
        <3>1. query[p] \in Query
            BY <2>5 DEF Refused, Inv, TypeOK, Idle
        <3>2. query'[p] = [query[p] EXCEPT !.pc = "cancel"]
            BY <2>5 DEF Refused, Inv, TypeOK
        <3>3. query'[p].pc = "cancel" /\ query'[p].session = query[p].session
            BY <3>1, <3>2 DEF Query
        <3>4. query[p].session \in 1..obtained /\ query[p].session \in refused'
            BY <2>1, <2>5 DEF Refused, Staged
        <3> QED
            BY <3>3, <3>4, <1>2 DEF Staged
    <2>6. CASE ExchangeFails(q)
        <3>1. authenticating = q
            BY <2>6 DEF Inv, ExchangeFails, Exchanging, Staged
        <3>2. p \notin Awaiting(q) => query'[p] = query[p] /\ query[p].pc # "exchange"
            BY <2>1, <2>6, <3>1 DEF ExchangeFails, Awaiting, Staged
        <3>3. p \in Awaiting(q) => query'[p] = Idle
            BY <2>6 DEF ExchangeFails
        <3> QED
            BY <3>2, <3>3, <2>2, <2>3
    <2>7. CASE ~ExchangeFails(q)
        <3>1. authenticating' = authenticating
            BY <2>7 DEF Retry, Refused, Answered, CancelFails
        <3>2. p # q => query'[p] = query[p]
            BY <2>7 DEF Retry, Refused, Answered, CancelFails, Inv, TypeOK
        <3>3. Answered(q) \/ CancelFails(q) => query'[q] = Idle
            BY DEF Answered, CancelFails, Inv, TypeOK
        <3> QED
            BY <2>2, <2>3, <2>4, <2>5, <2>7, <3>1, <3>2, <3>3
    <2> QED
        BY <2>6, <2>7
<1> QED
    BY <1>1, <1>4, <1>5, <1>6 DEF Inv, RetryIsFresh

LEMMA StepInv == Inv /\ [Next]_vars => Inv'
<1> SUFFICES ASSUME Inv, [Next]_vars PROVE Inv'
    OBVIOUS
<1> USE SessionBounds
<1>1. ASSUME NEW q \in Queries, Begin(q) PROVE Inv'
    BY <1>1, RoundKeeps DEF Begin
<1>2. ASSUME NEW q \in Queries, SecondRound(q) PROVE Inv'
    <2>1. query[q] \in Query /\ Staged(q)
        BY <1>2 DEF SecondRound, Inv, TypeOK, Idle
    <2>2. query[q].session \in 1..obtained /\ query[q].session \in refused
        BY <1>2, <2>1 DEF SecondRound, Staged
    <2>3. Drop(query[q].session) \in {session, None}
        BY DEF Drop
    <2>4. Drop(query[q].session) = None => session = None \/ session \in refused
        BY <2>2 DEF Drop
    <2>5. Drop(query[q].session) # None => Drop(query[q].session) # query[q].session
        BY DEF Drop
    <2>6. query[q].session \in Sessions \cup {None}
        BY <2>1 DEF Query
    <2> QED
        BY <1>2, <2>2, <2>3, <2>4, <2>5, <2>6, RoundKeeps DEF SecondRound
<1>3. CASE UNCHANGED vars
    BY <1>3 DEF vars, Inv, TypeOK, Current, NoSessionWasted, RetryIsFresh, Staged
<1> QED
    BY <1>1, <1>2, <1>3, SucceedsKeeps, OthersKeep DEF Next, Step

-----------------------------------------------------------------------------
\* The inductive invariant of session, exchange and queries.
THEOREM InvCorrect == Spec => []Inv
BY InitInv, StepInv, PTL DEF Spec

\* The client keeps its types, for any number of queries and sessions.
THEOREM TypeCorrect == Spec => []TypeOK
<1>1. Inv => TypeOK
    BY DEF Inv
<1> QED
    BY <1>1, InvCorrect, PTL

\* query and authenticate give up no session that Salesforce has not refused.
THEOREM NoSessionWastedCorrect == Spec => []NoSessionWasted
<1>1. Inv => NoSessionWasted
    BY DEF Inv
<1> QED
    BY <1>1, InvCorrect, PTL

\* The second round of a query has a session newer than the one that was refused.
THEOREM RetryIsFreshCorrect == Spec => []RetryIsFresh
<1>1. Inv => RetryIsFresh
    BY DEF Inv
<1> QED
    BY <1>1, InvCorrect, PTL

-----------------------------------------------------------------------------
(* Event publishing.                                                       *)

\* The inductive invariant.
CircuitInv == PublisherTypeOK /\ OpenAfterFailures

LEMMA AttemptType ==
    ASSUME NEW n \in AttemptNumbers, client \in BOOLEAN
    PROVE  Attempt(n) \in Publish
BY PublisherBounds DEF Attempt, Publish, AttemptNumbers

\* A failure counts, and the circuit is open from the threshold on.
LEMMA FailureKeeps ==
    ASSUME CircuitInv, RegisterFailure
    PROVE  failures' \in 0..MaxFailures /\ open' \in BOOLEAN /\ OpenAfterFailures'
<1> USE PublisherBounds
<1>1. failures' \in 0..MaxFailures
    BY DEF CircuitInv, PublisherTypeOK, RegisterFailure
<1>2. open' \in BOOLEAN
    BY DEF CircuitInv, PublisherTypeOK, RegisterFailure
<1>3. OpenAfterFailures'
    <2>1. CASE open
        BY <2>1 DEF CircuitInv, PublisherTypeOK, OpenAfterFailures, RegisterFailure
    <2>2. CASE ~open
        BY <2>2 DEF CircuitInv, PublisherTypeOK, OpenAfterFailures, RegisterFailure
    <2> QED
        BY <2>1, <2>2
<1> QED
    BY <1>1, <1>2, <1>3

\* However an attempt fails, the publish goes on with a further one or is abandoned.
LEMMA AttemptFailsKeeps ==
    ASSUME CircuitInv, NEW s \in Slots, publish[s] \in Publish, NEW transient \in BOOLEAN,
           AttemptFails(s, transient), UNCHANGED <<up, client>>
    PROVE  CircuitInv'
<1> USE PublisherBounds
<1>1. CASE transient /\ publish[s].attempt < MaxRetry
    <2>1. publish[s].attempt + 1 \in AttemptNumbers
        BY <1>1 DEF Publish, AttemptNumbers
    <2>2. Attempt(publish[s].attempt + 1) \in Publish
        BY <2>1, AttemptType DEF CircuitInv, PublisherTypeOK
    <2> QED
        BY <1>1, <2>2 DEF CircuitInv, PublisherTypeOK, OpenAfterFailures, AttemptFails
<1>2. CASE ~(transient /\ publish[s].attempt < MaxRetry)
    <2>1. publish' = [publish EXCEPT ![s] = NoPublish] /\ RegisterFailure
        BY <1>2 DEF AttemptFails
    <2>2. publish' \in [Slots -> Publish \cup {NoPublish}]
        BY <2>1 DEF CircuitInv, PublisherTypeOK
    <2> QED
        BY <2>1, <2>2, FailureKeeps DEF CircuitInv, PublisherTypeOK
<1> QED
    BY <1>1, <1>2

LEMMA CircuitInit == PublisherInit => CircuitInv
<1> SUFFICES ASSUME PublisherInit PROVE CircuitInv
    OBVIOUS
<1>1. failures \in 0..MaxFailures /\ publish \in [Slots -> Publish \cup {NoPublish}]
    BY PublisherBounds DEF PublisherInit
<1>2. up \in BOOLEAN /\ client \in BOOLEAN /\ open \in BOOLEAN
    BY Zenon DEF PublisherInit
<1> QED
    BY <1>1, <1>2 DEF PublisherInit, CircuitInv, PublisherTypeOK, OpenAfterFailures

LEMMA CircuitNext == CircuitInv /\ [PublisherNext]_publisherVars => CircuitInv'
<1> SUFFICES ASSUME CircuitInv, [PublisherNext]_publisherVars PROVE CircuitInv'
    OBVIOUS
<1> USE PublisherBounds
<1>1. ASSUME NEW s \in Slots, publish[s].pc # "idle" PROVE publish[s] \in Publish
    BY <1>1 DEF CircuitInv, PublisherTypeOK, NoPublish
<1>2. ASSUME NEW s \in Slots, BeginPublish(s) PROVE CircuitInv'
    <2>1. Attempt(0) \in Publish
        BY AttemptType DEF CircuitInv, PublisherTypeOK, AttemptNumbers
    <2> QED
        BY <1>2, <2>1 DEF BeginPublish, CircuitInv, PublisherTypeOK, OpenAfterFailures
<1>3. ASSUME NEW s \in Slots, CreateClient(s) PROVE CircuitInv'
    <2>1. publish[s] \in Publish
        BY <1>1, <1>3 DEF CreateClient
    <2>2. [publish[s] EXCEPT !.pc = "post"] \in Publish
        BY <2>1 DEF Publish
    <2> QED
        BY <1>3, <2>2 DEF CreateClient, CircuitInv, PublisherTypeOK, OpenAfterFailures
<1>4. ASSUME NEW s \in Slots, PostSucceeds(s) PROVE CircuitInv'
    <2>1. failures' \in 0..MaxFailures /\ publish' \in [Slots -> Publish \cup {NoPublish}]
        BY <1>4 DEF PostSucceeds, ResetCircuitBreaker, CircuitInv, PublisherTypeOK
    <2>2. open' = FALSE
        BY <1>4 DEF PostSucceeds, ResetCircuitBreaker
    <2> QED
        BY <1>4, <2>1, <2>2 DEF PostSucceeds, CircuitInv, PublisherTypeOK, OpenAfterFailures
<1>5. ASSUME NEW s \in Slots, NEW transient \in BOOLEAN, CreateClientFails(s, transient)
      PROVE  CircuitInv'
    <2>1. publish[s] \in Publish
        BY <1>1, <1>5 DEF CreateClientFails
    <2>2. CASE transient /\ publish[s].clientAttempt < MaxRetry
        <3>1. [publish[s] EXCEPT !.clientAttempt = @ + 1] \in Publish
            BY <2>1, <2>2 DEF Publish, AttemptNumbers
        <3> QED
            BY <1>5, <2>2, <3>1 DEF CreateClientFails, CircuitInv, PublisherTypeOK, OpenAfterFailures
    <2>3. CASE ~(transient /\ publish[s].clientAttempt < MaxRetry)
        BY <1>5, <2>1, <2>3, AttemptFailsKeeps DEF CreateClientFails
    <2> QED
        BY <2>2, <2>3
<1>6. ASSUME NEW s \in Slots, NEW transient \in BOOLEAN, PostFails(s, transient)
      PROVE  CircuitInv'
    <2>1. publish[s] \in Publish
        BY <1>1, <1>6 DEF PostFails
    <2> QED
        BY <1>6, <2>1, AttemptFailsKeeps DEF PostFails
<1>7. CASE Expire \/ BusComesOrGoes
    <2>1. failures' \in 0..MaxFailures /\ publish' \in [Slots -> Publish \cup {NoPublish}]
        BY <1>7 DEF Expire, BusComesOrGoes, CircuitInv, PublisherTypeOK
    <2>2. up' \in BOOLEAN /\ client' \in BOOLEAN /\ open' \in BOOLEAN
        BY <1>7 DEF Expire, BusComesOrGoes, CircuitInv, PublisherTypeOK
    <2>3. OpenAfterFailures'
        BY <1>7 DEF Expire, BusComesOrGoes, CircuitInv, OpenAfterFailures
    <2> QED
        BY <2>1, <2>2, <2>3 DEF CircuitInv, PublisherTypeOK
<1>8. CASE UNCHANGED publisherVars
    BY <1>8 DEF publisherVars, CircuitInv, PublisherTypeOK, OpenAfterFailures
<1>9. ASSUME NEW s \in Slots, PublishStep(s) PROVE CircuitInv'
    BY <1>3, <1>4, <1>5, <1>6, <1>9 DEF PublishStep
<1> QED
    BY <1>2, <1>7, <1>8, <1>9 DEF PublisherNext

-----------------------------------------------------------------------------
\* The types of the publisher, on which the other two theorems rest.
THEOREM PublisherTypeCorrect == PublisherSpec => []PublisherTypeOK
<1>1. CircuitInv => PublisherTypeOK
    BY DEF CircuitInv
<1>2. PublisherInit => CircuitInv
    BY CircuitInit
<1>3. CircuitInv /\ [PublisherNext]_publisherVars => CircuitInv'
    BY CircuitNext
<1> QED
    BY <1>1, <1>2, <1>3, PTL DEF PublisherSpec

\* The circuit is open only after Threshold failures in a row, whatever publishes end while
\* it is open: the check of isCircuitOpen before, the reset or the count after.
THEOREM OpenAfterFailuresCorrect == PublisherSpec => []OpenAfterFailures
<1>1. CircuitInv => OpenAfterFailures
    BY DEF CircuitInv
<1>2. PublisherInit => CircuitInv
    BY CircuitInit
<1>3. CircuitInv /\ [PublisherNext]_publisherVars => CircuitInv'
    BY CircuitNext
<1> QED
    BY <1>1, <1>2, <1>3, PTL DEF PublisherSpec

\* What becomes of the publish of slot s in a step.
Advances(s) ==
    \/ publish'[s] \in {publish[s], NoPublish}
    \/ publish[s] = NoPublish
    \/ /\ FurtherThan(publish'[s], publish[s])
       /\ publish'[s].attempt <= MaxRetry /\ publish'[s].clientAttempt <= MaxRetry

\* However an attempt fails, the attempts of its publish have become more.
LEMMA AttemptFailsAdvances ==
    ASSUME CircuitInv, NEW s \in Slots, publish[s] \in Publish, NEW transient \in BOOLEAN,
           AttemptFails(s, transient)
    PROVE  Advances(s)
<1> USE PublisherBounds
<1>1. CASE transient /\ publish[s].attempt < MaxRetry
    <2>1. publish'[s] = Attempt(publish[s].attempt + 1)
        BY <1>1 DEF AttemptFails, CircuitInv, PublisherTypeOK
    <2> QED
        BY <1>1, <2>1 DEF Advances, FurtherThan, Attempt, Publish, AttemptNumbers
<1>2. CASE ~(transient /\ publish[s].attempt < MaxRetry)
    BY <1>2 DEF AttemptFails, Advances, CircuitInv, PublisherTypeOK
<1> QED
    BY <1>1, <1>2

LEMMA RetriesNext == CircuitInv /\ [PublisherNext]_publisherVars => \A s \in Slots : Advances(s)
<1> SUFFICES ASSUME CircuitInv, [PublisherNext]_publisherVars, NEW s \in Slots PROVE Advances(s)
    OBVIOUS
<1> USE PublisherBounds
<1>1. ASSUME publish[s].pc # "idle" PROVE publish[s] \in Publish
    BY <1>1 DEF CircuitInv, PublisherTypeOK, NoPublish
<1>2. ASSUME NEW t \in Slots \ {s}, BeginPublish(t) \/ PublishStep(t) PROVE Advances(s)
    BY <1>2 DEF BeginPublish, PublishStep, CreateClient, CreateClientFails, PostSucceeds, PostFails,
       AttemptFails, Advances, CircuitInv, PublisherTypeOK
<1>3. CASE BeginPublish(s)
    BY <1>3 DEF BeginPublish, Advances
<1>4. CASE CreateClient(s)
    <2>1. publish[s] \in Publish /\ publish[s].pc = "client"
        BY <1>1, <1>4 DEF CreateClient
    <2>2. publish'[s] = [publish[s] EXCEPT !.pc = "post"]
        BY <1>4 DEF CreateClient, CircuitInv, PublisherTypeOK
    <2> QED
        BY <2>1, <2>2 DEF Advances, FurtherThan, Publish, AttemptNumbers
<1>5. CASE PostSucceeds(s)
    BY <1>5 DEF PostSucceeds, Advances, CircuitInv, PublisherTypeOK
<1>6. ASSUME NEW transient \in BOOLEAN, CreateClientFails(s, transient) PROVE Advances(s)
    <2>1. publish[s] \in Publish
        BY <1>1, <1>6 DEF CreateClientFails
    <2>2. CASE transient /\ publish[s].clientAttempt < MaxRetry
        <3>1. publish'[s] = [publish[s] EXCEPT !.clientAttempt = @ + 1]
            BY <1>6, <2>2 DEF CreateClientFails, CircuitInv, PublisherTypeOK
        <3> QED
            BY <2>1, <2>2, <3>1 DEF Advances, FurtherThan, Publish, AttemptNumbers
    <2>3. CASE ~(transient /\ publish[s].clientAttempt < MaxRetry)
        BY <1>6, <2>1, <2>3, AttemptFailsAdvances DEF CreateClientFails
    <2> QED
        BY <2>2, <2>3
<1>7. ASSUME NEW transient \in BOOLEAN, PostFails(s, transient) PROVE Advances(s)
    <2>1. publish[s] \in Publish
        BY <1>1, <1>7 DEF PostFails
    <2> QED
        BY <1>7, <2>1, AttemptFailsAdvances DEF PostFails
<1>8. CASE Expire \/ BusComesOrGoes \/ UNCHANGED publisherVars
    BY <1>8 DEF Expire, BusComesOrGoes, publisherVars, Advances
<1> QED
    BY <1>2, <1>3, <1>4, <1>5, <1>6, <1>7, <1>8 DEF PublisherNext, PublishStep

\* The nested retries of postEventWithRetry and getBusApiClient run out: every step of a
\* publish takes it further along a path of bounded length. With fairness, every publish ends.
THEOREM RetriesRunOutCorrect == PublisherSpec => RetriesRunOut
<1>1. PublisherInit => CircuitInv
    BY CircuitInit
<1>2. CircuitInv /\ [PublisherNext]_publisherVars => CircuitInv'
    BY CircuitNext
<1>3. CircuitInv /\ [PublisherNext]_publisherVars =>
        [\A s \in Slots :
           \/ publish'[s] \in {publish[s], NoPublish}
           \/ publish[s] = NoPublish
           \/ /\ FurtherThan(publish'[s], publish[s])
              /\ publish'[s].attempt <= MaxRetry /\ publish'[s].clientAttempt <= MaxRetry
          ]_publisherVars
    BY RetriesNext DEF Advances
<1> QED
    BY <1>1, <1>2, <1>3, PTL DEF PublisherSpec, RetriesRunOut

=============================================================================
