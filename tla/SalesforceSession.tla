-------------------------- MODULE SalesforceSession --------------------------
(***************************************************************************)
(* The session that the queries to Salesforce share: SalesforceClient.     *)
(*                                                                         *)
(* A session is a number; a new one is never an old one, as a new object   *)
(* is not.  Salesforce may refuse any session at any time.  Between two    *)
(* awaits any other query may run, but the continuations of a promise run  *)
(* before the next event: the end of a token exchange, the cleanup of      *)
(* authenticating and the start of every query that awaited it are one     *)
(* step.                                                                   *)
(***************************************************************************)
EXTENDS Integers

CONSTANTS
    Queries,            \* queries in flight at the same time
    None,
    MaxSessions         \* bound on sessions

ASSUME SessionBounds == MaxSessions \in Nat /\ None \notin Nat /\ None \notin Queries

VARIABLES
    session,            \* this.session
    authenticating,     \* this.authenticating: the query that makes the exchange, or None
    query,              \* the state of every query
    obtained,           \* the number of sessions so far
    refused             \* the sessions that were answered with 401

vars == <<session, authenticating, query, obtained, refused>>

-----------------------------------------------------------------------------
Sessions == 1..MaxSessions

\* request() gives up after its third attempt.
Attempts == 0..2

\* pc: awaits an exchange, awaits the answer, or has been refused and awaits
\* body.cancel().  session is the one it asks with, awaits the query whose exchange it
\* waits for; refusedWith is the session of the first round, if this is the second.
\* tries counts the attempts that the query's own request has lost.
Query == [pc : {"exchange", "ask", "cancel"}, session : Sessions \cup {None},
          awaits : Queries \cup {None}, refusedWith : Sessions \cup {None},
          tries : Attempts]

Idle == [pc |-> "idle"]

TypeOK ==
    /\ session \in Sessions \cup {None}
    /\ authenticating \in Queries \cup {None}
    /\ query \in [Queries -> Query \cup {Idle}]
    /\ obtained \in 0..MaxSessions
    /\ refused \subseteq Sessions

Init ==
    /\ session = None
    /\ authenticating = None
    /\ query = [q \in Queries |-> Idle]
    /\ obtained = 0
    /\ refused = {}

-----------------------------------------------------------------------------
\* Bug: every query makes an exchange of its own.
OwnExchange(q) == q

\* authenticate: an exchange in flight is shared.
SharedExchange(q) == IF authenticating # None THEN authenticating ELSE q

\* A round of a query, when this.session is current: with that session, or after the
\* exchange.
Round(q, current, refusedWith) ==
    /\ query' = [query EXCEPT ![q] =
            [pc |-> IF current # None THEN "ask" ELSE "exchange",
             session |-> current, refusedWith |-> refusedWith, tries |-> 0,
             awaits |-> IF current # None THEN None ELSE SharedExchange(q)]]
    /\ session' = current
    /\ authenticating' = IF current # None THEN authenticating ELSE SharedExchange(q)
    /\ UNCHANGED obtained

Begin(q) ==
    /\ query[q] = Idle
    /\ Round(q, session, None)
    /\ UNCHANGED refused

-----------------------------------------------------------------------------
(* The token exchange.                                                     *)

Exchanging(q) == query[q].pc = "exchange" /\ query[q].awaits = q

Awaiting(q) == {p \in Queries : query[p].pc = "exchange" /\ query[p].awaits = q}

ExchangeSucceeds(q) ==
    /\ Exchanging(q)
    /\ obtained < MaxSessions                       \* bound
    /\ obtained' = obtained + 1
    /\ session' = obtained'
    /\ authenticating' = None
    /\ query' = [p \in Queries |->
            IF p \in Awaiting(q)
            THEN [query[p] EXCEPT !.pc = "ask", !.session = obtained',
                                  !.awaits = None, !.tries = 0]
            ELSE query[p]]
    /\ UNCHANGED refused

\* Rejected, malformed, an origin that is not trusted, or the third attempt is lost.
ExchangeFails(q) ==
    /\ Exchanging(q)
    /\ authenticating' = None
    /\ query' = [p \in Queries |-> IF p \in Awaiting(q) THEN Idle ELSE query[p]]
    /\ UNCHANGED <<session, obtained, refused>>

-----------------------------------------------------------------------------
(* The query.                                                              *)

\* Bug: a fourth attempt.
RetryOnceMore(q) ==
    /\ Exchanging(q) \/ query[q].pc = "ask"
    /\ query[q].tries \in Attempts
    /\ query' = [query EXCEPT ![q].tries = @ + 1]
    /\ UNCHANGED <<session, authenticating, obtained, refused>>

\* Bug: the attempts are not counted.
RetryForEver(q) ==
    /\ Exchanging(q) \/ query[q].pc = "ask"
    /\ query' = [query EXCEPT ![q].tries = (@ + 1) % 3]
    /\ UNCHANGED <<session, authenticating, obtained, refused>>

\* request(): a transient answer to the exchange or the query, or none.  It is made
\* again after a delay.
Retry(q) ==
    /\ Exchanging(q) \/ query[q].pc = "ask"
    /\ query[q].tries + 1 \in Attempts
    /\ query' = [query EXCEPT ![q].tries = @ + 1]
    /\ UNCHANGED <<session, authenticating, obtained, refused>>

\* 401, in the first round or in the second.
Refused(q) ==
    /\ query[q].pc = "ask"
    /\ refused' = refused \cup {query[q].session}
    /\ query' = [query EXCEPT ![q] =
            IF query[q].refusedWith = None THEN [@ EXCEPT !.pc = "cancel"] ELSE Idle]
    /\ UNCHANGED <<session, authenticating, obtained>>

\* Records, any other answer, or the third attempt is lost.
Answered(q) ==
    /\ query[q].pc = "ask"
    /\ query' = [query EXCEPT ![q] = Idle]
    /\ UNCHANGED <<session, authenticating, obtained, refused>>

\* Bug: whatever session there is gets dropped.
DropAny(mine) == None

\* Bug: the session stays.
DropNone(mine) == session

\* this.session, after a query has dropped the one it was refused with.
Drop(mine) == IF session = mine THEN None ELSE session

SecondRound(q) ==
    /\ query[q].pc = "cancel"
    /\ Round(q, Drop(query[q].session), query[q].session)
    /\ UNCHANGED refused

\* body.cancel() fails, and the session stays.
CancelFails(q) ==
    /\ query[q].pc = "cancel"
    /\ query' = [query EXCEPT ![q] = Idle]
    /\ UNCHANGED <<session, authenticating, obtained, refused>>

-----------------------------------------------------------------------------
Step(q) ==
    \/ ExchangeSucceeds(q) \/ ExchangeFails(q)
    \/ Retry(q) \/ Refused(q) \/ Answered(q)
    \/ SecondRound(q) \/ CancelFails(q)

Next == \E q \in Queries : Begin(q) \/ Step(q)

Spec == Init /\ [][Next]_vars

\* A request is answered or times out after 15 seconds, and the event loop runs what is
\* ready.  Nobody has to make a query.
FairSpec == Spec /\ \A q \in Queries : WF_vars(Step(q))

-----------------------------------------------------------------------------
\* A session is given up only after Salesforce has refused it: none is dropped for the
\* late refusal of an older one, and no two exchanges replace each other's session.
NoSessionWasted == \A s \in 1..obtained : s = session \/ s \in refused

\* A query that was refused asks again with a session that is newer than the one it was
\* refused with, whoever obtained it.
RetryIsFresh ==
    \A q \in Queries :
        query[q].pc = "ask" /\ query[q].refusedWith # None
            => query[q].session > query[q].refusedWith

\* Every query ends, whatever Salesforce answers and whosever exchange it waits for.
QueriesEnd == \A q \in Queries : query[q] # Idle ~> query[q] = Idle

=============================================================================
