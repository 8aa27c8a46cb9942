---------------------------- MODULE ProjectWorks ----------------------------
(***************************************************************************)
(* The phases of one project, their order, their products and the work     *)
(* streams they are linked to.                                             *)
(*                                                                         *)
(* The same handlers serve two APIs: phases and products directly, and     *)
(* works and work items, which are the phases linked to a work stream and  *)
(* their products.  A call of the second API names its stream, one of the  *)
(* first has stream = Null.                                                *)
(*                                                                         *)
(* A call checks (Begin...), lists the phases if it is going to order them *)
(* (List...) and writes (Write...), the last two in one transaction, all   *)
(* of whose writes are taken at its commit; createWork then links its      *)
(* phase in a statement of its own.  Other calls may come in between, and  *)
(* a call may fail at any point.                                           *)
(***************************************************************************)
EXTENDS Integers, FiniteSets

CONSTANTS
    Streams,                \* ids of work streams
    Slots,                  \* calls in flight at the same time
    Null,
    TemplateOrders,         \* orders that phases of a project template have
    RequestedOrders,        \* orders that calls ask for
    Statuses,               \* ProjectStatus
    MaxProductCount,        \* APP_CONFIG.maxPhaseProductCount
    TemplatePhases,         \* bounds: phases of the template,
    MaxPhases,              \*   rows of project_phases
    ProductIds              \*   and rows of phase_products

PhaseIds == 1..MaxPhases

TerminalStatuses == {"completed", "cancelled"}

ASSUME WorksBounds ==
    /\ MaxProductCount \in Nat \ {0} /\ Null \notin ProductIds
    /\ MaxPhases \in Nat /\ TemplatePhases \in 0..MaxPhases
    /\ TemplateOrders \subseteq Int \cup {Null} /\ RequestedOrders \subseteq Int
    /\ Null \notin Int /\ Null \notin Streams /\ Null \notin Statuses /\ "draft" \in Statuses
    /\ IsFiniteSet(Slots) /\ IsFiniteSet(ProductIds)

VARIABLES
    phases,         \* project_phases
    products,       \* phase_products
    streams,        \* work_streams: whether the row is there
    links,          \* phase_work_streams
    calls           \* the call of every slot

vars == <<phases, products, streams, links, calls>>

-----------------------------------------------------------------------------
RowState == {"none", "live", "deleted"}

Orders == TemplateOrders \cup PhaseIds \cup {Null}

Phase   == [state : RowState, order : Orders, status : Statuses \cup {Null}]
Product == [state : RowState, phase : PhaseIds \cup {Null}]

Ops == {"createPhase", "updatePhase", "deletePhase", "createProduct", "deleteProduct"}

\* What a call keeps of its arguments and of what it has read: order is what was asked
\* for until the phases are listed, and where createPhase inserts its phase from then.
\* listed holds the position each phase is going to have.  stale is no part of the
\* code: whether another call has written phases since this one listed them.
Call == [op : Ops, pc : {"list", "write", "link"}, stream : Streams \cup {Null},
         phase : PhaseIds \cup {Null}, product : ProductIds \cup {Null},
         order : RequestedOrders \cup PhaseIds \cup {Null}, status : Statuses \cup {Null},
         listed : UNION {[S -> PhaseIds] : S \in SUBSET PhaseIds}, stale : BOOLEAN]

Idle == [op |-> "idle"]

TypeOK ==
    /\ phases \in [PhaseIds -> Phase]
    /\ products \in [ProductIds -> Product]
    /\ streams \in [Streams -> RowState]
    /\ links \subseteq Streams \X PhaseIds
    /\ calls \in [Slots -> Call \cup {Idle}]

\* The project's phases come from its template, with orders of any kind and any
\* number of products.
Init ==
    /\ \E order \in [1..TemplatePhases -> TemplateOrders] :
        phases = [p \in PhaseIds |->
                    IF p \in 1..TemplatePhases
                    THEN [state |-> "live", order |-> order[p], status |-> "draft"]
                    ELSE [state |-> "none", order |-> Null, status |-> Null]]
    /\ \E owner \in [ProductIds -> 1..TemplatePhases \cup {Null}] :
        products = [x \in ProductIds |->
                      [state |-> IF owner[x] = Null THEN "none" ELSE "live", phase |-> owner[x]]]
    /\ streams = [w \in Streams |-> "none"]
    /\ links = {}
    /\ calls = [s \in Slots |-> Idle]

-----------------------------------------------------------------------------
(* Order.                                                                  *)

Live == {p \in PhaseIds : phases[p].state = "live"}

\* sortPhasesByOrder: by order, those without one last, then by id.
Before(p, q) ==
    \/ phases[p].order # Null /\ phases[q].order = Null
    \/ /\ phases[p].order # Null /\ phases[q].order # Null
       /\ phases[p].order < phases[q].order
    \/ phases[p].order = phases[q].order /\ p < q

\* Bug: the orders the phases have are not looked at.
PositionsById(S) == [p \in S |-> Cardinality({q \in S : q < p}) + 1]

\* The positions of the phases of S once they are sorted.
Positions(S) == [p \in S |-> Cardinality({q \in S : Before(q, p)}) + 1]

\* splice(k - 1, 0, p)
InsertAt(positions, p, k) ==
    [q \in DOMAIN positions \cup {p} |->
        IF q = p THEN k
        ELSE IF positions[q] < k THEN positions[q] ELSE positions[q] + 1]

\* Bug: an order beyond the last one is taken as it is.
ResolveUnclamped(requested, max, fallback) ==
    IF requested = Null THEN fallback
    ELSE IF requested < 1 THEN 1 ELSE requested

\* resolveRequestedOrder
ResolveRequestedOrder(requested, max, fallback) ==
    IF requested = Null THEN fallback
    ELSE IF requested < 1 THEN 1
    ELSE IF requested > max THEN max
    ELSE requested

\* reindexProjectPhases, for phases listed before: by id, deleted since or not.
Reindexed(rows, listed) ==
    [p \in PhaseIds |-> IF p \in DOMAIN listed THEN [rows[p] EXCEPT !.order = listed[p]]
                                               ELSE rows[p]]

-----------------------------------------------------------------------------
(* Rows and calls.                                                         *)

FreshPhase == {p \in PhaseIds : /\ phases[p].state = "none"
                                /\ \A q \in 1..(p - 1) : phases[q].state # "none"}
FreshProduct == {x \in ProductIds : products[x].state = "none"}

\* ensurePhaseLinkedToWorkStream, for calls that name a stream.
Linked(w, p) ==
    w # Null => streams[w] = "live" /\ <<w, p>> \in links /\ phases[p].state = "live"

ProductsOf(rows, p) == {x \in ProductIds : rows[x].state = "live" /\ rows[x].phase = p}

NewCall == [op |-> "createPhase", pc |-> "list", stream |-> Null, phase |-> Null,
            product |-> Null, order |-> Null, status |-> Null, listed |-> <<>>,
            stale |-> FALSE]

Begin(s, k) ==
    /\ calls[s] = Idle
    /\ calls' = [calls EXCEPT ![s] = k]
    /\ UNCHANGED <<phases, products, streams, links>>

At(s, op, pc) == calls[s] # Idle /\ calls[s].op = op /\ calls[s].pc = pc

\* The call of s goes on as k; what other calls have listed is old now.
GoOn(s, k) ==
    calls' = [t \in Slots |->
        IF t = s THEN k
        ELSE IF \E op \in {"createPhase", "updatePhase", "deletePhase"} : At(t, op, "write")
        THEN [calls[t] EXCEPT !.stale = TRUE]
        ELSE calls[t]]

-----------------------------------------------------------------------------
(* project-phase.service                                                   *)

BeginCreatePhase(s, w, requested, status) ==
    /\ w # Null => streams[w] = "live"
    /\ Begin(s, [NewCall EXCEPT !.stream = w, !.order = requested, !.status = status])

ListForCreate(s) ==
    LET last == Cardinality(Live) + 1
    IN
    /\ At(s, "createPhase", "list")
    /\ FreshPhase # {}     \* bound
    /\ calls' = [calls EXCEPT ![s].pc = "write", ![s].listed = Positions(Live),
                              ![s].order = ResolveRequestedOrder(@, last, last)]
    /\ UNCHANGED <<phases, products, streams, links>>

\* With a product template the phase gets its first product.
WriteCreatePhase(s, template) ==
    LET k == calls[s]
    IN
    /\ At(s, "createPhase", "write")
    /\ \E p \in FreshPhase :
        /\ phases' = Reindexed([phases EXCEPT ![p].state = "live", ![p].status = k.status],
                               InsertAt(k.listed, p, k.order))
        /\ IF template
           THEN \E x \in FreshProduct :
                  products' = [products EXCEPT ![x] = [state |-> "live", phase |-> p]]
           ELSE products' = products
        /\ GoOn(s, IF k.stream = Null THEN Idle
                   ELSE [NewCall EXCEPT !.pc = "link", !.stream = k.stream, !.phase = p])
    /\ UNCHANGED <<streams, links>>

\* createWork, after the phase has been committed.
CreateLink(s) ==
    /\ calls[s] # Idle /\ calls[s].pc = "link"
    /\ links' = links \cup {<<calls[s].stream, calls[s].phase>>}
    /\ calls' = [calls EXCEPT ![s] = Idle]
    /\ UNCHANGED <<phases, products, streams>>

\* Bug: only a cancelled phase stays what it is.
AllowedUncancelled(from, to) == to \in {Null, from} \/ from # "cancelled"

\* validateStatusTransition
Allowed(from, to) == to \in {Null, from} \/ from \notin TerminalStatuses

\* requested and status are Null where the patch has none.
BeginUpdatePhase(s, w, p, requested, status) ==
    /\ phases[p].state = "live" /\ Linked(w, p)
    /\ Allowed(phases[p].status, status)
    /\ Begin(s, [NewCall EXCEPT !.op = "updatePhase", !.phase = p, !.status = status,
                                !.order = requested,
                                !.pc = IF requested = Null THEN "write" ELSE "list"])

ListForUpdate(s) ==
    LET p == calls[s].phase
        k == ResolveRequestedOrder(calls[s].order, Cardinality(Live), Null)
    IN
    /\ At(s, "updatePhase", "list")
    /\ p \in Live
    /\ calls' = [calls EXCEPT ![s].pc = "write", ![s].order = Null,
                              ![s].listed = InsertAt(Positions(Live \ {p}), p, k)]
    /\ UNCHANGED <<phases, products, streams, links>>

WriteUpdatePhase(s) ==
    LET k == calls[s]
    IN
    /\ At(s, "updatePhase", "write")
    /\ phases' = [Reindexed(phases, k.listed)
                    EXCEPT ![k.phase].status = IF k.status = Null THEN @ ELSE k.status]
    /\ GoOn(s, Idle)
    /\ UNCHANGED <<products, streams, links>>

BeginDeletePhase(s, w, p) ==
    /\ phases[p].state = "live" /\ Linked(w, p)
    /\ Begin(s, [NewCall EXCEPT !.op = "deletePhase", !.phase = p])

\* After the phase has been deleted in this transaction.
ListForDelete(s) ==
    /\ At(s, "deletePhase", "list")
    /\ calls' = [calls EXCEPT ![s].pc = "write", ![s].listed = Positions(Live \ {calls[s].phase})]
    /\ UNCHANGED <<phases, products, streams, links>>

\* Bug: the remaining phases keep their orders.
WriteDeleteOnly(s) ==
    /\ At(s, "deletePhase", "write")
    /\ phases' = [phases EXCEPT ![calls[s].phase].state = "deleted"]
    /\ GoOn(s, Idle)
    /\ UNCHANGED <<products, streams, links>>

WriteDeletePhase(s) ==
    LET k == calls[s]
    IN
    /\ At(s, "deletePhase", "write")
    /\ phases' = Reindexed([phases EXCEPT ![k.phase].state = "deleted"], k.listed)
    /\ GoOn(s, Idle)
    /\ UNCHANGED <<products, streams, links>>

-----------------------------------------------------------------------------
(* phase-product.service: no transaction.  updatePhaseProduct writes no    *)
(* modelled column.                                                        *)

\* Bug: a phase that has reached the limit gets one more.
BeginCreateProductAtLimit(s, w, p) ==
    /\ phases[p].state = "live" /\ Linked(w, p)
    /\ Cardinality(ProductsOf(products, p)) <= MaxProductCount
    /\ Begin(s, [NewCall EXCEPT !.op = "createProduct", !.pc = "write", !.phase = p])

BeginCreateProduct(s, w, p) ==
    /\ phases[p].state = "live" /\ Linked(w, p)
    /\ Cardinality(ProductsOf(products, p)) < MaxProductCount
    /\ Begin(s, [NewCall EXCEPT !.op = "createProduct", !.pc = "write", !.phase = p])

WriteCreateProduct(s) ==
    /\ At(s, "createProduct", "write")
    /\ \E x \in FreshProduct :
        products' = [products EXCEPT ![x] = [state |-> "live", phase |-> calls[s].phase]]
    /\ calls' = [calls EXCEPT ![s] = Idle]
    /\ UNCHANGED <<phases, streams, links>>

BeginDeleteProduct(s, w, p, x) ==
    /\ phases[p].state = "live" /\ Linked(w, p)
    /\ x \in ProductsOf(products, p)
    /\ Begin(s, [NewCall EXCEPT !.op = "deleteProduct", !.pc = "write", !.product = x])

WriteDeleteProduct(s) ==
    /\ At(s, "deleteProduct", "write")
    /\ products' = [products EXCEPT ![calls[s].product].state = "deleted"]
    /\ calls' = [calls EXCEPT ![s] = Idle]
    /\ UNCHANGED <<phases, streams, links>>

-----------------------------------------------------------------------------
(* workstream.service.  Its update writes no modelled column.              *)

CreateStream(w) ==
    /\ streams[w] = "none"
    /\ streams' = [streams EXCEPT ![w] = "live"]
    /\ UNCHANGED <<phases, products, links, calls>>

\* The links of a deleted stream stay.
DeleteStream(w) ==
    /\ streams[w] = "live"
    /\ streams' = [streams EXCEPT ![w] = "deleted"]
    /\ UNCHANGED <<phases, products, links, calls>>

-----------------------------------------------------------------------------
\* A call fails before its next write.
Abort(s) ==
    /\ calls[s] # Idle
    /\ calls' = [calls EXCEPT ![s] = Idle]
    /\ UNCHANGED <<phases, products, streams, links>>

BeginCall(s) ==
    \E w \in Streams \cup {Null} :
        \/ \E o \in RequestedOrders \cup {Null}, st \in Statuses : BeginCreatePhase(s, w, o, st)
        \/ \E p \in PhaseIds :
             \/ \E o \in RequestedOrders \cup {Null}, st \in Statuses \cup {Null} :
                    BeginUpdatePhase(s, w, p, o, st)
             \/ BeginDeletePhase(s, w, p)
             \/ BeginCreateProduct(s, w, p)
             \/ \E x \in ProductIds : BeginDeleteProduct(s, w, p, x)

List(s) == ListForCreate(s) \/ ListForUpdate(s) \/ ListForDelete(s)

Write(s) ==
    \/ \E template \in BOOLEAN : WriteCreatePhase(s, template)
    \/ CreateLink(s)
    \/ WriteUpdatePhase(s) \/ WriteDeletePhase(s)
    \/ WriteCreateProduct(s) \/ WriteDeleteProduct(s)

Next ==
    \/ \E s \in Slots : BeginCall(s) \/ List(s) \/ Write(s) \/ Abort(s)
    \/ \E w \in Streams : CreateStream(w) \/ DeleteStream(w)

Spec == Init /\ [][Next]_vars

-----------------------------------------------------------------------------
(* What is promised of the order.                                          *)

\* s writes phases it was alone to work on.
Renumbers(s) ==
    /\ phases' # phases
    /\ calls[s] # Idle /\ calls[s].pc = "write" /\ ~calls[s].stale
    /\ calls'[s] = Idle \/ calls'[s].pc = "link"
    /\ calls[s].op = "updatePhase" => DOMAIN calls[s].listed # {}

\* The orders of the live phases are 1, 2, ... up to their number.
Numbered(rows) ==
    LET live == {p \in PhaseIds : rows[p].state = "live"}
    IN  {rows[p].order : p \in live} = 1..Cardinality(live)

\* Creating, moving or deleting a phase numbers all phases of the project from 1,
\* whatever orders the template or earlier races left, unless another call writes
\* phases between its listing and its commit.
AloneRenumbers == [][\A s \in Slots : Renumbers(s) => Numbered(phases')]_vars

\* It moves no other phase past another: only the phase the call is about changes
\* its place among the rest.
OthersKeepOrder ==
    [][\A s \in Slots : Renumbers(s) =>
         \A p, q \in Live \ {calls[s].phase} : Before(p, q) <=> Before(p, q)']_vars

\* Each call checks the limit of products on its own, so calls at once exceed it, but
\* never by more than the calls that were in flight together.
LimitOverrun ==
    [][\A p \in PhaseIds :
        Cardinality(ProductsOf(products', p)) > Cardinality(ProductsOf(products, p)) =>
            Cardinality(ProductsOf(products', p)) < MaxProductCount + Cardinality(Slots)]_vars

\* A phase leaves a terminal status only by a call that checked it before: an update
\* that does not move its phase, and no call has written phases since its check, takes
\* no phase back ("@throws {BadRequestException} When transitioning out of terminal
\* status.").
TerminalStays ==
    [][\A p \in Live :
        phases[p].status \in TerminalStatuses /\ phases'[p].status # phases[p].status =>
            \E s \in Slots :
                /\ At(s, "updatePhase", "write") /\ calls[s].phase = p
                /\ calls[s].stale \/ DOMAIN calls[s].listed # {}]_vars

=============================================================================
