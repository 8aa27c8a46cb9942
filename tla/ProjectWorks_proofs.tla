------------------------ MODULE ProjectWorks_proofs ------------------------
(***************************************************************************)
(* What holds of the phases, products and work streams of a project, for   *)
(* any number of them and of calls.                                        *)
(***************************************************************************)
EXTENDS ProjectWorks, FiniteSetTheorems, TLAPS

-----------------------------------------------------------------------------
(* The inductive invariant.                                                *)

Some(p) == phases[p].state # "none"

\* What a call has of its arguments, step by step.
Sane(s) ==
    LET k == calls[s]
    IN  /\ k.pc = "link" => k.stream \in Streams /\ k.phase \in PhaseIds
        /\ k.op = "createPhase" /\ k.pc = "list" =>
               k.order \in RequestedOrders \cup {Null} /\ k.status \in Statuses
        /\ k.op = "createPhase" /\ k.pc = "write" =>
               LET S == DOMAIN k.listed
               IN  /\ k.status \in Statuses
                   /\ k.listed \in [S -> 1..Cardinality(S)] /\ \A p \in S : Some(p)
                   /\ k.order \in 1..(Cardinality(S) + 1)
        /\ k.op = "updatePhase" => k.phase \in PhaseIds
        /\ k.op = "updatePhase" /\ k.pc = "list" => k.order \in RequestedOrders
        /\ k.op = "deletePhase" => k.phase \in PhaseIds
        /\ k.op = "createProduct" => k.phase \in PhaseIds /\ Some(k.phase)
        /\ k.op = "deleteProduct" => k.product \in ProductIds

\* What a call that no other has overtaken knows of the phases: where each is, or, without
\* a listing, that the status it writes is allowed.
Knows(s) ==
    LET k == calls[s]
    IN  k.pc = "write" /\ ~k.stale =>
            /\ k.op = "createPhase" =>
                   /\ k.listed = Positions(Live)
                   /\ k.order \in 1..(Cardinality(Live) + 1)
            /\ k.op = "updatePhase" =>
                   \/ DOMAIN k.listed = {} /\ Allowed(phases[k.phase].status, k.status)
                   \/ /\ k.phase \in Live
                      /\ \E i \in 1..Cardinality(Live) :
                             k.listed = InsertAt(Positions(Live \ {k.phase}), k.phase, i)
            /\ k.op = "deletePhase" => k.listed = Positions(Live \ {k.phase})

\* The calls that are about to add a product to p.
Adding(p) == {s \in Slots : At(s, "createProduct", "write") /\ calls[s].phase = p}

\* All of them can still add theirs.
Overrun(p) ==
    Adding(p) # {} =>
        Cardinality(ProductsOf(products, p)) + Cardinality(Adding(p)) < MaxProductCount + Cardinality(Slots)

WorksInv ==
    /\ TypeOK
    /\ \A x \in ProductIds : products[x].state = "live" => products[x].phase \in PhaseIds /\ Some(products[x].phase)
    /\ \A s \in Slots : calls[s] # Idle => Sane(s) /\ Knows(s)
    /\ \A p \in PhaseIds : Overrun(p)

-----------------------------------------------------------------------------
(* Positions.                                                              *)

LEMMA PhasesFinite ==
    ASSUME NEW S \in SUBSET PhaseIds
    PROVE  IsFiniteSet(S) /\ Cardinality(S) \in 0..MaxPhases
<1>1. IsFiniteSet(PhaseIds) /\ Cardinality(PhaseIds) = MaxPhases
  BY WorksBounds, FS_Interval DEF PhaseIds
<1>2. IsFiniteSet(S) /\ Cardinality(S) <= MaxPhases
  BY <1>1, FS_Subset
<1>3. QED BY <1>2, FS_CardinalityType, WorksBounds

\* Before is a strict order on the phases that leaves no two of them equal.
LEMMA BeforeOrders ==
    ASSUME TypeOK
    PROVE  /\ \A p \in PhaseIds : ~Before(p, p)
           /\ \A p, q \in PhaseIds : p # q => Before(p, q) \/ Before(q, p)
           /\ \A p, q, r \in PhaseIds : Before(p, q) /\ Before(q, r) => Before(p, r)
<1>1. \A p \in PhaseIds : p \in Int /\ (phases[p].order # Null => phases[p].order \in Int)
  <2>1. \A p \in PhaseIds : phases[p] \in Phase
    BY DEF TypeOK
  <2>2. \A i \in PhaseIds : i \in Int
    BY WorksBounds DEF PhaseIds
  <2>4. \A i \in Orders : i \in Int \cup {Null}
    <3>1. \A i \in TemplateOrders : i \in Int \cup {Null}
      BY WorksBounds
    <3>2. QED BY <2>2, <3>1 DEF Orders
  <2>3. QED BY <2>1, <2>2, <2>4 DEF Phase
<1>2. QED BY <1>1, WorksBounds DEF Before

\* The positions of the phases of S are 1, 2, ... in their order.
LEMMA PositionsNumber ==
    ASSUME TypeOK, NEW S \in SUBSET PhaseIds
    PROVE  /\ Positions(S) \in [S -> 1..Cardinality(S)]
           /\ \A p, q \in S : Before(p, q) <=> Positions(S)[p] < Positions(S)[q]
           /\ {Positions(S)[p] : p \in S} = 1..Cardinality(S)
<1> DEFINE below(p) == {q \in S : Before(q, p)}
           n == Cardinality(S)
<1>1. IsFiniteSet(S) /\ n \in Nat
  BY PhasesFinite
<1>2. ASSUME NEW p \in S
      PROVE  IsFiniteSet(below(p)) /\ Cardinality(below(p)) \in Nat /\ Cardinality(below(p)) < n
  <2>1. below(p) \in SUBSET S /\ below(p) # S
    BY BeforeOrders
  <2>2. IsFiniteSet(below(p)) /\ Cardinality(below(p)) <= n /\ Cardinality(below(p)) # n
    BY <1>1, <2>1, FS_Subset
  <2>3. QED BY <1>1, <2>2, FS_CardinalityType
<1>3. \A p \in S : Positions(S)[p] = Cardinality(below(p)) + 1
  BY DEF Positions
<1>4. ASSUME NEW p \in S, NEW q \in S, Before(p, q)
      PROVE  Cardinality(below(p)) < Cardinality(below(q))
  <2>1. below(p) \in SUBSET below(q)
    BY <1>4, BeforeOrders
  <2>2. p \in below(q) /\ p \notin below(p)
    BY <1>4, BeforeOrders
  <2> HIDE DEF below
  <2>3. QED BY <1>2, <2>1, <2>2, FS_Subset
<1> HIDE DEF below
<1>5. Positions(S) \in [S -> 1..n]
  <2>1. Positions(S) = [p \in S |-> Positions(S)[p]]
    BY DEF Positions
  <2>2. \A p \in S : Positions(S)[p] \in 1..n
    BY <1>1, <1>2, <1>3
  <2>3. QED BY <2>1, <2>2
<1>6. \A p, q \in S : Before(p, q) <=> Positions(S)[p] < Positions(S)[q]
  <2>1. ASSUME NEW p \in S, NEW q \in S, Before(p, q)
        PROVE  Positions(S)[p] < Positions(S)[q]
    BY <1>2, <1>3, <1>4, <2>1
  <2>2. ASSUME NEW p \in S, NEW q \in S, Positions(S)[p] < Positions(S)[q]
        PROVE  Before(p, q)
    <3>1. p # q /\ ~Before(q, p)
      BY <1>2, <1>3, <2>1, <2>2
    <3>2. QED BY <3>1, BeforeOrders
  <2>3. QED BY <2>1, <2>2
<1>7. Positions(S) \in Injection(S, 1..n)
  <2>1. ASSUME NEW p \in S, NEW q \in S, Positions(S)[p] = Positions(S)[q]
        PROVE  p = q
    <3>1. Positions(S)[p] \in Int
      BY <1>5, <1>1
    <3>2. ~Before(p, q) /\ ~Before(q, p)
      BY <1>6, <2>1, <3>1
    <3>3. QED BY <3>2, BeforeOrders
  <2>2. QED BY <1>5, <2>1 DEF Injection, IsInjective
<1>8. IsFiniteSet(1..n) /\ Cardinality(1..n) = n
  BY <1>1, FS_Interval
<1>9. Positions(S) \in Surjection(S, 1..n)
  BY <1>7, <1>8, FS_Injection
<1>10. {Positions(S)[p] : p \in S} = 1..n
  BY <1>9 DEF Surjection
<1>11. QED BY <1>5, <1>6, <1>10

\* InsertAt puts p where it is told, and moves those from there on up by one.
LEMMA InsertType ==
    ASSUME NEW S, NEW p, p \notin S, NEW n \in Nat, NEW k \in 1..(n + 1),
           NEW f \in [S -> 1..n]
    PROVE  InsertAt(f, p, k) \in [S \cup {p} -> 1..(n + 1)]
<1> DEFINE g == InsertAt(f, p, k)
           at(i) == IF i < k THEN i ELSE i + 1
<1>1. \A q \in S : f[q] \in 1..n
  OBVIOUS
<1>2. g = [q \in S \cup {p} |-> IF q = p THEN k ELSE at(f[q])]
  BY DEF InsertAt
<1>3. \A i \in 1..n : at(i) \in 1..(n + 1)
  OBVIOUS
<1> HIDE DEF at
<1>4. g \in [S \cup {p} -> 1..(n + 1)]
  BY <1>1, <1>2, <1>3
<1>5. QED BY <1>4

LEMMA Resolves ==
    ASSUME NEW requested \in Int \cup {Null}, NEW max \in Nat \ {0}, NEW fallback
    PROVE  ResolveRequestedOrder(requested, max, fallback) \in
               IF requested = Null THEN {fallback} ELSE 1..max
<1> QED BY WorksBounds DEF ResolveRequestedOrder

-----------------------------------------------------------------------------
(* Rows and calls.                                                         *)

LEMMA NothingListed ==
    /\ NewCall.listed = <<>> /\ DOMAIN NewCall.listed = {}
    /\ NewCall.listed \in UNION {[S -> PhaseIds] : S \in SUBSET PhaseIds}
<1>1. DOMAIN <<>> = {} /\ <<>> \in [{} -> PhaseIds]
  OBVIOUS
<1>2. QED BY <1>1 DEF NewCall

LEMMA NewCallType ==
    NewCall \in Call
<1> QED BY NothingListed DEF NewCall, Call, Ops

LEMMA CallType ==
    ASSUME TypeOK, NEW s \in Slots, calls[s] # Idle
    PROVE  calls[s] \in Call
<1> QED BY DEF TypeOK

\* The phases of a listing.
LEMMA ListedType ==
    ASSUME TypeOK, NEW s \in Slots, calls[s] # Idle
    PROVE  /\ DOMAIN calls[s].listed \in SUBSET PhaseIds
           /\ calls[s].listed \in [DOMAIN calls[s].listed -> PhaseIds]
<1>1. calls[s].listed \in UNION {[S -> PhaseIds] : S \in SUBSET PhaseIds}
  BY CallType DEF Call
<1>2. PICK S \in SUBSET PhaseIds : calls[s].listed \in [S -> PhaseIds]
  BY <1>1
<1>3. QED BY <1>2

LEMMA ReindexedRows ==
    ASSUME NEW rows, rows \in [PhaseIds -> Phase], NEW listed,
           DOMAIN listed \in SUBSET PhaseIds, listed \in [DOMAIN listed -> PhaseIds]
    PROVE  /\ Reindexed(rows, listed) \in [PhaseIds -> Phase]
           /\ \A p \in PhaseIds :
                /\ Reindexed(rows, listed)[p].state = rows[p].state
                /\ Reindexed(rows, listed)[p].status = rows[p].status
                /\ Reindexed(rows, listed)[p].order = IF p \in DOMAIN listed THEN listed[p] ELSE rows[p].order
<1> DEFINE new == Reindexed(rows, listed)
<1>1. /\ new = [p \in PhaseIds |-> new[p]]
      /\ \A p \in PhaseIds : new[p] = IF p \in DOMAIN listed THEN [rows[p] EXCEPT !.order = listed[p]] ELSE rows[p]
  BY DEF Reindexed
<1> HIDE DEF new
<1>2. ASSUME NEW p \in PhaseIds
      PROVE  /\ new[p] \in Phase
             /\ new[p].state = rows[p].state /\ new[p].status = rows[p].status
             /\ new[p].order = IF p \in DOMAIN listed THEN listed[p] ELSE rows[p].order
  <2>1. rows[p] \in Phase
    OBVIOUS
  <2>2. p \in DOMAIN listed => listed[p] \in Orders
    BY DEF Orders
  <2>3. QED BY <1>1, <2>1, <2>2 DEF Phase
<1>3. new \in [PhaseIds -> Phase]
  BY <1>1, <1>2
<1>4. QED BY <1>2, <1>3 DEF new

-----------------------------------------------------------------------------
(* What the writers of phases do to the rows.                              *)

\* The phases of listed have their places, the others keep theirs.
Placed(listed) ==
    \A q \in PhaseIds : phases'[q].order = IF q \in DOMAIN listed THEN listed[q] ELSE phases[q].order

LEMMA CreateWrites ==
    ASSUME WorksInv, NEW s \in Slots, NEW template \in BOOLEAN, WriteCreatePhase(s, template)
    PROVE  \E p \in FreshPhase :
             /\ p \notin DOMAIN calls[s].listed
             /\ phases' \in [PhaseIds -> Phase]
             /\ \A q \in PhaseIds :
                  phases'[q].state = IF q = p THEN "live" ELSE phases[q].state
             /\ \A q \in PhaseIds \ {p} : phases'[q].status = phases[q].status
             /\ Placed(InsertAt(calls[s].listed, p, calls[s].order))
             /\ \/ products' = products
                \/ \E x \in FreshProduct :
                     products' = [products EXCEPT ![x] = [state |-> "live", phase |-> p]]
             /\ GoOn(s, IF calls[s].stream = Null THEN Idle
                        ELSE [NewCall EXCEPT !.pc = "link", !.stream = calls[s].stream, !.phase = p])
<1> DEFINE k == calls[s]
           S == DOMAIN k.listed
<1>1. k # Idle /\ k.op = "createPhase" /\ k.pc = "write"
  BY DEF WriteCreatePhase, At
<1>2. PICK p \in FreshPhase :
        /\ phases' = Reindexed([phases EXCEPT ![p].state = "live", ![p].status = k.status],
                               InsertAt(k.listed, p, k.order))
        /\ IF template
           THEN \E x \in FreshProduct :
                  products' = [products EXCEPT ![x] = [state |-> "live", phase |-> p]]
           ELSE products' = products
        /\ GoOn(s, IF k.stream = Null THEN Idle
                   ELSE [NewCall EXCEPT !.pc = "link", !.stream = k.stream, !.phase = p])
  BY DEF WriteCreatePhase
<1> DEFINE at == InsertAt(k.listed, p, k.order)
           rows == [phases EXCEPT ![p].state = "live", ![p].status = k.status]
<1>3. TypeOK /\ Sane(s) /\ k \in Call
  BY <1>1, CallType DEF WorksInv
<1>4. /\ S \in SUBSET PhaseIds /\ k.listed \in [S -> 1..Cardinality(S)]
      /\ k.order \in 1..(Cardinality(S) + 1) /\ k.status \in Statuses
      /\ \A q \in S : Some(q)
  BY <1>1, <1>3, ListedType DEF Sane
<1>5. p \in PhaseIds /\ p \notin S
  BY <1>4 DEF FreshPhase, Some
<1>6. S \cup {p} \in SUBSET PhaseIds /\ Cardinality(S) + 1 \in 1..MaxPhases /\ Cardinality(S) \in Nat
  <2>1. IsFiniteSet(S) /\ Cardinality(S) \in Nat
    BY <1>4, PhasesFinite
  <2>2. Cardinality(S \cup {p}) = Cardinality(S) + 1
    BY <1>5, <2>1, FS_AddElement
  <2>3. QED BY <1>4, <1>5, <2>1, <2>2, PhasesFinite
<1>7. at \in [S \cup {p} -> 1..(Cardinality(S) + 1)]
  BY <1>4, <1>5, <1>6, InsertType
<1>8. at \in [S \cup {p} -> PhaseIds] /\ DOMAIN at = S \cup {p}
  <2>1. \A i \in 1..(Cardinality(S) + 1) : i \in PhaseIds
    BY <1>6, WorksBounds DEF PhaseIds
  <2> HIDE DEF at
  <2>2. QED BY <1>7, <2>1
<1>9. /\ rows \in [PhaseIds -> Phase]
      /\ \A q \in PhaseIds : rows[q].state = IF q = p THEN "live" ELSE phases[q].state
      /\ \A q \in PhaseIds : rows[q].order = phases[q].order
      /\ \A q \in PhaseIds \ {p} : rows[q].status = phases[q].status
  BY <1>3, <1>4, <1>5 DEF TypeOK, Phase, RowState
<1> HIDE DEF at, rows
<1>10. phases' = Reindexed(rows, at)
  BY <1>2 DEF rows, at
<1>11. /\ phases' \in [PhaseIds -> Phase]
       /\ \A q \in PhaseIds : /\ phases'[q].state = rows[q].state
                              /\ phases'[q].status = rows[q].status
                              /\ phases'[q].order = IF q \in DOMAIN at THEN at[q] ELSE rows[q].order
  BY <1>6, <1>8, <1>9, <1>10, ReindexedRows
<1>12. Placed(at)
  BY <1>8, <1>9, <1>11 DEF Placed
<1>13. QED BY <1>2, <1>5, <1>9, <1>11, <1>12 DEF at

LEMMA UpdateWrites ==
    ASSUME WorksInv, NEW s \in Slots, WriteUpdatePhase(s)
    PROVE  /\ phases' \in [PhaseIds -> Phase]
           /\ \A q \in PhaseIds :
                /\ phases'[q].state = phases[q].state
                /\ phases'[q].status = IF q = calls[s].phase /\ calls[s].status # Null
                                       THEN calls[s].status ELSE phases[q].status
           /\ Placed(calls[s].listed)
<1> DEFINE k == calls[s]
           rows == Reindexed(phases, k.listed)
<1>1. k # Idle /\ TypeOK /\ k \in Call /\ phases \in [PhaseIds -> Phase]
  BY CallType DEF WriteUpdatePhase, At, WorksInv, TypeOK
<1>2. phases' = [rows EXCEPT ![k.phase].status = IF k.status = Null THEN @ ELSE k.status]
  BY DEF WriteUpdatePhase
<1>3. /\ rows \in [PhaseIds -> Phase]
      /\ \A q \in PhaseIds : /\ rows[q].state = phases[q].state
                             /\ rows[q].status = phases[q].status
                             /\ rows[q].order = IF q \in DOMAIN k.listed THEN k.listed[q]
                                                                      ELSE phases[q].order
  BY <1>1, ListedType, ReindexedRows
<1>4. k.status \in Statuses \cup {Null}
  BY <1>1 DEF Call
<1> HIDE DEF rows, k
<1>5. \A q \in PhaseIds :
        /\ phases'[q] \in Phase
        /\ phases'[q].state = rows[q].state /\ phases'[q].order = rows[q].order
        /\ phases'[q].status = IF q = k.phase /\ k.status # Null THEN k.status ELSE rows[q].status
  BY <1>2, <1>3, <1>4 DEF Phase
<1>6. phases' \in [PhaseIds -> Phase]
  BY <1>2, <1>3, <1>5
<1>7. QED BY <1>3, <1>5, <1>6 DEF Placed, k

LEMMA DeleteWrites ==
    ASSUME WorksInv, NEW s \in Slots, WriteDeletePhase(s)
    PROVE  /\ phases' \in [PhaseIds -> Phase]
           /\ \A q \in PhaseIds :
                /\ phases'[q].state = IF q = calls[s].phase THEN "deleted" ELSE phases[q].state
                /\ phases'[q].status = phases[q].status
           /\ Placed(calls[s].listed)
<1> DEFINE k == calls[s]
           rows == [phases EXCEPT ![k.phase].state = "deleted"]
<1>1. k # Idle /\ TypeOK /\ k \in Call /\ phases \in [PhaseIds -> Phase]
  BY CallType DEF WriteDeletePhase, At, WorksInv, TypeOK
<1>2. /\ rows \in [PhaseIds -> Phase]
      /\ \A q \in PhaseIds : /\ rows[q].state = IF q = k.phase THEN "deleted" ELSE phases[q].state
                             /\ rows[q].status = phases[q].status
                             /\ rows[q].order = phases[q].order
  BY <1>1 DEF Phase, RowState
<1> HIDE DEF rows
<1>3. phases' = Reindexed(rows, k.listed)
  BY DEF WriteDeletePhase, rows
<1>4. QED BY <1>1, <1>2, <1>3, ListedType, ReindexedRows DEF Placed

-----------------------------------------------------------------------------
(* What a step leaves of the invariant.                                    *)

LEMMA PhasesKept ==
    ASSUME UNCHANGED phases
    PROVE  /\ Live' = Live
           /\ \A S : Positions(S)' = Positions(S)
           /\ \A p : Some(p)' = Some(p)
<1>1. Live' = Live
  BY DEF Live
<1>2. \A p, q : Before(p, q)' = Before(p, q)
  BY DEF Before
<1>3. \A S : Positions(S)' = Positions(S)
  BY <1>2 DEF Positions
<1>4. QED BY <1>1, <1>3 DEF Some

\* A call that is left as it is, by a step that writes no phases.
LEMMA CallKept ==
    ASSUME UNCHANGED phases, NEW t, calls'[t] = calls[t], Sane(t), Knows(t)
    PROVE  Sane(t)' /\ Knows(t)'
<1>1. Sane(t)'
  BY PhasesKept DEF Sane
<1>2. Knows(t)'
  BY PhasesKept DEF Knows
<1>3. QED BY <1>1, <1>2

\* The call of s goes on, or begins or ends, without writing phases.
LEMMA CallStep ==
    ASSUME WorksInv, NEW s \in Slots, UNCHANGED phases,
           \A t \in Slots \ {s} : calls'[t] = calls[t],
           calls'[s] # Idle => Sane(s)' /\ Knows(s)'
    PROVE  \A t \in Slots : calls'[t] # Idle => Sane(t)' /\ Knows(t)'
<1> SUFFICES ASSUME NEW t \in Slots \ {s}, calls'[t] # Idle
             PROVE  Sane(t)' /\ Knows(t)'
  OBVIOUS
<1>1. Sane(t) /\ Knows(t) /\ calls'[t] = calls[t]
  BY DEF WorksInv
<1>2. QED BY <1>1, CallKept

\* What GoOn does to the other calls.
LEMMA Overtaken ==
    ASSUME WorksInv, NEW s \in Slots, NEW t \in Slots \ {s},
           calls' = [u \in Slots |->
               IF u = s THEN calls'[s]
               ELSE IF \E op \in {"createPhase", "updatePhase", "deletePhase"} : At(u, op, "write")
               THEN [calls[u] EXCEPT !.stale = TRUE]
               ELSE calls[u]],
           \A p \in PhaseIds : Some(p) => Some(p)'
    PROVE  /\ calls'[t] \in Call \cup {Idle}
           /\ calls'[t] = Idle <=> calls[t] = Idle
           /\ calls[t] # Idle =>
                /\ Sane(t)' /\ Knows(t)'
                /\ calls'[t].op = calls[t].op /\ calls'[t].pc = calls[t].pc
                /\ calls'[t].phase = calls[t].phase
<1>1. CASE calls[t] = Idle
  BY <1>1 DEF At
<1>2. CASE calls[t] # Idle
  <2>1. calls[t] \in Call /\ Sane(t) /\ Knows(t)
    BY <1>2, CallType DEF WorksInv
  <2>2. /\ calls'[t] \in Call /\ calls'[t] # Idle
        /\ calls'[t].op = calls[t].op /\ calls'[t].pc = calls[t].pc
        /\ calls'[t].stream = calls[t].stream /\ calls'[t].phase = calls[t].phase
        /\ calls'[t].product = calls[t].product /\ calls'[t].order = calls[t].order
        /\ calls'[t].status = calls[t].status /\ calls'[t].listed = calls[t].listed
        /\ calls[t].pc = "write" /\ calls[t].op \in {"createPhase", "updatePhase", "deletePhase"} =>
               calls'[t].stale
    <3>1. calls'[t] = IF calls[t].pc = "write" /\ calls[t].op \in {"createPhase", "updatePhase", "deletePhase"}
                      THEN [calls[t] EXCEPT !.stale = TRUE] ELSE calls[t]
      BY <1>2 DEF At
    <3>2. \A k \in Call : k # Idle
      BY DEF Call, Idle, Ops
    <3>3. [calls[t] EXCEPT !.stale = TRUE] \in Call
      BY <2>1 DEF Call
    <3>4. CASE calls[t].pc = "write" /\ calls[t].op \in {"createPhase", "updatePhase", "deletePhase"}
      <4>1. calls'[t] = [calls[t] EXCEPT !.stale = TRUE]
        BY <3>1, <3>4
      <4>2. \A f \in {"op", "pc", "stream", "phase", "product", "order", "status", "listed"} :
              calls'[t][f] = calls[t][f]
        BY <2>1, <4>1 DEF Call
      <4>3. calls'[t].stale
        BY <2>1, <4>1 DEF Call
      <4>4. QED BY <3>2, <3>3, <4>1, <4>2, <4>3
    <3>5. CASE ~(calls[t].pc = "write" /\ calls[t].op \in {"createPhase", "updatePhase", "deletePhase"})
      BY <2>1, <3>1, <3>2, <3>5
    <3>6. QED BY <3>4, <3>5
  <2>3. Sane(t)'
    <3>1. \A p \in DOMAIN calls[t].listed : p \in PhaseIds
      BY <1>2, ListedType DEF WorksInv
    <3>2. QED BY <2>1, <2>2, <3>1 DEF Sane
  <2>4. Knows(t)'
    BY <2>2 DEF Knows
  <2>5. QED BY <1>2, <2>2, <2>3, <2>4
<1>3. QED BY <1>1, <1>2

LEMMA SlotsFinite ==
    ASSUME NEW S \in SUBSET Slots
    PROVE  /\ IsFiniteSet(S)
           /\ Cardinality(S) \in Nat /\ Cardinality(Slots) \in Nat
           /\ Cardinality(S) <= Cardinality(Slots)
<1> QED BY WorksBounds, FS_CardinalityType, FS_Subset

LEMMA ProductsFinite ==
    ASSUME NEW S \in SUBSET ProductIds
    PROVE  IsFiniteSet(S) /\ Cardinality(S) \in Nat
<1> QED BY WorksBounds, FS_CardinalityType, FS_Subset

\* A step after which no more calls are about to add a product than before, and that adds none
\* where some are.
LEMMA OverrunKept ==
    ASSUME \A p \in PhaseIds : Overrun(p),
           \A p \in PhaseIds : Adding(p)' \subseteq Adding(p),
           \A p \in PhaseIds : Adding(p)' # {} =>
               ProductsOf(products', p) \subseteq ProductsOf(products, p)
    PROVE  \A p \in PhaseIds : Overrun(p)'
<1> SUFFICES ASSUME NEW p \in PhaseIds, Adding(p)' # {}
             PROVE  Cardinality(ProductsOf(products', p)) + Cardinality(Adding(p)')
                        < MaxProductCount + Cardinality(Slots)
  BY DEF Overrun
<1>1. /\ Adding(p) \in SUBSET Slots /\ Adding(p)' \in SUBSET Adding(p) /\ Adding(p) # {}
      /\ ProductsOf(products, p) \in SUBSET ProductIds
      /\ ProductsOf(products', p) \in SUBSET ProductsOf(products, p)
  BY DEF Adding, ProductsOf
<1>2. Cardinality(Adding(p)') <= Cardinality(Adding(p))
  BY <1>1, SlotsFinite, FS_Subset
<1>3. Cardinality(ProductsOf(products', p)) <= Cardinality(ProductsOf(products, p))
  BY <1>1, ProductsFinite, FS_Subset
<1>4. /\ Cardinality(Adding(p)) \in Nat /\ Cardinality(Adding(p)') \in Nat
      /\ Cardinality(ProductsOf(products, p)) \in Nat /\ Cardinality(ProductsOf(products', p)) \in Nat
  BY <1>1, SlotsFinite, ProductsFinite
<1>5. QED BY <1>1, <1>2, <1>3, <1>4, SlotsFinite, WorksBounds DEF Overrun

\* Who is about to add a product, when only the call of s goes on.
LEMMA AddingKept ==
    ASSUME NEW s \in Slots,
           \A t \in Slots \ {s} : calls'[t] # Idle =>
               /\ calls[t] # Idle /\ calls'[t].op = calls[t].op /\ calls'[t].pc = calls[t].pc
               /\ calls'[t].phase = calls[t].phase,
           ~At(s, "createProduct", "write")'
    PROVE  \A p \in PhaseIds : Adding(p)' \subseteq Adding(p) \ {s}
<1> QED BY DEF Adding, At

-----------------------------------------------------------------------------
(* The steps that write neither phases nor products.                       *)

LEMMA CallsOnly ==
    ASSUME WorksInv, NEW s \in Slots, UNCHANGED <<phases, products, streams>>,
           links' \subseteq Streams \X PhaseIds,
           calls' = [calls EXCEPT ![s] = calls'[s]], calls'[s] \in Call \cup {Idle},
           calls'[s] # Idle => Sane(s)' /\ Knows(s)',
           ~At(s, "createProduct", "write")'
    PROVE  WorksInv'
<1>1. TypeOK'
  BY DEF WorksInv, TypeOK
<1>2. \A t \in Slots \ {s} : calls'[t] = calls[t]
  BY DEF WorksInv, TypeOK
<1>3. \A t \in Slots : calls'[t] # Idle => Sane(t)' /\ Knows(t)'
  BY <1>2, CallStep
<1>4. \A p \in PhaseIds : Overrun(p)'
  <2>1. \A p \in PhaseIds : Adding(p)' \subseteq Adding(p)
    BY <1>2, AddingKept
  <2>2. QED BY <2>1, OverrunKept DEF WorksInv
<1>5. QED BY <1>1, <1>3, <1>4, PhasesKept DEF WorksInv

LEMMA BeginCreatePhaseInv ==
    ASSUME WorksInv, NEW s \in Slots, NEW w \in Streams \cup {Null},
           NEW o \in RequestedOrders \cup {Null}, NEW st \in Statuses,
           BeginCreatePhase(s, w, o, st)
    PROVE  WorksInv'
<1> DEFINE k == [NewCall EXCEPT !.stream = w, !.order = o, !.status = st]
<1>1. k \in Call /\ k.op = "createPhase" /\ k.pc = "list" /\ k.order = o /\ k.status = st
  BY NewCallType DEF NewCall, Call
<1> HIDE DEF k
<1>2. calls' = [calls EXCEPT ![s] = k] /\ UNCHANGED <<phases, products, streams, links>>
  BY DEF BeginCreatePhase, Begin, k
<1>3. calls'[s] = k
  BY <1>2 DEF WorksInv, TypeOK
<1>4. Sane(s)' /\ Knows(s)' /\ ~At(s, "createProduct", "write")'
  BY <1>1, <1>3 DEF Sane, Knows, At
<1>5. QED BY <1>1, <1>2, <1>3, <1>4, CallsOnly DEF WorksInv, TypeOK

LEMMA BeginUpdatePhaseInv ==
    ASSUME WorksInv, NEW s \in Slots, NEW w \in Streams \cup {Null}, NEW p \in PhaseIds,
           NEW o \in RequestedOrders \cup {Null}, NEW st \in Statuses \cup {Null},
           BeginUpdatePhase(s, w, p, o, st)
    PROVE  WorksInv'
<1> DEFINE k == [NewCall EXCEPT !.op = "updatePhase", !.phase = p, !.status = st,
                                !.order = o, !.pc = IF o = Null THEN "write" ELSE "list"]
<1>1. /\ k \in Call /\ k.op = "updatePhase" /\ k.phase = p /\ k.order = o /\ k.status = st
      /\ k.pc = (IF o = Null THEN "write" ELSE "list") /\ k.listed = NewCall.listed
  BY NewCallType DEF NewCall, Call, Ops
<1> HIDE DEF k
<1>2. calls' = [calls EXCEPT ![s] = k] /\ UNCHANGED <<phases, products, streams, links>>
  BY DEF BeginUpdatePhase, Begin, k
<1>3. calls'[s] = k
  BY <1>2 DEF WorksInv, TypeOK
<1>4. Sane(s)' /\ ~At(s, "createProduct", "write")'
  BY <1>1, <1>3 DEF Sane, At
<1>5. Allowed(phases[p].status, st)
  BY DEF BeginUpdatePhase
<1>6. Knows(s)'
  <2>1. DOMAIN k.listed = {} /\ Allowed(phases'[k.phase].status, k.status)
    BY <1>1, <1>2, <1>5, NothingListed
  <2>2. QED BY <1>1, <1>3, <2>1 DEF Knows
<1>7. QED BY <1>1, <1>2, <1>3, <1>4, <1>6, CallsOnly DEF WorksInv, TypeOK

LEMMA BeginDeletePhaseInv ==
    ASSUME WorksInv, NEW s \in Slots, NEW w \in Streams \cup {Null}, NEW p \in PhaseIds,
           BeginDeletePhase(s, w, p)
    PROVE  WorksInv'
<1> DEFINE k == [NewCall EXCEPT !.op = "deletePhase", !.phase = p]
<1>1. k \in Call /\ k.op = "deletePhase" /\ k.phase = p /\ k.pc = "list"
  BY NewCallType DEF NewCall, Call, Ops
<1> HIDE DEF k
<1>2. calls' = [calls EXCEPT ![s] = k] /\ UNCHANGED <<phases, products, streams, links>>
  BY DEF BeginDeletePhase, Begin, k
<1>3. calls'[s] = k
  BY <1>2 DEF WorksInv, TypeOK
<1>4. Sane(s)' /\ Knows(s)' /\ ~At(s, "createProduct", "write")'
  BY <1>1, <1>3 DEF Sane, Knows, At
<1>5. QED BY <1>1, <1>2, <1>3, <1>4, CallsOnly DEF WorksInv, TypeOK

LEMMA BeginDeleteProductInv ==
    ASSUME WorksInv, NEW s \in Slots, NEW w \in Streams \cup {Null}, NEW p \in PhaseIds,
           NEW x \in ProductIds, BeginDeleteProduct(s, w, p, x)
    PROVE  WorksInv'
<1> DEFINE k == [NewCall EXCEPT !.op = "deleteProduct", !.pc = "write", !.product = x]
<1>1. k \in Call /\ k.op = "deleteProduct" /\ k.product = x /\ k.pc = "write"
  BY NewCallType DEF NewCall, Call, Ops
<1> HIDE DEF k
<1>2. calls' = [calls EXCEPT ![s] = k] /\ UNCHANGED <<phases, products, streams, links>>
  BY DEF BeginDeleteProduct, Begin, k
<1>3. calls'[s] = k
  BY <1>2 DEF WorksInv, TypeOK
<1>4. Sane(s)' /\ Knows(s)' /\ ~At(s, "createProduct", "write")'
  BY <1>1, <1>3 DEF Sane, Knows, At
<1>5. QED BY <1>1, <1>2, <1>3, <1>4, CallsOnly DEF WorksInv, TypeOK

LEMMA LiveFinite ==
    /\ Live \in SUBSET PhaseIds /\ IsFiniteSet(Live) /\ Cardinality(Live) \in Nat
    /\ FreshPhase # {} => Cardinality(Live) + 1 \in PhaseIds
<1>1. Live \in SUBSET PhaseIds
  BY DEF Live
<1>2. IsFiniteSet(Live) /\ Cardinality(Live) \in Nat
  BY <1>1, PhasesFinite
<1>3. ASSUME FreshPhase # {} PROVE Cardinality(Live) + 1 \in PhaseIds
  <2>1. PICK p \in PhaseIds : p \notin Live
    BY <1>3 DEF FreshPhase, Live
  <2>2. Cardinality(Live \cup {p}) = Cardinality(Live) + 1
    BY <1>2, <2>1, FS_AddElement
  <2>3. Live \cup {p} \in SUBSET PhaseIds
    BY <1>1
  <2>4. Cardinality(Live) + 1 \in 0..MaxPhases
    BY <2>2, <2>3, PhasesFinite
  <2>5. QED BY <1>2, <2>4, WorksBounds DEF PhaseIds
<1>4. QED BY <1>1, <1>2, <1>3

LEMMA ListForCreateInv ==
    ASSUME WorksInv, NEW s \in Slots, ListForCreate(s)
    PROVE  WorksInv'
<1> DEFINE k == calls[s]
           last == Cardinality(Live) + 1
           at == Positions(Live)
           order == ResolveRequestedOrder(k.order, last, last)
<1>1. k # Idle /\ k.op = "createPhase" /\ k.pc = "list" /\ last \in PhaseIds
  BY LiveFinite DEF ListForCreate, At
<1>2. /\ k \in Call /\ k.order \in RequestedOrders \cup {Null} /\ k.status \in Statuses
      /\ TypeOK
  BY <1>1, CallType DEF WorksInv, Sane
<1>3. order \in 1..last
  <2>1. k.order \in Int \cup {Null} /\ last \in Nat \ {0}
    <3>1. \A i \in RequestedOrders : i \in Int
      BY WorksBounds
    <3>2. QED BY <1>2, <3>1, LiveFinite
  <2> HIDE DEF last
  <2>2. order \in IF k.order = Null THEN {last} ELSE 1..last
    BY <2>1, Resolves
  <2>3. QED BY <2>1, <2>2
<1>4. /\ at \in [Live -> 1..Cardinality(Live)] /\ DOMAIN at = Live
      /\ \A i \in 1..last : i \in PhaseIds
  BY <1>1, <1>2, LiveFinite, PositionsNumber, WorksBounds DEF PhaseIds
<1>5. at \in UNION {[S -> PhaseIds] : S \in SUBSET PhaseIds}
  <2>1. at \in [Live -> PhaseIds]
    BY <1>4, LiveFinite
  <2>2. QED BY <2>1, LiveFinite
<1> HIDE DEF at, order, last
<1>6. /\ calls' = [calls EXCEPT ![s] = [k EXCEPT !.pc = "write", !.listed = at, !.order = order]]
      /\ UNCHANGED <<phases, products, streams, links>>
  BY <1>2 DEF ListForCreate, at, order, last, Call
<1>7. calls'[s] = [k EXCEPT !.pc = "write", !.listed = at, !.order = order]
  BY <1>6 DEF WorksInv, TypeOK
<1>8. /\ calls'[s] \in Call /\ calls'[s].op = "createPhase" /\ calls'[s].pc = "write"
      /\ calls'[s].listed = at /\ calls'[s].order = order /\ calls'[s].status = k.status
  <2>1. order \in RequestedOrders \cup PhaseIds \cup {Null}
    BY <1>3, <1>4
  <2>2. QED BY <1>1, <1>2, <1>5, <1>7, <2>1 DEF Call
<1>9. \A p \in Live : Some(p)'
  BY <1>6 DEF Live, Some
<1>10. Sane(s)' /\ ~At(s, "createProduct", "write")'
  BY <1>2, <1>3, <1>4, <1>8, <1>9 DEF Sane, At, last
<1>11. Knows(s)'
  BY <1>3, <1>6, <1>8, PhasesKept DEF Knows, at, last
<1>12. QED BY <1>6, <1>7, <1>8, <1>10, <1>11, CallsOnly DEF WorksInv, TypeOK

LEMMA ListForUpdateInv ==
    ASSUME WorksInv, NEW s \in Slots, ListForUpdate(s)
    PROVE  WorksInv'
<1> DEFINE k == calls[s]
           p == k.phase
           n == Cardinality(Live)
           i == ResolveRequestedOrder(k.order, n, Null)
           at == InsertAt(Positions(Live \ {p}), p, i)
<1>1. k # Idle /\ k.op = "updatePhase" /\ k.pc = "list" /\ p \in Live
  BY DEF ListForUpdate, At
<1>2. k \in Call /\ k.order \in RequestedOrders /\ TypeOK
  BY <1>1, CallType DEF WorksInv, Sane
<1>3. /\ Live \in SUBSET PhaseIds /\ IsFiniteSet(Live) /\ n \in 1..MaxPhases
      /\ Cardinality(Live \ {p}) = n - 1
  <2>1. Live \in SUBSET PhaseIds /\ IsFiniteSet(Live)
    BY LiveFinite
  <2>2. n \in 0..MaxPhases /\ n # 0
    BY <1>1, <2>1, PhasesFinite, FS_EmptySet
  <2>3. Cardinality(Live \ {p}) = n - 1
    BY <1>1, <2>1, FS_RemoveElement
  <2>4. QED BY <2>1, <2>2, <2>3, WorksBounds
<1>4. i \in 1..n
  <2>1. k.order \in Int /\ k.order # Null /\ n \in Nat \ {0}
    <3>1. \A o \in RequestedOrders : o \in Int /\ o # Null
      BY WorksBounds
    <3>2. QED BY <1>2, <1>3, <3>1
  <2> HIDE DEF n
  <2>2. i \in IF k.order = Null THEN {Null} ELSE 1..n
    BY <2>1, Resolves
  <2>3. QED BY <2>1, <2>2
<1>5. at \in [Live -> 1..n]
  <2>1. Positions(Live \ {p}) \in [Live \ {p} -> 1..(n - 1)]
    BY <1>2, <1>3, PositionsNumber
  <2>2. n - 1 \in Nat /\ i \in 1..((n - 1) + 1) /\ (n - 1) + 1 = n
    BY <1>3, <1>4
  <2>3. at \in [(Live \ {p}) \cup {p} -> 1..((n - 1) + 1)]
    BY <2>1, <2>2, InsertType
  <2>4. (Live \ {p}) \cup {p} = Live
    BY <1>1
  <2> HIDE DEF at
  <2>5. QED BY <2>2, <2>3, <2>4
<1>6. at \in UNION {[S -> PhaseIds] : S \in SUBSET PhaseIds}
  <2>1. \A j \in 1..n : j \in PhaseIds
    BY <1>3, WorksBounds DEF PhaseIds
  <2> HIDE DEF at
  <2>2. at \in [Live -> PhaseIds]
    BY <1>5, <2>1
  <2>3. QED BY <1>3, <2>2
<1>7. /\ calls' = [calls EXCEPT ![s] = [k EXCEPT !.pc = "write", !.listed = at, !.order = Null]]
      /\ UNCHANGED <<phases, products, streams, links>>
  BY <1>2 DEF ListForUpdate, Call
<1> HIDE DEF at, i
<1>8. calls'[s] = [k EXCEPT !.pc = "write", !.listed = at, !.order = Null]
  BY <1>7 DEF WorksInv, TypeOK
<1>9. /\ calls'[s] \in Call /\ calls'[s].op = "updatePhase" /\ calls'[s].pc = "write"
      /\ calls'[s].listed = at /\ calls'[s].phase = p
  BY <1>1, <1>2, <1>6, <1>8 DEF Call
<1>10. Sane(s)' /\ ~At(s, "createProduct", "write")'
  BY <1>1, <1>3, <1>9 DEF Sane, At
<1>11. Knows(s)'
  <2>1. calls'[s].phase \in Live'
    BY <1>1, <1>7, <1>9, PhasesKept
  <2>2. calls'[s].listed = InsertAt(Positions(Live' \ {p}), p, i) /\ i \in 1..Cardinality(Live')
    BY <1>4, <1>7, <1>9, PhasesKept DEF at
  <2>3. \A S : Positions(S)' = Positions(S)
    BY <1>7, PhasesKept
  <2>4. calls'[s].op = "updatePhase" /\ calls'[s].phase = p
    BY <1>9
  <2> HIDE DEF p, n
  <2>5. QED BY <2>1, <2>2, <2>3, <2>4 DEF Knows
<1>12. QED BY <1>7, <1>8, <1>9, <1>10, <1>11, CallsOnly DEF WorksInv, TypeOK

LEMMA ListForDeleteInv ==
    ASSUME WorksInv, NEW s \in Slots, ListForDelete(s)
    PROVE  WorksInv'
<1> DEFINE k == calls[s]
           at == Positions(Live \ {k.phase})
<1>1. k # Idle /\ k.op = "deletePhase" /\ k.pc = "list"
  BY DEF ListForDelete, At
<1>2. k \in Call /\ k.phase \in PhaseIds /\ TypeOK
  BY <1>1, CallType DEF WorksInv, Sane
<1>3. at \in UNION {[S -> PhaseIds] : S \in SUBSET PhaseIds}
  <2> DEFINE S == Live \ {k.phase}
  <2>1. S \in SUBSET PhaseIds /\ Cardinality(S) \in 0..MaxPhases
    BY LiveFinite, PhasesFinite
  <2>2. \A i \in 1..Cardinality(S) : i \in PhaseIds
    BY <2>1, WorksBounds DEF PhaseIds
  <2>3. at \in [S -> 1..Cardinality(S)]
    BY <1>2, <2>1, PositionsNumber
  <2> HIDE DEF S, at
  <2>4. at \in [S -> PhaseIds]
    BY <2>2, <2>3
  <2>5. QED BY <2>1, <2>4
<1>4. /\ calls' = [calls EXCEPT ![s] = [k EXCEPT !.pc = "write", !.listed = at]]
      /\ UNCHANGED <<phases, products, streams, links>>
  BY <1>2 DEF ListForDelete, Call
<1> HIDE DEF at
<1>5. calls'[s] = [k EXCEPT !.pc = "write", !.listed = at]
  BY <1>4 DEF WorksInv, TypeOK
<1>6. /\ calls'[s] \in Call /\ calls'[s].op = "deletePhase" /\ calls'[s].pc = "write"
      /\ calls'[s].listed = at /\ calls'[s].phase = k.phase
  BY <1>1, <1>2, <1>3, <1>5 DEF Call
<1>7. Sane(s)' /\ ~At(s, "createProduct", "write")'
  BY <1>1, <1>2, <1>6 DEF Sane, At
<1>8. Knows(s)'
  BY <1>4, <1>6, PhasesKept DEF Knows, at
<1>9. QED BY <1>4, <1>5, <1>6, <1>7, <1>8, CallsOnly DEF WorksInv, TypeOK

LEMMA CreateLinkInv ==
    ASSUME WorksInv, NEW s \in Slots, CreateLink(s)
    PROVE  WorksInv'
<1>1. calls[s].stream \in Streams /\ calls[s].phase \in PhaseIds
  BY DEF CreateLink, WorksInv, Sane
<1>2. calls'[s] = Idle
  BY DEF CreateLink, WorksInv, TypeOK
<1>3. links' \subseteq Streams \X PhaseIds
  BY <1>1 DEF CreateLink, WorksInv, TypeOK
<1>4. ~At(s, "createProduct", "write")'
  BY <1>2 DEF At
<1>5. QED BY <1>2, <1>3, <1>4, CallsOnly DEF CreateLink

LEMMA AbortInv ==
    ASSUME WorksInv, NEW s \in Slots, Abort(s)
    PROVE  WorksInv'
<1>1. calls'[s] = Idle
  BY DEF Abort, WorksInv, TypeOK
<1>2. ~At(s, "createProduct", "write")'
  BY <1>1 DEF At
<1>3. QED BY <1>1, <1>2, CallsOnly DEF Abort, WorksInv, TypeOK

LEMMA StreamsInv ==
    ASSUME WorksInv, UNCHANGED <<phases, products, links, calls>>, streams' \in [Streams -> RowState]
    PROVE  WorksInv'
<1>1. TypeOK'
  BY DEF WorksInv, TypeOK
<1>2. \A s \in Slots : calls'[s] # Idle => Sane(s)' /\ Knows(s)'
  BY CallKept DEF WorksInv
<1>3. \A p \in PhaseIds : Overrun(p)'
  BY DEF WorksInv, Overrun, Adding, At, ProductsOf
<1>4. QED BY <1>1, <1>2, <1>3, PhasesKept DEF WorksInv

LEMMA InitInv == Init => WorksInv
<1> SUFFICES ASSUME Init PROVE WorksInv
  OBVIOUS
<1>1. PICK order \in [1..TemplatePhases -> TemplateOrders] :
        phases = [p \in PhaseIds |->
                    IF p \in 1..TemplatePhases
                    THEN [state |-> "live", order |-> order[p], status |-> "draft"]
                    ELSE [state |-> "none", order |-> Null, status |-> Null]]
  BY DEF Init
<1>2. phases \in [PhaseIds -> Phase]
  BY <1>1, WorksBounds DEF Phase, RowState, Orders
<1>3. PICK owner \in [ProductIds -> 1..TemplatePhases \cup {Null}] :
        products = [x \in ProductIds |->
                      [state |-> IF owner[x] = Null THEN "none" ELSE "live", phase |-> owner[x]]]
  BY DEF Init
<1>4. \A p \in 1..TemplatePhases : p \in PhaseIds
  BY WorksBounds DEF PhaseIds
<1>5. products \in [ProductIds -> Product]
  BY <1>3, <1>4 DEF Product, RowState
<1>6. TypeOK
  BY <1>2, <1>5 DEF Init, TypeOK, RowState
<1>7. ASSUME NEW x \in ProductIds, products[x].state = "live"
      PROVE  products[x].phase \in PhaseIds /\ Some(products[x].phase)
  BY <1>1, <1>3, <1>4, <1>7 DEF Some
<1>8. \A p \in PhaseIds : Adding(p) = {}
  BY DEF Init, Adding, At
<1>9. QED BY <1>6, <1>7, <1>8 DEF Init, WorksInv, Overrun

-----------------------------------------------------------------------------
(* The steps that write phases or products.                                *)

LEMMA PhasesWritten ==
    ASSUME WorksInv, NEW s \in Slots, NEW STATE k, GoOn(s, k), k \in Call \cup {Idle},
           UNCHANGED <<streams, links>>,
           phases' \in [PhaseIds -> Phase], \A p \in PhaseIds : Some(p) => Some(p)',
           k # Idle => k.op = "createPhase" /\ k.pc = "link" /\ k.stream \in Streams /\ k.phase \in PhaseIds,
           products' \in [ProductIds -> Product],
           \A x \in ProductIds : products'[x].state = "live" =>
               products'[x].phase \in PhaseIds /\ phases'[products'[x].phase].state # "none",
           \A p \in PhaseIds : Adding(p) # {} =>
               ProductsOf(products', p) \subseteq ProductsOf(products, p)
    PROVE  WorksInv'
<1>1. calls'[s] = k
  BY DEF GoOn
<1>2. calls' = [u \in Slots |->
               IF u = s THEN calls'[s]
               ELSE IF \E op \in {"createPhase", "updatePhase", "deletePhase"} : At(u, op, "write")
               THEN [calls[u] EXCEPT !.stale = TRUE]
               ELSE calls[u]]
  BY <1>1 DEF GoOn
<1>3. ASSUME NEW t \in Slots \ {s}
      PROVE  /\ calls'[t] \in Call \cup {Idle}
             /\ calls'[t] = Idle <=> calls[t] = Idle
             /\ calls[t] # Idle =>
                  /\ Sane(t)' /\ Knows(t)'
                  /\ calls'[t].op = calls[t].op /\ calls'[t].pc = calls[t].pc
                  /\ calls'[t].phase = calls[t].phase
  BY <1>2, Overtaken
<1>4. calls' \in [Slots -> Call \cup {Idle}]
  <2>1. \A t \in Slots : calls'[t] \in Call \cup {Idle}
    BY <1>1, <1>3
  <2>2. QED BY <1>2, <2>1
<1>5. TypeOK'
  BY <1>4 DEF WorksInv, TypeOK
<1>6. calls'[s] # Idle => Sane(s)' /\ Knows(s)'
  BY <1>1 DEF Sane, Knows
<1>7. ~At(s, "createProduct", "write")'
  BY <1>1 DEF At
<1>8. \A p \in PhaseIds : Overrun(p)'
  <2>1. \A p \in PhaseIds : Adding(p)' \subseteq Adding(p) \ {s}
    BY <1>3, <1>7, AddingKept
  <2>2. \A p \in PhaseIds : Adding(p)' # {} => Adding(p) # {}
    BY <2>1
  <2>3. QED BY <2>1, <2>2, OverrunKept DEF WorksInv
<1>9. QED BY <1>1, <1>3, <1>5, <1>6, <1>8 DEF WorksInv, Some

LEMMA WriteCreatePhaseInv ==
    ASSUME WorksInv, NEW s \in Slots, NEW template \in BOOLEAN, WriteCreatePhase(s, template)
    PROVE  WorksInv'
<1> DEFINE next(p) == IF calls[s].stream = Null THEN Idle
                      ELSE [NewCall EXCEPT !.pc = "link", !.stream = calls[s].stream, !.phase = p]
<1>1. PICK p \in FreshPhase :
        /\ phases' \in [PhaseIds -> Phase]
        /\ \A q \in PhaseIds : phases'[q].state = IF q = p THEN "live" ELSE phases[q].state
        /\ \/ products' = products
           \/ \E x \in FreshProduct :
                products' = [products EXCEPT ![x] = [state |-> "live", phase |-> p]]
        /\ GoOn(s, next(p))
  BY CreateWrites
<1>2. p \in PhaseIds /\ ~Some(p)
  BY DEF FreshPhase, Some
<1>3. \A q \in PhaseIds : (Some(q) => Some(q)') /\ Some(p)'
  BY <1>1, <1>2 DEF Some
<1>4. calls[s] \in Call /\ calls[s].stream \in Streams \cup {Null}
  BY CallType DEF WorksInv, WriteCreatePhase, At, Call
<1>5. /\ next(p) \in Call \cup {Idle}
      /\ next(p) # Idle => /\ next(p).op = "createPhase" /\ next(p).pc = "link"
                           /\ next(p).stream \in Streams /\ next(p).phase = p
  <2>1. CASE calls[s].stream = Null
    BY <2>1
  <2>2. CASE calls[s].stream # Null
    <3>1. next(p) = [NewCall EXCEPT !.pc = "link", !.stream = calls[s].stream, !.phase = p]
      BY <2>2
    <3> HIDE DEF next
    <3>2. QED BY <1>2, <1>4, <2>2, <3>1, NewCallType DEF NewCall, Call
  <2>3. QED BY <2>1, <2>2
<1>6. Adding(p) = {}
  BY <1>2 DEF Adding, At, WorksInv, Sane
<1>7. /\ products' \in [ProductIds -> Product]
      /\ \A x \in ProductIds : products'[x].state = "live" =>
           products'[x].phase \in PhaseIds /\ phases'[products'[x].phase].state # "none"
      /\ \A q \in PhaseIds \ {p} : ProductsOf(products', q) \subseteq ProductsOf(products, q)
  <2>1. /\ products \in [ProductIds -> Product]
        /\ \A x \in ProductIds : products[x].state = "live" =>
             products[x].phase \in PhaseIds /\ Some(products[x].phase)
    BY DEF WorksInv, TypeOK
  <2>2. CASE products' = products
    BY <1>3, <2>1, <2>2 DEF ProductsOf, Some
  <2>3. ASSUME NEW x \in FreshProduct,
               products' = [products EXCEPT ![x] = [state |-> "live", phase |-> p]]
        PROVE  <1>7!1 /\ <1>7!2 /\ <1>7!3
    <3>1. [state |-> "live", phase |-> p] \in Product /\ x \in ProductIds
      BY <1>2 DEF Product, RowState, FreshProduct
    <3>2. /\ products' \in [ProductIds -> Product]
          /\ products'[x].state = "live" /\ products'[x].phase = p
          /\ \A y \in ProductIds \ {x} : products'[y] = products[y]
      BY <2>1, <2>3, <3>1
    <3>3. \A y \in ProductIds : products'[y].state = "live" =>
           products'[y].phase \in PhaseIds /\ phases'[products'[y].phase].state # "none"
      BY <1>2, <1>3, <2>1, <3>2 DEF Some
    <3>4. QED BY <3>2, <3>3 DEF ProductsOf
  <2>4. QED BY <1>1, <2>2, <2>3
<1>8. UNCHANGED <<streams, links>>
  BY DEF WriteCreatePhase
<1> HIDE DEF next
<1>9. QED BY <1>1, <1>2, <1>3, <1>5, <1>6, <1>7, <1>8, PhasesWritten

LEMMA WriteUpdatePhaseInv ==
    ASSUME WorksInv, NEW s \in Slots, WriteUpdatePhase(s)
    PROVE  WorksInv'
<1>1. GoOn(s, Idle) /\ UNCHANGED <<products, streams, links>>
  BY DEF WriteUpdatePhase
<1>2. phases' \in [PhaseIds -> Phase] /\ \A p \in PhaseIds : Some(p) => Some(p)'
  BY UpdateWrites DEF Some
<1>3. QED BY <1>1, <1>2, PhasesWritten DEF WorksInv, TypeOK, Some

LEMMA WriteDeletePhaseInv ==
    ASSUME WorksInv, NEW s \in Slots, WriteDeletePhase(s)
    PROVE  WorksInv'
<1>1. GoOn(s, Idle) /\ UNCHANGED <<products, streams, links>>
  BY DEF WriteDeletePhase
<1>2. phases' \in [PhaseIds -> Phase] /\ \A p \in PhaseIds : Some(p) => Some(p)'
  BY DeleteWrites DEF Some
<1>3. QED BY <1>1, <1>2, PhasesWritten DEF WorksInv, TypeOK, Some

LEMMA BeginCreateProductInv ==
    ASSUME WorksInv, NEW s \in Slots, NEW w \in Streams \cup {Null}, NEW p \in PhaseIds,
           BeginCreateProduct(s, w, p)
    PROVE  WorksInv'
<1> DEFINE k == [NewCall EXCEPT !.op = "createProduct", !.pc = "write", !.phase = p]
<1>1. k \in Call /\ k.op = "createProduct" /\ k.phase = p /\ k.pc = "write"
  BY NewCallType DEF NewCall, Call, Ops
<1> HIDE DEF k
<1>2. /\ calls' = [calls EXCEPT ![s] = k] /\ UNCHANGED <<phases, products, streams, links>>
      /\ phases[p].state = "live" /\ Cardinality(ProductsOf(products, p)) < MaxProductCount
  BY DEF BeginCreateProduct, Begin, k
<1>3. calls'[s] = k /\ \A t \in Slots \ {s} : calls'[t] = calls[t]
  BY <1>2 DEF WorksInv, TypeOK
<1>4. TypeOK'
  BY <1>1, <1>2 DEF WorksInv, TypeOK
<1>5. Sane(s)' /\ Knows(s)'
  BY <1>1, <1>2, <1>3 DEF Sane, Knows, Some
<1>6. \A t \in Slots : calls'[t] # Idle => Sane(t)' /\ Knows(t)'
  BY <1>2, <1>3, <1>5, CallStep
<1>7. ASSUME NEW q \in PhaseIds PROVE Overrun(q)'
  <2>1. CASE q = p
    <3>1. Adding(p)' \in SUBSET Slots
      BY DEF Adding
    <3>2. ProductsOf(products, p) \in SUBSET ProductIds /\ ProductsOf(products', p) = ProductsOf(products, p)
      BY <1>2 DEF ProductsOf
    <3>3. Cardinality(ProductsOf(products, p)) + Cardinality(Adding(p)') < MaxProductCount + Cardinality(Slots)
      BY <1>2, <3>1, <3>2, SlotsFinite, ProductsFinite, WorksBounds
    <3>4. QED BY <2>1, <3>2, <3>3 DEF Overrun
  <2>2. CASE q # p
    <3>1. Adding(q)' = Adding(q)
      BY <1>1, <1>3, <2>2 DEF Adding, At, BeginCreateProduct, Begin
    <3>2. QED BY <1>2, <3>1 DEF Overrun, WorksInv
  <2>3. QED BY <2>1, <2>2
<1>8. QED BY <1>2, <1>4, <1>6, <1>7, PhasesKept DEF WorksInv

LEMMA WriteCreateProductInv ==
    ASSUME WorksInv, NEW s \in Slots, WriteCreateProduct(s)
    PROVE  /\ WorksInv'
           /\ \A p \in PhaseIds : \/ ProductsOf(products', p) = ProductsOf(products, p)
                                  \/ Cardinality(ProductsOf(products', p)) < MaxProductCount + Cardinality(Slots)
<1>0. /\ At(s, "createProduct", "write") /\ TypeOK
      /\ calls[s].phase \in PhaseIds /\ Some(calls[s].phase)
  BY DEF WriteCreateProduct, At, WorksInv, Sane
<1> PICK p \in PhaseIds : p = calls[s].phase /\ Some(p)
  BY <1>0
<1>1. /\ At(s, "createProduct", "write") /\ UNCHANGED <<phases, streams, links>>
      /\ calls' = [calls EXCEPT ![s] = Idle]
  BY DEF WriteCreateProduct
<1>2. PICK x \in FreshProduct : products' = [products EXCEPT ![x] = [state |-> "live", phase |-> p]]
  BY DEF WriteCreateProduct
<1>3. TypeOK /\ p \in PhaseIds /\ Some(p)
  BY <1>0
<1>4. calls'[s] = Idle /\ \A t \in Slots \ {s} : calls'[t] = calls[t]
  BY <1>1, <1>3 DEF TypeOK
<1>5. [state |-> "live", phase |-> p] \in Product /\ x \in ProductIds /\ products[x].state = "none"
  BY <1>3 DEF Product, RowState, FreshProduct
<1>6. /\ products' \in [ProductIds -> Product]
      /\ products'[x].state = "live" /\ products'[x].phase = p
      /\ \A y \in ProductIds \ {x} : products'[y] = products[y]
  BY <1>2, <1>3, <1>5 DEF TypeOK
<1>7. /\ ProductsOf(products', p) = ProductsOf(products, p) \cup {x} /\ x \notin ProductsOf(products, p)
      /\ \A q \in PhaseIds \ {p} : ProductsOf(products', q) = ProductsOf(products, q)
  BY <1>5, <1>6 DEF ProductsOf
<1>8. /\ Adding(p)' = Adding(p) \ {s} /\ s \in Adding(p)
      /\ \A q \in PhaseIds \ {p} : Adding(q)' = Adding(q)
  BY <1>1, <1>4 DEF Adding, At
<1>9. Cardinality(Adding(p)') = Cardinality(Adding(p)) - 1 /\ Cardinality(Adding(p)) \in Nat /\ Cardinality(Adding(p)) # 0
  <2>1. Adding(p) \in SUBSET Slots
    BY DEF Adding
  <2>2. QED BY <1>8, <2>1, SlotsFinite, FS_RemoveElement, FS_EmptySet
<1>10. /\ Cardinality(ProductsOf(products', p)) = Cardinality(ProductsOf(products, p)) + 1
       /\ Cardinality(ProductsOf(products, p)) \in Nat
  <2>1. ProductsOf(products, p) \in SUBSET ProductIds
    BY DEF ProductsOf
  <2>2. QED BY <1>7, <2>1, ProductsFinite, FS_AddElement
<1>11. Cardinality(ProductsOf(products, p)) + Cardinality(Adding(p)) < MaxProductCount + Cardinality(Slots)
  BY <1>3, <1>8 DEF WorksInv, Overrun
<1>12. MaxProductCount \in Nat /\ Cardinality(Slots) \in Nat
  BY WorksBounds, FS_CardinalityType
<1>13. Cardinality(ProductsOf(products', p)) < MaxProductCount + Cardinality(Slots)
  BY <1>9, <1>10, <1>11, <1>12
<1>14. ASSUME NEW q \in PhaseIds PROVE Overrun(q)'
  <2>1. CASE q = p
    <3>1. Cardinality(ProductsOf(products', p)) + Cardinality(Adding(p)') < MaxProductCount + Cardinality(Slots)
      BY <1>9, <1>10, <1>11, <1>12
    <3>2. QED BY <2>1, <3>1 DEF Overrun
  <2>2. CASE q # p
    BY <1>7, <1>8, <2>2 DEF Overrun, WorksInv
  <2>3. QED BY <2>1, <2>2
<1>15. TypeOK'
  BY <1>1, <1>3, <1>6 DEF TypeOK
<1>16. \A t \in Slots : calls'[t] # Idle => Sane(t)' /\ Knows(t)'
  BY <1>1, <1>4, CallStep
<1>17. \A y \in ProductIds : products'[y].state = "live" =>
           products'[y].phase \in PhaseIds /\ phases'[products'[y].phase].state # "none"
  BY <1>1, <1>3, <1>6 DEF WorksInv, Some
<1>18. WorksInv'
  BY <1>14, <1>15, <1>16, <1>17 DEF WorksInv, Some
<1>19. QED BY <1>7, <1>13, <1>18

LEMMA WriteDeleteProductInv ==
    ASSUME WorksInv, NEW s \in Slots, WriteDeleteProduct(s)
    PROVE  /\ WorksInv'
           /\ \A p \in PhaseIds : ProductsOf(products', p) \subseteq ProductsOf(products, p)
<1> DEFINE x == calls[s].product
<1>1. /\ At(s, "deleteProduct", "write") /\ UNCHANGED <<phases, streams, links>>
      /\ calls' = [calls EXCEPT ![s] = Idle]
      /\ products' = [products EXCEPT ![x].state = "deleted"]
  BY DEF WriteDeleteProduct
<1>2. TypeOK
  BY DEF WorksInv
<1>3. calls'[s] = Idle /\ \A t \in Slots \ {s} : calls'[t] = calls[t]
  BY <1>1, <1>2 DEF TypeOK
<1> HIDE DEF x
<1>4. \A y \in ProductIds : /\ products'[y] \in Product
                            /\ products'[y].phase = products[y].phase
                            /\ products'[y].state = "live" => products[y].state = "live"
  BY <1>1, <1>2 DEF TypeOK, Product, RowState
<1>5. TypeOK'
  <2>1. products' \in [ProductIds -> Product]
    BY <1>1, <1>2, <1>4 DEF TypeOK
  <2>2. QED BY <1>1, <1>2, <2>1 DEF TypeOK
<1>6. \A p \in PhaseIds : ProductsOf(products', p) \subseteq ProductsOf(products, p)
  BY <1>4 DEF ProductsOf
<1>7. \A t \in Slots : calls'[t] # Idle => Sane(t)' /\ Knows(t)'
  BY <1>1, <1>3, CallStep
<1>8. \A p \in PhaseIds : Overrun(p)'
  <2>1. \A p \in PhaseIds : Adding(p)' \subseteq Adding(p)
    BY <1>3 DEF Adding, At
  <2>2. QED BY <1>6, <2>1, OverrunKept DEF WorksInv
<1>9. \A y \in ProductIds : products'[y].state = "live" =>
           products'[y].phase \in PhaseIds /\ phases'[products'[y].phase].state # "none"
  BY <1>1, <1>4 DEF WorksInv, Some
<1>10. QED BY <1>5, <1>6, <1>7, <1>8, <1>9 DEF WorksInv, Some

LEMMA NextInv ==
    ASSUME WorksInv, [Next]_vars
    PROVE  WorksInv'
<1>1. CASE UNCHANGED vars
  BY <1>1, StreamsInv DEF vars, WorksInv, TypeOK
<1>2. ASSUME NEW s \in Slots, BeginCall(s) PROVE WorksInv'
  BY <1>2, BeginCreatePhaseInv, BeginUpdatePhaseInv, BeginDeletePhaseInv, BeginCreateProductInv,
     BeginDeleteProductInv DEF BeginCall
<1>3. ASSUME NEW s \in Slots, List(s) PROVE WorksInv'
  BY <1>3, ListForCreateInv, ListForUpdateInv, ListForDeleteInv DEF List
<1>4. ASSUME NEW s \in Slots, Write(s) PROVE WorksInv'
  BY <1>4, WriteCreatePhaseInv, CreateLinkInv, WriteUpdatePhaseInv, WriteDeletePhaseInv,
     WriteCreateProductInv, WriteDeleteProductInv DEF Write
<1>5. ASSUME NEW w \in Streams, CreateStream(w) \/ DeleteStream(w) PROVE WorksInv'
  <2>1. UNCHANGED <<phases, products, links, calls>> /\ streams' \in [Streams -> RowState]
    BY <1>5 DEF CreateStream, DeleteStream, WorksInv, TypeOK, RowState
  <2>2. QED BY <2>1, StreamsInv
<1>6. QED BY <1>1, <1>2, <1>3, <1>4, <1>5, AbortInv DEF Next

\* The inductive invariant: what calls have read of the rows, and how many more products are coming.
THEOREM WorksInvCorrect == Spec => []WorksInv
<1> QED BY InitInv, NextInv, PTL DEF Spec

\* TypeOK: phases, products, streams, links and calls keep their types, every position that a
\* call has listed or writes included.
THEOREM WorksTypeCorrect == Spec => []TypeOK
<1>1. WorksInv => TypeOK
  BY DEF WorksInv
<1> QED BY <1>1, WorksInvCorrect, PTL

-----------------------------------------------------------------------------
(* Products.                                                               *)

LEMMA ProductWriters ==
    ASSUME Next, products' # products
    PROVE  \E s \in Slots : \/ \E template \in BOOLEAN : WriteCreatePhase(s, template)
                            \/ WriteCreateProduct(s) \/ WriteDeleteProduct(s)
<1>1. ASSUME NEW s \in Slots, BeginCall(s) PROVE FALSE
  BY <1>1 DEF BeginCall, BeginCreatePhase, BeginUpdatePhase, BeginDeletePhase, BeginCreateProduct,
     BeginDeleteProduct, Begin
<1>2. ASSUME NEW s \in Slots, List(s) PROVE FALSE
  BY <1>2 DEF List, ListForCreate, ListForUpdate, ListForDelete
<1>3. ASSUME NEW s \in Slots, CreateLink(s) \/ WriteUpdatePhase(s) \/ WriteDeletePhase(s) \/ Abort(s)
      PROVE  FALSE
  BY <1>3 DEF CreateLink, WriteUpdatePhase, WriteDeletePhase, Abort
<1>4. ASSUME NEW w \in Streams, CreateStream(w) \/ DeleteStream(w) PROVE FALSE
  BY <1>4 DEF CreateStream, DeleteStream
<1>5. QED BY <1>1, <1>2, <1>3, <1>4 DEF Next, Write

LEMMA OverrunStep ==
    ASSUME WorksInv, [Next]_vars, NEW p \in PhaseIds,
           Cardinality(ProductsOf(products', p)) > Cardinality(ProductsOf(products, p))
    PROVE  Cardinality(ProductsOf(products', p)) < MaxProductCount + Cardinality(Slots)
<1>1. ProductsOf(products, p) \in SUBSET ProductIds
  BY DEF ProductsOf
<1>2. ProductsOf(products', p) # ProductsOf(products, p)
  BY <1>1, ProductsFinite
<1>3. Next /\ products' # products
  BY <1>2 DEF vars
<1>4. PICK s \in Slots : \/ \E template \in BOOLEAN : WriteCreatePhase(s, template)
                         \/ WriteCreateProduct(s) \/ WriteDeleteProduct(s)
  BY <1>3, ProductWriters
<1>5. CASE WriteCreateProduct(s)
  BY <1>2, <1>5, WriteCreateProductInv
<1>6. CASE WriteDeleteProduct(s)
  <2>1. ProductsOf(products', p) \in SUBSET ProductsOf(products, p)
    BY <1>6, WriteDeleteProductInv
  <2>2. Cardinality(ProductsOf(products', p)) <= Cardinality(ProductsOf(products, p))
    BY <1>1, <2>1, ProductsFinite, FS_Subset
  <2>3. ProductsOf(products', p) \in SUBSET ProductIds
    BY <1>1, <2>1
  <2>4. QED BY <1>1, <2>2, <2>3, ProductsFinite
<1>7. ASSUME NEW template \in BOOLEAN, WriteCreatePhase(s, template)
      PROVE  Cardinality(ProductsOf(products', p)) < MaxProductCount + Cardinality(Slots)
  <2>1. PICK q \in FreshPhase, x \in FreshProduct :
          products' = [products EXCEPT ![x] = [state |-> "live", phase |-> q]]
    BY <1>3, <1>7, CreateWrites
  <2>2. q \in PhaseIds /\ ~Some(q) /\ x \in ProductIds
    BY DEF FreshPhase, FreshProduct, Some
  <2>3. /\ products'[x].phase = q
        /\ \A y \in ProductIds \ {x} : products'[y] = products[y]
    BY <2>1, <2>2 DEF WorksInv, TypeOK
  <2>4. ProductsOf(products, q) = {} /\ products[x].state = "none"
    BY <2>2 DEF WorksInv, ProductsOf, FreshProduct
  <2>5. q # p => ProductsOf(products', p) \subseteq ProductsOf(products, p)
    BY <2>3 DEF ProductsOf
  <2>6. q = p
    <3>1. ASSUME q # p PROVE FALSE
      <4>1. ProductsOf(products', p) \in SUBSET ProductsOf(products, p)
        BY <2>5, <3>1
      <4>2. Cardinality(ProductsOf(products', p)) <= Cardinality(ProductsOf(products, p))
        BY <1>1, <4>1, ProductsFinite, FS_Subset
      <4>3. ProductsOf(products', p) \in SUBSET ProductIds
        BY <1>1, <4>1
      <4>4. QED BY <1>1, <4>2, <4>3, ProductsFinite
    <3>2. QED BY <3>1
  <2>7. ProductsOf(products', p) \in SUBSET {x}
    BY <2>3, <2>4, <2>6 DEF ProductsOf
  <2>8. Cardinality(ProductsOf(products', p)) \in 0..1
    <3>1. IsFiniteSet({x}) /\ Cardinality({x}) = 1
      BY FS_Singleton
    <3>2. IsFiniteSet(ProductsOf(products', p)) /\ Cardinality(ProductsOf(products', p)) <= 1
      BY <2>7, <3>1, FS_Subset
    <3>3. QED BY <3>2, FS_CardinalityType
  <2>9. Cardinality(Slots) \in Nat \ {0}
    <3>1. IsFiniteSet(Slots) /\ Slots # {}
      BY WorksBounds
    <3>2. QED BY <3>1, FS_CardinalityType, FS_EmptySet
  <2>10. QED BY <2>8, <2>9, WorksBounds
<1>8. QED BY <1>4, <1>5, <1>6, <1>7

\* LimitOverrun: calls that each found room for one more product exceed the limit together, but
\* never by more than the calls in flight, however many slots and products there are.
THEOREM LimitOverrunCorrect == Spec => LimitOverrun
<1>1. WorksInv /\ [Next]_vars =>
        [\A p \in PhaseIds :
           Cardinality(ProductsOf(products', p)) > Cardinality(ProductsOf(products, p)) =>
               Cardinality(ProductsOf(products', p)) < MaxProductCount + Cardinality(Slots)]_vars
  BY OverrunStep
<1> QED BY <1>1, WorksInvCorrect, PTL DEF Spec, LimitOverrun

-----------------------------------------------------------------------------
(* Status.                                                                 *)

LEMMA PhaseWriters ==
    ASSUME Next, phases' # phases
    PROVE  \E s \in Slots : \/ \E template \in BOOLEAN : WriteCreatePhase(s, template)
                            \/ WriteUpdatePhase(s) \/ WriteDeletePhase(s)
<1>1. ASSUME NEW s \in Slots, BeginCall(s) PROVE FALSE
  BY <1>1 DEF BeginCall, BeginCreatePhase, BeginUpdatePhase, BeginDeletePhase, BeginCreateProduct,
     BeginDeleteProduct, Begin
<1>2. ASSUME NEW s \in Slots, List(s) PROVE FALSE
  BY <1>2 DEF List, ListForCreate, ListForUpdate, ListForDelete
<1>3. ASSUME NEW s \in Slots, CreateLink(s) \/ WriteCreateProduct(s) \/ WriteDeleteProduct(s) \/ Abort(s)
      PROVE  FALSE
  BY <1>3 DEF CreateLink, WriteCreateProduct, WriteDeleteProduct, Abort
<1>4. ASSUME NEW w \in Streams, CreateStream(w) \/ DeleteStream(w) PROVE FALSE
  BY <1>4 DEF CreateStream, DeleteStream
<1>5. QED BY <1>1, <1>2, <1>3, <1>4 DEF Next, Write

LEMMA TerminalStep ==
    ASSUME WorksInv, [Next]_vars, NEW p \in Live,
           phases[p].status \in TerminalStatuses, phases'[p].status # phases[p].status
    PROVE  \E s \in Slots :
             /\ At(s, "updatePhase", "write") /\ calls[s].phase = p
             /\ calls[s].stale \/ DOMAIN calls[s].listed # {}
<1>1. p \in PhaseIds /\ phases[p].state = "live"
  BY DEF Live
<1>2. Next /\ phases' # phases
  BY DEF vars
<1>3. PICK s \in Slots : \/ \E template \in BOOLEAN : WriteCreatePhase(s, template)
                         \/ WriteUpdatePhase(s) \/ WriteDeletePhase(s)
  BY <1>2, PhaseWriters
<1>4. CASE \E template \in BOOLEAN : WriteCreatePhase(s, template)
  <2>1. PICK q \in FreshPhase : \A r \in PhaseIds \ {q} : phases'[r].status = phases[r].status
    BY <1>4, CreateWrites
  <2>2. QED BY <1>1, <2>1 DEF FreshPhase
<1>5. CASE WriteDeletePhase(s)
  BY <1>1, <1>5, DeleteWrites
<1>6. CASE WriteUpdatePhase(s)
  <2>1. At(s, "updatePhase", "write") /\ Knows(s)
    BY <1>6 DEF WriteUpdatePhase, At, WorksInv
  <2>2. calls[s].phase = p /\ calls[s].status # Null /\ calls[s].status # phases[p].status
    BY <1>1, <1>6, UpdateWrites
  <2>3. ~Allowed(phases[p].status, calls[s].status)
    BY <2>2 DEF Allowed
  <2>4. calls[s].stale \/ DOMAIN calls[s].listed # {}
    <3> SUFFICES ASSUME ~calls[s].stale PROVE DOMAIN calls[s].listed # {}
      OBVIOUS
    <3>1. PICK i \in 1..Cardinality(Live) :
            calls[s].listed = InsertAt(Positions(Live \ {p}), p, i)
      BY <2>1, <2>2, <2>3 DEF Knows, At
    <3>2. p \in DOMAIN calls[s].listed
      BY <3>1 DEF InsertAt
    <3>3. QED BY <3>2
  <2>5. QED BY <2>1, <2>2, <2>4
<1>7. QED BY <1>3, <1>4, <1>5, <1>6

\* TerminalStays: no update that was alone takes a phase out of a terminal status, so a phase
\* leaves one only by a call whose check is old.
THEOREM TerminalStaysCorrect == Spec => TerminalStays
<1>1. WorksInv /\ [Next]_vars =>
        [\A p \in Live :
           phases[p].status \in TerminalStatuses /\ phases'[p].status # phases[p].status =>
               \E s \in Slots :
                   /\ At(s, "updatePhase", "write") /\ calls[s].phase = p
                   /\ calls[s].stale \/ DOMAIN calls[s].listed # {}]_vars
  BY TerminalStep
<1> QED BY <1>1, WorksInvCorrect, PTL DEF Spec, TerminalStays

-----------------------------------------------------------------------------
(* Order.                                                                  *)

\* A call that renumbers is the one that takes the step, and knows the phases.
LEMMA Renumberer ==
    ASSUME WorksInv, Next, NEW s \in Slots, Renumbers(s)
    PROVE  /\ Knows(s)
           /\ \/ \E template \in BOOLEAN : WriteCreatePhase(s, template)
              \/ WriteUpdatePhase(s) \/ WriteDeletePhase(s)
<1>1. PICK t \in Slots : \/ \E template \in BOOLEAN : WriteCreatePhase(t, template)
                         \/ WriteUpdatePhase(t) \/ WriteDeletePhase(t)
  BY PhaseWriters DEF Renumbers
<1>2. (\E k : GoOn(t, k)) /\ \A p \in PhaseIds : Some(p) => Some(p)'
  <2>1. CASE \E template \in BOOLEAN : WriteCreatePhase(t, template)
    BY <2>1, CreateWrites DEF Some
  <2>2. CASE WriteUpdatePhase(t)
    BY <2>2, UpdateWrites DEF Some, WriteUpdatePhase
  <2>3. CASE WriteDeletePhase(t)
    BY <2>3, DeleteWrites DEF Some, WriteDeletePhase
  <2>4. QED BY <1>1, <2>1, <2>2, <2>3
<1>3. ASSUME t # s PROVE FALSE
  <2>1. calls' = [u \in Slots |->
               IF u = t THEN calls'[t]
               ELSE IF \E op \in {"createPhase", "updatePhase", "deletePhase"} : At(u, op, "write")
               THEN [calls[u] EXCEPT !.stale = TRUE]
               ELSE calls[u]]
    BY <1>2 DEF GoOn
  <2>2. calls'[s] # Idle /\ calls'[s].pc = "write"
    BY <1>2, <1>3, <2>1, Overtaken DEF Renumbers
  <2>3. QED BY <2>2 DEF Renumbers
<1>4. QED BY <1>1, <1>3 DEF Renumbers, WorksInv

\* Places that agree with the order leave every two phases in order.
LEMMA OrderKept ==
    ASSUME TypeOK, NEW S \in SUBSET PhaseIds,
           \A q \in S : phases'[q].order \in PhaseIds,
           \A p, q \in S : Before(p, q) <=> phases'[p].order < phases'[q].order
    PROVE  \A p, q \in S : Before(p, q) <=> Before(p, q)'
<1> SUFFICES ASSUME NEW p \in S, NEW q \in S
             PROVE  Before(p, q) <=> Before(p, q)'
  OBVIOUS
<1>1. \A i \in PhaseIds : i \in Int /\ i # Null
  BY WorksBounds DEF PhaseIds
<1>2. /\ p \in Int /\ q \in Int
      /\ phases'[p].order \in Int /\ phases'[q].order \in Int
      /\ phases'[p].order # Null /\ phases'[q].order # Null
  BY <1>1
<1>3. phases'[p].order = phases'[q].order => p = q
  <2>1. phases'[p].order = phases'[q].order => ~Before(p, q) /\ ~Before(q, p)
    BY <1>2
  <2>2. QED BY <2>1, BeforeOrders
<1>4. Before(p, q)' <=> phases'[p].order < phases'[q].order
  BY <1>2, <1>3 DEF Before
<1>5. QED BY <1>4

\* The phases of S get the places they are in, p the k-th one.
LEMMA Inserted ==
    ASSUME TypeOK, NEW S \in SUBSET PhaseIds, NEW p \in PhaseIds \ S,
           NEW k \in 1..(Cardinality(S) + 1), S \cup {p} = Live', phases' \in [PhaseIds -> Phase],
           Placed(InsertAt(Positions(S), p, k))
    PROVE  Numbered(phases') /\ \A q, r \in S : Before(q, r) <=> Before(q, r)'
<1> DEFINE n == Cardinality(S)
           at == InsertAt(Positions(S), p, k)
<1>1. /\ Positions(S) \in [S -> 1..n] /\ {Positions(S)[q] : q \in S} = 1..n
      /\ \A q, r \in S : Before(q, r) <=> Positions(S)[q] < Positions(S)[r]
  BY PositionsNumber
<1>2. IsFiniteSet(S) /\ n \in Nat
  BY PhasesFinite
<1>3. Cardinality(S \cup {p}) = n + 1 /\ n + 1 \in 1..MaxPhases
  <2>1. Cardinality(S \cup {p}) = n + 1
    BY <1>2, FS_AddElement
  <2>2. Cardinality(S \cup {p}) \in 0..MaxPhases
    BY PhasesFinite
  <2>3. QED BY <1>2, <2>1, <2>2, WorksBounds
<1>4. /\ at \in [S \cup {p} -> 1..(n + 1)] /\ {at[q] : q \in S \cup {p}} = 1..(n + 1)
      /\ \A q, r \in S : Positions(S)[q] < Positions(S)[r] <=> at[q] < at[r]
  <2> DEFINE f == Positions(S)
  <2>1. k \in 1..(n + 1) /\ \A q \in S : f[q] \in 1..n
    BY <1>1
  <2>2. at[p] = k /\ \A q \in S : at[q] = IF f[q] < k THEN f[q] ELSE f[q] + 1
    BY <1>1 DEF InsertAt
  <2>3. \A i \in 1..n : \E q \in S : f[q] = i
    BY <1>1
  <2>4. at \in [S \cup {p} -> 1..(n + 1)]
    BY <1>1, <1>2, InsertType
  <2> HIDE DEF n, f, at
  <2>5. \A q, r \in S : f[q] < f[r] <=> at[q] < at[r]
    BY <1>2, <2>1, <2>2
  <2>6. ASSUME NEW i \in 1..(n + 1) PROVE \E q \in S \cup {p} : at[q] = i
    <3>1. CASE i = k
      BY <2>2, <3>1
    <3>2. CASE i < k
      <4>1. PICK q \in S : f[q] = i
        BY <1>2, <2>1, <2>3, <3>2
      <4>2. QED BY <2>2, <3>2, <4>1
    <3>3. CASE i > k
      <4>1. i - 1 \in 1..n
        BY <1>2, <2>1, <3>3
      <4>2. PICK q \in S : f[q] = i - 1
        BY <2>3, <4>1
      <4>3. QED BY <1>2, <2>1, <2>2, <3>3, <4>2
    <3>4. QED BY <1>2, <2>1, <3>1, <3>2, <3>3
  <2>7. {at[q] : q \in S \cup {p}} = 1..(n + 1)
    BY <2>4, <2>6
  <2>8. QED BY <2>4, <2>5, <2>7 DEF f
<1> HIDE DEF at
<1>5. \A q \in S \cup {p} : phases'[q].order = at[q]
  BY <1>4 DEF Placed, at
<1>6. {phases'[q].order : q \in Live'} = 1..(n + 1)
  <2>1. {phases'[q].order : q \in S \cup {p}} = {at[q] : q \in S \cup {p}}
    BY <1>5
  <2>2. QED BY <1>4, <2>1
<1>7. Numbered(phases')
  <2>1. Live' = {q \in PhaseIds : phases'[q].state = "live"}
    BY DEF Live
  <2>2. {phases'[q].order : q \in Live'} = 1..Cardinality(Live')
    BY <1>3, <1>6
  <2>3. QED BY <2>1, <2>2 DEF Numbered
<1>8. \A q, r \in S : Before(q, r) <=> Before(q, r)'
  <2>1. \A q \in S : phases'[q].order \in PhaseIds
    <3>1. \A i \in 1..(n + 1) : i \in PhaseIds
      BY <1>3, WorksBounds DEF PhaseIds
    <3>2. QED BY <1>4, <1>5, <3>1
  <2>2. \A q, r \in S : Before(q, r) <=> phases'[q].order < phases'[r].order
    BY <1>1, <1>4, <1>5
  <2>3. QED BY <2>1, <2>2, OrderKept
<1>9. QED BY <1>7, <1>8

LEMMA RenumberStep ==
    ASSUME WorksInv, [Next]_vars, NEW s \in Slots, Renumbers(s)
    PROVE  /\ Numbered(phases')
           /\ \A q, r \in Live \ {calls[s].phase} : Before(q, r) <=> Before(q, r)'
<1>1. Next /\ calls[s] # Idle /\ calls[s].pc = "write" /\ ~calls[s].stale
  BY DEF Renumbers, vars
<1>2. Knows(s) /\ TypeOK /\ Live \in SUBSET PhaseIds
  BY <1>1, Renumberer, LiveFinite DEF WorksInv
<1>3. ASSUME NEW template \in BOOLEAN, WriteCreatePhase(s, template)
      PROVE  Numbered(phases') /\ \A q, r \in Live : Before(q, r) <=> Before(q, r)'
  <2>1. calls[s].listed = Positions(Live) /\ calls[s].order \in 1..(Cardinality(Live) + 1)
    BY <1>1, <1>2, <1>3 DEF Knows, WriteCreatePhase, At
  <2>2. PICK p \in FreshPhase :
          /\ phases' \in [PhaseIds -> Phase]
          /\ \A q \in PhaseIds : phases'[q].state = IF q = p THEN "live" ELSE phases[q].state
          /\ Placed(InsertAt(calls[s].listed, p, calls[s].order))
    BY <1>3, CreateWrites
  <2>3. p \in PhaseIds \ Live
    BY DEF FreshPhase, Live
  <2>4. Live \cup {p} = Live'
    BY <2>2, <2>3 DEF Live
  <2>5. QED BY <1>2, <2>1, <2>2, <2>3, <2>4, Inserted
<1>4. CASE WriteUpdatePhase(s)
  <2> DEFINE p == calls[s].phase
  <2>1. DOMAIN calls[s].listed # {} /\ calls[s].op = "updatePhase"
    BY <1>4 DEF Renumbers, WriteUpdatePhase, At
  <2>2. PICK i \in 1..Cardinality(Live) : p \in Live /\ calls[s].listed = InsertAt(Positions(Live \ {p}), p, i)
    BY <1>1, <1>2, <2>1 DEF Knows
  <2>3. /\ phases' \in [PhaseIds -> Phase]
        /\ \A q \in PhaseIds : phases'[q].state = phases[q].state
        /\ Placed(calls[s].listed)
    BY <1>4, UpdateWrites
  <2>4. Live' = Live
    BY <2>3 DEF Live
  <2>5. i \in 1..(Cardinality(Live \ {p}) + 1)
    <3>1. Cardinality(Live \ {p}) = Cardinality(Live) - 1
      BY <2>2, LiveFinite, FS_RemoveElement
    <3>2. QED BY <2>2, <3>1, LiveFinite
  <2> HIDE DEF p
  <2>6. (Live \ {p}) \cup {p} = Live' /\ p \in PhaseIds \ (Live \ {p}) /\ Live \ {p} \in SUBSET PhaseIds
    BY <1>2, <2>2, <2>4
  <2>7. Numbered(phases') /\ \A q, r \in Live \ {p} : Before(q, r) <=> Before(q, r)'
    BY <1>2, <2>2, <2>3, <2>5, <2>6, Inserted
  <2>8. QED BY <2>7 DEF p
<1>5. CASE WriteDeletePhase(s)
  <2> DEFINE p == calls[s].phase
             S == Live \ {p}
             at == Positions(S)
  <2>1. calls[s].listed = at
    BY <1>1, <1>2, <1>5 DEF Knows, WriteDeletePhase, At
  <2>2. /\ phases' \in [PhaseIds -> Phase]
        /\ \A q \in PhaseIds : phases'[q].state = IF q = p THEN "deleted" ELSE phases[q].state
        /\ Placed(at)
    BY <1>5, <2>1, DeleteWrites
  <2>3. Live' = S /\ S \in SUBSET PhaseIds
    BY <1>2, <2>2 DEF Live
  <2> HIDE DEF S
  <2>4. /\ at \in [S -> 1..Cardinality(S)] /\ {at[q] : q \in S} = 1..Cardinality(S)
        /\ \A q, r \in S : Before(q, r) <=> at[q] < at[r]
    BY <1>2, <2>3, PositionsNumber
  <2> HIDE DEF at
  <2>5. \A q \in S : phases'[q].order = at[q]
    BY <2>2, <2>3, <2>4 DEF Placed
  <2>6. {phases'[q].order : q \in Live'} = 1..Cardinality(Live')
    <3>1. {phases'[q].order : q \in S} = {at[q] : q \in S}
      BY <2>5
    <3>2. QED BY <2>3, <2>4, <3>1
  <2>7. Numbered(phases')
    <3>1. Live' = {q \in PhaseIds : phases'[q].state = "live"}
      BY DEF Live
    <3>2. QED BY <2>6, <3>1 DEF Numbered
  <2>8. \A q \in S : phases'[q].order \in PhaseIds
    <3>1. Cardinality(S) \in 0..MaxPhases
      BY <2>3, PhasesFinite
    <3>2. \A i \in 1..Cardinality(S) : i \in PhaseIds
      BY <3>1, WorksBounds DEF PhaseIds
    <3>3. QED BY <2>4, <2>5, <3>2
  <2>9. \A q, r \in S : Before(q, r) <=> Before(q, r)'
    BY <1>2, <2>3, <2>4, <2>5, <2>8, OrderKept
  <2>10. QED BY <2>7, <2>9 DEF S
<1>6. QED BY <1>1, <1>3, <1>4, <1>5, Renumberer

\* AloneRenumbers: whatever orders the template gave or races left, a call that no other overtakes
\* leaves the live phases numbered 1, 2, ..., for any number of phases.
THEOREM AloneRenumbersCorrect == Spec => AloneRenumbers
<1>1. WorksInv /\ [Next]_vars => [\A s \in Slots : Renumbers(s) => Numbered(phases')]_vars
  BY RenumberStep
<1> QED BY <1>1, WorksInvCorrect, PTL DEF Spec, AloneRenumbers

\* OthersKeepOrder: and of two phases the call is not about, the earlier one stays the earlier.
THEOREM OthersKeepOrderCorrect == Spec => OthersKeepOrder
<1>1. WorksInv /\ [Next]_vars =>
        [\A s \in Slots : Renumbers(s) =>
           \A p, q \in Live \ {calls[s].phase} : Before(p, q) <=> Before(p, q)']_vars
  BY RenumberStep
<1> QED BY <1>1, WorksInvCorrect, PTL DEF Spec, OthersKeepOrder

=============================================================================
