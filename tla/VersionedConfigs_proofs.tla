----------------------- MODULE VersionedConfigs_proofs -----------------------
(* Versions and revisions are numbered without gaps, a created row is the  *)
(* latest one, and templates refer to versions that were created, for any  *)
(* number of calls, templates and rows.                                    *)
EXTENDS VersionedConfigs, TLAPS, WellFoundedInduction

-----------------------------------------------------------------------------
(* The latest of some numbers.                                             *)

LEMMA Least ==
    ASSUME NEW T, T \subseteq Nat, T # {}
    PROVE  \E x \in T : \A y \in T : x <= y
<1>1. IsWellFoundedOn(OpToRel(<, Nat), Nat)
  BY NatLessThanWellFounded
<1>2. PICK x \in T : \A y \in T : <<y, x>> \notin OpToRel(<, Nat)
  BY <1>1, WFMin
<1>3. ASSUME NEW y \in T PROVE x <= y
  <2>1. x \in Nat /\ y \in Nat
    OBVIOUS
  <2>2. ~(y < x)
    BY <1>2, <2>1 DEF OpToRel
  <2>3. QED BY <2>1, <2>2
<1>4. QED BY <1>2, <1>3

\* Of some bounded numbers the query finds one.
LEMMA LatestIsOne ==
    ASSUME NEW b \in Nat, NEW S, S \subseteq 1..b, S # {}
    PROVE  Latest(S) \in S
<1> DEFINE T == {b - x : x \in S}
<1>1. T \subseteq Nat /\ T # {}
  OBVIOUS
<1>2. PICK z \in T : \A y \in T : z <= y
  BY <1>1, Least
<1>3. PICK x \in S : z = b - x
  OBVIOUS
<1>4. \A y \in S : y <= x
  <2>1. ASSUME NEW y \in S PROVE y <= x
    <3>1. b - y \in T /\ x \in Nat /\ y \in Nat
      OBVIOUS
    <3>2. b - x <= b - y
      BY <1>2, <1>3, <3>1
    <3>3. QED BY <3>1, <3>2
  <2>2. QED BY <2>1
<1>5. \E w \in S : \A y \in S : y <= w
  BY <1>4
<1>6. QED BY <1>5 DEF Latest

-----------------------------------------------------------------------------
(* The invariant.                                                          *)

TemplateOps == {"createTemplate", "updateTemplate", "upgradeTemplate"}

\* With a number, all that come before it were given.
Closed ==
    \A table \in Tables : \A n \in stored[table] :
        /\ \A i \in 1..n[1] : <<i, 1>> \in stored[table]
        /\ \A j \in 1..n[2] : <<n[1], j>> \in stored[table]

\* The number a call is about to insert follows one among rows, whoever inserts before.
Follows(v, r, rows) ==
    /\ v > 1 => <<v - 1, 1>> \in rows
    /\ r > 1 => <<v, r - 1>> \in rows

\* What a call in flight knows of the tables, rows.
Knows(k, rows) ==
    /\ k.op \in TemplateOps => k.template \in Templates
    /\ k.pc = "validate" => k.op \in TemplateOps /\ k.todo # {}
    /\ k.pc = "latest" => k.op = "upgradeTemplate" /\ k.table \in Tables
    /\ k.pc = "write" /\ k.op \notin TemplateOps => k.table \in Tables
    /\ k.pc = "insert" => /\ k.table \in Tables
                          /\ k.version \in Versions(k.table)
                          /\ k.revision \in Revisions(k.table)
                          /\ Follows(k.version, k.revision, rows[k.table])
                          /\ k.op \in TemplateOps => k.op = "upgradeTemplate" /\ k.revision = 1
    /\ \A table \in Tables : k.refs[table] \notin {Null, Keep} => <<k.refs[table], 1>> \in rows[table]

ConfigInv ==
    /\ TypeOK
    /\ Closed
    /\ \A s \in Slots : calls[s] # Idle => Knows(calls[s], stored)
    /\ ReferencesCreated

LEMMA ReferenceIsOne ==
    ASSUME NEW table \in Tables, NEW x \in Reference(table) PROVE x \in AnyReference
<1>1. Reference(table) \in {Reference(t) : t \in Tables}
  OBVIOUS
<1>2. QED BY <1>1 DEF AnyReference

LEMMA ConfigInit == Init => ConfigInv
<1> SUFFICES ASSUME Init PROVE ConfigInv
  OBVIOUS
<1>1. [table \in Tables |-> Null] \in References({})
  <2>1. \A table \in Tables : Null \in Reference(table)
    BY DEF Reference
  <2>2. \A table \in Tables : Null \in AnyReference
    BY <2>1, ReferenceIsOne
  <2>3. QED BY <2>1, <2>2 DEF References
<1>2. templates \in [Templates -> Template]
  BY <1>1 DEF Init, Template
<1>3. TypeOK
  BY <1>2 DEF Init, TypeOK
<1>4. ReferencesCreated
  BY DEF Init, ReferencesCreated
<1>5. QED BY <1>3, <1>4 DEF Init, ConfigInv, Closed

\* Numbers stay given.
LEMMA KnowsOn ==
    ASSUME NEW k, NEW rows, NEW more, \A table \in Tables : rows[table] \subseteq more[table],
           Knows(k, rows)
    PROVE  Knows(k, more)
BY DEF Knows, Follows

LEMMA ReferencesUpdate ==
    ASSUME NEW r \in References({Keep}), NEW table \in Tables,
           NEW x \in Reference(table) \cup {Keep}
    PROVE  /\ [r EXCEPT ![table] = x] \in References({Keep})
           /\ \A t \in Tables : [r EXCEPT ![table] = x][t] = IF t = table THEN x ELSE r[t]
<1>1. x \in AnyReference \cup {Keep}
  BY ReferenceIsOne
<1>2. QED BY <1>1 DEF References

\* A step of a call that writes no row and no template.
LEMMA CallStep ==
    ASSUME ConfigInv, UNCHANGED <<stored, live, templates>>, NEW s \in Slots, NEW k,
           calls' = [calls EXCEPT ![s] = k],
           k = Idle \/ (k \in Call /\ Knows(k, stored))
    PROVE  ConfigInv'
<1>1. TypeOK'
  BY DEF ConfigInv, TypeOK
<1>2. Closed' /\ ReferencesCreated'
  BY DEF ConfigInv, Closed, ReferencesCreated
<1>3. \A c \in Slots : calls'[c] # Idle => Knows(calls'[c], stored)
  BY DEF ConfigInv, TypeOK
<1>4. \A c \in Slots : calls'[c] # Idle => Knows(calls'[c], stored')
  BY <1>3
<1>5. QED BY <1>1, <1>2, <1>4 DEF ConfigInv

-----------------------------------------------------------------------------
(* Calls on rows.                                                          *)

LEMMA LiveRows ==
    ASSUME ConfigInv, NEW table \in Tables, NEW v \in LiveVersions(table)
    PROVE  /\ v \in Versions(table)
           /\ \A i \in 1..v : <<i, 1>> \in stored[table]
<1>1. PICK n \in live[table] : v = n[1]
  BY DEF LiveVersions
<1>2. n \in stored[table] /\ n \in Versions(table) \X Revisions(table)
  BY <1>1 DEF ConfigInv, TypeOK
<1>3. QED BY <1>1, <1>2 DEF ConfigInv, Closed

LEMMA NextVersionFollows ==
    ASSUME ConfigInv, NEW table \in Tables
    PROVE  NextVersion(table) \in Nat /\ Follows(NextVersion(table), 1, stored[table])
<1> DEFINE S == LiveVersions(table)
<1>1. S \subseteq 1..MaxVersion[table] /\ MaxVersion[table] \in Nat
  BY LiveRows, ConfigBounds DEF Versions
<1>2. CASE S = {}
  BY <1>2 DEF NextVersion, Latest, Follows
<1>3. CASE S # {}
  <2>1. Latest(S) \in S
    BY <1>1, <1>3, LatestIsOne
  <2>2. Latest(S) \in 1..MaxVersion[table]
    BY <1>1, <2>1
  <2>3. <<Latest(S), 1>> \in stored[table]
    BY <2>1, <2>2, LiveRows
  <2>4. QED BY <2>2, <2>3 DEF NextVersion, Follows
<1>4. QED BY <1>2, <1>3

LEMMA NextRevisionFollows ==
    ASSUME ConfigInv, NEW table \in Tables, NEW v \in LiveVersions(table)
    PROVE  NextRevision(table, v) \in Nat /\ Follows(v, NextRevision(table, v), stored[table])
<1> DEFINE S == LiveRevisions(table, v)
<1>1. \A r \in S : <<v, r>> \in live[table] /\ r \in 1..MaxRevision[table]
  <2>1. ASSUME NEW r \in S PROVE <<v, r>> \in live[table] /\ r \in 1..MaxRevision[table]
    <3>1. PICK n \in live[table] : n[1] = v /\ r = n[2]
      BY <2>1 DEF LiveRevisions
    <3>2. n \in Versions(table) \X Revisions(table)
      BY <3>1 DEF ConfigInv, TypeOK
    <3>3. QED BY <3>1, <3>2 DEF Revisions
  <2>2. QED BY <2>1
<1>2. MaxRevision[table] \in Nat /\ v \in Nat \ {0}
  BY LiveRows, ConfigBounds DEF Versions
<1>3. v > 1 => <<v - 1, 1>> \in stored[table]
  BY <1>2, LiveRows
<1>4. CASE S = {}
  BY <1>3, <1>4 DEF NextRevision, Latest, Follows
<1>5. CASE S # {}
  <2>1. Latest(S) \in S
    BY <1>1, <1>2, <1>5, LatestIsOne
  <2>2. Latest(S) \in Nat /\ <<v, Latest(S)>> \in stored[table]
    BY <1>1, <2>1 DEF ConfigInv, TypeOK
  <2>3. QED BY <1>3, <2>2 DEF NextRevision, Follows
<1>6. QED BY <1>4, <1>5

LEMMA NewCallType ==
    /\ NewCall \in Call
    /\ \A table \in Tables : NewCall.refs[table] = Keep
<1>1. [table \in Tables |-> Keep] \in References({Keep})
  BY DEF References
<1>2. QED BY <1>1 DEF NewCall, Call, Ops

LEMMA BeginRows ==
    ASSUME ConfigInv, NEW s \in Slots, NEW table \in Tables,
           \/ BeginCreateVersion(s, table)
           \/ \E v \in Versions(table) :
                BeginCreateRevision(s, table, v) \/ BeginDeleteVersion(s, table, v)
           \/ \E n \in live[table] : BeginDeleteRevision(s, table, n)
    PROVE  ConfigInv'
<1>1. CASE BeginCreateVersion(s, table)
  <2> DEFINE k == [NewCall EXCEPT !.table = table, !.version = NextVersion(table), !.revision = 1]
  <2>1. /\ NextVersion(table) \in Versions(table)
        /\ NextVersion(table) \in Nat /\ Follows(NextVersion(table), 1, stored[table])
        /\ 1 \in Revisions(table)
    BY <1>1, NextVersionFollows, ConfigBounds DEF BeginCreateVersion, Revisions
  <2>2. k \in Call /\ Knows(k, stored)
    BY <2>1, NewCallType DEF NewCall, Call, Knows, TemplateOps
  <2>3. QED BY <1>1, <2>2, CallStep DEF BeginCreateVersion, Begin
<1>2. ASSUME NEW v \in Versions(table), BeginCreateRevision(s, table, v) PROVE ConfigInv'
  <2> DEFINE k == [NewCall EXCEPT !.table = table, !.version = v,
                                  !.revision = NextRevision(table, v)]
  <2>1. NextRevision(table, v) \in Revisions(table) /\ v \in LiveVersions(table)
    BY <1>2 DEF BeginCreateRevision
  <2>2. NextRevision(table, v) \in Nat /\ Follows(v, NextRevision(table, v), stored[table])
    BY <2>1, NextRevisionFollows
  <2>3. v \in Nat
    BY ConfigBounds DEF Versions
  <2>4. k \in Call /\ Knows(k, stored)
    BY <2>1, <2>2, <2>3, NewCallType DEF NewCall, Call, Knows, TemplateOps
  <2>5. QED BY <1>2, <2>4, CallStep DEF BeginCreateRevision, Begin
<1>3. ASSUME NEW v \in Versions(table), BeginDeleteVersion(s, table, v) PROVE ConfigInv'
  <2> DEFINE k == [NewCall EXCEPT !.op = "deleteVersion", !.pc = "write",
                                  !.table = table, !.version = v]
  <2>1. v \in Nat
    BY ConfigBounds DEF Versions
  <2>2. k \in Call /\ Knows(k, stored)
    BY <2>1, NewCallType DEF NewCall, Call, Ops, Knows, TemplateOps
  <2>3. QED BY <1>3, <2>2, CallStep DEF BeginDeleteVersion, Begin
<1>4. ASSUME NEW n \in live[table], BeginDeleteRevision(s, table, n) PROVE ConfigInv'
  <2> DEFINE k == [NewCall EXCEPT !.op = "deleteRevision", !.pc = "write",
                                  !.table = table, !.version = n[1], !.revision = n[2]]
  <2>1. n[1] \in Nat /\ n[2] \in Nat
    BY DEF ConfigInv, TypeOK
  <2>2. k \in Call /\ Knows(k, stored)
    BY <2>1, NewCallType DEF NewCall, Call, Ops, Knows, TemplateOps
  <2>3. QED BY <1>4, <2>2, CallStep DEF BeginDeleteRevision, Begin
<1>5. QED BY <1>1, <1>2, <1>3, <1>4

LEMMA DeleteRows ==
    ASSUME ConfigInv, NEW s \in Slots, WriteDeleteVersion(s) \/ WriteDeleteRevision(s)
    PROVE  ConfigInv'
<1>1. /\ UNCHANGED <<stored, templates>> /\ calls' = [calls EXCEPT ![s] = Idle]
      /\ \A table \in Tables : live'[table] \subseteq live[table]
      /\ live' \in [Tables -> SUBSET (Nat \X Nat)]
  BY DEF WriteDeleteVersion, WriteDeleteRevision, End, ConfigInv, TypeOK
<1>2. TypeOK'
  BY <1>1 DEF ConfigInv, TypeOK
<1>3. Closed' /\ ReferencesCreated'
  BY <1>1 DEF ConfigInv, Closed, ReferencesCreated
<1>4. \A c \in Slots : calls'[c] # Idle => Knows(calls'[c], stored)
  BY <1>1 DEF ConfigInv, TypeOK
<1>5. \A c \in Slots : calls'[c] # Idle => Knows(calls'[c], stored')
  BY <1>1, <1>4
<1>6. QED BY <1>2, <1>3, <1>5 DEF ConfigInv

\* Where Insert leaves the tables.
Inserts(table, n) ==
    /\ stored' = [stored EXCEPT ![table] = @ \cup {n}]
    /\ live' = [live EXCEPT ![table] = @ \cup {n}]

LEMMA InsertFacts ==
    ASSUME ConfigInv, NEW s \in Slots, Insert(s)
    PROVE  LET k == calls[s]
               n == <<k.version, k.revision>>
           IN  /\ k \in Call /\ k.table \in Tables /\ Knows(k, stored)
               /\ k.version \in Versions(k.table) /\ k.revision \in Revisions(k.table)
               /\ k.version \in Nat \ {0} /\ k.revision \in Nat \ {0}
               /\ Follows(k.version, k.revision, stored[k.table])
               /\ n \notin stored[k.table]
               /\ Inserts(k.table, n)
               /\ k.op \in TemplateOps => k.op = "upgradeTemplate" /\ k.revision = 1
<1>1. calls[s] \in Call /\ calls[s].pc = "insert" /\ Knows(calls[s], stored)
  BY DEF Insert, At, ConfigInv, TypeOK
<1>2. calls[s].table \in Tables
  BY <1>1 DEF Knows
<1> DEFINE k == calls[s]
<1>3. /\ k.version \in Versions(k.table) /\ k.revision \in Revisions(k.table)
      /\ Follows(k.version, k.revision, stored[k.table])
      /\ k.op \in TemplateOps => k.op = "upgradeTemplate" /\ k.revision = 1
  BY <1>1 DEF Knows
<1>4. k.version \in Nat \ {0} /\ k.revision \in Nat \ {0}
  <2>1. MaxVersion[k.table] \in Nat /\ MaxRevision[k.table] \in Nat
    BY <1>2, ConfigBounds
  <2>2. QED BY <1>3, <2>1 DEF Versions, Revisions
<1>5. <<k.version, k.revision>> \notin stored[k.table] /\ Inserts(k.table, <<k.version, k.revision>>)
  BY DEF Insert, Inserts, Taken
<1>6. QED BY <1>1, <1>2, <1>3, <1>4, <1>5

\* The number that follows closes the table again.
LEMMA InsertCloses ==
    ASSUME ConfigInv, NEW table \in Tables, NEW v \in Nat \ {0}, NEW r \in Nat \ {0},
           Follows(v, r, stored[table]), Inserts(table, <<v, r>>)
    PROVE  Closed'
<1>1. /\ stored'[table] = stored[table] \cup {<<v, r>>}
      /\ \A t \in Tables \ {table} : stored'[t] = stored[t]
  BY DEF Inserts, ConfigInv, TypeOK
<1>2. ASSUME NEW i \in 1..v PROVE <<i, 1>> \in stored'[table]
  <2>1. CASE r > 1
    <3>1. <<v, r - 1>> \in stored[table]
      BY <2>1 DEF Follows
    <3>2. <<i, 1>> \in stored[table]
      BY <3>1 DEF ConfigInv, Closed
    <3>3. QED BY <1>1, <3>2
  <2>2. CASE r = 1 /\ i = v
    BY <1>1, <2>2
  <2>3. CASE r = 1 /\ i < v
    <3>1. <<v - 1, 1>> \in stored[table] /\ i \in 1..(v - 1)
      BY <2>3 DEF Follows
    <3>2. <<i, 1>> \in stored[table]
      BY <3>1 DEF ConfigInv, Closed
    <3>3. QED BY <1>1, <3>2
  <2>4. QED BY <2>1, <2>2, <2>3
<1>3. ASSUME NEW j \in 1..r PROVE <<v, j>> \in stored'[table]
  <2>1. CASE j = r
    BY <1>1, <2>1
  <2>2. CASE j < r
    <3>1. <<v, r - 1>> \in stored[table] /\ j \in 1..(r - 1)
      BY <2>2 DEF Follows
    <3>2. <<v, j>> \in stored[table]
      BY <3>1 DEF ConfigInv, Closed
    <3>3. QED BY <1>1, <3>2
  <2>3. QED BY <2>1, <2>2
<1>4. ASSUME NEW t \in Tables, NEW n \in stored'[t]
      PROVE  /\ \A i \in 1..n[1] : <<i, 1>> \in stored'[t]
             /\ \A j \in 1..n[2] : <<n[1], j>> \in stored'[t]
  <2>1. CASE t = table /\ n = <<v, r>>
    BY <1>2, <1>3, <2>1
  <2>2. CASE n \in stored[t]
    BY <1>1, <2>2 DEF ConfigInv, Closed
  <2>3. QED BY <1>1, <2>1, <2>2
<1>5. QED BY <1>4 DEF Closed

LEMMA InsertStep ==
    ASSUME ConfigInv, NEW s \in Slots, Insert(s)
    PROVE  ConfigInv'
<1> DEFINE k == calls[s]
           n == <<k.version, k.revision>>
           next == IF k.op = "upgradeTemplate"
                   THEN [k EXCEPT !.pc = IF k.todo = {} THEN "write" ELSE "validate",
                                  !.refs = [@ EXCEPT ![k.table] = k.version],
                                  !.table = Null, !.version = 0, !.revision = 0]
                   ELSE Idle
<1>1. /\ k \in Call /\ k.table \in Tables /\ Knows(k, stored)
      /\ k.version \in Versions(k.table) /\ k.revision \in Revisions(k.table)
      /\ k.version \in Nat \ {0} /\ k.revision \in Nat \ {0}
      /\ Follows(k.version, k.revision, stored[k.table])
      /\ Inserts(k.table, n)
      /\ k.op = "upgradeTemplate" => k.revision = 1
  BY InsertFacts DEF TemplateOps
<1>2. UNCHANGED templates /\ calls' = [calls EXCEPT ![s] = next]
  <2>1. calls \in [Slots -> Call \cup {Idle}] /\ k \in Call
    BY <1>1 DEF ConfigInv, TypeOK
  <2>2. CASE k.op = "upgradeTemplate"
    <3>1. calls' = [calls EXCEPT ![s].pc = IF k.todo = {} THEN "write" ELSE "validate",
                                 ![s].refs[k.table] = k.version,
                                 ![s].table = Null, ![s].version = 0, ![s].revision = 0]
      BY <2>2 DEF Insert
    <3>2. QED BY <2>1, <2>2, <3>1 DEF Insert, Call
  <2>3. CASE k.op # "upgradeTemplate"
    BY <2>3 DEF Insert, End
  <2>4. QED BY <2>2, <2>3
<1>3. /\ \A t \in Tables : stored[t] \subseteq stored'[t]
      /\ n \in stored'[k.table]
  BY <1>1 DEF Inserts, ConfigInv, TypeOK
<1>4. Closed'
  BY <1>1, InsertCloses
<1>5. next = Idle \/ (next \in Call /\ Knows(next, stored'))
  <2>1. CASE k.op = "upgradeTemplate"
    <3> DEFINE refs == [k.refs EXCEPT ![k.table] = k.version]
    <3>1. k.refs \in References({Keep}) /\ k.version \in Reference(k.table) \cup {Keep}
      BY <1>1 DEF Call, Reference
    <3>2. /\ refs \in References({Keep})
          /\ \A t \in Tables : refs[t] = IF t = k.table THEN k.version ELSE k.refs[t]
      <4>1. k.table \in Tables
        BY <1>1
      <4>2. PICK r \in References({Keep}) : r = k.refs
        BY <3>1
      <4>3. PICK t \in Tables : t = k.table
        BY <4>1
      <4>4. PICK x \in Reference(t) \cup {Keep} : x = k.version
        BY <3>1, <4>3
      <4>5. /\ [r EXCEPT ![t] = x] \in References({Keep})
            /\ \A w \in Tables : [r EXCEPT ![t] = x][w] = IF w = t THEN x ELSE r[w]
        BY ReferencesUpdate
      <4>6. QED BY <4>2, <4>3, <4>4, <4>5
    <3>3. \A t \in Tables : refs[t] \notin {Null, Keep} => <<refs[t], 1>> \in stored'[t]
      <4>1. ASSUME NEW t \in Tables, refs[t] \notin {Null, Keep}
            PROVE  <<refs[t], 1>> \in stored'[t]
        <5>1. CASE t = k.table
          BY <1>1, <1>3, <2>1, <3>2, <5>1
        <5>2. CASE t # k.table
          BY <1>1, <1>3, <3>2, <4>1, <5>2 DEF Knows
        <5>3. QED BY <5>1, <5>2
      <4>2. QED BY <4>1
    <3>4. /\ next.refs = refs /\ next.op = k.op /\ next.todo = k.todo
          /\ next.template = k.template /\ next.table = Null
          /\ next.pc = IF k.todo = {} THEN "write" ELSE "validate"
      BY <1>1, <2>1 DEF Call
    <3>5. next \in Call
      <4>1. next = [k EXCEPT !.pc = IF k.todo = {} THEN "write" ELSE "validate",
                             !.refs = refs, !.table = Null, !.version = 0, !.revision = 0]
        BY <2>1
      <4> HIDE DEF refs, next
      <4>2. QED BY <1>1, <3>2, <4>1 DEF Call
    <3> HIDE DEF refs, next
    <3>6. Knows(next, stored')
      BY <1>1, <2>1, <3>3, <3>4 DEF Knows, TemplateOps
    <3>7. QED BY <3>5, <3>6
  <2>2. CASE k.op # "upgradeTemplate"
    BY <2>2
  <2>3. QED BY <2>1, <2>2
<1> HIDE DEF next
<1>6. TypeOK'
  <2>1. calls' \in [Slots -> Call \cup {Idle}]
    BY <1>2, <1>5 DEF ConfigInv, TypeOK
  <2>2. /\ \A t \in Tables : /\ live'[t] \subseteq stored'[t]
                             /\ stored'[t] \subseteq Versions(t) \X Revisions(t)
        /\ stored' \in [Tables -> SUBSET (Nat \X Nat)] /\ live' \in [Tables -> SUBSET (Nat \X Nat)]
    BY <1>1 DEF Inserts, ConfigInv, TypeOK
  <2>3. QED BY <1>2, <2>1, <2>2 DEF ConfigInv, TypeOK
<1>7. \A c \in Slots : calls'[c] # Idle => Knows(calls'[c], stored')
  <2>1. ASSUME NEW c \in Slots \ {s}, calls[c] # Idle PROVE Knows(calls[c], stored')
    BY <1>3, <2>1, KnowsOn DEF ConfigInv
  <2>2. QED BY <1>2, <1>5, <2>1 DEF ConfigInv, TypeOK
<1>8. ReferencesCreated'
  BY <1>2, <1>3 DEF ConfigInv, ReferencesCreated
<1>9. QED BY <1>4, <1>6, <1>7, <1>8 DEF ConfigInv

-----------------------------------------------------------------------------
(* Calls on templates.                                                     *)

LEMMA BeginTemplates ==
    ASSUME ConfigInv, NEW s \in Slots, NEW t \in Templates,
           BeginCreateTemplate(s, t) \/ BeginUpdateTemplate(s, t) \/ BeginUpgradeTemplate(s, t)
    PROVE  ConfigInv'
<1>1. ASSUME NEW op \in {"createTemplate", "updateTemplate"},
             Begin(s, [NewCall EXCEPT !.op = op, !.pc = "validate", !.template = t,
                                      !.todo = Tables])
      PROVE  ConfigInv'
  <2> DEFINE k == [NewCall EXCEPT !.op = op, !.pc = "validate", !.template = t, !.todo = Tables]
  <2>1. k \in Call /\ Knows(k, stored)
    BY NewCallType, ConfigBounds DEF NewCall, Call, Ops, Knows, TemplateOps
  <2>2. QED BY <1>1, <2>1, CallStep DEF Begin
<1>2. CASE BeginUpgradeTemplate(s, t)
  <2> DEFINE k == [NewCall EXCEPT !.op = "upgradeTemplate", !.pc = "validate", !.template = t,
                                  !.legacy = templates[t].legacy, !.todo = Tables,
                                  !.refs = templates[t].refs]
  <2>1. /\ templates[t].legacy \in SUBSET Legacy /\ templates[t].refs \in References({})
        /\ \A table \in Tables : templates[t].refs[table] # Null =>
             <<templates[t].refs[table], 1>> \in stored[table]
    BY DEF ConfigInv, TypeOK, Template, ReferencesCreated
  <2>2. templates[t].refs \in References({Keep})
    BY <2>1 DEF References
  <2>3. k \in Call /\ Knows(k, stored)
    BY <2>1, <2>2, NewCallType, ConfigBounds DEF NewCall, Call, Ops, Knows, TemplateOps
  <2>4. QED BY <1>2, <2>3, CallStep DEF BeginUpgradeTemplate, Begin
<1>3. QED BY <1>1, <1>2 DEF BeginCreateTemplate, BeginUpdateTemplate

LEMMA FirstIsOne ==
    ASSUME NEW todo \in SUBSET Tables, todo # {} PROVE First(todo) \in todo
<1>1. CASE "form" \in todo
  <2>1. \A t \in todo \ {"form"} : <<"form", t>> \in Precedes
    BY ConfigBounds DEF Precedes
  <2>2. QED BY <1>1, <2>1 DEF First
<1>2. CASE "form" \notin todo /\ "planConfig" \in todo
  <2>1. \A t \in todo \ {"planConfig"} : <<"planConfig", t>> \in Precedes
    BY <1>2, ConfigBounds DEF Precedes
  <2>2. QED BY <1>2, <2>1 DEF First
<1>3. CASE todo = {"priceConfig"}
  <2>1. \A t \in todo \ {"priceConfig"} : <<"priceConfig", t>> \in Precedes
    BY <1>3
  <2>2. QED BY <1>3, <2>1 DEF First
<1>4. QED BY <1>1, <1>2, <1>3, ConfigBounds

\* A reference is resolved to one that a template may have.
LEMMA ValidatedStep ==
    ASSUME ConfigInv, NEW s \in Slots, At(s, "validate"), NEW ref, Validated(s, ref),
           LET table == First(calls[s].todo)
           IN  /\ ref \in Reference(table) \cup {Keep}
               /\ ref \notin {Null, Keep} => <<ref, 1>> \in stored[table]
    PROVE  ConfigInv'
<1> DEFINE k == calls[s]
           table == First(k.todo)
           todo == k.todo \ {table}
           refs == [k.refs EXCEPT ![table] = ref]
           pc == IF todo = {} THEN "write" ELSE "validate"
           next == [k EXCEPT !.todo = todo, !.refs = refs, !.pc = pc]
<1>1. k \in Call /\ Knows(k, stored) /\ k.pc = "validate"
  BY DEF At, ConfigInv, TypeOK
<1>2. k.op \in TemplateOps /\ k.template \in Templates /\ k.todo \in SUBSET Tables
  BY <1>1 DEF Knows, Call
<1>3. table \in k.todo /\ table \in Tables
  BY <1>1, <1>2, FirstIsOne DEF Knows
<1>4. k.refs \in References({Keep})
  BY <1>1 DEF Call
<1>5. /\ refs \in References({Keep})
      /\ \A t \in Tables : refs[t] = IF t = table THEN ref ELSE k.refs[t]
  <2> HIDE DEF table
  <2>1. PICK r \in References({Keep}) : r = k.refs
    BY <1>4
  <2>2. /\ [r EXCEPT ![table] = ref] \in References({Keep})
        /\ \A w \in Tables : [r EXCEPT ![table] = ref][w] = IF w = table THEN ref ELSE r[w]
    BY <1>3, ReferencesUpdate DEF table
  <2>3. QED BY <2>1, <2>2
<1>6. \A t \in Tables : refs[t] \notin {Null, Keep} => <<refs[t], 1>> \in stored[t]
  <2> HIDE DEF table, refs
  <2>1. \A t \in Tables : k.refs[t] \notin {Null, Keep} => <<k.refs[t], 1>> \in stored[t]
    BY <1>1 DEF Knows
  <2>2. ref \notin {Null, Keep} => <<ref, 1>> \in stored[table]
    BY DEF table
  <2>3. QED BY <1>5, <2>1, <2>2
<1>7. UNCHANGED <<stored, live, templates>> /\ calls' = [calls EXCEPT ![s] = next]
  <2>1. calls \in [Slots -> Call \cup {Idle}]
    BY DEF ConfigInv, TypeOK
  <2>2. QED BY <1>1, <2>1 DEF Validated, Call
<1>8. next \in Call /\ next.refs = refs /\ next.todo = todo /\ next.pc = pc
      /\ next.op = k.op /\ next.template = k.template
  <2> HIDE DEF refs, table
  <2>1. QED BY <1>1, <1>5 DEF Call
<1> HIDE DEF next, refs
<1>9. Knows(next, stored)
  BY <1>2, <1>6, <1>8 DEF Knows
<1>10. QED BY <1>7, <1>8, <1>9, CallStep

LEMMA ValidateStep ==
    ASSUME ConfigInv, NEW s \in Slots,
           \/ \E requested \in UNION {Versions(table) : table \in Tables} \cup {0} :
                ValidateReference(s, requested)
           \/ \E given \in BOOLEAN : NoReference(s, given)
    PROVE  ConfigInv'
<1> DEFINE k == calls[s]
           table == First(k.todo)
<1>1. At(s, "validate")
  BY DEF ValidateReference, NoReference
<1>2. k \in Call /\ Knows(k, stored) /\ k.pc = "validate"
  BY <1>1 DEF At, ConfigInv, TypeOK
<1>3. table \in Tables
  BY <1>2, FirstIsOne DEF Knows, Call
<1>4. ASSUME NEW requested, ValidateReference(s, requested) PROVE ConfigInv'
  <2> DEFINE ref == Resolved(table, requested)
  <2>1. ref \in LiveVersions(table)
    <3>1. CASE requested = 0
      <4>1. LiveVersions(table) # {}
        BY <1>4, <3>1 DEF ValidateReference, Found
      <4>2. LiveVersions(table) \subseteq 1..MaxVersion[table] /\ MaxVersion[table] \in Nat
        BY <1>3, LiveRows, ConfigBounds DEF Versions
      <4>3. Latest(LiveVersions(table)) \in LiveVersions(table)
        BY <4>1, <4>2, LatestIsOne
      <4>4. QED BY <3>1, <4>3 DEF Resolved
    <3>2. CASE requested # 0
      BY <1>4, <3>2 DEF ValidateReference, Found, Resolved
    <3>3. QED BY <3>1, <3>2
  <2> HIDE DEF ref
  <2>2. ref \in Versions(table) /\ \A i \in 1..ref : <<i, 1>> \in stored[table]
    BY <1>3, <2>1, LiveRows
  <2>3. ref \in Nat \ {0}
    BY <1>3, <2>2, ConfigBounds DEF Versions
  <2>4. ref \in Reference(table) /\ <<ref, 1>> \in stored[table]
    BY <2>2, <2>3 DEF Reference
  <2>5. Validated(s, ref)
    BY <1>4 DEF ValidateReference, ref
  <2>6. QED BY <1>1, <2>4, <2>5, ValidatedStep
<1>5. ASSUME NEW given \in BOOLEAN, NoReference(s, given) PROVE ConfigInv'
  <2>1. /\ Null \in Reference(table)
        /\ k.refs[table] \in Reference(table) \cup {Keep}
        /\ k.refs[table] \notin {Null, Keep} => <<k.refs[table], 1>> \in stored[table]
    BY <1>2, <1>3 DEF Reference, References, Call, Knows
  <2>2. CASE Validated(s, Null)
    BY <1>1, <2>1, <2>2, ValidatedStep
  <2>3. CASE Validated(s, Keep)
    BY <1>1, <2>3, ValidatedStep
  <2>4. CASE Validated(s, k.refs[table])
    BY <1>1, <2>1, <2>4, ValidatedStep
  <2>5. QED BY <1>5, <2>2, <2>3, <2>4 DEF NoReference
<1>6. QED BY <1>4, <1>5

LEMMA UpgradeStep ==
    ASSUME ConfigInv, NEW s \in Slots, \E given \in BOOLEAN : UpgradeFromLegacy(s, given)
    PROVE  ConfigInv'
<1> DEFINE k == calls[s]
           table == First(k.todo)
           refs == [k.refs EXCEPT ![table] = Null]
           next == [k EXCEPT !.pc = "latest", !.table = table, !.todo = k.todo \ {table},
                             !.refs = refs]
<1>1. k \in Call /\ Knows(k, stored) /\ k.pc = "validate" /\ k.op = "upgradeTemplate"
  BY DEF UpgradeFromLegacy, At, ConfigInv, TypeOK
<1>2. k.template \in Templates /\ k.todo \in SUBSET Tables /\ k.refs \in References({Keep})
  BY <1>1 DEF Knows, Call, TemplateOps
<1>3. table \in Tables
  BY <1>1, <1>2, FirstIsOne DEF Knows
<1>4. Null \in Reference(table)
  BY DEF Reference
<1>5. /\ refs \in References({Keep})
      /\ \A t \in Tables : refs[t] = IF t = table THEN Null ELSE k.refs[t]
  <2> HIDE DEF table
  <2>1. PICK r \in References({Keep}) : r = k.refs
    BY <1>2
  <2>2. PICK x \in Reference(table) \cup {Keep} : x = Null
    BY <1>4
  <2>3. /\ [r EXCEPT ![table] = x] \in References({Keep})
        /\ \A w \in Tables : [r EXCEPT ![table] = x][w] = IF w = table THEN x ELSE r[w]
    BY <1>3, ReferencesUpdate DEF table
  <2>4. QED BY <2>1, <2>2, <2>3
<1>6. \A t \in Tables : refs[t] \notin {Null, Keep} => <<refs[t], 1>> \in stored[t]
  <2> HIDE DEF table, refs
  <2>1. QED BY <1>1, <1>5 DEF Knows
<1>7. UNCHANGED <<stored, live, templates>> /\ calls' = [calls EXCEPT ![s] = next]
  <2>1. calls \in [Slots -> Call \cup {Idle}]
    BY DEF ConfigInv, TypeOK
  <2>2. QED BY <1>1, <2>1 DEF UpgradeFromLegacy, Call
<1>8. next \in Call /\ next.refs = refs /\ next.table = table /\ next.pc = "latest"
      /\ next.op = k.op /\ next.template = k.template
  <2> HIDE DEF refs, table
  <2>1. QED BY <1>1, <1>3, <1>5 DEF Call
<1> HIDE DEF next, refs
<1>9. Knows(next, stored)
  BY <1>1, <1>2, <1>3, <1>6, <1>8 DEF Knows, TemplateOps
<1>10. QED BY <1>7, <1>8, <1>9, CallStep

LEMMA FindLatestStep ==
    ASSUME ConfigInv, NEW s \in Slots, FindLatest(s)
    PROVE  ConfigInv'
<1> DEFINE k == calls[s]
           next == [k EXCEPT !.pc = "insert", !.version = NextVersion(k.table), !.revision = 1]
<1>1. k \in Call /\ Knows(k, stored) /\ k.pc = "latest"
  BY DEF FindLatest, At, ConfigInv, TypeOK
<1>2. k.op = "upgradeTemplate" /\ k.table \in Tables
  BY <1>1 DEF Knows
<1>3. /\ NextVersion(k.table) \in Versions(k.table)
      /\ NextVersion(k.table) \in Nat /\ Follows(NextVersion(k.table), 1, stored[k.table])
      /\ 1 \in Revisions(k.table)
  BY <1>2, NextVersionFollows, ConfigBounds DEF FindLatest, Revisions
<1>4. UNCHANGED <<stored, live, templates>> /\ calls' = [calls EXCEPT ![s] = next]
  <2>1. calls \in [Slots -> Call \cup {Idle}]
    BY DEF ConfigInv, TypeOK
  <2>2. QED BY <1>1, <2>1 DEF FindLatest, Call
<1>5. next \in Call /\ next.refs = k.refs /\ next.table = k.table /\ next.pc = "insert"
      /\ next.op = k.op /\ next.template = k.template /\ next.version = NextVersion(k.table)
      /\ next.revision = 1
  BY <1>1, <1>3 DEF Call
<1> HIDE DEF next
<1>6. Knows(next, stored)
  BY <1>1, <1>2, <1>3, <1>5 DEF Knows, TemplateOps
<1>7. QED BY <1>4, <1>5, <1>6, CallStep

\* What a call writes into a template was found or created.
LEMMA WriteStep ==
    ASSUME ConfigInv, NEW s \in Slots, NEW legacy \in SUBSET Legacy,
           NEW clear \in SUBSET (Legacy \ legacy), WriteTemplate(s, legacy, clear)
    PROVE  ConfigInv'
<1> DEFINE k == calls[s]
           row == templates[k.template]
           refs == [table \in Tables |->
                       IF k.refs[table] = Keep THEN row.refs[table] ELSE k.refs[table]]
<1>1. k \in Call /\ Knows(k, stored) /\ k.op \in TemplateOps
  BY DEF WriteTemplate, At, ConfigInv, TypeOK, TemplateOps
<1>2. k.template \in Templates /\ k.refs \in References({Keep})
  BY <1>1 DEF Knows, Call
<1>3. row \in Template /\ row.refs \in References({})
  BY <1>2 DEF ConfigInv, TypeOK, Template
<1>4. \A table \in Tables :
        /\ refs[table] \in Reference(table)
        /\ refs[table] # Null => <<refs[table], 1>> \in stored[table]
  <2>1. \A table \in Tables :
          /\ row.refs[table] \in Reference(table)
          /\ row.refs[table] # Null => <<row.refs[table], 1>> \in stored[table]
    BY <1>2, <1>3 DEF References, ConfigInv, ReferencesCreated
  <2>2. \A table \in Tables :
          /\ k.refs[table] # Keep => k.refs[table] \in Reference(table)
          /\ k.refs[table] \notin {Null, Keep} => <<k.refs[table], 1>> \in stored[table]
    BY <1>1, <1>2 DEF References, Knows
  <2>3. QED BY <2>1, <2>2
<1>5. refs \in References({})
  <2>1. \A table \in Tables : refs[table] \in AnyReference
    BY <1>4, ReferenceIsOne
  <2>2. refs \in [Tables -> AnyReference]
    BY <2>1
  <2> HIDE DEF refs
  <2>3. QED BY <1>4, <2>2 DEF References
<1>6. PICK st \in {"none", "live", "deleted"}, written \in SUBSET Legacy :
        templates' = [templates EXCEPT ![k.template] =
                         [state |-> st, legacy |-> written, refs |-> refs]]
  <2>1. row.state \in {"none", "live", "deleted"} /\ row.legacy \in SUBSET Legacy
    BY <1>3 DEF Template
  <2>2. PICK st \in {"none", "live", "deleted"} :
          st = IF k.op = "createTemplate" THEN "live" ELSE row.state
    BY <2>1
  <2>3. PICK written : written = CASE k.op = "createTemplate" -> legacy
                                   [] k.op = "updateTemplate" -> (row.legacy \cup legacy) \ clear
                                   [] k.op = "upgradeTemplate" -> {}
    OBVIOUS
  <2>4. written \in SUBSET Legacy
    BY <1>1, <2>1, <2>3 DEF TemplateOps
  <2>5. templates' = [templates EXCEPT ![k.template] =
                         [state |-> st, legacy |-> written, refs |-> refs]]
    BY <2>2, <2>3 DEF WriteTemplate
  <2>6. QED BY <2>4, <2>5
<1>7. UNCHANGED <<stored, live>> /\ calls' = [calls EXCEPT ![s] = Idle]
  BY DEF WriteTemplate, End
<1> HIDE DEF refs
<1>8. [state |-> st, legacy |-> written, refs |-> refs] \in Template
  BY <1>5 DEF Template
<1>9. TypeOK'
  BY <1>6, <1>7, <1>8 DEF ConfigInv, TypeOK
<1>10. Closed'
  BY <1>7 DEF ConfigInv, Closed
<1>11. \A c \in Slots : calls'[c] # Idle => Knows(calls'[c], stored')
  <2>1. \A c \in Slots : calls'[c] # Idle => Knows(calls'[c], stored)
    BY <1>7 DEF ConfigInv, TypeOK
  <2>2. QED BY <1>7, <2>1
<1>12. ReferencesCreated'
  <2>1. \A t \in Templates : templates'[t].refs = IF t = k.template THEN refs ELSE templates[t].refs
    BY <1>6 DEF ConfigInv, TypeOK
  <2>2. QED BY <1>4, <1>7, <2>1 DEF ConfigInv, ReferencesCreated
<1>13. QED BY <1>9, <1>10, <1>11, <1>12 DEF ConfigInv

-----------------------------------------------------------------------------
(* Every step.                                                             *)

THEOREM ConfigNext == ConfigInv /\ [Next]_vars => ConfigInv'
<1> SUFFICES ASSUME ConfigInv, [Next]_vars PROVE ConfigInv'
  OBVIOUS
<1>1. CASE UNCHANGED vars
  BY <1>1 DEF vars, ConfigInv, TypeOK, Closed, ReferencesCreated
<1>2. ASSUME NEW s \in Slots, Abort(s) PROVE ConfigInv'
  BY <1>2, CallStep DEF Abort, End
<1>3. ASSUME NEW s \in Slots, ConfigCall(s) PROVE ConfigInv'
  BY <1>3, BeginRows, InsertStep, DeleteRows DEF ConfigCall
<1>4. ASSUME NEW s \in Slots, TemplateCall(s) PROVE ConfigInv'
  <2>1. CASE \E t \in Templates :
               BeginCreateTemplate(s, t) \/ BeginUpdateTemplate(s, t) \/ BeginUpgradeTemplate(s, t)
    BY <2>1, BeginTemplates
  <2>2. CASE \/ \E requested \in UNION {Versions(table) : table \in Tables} \cup {0} :
                  ValidateReference(s, requested)
             \/ \E given \in BOOLEAN : NoReference(s, given)
    BY <2>2, ValidateStep
  <2>3. CASE \E given \in BOOLEAN : UpgradeFromLegacy(s, given)
    BY <2>3, UpgradeStep
  <2>4. CASE FindLatest(s)
    BY <2>4, FindLatestStep
  <2>5. CASE \E legacy \in SUBSET Legacy : \E clear \in SUBSET (Legacy \ legacy) :
               WriteTemplate(s, legacy, clear)
    BY <2>5, WriteStep
  <2>6. QED BY <1>4, <2>1, <2>2, <2>3, <2>4, <2>5 DEF TemplateCall
<1>5. ASSUME NEW t \in Templates, DeleteTemplate(t) PROVE ConfigInv'
  <2>1. /\ templates' = [templates EXCEPT ![t].state = "deleted"]
        /\ UNCHANGED <<stored, live, calls>>
    BY <1>5 DEF DeleteTemplate
  <2>2. templates' \in [Templates -> Template]
        /\ \A u \in Templates : templates'[u].refs = templates[u].refs
    BY <2>1 DEF ConfigInv, TypeOK, Template
  <2>3. QED BY <2>1, <2>2 DEF ConfigInv, TypeOK, Closed, ReferencesCreated
<1>6. QED BY <1>1, <1>2, <1>3, <1>4, <1>5 DEF Next

\* Rows, templates and calls keep their types.
THEOREM TypeCorrect == Spec => []TypeOK
BY ConfigInit, ConfigNext, PTL DEF Spec, ConfigInv

\* The inductive invariant.
THEOREM InvCorrect == Spec => []ConfigInv
BY ConfigInit, ConfigNext, PTL DEF Spec

\* The numbers that were ever given are without gaps, whichever calls race and whatever
\* was deleted in between.
THEOREM GaplessCorrect == Spec => []Gapless
<1>1. ConfigInv => Gapless
  <2> SUFFICES ASSUME ConfigInv, NEW table \in Tables, NEW n \in stored[table]
               PROVE  /\ n[1] > 1 => <<n[1] - 1, 1>> \in stored[table]
                      /\ n[2] > 1 => <<n[1], n[2] - 1>> \in stored[table]
    BY DEF Gapless
  <2>1. n[1] \in Nat /\ n[2] \in Nat
    BY DEF ConfigInv, TypeOK
  <2>2. QED BY <2>1 DEF ConfigInv, Closed
<1>2. QED BY <1>1, InvCorrect, PTL

\* A template refers to versions that were created, deleted since or not.
THEOREM ReferencesCreatedCorrect == Spec => []ReferencesCreated
BY InvCorrect, PTL DEF ConfigInv

\* No step but an insert adds a live row.
LEMMA OnlyInsertAdds ==
    ASSUME ConfigInv, [Next]_vars, ~\E s \in Slots : Insert(s), NEW table \in Tables
    PROVE  live'[table] \subseteq live[table]
<1>1. CASE UNCHANGED live
  BY <1>1
<1>2. ASSUME NEW s \in Slots, ConfigCall(s) PROVE live'[table] \subseteq live[table]
  <2>1. CASE WriteDeleteVersion(s) \/ WriteDeleteRevision(s)
    BY <2>1 DEF WriteDeleteVersion, WriteDeleteRevision, ConfigInv, TypeOK
  <2>2. CASE ~(WriteDeleteVersion(s) \/ WriteDeleteRevision(s))
    BY <1>1, <1>2, <2>2 DEF ConfigCall, BeginCreateVersion, BeginCreateRevision,
                            BeginDeleteVersion, BeginDeleteRevision, Begin
  <2>3. QED BY <2>1, <2>2
<1>3. ASSUME NEW s \in Slots, TemplateCall(s) PROVE UNCHANGED live
  <2>1. CASE \E t \in Templates :
               BeginCreateTemplate(s, t) \/ BeginUpdateTemplate(s, t) \/ BeginUpgradeTemplate(s, t)
    BY <2>1 DEF BeginCreateTemplate, BeginUpdateTemplate, BeginUpgradeTemplate, Begin
  <2>2. \A requested, given, legacy, clear :
          \/ ValidateReference(s, requested) \/ NoReference(s, given)
          \/ UpgradeFromLegacy(s, given) \/ FindLatest(s) \/ WriteTemplate(s, legacy, clear)
          => UNCHANGED live
    BY DEF ValidateReference, NoReference, Validated, UpgradeFromLegacy, FindLatest, WriteTemplate
  <2>3. QED BY <1>3, <2>1, <2>2 DEF TemplateCall
<1>4. QED BY <1>1, <1>2, <1>3 DEF Next, Abort, DeleteTemplate, vars

\* A row that is created is the latest revision of its version, and a first revision the
\* latest version, whatever happened since its number was chosen.
THEOREM CreatedIsLatestCorrect == Spec => CreatedIsLatest
<1>1. ASSUME ConfigInv, [Next]_vars, NEW table \in Tables, NEW n \in live'[table] \ live[table]
      PROVE  /\ \A m \in live'[table] : m[1] = n[1] => m[2] <= n[2]
             /\ n[2] = 1 => \A m \in live'[table] : m[1] <= n[1]
  <2>1. CASE \E s \in Slots : Insert(s)
    <3>1. PICK s \in Slots : Insert(s)
      BY <2>1
    <3> DEFINE k == calls[s]
    <3>2. /\ k.table \in Tables /\ k.version \in Nat \ {0} /\ k.revision \in Nat \ {0}
          /\ <<k.version, k.revision>> \notin stored[k.table]
          /\ Inserts(k.table, <<k.version, k.revision>>)
      BY <1>1, <3>1, InsertFacts
    <3> HIDE DEF k
    <3>3. /\ table = k.table /\ n = <<k.version, k.revision>>
          /\ live'[table] = live[table] \cup {n}
      BY <1>1, <3>2 DEF Inserts, ConfigInv, TypeOK
    <3>4. ASSUME NEW m \in live[table]
          PROVE  /\ m[1] = n[1] => m[2] <= n[2]
                 /\ n[2] = 1 => m[1] <= n[1]
      <4>1. m \in stored[table] /\ m[1] \in Nat /\ m[2] \in Nat
        BY <1>1 DEF ConfigInv, TypeOK
      <4>2. /\ \A i \in 1..m[1] : <<i, 1>> \in stored[table]
            /\ \A j \in 1..m[2] : <<m[1], j>> \in stored[table]
        BY <1>1, <4>1 DEF ConfigInv, Closed
      <4>3. m[1] = n[1] => m[2] <= n[2]
        <5>1. SUFFICES ASSUME m[1] = n[1], m[2] > n[2] PROVE FALSE
          BY <3>2, <3>3, <4>1
        <5>2. n[2] \in 1..m[2]
          BY <3>2, <3>3, <4>1, <5>1
        <5>3. <<m[1], n[2]>> \in stored[table]
          BY <4>2, <5>2
        <5>4. QED BY <3>2, <3>3, <5>1, <5>3
      <4>4. n[2] = 1 => m[1] <= n[1]
        <5>1. SUFFICES ASSUME n[2] = 1, m[1] > n[1] PROVE FALSE
          BY <3>2, <3>3, <4>1
        <5>2. n[1] \in 1..m[1]
          BY <3>2, <3>3, <4>1, <5>1
        <5>3. <<n[1], 1>> \in stored[table]
          BY <4>2, <5>2
        <5>4. QED BY <3>2, <3>3, <5>1, <5>3
      <4>5. QED BY <4>3, <4>4
    <3>5. QED BY <3>2, <3>3, <3>4
  <2>2. CASE ~\E s \in Slots : Insert(s)
    <3>1. live'[table] \subseteq live[table]
      BY <1>1, <2>2, OnlyInsertAdds
    <3>2. QED BY <1>1, <3>1
  <2>3. QED BY <2>1, <2>2
<1>2. ConfigInv /\ [Next]_vars =>
        [\A table \in Tables : \A n \in live'[table] \ live[table] :
           /\ \A m \in live'[table] : m[1] = n[1] => m[2] <= n[2]
           /\ n[2] = 1 => \A m \in live'[table] : m[1] <= n[1]]_vars
  BY <1>1
<1>3. QED BY <1>2, InvCorrect, PTL DEF Spec, CreatedIsLatest

=============================================================================
