---------------------- MODULE AwardTransactions_proofs ----------------------
(* One winner for any number of concurrent calls, and the refinement of    *)
(* OpportunityAward: every commit is one whole award or cancellation.      *)
EXTENDS AwardTransactions, TLAPS

-----------------------------------------------------------------------------
(* Types.                                                                  *)

LEMMA NoneType == None \in Version /\ None.status = "none"
  BY DEF None, Version, Status

LEMMA PendingType == \A u \in Users : Pending(u) \in Version /\ Pending(u).status = "pending"
  BY DEF Pending, Version, Status

LEMMA JoinedType ==
    \A u \in Users \cup {Null}, role \in MemberRoles : Joined(u, role) \in Version
  BY DEF Joined, Version, Status

THEOREM TypeInit == Init => TypeOK
<1> SUFFICES ASSUME Init PROVE TypeOK
  OBVIOUS
<1>1. db \in [Rows -> Version]
  BY NoneType, PendingType, JoinedType, FirstRolesAssumption
  DEF Init, Rows, Row, None, Version, Status, MemberRoles
<1>2. writes \in [Calls -> [Rows -> Version \cup {Null}]]
  BY DEF Init, NoWrites
<1>3. call \in [Calls -> CallState]
  BY DEF Init, NoCall, CallState, Pc, Ended
<1>4. \A c \in Calls : call[c] = NoCall
  BY DEF Init
<1>5. QED BY <1>1, <1>2, <1>3, <1>4 DEF TypeOK, NoCall

\* What a statement finds is a version, and setting a status makes another one.
LEMMA VisibleType ==
    ASSUME TypeOK, NEW c \in Calls, NEW r \in Rows
    PROVE  /\ Visible(c, r) \in Version
           /\ \A s \in Status : [Visible(c, r) EXCEPT !.status = s] \in Version
           /\ \A role \in MemberRoles : [Visible(c, r) EXCEPT !.role = role] \in Version
<1>1. Visible(c, r) \in Version
  BY DEF TypeOK, Visible
<1>2. QED BY <1>1 DEF Version

LEMMA SetStatusType ==
    ASSUME TypeOK, NEW c \in Calls, NEW r \in Rows, NEW s \in Status, SetStatus(c, r, s)
    PROVE  writes' \in [Calls -> [Rows -> Version \cup {Null}]]
<1>1. [Visible(c, r) EXCEPT !.status = s] \in Version
  BY VisibleType
<1>2. QED BY <1>1 DEF SetStatus, TypeOK

\* The type of the calls after a step that moves one of them.
CallsOK ==
    /\ call \in [Calls -> CallState]
    /\ \A c \in Calls : /\ call[c].op = "assign" <=> call[c].application # Null
                        /\ call[c].pc = "updateMember" => call[c].member # Null

LEMMA GoToType ==
    ASSUME TypeOK, NEW c \in Calls, NEW pc \in Pc \ {"updateMember"}, GoTo(c, pc)
    PROVE  CallsOK'
  BY DEF GoTo, TypeOK, CallState, CallsOK

LEMMA BeginType ==
    ASSUME TypeOK, NEW c \in Calls, NEW new \in CallState, call' = [call EXCEPT ![c] = new],
           new.op = "assign" <=> new.application # Null, new.pc # "updateMember"
    PROVE  CallsOK'
  BY DEF TypeOK, CallsOK

THEOREM TypeNext == TypeOK /\ [Next]_vars => TypeOK'
<1> SUFFICES ASSUME TypeOK, [Next]_vars PROVE TypeOK'
  OBVIOUS
<1> USE DEF Rows
<1>1. ASSUME NEW c \in Calls, Begin(c) PROVE TypeOK'
  <2>1. UNCHANGED <<db, writes>>
    BY <1>1 DEF Begin, BeginApply, BeginAssign, BeginCancel
  <2>2. ASSUME NEW u \in Users, BeginApply(c, u) PROVE CallsOK'
    <3> DEFINE new == [NoCall EXCEPT !.op = "apply", !.user = u, !.pc = "findExisting"]
    <3>1. /\ new \in CallState /\ new.op = "apply" /\ new.application = Null
          /\ new.pc = "findExisting"
      BY DEF NoCall, CallState, Pc
    <3>2. call' = [call EXCEPT ![c] = new]
      BY <2>2 DEF BeginApply
    <3> HIDE DEF new
    <3>3. QED BY <3>1, <3>2, BeginType
  <2>3. ASSUME NEW a \in Applications, BeginAssign(c, a) PROVE CallsOK'
    <3> DEFINE new == [NoCall EXCEPT !.op = "assign", !.application = a,
                                     !.pc = "findApplication"]
    <3>1. /\ new \in CallState /\ new.op = "assign" /\ new.application = a
          /\ new.pc = "findApplication"
      BY DEF NoCall, CallState, Pc
    <3>2. call' = [call EXCEPT ![c] = new]
      BY <2>3 DEF BeginAssign
    <3> HIDE DEF new
    <3>3. QED BY <3>1, <3>2, BeginType, NullIsNoRow
  <2>4. ASSUME BeginCancel(c) PROVE CallsOK'
    <3> DEFINE new == [NoCall EXCEPT !.op = "cancel", !.pc = "list"]
    <3>1. /\ new \in CallState /\ new.op = "cancel" /\ new.application = Null
          /\ new.pc = "list"
      BY DEF NoCall, CallState, Pc
    <3>2. call' = [call EXCEPT ![c] = new]
      BY <2>4 DEF BeginCancel
    <3> HIDE DEF new
    <3>3. QED BY <3>1, <3>2, BeginType
  <2>5. CallsOK'
    BY <1>1, <2>2, <2>3, <2>4 DEF Begin
  <2>6. QED BY <2>1, <2>5 DEF TypeOK, CallsOK
<1>2. ASSUME NEW c \in Calls, Step(c) PROVE TypeOK'
  <2> SUFFICES /\ db' \in [Rows -> Version]
               /\ writes' \in [Calls -> [Rows -> Version \cup {Null}]]
               /\ CallsOK'
    BY DEF TypeOK, CallsOK
  <2>1. CASE FindExisting(c)
    BY <2>1, GoToType DEF FindExisting, TypeOK, Pc, Ended
  <2>2. CASE CreateApplication(c)
    <3>1. call[c].user \in Users \cup {Null} /\ CallsOK'
      BY <2>2, GoToType DEF CreateApplication, TypeOK, CallState, Pc, Ended
    <3>2. Pending(call[c].user) \in Version
      BY <3>1 DEF Pending, Version, Status
    <3>3. QED BY <2>2, <3>1, <3>2 DEF CreateApplication, TypeOK
  <2>3. CASE FindApplication(c)
    BY <2>3, GoToType DEF FindApplication, TypeOK, Pc, Ended
  <2>4. CASE FindMembers(c)
    <3>1. CASE GoTo(c, "createMember")
      BY <2>4, <3>1, GoToType DEF FindMembers, TypeOK, Pc
    <3>2. ASSUME NEW m \in Members, NEW pc \in {"accept", "updateMember"},
                 call' = [call EXCEPT ![c].member = m, ![c].pc = pc]
          PROVE  CallsOK'
      <4>1. /\ call'[c].member = m /\ call'[c].pc = pc
            /\ call'[c].op = call[c].op /\ call'[c].application = call[c].application
            /\ \A d \in Calls \ {c} : call'[d] = call[d]
        BY <3>2 DEF TypeOK, CallState
      <4>2. call' \in [Calls -> CallState]
        <5>1. pc \in Pc
          BY DEF Pc
        <5> DEFINE new == [[call[c] EXCEPT !.member = m] EXCEPT !.pc = pc]
        <5>2. call[c] \in CallState
          BY DEF TypeOK
        <5>3. new \in CallState
          BY <5>1, <5>2 DEF CallState
        <5>4. call' = [call EXCEPT ![c] = new]
          BY <3>2, <5>2 DEF TypeOK
        <5> HIDE DEF new
        <5>5. QED BY <5>3, <5>4 DEF TypeOK
      <4>3. m # Null
        BY NullIsNoRow
      <4>4. QED BY <4>1, <4>2, <4>3 DEF TypeOK, CallsOK
    <3>3. CallsOK'
      BY <2>4, <3>1, <3>2 DEF FindMembers, VisibleMembers
    <3>4. QED BY <2>4, <3>3 DEF FindMembers, TypeOK
  <2>5. CASE CreateMember(c)
    <3>1. CallsOK'
      BY <2>5, GoToType DEF CreateMember, Pc
    <3>2. call[c].application \in Applications
      BY <2>5 DEF CreateMember, At, TypeOK, CallState
    <3>3. Joined(Visible(c, call[c].application).user, "copilot") \in Version
      BY <3>2, VisibleType, JoinedType DEF Version, MemberRoles
    <3>4. writes' \in [Calls -> [Rows -> Version \cup {Null}]]
      BY <2>5, <3>3 DEF CreateMember, TypeOK
    <3>5. QED BY <2>5, <3>1, <3>4 DEF CreateMember, TypeOK
  <2>6. CASE UpdateMember(c)
    <3>1. call[c].member \in Members
      BY <2>6 DEF UpdateMember, At, TypeOK, CallState
    <3>2. [Visible(c, call[c].member) EXCEPT !.role = "copilot"] \in Version
      BY <3>1, VisibleType DEF MemberRoles
    <3>3. writes' \in [Calls -> [Rows -> Version \cup {Null}]]
      BY <2>6, <3>2 DEF UpdateMember, TypeOK
    <3>4. QED BY <2>6, <3>3, GoToType DEF UpdateMember, TypeOK, Pc
  <2>7. CASE AcceptApplication(c)
    <3>1. call[c].application \in Applications
      BY <2>7 DEF AcceptApplication, At, TypeOK, CallState
    <3>2. QED
      BY <2>7, <3>1, GoToType, SetStatusType DEF AcceptApplication, TypeOK, Pc, Status
  <2>8. CASE ListApplications(c)
    <3>1. VisibleApplications(c) \ {call[c].application} \in SUBSET Applications
      BY DEF VisibleApplications
    <3>2. CallsOK'
      BY <2>8, <3>1 DEF ListApplications, TypeOK, CallsOK, CallState, Pc
    <3>3. QED BY <2>8, <3>2 DEF ListApplications, TypeOK
  <2>9. CASE CancelListed(c)
    <3>1. ASSUME NEW b \in Uncanceled(c), SetStatus(c, b, "canceled")
          PROVE  writes' \in [Calls -> [Rows -> Version \cup {Null}]]
      <4>1. b \in Applications
        BY DEF Uncanceled, TypeOK, CallState
      <4>2. QED BY <3>1, <4>1, SetStatusType DEF Status
    <3>2. writes' \in [Calls -> [Rows -> Version \cup {Null}]]
      BY <2>9, <3>1 DEF CancelListed, TypeOK
    <3>3. CallsOK'
      BY <2>9, GoToType DEF CancelListed, TypeOK, CallsOK, Pc
    <3>4. QED BY <2>9, <3>2, <3>3 DEF CancelListed, TypeOK
  <2>10. CASE CompleteOpportunity(c)
    BY <2>10, GoToType, SetStatusType DEF CompleteOpportunity, TypeOK, Pc, Status
  <2>11. CASE FulfilRequest(c)
    BY <2>11, GoToType, SetStatusType DEF FulfilRequest, TypeOK, Pc, Status
  <2>12. CASE CloseCanceled(c)
    BY <2>12, GoToType, SetStatusType DEF CloseCanceled, TypeOK, Pc, Status
  <2>13. CASE Commit(c)
    <3>1. CallsOK'
      BY <2>13, GoToType DEF Commit, Pc, Ended
    <3>2. QED BY <2>13, <3>1, VisibleType DEF Commit, NoWrites, TypeOK
  <2>14. QED
    BY <1>2, <2>1, <2>2, <2>3, <2>4, <2>5, <2>6, <2>7, <2>8, <2>9, <2>10, <2>11, <2>12, <2>13
    DEF Step
<1>3. ASSUME NEW c \in Calls, NEW pc \in Pc \ {"updateMember"}, RollBack(c, pc) PROVE TypeOK'
  <2>1. CallsOK'
    BY <1>3, GoToType DEF RollBack
  <2>2. QED BY <1>3, <2>1 DEF RollBack, NoWrites, TypeOK, CallsOK
<1>4. CASE UNCHANGED vars
  BY <1>4 DEF TypeOK, vars
<1>5. QED
  BY <1>1, <1>2, <1>3, <1>4 DEF Next, AbortVictim, Crash, Pc, Ended

THEOREM TypeCorrect == Spec => []TypeOK
  BY TypeInit, TypeNext, PTL DEF Spec

-----------------------------------------------------------------------------
(* The inductive invariant.                                                *)

LEMMA InitInv == Init => AwardInv
<1> SUFFICES ASSUME Init PROVE AwardInv
  OBVIOUS
<1>1. TypeOK
  BY TypeInit
<1>2. \A c \in Calls : call[c] = NoCall /\ writes[c] = NoWrites
  BY DEF Init
<1>3. \A a \in Applications : db[a].status # "accepted"
  BY RowsAssumption DEF Init, Rows, None, Pending
<1>4. Opportunity \in Rows /\ Applications \subseteq Rows
  BY DEF Rows
<1>5. QED
  BY <1>1, <1>2, <1>3, <1>4 DEF AwardInv, LocksExclusive, CallsInOrder, InOrder,
     WroteInOrder, Found, ListedEachOther, WinnersListed, OneWinner, Accepted, Assigning, NoCall, NoWrites,
     HasAccepted, HasListed, HasCanceled

\* Every row the invariant is about.
LEMMA RowsDistinct ==
    /\ Opportunity \in Rows /\ Request \in Rows
    /\ Applications \subseteq Rows /\ Members \subseteq Rows
    /\ Opportunity # Request /\ Opportunity \notin Applications /\ Opportunity \notin Members
    /\ Request \notin Applications /\ Request \notin Members /\ Applications \cap Members = {}
    /\ Null \notin Applications
  BY RowsAssumption, NullIsNoRow DEF Rows

LEMMA WriteKeepsLocks ==
    ASSUME TypeOK, LocksExclusive, NEW c \in Calls, NEW r \in Rows, ~LockedByOther(c, r),
           NEW v, writes' = [writes EXCEPT ![c][r] = v]
    PROVE  LocksExclusive'
  BY DEF TypeOK, LocksExclusive, LockedByOther

\* A step of c leaves every other call in order if it puts no row back to none.
LEMMA OthersInOrder ==
    ASSUME CallsInOrder, NEW c \in Calls, NEW d \in Calls, d # c, TypeOK,
           call'[d] = call[d],
           \A b \in Applications \cup {Opportunity} : writes'[d][b] = writes[d][b],
           \A b \in Applications : db[b].status # "none" => db'[b].status # "none"
    PROVE  InOrder(d)' /\ WroteInOrder(d)'
<1>1. call[d].op = "assign" => call[d].application \in Applications
  BY DEF TypeOK, CallState
<1>2. call[d].listed \subseteq Applications
  BY DEF TypeOK, CallState
<1>3. InOrder(d) /\ WroteInOrder(d)
  BY DEF CallsInOrder
<1>4. InOrder(d)'
  BY <1>1, <1>2, <1>3 DEF InOrder, Assigning
<1>5. WroteInOrder(d)'
  BY <1>1, <1>2, <1>3 DEF WroteInOrder, Assigning
<1>6. QED BY <1>4, <1>5

\* Winners are safe in every step that neither lists nor commits.
LEMMA WinnersStay ==
    ASSUME ListedEachOther, WinnersListed, OneWinner, Accepted' \subseteq Accepted,
           \A d \in Calls : Assigning(d, HasListed)' =>
             /\ Assigning(d, HasListed)
             /\ call'[d].listed = call[d].listed
             /\ call'[d].application = call[d].application
    PROVE  ListedEachOther' /\ WinnersListed' /\ OneWinner'
<1>1. ListedEachOther'
  BY DEF ListedEachOther
<1>2. WinnersListed'
  BY DEF WinnersListed
<1>3. OneWinner'
  BY DEF OneWinner
<1>4. QED BY <1>1, <1>2, <1>3

\* What is left to show of a step of c that neither lists nor commits.
LEMMA StepKeeps ==
    ASSUME AwardInv, TypeOK', LocksExclusive', NEW c \in Calls, InOrder(c)', WroteInOrder(c)',
           \A d \in Calls \ {c} : call'[d] = call[d] /\ writes'[d] = writes[d],
           \A b \in Applications : db[b].status # "none" => db'[b].status # "none",
           Accepted' \subseteq Accepted,
           Assigning(c, HasListed)' =>
             /\ Assigning(c, HasListed)
             /\ call'[c].listed = call[c].listed
             /\ call'[c].application = call[c].application
    PROVE  AwardInv'
<1>1. CallsInOrder'
  BY OthersInOrder DEF CallsInOrder, AwardInv
<1>2. \A d \in Calls : Assigning(d, HasListed)' =>
        /\ Assigning(d, HasListed)
        /\ call'[d].listed = call[d].listed
        /\ call'[d].application = call[d].application
  BY DEF Assigning
<1>3. ListedEachOther' /\ WinnersListed' /\ OneWinner'
  BY <1>2, WinnersStay DEF AwardInv
<1>4. QED BY <1>1, <1>3 DEF AwardInv

\* Facts about the call that moves.
LEMMA GoToFacts ==
    ASSUME TypeOK, NEW c \in Calls, NEW pc, GoTo(c, pc)
    PROVE  /\ \A d \in Calls \ {c} : call'[d] = call[d]
           /\ call'[c].pc = pc /\ call'[c].op = call[c].op
           /\ call'[c].application = call[c].application
           /\ call'[c].listed = call[c].listed
  BY DEF GoTo, TypeOK, CallState

LEMMA SetStatusFacts ==
    ASSUME TypeOK, LocksExclusive, NEW c \in Calls, NEW r \in Rows, NEW s \in Status,
           SetStatus(c, r, s)
    PROVE  /\ \A d \in Calls \ {c} : writes'[d] = writes[d]
           /\ \A q \in Rows \ {r} : writes'[c][q] = writes[c][q]
           /\ writes'[c][r] # Null /\ writes'[c][r].status = s
           /\ LocksExclusive'
<1> DEFINE v == [Visible(c, r) EXCEPT !.status = s]
<1>1. Visible(c, r) \in Version
  BY VisibleType
<1>2. v.status = s /\ v \in Version
  BY <1>1, VisibleType DEF Version
<1>3. writes' = [writes EXCEPT ![c][r] = v] /\ ~LockedByOther(c, r)
  BY DEF SetStatus
<1> HIDE DEF v
<1>4. LocksExclusive'
  BY <1>3, WriteKeepsLocks
<1>5. QED BY <1>2, <1>3, <1>4, NullIsNoVersion DEF TypeOK

LEMMA BeginInv ==
    ASSUME AwardInv, TypeOK', NEW c \in Calls, Begin(c)
    PROVE  AwardInv'
<1> USE DEF AwardInv
<1>1. /\ UNCHANGED <<db, writes>> /\ \A d \in Calls \ {c} : call'[d] = call[d]
      /\ call[c] = NoCall
      /\ call'[c].op = "assign" => call'[c].application \in Applications
      /\ call'[c].pc \in {"findExisting", "findApplication", "list"}
      /\ call'[c].pc = "list" => call'[c].op = "cancel"
      /\ call'[c].listed = {}
  <2> DEFINE Started(new) == /\ call' = [call EXCEPT ![c] = new]
                             /\ UNCHANGED <<db, writes>> /\ call[c] = NoCall
                             /\ new.op = "assign" => new.application \in Applications
                             /\ new.pc \in {"findExisting", "findApplication", "list"}
                             /\ new.pc = "list" => new.op = "cancel"
                             /\ new.listed = {}
  <2>1. \E new : Started(new)
    <3>1. ASSUME NEW u \in Users, BeginApply(c, u) PROVE \E x : Started(x)
      <4> DEFINE new == [NoCall EXCEPT !.op = "apply", !.user = u, !.pc = "findExisting"]
      <4>1. call' = [call EXCEPT ![c] = new]
        BY <3>1 DEF BeginApply
      <4>2. new.op = "apply" /\ new.pc = "findExisting" /\ new.listed = {}
        BY DEF NoCall
      <4> HIDE DEF new
      <4>3. Started(new)
        BY <3>1, <4>1, <4>2 DEF BeginApply
      <4>4. QED BY <4>3
    <3>2. ASSUME NEW a \in Applications, BeginAssign(c, a) PROVE \E x : Started(x)
      <4> DEFINE new == [NoCall EXCEPT !.op = "assign", !.application = a,
                                       !.pc = "findApplication"]
      <4>1. call' = [call EXCEPT ![c] = new]
        BY <3>2 DEF BeginAssign
      <4>2. new.application = a /\ new.pc = "findApplication" /\ new.listed = {}
        BY DEF NoCall
      <4> HIDE DEF new
      <4>3. Started(new)
        BY <3>2, <4>1, <4>2 DEF BeginAssign
      <4>4. QED BY <4>3
    <3>3. ASSUME BeginCancel(c) PROVE \E x : Started(x)
      <4> DEFINE new == [NoCall EXCEPT !.op = "cancel", !.pc = "list"]
      <4>1. call' = [call EXCEPT ![c] = new]
        BY <3>3 DEF BeginCancel
      <4>2. new.op = "cancel" /\ new.pc = "list" /\ new.listed = {}
        BY DEF NoCall
      <4> HIDE DEF new
      <4>3. Started(new)
        BY <3>3, <4>1, <4>2 DEF BeginCancel
      <4>4. QED BY <4>3
    <3>4. QED BY <3>1, <3>2, <3>3 DEF Begin
  <2>2. QED BY <2>1 DEF TypeOK
<1>2. InOrder(c) /\ WroteInOrder(c)
  BY DEF CallsInOrder
<1>3. LocksExclusive'
  BY <1>1 DEF LocksExclusive
<1>4. InOrder(c)' /\ WroteInOrder(c)'
  BY <1>1, <1>2 DEF InOrder, WroteInOrder, Assigning, HasAccepted, HasListed, HasCanceled,
     Found, NoCall
<1>5. QED
  BY <1>1, <1>3, <1>4, StepKeeps DEF Accepted, Assigning, HasListed

\* A call that has not accepted an application yet and moves to pc.
LEMMA EarlyStep ==
    ASSUME AwardInv, TypeOK', LocksExclusive', NEW c \in Calls, NEW pc \in Pc,
           call[c].pc \notin HasAccepted, pc \notin HasAccepted,
           \A d \in Calls \ {c} : call'[d] = call[d] /\ writes'[d] = writes[d],
           call'[c].pc = pc, call'[c].op = call[c].op,
           call'[c].application = call[c].application, call'[c].listed = call[c].listed,
           \A b \in Applications \cup {Opportunity} : writes'[c][b] = writes[c][b],
           \A b \in Applications : /\ db[b].status # "none" => db'[b].status # "none"
                                   /\ db'[b].status = "accepted" => db[b].status = "accepted",
           call[c].op = "assign" /\ pc \in Found =>
             call[c].pc \in Found \/ db[call[c].application].status # "none"
    PROVE  AwardInv'
<1>1. InOrder(c) /\ WroteInOrder(c) /\ TypeOK
  BY DEF AwardInv, CallsInOrder
<1>2. call[c].op = "assign" => call[c].application \in Applications
  BY <1>1 DEF TypeOK, CallState
<1>3. call[c].listed \subseteq Applications
  BY <1>1 DEF TypeOK, CallState
<1>4. InOrder(c)'
  BY <1>1, <1>2, <1>3 DEF InOrder, HasAccepted
<1>5. WroteInOrder(c)'
  BY <1>1 DEF WroteInOrder, Assigning, HasAccepted, HasListed, HasCanceled
<1>6. ~Assigning(c, HasListed)'
  BY DEF Assigning, HasListed, HasAccepted
<1>7. Accepted' \subseteq Accepted
  BY DEF Accepted
<1>8. QED BY <1>4, <1>5, <1>6, <1>7, StepKeeps

LEMMA EarlyInv ==
    ASSUME AwardInv, TypeOK', NEW c \in Calls,
           \/ FindExisting(c) \/ CreateApplication(c)
           \/ FindApplication(c) \/ FindMembers(c) \/ CreateMember(c) \/ UpdateMember(c)
    PROVE  AwardInv'
<1> USE DEF AwardInv
<1>1. ASSUME NEW pc \in Pc \ HasAccepted, GoTo(c, pc), UNCHANGED writes,
             call[c].pc \notin HasAccepted,
             \A b \in Applications :
               /\ db[b].status # "none" => db'[b].status # "none"
               /\ db'[b].status = "accepted" => db[b].status = "accepted",
             call[c].op = "assign" /\ pc \in Found =>
               call[c].pc \in Found \/ db[call[c].application].status # "none"
      PROVE  AwardInv'
  <2>1. LocksExclusive'
    BY <1>1 DEF LocksExclusive
  <2>2. QED BY <1>1, <2>1, GoToFacts, EarlyStep
<1>2. CASE FindExisting(c)
  <2>1. PICK pc \in {"committed", "create"} : GoTo(c, pc)
    BY <1>2 DEF FindExisting
  <2>2. pc \in Pc \ HasAccepted /\ pc \notin Found /\ call[c].pc \notin HasAccepted
    BY <1>2 DEF FindExisting, At, Pc, Ended, HasAccepted, Found
  <2>3. QED BY <1>1, <1>2, <2>1, <2>2 DEF FindExisting
<1>3. CASE CreateApplication(c)
  <2>1. PICK a \in Applications : Unused(a) /\ db' = [db EXCEPT ![a] = Pending(call[c].user)]
    BY <1>3 DEF CreateApplication
  <2>2. \A b \in Applications :
          /\ db[b].status # "none" => db'[b].status # "none"
          /\ db'[b].status = "accepted" => db[b].status = "accepted"
    BY <2>1, NoneType, RowsDistinct DEF Unused, Pending, TypeOK
  <2>3. "committed" \in Pc \ HasAccepted /\ "committed" \notin Found
        /\ call[c].pc \notin HasAccepted
    BY <1>3 DEF CreateApplication, At, Pc, Ended, HasAccepted, Found
  <2>4. QED BY <1>1, <1>3, <2>2, <2>3 DEF CreateApplication
<1>4. CASE FindApplication(c)
  <2>1. /\ call[c].pc = "findApplication" /\ call[c].op = "assign"
        /\ call[c].application \in Applications
    BY <1>4 DEF FindApplication, At, TypeOK, CallState
  <2>2. call[c].pc \notin HasAccepted /\ "rejected" \in Pc \ HasAccepted
        /\ "findMembers" \in Pc \ HasAccepted /\ "rejected" \notin Found
    BY <2>1 DEF Pc, Ended, HasAccepted, Found
  <2>3. writes[c][call[c].application] = Null
    BY <2>1 DEF CallsInOrder, WroteInOrder, Assigning, HasAccepted, HasListed
  <2>4. CASE GoTo(c, "rejected")
    BY <1>1, <1>4, <2>2, <2>4 DEF FindApplication
  <2>5. CASE GoTo(c, "findMembers") /\ db[call[c].application].status # "none"
    BY <1>1, <1>4, <2>2, <2>5 DEF FindApplication
  <2>6. QED BY <1>4, <2>3, <2>4, <2>5 DEF FindApplication, Visible
<1>5. CASE FindMembers(c)
  <2>1. call[c].pc = "findMembers" /\ call[c].op = "assign" /\ UNCHANGED <<db, writes>>
    BY <1>5 DEF FindMembers, At
  <2>2. call[c].pc \notin HasAccepted /\ call[c].pc \in Found
    BY <2>1 DEF HasAccepted, Found
  <2>3. PICK pc \in {"createMember", "accept", "updateMember"} :
          /\ \A d \in Calls \ {c} : call'[d] = call[d]
          /\ call'[c].pc = pc /\ call'[c].op = call[c].op
          /\ call'[c].application = call[c].application
          /\ call'[c].listed = call[c].listed
    <3>1. CASE GoTo(c, "createMember")
      BY <3>1, GoToFacts
    <3>2. ASSUME NEW m \in Members, NEW pc \in {"accept", "updateMember"},
                 call' = [call EXCEPT ![c].member = m, ![c].pc = pc]
          PROVE  /\ \A d \in Calls \ {c} : call'[d] = call[d]
                 /\ call'[c].pc = pc /\ call'[c].op = call[c].op
                 /\ call'[c].application = call[c].application
                 /\ call'[c].listed = call[c].listed
      BY <3>2 DEF TypeOK, CallState
    <3>3. QED BY <1>5, <3>1, <3>2 DEF FindMembers, VisibleMembers
  <2>4. pc \in Pc /\ pc \notin HasAccepted
    BY DEF Pc, HasAccepted
  <2>5. LocksExclusive'
    BY <2>1 DEF LocksExclusive
  <2>6. QED BY <2>1, <2>2, <2>3, <2>4, <2>5, EarlyStep
<1>6. ASSUME NEW m \in Members, NEW v, ~LockedByOther(c, m),
             writes' = [writes EXCEPT ![c][m] = v], GoTo(c, "accept"), UNCHANGED db,
             call[c].pc \in {"createMember", "updateMember"}
      PROVE  AwardInv'
  <2>1. LocksExclusive'
    BY <1>6, RowsDistinct, WriteKeepsLocks
  <2>2. /\ \A d \in Calls \ {c} : writes'[d] = writes[d]
        /\ \A b \in Applications \cup {Opportunity} : writes'[c][b] = writes[c][b]
    BY <1>6, RowsDistinct DEF TypeOK
  <2>3. /\ call[c].pc \notin HasAccepted /\ call[c].pc \in Found
        /\ "accept" \in Pc /\ "accept" \notin HasAccepted
    BY <1>6 DEF HasAccepted, Found, Pc
  <2>4. QED BY <1>6, <2>1, <2>2, <2>3, GoToFacts, EarlyStep
<1>7. CASE CreateMember(c)
  <2>1. call[c].pc \in {"createMember", "updateMember"}
    BY <1>7 DEF CreateMember, At
  <2>2. QED BY <1>6, <1>7, <2>1 DEF CreateMember, Unused, LockedByOther
<1>8. CASE UpdateMember(c)
  <2>1. call[c].pc \in {"createMember", "updateMember"} /\ call[c].member \in Members
    BY <1>8 DEF UpdateMember, At, TypeOK, CallState
  <2>2. QED BY <1>6, <1>8, <2>1 DEF UpdateMember
<1>9. QED BY <1>2, <1>3, <1>4, <1>5, <1>7, <1>8

LEMMA AcceptInv ==
    ASSUME AwardInv, TypeOK', NEW c \in Calls, AcceptApplication(c)
    PROVE  AwardInv'
<1> DEFINE a == call[c].application
<1>1. /\ TypeOK /\ LocksExclusive /\ InOrder(c) /\ WroteInOrder(c)
      /\ call[c].op = "assign" /\ call[c].pc = "accept" /\ UNCHANGED db
  BY DEF AwardInv, CallsInOrder, AcceptApplication, At
<1>2. a \in Applications /\ a \in Rows /\ "accepted" \in Status
  BY <1>1, RowsDistinct DEF TypeOK, CallState, Status
<1>3. SetStatus(c, a, "accepted") /\ GoTo(c, "list")
  BY DEF AcceptApplication
<1>4. /\ \A d \in Calls \ {c} : writes'[d] = writes[d]
      /\ \A q \in Rows \ {a} : writes'[c][q] = writes[c][q]
      /\ writes'[c][a] # Null /\ writes'[c][a].status = "accepted"
      /\ LocksExclusive'
  BY <1>1, <1>2, <1>3, SetStatusFacts
<1>5. /\ \A d \in Calls \ {c} : call'[d] = call[d]
      /\ call'[c].pc = "list" /\ call'[c].op = "assign" /\ call'[c].application = a
      /\ call'[c].listed = call[c].listed
  BY <1>1, <1>3, GoToFacts
<1>6. InOrder(c)'
  BY <1>1, <1>5 DEF InOrder, Found
<1> HIDE DEF a
<1>7. WroteInOrder(c)'
  BY <1>1, <1>2, <1>4, <1>5, RowsDistinct
  DEF WroteInOrder, Assigning, HasAccepted, HasListed, HasCanceled
<1>8. ~Assigning(c, HasListed)' /\ Accepted' \subseteq Accepted
  BY <1>1, <1>5 DEF Assigning, HasListed, Accepted
<1>9. QED BY <1>1, <1>4, <1>5, <1>6, <1>7, <1>8, StepKeeps

LEMMA CancelListedInv ==
    ASSUME AwardInv, TypeOK', NEW c \in Calls, CancelListed(c)
    PROVE  AwardInv'
<1>1. /\ TypeOK /\ LocksExclusive /\ InOrder(c) /\ WroteInOrder(c)
      /\ call[c].pc = "cancelListed" /\ UNCHANGED db
  BY DEF AwardInv, CallsInOrder, CancelListed
<1>2. call[c].listed \subseteq Applications /\ Accepted' = Accepted
  BY <1>1 DEF TypeOK, CallState, Accepted
<1>3. ASSUME NEW b \in Uncanceled(c), SetStatus(c, b, "canceled"), UNCHANGED call
      PROVE  AwardInv'
  <2>1. /\ b \in Applications /\ b \in call[c].listed /\ b \in Rows /\ "canceled" \in Status
        /\ b # call[c].application
    BY <1>1, <1>2, RowsDistinct DEF Uncanceled, Status, InOrder
  <2>2. /\ \A d \in Calls \ {c} : writes'[d] = writes[d]
        /\ \A q \in Rows \ {b} : writes'[c][q] = writes[c][q]
        /\ writes'[c][b] # Null /\ writes'[c][b].status = "canceled"
        /\ LocksExclusive'
    BY <1>1, <1>3, <2>1, SetStatusFacts
  <2>3. InOrder(c)'
    BY <1>1, <1>3 DEF InOrder
  <2>4. call[c].op = "assign" => call[c].application \in Applications
    BY <1>1 DEF TypeOK, CallState
  <2>5. WroteInOrder(c)'
    BY <1>1, <1>3, <2>1, <2>2, <2>4, RowsDistinct
    DEF WroteInOrder, Assigning, HasAccepted, HasListed, HasCanceled
  <2>6. QED BY <1>1, <1>2, <1>3, <2>2, <2>3, <2>5, StepKeeps DEF Assigning
<1>4. ASSUME Uncanceled(c) = {}, GoTo(c, "close"), UNCHANGED writes
      PROVE  AwardInv'
  <2>1. /\ \A d \in Calls \ {c} : call'[d] = call[d]
        /\ call'[c].pc = "close" /\ call'[c].op = call[c].op
        /\ call'[c].application = call[c].application
        /\ call'[c].listed = call[c].listed
    BY <1>1, <1>4, GoToFacts
  <2>2. LocksExclusive'
    BY <1>1, <1>4 DEF LocksExclusive
  <2>3. InOrder(c)'
    BY <1>1, <2>1 DEF InOrder, Found, HasAccepted
  <2>4. \A b \in call[c].listed : writes[c][b] # Null
    BY <1>4 DEF Uncanceled
  <2>5. WroteInOrder(c)'
    BY <1>1, <1>4, <2>1, <2>4 DEF WroteInOrder, Assigning, HasAccepted, HasListed, HasCanceled
  <2>6. Assigning(c, HasListed)' => Assigning(c, HasListed)
    BY <1>1, <2>1 DEF Assigning, HasListed
  <2>7. QED BY <1>1, <1>2, <1>4, <2>1, <2>2, <2>3, <2>5, <2>6, StepKeeps
<1>5. QED BY <1>3, <1>4 DEF CancelListed

\* The last writes of a transaction: the opportunity, then the request of an award.
LEMMA CloseInv ==
    ASSUME AwardInv, TypeOK', NEW c \in Calls,
           CompleteOpportunity(c) \/ FulfilRequest(c) \/ CloseCanceled(c)
    PROVE  AwardInv'
<1>1. /\ TypeOK /\ LocksExclusive /\ InOrder(c) /\ WroteInOrder(c) /\ UNCHANGED db
  BY DEF AwardInv, CallsInOrder, CompleteOpportunity, FulfilRequest, CloseCanceled
<1>2. PICK r \in {Opportunity, Request}, s \in {"completed", "fulfilled", "canceled"},
           pc \in {"fulfil", "commit"} :
        /\ SetStatus(c, r, s) /\ GoTo(c, pc)
        /\ \/ /\ call[c].op = "assign" /\ call[c].pc = "close"
              /\ r = Opportunity /\ s = "completed" /\ pc = "fulfil"
           \/ /\ call[c].op = "assign" /\ call[c].pc = "fulfil" /\ r = Request /\ pc = "commit"
           \/ /\ call[c].op = "cancel" /\ call[c].pc = "close"
              /\ r = Opportunity /\ s = "canceled" /\ pc = "commit"
  BY DEF CompleteOpportunity, FulfilRequest, CloseCanceled, At
<1>3. r \in Rows /\ r \notin Applications /\ s \in Status
  BY RowsDistinct DEF Status
<1>4. /\ \A d \in Calls \ {c} : writes'[d] = writes[d]
      /\ \A q \in Rows \ {r} : writes'[c][q] = writes[c][q]
      /\ writes'[c][r] # Null /\ writes'[c][r].status = s
      /\ LocksExclusive'
  BY <1>1, <1>2, <1>3, SetStatusFacts
<1>5. /\ \A d \in Calls \ {c} : call'[d] = call[d]
      /\ call'[c].pc = pc /\ call'[c].op = call[c].op
      /\ call'[c].application = call[c].application
      /\ call'[c].listed = call[c].listed
  BY <1>1, <1>2, GoToFacts
<1>6. InOrder(c)'
  BY <1>1, <1>2, <1>5 DEF InOrder, Found, HasAccepted
<1>7. \A b \in Applications : writes'[c][b] = writes[c][b]
  BY <1>3, <1>4, RowsDistinct
<1>8. /\ r = Opportunity \/ writes'[c][Opportunity] = writes[c][Opportunity]
      /\ call[c].listed \subseteq Applications
      /\ call[c].op = "assign" => call[c].application \in Applications
  BY <1>1, <1>4, RowsDistinct DEF TypeOK, CallState
<1>9. WroteInOrder(c)'
  <2> USE DEF WroteInOrder, Assigning, HasAccepted, HasListed, HasCanceled
  <2>1. CASE call[c].op = "assign" /\ call[c].pc = "close"
    BY <1>1, <1>2, <1>4, <1>5, <1>7, <1>8, <2>1
  <2>2. CASE call[c].op = "assign" /\ call[c].pc = "fulfil"
    BY <1>1, <1>2, <1>4, <1>5, <1>7, <1>8, <2>2, RowsDistinct
  <2>3. CASE call[c].op = "cancel" /\ call[c].pc = "close"
    BY <1>1, <1>2, <1>4, <1>5, <1>7, <1>8, <2>3
  <2>4. QED BY <1>2, <2>1, <2>2, <2>3
<1>10. Assigning(c, HasListed)' => Assigning(c, HasListed)
  BY <1>2, <1>5 DEF Assigning, HasListed
<1>11. Accepted' \subseteq Accepted
  BY <1>1 DEF Accepted
<1>12. QED BY <1>1, <1>4, <1>5, <1>6, <1>9, <1>10, <1>11, StepKeeps

LEMMA RollBackInv ==
    ASSUME AwardInv, TypeOK', NEW c \in Calls, NEW pc \in {"deadlock", "crashed"},
           RollBack(c, pc)
    PROVE  AwardInv'
<1>1. /\ TypeOK /\ LocksExclusive /\ InOrder(c) /\ UNCHANGED db
      /\ writes' = [writes EXCEPT ![c] = NoWrites] /\ GoTo(c, pc)
  BY DEF AwardInv, CallsInOrder, RollBack
<1>2. /\ \A d \in Calls \ {c} : writes'[d] = writes[d]
      /\ \A r \in Rows : writes'[c][r] = Null
  BY <1>1 DEF TypeOK, NoWrites
<1>3. LocksExclusive'
  BY <1>1, <1>2 DEF LocksExclusive
<1>4. /\ \A d \in Calls \ {c} : call'[d] = call[d]
      /\ call'[c].pc = pc /\ call'[c].op = call[c].op
      /\ call'[c].application = call[c].application
      /\ call'[c].listed = call[c].listed
  BY <1>1, GoToFacts
<1>5. InOrder(c)'
  BY <1>1, <1>4 DEF InOrder, Found, HasAccepted
<1>6. WroteInOrder(c)'
  BY <1>2, <1>4, RowsDistinct DEF WroteInOrder, Assigning, HasAccepted, HasListed, HasCanceled
<1>7. ~Assigning(c, HasListed)' /\ Accepted' \subseteq Accepted
  BY <1>1, <1>4 DEF Assigning, HasListed, Accepted
<1>8. QED BY <1>2, <1>3, <1>4, <1>5, <1>6, <1>7, <1>1, StepKeeps

\* Whoever lists sees the application of every assignment that has listed before.
LEMMA ListInv ==
    ASSUME AwardInv, TypeOK', NEW c \in Calls, ListApplications(c)
    PROVE  AwardInv'
<1> DEFINE listed == VisibleApplications(c) \ {call[c].application}
<1>1. /\ TypeOK /\ LocksExclusive /\ ListedEachOther /\ WinnersListed /\ OneWinner
      /\ \A d \in Calls : InOrder(d) /\ WroteInOrder(d)
      /\ call[c].pc = "list" /\ UNCHANGED <<db, writes>>
  BY DEF AwardInv, CallsInOrder, ListApplications
<1>2. /\ \A d \in Calls \ {c} : call'[d] = call[d]
      /\ call'[c].pc = "cancelListed" /\ call'[c].op = call[c].op
      /\ call'[c].application = call[c].application
      /\ call'[c].listed = listed
  BY <1>1 DEF ListApplications, TypeOK, CallState
<1>3. \A b \in Applications :
        db[b].status # "none" <=> b \in VisibleApplications(c)
  <2>1. ASSUME NEW b \in Applications, writes[c][b] # Null
        PROVE  writes[c][b].status # "none" /\ db[b].status # "none"
    <3>1. /\ b = call[c].application /\ call[c].op = "assign"
          /\ writes[c][b].status = "accepted"
      BY <1>1, <2>1 DEF WroteInOrder, Assigning, HasListed
    <3>2. QED BY <1>1, <3>1 DEF InOrder, Found, HasAccepted
  <2>2. QED BY <2>1 DEF VisibleApplications, Visible
<1>4. listed \subseteq Applications /\ call[c].application \notin listed
  BY DEF VisibleApplications
<1>5. \A b \in listed : db[b].status # "none"
  BY <1>3, <1>4
<1>6. \A b \in Applications : db[b].status # "none" => b = call[c].application \/ b \in listed
  BY <1>3
<1> HIDE DEF listed
<1>7. InOrder(c)'
  BY <1>1, <1>2, <1>4, <1>5 DEF InOrder, HasAccepted, Found
<1>8. WroteInOrder(c)'
  BY <1>1, <1>2 DEF WroteInOrder, Assigning, HasAccepted, HasListed, HasCanceled
<1>9. CallsInOrder'
  <2>1. \A d \in Calls \ {c} : InOrder(d)' /\ WroteInOrder(d)'
    BY <1>1, <1>2, OthersInOrder DEF CallsInOrder
  <2>2. QED BY <1>7, <1>8, <2>1 DEF CallsInOrder
<1>10. \A d \in Calls \ {c} : Assigning(d, HasListed) /\ call[c].op = "assign" =>
         call[d].application \in listed
  <2> SUFFICES ASSUME NEW d \in Calls \ {c}, Assigning(d, HasListed), call[c].op = "assign"
               PROVE  call[d].application \in listed
    OBVIOUS
  <2>1. call[d].application \in Applications /\ call[d].application \in Rows
    BY <1>1, RowsDistinct DEF TypeOK, CallState, Assigning
  <2>2. db[call[d].application].status # "none"
    BY <1>1 DEF InOrder, Assigning, Found, HasAccepted, HasListed
  <2>3. writes[d][call[d].application] # Null
    BY <1>1 DEF WroteInOrder, Assigning, HasAccepted, HasListed
  <2>4. writes[c][call[c].application] # Null
    BY <1>1 DEF WroteInOrder, Assigning, HasAccepted
  <2>5. call[d].application # call[c].application
    BY <1>1, <2>1, <2>3, <2>4 DEF LocksExclusive
  <2>6. QED BY <1>6, <2>1, <2>2, <2>5
<1>11. ListedEachOther'
  BY <1>1, <1>2, <1>10 DEF ListedEachOther, Assigning
<1>12. Accepted' = Accepted
  BY <1>1 DEF Accepted
<1>13. WinnersListed'
  BY <1>1, <1>2, <1>6, <1>12 DEF WinnersListed, Assigning, Accepted
<1>14. OneWinner' /\ LocksExclusive'
  BY <1>1, <1>12 DEF OneWinner, LocksExclusive
<1>15. QED BY <1>9, <1>11, <1>13, <1>14 DEF AwardInv

\* What a commit does to the applications and the opportunity.
LEMMA CommitEffect ==
    ASSUME AwardInv, NEW c \in Calls, Commit(c)
    PROVE  /\ call[c].op \in {"assign", "cancel"}
           /\ \A b \in Applications : db'[b].status =
                IF b \in call[c].listed THEN "canceled"
                ELSE IF b = call[c].application THEN "accepted" ELSE db[b].status
           /\ db'[Opportunity].status =
                IF call[c].op = "assign" THEN "completed" ELSE "canceled"
<1>1. /\ TypeOK /\ InOrder(c) /\ WroteInOrder(c) /\ call[c].pc = "commit"
      /\ db' = [r \in Rows |-> Visible(c, r)]
  BY DEF AwardInv, CallsInOrder, Commit
<1>2. call[c].op \in {"assign", "cancel"}
  BY <1>1 DEF InOrder, HasAccepted
<1>3. call[c].op = "cancel" => call[c].application \notin Applications
  BY <1>1, RowsDistinct DEF TypeOK
<1>4. ASSUME NEW b \in Applications
      PROVE  db'[b].status = IF b \in call[c].listed THEN "canceled"
                             ELSE IF b = call[c].application THEN "accepted" ELSE db[b].status
  <2>1. db'[b] = IF writes[c][b] = Null THEN db[b] ELSE writes[c][b]
    BY <1>1, RowsDistinct DEF Visible
  <2>2. CASE b \in call[c].listed
    BY <1>1, <2>1, <2>2 DEF InOrder, WroteInOrder, Assigning, HasCanceled, HasListed
  <2>3. CASE b \notin call[c].listed /\ b = call[c].application
    BY <1>1, <1>2, <1>3, <2>1, <2>3 DEF WroteInOrder, Assigning, HasAccepted
  <2>4. CASE b \notin call[c].listed /\ b # call[c].application
    BY <1>1, <2>1, <2>4 DEF WroteInOrder
  <2>5. QED BY <2>2, <2>3, <2>4
<1>5. db'[Opportunity] = IF writes[c][Opportunity] = Null THEN db[Opportunity]
                         ELSE writes[c][Opportunity]
  BY <1>1, RowsDistinct DEF Visible
<1>6. db'[Opportunity].status = IF call[c].op = "assign" THEN "completed" ELSE "canceled"
  BY <1>1, <1>2, <1>5 DEF WroteInOrder, Assigning
<1>7. QED BY <1>2, <1>4, <1>6

\* Of two assignments that have listed, only one can have canceled what it listed:
\* the other one holds a row it needs.
LEMMA CommitInv ==
    ASSUME AwardInv, TypeOK', NEW c \in Calls, Commit(c)
    PROVE  AwardInv'
<1>1. /\ TypeOK /\ LocksExclusive /\ ListedEachOther /\ WinnersListed /\ OneWinner
      /\ \A d \in Calls : InOrder(d) /\ WroteInOrder(d)
      /\ call[c].pc = "commit" /\ GoTo(c, "committed")
      /\ writes' = [writes EXCEPT ![c] = NoWrites]
  BY DEF AwardInv, CallsInOrder, Commit
<1>2. /\ \A d \in Calls \ {c} : writes'[d] = writes[d]
      /\ \A r \in Rows : writes'[c][r] = Null
  BY <1>1 DEF TypeOK, NoWrites
<1>3. LocksExclusive'
  BY <1>1, <1>2 DEF LocksExclusive
<1>4. /\ \A d \in Calls \ {c} : call'[d] = call[d]
      /\ call'[c].pc = "committed" /\ call'[c].op = call[c].op
      /\ call'[c].application = call[c].application
      /\ call'[c].listed = call[c].listed
  BY <1>1, GoToFacts
<1>5. /\ call[c].op \in {"assign", "cancel"}
      /\ \A b \in Applications : db'[b].status =
           IF b \in call[c].listed THEN "canceled"
           ELSE IF b = call[c].application THEN "accepted" ELSE db[b].status
  BY CommitEffect
<1>6. \A b \in Applications : db[b].status # "none" => db'[b].status # "none"
  BY <1>5
<1>7. InOrder(c)'
  <2>1. call[c].listed \subseteq Applications
    BY <1>1 DEF TypeOK, CallState
  <2>2. QED BY <1>1, <1>4, <1>6, <2>1 DEF InOrder, Found, HasAccepted
<1>8. WroteInOrder(c)'
  BY <1>2, <1>4, RowsDistinct DEF WroteInOrder, Assigning, HasAccepted, HasListed, HasCanceled
<1>9. CallsInOrder'
  <2>1. \A d \in Calls \ {c} : InOrder(d)' /\ WroteInOrder(d)'
    BY <1>1, <1>2, <1>4, <1>6, OthersInOrder DEF CallsInOrder
  <2>2. QED BY <1>7, <1>8, <2>1 DEF CallsInOrder
<1>10. ListedEachOther'
  BY <1>1, <1>4 DEF ListedEachOther, Assigning, HasListed
<1>11. CASE call[c].op = "cancel"
  <2>1. Accepted' \subseteq Accepted
    BY <1>1, <1>5, <1>11, RowsDistinct DEF Accepted, TypeOK
  <2>2. WinnersListed' /\ OneWinner'
    BY <1>1, <1>4, <2>1 DEF WinnersListed, OneWinner, Assigning, HasListed
  <2>3. QED BY <1>3, <1>9, <1>10, <2>2 DEF AwardInv
<1>12. CASE call[c].op = "assign"
  <2>1. call[c].application \in Applications /\ Assigning(c, HasListed)
        /\ Assigning(c, HasAccepted)
    BY <1>1, <1>12 DEF TypeOK, CallState, Assigning, HasListed, HasAccepted
  <2>2. Accepted' = {call[c].application}
    BY <1>1, <1>5, <2>1 DEF Accepted, WinnersListed, InOrder
  <2>3. ASSUME NEW d \in Calls \ {c}, Assigning(d, HasListed)
        PROVE  call[c].application \in call[d].listed
    <3>1. SUFFICES ASSUME call[d].application \in call[c].listed PROVE FALSE
      BY <1>1, <2>1, <2>3 DEF ListedEachOther
    <3>2. call[d].application \in Applications /\ call[d].application \in Rows
      BY <1>1, <2>3, RowsDistinct DEF TypeOK, CallState, Assigning
    <3>3. writes[d][call[d].application] # Null
      BY <1>1, <2>3 DEF WroteInOrder, Assigning, HasAccepted, HasListed
    <3>4. writes[c][call[d].application] # Null
      BY <1>1, <3>1 DEF WroteInOrder, HasCanceled
    <3>5. QED BY <1>1, <3>2, <3>3, <3>4 DEF LocksExclusive
  <2>4. WinnersListed'
    BY <1>4, <2>2, <2>3 DEF WinnersListed, Assigning, HasListed
  <2>5. OneWinner'
    BY <2>2 DEF OneWinner
  <2>6. QED BY <1>3, <1>9, <1>10, <2>4, <2>5 DEF AwardInv
<1>13. QED BY <1>5, <1>11, <1>12

-----------------------------------------------------------------------------
(* Theorems.                                                               *)

THEOREM NextInv == AwardInv /\ [Next]_vars => AwardInv'
<1> SUFFICES ASSUME AwardInv, [Next]_vars PROVE AwardInv'
  OBVIOUS
<1>1. TypeOK'
  BY TypeNext DEF AwardInv
<1>2. ASSUME NEW c \in Calls, Step(c) PROVE AwardInv'
  BY <1>1, <1>2, EarlyInv, AcceptInv, ListInv, CancelListedInv, CloseInv, CommitInv DEF Step
<1>3. ASSUME NEW c \in Calls, AbortVictim(c) \/ Crash(c) PROVE AwardInv'
  BY <1>1, <1>3, RollBackInv DEF AbortVictim, Crash
<1>4. CASE UNCHANGED vars
  BY <1>4 DEF vars, AwardInv, TypeOK, LocksExclusive, CallsInOrder, InOrder, WroteInOrder,
     ListedEachOther, WinnersListed, OneWinner, Accepted, Assigning
<1>5. QED BY <1>1, <1>2, <1>3, <1>4, BeginInv DEF Next

THEOREM InvCorrect == Spec => []AwardInv
  BY InitInv, NextInv, PTL DEF Spec

\* However many assignments and cancellations of an opportunity run at the same time,
\* and whichever of them fail, no two of its applications ever read accepted.
THEOREM OneWinnerCorrect == Spec => []OneWinner
<1>1. AwardInv => OneWinner
  BY DEF AwardInv
<1>2. QED BY <1>1, InvCorrect, PTL

-----------------------------------------------------------------------------
(* Refinement of OpportunityAward.                                         *)

LEMMA RefinesInit == Init => Abstract!AwardInit
<1> SUFFICES ASSUME Init PROVE Abstract!AwardInit
  OBVIOUS
<1>1. db[Opportunity].status = "active"
  BY RowsDistinct DEF Init, Row, None
<1>2. \A a \in Applications : db[a].status # "accepted"
  BY RowsDistinct DEF Init, None, Pending
<1>3. QED BY <1>1, <1>2 DEF Abstract!AwardInit, Accepted

LEMMA RefinesStutter ==
    ASSUME UNCHANGED db
    PROVE  UNCHANGED Abstract!awardVars
  BY DEF Abstract!awardVars, Accepted

\* The commit of an assignment is an award, that of a cancellation a cancellation.
LEMMA RefinesCommit ==
    ASSUME AwardInv, NEW c \in Calls, Commit(c)
    PROVE  Abstract!AwardNext
<1>1. /\ TypeOK /\ InOrder(c) /\ WinnersListed /\ call[c].pc = "commit"
      /\ call[c].listed \subseteq Applications
  BY DEF AwardInv, CallsInOrder, Commit, TypeOK, CallState
<1>2. /\ call[c].op \in {"assign", "cancel"}
      /\ \A b \in Applications : db'[b].status =
           IF b \in call[c].listed THEN "canceled"
           ELSE IF b = call[c].application THEN "accepted" ELSE db[b].status
      /\ db'[Opportunity].status = IF call[c].op = "assign" THEN "completed" ELSE "canceled"
  BY CommitEffect
<1>3. call[c].op = "assign" =>
        call[c].application \in Applications /\ db[call[c].application].status # "none"
  BY <1>1 DEF InOrder, Found, HasAccepted, TypeOK, CallState
<1>4. call[c].op = "cancel" => call[c].application \notin Applications
  BY <1>1, RowsDistinct DEF TypeOK
<1>5. \A b \in call[c].listed : db[b].status # "none"
  BY <1>1 DEF InOrder
<1>6. {a \in Applications : db'[a].status # "none"} = {a \in Applications : db[a].status # "none"}
  BY <1>1, <1>2, <1>3, <1>4, <1>5
<1>7. CASE call[c].op = "assign"
  <2>1. Accepted' = {call[c].application}
    BY <1>1, <1>2, <1>3, <1>7 DEF Accepted, WinnersListed, Assigning, HasListed, InOrder
  <2>2. Abstract!Award(call[c].application)
    BY <1>2, <1>3, <1>6, <1>7, <2>1 DEF Abstract!Award
  <2>3. QED BY <1>3, <1>7, <2>2 DEF Abstract!AwardNext
<1>8. CASE call[c].op = "cancel"
  <2>1. Accepted' \subseteq Accepted
    BY <1>2, <1>4, <1>8 DEF Accepted
  <2>2. Abstract!Cancel
    BY <1>2, <1>6, <1>8, <2>1 DEF Abstract!Cancel
  <2>3. QED BY <2>2 DEF Abstract!AwardNext
<1>9. QED BY <1>2, <1>7, <1>8

LEMMA RefinesApply ==
    ASSUME TypeOK, NEW c \in Calls, CreateApplication(c)
    PROVE  Abstract!AwardNext
<1>1. PICK a \in Applications : Unused(a) /\ db' = [db EXCEPT ![a] = Pending(call[c].user)]
  BY DEF CreateApplication
<1>2. /\ db[a].status = "none" /\ db'[a].status = "pending"
      /\ \A b \in Rows \ {a} : db'[b] = db[b]
  BY <1>1, NoneType, RowsDistinct DEF Unused, Pending, TypeOK
<1>3. Abstract!Apply(a)
  BY <1>2, RowsDistinct DEF Abstract!Apply, Accepted
<1>4. QED BY <1>3 DEF Abstract!AwardNext

LEMMA RefinesNext == AwardInv /\ [Next]_vars => [Abstract!AwardNext]_(Abstract!awardVars)
<1> SUFFICES ASSUME AwardInv, [Next]_vars
             PROVE  Abstract!AwardNext \/ UNCHANGED Abstract!awardVars
  OBVIOUS
<1>1. ASSUME NEW c \in Calls, Step(c) PROVE Abstract!AwardNext \/ UNCHANGED db
  BY <1>1, RefinesCommit, RefinesApply
  DEF Step, FindExisting, FindApplication, FindMembers, CreateMember, UpdateMember,
      AcceptApplication, ListApplications, CancelListed, CompleteOpportunity, FulfilRequest,
      CloseCanceled, AwardInv
<1>2. ASSUME NEW c \in Calls, Begin(c) \/ AbortVictim(c) \/ Crash(c) PROVE UNCHANGED db
  BY <1>2 DEF Begin, BeginApply, BeginAssign, BeginCancel, AbortVictim, Crash, RollBack
<1>3. UNCHANGED vars => UNCHANGED db
  BY DEF vars
<1>4. Abstract!AwardNext \/ UNCHANGED db
  BY <1>1, <1>2, <1>3 DEF Next
<1>5. QED BY <1>4, RefinesStutter

\* Every commit of the detailed specification is one award or cancellation of the
\* abstract one, and nothing else it does can be told from the tables.
THEOREM Refinement == Spec => ImplementsAward
  BY RefinesInit, RefinesNext, InvCorrect, PTL DEF Spec, ImplementsAward, Abstract!AwardSpec

-----------------------------------------------------------------------------
(* Awards are whole.                                                       *)

\* The application of an assignment has a user as long as it is there.
Applicant(c) == db[call[c].application].user

\* A member row of u with a role that an award leaves or makes it.
Leads(version, u) ==
    version.status = "active" /\ version.user = u /\ version.role \in KeptRoles

\* Members are inserted active; an award writes copilots only.
MembersGrow ==
    /\ \A m \in Members : db[m] = None \/ db[m].status = "active"
    /\ \A c \in Calls, m \in Members : writes[c][m] # Null =>
         /\ Assigning(c, {"accept"} \cup HasAccepted)
         /\ writes[c][m].status = "active" /\ writes[c][m].role \in KeptRoles
         /\ db[m] = None \/ db[m].user = writes[c][m].user

\* Settling an application leaves its user alone.
UsersKept ==
    \A c \in Calls, b \in Applications : writes[c][b] # Null => writes[c][b].user = db[b].user

\* An assignment has a member to update, then a copilot or a manager, then a fulfilled request.
JoinedInOrder(c) ==
    /\ Assigning(c, {"updateMember"}) =>
         db[call[c].member].status = "active" /\ db[call[c].member].user = Applicant(c)
    /\ Assigning(c, {"accept"} \cup HasAccepted) =>
         \E m \in Members : Leads(Visible(c, m), Applicant(c))
    /\ Assigning(c, {"commit"}) =>
         writes[c][Request] # Null /\ writes[c][Request].status = "fulfilled"

WholeInv == MembersGrow /\ UsersKept /\ (\A c \in Calls : JoinedInOrder(c)) /\ AwardIsWhole

LEMMA WholeInit == Init => WholeInv
<1> SUFFICES ASSUME Init PROVE WholeInv
  OBVIOUS
<1>1. \A c \in Calls : call[c] = NoCall /\ writes[c] = NoWrites
  BY DEF Init
<1>2. \A m \in Members : db[m] = None \/ db[m].status = "active"
  BY RowsDistinct DEF Init, Joined
<1>3. db[Opportunity].status = "active"
  BY RowsDistinct DEF Init, Row, None
<1>4. QED
  BY <1>1, <1>2, <1>3, RowsDistinct
  DEF WholeInv, MembersGrow, UsersKept, JoinedInOrder, AwardIsWhole, Assigning, NoCall, NoWrites

\* What is left to show of a step of c that commits nothing.
LEMMA WholeStep ==
    ASSUME AwardInv, WholeInv, NEW c \in Calls, UNCHANGED db,
           \A d \in Calls \ {c} : call'[d] = call[d] /\ writes'[d] = writes[d],
           \A m \in Members : writes'[c][m] # Null =>
             /\ Assigning(c, {"accept"} \cup HasAccepted)'
             /\ writes'[c][m].status = "active" /\ writes'[c][m].role \in KeptRoles
             /\ db[m] = None \/ db[m].user = writes'[c][m].user,
           \A b \in Applications : writes'[c][b] # Null => writes'[c][b].user = db[b].user,
           JoinedInOrder(c)'
    PROVE  WholeInv'
<1>1. MembersGrow'
  BY DEF WholeInv, MembersGrow, Assigning
<1>2. UsersKept'
  BY DEF WholeInv, UsersKept
<1>3. ASSUME NEW d \in Calls \ {c} PROVE JoinedInOrder(d)'
  BY DEF WholeInv, JoinedInOrder, Assigning, Applicant, Visible
<1>4. AwardIsWhole'
  BY DEF WholeInv, AwardIsWhole, Accepted
<1>5. QED BY <1>1, <1>2, <1>3, <1>4 DEF WholeInv

\* A call that begins has neither joined anybody nor written a row.
LEMMA WholeBegin ==
    ASSUME AwardInv, WholeInv, NEW c \in Calls, Begin(c) PROVE WholeInv'
<1>1. /\ UNCHANGED <<db, writes>> /\ call[c] = NoCall /\ TypeOK
  BY DEF Begin, BeginApply, BeginAssign, BeginCancel, AwardInv
<1> DEFINE Elsewhere == /\ \A d \in Calls \ {c} : call'[d] = call[d]
                        /\ ~Assigning(c, {"updateMember", "accept"} \cup HasAccepted)'
<1>2. Elsewhere
  <2>1. ASSUME NEW u \in Users, BeginApply(c, u) PROVE Elsewhere
    BY <1>1, <2>1 DEF BeginApply, TypeOK, Assigning, NoCall
  <2>2. ASSUME NEW a \in Applications, BeginAssign(c, a) PROVE Elsewhere
    BY <1>1, <2>2 DEF BeginAssign, TypeOK, Assigning, NoCall, HasAccepted
  <2>3. CASE BeginCancel(c)
    BY <1>1, <2>3 DEF BeginCancel, TypeOK, Assigning, NoCall
  <2>4. QED BY <2>1, <2>2, <2>3 DEF Begin
<1>3. \A m \in Members : writes[c][m] = Null
  BY <1>1 DEF WholeInv, MembersGrow, Assigning, NoCall
<1>4. JoinedInOrder(c)'
  BY <1>2 DEF JoinedInOrder, Assigning, HasAccepted
<1>5. QED BY <1>1, <1>2, <1>3, <1>4, WholeStep DEF WholeInv, UsersKept

\* What a statement finds in the application of its call.
LEMMA Applicants ==
    ASSUME AwardInv, WholeInv, NEW c \in Calls, call[c].op = "assign"
    PROVE  /\ call[c].application \in Applications
           /\ Visible(c, call[c].application).user = Applicant(c)
  BY DEF AwardInv, TypeOK, CallState, WholeInv, UsersKept, Visible, Applicant

LEMMA WholeFindMembers ==
    ASSUME AwardInv, WholeInv, NEW c \in Calls, FindMembers(c) PROVE WholeInv'
<1>1. /\ call[c].pc = "findMembers" /\ call[c].op = "assign" /\ UNCHANGED <<db, writes>> /\ TypeOK
  BY DEF FindMembers, At, AwardInv
<1>2. \A m \in Members : writes[c][m] = Null
  BY <1>1 DEF WholeInv, MembersGrow, Assigning, HasAccepted
<1>3. CASE GoTo(c, "createMember")
  <2>1. ~Assigning(c, {"updateMember", "accept"} \cup HasAccepted)'
    BY <1>1, <1>3, GoToFacts DEF Assigning, HasAccepted
  <2>2. JoinedInOrder(c)'
    BY <2>1 DEF JoinedInOrder, Assigning, HasAccepted
  <2>3. QED BY <1>1, <1>2, <1>3, <2>2, GoToFacts, WholeStep DEF WholeInv, UsersKept
<1>4. ASSUME NEW m \in VisibleMembers(c, Visible(c, call[c].application).user),
             call' = [call EXCEPT ![c].member = m,
                                  ![c].pc = IF Visible(c, m).role \in KeptRoles THEN "accept"
                                                                     ELSE "updateMember"]
      PROVE  WholeInv'
  <2>1. /\ \A d \in Calls \ {c} : call'[d] = call[d]
        /\ call'[c].op = "assign" /\ call'[c].application = call[c].application
        /\ call'[c].member = m
        /\ call'[c].pc = IF Visible(c, m).role \in KeptRoles THEN "accept" ELSE "updateMember"
    BY <1>1, <1>4 DEF TypeOK, CallState
  <2>2. /\ m \in Members /\ Visible(c, m) = db[m]
        /\ db[m].status = "active" /\ db[m].user = Applicant(c)
    BY <1>1, <1>2, Applicants DEF VisibleMembers, Visible
  <2>3. Applicant(c)' = Applicant(c) /\ Visible(c, m)' = db[m]
    BY <1>1, <2>1, <2>2 DEF Applicant, Visible
  <2>4. JoinedInOrder(c)'
    <3>1. CASE db[m].role \in KeptRoles
      <4>1. Leads(Visible(c, m)', Applicant(c)')
        BY <2>2, <2>3, <3>1 DEF Leads, KeptRoles
      <4>2. QED BY <2>1, <2>2, <3>1, <4>1 DEF JoinedInOrder, Assigning, HasAccepted, Leads
    <3>2. CASE db[m].role \notin KeptRoles
      BY <1>1, <2>1, <2>2, <2>3, <3>2 DEF JoinedInOrder, Assigning, HasAccepted
    <3>3. QED BY <3>1, <3>2
  <2>5. QED BY <1>1, <1>2, <2>1, <2>4, WholeStep DEF WholeInv, UsersKept
<1>5. QED BY <1>3, <1>4 DEF FindMembers

LEMMA WholeJoin ==
    ASSUME AwardInv, WholeInv, NEW c \in Calls, CreateMember(c) \/ UpdateMember(c)
    PROVE  WholeInv'
<1>1. /\ call[c].pc \in {"createMember", "updateMember"} /\ call[c].op = "assign"
      /\ UNCHANGED db /\ TypeOK /\ GoTo(c, "accept")
  BY DEF CreateMember, UpdateMember, At, AwardInv
<1>2. \A m \in Members : writes[c][m] = Null
  BY <1>1 DEF WholeInv, MembersGrow, Assigning, HasAccepted
<1>3. PICK m \in Members, v \in Version :
        /\ writes' = [writes EXCEPT ![c][m] = v]
        /\ Leads(v, Applicant(c))
        /\ db[m] = None \/ db[m].user = v.user
  <2>1. CASE CreateMember(c)
    <3>1. PICK m \in Members : Unused(m) /\ writes' = [writes EXCEPT ![c][m] =
            Joined(Visible(c, call[c].application).user, "copilot")]
      BY <2>1 DEF CreateMember
    <3>2. Visible(c, call[c].application).user = Applicant(c) /\ Applicant(c) \in Users \cup {Null}
      BY <1>1, Applicants, RowsDistinct DEF Applicant, TypeOK, Version
    <3>3. Joined(Applicant(c), "copilot") \in Version
      BY <3>2, JoinedType DEF MemberRoles
    <3>4. QED BY <3>1, <3>2, <3>3 DEF Unused, Joined, Leads, KeptRoles
  <2>2. CASE UpdateMember(c)
    <3>1. /\ call[c].member \in Members /\ call[c].pc = "updateMember"
          /\ writes' = [writes EXCEPT ![c][call[c].member] =
                            [Visible(c, call[c].member) EXCEPT !.role = "copilot"]]
      BY <2>2 DEF UpdateMember, AwardInv, TypeOK, CallState, At
    <3>2. /\ Visible(c, call[c].member) = db[call[c].member] /\ db[call[c].member] \in Version
          /\ db[call[c].member].status = "active" /\ db[call[c].member].user = Applicant(c)
      BY <1>1, <1>2, <3>1, RowsDistinct DEF WholeInv, JoinedInOrder, Assigning, Visible, TypeOK
    <3>3. PICK v : v = [db[call[c].member] EXCEPT !.role = "copilot"]
      OBVIOUS
    <3>4. v \in Version /\ Leads(v, Applicant(c)) /\ v.user = db[call[c].member].user
      BY <3>2, <3>3 DEF Version, Leads, MemberRoles, KeptRoles
    <3>5. QED BY <3>1, <3>2, <3>3, <3>4
  <2>3. QED BY <2>1, <2>2
<1>4. /\ \A d \in Calls \ {c} : call'[d] = call[d] /\ writes'[d] = writes[d]
      /\ call'[c].pc = "accept" /\ call'[c].op = "assign"
      /\ call'[c].application = call[c].application
      /\ writes'[c][m] = v /\ \A r \in Rows \ {m} : writes'[c][r] = writes[c][r]
  BY <1>1, <1>3, GoToFacts, RowsDistinct DEF TypeOK
<1>5. Assigning(c, {"accept"} \cup HasAccepted)' /\ ~Assigning(c, {"commit"})'
      /\ ~Assigning(c, {"updateMember"})'
  BY <1>4 DEF Assigning
<1>6. JoinedInOrder(c)'
  <2>1. Visible(c, m)' = v /\ Applicant(c)' = Applicant(c)
    BY <1>1, <1>3, <1>4, NullIsNoVersion DEF Visible, Applicant
  <2>2. QED BY <1>3, <1>5, <2>1 DEF JoinedInOrder, Leads
<1>7. \A n \in Members : writes'[c][n] # Null => n = m
  BY <1>2, <1>4, RowsDistinct
<1>8. \A b \in Applications : writes'[c][b] = writes[c][b]
  BY <1>4, RowsDistinct
<1>9. \A n \in Members : writes'[c][n] # Null =>
        /\ writes'[c][n].status = "active" /\ writes'[c][n].role \in KeptRoles
        /\ db[n] = None \/ db[n].user = writes'[c][n].user
  BY <1>3, <1>4, <1>7 DEF Leads
<1>10. QED BY <1>1, <1>4, <1>5, <1>6, <1>8, <1>9, WholeStep DEF WholeInv, UsersKept

\* Statements that settle a row that is no member's.
LEMMA WholeSettle ==
    ASSUME AwardInv, WholeInv, NEW c \in Calls, NEW r \in Rows \ Members, NEW s \in Status,
           SetStatus(c, r, s), UNCHANGED db,
           \A d \in Calls \ {c} : call'[d] = call[d],
           call'[c].op = call[c].op, call'[c].application = call[c].application,
           call[c].pc \in {"accept"} \cup HasAccepted, call'[c].pc \in HasAccepted,
           Assigning(c, {"commit"})' =>
             r = Request /\ s = "fulfilled"
    PROVE  WholeInv'
<1>1. TypeOK /\ LocksExclusive
  BY DEF AwardInv
<1>2. /\ \A d \in Calls \ {c} : writes'[d] = writes[d]
      /\ \A q \in Rows \ {r} : writes'[c][q] = writes[c][q]
      /\ writes'[c][r] # Null /\ writes'[c][r].status = s
  BY <1>1, SetStatusFacts
<1>3. writes'[c][r].user = Visible(c, r).user
  <2>1. Visible(c, r) \in Version
    BY <1>1, VisibleType
  <2>2. writes'[c][r] = [Visible(c, r) EXCEPT !.status = s]
    BY <1>1 DEF SetStatus, TypeOK
  <2>3. QED BY <2>1, <2>2 DEF Version
<1>4. \A b \in Applications : writes'[c][b] # Null => writes'[c][b].user = db[b].user
  BY <1>2, <1>3, RowsDistinct DEF WholeInv, UsersKept, Visible
<1>5. \A m \in Members : writes'[c][m] = writes[c][m]
  BY <1>2, RowsDistinct
<1>6. /\ Assigning(c, {"accept"} \cup HasAccepted)' <=> Assigning(c, {"accept"} \cup HasAccepted)
      /\ ~Assigning(c, {"updateMember"})'
  BY DEF Assigning, HasAccepted
<1>7. JoinedInOrder(c)'
  <2>1. \A m \in Members : Visible(c, m)' = Visible(c, m)
    BY <1>5 DEF Visible
  <2>2. Applicant(c)' = Applicant(c)
    BY DEF Applicant
  <2>3. QED BY <1>2, <1>6, <2>1, <2>2 DEF WholeInv, JoinedInOrder, Assigning
<1>8. \A m \in Members : writes'[c][m] # Null =>
        /\ Assigning(c, {"accept"} \cup HasAccepted)'
        /\ writes'[c][m].status = "active" /\ writes'[c][m].role \in KeptRoles
        /\ db[m] = None \/ db[m].user = writes'[c][m].user
  BY <1>5, <1>6 DEF WholeInv, MembersGrow
<1>9. QED BY <1>2, <1>4, <1>7, <1>8, WholeStep

\* Statements that write nothing and neither join nor finish.
LEMMA WholeMove ==
    ASSUME AwardInv, WholeInv, NEW c \in Calls, UNCHANGED <<db, writes>>,
           \A d \in Calls \ {c} : call'[d] = call[d],
           call'[c].op = call[c].op, call'[c].application = call[c].application,
           ~Assigning(c, {"updateMember", "commit"})',
           call'[c].pc \in {"accept"} \cup HasAccepted => call[c].pc \in {"accept"} \cup HasAccepted,
           call[c].pc \in {"accept"} \cup HasAccepted => call'[c].pc \in {"accept"} \cup HasAccepted
    PROVE  WholeInv'
<1>1. Assigning(c, {"accept"} \cup HasAccepted)' <=> Assigning(c, {"accept"} \cup HasAccepted)
  BY DEF Assigning
<1>2. JoinedInOrder(c)'
  BY <1>1 DEF WholeInv, JoinedInOrder, Assigning, Applicant, Visible
<1>3. QED BY <1>1, <1>2, WholeStep DEF WholeInv, MembersGrow, UsersKept

LEMMA WholeRollBack ==
    ASSUME AwardInv, WholeInv, NEW c \in Calls, NEW pc \in {"deadlock", "crashed"}, RollBack(c, pc)
    PROVE  WholeInv'
<1>1. TypeOK /\ UNCHANGED db /\ writes' = [writes EXCEPT ![c] = NoWrites] /\ GoTo(c, pc)
  BY DEF AwardInv, RollBack
<1>2. /\ \A d \in Calls \ {c} : call'[d] = call[d] /\ writes'[d] = writes[d]
      /\ \A r \in Rows : writes'[c][r] = Null
      /\ call'[c].pc = pc
  BY <1>1, GoToFacts DEF TypeOK, NoWrites
<1>3. JoinedInOrder(c)'
  BY <1>2 DEF JoinedInOrder, Assigning, HasAccepted
<1>4. QED BY <1>1, <1>2, <1>3, RowsDistinct, WholeStep

LEMMA WholeApply ==
    ASSUME AwardInv, WholeInv, NEW c \in Calls, CreateApplication(c) PROVE WholeInv'
<1>1. /\ TypeOK /\ UNCHANGED writes /\ GoTo(c, "committed") /\ call[c].op = "apply"
      /\ \A d \in Calls : InOrder(d)
  BY DEF AwardInv, CallsInOrder, CreateApplication, At
<1>2. PICK a \in Applications : Unused(a) /\ db' = [db EXCEPT ![a] = Pending(call[c].user)]
  BY DEF CreateApplication
<1>3. /\ \A r \in Rows \ {a} : db'[r] = db[r]
      /\ db[a].status = "none" /\ \A d \in Calls : writes[d][a] = Null
      /\ db'[a].status = "pending"
  BY <1>1, <1>2, NoneType, RowsDistinct DEF Unused, TypeOK, Pending
<1>4. /\ \A d \in Calls \ {c} : call'[d] = call[d]
      /\ call'[c].op = "apply"
  BY <1>1, GoToFacts
<1>5. \A d \in Calls : \A pcs : Assigning(d, pcs)' <=> Assigning(d, pcs)
  BY <1>1, <1>4 DEF Assigning
<1>6. MembersGrow'
  <2>1. /\ \A m \in Members : db'[m] = db[m]
        /\ UNCHANGED writes
    BY <1>1, <1>3, RowsDistinct
  <2>2. \A d \in Calls : Assigning(d, {"accept"} \cup HasAccepted)' <=>
                         Assigning(d, {"accept"} \cup HasAccepted)
    BY <1>5
  <2>3. QED BY <2>1, <2>2 DEF WholeInv, MembersGrow
<1>7. UsersKept'
  BY <1>1, <1>3, RowsDistinct DEF WholeInv, UsersKept
<1>8. ASSUME NEW d \in Calls PROVE JoinedInOrder(d)'
  <2>1. CASE ~Assigning(d, {"updateMember", "accept"} \cup HasAccepted)
    BY <2>1, <1>5 DEF JoinedInOrder, Assigning, HasAccepted
  <2>2. CASE Assigning(d, {"updateMember", "accept"} \cup HasAccepted)
    <3>1. d # c /\ call'[d] = call[d]
      BY <1>1, <1>4, <2>2 DEF Assigning
    <3>2. call[d].application \in Applications /\ call[d].application # a
      BY <1>1, <1>3, <2>2 DEF InOrder, Found, Assigning, TypeOK, CallState
    <3>3. Applicant(d)' = Applicant(d)
      BY <1>3, <3>1, <3>2, RowsDistinct DEF Applicant
    <3>4. \A m \in Members : Visible(d, m)' = Visible(d, m) /\ db'[m] = db[m]
      BY <1>1, <1>3, RowsDistinct DEF Visible
    <3>5. Assigning(d, {"updateMember"}) => call[d].member \in Members
      BY <1>1 DEF TypeOK, CallState, Assigning
    <3>6. QED BY <1>1, <1>5, <3>1, <3>3, <3>4, <3>5 DEF WholeInv, JoinedInOrder
  <2>3. QED BY <2>1, <2>2
<1>9. AwardIsWhole'
  <2>1. Accepted \subseteq Accepted' /\ \A b \in Accepted : db'[b] = db[b]
    BY <1>3, RowsDistinct DEF Accepted
  <2>2. QED BY <1>3, <2>1, RowsDistinct DEF WholeInv, AwardIsWhole
<1>10. QED BY <1>6, <1>7, <1>8, <1>9 DEF WholeInv

LEMMA WholeCommit ==
    ASSUME AwardInv, WholeInv, NEW c \in Calls, Commit(c) PROVE WholeInv'
<1>1. /\ TypeOK /\ LocksExclusive /\ call[c].pc = "commit" /\ GoTo(c, "committed")
      /\ \A r \in Rows : db'[r] = Visible(c, r)
      /\ writes' = [writes EXCEPT ![c] = NoWrites]
  BY DEF AwardInv, Commit
<1>2. /\ \A d \in Calls \ {c} : writes'[d] = writes[d] /\ call'[d] = call[d]
      /\ \A r \in Rows : writes'[c][r] = Null
      /\ call'[c].pc = "committed"
  BY <1>1, GoToFacts DEF TypeOK, NoWrites
<1>3. ASSUME NEW d \in Calls \ {c}, NEW r \in Rows, writes[d][r] # Null
      PROVE  db'[r] = db[r]
  BY <1>1, <1>3 DEF LocksExclusive, Visible
<1>4. \A b \in Applications : db'[b].user = db[b].user
  BY <1>1, RowsDistinct DEF WholeInv, UsersKept, Visible
<1>5. ASSUME NEW m \in Members
      PROVE  /\ db'[m] = None \/ db'[m].status = "active"
             /\ db[m].status = "active" =>
                  /\ db'[m].status = "active" /\ db'[m].user = db[m].user
                  /\ db[m].role \in KeptRoles => db'[m].role \in KeptRoles
  <2>1. CASE writes[c][m] = Null
    BY <1>1, <2>1, RowsDistinct DEF WholeInv, MembersGrow, Visible
  <2>2. CASE writes[c][m] # Null
    BY <1>1, <2>2, NoneType, RowsDistinct DEF WholeInv, MembersGrow, Visible
  <2>3. QED BY <2>1, <2>2
<1>6. MembersGrow'
  BY <1>2, <1>3, <1>5, RowsDistinct DEF WholeInv, MembersGrow, Assigning
<1>7. UsersKept'
  BY <1>2, <1>3, RowsDistinct DEF WholeInv, UsersKept
<1>8. ASSUME NEW d \in Calls \ {c} PROVE JoinedInOrder(d)'
  <2>1. call[d].op = "assign" => Applicant(d)' = Applicant(d)
    BY <1>2, <1>4, Applicants DEF Applicant
  <2>2. ASSUME Assigning(d, {"updateMember"})
        PROVE  /\ db'[call[d].member].status = "active"
               /\ db'[call[d].member].user = Applicant(d)
    <3>1. call[d].member \in Members
      BY <1>1, <2>2 DEF TypeOK, CallState, Assigning
    <3>2. QED BY <1>5, <2>2, <3>1 DEF WholeInv, JoinedInOrder
  <2>3. ASSUME Assigning(d, {"accept"} \cup HasAccepted)
        PROVE  \E m \in Members : Leads(Visible(d, m)', Applicant(d))
    <3>1. PICK m \in Members : Leads(Visible(d, m), Applicant(d))
      BY <2>3 DEF WholeInv, JoinedInOrder
    <3>2. CASE writes[d][m] # Null
      BY <1>2, <3>1, <3>2 DEF Visible
    <3>3. CASE writes[d][m] = Null
      BY <1>2, <1>5, <3>1, <3>3 DEF Visible, Leads
    <3>4. QED BY <3>2, <3>3
  <2>4. JoinedInOrder(d)
    BY DEF WholeInv
  <2>5. QED BY <1>2, <2>1, <2>2, <2>3, <2>4 DEF JoinedInOrder, Assigning
<1>9. JoinedInOrder(c)'
  BY <1>2 DEF JoinedInOrder, Assigning, HasAccepted
<1>10. AwardIsWhole'
  <2>1. CASE call[c].op = "cancel"
    BY <2>1, CommitEffect DEF AwardIsWhole
  <2>2. CASE call[c].op = "assign"
    <3>1. /\ call[c].application \in Applications
          /\ Assigning(c, {"accept"} \cup HasAccepted) /\ Assigning(c, {"commit"})
      BY <1>1, <2>2, Applicants DEF Assigning, HasAccepted
    <3>2. db'[Request].status = "fulfilled"
      BY <1>1, <3>1, RowsDistinct DEF WholeInv, JoinedInOrder, Visible
    <3>3. PICK m \in Members : Leads(Visible(c, m), Applicant(c))
      BY <3>1 DEF WholeInv, JoinedInOrder
    <3>4. /\ db'[m].status = "active" /\ db'[m].role \in KeptRoles
          /\ db'[m].user = db'[call[c].application].user
      BY <1>1, <1>4, <3>1, <3>3, RowsDistinct DEF Leads, Applicant
    <3>5. call[c].application \in Accepted'
      <4>1. call[c].application \notin call[c].listed
        BY DEF AwardInv, CallsInOrder, InOrder
      <4>2. QED BY <3>1, <4>1, CommitEffect DEF Accepted
    <3>6. QED BY <3>2, <3>4, <3>5 DEF AwardIsWhole
  <2>3. QED BY <2>1, <2>2, CommitEffect
<1>11. QED BY <1>6, <1>7, <1>8, <1>9, <1>10 DEF WholeInv

LEMMA WholeNext == AwardInv /\ WholeInv /\ [Next]_vars => WholeInv'
<1> SUFFICES ASSUME AwardInv, WholeInv, [Next]_vars PROVE WholeInv'
  OBVIOUS
<1>1. TypeOK
  BY DEF AwardInv
<1>2. ASSUME NEW c \in Calls, FindExisting(c) \/ FindApplication(c) \/ ListApplications(c)
      PROVE  WholeInv'
  <2>1. CASE FindExisting(c)
    <3>1. PICK pc \in {"committed", "create"} : GoTo(c, pc)
      BY <2>1 DEF FindExisting
    <3>2. QED BY <1>1, <2>1, <3>1, GoToFacts, WholeMove
          DEF FindExisting, At, Assigning, HasAccepted
  <2>2. CASE FindApplication(c)
    <3>1. PICK pc \in {"rejected", "findMembers"} : GoTo(c, pc)
      BY <2>2 DEF FindApplication
    <3>2. QED BY <1>1, <2>2, <3>1, GoToFacts, WholeMove
          DEF FindApplication, At, Assigning, HasAccepted
  <2>3. CASE ListApplications(c)
    <3>1. /\ UNCHANGED <<db, writes>> /\ call[c].pc = "list"
          /\ \A d \in Calls \ {c} : call'[d] = call[d]
          /\ call'[c].pc = "cancelListed" /\ call'[c].op = call[c].op
          /\ call'[c].application = call[c].application
      BY <1>1, <2>3 DEF ListApplications, TypeOK, CallState
    <3>2. QED BY <3>1, WholeMove DEF Assigning, HasAccepted
  <2>4. QED BY <1>2, <2>1, <2>2, <2>3
<1>3. ASSUME NEW c \in Calls, AcceptApplication(c) PROVE WholeInv'
  <2>1. /\ call[c].op = "assign" /\ call[c].pc = "accept" /\ GoTo(c, "list") /\ UNCHANGED db
        /\ SetStatus(c, call[c].application, "accepted")
    BY <1>3 DEF AcceptApplication, At
  <2>2. call[c].application \in Rows \ Members /\ "accepted" \in Status
    BY <2>1, Applicants, RowsDistinct DEF Status
  <2>3. QED BY <1>1, <2>1, <2>2, GoToFacts, WholeSettle DEF Assigning, HasAccepted
<1>4. ASSUME NEW c \in Calls, CancelListed(c) PROVE WholeInv'
  <2>1. call[c].pc = "cancelListed" /\ UNCHANGED db
    BY <1>4 DEF CancelListed
  <2>2. ASSUME NEW b \in Uncanceled(c), SetStatus(c, b, "canceled"), UNCHANGED call PROVE WholeInv'
    <3>1. b \in Rows \ Members /\ "canceled" \in Status
      BY <1>1, RowsDistinct DEF Uncanceled, Status, TypeOK, CallState
    <3>2. QED BY <2>1, <2>2, <3>1, WholeSettle DEF Assigning, HasAccepted
  <2>3. CASE GoTo(c, "close") /\ UNCHANGED writes
    BY <1>1, <2>1, <2>3, GoToFacts, WholeMove DEF Assigning, HasAccepted
  <2>4. QED BY <1>4, <2>2, <2>3 DEF CancelListed
<1>5. ASSUME NEW c \in Calls, CompleteOpportunity(c) \/ FulfilRequest(c) \/ CloseCanceled(c)
      PROVE  WholeInv'
  <2>1. PICK r \in {Opportunity, Request}, s \in {"completed", "fulfilled", "canceled"},
             pc \in {"fulfil", "commit"} :
          /\ SetStatus(c, r, s) /\ GoTo(c, pc) /\ UNCHANGED db
          /\ call[c].pc \in {"close", "fulfil"}
          /\ call[c].op = "assign" /\ pc = "commit" => r = Request /\ s = "fulfilled"
    BY <1>5 DEF CompleteOpportunity, FulfilRequest, CloseCanceled, At
  <2>2. r \in Rows \ Members /\ s \in Status
    BY RowsDistinct DEF Status
  <2>3. QED BY <1>1, <2>1, <2>2, GoToFacts, WholeSettle DEF Assigning, HasAccepted
<1>6. ASSUME NEW c \in Calls, Step(c) PROVE WholeInv'
  BY <1>2, <1>3, <1>4, <1>5, <1>6, WholeApply, WholeFindMembers, WholeJoin, WholeCommit DEF Step
<1>7. ASSUME NEW c \in Calls, AbortVictim(c) \/ Crash(c) PROVE WholeInv'
  BY <1>7, WholeRollBack DEF AbortVictim, Crash
<1>8. CASE UNCHANGED vars
  BY <1>8 DEF vars, WholeInv, MembersGrow, UsersKept, JoinedInOrder, AwardIsWhole, Accepted, Assigning,
     Applicant, Visible
<1>9. QED BY <1>6, <1>7, <1>8, WholeBegin DEF Next

\* A committed award is seen whole: the opportunity that reads completed has an accepted
\* application, whose user is a copilot or a manager of the project, and a fulfilled request.
THEOREM AwardIsWholeCorrect == Spec => []AwardIsWhole
<1>1. WholeInv => AwardIsWhole
  BY DEF WholeInv
<1>2. QED BY <1>1, WholeInit, WholeNext, InvCorrect, PTL DEF Spec

=============================================================================
