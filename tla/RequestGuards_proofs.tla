------------------------ MODULE RequestGuards_proofs ------------------------
(* What holds of the way of a request through the guards, for any callers,    *)
(* roles and scopes they hold together, and any number of changes meanwhile.  *)
EXTENDS RequestGuards, TLAPS

----------------------------------------------------------------------------
(* The inductive invariant.                                                   *)

Says(role, invited) == Permitted(endpoint, caller, role, invited)

(* What the permissions say of such a row has been seen.                      *)
Seen(role, invited) == IF Says(role, invited) THEN TRUE \in verdicts ELSE FALSE \in verdicts

Deciding == stage \in {"permission", "noPermission"}

(* What was loaded was true of the project when it was loaded.                *)
Loaded ==
    /\ stage = "token" => context.role = NotLoaded /\ context.invited = {}
    /\ Deciding =>
        /\ context.role # NotLoaded => \E invited \in BOOLEAN : Seen(context.role, invited)
        /\ \A invited \in context.invited : \E role \in Memberships : Seen(role, invited)
    /\ Deciding /\ changes = 0 =>
        /\ context.role \in {NotLoaded, project.role}
        /\ context.invited \subseteq {project.invited}

Decided ==
    /\ stage = "noPermission" =>
        /\ context.user /\ ~MustLoadMembers /\ ~MustLoadInvites
        /\ ~Says(context.role, TRUE \in context.invited)
    /\ Admitted /\ endpoint.permissions # {} => TRUE \in verdicts
    /\ stage \in {"context", "handled"} /\ endpoint.project /\ Restricted => TRUE \in insides

GuardInv ==
    /\ TypeOK
    /\ Seen(project.role, project.invited)
    /\ changes = 0 /\ TRUE \in verdicts => Says(project.role, project.invited)
    /\ Inside(project) => TRUE \in insides
    /\ Loaded
    /\ Decided

----------------------------------------------------------------------------
(* Rules.                                                                     *)

LEMMA ExpandsNothing == ExpandScopes({}) = {}
<1>1. {NormalizeScope(s) : s \in {}} = {}
  OBVIOUS
<1>2. Implied({}) = {}
  BY DEF Implied
<1>3. QED BY <1>1, <1>2 DEF ExpandScopes

(* What a rule accepts of a caller whose project it does not know.            *)
Alone(rule, c) ==
    \/ rule.any
    \/ c.roles \cap rule.roles # {}
    \/ rule.scopes # {} /\ HasRequiredScopes(c.scopes, rule.scopes)
    \/ /\ c.isMachine
       /\ rule.machineScopes # {}
       /\ HasRequiredScopes(c.scopes, rule.machineScopes)

Role(role) == IF role = NotLoaded THEN "none" ELSE role

LEMMA AcceptsSplit ==
    ASSUME NEW rule, NEW c, NEW role, NEW invited
    PROVE  Accepts(rule, c, Member(role), invited) <=>
               \/ Alone(rule, c)
               \/ Role(role) \in rule.members
               \/ rule.invite /\ invited
<1>1. Member(role).role = Role(role) /\ ~Member(role).isPrimary
  BY DEF Member, Role
<1>2. QED BY <1>1 DEF Accepts, Alone

LEMMA Coverage ==
    ASSUME NEW rules, NEW rule, Covers(rules, rule), NEW c, NEW role, NEW invited,
           Accepts(rule, c, Member(role), invited)
    PROVE  \E r \in rules : Accepts(r, c, Member(role), invited)
<1> SUFFICES \E r \in rules : \/ Alone(r, c)
                              \/ Role(role) \in r.members
                              \/ r.invite /\ invited
  BY AcceptsSplit
<1>1. CASE \E r \in rules : r.any
  BY <1>1 DEF Alone
<1>2. CASE ~\E r \in rules : r.any
  <2>1. /\ ~rule.any
        /\ rule.roles \subseteq UNION {r.roles : r \in rules}
        /\ rule.members \subseteq UNION {r.members : r \in rules}
        /\ rule.invite => \E r \in rules : r.invite
        /\ ExpandScopes(rule.scopes) \subseteq UNION {ExpandScopes(r.scopes) : r \in rules}
        /\ ExpandScopes(rule.machineScopes) \subseteq
               UNION {ExpandScopes(r.scopes) \cup ExpandScopes(r.machineScopes) : r \in rules}
    BY <1>2 DEF Covers
  <2>2. CASE c.roles \cap rule.roles # {}
    <3>1. PICK x \in c.roles \cap rule.roles : TRUE
      BY <2>2
    <3>2. PICK r \in rules : x \in r.roles
      BY <2>1
    <3>3. QED BY <3>2 DEF Alone
  <2>3. CASE Role(role) \in rule.members
    <3>1. PICK r \in rules : Role(role) \in r.members
      BY <2>1, <2>3
    <3>2. QED BY <3>1
  <2>4. CASE rule.invite /\ invited
    BY <2>1, <2>4
  <2>5. CASE rule.scopes # {} /\ HasRequiredScopes(c.scopes, rule.scopes)
    <3>1. PICK x \in ExpandScopes(rule.scopes) : x \in ExpandScopes(c.scopes)
      BY <2>5 DEF HasRequiredScopes
    <3>2. PICK r \in rules : x \in ExpandScopes(r.scopes)
      BY <2>1
    <3>3. r.scopes # {} /\ HasRequiredScopes(c.scopes, r.scopes)
      BY <3>1, <3>2, ExpandsNothing DEF HasRequiredScopes
    <3>4. QED BY <3>3 DEF Alone
  <2>6. CASE /\ c.isMachine
             /\ rule.machineScopes # {}
             /\ HasRequiredScopes(c.scopes, rule.machineScopes)
    <3>1. PICK x \in ExpandScopes(rule.machineScopes) : x \in ExpandScopes(c.scopes)
      BY <2>6 DEF HasRequiredScopes
    <3>2. PICK r \in rules : x \in ExpandScopes(r.scopes) \cup ExpandScopes(r.machineScopes)
      BY <2>1
    <3>3. CASE x \in ExpandScopes(r.scopes)
      <4>1. r.scopes # {} /\ HasRequiredScopes(c.scopes, r.scopes)
        BY <3>1, <3>3, ExpandsNothing DEF HasRequiredScopes
      <4>2. QED BY <4>1 DEF Alone
    <3>4. CASE x \in ExpandScopes(r.machineScopes)
      <4>1. r.machineScopes # {} /\ HasRequiredScopes(c.scopes, r.machineScopes)
        BY <3>1, <3>4, ExpandsNothing DEF HasRequiredScopes
      <4>2. QED BY <2>6, <4>1 DEF Alone
    <3>5. QED BY <3>2, <3>3, <3>4
  <2>7. \/ Alone(rule, c)
        \/ Role(role) \in rule.members
        \/ rule.invite /\ invited
    BY AcceptsSplit
  <2>8. QED BY <2>1, <2>2, <2>3, <2>4, <2>5, <2>6, <2>7 DEF Alone
<1>3. QED BY <1>1, <1>2

LEMMA PermittedByRule ==
    ASSUME NEW e, NEW c, NEW role, NEW invited
    PROVE  Permitted(e, c, role, invited) <=>
               \E rule \in RulesOf(e) : Accepts(rule, c, Member(role), invited)
<1> QED BY DEF Permitted, HasNamedPermission, RulesOf

(* An invite only adds.                                                       *)
LEMMA InviteAdds ==
    ASSUME NEW e, NEW c, NEW role, NEW invited, NEW more, invited => more,
           Permitted(e, c, role, invited)
    PROVE  Permitted(e, c, role, more)
<1>1. PICK rule \in RulesOf(e) : Accepts(rule, c, Member(role), invited)
  BY PermittedByRule
<1>2. Accepts(rule, c, Member(role), more)
  BY <1>1, AcceptsSplit
<1>3. QED BY <1>2, PermittedByRule

----------------------------------------------------------------------------
(* The steps.                                                                 *)

LEMMA VerdictsAreBoolean ==
    ASSUME NEW r, NEW rows
    PROVE  Verdict(r, rows) \in BOOLEAN /\ Inside(rows) \in BOOLEAN
<1> QED BY DEF Verdict, Permitted, Inside

LEMMA NotLoadedIsNoRole == "none" \in Memberships /\ NotLoaded \notin Memberships
<1> QED BY MembershipsAssumption DEF NotLoaded, ProjectMemberRole, PROJECT_MEMBER_MANAGER_ROLES

LEMMA Start == Init => GuardInv
<1> SUFFICES ASSUME Init PROVE GuardInv
  OBVIOUS
<1>1. TypeOK
  <2>1. verdicts \subseteq BOOLEAN /\ insides \subseteq BOOLEAN
    BY VerdictsAreBoolean DEF Init
  <2>2. changes \in 0 .. MaxChanges
    BY ChangesAssumption DEF Init
  <2>3. QED BY <2>1, <2>2 DEF Init, TypeOK
<1>2. Verdict(request, project) <=> Says(project.role, project.invited)
  BY DEF Verdict, Says, endpoint, caller
<1>3. Seen(project.role, project.invited)
  <2>1. CASE Says(project.role, project.invited)
    <3>1. Verdict(request, project) = TRUE
      BY <1>2, <2>1, VerdictsAreBoolean
    <3>2. TRUE \in verdicts
      BY <3>1 DEF Init
    <3>3. QED BY <2>1, <3>2 DEF Seen
  <2>2. CASE ~Says(project.role, project.invited)
    <3>1. Verdict(request, project) = FALSE
      BY <1>2, <2>2, VerdictsAreBoolean
    <3>2. FALSE \in verdicts
      BY <3>1 DEF Init
    <3>3. QED BY <2>2, <3>2 DEF Seen
  <2>3. QED BY <2>1, <2>2
<1>4. TRUE \in verdicts => Says(project.role, project.invited)
  BY <1>2 DEF Init
<1>5. Inside(project) => TRUE \in insides
  <2> SUFFICES ASSUME Inside(project) PROVE TRUE \in insides
    OBVIOUS
  <2>1. Inside(project) = TRUE
    BY VerdictsAreBoolean
  <2>2. QED BY <2>1 DEF Init
<1>6. stage = "token" /\ context.role = NotLoaded /\ context.invited = {}
  BY DEF Init
<1>7. Loaded /\ Decided
  BY <1>6 DEF Loaded, Decided, Deciding, Admitted
<1>8. QED BY <1>1, <1>3, <1>4, <1>5, <1>7 DEF GuardInv

(* A guard leaves alone what the permissions say of the project.              *)
LEMMA GuardKeeps ==
    ASSUME GuardInv, UNCHANGED <<request, project, changes, verdicts, insides>>
    PROVE  /\ Seen(project.role, project.invited)'
           /\ (changes = 0 /\ TRUE \in verdicts => Says(project.role, project.invited))'
           /\ (Inside(project) => TRUE \in insides)'
           /\ \A role, invited : Says(role, invited)' <=> Says(role, invited)
           /\ \A role, invited : Seen(role, invited)' <=> Seen(role, invited)
<1>1. \A role, invited : Says(role, invited)' <=> Says(role, invited)
  BY DEF Says, endpoint, caller
<1>2. \A role, invited : Seen(role, invited)' <=> Seen(role, invited)
  BY <1>1 DEF Seen
<1>3. PICK row : row = project
  OBVIOUS
<1>4. Seen(row.role, row.invited)' /\ row' = project'
  BY <1>2, <1>3 DEF GuardInv
<1>5. (changes = 0 /\ TRUE \in verdicts => Says(row.role, row.invited))'
  BY <1>1, <1>3 DEF GuardInv
<1>6. (Inside(project) => TRUE \in insides)'
  BY DEF GuardInv, Inside
<1>7. QED
  <2>1. Seen(project.role, project.invited)'
    BY <1>3, <1>4 DEF Seen, Says, endpoint, caller
  <2>2. (changes = 0 /\ TRUE \in verdicts => Says(project.role, project.invited))'
    BY <1>3, <1>5 DEF Says, endpoint, caller
  <2>3. QED BY <2>1, <2>2, <1>1, <1>2, <1>6

LEMMA TokenVerdicts ==
    ASSUME NEW e, NEW c
    PROVE  TokenVerdict(e, c) \in {"noMetadata", "permission", "noScope", "noRole"}
<1>1. CASE ~DeclaresAccess(e)
  BY <1>1 DEF TokenVerdict
<1>2. CASE DeclaresAccess(e) /\ (e.any \/ (e.roles = {} /\ e.scopes = {}))
  BY <1>2 DEF TokenVerdict
<1>3. CASE DeclaresAccess(e) /\ ~(e.any \/ (e.roles = {} /\ e.scopes = {}))
  BY <1>3 DEF TokenVerdict
<1>4. QED BY <1>1, <1>2, <1>3

LEMMA CheckTokenKeeps == GuardInv /\ CheckToken => GuardInv'
<1> SUFFICES ASSUME GuardInv, CheckToken PROVE GuardInv'
  OBVIOUS
<1>1. UNCHANGED <<request, project, changes, verdicts, insides>>
  BY DEF CheckToken, To
<1>2. stage' \in {"unauthorized", "noMetadata", "permission", "noScope", "noRole"}
  BY TokenVerdicts DEF CheckToken, To
<1>3. /\ context.role = NotLoaded /\ context.invited = {}
      /\ context' = [context EXCEPT !.user = context'.user] /\ context'.user \in BOOLEAN
  BY DEF CheckToken, GuardInv, Loaded, TypeOK
<1>4. context'.role = NotLoaded /\ context'.invited = {}
  BY <1>3 DEF GuardInv, TypeOK
<1>5. TypeOK'
  BY <1>1, <1>2, <1>3 DEF GuardInv, TypeOK, Refusals
<1>6. Loaded' /\ Decided'
  BY <1>2, <1>4 DEF Loaded, Decided, Deciding, Admitted
<1>7. QED BY <1>1, <1>5, <1>6, GuardKeeps DEF GuardInv

LEMMA LoadMembersKeeps == GuardInv /\ LoadMembers => GuardInv'
<1> SUFFICES ASSUME GuardInv, LoadMembers PROVE GuardInv'
  OBVIOUS
<1>1. UNCHANGED <<request, project, changes, verdicts, insides>> /\ stage' = "permission"
  BY DEF LoadMembers, To
<1>2. PICK row \in [role : Memberships, invited : BOOLEAN, internal : BOOLEAN] : row = project
  BY DEF GuardInv, TypeOK
<1>3. /\ context' = [context EXCEPT !.role = row.role] /\ stage = "permission"
      /\ context'.role = row.role /\ context'.invited = context.invited
  BY <1>2 DEF LoadMembers, GuardInv, TypeOK
<1>4. TypeOK'
  BY <1>1, <1>2, <1>3 DEF GuardInv, TypeOK
<1>5. Seen(row.role, row.invited)'
  BY <1>1, <1>2, GuardKeeps DEF GuardInv
<1>6. Loaded'
  <2>1. \E invited \in BOOLEAN : Seen(row.role, invited)'
    BY <1>2, <1>5
  <2>2. \A invited \in context.invited : \E role \in Memberships : Seen(role, invited)'
    BY <1>1, <1>3, GuardKeeps DEF GuardInv, Loaded, Deciding
  <2>3. changes = 0 => context.invited \subseteq {row.invited}
    BY <1>2, <1>3 DEF GuardInv, Loaded, Deciding
  <2>4. (\E invited \in BOOLEAN : Seen(context.role, invited))'
    BY <1>3, <2>1 DEF Seen, Says, endpoint, caller
  <2>5. (\A invited \in context.invited : \E role \in Memberships : Seen(role, invited))'
    BY <1>3, <2>2
  <2>6. QED BY <1>1, <1>2, <1>3, <2>3, <2>4, <2>5 DEF Loaded, Deciding
<1>7. Decided'
  BY <1>1 DEF Decided, Admitted
<1>8. QED BY <1>1, <1>4, <1>6, <1>7, GuardKeeps DEF GuardInv

LEMMA LoadInvitesKeeps == GuardInv /\ LoadInvites => GuardInv'
<1> SUFFICES ASSUME GuardInv, LoadInvites PROVE GuardInv'
  OBVIOUS
<1>1. UNCHANGED <<request, project, changes, verdicts, insides>> /\ stage' = "permission"
  BY DEF LoadInvites, To
<1>2. PICK row \in [role : Memberships, invited : BOOLEAN, internal : BOOLEAN] : row = project
  BY DEF GuardInv, TypeOK
<1>3. /\ context' = [context EXCEPT !.invited = {row.invited}] /\ stage = "permission"
      /\ context'.role = context.role /\ context'.invited = {row.invited}
  BY <1>2 DEF LoadInvites, GuardInv, TypeOK
<1>4. TypeOK'
  BY <1>1, <1>2, <1>3 DEF GuardInv, TypeOK
<1>5. Seen(row.role, row.invited)'
  BY <1>1, <1>2, GuardKeeps DEF GuardInv
<1>6. Loaded'
  <2>1. PICK held : held = context.role
    OBVIOUS
  <2>2. held # NotLoaded => \E invited \in BOOLEAN : Seen(held, invited)'
    BY <1>1, <1>3, <2>1, GuardKeeps DEF GuardInv, Loaded, Deciding
  <2>3. changes = 0 => held \in {NotLoaded, row.role}
    BY <1>2, <1>3, <2>1 DEF GuardInv, Loaded, Deciding
  <2>4. context'.role = held
    BY <1>3, <2>1
  <2>5. (context.role # NotLoaded => \E invited \in BOOLEAN : Seen(context.role, invited))'
    BY <2>2, <2>4 DEF Seen, Says, endpoint, caller
  <2>6. (\A invited \in context.invited : \E role \in Memberships : Seen(role, invited))'
    BY <1>2, <1>3, <1>5
  <2>7. QED BY <1>1, <1>2, <1>3, <2>3, <2>4, <2>5, <2>6 DEF Loaded, Deciding
<1>7. Decided'
  BY <1>1 DEF Decided, Admitted
<1>8. QED BY <1>1, <1>4, <1>6, <1>7, GuardKeeps DEF GuardInv

(* What the guard knows of the members and invites when it decides.           *)
LEMMA DecidesOnSeen ==
    ASSUME GuardInv, stage = "permission", ~MustLoadMembers, ~MustLoadInvites, context.user,
           Says(context.role, TRUE \in context.invited)
    PROVE  TRUE \in verdicts
<1>1. PICK held, asked : held = context.role /\ asked = (TRUE \in context.invited)
  OBVIOUS
<1>2. Permitted(endpoint, caller, held, asked) /\ endpoint \in Endpoints
  BY <1>1 DEF Says, GuardInv, TypeOK, endpoint
<1>3. PICK rule \in RulesOf(endpoint) :
        Accepts(rule, caller, Member(held), asked)
  BY <1>2, PermittedByRule
<1>4. /\ "none" \notin rule.members
      /\ rule.members # {} => endpoint.project /\ endpoint.permissions \cap MembersRequired # {}
      /\ rule.invite => endpoint.permissions \cap InvitesRequired # {}
  BY <1>2, <1>3, TablesAgree DEF Loads
<1>5. /\ held # NotLoaded => \E invited \in BOOLEAN : Seen(held, invited)
      /\ \A invited \in context.invited : \E role \in Memberships : Seen(role, invited)
  BY <1>1 DEF GuardInv, Loaded, Deciding
<1>6. \A role, invited : Seen(role, invited) /\ Says(role, invited) => TRUE \in verdicts
  BY DEF Seen
<1>7. CASE Alone(rule, caller)
  <2>1. Accepts(rule, caller, Member(project.role), project.invited)
    BY <1>7, AcceptsSplit
  <2>2. Says(project.role, project.invited)
    BY <1>3, <2>1, PermittedByRule DEF Says
  <2>3. QED BY <2>2, <1>6 DEF GuardInv
<1>8. CASE Role(held) \in rule.members
  <2>1. held # NotLoaded /\ Role(held) = held
    BY <1>4, <1>8 DEF Role
  <2>2. PICK invited \in BOOLEAN : Seen(held, invited)
    BY <1>5, <2>1
  <2>3. Accepts(rule, caller, Member(held), invited)
    BY <1>8, AcceptsSplit
  <2>4. Says(held, invited)
    BY <1>3, <2>3, PermittedByRule DEF Says
  <2>5. QED BY <2>2, <2>4, <1>6
<1>9. CASE rule.invite /\ asked
  <2>1. PICK role \in Memberships : Seen(role, TRUE)
    BY <1>1, <1>5, <1>9
  <2>2. Accepts(rule, caller, Member(role), TRUE)
    BY <1>9, AcceptsSplit
  <2>3. Says(role, TRUE)
    BY <1>3, <2>2, PermittedByRule DEF Says
  <2>4. QED BY <2>1, <2>3, <1>6
<1>10. Alone(rule, caller) \/ Role(held) \in rule.members \/ (rule.invite /\ asked)
  BY <1>3, AcceptsSplit
<1>11. QED BY <1>7, <1>8, <1>9, <1>10

LEMMA CheckPermissionKeeps == GuardInv /\ CheckPermission => GuardInv'
<1> SUFFICES ASSUME GuardInv, CheckPermission PROVE GuardInv'
  OBVIOUS
<1>1. UNCHANGED <<request, project, changes, verdicts, insides, context>>
  BY DEF CheckPermission, To
<1>2. stage = "permission" /\ ~MustLoadMembers /\ ~MustLoadInvites
  BY DEF CheckPermission
<1>3. \/ stage' = "admin" /\ endpoint.permissions = {}
      \/ stage' = "unauthorized"
      \/ stage' = "admin" /\ context.user /\ Says(context.role, TRUE \in context.invited)
      \/ /\ stage' = "noPermission" /\ context.user
         /\ ~Says(context.role, TRUE \in context.invited)
  BY DEF CheckPermission, To, Says
<1>4. TypeOK'
  BY <1>1, <1>3 DEF GuardInv, TypeOK, Refusals
<1>5. Loaded'
  <2>1. PICK c : c = context
    OBVIOUS
  <2>2. /\ c.role # NotLoaded => \E invited \in BOOLEAN : Seen(c.role, invited)
        /\ \A invited \in c.invited : \E role \in Memberships : Seen(role, invited)
        /\ changes = 0 => c.role \in {NotLoaded, project.role} /\ c.invited \subseteq {project.invited}
    BY <1>2, <2>1 DEF GuardInv, Loaded, Deciding
  <2>3. /\ c.role # NotLoaded => \E invited \in BOOLEAN : Seen(c.role, invited)'
        /\ \A invited \in c.invited : \E role \in Memberships : Seen(role, invited)'
    BY <1>1, <2>2, GuardKeeps
  <2>4. c = context'
    BY <1>1, <2>1
  <2>5. (context.role # NotLoaded => \E invited \in BOOLEAN : Seen(context.role, invited))'
    BY <2>3, <2>4 DEF Seen, Says, endpoint, caller
  <2>6. (\A invited \in context.invited : \E role \in Memberships : Seen(role, invited))'
    BY <2>3, <2>4
  <2>7. QED BY <1>1, <1>3, <2>2, <2>4, <2>5, <2>6 DEF Loaded, Deciding
<1>6. Decided'
  <2>1. stage' = "admin" => endpoint.permissions = {} \/ TRUE \in verdicts
    BY <1>2, <1>3, DecidesOnSeen
  <2>2. stage' = "noPermission" =>
            (context.user /\ ~MustLoadMembers /\ ~MustLoadInvites
             /\ ~Says(context.role, TRUE \in context.invited))'
    BY <1>1, <1>2, <1>3 DEF MustLoadMembers, MustLoadInvites, Says, endpoint, caller
  <2>3. QED BY <1>1, <1>3, <2>1, <2>2 DEF Decided, Admitted, endpoint
<1>7. QED BY <1>1, <1>4, <1>5, <1>6, GuardKeeps DEF GuardInv

LEMMA CheckAdminKeeps == GuardInv /\ CheckAdmin => GuardInv'
<1> SUFFICES ASSUME GuardInv, CheckAdmin PROVE GuardInv'
  OBVIOUS
<1>1. UNCHANGED <<request, project, changes, verdicts, insides, context>>
  BY DEF CheckAdmin, To
<1>2. stage = "admin" /\ stage' \in {"restriction", "unauthorized", "notAdmin"}
  BY DEF CheckAdmin, To
<1>3. TypeOK'
  BY <1>1, <1>2 DEF GuardInv, TypeOK, Refusals
<1>4. Loaded'
  BY <1>2 DEF Loaded, Deciding
<1>5. Decided'
  BY <1>1, <1>2 DEF GuardInv, Decided, Admitted, endpoint
<1>6. QED BY <1>1, <1>3, <1>4, <1>5, GuardKeeps DEF GuardInv

LEMMA CheckRestrictionKeeps == GuardInv /\ CheckRestriction => GuardInv'
<1> SUFFICES ASSUME GuardInv, CheckRestriction PROVE GuardInv'
  OBVIOUS
<1>1. UNCHANGED <<request, project, changes, verdicts, insides, context>>
  BY DEF CheckRestriction, To
<1>2. /\ stage = "restriction"
      /\ \/ stage' = "handled" /\ ~endpoint.project
         \/ stage' = "outsider"
         \/ stage' = "context" /\ (Restricted => Inside(project))
  BY DEF CheckRestriction, To
<1>3. TypeOK'
  BY <1>1, <1>2 DEF GuardInv, TypeOK, Refusals
<1>4. Loaded'
  BY <1>2 DEF Loaded, Deciding
<1>5. Restricted' <=> Restricted
  BY <1>1 DEF Restricted, caller
<1>6. Decided'
  BY <1>1, <1>2, <1>5 DEF GuardInv, Decided, Admitted, endpoint
<1>7. QED BY <1>1, <1>3, <1>4, <1>6, GuardKeeps DEF GuardInv

LEMMA LoadContextKeeps == GuardInv /\ LoadContext => GuardInv'
<1> SUFFICES ASSUME GuardInv, LoadContext PROVE GuardInv'
  OBVIOUS
<1>1. UNCHANGED <<request, project, changes, verdicts, insides>>
  BY DEF LoadContext, To
<1>2. stage = "context" /\ stage' = "handled"
  BY DEF LoadContext, To
<1>3. \/ context' = context
      \/ \E role \in Memberships : context' = [context EXCEPT !.role = role]
  BY NotLoadedIsNoRole DEF LoadContext, GuardInv, TypeOK
<1>4. context'.user = context.user
  BY <1>3 DEF GuardInv, TypeOK
<1>5. TypeOK'
  BY <1>1, <1>2, <1>3 DEF GuardInv, TypeOK
<1>6. Loaded'
  BY <1>2 DEF Loaded, Deciding
<1>7. Restricted' <=> Restricted
  BY <1>1, <1>4 DEF Restricted, caller
<1>8. Decided'
  BY <1>1, <1>2, <1>7 DEF GuardInv, Decided, Admitted, endpoint
<1>9. QED BY <1>1, <1>5, <1>6, <1>8, GuardKeeps DEF GuardInv

(* Another request changes the project: what was seen stays seen, and what    *)
(* the permissions say of the new rows is seen too.                           *)
Rows == [role : Memberships, invited : BOOLEAN, internal : BOOLEAN]

LEMMA ChangeKeeps ==
    ASSUME GuardInv, NEW rows \in Rows, Change(rows)
    PROVE  GuardInv'
<1>1. /\ project' = rows /\ UNCHANGED <<request, context, stage>>
      /\ verdicts' = verdicts \cup {Verdict(request, rows)}
      /\ insides' = insides \cup {Inside(rows)}
      /\ changes < MaxChanges /\ changes' = changes + 1
      /\ stage \notin {"token", "handled"} \cup Refusals
  BY DEF Change, Waiting
<1>2. TypeOK'
  <2>1. verdicts' \subseteq BOOLEAN /\ insides' \subseteq BOOLEAN
    BY <1>1, VerdictsAreBoolean DEF GuardInv, TypeOK
  <2>2. changes' \in 0 .. MaxChanges
    BY <1>1, ChangesAssumption DEF GuardInv, TypeOK
  <2>3. QED BY <1>1, <2>1, <2>2 DEF GuardInv, TypeOK, Rows
<1>3. \A role, invited : Says(role, invited)' <=> Says(role, invited)
  BY <1>1 DEF Says, endpoint, caller
<1>4. \A role, invited : Seen(role, invited) => Seen(role, invited)'
  BY <1>1, <1>3 DEF Seen
<1>5. Seen(rows.role, rows.invited)'
  <2>1. Verdict(request, rows) <=> Says(rows.role, rows.invited)
    BY DEF Verdict, Says, endpoint, caller
  <2>2. CASE Says(rows.role, rows.invited)
    <3>1. Verdict(request, rows) = TRUE
      BY <2>1, <2>2, VerdictsAreBoolean
    <3>2. TRUE \in verdicts'
      BY <1>1, <3>1
    <3>3. QED BY <1>3, <2>2, <3>2 DEF Seen
  <2>3. CASE ~Says(rows.role, rows.invited)
    <3>1. Verdict(request, rows) = FALSE
      BY <2>1, <2>3, VerdictsAreBoolean
    <3>2. FALSE \in verdicts'
      BY <1>1, <3>1
    <3>3. QED BY <1>3, <2>3, <3>2 DEF Seen
  <2>4. QED BY <2>2, <2>3
<1>6. Seen(project.role, project.invited)'
  BY <1>1, <1>5 DEF Seen, Says, endpoint, caller
<1>7. changes' # 0
  BY <1>1 DEF GuardInv, TypeOK
<1>8. (Inside(project) => TRUE \in insides)'
  <2> SUFFICES ASSUME Inside(rows) PROVE TRUE \in insides'
    BY <1>1
  <2>1. Inside(rows) = TRUE
    BY VerdictsAreBoolean
  <2>2. QED BY <1>1, <2>1
<1>9. Loaded'
  <2>1. PICK c : c = context
    OBVIOUS
  <2>2. Deciding =>
          /\ c.role # NotLoaded => \E invited \in BOOLEAN : Seen(c.role, invited)
          /\ \A invited \in c.invited : \E role \in Memberships : Seen(role, invited)
    BY <2>1 DEF GuardInv, Loaded
  <2>3. Deciding =>
          /\ c.role # NotLoaded => \E invited \in BOOLEAN : Seen(c.role, invited)'
          /\ \A invited \in c.invited : \E role \in Memberships : Seen(role, invited)'
    BY <1>4, <2>2
  <2>4. c = context'
    BY <1>1, <2>1
  <2>5. (Deciding /\ context.role # NotLoaded =>
            \E invited \in BOOLEAN : Seen(context.role, invited))'
    BY <1>1, <2>3, <2>4 DEF Seen, Says, Deciding, endpoint, caller
  <2>6. (Deciding => \A invited \in context.invited : \E role \in Memberships : Seen(role, invited))'
    BY <1>1, <2>3, <2>4 DEF Deciding
  <2>7. QED BY <1>1, <1>7, <2>5, <2>6 DEF Loaded
<1>10. Decided'
  <2>1. Restricted' <=> Restricted
    BY <1>1 DEF Restricted, caller
  <2>2. QED BY <1>1, <2>1 DEF GuardInv, Decided, Admitted, Refusals, endpoint
<1>11. QED BY <1>2, <1>6, <1>7, <1>8, <1>9, <1>10 DEF GuardInv

(* Each of the requests that change the project is such a change.             *)
LEMMA ChangesKeep ==
    ASSUME GuardInv,
           AcceptInvite \/ AddMember \/ UpdateMember \/ DeleteMember
               \/ CreateInvite \/ EndInvite \/ SetBillingAccount
    PROVE  GuardInv'
<1>1. PICK row \in Rows : row = project
  BY DEF GuardInv, TypeOK, Rows
<1>2. SUFFICES \E rows \in Rows : Change(rows)
  BY ChangeKeeps
<1>3. CASE AcceptInvite
  <2>1. PICK role \in Memberships : Change([row EXCEPT !.role = role, !.invited = FALSE])
    BY <1>1, <1>3 DEF AcceptInvite
  <2>2. [row EXCEPT !.role = role, !.invited = FALSE] \in Rows
    BY DEF Rows
  <2>3. QED BY <2>1, <2>2
<1>4. CASE AddMember
  <2>1. PICK role \in Memberships : Change([row EXCEPT !.role = role])
    BY <1>1, <1>4 DEF AddMember
  <2>2. [row EXCEPT !.role = role] \in Rows
    BY DEF Rows
  <2>3. QED BY <2>1, <2>2
<1>5. CASE UpdateMember
  <2>1. PICK role \in Memberships : Change([row EXCEPT !.role = role])
    BY <1>1, <1>5 DEF UpdateMember
  <2>2. [row EXCEPT !.role = role] \in Rows
    BY DEF Rows
  <2>3. QED BY <2>1, <2>2
<1>6. CASE DeleteMember
  <2>1. Change([row EXCEPT !.role = "none"])
    BY <1>1, <1>6 DEF DeleteMember
  <2>2. [row EXCEPT !.role = "none"] \in Rows
    BY NotLoadedIsNoRole DEF Rows
  <2>3. QED BY <2>1, <2>2
<1>7. CASE CreateInvite
  <2>1. Change([row EXCEPT !.invited = TRUE])
    BY <1>1, <1>7 DEF CreateInvite
  <2>2. [row EXCEPT !.invited = TRUE] \in Rows
    BY DEF Rows
  <2>3. QED BY <2>1, <2>2
<1>8. CASE EndInvite
  <2>1. Change([row EXCEPT !.invited = FALSE])
    BY <1>1, <1>8 DEF EndInvite
  <2>2. [row EXCEPT !.invited = FALSE] \in Rows
    BY DEF Rows
  <2>3. QED BY <2>1, <2>2
<1>9. CASE SetBillingAccount
  <2>1. Change([row EXCEPT !.internal = ~@])
    BY <1>1, <1>9 DEF SetBillingAccount
  <2>2. [row EXCEPT !.internal = ~@] \in Rows
    BY DEF Rows
  <2>3. QED BY <2>1, <2>2
<1>10. QED BY <1>3, <1>4, <1>5, <1>6, <1>7, <1>8, <1>9

LEMMA StutterKeeps == GuardInv /\ UNCHANGED vars => GuardInv'
<1> SUFFICES ASSUME GuardInv, UNCHANGED vars PROVE GuardInv'
  OBVIOUS
<1>1. UNCHANGED <<request, project, changes, verdicts, insides, context, stage>>
  BY DEF vars
<1>2. TypeOK'
  BY <1>1 DEF GuardInv, TypeOK
<1>3. Loaded'
  <2>1. PICK c : c = context
    OBVIOUS
  <2>2. Deciding =>
          /\ c.role # NotLoaded => \E invited \in BOOLEAN : Seen(c.role, invited)'
          /\ \A invited \in c.invited : \E role \in Memberships : Seen(role, invited)'
    BY <1>1, <2>1, GuardKeeps DEF GuardInv, Loaded
  <2>3. c = context'
    BY <1>1, <2>1
  <2>4. (Deciding /\ context.role # NotLoaded =>
            \E invited \in BOOLEAN : Seen(context.role, invited))'
    BY <1>1, <2>2, <2>3 DEF Seen, Says, Deciding, endpoint, caller
  <2>5. (Deciding => \A invited \in context.invited : \E role \in Memberships : Seen(role, invited))'
    BY <1>1, <2>2, <2>3 DEF Deciding
  <2>6. QED BY <1>1, <2>4, <2>5 DEF GuardInv, Loaded, Deciding
<1>4. Decided'
  BY <1>1 DEF GuardInv, Decided, Admitted, MustLoadMembers, MustLoadInvites, Restricted, Says,
              endpoint, caller
<1>5. QED BY <1>1, <1>2, <1>3, <1>4, GuardKeeps DEF GuardInv

(* What is loaded was seen, and whom the guards admit had a reason: it holds  *)
(* in every state, whoever calls and whatever changes meanwhile.              *)
THEOREM GuardInvCorrect == Spec => []GuardInv
<1>1. GuardInv /\ [Next]_vars => GuardInv'
  BY CheckTokenKeeps, LoadMembersKeeps, LoadInvitesKeeps, CheckPermissionKeeps, CheckAdminKeeps,
     CheckRestrictionKeeps, LoadContextKeeps, ChangesKeep, StutterKeeps DEF Next
<1>2. QED BY Start, <1>1, PTL DEF Spec

----------------------------------------------------------------------------
(* The theorems.                                                              *)

(* Every value of the variables has its type: the guards leave no other       *)
(* outcome.                                                                   *)
THEOREM GuardsTypeCorrect == Spec => []TypeOK
<1>1. GuardInv => TypeOK
  BY DEF GuardInv
<1>2. QED BY GuardInvCorrect, <1>1, PTL

(* A refusal for lack of permission.                                          *)
LEMMA RefusedOn ==
    ASSUME GuardInv, stage = "noPermission", NEW rule \in RulesOf(endpoint)
    PROVE  /\ ~Alone(rule, caller)
           /\ Role(context.role) \notin rule.members
           /\ rule.invite => TRUE \notin context.invited
           /\ rule.members # {} => endpoint.project /\ context.role # NotLoaded
           /\ rule.invite => ProjectMemberRole \subseteq rule.members /\ context.invited # {}
<1>1. PICK held, asked : held = context.role /\ asked = (TRUE \in context.invited)
  OBVIOUS
<1>2. context.user /\ ~MustLoadMembers /\ ~MustLoadInvites /\ ~Says(held, asked)
  BY <1>1 DEF GuardInv, Decided
<1>3. ~Accepts(rule, caller, Member(held), asked)
  BY <1>2, PermittedByRule DEF Says
<1>4. ~Alone(rule, caller) /\ Role(held) \notin rule.members /\ ~(rule.invite /\ asked)
  BY <1>3, AcceptsSplit
<1>5. endpoint \in Endpoints
  BY DEF GuardInv, TypeOK, endpoint
<1>6. /\ rule.members # {} => endpoint.project /\ endpoint.permissions \cap MembersRequired # {}
      /\ rule.invite => /\ endpoint.permissions \cap InvitesRequired # {}
                        /\ ProjectMemberRole \subseteq rule.members
  BY <1>5, TablesAgree DEF Loads
<1>7. "customer" \in ProjectMemberRole
  BY DEF ProjectMemberRole
<1>8. rule.members # {} => endpoint.project /\ context.role # NotLoaded
  BY <1>2, <1>6 DEF MustLoadMembers
<1>9. rule.invite => context.invited # {}
  BY <1>2, <1>6, <1>7 DEF MustLoadInvites
<1>10. QED BY <1>1, <1>4, <1>6, <1>8, <1>9

(* A refusal of whom nothing changed is what the permissions say of him.      *)
LEMMA RefusedRightly ==
    ASSUME GuardInv, stage = "noPermission", changes = 0
    PROVE  ~Says(project.role, project.invited)
<1>1. PICK row \in Rows : row = project
  BY DEF GuardInv, TypeOK, Rows
<1>2. SUFFICES ASSUME Says(row.role, row.invited) PROVE FALSE
  BY <1>1
<1>3. PICK rule \in RulesOf(endpoint) : Accepts(rule, caller, Member(row.role), row.invited)
  BY <1>2, PermittedByRule DEF Says
<1>4. Alone(rule, caller) \/ Role(row.role) \in rule.members \/ (rule.invite /\ row.invited)
  BY <1>3, AcceptsSplit
<1>5. context.role \in {NotLoaded, row.role} /\ context.invited \subseteq {row.invited}
  BY <1>1 DEF GuardInv, Loaded, Deciding
<1>6. CASE Role(row.role) \in rule.members
  <2>1. context.role = row.role
    BY <1>5, <1>6, RefusedOn
  <2>2. QED BY <1>6, <2>1, RefusedOn
<1>7. CASE rule.invite /\ row.invited
  <2>1. row.invited \in context.invited
    BY <1>5, <1>7, RefusedOn
  <2>2. row.invited = TRUE
    BY <1>7 DEF Rows
  <2>3. QED BY <1>7, <2>1, <2>2, RefusedOn
<1>8. QED BY <1>4, <1>6, <1>7, RefusedOn

(* A refusal is owed to a row that was seen, unless the invite was accepted   *)
(* between the two queries.                                                   *)
LEMMA RefusedForAReason ==
    ASSUME GuardInv, stage = "noPermission", endpoint.project
    PROVE  FALSE \in verdicts \/ (context.role = "none" /\ context.invited = {FALSE})
<1>1. PICK held : held = context.role
  OBVIOUS
<1>2. \A role, invited : Seen(role, invited) /\ ~Says(role, invited) => FALSE \in verdicts
  BY DEF Seen
<1>3. CASE \A rule \in RulesOf(endpoint) : rule.members = {} /\ ~rule.invite
  <2>1. ~Says(project.role, project.invited)
    <3>1. \A rule \in RulesOf(endpoint) :
              ~Accepts(rule, caller, Member(project.role), project.invited)
      <4> SUFFICES ASSUME NEW rule \in RulesOf(endpoint)
                   PROVE  ~Accepts(rule, caller, Member(project.role), project.invited)
        OBVIOUS
      <4>1. ~Alone(rule, caller)
        BY RefusedOn
      <4>2. QED BY <1>3, <4>1, AcceptsSplit
    <3>2. QED BY <3>1, PermittedByRule DEF Says
  <2>2. QED BY <1>2, <2>1 DEF GuardInv
<1>4. CASE \E rule \in RulesOf(endpoint) : rule.members # {} \/ rule.invite
  <2>1. PICK rule \in RulesOf(endpoint) : rule.members # {} \/ rule.invite
    BY <1>4
  <2>2. "customer" \in ProjectMemberRole
    BY DEF ProjectMemberRole
  <2>3. rule.members # {}
    BY <2>1, <2>2, RefusedOn
  <2>4. held # NotLoaded /\ held \in Memberships /\ Role(held) = held
    BY <1>1, <2>1, <2>3, RefusedOn DEF GuardInv, TypeOK, Role
  <2>5. PICK invited \in BOOLEAN : Seen(held, invited)
    BY <1>1, <2>4 DEF GuardInv, Loaded, Deciding
  <2>6. CASE ~Says(held, invited)
    BY <1>2, <2>5, <2>6
  <2>7. CASE Says(held, invited)
    <3>1. PICK r \in RulesOf(endpoint) : Accepts(r, caller, Member(held), invited)
      BY <2>7, PermittedByRule DEF Says
    <3>2. r.invite /\ Role(held) \notin r.members
      <4>1. Alone(r, caller) \/ Role(held) \in r.members \/ (r.invite /\ invited)
        BY <3>1, AcceptsSplit
      <4>2. QED BY <1>1, <4>1, RefusedOn
    <3>3. ProjectMemberRole \subseteq r.members /\ context.invited # {} /\ TRUE \notin context.invited
      BY <3>2, RefusedOn
    <3>4. held = "none"
      BY <2>4, <3>2, <3>3, MembershipsAssumption
    <3>5. context.invited = {FALSE}
      BY <3>3 DEF GuardInv, TypeOK
    <3>6. QED BY <1>1, <3>4, <3>5
  <2>8. QED BY <2>6, <2>7
<1>5. QED BY <1>3, <1>4

(* Whom PermissionGuard admits to a route of a project had one of its         *)
(* permissions at some moment of the request, and whom it refuses lacked all  *)
(* of them at some moment, save who accepted an invite between the query of   *)
(* the members and that of the invites: for any callers and memberships.      *)
THEOREM VerdictHasReasonCorrect == Spec => []VerdictHasReason
<1>1. GuardInv => VerdictHasReason
  BY RefusedForAReason DEF VerdictHasReason, GuardInv, Decided
<1>2. QED BY GuardInvCorrect, <1>1, PTL

(* Whoever Swagger names for a route is not refused by PermissionGuard for    *)
(* lack of permission while the project does not change, whatever roles and   *)
(* scopes he holds together.                                                  *)
THEOREM DocumentedReachCorrect == Spec => []DocumentedReach
<1>1. ASSUME GuardInv, stage = "noPermission", changes = 0,
             Documented(endpoint.permissions, caller, Member(project.role), project.invited)
      PROVE  FALSE
  <2>1. PICK p \in endpoint.permissions :
          \/ Accepts([Summaries[p] EXCEPT !.scopes = {}], caller, Member(project.role),
                     project.invited)
          \/ /\ caller.isMachine
             /\ Summaries[p].scopes # {}
             /\ HasRequiredScopes(caller.scopes, Summaries[p].scopes)
    BY <1>1 DEF Documented
  <2>2. endpoint \in Endpoints
    BY <1>1 DEF GuardInv, TypeOK, endpoint
  <2>3. PICK s \in SummaryRecord : s = Summaries[p]
    BY <2>1, <2>2, TablesAgree
  <2> DEFINE shown == [s EXCEPT !.scopes = {}, !.machineScopes = s.scopes]
             bare == [s EXCEPT !.scopes = {}]
  <2>4. shown \in SummariesOf(endpoint)
    BY <2>1, <2>3 DEF SummariesOf
  <2>5. /\ shown.any = s.any /\ shown.roles = s.roles /\ shown.members = s.members
        /\ shown.invite = s.invite /\ shown.scopes = {} /\ shown.machineScopes = s.scopes
    BY DEF SummaryRecord
  <2>6. /\ bare.any = s.any /\ bare.roles = s.roles /\ bare.members = s.members
        /\ bare.invite = s.invite /\ bare.scopes = {} /\ bare.machineScopes = {}
    BY DEF SummaryRecord
  <2> HIDE DEF shown, bare
  <2>7. Accepts(shown, caller, Member(project.role), project.invited)
    <3>1. CASE Accepts(bare, caller, Member(project.role), project.invited)
      <4>1. \/ Alone(bare, caller)
            \/ Role(project.role) \in bare.members
            \/ bare.invite /\ project.invited
        BY <3>1, AcceptsSplit
      <4>2. \/ Alone(shown, caller)
            \/ Role(project.role) \in shown.members
            \/ shown.invite /\ project.invited
        BY <4>1, <2>5, <2>6 DEF Alone
      <4>3. QED BY <4>2, AcceptsSplit
    <3>2. CASE /\ caller.isMachine
               /\ s.scopes # {}
               /\ HasRequiredScopes(caller.scopes, s.scopes)
      <4>1. Alone(shown, caller)
        BY <3>2, <2>5 DEF Alone
      <4>2. QED BY <4>1, AcceptsSplit
    <3>3. QED BY <2>1, <2>3, <3>1, <3>2 DEF bare
  <2>8. Covers(RulesOf(endpoint), shown)
    BY <2>2, <2>4, TablesAgree
  <2>9. \E r \in RulesOf(endpoint) : Accepts(r, caller, Member(project.role), project.invited)
    BY <2>7, <2>8, Coverage
  <2>10. Says(project.role, project.invited)
    BY <2>9, PermittedByRule DEF Says
  <2>11. QED BY <1>1, <2>10, RefusedRightly
<1>2. GuardInv => DocumentedReach
  BY <1>1 DEF DocumentedReach
<1>3. QED BY GuardInvCorrect, <1>2, PTL

(* No Talent Manager reaches the handler of an internal project without       *)
(* having been a member of it, or it not internal, at some moment of the      *)
(* request.                                                                   *)
THEOREM InternalProjectsKeptCorrect == Spec => []InternalProjectsKept
<1>1. GuardInv => InternalProjectsKept
  BY DEF GuardInv, Decided, InternalProjectsKept
<1>2. QED BY GuardInvCorrect, <1>1, PTL
=============================================================================
