-------------------------- MODULE OpportunityAward --------------------------
(***************************************************************************)
(* What the copilot opportunity service promises about one opportunity,    *)
(* whatever its handlers do in between: an award names one application,    *)
(* replaces the one before, if any, and completes the opportunity in the   *)
(* same instant; a cancellation takes applications out of the running and  *)
(* never puts one in.                                                      *)
(***************************************************************************)

CONSTANT Applications

VARIABLES
    status,         \* "active", "completed" or "canceled"
    applied,        \* the applications that were made
    accepted        \* the applications that read accepted

awardVars == <<status, applied, accepted>>

AwardInit == status = "active" /\ applied \subseteq Applications /\ accepted = {}

Apply(a) ==
    /\ a \notin applied
    /\ applied' = applied \cup {a}
    /\ UNCHANGED <<status, accepted>>

Award(a) ==
    /\ a \in applied
    /\ accepted' = {a}
    /\ status' = "completed"
    /\ UNCHANGED applied

Cancel ==
    /\ status' = "canceled"
    /\ accepted' \subseteq accepted
    /\ UNCHANGED applied

AwardNext == (\E a \in Applications : Apply(a) \/ Award(a)) \/ Cancel

AwardSpec == AwardInit /\ [][AwardNext]_awardVars

=============================================================================
