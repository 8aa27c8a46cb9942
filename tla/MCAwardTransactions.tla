------------------------ MODULE MCAwardTransactions ------------------------
(* AwardTransactions on small instances.                                   *)
EXTENDS AwardTransactions, TLC

\* Calls, users and rows of a table are only ever compared with each other.
AwardSymmetry ==
    Permutations(Calls) \cup Permutations(Users) \cup Permutations(Applications)
        \cup Permutations(Members)

=============================================================================
