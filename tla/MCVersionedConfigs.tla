------------------------- MODULE MCVersionedConfigs -------------------------
(* VersionedConfigs on small instances.                                    *)
EXTENDS VersionedConfigs, TLC

\* Two versions in one table, two revisions of one version in the other.
SmallVersions  == [table \in Tables |-> IF table = "form" THEN 2 ELSE 1]
SmallRevisions == [table \in Tables |-> IF table = "form" THEN 1 ELSE 2]

ConfigSymmetry == Permutations(Slots)

=============================================================================
