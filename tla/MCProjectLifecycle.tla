------------------------- MODULE MCProjectLifecycle -------------------------
(* ProjectLifecycle on small instances.                                    *)
EXTENDS ProjectLifecycle, TLC

LifecycleSymmetry == Permutations(Slots)

=============================================================================
