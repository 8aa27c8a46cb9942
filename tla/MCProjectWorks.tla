--------------------------- MODULE MCProjectWorks ---------------------------
(* ProjectWorks on small instances.                                        *)
EXTENDS ProjectWorks, TLC

\* Streams, slots and products are only ever compared with each other.
WorksSymmetry == Permutations(Streams) \cup Permutations(Slots) \cup Permutations(ProductIds)

=============================================================================
