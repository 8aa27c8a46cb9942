--------------------------- MODULE MCCopilotRaces ---------------------------
(* CopilotRaces on small instances.                                        *)
EXTENDS CopilotRaces, TLC

\* Users and slots are only ever compared with each other.
RaceSymmetry == Permutations(Users) \cup Permutations(Slots)

\* Applications, members and invites that are inserted, and calls in flight, together:
\* there is room for three rows under two racing calls, and each table can be full, but
\* not all of them at once.
CONSTANT MaxRows

Inserted(table) == Cardinality({i \in DOMAIN table : table[i].status # "none"})

InFlight == Cardinality({s \in Slots : calls[s] # Idle})

FewRows ==
    Inserted(applications) + Inserted(members) + Inserted(invites) + InFlight <= MaxRows

=============================================================================
