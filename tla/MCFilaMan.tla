----------------------------- MODULE MCFilaMan -----------------------------
(* The FilaMan service on a small instance. *)
EXTENDS FilaMan, TLC

\* Locations and clients are interchangeable, and so are spools of which the
\* server rejects none.
Symmetry == Permutations(Spools) \cup Permutations(Locations) \cup Permutations(Clients)

=============================================================================
