------------------------ MODULE MCIncidentWorkspaces ------------------------
(***************************************************************************)
(* An instance of IncidentWorkspaces for TLC: two workspaces may stay of   *)
(* three runs; runs are interchangeable, so are the worker threads.        *)
(***************************************************************************)
EXTENDS IncidentWorkspaces, TLC

Symmetry == Permutations(Runs) \cup Permutations(Operators)

=============================================================================
