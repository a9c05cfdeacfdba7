-------------------------- MODULE MC_RunLifecycle --------------------------
(***************************************************************************)
(* Instances of RunLifecycle for TLC.                                      *)
(***************************************************************************)
EXTENDS RunLifecycle, TLC

\* The rows, the dispatches and the requests are interchangeable.
Symmetry == Permutations(Runs) \cup Permutations(Dispatches) \cup Permutations(Clients)

=============================================================================
