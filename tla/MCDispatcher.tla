---------------------------- MODULE MCDispatcher ----------------------------
(* Dispatcher on small instances. *)
EXTENDS Dispatcher, TLC

Symmetry == Permutations(Requests) \cup Permutations(Threads) \cup Permutations(Methods)

=============================================================================
