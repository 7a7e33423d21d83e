----------------------------- MODULE MCRegistry -----------------------------
(* Registry on small instances. *)
EXTENDS Registry, TLC

AddrSymmetry == Permutations(Addrs)

=============================================================================
