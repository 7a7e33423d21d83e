--------------------------- MODULE MCSessionCalls ---------------------------
(* SessionCalls on small instances: two or three calls sharing a session. *)
EXTENDS SessionCalls, TLC

CallSymmetry == Permutations(Calls)

=============================================================================
