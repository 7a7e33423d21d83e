--------------------------- MODULE MCAsyncLogger ---------------------------
(* AsyncLogger on small instances. *)
EXTENDS AsyncLogger

=============================================================================
