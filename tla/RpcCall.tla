------------------------------ MODULE RpcCall ------------------------------
(***************************************************************************)
(* What session::call promises its callers, with nothing said about        *)
(* tokens, channels, sockets or timers.  A call is invoked once, the peer  *)
(* may answer it at most once, and it returns once: with the peer's        *)
(* response, with an error standing for the peer's error frame, or with a  *)
(* local failure (timeout, torn-down session, rejected write) at any time. *)
(***************************************************************************)

CONSTANT Calls

VARIABLES status,   \* "idle", "pending", or how the call returned
          answer    \* what the peer did with the call's request

vars == <<status, answer>>

LocalFailures == {"timeout", "aborted", "send_failed"}
Outcomes == {"ok", "error"} \cup LocalFailures

TypeOK ==
  /\ status \in [Calls -> {"idle", "pending"} \cup Outcomes]
  /\ answer \in [Calls -> {"none", "response", "error"}]

Init ==
  /\ status = [c \in Calls |-> "idle"]
  /\ answer = [c \in Calls |-> "none"]

Invoke(c) ==
  /\ status[c] = "idle"
  /\ status' = [status EXCEPT ![c] = "pending"]
  /\ UNCHANGED answer

\* The peer handles the request; the caller may have given up meanwhile.
Answer(c, kind) ==
  /\ status[c] # "idle"
  /\ answer[c] = "none"
  /\ answer' = [answer EXCEPT ![c] = kind]
  /\ UNCHANGED status

\* A call returns what the peer answered to this very call, or a local failure.
Return(c, o) ==
  /\ status[c] = "pending"
  /\ o = "ok" => answer[c] = "response"
  /\ o = "error" => answer[c] = "error"
  /\ status' = [status EXCEPT ![c] = o]
  /\ UNCHANGED answer

Next ==
  \E c \in Calls :
    \/ Invoke(c)
    \/ \E kind \in {"response", "error"} : Answer(c, kind)
    \/ \E o \in Outcomes : Return(c, o)

Spec == Init /\ [][Next]_vars

=============================================================================
