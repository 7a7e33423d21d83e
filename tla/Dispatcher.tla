----------------------------- MODULE Dispatcher -----------------------------
(***************************************************************************)
(* What stands between a request and its handler on the server: the        *)
(* session's token bucket, the dispatch table with a visibility for every  *)
(* method, the application's auth callback, and the client_context built   *)
(* for each request and published to the handler through a thread-local    *)
(* pointer.  Requests of one session are taken off the stream in order and *)
(* run concurrently on the io_context's threads.  How frames travel and    *)
(* how answers are queued is Connection's matter.                          *)
(***************************************************************************)
EXTENDS TokenBucket, Sequences

CONSTANTS
  Requests, NoRequest,
  Methods, NoMethod,
  Threads,
  Stamps,       \* roles handlers may stamp on the session
  Capacities,   \* values of session_limits::request_burst, in units
  Refill,       \* session_limits::request_rate_ps, in units per tick
  MaxTime       \* bound on the clock

ASSUME DispatcherAssumption ==
  /\ NoRequest \notin Requests
  /\ NoMethod \notin Methods
  /\ Stamps \subseteq Int
  /\ Capacities \subseteq Nat
  /\ Refill \in Nat
  /\ MaxTime \in Nat \ {0}

VARIABLES
  now,
  request_bucket_,
  takes,            \* ghost: when the bucket let requests pass
  dispatch_table,   \* visibility of each method
  auth_callback_,   \* whether one is installed
  logical_role_,    \* of the session: -1 until some handler stamps it
  pc,               \* where each request is
  frame,            \* the frame of its coroutine
  thread,           \* the thread it runs on, as a set: empty while it has none
  current_ctx       \* the thread-local, as the request whose context it points to

vars == <<now, request_bucket_, takes, dispatch_table, auth_callback_,
          logical_role_, pc, frame, thread, current_ctx>>

setupVars == <<dispatch_table, auth_callback_>>
bucketVars == <<request_bucket_, takes>>
requestVars == <<pc, frame, thread, current_ctx>>

-----------------------------------------------------------------------------
Visibilities == {"public", "authenticated", "admin"}
Unattached == "unattached"
Roles == {-1} \cup Stamps

PCs == {"idle", "limited", "spawned", "context", "prefix", "suspended", "done", "refused"}

\* auth_result.  The callback is the application's: it may answer anything.
Answers == [allow : BOOLEAN, is_admin : BOOLEAN]
NoAnswer == [allow |-> FALSE, is_admin |-> FALSE]

\* call_id, the client_context's logical_role and what the scope object saved.
\* Ghosts: the roles the session has had from the request's arrival to the copy of
\* the role (until enforce_auth has looked at it), whether enforce_auth asked a
\* callback, and what that one answered.
Frame == [method : Methods \cup {NoMethod}, role : Roles,
          prev_ : Requests \cup {NoRequest},
          since : SUBSET Roles, gated : BOOLEAN, answer : Answers]
NoFrame == [method |-> NoMethod, role |-> -1, prev_ |-> NoRequest,
            since |-> {}, gated |-> FALSE, answer |-> NoAnswer]

Serving == \E r \in Requests : pc[r] # "idle"

\* A request that has a thread runs until it is suspended or ends.
Free(t) == \A r \in Requests : thread[r] # {t}

VisibilityFor(r) == dispatch_table[frame[r].method]

Goto(r, from, to) == pc[r] = from /\ pc' = [pc EXCEPT ![r] = to]

-----------------------------------------------------------------------------
Init ==
  /\ now = 1
  /\ \E c \in Capacities : request_bucket_ = Fresh(c, Refill)
  /\ takes = <<>>
  /\ dispatch_table = [m \in Methods |-> Unattached]
  /\ auth_callback_ = FALSE
  /\ logical_role_ = -1
  /\ pc = [r \in Requests |-> "idle"]
  /\ frame = [r \in Requests |-> NoFrame]
  /\ thread = [r \in Requests |-> {}]
  /\ current_ctx = [t \in Threads |-> NoRequest]

Tick ==
  /\ Serving /\ now < MaxTime
  /\ now' = now + 1
  /\ UNCHANGED <<bucketVars, setupVars, logical_role_, requestVars>>

-----------------------------------------------------------------------------
(* The application's set-up.  The table is not synchronised, so handlers are
   attached before requests come; attaching again replaces. *)

Attach(m, vis) ==
  /\ ~Serving
  /\ dispatch_table' = [dispatch_table EXCEPT ![m] = vis]
  /\ UNCHANGED <<now, bucketVars, auth_callback_, logical_role_, requestVars>>

set_auth_callback ==
  /\ auth_callback_' = TRUE
  /\ UNCHANGED <<now, bucketVars, dispatch_table, logical_role_, requestVars>>

-----------------------------------------------------------------------------
(* session::dispatch_request, on the reader *)

\* The bucket lets the request with call_id m pass: its coroutine is spawned.
TakeRequest(r, m) ==
  /\ Proceeds(request_bucket_, now)
  /\ Goto(r, "idle", "spawned")
  /\ frame' = [frame EXCEPT ![r].method = m, ![r].since = {logical_role_}]
  /\ takes' = Append(takes, now)
  /\ request_bucket_' = try_take(request_bucket_, now)
  /\ UNCHANGED <<now, setupVars, logical_role_, thread, current_ctx>>

\* It does not: the body is drained and an error sent in its stead.
LimitRequest(r) ==
  /\ ~Proceeds(request_bucket_, now)
  /\ Goto(r, "idle", "limited")
  /\ request_bucket_' = try_take(request_bucket_, now)
  /\ UNCHANGED <<now, takes, setupVars, logical_role_, frame, thread, current_ctx>>

-----------------------------------------------------------------------------
(* The spawned coroutine, on any free thread *)

\* current_call_context_scope: constructor and destructor.
\* Mutant: the pointer is a plain global, not thread_local.
SetEverywhere(r, t) == current_ctx' = [u \in Threads |-> r]
EnterScope(r, t) == current_ctx' = [current_ctx EXCEPT ![t] = r]

LeaveScope(r, t) == current_ctx' = [current_ctx EXCEPT ![t] = frame[r].prev_]

\* The context is a copy of the session's identity.
BuildContext(r, t) ==
  /\ Goto(r, "spawned", "context") /\ Free(t)
  /\ thread' = [thread EXCEPT ![r] = {t}]
  /\ frame' = [frame EXCEPT ![r].role = logical_role_, ![r].prev_ = current_ctx[t]]
  /\ EnterScope(r, t)
  /\ UNCHANGED <<now, bucketVars, setupVars, logical_role_>>

\* enforce_auth, should the callback, if it is asked, give this answer: without a
\* callback every visibility counts as public.
\* Mutant: the admin test is gone.
AllowWithoutAdmin(r, answer) ==
  VisibilityFor(r) = "public" \/ ~auth_callback_ \/ answer.allow
Allowed(r, answer) ==
  \/ VisibilityFor(r) = "public"
  \/ ~auth_callback_
  \/ answer.allow /\ (VisibilityFor(r) = "admin" => answer.is_admin)

\* The callback is asked of a gated method only.
Asked(r) == auth_callback_ /\ VisibilityFor(r) # "public"

\* find_entry_or_throw and enforce_auth let the handler start.
Dispatch(r) ==
  /\ Goto(r, "context", "prefix")
  /\ VisibilityFor(r) # Unattached
  /\ \E answer \in IF Asked(r) THEN Answers ELSE {NoAnswer} :
       /\ Allowed(r, answer)
       /\ frame' = [frame EXCEPT ![r].since = {}, ![r].gated = Asked(r),
                                 ![r].answer = answer]
  /\ UNCHANGED <<now, bucketVars, setupVars, logical_role_, thread, current_ctx>>

\* The coroutine is over, and its frame with it.
Unwind(r, t) ==
  /\ thread' = [thread EXCEPT ![r] = {}]
  /\ LeaveScope(r, t)
  /\ frame' = [frame EXCEPT ![r] = NoFrame]
  /\ UNCHANGED <<now, bucketVars, setupVars, logical_role_>>

\* One of the two throws: the peer gets an error.
Refuse(r) ==
  /\ Goto(r, "context", "refused")
  /\ VisibilityFor(r) = Unattached \/ \E answer \in Answers : ~Allowed(r, answer)
  /\ \E t \in thread[r] : Unwind(r, t)

\* The context's setter: any handler may stamp the role, also again and to -1, and
\* one that has kept a copy of the setter may do so after a co_await.
set_logical_role(r, to) ==
  /\ pc[r] \in {"prefix", "suspended"}
  /\ logical_role_' = to
  /\ frame' = [q \in Requests |->
                 IF pc[q] = "spawned" THEN [frame[q] EXCEPT !.since = @ \cup {to}]
                 ELSE frame[q]]
  /\ UNCHANGED <<now, bucketVars, setupVars, pc, thread, current_ctx>>

\* The handler, or respond(), awaits: its thread turns to other work.
Suspend(r) ==
  /\ Goto(r, "prefix", "suspended")
  /\ thread' = [thread EXCEPT ![r] = {}]
  /\ UNCHANGED <<now, bucketVars, setupVars, logical_role_, frame, current_ctx>>

\* The coroutine ends, on the thread it started on or, after a suspension, on any.
Finish(r, t) ==
  /\ \/ Goto(r, "prefix", "done") /\ t \in thread[r]
     \/ Goto(r, "suspended", "done") /\ Free(t)
  /\ Unwind(r, t)

-----------------------------------------------------------------------------
RequestNext(r) ==
  \/ \E m \in Methods : TakeRequest(r, m)
  \/ LimitRequest(r) \/ Dispatch(r) \/ Refuse(r) \/ Suspend(r)
  \/ \E t \in Threads : BuildContext(r, t) \/ Finish(r, t)
  \/ \E to \in Roles : set_logical_role(r, to)

Next ==
  \/ Tick
  \/ \E m \in Methods, vis \in Visibilities : Attach(m, vis)
  \/ set_auth_callback
  \/ \E r \in Requests : RequestNext(r)

Spec == Init /\ [][Next]_vars

-----------------------------------------------------------------------------
(* Properties *)

\* Every variable stays within its type, and the bucket within its capacity.
TypeOK ==
  /\ now \in 1 .. MaxTime
  /\ request_bucket_ \in [capacity : Capacities, refill_per_sec : {Refill},
                          tokens : Nat, last_refill : 0 .. MaxTime]
  /\ request_bucket_.tokens <= request_bucket_.capacity
  /\ takes \in Seq(1 .. MaxTime)
  /\ dispatch_table \in [Methods -> Visibilities \cup {Unattached}]
  /\ auth_callback_ \in BOOLEAN
  /\ logical_role_ \in Roles
  /\ pc \in [Requests -> PCs]
  /\ frame \in [Requests -> Frame]
  /\ thread \in [Requests -> {{t} : t \in Threads} \cup {{}}]
  /\ current_ctx \in [Threads -> Requests \cup {NoRequest}]

\* Once a callback is installed, a handler that is not public runs only after that
\* callback has allowed this very request, as an administrator's if the method is
\* an admin one; and the callback is shown, whatever other handlers stamp on the
\* session meanwhile, a role the session has had since the request came.
ApprovedForThisRequest ==
  \A r \in Requests :
    /\ pc[r] = "context" => frame[r].role \in frame[r].since
    /\ pc[r] \in {"prefix", "suspended"} /\ frame[r].gated =>
         frame[r].answer.allow /\ (VisibilityFor(r) = "admin" => frame[r].answer.is_admin)

\* Over any interval the bucket lets pass no more than its capacity and what is
\* refilled in the interval, however long it was idle before; so a capacity
\* between 0 and the cost of a request, which the code takes for a limit and not
\* for "disabled", lets nothing pass at all.
RateBound ==
  request_bucket_.capacity > 0 =>
    \A i \in 1 .. Len(takes) : \A j \in i .. Len(takes) :
      (j - i + 1) * Cost <= request_bucket_.capacity + Refill * (takes[j] - takes[i])

\* "A well-behaved client will back off" (dispatch_request), and it helps: a
\* request that comes long enough after the last one, refused or not, passes
\* if the capacity has room for one at all, and without a capacity every
\* request does.
BackOffHelps ==
  [][\A r \in Requests :
       /\ pc[r] = "idle"
       /\ \/ request_bucket_.capacity = 0
          \/ /\ request_bucket_.capacity >= Cost
             /\ (now - request_bucket_.last_refill) * Refill >= Cost
       => pc'[r] # "limited"]_vars

\* "Handlers must read it before the first co_await" (dispatch_request): up to
\* there current_call_context() is the request's own context, whatever other
\* requests do on other threads and did earlier on this one.
PrefixSeesOwnContext ==
  \A r \in Requests : \A t \in thread[r] : current_ctx[t] = r

=============================================================================
