-------------------------- MODULE DispatcherProofs --------------------------
(***************************************************************************)
(* The safety properties of Dispatcher, for any sets of requests, methods  *)
(* and threads, any rate limit and any clock.  Three independent parts are *)
(* added to the type invariant: what the bucket still holds bounds what it *)
(* may yet let pass, what is stamped on the session is among the roles a   *)
(* request not yet judged may be judged by, and a thread runs one request  *)
(* at a time.                                                              *)
(***************************************************************************)
EXTENDS Dispatcher, TokenBucketProofs

USE DispatcherAssumption, BucketAssumption
  DEF setupVars, bucketVars, requestVars, Visibilities, Unattached, Roles, PCs

-----------------------------------------------------------------------------
(* The inductive invariant *)

\* The bucket has been touched whenever it let a request pass, and the time it
\* was touched last is no earlier than any of its takes and no later than now.
ClockInv ==
  /\ request_bucket_.last_refill <= now
  /\ \A i \in 1 .. Len(takes) :
       takes[i] <= request_bucket_.last_refill /\ request_bucket_.last_refill # 0

\* What passed since the i-th take, and what is left, was there or came since.
BudgetInv ==
  request_bucket_.capacity > 0 =>
    \A i \in 1 .. Len(takes) :
      (Len(takes) - i + 1) * Cost + request_bucket_.tokens
        <= request_bucket_.capacity + Refill * (request_bucket_.last_refill - takes[i])

\* Until its context is built, a request has seen every stamp since it came.
RoleInv == \A r \in Requests : pc[r] = "spawned" => logical_role_ \in frame[r].since

\* A thread runs one request at a time.
ThreadInv ==
  \A r, s \in Requests : thread[r] = thread[s] /\ thread[r] # {} => r = s

IInv ==
  /\ TypeOK /\ ClockInv /\ BudgetInv /\ RateBound
  /\ RoleInv /\ ApprovedForThisRequest /\ ThreadInv /\ PrefixSeesOwnContext

-----------------------------------------------------------------------------
(* The bucket *)

\* The session's bucket is a sound one, and every time is a natural number.
LEMMA BucketIsSound ==
  ASSUME TypeOK, ClockInv
  PROVE  /\ Sound(request_bucket_, now)
         /\ now \in Nat \ {0}
         /\ request_bucket_.refill_per_sec = Refill
         /\ request_bucket_.capacity \in Nat
         /\ Len(takes) \in Nat
         /\ \A i \in 1 .. Len(takes) : takes[i] \in Nat
<1>1. /\ now \in Nat \ {0}
      /\ Len(takes) \in Nat
      /\ \A i \in 1 .. Len(takes) : takes[i] \in Nat
  BY DEF TypeOK
<1>2. /\ request_bucket_ \in Bucket
      /\ request_bucket_.capacity \in Nat
      /\ request_bucket_.refill_per_sec = Refill
  <2>1. request_bucket_ \in [capacity : Capacities, refill_per_sec : {Refill},
                             tokens : Nat, last_refill : 0 .. MaxTime]
    BY DEF TypeOK
  <2>2. Capacities \subseteq Nat /\ 0 .. MaxTime \subseteq Nat /\ Refill \in Nat
    OBVIOUS
  <2> HIDE DispatcherAssumption
  <2> QED
    BY <2>1, <2>2 DEF Bucket
<1>3. request_bucket_.tokens <= request_bucket_.capacity
  BY DEF TypeOK
<1> QED
  BY <1>1, <1>2, <1>3 DEF ClockInv, Sound

\* try_take keeps the bucket within its type.
LEMMA TakeTypes ==
  ASSUME TypeOK, ClockInv, request_bucket_' = try_take(request_bucket_, now)
  PROVE  /\ request_bucket_' \in [capacity : Capacities, refill_per_sec : {Refill},
                                  tokens : Nat, last_refill : 0 .. MaxTime]
         /\ request_bucket_'.tokens <= request_bucket_'.capacity
         /\ request_bucket_'.capacity = request_bucket_.capacity
         /\ request_bucket_'.last_refill = now
<1>1. /\ request_bucket_.capacity \in Capacities
      /\ now \in 1 .. MaxTime
  BY DEF TypeOK
<1>2. /\ Sound(request_bucket_', now)
      /\ request_bucket_'.capacity = request_bucket_.capacity
      /\ request_bucket_'.refill_per_sec = Refill
      /\ request_bucket_'.last_refill = now
  BY BucketIsSound, TryTakeFacts
<1>3. /\ request_bucket_' \in Bucket
      /\ request_bucket_'.tokens <= request_bucket_'.capacity
  BY <1>2 DEF Sound
<1> QED
  BY <1>1, <1>2, <1>3 DEF Bucket

\* A step that leaves the bucket alone keeps its invariant: time only grows.
LEMMA BucketKept ==
  ASSUME TypeOK, ClockInv, BudgetInv, RateBound,
         UNCHANGED <<request_bucket_, takes>>, now' \in {now, now + 1}
  PROVE  ClockInv' /\ BudgetInv' /\ RateBound'
<1>1. now \in Nat /\ request_bucket_.last_refill \in Nat
  BY BucketIsSound DEF Sound, Bucket
<1>2. ClockInv'
  BY <1>1 DEF ClockInv
<1>3. BudgetInv' /\ RateBound'
  BY DEF BudgetInv, RateBound
<1> QED
  BY <1>2, <1>3

\* A request that the bucket lets pass is paid for.
LEMMA TakeBudget ==
  ASSUME TypeOK, ClockInv, BudgetInv, RateBound, NEW r \in Requests,
         NEW m \in Methods, TakeRequest(r, m)
  PROVE  ClockInv' /\ BudgetInv' /\ RateBound'
<1> DEFINE b == request_bucket_
           n == Len(takes)
<1>1. /\ Proceeds(b, now)
      /\ takes' = Append(takes, now)
      /\ request_bucket_' = try_take(b, now)
      /\ now' = now
  BY DEF TakeRequest
<1>2. /\ Sound(b, now) /\ now \in Nat \ {0} /\ b.refill_per_sec = Refill
      /\ b.capacity \in Nat /\ n \in Nat /\ \A i \in 1 .. n : takes[i] \in Nat
  BY BucketIsSound
<1>3. /\ b.tokens \in Nat /\ b.last_refill \in Nat /\ b.last_refill <= now
      /\ \A i \in 1 .. n : takes[i] <= b.last_refill /\ b.last_refill # 0
  BY <1>2 DEF Sound, Bucket, ClockInv
<1>4. /\ Len(takes') = n + 1
      /\ \A i \in 1 .. n : takes'[i] = takes[i]
      /\ takes'[n + 1] = now
  BY <1>1, <1>2 DEF TypeOK
<1>5. /\ request_bucket_'.capacity = b.capacity
      /\ request_bucket_'.last_refill = now
      /\ Sound(request_bucket_', now)
      /\ request_bucket_'.tokens \in Nat
  BY <1>1, <1>2, TryTakeFacts DEF Sound, Bucket
<1> HIDE DEF b, n
<1>6. ClockInv'
  <2>1. \A i \in 1 .. n + 1 : takes'[i] <= now
    <3> TAKE i \in 1 .. n + 1
    <3>1. CASE i = n + 1
      BY <1>2, <1>4, <3>1
    <3>2. CASE i \in 1 .. n
      BY <1>2, <1>3, <1>4, <3>2
    <3> QED
      BY <1>2, <3>1, <3>2
  <2> QED
    BY <1>1, <1>2, <1>4, <1>5, <2>1 DEF ClockInv
<1>7. ASSUME b.capacity > 0, NEW i \in 1 .. n + 1
      PROVE  (n + 1 - i + 1) * Cost + request_bucket_'.tokens
               <= b.capacity + Refill * (now - takes'[i])
  <2>1. CASE i \in 1 .. n
    <3>1. n - i + 1 \in Nat /\ takes[i] \in Nat /\ b.last_refill # 0
      BY <1>2, <1>3, <2>1
    <3>2. (n - i + 1) * Cost + b.tokens <= b.capacity + Refill * (b.last_refill - takes[i])
      BY <1>7, <2>1 DEF BudgetInv, b, n
    <3>3. (n - i + 1 + 1) * Cost + try_take(b, now).tokens
            <= b.capacity + Refill * (now - takes[i])
      BY <1>1, <1>2, <1>7, <3>1, <3>2, BudgetStep
    <3>4. n + 1 - i + 1 = n - i + 1 + 1
      BY <1>2, <2>1
    <3> QED
      BY <1>1, <1>4, <2>1, <3>3, <3>4 DEF b
  <2>2. CASE i = n + 1
    <3>1. request_bucket_'.tokens = Refilled(b, now) - Cost
      BY <1>1, <1>2, <1>7, TryTakeFacts
    <3>2. Refilled(b, now) \in Nat /\ Refilled(b, now) <= b.capacity
      BY <1>2, RefilledBounds
    <3>3. (n + 1 - i + 1) * Cost = Cost /\ Refill * (now - takes'[i]) = 0
      BY <1>2, <1>4, <2>2
    <3> QED
      BY <1>2, <3>1, <3>2, <3>3
  <2> QED
    BY <1>2, <2>1, <2>2
<1>8. BudgetInv'
  <2> SUFFICES ASSUME b.capacity > 0, NEW i \in 1 .. n + 1
               PROVE  (n + 1 - i + 1) * Cost + request_bucket_'.tokens
                        <= b.capacity + Refill * (now - takes'[i])
    <3>1. \A i \in 1 .. n + 1 : takes'[i] \in Int
      BY <1>2, <1>4
    <3> QED
      BY <1>2, <1>4, <1>5, <3>1 DEF BudgetInv
  <2> QED
    BY <1>7
<1>9. RateBound'
  <2> SUFFICES ASSUME b.capacity > 0, NEW i \in 1 .. n + 1, NEW j \in i .. n + 1
               PROVE  (j - i + 1) * Cost <= b.capacity + Refill * (takes'[j] - takes'[i])
    BY <1>4, <1>5 DEF RateBound
  <2>1. CASE j = n + 1
    <3>1. (n + 1 - i + 1) * Cost + request_bucket_'.tokens
            <= b.capacity + Refill * (now - takes'[i])
      BY <1>7
    <3>2. (n + 1 - i + 1) * Cost \in Int /\ Refill * (now - takes'[i]) \in Int
      BY <1>2, <1>4
    <3> QED
      BY <1>2, <1>4, <1>5, <2>1, <3>1, <3>2
  <2>2. CASE j # n + 1
    <3>1. i \in 1 .. n /\ j \in i .. n /\ j \in 1 .. n
      BY <1>2, <2>2
    <3>2. (j - i + 1) * Cost <= b.capacity + Refill * (takes[j] - takes[i])
      BY <3>1 DEF RateBound, b, n
    <3> QED
      BY <1>4, <3>1, <3>2
  <2> QED
    BY <2>1, <2>2
<1> QED
  BY <1>6, <1>8, <1>9

\* A request that is refused costs nothing, and the refill it causes is due.
LEMMA LimitBudget ==
  ASSUME TypeOK, ClockInv, BudgetInv, RateBound, NEW r \in Requests, LimitRequest(r)
  PROVE  ClockInv' /\ BudgetInv' /\ RateBound'
<1> DEFINE b == request_bucket_
           n == Len(takes)
<1>1. /\ ~Proceeds(b, now)
      /\ request_bucket_' = try_take(b, now)
      /\ takes' = takes /\ now' = now
  BY DEF LimitRequest
<1>2. /\ Sound(b, now) /\ now \in Nat \ {0} /\ b.refill_per_sec = Refill
      /\ b.capacity \in Nat /\ n \in Nat /\ \A i \in 1 .. n : takes[i] \in Nat
  BY BucketIsSound
<1>3. /\ b.last_refill \in Nat /\ b.last_refill <= now
      /\ \A i \in 1 .. n : takes[i] <= b.last_refill /\ b.last_refill # 0
  BY <1>2 DEF Sound, Bucket, ClockInv
<1>4. /\ request_bucket_'.capacity = b.capacity
      /\ request_bucket_'.last_refill = now
      /\ request_bucket_'.tokens = Refilled(b, now)
  BY <1>1, <1>2, TryTakeFacts
<1>5. ClockInv'
  BY <1>1, <1>2, <1>3, <1>4 DEF ClockInv
<1>6. BudgetInv'
  <2> SUFFICES ASSUME b.capacity > 0, NEW i \in 1 .. n
               PROVE  (n - i + 1) * Cost + Refilled(b, now)
                        <= b.capacity + Refill * (now - takes[i])
    BY <1>1, <1>4 DEF BudgetInv
  <2>1. n - i + 1 \in Nat /\ takes[i] \in Nat /\ b.last_refill # 0
    BY <1>2, <1>3
  <2>2. (n - i + 1) * Cost + b.tokens <= b.capacity + Refill * (b.last_refill - takes[i])
    BY DEF BudgetInv
  <2> QED
    BY <1>2, <2>1, <2>2, BudgetStep
<1>7. RateBound'
  BY <1>1, <1>4 DEF RateBound
<1> QED
  BY <1>5, <1>6, <1>7

-----------------------------------------------------------------------------
(* Every step preserves the invariant *)

\* Steps of the application and the clock, and the reader's two verdicts, leave
\* threads and frames of running requests alone.
LEMMA SetupStep ==
  ASSUME IInv,
         \/ Tick \/ set_auth_callback
         \/ \E m \in Methods, vis \in Visibilities : Attach(m, vis)
  PROVE  IInv'
<1>1. TypeOK'
  <2>1. now' \in 1 .. MaxTime
    BY DEF IInv, TypeOK, Tick, set_auth_callback, Attach
  <2>2. dispatch_table' \in [Methods -> Visibilities \cup {Unattached}]
    BY DEF IInv, TypeOK, Tick, set_auth_callback, Attach
  <2>3. auth_callback_' \in BOOLEAN
    BY DEF IInv, TypeOK, Tick, set_auth_callback, Attach
  <2>4. UNCHANGED <<bucketVars, logical_role_, requestVars>>
    BY DEF Tick, set_auth_callback, Attach
  <2> QED
    BY <2>1, <2>2, <2>3, <2>4 DEF IInv, TypeOK
<1>2. ClockInv' /\ BudgetInv' /\ RateBound'
  BY BucketKept DEF IInv, Tick, set_auth_callback, Attach
<1>3. RoleInv' /\ ThreadInv' /\ PrefixSeesOwnContext'
  BY DEF IInv, RoleInv, ThreadInv, PrefixSeesOwnContext, Tick, set_auth_callback, Attach
<1>4. ApprovedForThisRequest'
  <2>1. CASE Tick \/ set_auth_callback
    BY <2>1 DEF IInv, ApprovedForThisRequest, VisibilityFor, Tick, set_auth_callback
  <2>2. ASSUME NEW m \in Methods, NEW vis \in Visibilities, Attach(m, vis) PROVE ApprovedForThisRequest'
    <3>1. \A r \in Requests : pc'[r] = "idle"
      BY <2>2 DEF Attach, Serving
    <3> QED
      BY <3>1 DEF ApprovedForThisRequest
  <2> QED
    BY <2>1, <2>2
<1> QED
  BY <1>1, <1>2, <1>3, <1>4 DEF IInv

LEMMA TakeRequestStep ==
  ASSUME IInv, NEW r \in Requests, NEW m \in Methods, TakeRequest(r, m)
  PROVE  IInv'
<1>1. TypeOK'
  <2>1. takes' \in Seq(1 .. MaxTime)
    BY DEF IInv, TypeOK, TakeRequest
  <2>2. frame' \in [Requests -> Frame] /\ pc' \in [Requests -> PCs]
    <3>1. [frame[r] EXCEPT !.method = m, !.since = {logical_role_}] \in Frame
      <4>1. frame[r] \in Frame /\ {logical_role_} \in SUBSET Roles
        BY DEF IInv, TypeOK
      <4> QED
        BY <4>1 DEF Frame
    <3> QED
      BY <3>1 DEF IInv, TypeOK, TakeRequest, Goto
  <2>3. /\ request_bucket_' \in [capacity : Capacities, refill_per_sec : {Refill},
                                 tokens : Nat, last_refill : 0 .. MaxTime]
        /\ request_bucket_'.tokens <= request_bucket_'.capacity
    BY TakeTypes DEF IInv, TakeRequest
  <2> QED
    BY <2>1, <2>2, <2>3 DEF IInv, TypeOK, TakeRequest
<1>2. ClockInv' /\ BudgetInv' /\ RateBound'
  BY TakeBudget DEF IInv
<1>3. RoleInv' /\ ThreadInv' /\ PrefixSeesOwnContext'
  BY DEF IInv, TypeOK, Frame, RoleInv, ThreadInv, PrefixSeesOwnContext, TakeRequest, Goto
<1>4. ApprovedForThisRequest'
  BY DEF IInv, TypeOK, Frame, ApprovedForThisRequest, VisibilityFor, TakeRequest, Goto
<1> QED
  BY <1>1, <1>2, <1>3, <1>4 DEF IInv

LEMMA LimitRequestStep ==
  ASSUME IInv, NEW r \in Requests, LimitRequest(r)
  PROVE  IInv'
<1>1. TypeOK'
  <2>1. pc' \in [Requests -> PCs]
    BY DEF IInv, TypeOK, LimitRequest, Goto
  <2>2. /\ request_bucket_' \in [capacity : Capacities, refill_per_sec : {Refill},
                                 tokens : Nat, last_refill : 0 .. MaxTime]
        /\ request_bucket_'.tokens <= request_bucket_'.capacity
    BY TakeTypes DEF IInv, LimitRequest
  <2> QED
    BY <2>1, <2>2 DEF IInv, TypeOK, LimitRequest
<1>2. ClockInv' /\ BudgetInv' /\ RateBound'
  BY LimitBudget DEF IInv
<1>3. RoleInv' /\ ThreadInv' /\ PrefixSeesOwnContext'
  BY DEF IInv, TypeOK, RoleInv, ThreadInv, PrefixSeesOwnContext, LimitRequest, Goto
<1>4. ApprovedForThisRequest'
  BY DEF IInv, TypeOK, ApprovedForThisRequest, VisibilityFor, LimitRequest, Goto
<1> QED
  BY <1>1, <1>2, <1>3, <1>4 DEF IInv

\* The request gets a free thread, publishes its context there and copies the role.
LEMMA BuildContextStep ==
  ASSUME IInv, NEW r \in Requests, NEW t \in Threads, BuildContext(r, t)
  PROVE  IInv'
<1>1. TypeOK'
  <2>1. frame' \in [Requests -> Frame]
    <3>1. [frame[r] EXCEPT !.role = logical_role_, !.prev_ = current_ctx[t]] \in Frame
      <4>1. /\ frame[r] \in Frame /\ logical_role_ \in Roles
            /\ current_ctx[t] \in Requests \cup {NoRequest}
        BY DEF IInv, TypeOK
      <4> QED
        BY <4>1 DEF Frame
    <3> QED
      BY <3>1 DEF IInv, TypeOK, BuildContext
  <2>2. /\ pc' \in [Requests -> PCs]
        /\ thread' \in [Requests -> {{u} : u \in Threads} \cup {{}}]
        /\ current_ctx' \in [Threads -> Requests \cup {NoRequest}]
    BY DEF IInv, TypeOK, BuildContext, Goto, EnterScope
  <2> QED
    BY <2>1, <2>2 DEF IInv, TypeOK, BuildContext
<1>2. ClockInv' /\ BudgetInv' /\ RateBound'
  BY BucketKept DEF IInv, BuildContext
<1>3. RoleInv'
  BY DEF IInv, TypeOK, Frame, RoleInv, BuildContext, Goto
<1>4. ThreadInv' /\ PrefixSeesOwnContext'
  BY DEF IInv, TypeOK, ThreadInv, PrefixSeesOwnContext, BuildContext, Free, EnterScope
<1>5. ApprovedForThisRequest'
  <2>1. /\ pc[r] = "spawned" /\ pc' = [pc EXCEPT ![r] = "context"]
        /\ frame' = [frame EXCEPT ![r].role = logical_role_, ![r].prev_ = current_ctx[t]]
        /\ dispatch_table' = dispatch_table
    BY DEF BuildContext, Goto
  <2>2. frame \in [Requests -> Frame] /\ pc \in [Requests -> PCs]
    BY DEF IInv, TypeOK
  <2>3. \A q \in Requests : q # r => frame'[q] = frame[q] /\ pc'[q] = pc[q]
    BY <2>1, <2>2
  <2>4. pc'[r] = "context" /\ frame'[r].role \in frame'[r].since
    <3>1. logical_role_ \in frame[r].since
      BY <2>1 DEF IInv, RoleInv
    <3> QED
      BY <2>1, <2>2, <3>1 DEF Frame
  <2> QED
    BY <2>1, <2>3, <2>4 DEF IInv, ApprovedForThisRequest, VisibilityFor
<1> QED
  BY <1>1, <1>2, <1>3, <1>4, <1>5 DEF IInv

\* enforce_auth has asked the callback, unless the method is public or there is none.
LEMMA DispatchStep ==
  ASSUME IInv, NEW r \in Requests, Dispatch(r)
  PROVE  IInv'
<1>1. PICK answer \in Answers :
        /\ Allowed(r, answer)
        /\ frame' = [frame EXCEPT ![r].since = {}, ![r].gated = Asked(r), ![r].answer = answer]
  BY DEF Dispatch, Answers, NoAnswer
<1>2. /\ frame \in [Requests -> Frame] /\ pc \in [Requests -> PCs]
      /\ pc' = [pc EXCEPT ![r] = "prefix"]
      /\ UNCHANGED <<now, bucketVars, setupVars, logical_role_, thread, current_ctx>>
  BY DEF IInv, TypeOK, Dispatch, Goto
<1>3. /\ frame'[r] \in Frame
      /\ frame'[r].method = frame[r].method
      /\ frame'[r].gated = Asked(r) /\ frame'[r].answer = answer
  <2>1. frame[r] \in Frame /\ Asked(r) \in BOOLEAN
    BY <1>2 DEF Asked, IInv, TypeOK
  <2>2. frame'[r] = [frame[r] EXCEPT !.since = {}, !.gated = Asked(r), !.answer = answer]
    BY <1>1, <1>2
  <2> QED
    BY <2>1, <2>2 DEF Frame
<1>4. \A q \in Requests : q # r => frame'[q] = frame[q] /\ pc'[q] = pc[q]
  BY <1>1, <1>2
<1>5. TypeOK'
  <2>1. frame' \in [Requests -> Frame]
    BY <1>1, <1>2, <1>3
  <2> QED
    BY <1>2, <2>1 DEF IInv, TypeOK
<1>6. ClockInv' /\ BudgetInv' /\ RateBound'
  BY <1>2, BucketKept DEF IInv
<1>7. RoleInv' /\ ThreadInv' /\ PrefixSeesOwnContext'
  BY <1>2, <1>4 DEF IInv, RoleInv, ThreadInv, PrefixSeesOwnContext
<1>8. ApprovedForThisRequest'
  <2>1. \A q \in Requests : VisibilityFor(q)' = VisibilityFor(q)
    BY <1>2, <1>3, <1>4 DEF VisibilityFor
  <2>2. pc'[r] = "prefix" /\ (Asked(r) => answer.allow /\ (VisibilityFor(r) = "admin" => answer.is_admin))
    BY <1>1, <1>2 DEF Allowed, Asked
  <2> QED
    BY <1>3, <1>4, <2>1, <2>2 DEF IInv, ApprovedForThisRequest
<1> QED
  BY <1>5, <1>6, <1>7, <1>8 DEF IInv

\* The coroutine unwinds on a thread that is its own, or that nobody uses.
LEMMA UnwindStep ==
  ASSUME IInv, NEW r \in Requests, NEW t \in Threads, Unwind(r, t),
         t \in thread[r] \/ Free(t),
         NEW to \in {"refused", "done"}, pc' = [pc EXCEPT ![r] = to]
  PROVE  IInv'
<1>1. TypeOK'
  <2>1. frame' \in [Requests -> Frame]
    BY DEF IInv, TypeOK, Frame, NoFrame, NoAnswer, Answers, Unwind
  <2>2. /\ pc' \in [Requests -> PCs]
        /\ thread' \in [Requests -> {{u} : u \in Threads} \cup {{}}]
        /\ current_ctx' \in [Threads -> Requests \cup {NoRequest}]
    BY DEF IInv, TypeOK, Frame, Unwind, LeaveScope
  <2> QED
    BY <2>1, <2>2 DEF IInv, TypeOK, Unwind
<1>2. ClockInv' /\ BudgetInv' /\ RateBound'
  BY BucketKept DEF IInv, Unwind
<1>3. RoleInv'
  BY DEF IInv, TypeOK, Frame, NoFrame, RoleInv, Unwind
<1>4. ThreadInv'
  BY DEF IInv, TypeOK, ThreadInv, Unwind
<1>5. PrefixSeesOwnContext'
  <2>1. \A s \in Requests : s # r => t \notin thread[s]
    <3> SUFFICES ASSUME NEW s \in Requests, s # r, t \in thread[s] PROVE FALSE
      OBVIOUS
    <3>1. thread[s] = {t} /\ (t \in thread[r] => thread[r] = {t})
      BY DEF IInv, TypeOK
    <3> QED
      BY <3>1 DEF IInv, ThreadInv, Free
  <2> QED
    BY <2>1 DEF IInv, TypeOK, PrefixSeesOwnContext, Unwind, LeaveScope
<1>6. ApprovedForThisRequest'
  BY DEF IInv, TypeOK, Frame, ApprovedForThisRequest, VisibilityFor, Unwind
<1> QED
  BY <1>1, <1>2, <1>3, <1>4, <1>5, <1>6 DEF IInv

\* A stamp is seen by every request whose context is still to be built.
LEMMA SetRoleStep ==
  ASSUME IInv, NEW r \in Requests, NEW to \in Roles, set_logical_role(r, to)
  PROVE  IInv'
<1>1. /\ logical_role_' = to
      /\ frame' = [q \in Requests |->
                     IF pc[q] = "spawned" THEN [frame[q] EXCEPT !.since = @ \cup {to}]
                     ELSE frame[q]]
      /\ UNCHANGED <<now, bucketVars, setupVars, pc, thread, current_ctx>>
  BY DEF set_logical_role
<1>2. ASSUME NEW q \in Requests
      PROVE  /\ frame'[q] \in Frame
             /\ pc[q] = "spawned" => to \in frame'[q].since
             /\ pc[q] # "spawned" => frame'[q] = frame[q]
  <2>1. frame[q] \in Frame
    BY DEF IInv, TypeOK
  <2>2. [frame[q] EXCEPT !.since = @ \cup {to}] \in Frame
    BY <2>1 DEF Frame
  <2> QED
    BY <1>1, <2>1, <2>2 DEF Frame
<1>3. TypeOK'
  <2>1. frame' \in [Requests -> Frame]
    BY <1>1, <1>2
  <2> QED
    BY <1>1, <2>1 DEF IInv, TypeOK
<1>4. ClockInv' /\ BudgetInv' /\ RateBound'
  BY <1>1, BucketKept DEF IInv
<1>5. RoleInv' /\ ThreadInv' /\ PrefixSeesOwnContext'
  BY <1>1, <1>2 DEF IInv, RoleInv, ThreadInv, PrefixSeesOwnContext
<1>6. ApprovedForThisRequest'
  BY <1>1, <1>2 DEF IInv, ApprovedForThisRequest, VisibilityFor
<1> QED
  BY <1>3, <1>4, <1>5, <1>6 DEF IInv

LEMMA SuspendStep ==
  ASSUME IInv, NEW r \in Requests, Suspend(r)
  PROVE  IInv'
<1>1. TypeOK'
  BY DEF IInv, TypeOK, Suspend, Goto
<1>2. ClockInv' /\ BudgetInv' /\ RateBound'
  BY BucketKept DEF IInv, Suspend
<1>3. RoleInv' /\ ThreadInv' /\ PrefixSeesOwnContext'
  BY DEF IInv, TypeOK, RoleInv, ThreadInv, PrefixSeesOwnContext, Suspend, Goto
<1>4. ApprovedForThisRequest'
  BY DEF IInv, TypeOK, ApprovedForThisRequest, VisibilityFor, Suspend, Goto
<1> QED
  BY <1>1, <1>2, <1>3, <1>4 DEF IInv

-----------------------------------------------------------------------------
(* The theorems *)

\* A new session, whatever its limit, satisfies the invariant.
LEMMA InitIInv == Init => IInv
<1> SUFFICES ASSUME Init PROVE IInv
  OBVIOUS
<1>1. TypeOK
  <2>1. frame \in [Requests -> Frame]
    BY DEF Init, Frame, NoFrame, Answers, NoAnswer
  <2>2. /\ request_bucket_ \in [capacity : Capacities, refill_per_sec : {Refill},
                                tokens : Nat, last_refill : 0 .. MaxTime]
        /\ request_bucket_.tokens <= request_bucket_.capacity
        /\ request_bucket_.last_refill = 0
    BY DEF Init, Fresh
  <2>3. now \in 1 .. MaxTime /\ takes \in Seq(1 .. MaxTime) /\ auth_callback_ \in BOOLEAN
    <3>1. now \in 1 .. MaxTime
      BY DEF Init
    <3>2. takes \in Seq(1 .. MaxTime)
      BY DEF Init
    <3>3. auth_callback_ \in BOOLEAN
      BY DEF Init
    <3> QED
      BY <3>1, <3>2, <3>3
  <2>4. /\ dispatch_table \in [Methods -> Visibilities \cup {Unattached}]
        /\ logical_role_ \in Roles
        /\ pc \in [Requests -> PCs]
    BY DEF Init
  <2>5. /\ thread \in [Requests -> {{t} : t \in Threads} \cup {{}}]
        /\ current_ctx \in [Threads -> Requests \cup {NoRequest}]
    BY DEF Init
  <2> QED
    BY <2>1, <2>2, <2>3, <2>4, <2>5 DEF TypeOK
<1>2. ClockInv /\ BudgetInv /\ RateBound
  <2>1. takes = <<>> /\ now = 1 /\ request_bucket_.last_refill = 0
    BY DEF Init, Fresh
  <2>2. 1 .. Len(takes) = {}
    BY <2>1
  <2> QED
    BY <2>1, <2>2 DEF ClockInv, BudgetInv, RateBound
<1>3. RoleInv /\ ApprovedForThisRequest /\ ThreadInv /\ PrefixSeesOwnContext
  BY DEF Init, NoFrame, RoleInv, ApprovedForThisRequest, ThreadInv, PrefixSeesOwnContext
<1> QED
  BY <1>1, <1>2, <1>3 DEF IInv

LEMMA NextIInv == IInv /\ [Next]_vars => IInv'
<1> SUFFICES ASSUME IInv, [Next]_vars PROVE IInv'
  OBVIOUS
<1>1. CASE UNCHANGED vars
  BY <1>1 DEF vars, IInv, TypeOK, ClockInv, BudgetInv, RateBound, RoleInv,
              ApprovedForThisRequest, VisibilityFor, ThreadInv, PrefixSeesOwnContext
<1>2. CASE \/ Tick \/ set_auth_callback
           \/ \E m \in Methods, vis \in Visibilities : Attach(m, vis)
  BY <1>2, SetupStep
<1>3. ASSUME NEW r \in Requests, RequestNext(r) PROVE IInv'
  <2>1. CASE Refuse(r)
    <3>1. PICK t \in thread[r] : Unwind(r, t)
      BY <2>1 DEF Refuse
    <3>2. t \in Threads
      BY DEF IInv, TypeOK
    <3> QED
      BY <2>1, <3>1, <3>2, UnwindStep DEF Refuse, Goto
  <2>2. ASSUME NEW t \in Threads, Finish(r, t) PROVE IInv'
    BY <2>2, UnwindStep DEF Finish, Goto
  <2> QED
    BY <1>3, <2>1, <2>2, TakeRequestStep, LimitRequestStep, DispatchStep, SuspendStep,
       BuildContextStep, SetRoleStep DEF RequestNext
<1> QED
  BY <1>1, <1>2, <1>3 DEF Next

LEMMA Invariance == Spec => []IInv
  BY InitIInv, NextIInv, PTL DEF Spec

\* Types hold in every reachable state, and the bucket never overflows.
THEOREM DispatcherTypes == Spec => []TypeOK
<1>1. IInv => TypeOK  BY DEF IInv
<1> QED  BY <1>1, Invariance, PTL

\* Over any interval the bucket lets pass no more than its burst and its rate
\* allow, for every capacity, rate and cost of a request.
THEOREM BucketBoundsRate == Spec => []RateBound
<1>1. IInv => RateBound  BY DEF IInv
<1> QED  BY <1>1, Invariance, PTL

\* Up to its first co_await a handler sees its own request's context, on however
\* many threads the requests of the session run.
THEOREM HandlersSeeTheirContext == Spec => []PrefixSeesOwnContext
<1>1. IInv => PrefixSeesOwnContext  BY DEF IInv
<1> QED  BY <1>1, Invariance, PTL

\* Whatever the installed callback answers and whatever roles handlers stamp, a
\* handler that is not public runs only if the callback has allowed its request,
\* and was shown a role the session has had since the request came.
THEOREM HandlersAreApproved == Spec => []ApprovedForThisRequest
<1>1. IInv => ApprovedForThisRequest  BY DEF IInv
<1> QED  BY <1>1, Invariance, PTL

\* A client that backs off is served: a request that comes long enough after the
\* last one is not refused by the bucket.
THEOREM BackingOffHelps == Spec => BackOffHelps
<1> DEFINE Helps ==
      \A r \in Requests :
        /\ pc[r] = "idle"
        /\ \/ request_bucket_.capacity = 0
           \/ /\ request_bucket_.capacity >= Cost
              /\ (now - request_bucket_.last_refill) * Refill >= Cost
        => pc'[r] # "limited"
<1>1. IInv /\ [Next]_vars => [Helps]_vars
  <2> SUFFICES ASSUME IInv, Next, NEW r \in Requests, pc[r] = "idle",
                      \/ request_bucket_.capacity = 0
                      \/ /\ request_bucket_.capacity >= Cost
                         /\ (now - request_bucket_.last_refill) * Refill >= Cost
               PROVE  pc'[r] # "limited"
    OBVIOUS
  <2>1. Proceeds(request_bucket_, now)
    BY BucketIsSound, BackOff DEF IInv
  <2>2. ~LimitRequest(r)
    BY <2>1 DEF LimitRequest
  <2>3. pc \in [Requests -> PCs]
    BY DEF IInv, TypeOK
  <2>4. CASE \/ Tick \/ set_auth_callback
             \/ \E m \in Methods, vis \in Visibilities : Attach(m, vis)
    BY <2>4 DEF Tick, set_auth_callback, Attach
  <2>5. ASSUME NEW s \in Requests, RequestNext(s) PROVE pc'[r] # "limited"
    BY <2>2, <2>3, <2>5
    DEF RequestNext, TakeRequest, LimitRequest, Dispatch, Refuse, Suspend,
        BuildContext, Finish, set_logical_role, Goto
  <2> QED
    BY <2>4, <2>5 DEF Next
<1> QED
  BY <1>1, Invariance, PTL DEF Spec, BackOffHelps

=============================================================================
