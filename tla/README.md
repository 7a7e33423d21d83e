# grlx-rpc: TLA+ models, checks and proofs

grlx-rpc is a header-only C++20 RPC library on Boost.Asio coroutines. A client
and a server each hold a `session` over TCP or TLS; calls, answers, keepalives
and notifications are multiplexed over one framed stream. Almost everything that
can go wrong goes wrong *between* suspension points: a timeout against a late
answer, `close()` against a call that is just registering, an accept loop
against the counters it trusts. The modules in this directory model those parts
at that grain, TLC checks them on small instances, and TLAPS proves the safety
properties for any number of calls, connects, connections, sessions, requests
and entries.

Paths below are relative to `src/include/grlx/rpc/`.

## 1. Inventory

| Component | State | Operations | Interacts with |
|---|---|---|---|
| `session` (session.hpp) | `write_channel_` (256 slots), `is_closed_`, `request_bucket_`, `notification_strand_`, the reader and writer coroutines | `call`, `notify`, `try_notify`, `try_ping`, `dispatch_requests` (`msg_reader` and `msg_writer`), `respond`, `close` | `async_manager` for answers, `dispatcher` for requests, the peer's session over the wire |
| `async_manager` | `next_token_` (atomic), `channels_` (mutex) | `create_operation`, `complete_operation`, `cancel_all_operations` | callers of `session::call`, the reader, `close()` |
| `server` admission (server.hpp, `accept_raw` and `handshake` of the channels) | `acceptor_` of the channel, `limits_`, `global_session_count_`, `handshakes_in_flight_` (atomics), `per_ip_count_`, `per_ip_accept_bucket_` (mutex) | `start`, `channel().close`, `set_server_limits`, accept loop, pre-handshake filter, handshake coroutine with its deadline, completion handler | channels, sessions |
| `server` registry | `active_sessions_` on `sessions_strand_`, hooks, `logical_session_id_` of the sessions | insertion, removal, `notify`, `notify_session`, `session_count`, `close_all_sessions`, `stop` | sessions, application hooks |
| `async_logger` | `pending_logs_` on a strand, `flush_timer_`, `is_stopped_` | `start`, `log`, `flush`, `stop`, the worker | every session owns one |
| `client` | `client_session_` (swapped atomically), notification handlers | `connect`, `invoke`, `invoke_with_timeout`, `disconnect`, `try_ping` | one session at a time |
| `dispatcher`, `security.hpp` | handler table, auth callback, `token_bucket` | `attach`, `dispatch`, `dispatch_async`, `enforce_auth`, `try_take` | request handlers of a session |
| `buffer_pool`, `encoder`, `message`, `string_hash`, `ssl_channel`, `tcp_channel` | pool of buffers; otherwise none | encode, hash, handshake, connect | the above |

What is hard in it, and what has to hold:

* **Concurrent calls.** Callers run on a multi-threaded executor and share
  tokens, map, write channel and reader. A call must get its own answer or a
  failure, once, and nothing it does may block or kill the one reader.
* **Teardown.** `close()` may come from the reader, the writer, the application
  or the server's strand, while calls register, queue and wait. It cancels
  every response channel and every read and write, but it does not resume a
  sender that is suspended on the full write channel; everybody else must get out,
  and both coroutines must end unless the reader is such a sender.
* **Timeouts.** The handler of a call's timer races with the answer at every
  statement.
* **Back-pressure.** All channels are bounded, and the reader itself sends. The
  two ends must not wait for each other in a circle.
* **Framing.** Each path through a handler must take exactly one body off the
  stream.
* **Check, then act.** The caps of the server are tested before a handshake and
  counted after it; each counter must be given back on every path.
* **Stalling peers.** One coroutine accepts for everybody, and the limits it
  reads may be changed under its eyes.
* **Broadcasts** work through a copy of the set of sessions while sessions come,
  are given their ids, end and are stopped.
* **Lifetime.** Sessions are identified to the application by their address.
* **Reconnecting.** One pointer to the current session is written by `connect()`,
  `disconnect()` and the completion handler of every session there ever was.
* **Authorisation.** Requests run concurrently and are judged by copies of the
  session's identity, which one of them may be changing.
* **The logger's timer** serves two purposes at once: pacing and shutdown.

`PROJECT.json` lists the same hazards at their source lines, with the properties
that would catch each one.

## 2. Modules

| Module | Models | Run by |
|---|---|---|
| `RpcCall` | what `session::call` promises: abstract specification | refined by `SessionCalls` |
| `SessionCalls` | the calling side of a session, with `async_manager`, writer, reader, timer, `close()` | `MCSessionCalls` |
| `SessionCallsProofs` | theorems about `SessionCalls`, and that it implements `RpcCall` | tlapm |
| `Connection` | two sessions and the wire between them | `MCConnection` |
| `ConnectionProofs` | theorems about `Connection` | tlapm |
| `Admission` | the listening channel, accept loop, filter, handshakes, counters, limits | `MCAdmission` |
| `AdmissionProofs` | theorems about `Admission` | tlapm |
| `Registry` | `active_sessions_`, hooks, broadcasts and targeted notifications, stop | `MCRegistry` |
| `RegistryProofs` | theorems about `Registry` | tlapm |
| `AsyncLogger` | the logger and its worker | `MCAsyncLogger` |
| `AsyncLoggerProofs` | theorems about `AsyncLogger` | tlapm |
| `Client` | `client_session_`, `connect`, `disconnect`, `invoke`, notification handlers | `MCClient` |
| `ClientProofs` | theorems about `Client` | tlapm |
| `TokenBucket` | `token_bucket` as operators | used by `Dispatcher` and `Admission` |
| `TokenBucketProofs` | what `try_take` does to a bucket, for any capacity and rate | tlapm |
| `Dispatcher` | request rate, dispatch table, authorisation, per-call context | `MCDispatcher` |
| `DispatcherProofs` | theorems about `Dispatcher` | tlapm |

How they fit together: `Connection` abstracts a call to its request and takes
from `SessionCalls` that completing a call never suspends the reader
(`CompletionNeverBlocks`); `SessionCalls` takes from `Connection` that a peer
answers a request at most once (`OneAnswer`), which its `PeerAnswers` builds in.
`Registry` assumes, as fairness, that a closed session ends unless its reader is
suspended in `respond`; that is `SessionCalls!TeardownRests`. `Admission` and `Registry` split
`server::start` between them: the first follows the counters, the second what
happens to an admitted session. `Client` takes a session as a socket and a
`dispatch_requests` that ends when the socket is closed: a client's reader never
sends, so `TeardownRests` promises the end of both coroutines. `Dispatcher` looks inside what `Connection` calls a request
handler, and uses the bucket that `Connection` lets refuse at any time.

A definition that starts with a comment "Mutant:" is a deliberate mistake, used
only to see that a property notices it (`PROJECT.json`, "mutants").

### SessionCalls

One step per suspension point, lock or atomic. `pc[c]` follows `session::call`:
`idle`, `registered` (after `create_operation`), `parked` (suspended on a full
write channel), `sent`, `armed` (timer started, receive not yet), `receiving`,
`resumed` (a completion is posted), `done`. `timer[c]` follows the timer's
handler through its three statements. A response channel is its one buffered
element (`inbox`), the completion posted to its receiver (`ready`) and whether
it is open. `complete_operation` is two steps, the erase under the lock
(`ReadFrame`) and the send outside it (`CompleteSend`), with `held` in between.
`close()` is a sequence of stages, in the order of its statements; the
compare-and-swap makes one caller win, and from there on the stages are steps of
their own. The peer answers requests in any order, or never.

A request of the peer that is over the limits is answered by the reader itself
(`RejectRequest`), which is suspended like any sender when the write channel is
full; then it reads on, or closes the session if the request was too large.
`Serves` says whether the peer sends such requests. A request within the limits
gets a coroutine of its own and is left to `Connection`.

Closing the write channel wakes its receivers and no one else: a suspended sender
resumes only when `msg_writer` takes an item. So two coroutines may outlive
`close()`. A call suspended in `queue_write` (session.hpp:395) has no timer yet
and waits without limit; a reader suspended in `respond` keeps
`dispatch_requests` (session.hpp:291) from completing. `OnlyParkedCallsOrphaned`
and `TeardownRests` say that there are no others, and only behind a full
channel. Where Asio leaves a choice, so does the model: a closed channel may
deliver buffered items or not. A frame is abstracted to its token and, as a
ghost, the call it belongs to.

`CallerOnStrand` says whether a caller and its timer handler exclude each other
(a strand, or a single-threaded context) or not (the raw multi-threaded
executor).

### Connection

The wire is a sequence of chunks, a header and, unless the body is empty, a
body. The reader of each end is at a frame boundary, in a body, draining, or
suspended in `respond`. A body is empty, within `max_message_bytes` or above it;
a rate limit may strike at any request. The client calls and pings, the server
answers and notifies. Request handlers run concurrently. One that returns has
its result sent; one that throws, or whose `respond` throws because the session
is closed, goes through the `catch` (session.hpp:693-707) and sends an error,
whose own exception is ignored. Either is suspended on a full write channel.
`close()` throws a reader out of its read and loses what is queued and not yet
written; suspended senders, the reader among them, stay suspended. Notifications are posted to
`notification_strand_` and applied one by one. A wrong magic number or an
unknown type is not an action of its own: the reader fails the same way as on a
broken connection, and `FramingSync` shows that the other end never causes it.

### Admission

Connections are numbered in the order of the listener's backlog and taken up in
that order; `Origins` says what addresses they come from. One moves from `new`
through the two probes of the filter, the bucket of its address, the handshake
cap, the handshake and the two counters, and back to `gone`. One coroutine runs
the accept loop, so one connection at a time is in it. Between the handshake's
end and the counting there is no suspension point, so a connection there
occupies one of `Threads` threads.

A bucket is created when its address is first seen, and takes capacity and
refill from `limits_` as long as its capacity is 0, refused or not, as the code
does; so `set_server_limits`, which may come at any time, changes buckets that
are not limiting and leaves the others. `limits_` is assigned member by member
and read member by member without a lock; `Limits` is a product of sets, so the
mixtures are among the values. `passed` is a ghost, the time at which a limiting
bucket let a connection through.

A peer in `Vanishing` may be gone when its address is read: `accept_raw` then
skips the filter, and after the handshake the session has no peer address and is
counted under the empty one. A handshake ends, fails, or is cut off by its
deadline (`race_handshake`; plain TCP has no deadline because its handshake does
not wait). After `Close` no accept succeeds and what was accepted goes on; a
turn of the accept loop that fails changes nothing and is a stuttering step.

### Registry

`strand` is the queue of handlers posted to `sessions_strand_`, run in order.
`addr` is the session's address, its `session_token`; `make_shared` may return
any address no live session occupies, and a session lives as long as its
coroutine, the completion handler, the set, a posted handler or a copy of the
set holds it. `seen` is a ghost in the handler of `stop()`: the sessions
registered when the call was made.

A serving session may be `suspended`, its reader waiting in `respond` on a full
write channel (`ReaderSuspends`, `ReaderResumes`). If it is closed then, by
`stop()` or a failing write, nothing promises that it ends: the close hook does
not run, `active_sessions_` holds it until a `stop()` clears the set, and its
seats (`Admission`) are not given back.
`EndedSessionLeaves` is stated for the other closed sessions.

`call` is a `notify` (target `Everyone`) or `notify_session` (target an id) in
progress: the handler that copies the set is posted, then the caller's own
coroutine goes through the copy, in any order, reading `logical_session_id_` as
it goes. The ghost `call.due` starts with the sessions the call is meant for and
loses the ones `try_notify` was called on. Ids are stamped by a request handler,
once; the write is not synchronised with the read, and a reader gets the old or
the new value.

### AsyncLogger

The strand runs pushes, flushes and the resumptions of the worker in the order
of posting. `expires_after` and `cancel` complete a pending wait with
`operation_aborted`. `stop()` runs on any thread, so its `cancel()` may come just
before the worker starts to wait and then aborts nothing.

### Client

A `connect()`, `invoke` or `disconnect()` is one member of a constant set, and
the session a `connect()` builds has its name. Each access to `client_session_`,
under the mutex of `synchronized_shared_ptr`, is one step; so `disconnect()` is
three (exchange, close, clear the handlers), and `connect()` can be interrupted
between the store and the spawn of `dispatch_requests`. `session->handshake()`
returns at once (session.hpp:124); the TLS handshake is part of
`channel_.connect`. Handlers are those of one notification name. `crowded` is a
ghost: a `connect()` began while another was under way or a session installed.

### TokenBucket and Dispatcher

Tokens are counted in whole units with `Cost` units per request, so a `Cost`
that the refill does not divide stands for fractional rates; rounding of doubles
is not modelled. Capacities are of any size, also between 0 and `Cost`, which the
code takes for a limit and not for "disabled". The reader takes requests through
the bucket or answers with an error; one it takes then runs on
a free thread, copies the session's role into its context, enters the
thread-local scope, is judged, and runs to its first suspension. A coroutine
that was suspended ends on any thread and restores the thread-local *there*, as
the code does. `frame` is what the coroutine of a request holds: its method, the
role in its context, the pointer its scope object saved, and three ghosts: the
roles the session has had since the request came (`since`), whether a callback
was asked (`gated`) and what it said (`answer`). The auth callback is the
application's and may answer anything, whatever role it is shown (`Answers`);
`enforce_auth` obeys it. `set_logical_role` assigns without a condition, so any
handler may stamp any of `Stamps`, or the default again, at any time.

## 3. Runs

| Run | Instance | Result |
|---|---|---|
| `session_safety` | 2 calls, write channel of 1, notifications, requests over the limits, multi-threaded; symmetric calls | passes: `TypeOK`, `OwnAnswer`, `CompletionNeverBlocks`, `OnlyParkedCallsOrphaned`, `LeftoverEntries`, refinement `CallPromise` |
| `session_live` | 1 call, write channel of 1, notifications, requests over the limits, caller on a strand | passes: `ArmedCallReturns`, `TeardownRests` |
| `session_multithreaded` | 1 call, multi-threaded | violates `ArmedCallReturns` |
| `connection` | 2 calls, 2 notifications, pings, write channels of 1, network of 1 chunk per direction | passes: `TypeOK`, `FramingSync`, `OneAnswer`, `NotificationOrder`, `AnsweredOrClosed` |
| `admission` | 4 connections from 1 or 2 addresses, 2 of them with peers that may vanish, all caps 1, 1 thread, bursts of 0 and 1.5 connections, 2 ticks | passes: `TypeOK`, `SeatsMatch`, `OvershootBound`, `AcceptRateBound`, `ArrivalsSettle` |
| `admission_hardcap` | 4 connections, 1 session, 2 handshakes at a time, no limiter | violates `HardCap` |
| `registry` | 2 sessions, 2 addresses, 1 id | passes: `TypeOK`, `TokensDistinct`, `StrandSeesPosted`, `NoZombie`, `DeliveredToTarget`, `EndedSessionLeaves` |
| `registry_token` | 2 sessions, 2 addresses, 1 id | violates `TokenNotReused` |
| `logger` | 3 entries | passes: `TypeOK`, `KeptOnce`, `InPushOrder`, `LiveWorkerDelivers`, `StopEndsWorker` |
| `logger_pending` | 2 entries | violates `PendingGetsFlushed` |
| `client` | 2 connects, 1 call, 1 disconnect | passes: `TypeOK`, `UsableWhenVisible`, `NoLeakedSession`, `LiveSessionStays`, `DeadSessionCleared`, `DisconnectedSessionEnds` |
| `dispatcher` | 3 requests, 2 methods, 2 threads, no limit or bursts of 2/3, 1 and 4/3 requests, 3 ticks, 1 role to stamp; symmetric | passes: `TypeOK`, `ApprovedForThisRequest`, `RateBound`, `PrefixSeesOwnContext`, `BackOffHelps` |

Run one with `tlc -config MCSessionCalls_safety.cfg MCSessionCalls`, and so on.

Why the bounds are enough. Two calls on a write channel of one slot already give
a full channel, a suspended sender, a timed-out call whose answer is late, and
answers in both orders; tokens are compared for equality only. In `session_live`
notifications and the reader's own answers fill the channel against one call. In `connection`
every queue on the way holds one element, so both ends can be blocked in every
combination, and two notifications are what an order needs. In `admission` four
connections are one more than the bound that `OvershootBound` allows with caps
of one, so the bound is met and exceeding it is within reach; four from one
address exceed every burst, and two ticks are what an interval needs. One from
another address in front of them is enough for the caps of two addresses to
differ. In `registry` every property speaks of one session or of two, the second
of which may get the address of the first; a session with another id is, to a
call, one without. In `client` two connects give
an old and a new session, in both orders, and the proofs lift the bound for what
is a safety property. In `dispatcher` three ticks refill two
requests, which a burst of one must not allow at once and a burst below one not
at all; the default and one other role are what a stale copy needs.
Deadlock checking is off in all of them: calls, connections and entries run out,
and a closed session rests.

Bounds in the guards: one ping or pong under way (`Connection!TryPing`), one
`notify` or `notify_session` and one `stop()` at a time (`Registry`), `MaxConns`
connections, `Vanishing` ones among them and `MaxTime` (`Admission`), one flush waiting
(`AsyncLogger!Flush`), `MaxRequests`, `MaxNotes`, `PipeCap`, one
notification per session on its way (`Client!Arrives`), `MaxTime` (`Dispatcher!Tick`).

Fairness. Runnable coroutines and posted handlers are run, timers expire, I/O on
a closed socket fails: that is what an executor with a running thread gives.
Nothing is assumed of the application, and in `SessionCalls` nothing of the
peer or of a write on an open socket. Suspended senders are resumed by the
writer only; in `Registry`, which has no writer, a suspended reader need not
resume.
In `Admission` the deadline of a handshake expires, and nothing is assumed of the
peer, who may stall and stay for ever; there and in `Registry` the steps of all
connections are one weakly fair action, which is less than a condition for each
and enough, since each takes only so many steps.
In `Connection` the network delivers and request handlers finish, since the
question there is whether the two ends block each other.

### What the violations show

1. `session_multithreaded`: `call()` starts its timer before `async_receive`.
   When the handler runs in between, on another thread, `ch->cancel()` finds no
   receive to abort, and the call waits without a timeout (session.hpp:218).
   Callers on a strand are safe (`session_live`).
2. `admission_hardcap`: "Hard cap on concurrent sessions" (security.hpp:268) is
   exceeded by connections that passed the filter before others were counted.
   `OvershootBound` says by how much at most.
3. `registry_token`: a token is an address, and "After close, the token is not
   reused" (server.hpp:172) does not follow from a fresh allocation. Between the
   open and the close hook it is unique (`TokensDistinct`).
4. `logger_pending`: the first `log()` restarts the timer, which ends the worker.
   Later entries stay in the queue until someone calls `flush()`
   (async_logger.hpp:91, 136 and 141).

Some more disagreements between comments and code were met while modelling. They
have no run: each can be read off a line or two.

* server.hpp:315 says that without an auth callback calls to authenticated
  endpoints "will be denied"; `enforce_auth` (dispatcher.hpp:222) treats every
  visibility as public then. `Dispatcher!Allowed` follows the code, which is why
  `ApprovedForThisRequest` speaks of requests judged with a callback.
* A peer that keeps hitting the request limit is to get errors "until idle_timeout
  reaps the session" (session.hpp:614), and sessions that cannot keep up "are
  reaped by the per-session idle_timeout" (server.hpp:393). A reader suspended in
  `respond` has no read pending and so no timeout, and `close()` does not resume
  it. The exception in `TeardownRests` and in `EndedSessionLeaves` is this case.
* `current_call_context_scope` is said to scope the thread-local "for one
  dispatch call" (security.hpp:234); after a suspension its destructor runs on
  another thread, and the first thread keeps the pointer. The promise that
  handlers rely on, up to the first `co_await`, holds (`PrefixSeesOwnContext`).
* server.hpp:323 says that changes of the limits "take effect on the next
  accept". A bucket with a capacity keeps it (server.hpp:93), and one that was
  not limiting starts to limit without a single token. `AcceptRateBound` is
  stated with the bucket's own capacity, which is what the code enforces.
* tcp_channel.hpp:36 looks for the last colon "to handle IPv6 addresses like
  [::1]:8080"; such an address has several colons and is returned whole, with
  port 0 (tcp_channel.hpp:45). ssl_channel.hpp:350 splits it.

## 4. Proofs

`SessionCallsProofs` proves, for any set of calls, any capacity of the write
channel, with and without notifications and requests of the peer, callers on a
strand or not:

| Theorem | States |
|---|---|
| `TypeCorrect` | `Spec => []TypeOK` |
| `CallsGetTheirOwnAnswer` | `Spec => []OwnAnswer` |
| `ReaderIsNeverBlocked` | `Spec => []CompletionNeverBlocks` |
| `CloseOrphansOnlyParked` | `Spec => []OnlyParkedCallsOrphaned` |
| `OnlyFailedCallsLeaveEntries` | `Spec => []LeftoverEntries` |

The only assumption is `SessionAssumption` of `SessionCalls`, about the
constants. They rest on one inductive invariant, `IInv`, and its parts say why the
code works:

* `TokenInv`: tokens are unique, and an entry of `channels_` is under its
  owner's token;
* `WireInv`: what is queued, under way or suspended carries its call's token;
* `OwnershipInv`: at most one of the map, `cancel_all_operations` and the reader
  may touch a response channel, and until one does the channel is open and
  empty. This is what `CompletionNeverBlocks` needs: the property alone says
  nothing of the entry before the reader takes it;
* `WaiterInv`: a call that waits is owed a completion by one of these three;
* `AnswerInv`: what is in a channel, or was received, is the call's own answer;
* `CloseInv`: after `close()` has emptied the map, only calls that can no longer
  send are in it. With `WaiterInv` this gives what `OnlyParkedCallsOrphaned` says
  of the calls that wait for their answer; `ParkedInv`, inductive with `IInv`
  (senders are suspended behind a full channel only, each with its frame), gives
  the rest.

`NextIInv` has one lemma per action, and in each one step per part of `IInv`
that the action can disturb.

The second half of the module proves `CallsKeepTheirPromise`,
`Spec => CallPromise`: the detailed specification implements `RpcCall`, step by
step. A call's abstract status is its `pc` and `outcome`, its answer what the
peer decided. `IInv` is not enough for it: `RequestInv` adds that a request is in
one place at a time (write channel, writer, network) and unanswered there, so the
peer cannot answer twice, and `KindInv` that the frame, the reader, the response
channel and the posted completion all hold what the peer answered.

`ConnectionProofs` proves, for any number of calls and notifications and any
capacity of the write channels and the network (`ConnectionAssumption`):

| Theorem | States |
|---|---|
| `ConnectionTypes` | `Spec => []TypeOK` |
| `FramingIsKept` | `Spec => []FramingSync` |
| `AnsweredOnce` | `Spec => []OneAnswer` |
| `NotificationsInOrder` | `Spec => []NotificationOrder` |

What goes from one end to the other passes through five stages: senders waiting
for room, write channel, writer, network, reader. The invariant (`Stream`)
describes one direction as a whole, and both directions satisfy it. `Framed` says
that every chunk is followed by what has to follow it, across the stages: a
header by its body unless that is empty, anything else by a header. `Flows` says
that the numbers of the requests (of the notifications) in the stages are
adjoining stretches of 1, 2, 3, ..., so what arrives next has the next number.
`OneAnswer` needs this: that a request was not answered or spawned before follows
only from its being new, and what the server has not seen yet has neither handler
nor answer (`Arrived`). `NotificationOrder` needs it too: the next notification is
the one after all that were posted or applied. `SenderInv` says that only the
server's own reader, and once, waits in `respond`, so a sender that gets room
takes the reader on from where it stopped. One lemma per operation on a direction
(`StreamTake`, `StreamWrite`, `StreamQueue`, `StreamRead`, `StreamMoves`,
`StreamClose`) carries the argument, and each action combines one or two of them.
A closed end drops its half of the claims: what it had not written is lost, what
is under way to it is read by nobody.

`ClientProofs` proves, for any number of connects, calls and disconnects:

| Theorem | States |
|---|---|
| `ClientTypeCorrect` | `Spec => []TypeOK` |
| `SessionsAreReadyWhenVisible` | `Spec => []UsableWhenVisible` |
| `NoSessionLeaks` | `Spec => []NoLeakedSession` |
| `OldCompletionsSpareNewSessions` | `Spec => LiveSessionStays` |

The assumption is `ClientAssumption` (the null pointer is no session). The
inductive invariant adds to the types: `PublishedInv`, every visible session went
through "prepared", since all copies come from `client_session_`; `OneAtATime`,
an uncrowded `connect()` has nothing installed beside it that its `store` could
drop; and `OpenInv`, a session is open only between its connect and its end, so
the completion handler clears only closed ones. `NoLeakedSession` is inductive
only with the last two.

`AdmissionProofs` proves, for any number of connections and threads, any origins,
any limits and any clock (`AdmissionAssumption`, `BucketAssumption`):

| Theorem | States |
|---|---|
| `AdmissionTypes` | `Spec => []TypeOK` |
| `SeatsAreGivenBack` | `Spec => []SeatsMatch` |
| `OvershootIsBounded` | `Spec => []OvershootBound` |
| `AcceptRateIsBounded` | `Spec => []AcceptRateBound` |

The counters are cardinalities, so each step is followed through what it does to
sets of connections (`MoveFacts`, `MoveCounts`, `MoveSeats`). `OvershootBound` is
far from inductive: a session that is counted passed the cap long before.
`PipeInv` states the same bound for everything that may still become a counted
session, from the probe on, where the cap was compared; `LoopInv` (one accept
loop), `ThreadInv` (one coroutine per thread between the handshake slot and the
counters) and the exact handshake cap bound what is in between. `BudgetInv` says
the same of the buckets: what passed since any moment, and what the bucket holds
now, was there or came in since. The first attempt at the proof failed for a good
reason: the filter compares the cap per address only for an address that has an
entry in `per_ip_count_` (server.hpp:85), so a cap of 0 lets one session in, and
a bound with the cap itself is false (TLC finds the case with
`max_sessions_per_ip = 0`). `OvershootBound` says so now (`PerIPCap`).

`RegistryProofs` proves, for any sets of sessions, addresses and ids:

| Theorem | States |
|---|---|
| `RegistryTypes` | `Spec => []TypeOK` |
| `TokensAreDistinct` | `Spec => []TokensDistinct` |
| `RemovalsAreFinal` | `Spec => []NoZombie` |
| `StopSeesPosted` | `Spec => []StrandSeesPosted` |
| `NotificationsReachTheirTarget` | `Spec => []DeliveredToTarget` |

The properties speak of the handler at the head of the strand or of sessions that
are gone; the invariant speaks of every position of the strand. `Covered` says
what `active_sessions_` will hold when the first `n` handlers have run: `SeenInv`
and `SnapshotInv` say it for each `close_all` and for the snapshot of the call in
progress, `RemovalInv` and `JobInv` that a removal is posted once and behind its
insertion. `AddressInv` (no two live sessions share an address) gives the tokens.

`DispatcherProofs` proves, for any requests, methods, threads, limit and clock:

| Theorem | States |
|---|---|
| `DispatcherTypes` | `Spec => []TypeOK` |
| `BucketBoundsRate` | `Spec => []RateBound` |
| `HandlersSeeTheirContext` | `Spec => []PrefixSeesOwnContext` |
| `HandlersAreApproved` | `Spec => []ApprovedForThisRequest` |
| `BackingOffHelps` | `Spec => BackOffHelps` |

The invariant adds `BudgetInv` (as above, for the requests), `RoleInv` (until its
context is built, a request has seen every stamp since it came, the present role
among them) and `ThreadInv` (a thread runs one request up to its first
suspension). Nothing is assumed of the callback or of who stamps which role.

`AsyncLoggerProofs` proves `LoggerTypes`, `EntriesAreKeptOnce`
(`Spec => []KeptOnce`) and `OutputInPushOrder` (`Spec => InPushOrder`) for any set
of entries. `KeptOnce` is inductive with `PostedOnce`: an entry that has been
posted and not taken waits on the strand in one push handler, not in two.

`TokenBucketProofs` has the lemmas that `AdmissionProofs` and `DispatcherProofs`
share: bounds of a refill (`RefilledBounds`), what `try_take` leaves behind
(`TryTakeFacts`), that waiting long enough suffices (`BackOff`), and one step of
the budget argument (`BudgetStep`).

Each inductive invariant was checked by TLC on the instance of its run before it
was proved.

Only model-checked: the liveness properties (`ArmedCallReturns`,
`TeardownRests`, `AnsweredOrClosed`, `ArrivalsSettle`, `EndedSessionLeaves`,
`LiveWorkerDelivers`, `StopEndsWorker`, `DeadSessionCleared`,
`DisconnectedSessionEnds`), which need fairness and are out of reach of the
prover.

## 5. Not modelled

* `buffer_pool`: nothing in the library uses it. `parse_address`: string handling.
* A second `start()` of a server, its move constructor, and the branch for a null
  session after `handshake` (server.hpp:145), which no channel returns there.
* The processor time of the accept loop of a closed channel, which fails and
  tries again at once, for ever (server.hpp:112).
* The destruction of a client whose sessions still run (they hold a plain
  `this`), its move constructor, and `function_hash_cache_`, which has no user.
* TLS, certificates and fingerprints: calls into OpenSSL.
* `encoder`, `message`: serialisation through third-party libraries. The one piece
  of logic there, the bound on container sizes of `bounded_binary_input_archive`,
  depends on the types an application sends, and dispatch goes on whether a body
  decodes or not (dispatcher.hpp:78), so no model here turns on it.
* `string_hash`: 64-bit arithmetic without state.
* Torn reads of plain members that are written without synchronisation: `limits_`
  of the server and `logical_*_` of a session are read old or new, member by
  member; `completed` of `deadline_read` on a raw executor is left to a race detector.
* `session::notify` (the awaiting variant), `register_handler` and
  `async_operation` of `async_manager`: nothing in the library calls them.

## 6. Plan

Done: the calling side, the connection, admission with its rate limits and the
life cycle of the channel, registry with targeted notifications, logger, client
and dispatcher, with proofs of every safety property that a run checks. Next:

1. What the modules take from one another as assumptions (section 2, "How they
   fit together") as refinements where the states allow it.
2. The awaiting `session::notify`, and `BufferPool`, if the library comes to use
   them.
