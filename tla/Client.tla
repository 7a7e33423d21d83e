------------------------------- MODULE Client -------------------------------
(***************************************************************************)
(* grlx::rpc::client: connect(), disconnect(), invoke() and the handlers   *)
(* for notifications, around the one pointer client_session_.  Any number  *)
(* of threads use the client; every access to the pointer and to           *)
(* notification_handlers_ takes its mutex and is a step of its own.        *)
(* Attempts to connect, calls and disconnects are numbered by CONSTANTS;   *)
(* the session an attempt builds has the attempt's name.  What happens     *)
(* inside a session is SessionCalls' and Connection's matter.              *)
(***************************************************************************)

CONSTANTS
  Connects,     \* calls of connect(), and the sessions they build
  Invokes,      \* calls of invoke_with_timeout()
  Disconnects,  \* calls of disconnect()
  NoSession     \* nullptr

ASSUME ClientAssumption == NoSession \notin Connects

VARIABLES
  client_session_,
  connect,      \* where each connect() is
  open,         \* sessions whose socket is open
  callback,     \* sessions with a notification callback
  dispatch,     \* dispatch_requests of each session
  invoke,       \* where each invoke is
  loaded,       \* its local copy of the pointer
  disconnect,   \* where each disconnect() is
  taken,        \* the session it exchanged out
  handlers,     \* notification_handlers_ has an entry (for one name)
  note,         \* a session's notification on its strand
  crowded       \* ghost: some connect() began beside another or over a session

vars == <<client_session_, connect, open, callback, dispatch, invoke, loaded,
          disconnect, taken, handlers, note, crowded>>

sessionVars == <<open, callback, dispatch, note>>
callVars == <<invoke, loaded>>
disconnectVars == <<disconnect, taken>>

-----------------------------------------------------------------------------
ConnectStates == {"idle", "connecting", "connected", "prepared", "stored", "done", "failed"}
InFlight == {"connecting", "connected", "prepared", "stored"}
DispatchStates == {"none", "running", "ended", "completed"}

-----------------------------------------------------------------------------
(* synchronized_shared_ptr *)

load == client_session_

store(s) == client_session_' = s

\* Mutant: the completion handler of dispatch_requests clears whatever it finds.
StoreAnyway(expected, desired) == store(desired)
compare_exchange_strong(expected, desired) ==
  store(IF client_session_ = expected THEN desired ELSE client_session_)

-----------------------------------------------------------------------------
Init ==
  /\ client_session_ = NoSession
  /\ connect = [k \in Connects |-> "idle"]
  /\ open = {} /\ callback = {}
  /\ dispatch = [s \in Connects |-> "none"]
  /\ invoke = [i \in Invokes |-> "idle"]
  /\ loaded = [i \in Invokes |-> NoSession]
  /\ disconnect = [d \in Disconnects |-> "idle"]
  /\ taken = [d \in Disconnects |-> NoSession]
  /\ handlers = FALSE
  /\ note = [s \in Connects |-> "none"]
  /\ crowded = FALSE

-----------------------------------------------------------------------------
(* connect(): the body spawned on the strand of this attempt *)

Goto(k, from, to) == connect[k] = from /\ connect' = [connect EXCEPT ![k] = to]

Connect(k) ==
  /\ Goto(k, "idle", "connecting")
  /\ crowded' = (crowded \/ client_session_ # NoSession
                         \/ \E j \in Connects : connect[j] \in InFlight)
  /\ UNCHANGED <<client_session_, sessionVars, callVars, disconnectVars, handlers>>

\* channel_.connect returns a session over an open socket.
ChannelConnects(k) ==
  /\ Goto(k, "connecting", "connected")
  /\ open' = open \cup {k}
  /\ UNCHANGED <<client_session_, callback, dispatch, note, callVars,
                 disconnectVars, handlers, crowded>>

\* It returns a null session or throws: the pointer is cleared and the error is
\* raised again from connect()'s own frame.
\* Mutant: the test for a null session is gone.
PrepareNull(k) ==
  /\ Goto(k, "connecting", "failed")
  /\ callback' = callback \cup {NoSession}
  /\ UNCHANGED <<client_session_, open, dispatch, note, callVars,
                 disconnectVars, handlers, crowded>>
ConnectFails(k) ==
  /\ Goto(k, "connecting", "failed")
  /\ store(NoSession)
  /\ UNCHANGED <<sessionVars, callVars, disconnectVars, handlers, crowded>>

\* session->handshake(), which returns at once, and setup_notification_handling.
\* Mutant: the callback is left for later.
PrepareLater(k) ==
  /\ Goto(k, "connected", "prepared")
  /\ UNCHANGED <<client_session_, sessionVars, callVars, disconnectVars, handlers, crowded>>
Prepare(k) ==
  /\ Goto(k, "connected", "prepared")
  /\ callback' = callback \cup {k}
  /\ UNCHANGED <<client_session_, open, dispatch, note, callVars,
                 disconnectVars, handlers, crowded>>

Publish(k) ==
  /\ Goto(k, "prepared", "stored")
  /\ store(k)
  /\ UNCHANGED <<sessionVars, callVars, disconnectVars, handlers, crowded>>

\* Mutant: dispatch_requests is spawned before the session is published.
SpawnBeforeStore(k) ==
  /\ connect[k] \in {"prepared", "stored"} /\ dispatch[k] = "none"
  /\ dispatch' = [dispatch EXCEPT ![k] = "running"]
  /\ UNCHANGED <<client_session_, connect, open, callback, note, callVars,
                 disconnectVars, handlers, crowded>>
Spawn(k) ==
  /\ Goto(k, "stored", "done")
  /\ dispatch' = [dispatch EXCEPT ![k] = "running"]
  /\ UNCHANGED <<client_session_, open, callback, note, callVars,
                 disconnectVars, handlers, crowded>>

-----------------------------------------------------------------------------
(* The session's own coroutines *)

\* The peer leaves or the reader or writer fails: the session closes itself.
\* Mutant: dispatch_requests ends and the socket stays open.
EndsOpen(s) ==
  /\ s \in open /\ dispatch[s] = "running"
  /\ dispatch' = [dispatch EXCEPT ![s] = "ended"]
  /\ UNCHANGED <<client_session_, connect, open, callback, note, callVars,
                 disconnectVars, handlers, crowded>>
SessionFails(s) ==
  /\ s \in open /\ dispatch[s] = "running"
  /\ open' = open \ {s}
  /\ UNCHANGED <<client_session_, connect, callback, dispatch, note, callVars,
                 disconnectVars, handlers, crowded>>

\* dispatch_requests returns: at once if the socket is closed when it starts.
DispatchEnds(s) ==
  /\ dispatch[s] = "running" /\ s \notin open
  /\ dispatch' = [dispatch EXCEPT ![s] = "ended"]
  /\ UNCHANGED <<client_session_, connect, open, callback, note, callVars,
                 disconnectVars, handlers, crowded>>

\* The completion handler.  weak_session.lock() fails only when nothing holds
\* the session any more, so not client_session_ either: then the exchange would
\* do nothing.
Complete(s) ==
  /\ dispatch[s] = "ended"
  /\ dispatch' = [dispatch EXCEPT ![s] = "completed"]
  /\ compare_exchange_strong(s, NoSession)
  /\ UNCHANGED <<connect, open, callback, note, callVars, disconnectVars, handlers, crowded>>

-----------------------------------------------------------------------------
(* Notifications.  Bound: one per session on its way. *)

Arrives(s) ==
  /\ dispatch[s] = "running" /\ s \in open /\ s \in callback /\ note[s] = "none"
  /\ note' = [note EXCEPT ![s] = "posted"]
  /\ UNCHANGED <<client_session_, connect, open, callback, dispatch, callVars,
                 disconnectVars, handlers, crowded>>

\* The handler is copied out under notification_mutex_, if there is one.
handle_notification(s) ==
  /\ note[s] = "posted"
  /\ note' = [note EXCEPT ![s] = IF handlers THEN "copied" ELSE "none"]
  /\ UNCHANGED <<client_session_, connect, open, callback, dispatch, callVars,
                 disconnectVars, handlers, crowded>>

\* It is invoked, and may throw, without the mutex.
RunHandler(s) ==
  /\ note[s] = "copied"
  /\ note' = [note EXCEPT ![s] = "none"]
  /\ UNCHANGED <<client_session_, connect, open, callback, dispatch, callVars,
                 disconnectVars, handlers, crowded>>

register_notification_handler ==
  /\ handlers' = TRUE
  /\ UNCHANGED <<client_session_, connect, sessionVars, callVars, disconnectVars, crowded>>

\* unregister_notification_handler, clear_notification_handlers.
unregister_notification_handler ==
  /\ handlers' = FALSE
  /\ UNCHANGED <<client_session_, connect, sessionVars, callVars, disconnectVars, crowded>>

-----------------------------------------------------------------------------
(* invoke_with_timeout() *)

Invoke(i) ==
  /\ invoke[i] = "idle"
  /\ invoke' = [invoke EXCEPT ![i] = IF load = NoSession THEN "refused" ELSE "calling"]
  /\ loaded' = [loaded EXCEPT ![i] = load]
  /\ UNCHANGED <<client_session_, connect, sessionVars, disconnectVars, handlers, crowded>>

\* session->call returns or throws, and the local copy goes.
InvokeReturns(i) ==
  /\ invoke[i] = "calling"
  /\ invoke' = [invoke EXCEPT ![i] = "done"]
  /\ loaded' = [loaded EXCEPT ![i] = NoSession]
  /\ UNCHANGED <<client_session_, connect, sessionVars, disconnectVars, handlers, crowded>>

-----------------------------------------------------------------------------
(* disconnect() *)

\* client_session_.exchange(nullptr).
Disconnect(d) ==
  /\ disconnect[d] = "idle"
  /\ disconnect' = [disconnect EXCEPT ![d] = "closing"]
  /\ taken' = [taken EXCEPT ![d] = load]
  /\ store(NoSession)
  /\ UNCHANGED <<connect, sessionVars, callVars, handlers, crowded>>

\* Mutant: the socket is left to the session's own reader.
DropSession(d) ==
  /\ disconnect[d] = "closing"
  /\ disconnect' = [disconnect EXCEPT ![d] = "clearing"]
  /\ UNCHANGED <<client_session_, connect, sessionVars, callVars, taken, handlers, crowded>>
CloseTaken(d) ==
  /\ disconnect[d] = "closing"
  /\ disconnect' = [disconnect EXCEPT ![d] = "clearing"]
  /\ open' = open \ {taken[d]}
  /\ UNCHANGED <<client_session_, connect, callback, dispatch, note, callVars,
                 taken, handlers, crowded>>

ClearHandlers(d) ==
  /\ disconnect[d] = "clearing"
  /\ disconnect' = [disconnect EXCEPT ![d] = "done"]
  /\ handlers' = FALSE
  /\ UNCHANGED <<client_session_, connect, sessionVars, callVars, taken, crowded>>

-----------------------------------------------------------------------------
ConnectNext(k) ==
  Connect(k) \/ ChannelConnects(k) \/ ConnectFails(k) \/ Prepare(k) \/ Publish(k) \/ Spawn(k)

SessionNext(s) ==
  \/ SessionFails(s) \/ DispatchEnds(s) \/ Complete(s)
  \/ Arrives(s) \/ handle_notification(s) \/ RunHandler(s)

Next ==
  \/ \E k \in Connects : ConnectNext(k) \/ SessionNext(k)
  \/ \E i \in Invokes : Invoke(i) \/ InvokeReturns(i)
  \/ \E d \in Disconnects : Disconnect(d) \/ CloseTaken(d) \/ ClearHandlers(d)
  \/ register_notification_handler
  \/ unregister_notification_handler

Spec == Init /\ [][Next]_vars

\* Coroutines that may run are run.  Nothing is assumed of the peer, of how long
\* channel_.connect takes, or of the application.
Fairness ==
  /\ \A k \in Connects :
       /\ WF_vars(Prepare(k)) /\ WF_vars(Publish(k)) /\ WF_vars(Spawn(k))
       /\ WF_vars(DispatchEnds(k)) /\ WF_vars(Complete(k))
       /\ WF_vars(handle_notification(k)) /\ WF_vars(RunHandler(k))
  /\ \A d \in Disconnects : WF_vars(CloseTaken(d)) /\ WF_vars(ClearHandlers(d))

FairSpec == Spec /\ Fairness

-----------------------------------------------------------------------------
(* Properties *)

\* Every variable stays within its type.
TypeOK ==
  /\ client_session_ \in Connects \cup {NoSession}
  /\ connect \in [Connects -> ConnectStates]
  /\ open \subseteq Connects /\ callback \subseteq Connects
  /\ dispatch \in [Connects -> DispatchStates]
  /\ invoke \in [Invokes -> {"idle", "calling", "done", "refused"}]
  /\ loaded \in [Invokes -> Connects \cup {NoSession}]
  /\ disconnect \in [Disconnects -> {"idle", "closing", "clearing", "done"}]
  /\ taken \in [Disconnects -> Connects \cup {NoSession}]
  /\ handlers \in BOOLEAN
  /\ note \in [Connects -> {"none", "posted", "copied"}]
  /\ crowded \in BOOLEAN

\* "Publish the session only after the handshake succeeds" (connect()): whatever
\* session a call or a disconnect got hold of, or a reader runs on, has its
\* notification callback, so no early notification is lost.
Visible ==
  {client_session_} \cup {loaded[i] : i \in Invokes}
    \cup {taken[d] : d \in Disconnects} \cup {s \in Connects : dispatch[s] # "none"}

UsableWhenVisible == Visible \ {NoSession} \subseteq callback

\* "A completion from an OLD session can't clobber one installed by a concurrent
\* reconnect" (connect()): an installed session whose own dispatch_requests has
\* not completed is taken away only by a disconnect() or by another connect().
LiveSessionStays ==
  [][\A s \in Connects :
       /\ client_session_ = s /\ client_session_' # s
       /\ dispatch'[s] # "completed"
       => connect' # connect \/ disconnect' # disconnect]_vars

\* When the application connects only while is_connected() is false and no other
\* connect() is under way, no session is left open that nobody can close: it is
\* installed, about to be, or in the hands of a disconnect().
NoLeakedSession ==
  ~crowded =>
    \A s \in open :
      \/ client_session_ = s
      \/ connect[s] \in {"connected", "prepared"}
      \/ \E d \in Disconnects : disconnect[d] = "closing" /\ taken[d] = s

\* A session that has died does not stay installed: is_connected() turns false
\* (or a reconnect replaces it), also when it dies before its dispatch_requests
\* has started.
DeadSessionCleared ==
  \A s \in Connects : client_session_ = s /\ s \notin open ~> client_session_ # s

\* A session that a disconnect() took ends for good, reader, writer and pending
\* notification included, whenever connect() was interrupted by it.
DisconnectedSessionEnds ==
  \A s \in Connects :
    (\E d \in Disconnects : taken[d] = s)
      ~> [](dispatch[s] = "completed" /\ note[s] = "none")

=============================================================================
