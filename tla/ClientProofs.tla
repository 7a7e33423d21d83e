---------------------------- MODULE ClientProofs ----------------------------
(***************************************************************************)
(* Safety of the client for any number of connects, calls and disconnects: *)
(* types, UsableWhenVisible, NoLeakedSession and LiveSessionStays.         *)
(***************************************************************************)
EXTENDS Client, TLAPS

\* The tuples of variables and the enumerations are always expanded.
USE ClientAssumption
  DEF sessionVars, callVars, disconnectVars, ConnectStates, InFlight,
      DispatchStates, TypeOK

-----------------------------------------------------------------------------
(* The inductive invariant *)

\* A session that was ever published has its callback: whoever holds it got it
\* from client_session_, which a connect() fills only after "prepared".
Published == {s \in Connects : connect[s] \in {"prepared", "stored", "done"}}

PublishedInv ==
  /\ Visible \ {NoSession} \subseteq Published
  /\ Published \subseteq callback

\* Where an open session may be, when connects come one at a time: nothing is
\* installed beside an unfinished connect() but the session it has just stored.
OneAtATime ==
  ~crowded =>
    /\ \A j, k \in Connects : connect[j] \in InFlight /\ connect[k] \in InFlight => j = k
    /\ \A k \in Connects : connect[k] \in InFlight => client_session_ \in {NoSession, k}

\* A session is open only after its connect(), and ended only when closed.
OpenInv ==
  /\ \A s \in open : connect[s] \in {"connected", "prepared", "stored", "done"}
  /\ \A s \in Connects : dispatch[s] \in {"ended", "completed"} => s \notin open

IInv == TypeOK /\ PublishedInv /\ OneAtATime /\ OpenInv /\ NoLeakedSession

-----------------------------------------------------------------------------
(* One lemma per action *)

\* A connect() that begins beside a session or another connect() sets crowded.
LEMMA ConnectIInv ==
  ASSUME IInv, NEW k \in Connects, Connect(k)
  PROVE  IInv'
<1>1. TypeOK'
  BY DEF IInv, Connect, Goto
<1>2. PublishedInv'
  BY <1>1 DEF IInv, PublishedInv, Published, Visible, Connect, Goto
<1>3. OneAtATime'
  <2> SUFFICES ASSUME ~crowded' PROVE OneAtATime'
    BY DEF OneAtATime
  <2>1. /\ client_session_ = NoSession
        /\ \A j \in Connects : connect[j] \notin InFlight
    BY Zenon DEF Connect
  <2> QED
    BY <1>1, <2>1 DEF IInv, OneAtATime, Connect, Goto
<1>4. OpenInv'
  BY <1>1 DEF IInv, OpenInv, PublishedInv, Published, Visible, Connect, Goto
<1>5. NoLeakedSession'
  BY <1>1 DEF IInv, NoLeakedSession, OneAtATime, OpenInv, Connect, Goto
<1> QED
  BY <1>1, <1>2, <1>3, <1>4, <1>5 DEF IInv

\* A new session is open and in the hands of its connect().
LEMMA ChannelConnectsIInv ==
  ASSUME IInv, NEW k \in Connects, ChannelConnects(k)
  PROVE  IInv'
<1>1. TypeOK'
  BY DEF IInv, ChannelConnects, Goto
<1>2. PublishedInv'
  BY <1>1 DEF IInv, PublishedInv, Published, Visible, ChannelConnects, Goto
<1>3. OneAtATime'
  BY <1>1 DEF IInv, OneAtATime, PublishedInv, Published, Visible, ChannelConnects, Goto
<1>4. OpenInv'
  BY <1>1 DEF IInv, OpenInv, PublishedInv, Published, Visible, ChannelConnects, Goto
<1>5. NoLeakedSession'
  BY <1>1 DEF IInv, NoLeakedSession, OneAtATime, OpenInv, ChannelConnects, Goto
<1> QED
  BY <1>1, <1>2, <1>3, <1>4, <1>5 DEF IInv

\* Nothing open is dropped: beside this connect() nothing is installed.
LEMMA ConnectFailsIInv ==
  ASSUME IInv, NEW k \in Connects, ConnectFails(k)
  PROVE  IInv'
<1>1. TypeOK'
  BY DEF IInv, ConnectFails, Goto, store
<1>2. PublishedInv'
  BY <1>1 DEF IInv, PublishedInv, Published, Visible, ConnectFails, Goto, store
<1>3. OneAtATime'
  BY <1>1 DEF IInv, OneAtATime, PublishedInv, Published, Visible, ConnectFails, Goto, store
<1>4. OpenInv'
  BY <1>1 DEF IInv, OpenInv, PublishedInv, Published, Visible, ConnectFails, Goto, store
<1>5. NoLeakedSession'
  BY <1>1 DEF IInv, NoLeakedSession, OneAtATime, OpenInv, ConnectFails, Goto, store
<1> QED
  BY <1>1, <1>2, <1>3, <1>4, <1>5 DEF IInv

\* The callback is set when the session becomes one of the published.
LEMMA PrepareIInv ==
  ASSUME IInv, NEW k \in Connects, Prepare(k)
  PROVE  IInv'
<1>1. TypeOK'
  BY DEF IInv, Prepare, Goto
<1>2. PublishedInv'
  BY <1>1 DEF IInv, PublishedInv, Published, Visible, Prepare, Goto
<1>3. OneAtATime'
  BY <1>1 DEF IInv, OneAtATime, PublishedInv, Published, Visible, Prepare, Goto
<1>4. OpenInv'
  BY <1>1 DEF IInv, OpenInv, PublishedInv, Published, Visible, Prepare, Goto
<1>5. NoLeakedSession'
  BY <1>1 DEF IInv, NoLeakedSession, OneAtATime, OpenInv, Prepare, Goto
<1> QED
  BY <1>1, <1>2, <1>3, <1>4, <1>5 DEF IInv

\* Beside this connect() nothing else is installed that store() could drop.
LEMMA PublishIInv ==
  ASSUME IInv, NEW k \in Connects, Publish(k)
  PROVE  IInv'
<1>1. TypeOK'
  BY DEF IInv, Publish, Goto, store
<1>2. PublishedInv'
  BY <1>1 DEF IInv, PublishedInv, Published, Visible, Publish, Goto, store
<1>3. OneAtATime'
  BY <1>1 DEF IInv, OneAtATime, PublishedInv, Published, Visible, Publish, Goto, store
<1>4. OpenInv'
  BY <1>1 DEF IInv, OpenInv, PublishedInv, Published, Visible, Publish, Goto, store
<1>5. NoLeakedSession'
  BY <1>1 DEF IInv, NoLeakedSession, OneAtATime, OpenInv, Publish, Goto, store
<1> QED
  BY <1>1, <1>2, <1>3, <1>4, <1>5 DEF IInv

\* dispatch_requests starts on a published session.
LEMMA SpawnIInv ==
  ASSUME IInv, NEW k \in Connects, Spawn(k)
  PROVE  IInv'
<1>1. TypeOK'
  BY DEF IInv, Spawn, Goto
<1>2. PublishedInv'
  BY <1>1 DEF IInv, PublishedInv, Published, Visible, Spawn, Goto
<1>3. OneAtATime'
  BY <1>1 DEF IInv, OneAtATime, PublishedInv, Published, Visible, Spawn, Goto
<1>4. OpenInv'
  BY <1>1 DEF IInv, OpenInv, PublishedInv, Published, Visible, Spawn, Goto
<1>5. NoLeakedSession'
  BY <1>1 DEF IInv, NoLeakedSession, OneAtATime, OpenInv, Spawn, Goto
<1> QED
  BY <1>1, <1>2, <1>3, <1>4, <1>5 DEF IInv

\* A session that fails is closed.
LEMMA SessionFailsIInv ==
  ASSUME IInv, NEW k \in Connects, SessionFails(k)
  PROVE  IInv'
<1>1. TypeOK'
  BY DEF IInv, SessionFails
<1>2. PublishedInv'
  BY <1>1 DEF IInv, PublishedInv, Published, Visible, SessionFails
<1>3. OneAtATime'
  BY <1>1 DEF IInv, OneAtATime, PublishedInv, Published, Visible, SessionFails
<1>4. OpenInv'
  BY <1>1 DEF IInv, OpenInv, PublishedInv, Published, Visible, SessionFails
<1>5. NoLeakedSession'
  BY <1>1 DEF IInv, NoLeakedSession, OneAtATime, OpenInv, SessionFails
<1> QED
  BY <1>1, <1>2, <1>3, <1>4, <1>5 DEF IInv

\* dispatch_requests ends only on a closed socket.
LEMMA DispatchEndsIInv ==
  ASSUME IInv, NEW k \in Connects, DispatchEnds(k)
  PROVE  IInv'
<1>1. TypeOK'
  BY DEF IInv, DispatchEnds
<1>2. PublishedInv'
  BY <1>1 DEF IInv, PublishedInv, Published, Visible, DispatchEnds
<1>3. OneAtATime'
  BY <1>1 DEF IInv, OneAtATime, PublishedInv, Published, Visible, DispatchEnds
<1>4. OpenInv'
  BY <1>1 DEF IInv, OpenInv, PublishedInv, Published, Visible, DispatchEnds
<1>5. NoLeakedSession'
  BY <1>1 DEF IInv, NoLeakedSession, OneAtATime, OpenInv, DispatchEnds
<1> QED
  BY <1>1, <1>2, <1>3, <1>4, <1>5 DEF IInv

\* The session the completion handler clears is closed.
LEMMA CompleteIInv ==
  ASSUME IInv, NEW k \in Connects, Complete(k)
  PROVE  IInv'
<1>1. TypeOK'
  BY DEF IInv, Complete, compare_exchange_strong, store
<1>2. PublishedInv'
  BY <1>1 DEF IInv, PublishedInv, Published, Visible, Complete, compare_exchange_strong, store
<1>3. OneAtATime'
  BY <1>1 DEF IInv, OneAtATime, PublishedInv, Published, Visible, Complete, compare_exchange_strong, store
<1>4. OpenInv'
  BY <1>1 DEF IInv, OpenInv, PublishedInv, Published, Visible, Complete, compare_exchange_strong, store
<1>5. NoLeakedSession'
  BY <1>1 DEF IInv, NoLeakedSession, OneAtATime, OpenInv, Complete, compare_exchange_strong, store
<1> QED
  BY <1>1, <1>2, <1>3, <1>4, <1>5 DEF IInv

\* A call takes its copy of the pointer: what is installed is published.
LEMMA InvokeIInv ==
  ASSUME IInv, NEW i \in Invokes, Invoke(i)
  PROVE  IInv'
<1>1. TypeOK'
  BY DEF IInv, Invoke, load
<1>2. PublishedInv'
  BY <1>1 DEF IInv, PublishedInv, Published, Visible, Invoke, load
<1>3. OneAtATime'
  BY <1>1 DEF IInv, OneAtATime, PublishedInv, Published, Visible, Invoke, load
<1>4. OpenInv'
  BY <1>1 DEF IInv, OpenInv, PublishedInv, Published, Visible, Invoke, load
<1>5. NoLeakedSession'
  BY <1>1 DEF IInv, NoLeakedSession, OneAtATime, OpenInv, Invoke, load
<1> QED
  BY <1>1, <1>2, <1>3, <1>4, <1>5 DEF IInv

\* A call drops its copy.
LEMMA InvokeReturnsIInv ==
  ASSUME IInv, NEW i \in Invokes, InvokeReturns(i)
  PROVE  IInv'
<1>1. TypeOK'
  BY DEF IInv, InvokeReturns
<1>2. PublishedInv'
  BY <1>1 DEF IInv, PublishedInv, Published, Visible, InvokeReturns
<1>3. OneAtATime'
  BY <1>1 DEF IInv, OneAtATime, PublishedInv, Published, Visible, InvokeReturns
<1>4. OpenInv'
  BY <1>1 DEF IInv, OpenInv, PublishedInv, Published, Visible, InvokeReturns
<1>5. NoLeakedSession'
  BY <1>1 DEF IInv, NoLeakedSession, OneAtATime, OpenInv, InvokeReturns
<1> QED
  BY <1>1, <1>2, <1>3, <1>4, <1>5 DEF IInv

\* The installed session passes into the hands of the disconnect().
LEMMA DisconnectIInv ==
  ASSUME IInv, NEW d \in Disconnects, Disconnect(d)
  PROVE  IInv'
<1>1. TypeOK'
  BY DEF IInv, Disconnect, load, store
<1>2. PublishedInv'
  BY <1>1 DEF IInv, PublishedInv, Published, Visible, Disconnect, load, store
<1>3. OneAtATime'
  BY <1>1 DEF IInv, OneAtATime, PublishedInv, Published, Visible, Disconnect, load, store
<1>4. OpenInv'
  BY <1>1 DEF IInv, OpenInv, PublishedInv, Published, Visible, Disconnect, load, store
<1>5. NoLeakedSession'
  BY <1>1 DEF IInv, NoLeakedSession, OneAtATime, OpenInv, Disconnect, load, store
<1> QED
  BY <1>1, <1>2, <1>3, <1>4, <1>5 DEF IInv

\* What the disconnect() lets go of is closed.
LEMMA CloseTakenIInv ==
  ASSUME IInv, NEW d \in Disconnects, CloseTaken(d)
  PROVE  IInv'
<1>1. TypeOK'
  BY DEF IInv, CloseTaken
<1>2. PublishedInv'
  BY <1>1 DEF IInv, PublishedInv, Published, Visible, CloseTaken
<1>3. OneAtATime'
  BY <1>1 DEF IInv, OneAtATime, PublishedInv, Published, Visible, CloseTaken
<1>4. OpenInv'
  BY <1>1 DEF IInv, OpenInv, PublishedInv, Published, Visible, CloseTaken
<1>5. NoLeakedSession'
  BY <1>1 DEF IInv, NoLeakedSession, OneAtATime, OpenInv, CloseTaken
<1> QED
  BY <1>1, <1>2, <1>3, <1>4, <1>5 DEF IInv

\* disconnect() clears the handlers.
LEMMA ClearHandlersIInv ==
  ASSUME IInv, NEW d \in Disconnects, ClearHandlers(d)
  PROVE  IInv'
<1>1. TypeOK'
  BY DEF IInv, ClearHandlers
<1>2. PublishedInv'
  BY <1>1 DEF IInv, PublishedInv, Published, Visible, ClearHandlers
<1>3. OneAtATime'
  BY <1>1 DEF IInv, OneAtATime, PublishedInv, Published, Visible, ClearHandlers
<1>4. OpenInv'
  BY <1>1 DEF IInv, OpenInv, PublishedInv, Published, Visible, ClearHandlers
<1>5. NoLeakedSession'
  BY <1>1 DEF IInv, NoLeakedSession, OneAtATime, OpenInv, ClearHandlers
<1> QED
  BY <1>1, <1>2, <1>3, <1>4, <1>5 DEF IInv

\* Notifications and their handlers touch nothing the invariant is about.
LEMMA NotificationIInv ==
  ASSUME IInv,
         \/ \E s \in Connects : Arrives(s) \/ handle_notification(s) \/ RunHandler(s)
         \/ register_notification_handler \/ unregister_notification_handler
  PROVE  IInv'
<1> USE DEF Arrives, handle_notification, RunHandler,
            register_notification_handler, unregister_notification_handler
<1>1. TypeOK'
  <2>1. ASSUME NEW s \in Connects, Arrives(s) \/ handle_notification(s) \/ RunHandler(s)
        PROVE  TypeOK'
    BY <2>1 DEF IInv
  <2>2. CASE register_notification_handler
    BY <2>2 DEF IInv
  <2>3. CASE unregister_notification_handler
    BY <2>3 DEF IInv
  <2> QED
    BY <2>1, <2>2, <2>3
<1>2. UNCHANGED <<client_session_, connect, open, callback, dispatch, invoke,
                  loaded, disconnect, taken, crowded>>
  OBVIOUS
<1>3. PublishedInv'
  BY <1>2 DEF IInv, PublishedInv, Published, Visible
<1>4. OneAtATime' /\ OpenInv' /\ NoLeakedSession'
  BY <1>2 DEF IInv, OneAtATime, OpenInv, NoLeakedSession
<1> QED
  BY <1>1, <1>3, <1>4 DEF IInv

-----------------------------------------------------------------------------
(* The theorems *)

\* A client that has done nothing yet.
LEMMA InitIInv == Init => IInv
<1> SUFFICES ASSUME Init PROVE IInv
  OBVIOUS
<1>1. TypeOK
  BY DEF Init
<1>2. PublishedInv /\ OpenInv
  BY DEF Init, PublishedInv, Published, Visible, OpenInv
<1>3. OneAtATime /\ NoLeakedSession
  BY DEF Init, OneAtATime, NoLeakedSession
<1> QED
  BY <1>1, <1>2, <1>3 DEF IInv

\* Every step of every thread preserves the invariant.
LEMMA NextIInv == IInv /\ [Next]_vars => IInv'
<1> SUFFICES ASSUME IInv, [Next]_vars PROVE IInv'
  OBVIOUS
<1>1. CASE UNCHANGED vars
  BY <1>1 DEF vars, IInv, PublishedInv, Published, Visible, OneAtATime, OpenInv, NoLeakedSession
<1>2. ASSUME NEW k \in Connects, ConnectNext(k) PROVE IInv'
  BY <1>2, ConnectIInv, ChannelConnectsIInv, ConnectFailsIInv, PrepareIInv,
     PublishIInv, SpawnIInv DEF ConnectNext
<1>3. ASSUME NEW k \in Connects, SessionNext(k) PROVE IInv'
  BY <1>3, SessionFailsIInv, DispatchEndsIInv, CompleteIInv, NotificationIInv
  DEF SessionNext
<1>4. ASSUME NEW i \in Invokes, Invoke(i) \/ InvokeReturns(i) PROVE IInv'
  BY <1>4, InvokeIInv, InvokeReturnsIInv
<1>5. ASSUME NEW d \in Disconnects, Disconnect(d) \/ CloseTaken(d) \/ ClearHandlers(d)
      PROVE  IInv'
  BY <1>5, DisconnectIInv, CloseTakenIInv, ClearHandlersIInv
<1>6. CASE register_notification_handler \/ unregister_notification_handler
  BY <1>6, NotificationIInv
<1> QED
  BY <1>1, <1>2, <1>3, <1>4, <1>5, <1>6 DEF Next

\* So it holds in every reachable state.
LEMMA Invariance == Spec => []IInv
  BY InitIInv, NextIInv, PTL DEF Spec

\* Every variable of the client stays within its type.
THEOREM ClientTypeCorrect == Spec => []TypeOK
<1>1. IInv => TypeOK  BY DEF IInv
<1> QED  BY <1>1, Invariance, PTL

\* Whoever gets hold of a session gets one that connect() has finished
\* preparing, for any number of threads using the client.
THEOREM SessionsAreReadyWhenVisible == Spec => []UsableWhenVisible
<1>1. IInv => UsableWhenVisible  BY DEF IInv, PublishedInv, UsableWhenVisible
<1> QED  BY <1>1, Invariance, PTL

\* A client that connects one at a time leaves no session open behind its back,
\* however disconnect(), failures and reconnects interleave.
THEOREM NoSessionLeaks == Spec => []NoLeakedSession
<1>1. IInv => NoLeakedSession  BY DEF IInv
<1> QED  BY <1>1, Invariance, PTL

\* A step that takes a live session away belongs to a disconnect() or to another
\* connect(): the completion handler of an old session is none.
THEOREM OldCompletionsSpareNewSessions == Spec => LiveSessionStays
<1>1. ASSUME TypeOK, Next, NEW s \in Connects,
             client_session_ = s, client_session_' # s, dispatch'[s] # "completed"
      PROVE  connect' # connect \/ disconnect' # disconnect
  <2>1. ASSUME NEW k \in Connects, ConnectNext(k) PROVE connect' # connect
    BY <1>1, <2>1 DEF ConnectNext, Connect, ChannelConnects, ConnectFails, Prepare,
       Publish, Spawn, Goto
  <2>2. ASSUME NEW k \in Connects, SessionNext(k) PROVE FALSE
    BY <1>1, <2>2 DEF SessionNext, SessionFails, DispatchEnds, Complete, Arrives,
       handle_notification, RunHandler, compare_exchange_strong, store
  <2>3. ASSUME NEW i \in Invokes, Invoke(i) \/ InvokeReturns(i) PROVE FALSE
    BY <1>1, <2>3 DEF Invoke, InvokeReturns
  <2>4. ASSUME NEW d \in Disconnects, Disconnect(d) \/ CloseTaken(d) \/ ClearHandlers(d)
        PROVE  disconnect' # disconnect
    BY <1>1, <2>4 DEF Disconnect, CloseTaken, ClearHandlers
  <2>5. CASE register_notification_handler \/ unregister_notification_handler
    BY <1>1, <2>5 DEF register_notification_handler, unregister_notification_handler
  <2> QED
    BY <1>1, <2>1, <2>2, <2>3, <2>4, <2>5 DEF Next
<1>2. TypeOK /\ [Next]_vars =>
        [\A s \in Connects :
           /\ client_session_ = s /\ client_session_' # s
           /\ dispatch'[s] # "completed"
           => connect' # connect \/ disconnect' # disconnect]_vars
  BY <1>1 DEF vars
<1> QED
  BY <1>2, ClientTypeCorrect, PTL DEF Spec, LiveSessionStays

=============================================================================
