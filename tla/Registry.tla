------------------------------ MODULE Registry ------------------------------
(***************************************************************************)
(* The session registry of grlx::rpc::server: active_sessions_, the strand *)
(* that serialises access to it, the application's open and close hooks,   *)
(* broadcasts and targeted notifications, close_all_sessions and stop().   *)
(* A session enters when its handshake has built it (Admission models how  *)
(* it got there) and leaves when its removal has run on the strand.        *)
(***************************************************************************)
EXTENDS Naturals, Sequences, FiniteSets

CONSTANTS
  Sessions,     \* sessions built by channel_.handshake
  NoSession,
  Addrs,        \* memory addresses a session_type may be allocated at
  NoAddr,
  Ids,          \* logical session ids the application hands out
  NoId,         \* the empty string
  Everyone      \* the target of notify, where notify_session has an id

ASSUME RegistryAssumption ==
  NoSession \notin Sessions /\ NoAddr \notin Addrs /\ NoId \notin Ids /\ Everyone \notin Ids

VARIABLES
  state,              \* where each session is in start()
  addr,               \* its address: the session_token
  closed,             \* sessions close_all_sessions has closed
  active_sessions_,
  strand,             \* handlers posted to sessions_strand_, in order
  logical_session_id_,
  call                \* the call to notify or notify_session in progress

vars == <<state, addr, closed, active_sessions_, strand, logical_session_id_, call>>
sessionVars == <<state, addr, closed>>
notifyVars == <<logical_session_id_, call>>

-----------------------------------------------------------------------------
States ==
  {"handshaking",   \* not built yet
   "built",         \* returned by handshake, counted
   "posted",        \* insertion posted to the strand
   "serving",       \* open hook called, dispatch_requests spawned
   "suspended",     \* serving, its reader suspended in respond()
   "ended",         \* dispatch_requests has completed, counters released
   "notified",      \* close hook called
   "gone"}          \* removal posted to the strand

In(S) == {s \in Sessions : state[s] \in S}

Job == [kind : {"insert", "erase", "snapshot", "close_all"},
        session : Sessions \cup {NoSession}, seen : SUBSET Sessions]

\* What the caller's coroutine holds; due is a ghost: the sessions the call was
\* meant for when it was made and has not been offered to yet.
Targets == Ids \cup {Everyone}
Call == [target : Targets \cup {NoId}, stage : {"idle", "copying", "sending"},
         sessions_copy : SUBSET Sessions, due : SUBSET Sessions]
NoCall == [target |-> NoId, stage |-> "idle", sessions_copy |-> {}, due |-> {}]

JobsOf(q) == {q[i] : i \in 1 .. Len(q)}

\* Posted for insertion and not posted for removal.
Registered == In({"posted", "serving", "suspended", "ended", "notified"})

\* The session's memory is freed with its last shared_ptr: held by its
\* coroutine or the completion handler of dispatch_requests, by
\* active_sessions_, by a copy of it, or by a posted handler.
\* Mutant: the completion handler captures no shared_ptr.
AliveWithoutCapture(s) ==
  \/ state[s] \in {"built", "posted", "serving", "suspended"}
  \/ s \in active_sessions_
Alive(s) ==
  \/ state[s] \in {"built", "posted", "serving", "suspended", "ended", "notified"}
  \/ s \in active_sessions_ \cup call.sessions_copy
  \/ \E j \in JobsOf(strand) : j.session = s

\* The strand runs its handlers in the order they were posted.
\* Mutant: a plain executor, where a later handler may overtake.
PostInFront(job) == strand' = <<job>> \o strand
Post(job) == strand' = Append(strand, job)

Goto(s, st) == state' = [state EXCEPT ![s] = st]

-----------------------------------------------------------------------------
Init ==
  /\ state = [s \in Sessions |-> "handshaking"]
  /\ addr = [s \in Sessions |-> NoAddr]
  /\ closed = {}
  /\ active_sessions_ = {}
  /\ strand = <<>>
  /\ logical_session_id_ = [s \in Sessions |-> NoId]
  /\ call = NoCall

-----------------------------------------------------------------------------
(* The life of a session in start() *)

\* make_shared may return any memory that is not in use.
HandshakeDone(s) ==
  /\ state[s] = "handshaking"
  /\ Goto(s, "built")
  /\ \E a \in Addrs :
       /\ \A d \in Sessions : Alive(d) => addr[d] # a
       /\ addr' = [addr EXCEPT ![s] = a]
  /\ UNCHANGED <<closed, active_sessions_, strand, notifyVars>>

\* Mutant: the test for a null session is gone, and handshake returned none.
PostInsertOfNull(s) ==
  /\ state[s] = "built"
  /\ Post([kind |-> "insert", session |-> NoSession, seen |-> {}])
  /\ Goto(s, "posted")
  /\ UNCHANGED <<addr, closed, active_sessions_, notifyVars>>
PostInsert(s) ==
  /\ state[s] = "built"
  /\ Post([kind |-> "insert", session |-> s, seen |-> {}])
  /\ Goto(s, "posted")
  /\ UNCHANGED <<addr, closed, active_sessions_, notifyVars>>

\* on_session_open_, then dispatch_requests is spawned.
OpenHook(s) ==
  /\ state[s] = "posted"
  /\ Goto(s, "serving")
  /\ UNCHANGED <<addr, closed, active_sessions_, strand, notifyVars>>

\* msg_reader answers a request over a limit itself (SessionCalls!RejectRequest)
\* and on a full write channel is suspended until msg_writer receives.  On a
\* closed channel it is not suspended but thrown out.
ReaderSuspends(s) ==
  /\ state[s] = "serving" /\ s \notin closed
  /\ Goto(s, "suspended")
  /\ UNCHANGED <<addr, closed, active_sessions_, strand, notifyVars>>

ReaderResumes(s) ==
  /\ state[s] = "suspended"
  /\ Goto(s, "serving")
  /\ UNCHANGED <<addr, closed, active_sessions_, strand, notifyVars>>

\* msg_reader and msg_writer are both gone: the peer left, a limit was
\* exceeded, or close() was called.  The completion handler starts.  Not while
\* the reader is suspended in respond(), whatever becomes of the socket.
SessionEnds(s) ==
  /\ state[s] = "serving"
  /\ Goto(s, "ended")
  /\ UNCHANGED <<addr, closed, active_sessions_, strand, notifyVars>>

\* on_session_close_.
CloseHook(s) ==
  /\ state[s] = "ended"
  /\ Goto(s, "notified")
  /\ UNCHANGED <<addr, closed, active_sessions_, strand, notifyVars>>

PostErase(s) ==
  /\ state[s] = "notified"
  /\ Post([kind |-> "erase", session |-> s, seen |-> {}])
  /\ Goto(s, "gone")
  /\ UNCHANGED <<addr, closed, active_sessions_, notifyVars>>

-----------------------------------------------------------------------------
(* The public interface: each call posts one handler and awaits it.  Bound: at
   most one call to notify or notify_session and one to stop() at a time; a
   session_count() only reads.  "seen" is a ghost: the sessions registered when
   stop() was called. *)

\* A handler, usually of the application's handshake, binds its session to an
\* id, once.  The string is written without a lock: readers get either value.
set_logical_session_id(s, id) ==
  /\ state[s] \in {"serving", "suspended", "ended", "notified", "gone"} /\ Alive(s)
  /\ logical_session_id_[s] = NoId
  /\ logical_session_id_' = [logical_session_id_ EXCEPT ![s] = id]
  /\ UNCHANGED <<sessionVars, active_sessions_, strand, call>>

MeantFor(s, target) == target \in {Everyone, logical_session_id_[s]}

\* notify and notify_session have the strand copy active_sessions_ ...
\* Mutant: the caller copies the set itself.
NotifyOffStrand(target) ==
  /\ call.stage = "idle"
  /\ call' = [target |-> target, stage |-> "sending", sessions_copy |-> active_sessions_,
              due |-> {s \in Registered : MeantFor(s, target)}]
  /\ UNCHANGED <<sessionVars, active_sessions_, strand, logical_session_id_>>
Notify(target) ==
  /\ call.stage = "idle"
  /\ Post([kind |-> "snapshot", session |-> NoSession, seen |-> {}])
  /\ call' = [target |-> target, stage |-> "copying", sessions_copy |-> {},
              due |-> {s \in Registered : MeantFor(s, target)}]
  /\ UNCHANGED <<sessionVars, active_sessions_, logical_session_id_>>

\* ... and go through the copy, in its order, on the caller's own thread.
\* Whether try_notify finds room is SessionCalls' matter.
Offer(s) ==
  /\ call.stage = "sending" /\ s \in call.sessions_copy
  /\ call' = [call EXCEPT !.sessions_copy = @ \ {s},
                          !.due = IF MeantFor(s, call.target) THEN @ \ {s} ELSE @]
  /\ UNCHANGED <<sessionVars, active_sessions_, strand, logical_session_id_>>

NotifyReturns ==
  /\ call.stage = "sending" /\ call.sessions_copy = {}
  /\ call' = NoCall
  /\ UNCHANGED <<sessionVars, active_sessions_, strand, logical_session_id_>>

\* stop(), close_all_sessions(); the acceptor is left running.
Stop ==
  /\ \A j \in JobsOf(strand) : j.kind # "close_all"
  /\ Post([kind |-> "close_all", session |-> NoSession, seen |-> Registered])
  /\ UNCHANGED <<sessionVars, active_sessions_, notifyVars>>

-----------------------------------------------------------------------------
(* sessions_strand_ *)

RunInsert ==
  /\ strand # <<>> /\ Head(strand).kind = "insert"
  /\ active_sessions_' = active_sessions_ \cup {Head(strand).session}
  /\ strand' = Tail(strand)
  /\ UNCHANGED <<sessionVars, notifyVars>>

\* Mutant: once a stop() has emptied the registry, removals do nothing.
EraseUnlessClosed ==
  /\ strand # <<>> /\ Head(strand).kind = "erase"
  /\ active_sessions_' =
       IF closed # {} THEN active_sessions_
       ELSE active_sessions_ \ {Head(strand).session}
  /\ strand' = Tail(strand)
  /\ UNCHANGED <<sessionVars, notifyVars>>
RunErase ==
  /\ strand # <<>> /\ Head(strand).kind = "erase"
  /\ active_sessions_' = active_sessions_ \ {Head(strand).session}
  /\ strand' = Tail(strand)
  /\ UNCHANGED <<sessionVars, notifyVars>>

RunSnapshot ==
  /\ strand # <<>> /\ Head(strand).kind = "snapshot"
  /\ call' = [call EXCEPT !.stage = "sending", !.sessions_copy = active_sessions_]
  /\ strand' = Tail(strand)
  /\ UNCHANGED <<sessionVars, active_sessions_, logical_session_id_>>

RunCloseAll ==
  /\ strand # <<>> /\ Head(strand).kind = "close_all"
  /\ closed' = closed \cup active_sessions_
  /\ active_sessions_' = {}
  /\ strand' = Tail(strand)
  /\ UNCHANGED <<state, addr, notifyVars>>

-----------------------------------------------------------------------------
SessionNext(s) ==
  \/ HandshakeDone(s) \/ PostInsert(s) \/ OpenHook(s)
  \/ ReaderSuspends(s) \/ ReaderResumes(s) \/ SessionEnds(s)
  \/ CloseHook(s) \/ PostErase(s)

StrandNext == RunInsert \/ RunErase \/ RunSnapshot \/ RunCloseAll

CallerNext ==
  \/ \E target \in Targets : Notify(target)
  \/ \E s \in Sessions : Offer(s)
  \/ NotifyReturns \/ Stop

Next ==
  \/ \E s \in Sessions :
       SessionNext(s) \/ \E id \in Ids : set_logical_session_id(s, id)
  \/ CallerNext \/ StrandNext

Spec == Init /\ [][Next]_vars

\* Coroutines and handlers that may run are run, and a session closed by the
\* server ends when its reader is not suspended in respond(): close() brings
\* both of its coroutines down (SessionCalls!TeardownRests).  A suspended reader
\* is not promised to resume.  As every session takes only so many of these
\* steps it is enough to say that some one that can go on does.  Peers, and
\* callers of the interface, owe nothing.
Fairness ==
  /\ WF_vars(\E s \in Sessions :
               PostInsert(s) \/ OpenHook(s) \/ CloseHook(s) \/ PostErase(s))
  /\ WF_vars(\E s \in closed : SessionEnds(s))
  /\ WF_vars(StrandNext)

FairSpec == Spec /\ Fairness

-----------------------------------------------------------------------------
(* Properties *)

\* Every variable stays within its type.
TypeOK ==
  /\ state \in [Sessions -> States]
  /\ addr \in [Sessions -> Addrs \cup {NoAddr}]
  /\ closed \subseteq Sessions
  /\ active_sessions_ \subseteq Sessions
  /\ strand \in Seq(Job)
  /\ logical_session_id_ \in [Sessions -> Ids \cup {NoId}]
  /\ call \in Call

\* While the application holds state for a session_token, from the open hook to
\* the close hook, no other session is announced under that token: it is an
\* address, and the session outlives both hooks.
Announced == In({"serving", "suspended", "ended"})

TokensDistinct == \A s, d \in Announced : addr[s] = addr[d] => s = d

\* A stop() covers every session posted for insertion before it
\* was called (so every session the open hook has announced), unless an earlier
\* stop() closed it.
StrandSeesPosted ==
  strand # <<>> => Head(strand).seen \ closed \subseteq active_sessions_

\* A notification gets to whom it is meant for: whatever is registered, stamped,
\* ended or removed while notify or notify_session copies and sends, try_notify is
\* called on every session that was registered (and bore the id) when the call
\* was made, unless a stop() has closed it.
DeliveredToTarget ==
  call.stage = "sending" => call.due \ closed \subseteq call.sessions_copy

\* A session that is gone, its removal executed, does not linger in
\* active_sessions_, whichever way its insertion, its end and stop() interleave.
NoZombie ==
  \A s \in active_sessions_ :
    state[s] = "gone" => \E j \in JobsOf(strand) : j.kind = "erase" /\ j.session = s

\* A session that has ended, or that stop() has closed while its reader was not
\* suspended in respond(), unwinds completely: close hook called and out of
\* active_sessions_.  (One whose reader is suspended when close() comes stays
\* out of active_sessions_ but never ends: no close hook, and its seat in the
\* counters of Admission is not given back.)
EndedSessionLeaves ==
  \A s \in Sessions :
    state[s] = "ended" \/ (s \in closed /\ state[s] # "suspended") ~>
      state[s] = "gone" /\ s \notin active_sessions_

\* "After close, the token is not reused" (start(), on session_token).
TokenNotReused ==
  \A s, d \in In({"serving", "suspended", "ended", "notified", "gone"}) :
    addr[s] = addr[d] => s = d

=============================================================================
