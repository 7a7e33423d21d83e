---------------------------- MODULE SessionCalls ----------------------------
(***************************************************************************)
(* The calling side of grlx::rpc::session: concurrent session::call        *)
(* coroutines, the async_manager that pairs each with a response channel,  *)
(* the bounded write channel, the msg_writer and msg_reader coroutines,    *)
(* the per-call timeout and session::close.                                *)
(*                                                                         *)
(* Each process takes one step per suspension point, lock or atomic of the *)
(* code, so that callers, timer handlers, reader, writer and the thread    *)
(* running close() interleave the way an executor may interleave them.     *)
(***************************************************************************)
EXTENDS Naturals, Sequences

CONSTANTS
  Calls,            \* the invocations of session::call
  NoCall,           \* "no invocation", for empty channel slots
  WriteCap,         \* capacity of write_channel_ (256 in the code)
  Notifies,         \* TRUE: the session carries notifications as well
  Serves,           \* TRUE: the peer sends requests, some over the limits
  CallerOnStrand    \* TRUE: a caller and its timer handler share a strand
                    \* (or one thread); FALSE: a multi-threaded executor

ASSUME SessionAssumption ==
  /\ NoCall \notin Calls
  /\ WriteCap \in Nat \ {0}
  /\ Notifies \in BOOLEAN
  /\ Serves \in BOOLEAN
  /\ CallerOnStrand \in BOOLEAN

VARIABLES
  pc,           \* where each call() coroutine is
  token,        \* its operation token (0 before create_operation)
  timer,        \* its steady_timer and the handler's progress
  timed_out,    \* wait_state::timed_out
  inbox,        \* buffered element of its capacity-1 response channel
  ready,        \* completion posted to its async_receive
  chan_open,    \* its response channel has not been closed
  outcome,      \* how it returned
  next_token_,  \* async_manager::next_token_
  channels_,    \* async_manager::channels_, token -> owner of the channel
  write_buf,    \* items buffered in write_channel_
  parked,       \* senders suspended in queue_write on a full channel
  writer,       \* the msg_writer coroutine
  writing,      \* the item msg_writer is writing, as a sequence of length <= 1
  reader,       \* the msg_reader coroutine
  held,         \* what complete_operation took out of channels_
  closing,      \* progress of the one effective session::close
  cancelling,   \* channels_copy: owners still to be cancelled
  requests,     \* requests the peer has received and not answered
  inbound,      \* answer frames on their way back
  answered      \* history: how the peer answered each call

callVars    == <<pc, token, timer, timed_out, inbox, ready, chan_open, outcome>>
managerVars == <<next_token_, channels_>>
writeVars   == <<write_buf, parked, writer, writing>>
readVars    == <<reader, held>>
closeVars   == <<closing, cancelling>>
netVars     == <<requests, inbound, answered>>
vars == <<callVars, managerVars, writeVars, readVars, closeVars, netVars>>

-----------------------------------------------------------------------------
(* Data *)

\* A queued frame: the header's token and, as a ghost, the call it belongs to.
\* A notification, ping or nop, and an answer to the peer, belong to none.
Item == [token : Nat, call : Calls \cup {NoCall}]
Notification == [token |-> 0, call |-> NoCall]
Reply == [token |-> 0, call |-> NoCall]

\* An answer frame echoes the token; "for" is the call whose request it answers.
AnswerKind == {"response", "error"}
Frame == [token : Nat, kind : AnswerKind, for : Calls]

\* An element of a response channel, or the error of a cancelled receive.
Message == [kind : AnswerKind, for : Calls]
Nothing == [kind |-> "none", for |-> NoCall]
Aborted == [kind |-> "aborted", for |-> NoCall]

Held == [to : Calls, kind : AnswerKind, for : Calls]
NoHeld == [to |-> NoCall, kind |-> "none", for |-> NoCall]

PCs == {"idle", "registered", "parked", "sent", "armed", "receiving",
        "resumed", "done"}
Timers == {"off", "armed", "checked", "flagged", "over"}
Failures == {"timeout", "aborted", "send_failed"}
Outcomes == {"ok", "error"} \cup Failures

\* Stages of session::close, in the order of its statements.
Stages == {"open", "flagged", "chclosed", "swapped", "closed"}

\* Mutants: the write channel is closed with the socket only, or never.
WriteOpenTillSocket == closing # "closed"
WriteOpenForever == TRUE

\* write_channel_.close() precedes the cancellation of pending operations,
\* and the socket is closed last.
write_open == closing \in {"open", "flagged"}
socket_open == closing # "closed"

finished(c) == pc[c] = "done"

Put(f, k, v) == [x \in DOMAIN f \cup {k} |-> IF x = k THEN v ELSE f[x]]
\* Mutant: complete_operation leaves the entry in the map.
KeepEntry(f, k) == f
Erase(f, k) == [x \in DOMAIN f \ {k} |-> f[x]]
Owners(f) == {f[t] : t \in DOMAIN f}

\* The coroutine of c may run: on a strand the timer handler excludes it.
CallerRuns(c) == CallerOnStrand => timer[c] \notin {"checked", "flagged"}

-----------------------------------------------------------------------------
Init ==
  /\ pc = [c \in Calls |-> "idle"]
  /\ token = [c \in Calls |-> 0]
  /\ timer = [c \in Calls |-> "off"]
  /\ timed_out = [c \in Calls |-> FALSE]
  /\ inbox = [c \in Calls |-> Nothing]
  /\ ready = [c \in Calls |-> Nothing]
  /\ chan_open = [c \in Calls |-> TRUE]
  /\ outcome = [c \in Calls |-> "none"]
  /\ next_token_ = 1
  /\ channels_ = [t \in {} |-> NoCall]
  /\ write_buf = <<>>
  /\ parked = <<>>
  /\ writer = "receiving"
  /\ writing = <<>>
  /\ reader = "reading"
  /\ held = NoHeld
  /\ closing = "open"
  /\ cancelling = {}
  /\ requests = {}
  /\ inbound = {}
  /\ answered = [c \in Calls |-> "none"]

-----------------------------------------------------------------------------
(* session::call *)

\* create_operation: a fresh token, then the channel is registered under the
\* lock.  call() does not look at is_closed_.
\* Mutant: the counter is read and written in two steps.
StaleToken == IF next_token_ > 1 THEN next_token_ - 1 ELSE next_token_
generate_token == next_token_

CreateOperation(c) ==
  /\ pc[c] = "idle"
  /\ token' = [token EXCEPT ![c] = generate_token]
  /\ next_token_' = next_token_ + 1
  /\ channels_' = Put(channels_, generate_token, c)
  /\ pc' = [pc EXCEPT ![c] = "registered"]
  /\ UNCHANGED <<timer, timed_out, inbox, ready, chan_open, outcome, writeVars,
                 readVars, closeVars, netVars>>

\* Mutant: off by one in the capacity test.
OneTooMany == Len(write_buf) <= WriteCap
\* The write channel's buffer is not full.
HasRoom == Len(write_buf) < WriteCap

\* queue_write: async_send on write_channel_ hands the item to a waiting
\* msg_writer, buffers it, suspends the caller when the buffer is full, or
\* throws when the channel is closed (the entry in channels_ stays behind).
QueueWrite(c) ==
  LET item == [token |-> token[c], call |-> c]
      waiting == writer = "receiving" /\ write_buf = <<>>
  IN
  /\ pc[c] = "registered"
  /\ write_open
  /\ \/ /\ waiting
        /\ writer' = "writing"
        /\ writing' = <<item>>
        /\ pc' = [pc EXCEPT ![c] = "sent"]
        /\ UNCHANGED <<write_buf, parked>>
     \/ /\ ~waiting
        /\ HasRoom
        /\ write_buf' = Append(write_buf, item)
        /\ pc' = [pc EXCEPT ![c] = "sent"]
        /\ UNCHANGED <<parked, writer, writing>>
     \/ /\ ~waiting
        /\ ~HasRoom
        /\ parked' = Append(parked, item)
        /\ pc' = [pc EXCEPT ![c] = "parked"]
        /\ UNCHANGED <<write_buf, writer, writing>>
  /\ UNCHANGED <<token, timer, timed_out, inbox, ready, chan_open, outcome,
                 managerVars, readVars, closeVars, netVars>>

SendFails(c) ==
  /\ pc[c] = "registered"
  /\ ~write_open
  /\ pc' = [pc EXCEPT ![c] = "done"]
  /\ outcome' = [outcome EXCEPT ![c] = "send_failed"]
  /\ UNCHANGED <<token, timer, timed_out, inbox, ready, chan_open, managerVars,
                 writeVars, readVars, closeVars, netVars>>

\* try_notify, try_ping, and the reader's pong: try_send hands over or buffers
\* the frame, and drops it when the channel is full or closed.
TryNotify ==
  LET waiting == writer = "receiving" /\ write_buf = <<>> IN
  /\ Notifies
  /\ write_open
  /\ \/ /\ waiting
        /\ writer' = "writing"
        /\ writing' = <<Notification>>
        /\ UNCHANGED write_buf
     \/ /\ ~waiting
        /\ HasRoom
        /\ write_buf' = Append(write_buf, Notification)
        /\ UNCHANGED <<writer, writing>>
  /\ UNCHANGED <<callVars, managerVars, parked, readVars, closeVars, netVars>>

\* The timeout is armed only once the request is queued.
ArmTimer(c) ==
  /\ pc[c] = "sent"
  /\ timer' = [timer EXCEPT ![c] = "armed"]
  /\ pc' = [pc EXCEPT ![c] = "armed"]
  /\ UNCHANGED <<token, timed_out, inbox, ready, chan_open, outcome,
                 managerVars, writeVars, readVars, closeVars, netVars>>

\* async_receive: takes the buffered element, fails on a closed channel, or
\* suspends.
BeginReceive(c) ==
  /\ pc[c] = "armed"
  /\ CallerRuns(c)
  /\ \/ /\ inbox[c] # Nothing
        /\ ready' = [ready EXCEPT ![c] = inbox[c]]
        /\ inbox' = [inbox EXCEPT ![c] = Nothing]
        /\ pc' = [pc EXCEPT ![c] = "resumed"]
     \/ /\ inbox[c] = Nothing
        /\ ~chan_open[c]
        /\ ready' = [ready EXCEPT ![c] = Aborted]
        /\ pc' = [pc EXCEPT ![c] = "resumed"]
        /\ UNCHANGED inbox
     \/ /\ inbox[c] = Nothing
        /\ chan_open[c]
        /\ pc' = [pc EXCEPT ![c] = "receiving"]
        /\ UNCHANGED <<inbox, ready>>
  /\ UNCHANGED <<token, timer, timed_out, chan_open, outcome, managerVars,
                 writeVars, readVars, closeVars, netVars>>

\* The order of the tests after async_receive decides what the caller sees.
\* Mutant: the error code of async_receive is not looked at.
OutcomeIgnoringChannelError(c) ==
  IF timed_out[c] THEN "timeout"
  ELSE IF ready[c].kind = "error" THEN "error"
  ELSE "ok"

OutcomeOf(c) ==
  IF timed_out[c] THEN "timeout"
  ELSE IF ready[c] = Aborted THEN "aborted"
  ELSE IF ready[c].kind = "error" THEN "error"
  ELSE "ok"

\* The posted completion runs: finished, timer.cancel(), then the outcome.
\* timer.cancel() comes too late for a handler that is already queued.
Resume(c) ==
  /\ pc[c] = "resumed"
  /\ CallerRuns(c)
  /\ pc' = [pc EXCEPT ![c] = "done"]
  /\ \E queued \in BOOLEAN :
       timer' = [timer EXCEPT ![c] =
                   IF @ = "armed" /\ ~queued THEN "over" ELSE @]
  /\ outcome' = [outcome EXCEPT ![c] = OutcomeOf(c)]
  /\ UNCHANGED <<token, timed_out, inbox, ready, chan_open, managerVars,
                 writeVars, readVars, closeVars, netVars>>

-----------------------------------------------------------------------------
(* The timeout handler of call() *)

\* Expiry, and the test of finished.
TimerFires(c) ==
  /\ timer[c] = "armed"
  /\ CallerOnStrand => pc[c] # "armed"
  /\ timer' = [timer EXCEPT ![c] = IF finished(c) THEN "over" ELSE "checked"]
  /\ UNCHANGED <<pc, token, timed_out, inbox, ready, chan_open, outcome,
                 managerVars, writeVars, readVars, closeVars, netVars>>

TimerFlags(c) ==
  /\ timer[c] = "checked"
  /\ timer' = [timer EXCEPT ![c] = "flagged"]
  /\ timed_out' = [timed_out EXCEPT ![c] = TRUE]
  /\ UNCHANGED <<pc, token, inbox, ready, chan_open, outcome, managerVars,
                 writeVars, readVars, closeVars, netVars>>

\* Mutant: the handler sets the flag and forgets the channel.
TimerForgetsChannel(c) ==
  /\ timer[c] = "flagged"
  /\ timer' = [timer EXCEPT ![c] = "over"]
  /\ UNCHANGED <<pc, token, timed_out, inbox, ready, chan_open, outcome,
                 managerVars, writeVars, readVars, closeVars, netVars>>

\* ch->cancel() aborts a receive that is suspended and nothing else.
TimerCancels(c) ==
  /\ timer[c] = "flagged"
  /\ timer' = [timer EXCEPT ![c] = "over"]
  /\ IF pc[c] = "receiving"
       THEN /\ pc' = [pc EXCEPT ![c] = "resumed"]
            /\ ready' = [ready EXCEPT ![c] = Aborted]
       ELSE UNCHANGED <<pc, ready>>
  /\ UNCHANGED <<token, timed_out, inbox, chan_open, outcome, managerVars,
                 writeVars, readVars, closeVars, netVars>>

-----------------------------------------------------------------------------
(* msg_writer *)

\* What the reader does once its respond has gone through.
AfterRespond(at) == IF at = "rejecting" THEN "closing" ELSE "reading"

\* Receiving from a full channel lets the first suspended sender in, be it a
\* call or the reader.  Nothing else resumes a suspended sender: close() wakes
\* the receivers of a channel only.
WriterTakes ==
  /\ writer = "receiving"
  /\ write_buf # <<>>
  /\ writer' = "writing"
  /\ writing' = <<Head(write_buf)>>
  /\ IF parked = <<>>
       THEN /\ write_buf' = Tail(write_buf)
            /\ UNCHANGED <<parked, pc, reader>>
       ELSE /\ write_buf' = Append(Tail(write_buf), Head(parked))
            /\ parked' = Tail(parked)
            /\ pc' = [c \in Calls |->
                       IF c = Head(parked).call THEN "sent" ELSE pc[c]]
            /\ reader' = IF Head(parked).call = NoCall THEN AfterRespond(reader)
                         ELSE reader
  /\ UNCHANGED <<token, timer, timed_out, inbox, ready, chan_open, outcome,
                 managerVars, held, closeVars, netVars>>

\* async_write completes: a request reaches the peer.
WriterWrites ==
  /\ writer = "writing"
  /\ socket_open
  /\ requests' = requests \cup {i \in {writing[1]} : i.call # NoCall}
  /\ writer' = "receiving"
  /\ writing' = <<>>
  /\ UNCHANGED <<callVars, managerVars, write_buf, parked, readVars, closeVars,
                 inbound, answered>>

\* close() is effective once: a compare-and-swap on is_closed_.
Close == closing' = IF closing = "open" THEN "flagged" ELSE closing

\* async_write fails: the item is lost.
WriterFails ==
  /\ writer = "writing"
  /\ writer' = "exited"
  /\ writing' = <<>>
  /\ Close
  /\ UNCHANGED <<callVars, managerVars, write_buf, parked, readVars, cancelling,
                 netVars>>

\* A closed write channel ends the loop; whether buffered items are still
\* delivered first is asio's choice.
WriterExits ==
  /\ writer = "receiving"
  /\ ~write_open
  /\ writer' = "exited"
  /\ Close
  /\ UNCHANGED <<callVars, managerVars, write_buf, parked, writing, readVars,
                 cancelling, netVars>>

-----------------------------------------------------------------------------
(* msg_reader, handle_response and handle_error *)

\* complete_operation, first half: look the token up and erase the entry under
\* the lock.  A frame whose token is unknown is dropped.
ReadFrame(f) ==
  /\ reader = "reading"
  /\ socket_open
  /\ inbound' = inbound \ {f}
  /\ \/ /\ f.token \in DOMAIN channels_
        /\ held' = [to |-> channels_[f.token], kind |-> f.kind, for |-> f.for]
        /\ channels_' = Erase(channels_, f.token)
        /\ reader' = "completing"
     \/ /\ f.token \notin DOMAIN channels_
        /\ UNCHANGED <<held, channels_, reader>>
  /\ UNCHANGED <<callVars, next_token_, writeVars, closeVars, requests,
                 answered>>

\* complete_operation, second half, outside the lock: async_send on the
\* response channel resumes a suspended receive or fills the one slot.  It
\* would suspend on a full channel, and throw on a closed one.
CompleteSend ==
  LET c == held.to
      message == [kind |-> held.kind, for |-> held.for]
  IN
  /\ reader = "completing"
  /\ \/ /\ chan_open[c]
        /\ pc[c] = "receiving"
        /\ ready' = [ready EXCEPT ![c] = message]
        /\ pc' = [pc EXCEPT ![c] = "resumed"]
        /\ reader' = "reading"
        /\ UNCHANGED <<inbox, closing>>
     \/ /\ chan_open[c]
        /\ pc[c] # "receiving"
        /\ inbox[c] = Nothing
        /\ inbox' = [inbox EXCEPT ![c] = message]
        /\ reader' = "reading"
        /\ UNCHANGED <<ready, pc, closing>>
     \/ /\ ~chan_open[c]
        /\ reader' = "exited"
        /\ Close
        /\ UNCHANGED <<ready, pc, inbox>>
  /\ held' = NoHeld
  /\ UNCHANGED <<token, timer, timed_out, chan_open, outcome, managerVars,
                 writeVars, cancelling, netVars>>

\* dispatch_request, for a request of the peer that is over the rate limit
\* ("responding", after its body was drained) or too large ("rejecting"): the
\* reader itself awaits respond(error).  On a full write channel it is suspended
\* like any sender; a closed channel throws it out of its loop.  (A request
\* within the limits is answered by a coroutine of its own, see Connection.)
RejectRequest(at) ==
  LET waiting == writer = "receiving" /\ write_buf = <<>> IN
  /\ Serves
  /\ reader = "reading"
  /\ socket_open
  /\ \/ /\ ~write_open
        /\ reader' = "exited"
        /\ Close
        /\ UNCHANGED writeVars
     \/ /\ write_open
        /\ waiting
        /\ writer' = "writing"
        /\ writing' = <<Reply>>
        /\ reader' = AfterRespond(at)
        /\ UNCHANGED <<write_buf, parked, closing>>
     \/ /\ write_open
        /\ ~waiting
        /\ HasRoom
        /\ write_buf' = Append(write_buf, Reply)
        /\ reader' = AfterRespond(at)
        /\ UNCHANGED <<parked, writer, writing, closing>>
     \/ /\ write_open
        /\ ~waiting
        /\ ~HasRoom
        /\ parked' = Append(parked, Reply)
        /\ reader' = at
        /\ UNCHANGED <<write_buf, writer, writing, closing>>
  /\ UNCHANGED <<callVars, managerVars, held, cancelling, netVars>>

\* An oversized request has been answered: close(), and back to the loop, where
\* the next read fails.
CloseRejected ==
  /\ reader = "closing"
  /\ reader' = "reading"
  /\ Close
  /\ UNCHANGED <<callVars, managerVars, writeVars, held, cancelling, netVars>>

\* The read fails, times out, or finds a frame that violates the protocol.
ReaderFails ==
  /\ reader = "reading"
  /\ reader' = "exited"
  /\ Close
  /\ UNCHANGED <<callVars, managerVars, writeVars, held, cancelling, netVars>>

-----------------------------------------------------------------------------
(* session::close, run by whichever thread wins the compare-and-swap *)

\* close() from outside: client::disconnect, server::close_all_sessions.
Disconnect ==
  /\ closing = "open"
  /\ Close
  /\ UNCHANGED <<callVars, managerVars, writeVars, readVars, cancelling, netVars>>

CloseWriteChannel ==
  /\ closing = "flagged"
  /\ closing' = "chclosed"
  /\ UNCHANGED <<callVars, managerVars, writeVars, readVars, cancelling, netVars>>

\* cancel_all_operations moves the map out under the lock ...
CancelAllSwap ==
  /\ closing = "chclosed"
  /\ closing' = "swapped"
  /\ cancelling' = Owners(channels_)
  /\ channels_' = [t \in {} |-> NoCall]
  /\ UNCHANGED <<callVars, next_token_, writeVars, readVars, netVars>>

\* ... and cancels and closes the channels one by one outside it.
CancelOne(c) ==
  /\ c \in cancelling
  /\ cancelling' = cancelling \ {c}
  /\ chan_open' = [chan_open EXCEPT ![c] = FALSE]
  /\ IF pc[c] = "receiving"
       THEN /\ pc' = [pc EXCEPT ![c] = "resumed"]
            /\ ready' = [ready EXCEPT ![c] = Aborted]
       ELSE UNCHANGED <<pc, ready>>
  /\ UNCHANGED <<token, timer, timed_out, inbox, outcome, managerVars,
                 writeVars, readVars, closing, netVars>>

\* Whatever is in flight is lost with the socket.
CloseSocket ==
  /\ closing = "swapped"
  /\ cancelling = {}
  /\ closing' = "closed"
  /\ requests' = {}
  /\ inbound' = {}
  /\ UNCHANGED <<callVars, managerVars, writeVars, readVars, cancelling, answered>>

-----------------------------------------------------------------------------
(* The peer: its handlers run in parallel, so answers come in any order *)

PeerAnswers(q, kind) ==
  /\ requests' = requests \ {q}
  /\ inbound' = inbound \cup {[token |-> q.token, kind |-> kind, for |-> q.call]}
  /\ answered' = [answered EXCEPT ![q.call] = kind]
  /\ UNCHANGED <<callVars, managerVars, writeVars, readVars, closeVars>>

-----------------------------------------------------------------------------
CallNext(c) ==
  \/ CreateOperation(c) \/ QueueWrite(c) \/ SendFails(c) \/ ArmTimer(c)
  \/ BeginReceive(c) \/ Resume(c)
  \/ TimerFires(c) \/ TimerFlags(c) \/ TimerCancels(c)

WriterNext == WriterTakes \/ WriterWrites \/ WriterFails \/ WriterExits

ReaderNext ==
  \/ CompleteSend \/ CloseRejected \/ ReaderFails
  \/ \E f \in inbound : ReadFrame(f)
  \/ \E at \in {"responding", "rejecting"} : RejectRequest(at)

CloseNext ==
  \/ Disconnect \/ CloseWriteChannel \/ CancelAllSwap \/ CloseSocket
  \/ \E c \in Calls : CancelOne(c)

PeerNext == \E q \in requests, kind \in AnswerKind : PeerAnswers(q, kind)

Next ==
  \/ TryNotify
  \/ \E c \in Calls : CallNext(c)
  \/ WriterNext \/ ReaderNext \/ CloseNext \/ PeerNext

Spec == Init /\ [][Next]_vars

\* Runnable coroutines, handlers and the thread in close() are run eventually,
\* an armed timer expires, and I/O on a closed socket fails.  Nothing is assumed
\* of the peer or of an async_write on an open socket.
Fairness ==
  /\ \A c \in Calls :
       /\ WF_vars(QueueWrite(c)) /\ WF_vars(SendFails(c)) /\ WF_vars(ArmTimer(c))
       /\ WF_vars(BeginReceive(c)) /\ WF_vars(Resume(c))
       /\ WF_vars(TimerFires(c)) /\ WF_vars(TimerFlags(c))
       /\ WF_vars(TimerCancels(c)) /\ WF_vars(CancelOne(c))
  /\ WF_vars(WriterTakes) /\ WF_vars(WriterExits)
  /\ WF_vars(CompleteSend) /\ WF_vars(CloseRejected)
  /\ WF_vars(CloseWriteChannel) /\ WF_vars(CancelAllSwap) /\ WF_vars(CloseSocket)
  /\ WF_vars(~socket_open /\ WriterFails) /\ WF_vars(~socket_open /\ ReaderFails)

FairSpec == Spec /\ Fairness

-----------------------------------------------------------------------------
(* Properties *)

\* Every variable stays within its type; the write channel within its capacity.
CallTypes ==
  /\ pc \in [Calls -> PCs]
  /\ token \in [Calls -> Nat]
  /\ timer \in [Calls -> Timers]
  /\ timed_out \in [Calls -> BOOLEAN]
  /\ inbox \in [Calls -> Message \cup {Nothing}]
  /\ ready \in [Calls -> Message \cup {Nothing, Aborted}]
  /\ chan_open \in [Calls -> BOOLEAN]
  /\ outcome \in [Calls -> Outcomes \cup {"none"}]

ManagerTypes ==
  /\ next_token_ \in Nat \ {0}
  /\ DOMAIN channels_ \subseteq Nat
  /\ channels_ \in [DOMAIN channels_ -> Calls]

WriteTypes ==
  /\ write_buf \in Seq(Item)
  /\ Len(write_buf) <= WriteCap
  /\ parked \in Seq(Item)
  /\ writer \in {"receiving", "writing", "exited"}
  /\ writing \in Seq(Item)
  /\ Len(writing) = (IF writer = "writing" THEN 1 ELSE 0)

ReadTypes ==
  /\ reader \in {"reading", "completing", "responding", "rejecting", "closing",
                "exited"}
  /\ IF reader = "completing" THEN held \in Held ELSE held = NoHeld

CloseTypes ==
  /\ closing \in Stages
  /\ cancelling \in SUBSET Calls

NetTypes ==
  /\ requests \in SUBSET Item
  /\ inbound \in SUBSET Frame
  /\ answered \in [Calls -> AnswerKind \cup {"none"}]

TypeOK ==
  /\ CallTypes /\ ManagerTypes /\ WriteTypes /\ ReadTypes /\ CloseTypes
  /\ NetTypes

\* A call that returns a response, or the peer's error, returns the one the
\* peer gave to this very call, however callers, answers, timeouts and close
\* interleave (call, create_operation, complete_operation).
OwnAnswer ==
  \A c \in Calls : outcome[c] \in {"ok", "error"} => ready[c].for = c

\* complete_operation erases the entry before it sends, so its async_send,
\* awaited by the only reader of the session, finds the channel open and empty:
\* it never blocks the reader and never throws it out of its loop, not even
\* when close() or a timeout races with it.
CompletionNeverBlocks ==
  reader = "completing" =>
    /\ chan_open[held.to]
    /\ inbox[held.to] = Nothing

\* Once close() has returned, a caller still suspended on the dead session is one
\* whose answer is being handed over, or one that close() found suspended in
\* queue_write behind a full write channel.  The latter waits for a receive of
\* msg_writer, without a timeout, and when the writer is gone for ever; everyone
\* else gets out.  (The order of the statements of close() is what makes this
\* true: a call registered after the map was swapped finds the channel closed.)
Behind(c) == \E i \in 1 .. Len(parked) : parked[i].call = c

OnlyParkedCallsOrphaned ==
  closing = "closed" =>
    \A c \in Calls :
      /\ pc[c] = "receiving" => reader = "completing" /\ held.to = c
      /\ pc[c] = "parked" => Behind(c) /\ Len(write_buf) = WriteCap

\* Entries of channels_ that outlive their call, which only a late answer or
\* close() removes, come from calls that timed out or whose write was refused.
LeftoverEntries ==
  \A c \in Owners(channels_) :
    finished(c) => outcome[c] \in {"timeout", "send_failed"}

-----------------------------------------------------------------------------
(* The inductive invariant behind the safety properties *)

\* Tokens are never reused, and an entry of channels_ belongs to its token.
TokenInv ==
  /\ \A c \in Calls :
       /\ token[c] < next_token_
       /\ token[c] = 0 <=> pc[c] = "idle"
  /\ \A c, d \in Calls : token[c] = token[d] /\ token[c] # 0 => c = d
  /\ \A t \in DOMAIN channels_ : t # 0 /\ token[channels_[t]] = t

\* What is queued, written and answered carries the token of its call.
Genuine(i) == i.call \in Calls => i.token # 0 /\ i.token = token[i.call]

ReaderSuspended == reader \in {"responding", "rejecting"}

WireInv ==
  /\ \A i \in 1 .. Len(write_buf) : Genuine(write_buf[i])
  /\ \A i \in 1 .. Len(writing) : Genuine(writing[i])
  /\ \A i \in 1 .. Len(parked) :
       /\ Genuine(parked[i])
       /\ parked[i].call \in Calls => pc[parked[i].call] = "parked"
       /\ parked[i].call = NoCall => ReaderSuspended
  /\ \A i, j \in 1 .. Len(parked) : parked[i].call = parked[j].call => i = j
  /\ \A q \in requests : q.call \in Calls /\ Genuine(q)
  /\ \A f \in inbound : f.token # 0 /\ f.token = token[f.for]

\* At any time at most one party may complete or cancel a call's channel: the
\* map, the thread in cancel_all_operations, or the reader that erased the
\* entry; and while one of them may, the channel is open and empty.
Untouched(c) == chan_open[c] /\ inbox[c] = Nothing

InReaderHand(c) == reader = "completing" /\ held.to = c

OwnershipInv ==
  /\ \A t \in DOMAIN channels_ :
       /\ Untouched(channels_[t])
       /\ channels_[t] \notin cancelling
       /\ ~InReaderHand(channels_[t])
  /\ \A c \in cancelling : Untouched(c) /\ ~InReaderHand(c) /\ pc[c] # "idle"
  /\ reader = "completing" =>
       Untouched(held.to) /\ pc[held.to] # "idle" /\ held.for = held.to
  /\ \A c \in Calls : pc[c] = "idle" => Untouched(c)

\* A call that has not been resumed is still owed a completion by someone, or
\* its channel already tells it what happened.
Owed(c) == token[c] \in DOMAIN channels_ \/ c \in cancelling \/ InReaderHand(c)

WaiterInv ==
  \A c \in Calls :
    /\ pc[c] \in {"registered", "parked", "sent", "armed"} =>
         Owed(c) \/ ~Untouched(c)
    /\ pc[c] = "receiving" => Owed(c) /\ Untouched(c)

\* What a call has received, or finds in its channel, is its own answer.
AnswerInv ==
  \A c \in Calls :
    /\ inbox[c] # Nothing => inbox[c].for = c
    /\ ready[c] \notin {Nothing, Aborted} => ready[c].for = c
    /\ pc[c] = "resumed" => ready[c] # Nothing
    /\ outcome[c] \in {"ok", "error"} => ready[c] \notin {Nothing, Aborted}
    /\ outcome[c] # "none" <=> pc[c] = "done"
    /\ timer[c] = "flagged" => timed_out[c]

\* After the swap of close() the map only gains calls that cannot send.
CloseInv ==
  /\ closing # "swapped" => cancelling = {}
  /\ closing \in {"swapped", "closed"} =>
       \A t \in DOMAIN channels_ : pc[channels_[t]] \in {"registered", "done"}
  /\ \A t \in DOMAIN channels_ :
       /\ pc[channels_[t]] = "resumed" => timed_out[channels_[t]]
       /\ pc[channels_[t]] = "done" =>
            outcome[channels_[t]] \in {"timeout", "send_failed"}

IInv ==
  /\ TypeOK /\ TokenInv /\ WireInv /\ OwnershipInv /\ WaiterInv /\ AnswerInv
  /\ CloseInv

\* Senders are suspended on a full channel only, each with its frame in the queue.
ParkedInv ==
  /\ parked # <<>> => Len(write_buf) = WriteCap
  /\ \A c \in Calls : pc[c] = "parked" => Behind(c)

-----------------------------------------------------------------------------
(* Liveness and refinement *)

\* Once its timer is armed, a call returns, whatever peer and network do.
ArmedCallReturns ==
  \A c \in Calls : pc[c] = "armed" ~> finished(c)

\* Once close() has won, the session comes to rest: socket closed, msg_writer
\* gone, and msg_reader too, so that the completion handler of dispatch_requests
\* runs; all but the reader that is suspended in respond, behind a full write
\* channel.  close() does not resume it, and with the writer gone nothing will.
TeardownRests ==
  closing # "open" ~>
    /\ closing = "closed" /\ writer = "exited"
    /\ reader = "exited" \/ (ReaderSuspended /\ Len(write_buf) = WriteCap)

\* session::call keeps the promise of RpcCall: one answer at most per call,
\* and a call returns once, with the answer to its own request or a failure.
Status ==
  [c \in Calls |-> IF pc[c] = "idle" THEN "idle"
                   ELSE IF pc[c] = "done" THEN outcome[c] ELSE "pending"]

Abstract == INSTANCE RpcCall WITH status <- Status, answer <- answered

CallPromise == Abstract!Spec

=============================================================================
