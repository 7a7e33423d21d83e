----------------------------- MODULE Connection -----------------------------
(***************************************************************************)
(* Two grlx::rpc::session objects, one at each end of a connection: what   *)
(* msg_writer puts on the wire, what msg_reader and its handlers take off  *)
(* it, and how the two ends wait for each other.  The client calls and     *)
(* pings, the server answers and notifies.                                 *)
(*                                                                         *)
(* The wire is a bounded sequence of chunks, header and body of a frame    *)
(* being two chunks, so that a reader that skips or misses a body takes    *)
(* the next chunk for what it is not.  Tokens, timeouts of calls and the   *)
(* inside of close() are in SessionCalls; here a call is its request, and  *)
(* close() is one step.                                                    *)
(***************************************************************************)
EXTENDS Naturals, Sequences, SequencesExt

CONSTANTS
  MaxRequests, \* bound: calls of the client
  MaxNotes,    \* bound: notifications of the server
  WriteCap,    \* capacity of write_channel_
  PipeCap      \* chunks the network holds per direction

ASSUME ConnectionAssumption ==
  /\ WriteCap \in Nat \ {0}
  /\ PipeCap \in Nat \ {0}
  /\ MaxRequests \in Nat
  /\ MaxNotes \in Nat

VARIABLES
  buf,        \* frames buffered in write_channel_, per peer
  parked,     \* senders suspended in queue_write, per peer
  out,        \* chunks msg_writer has still to write, per peer
  pipe,       \* chunks on their way from a peer to the other one
  reader,     \* msg_reader and the handler it is in, per peer
  closed,     \* is_closed_, per peer
  call,       \* the client's calls
  handler,    \* the request handlers the server has spawned
  answers,    \* history: answers the server has queued for each request
  notified,   \* history: notifications queued so far
  posted,     \* notifications posted to the client's notification_strand_
  applied     \* notifications applied by the client, in order

vars == <<buf, parked, out, pipe, reader, closed, call, handler, answers,
          notified, posted, applied>>

-----------------------------------------------------------------------------
\* Calls and notifications are numbered in the order in which they are made.
Requests == 1 .. MaxRequests
Notes == 1 .. MaxNotes
Ping == 0

Peers == {"client", "server"}
Other(p) == IF p = "client" THEN "server" ELSE "client"

\* A body is absent, within limits_.max_message_bytes, or above it.
Sizes == {"empty", "fits", "over"}
Types == {"request", "response", "error", "notification", "ping", "pong"}
Frame == [type : Types, id : Requests \cup Notes \cup {Ping}, size : Sizes]
NoFrame == [type |-> "nop", id |-> Ping, size |-> "empty"]

Header(f) == [part |-> "header", frame |-> f]
Body(f) == [part |-> "body", frame |-> f]
Chunks(f) == IF f.size = "empty" THEN <<Header(f)>> ELSE <<Header(f), Body(f)>>

\* Where msg_reader is: at a frame boundary, reading or draining a body,
\* suspended in respond (after a drain, or before the close of a rejected
\* request), or about to close.
Readers == {"header", "body", "drain", "responding", "rejecting", "closing"}
At(a, f) == [at |-> a,
             frame |-> IF a \in {"header", "closing"} THEN NoFrame ELSE f]
AtBoundary == At("header", NoFrame)

Init ==
  /\ buf = [p \in Peers |-> <<>>]
  /\ parked = [p \in Peers |-> <<>>]
  /\ out = [p \in Peers |-> <<>>]
  /\ pipe = [p \in Peers |-> <<>>]
  /\ reader = [p \in Peers |-> AtBoundary]
  /\ closed = [p \in Peers |-> FALSE]
  /\ call = [r \in Requests |-> "idle"]
  /\ handler = [r \in Requests |-> "none"]
  /\ answers = [r \in Requests |-> 0]
  /\ notified = 0
  /\ posted = <<>>
  /\ applied = <<>>

-----------------------------------------------------------------------------
(* queue_write and msg_writer *)

\* Mutant: the capacity is tested after the frame is in.
OneTooMany(p) == Len(buf[p]) <= WriteCap
HasRoom(p) == Len(buf[p]) < WriteCap

\* async_send: buffered, or suspended behind the senders already waiting.
Queue(p, f, by) ==
  IF HasRoom(p)
    THEN /\ buf' = [buf EXCEPT ![p] = Append(@, f)]
         /\ UNCHANGED parked
    ELSE /\ parked' = [parked EXCEPT ![p] = Append(@, [frame |-> f, by |-> by])]
         /\ UNCHANGED buf

\* What the reader does when its respond has gone through.
AfterRespond(rd) == At(IF rd.at = "rejecting" THEN "closing" ELSE "header", rd.frame)

\* msg_writer receives the next frame; the first suspended sender moves in.
WriterTakes(p) ==
  /\ ~closed[p]
  /\ out[p] = <<>>
  /\ buf[p] # <<>>
  /\ out' = [out EXCEPT ![p] = Chunks(Head(buf[p]))]
  /\ IF parked[p] = <<>>
       THEN /\ buf' = [buf EXCEPT ![p] = Tail(@)]
            /\ UNCHANGED <<parked, reader, call, handler>>
       ELSE LET s == Head(parked[p]) IN
            /\ buf' = [buf EXCEPT ![p] = Append(Tail(@), s.frame)]
            /\ parked' = [parked EXCEPT ![p] = Tail(@)]
            /\ reader' = IF s.by = "reader" THEN [reader EXCEPT ![p] = AfterRespond(@)]
                         ELSE reader
            /\ call' = IF s.by = "call" THEN [call EXCEPT ![s.frame.id] = "sent"]
                       ELSE call
            /\ handler' = IF s.by = "handler"
                            THEN [handler EXCEPT ![s.frame.id] = "done"]
                            ELSE handler
  /\ UNCHANGED <<pipe, closed, answers, notified, posted, applied>>

\* async_write makes progress as the network accepts it.
WriteChunk(p) ==
  /\ ~closed[p]
  /\ out[p] # <<>>
  /\ Len(pipe[p]) < PipeCap
  /\ pipe' = [pipe EXCEPT ![p] = Append(@, Head(out[p]))]
  /\ out' = [out EXCEPT ![p] = Tail(@)]
  /\ UNCHANGED <<buf, parked, reader, closed, call, handler, answers, notified,
                 posted, applied>>

\* close(): the write channel and the socket are closed, a reader waiting for a
\* chunk is thrown out, and the frames and chunks not yet written are lost, be
\* they left in the channel or taken out by a writer whose write fails.  Suspended
\* senders stay suspended: closing a channel wakes its receivers only.  (A sender
\* that a last receive of msg_writer lets in is one that got in before the close.)
Close(p) ==
  /\ closed' = [closed EXCEPT ![p] = TRUE]
  /\ buf' = [buf EXCEPT ![p] = <<>>]
  /\ out' = [out EXCEPT ![p] = <<>>]
  /\ reader' = IF reader[p].at \in {"responding", "rejecting"} THEN reader
               ELSE [reader EXCEPT ![p] = AtBoundary]
  /\ UNCHANGED <<parked, call, handler>>

-----------------------------------------------------------------------------
(* What the application asks of the sessions *)

\* session::call on the client.
Call(r) ==
  /\ ~closed["client"]
  /\ call[r] = "idle" /\ \A q \in 1 .. r - 1 : call[q] # "idle"
  /\ \E size \in Sizes :
       Queue("client", [type |-> "request", id |-> r, size |-> size], "call")
  /\ call' = [call EXCEPT ![r] = IF HasRoom("client") THEN "sent" ELSE "parked"]
  /\ UNCHANGED <<out, pipe, reader, closed, handler, answers, notified, posted,
                 applied>>

\* try_ping on the client.  Bound: one ping or pong is under way at a time.
Pings == {i \in 1 .. Len(buf["client"]) : buf["client"][i].id = Ping}
         \cup {i \in 1 .. Len(buf["server"]) : buf["server"][i].id = Ping}
OnWire(p) == {c.frame.id : c \in ToSet(out[p]) \cup ToSet(pipe[p])}

TryPing ==
  /\ ~closed["client"]
  /\ HasRoom("client")
  /\ Pings = {} /\ Ping \notin OnWire("client") \cup OnWire("server")
  /\ buf' = [buf EXCEPT !["client"] =
               Append(@, [type |-> "ping", id |-> Ping, size |-> "empty"])]
  /\ UNCHANGED <<parked, out, pipe, reader, closed, call, handler, answers,
                 notified, posted, applied>>

\* server::notify, try_notify on this session: dropped when there is no room.
TryNotify ==
  /\ ~closed["server"]
  /\ HasRoom("server")
  /\ notified < MaxNotes
  /\ notified' = notified + 1
  /\ \E size \in Sizes :
       buf' = [buf EXCEPT !["server"] =
                 Append(@, [type |-> "notification", id |-> notified', size |-> size])]
  /\ UNCHANGED <<parked, out, pipe, reader, closed, call, handler, answers,
                 posted, applied>>

\* close() from outside the reader: client::disconnect, close_all_sessions, or
\* msg_writer after a failed async_write.
Disconnect(p) ==
  /\ ~closed[p]
  /\ Close(p)
  /\ UNCHANGED <<pipe, answers, notified, posted, applied>>

-----------------------------------------------------------------------------
(* msg_reader: the header *)

Incoming(p) == pipe[Other(p)]

\* The next chunk, when p's reader is waiting for one at "a".
Reads(p, a) ==
  /\ ~closed[p]
  /\ reader[p].at = a
  /\ Incoming(p) # <<>>
  /\ pipe' = [pipe EXCEPT ![Other(p)] = Tail(@)]

NextFrame(p) == Head(Incoming(p)).frame
HeaderOf(p, type) ==
  Head(Incoming(p)).part = "header" /\ NextFrame(p).type = type

\* ping: answered with try_send, so dropped on a full channel.  A pong is only
\* read: nothing is sent back.
ReadPing(p) ==
  /\ Reads(p, "header")
  /\ HeaderOf(p, "ping")
  /\ buf' = IF HasRoom(p)
              THEN [buf EXCEPT ![p] =
                      Append(@, [type |-> "pong", id |-> Ping, size |-> "empty"])]
              ELSE buf
  /\ UNCHANGED <<parked, out, reader, closed, call, handler, answers, notified,
                 posted, applied>>

ReadPong(p) ==
  /\ Reads(p, "header")
  /\ HeaderOf(p, "pong")
  /\ UNCHANGED <<buf, parked, out, reader, closed, call, handler, answers,
                 notified, posted, applied>>

\* respond(error) from the reader itself, which is suspended ("wait") while the
\* channel is full and continues at "next".
RespondError(f, wait, next) ==
  /\ Queue("server", [type |-> "error", id |-> f.id, size |-> "empty"], "reader")
  /\ answers' = [answers EXCEPT ![f.id] = @ + 1]
  /\ reader' = [reader EXCEPT !["server"] =
                  At(IF HasRoom("server") THEN next ELSE wait, f)]

\* dispatch_request: too large is answered with an error and the session is
\* closed; above the request rate, the body is drained; otherwise it is read.
RejectOversized ==
  /\ Reads("server", "header")
  /\ HeaderOf("server", "request")
  /\ NextFrame("server").size = "over"
  /\ RespondError(NextFrame("server"), "rejecting", "closing")
  /\ UNCHANGED <<out, closed, call, handler, notified, posted, applied>>

CloseRejected ==
  /\ ~closed["server"]
  /\ reader["server"].at = "closing"
  /\ Close("server")
  /\ UNCHANGED <<pipe, answers, notified, posted, applied>>

\* Mutant: the body of a rate-limited request is not drained.
AnswerWithoutDraining(f) == RespondError(f, "responding", "header")
RateLimited(f) ==
  /\ reader' = [reader EXCEPT !["server"] = At("drain", f)]
  /\ UNCHANGED <<buf, parked, answers>>

ReadRequest ==
  LET f == NextFrame("server") IN
  /\ Reads("server", "header")
  /\ HeaderOf("server", "request")
  /\ f.size # "over"
  /\ \/ RateLimited(f)
     \/ /\ reader' = [reader EXCEPT !["server"] = At("body", f)]
        /\ UNCHANGED <<buf, parked, answers>>
  /\ UNCHANGED <<out, closed, call, handler, notified, posted, applied>>

\* handle_response, handle_notification and handle_error on the client.
ReadAnswerOrNotification ==
  LET f == NextFrame("client") IN
  /\ Reads("client", "header")
  /\ HeaderOf("client", f.type) /\ f.type \in {"response", "error", "notification"}
  /\ IF f.size = "over"
       THEN Close("client")
       ELSE /\ reader' = [reader EXCEPT !["client"] = At("body", f)]
            /\ UNCHANGED <<buf, parked, out, closed, call, handler>>
  /\ UNCHANGED <<answers, notified, posted, applied>>

-----------------------------------------------------------------------------
(* msg_reader: the body *)

\* deadline_read of exactly the announced size; nothing to wait for when empty.
ReadsBody(p, a) ==
  /\ ~closed[p]
  /\ reader[p].at = a
  /\ IF reader[p].frame.size = "empty"
       THEN UNCHANGED pipe
       ELSE /\ Incoming(p) # <<>>
            /\ pipe' = [pipe EXCEPT ![Other(p)] = Tail(@)]

\* The request is handed to a coroutine on the io_context.
SpawnHandler ==
  LET f == reader["server"].frame IN
  /\ ReadsBody("server", "body")
  /\ handler' = [handler EXCEPT ![f.id] = "running"]
  /\ reader' = [reader EXCEPT !["server"] = AtBoundary]
  /\ UNCHANGED <<buf, parked, out, closed, call, answers, notified, posted,
                 applied>>

\* Drained: respond(error), on which the reader itself may be suspended.
AnswerDrained ==
  LET f == reader["server"].frame IN
  /\ ReadsBody("server", "drain")
  /\ RespondError(f, "responding", "header")
  /\ UNCHANGED <<out, closed, call, handler, notified, posted, applied>>

\* complete_operation (it never suspends the reader, see SessionCalls).
DeliverAnswer ==
  LET f == reader["client"].frame IN
  /\ f.type \in {"response", "error"}
  /\ ReadsBody("client", "body")
  /\ call' = [call EXCEPT ![f.id] = "answered"]
  /\ reader' = [reader EXCEPT !["client"] = AtBoundary]
  /\ UNCHANGED <<buf, parked, out, closed, handler, answers, notified, posted,
                 applied>>

\* The notification is posted to notification_strand_ ...
\* Mutant: posted to the pool, where handlers overtake one another.
PostAnywhere(n) == posted' = <<n>> \o posted
PostToStrand(n) == posted' = Append(posted, n)

PostNotification ==
  LET f == reader["client"].frame IN
  /\ f.type = "notification"
  /\ ReadsBody("client", "body")
  /\ PostToStrand(f.id)
  /\ reader' = [reader EXCEPT !["client"] = AtBoundary]
  /\ UNCHANGED <<buf, parked, out, closed, call, handler, answers, notified,
                 applied>>

\* ... which applies them one at a time, also after the session is closed.
ApplyNotification ==
  /\ posted # <<>>
  /\ applied' = Append(applied, Head(posted))
  /\ posted' = Tail(posted)
  /\ UNCHANGED <<buf, parked, out, pipe, reader, closed, call, handler, answers,
                 notified>>

\* deadline_read throws: idle_timeout or message_read_timeout before the chunk
\* arrives, end of file or reset.  (A wrong magic number or an unknown type ends
\* the same way; by FramingSync the other end never causes it.)
ReadFails(p) ==
  /\ ~closed[p]
  /\ reader[p].at \in {"header", "body", "drain"}
  /\ Close(p)
  /\ UNCHANGED <<pipe, answers, notified, posted, applied>>

-----------------------------------------------------------------------------
(* The request handlers of the server *)

\* respond on an open session.
\* Mutant: the error is sent after the response was already queued.
AnswerAgain(r, type, size) ==
  /\ Queue("server", [type |-> type, id |-> r, size |-> size], "handler")
  /\ handler' = [handler EXCEPT ![r] =
                   IF type = "response" THEN "caught"
                   ELSE IF HasRoom("server") THEN "done" ELSE "parked"]
  /\ answers' = [answers EXCEPT ![r] = @ + 1]
Answer(r, type, size) ==
  /\ Queue("server", [type |-> type, id |-> r, size |-> size], "handler")
  /\ handler' = [handler EXCEPT ![r] =
                   IF HasRoom("server") THEN "done" ELSE "parked"]
  /\ answers' = [answers EXCEPT ![r] = @ + 1]

\* The handler ends "state" without having sent anything.
Unanswered(r, state) ==
  /\ handler' = [handler EXCEPT ![r] = state]
  /\ UNCHANGED <<buf, parked, answers>>

\* The registered function returns and its result is the response.  On a closed
\* session respond throws, inside the same try block.
HandlerReturns(r) ==
  /\ handler[r] = "running"
  /\ \/ ~closed["server"] /\ \E size \in Sizes : Answer(r, "response", size)
     \/ closed["server"] /\ Unanswered(r, "caught")
  /\ UNCHANGED <<out, pipe, reader, closed, call, notified, posted, applied>>

\* The function, or the dispatcher before it, throws.
HandlerThrows(r) ==
  /\ handler[r] = "running"
  /\ Unanswered(r, "caught")
  /\ UNCHANGED <<out, pipe, reader, closed, call, notified, posted, applied>>

\* send_error: respond(error), whose own exception is ignored.
\* Mutant: an exception is logged and nothing is sent.
ErrorSwallowed(r) ==
  /\ handler[r] = "caught"
  /\ Unanswered(r, "done")
  /\ UNCHANGED <<out, pipe, reader, closed, call, notified, posted, applied>>
SendError(r) ==
  /\ handler[r] = "caught"
  /\ \/ ~closed["server"] /\ Answer(r, "error", "empty")
     \/ closed["server"] /\ Unanswered(r, "done")
  /\ UNCHANGED <<out, pipe, reader, closed, call, notified, posted, applied>>

-----------------------------------------------------------------------------
WriterNext(p) == WriterTakes(p) \/ WriteChunk(p)

ServerReads ==
  RejectOversized \/ CloseRejected \/ ReadRequest \/ SpawnHandler \/ AnswerDrained
HandlerNext(r) == HandlerReturns(r) \/ HandlerThrows(r) \/ SendError(r)
ClientReads == ReadAnswerOrNotification \/ DeliverAnswer \/ PostNotification

Next ==
  \/ \E p \in Peers :
       \/ WriterNext(p) \/ ReadPing(p) \/ ReadPong(p)
       \/ ReadFails(p) \/ Disconnect(p)
  \/ ServerReads \/ ClientReads \/ ApplyNotification
  \/ \E r \in Requests : Call(r) \/ HandlerNext(r)
  \/ TryPing \/ TryNotify

Spec == Init /\ [][Next]_vars

\* Readers, writers, strands and request handlers that can proceed do, and the
\* network delivers.  Nothing is assumed of the application.
Fairness ==
  /\ \A p \in Peers : WF_vars(WriterNext(p)) /\ WF_vars(ReadPing(p) \/ ReadPong(p))
  /\ WF_vars(ServerReads) /\ WF_vars(ClientReads) /\ WF_vars(ApplyNotification)
  /\ \A r \in Requests : WF_vars(HandlerNext(r))

FairSpec == Spec /\ Fairness

-----------------------------------------------------------------------------
(* Properties *)

\* Every variable stays within its type; channels and network within capacity.
Sender == [frame : Frame, by : {"call", "handler", "reader"}]
Chunk == [part : {"header", "body"}, frame : Frame]

TypeOK ==
  /\ buf \in [Peers -> Seq(Frame)] /\ parked \in [Peers -> Seq(Sender)]
  /\ out \in [Peers -> Seq(Chunk)] /\ pipe \in [Peers -> Seq(Chunk)]
  /\ \A p \in Peers :
       Len(buf[p]) <= WriteCap /\ Len(out[p]) <= 2 /\ Len(pipe[p]) <= PipeCap
  /\ reader \in [Peers -> [at : Readers, frame : Frame \cup {NoFrame}]]
  /\ closed \in [Peers -> BOOLEAN]
  /\ call \in [Requests -> {"idle", "parked", "sent", "answered"}]
  /\ handler \in [Requests -> {"none", "running", "caught", "parked", "done"}]
  /\ answers \in [Requests -> Nat]
  /\ notified \in 0 .. MaxNotes /\ posted \in Seq(Notes) /\ applied \in Seq(Notes)

\* The stream never loses its framing: where a reader expects a header there
\* is one, and where it expects the body of a frame there is the body of that
\* frame, on every path through the handlers (drained, rejected, empty bodies).
FramingSync ==
  \A p \in Peers :
    ~closed[p] /\ Incoming(p) # <<>> =>
      LET next == Head(Incoming(p)) IN
      /\ reader[p].at = "header" => next.part = "header"
      /\ reader[p].at \in {"body", "drain"} /\ reader[p].frame.size # "empty" =>
           next = Body(reader[p].frame)

\* The server answers a request at most once, whichever of rate limit, handler,
\* exception and full write channel it meets: what SessionCalls takes of a peer.
OneAnswer == \A r \in Requests : answers[r] <= 1

\* The client applies the server's notifications in the order they were queued,
\* without gaps ("inbound updates apply in wire order").
NotificationOrder == \A i \in 1 .. Len(applied) : applied[i] = i

\* The two ends never wait for each other in a circle: with both write channels
\* and the network full, and the server's reader itself suspended on its write
\* channel, a request is answered unless the session closes, be it queued or, its
\* caller suspended in queue_write with no timeout running yet, still to be.
AnsweredOrClosed ==
  \A r \in Requests :
    call[r] \in {"parked", "sent"} ~>
      call[r] = "answered" \/ closed["client"] \/ closed["server"]

=============================================================================
