---------------------------- MODULE AsyncLogger ----------------------------
(***************************************************************************)
(* grlx::rpc::async_logger: producers post entries to the logger's strand, *)
(* a worker coroutine flushes them each time its timer expires, and stop() *)
(* ends it.  Handlers on the strand run one at a time in posting order;    *)
(* log() and stop() run on any thread.                                     *)
(*                                                                         *)
(* A steady_timer's expires_after and cancel complete a pending async_wait *)
(* with operation_aborted.  The worker takes that for the shutdown signal, *)
(* although log() itself calls expires_after.                              *)
(***************************************************************************)
EXTENDS Naturals, Sequences, FiniteSets

CONSTANTS Entries, NoEntry

ASSUME LoggerAssumption == NoEntry \notin Entries

VARIABLES
  entry,          \* where each log() call is
  is_stopped_,
  pending_logs_,
  flushed,        \* what spdlog has been given, in order
  worker,         \* the log_worker coroutine
  strand          \* handlers posted to strand_, in order

vars == <<entry, is_stopped_, pending_logs_, flushed, worker, strand>>

-----------------------------------------------------------------------------
EntryStates == {"idle", "posted", "kept", "dropped"}
WorkerStates == {"unstarted", "runnable", "waiting", "exited"}

Job == [kind : {"push", "flush", "start", "expired", "aborted"},
        entry : Entries \cup {NoEntry}]
Plain(k) == [kind |-> k, entry |-> NoEntry]

JobsOf(q) == {q[i] : i \in 1 .. Len(q)}
Logged(q) == {q[i] : i \in 1 .. Len(q)}

\* Mutant: the entries are written and not popped.
WriteWithoutPop ==
  /\ flushed' = flushed \o pending_logs_
  /\ UNCHANGED pending_logs_
\* flush_pending_logs writes the queue out, oldest first.
FlushAll ==
  /\ flushed' = flushed \o pending_logs_
  /\ pending_logs_' = <<>>

\* The worker's wait, if one is pending, completes with operation_aborted.
AbortWait(q) ==
  IF worker = "waiting"
    THEN /\ worker' = "runnable"
         /\ strand' = Append(q, Plain("aborted"))
    ELSE /\ strand' = q
         /\ UNCHANGED worker

Running(k) == strand # <<>> /\ Head(strand).kind = k

Init ==
  /\ entry = [e \in Entries |-> "idle"]
  /\ is_stopped_ = FALSE
  /\ pending_logs_ = <<>>
  /\ flushed = <<>>
  /\ worker = "unstarted"
  /\ strand = <<>>

-----------------------------------------------------------------------------
(* The public interface *)

Start ==
  /\ worker = "unstarted"
  /\ worker' = "runnable"
  /\ strand' = Append(strand, Plain("start"))
  /\ UNCHANGED <<entry, is_stopped_, pending_logs_, flushed>>

\* log(), first half: below the threshold or stopped, the entry is skipped.
Log(e) ==
  /\ entry[e] = "idle"
  /\ IF is_stopped_
       THEN /\ entry' = [entry EXCEPT ![e] = "dropped"]
            /\ UNCHANGED strand
       ELSE /\ entry' = [entry EXCEPT ![e] = "posted"]
            /\ strand' = Append(strand, [kind |-> "push", entry |-> e])
  /\ UNCHANGED <<is_stopped_, pending_logs_, flushed, worker>>

\* flush() posts a flush.  Bound: one waits on the strand at a time.
Flush ==
  /\ \A j \in JobsOf(strand) : j.kind # "flush"
  /\ strand' = Append(strand, Plain("flush"))
  /\ UNCHANGED <<entry, is_stopped_, pending_logs_, flushed, worker>>

\* stop(): the flag, then flush_timer_.cancel(), on any thread: it aborts the
\* worker's wait, or comes just before the worker starts it and aborts nothing.
Stop ==
  /\ ~is_stopped_
  /\ is_stopped_' = TRUE
  /\ AbortWait(strand) \/ UNCHANGED <<worker, strand>>
  /\ UNCHANGED <<entry, pending_logs_, flushed>>

TimerExpires ==
  /\ worker = "waiting"
  /\ worker' = "runnable"
  /\ strand' = Append(strand, Plain("expired"))
  /\ UNCHANGED <<entry, is_stopped_, pending_logs_, flushed>>

-----------------------------------------------------------------------------
(* Handlers on the strand *)

\* log(), second half: the first entry restarts the timer.
\* Mutants: entries are pushed on top, or after the entry was moved from.
PushInFront(e) == pending_logs_' = <<e>> \o pending_logs_
PushMovedFrom(e) == pending_logs_' = Append(pending_logs_, NoEntry)
Push(e) == pending_logs_' = Append(pending_logs_, e)

RunPush ==
  LET e == Head(strand).entry IN
  /\ Running("push")
  /\ IF is_stopped_
       THEN /\ entry' = [entry EXCEPT ![e] = "dropped"]
            /\ strand' = Tail(strand)
            /\ UNCHANGED <<pending_logs_, worker>>
       ELSE /\ entry' = [entry EXCEPT ![e] = "kept"]
            /\ Push(e)
            /\ IF pending_logs_ = <<>>
                 THEN AbortWait(Tail(strand))
                 ELSE strand' = Tail(strand) /\ UNCHANGED worker
  /\ UNCHANGED <<is_stopped_, flushed>>

RunFlush ==
  /\ Running("flush")
  /\ FlushAll
  /\ strand' = Tail(strand)
  /\ UNCHANGED <<entry, is_stopped_, worker>>

\* The loop of log_worker: wait again, or leave with a last flush.
RunStart ==
  /\ Running("start")
  /\ strand' = Tail(strand)
  /\ IF is_stopped_
       THEN worker' = "exited" /\ FlushAll
       ELSE worker' = "waiting" /\ UNCHANGED <<pending_logs_, flushed>>
  /\ UNCHANGED <<entry, is_stopped_>>

\* The timer expired: flush, and wait for another interval unless stopped.
\* Mutant: the loop does not look at is_stopped_.
LoopForever ==
  /\ Running("expired")
  /\ strand' = Tail(strand)
  /\ FlushAll
  /\ worker' = "waiting"
  /\ UNCHANGED <<entry, is_stopped_>>
RunExpired ==
  /\ Running("expired")
  /\ strand' = Tail(strand)
  /\ FlushAll
  /\ worker' = IF is_stopped_ THEN "exited" ELSE "waiting"
  /\ UNCHANGED <<entry, is_stopped_>>

\* operation_aborted breaks the loop.
\* Mutant: the worker leaves without the last flush.
LeaveUnflushed ==
  /\ Running("aborted")
  /\ strand' = Tail(strand)
  /\ worker' = "exited"
  /\ UNCHANGED <<entry, is_stopped_, pending_logs_, flushed>>
RunAborted ==
  /\ Running("aborted")
  /\ strand' = Tail(strand)
  /\ FlushAll
  /\ worker' = "exited"
  /\ UNCHANGED <<entry, is_stopped_>>

StrandNext == RunPush \/ RunFlush \/ RunStart \/ RunExpired \/ RunAborted

-----------------------------------------------------------------------------
Next ==
  \/ Start \/ Flush \/ Stop \/ TimerExpires \/ StrandNext
  \/ \E e \in Entries : Log(e)

Spec == Init /\ [][Next]_vars

\* The strand runs what is posted to it, the session's constructor starts the
\* worker, and timers expire.
Fairness == WF_vars(StrandNext) /\ WF_vars(Start) /\ WF_vars(TimerExpires)

FairSpec == Spec /\ Fairness

-----------------------------------------------------------------------------
(* Properties *)

\* Every variable stays within its type.
TypeOK ==
  /\ entry \in [Entries -> EntryStates]
  /\ is_stopped_ \in BOOLEAN
  /\ pending_logs_ \in Seq(Entries)
  /\ flushed \in Seq(Entries)
  /\ worker \in WorkerStates
  /\ strand \in Seq(Job)

\* An entry the strand has taken is in the output or in the queue exactly once,
\* whichever of timer, flush() and the leaving worker writes it; one that met
\* stop() is in neither.
KeptOnce ==
  LET all == flushed \o pending_logs_ IN
  /\ \A i, j \in 1 .. Len(all) : all[i] = all[j] => i = j
  /\ \A e \in Entries : entry[e] = "kept" <=> e \in Logged(all)

\* The output follows the order in which the strand took the entries, across
\* timer flushes, explicit flushes and the last flush of the worker.
InPushOrder ==
  [][LET before == flushed \o pending_logs_
         after  == flushed' \o pending_logs_'
     IN  SubSeq(after, 1, Len(before)) = before]_vars

\* An entry queued while the worker is alive reaches the output, also when the
\* worker is being stopped.
LiveWorkerDelivers ==
  \A e \in Entries :
    e \in Logged(pending_logs_) /\ worker # "exited" ~> e \in Logged(flushed)

\* stop() ends the worker.
StopEndsWorker == is_stopped_ ~> worker = "exited"

\* "If there are pending logs, they'll be flushed on next timeout" (log_worker).
PendingGetsFlushed ==
  \A e \in Entries : e \in Logged(pending_logs_) ~> e \in Logged(flushed)

=============================================================================
