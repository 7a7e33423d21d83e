------------------------- MODULE AsyncLoggerProofs --------------------------
(***************************************************************************)
(* The safety properties of AsyncLogger, for any set of entries.  What the *)
(* proof adds to the types is that an entry waits on the strand once, in   *)
(* one push handler, and only between the two halves of log().             *)
(***************************************************************************)
EXTENDS AsyncLogger, TLAPS

USE LoggerAssumption DEF EntryStates, WorkerStates

-----------------------------------------------------------------------------
(* The inductive invariant *)

IsPush(j) == j.kind = "push"

\* An entry is posted exactly once, and pushed by the handler it was posted with.
PostedOnce(q, en) ==
  /\ \A i \in 1 .. Len(q) :
       IsPush(q[i]) => q[i].entry \in Entries /\ en[q[i].entry] = "posted"
  /\ \A i, j \in 1 .. Len(q) :
       IsPush(q[i]) /\ IsPush(q[j]) /\ q[i].entry = q[j].entry => i = j

IInv == TypeOK /\ PostedOnce(strand, entry) /\ KeptOnce

\* What the strand has taken so far, written or not.
Taken == flushed \o pending_logs_

-----------------------------------------------------------------------------
(* Sequences *)

LEMMA AppendFacts ==
  ASSUME NEW S, NEW s \in Seq(S), NEW x \in S
  PROVE  /\ Append(s, x) \in Seq(S)
         /\ Len(Append(s, x)) = Len(s) + 1
         /\ \A i \in 1 .. Len(s) : Append(s, x)[i] = s[i]
         /\ Append(s, x)[Len(s) + 1] = x
  OBVIOUS

LEMMA TailFacts ==
  ASSUME NEW S, NEW s \in Seq(S), s # <<>>
  PROVE  /\ Len(s) \in Nat \ {0}
         /\ Head(s) = s[1]
         /\ s[1] \in S
         /\ Tail(s) \in Seq(S)
         /\ Len(Tail(s)) = Len(s) - 1
         /\ \A i \in 1 .. Len(s) - 1 : Tail(s)[i] = s[i + 1]
  OBVIOUS

\* Pushing to the queue appends to what has been taken; flushing moves it.
LEMMA TakenFacts ==
  ASSUME NEW S, NEW f \in Seq(S), NEW p \in Seq(S), NEW x \in S
  PROVE  /\ f \o p \in Seq(S)
         /\ f \o Append(p, x) = Append(f \o p, x)
         /\ (f \o p) \o <<>> = f \o p
<1>1. f \o p \in Seq(S) /\ Append(p, x) \in Seq(S) /\ <<>> \in Seq(S)
  OBVIOUS
<1>2. f \o Append(p, x) = Append(f \o p, x)
  OBVIOUS
<1>3. (f \o p) \o <<>> = f \o p
  <2> DEFINE g == f \o p
  <2>1. g \in Seq(S)
    BY <1>1
  <2> HIDE DEF g
  <2>2. g \o <<>> = g
    BY <2>1
  <2> QED
    BY <2>2 DEF g
<1> QED
  BY <1>1, <1>2, <1>3

\* A sequence is the start of itself, and of itself with one element appended.
LEMMA PrefixFacts ==
  ASSUME NEW S, NEW s \in Seq(S), NEW x \in S
  PROVE  /\ SubSeq(s, 1, Len(s)) = s
         /\ SubSeq(Append(s, x), 1, Len(s)) = s
  OBVIOUS

-----------------------------------------------------------------------------
(* The strand *)

\* Posting a handler that is not a push.
LEMMA PostOther ==
  ASSUME NEW q \in Seq(Job), NEW en, PostedOnce(q, en),
         NEW k \in {"flush", "start", "expired", "aborted"}
  PROVE  /\ Append(q, Plain(k)) \in Seq(Job)
         /\ PostedOnce(Append(q, Plain(k)), en)
<1>1. Plain(k) \in Job /\ ~IsPush(Plain(k))
  BY DEF Plain, Job, IsPush
<1> QED
  BY <1>1, AppendFacts DEF PostedOnce

\* Posting the push of an entry that is not on the strand.
LEMMA PostPush ==
  ASSUME NEW q \in Seq(Job), NEW en \in [Entries -> EntryStates], PostedOnce(q, en),
         NEW e \in Entries, en[e] # "posted"
  PROVE  LET r == Append(q, [kind |-> "push", entry |-> e]) IN
           r \in Seq(Job) /\ PostedOnce(r, [en EXCEPT ![e] = "posted"])
<1> DEFINE j == [kind |-> "push", entry |-> e]
           r == Append(q, j)
<1>1. j \in Job /\ j.entry = e /\ IsPush(j)
  BY DEF Job, IsPush
<1> HIDE DEF j
<1>2. /\ r \in Seq(Job) /\ Len(r) = Len(q) + 1 /\ Len(q) \in Nat
      /\ \A i \in 1 .. Len(q) : r[i] = q[i]
      /\ r[Len(q) + 1] = j
  BY <1>1, AppendFacts
<1>3. \A i \in 1 .. Len(q) : IsPush(q[i]) => q[i].entry # e
  BY DEF PostedOnce
<1> HIDE DEF r
<1>4. PostedOnce(r, [en EXCEPT ![e] = "posted"])
  BY <1>1, <1>2, <1>3 DEF PostedOnce
<1> QED
  BY <1>2, <1>4 DEF r, j

\* Running the first handler; a push settles the entry it was posted with.
LEMMA RunFirst ==
  ASSUME NEW q \in Seq(Job), NEW en \in [Entries -> EntryStates], PostedOnce(q, en),
         q # <<>>
  PROVE  /\ Tail(q) \in Seq(Job)
         /\ PostedOnce(Tail(q), en)
         /\ Head(q).kind = "push" =>
              /\ Head(q).entry \in Entries
              /\ en[Head(q).entry] = "posted"
              /\ \A v : PostedOnce(Tail(q), [en EXCEPT ![Head(q).entry] = v])
<1> DEFINE t == Tail(q)
<1>1. /\ t \in Seq(Job) /\ Len(q) \in Nat \ {0} /\ Len(t) = Len(q) - 1
      /\ Head(q) = q[1]
      /\ \A i \in 1 .. Len(q) - 1 : t[i] = q[i + 1]
  BY TailFacts
<1> HIDE DEF t
<1>2. PostedOnce(t, en)
  <2>1. \A i \in 1 .. Len(t) : i + 1 \in 1 .. Len(q) /\ t[i] = q[i + 1]
    BY <1>1
  <2>2. ASSUME NEW i \in 1 .. Len(t), NEW j \in 1 .. Len(t),
               IsPush(t[i]), IsPush(t[j]), t[i].entry = t[j].entry
        PROVE  i = j
    <3>1. i + 1 = j + 1
      BY <2>1, <2>2 DEF PostedOnce
    <3> QED
      BY <1>1, <3>1
  <2>3. \A i \in 1 .. Len(t) :
          IsPush(t[i]) => t[i].entry \in Entries /\ en[t[i].entry] = "posted"
    BY <2>1 DEF PostedOnce
  <2> QED
    BY <2>2, <2>3 DEF PostedOnce
<1>3. ASSUME Head(q).kind = "push"
      PROVE  /\ Head(q).entry \in Entries
             /\ en[Head(q).entry] = "posted"
             /\ \A i \in 1 .. Len(t) : IsPush(t[i]) => t[i].entry # Head(q).entry
  <2>1. \A i \in 1 .. Len(t) : i + 1 \in 1 .. Len(q) /\ i + 1 # 1 /\ t[i] = q[i + 1]
    BY <1>1
  <2>2. 1 \in 1 .. Len(q) /\ IsPush(q[1])
    BY <1>1, <1>3 DEF IsPush
  <2> QED
    BY <1>1, <2>1, <2>2 DEF PostedOnce
<1>4. ASSUME Head(q).kind = "push", NEW v
      PROVE  PostedOnce(t, [en EXCEPT ![Head(q).entry] = v])
  BY <1>2, <1>3, <1>4 DEF PostedOnce
<1> QED
  BY <1>1, <1>2, <1>3, <1>4 DEF t

-----------------------------------------------------------------------------
(* The queue and the output *)

\* A flush changes nothing of what has been taken.
LEMMA FlushKeeps ==
  ASSUME TypeOK, FlushAll
  PROVE  Taken' = Taken /\ flushed' \in Seq(Entries) /\ pending_logs_' \in Seq(Entries)
<1>1. flushed \in Seq(Entries) /\ pending_logs_ \in Seq(Entries)
  BY DEF TypeOK
<1>2. flushed \o pending_logs_ \in Seq(Entries)
  BY <1>1
<1>3. (flushed \o pending_logs_) \o <<>> = flushed \o pending_logs_
  <2> DEFINE g == flushed \o pending_logs_
  <2> HIDE DEF g
  <2>1. g \in Seq(Entries) => g \o <<>> = g
    OBVIOUS
  <2> QED
    BY <1>2, <2>1 DEF g
<1> QED
  BY <1>2, <1>3 DEF Taken, FlushAll

\* Entries that are neither kept before nor after, and the same Taken.
LEMMA KeptOnceKept ==
  ASSUME KeptOnce, Taken' = Taken,
         \A e \in Entries : entry'[e] = "kept" <=> entry[e] = "kept"
  PROVE  KeptOnce'
  BY DEF KeptOnce, Taken, Logged

\* The strand takes an entry that it had not taken before.
LEMMA KeptOncePush ==
  ASSUME TypeOK, KeptOnce, NEW e \in Entries, entry[e] = "posted",
         entry' = [entry EXCEPT ![e] = "kept"], Push(e), UNCHANGED flushed
  PROVE  KeptOnce' /\ Taken' = Append(Taken, e) /\ pending_logs_' \in Seq(Entries)
<1>1. /\ flushed \in Seq(Entries) /\ pending_logs_ \in Seq(Entries)
      /\ entry \in [Entries -> EntryStates]
  BY DEF TypeOK
<1>2. Taken \in Seq(Entries) /\ Taken' = Append(Taken, e)
  BY <1>1, TakenFacts DEF Taken, Push
<1>3. /\ Len(Taken') = Len(Taken) + 1 /\ Len(Taken) \in Nat
      /\ \A i \in 1 .. Len(Taken) : Taken'[i] = Taken[i]
      /\ Taken'[Len(Taken) + 1] = e
  BY <1>2, AppendFacts
<1>4. \A i \in 1 .. Len(Taken) : Taken[i] # e
  BY DEF KeptOnce, Taken, Logged
<1>5. \A i, j \in 1 .. Len(Taken') : Taken'[i] = Taken'[j] => i = j
  <2>1. \A i, j \in 1 .. Len(Taken) : Taken[i] = Taken[j] => i = j
    BY DEF KeptOnce, Taken
  <2> QED
    BY <1>3, <1>4, <2>1
<1>6. ASSUME NEW d \in Entries
      PROVE  entry'[d] = "kept" <=> \E i \in 1 .. Len(Taken') : d = Taken'[i]
  <2>1. entry[d] = "kept" <=> \E i \in 1 .. Len(Taken) : d = Taken[i]
    BY DEF KeptOnce, Taken, Logged
  <2>2. CASE d = e
    <3>1. Len(Taken) + 1 \in 1 .. Len(Taken')
      BY <1>3
    <3> QED
      BY <1>1, <1>3, <2>2, <3>1
  <2>3. CASE d # e
    <3>1. entry'[d] = entry[d]
      BY <1>1, <2>3
    <3>2. \A i \in 1 .. Len(Taken') : i \in 1 .. Len(Taken) \/ Taken'[i] = e
      BY <1>3
    <3>3. \A i \in 1 .. Len(Taken) : i \in 1 .. Len(Taken')
      BY <1>3
    <3> QED
      BY <1>3, <2>1, <2>3, <3>1, <3>2, <3>3
  <2> QED
    BY <2>2, <2>3
<1>7. KeptOnce'
  BY <1>5, <1>6 DEF KeptOnce, Logged, Taken
<1> QED
  BY <1>1, <1>2, <1>7 DEF Push

-----------------------------------------------------------------------------
(* Every step preserves the invariant, and appends to what has been taken *)

\* What a step may do to the entries taken so far.
Grows == Taken' = Taken \/ \E e \in Entries : Taken' = Append(Taken, e)

\* Steps that run off the strand: none of them takes an entry.
LEMMA OffStrandStep ==
  ASSUME IInv,
         Start \/ Flush \/ Stop \/ TimerExpires \/ \E e \in Entries : Log(e)
  PROVE  IInv' /\ Grows
<1>1. /\ strand \in Seq(Job) /\ entry \in [Entries -> EntryStates]
      /\ is_stopped_ \in BOOLEAN /\ worker \in WorkerStates
      /\ PostedOnce(strand, entry) /\ KeptOnce
  BY DEF IInv, TypeOK
<1>2. UNCHANGED <<pending_logs_, flushed>>
  BY DEF Start, Flush, Stop, TimerExpires, Log
<1>3. is_stopped_' \in BOOLEAN /\ worker' \in WorkerStates
  BY <1>1 DEF Start, Flush, Stop, TimerExpires, Log, AbortWait
<1>4. /\ strand' \in Seq(Job) /\ PostedOnce(strand', entry')
      /\ entry' \in [Entries -> EntryStates]
      /\ \A e \in Entries : entry'[e] = "kept" <=> entry[e] = "kept"
  <2>1. CASE Start \/ Flush \/ TimerExpires
    <3>1. UNCHANGED entry
      BY <2>1 DEF Start, Flush, TimerExpires
    <3>2. \E k \in {"start", "flush", "expired"} : strand' = Append(strand, Plain(k))
      BY <2>1 DEF Start, Flush, TimerExpires
    <3> QED
      BY <1>1, <3>1, <3>2, PostOther
  <2>2. CASE Stop
    <3>1. UNCHANGED entry
      BY <2>2 DEF Stop
    <3>2. strand' = strand \/ strand' = Append(strand, Plain("aborted"))
      BY <2>2 DEF Stop, AbortWait
    <3> QED
      BY <1>1, <3>1, <3>2, PostOther
  <2>3. ASSUME NEW e \in Entries, Log(e)
        PROVE  /\ strand' \in Seq(Job) /\ PostedOnce(strand', entry')
               /\ entry' \in [Entries -> EntryStates]
               /\ \A d \in Entries : entry'[d] = "kept" <=> entry[d] = "kept"
    <3>1. CASE is_stopped_
      <4>1. entry[e] = "idle" /\ entry' = [entry EXCEPT ![e] = "dropped"] /\ strand' = strand
        BY <2>3, <3>1 DEF Log
      <4>2. PostedOnce(strand, entry')
        BY <1>1, <4>1 DEF PostedOnce
      <4> QED
        BY <1>1, <4>1, <4>2
    <3>2. CASE ~is_stopped_
      <4>1. /\ entry[e] = "idle" /\ entry' = [entry EXCEPT ![e] = "posted"]
            /\ strand' = Append(strand, [kind |-> "push", entry |-> e])
        BY <2>3, <3>2 DEF Log
      <4>2. strand' \in Seq(Job) /\ PostedOnce(strand', entry')
        BY <1>1, <4>1, PostPush
      <4> QED
        BY <1>1, <4>1, <4>2
    <3> QED
      BY <3>1, <3>2
  <2> QED
    BY <2>1, <2>2, <2>3
<1>5. Taken' = Taken
  BY <1>2 DEF Taken
<1>6. KeptOnce'
  BY <1>1, <1>4, <1>5, KeptOnceKept
<1>7. TypeOK'
  BY <1>2, <1>3, <1>4 DEF IInv, TypeOK
<1> QED
  BY <1>4, <1>5, <1>6, <1>7 DEF IInv, Grows

\* log(), second half.
LEMMA RunPushStep ==
  ASSUME IInv, RunPush
  PROVE  IInv' /\ Grows
<1> DEFINE e == Head(strand).entry
           rest == Tail(strand)
<1>1. /\ strand \in Seq(Job) /\ entry \in [Entries -> EntryStates]
      /\ worker \in WorkerStates /\ is_stopped_ \in BOOLEAN
      /\ PostedOnce(strand, entry) /\ KeptOnce /\ TypeOK
  BY DEF IInv, TypeOK
<1>2. strand # <<>> /\ Head(strand).kind = "push" /\ UNCHANGED <<is_stopped_, flushed>>
  BY DEF RunPush, Running
<1>3. /\ rest \in Seq(Job) /\ e \in Entries /\ entry[e] = "posted"
      /\ \A v : PostedOnce(rest, [entry EXCEPT ![e] = v])
  BY <1>1, <1>2, RunFirst
<1>4. CASE is_stopped_
  <2>1. /\ entry' = [entry EXCEPT ![e] = "dropped"] /\ strand' = rest
        /\ UNCHANGED <<pending_logs_, worker>>
    BY <1>4 DEF RunPush
  <2> HIDE DEF e, rest
  <2>2. Taken' = Taken
    BY <1>2, <2>1 DEF Taken
  <2>3. KeptOnce'
    BY <1>1, <1>3, <2>1, <2>2, KeptOnceKept
  <2>4. TypeOK'
    BY <1>1, <1>2, <1>3, <2>1 DEF TypeOK
  <2> QED
    BY <1>3, <2>1, <2>2, <2>3, <2>4 DEF IInv, Grows
<1>5. CASE ~is_stopped_
  <2>1. /\ entry' = [entry EXCEPT ![e] = "kept"] /\ Push(e)
        /\ \/ strand' = rest /\ UNCHANGED worker
           \/ strand' = Append(rest, Plain("aborted")) /\ worker' = "runnable"
    BY <1>5 DEF RunPush, AbortWait
  <2> HIDE DEF e, rest
  <2>2. KeptOnce' /\ Taken' = Append(Taken, e) /\ pending_logs_' \in Seq(Entries)
    BY <1>1, <1>2, <1>3, <2>1, KeptOncePush
  <2>3. strand' \in Seq(Job) /\ PostedOnce(strand', entry') /\ worker' \in WorkerStates
    BY <1>1, <1>3, <2>1, PostOther
  <2>4. TypeOK'
    BY <1>1, <1>2, <1>3, <2>1, <2>2, <2>3 DEF TypeOK
  <2> QED
    BY <1>3, <2>2, <2>3, <2>4 DEF IInv, Grows
<1> QED
  BY <1>4, <1>5

\* The handlers that may flush.
LEMMA FlusherStep ==
  ASSUME IInv, RunFlush \/ RunStart \/ RunExpired \/ RunAborted
  PROVE  IInv' /\ Grows
<1>1. /\ strand \in Seq(Job) /\ entry \in [Entries -> EntryStates]
      /\ worker \in WorkerStates /\ PostedOnce(strand, entry) /\ KeptOnce /\ TypeOK
  BY DEF IInv, TypeOK
<1>2. strand # <<>> /\ strand' = Tail(strand) /\ UNCHANGED <<entry, is_stopped_>>
  BY DEF RunFlush, RunStart, RunExpired, RunAborted, Running
<1>3. worker' \in WorkerStates
  BY <1>1 DEF RunFlush, RunStart, RunExpired, RunAborted
<1>4. FlushAll \/ UNCHANGED <<pending_logs_, flushed>>
  BY DEF RunFlush, RunStart, RunExpired, RunAborted
<1>5. Taken' = Taken /\ flushed' \in Seq(Entries) /\ pending_logs_' \in Seq(Entries)
  <2>1. CASE FlushAll
    BY <1>1, <2>1, FlushKeeps
  <2>2. CASE UNCHANGED <<pending_logs_, flushed>>
    BY <1>1, <2>2 DEF Taken, TypeOK
  <2> QED
    BY <1>4, <2>1, <2>2
<1>6. strand' \in Seq(Job) /\ PostedOnce(strand', entry')
  BY <1>1, <1>2, RunFirst
<1>7. KeptOnce'
  BY <1>1, <1>2, <1>5, KeptOnceKept
<1>8. TypeOK'
  BY <1>1, <1>2, <1>3, <1>5, <1>6 DEF TypeOK
<1> QED
  BY <1>5, <1>6, <1>7, <1>8 DEF IInv, Grows

-----------------------------------------------------------------------------
(* The theorems *)

LEMMA NextStep ==
  ASSUME IInv, [Next]_vars
  PROVE  IInv' /\ Grows
<1>1. CASE UNCHANGED vars
  BY <1>1 DEF vars, IInv, TypeOK, PostedOnce, KeptOnce, Logged, Grows, Taken
<1> QED
  BY <1>1, OffStrandStep, RunPushStep, FlusherStep DEF Next, StrandNext

LEMMA Invariance == Spec => []IInv
<1>1. Init => IInv
  <2> SUFFICES ASSUME Init PROVE IInv
    OBVIOUS
  <2>1. TypeOK /\ PostedOnce(strand, entry)
    <3>1. entry \in [Entries -> EntryStates] /\ worker \in WorkerStates
      BY DEF Init
    <3>2. /\ pending_logs_ \in Seq(Entries) /\ flushed \in Seq(Entries)
          /\ strand \in Seq(Job)
      BY DEF Init
    <3>3. is_stopped_ \in BOOLEAN
      BY DEF Init
    <3>4. PostedOnce(strand, entry)
      BY DEF Init, PostedOnce
    <3> QED
      BY <3>1, <3>2, <3>3, <3>4 DEF TypeOK
  <2>2. 1 .. Len(flushed \o pending_logs_) = {}
    BY DEF Init
  <2>3. KeptOnce
    BY <2>2 DEF Init, KeptOnce, Logged
  <2> QED
    BY <2>1, <2>3 DEF IInv
<1>2. IInv /\ [Next]_vars => IInv'
  BY NextStep
<1> QED
  BY <1>1, <1>2, PTL DEF Spec

\* Types hold in every reachable state.
THEOREM LoggerTypes == Spec => []TypeOK
<1>1. IInv => TypeOK  BY DEF IInv
<1> QED  BY <1>1, Invariance, PTL

\* An entry the strand has taken is in the output or in the queue exactly once.
THEOREM EntriesAreKeptOnce == Spec => []KeptOnce
<1>1. IInv => KeptOnce  BY DEF IInv
<1> QED  BY <1>1, Invariance, PTL

\* The output follows the order in which the strand took the entries.
THEOREM OutputInPushOrder == Spec => InPushOrder
<1> DEFINE Ordered == LET before == flushed \o pending_logs_
                          after  == flushed' \o pending_logs_'
                      IN  SubSeq(after, 1, Len(before)) = before
<1>1. IInv /\ [Next]_vars => [Ordered]_vars
  <2> SUFFICES ASSUME IInv, [Next]_vars PROVE SubSeq(Taken', 1, Len(Taken)) = Taken
    BY DEF Taken
  <2>1. Grows
    BY NextStep
  <2>2. Taken \in Seq(Entries)
    BY DEF IInv, TypeOK, Taken
  <2>3. CASE Taken' = Taken
    BY <2>2, <2>3
  <2>4. ASSUME NEW e \in Entries, Taken' = Append(Taken, e)
        PROVE  SubSeq(Taken', 1, Len(Taken)) = Taken
    BY <2>2, <2>4, PrefixFacts
  <2> QED
    BY <2>1, <2>3, <2>4 DEF Grows
<1> QED
  BY <1>1, Invariance, PTL DEF Spec, InPushOrder

=============================================================================
