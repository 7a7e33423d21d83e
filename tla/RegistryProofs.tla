--------------------------- MODULE RegistryProofs ---------------------------
(***************************************************************************)
(* The safety properties of Registry, for any sets of sessions, addresses  *)
(* and ids.  They rest on the order of the handlers on sessions_strand_:   *)
(* which insertions and removals are ahead of a given handler says what    *)
(* active_sessions_ will be when it runs.                                  *)
(***************************************************************************)
EXTENDS Registry, TLAPS

USE RegistryAssumption DEF sessionVars, notifyVars, States

-----------------------------------------------------------------------------
(* The inductive invariant *)

\* One of the first n handlers of q inserts (erases) session s.
Has(q, n, k, s) == \E i \in 1 .. n : q[i].kind = k /\ q[i].session = s

\* Once the first n handlers of q have run, s is in active_sessions_, or some
\* close_all has closed it.
Covered(q, act, cl, s, n) ==
  \/ s \in cl
  \/ (s \in act \/ Has(q, n, "insert", s)) /\ ~Has(q, n, "erase", s)

\* Insertions and removals name their session; a removal is posted by a session
\* that is gone, and after its insertion.
JobInv ==
  \A i \in 1 .. Len(strand) :
    LET j == strand[i] IN
    /\ j.kind \in {"insert", "erase"} => j.session \in Sessions
    /\ j.kind # "close_all" => j.seen = {}
    /\ j.kind = "erase" => state[j.session] = "gone"
    /\ j.kind = "insert" => ~Has(strand, i - 1, "erase", j.session)

\* A session that is registered has been inserted, or will be, or was closed.
RegisteredInv ==
  \A s \in Registered :
    s \in closed \cup active_sessions_ \/ Has(strand, Len(strand), "insert", s)

\* The removal of a session that is gone is still to come if it is in
\* active_sessions_, or on its way into it.
RemovalInv ==
  \A s \in Sessions :
    state[s] = "gone" /\ (s \in active_sessions_ \/ Has(strand, Len(strand), "insert", s))
      => Has(strand, Len(strand), "erase", s)

\* When a close_all runs it finds the sessions registered when it was posted.
SeenInv ==
  \A i \in 1 .. Len(strand) : \A s \in strand[i].seen :
    Covered(strand, active_sessions_, closed, s, i - 1)

\* So does the one snapshot of the call in progress.
SnapshotInv ==
  \A i \in 1 .. Len(strand) : strand[i].kind = "snapshot" =>
    /\ call.stage = "copying"
    /\ \A s \in call.due : Covered(strand, active_sessions_, closed, s, i - 1)
    /\ \A j \in 1 .. Len(strand) : strand[j].kind = "snapshot" => i = j

\* A session bears the id the call is meant for until the call is over.
TargetInv == \A s \in call.due : call.target \in Targets /\ MeantFor(s, call.target)

\* Memory is not handed out twice: sessions that are alive have different
\* addresses, and one that is not built is nowhere.
AddressInv ==
  /\ \A s \in Sessions : state[s] = "handshaking" => ~Alive(s)
  /\ \A s, d \in Sessions : Alive(s) /\ Alive(d) /\ addr[s] = addr[d] => s = d

IInv ==
  /\ TypeOK /\ JobInv /\ RegisteredInv /\ RemovalInv /\ SeenInv /\ SnapshotInv
  /\ TargetInv /\ AddressInv /\ DeliveredToTarget

-----------------------------------------------------------------------------
(* Handlers on the strand *)

\* Posting a handler puts it behind all others.
LEMMA PostFacts ==
  ASSUME NEW q \in Seq(Job), NEW j \in Job
  PROVE  LET p == Append(q, j) IN
         /\ p \in Seq(Job) /\ Len(q) \in Nat /\ Len(p) = Len(q) + 1
         /\ \A i \in 1 .. Len(q) : p[i] = q[i]
         /\ p[Len(q) + 1] = j
         /\ \A k, s : \A n \in 0 .. Len(q) : Has(p, n, k, s) <=> Has(q, n, k, s)
         /\ \A k, s : Has(p, Len(p), k, s) <=>
              Has(q, Len(q), k, s) \/ (j.kind = k /\ j.session = s)
<1> DEFINE p == Append(q, j)
<1>1. /\ p \in Seq(Job) /\ Len(q) \in Nat /\ Len(p) = Len(q) + 1
      /\ \A i \in 1 .. Len(q) : p[i] = q[i]
      /\ p[Len(q) + 1] = j
  OBVIOUS
<1> HIDE DEF p
<1>2. \A k, s : \A n \in 0 .. Len(q) : Has(p, n, k, s) <=> Has(q, n, k, s)
  BY <1>1 DEF Has
<1>3. \A k, s : Has(p, Len(p), k, s) <=>
        Has(q, Len(q), k, s) \/ (j.kind = k /\ j.session = s)
  BY <1>1 DEF Has
<1> QED
  BY <1>1, <1>2, <1>3 DEF p

\* Running the first handler brings every other one place forward.
LEMMA RunFacts ==
  ASSUME NEW q \in Seq(Job), q # <<>>
  PROVE  LET p == Tail(q) IN
         /\ p \in Seq(Job) /\ Len(q) \in Nat \ {0} /\ Len(p) = Len(q) - 1
         /\ Head(q) = q[1] /\ q[1] \in Job
         /\ \A i \in 1 .. Len(p) : i + 1 \in 1 .. Len(q) /\ p[i] = q[i + 1]
         /\ \A k, s : \A n \in 0 .. Len(p) :
              Has(q, n + 1, k, s) <=>
                Has(p, n, k, s) \/ (q[1].kind = k /\ q[1].session = s)
<1> DEFINE p == Tail(q)
<1>1. /\ p \in Seq(Job) /\ Len(q) \in Nat \ {0} /\ Len(p) = Len(q) - 1
      /\ Head(q) = q[1] /\ q[1] \in Job
      /\ \A i \in 1 .. Len(p) : i + 1 \in 1 .. Len(q) /\ p[i] = q[i + 1]
  OBVIOUS
<1> HIDE DEF p
<1>2. ASSUME NEW k, NEW s, NEW n \in 0 .. Len(p)
      PROVE  Has(q, n + 1, k, s) <=>
               Has(p, n, k, s) \/ (q[1].kind = k /\ q[1].session = s)
  <2>1. ASSUME Has(q, n + 1, k, s), ~(q[1].kind = k /\ q[1].session = s)
        PROVE  Has(p, n, k, s)
    <3>1. PICK i \in 1 .. n + 1 : q[i].kind = k /\ q[i].session = s
      BY <2>1 DEF Has
    <3>2. i - 1 \in 1 .. n /\ p[i - 1] = q[i]
      BY <1>1, <2>1, <3>1
    <3> QED
      BY <3>1, <3>2 DEF Has
  <2>2. ASSUME Has(p, n, k, s) PROVE Has(q, n + 1, k, s)
    <3>1. PICK i \in 1 .. n : p[i].kind = k /\ p[i].session = s
      BY <2>2 DEF Has
    <3>2. i + 1 \in 1 .. n + 1 /\ p[i] = q[i + 1]
      BY <1>1
    <3> QED
      BY <3>1, <3>2 DEF Has
  <2>3. ASSUME q[1].kind = k, q[1].session = s PROVE Has(q, n + 1, k, s)
    BY <1>1, <2>3 DEF Has
  <2> QED
    BY <2>1, <2>2, <2>3
<1> QED
  BY <1>1, <1>2 DEF p

\* What the first handler does to active_sessions_ and to the closed sessions.
Runs(j, act, cl, act2, cl2) ==
  \/ j.kind = "insert" /\ act2 = act \cup {j.session} /\ cl2 = cl
  \/ j.kind = "erase" /\ act2 = act \ {j.session} /\ cl2 = cl
  \/ j.kind = "snapshot" /\ act2 = act /\ cl2 = cl
  \/ j.kind = "close_all" /\ act2 = {} /\ cl2 = cl \cup act

\* A session stays covered while the handlers ahead run.
LEMMA CoveredRuns ==
  ASSUME NEW q \in Seq(Job), q # <<>>, NEW act, NEW cl, NEW act2, NEW cl2,
         Runs(q[1], act, cl, act2, cl2),
         NEW s, NEW n \in 0 .. Len(Tail(q)), Covered(q, act, cl, s, n + 1)
  PROVE  Covered(Tail(q), act2, cl2, s, n)
<1> DEFINE p == Tail(q)
<1>1. \A k : Has(q, n + 1, k, s) <=>
        Has(p, n, k, s) \/ (q[1].kind = k /\ q[1].session = s)
  BY RunFacts
<1> HIDE DEF p
<1>2. Covered(p, act2, cl2, s, n)
  BY <1>1 DEF Runs, Covered
<1> QED
  BY <1>2 DEF p

\* Nothing of what is ahead of a handler changes when another is posted.
LEMMA CoveredPosts ==
  ASSUME NEW q \in Seq(Job), NEW j \in Job, NEW act, NEW cl, NEW s,
         NEW n \in 0 .. Len(q), Covered(q, act, cl, s, n)
  PROVE  Covered(Append(q, j), act, cl, s, n)
  BY PostFacts DEF Covered

-----------------------------------------------------------------------------
(* Posting *)

\* A posted handler that keeps its part of the invariant: j names a session if
\* it inserts or erases, has seen only covered sessions, and is the only
\* snapshot if it is one.
LEMMA PostKeeps ==
  ASSUME IInv, NEW j \in Job, strand' = Append(strand, j),
         UNCHANGED <<active_sessions_, closed>>,
         \A s \in Sessions : state[s] = "gone" => state'[s] = "gone",
         j.kind \in {"insert", "erase"} => j.session \in Sessions,
         j.kind # "close_all" => j.seen = {},
         j.kind = "erase" => state'[j.session] = "gone",
         j.kind = "insert" => ~Has(strand, Len(strand), "erase", j.session),
         \A s \in j.seen : Covered(strand, active_sessions_, closed, s, Len(strand))
  PROVE  /\ strand' \in Seq(Job)
         /\ JobInv'
         /\ SeenInv'
         /\ \A k, s : Has(strand', Len(strand'), k, s) <=>
              Has(strand, Len(strand), k, s) \/ (j.kind = k /\ j.session = s)
<1> DEFINE n == Len(strand)
<1>1. strand \in Seq(Job) /\ n \in Nat
  BY DEF IInv, TypeOK
<1>2. /\ strand' \in Seq(Job) /\ Len(strand') = n + 1
      /\ \A i \in 1 .. n : strand'[i] = strand[i]
      /\ strand'[n + 1] = j
      /\ \A k, s : \A m \in 0 .. n : Has(strand', m, k, s) <=> Has(strand, m, k, s)
      /\ \A k, s : Has(strand', Len(strand'), k, s) <=>
           Has(strand, n, k, s) \/ (j.kind = k /\ j.session = s)
  BY <1>1, PostFacts
<1>3. \A i \in 1 .. n + 1 : i \in 1 .. n \/ i = n + 1
  BY <1>1
<1>4. n + 1 - 1 = n /\ n \in 0 .. n /\ \A i \in 1 .. n : i - 1 \in 0 .. n
  BY <1>1
<1> HIDE DEF n
<1>5. JobInv'
  <2> SUFFICES ASSUME NEW i \in 1 .. n + 1
               PROVE  /\ strand'[i].kind \in {"insert", "erase"} => strand'[i].session \in Sessions
                      /\ strand'[i].kind # "close_all" => strand'[i].seen = {}
                      /\ strand'[i].kind = "erase" => state'[strand'[i].session] = "gone"
                      /\ strand'[i].kind = "insert" =>
                           ~Has(strand', i - 1, "erase", strand'[i].session)
    BY <1>2 DEF JobInv
  <2>1. CASE i \in 1 .. n
    BY <1>2, <1>4, <2>1 DEF IInv, JobInv, n
  <2>2. CASE i = n + 1
    BY <1>2, <1>4, <2>2 DEF n
  <2> QED
    BY <1>3, <2>1, <2>2
<1>6. SeenInv'
  <2> SUFFICES ASSUME NEW i \in 1 .. n + 1, NEW s \in strand'[i].seen
               PROVE  Covered(strand', active_sessions_, closed, s, i - 1)
    BY <1>2 DEF SeenInv
  <2>1. CASE i \in 1 .. n
    BY <1>2, <1>4, <2>1 DEF IInv, SeenInv, Covered, n
  <2>2. CASE i = n + 1
    BY <1>2, <1>4, <2>2 DEF Covered, n
  <2> QED
    BY <1>3, <2>1, <2>2
<1> QED
  BY <1>2, <1>5, <1>6 DEF n

\* A posted handler that is not a snapshot leaves the snapshot where it is.
LEMMA PostKeepsSnapshot ==
  ASSUME IInv, NEW j \in Job, strand' = Append(strand, j), j.kind # "snapshot",
         UNCHANGED <<active_sessions_, closed, call>>
  PROVE  SnapshotInv'
<1> DEFINE n == Len(strand)
<1>1. strand \in Seq(Job) /\ n \in Nat
  BY DEF IInv, TypeOK
<1>2. /\ Len(strand') = n + 1
      /\ \A i \in 1 .. n : strand'[i] = strand[i]
      /\ strand'[n + 1] = j
      /\ \A k, s : \A m \in 0 .. n : Has(strand', m, k, s) <=> Has(strand, m, k, s)
  BY <1>1, PostFacts
<1>3. \A i \in 1 .. n + 1 : strand'[i].kind = "snapshot" => i \in 1 .. n
  BY <1>1, <1>2
<1>4. \A i \in 1 .. n : i - 1 \in 0 .. n /\ i \in 1 .. n + 1
  BY <1>1
<1> HIDE DEF n
<1> SUFFICES ASSUME NEW i \in 1 .. n, strand'[i].kind = "snapshot"
             PROVE  /\ call.stage = "copying"
                    /\ \A s \in call.due :
                         Covered(strand', active_sessions_, closed, s, i - 1)
                    /\ \A m \in 1 .. n : strand'[m].kind = "snapshot" => i = m
  BY <1>2, <1>3 DEF SnapshotInv
<1> QED
  BY <1>2, <1>4 DEF IInv, SnapshotInv, Covered, n

-----------------------------------------------------------------------------
(* Lifetimes *)

\* A session that is alive after a step was alive before: the address of one
\* that is not can be handed out, and of one that is cannot.
LEMMA AddressKept ==
  ASSUME AddressInv, UNCHANGED addr,
         \A s \in Sessions : Alive(s)' => Alive(s),
         \A s \in Sessions : state'[s] = "handshaking" => state[s] = "handshaking"
  PROVE  AddressInv'
  BY DEF AddressInv

\* The shared_ptrs that posted handlers hold.
LEMMA HeldByPost ==
  ASSUME NEW q \in Seq(Job), NEW j \in Job, NEW s,
         \E x \in JobsOf(Append(q, j)) : x.session = s
  PROVE  s = j.session \/ \E x \in JobsOf(q) : x.session = s
<1> DEFINE p == Append(q, j)
<1>1. /\ Len(q) \in Nat /\ Len(p) = Len(q) + 1
      /\ \A i \in 1 .. Len(q) : p[i] = q[i]
      /\ p[Len(q) + 1] = j
  BY PostFacts
<1> HIDE DEF p
<1>2. PICK i \in 1 .. Len(p) : p[i].session = s
  BY DEF JobsOf, p
<1>3. i = Len(q) + 1 \/ i \in 1 .. Len(q)
  BY <1>1
<1> QED
  BY <1>1, <1>2, <1>3 DEF JobsOf

LEMMA HeldByRun ==
  ASSUME NEW q \in Seq(Job), q # <<>>
  PROVE  /\ Head(q) \in JobsOf(q)
         /\ JobsOf(Tail(q)) \subseteq JobsOf(q)
<1> DEFINE p == Tail(q)
<1>1. /\ Len(q) \in Nat \ {0} /\ Head(q) = q[1]
      /\ \A i \in 1 .. Len(p) : i + 1 \in 1 .. Len(q) /\ p[i] = q[i + 1]
  BY RunFacts
<1> HIDE DEF p
<1>2. Head(q) \in JobsOf(q)
  BY <1>1 DEF JobsOf
<1>3. JobsOf(p) \subseteq JobsOf(q)
  BY <1>1 DEF JobsOf
<1> QED
  BY <1>2, <1>3 DEF p

-----------------------------------------------------------------------------
(* Every step preserves the invariant *)

\* The steps of a session that post nothing.
LEMMA LifeStep ==
  ASSUME IInv, NEW s \in Sessions,
         \/ OpenHook(s) \/ ReaderSuspends(s) \/ ReaderResumes(s)
         \/ SessionEnds(s) \/ CloseHook(s)
  PROVE  IInv'
<1>1. /\ UNCHANGED <<addr, closed, active_sessions_, strand, logical_session_id_, call>>
      /\ \E to \in {"serving", "suspended", "ended", "notified"} :
           state' = [state EXCEPT ![s] = to]
      /\ state[s] \in {"posted", "serving", "suspended", "ended"}
  BY DEF OpenHook, ReaderSuspends, ReaderResumes, SessionEnds, CloseHook, Goto
<1>2. state \in [Sessions -> States]
  BY DEF IInv, TypeOK
<1>3. TypeOK'
  BY <1>1 DEF IInv, TypeOK
<1>4. \A d \in Sessions : (state'[d] = "gone" <=> state[d] = "gone")
  BY <1>1, <1>2
<1>5. Registered' = Registered
  BY <1>1, <1>2 DEF Registered, In
<1>6. JobInv'
  BY <1>1, <1>4 DEF IInv, JobInv
<1>7. RegisteredInv' /\ RemovalInv'
  BY <1>1, <1>4, <1>5 DEF IInv, RegisteredInv, RemovalInv
<1>8. SeenInv' /\ SnapshotInv'
  BY <1>1 DEF IInv, SeenInv, SnapshotInv
<1>9. TargetInv' /\ DeliveredToTarget'
  BY <1>1 DEF IInv, TargetInv, DeliveredToTarget, MeantFor
<1>10. AddressInv'
  <2>1. \A d \in Sessions : Alive(d)' => Alive(d)
    BY <1>1, <1>2 DEF Alive
  <2> QED
    BY <1>1, <1>2, <2>1, AddressKept DEF IInv
<1> QED
  BY <1>3, <1>6, <1>7, <1>8, <1>9, <1>10 DEF IInv

\* make_shared finds memory that no session alive uses.
LEMMA HandshakeDoneStep ==
  ASSUME IInv, NEW s \in Sessions, HandshakeDone(s)
  PROVE  IInv'
<1>1. PICK a \in Addrs : /\ \A d \in Sessions : Alive(d) => addr[d] # a
                         /\ addr' = [addr EXCEPT ![s] = a]
  BY DEF HandshakeDone
<1>2. /\ UNCHANGED <<closed, active_sessions_, strand, logical_session_id_, call>>
      /\ state[s] = "handshaking" /\ state' = [state EXCEPT ![s] = "built"]
  BY DEF HandshakeDone, Goto
<1>3. state \in [Sessions -> States] /\ addr \in [Sessions -> Addrs \cup {NoAddr}]
  BY DEF IInv, TypeOK
<1>4. TypeOK'
  BY <1>1, <1>2 DEF IInv, TypeOK
<1>5. \A d \in Sessions : (state'[d] = "gone" <=> state[d] = "gone")
  BY <1>2, <1>3
<1>6. Registered' = Registered
  BY <1>2, <1>3 DEF Registered, In
<1>7. JobInv'
  BY <1>2, <1>5 DEF IInv, JobInv
<1>8. RegisteredInv' /\ RemovalInv'
  BY <1>2, <1>5, <1>6 DEF IInv, RegisteredInv, RemovalInv
<1>9. SeenInv' /\ SnapshotInv'
  BY <1>2 DEF IInv, SeenInv, SnapshotInv
<1>10. TargetInv' /\ DeliveredToTarget'
  BY <1>2 DEF IInv, TargetInv, DeliveredToTarget, MeantFor
<1>11. AddressInv'
  <2>1. \A d \in Sessions : d # s => (Alive(d)' <=> Alive(d))
    BY <1>2, <1>3 DEF Alive
  <2>2. state'[s] # "handshaking" /\ addr'[s] = a
    BY <1>1, <1>2, <1>3
  <2>3. \A d \in Sessions : d # s => addr'[d] = addr[d] /\ state'[d] = state[d]
    BY <1>1, <1>2, <1>3
  <2> QED
    BY <1>1, <2>1, <2>2, <2>3 DEF IInv, AddressInv
<1> QED
  BY <1>4, <1>7, <1>8, <1>9, <1>10, <1>11 DEF IInv

LEMMA PostInsertStep ==
  ASSUME IInv, NEW s \in Sessions, PostInsert(s)
  PROVE  IInv'
<1> DEFINE j == [kind |-> "insert", session |-> s, seen |-> {}]
<1>1. /\ UNCHANGED <<addr, closed, active_sessions_, logical_session_id_, call>>
      /\ strand' = Append(strand, j)
      /\ state[s] = "built" /\ state' = [state EXCEPT ![s] = "posted"]
  BY DEF PostInsert, Post, Goto
<1>2. j \in Job /\ j.kind = "insert" /\ j.session = s /\ j.seen = {}
  BY DEF Job
<1> HIDE DEF j
<1>3. /\ state \in [Sessions -> States] /\ strand \in Seq(Job)
      /\ \A d \in Sessions : (state'[d] = "gone" <=> state[d] = "gone")
  BY <1>1 DEF IInv, TypeOK
<1>4. ~Has(strand, Len(strand), "erase", s)
  BY <1>1 DEF IInv, JobInv, Has
<1>5. /\ strand' \in Seq(Job) /\ JobInv' /\ SeenInv'
      /\ \A k, d : Has(strand', Len(strand'), k, d) <=>
           Has(strand, Len(strand), k, d) \/ (k = "insert" /\ d = s)
  BY <1>1, <1>2, <1>3, <1>4, PostKeeps
<1>6. TypeOK'
  BY <1>1, <1>5 DEF IInv, TypeOK
<1>7. RegisteredInv'
  BY <1>1, <1>3, <1>5 DEF IInv, RegisteredInv, Registered, In
<1>8. RemovalInv'
  BY <1>1, <1>3, <1>5 DEF IInv, RemovalInv
<1>9. SnapshotInv'
  BY <1>1, <1>2, PostKeepsSnapshot
<1>10. TargetInv' /\ DeliveredToTarget'
  BY <1>1 DEF IInv, TargetInv, DeliveredToTarget, MeantFor
<1>11. AddressInv'
  <2>1. \A d \in Sessions : Alive(d)' => Alive(d)
    BY <1>1, <1>2, <1>3, HeldByPost DEF Alive
  <2> QED
    BY <1>1, <1>3, <2>1, AddressKept DEF IInv
<1> QED
  BY <1>5, <1>6, <1>7, <1>8, <1>9, <1>10, <1>11 DEF IInv

LEMMA PostEraseStep ==
  ASSUME IInv, NEW s \in Sessions, PostErase(s)
  PROVE  IInv'
<1> DEFINE j == [kind |-> "erase", session |-> s, seen |-> {}]
<1>1. /\ UNCHANGED <<addr, closed, active_sessions_, logical_session_id_, call>>
      /\ strand' = Append(strand, j)
      /\ state[s] = "notified" /\ state' = [state EXCEPT ![s] = "gone"]
  BY DEF PostErase, Post, Goto
<1>2. j \in Job /\ j.kind = "erase" /\ j.session = s /\ j.seen = {}
  BY DEF Job
<1> HIDE DEF j
<1>3. /\ state \in [Sessions -> States] /\ strand \in Seq(Job)
      /\ state'[s] = "gone"
      /\ \A d \in Sessions : d # s => state'[d] = state[d]
  BY <1>1 DEF IInv, TypeOK
<1>4. /\ strand' \in Seq(Job) /\ JobInv' /\ SeenInv'
      /\ \A k, d : Has(strand', Len(strand'), k, d) <=>
           Has(strand, Len(strand), k, d) \/ (k = "erase" /\ d = s)
  BY <1>1, <1>2, <1>3, PostKeeps
<1>5. TypeOK'
  BY <1>1, <1>4 DEF IInv, TypeOK
<1>6. RegisteredInv'
  BY <1>1, <1>3, <1>4 DEF IInv, RegisteredInv, Registered, In
<1>7. RemovalInv'
  BY <1>1, <1>3, <1>4 DEF IInv, RemovalInv
<1>8. SnapshotInv'
  BY <1>1, <1>2, PostKeepsSnapshot
<1>9. TargetInv' /\ DeliveredToTarget'
  BY <1>1 DEF IInv, TargetInv, DeliveredToTarget, MeantFor
<1>10. AddressInv'
  <2>1. \A d \in Sessions : Alive(d)' => Alive(d)
    <3> SUFFICES ASSUME NEW d \in Sessions, d # s, Alive(d)' PROVE Alive(d)
      BY <1>1 DEF Alive
    <3>1. CASE \E x \in JobsOf(strand') : x.session = d
      <4>1. d = j.session \/ \E x \in JobsOf(strand) : x.session = d
        BY <1>1, <1>2, <1>3, <3>1, HeldByPost
      <4> QED
        BY <1>2, <4>1 DEF Alive
    <3>2. CASE ~ \E x \in JobsOf(strand') : x.session = d
      BY <1>1, <1>3, <3>2 DEF Alive
    <3> QED
      BY <3>1, <3>2
  <2> QED
    BY <1>1, <1>3, <2>1, AddressKept DEF IInv
<1> QED
  BY <1>4, <1>5, <1>6, <1>7, <1>8, <1>9, <1>10 DEF IInv

\* Every registered session is covered by what is on the strand.
LEMMA RegisteredCovered ==
  ASSUME IInv, NEW s \in Registered
  PROVE  Covered(strand, active_sessions_, closed, s, Len(strand))
<1>1. s \in Sessions /\ state[s] # "gone"
  BY DEF Registered, In
<1>2. ~Has(strand, Len(strand), "erase", s)
  BY <1>1 DEF IInv, JobInv, Has
<1> QED
  BY <1>2 DEF IInv, RegisteredInv, Covered

LEMMA StopStep ==
  ASSUME IInv, Stop
  PROVE  IInv'
<1> DEFINE j == [kind |-> "close_all", session |-> NoSession, seen |-> Registered]
<1>1. /\ UNCHANGED <<state, addr, closed, active_sessions_, logical_session_id_, call>>
      /\ strand' = Append(strand, j)
  BY DEF Stop, Post
<1>2. j \in Job /\ j.kind = "close_all" /\ j.session = NoSession /\ j.seen = Registered
  BY DEF Job, Registered, In
<1> HIDE DEF j
<1>3. state \in [Sessions -> States] /\ strand \in Seq(Job)
  BY DEF IInv, TypeOK
<1>4. /\ strand' \in Seq(Job) /\ JobInv' /\ SeenInv'
      /\ \A k, d : Has(strand', Len(strand'), k, d) <=>
           Has(strand, Len(strand), k, d) \/ (k = "close_all" /\ d = NoSession)
  BY <1>1, <1>2, <1>3, PostKeeps, RegisteredCovered
<1>5. TypeOK'
  BY <1>1, <1>4 DEF IInv, TypeOK
<1>6. RegisteredInv' /\ RemovalInv'
  BY <1>1, <1>4 DEF IInv, RegisteredInv, RemovalInv, Registered, In
<1>7. SnapshotInv'
  BY <1>1, <1>2, PostKeepsSnapshot
<1>8. TargetInv' /\ DeliveredToTarget'
  BY <1>1 DEF IInv, TargetInv, DeliveredToTarget, MeantFor
<1>9. AddressInv'
  <2>1. \A d \in Sessions : Alive(d)' => Alive(d)
    BY <1>1, <1>2, <1>3, HeldByPost DEF Alive
  <2> QED
    BY <1>1, <1>3, <2>1, AddressKept DEF IInv
<1> QED
  BY <1>4, <1>5, <1>6, <1>7, <1>8, <1>9 DEF IInv


LEMMA NotifyStep ==
  ASSUME IInv, NEW target \in Targets, Notify(target)
  PROVE  IInv'
<1> DEFINE j == [kind |-> "snapshot", session |-> NoSession, seen |-> {}]
           n == Len(strand)
<1>1. /\ UNCHANGED <<state, addr, closed, active_sessions_, logical_session_id_>>
      /\ strand' = Append(strand, j) /\ call.stage = "idle"
      /\ call' = [target |-> target, stage |-> "copying", sessions_copy |-> {},
                  due |-> {s \in Registered : MeantFor(s, target)}]
  BY DEF Notify, Post
<1>2. j \in Job /\ j.kind = "snapshot" /\ j.session = NoSession /\ j.seen = {}
  BY DEF Job
<1> HIDE DEF j
<1>3. state \in [Sessions -> States] /\ strand \in Seq(Job) /\ n \in Nat
  BY DEF IInv, TypeOK
<1>4. /\ strand' \in Seq(Job) /\ JobInv' /\ SeenInv'
      /\ \A k, d : Has(strand', Len(strand'), k, d) <=>
           Has(strand, Len(strand), k, d) \/ (k = "snapshot" /\ d = NoSession)
  BY <1>1, <1>2, <1>3, PostKeeps
<1>5. /\ call' \in Call /\ call'.target = target /\ call'.stage = "copying"
      /\ call'.sessions_copy = {}
      /\ call'.due = {s \in Registered : MeantFor(s, target)}
  BY <1>1 DEF Call, Registered, In
<1>6. TypeOK'
  BY <1>1, <1>4, <1>5 DEF IInv, TypeOK
<1>7. RegisteredInv' /\ RemovalInv'
  BY <1>1, <1>4 DEF IInv, RegisteredInv, RemovalInv, Registered, In
<1>8. SnapshotInv'
  <2>1. /\ Len(strand') = n + 1
        /\ \A i \in 1 .. n : strand'[i] = strand[i]
        /\ \A k, s : Has(strand', n, k, s) <=> Has(strand, n, k, s)
    BY <1>1, <1>2, <1>3, PostFacts
  <2>2. \A i \in 1 .. n : strand[i].kind # "snapshot"
    BY <1>1 DEF IInv, SnapshotInv
  <2>3. \A i \in 1 .. n + 1 : strand'[i].kind = "snapshot" => i = n + 1
    BY <1>3, <2>1, <2>2
  <2>4. \A s \in call'.due : Covered(strand, active_sessions_, closed, s, n)
    BY <1>5, RegisteredCovered
  <2>5. \A s \in call'.due : Covered(strand', active_sessions_, closed, s, n)
    BY <2>1, <2>4 DEF Covered
  <2>6. n + 1 - 1 = n
    BY <1>3
  <2> HIDE DEF n
  <2> SUFFICES ASSUME NEW i \in 1 .. n + 1, strand'[i].kind = "snapshot"
               PROVE  /\ call'.stage = "copying"
                      /\ \A s \in call'.due :
                           Covered(strand', active_sessions_, closed, s, i - 1)
                      /\ \A m \in 1 .. n + 1 : strand'[m].kind = "snapshot" => i = m
    BY <1>1, <2>1 DEF SnapshotInv
  <2>7. i = n + 1 /\ i - 1 = n
    BY <1>3, <2>3
  <2>8. \A s \in call'.due : Covered(strand', active_sessions_, closed, s, i - 1)
    BY <2>5, <2>7
  <2> QED
    BY <1>5, <2>3, <2>7, <2>8
<1>9. TargetInv' /\ DeliveredToTarget'
  BY <1>1, <1>5 DEF TargetInv, DeliveredToTarget, MeantFor
<1>10. AddressInv'
  <2>1. \A d \in Sessions : Alive(d)' => Alive(d)
    <3> SUFFICES ASSUME NEW d \in Sessions, Alive(d)' PROVE Alive(d)
      OBVIOUS
    <3>1. CASE \E x \in JobsOf(strand') : x.session = d
      <4>1. strand' = Append(strand, j)
        BY <1>1
      <4>2. j \in Job /\ strand \in Seq(Job)
        BY <1>2, <1>3
      <4>3. d = j.session \/ \E x \in JobsOf(strand) : x.session = d
        BY <3>1, <4>1, <4>2, HeldByPost
      <4> QED
        BY <1>2, <4>3 DEF Alive
    <3>2. CASE ~ \E x \in JobsOf(strand') : x.session = d
      BY <1>1, <1>5, <3>2 DEF Alive
    <3> QED
      BY <3>1, <3>2
  <2> QED
    BY <1>1, <1>3, <2>1, AddressKept DEF IInv
<1> QED
  BY <1>4, <1>6, <1>7, <1>8, <1>9, <1>10 DEF IInv

\* The steps of the caller that touch neither the strand nor the registry.
LEMMA SendingStep ==
  ASSUME IInv, (\E s \in Sessions : Offer(s)) \/ NotifyReturns
  PROVE  IInv'
<1>1. /\ UNCHANGED <<state, addr, closed, active_sessions_, strand, logical_session_id_>>
      /\ call.stage = "sending"
  BY DEF Offer, NotifyReturns
<1>2. call \in Call
  BY DEF IInv, TypeOK
<1>3. /\ call' \in Call
      /\ call'.sessions_copy \subseteq call.sessions_copy
      /\ call'.due \subseteq call.due
      /\ call'.due # {} => call'.target = call.target
      /\ call'.stage = "sending" => call'.due \ closed \subseteq call'.sessions_copy
  <2>1. CASE NotifyReturns
    BY <2>1 DEF NotifyReturns, NoCall, Call
  <2>2. CASE \E s \in Sessions : Offer(s)
    <3>0. PICK s \in Sessions : Offer(s)
      BY <2>2
    <3>1. call' = [call EXCEPT !.sessions_copy = @ \ {s},
                               !.due = IF MeantFor(s, call.target) THEN @ \ {s} ELSE @]
      BY <3>0 DEF Offer
    <3>2. /\ call'.stage = call.stage /\ call'.target = call.target
          /\ call'.sessions_copy = call.sessions_copy \ {s}
          /\ call'.due = IF MeantFor(s, call.target) THEN call.due \ {s} ELSE call.due
          /\ call' \in Call
      BY <1>2, <3>1 DEF Call
    <3>3. call.due \ closed \subseteq call.sessions_copy
      BY <1>1 DEF IInv, DeliveredToTarget
    <3>4. s \in call.due => MeantFor(s, call.target)
      BY DEF IInv, TargetInv
    <3> QED
      BY <3>2, <3>3, <3>4
  <2> QED
    BY <2>1, <2>2
<1>4. TypeOK'
  BY <1>1, <1>3 DEF IInv, TypeOK
<1>5. JobInv' /\ RegisteredInv' /\ RemovalInv' /\ SeenInv'
  BY <1>1 DEF IInv, JobInv, RegisteredInv, RemovalInv, SeenInv, Registered, In
<1>6. SnapshotInv'
  BY <1>1 DEF IInv, SnapshotInv
<1>7. TargetInv' /\ DeliveredToTarget'
  BY <1>1, <1>3 DEF IInv, TargetInv, DeliveredToTarget, MeantFor
<1>8. AddressInv'
  <2>1. \A d \in Sessions : Alive(d)' => Alive(d)
    BY <1>1, <1>3 DEF Alive
  <2> QED
    BY <1>1, <2>1, AddressKept DEF IInv
<1> QED
  BY <1>4, <1>5, <1>6, <1>7, <1>8 DEF IInv

\* A session is stamped once, so a call that is meant for it remains so.
LEMMA SetIdStep ==
  ASSUME IInv, NEW s \in Sessions, NEW id \in Ids, set_logical_session_id(s, id)
  PROVE  IInv'
<1>1. /\ UNCHANGED <<state, addr, closed, active_sessions_, strand, call>>
      /\ logical_session_id_[s] = NoId
      /\ logical_session_id_' = [logical_session_id_ EXCEPT ![s] = id]
  BY DEF set_logical_session_id
<1>2. logical_session_id_ \in [Sessions -> Ids \cup {NoId}] /\ call \in Call
  BY DEF IInv, TypeOK
<1>3. TypeOK'
  BY <1>1 DEF IInv, TypeOK
<1>4. JobInv' /\ RegisteredInv' /\ RemovalInv' /\ SeenInv' /\ SnapshotInv'
  BY <1>1 DEF IInv, JobInv, RegisteredInv, RemovalInv, SeenInv, SnapshotInv, Registered, In
<1>5. DeliveredToTarget'
  BY <1>1 DEF IInv, DeliveredToTarget
<1>6. TargetInv'
  <2> SUFFICES ASSUME NEW d \in call.due
               PROVE  call.target \in Targets /\ MeantFor(d, call.target)'
    BY <1>1 DEF TargetInv
  <2>1. d \in Sessions /\ call.target \in Targets /\ MeantFor(d, call.target)
    BY <1>2 DEF IInv, TargetInv, Call
  <2>2. CASE d # s
    BY <1>1, <1>2, <2>1, <2>2 DEF MeantFor
  <2>3. CASE d = s
    BY <1>1, <1>2, <2>1, <2>3 DEF MeantFor, Targets
  <2> QED
    BY <2>2, <2>3
<1>7. AddressInv'
  <2>1. \A d \in Sessions : Alive(d)' => Alive(d)
    BY <1>1 DEF Alive
  <2> QED
    BY <1>1, <2>1, AddressKept DEF IInv
<1> QED
  BY <1>3, <1>4, <1>5, <1>6, <1>7 DEF IInv

-----------------------------------------------------------------------------
(* The handlers run *)

\* What running the first handler keeps, whichever it is: the other handlers
\* are one place further on, and what they will find has not changed.
LEMMA RunKeeps ==
  ASSUME IInv, strand # <<>>, strand' = Tail(strand), UNCHANGED state,
         Runs(strand[1], active_sessions_, closed, active_sessions_', closed')
  PROVE  /\ strand' \in Seq(Job)
         /\ JobInv'
         /\ SeenInv'
         /\ \A k, s : Has(strand, Len(strand), k, s) <=>
              Has(strand', Len(strand'), k, s)
                \/ (strand[1].kind = k /\ strand[1].session = s)
<1> DEFINE p == Tail(strand)
           n == Len(p)
<1>1. strand \in Seq(Job)
  BY DEF IInv, TypeOK
<1>2. /\ p \in Seq(Job) /\ n \in Nat /\ Len(strand) = n + 1
      /\ \A i \in 1 .. n : i + 1 \in 1 .. Len(strand) /\ p[i] = strand[i + 1]
      /\ \A k, s : \A m \in 0 .. n :
           Has(strand, m + 1, k, s) <=>
             Has(p, m, k, s) \/ (strand[1].kind = k /\ strand[1].session = s)
  BY <1>1, RunFacts
<1>3. \A s : \A m \in 0 .. n :
        Covered(strand, active_sessions_, closed, s, m + 1) =>
          Covered(p, active_sessions_', closed', s, m)
  BY <1>1, CoveredRuns
<1>4. n \in 0 .. n /\ \A i \in 1 .. n : i - 1 \in 0 .. n /\ i - 1 + 1 = i /\ i + 1 - 1 = i
  BY <1>2
<1>5. strand' = p
  OBVIOUS
<1> HIDE DEF n, p
<1>6. JobInv'
  <2> SUFFICES ASSUME NEW i \in 1 .. n
               PROVE  /\ p[i].kind \in {"insert", "erase"} => p[i].session \in Sessions
                      /\ p[i].kind # "close_all" => p[i].seen = {}
                      /\ p[i].kind = "erase" => state[p[i].session] = "gone"
                      /\ p[i].kind = "insert" => ~Has(p, i - 1, "erase", p[i].session)
    BY <1>5 DEF JobInv, n
  <2>1. /\ i + 1 \in 1 .. Len(strand) /\ p[i] = strand[i + 1]
        /\ \A s : Has(p, i - 1, "erase", s) => Has(strand, i, "erase", s)
    BY <1>2, <1>4
  <2>2. p[i].kind = "insert" => ~Has(strand, i, "erase", p[i].session)
    BY <1>4, <2>1 DEF IInv, JobInv
  <2>3. /\ p[i].kind \in {"insert", "erase"} => p[i].session \in Sessions
        /\ p[i].kind # "close_all" => p[i].seen = {}
        /\ p[i].kind = "erase" => state[p[i].session] = "gone"
    BY <2>1 DEF IInv, JobInv
  <2> QED
    BY <2>1, <2>2, <2>3
<1>7. SeenInv'
  <2> SUFFICES ASSUME NEW i \in 1 .. n, NEW s \in p[i].seen
               PROVE  Covered(p, active_sessions_', closed', s, i - 1)
    BY <1>5 DEF SeenInv, n
  <2>1. Covered(strand, active_sessions_, closed, s, i)
    BY <1>2, <1>4 DEF IInv, SeenInv
  <2> QED
    BY <1>3, <1>4, <2>1
<1>8. \A k, s : Has(strand, n + 1, k, s) <=>
        Has(p, n, k, s) \/ (strand[1].kind = k /\ strand[1].session = s)
  BY <1>2, <1>4
<1>9. Len(strand) = n + 1 /\ Len(strand') = n /\ strand' \in Seq(Job)
  BY <1>2, <1>5 DEF n
<1>10. \A k, s : Has(strand, Len(strand), k, s) <=>
         Has(strand', Len(strand'), k, s)
           \/ (strand[1].kind = k /\ strand[1].session = s)
  BY <1>5, <1>8, <1>9
<1> QED
  BY <1>6, <1>7, <1>9, <1>10

\* A handler that is not the snapshot leaves what the snapshot will find.
LEMMA RunKeepsSnapshot ==
  ASSUME IInv, strand # <<>>, strand' = Tail(strand), UNCHANGED call,
         Runs(strand[1], active_sessions_, closed, active_sessions_', closed')
  PROVE  SnapshotInv'
<1> DEFINE p == Tail(strand)
           n == Len(p)
<1>1. strand \in Seq(Job)
  BY DEF IInv, TypeOK
<1>2. /\ n \in Nat
      /\ \A i \in 1 .. n : i + 1 \in 1 .. Len(strand) /\ p[i] = strand[i + 1]
  BY <1>1, RunFacts
<1>3. \A s : \A m \in 0 .. n :
        Covered(strand, active_sessions_, closed, s, m + 1) =>
          Covered(p, active_sessions_', closed', s, m)
  BY <1>1, CoveredRuns
<1>4. \A i \in 1 .. n : i - 1 \in 0 .. n /\ i - 1 + 1 = i /\ i + 1 - 1 = i
  BY <1>2
<1>5. strand' = p
  OBVIOUS
<1> HIDE DEF n, p
<1> SUFFICES ASSUME NEW i \in 1 .. n, p[i].kind = "snapshot"
             PROVE  /\ call.stage = "copying"
                    /\ \A s \in call.due : Covered(p, active_sessions_', closed', s, i - 1)
                    /\ \A m \in 1 .. n : p[m].kind = "snapshot" => i = m
  BY <1>5 DEF SnapshotInv, n
<1>6. /\ i + 1 \in 1 .. Len(strand) /\ strand[i + 1].kind = "snapshot"
      /\ \A m \in 1 .. n : m + 1 \in 1 .. Len(strand) /\ p[m] = strand[m + 1]
  BY <1>2
<1>7. /\ call.stage = "copying"
      /\ \A s \in call.due : Covered(strand, active_sessions_, closed, s, i)
      /\ \A m \in 1 .. Len(strand) : strand[m].kind = "snapshot" => i + 1 = m
  BY <1>4, <1>6 DEF IInv, SnapshotInv
<1>8. \A m \in 1 .. n : p[m].kind = "snapshot" => i = m
  BY <1>2, <1>6, <1>7
<1>9. \A s \in call.due : Covered(p, active_sessions_', closed', s, i - 1)
  BY <1>3, <1>4, <1>7
<1> QED
  BY <1>7, <1>8, <1>9


\* Running a handler frees memory, and hands none out.
LEMMA RunKeepsAddress ==
  ASSUME IInv, strand # <<>>, strand' = Tail(strand), UNCHANGED <<state, addr>>,
         \A d \in Sessions : d \in active_sessions_' \cup call'.sessions_copy => Alive(d)
  PROVE  AddressInv'
<1>1. JobsOf(strand') \subseteq JobsOf(strand)
  BY HeldByRun DEF IInv, TypeOK
<1>2. \A d \in Sessions : Alive(d)' => Alive(d)
  BY <1>1 DEF Alive
<1> QED
  BY <1>2, AddressKept DEF IInv

\* The steps of the strand that leave the caller alone.
LEMMA RegistryStep ==
  ASSUME IInv, RunInsert \/ RunErase \/ RunCloseAll
  PROVE  IInv'
<1> DEFINE j == strand[1]
<1>1. /\ strand # <<>> /\ strand' = Tail(strand) /\ Head(strand) = j
      /\ UNCHANGED <<state, addr, logical_session_id_, call>>
  BY RunFacts DEF IInv, TypeOK, RunInsert, RunErase, RunCloseAll
<1>2. /\ strand \in Seq(Job) /\ Len(strand) \in Nat \ {0} /\ j \in Job
      /\ j \in JobsOf(strand)
  BY <1>1, RunFacts, HeldByRun DEF IInv, TypeOK
<1>3. Runs(j, active_sessions_, closed, active_sessions_', closed')
  BY <1>1 DEF RunInsert, RunErase, RunCloseAll, Runs
<1>4. j.kind # "snapshot"
  BY <1>1 DEF RunInsert, RunErase, RunCloseAll
<1>5. /\ j.kind \in {"insert", "erase"} => j.session \in Sessions
      /\ j.kind = "erase" => state[j.session] = "gone"
  BY <1>2 DEF IInv, JobInv
<1>6. /\ strand' \in Seq(Job) /\ JobInv' /\ SeenInv'
      /\ \A k, s : Has(strand, Len(strand), k, s) <=>
           Has(strand', Len(strand'), k, s) \/ (j.kind = k /\ j.session = s)
  BY <1>1, <1>3, RunKeeps
<1>7. SnapshotInv'
  BY <1>1, <1>3, RunKeepsSnapshot
<1>8. j.kind = "erase" => ~Has(strand', Len(strand'), "insert", j.session)
  <2> SUFFICES ASSUME j.kind = "erase", NEW i \in 1 .. Len(strand'),
                      strand'[i].kind = "insert", strand'[i].session = j.session
               PROVE  FALSE
    BY DEF Has
  <2>1. i + 1 \in 1 .. Len(strand) /\ strand'[i] = strand[i + 1]
    BY <1>1, <1>2, RunFacts
  <2>2. ~Has(strand, i, "erase", j.session)
    BY <2>1 DEF IInv, JobInv
  <2>3. 1 \in 1 .. i
    BY <1>6
  <2> QED
    BY <2>2, <2>3 DEF Has
<1> HIDE DEF j
<1>9. TypeOK'
  BY <1>1, <1>3, <1>4, <1>5, <1>6 DEF IInv, TypeOK, Runs
<1>10. RegisteredInv'
  <2> SUFFICES ASSUME NEW s \in Registered
               PROVE  \/ s \in closed' \cup active_sessions_'
                      \/ Has(strand', Len(strand'), "insert", s)
    BY <1>1 DEF RegisteredInv, Registered, In
  <2>1. s \in Sessions /\ state[s] # "gone"
    BY DEF Registered, In
  <2>2. s \in closed \cup active_sessions_ \/ Has(strand, Len(strand), "insert", s)
    BY DEF IInv, RegisteredInv
  <2> QED
    BY <1>3, <1>5, <1>6, <2>1, <2>2 DEF Runs
<1>11. RemovalInv'
  <2> SUFFICES ASSUME NEW s \in Sessions, state[s] = "gone",
                      \/ s \in active_sessions_'
                      \/ Has(strand', Len(strand'), "insert", s)
               PROVE  Has(strand', Len(strand'), "erase", s)
    BY <1>1 DEF RemovalInv
  <2>1. s \in active_sessions_ \/ Has(strand, Len(strand), "insert", s)
    BY <1>3, <1>6 DEF Runs
  <2>2. Has(strand, Len(strand), "erase", s)
    BY <2>1 DEF IInv, RemovalInv
  <2> QED
    BY <1>3, <1>6, <1>8, <2>2 DEF Runs
<1>12. TargetInv'
  BY <1>1 DEF IInv, TargetInv, MeantFor
<1>13. DeliveredToTarget'
  BY <1>1, <1>3 DEF IInv, DeliveredToTarget, Runs
<1>14. AddressInv'
  <2>1. \A d \in Sessions : d \in active_sessions_' \cup call'.sessions_copy => Alive(d)
    BY <1>1, <1>2, <1>3 DEF Alive, Runs
  <2> QED
    BY <1>1, <2>1, RunKeepsAddress
<1> QED
  BY <1>6, <1>7, <1>9, <1>10, <1>11, <1>12, <1>13, <1>14 DEF IInv

\* The strand copies active_sessions_ for the caller.
LEMMA RunSnapshotStep ==
  ASSUME IInv, RunSnapshot
  PROVE  IInv'
<1> DEFINE j == strand[1]
           n == Len(strand')
<1>1. /\ strand # <<>> /\ strand' = Tail(strand) /\ j.kind = "snapshot"
      /\ UNCHANGED <<state, addr, closed, active_sessions_, logical_session_id_>>
      /\ call' = [call EXCEPT !.stage = "sending", !.sessions_copy = active_sessions_]
  BY RunFacts DEF IInv, TypeOK, RunSnapshot
<1>2. strand \in Seq(Job) /\ Len(strand) \in Nat \ {0} /\ 1 \in 1 .. Len(strand)
  BY <1>1, RunFacts DEF IInv, TypeOK
<1>3. /\ call' \in Call /\ call'.stage = "sending"
      /\ call'.sessions_copy = active_sessions_
      /\ call'.due = call.due /\ call'.target = call.target
  BY <1>1 DEF IInv, TypeOK, Call
<1>4. Runs(j, active_sessions_, closed, active_sessions_', closed')
  BY <1>1 DEF Runs
<1>5. /\ strand' \in Seq(Job) /\ JobInv' /\ SeenInv'
      /\ \A k, s : Has(strand, Len(strand), k, s) <=>
           Has(strand', Len(strand'), k, s) \/ (j.kind = k /\ j.session = s)
  BY <1>1, <1>4, RunKeeps
<1>6. /\ n \in Nat
      /\ \A i \in 1 .. n : i + 1 \in 1 .. Len(strand) /\ strand'[i] = strand[i + 1]
  BY <1>1, <1>2, RunFacts
<1>7. /\ \A s \in call.due : Covered(strand, active_sessions_, closed, s, 0)
      /\ \A m \in 1 .. Len(strand) : strand[m].kind = "snapshot" => m = 1
  BY <1>1, <1>2 DEF IInv, SnapshotInv
<1>8. SnapshotInv'
  <2>1. \A i \in 1 .. n : strand'[i].kind # "snapshot"
    BY <1>6, <1>7
  <2> QED
    BY <2>1 DEF SnapshotInv
<1>9. DeliveredToTarget'
  <2>1. \A s \in call.due : s \in closed \cup active_sessions_
    BY <1>7 DEF Covered, Has
  <2> QED
    BY <1>1, <1>3, <2>1 DEF DeliveredToTarget
<1>10. TargetInv'
  BY <1>1, <1>3 DEF IInv, TargetInv, MeantFor
<1>11. TypeOK'
  BY <1>1, <1>3, <1>5 DEF IInv, TypeOK
<1>12. RegisteredInv' /\ RemovalInv'
  <2>1. \A s : /\ Has(strand', n, "insert", s) <=> Has(strand, Len(strand), "insert", s)
               /\ Has(strand', n, "erase", s) <=> Has(strand, Len(strand), "erase", s)
    BY <1>1, <1>5
  <2> QED
    BY <1>1, <2>1 DEF IInv, RegisteredInv, RemovalInv, Registered, In
<1>13. AddressInv'
  <2>1. \A d \in Sessions : d \in active_sessions_' \cup call'.sessions_copy => Alive(d)
    BY <1>1, <1>3 DEF Alive
  <2> QED
    BY <1>1, <2>1, RunKeepsAddress
<1> QED
  BY <1>5, <1>8, <1>9, <1>10, <1>11, <1>12, <1>13 DEF IInv

-----------------------------------------------------------------------------
(* The invariant, and what follows from it *)

LEMMA InitIInv == Init => IInv
<1> SUFFICES ASSUME Init PROVE IInv
  OBVIOUS
<1>1. /\ strand = <<>> /\ Len(strand) = 0 /\ strand \in Seq(Job)
      /\ \A i \in 1 .. Len(strand) : FALSE
  BY DEF Init
<1>2. call \in Call /\ call.due = {} /\ call.sessions_copy = {} /\ call.stage = "idle"
  BY DEF Init, NoCall, Call
<1>3. \A s \in Sessions : state[s] = "handshaking"
  BY DEF Init
<1>4. TypeOK
  BY <1>1, <1>2 DEF Init, TypeOK
<1>5. JobInv /\ SeenInv /\ SnapshotInv
  BY <1>1 DEF JobInv, SeenInv, SnapshotInv
<1>6. RegisteredInv /\ RemovalInv
  BY <1>3 DEF RegisteredInv, RemovalInv, Registered, In
<1>7. TargetInv /\ DeliveredToTarget
  BY <1>2 DEF TargetInv, DeliveredToTarget
<1>8. AddressInv
  <2>1. JobsOf(strand) = {}
    BY <1>1 DEF JobsOf
  <2>2. \A s \in Sessions : ~Alive(s)
    BY <1>2, <1>3, <2>1 DEF Init, Alive
  <2> QED
    BY <2>2 DEF AddressInv
<1> QED
  BY <1>4, <1>5, <1>6, <1>7, <1>8 DEF IInv

LEMMA StutterStep ==
  ASSUME IInv, UNCHANGED vars
  PROVE  IInv'
<1>1. UNCHANGED <<state, addr, closed, active_sessions_, strand, logical_session_id_, call>>
  BY DEF vars
<1>2. TypeOK' /\ JobInv' /\ SeenInv' /\ SnapshotInv' /\ RegisteredInv' /\ RemovalInv'
  BY <1>1 DEF IInv, TypeOK, JobInv, SeenInv, SnapshotInv, RegisteredInv, RemovalInv,
              Registered, In
<1>3. TargetInv' /\ DeliveredToTarget'
  BY <1>1 DEF IInv, TargetInv, DeliveredToTarget, MeantFor
<1>4. AddressInv'
  BY <1>1 DEF IInv, AddressInv, Alive
<1> QED
  BY <1>2, <1>3, <1>4 DEF IInv

LEMMA NextIInv == IInv /\ [Next]_vars => IInv'
<1> SUFFICES ASSUME IInv, [Next]_vars PROVE IInv'
  OBVIOUS
<1>1. CASE UNCHANGED vars
  BY <1>1, StutterStep
<1>2. ASSUME NEW s \in Sessions, SessionNext(s) PROVE IInv'
  BY <1>2, LifeStep, HandshakeDoneStep, PostInsertStep, PostEraseStep DEF SessionNext
<1>3. ASSUME NEW s \in Sessions, NEW id \in Ids, set_logical_session_id(s, id) PROVE IInv'
  BY <1>3, SetIdStep
<1>4. CASE CallerNext
  BY <1>4, NotifyStep, SendingStep, StopStep DEF CallerNext
<1>5. CASE StrandNext
  BY <1>5, RegistryStep, RunSnapshotStep DEF StrandNext
<1> QED
  BY <1>1, <1>2, <1>3, <1>4, <1>5 DEF Next

LEMMA Invariance == Spec => []IInv
  BY InitIInv, NextIInv, PTL DEF Spec

\* Every variable of the registry keeps its type: what is in active_sessions_
\* are sessions that handshake has built, and never a null pointer.
THEOREM RegistryTypes == Spec => []TypeOK
<1>1. IInv => TypeOK
  BY DEF IInv
<1> QED
  BY <1>1, Invariance, PTL

\* From the open hook to the close hook a session's token is its own, because the
\* completion handler holds the session until both have been called.
THEOREM TokensAreDistinct == Spec => []TokensDistinct
<1>1. IInv => TokensDistinct
  <2> SUFFICES ASSUME IInv, NEW s \in Announced, NEW d \in Announced, addr[s] = addr[d]
               PROVE  s = d
    BY DEF TokensDistinct
  <2>1. s \in Sessions /\ d \in Sessions /\ Alive(s) /\ Alive(d)
    BY DEF Announced, In, Alive
  <2> QED
    BY <2>1 DEF IInv, AddressInv
<1> QED
  BY <1>1, Invariance, PTL

\* A session that is gone stays in active_sessions_ only until its removal runs,
\* whichever way insertions, removals and stop() are ordered on the strand.
THEOREM RemovalsAreFinal == Spec => []NoZombie
<1>1. IInv => NoZombie
  <2> SUFFICES ASSUME IInv, NEW s \in active_sessions_, state[s] = "gone"
               PROVE  \E j \in JobsOf(strand) : j.kind = "erase" /\ j.session = s
    BY DEF NoZombie
  <2>1. s \in Sessions
    BY DEF IInv, TypeOK
  <2>2. Has(strand, Len(strand), "erase", s)
    BY <2>1 DEF IInv, RemovalInv
  <2> QED
    BY <2>2 DEF Has, JobsOf
<1> QED
  BY <1>1, Invariance, PTL

\* stop() closes every session whose insertion was posted before it.
THEOREM StopSeesPosted == Spec => []StrandSeesPosted
<1>1. IInv => StrandSeesPosted
  <2> SUFFICES ASSUME IInv, strand # <<>>, NEW s \in Head(strand).seen
               PROVE  s \in closed \cup active_sessions_
    BY DEF StrandSeesPosted
  <2>1. Head(strand) = strand[1] /\ 1 \in 1 .. Len(strand)
    BY RunFacts DEF IInv, TypeOK
  <2>2. Covered(strand, active_sessions_, closed, s, 0)
    BY <2>1 DEF IInv, SeenInv
  <2> QED
    BY <2>2 DEF Covered, Has
<1> QED
  BY <1>1, Invariance, PTL

\* notify and notify_session offer their message to every session it was meant
\* for when the call was made, unless a stop() has closed it.
THEOREM NotificationsReachTheirTarget == Spec => []DeliveredToTarget
<1>1. IInv => DeliveredToTarget
  BY DEF IInv
<1> QED
  BY <1>1, Invariance, PTL

=============================================================================
