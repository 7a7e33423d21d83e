----------------------------- MODULE Admission -----------------------------
(***************************************************************************)
(* How grlx::rpc::server admits connections: the channel's acceptor, the   *)
(* accept loop with its pre-handshake filter, the handshake coroutines     *)
(* with their deadline, and the counters and token buckets behind          *)
(* server_limits, from accept to the completion handler of                 *)
(* dispatch_requests.  What happens to an admitted session between the two *)
(* is the subject of Registry.                                             *)
(*                                                                         *)
(* A connection passes one atomic operation or lock of start() per step.   *)
(***************************************************************************)
EXTENDS TokenBucket, FiniteSets

CONSTANTS
  MaxConns,   \* bound on the connections that come in
  IPs,        \* peer addresses
  NoIP,       \* peer_ip() when remote_endpoint failed: the empty string
  Origins,    \* what addresses the connections may come from, in turn
  Vanishing,  \* connections whose peer may leave before its address is read
  Limits,     \* values of server_limits
  Threads,    \* threads running the server's executor
  MaxTime     \* bound on the clock

\* Connections are numbered in the order of the listener's backlog.
Conns == 1 .. MaxConns

\* The bursts and refills are real numbers in the code and units here.
LimitsType ==
  [max_concurrent_sessions : Nat, max_sessions_per_ip : Nat,
   max_concurrent_handshakes : Nat,
   accept_burst_per_ip : Nat, accept_refill_per_ip_per_s : Nat]

ASSUME AdmissionAssumption ==
  /\ MaxConns \in Nat
  /\ NoIP \notin IPs
  /\ Origins \subseteq [Conns -> IPs]
  /\ Vanishing \subseteq Conns
  /\ Limits \subseteq LimitsType
  /\ Threads \in Nat
  /\ MaxTime \in Nat \ {0}

VARIABLES
  now,
  acceptor_,              \* of the channel
  limits_,
  ipOf,                   \* the address each connection comes from
  state,                  \* where each connection is in start()
  filtered,               \* its peer went through the pre-handshake filter
  peer_ip,                \* session::peer_ip()
  global_session_count_,
  handshakes_in_flight_,
  per_ip_count_,
  per_ip_accept_bucket_,
  passed                  \* ghost: when a limited bucket let it pass, or 0

vars == <<now, acceptor_, limits_, ipOf, state, filtered, peer_ip, global_session_count_,
          handshakes_in_flight_, per_ip_count_, per_ip_accept_bucket_, passed>>

setupVars == <<now, acceptor_, limits_>>
connVars == <<ipOf, state, filtered, peer_ip>>
seatVars == <<global_session_count_, per_ip_count_>>
bucketVars == <<per_ip_accept_bucket_, passed>>

-----------------------------------------------------------------------------
States ==
  {"new",           \* not accepted yet
   "probed",        \* under the global cap, in the filter still
   "accepted",      \* returned by accept_raw, in the hands of the accept loop
   "handshaking",   \* in channel_.handshake
   "admitting",     \* handshake slot given back, not counted yet
   "counted",       \* in global_session_count_, not in per_ip_count_ yet
   "serving",       \* in both counters: an admitted session
   "uncounted",     \* out of global_session_count_
   "gone"}          \* out of both, or turned away before it was in any

In(S) == {c \in Conns : state[c] \in S}

\* The sessions that global_session_count_ and per_ip_count_ stand for.
Counted == In({"counted", "serving"})
Seated == In({"serving", "uncounted"})
SeatedFrom(ip) == {c \in Seated : peer_ip[c] = ip}

\* No suspension point lies between giving the handshake slot back and
\* counting the session: a connection in between occupies a thread.
OnThread == In({"admitting", "counted"})

Put(f, k, v) == [x \in DOMAIN f \cup {k} |-> IF x = k THEN v ELSE f[x]]
Erase(f, k) == [x \in DOMAIN f \ {k} |-> f[x]]

Goto(c, s) == state' = [state EXCEPT ![c] = s]

\* The connection's socket or session is destroyed.
Vanish(c) ==
  /\ Goto(c, "gone")
  /\ filtered' = [filtered EXCEPT ![c] = FALSE]
  /\ peer_ip' = [peer_ip EXCEPT ![c] = NoIP]

-----------------------------------------------------------------------------
Init ==
  /\ now = 1
  /\ acceptor_ = "unbound"
  /\ limits_ \in Limits
  /\ ipOf \in Origins
  /\ state = [c \in Conns |-> "new"]
  /\ filtered = [c \in Conns |-> FALSE]
  /\ peer_ip = [c \in Conns |-> NoIP]
  /\ global_session_count_ = 0
  /\ handshakes_in_flight_ = 0
  /\ per_ip_count_ = [ip \in {} |-> 0]
  /\ per_ip_accept_bucket_ = [ip \in {} |-> Fresh(0, 0)]
  /\ passed = [c \in Conns |-> 0]

\* Bound: the clock runs while the channel listens; only the filter reads it.
Tick ==
  /\ acceptor_ = "listening" /\ now < MaxTime
  /\ now' = now + 1
  /\ UNCHANGED <<acceptor_, limits_, connVars, seatVars, handshakes_in_flight_, bucketVars>>

-----------------------------------------------------------------------------
(* The application *)

\* start() binds the channel, installs the filter and spawns the accept loop.
Start ==
  /\ acceptor_ = "unbound"
  /\ acceptor_' = "listening"
  /\ UNCHANGED <<now, limits_, connVars, seatVars, handshakes_in_flight_, bucketVars>>

\* channel().close(): no accept succeeds any more, what is accepted goes on.
Close ==
  /\ acceptor_ = "listening"
  /\ acceptor_' = "closed"
  /\ UNCHANGED <<now, limits_, connVars, seatVars, handshakes_in_flight_, bucketVars>>

\* The members are assigned one by one under the eyes of the accept loop, which
\* reads them one by one: Limits holds the mixtures too.
set_server_limits ==
  /\ limits_' \in Limits
  /\ UNCHANGED <<now, acceptor_, connVars, seatVars, handshakes_in_flight_, bucketVars>>

-----------------------------------------------------------------------------
(* The accept loop: one coroutine, so one connection at a time *)

LoopIsFree == In({"probed", "accepted"}) = {}

\* async_accept takes the oldest connection off the backlog.
Taken(c) ==
  /\ acceptor_ = "listening" /\ LoopIsFree
  /\ state[c] = "new" /\ \A b \in 1 .. c - 1 : state[b] # "new"

\* The first probe of the filter: an atomic load of the global counter.
\* Mutant: the global cap is never compared.
NoGlobalCap == TRUE
UnderGlobalCap == global_session_count_ < limits_.max_concurrent_sessions

ProbeGlobal(c) ==
  /\ Taken(c)
  /\ IF UnderGlobalCap
     THEN Goto(c, "probed") /\ UNCHANGED <<filtered, peer_ip>>
     ELSE Vanish(c)
  /\ UNCHANGED <<setupVars, ipOf, seatVars, handshakes_in_flight_, bucketVars>>

\* remote_endpoint fails when the peer is already gone: the filter is skipped.
AcceptUnfiltered(c) ==
  /\ c \in Vanishing /\ Taken(c)
  /\ Goto(c, "accepted")
  /\ UNCHANGED <<setupVars, ipOf, filtered, peer_ip, seatVars, handshakes_in_flight_, bucketVars>>

\* The second, under per_ip_mutex_.
UnderPerIPCap(ip) ==
  ip \in DOMAIN per_ip_count_ => per_ip_count_[ip] < limits_.max_sessions_per_ip

RejectOverPerIPCap(c) ==
  /\ state[c] = "probed" /\ ~UnderPerIPCap(ipOf[c])
  /\ Vanish(c)
  /\ UNCHANGED <<setupVars, ipOf, seatVars, handshakes_in_flight_, bucketVars>>

\* The bucket of an address is created on first sight, and takes the limits of
\* the moment unless it has a capacity already.
\* Mutant: it is initialised for every connection.
NewBucket(ip) == Fresh(limits_.accept_burst_per_ip, limits_.accept_refill_per_ip_per_s)
BucketOf(ip) ==
  LET b == IF ip \in DOMAIN per_ip_accept_bucket_
           THEN per_ip_accept_bucket_[ip] ELSE Fresh(0, 0)
  IN IF b.capacity = 0
     THEN [b EXCEPT !.capacity = limits_.accept_burst_per_ip,
                    !.refill_per_sec = limits_.accept_refill_per_ip_per_s]
     ELSE b

TakeFromBucket(ip) ==
  per_ip_accept_bucket_' = Put(per_ip_accept_bucket_, ip, try_take(BucketOf(ip), now))

\* The third check, under the same lock, is the only one that leaves a trace.
Accept(c) ==
  /\ state[c] = "probed" /\ UnderPerIPCap(ipOf[c])
  /\ Proceeds(BucketOf(ipOf[c]), now)
  /\ TakeFromBucket(ipOf[c])
  /\ passed' = [passed EXCEPT ![c] = IF BucketOf(ipOf[c]).capacity > 0 THEN now ELSE 0]
  /\ Goto(c, "accepted")
  /\ filtered' = [filtered EXCEPT ![c] = TRUE]
  /\ UNCHANGED <<setupVars, ipOf, peer_ip, seatVars, handshakes_in_flight_>>

RejectOverRate(c) ==
  /\ state[c] = "probed" /\ UnderPerIPCap(ipOf[c])
  /\ ~Proceeds(BucketOf(ipOf[c]), now)
  /\ TakeFromBucket(ipOf[c])
  /\ Vanish(c)
  /\ UNCHANGED <<setupVars, ipOf, seatVars, handshakes_in_flight_, passed>>

\* The loop drops the connection when the handshake cap is reached ...
DropOverHandshakeCap(c) ==
  /\ state[c] = "accepted"
  /\ handshakes_in_flight_ >= limits_.max_concurrent_handshakes
  /\ Vanish(c)
  /\ UNCHANGED <<setupVars, ipOf, seatVars, handshakes_in_flight_, bucketVars>>

\* ... and otherwise spawns the handshake and goes on accepting.
\* Mutant: > where the code has >=.
SpawnOneTooMany(c) ==
  /\ state[c] = "accepted"
  /\ handshakes_in_flight_ <= limits_.max_concurrent_handshakes
  /\ handshakes_in_flight_' = handshakes_in_flight_ + 1
  /\ Goto(c, "handshaking")
  /\ UNCHANGED <<setupVars, ipOf, filtered, peer_ip, seatVars, bucketVars>>
SpawnHandshake(c) ==
  /\ state[c] = "accepted"
  /\ handshakes_in_flight_ < limits_.max_concurrent_handshakes
  /\ handshakes_in_flight_' = handshakes_in_flight_ + 1
  /\ Goto(c, "handshaking")
  /\ UNCHANGED <<setupVars, ipOf, filtered, peer_ip, seatVars, bucketVars>>

-----------------------------------------------------------------------------
(* The handshake coroutine *)

\* Mutant: the exception path forgets the slot.
HandshakeFailsKeepingSlot(c) ==
  /\ state[c] = "handshaking"
  /\ Vanish(c)
  /\ UNCHANGED <<setupVars, ipOf, seatVars, handshakes_in_flight_, bucketVars>>
HandshakeFails(c) ==
  /\ state[c] = "handshaking"
  /\ handshakes_in_flight_' = handshakes_in_flight_ - 1
  /\ Vanish(c)
  /\ UNCHANGED <<setupVars, ipOf, seatVars, bucketVars>>

\* race_handshake: the timer wins, the socket is closed and the exception ends
\* the coroutine like any other.
\* Mutant: there is no deadline.
NeverTimesOut(c) == FALSE /\ UNCHANGED vars
HandshakeTimesOut(c) == HandshakeFails(c)

\* The session is built; its peer address is unknown if remote_endpoint fails.
HandshakeDone(c) ==
  /\ state[c] = "handshaking"
  /\ Cardinality(OnThread) < Threads
  /\ handshakes_in_flight_' = handshakes_in_flight_ - 1
  /\ Goto(c, "admitting")
  /\ \E ip \in {ipOf[c]} \cup (IF c \in Vanishing THEN {NoIP} ELSE {}) :
       peer_ip' = [peer_ip EXCEPT ![c] = ip]
  /\ UNCHANGED <<setupVars, ipOf, filtered, seatVars, bucketVars>>

CountGlobal(c) ==
  /\ state[c] = "admitting"
  /\ global_session_count_' = global_session_count_ + 1
  /\ Goto(c, "counted")
  /\ UNCHANGED <<setupVars, ipOf, filtered, peer_ip, handshakes_in_flight_,
                 per_ip_count_, bucketVars>>

\* ++per_ip_count_[ip] under per_ip_mutex_.
Increment(f, ip) == Put(f, ip, IF ip \in DOMAIN f THEN f[ip] + 1 ELSE 1)

CountPerIP(c) ==
  /\ state[c] = "counted"
  /\ per_ip_count_' = Increment(per_ip_count_, peer_ip[c])
  /\ Goto(c, "serving")
  /\ UNCHANGED <<setupVars, ipOf, filtered, peer_ip, global_session_count_,
                 handshakes_in_flight_, bucketVars>>

-----------------------------------------------------------------------------
(* The completion handler of dispatch_requests *)

ReleaseGlobal(c) ==
  /\ state[c] = "serving"
  /\ global_session_count_' = global_session_count_ - 1
  /\ Goto(c, "uncounted")
  /\ UNCHANGED <<setupVars, ipOf, filtered, peer_ip, handshakes_in_flight_,
                 per_ip_count_, bucketVars>>

\* The last session of an address takes the map entry with it.
Decrement(f, ip) ==
  IF ip \notin DOMAIN f THEN f
  ELSE IF f[ip] = 1 THEN Erase(f, ip)
  ELSE [f EXCEPT ![ip] = @ - 1]

ReleasePerIP(c) ==
  /\ state[c] = "uncounted"
  /\ per_ip_count_' = Decrement(per_ip_count_, peer_ip[c])
  /\ Vanish(c)
  /\ UNCHANGED <<setupVars, ipOf, global_session_count_, handshakes_in_flight_, bucketVars>>

-----------------------------------------------------------------------------
AcceptNext(c) == ProbeGlobal(c) \/ AcceptUnfiltered(c)

FilterNext(c) ==
  \/ RejectOverPerIPCap(c) \/ Accept(c) \/ RejectOverRate(c)
  \/ DropOverHandshakeCap(c) \/ SpawnHandshake(c)

SessionNext(c) ==
  \/ HandshakeFails(c) \/ HandshakeTimesOut(c) \/ HandshakeDone(c)
  \/ CountGlobal(c) \/ CountPerIP(c) \/ ReleaseGlobal(c) \/ ReleasePerIP(c)

Next ==
  \/ Tick \/ Start \/ Close \/ set_server_limits
  \/ \E c \in Conns : AcceptNext(c) \/ FilterNext(c) \/ SessionNext(c)

Spec == Init /\ [][Next]_vars

\* The accept loop and the coroutines are run, and the handshakes' timers
\* expire: as there are only so many connections it is enough to say that some
\* one that can go on does.  Nothing is assumed of the peers, who may stall in
\* the handshake and stay for ever, or of the application.
Fairness ==
  /\ WF_vars(\E c \in Conns : AcceptNext(c))
  /\ WF_vars(\E c \in Conns : FilterNext(c))
  /\ WF_vars(\E c \in Conns : HandshakeTimesOut(c))
  /\ WF_vars(\E c \in Conns : CountGlobal(c) \/ CountPerIP(c) \/ ReleasePerIP(c))

FairSpec == Spec /\ Fairness

-----------------------------------------------------------------------------
(* Properties *)

\* Every variable stays within its type; no counter goes below zero, no bucket
\* above its capacity, and the handshake cap is exact.
TypeOK ==
  /\ now \in 1 .. MaxTime
  /\ acceptor_ \in {"unbound", "listening", "closed"}
  /\ limits_ \in Limits
  /\ ipOf \in Origins
  /\ state \in [Conns -> States]
  /\ filtered \in [Conns -> BOOLEAN]
  /\ peer_ip \in [Conns -> IPs \cup {NoIP}]
  /\ global_session_count_ \in Nat
  /\ handshakes_in_flight_ \in Nat
  /\ handshakes_in_flight_ > 0 =>
       \E l \in Limits : handshakes_in_flight_ <= l.max_concurrent_handshakes
  /\ DOMAIN per_ip_count_ \subseteq IPs \cup {NoIP}
  /\ per_ip_count_ \in [DOMAIN per_ip_count_ -> Nat \ {0}]
  /\ DOMAIN per_ip_accept_bucket_ \subseteq IPs
  /\ \A ip \in DOMAIN per_ip_accept_bucket_ : per_ip_accept_bucket_[ip] \in
       [capacity : Nat, refill_per_sec : Nat, tokens : Nat, last_refill : 0 .. MaxTime]
  /\ passed \in [Conns -> 0 .. MaxTime]

\* The counters the filter trusts are the sessions there are: whatever path a
\* connection takes through start(), every seat and every handshake slot it
\* takes is given back exactly once, and an address has an entry in
\* per_ip_count_ only while it has sessions.
SeatsMatch ==
  /\ global_session_count_ = Cardinality(Counted)
  /\ handshakes_in_flight_ = Cardinality(In({"handshaking"}))
  /\ DOMAIN per_ip_count_ = {peer_ip[c] : c \in Seated}
  /\ \A ip \in DOMAIN per_ip_count_ :
       per_ip_count_[ip] = Cardinality(SeatedFrom(ip))

\* The caps are tested before the handshake and the counters raised after it,
\* so they can be overshot, but by no more than the connections that fit
\* between the two: the handshakes in flight and one per thread.  The caps are
\* the highest that set_server_limits ever gave.  A cap of no session per
\* address acts as a cap of one: the filter tests only addresses that have an
\* entry in per_ip_count_.
Within(n, cap(_)) ==
  n = 0 \/ \E l, h \in Limits : n <= cap(l) + h.max_concurrent_handshakes + Threads

PerIPCap(l) == IF l.max_sessions_per_ip = 0 THEN 1 ELSE l.max_sessions_per_ip

OvershootBound ==
  /\ Within(Cardinality({c \in Counted : filtered[c]}),
            LAMBDA l : l.max_concurrent_sessions)
  /\ \A ip \in IPs :
       Within(Cardinality({c \in SeatedFrom(ip) : filtered[c]}), PerIPCap)

\* Over any interval, no address gets more connections past the filter than the
\* capacity of its bucket and what is refilled in the interval, whatever becomes
\* of them, and although set_server_limits may change the limits, or switch
\* limiting on and off, at any time.
AcceptRateBound ==
  \A ip \in DOMAIN per_ip_accept_bucket_ :
    LET b == per_ip_accept_bucket_[ip] IN
      b.capacity > 0 =>
        \A from \in 1 .. now : \A to \in from .. now :
          Cost * Cardinality({c \in Conns : ipOf[c] = ip /\ passed[c] \in from .. to})
            <= b.capacity + b.refill_per_sec * (to - from)

\* "A stalling peer cannot starve new accepts" (start()): while the channel
\* listens every waiting connection is taken up, and each one taken up is turned
\* away or becomes a session, although peers may stall in their handshakes and
\* sessions last for ever.
Settled(c) ==
  \/ state[c] \in {"serving", "uncounted", "gone"}
  \/ state[c] = "new" /\ acceptor_ # "listening"

ArrivalsSettle == []<>(\A c \in Conns : Settled(c))

\* "Hard cap on concurrent sessions across all sources" (security.hpp, on
\* server_limits::max_concurrent_sessions), of the sessions it was tested for.
HardCap ==
  \E l \in Limits :
    Cardinality({c \in Counted : filtered[c]}) <= l.max_concurrent_sessions

=============================================================================
