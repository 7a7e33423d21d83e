--------------------------- MODULE AdmissionProofs ---------------------------
(***************************************************************************)
(* The safety properties of Admission, for any number of connections and   *)
(* threads, any origins, any limits and any clock.  The counters are       *)
(* cardinalities of sets of connections, so every step is followed through *)
(* what it does to those sets; the caps follow from the connections that   *)
(* are past the filter and the accept rate from what the buckets hold.     *)
(***************************************************************************)
EXTENDS Admission, TokenBucketProofs, FiniteSetTheorems

USE DEF setupVars, connVars, seatVars, bucketVars, States

-----------------------------------------------------------------------------
(* The inductive invariant *)

\* There is one accept loop.
LoopInv == \A c, d \in In({"probed", "accepted"}) : c = d

\* A connection is marked when the filter lets it pass, not before.
FilterInv == \A c \in Conns : state[c] \in {"new", "probed"} => ~filtered[c]

\* A thread runs one coroutine between two suspension points.
ThreadInv == Cardinality(OnThread) <= Threads

\* What may still become a counted session: past the probe of the global cap
\* (and through the filter, or still in it).
InPipe(st, f) ==
  \/ st = "probed"
  \/ f /\ st \in {"accepted", "handshaking", "admitting", "counted", "serving"}
Pipe == {c \in Conns : InPipe(state[c], filtered[c])}

\* Through the filter with address ip, and not released yet.
InPipeFrom(ip, origin, st, f, p) ==
  f /\ \/ st \in {"accepted", "handshaking"} /\ origin = ip
       \/ st \in {"admitting", "counted", "serving", "uncounted"} /\ p = ip
PipeFrom(ip) ==
  {c \in Conns : InPipeFrom(ip, ipOf[c], state[c], filtered[c], peer_ip[c])}

\* OvershootBound holds of the connections that are on their way, too.
GlobalBound(n) ==
  n = 0 \/ \E l, h \in Limits :
             n <= l.max_concurrent_sessions + h.max_concurrent_handshakes + Threads
PerIPBound(n) ==
  n = 0 \/ \E l, h \in Limits : n <= PerIPCap(l) + h.max_concurrent_handshakes + Threads

PipeInv ==
  /\ GlobalBound(Cardinality(Pipe))
  /\ \A ip \in IPs : PerIPBound(Cardinality(PipeFrom(ip)))

\* Buckets are sound, and were touched whenever they let a connection pass.
BucketInv ==
  /\ \A ip \in DOMAIN per_ip_accept_bucket_ : Sound(per_ip_accept_bucket_[ip], now)
  /\ \A c \in Conns : passed[c] # 0 =>
       /\ ipOf[c] \in DOMAIN per_ip_accept_bucket_
       /\ per_ip_accept_bucket_[ipOf[c]].capacity > 0
       /\ passed[c] <= per_ip_accept_bucket_[ipOf[c]].last_refill

\* Connections from ip that passed a limited bucket at time t or later, and
\* between two times.
Since(from, pass, ip, t) == {c \in Conns : from[c] = ip /\ pass[c] >= t}
Window(from, pass, ip, t, u) == {c \in Conns : from[c] = ip /\ pass[c] \in t .. u}

\* What passed since t, and what the bucket holds, was there or came since.
Budget(from, pass, ip, b) ==
  b.capacity > 0 =>
    \A t \in 1 .. b.last_refill :
      Cardinality(Since(from, pass, ip, t)) * Cost + b.tokens
        <= b.capacity + b.refill_per_sec * (b.last_refill - t)
BudgetInv ==
  \A ip \in DOMAIN per_ip_accept_bucket_ :
    Budget(ipOf, passed, ip, per_ip_accept_bucket_[ip])

\* AcceptRateBound of one address.
Rate(from, pass, ip, b, n) ==
  b.capacity > 0 =>
    \A t \in 1 .. n : \A u \in t .. n :
      Cost * Cardinality(Window(from, pass, ip, t, u))
        <= b.capacity + b.refill_per_sec * (u - t)

SeatInv == SeatsMatch /\ LoopInv /\ FilterInv /\ ThreadInv /\ PipeInv
RateInv == BucketInv /\ BudgetInv /\ AcceptRateBound
IInv == TypeOK /\ SeatInv /\ RateInv

\* The two halves are preserved for reasons of their own, and so are the types of
\* their variables.
SeatTypes ==
  /\ state \in [Conns -> States]
  /\ filtered \in [Conns -> BOOLEAN]
  /\ peer_ip \in [Conns -> IPs \cup {NoIP}]
  /\ global_session_count_ \in Nat
  /\ handshakes_in_flight_ \in Nat
  /\ handshakes_in_flight_ > 0 =>
       \E l \in Limits : handshakes_in_flight_ <= l.max_concurrent_handshakes
  /\ DOMAIN per_ip_count_ \subseteq IPs \cup {NoIP}
  /\ per_ip_count_ \in [DOMAIN per_ip_count_ -> Nat \ {0}]
RateTypes ==
  /\ now \in 1 .. MaxTime
  /\ acceptor_ \in {"unbound", "listening", "closed"}
  /\ limits_ \in Limits
  /\ ipOf \in Origins
  /\ DOMAIN per_ip_accept_bucket_ \subseteq IPs
  /\ \A ip \in DOMAIN per_ip_accept_bucket_ : per_ip_accept_bucket_[ip] \in
       [capacity : Nat, refill_per_sec : Nat, tokens : Nat, last_refill : 0 .. MaxTime]
  /\ passed \in [Conns -> 0 .. MaxTime]

LEMMA Halves == TypeOK <=> SeatTypes /\ RateTypes
  BY DEF TypeOK, SeatTypes, RateTypes

-----------------------------------------------------------------------------
(* Sets of connections *)

LEMMA ConnsFinite ==
  /\ IsFiniteSet(Conns)
  /\ \A S \in SUBSET Conns : IsFiniteSet(S) /\ Cardinality(S) \in Nat
<1>1. IsFiniteSet(Conns)
  BY AdmissionAssumption, FS_Interval DEF Conns
<1> QED
  BY <1>1, FS_Subset, FS_CardinalityType

\* A smaller set has no larger cardinality.
LEMMA FewerConns ==
  ASSUME NEW S \in SUBSET Conns, NEW T \in SUBSET S
  PROVE  Cardinality(T) \in Nat /\ Cardinality(S) \in Nat /\ Cardinality(T) <= Cardinality(S)
  BY ConnsFinite, FS_Subset

\* One connection more, or less.
LEMMA OneMore ==
  ASSUME NEW S \in SUBSET Conns, NEW c \in Conns
  PROVE  /\ c \notin S => Cardinality(S \cup {c}) = Cardinality(S) + 1
         /\ c \in S => Cardinality(S \ {c}) = Cardinality(S) - 1
         /\ Cardinality(S) \in Nat
         /\ c \in S => Cardinality(S) > 0
<1>1. IsFiniteSet(S) /\ Cardinality(S) \in Nat
  BY ConnsFinite
<1>2. c \in S => Cardinality(S) # 0
  BY <1>1, FS_EmptySet
<1>3. Cardinality(S \cup {c}) = IF c \in S THEN Cardinality(S) ELSE Cardinality(S) + 1
  BY <1>1, FS_AddElement, Zenon
<1>4. Cardinality(S \ {c}) = IF c \in S THEN Cardinality(S) - 1 ELSE Cardinality(S)
  BY <1>1, FS_RemoveElement, Zenon
<1> QED
  BY <1>1, <1>2, <1>3, <1>4

LEMMA UnionBound ==
  ASSUME NEW S \in SUBSET Conns, NEW T \in SUBSET Conns
  PROVE  Cardinality(S \cup T) \in Nat /\ Cardinality(S \cup T) <= Cardinality(S) + Cardinality(T)
<1>1. /\ IsFiniteSet(S) /\ IsFiniteSet(T) /\ IsFiniteSet(S \cap T)
      /\ Cardinality(S) \in Nat /\ Cardinality(T) \in Nat
      /\ Cardinality(S \cap T) \in Nat /\ Cardinality(S \cup T) \in Nat
  BY ConnsFinite
<1>2. Cardinality(S \cup T) = Cardinality(S) + Cardinality(T) - Cardinality(S \cap T)
  BY <1>1, FS_Union, Zenon
<1> QED
  BY <1>1, <1>2

\* How many connections are in one of the states of S when one has moved.
At(f, S) == {d \in Conns : f[d] \in S}

LEMMA CardMoves ==
  ASSUME NEW f \in [Conns -> States], NEW g \in [Conns -> States], NEW c \in Conns, NEW S,
         \A d \in Conns : d # c => g[d] = f[d]
  PROVE  /\ Cardinality(At(f, S)) \in Nat /\ Cardinality(At(g, S)) \in Nat
         /\ (f[c] \in S <=> g[c] \in S) => At(g, S) = At(f, S)
         /\ f[c] \notin S /\ g[c] \in S => Cardinality(At(g, S)) = Cardinality(At(f, S)) + 1
         /\ f[c] \in S /\ g[c] \notin S => Cardinality(At(g, S)) = Cardinality(At(f, S)) - 1
<1> DEFINE F == At(f, S)
           G == At(g, S)
<1>1. F \in SUBSET Conns /\ G \in SUBSET Conns
  BY DEF At
<1>2. (f[c] \in S <=> g[c] \in S) => G = F
  BY DEF At
<1>3. f[c] \notin S /\ g[c] \in S => c \notin F /\ G = F \cup {c}
  BY DEF At
<1>4. f[c] \in S /\ g[c] \notin S => c \in F /\ G = F \ {c}
  BY DEF At
<1> HIDE DEF F, G
<1>5. /\ c \notin F => Cardinality(F \cup {c}) = Cardinality(F) + 1
      /\ c \in F => Cardinality(F \ {c}) = Cardinality(F) - 1
      /\ Cardinality(F) \in Nat /\ Cardinality(G) \in Nat
  BY <1>1, OneMore
<1> QED
  BY <1>2, <1>3, <1>4, <1>5 DEF F, G

\* A bound on a number is a bound on smaller numbers.
LEMMA BoundsDown ==
  ASSUME NEW n \in Nat, NEW m \in Nat, m <= n
  PROVE  /\ GlobalBound(n) => GlobalBound(m)
         /\ PerIPBound(n) => PerIPBound(m)
<1>1. \A l \in Limits : /\ l.max_concurrent_sessions \in Nat
                        /\ l.max_concurrent_handshakes \in Nat
                        /\ PerIPCap(l) \in Nat
  BY AdmissionAssumption DEF LimitsType, PerIPCap
<1>2. GlobalBound(n) => GlobalBound(m)
  BY <1>1, AdmissionAssumption DEF GlobalBound
<1>3. PerIPBound(n) => PerIPBound(m)
  <2> SUFFICES ASSUME PerIPBound(n), n # 0 PROVE PerIPBound(m)
    BY DEF PerIPBound
  <2>1. PICK l \in Limits, h \in Limits :
          n <= PerIPCap(l) + h.max_concurrent_handshakes + Threads
    BY DEF PerIPBound
  <2>2. m <= PerIPCap(l) + h.max_concurrent_handshakes + Threads
    BY <1>1, <2>1, AdmissionAssumption
  <2> QED
    BY <2>2 DEF PerIPBound
<1> QED
  BY <1>2, <1>3

-----------------------------------------------------------------------------
(* A connection moves *)

\* Connection c goes to state st; f and p are what the filter and the handshake
\* know of it now.
Move(c, st, f, p) ==
  /\ state' = [state EXCEPT ![c] = st]
  /\ filtered' = [filtered EXCEPT ![c] = f]
  /\ peer_ip' = [peer_ip EXCEPT ![c] = p]
  /\ UNCHANGED ipOf

LEMMA MoveFacts ==
  ASSUME TypeOK, NEW c \in Conns, NEW st \in States, NEW f \in BOOLEAN,
         NEW p \in IPs \cup {NoIP}, Move(c, st, f, p)
  PROVE  /\ state' \in [Conns -> States] /\ filtered' \in [Conns -> BOOLEAN]
         /\ peer_ip' \in [Conns -> IPs \cup {NoIP}]
         /\ state'[c] = st /\ filtered'[c] = f /\ peer_ip'[c] = p
         /\ \A d \in Conns : d # c => /\ state'[d] = state[d]
                                      /\ filtered'[d] = filtered[d]
                                      /\ peer_ip'[d] = peer_ip[d]
  BY DEF TypeOK, Move

\* The counters a move has to follow.
GlobalMatch == global_session_count_ = Cardinality(Counted)
SlotMatch == handshakes_in_flight_ = Cardinality(In({"handshaking"}))
IPMatch ==
  /\ DOMAIN per_ip_count_ = {peer_ip[c] : c \in Seated}
  /\ \A ip \in DOMAIN per_ip_count_ : per_ip_count_[ip] = Cardinality(SeatedFrom(ip))

\* The counters follow a move from state from to state to: a counter that stands
\* for the connections in S goes up when S is entered and down when it is left.
Follows(old, new, from, to, S) ==
  \/ (from \in S <=> to \in S) /\ new = old
  \/ from \notin S /\ to \in S /\ new = old + 1
  \/ from \in S /\ to \notin S /\ new = old - 1

LEMMA MoveCounts ==
  ASSUME TypeOK, SeatInv, NEW c \in Conns, NEW st \in States,
         state' = [state EXCEPT ![c] = st],
         Follows(global_session_count_, global_session_count_', state[c], st,
                 {"counted", "serving"}),
         Follows(handshakes_in_flight_, handshakes_in_flight_', state[c], st,
                 {"handshaking"}),
         st \in {"admitting", "counted"} =>
           state[c] \in {"admitting", "counted"} \/ Cardinality(OnThread) < Threads
  PROVE  /\ GlobalMatch' /\ SlotMatch' /\ ThreadInv'
         /\ global_session_count_' \in Nat /\ handshakes_in_flight_' \in Nat
<1> DEFINE f == state
           g == state'
           n(h, S) == Cardinality(At(h, S))
<1>1. /\ f \in [Conns -> States] /\ g \in [Conns -> States]
      /\ g[c] = st /\ \A d \in Conns : d # c => g[d] = f[d]
  BY DEF TypeOK
<1>2. /\ Counted = At(f, {"counted", "serving"})
      /\ Counted' = At(g, {"counted", "serving"})
      /\ In({"handshaking"}) = At(f, {"handshaking"})
      /\ In({"handshaking"})' = At(g, {"handshaking"})
      /\ OnThread = At(f, {"admitting", "counted"})
      /\ OnThread' = At(g, {"admitting", "counted"})
  BY DEF Counted, OnThread, In, At
<1> HIDE DEF f, g
<1>3. \A S : /\ n(f, S) \in Nat /\ n(g, S) \in Nat
             /\ (f[c] \in S <=> g[c] \in S) => n(g, S) = n(f, S)
             /\ f[c] \notin S /\ g[c] \in S => n(g, S) = n(f, S) + 1
             /\ f[c] \in S /\ g[c] \notin S => n(g, S) = n(f, S) - 1
  BY <1>1, CardMoves
<1>4. GlobalMatch' /\ global_session_count_' \in Nat
  BY <1>1, <1>2, <1>3 DEF GlobalMatch, SeatInv, SeatsMatch, Follows, f
<1>5. SlotMatch' /\ handshakes_in_flight_' \in Nat
  BY <1>1, <1>2, <1>3 DEF SlotMatch, SeatInv, SeatsMatch, Follows, f
<1>6. ThreadInv'
  BY <1>1, <1>2, <1>3, AdmissionAssumption DEF ThreadInv, SeatInv, f
<1> QED
  BY <1>4, <1>5, <1>6

\* No address gains or loses a seat.
LEMMA MoveSeats ==
  ASSUME TypeOK, SeatInv, UNCHANGED per_ip_count_,
         NEW c \in Conns, NEW st \in States, NEW f \in BOOLEAN, NEW p \in IPs \cup {NoIP},
         Move(c, st, f, p),
         st \in {"serving", "uncounted"} <=> state[c] \in {"serving", "uncounted"},
         st \in {"serving", "uncounted"} => p = peer_ip[c]
  PROVE  IPMatch'
<1>1. Seated' = Seated
  BY MoveFacts DEF Seated, In
<1>2. \A d \in Seated : peer_ip'[d] = peer_ip[d]
  BY MoveFacts DEF Seated, In
<1>3. \A ip : SeatedFrom(ip)' = SeatedFrom(ip)
  BY <1>1, <1>2 DEF SeatedFrom
<1>4. {peer_ip'[d] : d \in Seated'} = {peer_ip[d] : d \in Seated}
  BY <1>1, <1>2
<1> QED
  BY <1>3, <1>4 DEF IPMatch, SeatInv, SeatsMatch

\* The loop works on one connection, and marks it when the filter is done.
LEMMA MoveLoop ==
  ASSUME TypeOK, SeatInv,
         NEW c \in Conns, NEW st \in States, NEW f \in BOOLEAN, NEW p \in IPs \cup {NoIP},
         Move(c, st, f, p),
         st \in {"probed", "accepted"} =>
           state[c] \in {"probed", "accepted"} \/ LoopIsFree,
         st \in {"new", "probed"} => ~f
  PROVE  LoopInv' /\ FilterInv'
<1>1. LoopInv'
  BY MoveFacts DEF SeatInv, LoopInv, LoopIsFree, In
<1>2. FilterInv'
  BY MoveFacts DEF SeatInv, FilterInv
<1> QED
  BY <1>1, <1>2

\* A connection enters the pipe only where a cap has been tested.
LEMMA MovePipe ==
  ASSUME TypeOK, SeatInv,
         NEW c \in Conns, NEW st \in States, NEW f \in BOOLEAN, NEW p \in IPs \cup {NoIP},
         Move(c, st, f, p)
  PROVE  /\ (InPipe(st, f) => InPipe(state[c], filtered[c])) => GlobalBound(Cardinality(Pipe'))
         /\ \A ip \in IPs :
              (InPipeFrom(ip, ipOf[c], st, f, p) =>
                 InPipeFrom(ip, ipOf[c], state[c], filtered[c], peer_ip[c])) =>
              PerIPBound(Cardinality(PipeFrom(ip)'))
<1>1. ASSUME InPipe(st, f) => InPipe(state[c], filtered[c])
      PROVE  GlobalBound(Cardinality(Pipe'))
  <2>1. Pipe' \subseteq Pipe /\ Pipe \subseteq Conns
    BY <1>1, MoveFacts DEF Pipe
  <2>2. /\ Cardinality(Pipe) \in Nat /\ Cardinality(Pipe') \in Nat
        /\ Cardinality(Pipe') <= Cardinality(Pipe)
    BY <2>1, FewerConns
  <2> QED
    BY <2>2, BoundsDown DEF SeatInv, PipeInv
<1>2. ASSUME NEW ip \in IPs,
             InPipeFrom(ip, ipOf[c], st, f, p) =>
               InPipeFrom(ip, ipOf[c], state[c], filtered[c], peer_ip[c])
      PROVE  PerIPBound(Cardinality(PipeFrom(ip)'))
  <2>1. PipeFrom(ip)' \subseteq PipeFrom(ip) /\ PipeFrom(ip) \subseteq Conns
    BY <1>2, MoveFacts DEF PipeFrom, Move
  <2>2. /\ Cardinality(PipeFrom(ip)) \in Nat /\ Cardinality(PipeFrom(ip)') \in Nat
        /\ Cardinality(PipeFrom(ip)') <= Cardinality(PipeFrom(ip))
    BY <2>1, FewerConns
  <2> QED
    BY <2>2, BoundsDown DEF SeatInv, PipeInv
<1> QED
  BY <1>1, <1>2


LEMMA SeatParts ==
  /\ SeatsMatch <=> GlobalMatch /\ SlotMatch /\ IPMatch
  /\ SeatsMatch' <=> GlobalMatch' /\ SlotMatch' /\ IPMatch'
  BY DEF SeatsMatch, GlobalMatch, SlotMatch, IPMatch

\* No cap is at stake, and no address gains or loses a seat: nothing has to be
\* said of such a move but that the counters follow it.
LEMMA PlainMove ==
  ASSUME TypeOK, SeatInv, UNCHANGED per_ip_count_,
         NEW c \in Conns, NEW st \in States, NEW f \in BOOLEAN, NEW p \in IPs \cup {NoIP},
         Move(c, st, f, p),
         Follows(global_session_count_, global_session_count_', state[c], st,
                 {"counted", "serving"}),
         Follows(handshakes_in_flight_, handshakes_in_flight_', state[c], st,
                 {"handshaking"}),
         handshakes_in_flight_' > handshakes_in_flight_ =>
           \E l \in Limits : handshakes_in_flight_' <= l.max_concurrent_handshakes,
         st \in {"admitting", "counted"} =>
           state[c] \in {"admitting", "counted"} \/ Cardinality(OnThread) < Threads,
         st \in {"serving", "uncounted"} <=> state[c] \in {"serving", "uncounted"},
         st \in {"serving", "uncounted"} => p = peer_ip[c],
         st \in {"probed", "accepted"} =>
           state[c] \in {"probed", "accepted"} \/ LoopIsFree,
         st \in {"new", "probed"} => ~f,
         InPipe(st, f) => InPipe(state[c], filtered[c]),
         \A ip \in IPs : InPipeFrom(ip, ipOf[c], st, f, p) =>
                           InPipeFrom(ip, ipOf[c], state[c], filtered[c], peer_ip[c])
  PROVE  SeatTypes' /\ SeatInv'
<1>1. state' = [state EXCEPT ![c] = st]
  BY DEF Move
<1>2. /\ GlobalMatch' /\ SlotMatch' /\ ThreadInv'
      /\ global_session_count_' \in Nat /\ handshakes_in_flight_' \in Nat
  BY <1>1, MoveCounts
<1>3. IPMatch'
  BY MoveSeats
<1>4. LoopInv' /\ FilterInv'
  BY MoveLoop
<1>5. PipeInv'
  BY MovePipe DEF PipeInv
<1>6. /\ state' \in [Conns -> States] /\ filtered' \in [Conns -> BOOLEAN]
      /\ peer_ip' \in [Conns -> IPs \cup {NoIP}]
  BY MoveFacts
<1>7. handshakes_in_flight_' > 0 =>
        \E l \in Limits : handshakes_in_flight_' <= l.max_concurrent_handshakes
  <2>1. \A l \in Limits : l.max_concurrent_handshakes \in Nat
    BY AdmissionAssumption DEF LimitsType
  <2> QED
    BY <1>2, <2>1 DEF TypeOK
<1>8. SeatTypes'
  BY <1>2, <1>6, <1>7 DEF TypeOK, SeatTypes
<1> QED
  BY <1>2, <1>3, <1>4, <1>5, <1>8, SeatParts DEF SeatInv

-----------------------------------------------------------------------------
(* The steps of a connection: the seats *)

\* A connection is turned away by the accept loop or the filter.
LEMMA AwayStep ==
  ASSUME TypeOK, SeatInv, NEW c \in Conns, Vanish(c),
         state[c] \in {"new", "probed", "accepted"},
         UNCHANGED <<ipOf, global_session_count_, per_ip_count_, handshakes_in_flight_>>
  PROVE  SeatTypes' /\ SeatInv'
<1>1. Move(c, "gone", FALSE, NoIP)
  BY DEF Vanish, Goto, Move
<1>2. /\ Follows(global_session_count_, global_session_count_', state[c], "gone",
                 {"counted", "serving"})
      /\ Follows(handshakes_in_flight_, handshakes_in_flight_', state[c], "gone",
                 {"handshaking"})
      /\ ~(handshakes_in_flight_' > handshakes_in_flight_)
  BY DEF Follows, TypeOK
<1>3. /\ ~InPipe("gone", FALSE)
      /\ \A ip \in IPs : ~InPipeFrom(ip, ipOf[c], "gone", FALSE, NoIP)
  BY DEF InPipe, InPipeFrom
<1> QED
  BY <1>1, <1>2, <1>3, PlainMove

\* The same for a handshake that fails: its slot is given back.
LEMMA HandshakeFailsSeats ==
  ASSUME TypeOK, SeatInv, NEW c \in Conns, HandshakeFails(c)
  PROVE  SeatTypes' /\ SeatInv'
<1>1. Move(c, "gone", FALSE, NoIP) /\ UNCHANGED per_ip_count_ /\ state[c] = "handshaking"
  BY DEF HandshakeFails, Vanish, Goto, Move
<1>2. /\ Follows(global_session_count_, global_session_count_', state[c], "gone",
                 {"counted", "serving"})
      /\ Follows(handshakes_in_flight_, handshakes_in_flight_', state[c], "gone",
                 {"handshaking"})
      /\ ~(handshakes_in_flight_' > handshakes_in_flight_)
  BY <1>1 DEF HandshakeFails, Follows, TypeOK
<1>3. /\ ~InPipe("gone", FALSE)
      /\ \A ip \in IPs : ~InPipeFrom(ip, ipOf[c], "gone", FALSE, NoIP)
  BY DEF InPipe, InPipeFrom
<1> QED
  BY <1>1, <1>2, <1>3, PlainMove

\* A connection that skips the filter is in no pipe.
LEMMA AcceptUnfilteredSeats ==
  ASSUME TypeOK, SeatInv, NEW c \in Conns, AcceptUnfiltered(c)
  PROVE  SeatTypes' /\ SeatInv'
<1>1. /\ filtered[c] \in BOOLEAN /\ peer_ip[c] \in IPs \cup {NoIP}
      /\ state[c] = "new" /\ LoopIsFree /\ UNCHANGED per_ip_count_
  BY DEF TypeOK, AcceptUnfiltered, Taken
<1>2. Move(c, "accepted", filtered[c], peer_ip[c])
  BY DEF TypeOK, AcceptUnfiltered, Goto, Move
<1>3. ~filtered[c]
  BY <1>1 DEF SeatInv, FilterInv
<1>4. /\ Follows(global_session_count_, global_session_count_', state[c], "accepted",
                 {"counted", "serving"})
      /\ Follows(handshakes_in_flight_, handshakes_in_flight_', state[c], "accepted",
                 {"handshaking"})
      /\ ~(handshakes_in_flight_' > handshakes_in_flight_)
  BY <1>1 DEF AcceptUnfiltered, Follows, TypeOK
<1>5. /\ ~InPipe("accepted", filtered[c])
      /\ \A ip \in IPs : ~InPipeFrom(ip, ipOf[c], "accepted", filtered[c], peer_ip[c])
  BY <1>3 DEF InPipe, InPipeFrom
<1> QED
  BY <1>1, <1>2, <1>4, <1>5, PlainMove

\* A handshake is spawned under the cap of the moment.
LEMMA SpawnHandshakeSeats ==
  ASSUME TypeOK, SeatInv, NEW c \in Conns, SpawnHandshake(c)
  PROVE  SeatTypes' /\ SeatInv'
<1>1. /\ filtered[c] \in BOOLEAN /\ peer_ip[c] \in IPs \cup {NoIP}
      /\ state[c] = "accepted" /\ UNCHANGED per_ip_count_
  BY DEF TypeOK, SpawnHandshake
<1>2. Move(c, "handshaking", filtered[c], peer_ip[c])
  BY DEF TypeOK, SpawnHandshake, Goto, Move
<1>3. /\ Follows(global_session_count_, global_session_count_', state[c], "handshaking",
                 {"counted", "serving"})
      /\ Follows(handshakes_in_flight_, handshakes_in_flight_', state[c], "handshaking",
                 {"handshaking"})
  BY <1>1 DEF SpawnHandshake, Follows
<1>4. \E l \in Limits : handshakes_in_flight_' <= l.max_concurrent_handshakes
  <2>1. /\ limits_ \in Limits /\ limits_.max_concurrent_handshakes \in Nat
        /\ handshakes_in_flight_ \in Nat
    BY AdmissionAssumption DEF TypeOK, LimitsType
  <2>2. handshakes_in_flight_' <= limits_.max_concurrent_handshakes
    BY <2>1 DEF SpawnHandshake
  <2> QED
    BY <2>1, <2>2
<1>5. /\ InPipe("handshaking", filtered[c]) => InPipe("accepted", filtered[c])
      /\ \A ip \in IPs :
           InPipeFrom(ip, ipOf[c], "handshaking", filtered[c], peer_ip[c]) =>
             InPipeFrom(ip, ipOf[c], "accepted", filtered[c], peer_ip[c])
  BY DEF InPipe, InPipeFrom
<1> QED
  BY <1>1, <1>2, <1>3, <1>4, <1>5, PlainMove

\* The session is built on a thread that was free.
LEMMA HandshakeDoneSeats ==
  ASSUME TypeOK, SeatInv, NEW c \in Conns, HandshakeDone(c)
  PROVE  SeatTypes' /\ SeatInv'
<1>1. /\ filtered[c] \in BOOLEAN /\ ipOf[c] \in IPs
      /\ state[c] = "handshaking" /\ UNCHANGED <<per_ip_count_, ipOf>>
      /\ Cardinality(OnThread) < Threads
  BY AdmissionAssumption DEF TypeOK, HandshakeDone
<1>2. PICK q \in {ipOf[c], NoIP} : Move(c, "admitting", filtered[c], q)
  BY DEF TypeOK, HandshakeDone, Goto, Move
<1>3. q \in IPs \cup {NoIP}
  BY <1>1
<1>4. /\ Follows(global_session_count_, global_session_count_', state[c], "admitting",
                 {"counted", "serving"})
      /\ Follows(handshakes_in_flight_, handshakes_in_flight_', state[c], "admitting",
                 {"handshaking"})
      /\ ~(handshakes_in_flight_' > handshakes_in_flight_)
  BY <1>1 DEF HandshakeDone, Follows, TypeOK
<1>5. /\ InPipe("admitting", filtered[c]) => InPipe("handshaking", filtered[c])
      /\ \A ip \in IPs :
           InPipeFrom(ip, ipOf[c], "admitting", filtered[c], q) =>
             InPipeFrom(ip, ipOf[c], "handshaking", filtered[c], peer_ip[c])
  BY AdmissionAssumption DEF InPipe, InPipeFrom
<1> QED
  BY <1>1, <1>2, <1>3, <1>4, <1>5, PlainMove

LEMMA CountGlobalSeats ==
  ASSUME TypeOK, SeatInv, NEW c \in Conns, CountGlobal(c)
  PROVE  SeatTypes' /\ SeatInv'
<1>1. /\ filtered[c] \in BOOLEAN /\ peer_ip[c] \in IPs \cup {NoIP}
      /\ state[c] = "admitting" /\ UNCHANGED per_ip_count_
  BY DEF TypeOK, CountGlobal
<1>2. Move(c, "counted", filtered[c], peer_ip[c])
  BY DEF TypeOK, CountGlobal, Goto, Move
<1>3. /\ Follows(global_session_count_, global_session_count_', state[c], "counted",
                 {"counted", "serving"})
      /\ Follows(handshakes_in_flight_, handshakes_in_flight_', state[c], "counted",
                 {"handshaking"})
      /\ ~(handshakes_in_flight_' > handshakes_in_flight_)
  BY <1>1 DEF CountGlobal, Follows, TypeOK
<1>4. /\ InPipe("counted", filtered[c]) => InPipe("admitting", filtered[c])
      /\ \A ip \in IPs :
           InPipeFrom(ip, ipOf[c], "counted", filtered[c], peer_ip[c]) =>
             InPipeFrom(ip, ipOf[c], "admitting", filtered[c], peer_ip[c])
  BY DEF InPipe, InPipeFrom
<1> QED
  BY <1>1, <1>2, <1>3, <1>4, PlainMove

LEMMA ReleaseGlobalSeats ==
  ASSUME TypeOK, SeatInv, NEW c \in Conns, ReleaseGlobal(c)
  PROVE  SeatTypes' /\ SeatInv'
<1>1. /\ filtered[c] \in BOOLEAN /\ peer_ip[c] \in IPs \cup {NoIP}
      /\ state[c] = "serving" /\ UNCHANGED per_ip_count_
  BY DEF TypeOK, ReleaseGlobal
<1>2. Move(c, "uncounted", filtered[c], peer_ip[c])
  BY DEF TypeOK, ReleaseGlobal, Goto, Move
<1>3. /\ Follows(global_session_count_, global_session_count_', state[c], "uncounted",
                 {"counted", "serving"})
      /\ Follows(handshakes_in_flight_, handshakes_in_flight_', state[c], "uncounted",
                 {"handshaking"})
      /\ ~(handshakes_in_flight_' > handshakes_in_flight_)
  BY <1>1 DEF ReleaseGlobal, Follows, TypeOK
<1>4. /\ InPipe("uncounted", filtered[c]) => InPipe("serving", filtered[c])
      /\ \A ip \in IPs :
           InPipeFrom(ip, ipOf[c], "uncounted", filtered[c], peer_ip[c]) =>
             InPipeFrom(ip, ipOf[c], "serving", filtered[c], peer_ip[c])
  BY DEF InPipe, InPipeFrom
<1> QED
  BY <1>1, <1>2, <1>3, <1>4, PlainMove


\* The sessions seated for an address, and the counter that is meant to say how
\* many they are.
SeatsOf(st, p, ip) == {d \in Conns : st[d] \in {"serving", "uncounted"} /\ p[d] = ip}
SeatCounts(count, st, p) ==
  \A ip : /\ ip \in DOMAIN count <=> SeatsOf(st, p, ip) # {}
          /\ ip \in DOMAIN count => count[ip] = Cardinality(SeatsOf(st, p, ip))

LEMMA SeatsOfFacts ==
  /\ IPMatch <=> SeatCounts(per_ip_count_, state, peer_ip)
  /\ IPMatch' <=> SeatCounts(per_ip_count_', state', peer_ip')
<1>1. /\ \A ip : SeatedFrom(ip) = SeatsOf(state, peer_ip, ip)
      /\ \A ip : SeatsOf(state, peer_ip, ip) # {} <=> ip \in {peer_ip[d] : d \in Seated}
  BY DEF SeatedFrom, Seated, In, SeatsOf
<1>2. /\ \A ip : SeatedFrom(ip)' = SeatsOf(state', peer_ip', ip)
      /\ \A ip : SeatsOf(state', peer_ip', ip) # {} <=> ip \in {peer_ip'[d] : d \in Seated'}
  BY DEF SeatedFrom, Seated, In, SeatsOf
<1>3. IPMatch <=> SeatCounts(per_ip_count_, state, peer_ip)
  BY <1>1 DEF IPMatch, SeatCounts
<1>4. IPMatch' <=> SeatCounts(per_ip_count_', state', peer_ip')
  BY <1>2 DEF IPMatch, SeatCounts
<1> QED
  BY <1>3, <1>4

\* ++per_ip_count_[ip] counts one session more for that address only.
LEMMA IncrementSeats ==
  ASSUME NEW count, NEW st, NEW st2, NEW p, NEW c \in Conns,
         SeatCounts(count, st, p),
         \A d \in Conns : d # c => st2[d] = st[d],
         st[c] \notin {"serving", "uncounted"}, st2[c] \in {"serving", "uncounted"}
  PROVE  SeatCounts(Increment(count, p[c]), st2, p)
<1> DEFINE S(ip) == SeatsOf(st, p, ip)
           T(ip) == SeatsOf(st2, p, ip)
           new == Increment(count, p[c])
           n == IF p[c] \in DOMAIN count THEN count[p[c]] + 1 ELSE 1
<1>1. /\ \A ip : ip # p[c] => T(ip) = S(ip)
      /\ T(p[c]) = S(p[c]) \cup {c} /\ c \notin S(p[c])
      /\ S(p[c]) \in SUBSET Conns
  BY DEF SeatsOf
<1>2. new = [ip \in DOMAIN count \cup {p[c]} |-> IF ip = p[c] THEN n ELSE count[ip]]
  BY DEF Increment, Put
<1>3. Cardinality(T(p[c])) = Cardinality(S(p[c])) + 1
  BY <1>1, OneMore
<1>4. n = Cardinality(T(p[c])) /\ T(p[c]) # {}
  <2>1. T(p[c]) # {}
    BY <1>1
  <2>2. CASE p[c] \in DOMAIN count
    BY <1>3, <2>1, <2>2 DEF SeatCounts
  <2>3. CASE p[c] \notin DOMAIN count
    <3>1. Cardinality(S(p[c])) = 0
      BY <2>3, FS_EmptySet DEF SeatCounts
    <3> QED
      BY <1>3, <2>1, <2>3, <3>1
  <2> QED
    BY <2>2, <2>3
<1>5. \A ip : ip # p[c] =>
        /\ ip \in DOMAIN count <=> T(ip) # {}
        /\ ip \in DOMAIN count => count[ip] = Cardinality(T(ip))
  BY <1>1 DEF SeatCounts
<1>6. DOMAIN new = DOMAIN count \cup {p[c]}
  BY <1>2
<1>7. new[p[c]] = n /\ \A ip \in DOMAIN count : ip # p[c] => new[ip] = count[ip]
  BY <1>2
<1> HIDE DEF new, n, T
<1>8. \A ip : /\ ip \in DOMAIN new <=> T(ip) # {}
              /\ ip \in DOMAIN new => new[ip] = Cardinality(T(ip))
  BY <1>4, <1>5, <1>6, <1>7
<1> QED
  BY <1>8 DEF SeatCounts, new, T

\* The entry of an address goes with its last session.
LEMMA DecrementSeats ==
  ASSUME NEW count, NEW st, NEW st2, NEW p, NEW p2, NEW c \in Conns,
         SeatCounts(count, st, p),
         \A d \in Conns : d # c => st2[d] = st[d] /\ p2[d] = p[d],
         st[c] \in {"serving", "uncounted"}, st2[c] \notin {"serving", "uncounted"}
  PROVE  SeatCounts(Decrement(count, p[c]), st2, p2)
<1> DEFINE S(ip) == SeatsOf(st, p, ip)
           T(ip) == SeatsOf(st2, p2, ip)
           new == Decrement(count, p[c])
<1>1. /\ \A ip : ip # p[c] => T(ip) = S(ip)
      /\ T(p[c]) = S(p[c]) \ {c} /\ c \in S(p[c])
      /\ S(p[c]) \in SUBSET Conns /\ T(p[c]) \in SUBSET Conns
  BY DEF SeatsOf
<1>2. p[c] \in DOMAIN count /\ count[p[c]] = Cardinality(S(p[c]))
  BY <1>1 DEF SeatCounts
<1>3. /\ Cardinality(T(p[c])) = count[p[c]] - 1
      /\ count[p[c]] \in Nat /\ count[p[c]] > 0
  BY <1>1, <1>2, OneMore
<1>4. T(p[c]) = {} <=> count[p[c]] = 1
  <2>1. IsFiniteSet(T(p[c]))
    BY <1>1, ConnsFinite
  <2>2. Cardinality(T(p[c])) = 0 <=> T(p[c]) = {}
    BY <2>1, FS_EmptySet
  <2> QED
    BY <1>3, <2>2
<1>5. \A ip : ip # p[c] =>
        /\ ip \in DOMAIN count <=> T(ip) # {}
        /\ ip \in DOMAIN count => count[ip] = Cardinality(T(ip))
  BY <1>1 DEF SeatCounts
<1>6. CASE count[p[c]] = 1
  <2>1. new = [ip \in DOMAIN count \ {p[c]} |-> count[ip]]
    BY <1>2, <1>6 DEF Decrement, Erase
  <2>2. DOMAIN new = DOMAIN count \ {p[c]} /\ \A ip \in DOMAIN new : new[ip] = count[ip]
    BY <2>1
  <2> HIDE DEF new, T
  <2>3. \A ip : /\ ip \in DOMAIN new <=> T(ip) # {}
                /\ ip \in DOMAIN new => new[ip] = Cardinality(T(ip))
    BY <1>4, <1>5, <1>6, <2>2
  <2> QED
    BY <2>3 DEF SeatCounts, new, T
<1>7. CASE count[p[c]] # 1
  <2>1. new = [count EXCEPT ![p[c]] = count[p[c]] - 1]
    BY <1>2, <1>7 DEF Decrement
  <2>2. /\ DOMAIN new = DOMAIN count /\ new[p[c]] = count[p[c]] - 1
        /\ \A ip \in DOMAIN count : ip # p[c] => new[ip] = count[ip]
    BY <1>2, <2>1
  <2> HIDE DEF new, T
  <2>3. \A ip : /\ ip \in DOMAIN new <=> T(ip) # {}
                /\ ip \in DOMAIN new => new[ip] = Cardinality(T(ip))
    BY <1>2, <1>3, <1>4, <1>5, <1>7, <2>2
  <2> QED
    BY <2>3 DEF SeatCounts, new, T
<1> QED
  BY <1>6, <1>7


\* A counter that says how many sessions there are is never zero.
LEMMA SeatCountTypes ==
  ASSUME NEW count, NEW st, NEW p \in [Conns -> IPs \cup {NoIP}],
         SeatCounts(count, st, p), count = [ip \in DOMAIN count |-> count[ip]]
  PROVE  /\ DOMAIN count \subseteq IPs \cup {NoIP}
         /\ count \in [DOMAIN count -> Nat \ {0}]
<1>1. ASSUME NEW ip \in DOMAIN count
      PROVE  ip \in IPs \cup {NoIP} /\ count[ip] \in Nat \ {0}
  <2>1. /\ SeatsOf(st, p, ip) # {} /\ count[ip] = Cardinality(SeatsOf(st, p, ip))
        /\ SeatsOf(st, p, ip) \in SUBSET Conns
    BY DEF SeatCounts, SeatsOf
  <2>2. PICK d \in SeatsOf(st, p, ip) : TRUE
    BY <2>1
  <2>3. count[ip] \in Nat /\ count[ip] > 0
    BY <2>1, <2>2, OneMore
  <2>4. ip \in IPs \cup {NoIP}
    BY <2>2 DEF SeatsOf
  <2> QED
    BY <2>3, <2>4
<1> QED
  BY <1>1

\* The session is counted for its address ...
LEMMA CountPerIPSeats ==
  ASSUME TypeOK, SeatInv, NEW c \in Conns, CountPerIP(c)
  PROVE  SeatTypes' /\ SeatInv'
<1>1. /\ filtered[c] \in BOOLEAN /\ peer_ip[c] \in IPs \cup {NoIP}
      /\ state[c] = "counted" /\ UNCHANGED peer_ip
      /\ per_ip_count_' = Increment(per_ip_count_, peer_ip[c])
  BY DEF TypeOK, CountPerIP
<1>2. Move(c, "serving", filtered[c], peer_ip[c])
  BY DEF TypeOK, CountPerIP, Goto, Move
<1>3. /\ state' = [state EXCEPT ![c] = "serving"]
      /\ Follows(global_session_count_, global_session_count_', state[c], "serving",
                 {"counted", "serving"})
      /\ Follows(handshakes_in_flight_, handshakes_in_flight_', state[c], "serving",
                 {"handshaking"})
  BY <1>1, <1>2 DEF CountPerIP, Follows, Move
<1>4. /\ GlobalMatch' /\ SlotMatch' /\ ThreadInv'
      /\ global_session_count_' \in Nat /\ handshakes_in_flight_' \in Nat
  BY <1>3, MoveCounts
<1>5. /\ state' \in [Conns -> States] /\ filtered' \in [Conns -> BOOLEAN]
      /\ peer_ip' \in [Conns -> IPs \cup {NoIP}] /\ state'[c] = "serving"
      /\ \A d \in Conns : d # c => state'[d] = state[d]
  BY <1>1, <1>2, MoveFacts
<1>6. SeatCounts(per_ip_count_', state', peer_ip')
  <2>1. SeatCounts(per_ip_count_, state, peer_ip)
    BY SeatsOfFacts, SeatParts DEF SeatInv
  <2>2. SeatCounts(Increment(per_ip_count_, peer_ip[c]), state', peer_ip)
    BY <1>1, <1>5, <2>1, IncrementSeats
  <2> QED
    BY <1>1, <2>2
<1>7. per_ip_count_' = [ip \in DOMAIN per_ip_count_' |-> per_ip_count_'[ip]]
  BY <1>1 DEF Increment, Put
<1>8. SeatTypes'
  <2>1. /\ DOMAIN per_ip_count_' \subseteq IPs \cup {NoIP}
        /\ per_ip_count_' \in [DOMAIN per_ip_count_' -> Nat \ {0}]
    BY <1>5, <1>6, <1>7, SeatCountTypes
  <2>2. UNCHANGED handshakes_in_flight_
    BY DEF CountPerIP
  <2> QED
    BY <1>4, <1>5, <2>1, <2>2 DEF TypeOK, SeatTypes
<1>9. /\ InPipe("serving", filtered[c]) => InPipe("counted", filtered[c])
      /\ \A ip \in IPs :
           InPipeFrom(ip, ipOf[c], "serving", filtered[c], peer_ip[c]) =>
             InPipeFrom(ip, ipOf[c], "counted", filtered[c], peer_ip[c])
  BY DEF InPipe, InPipeFrom
<1>10. LoopInv' /\ FilterInv'
  BY <1>1, <1>2, MoveLoop
<1>11. PipeInv'
  BY <1>1, <1>2, <1>9, MovePipe DEF PipeInv
<1>12. IPMatch'
  BY <1>6, SeatsOfFacts
<1> QED
  BY <1>4, <1>8, <1>10, <1>11, <1>12, SeatParts DEF SeatInv

\* ... and its seat given back in the completion handler.
LEMMA ReleasePerIPSeats ==
  ASSUME TypeOK, SeatInv, NEW c \in Conns, ReleasePerIP(c)
  PROVE  SeatTypes' /\ SeatInv'
<1>1. /\ state[c] = "uncounted"
      /\ per_ip_count_' = Decrement(per_ip_count_, peer_ip[c])
  BY DEF ReleasePerIP
<1>2. Move(c, "gone", FALSE, NoIP)
  BY DEF ReleasePerIP, Vanish, Goto, Move
<1>3. /\ state' = [state EXCEPT ![c] = "gone"]
      /\ Follows(global_session_count_, global_session_count_', state[c], "gone",
                 {"counted", "serving"})
      /\ Follows(handshakes_in_flight_, handshakes_in_flight_', state[c], "gone",
                 {"handshaking"})
  BY <1>1, <1>2 DEF ReleasePerIP, Follows, Move
<1>4. /\ GlobalMatch' /\ SlotMatch' /\ ThreadInv'
      /\ global_session_count_' \in Nat /\ handshakes_in_flight_' \in Nat
  BY <1>3, MoveCounts
<1>5. /\ state' \in [Conns -> States] /\ filtered' \in [Conns -> BOOLEAN]
      /\ peer_ip' \in [Conns -> IPs \cup {NoIP}] /\ state'[c] = "gone"
      /\ \A d \in Conns : d # c => state'[d] = state[d] /\ peer_ip'[d] = peer_ip[d]
  BY <1>2, MoveFacts
<1>6. SeatCounts(per_ip_count_', state', peer_ip')
  <2>1. SeatCounts(per_ip_count_, state, peer_ip)
    BY SeatsOfFacts, SeatParts DEF SeatInv
  <2>2. SeatCounts(Decrement(per_ip_count_, peer_ip[c]), state', peer_ip')
    BY <1>1, <1>5, <2>1, DecrementSeats
  <2> QED
    BY <1>1, <2>2
<1>7. per_ip_count_' = [ip \in DOMAIN per_ip_count_' |-> per_ip_count_'[ip]]
  BY <1>1 DEF Decrement, Erase, TypeOK
<1>8. SeatTypes'
  <2>1. /\ DOMAIN per_ip_count_' \subseteq IPs \cup {NoIP}
        /\ per_ip_count_' \in [DOMAIN per_ip_count_' -> Nat \ {0}]
    BY <1>5, <1>6, <1>7, SeatCountTypes
  <2>2. UNCHANGED handshakes_in_flight_
    BY DEF ReleasePerIP
  <2> QED
    BY <1>4, <1>5, <2>1, <2>2 DEF TypeOK, SeatTypes
<1>9. /\ ~InPipe("gone", FALSE)
      /\ \A ip \in IPs : ~InPipeFrom(ip, ipOf[c], "gone", FALSE, NoIP)
  BY DEF InPipe, InPipeFrom
<1>10. LoopInv' /\ FilterInv'
  BY <1>2, MoveLoop
<1>11. PipeInv'
  BY <1>2, <1>9, MovePipe DEF PipeInv
<1>12. IPMatch'
  BY <1>6, SeatsOfFacts
<1> QED
  BY <1>4, <1>8, <1>10, <1>11, <1>12, SeatParts DEF SeatInv

-----------------------------------------------------------------------------
(* The caps *)

\* What is on its way when a cap is tested: the handshakes in flight, what is on a
\* thread, and the connection itself, on top of the sessions counted.
LEMMA Crowd ==
  ASSUME TypeOK, SeatInv, NEW c \in Conns, NEW S \in SUBSET Conns, NEW T,
         T \subseteq S \cup In({"handshaking"}) \cup OnThread \cup {c},
         NEW cap \in Nat, Cardinality(S) < cap
  PROVE  \E h \in Limits :
           Cardinality(T) <= cap + h.max_concurrent_handshakes + Threads
<1> DEFINE H == In({"handshaking"})
           A == S \cup H
           B == OnThread \cup {c}
<1>1. /\ H \in SUBSET Conns /\ OnThread \in SUBSET Conns /\ {c} \in SUBSET Conns
      /\ A \in SUBSET Conns /\ B \in SUBSET Conns /\ A \cup B \in SUBSET Conns
      /\ T \in SUBSET (A \cup B)
  BY DEF OnThread, In
<1>2. /\ Cardinality(S) \in Nat /\ Cardinality(H) \in Nat /\ Cardinality(OnThread) \in Nat
      /\ Cardinality({c}) = 1 /\ Cardinality(A) \in Nat /\ Cardinality(B) \in Nat
  BY <1>1, ConnsFinite, FS_Singleton
<1>3. Cardinality(A) <= Cardinality(S) + Cardinality(H)
  BY <1>1, UnionBound
<1>4. Cardinality(B) <= Cardinality(OnThread) + Cardinality({c})
  BY <1>1, UnionBound
<1>5. Cardinality(A \cup B) \in Nat /\ Cardinality(A \cup B) <= Cardinality(A) + Cardinality(B)
  BY <1>1, UnionBound
<1>6. Cardinality(T) \in Nat /\ Cardinality(T) <= Cardinality(A \cup B)
  BY <1>1, FewerConns
<1>7. PICK h \in Limits : Cardinality(H) <= h.max_concurrent_handshakes
  <2>1. limits_ \in Limits /\ limits_.max_concurrent_handshakes \in Nat
    BY AdmissionAssumption DEF TypeOK, LimitsType
  <2>2. Cardinality(H) = handshakes_in_flight_
    BY DEF SeatInv, SeatsMatch
  <2> QED
    BY <1>2, <2>1, <2>2 DEF TypeOK
<1>8. Cardinality(OnThread) <= Threads /\ Threads \in Nat
  BY AdmissionAssumption DEF SeatInv, ThreadInv
<1>9. h.max_concurrent_handshakes \in Nat
  BY AdmissionAssumption DEF LimitsType
<1> HIDE DEF H, A, B
<1>10. Cardinality(T) <= cap + h.max_concurrent_handshakes + Threads
  BY <1>2, <1>3, <1>4, <1>5, <1>6, <1>7, <1>8, <1>9
<1> QED
  BY <1>10


\* The probe of the global cap.
LEMMA ProbeGlobalSeats ==
  ASSUME TypeOK, SeatInv, NEW c \in Conns, ProbeGlobal(c)
  PROVE  SeatTypes' /\ SeatInv'
<1>1. /\ state[c] = "new" /\ LoopIsFree
      /\ UNCHANGED <<ipOf, global_session_count_, per_ip_count_, handshakes_in_flight_>>
  BY DEF ProbeGlobal, Taken
<1>2. CASE ~UnderGlobalCap
  BY <1>1, <1>2, AwayStep DEF ProbeGlobal
<1>3. CASE UnderGlobalCap
  <2>1. /\ filtered[c] \in BOOLEAN /\ peer_ip[c] \in IPs \cup {NoIP} /\ ~filtered[c]
    BY <1>1 DEF TypeOK, SeatInv, FilterInv
  <2>2. Move(c, "probed", filtered[c], peer_ip[c])
    BY <1>3 DEF TypeOK, ProbeGlobal, Goto, Move
  <2>3. /\ state' = [state EXCEPT ![c] = "probed"]
        /\ Follows(global_session_count_, global_session_count_', state[c], "probed",
                   {"counted", "serving"})
        /\ Follows(handshakes_in_flight_, handshakes_in_flight_', state[c], "probed",
                   {"handshaking"})
    BY <1>1, <2>2 DEF Follows, Move
  <2>4. /\ GlobalMatch' /\ SlotMatch' /\ ThreadInv'
        /\ global_session_count_' \in Nat /\ handshakes_in_flight_' \in Nat
    BY <2>3, MoveCounts
  <2>5. IPMatch'
    BY <1>1, <2>1, <2>2, MoveSeats
  <2>6. LoopInv' /\ FilterInv'
    BY <1>1, <2>1, <2>2, MoveLoop
  <2>7. GlobalBound(Cardinality(Pipe'))
    <3>1. Counted \in SUBSET Conns
      BY DEF Counted, In
    <3>2. Pipe' \subseteq Counted \cup In({"handshaking"}) \cup OnThread \cup {c}
      <4> SUFFICES ASSUME NEW d \in Conns, d # c, InPipe(state[d], filtered[d])
                   PROVE  d \in Counted \cup In({"handshaking"}) \cup OnThread
        BY <2>1, <2>2, MoveFacts DEF Pipe
      <4>1. state[d] \notin {"probed", "accepted"}
        BY <1>1 DEF LoopIsFree, In
      <4> QED
        BY <4>1 DEF InPipe, Counted, OnThread, In
    <3>3. /\ limits_ \in Limits /\ limits_.max_concurrent_sessions \in Nat
          /\ Cardinality(Counted) < limits_.max_concurrent_sessions
      BY <1>3, AdmissionAssumption
        DEF TypeOK, LimitsType, UnderGlobalCap, SeatInv, SeatsMatch
    <3>4. \E h \in Limits : Cardinality(Pipe') <=
            limits_.max_concurrent_sessions + h.max_concurrent_handshakes + Threads
      BY <3>1, <3>2, <3>3, Crowd
    <3> QED
      BY <3>3, <3>4 DEF GlobalBound
  <2>8. \A ip \in IPs : PerIPBound(Cardinality(PipeFrom(ip)'))
    <3>1. \A ip \in IPs : ~InPipeFrom(ip, ipOf[c], "probed", filtered[c], peer_ip[c])
      BY DEF InPipeFrom
    <3> QED
      BY <2>1, <2>2, <3>1, MovePipe
  <2>9. SeatTypes'
    <3>1. /\ state' \in [Conns -> States] /\ filtered' \in [Conns -> BOOLEAN]
          /\ peer_ip' \in [Conns -> IPs \cup {NoIP}]
      BY <2>1, <2>2, MoveFacts
    <3> QED
      BY <1>1, <3>1 DEF TypeOK, SeatTypes
  <2>10. PipeInv'
    BY <2>7, <2>8 DEF PipeInv
  <2> QED
    BY <2>4, <2>5, <2>6, <2>9, <2>10, SeatParts DEF SeatInv
<1> QED
  BY <1>2, <1>3

\* The test of the cap per address, under its lock.
LEMMA AcceptSeats ==
  ASSUME TypeOK, SeatInv, NEW c \in Conns, Accept(c)
  PROVE  SeatTypes' /\ SeatInv'
<1>1. /\ state[c] = "probed" /\ UnderPerIPCap(ipOf[c])
      /\ UNCHANGED <<ipOf, global_session_count_, per_ip_count_, handshakes_in_flight_>>
      /\ peer_ip[c] \in IPs \cup {NoIP}
  BY DEF TypeOK, Accept
<1>2. Move(c, "accepted", TRUE, peer_ip[c])
  BY DEF TypeOK, Accept, Goto, Move
<1>3. /\ state' = [state EXCEPT ![c] = "accepted"]
      /\ Follows(global_session_count_, global_session_count_', state[c], "accepted",
                 {"counted", "serving"})
      /\ Follows(handshakes_in_flight_, handshakes_in_flight_', state[c], "accepted",
                 {"handshaking"})
  BY <1>1, <1>2 DEF Follows, Move
<1>4. /\ GlobalMatch' /\ SlotMatch' /\ ThreadInv'
      /\ global_session_count_' \in Nat /\ handshakes_in_flight_' \in Nat
  BY <1>3, MoveCounts
<1>5. IPMatch'
  BY <1>1, <1>2, MoveSeats
<1>6. LoopInv' /\ FilterInv'
  BY <1>1, <1>2, MoveLoop
<1>7. GlobalBound(Cardinality(Pipe'))
  <2>1. InPipe(state[c], filtered[c])
    BY <1>1 DEF InPipe
  <2> QED
    BY <1>1, <1>2, <2>1, MovePipe
<1>8. ASSUME NEW ip \in IPs PROVE PerIPBound(Cardinality(PipeFrom(ip)'))
  <2>1. CASE ip # ipOf[c]
    <3>1. ~InPipeFrom(ip, ipOf[c], "accepted", TRUE, peer_ip[c])
      BY <2>1 DEF InPipeFrom
    <3> QED
      BY <1>1, <1>2, <3>1, MovePipe
  <2>2. CASE ip = ipOf[c]
    <3>1. SeatedFrom(ip) \in SUBSET Conns
      BY DEF SeatedFrom, Seated, In
    <3>2. PipeFrom(ip)' \subseteq SeatedFrom(ip) \cup In({"handshaking"}) \cup OnThread \cup {c}
      <4> SUFFICES ASSUME NEW d \in Conns, d # c,
                          InPipeFrom(ip, ipOf[d], state[d], filtered[d], peer_ip[d])
                   PROVE  d \in SeatedFrom(ip) \cup In({"handshaking"}) \cup OnThread
        BY <1>1, <1>2, MoveFacts DEF PipeFrom
      <4>1. state[d] # "accepted"
        BY <1>1 DEF SeatInv, LoopInv, In
      <4> QED
        BY <4>1 DEF InPipeFrom, SeatedFrom, Seated, OnThread, In
    <3>3. /\ limits_ \in Limits /\ limits_.max_sessions_per_ip \in Nat
          /\ PerIPCap(limits_) \in Nat
      BY AdmissionAssumption DEF TypeOK, LimitsType, PerIPCap
    <3>4. Cardinality(SeatedFrom(ip)) < PerIPCap(limits_)
      <4>1. CASE ip \in DOMAIN per_ip_count_
        <5>1. /\ Cardinality(SeatedFrom(ip)) = per_ip_count_[ip]
              /\ per_ip_count_[ip] < limits_.max_sessions_per_ip
              /\ per_ip_count_[ip] \in Nat
          BY <1>1, <2>2, <4>1 DEF SeatInv, SeatsMatch, UnderPerIPCap, TypeOK
        <5> QED
          BY <3>3, <5>1 DEF PerIPCap
      <4>2. CASE ip \notin DOMAIN per_ip_count_
        <5>1. SeatedFrom(ip) = {}
          BY <4>2 DEF SeatInv, SeatsMatch, SeatedFrom
        <5>2. Cardinality(SeatedFrom(ip)) = 0
          BY <5>1, FS_EmptySet
        <5> QED
          BY <3>3, <5>2 DEF PerIPCap
      <4> QED
        BY <4>1, <4>2
    <3>5. \E h \in Limits : Cardinality(PipeFrom(ip)') <=
            PerIPCap(limits_) + h.max_concurrent_handshakes + Threads
      BY <3>1, <3>2, <3>3, <3>4, Crowd
    <3> QED
      BY <3>3, <3>5 DEF PerIPBound
  <2> QED
    BY <2>1, <2>2
<1>9. SeatTypes'
  <2>1. /\ state' \in [Conns -> States] /\ filtered' \in [Conns -> BOOLEAN]
        /\ peer_ip' \in [Conns -> IPs \cup {NoIP}]
    BY <1>1, <1>2, MoveFacts
  <2> QED
    BY <1>1, <2>1 DEF TypeOK, SeatTypes
<1>10. PipeInv'
  BY <1>7, <1>8 DEF PipeInv
<1> QED
  BY <1>4, <1>5, <1>6, <1>9, <1>10, SeatParts DEF SeatInv

\* The steps that touch no connection.
LEMMA SeatsKept ==
  ASSUME TypeOK, SeatInv,
         UNCHANGED <<ipOf, state, filtered, peer_ip, global_session_count_, per_ip_count_,
                     handshakes_in_flight_>>
  PROVE  SeatTypes' /\ SeatInv'
<1>1. SeatTypes'
  BY DEF TypeOK, SeatTypes
<1>2. SeatsMatch' /\ LoopInv' /\ FilterInv' /\ ThreadInv'
  BY DEF SeatInv, SeatsMatch, LoopInv, FilterInv, ThreadInv, Counted, Seated, SeatedFrom,
         OnThread, In
<1>3. Pipe' = Pipe /\ \A ip : PipeFrom(ip)' = PipeFrom(ip)
  BY DEF Pipe, PipeFrom
<1> QED
  BY <1>1, <1>2, <1>3 DEF SeatInv, PipeInv

-----------------------------------------------------------------------------
(* The buckets *)

LEMMA RateForm ==
  /\ AcceptRateBound <=>
       \A ip \in DOMAIN per_ip_accept_bucket_ :
         Rate(ipOf, passed, ip, per_ip_accept_bucket_[ip], now)
  /\ AcceptRateBound' <=>
       \A ip \in DOMAIN per_ip_accept_bucket_' :
         Rate(ipOf', passed', ip, per_ip_accept_bucket_'[ip], now')
  BY DEF AcceptRateBound, Rate, Window

LEMMA Multiples ==
  ASSUME NEW a \in Nat, NEW b \in Nat, NEW k \in Nat, a <= b
  PROVE  a * k \in Nat /\ b * k \in Nat /\ a * k <= b * k
<1>1. PICK d \in Nat : b = a + d
  <2>1. b - a \in Nat /\ b = a + (b - a)
    OBVIOUS
  <2> QED
    BY <2>1
<1>2. b * k = a * k + d * k /\ a * k \in Nat /\ d * k \in Nat
  BY <1>1
<1> QED
  BY <1>2

\* The bucket pays for what it lets pass: m is how many have passed since t when
\* n had before the bucket was asked.
LEMMA BucketPays ==
  ASSUME NEW time \in Nat \ {0}, NEW b, Sound(b, time), b.capacity > 0,
         NEW t \in 1 .. time, NEW n \in Nat, NEW m \in Nat,
         t <= b.last_refill =>
           n * Cost + b.tokens <= b.capacity + b.refill_per_sec * (b.last_refill - t),
         t > b.last_refill => n = 0,
         m <= n \/ (m <= n + 1 /\ Proceeds(b, time))
  PROVE  m * Cost + try_take(b, time).tokens
           <= b.capacity + b.refill_per_sec * (time - t)
<1> DEFINE since == b.refill_per_sec * (time - t)
           left == try_take(b, time).tokens
           full == Refilled(b, time)
<1>1. /\ b.capacity \in Nat /\ b.refill_per_sec \in Nat
      /\ b.tokens \in Nat /\ b.last_refill \in Nat
      /\ time - t \in Nat /\ t \in Nat \ {0} /\ Cost \in Nat \ {0}
  BY BucketAssumption DEF Sound, Bucket
<1>2. since \in Nat
  BY <1>1, Multiples
<1>3. full \in Nat /\ full <= b.capacity
  BY RefilledBounds
<1>4. /\ Proceeds(b, time) => left = full - Cost
      /\ ~Proceeds(b, time) => left = full
  BY BucketAssumption, TryTakeFacts
<1>5. ASSUME t <= b.last_refill
      PROVE  /\ n * Cost + full <= b.capacity + since
             /\ Proceeds(b, time) => (n + 1) * Cost + left <= b.capacity + since
  <2>1. b.last_refill # 0
    BY <1>1, <1>5
  <2>2. /\ n * Cost + Refilled(b, time) <= b.capacity + b.refill_per_sec * (time - t)
        /\ Proceeds(b, time) =>
             (n + 1) * Cost + try_take(b, time).tokens
               <= b.capacity + b.refill_per_sec * (time - t)
    BY <1>1, <1>5, <2>1, BucketAssumption, BudgetStep
  <2> QED
    BY <2>2
<1> HIDE DEF since, left, full
<1>6. CASE Proceeds(b, time)
  <2>1. m * Cost \in Nat /\ (n + 1) * Cost \in Nat /\ m * Cost <= (n + 1) * Cost
    BY <1>1, Multiples
  <2>2. CASE t <= b.last_refill
    BY <1>1, <1>2, <1>3, <1>4, <1>5, <1>6, <2>1, <2>2 DEF since, left
  <2>3. CASE t > b.last_refill
    <3>1. (n + 1) * Cost = Cost
      BY <1>1, <2>3
    <3> QED
      BY <1>1, <1>2, <1>3, <1>4, <1>6, <2>1, <3>1 DEF since, left
  <2> QED
    BY <1>1, <2>2, <2>3
<1>7. CASE ~Proceeds(b, time)
  <2>1. m * Cost \in Nat /\ n * Cost \in Nat /\ m * Cost <= n * Cost
    BY <1>1, <1>7, Multiples
  <2>2. CASE t <= b.last_refill
    BY <1>1, <1>2, <1>3, <1>4, <1>5, <1>7, <2>1, <2>2 DEF since, left
  <2>3. CASE t > b.last_refill
    <3>1. n * Cost = 0
      BY <1>1, <2>3
    <3> QED
      BY <1>1, <1>2, <1>3, <1>4, <1>7, <2>1, <3>1 DEF since, left
  <2> QED
    BY <1>1, <2>2, <2>3
<1> QED
  BY <1>6, <1>7


\* The bucket the filter asks is sound and within its budget: either it is the
\* one in the map, or it had no capacity, and nothing has passed it so far.
LEMMA BucketOfFacts ==
  ASSUME TypeOK, RateInv, NEW ip \in IPs
  PROVE  LET b == BucketOf(ip) IN
         /\ Sound(b, now)
         /\ Budget(ipOf, passed, ip, b)
         /\ Rate(ipOf, passed, ip, b, now)
         /\ \A d \in Conns : ipOf[d] = ip /\ passed[d] # 0 =>
              b.capacity > 0 /\ passed[d] <= b.last_refill
<1> DEFINE b == BucketOf(ip)
           old == IF ip \in DOMAIN per_ip_accept_bucket_
                  THEN per_ip_accept_bucket_[ip] ELSE Fresh(0, 0)
<1>1. /\ now \in Nat \ {0} /\ passed \in [Conns -> Nat]
      /\ limits_.accept_burst_per_ip \in Nat /\ limits_.accept_refill_per_ip_per_s \in Nat
  BY AdmissionAssumption DEF TypeOK, LimitsType
<1>2. Sound(old, now)
  BY <1>1 DEF RateInv, BucketInv, Sound, Bucket, Fresh
<1>3. b = IF old.capacity = 0
          THEN [old EXCEPT !.capacity = limits_.accept_burst_per_ip,
                           !.refill_per_sec = limits_.accept_refill_per_ip_per_s]
          ELSE old
  BY DEF BucketOf
<1>4. old \in Bucket /\ old.tokens <= old.capacity /\ old.last_refill <= now
  BY <1>2 DEF Sound
<1>5. CASE old.capacity # 0
  <2>1. b = old
    BY <1>3, <1>5
  <2>2. ip \in DOMAIN per_ip_accept_bucket_ /\ old = per_ip_accept_bucket_[ip]
    BY <1>5 DEF Fresh
  <2>3. old.capacity > 0
    BY <1>4, <1>5 DEF Bucket
  <2>4. Budget(ipOf, passed, ip, old) /\ Rate(ipOf, passed, ip, old, now)
    BY <2>2, RateForm DEF RateInv, BudgetInv
  <2>5. \A d \in Conns : ipOf[d] = ip /\ passed[d] # 0 => passed[d] <= old.last_refill
    BY <2>2 DEF RateInv, BucketInv
  <2> HIDE DEF old, b
  <2> QED
    BY <1>2, <2>1, <2>3, <2>4, <2>5 DEF b
<1>6. CASE old.capacity = 0
  <2>1. \A d \in Conns : ipOf[d] = ip => passed[d] = 0
    BY <1>6 DEF RateInv, BucketInv
  <2> HIDE DEF old
  <2>2. b = [capacity |-> limits_.accept_burst_per_ip,
             refill_per_sec |-> limits_.accept_refill_per_ip_per_s,
             tokens |-> old.tokens, last_refill |-> old.last_refill]
    BY <1>3, <1>4, <1>6 DEF Bucket
  <2>3. /\ b.capacity \in Nat /\ b.refill_per_sec \in Nat /\ b.tokens = 0
        /\ b.last_refill \in Nat /\ b.last_refill <= now
        /\ Sound(b, now)
    BY <1>1, <1>4, <1>6, <2>2 DEF Bucket, Sound
  <2> HIDE DEF b
  <2>4. Budget(ipOf, passed, ip, b)
    <3> SUFFICES ASSUME NEW t \in 1 .. b.last_refill
                 PROVE  Cardinality(Since(ipOf, passed, ip, t)) * Cost + b.tokens
                          <= b.capacity + b.refill_per_sec * (b.last_refill - t)
      BY DEF Budget
    <3>1. Since(ipOf, passed, ip, t) = {}
      BY <2>1, <2>3 DEF Since
    <3>2. Cardinality(Since(ipOf, passed, ip, t)) = 0
      BY <3>1, FS_EmptySet
    <3>3. b.last_refill - t \in Nat
      BY <2>3
    <3>4. b.refill_per_sec * (b.last_refill - t) \in Nat
      BY <2>3, <3>3, Multiples
    <3> QED
      BY <2>3, <3>2, <3>4, BucketAssumption
  <2>5. Rate(ipOf, passed, ip, b, now)
    <3> SUFFICES ASSUME NEW t \in 1 .. now, NEW u \in t .. now
                 PROVE  Cost * Cardinality(Window(ipOf, passed, ip, t, u))
                          <= b.capacity + b.refill_per_sec * (u - t)
      BY DEF Rate
    <3>1. Window(ipOf, passed, ip, t, u) = {}
      BY <1>1, <2>1 DEF Window
    <3>2. Cardinality(Window(ipOf, passed, ip, t, u)) = 0
      BY <3>1, FS_EmptySet
    <3>3. u - t \in Nat
      BY <1>1
    <3>4. b.refill_per_sec * (u - t) \in Nat
      BY <2>3, <3>3, Multiples
    <3> QED
      BY <2>3, <3>2, <3>4, BucketAssumption
  <2> QED
    BY <2>1, <2>3, <2>4, <2>5 DEF b
<1> QED
  BY <1>5, <1>6


\* The bucket of one address is asked, and the time of connection c set to v.
LEMMA TakeStep ==
  ASSUME TypeOK, RateInv, NEW c \in Conns, TakeFromBucket(ipOf[c]),
         UNCHANGED <<now, acceptor_, limits_, ipOf>>,
         NEW v, passed' = [passed EXCEPT ![c] = v],
         \/ v \in {passed[c], 0}
         \/ /\ v = now /\ BucketOf(ipOf[c]).capacity > 0
            /\ Proceeds(BucketOf(ipOf[c]), now)
  PROVE  RateTypes' /\ RateInv'
<1> DEFINE ip0 == ipOf[c]
           b == BucketOf(ip0)
           b2 == try_take(b, now)
           buckets == per_ip_accept_bucket_
           buckets2 == per_ip_accept_bucket_'
           pass2 == passed'
<1>1. /\ now \in Nat \ {0} /\ now <= MaxTime /\ passed \in [Conns -> Nat] /\ ip0 \in IPs
      /\ DOMAIN buckets \subseteq IPs /\ passed \in [Conns -> 0 .. MaxTime]
      /\ MaxTime \in Nat /\ ipOf \in [Conns -> IPs]
  BY AdmissionAssumption DEF TypeOK
<1>2. /\ Sound(b, now) /\ Budget(ipOf, passed, ip0, b) /\ Rate(ipOf, passed, ip0, b, now)
      /\ \A d \in Conns : ipOf[d] = ip0 /\ passed[d] # 0 =>
           b.capacity > 0 /\ passed[d] <= b.last_refill
  BY <1>1, BucketOfFacts
<1>3. /\ Sound(b2, now) /\ b2.capacity = b.capacity
      /\ b2.refill_per_sec = b.refill_per_sec /\ b2.last_refill = now
  BY <1>1, <1>2, BucketAssumption, TryTakeFacts
<1>4. /\ DOMAIN buckets2 = DOMAIN buckets \cup {ip0} /\ buckets2[ip0] = b2
      /\ \A ip \in DOMAIN buckets : ip # ip0 => buckets2[ip] = buckets[ip]
  BY DEF TakeFromBucket, Put
<1>5. /\ v \in 0 .. MaxTime /\ v \in Nat
      /\ pass2 \in [Conns -> Nat] /\ pass2 \in [Conns -> 0 .. MaxTime]
      /\ pass2[c] = v /\ \A d \in Conns : d # c => pass2[d] = passed[d]
  BY <1>1
<1>6. /\ b2 \in Bucket /\ b2.tokens \in Nat /\ b2.capacity \in Nat
      /\ b.refill_per_sec \in Nat /\ b.capacity \in Nat /\ b.last_refill \in Nat
      /\ b.last_refill <= now
  BY <1>2, <1>3 DEF Sound, Bucket
<1>7. v \in {passed[c], 0} \/ (v = now /\ b.capacity > 0 /\ Proceeds(b, now))
  BY Zenon
<1> HIDE DEF b, b2, buckets2, pass2, ip0
<1>8. BucketInv'
  <2>1. \A ip \in DOMAIN buckets2 : Sound(buckets2[ip], now)
    BY <1>3, <1>4 DEF RateInv, BucketInv
  <2>2. ASSUME NEW d \in Conns, pass2[d] # 0
        PROVE  /\ ipOf[d] \in DOMAIN buckets2 /\ buckets2[ipOf[d]].capacity > 0
               /\ pass2[d] <= buckets2[ipOf[d]].last_refill
    <3>1. CASE ipOf[d] # ip0
      <4>1. d # c
        BY <3>1 DEF ip0
      <4> QED
        BY <1>4, <1>5, <2>2, <3>1, <4>1 DEF RateInv, BucketInv
    <3>2. CASE ipOf[d] = ip0
      <4>1. b.capacity > 0 /\ pass2[d] <= now
        <5>1. CASE pass2[d] = passed[d]
          BY <1>1, <1>2, <1>5, <1>6, <2>2, <3>2, <5>1
        <5>2. CASE pass2[d] # passed[d]
          BY <1>1, <1>5, <1>7, <2>2, <5>2
        <5> QED
          BY <5>1, <5>2
      <4> QED
        BY <1>3, <1>4, <3>2, <4>1
    <3> QED
      BY <3>1, <3>2
  <2> QED
    BY <2>1, <2>2 DEF BucketInv, buckets2, pass2
<1>9. \A ip : ip # ip0 =>
        /\ \A t : Since(ipOf, pass2, ip, t) = Since(ipOf, passed, ip, t)
        /\ \A t, u : Window(ipOf, pass2, ip, t, u) = Window(ipOf, passed, ip, t, u)
  BY <1>5 DEF Since, Window, ip0
<1>10. Budget(ipOf, pass2, ip0, b2)
  <2> SUFFICES ASSUME b.capacity > 0, NEW t \in 1 .. now
               PROVE  Cardinality(Since(ipOf, pass2, ip0, t)) * Cost + b2.tokens
                        <= b.capacity + b.refill_per_sec * (now - t)
    BY <1>3 DEF Budget
  <2> DEFINE S == Since(ipOf, passed, ip0, t)
             S2 == Since(ipOf, pass2, ip0, t)
             n == Cardinality(S)
             m == Cardinality(S2)
  <2>1. S \in SUBSET Conns /\ S2 \in SUBSET Conns
    BY DEF Since
  <2>2. /\ S2 \subseteq S \/ Proceeds(b, now)
        /\ S2 \subseteq S \cup {c}
    BY <1>1, <1>5, <1>7 DEF Since
  <2>3. t > b.last_refill => S = {}
    BY <1>1, <1>2, <1>6 DEF Since
  <2> HIDE DEF S, S2
  <2>4. n \in Nat /\ m \in Nat /\ (t > b.last_refill => n = 0)
    BY <2>1, <2>3, ConnsFinite, FS_EmptySet
  <2>5. S2 \subseteq S => m <= n
    BY <2>1, FewerConns
  <2>6. m <= n + 1
    <3>1. S \cup {c} \in SUBSET Conns /\ {c} \in SUBSET Conns
      BY <2>1
    <3>2. Cardinality(S \cup {c}) \in Nat /\ Cardinality(S \cup {c}) <= n + Cardinality({c})
      BY <2>1, <3>1, UnionBound
    <3>3. m <= Cardinality(S \cup {c})
      BY <2>2, <3>1, FewerConns
    <3>4. Cardinality({c}) = 1
      BY FS_Singleton
    <3> QED
      BY <2>4, <3>2, <3>3, <3>4
  <2>7. m <= n \/ (m <= n + 1 /\ Proceeds(b, now))
    BY <2>2, <2>5, <2>6
  <2>8. t <= b.last_refill =>
          n * Cost + b.tokens <= b.capacity + b.refill_per_sec * (b.last_refill - t)
    <3> HIDE DEF n
    <3> SUFFICES ASSUME t <= b.last_refill
                 PROVE  n * Cost + b.tokens
                          <= b.capacity + b.refill_per_sec * (b.last_refill - t)
      OBVIOUS
    <3>1. t \in 1 .. b.last_refill
      BY <1>1, <1>6
    <3> QED
      BY <1>2, <3>1 DEF Budget, n, S
  <2> HIDE DEF n, m
  <2>9. m * Cost + try_take(b, now).tokens <= b.capacity + b.refill_per_sec * (now - t)
    <3>1. b.capacity > 0
      OBVIOUS
    <3> QED
      BY <1>1, <1>2, <2>4, <2>7, <2>8, <3>1, BucketPays
  <2> QED
    BY <2>9 DEF b2, m, S2
<1>11. Rate(ipOf, pass2, ip0, b2, now)
  <2> SUFFICES ASSUME b.capacity > 0, NEW t \in 1 .. now, NEW u \in t .. now
               PROVE  Cost * Cardinality(Window(ipOf, pass2, ip0, t, u))
                        <= b.capacity + b.refill_per_sec * (u - t)
    BY <1>3 DEF Rate
  <2> DEFINE W == Window(ipOf, passed, ip0, t, u)
             W2 == Window(ipOf, pass2, ip0, t, u)
             S2 == Since(ipOf, pass2, ip0, t)
             gain == b.refill_per_sec * (u - t)
  <2>1. W \in SUBSET Conns /\ W2 \in SUBSET Conns /\ S2 \in SUBSET Conns /\ W2 \subseteq S2
    BY <1>5 DEF Window, Since
  <2>2. gain \in Nat /\ Cost \in Nat
    <3>1. u - t \in Nat
      BY <1>1
    <3> QED
      BY <1>6, <3>1, Multiples, BucketAssumption
  <2>3. CASE u = now
    <3>1. Cardinality(S2) * Cost + b2.tokens <= b.capacity + gain
      BY <1>3, <1>10, <2>3 DEF Budget
    <3> HIDE DEF gain, S2, W2
    <3>2. /\ Cardinality(W2) \in Nat /\ Cardinality(S2) \in Nat
          /\ Cardinality(W2) <= Cardinality(S2)
      BY <2>1, FewerConns
    <3>3. /\ Cardinality(W2) * Cost \in Nat /\ Cardinality(S2) * Cost \in Nat
          /\ Cardinality(W2) * Cost <= Cardinality(S2) * Cost
      BY <2>2, <3>2, Multiples
    <3>4. Cost * Cardinality(W2) = Cardinality(W2) * Cost
      BY <2>2, <3>2
    <3>5. Cost * Cardinality(W2) <= b.capacity + gain
      BY <1>6, <2>2, <3>1, <3>3, <3>4
    <3> QED
      BY <3>5 DEF gain, W2
  <2>4. CASE u # now
    <3>1. W2 \subseteq W
      BY <1>1, <1>5, <1>7, <2>4 DEF Window
    <3>2. Cost * Cardinality(W) <= b.capacity + gain
      BY <1>2 DEF Rate
    <3> HIDE DEF gain, W, W2
    <3>3. /\ Cardinality(W2) \in Nat /\ Cardinality(W) \in Nat
          /\ Cardinality(W2) <= Cardinality(W)
      BY <2>1, <3>1, FewerConns
    <3>4. /\ Cardinality(W2) * Cost \in Nat /\ Cardinality(W) * Cost \in Nat
          /\ Cardinality(W2) * Cost <= Cardinality(W) * Cost
      BY <2>2, <3>3, Multiples
    <3>5. /\ Cost * Cardinality(W2) = Cardinality(W2) * Cost
          /\ Cost * Cardinality(W) = Cardinality(W) * Cost
      BY <2>2, <3>3
    <3>6. Cost * Cardinality(W2) <= b.capacity + gain
      BY <1>6, <2>2, <3>2, <3>4, <3>5
    <3> QED
      BY <3>6 DEF gain, W2
  <2> QED
    BY <2>3, <2>4
<1>12. BudgetInv'
  <2>1. \A ip \in DOMAIN buckets2 : Budget(ipOf, pass2, ip, buckets2[ip])
    <3> SUFFICES ASSUME NEW ip \in DOMAIN buckets2, ip # ip0
                 PROVE  Budget(ipOf, pass2, ip, buckets2[ip])
      BY <1>4, <1>10
    <3>1. buckets2[ip] = buckets[ip] /\ Budget(ipOf, passed, ip, buckets[ip])
      BY <1>4 DEF RateInv, BudgetInv
    <3> QED
      BY <1>9, <3>1 DEF Budget
  <2> QED
    BY <2>1 DEF BudgetInv, buckets2, pass2
<1>13. AcceptRateBound'
  <2>1. \A ip \in DOMAIN buckets2 : Rate(ipOf, pass2, ip, buckets2[ip], now)
    <3> SUFFICES ASSUME NEW ip \in DOMAIN buckets2, ip # ip0
                 PROVE  Rate(ipOf, pass2, ip, buckets2[ip], now)
      BY <1>4, <1>11
    <3>1. buckets2[ip] = buckets[ip] /\ Rate(ipOf, passed, ip, buckets[ip], now)
      BY <1>4, RateForm DEF RateInv
    <3> QED
      BY <1>9, <3>1 DEF Rate
  <2> QED
    BY <2>1, RateForm DEF buckets2, pass2
<1>14. RateTypes'
  <2>1. b2 \in [capacity : Nat, refill_per_sec : Nat, tokens : Nat, last_refill : 0 .. MaxTime]
    BY <1>1, <1>3, <1>6 DEF Bucket
  <2>2. /\ DOMAIN buckets2 \subseteq IPs
        /\ \A ip \in DOMAIN buckets2 : buckets2[ip] \in
             [capacity : Nat, refill_per_sec : Nat, tokens : Nat, last_refill : 0 .. MaxTime]
    BY <1>1, <1>4, <2>1 DEF TypeOK
  <2> QED
    BY <1>5, <2>2 DEF TypeOK, RateTypes, buckets2, pass2
<1> QED
  BY <1>8, <1>12, <1>13, <1>14 DEF RateInv


LEMMA AcceptRates ==
  ASSUME TypeOK, RateInv, NEW c \in Conns, Accept(c)
  PROVE  RateTypes' /\ RateInv'
<1> DEFINE v == IF BucketOf(ipOf[c]).capacity > 0 THEN now ELSE 0
<1>1. /\ TakeFromBucket(ipOf[c]) /\ Proceeds(BucketOf(ipOf[c]), now)
      /\ UNCHANGED <<now, acceptor_, limits_, ipOf>>
      /\ passed' = [passed EXCEPT ![c] = v]
  BY DEF Accept
<1>2. \/ v \in {passed[c], 0}
      \/ /\ v = now /\ BucketOf(ipOf[c]).capacity > 0
         /\ Proceeds(BucketOf(ipOf[c]), now)
  BY <1>1
<1> HIDE DEF v
<1> QED
  BY <1>1, <1>2, TakeStep

LEMMA RejectOverRateRates ==
  ASSUME TypeOK, RateInv, NEW c \in Conns, RejectOverRate(c)
  PROVE  RateTypes' /\ RateInv'
<1>1. /\ TakeFromBucket(ipOf[c]) /\ UNCHANGED <<now, acceptor_, limits_, ipOf>>
      /\ passed' = [passed EXCEPT ![c] = passed[c]]
  BY DEF RejectOverRate, TypeOK
<1> QED
  BY <1>1, TakeStep

\* Time passes: nothing passes a bucket with it.
LEMMA TickRates ==
  ASSUME TypeOK, RateInv, Tick
  PROVE  RateTypes' /\ RateInv'
<1> DEFINE buckets == per_ip_accept_bucket_
<1>1. /\ now' = now + 1 /\ UNCHANGED <<acceptor_, limits_, ipOf, buckets, passed>>
      /\ now \in Nat \ {0} /\ now < MaxTime /\ MaxTime \in Nat
      /\ passed \in [Conns -> Nat] /\ now' \in 1 .. MaxTime
  BY AdmissionAssumption DEF Tick, TypeOK
<1>2. RateTypes'
  BY <1>1 DEF TypeOK, RateTypes
<1>3. BucketInv'
  BY <1>1 DEF RateInv, BucketInv, Sound, Bucket
<1>4. BudgetInv'
  BY <1>1 DEF RateInv, BudgetInv
<1>5. ASSUME NEW ip \in DOMAIN buckets PROVE Rate(ipOf, passed, ip, buckets[ip], now + 1)
  <2> DEFINE b == buckets[ip]
  <2>1. /\ b.capacity \in Nat /\ b.refill_per_sec \in Nat /\ b.last_refill <= now
        /\ b.last_refill \in Nat /\ Cost \in Nat
        /\ Rate(ipOf, passed, ip, b, now)
        /\ \A d \in Conns : ipOf[d] = ip /\ passed[d] # 0 => passed[d] <= b.last_refill
    BY RateForm, BucketAssumption DEF RateInv, BucketInv, Sound, Bucket
  <2> HIDE DEF b
  <2>2. \A d \in Conns : ipOf[d] = ip => passed[d] <= now
    BY <1>1, <2>1
  <2> SUFFICES ASSUME b.capacity > 0, NEW t \in 1 .. now + 1, NEW u \in t .. now + 1
               PROVE  Cost * Cardinality(Window(ipOf, passed, ip, t, u))
                        <= b.capacity + b.refill_per_sec * (u - t)
    BY DEF Rate, b
  <2>3. CASE u <= now
    <3>1. t \in 1 .. now /\ u \in t .. now
      BY <1>1, <2>3
    <3> QED
      BY <2>1, <3>1 DEF Rate
  <2>4. CASE u = now + 1 /\ t <= now
    <3> DEFINE W == Window(ipOf, passed, ip, t, now)
               gain == b.refill_per_sec * (now - t)
    <3>1. Window(ipOf, passed, ip, t, u) = W
      BY <1>1, <2>2, <2>4 DEF Window
    <3>2. t \in 1 .. now /\ now \in t .. now /\ now - t \in Nat
      BY <1>1, <2>4
    <3>3. Cost * Cardinality(W) <= b.capacity + gain
      BY <2>1, <3>2 DEF Rate
    <3>4. b.refill_per_sec * (u - t) = gain + b.refill_per_sec /\ gain \in Int
      BY <1>1, <2>1, <2>4, <3>2
    <3>5. Cardinality(W) \in Nat
      BY ConnsFinite DEF Window
    <3>6. Cost * Cardinality(W) \in Int
      BY <2>1, <3>5
    <3> HIDE DEF gain, W
    <3>7. Cost * Cardinality(W) <= b.capacity + (gain + b.refill_per_sec)
      BY <2>1, <3>3, <3>4, <3>6
    <3> QED
      BY <3>1, <3>4, <3>7
  <2>5. CASE u = now + 1 /\ t = now + 1
    <3>1. Window(ipOf, passed, ip, t, u) = {}
      BY <1>1, <2>2, <2>5 DEF Window
    <3>2. Cardinality(Window(ipOf, passed, ip, t, u)) = 0
      BY <3>1, FS_EmptySet
    <3>3. b.refill_per_sec * (u - t) = 0
      BY <1>1, <2>1, <2>5
    <3> QED
      BY <2>1, <3>2, <3>3
  <2> QED
    BY <1>1, <2>3, <2>4, <2>5
<1>6. AcceptRateBound'
  BY <1>1, <1>5, RateForm
<1> QED
  BY <1>2, <1>3, <1>4, <1>6 DEF RateInv

\* The steps that ask no bucket.
LEMMA RatesKept ==
  ASSUME TypeOK, RateInv, UNCHANGED <<now, ipOf, per_ip_accept_bucket_, passed>>,
         acceptor_' \in {"unbound", "listening", "closed"}, limits_' \in Limits
  PROVE  RateTypes' /\ RateInv'
<1>1. RateTypes'
  BY DEF TypeOK, RateTypes
<1>2. BucketInv' /\ BudgetInv'
  BY DEF RateInv, BucketInv, BudgetInv
<1>3. AcceptRateBound'
  BY DEF RateInv, AcceptRateBound
<1> QED
  BY <1>1, <1>2, <1>3 DEF RateInv

-----------------------------------------------------------------------------
(* The invariant, and what follows from it *)

LEMMA InitIInv == Init => IInv
<1> SUFFICES ASSUME Init PROVE IInv
  OBVIOUS
<1>1. DOMAIN per_ip_count_ = {} /\ DOMAIN per_ip_accept_bucket_ = {}
  BY DEF Init
<1>2. TypeOK
  <2>1. per_ip_count_ \in [DOMAIN per_ip_count_ -> Nat \ {0}]
    BY DEF Init
  <2> QED
    BY <1>1, <2>1, AdmissionAssumption DEF Init, TypeOK
<1>3. /\ \A S : "new" \notin S => In(S) = {}
      /\ Pipe = {} /\ \A ip : PipeFrom(ip) = {}
  BY DEF Init, In, Pipe, PipeFrom, InPipe, InPipeFrom
<1>4. Counted = {} /\ In({"handshaking"}) = {} /\ Seated = {} /\ OnThread = {}
      /\ In({"probed", "accepted"}) = {}
  BY <1>3 DEF Counted, Seated, OnThread
<1>5. SeatsMatch
  <2>1. Cardinality(Counted) = 0 /\ Cardinality(In({"handshaking"})) = 0
    BY <1>4, FS_EmptySet
  <2>2. {peer_ip[c] : c \in Seated} = {}
    BY <1>4
  <2> QED
    BY <1>1, <2>1, <2>2 DEF Init, SeatsMatch
<1>6. LoopInv /\ FilterInv
  BY <1>4 DEF LoopInv, FilterInv, Init
<1>7. ThreadInv
  <2>1. Cardinality(OnThread) = 0
    BY <1>4, FS_EmptySet
  <2> QED
    BY <2>1, AdmissionAssumption DEF ThreadInv
<1>8. PipeInv
  <2>1. Cardinality({}) = 0
    BY FS_EmptySet
  <2> QED
    BY <1>3, <2>1 DEF PipeInv, GlobalBound, PerIPBound
<1>9. RateInv
  BY <1>1 DEF Init, RateInv, BucketInv, BudgetInv, AcceptRateBound
<1> QED
  BY <1>2, <1>5, <1>6, <1>7, <1>8, <1>9 DEF IInv, SeatInv

LEMMA NextIInv == IInv /\ [Next]_vars => IInv'
<1> SUFFICES ASSUME IInv, [Next]_vars PROVE IInv'
  OBVIOUS
<1> USE DEF IInv
<1>0. acceptor_ \in {"unbound", "listening", "closed"} /\ limits_ \in Limits
  BY DEF TypeOK
<1> SUFFICES SeatTypes' /\ SeatInv' /\ RateTypes' /\ RateInv'
  BY Halves DEF TypeOK, SeatTypes, RateTypes
<1>1. CASE UNCHANGED vars
  BY <1>0, <1>1, SeatsKept, RatesKept DEF vars
<1>2. CASE Tick
  BY <1>2, SeatsKept, TickRates DEF Tick
<1>3. CASE Start \/ Close \/ set_server_limits
  BY <1>0, <1>3, SeatsKept, RatesKept DEF Start, Close, set_server_limits
<1>4. ASSUME NEW c \in Conns, AcceptNext(c)
      PROVE  SeatTypes' /\ SeatInv' /\ RateTypes' /\ RateInv'
  <2>1. SeatTypes' /\ SeatInv'
    BY <1>4, ProbeGlobalSeats, AcceptUnfilteredSeats DEF AcceptNext
  <2>2. UNCHANGED <<now, acceptor_, limits_, ipOf, per_ip_accept_bucket_, passed>>
    BY <1>4 DEF AcceptNext, ProbeGlobal, AcceptUnfiltered
  <2> QED
    BY <1>0, <2>1, <2>2, RatesKept
<1>5. ASSUME NEW c \in Conns, FilterNext(c)
      PROVE  SeatTypes' /\ SeatInv' /\ RateTypes' /\ RateInv'
  <2>1. CASE RejectOverPerIPCap(c) \/ DropOverHandshakeCap(c)
    <3>1. SeatTypes' /\ SeatInv'
      BY <2>1, AwayStep DEF RejectOverPerIPCap, DropOverHandshakeCap
    <3>2. UNCHANGED <<now, acceptor_, limits_, ipOf, per_ip_accept_bucket_, passed>>
      BY <2>1 DEF RejectOverPerIPCap, DropOverHandshakeCap
    <3> QED
      BY <1>0, <3>1, <3>2, RatesKept
  <2>2. CASE Accept(c)
    BY <2>2, AcceptSeats, AcceptRates
  <2>3. CASE RejectOverRate(c)
    <3>1. SeatTypes' /\ SeatInv'
      BY <2>3, AwayStep DEF RejectOverRate
    <3> QED
      BY <2>3, <3>1, RejectOverRateRates
  <2>4. CASE SpawnHandshake(c)
    <3>1. UNCHANGED <<now, acceptor_, limits_, ipOf, per_ip_accept_bucket_, passed>>
      BY <2>4 DEF SpawnHandshake
    <3> QED
      BY <1>0, <2>4, <3>1, SpawnHandshakeSeats, RatesKept
  <2> QED
    BY <1>5, <2>1, <2>2, <2>3, <2>4 DEF FilterNext
<1>6. ASSUME NEW c \in Conns, SessionNext(c)
      PROVE  SeatTypes' /\ SeatInv' /\ RateTypes' /\ RateInv'
  <2>1. HandshakeTimesOut(c) => HandshakeFails(c)
    BY DEF HandshakeTimesOut
  <2>2. SeatTypes' /\ SeatInv'
    BY <1>6, <2>1, HandshakeFailsSeats, HandshakeDoneSeats, CountGlobalSeats,
       CountPerIPSeats, ReleaseGlobalSeats, ReleasePerIPSeats DEF SessionNext
  <2>3. UNCHANGED <<now, acceptor_, limits_, ipOf, per_ip_accept_bucket_, passed>>
    BY <1>6, <2>1 DEF SessionNext, HandshakeFails, HandshakeDone, CountGlobal, CountPerIP,
                      ReleaseGlobal, ReleasePerIP
  <2> QED
    BY <1>0, <2>2, <2>3, RatesKept
<1> QED
  BY <1>1, <1>2, <1>3, <1>4, <1>5, <1>6 DEF Next

LEMMA Invariance == Spec => []IInv
  BY InitIInv, NextIInv, PTL DEF Spec

\* Every variable of the admission path stays within its type: no counter of
\* start() goes below zero, and handshakes_in_flight_ never exceeds the highest
\* handshake cap that was ever set.
THEOREM AdmissionTypes == Spec => []TypeOK
<1>1. IInv => TypeOK
  BY DEF IInv
<1> QED
  BY <1>1, Invariance, PTL

\* Every seat and every handshake slot is given back exactly once, whichever of
\* the paths through start() and its completion handlers a connection takes:
\* global_session_count_, handshakes_in_flight_ and per_ip_count_ are the
\* connections there are.
THEOREM SeatsAreGivenBack == Spec => []SeatsMatch
<1>1. IInv => SeatsMatch
  BY DEF IInv, SeatInv
<1> QED
  BY <1>1, Invariance, PTL

\* The session caps, tested before the handshake and counted after it, are
\* overshot by at most the handshake cap and the number of threads.
THEOREM OvershootIsBounded == Spec => []OvershootBound
<1>1. IInv => OvershootBound
  <2> SUFFICES ASSUME IInv PROVE OvershootBound
    OBVIOUS
  <2> DEFINE G == {c \in Counted : filtered[c]}
             A(ip) == {c \in SeatedFrom(ip) : filtered[c]}
  <2>1. PipeInv
    BY DEF IInv, SeatInv
  <2>2. G \in SUBSET Pipe /\ Pipe \in SUBSET Conns
    BY DEF Counted, In, Pipe, InPipe
  <2>3. \A ip \in IPs : A(ip) \in SUBSET PipeFrom(ip) /\ PipeFrom(ip) \in SUBSET Conns
    BY DEF SeatedFrom, Seated, In, PipeFrom, InPipeFrom
  <2> HIDE DEF G, A
  <2>4. GlobalBound(Cardinality(G))
    BY <2>1, <2>2, FewerConns, BoundsDown DEF PipeInv
  <2>5. ASSUME NEW ip \in IPs PROVE PerIPBound(Cardinality(A(ip)))
    BY <2>1, <2>3, FewerConns, BoundsDown DEF PipeInv
  <2> QED
    BY <2>4, <2>5 DEF OvershootBound, Within, GlobalBound, PerIPBound, G, A
<1> QED
  BY <1>1, Invariance, PTL

\* The token bucket of an address bounds what the filter lets pass over every
\* interval of time, although set_server_limits may change the limits, or switch
\* limiting on and off, between any two connections.
THEOREM AcceptRateIsBounded == Spec => []AcceptRateBound
<1>1. IInv => AcceptRateBound
  BY DEF IInv, RateInv
<1> QED
  BY <1>1, Invariance, PTL

=============================================================================
