-------------------------- MODULE ConnectionProofs --------------------------
(***************************************************************************)
(* The safety properties of Connection, for any number of calls and        *)
(* notifications and any capacity of the write channels and the network.   *)
(* Calls and notifications are numbered as they are made, and everything   *)
(* on the way from one end to the other is first in, first out: each stage *)
(* of the way holds a stretch of the numbers, and the stretches adjoin.    *)
(***************************************************************************)
EXTENDS Connection, TLAPS

-----------------------------------------------------------------------------
(* The inductive invariant: what one end sends, and its framing *)

\* What each end sends: requests and pings without a body, or answers to what
\* counts as answered, notifications and pongs.
Sent(p, ans) ==
  IF p = "client"
  THEN {f \in Frame : \/ f.type = "request" /\ f.id \in Requests
                      \/ f.type = "ping" /\ f.size = "empty"}
  ELSE {f \in Frame : \/ /\ f.type \in {"response", "error"}
                         /\ f.id \in Requests /\ ans[f.id] # 0
                      \/ f.type = "notification" /\ f.id \in Notes
                      \/ f.type = "pong" /\ f.size = "empty"}

\* Only calls of the client and answers of the server wait for room.
Waits(L, s) == s.frame \in L /\ s.frame.type \in {"request", "response", "error"}

\* What has to come after a chunk, and what a reader has to find next: the body
\* of a frame that has one, or else a header.
Boundary == Header(NoFrame)
After(c) ==
  IF c.part = "header" /\ c.frame.size # "empty" THEN Body(c.frame) ELSE Boundary
Expected(rd) ==
  IF rd.at \in {"body", "drain"} /\ rd.frame.size # "empty" THEN Body(rd.frame) ELSE Boundary
Fits(e, c) == IF e = Boundary THEN c.part = "header" ELSE c = e

\* A reader that is still going to read.
Listens(rd, cl) == cl = FALSE /\ rd.at \notin {"rejecting", "closing"}

\* A frame, or what is left of one, as msg_writer has it.
Unwritten(o) ==
  \/ o = <<>>
  \/ \E f \in Frame : o = Chunks(f) \/ (f.size # "empty" /\ o = <<Body(f)>>)

\* What the writer has is what has to come after e.
Continues(e, o) == IF o = <<>> THEN e = Boundary ELSE Fits(e, o[1])

\* The chunks of one direction: o is still to write, s on its way, rd reads;
\* cw and cr say whether the writing and the reading session are closed.
Framed(o, s, rd, cw, cr) ==
  /\ Unwritten(o)
  /\ \A i \in 1 .. Len(s) - 1 : Fits(After(s[i]), s[i + 1])
  /\ Listens(rd, cr) /\ s # <<>> => Fits(Expected(rd), s[1])
  /\ cw = FALSE /\ s # <<>> => Continues(After(s[Len(s)]), o)
  /\ cw = FALSE /\ s = <<>> /\ Listens(rd, cr) => Continues(Expected(rd), o)

-----------------------------------------------------------------------------
(* The inductive invariant: numbers *)

\* The number of a request or notification, 0 for anything else.
FrameNum(f) == IF f.type \in {"request", "notification"} THEN f.id ELSE 0
ChunkNum(c) == IF c.part = "header" THEN FrameNum(c.frame) ELSE 0
FrameNums(s) == [i \in 1 .. Len(s) |-> FrameNum(s[i])]
SenderNums(s) == [i \in 1 .. Len(s) |-> FrameNum(s[i].frame)]
ChunkNums(s) == [i \in 1 .. Len(s) |-> ChunkNum(s[i])]

\* The first k of t are the numbers from lo + 1 to hi, in this order, and zeros.
Stretch(t, k, lo, hi) ==
  /\ lo <= hi
  /\ \A i \in 1 .. k : t[i] = 0 \/ t[i] \in lo + 1 .. hi
  /\ \A i, j \in 1 .. k : i < j /\ t[i] # 0 /\ t[j] # 0 => t[i] < t[j]
  /\ \A x \in lo + 1 .. hi : \E i \in 1 .. k : t[i] = x

\* The stages of one direction: n have arrived, then come the network, the
\* writer, the write channel and the senders waiting for it, up to m.
Flows(bu, pk, o, s, cw, cr, n, m) ==
  \E b, a, e \in 0 .. m :
    /\ cr = FALSE => Stretch(ChunkNums(s), Len(s), n, b)
    /\ cw = FALSE =>
         /\ Stretch(ChunkNums(o), Len(o), b, a)
         /\ Stretch(FrameNums(bu), Len(bu), a, e)
         /\ Stretch(SenderNums(pk), Len(pk), e, m)

-----------------------------------------------------------------------------
(* The inductive invariant *)

\* The sequences of one direction keep their types and bounds.
Held(L, bu, pk, o, s) ==
  /\ bu \in Seq(Frame) /\ Len(bu) <= WriteCap
  /\ pk \in Seq(Sender)
  /\ o \in Seq(Chunk) /\ Len(o) <= 2
  /\ s \in Seq(Chunk) /\ Len(s) <= PipeCap
  /\ \A i \in 1 .. Len(bu) : bu[i] \in L
  /\ \A i \in 1 .. Len(pk) : Waits(L, pk[i])
  /\ \A i \in 1 .. Len(o) : o[i].frame \in L
  /\ \A i \in 1 .. Len(s) : s[i].frame \in L

\* And senders wait, on an open session, only while there is no room.
Stream(L, bu, pk, o, s, rd, cw, cr, n, m) ==
  /\ Held(L, bu, pk, o, s)
  /\ cw = FALSE /\ pk # <<>> => Len(bu) = WriteCap
  /\ Framed(o, s, rd, cw, cr)
  /\ Flows(bu, pk, o, s, cw, cr, n, m)

\* The way from p to the other end.
Way(p, n, m) ==
  Stream(Sent(p, answers), buf[p], parked[p], out[p], pipe[p], reader[Other(p)],
         closed[p], closed[Other(p)], n, m)

\* The calls (notifications) made so far are the first m.
Made(p, m) ==
  IF p = "client" THEN \A r \in Requests : call[r] = "idle" <=> r > m ELSE m = notified

\* The requests (notifications) the other end has taken off the wire are the
\* first n; what the server has not seen yet has no handler and no answer.
Arrived(p, n) ==
  IF p = "client"
  THEN /\ \A r \in Requests : r > n => handler[r] = "none" /\ answers[r] = 0
       /\ reader["server"].at \in {"body", "drain"} =>
            LET r == reader["server"].frame.id IN
            r = n /\ handler[r] = "none" /\ answers[r] = 0
  ELSE closed["client"] = FALSE =>
         IF reader["client"].at = "body" /\ reader["client"].frame.type = "notification"
         THEN /\ reader["client"].frame.id = n
              /\ n = Len(applied) + Len(posted) + 1
         ELSE n = Len(applied) + Len(posted)

Most(p) == IF p = "client" THEN MaxRequests ELSE MaxNotes
WayOf(p) ==
  \E m \in 0 .. Most(p) : \E n \in 0 .. m : Way(p, n, m) /\ Arrived(p, n) /\ Made(p, m)
WayInv == \A p \in Peers : WayOf(p)

\* The parts of the state that no direction owns.
Rest ==
  /\ buf = [p \in Peers |-> buf[p]] /\ parked = [p \in Peers |-> parked[p]]
  /\ out = [p \in Peers |-> out[p]] /\ pipe = [p \in Peers |-> pipe[p]]
  /\ reader \in [Peers -> [at : Readers, frame : Frame \cup {NoFrame}]]
  /\ closed \in [Peers -> BOOLEAN]
  /\ call \in [Requests -> {"idle", "parked", "sent", "answered"}]
  /\ handler \in [Requests -> {"none", "running", "caught", "parked", "done"}]
  /\ answers \in [Requests -> Nat]
  /\ notified \in 0 .. MaxNotes /\ posted \in Seq(Notes) /\ applied \in Seq(Notes)

\* The reader reads what the other end sends, and no body of a ping or pong.
ReaderInv ==
  \A p \in Peers : reader[p].at \in {"body", "drain"} =>
    /\ reader[p].frame \in Sent(Other(p), answers)
    /\ reader[p].frame.type \notin {"ping", "pong"}

\* Who waits for room in the write channel: calls that have been made, handlers
\* that have run, and the server's reader, once, where its answer takes it on.
SenderOk(p, i) ==
  LET s == parked[p][i] IN
  /\ s.by = "call" => s.frame.id \in Requests /\ call[s.frame.id] # "idle"
  /\ s.by = "handler" => s.frame.id \in Requests /\ handler[s.frame.id] # "none"
  /\ s.by = "reader" =>
       /\ p = "server" /\ reader[p].at \in {"responding", "rejecting"}
       /\ \A j \in 1 .. Len(parked[p]) : parked[p][j].by = "reader" => i = j
SenderInv == \A p \in Peers : \A i \in 1 .. Len(parked[p]) : SenderOk(p, i)

\* A request whose handler runs, or has just thrown, has no answer yet.
Unsent(h) == h \in {"running", "caught"}
AnswerInv == OneAnswer /\ \A r \in Requests : Unsent(handler[r]) => answers[r] = 0

\* Notifications wait on notification_strand_ in the order of their numbers.
OrderInv == NotificationOrder /\ \A i \in 1 .. Len(posted) : posted[i] = Len(applied) + i

IInv == Rest /\ WayInv /\ ReaderInv /\ SenderInv /\ AnswerInv /\ OrderInv

-----------------------------------------------------------------------------
(* Sequences *)

\* Append adds one element at the end.
LEMMA AppendFacts ==
  ASSUME NEW S, NEW s \in Seq(S), NEW x \in S
  PROVE  /\ Append(s, x) \in Seq(S) /\ Append(s, x) # <<>>
         /\ Len(s) \in Nat /\ Len(Append(s, x)) = Len(s) + 1
         /\ \A i \in 1 .. Len(s) : Append(s, x)[i] = s[i]
         /\ Append(s, x)[Len(s) + 1] = x
  OBVIOUS

\* Tail drops the first element.
LEMMA TailFacts ==
  ASSUME NEW S, NEW s \in Seq(S), s # <<>>
  PROVE  /\ Len(s) \in Nat \ {0} /\ Head(s) = s[1] /\ s[1] \in S
         /\ Tail(s) \in Seq(S) /\ Len(Tail(s)) = Len(s) - 1
         /\ \A i \in 1 .. Len(s) - 1 : Tail(s)[i] = s[i + 1]
  OBVIOUS

\* A sequence is empty when its length is 0.
LEMMA EmptyFacts ==
  ASSUME NEW S, NEW s \in Seq(S)
  PROVE  /\ s = <<>> <=> Len(s) = 0
         /\ Len(s) \in Nat /\ \A i \in 1 .. Len(s) : s[i] \in S
  OBVIOUS

-----------------------------------------------------------------------------
(* Stretches of numbers *)

\* Nothing is a stretch from a number to itself.
LEMMA StretchEmpty ==
  ASSUME NEW t, NEW lo \in Nat, NEW hi \in Nat
  PROVE  Stretch(t, 0, lo, hi) <=> lo = hi
<1>1. 1 .. 0 = {}
  OBVIOUS
<1>2. lo < hi => lo + 1 \in lo + 1 .. hi
  OBVIOUS
<1>3. lo = hi => lo + 1 .. hi = {}
  OBVIOUS
<1> QED
  BY <1>1, <1>2, <1>3 DEF Stretch

\* Whoever has the same numbers is the same stretch.
LEMMA StretchSame ==
  ASSUME NEW t, NEW u, NEW k \in Nat, NEW lo \in Nat, NEW hi \in Nat,
         \A i \in 1 .. k : u[i] = t[i], Stretch(t, k, lo, hi)
  PROVE  Stretch(u, k, lo, hi)
  BY DEF Stretch

\* The first number goes: it was a zero, or the least.
LEMMA StretchTail ==
  ASSUME NEW t, NEW u, NEW k \in Nat \ {0}, NEW lo \in Nat, NEW hi \in Nat,
         \A i \in 1 .. k - 1 : u[i] = t[i + 1], Stretch(t, k, lo, hi)
  PROVE  /\ t[1] = 0 => Stretch(u, k - 1, lo, hi)
         /\ t[1] # 0 => t[1] = lo + 1 /\ lo + 1 <= hi /\ Stretch(u, k - 1, lo + 1, hi)
<1>1. /\ lo <= hi
      /\ \A i \in 1 .. k : t[i] = 0 \/ t[i] \in lo + 1 .. hi
      /\ \A i, j \in 1 .. k : i < j /\ t[i] # 0 /\ t[j] # 0 => t[i] < t[j]
      /\ \A x \in lo + 1 .. hi : \E i \in 1 .. k : t[i] = x
  BY DEF Stretch
<1>2. \A i \in 1 .. k - 1 : i + 1 \in 1 .. k /\ 1 < i + 1
  OBVIOUS
<1>3. \A i \in 1 .. k : i # 1 => i - 1 \in 1 .. k - 1 /\ (i - 1) + 1 = i
  OBVIOUS
<1>4. 1 \in 1 .. k
  OBVIOUS
<1>5. \A i, j \in 1 .. k - 1 : i < j /\ u[i] # 0 /\ u[j] # 0 => u[i] < u[j]
  BY <1>1, <1>2
<1>6. \A x \in lo + 1 .. hi : x # t[1] => \E i \in 1 .. k - 1 : u[i] = x
  <2> SUFFICES ASSUME NEW x \in lo + 1 .. hi, x # t[1]
               PROVE  \E i \in 1 .. k - 1 : u[i] = x
    OBVIOUS
  <2>1. PICK i \in 1 .. k : t[i] = x
    BY <1>1
  <2>2. i # 1 /\ u[i - 1] = x
    BY <1>3, <2>1
  <2> QED
    BY <1>3, <2>2
<1>7. CASE t[1] = 0
  <2>1. \A x \in lo + 1 .. hi : x # 0
    OBVIOUS
  <2>2. \A i \in 1 .. k - 1 : u[i] = 0 \/ u[i] \in lo + 1 .. hi
    BY <1>1, <1>2
  <2> QED
    BY <1>1, <1>5, <1>6, <1>7, <2>1, <2>2 DEF Stretch
<1>8. CASE t[1] # 0
  <2>1. t[1] \in lo + 1 .. hi
    BY <1>1, <1>4, <1>8
  <2>2. lo + 1 \in lo + 1 .. hi /\ lo + 1 <= hi
    BY <2>1
  <2>3. PICK i \in 1 .. k : t[i] = lo + 1
    BY <1>1, <2>2
  <2>4. t[1] = lo + 1
    <3>1. CASE i = 1
      BY <2>3, <3>1
    <3>2. CASE i # 1
      <4>1. 1 < i
        BY <3>2
      <4>2. t[1] < lo + 1
        BY <1>1, <1>4, <1>8, <2>3, <4>1
      <4> QED
        BY <2>1, <4>2
    <3> QED
      BY <3>1, <3>2
  <2>5. \A j \in 1 .. k - 1 : u[j] = 0 \/ u[j] \in (lo + 1) + 1 .. hi
    <3> SUFFICES ASSUME NEW j \in 1 .. k - 1, u[j] # 0 PROVE u[j] \in (lo + 1) + 1 .. hi
      OBVIOUS
    <3>1. t[j + 1] = u[j] /\ j + 1 \in 1 .. k /\ 1 < j + 1
      BY <1>2
    <3>2. u[j] \in lo + 1 .. hi
      BY <1>1, <3>1
    <3>3. t[1] < u[j]
      BY <1>1, <1>4, <1>8, <3>1
    <3> QED
      BY <2>4, <3>2, <3>3
  <2>6. \A x \in (lo + 1) + 1 .. hi : x \in lo + 1 .. hi /\ x # t[1]
    BY <2>4
  <2> QED
    BY <1>5, <1>6, <2>2, <2>4, <2>5, <2>6 DEF Stretch
<1> QED
  BY <1>7, <1>8

\* One more at the end: a zero, or the next number.
LEMMA StretchAppend ==
  ASSUME NEW t, NEW u, NEW k \in Nat, NEW lo \in Nat, NEW hi \in Nat,
         \A i \in 1 .. k : u[i] = t[i], Stretch(t, k, lo, hi)
  PROVE  /\ u[k + 1] = 0 => Stretch(u, k + 1, lo, hi)
         /\ u[k + 1] = hi + 1 => Stretch(u, k + 1, lo, hi + 1)
<1>1. /\ lo <= hi
      /\ \A i \in 1 .. k : u[i] = 0 \/ u[i] \in lo + 1 .. hi
      /\ \A i, j \in 1 .. k : i < j /\ u[i] # 0 /\ u[j] # 0 => u[i] < u[j]
      /\ \A x \in lo + 1 .. hi : \E i \in 1 .. k : u[i] = x
  BY DEF Stretch
<1>2. \A i \in 1 .. k + 1 : i \in 1 .. k \/ i = k + 1
  OBVIOUS
<1>3. \A i \in 1 .. k : i \in 1 .. k + 1 /\ i < k + 1 /\ ~(k + 1 < i)
  OBVIOUS
<1>4. k + 1 \in 1 .. k + 1 /\ ~(k + 1 < k + 1)
  OBVIOUS
<1>5. CASE u[k + 1] = 0
  <2>1. \A i \in 1 .. k + 1 : u[i] = 0 \/ u[i] \in lo + 1 .. hi
    BY <1>1, <1>2, <1>5
  <2>2. \A i, j \in 1 .. k + 1 : i < j /\ u[i] # 0 /\ u[j] # 0 => u[i] < u[j]
    BY <1>1, <1>2, <1>5
  <2>3. \A x \in lo + 1 .. hi : \E i \in 1 .. k + 1 : u[i] = x
    BY <1>1, <1>3
  <2> QED
    BY <1>1, <2>1, <2>2, <2>3 DEF Stretch
<1>6. CASE u[k + 1] = hi + 1
  <2>1. \A i \in 1 .. k + 1 : u[i] = 0 \/ u[i] \in lo + 1 .. hi + 1
    BY <1>1, <1>2, <1>6
  <2>2. ASSUME NEW i \in 1 .. k + 1, NEW j \in 1 .. k + 1, i < j, u[i] # 0, u[j] # 0
        PROVE  u[i] < u[j]
    <3>1. i \in 1 .. k
      BY <2>2
    <3>2. CASE j \in 1 .. k
      BY <1>1, <2>2, <3>1, <3>2
    <3>3. CASE j = k + 1
      BY <1>1, <1>6, <2>2, <3>1, <3>3
    <3> QED
      BY <1>2, <3>2, <3>3
  <2>3. \A x \in lo + 1 .. hi + 1 : \E i \in 1 .. k + 1 : u[i] = x
    <3> TAKE x \in lo + 1 .. hi + 1
    <3>1. CASE x = hi + 1
      BY <1>4, <1>6, <3>1
    <3>2. CASE x # hi + 1
      <4>1. x \in lo + 1 .. hi
        BY <3>2
      <4> QED
        BY <1>1, <1>3, <4>1
    <3> QED
      BY <3>1, <3>2
  <2> QED
    BY <1>1, <2>1, <2>2, <2>3 DEF Stretch
<1> QED
  BY <1>5, <1>6

-----------------------------------------------------------------------------
(* The numbers on one way *)

LEMMA ChunkNumsFacts ==
  ASSUME NEW s \in Seq(Chunk), NEW c \in Chunk
  PROVE  /\ \A i \in 1 .. Len(s) : ChunkNums(Append(s, c))[i] = ChunkNums(s)[i]
         /\ ChunkNums(Append(s, c))[Len(s) + 1] = ChunkNum(c)
         /\ s # <<>> => /\ ChunkNums(s)[1] = ChunkNum(s[1])
                        /\ \A i \in 1 .. Len(s) - 1 :
                             ChunkNums(Tail(s))[i] = ChunkNums(s)[i + 1]
<1>1. /\ Len(s) \in Nat /\ Len(Append(s, c)) = Len(s) + 1
      /\ \A i \in 1 .. Len(s) : Append(s, c)[i] = s[i]
      /\ Append(s, c)[Len(s) + 1] = c
  BY AppendFacts
<1>2. s # <<>> => /\ Len(s) \in Nat \ {0} /\ Len(Tail(s)) = Len(s) - 1
                  /\ \A i \in 1 .. Len(s) - 1 : Tail(s)[i] = s[i + 1]
  BY TailFacts
<1> QED
  BY <1>1, <1>2 DEF ChunkNums

LEMMA FrameNumsFacts ==
  ASSUME NEW s \in Seq(Frame), NEW f \in Frame
  PROVE  /\ \A i \in 1 .. Len(s) : FrameNums(Append(s, f))[i] = FrameNums(s)[i]
         /\ FrameNums(Append(s, f))[Len(s) + 1] = FrameNum(f)
         /\ s # <<>> => /\ FrameNums(s)[1] = FrameNum(s[1])
                        /\ \A i \in 1 .. Len(s) - 1 :
                             FrameNums(Tail(s))[i] = FrameNums(s)[i + 1]
<1>1. /\ Len(s) \in Nat /\ Len(Append(s, f)) = Len(s) + 1
      /\ \A i \in 1 .. Len(s) : Append(s, f)[i] = s[i]
      /\ Append(s, f)[Len(s) + 1] = f
  BY AppendFacts
<1>2. s # <<>> => /\ Len(s) \in Nat \ {0} /\ Len(Tail(s)) = Len(s) - 1
                  /\ \A i \in 1 .. Len(s) - 1 : Tail(s)[i] = s[i + 1]
  BY TailFacts
<1> QED
  BY <1>1, <1>2 DEF FrameNums

LEMMA SenderNumsFacts ==
  ASSUME NEW s \in Seq(Sender), NEW q \in Sender
  PROVE  /\ \A i \in 1 .. Len(s) : SenderNums(Append(s, q))[i] = SenderNums(s)[i]
         /\ SenderNums(Append(s, q))[Len(s) + 1] = FrameNum(q.frame)
         /\ s # <<>> => /\ SenderNums(s)[1] = FrameNum(s[1].frame)
                        /\ \A i \in 1 .. Len(s) - 1 :
                             SenderNums(Tail(s))[i] = SenderNums(s)[i + 1]
<1>1. /\ Len(s) \in Nat /\ Len(Append(s, q)) = Len(s) + 1
      /\ \A i \in 1 .. Len(s) : Append(s, q)[i] = s[i]
      /\ Append(s, q)[Len(s) + 1] = q
  BY AppendFacts
<1>2. s # <<>> => /\ Len(s) \in Nat \ {0} /\ Len(Tail(s)) = Len(s) - 1
                  /\ \A i \in 1 .. Len(s) - 1 : Tail(s)[i] = s[i + 1]
  BY TailFacts
<1> QED
  BY <1>1, <1>2 DEF SenderNums

\* A frame is one header, and a body unless it is empty.
LEMMA ChunksFacts ==
  ASSUME NEW f \in Frame
  PROVE  /\ Header(f) \in Chunk /\ Body(f) \in Chunk
         /\ Chunks(f) \in Seq(Chunk) /\ Chunks(f) # <<>> /\ Chunks(f)[1] = Header(f)
         /\ f.size = "empty" => Len(Chunks(f)) = 1
         /\ f.size # "empty" => Len(Chunks(f)) = 2 /\ Chunks(f)[2] = Body(f)
<1>1. Header(f) \in Chunk /\ Body(f) \in Chunk
  BY DEF Header, Body, Chunk
<1> DEFINE h == Header(f)
           b == Body(f)
<1>2. h \in Chunk /\ b \in Chunk
  BY <1>1
<1> HIDE DEF h, b
<1>3. /\ <<h>> \in Seq(Chunk) /\ <<h>> # <<>> /\ <<h>>[1] = h /\ Len(<<h>>) = 1
      /\ <<h, b>> \in Seq(Chunk) /\ <<h, b>> # <<>> /\ <<h, b>>[1] = h
      /\ <<h, b>>[2] = b /\ Len(<<h, b>>) = 2
  BY <1>2
<1>4. Chunks(f) = IF f.size = "empty" THEN <<h>> ELSE <<h, b>>
  BY DEF Chunks, h, b
<1> QED
  BY <1>1, <1>3, <1>4 DEF h, b

\* The chunks of a frame are a stretch of none or one.
LEMMA ChunksStretch ==
  ASSUME NEW f \in Frame, NEW b \in Nat
  PROVE  /\ FrameNum(f) = 0 => Stretch(ChunkNums(Chunks(f)), Len(Chunks(f)), b, b)
         /\ FrameNum(f) = b + 1 => Stretch(ChunkNums(Chunks(f)), Len(Chunks(f)), b, b + 1)
<1> DEFINE t == ChunkNums(Chunks(f))
<1>1. /\ Chunks(f)[1] = Header(f) /\ Len(Chunks(f)) \in {1, 2}
      /\ Len(Chunks(f)) = 2 => Chunks(f)[2] = Body(f)
  BY ChunksFacts
<1>2. t[1] = FrameNum(f) /\ (Len(Chunks(f)) = 2 => t[2] = 0)
  BY <1>1 DEF ChunkNums, ChunkNum, Header, Body
<1> HIDE DEF t
<1>3. Stretch(t, 0, b, b)
  BY StretchEmpty
<1>4. 0 + 1 = 1 /\ 1 + 1 = 2 /\ \A i \in 1 .. 0 : t[i] = t[i]
  OBVIOUS
<1>5. /\ t[1] = 0 => Stretch(t, 1, b, b)
      /\ t[1] = b + 1 => Stretch(t, 1, b, b + 1)
  BY <1>3, <1>4, StretchAppend
<1>6. /\ t[2] = 0 /\ Stretch(t, 1, b, b) => Stretch(t, 2, b, b)
      /\ t[2] = 0 /\ Stretch(t, 1, b, b + 1) => Stretch(t, 2, b, b + 1)
  BY <1>4, StretchAppend
<1> QED
  BY <1>1, <1>2, <1>5, <1>6 DEF t


\* What that makes of a stretch: one more at the end, or the first one gone.
LEMMA ChunkStretch ==
  ASSUME NEW s \in Seq(Chunk), NEW c \in Chunk, NEW lo \in Nat, NEW hi \in Nat,
         Stretch(ChunkNums(s), Len(s), lo, hi)
  PROVE  /\ ChunkNum(c) = 0 =>
              Stretch(ChunkNums(Append(s, c)), Len(Append(s, c)), lo, hi)
         /\ ChunkNum(c) = hi + 1 =>
              Stretch(ChunkNums(Append(s, c)), Len(Append(s, c)), lo, hi + 1)
         /\ s # <<>> /\ ChunkNum(s[1]) = 0 => Stretch(ChunkNums(Tail(s)), Len(Tail(s)), lo, hi)
         /\ s # <<>> /\ ChunkNum(s[1]) # 0 =>
              /\ ChunkNum(s[1]) = lo + 1 /\ lo + 1 <= hi
              /\ Stretch(ChunkNums(Tail(s)), Len(Tail(s)), lo + 1, hi)
<1> DEFINE k == Len(s)
           t == ChunkNums(s)
           u == ChunkNums(Append(s, c))
           v == ChunkNums(Tail(s))
<1>1. /\ k \in Nat /\ Len(Append(s, c)) = k + 1 /\ Stretch(t, k, lo, hi)
      /\ \A i \in 1 .. k : u[i] = t[i]
      /\ u[k + 1] = ChunkNum(c)
  BY ChunkNumsFacts, AppendFacts
<1>2. s # <<>> => /\ k \in Nat \ {0} /\ Len(Tail(s)) = k - 1
                  /\ t[1] = ChunkNum(s[1])
                  /\ \A i \in 1 .. k - 1 : v[i] = t[i + 1]
  BY ChunkNumsFacts, TailFacts
<1> HIDE DEF k, t, u, v
<1>3. /\ u[k + 1] = 0 => Stretch(u, k + 1, lo, hi)
      /\ u[k + 1] = hi + 1 => Stretch(u, k + 1, lo, hi + 1)
  BY <1>1, StretchAppend
<1>4. s # <<>> => /\ t[1] = 0 => Stretch(v, k - 1, lo, hi)
                  /\ t[1] # 0 => t[1] = lo + 1 /\ lo + 1 <= hi /\ Stretch(v, k - 1, lo + 1, hi)
  BY <1>1, <1>2, StretchTail
<1>5. /\ ChunkNum(c) = 0 => Stretch(u, Len(Append(s, c)), lo, hi)
      /\ ChunkNum(c) = hi + 1 => Stretch(u, Len(Append(s, c)), lo, hi + 1)
  BY <1>1, <1>3
<1>6. /\ s # <<>> /\ ChunkNum(s[1]) = 0 => Stretch(v, Len(Tail(s)), lo, hi)
      /\ s # <<>> /\ ChunkNum(s[1]) # 0 =>
           ChunkNum(s[1]) = lo + 1 /\ lo + 1 <= hi /\ Stretch(v, Len(Tail(s)), lo + 1, hi)
  BY <1>2, <1>4
<1> QED
  BY <1>5, <1>6 DEF u, v

LEMMA FrameStretch ==
  ASSUME NEW s \in Seq(Frame), NEW f \in Frame, NEW lo \in Nat, NEW hi \in Nat,
         Stretch(FrameNums(s), Len(s), lo, hi)
  PROVE  /\ FrameNum(f) = 0 =>
              Stretch(FrameNums(Append(s, f)), Len(Append(s, f)), lo, hi)
         /\ FrameNum(f) = hi + 1 =>
              Stretch(FrameNums(Append(s, f)), Len(Append(s, f)), lo, hi + 1)
         /\ s # <<>> /\ FrameNum(s[1]) = 0 => Stretch(FrameNums(Tail(s)), Len(Tail(s)), lo, hi)
         /\ s # <<>> /\ FrameNum(s[1]) # 0 =>
              /\ FrameNum(s[1]) = lo + 1 /\ lo + 1 <= hi
              /\ Stretch(FrameNums(Tail(s)), Len(Tail(s)), lo + 1, hi)
<1> DEFINE k == Len(s)
           t == FrameNums(s)
           u == FrameNums(Append(s, f))
           v == FrameNums(Tail(s))
<1>1. /\ k \in Nat /\ Len(Append(s, f)) = k + 1 /\ Stretch(t, k, lo, hi)
      /\ \A i \in 1 .. k : u[i] = t[i]
      /\ u[k + 1] = FrameNum(f)
  BY FrameNumsFacts, AppendFacts
<1>2. s # <<>> => /\ k \in Nat \ {0} /\ Len(Tail(s)) = k - 1
                  /\ t[1] = FrameNum(s[1])
                  /\ \A i \in 1 .. k - 1 : v[i] = t[i + 1]
  BY FrameNumsFacts, TailFacts
<1> HIDE DEF k, t, u, v
<1>3. /\ u[k + 1] = 0 => Stretch(u, k + 1, lo, hi)
      /\ u[k + 1] = hi + 1 => Stretch(u, k + 1, lo, hi + 1)
  BY <1>1, StretchAppend
<1>4. s # <<>> => /\ t[1] = 0 => Stretch(v, k - 1, lo, hi)
                  /\ t[1] # 0 => t[1] = lo + 1 /\ lo + 1 <= hi /\ Stretch(v, k - 1, lo + 1, hi)
  BY <1>1, <1>2, StretchTail
<1>5. /\ FrameNum(f) = 0 => Stretch(u, Len(Append(s, f)), lo, hi)
      /\ FrameNum(f) = hi + 1 => Stretch(u, Len(Append(s, f)), lo, hi + 1)
  BY <1>1, <1>3
<1>6. /\ s # <<>> /\ FrameNum(s[1]) = 0 => Stretch(v, Len(Tail(s)), lo, hi)
      /\ s # <<>> /\ FrameNum(s[1]) # 0 =>
           FrameNum(s[1]) = lo + 1 /\ lo + 1 <= hi /\ Stretch(v, Len(Tail(s)), lo + 1, hi)
  BY <1>2, <1>4
<1> QED
  BY <1>5, <1>6 DEF u, v

LEMMA SenderStretch ==
  ASSUME NEW s \in Seq(Sender), NEW q \in Sender, NEW lo \in Nat, NEW hi \in Nat,
         Stretch(SenderNums(s), Len(s), lo, hi)
  PROVE  /\ FrameNum(q.frame) = 0 =>
              Stretch(SenderNums(Append(s, q)), Len(Append(s, q)), lo, hi)
         /\ FrameNum(q.frame) = hi + 1 =>
              Stretch(SenderNums(Append(s, q)), Len(Append(s, q)), lo, hi + 1)
         /\ s # <<>> /\ FrameNum(s[1].frame) = 0 => Stretch(SenderNums(Tail(s)), Len(Tail(s)), lo, hi)
         /\ s # <<>> /\ FrameNum(s[1].frame) # 0 =>
              /\ FrameNum(s[1].frame) = lo + 1 /\ lo + 1 <= hi
              /\ Stretch(SenderNums(Tail(s)), Len(Tail(s)), lo + 1, hi)
<1> DEFINE k == Len(s)
           t == SenderNums(s)
           u == SenderNums(Append(s, q))
           v == SenderNums(Tail(s))
<1>1. /\ k \in Nat /\ Len(Append(s, q)) = k + 1 /\ Stretch(t, k, lo, hi)
      /\ \A i \in 1 .. k : u[i] = t[i]
      /\ u[k + 1] = FrameNum(q.frame)
  BY SenderNumsFacts, AppendFacts
<1>2. s # <<>> => /\ k \in Nat \ {0} /\ Len(Tail(s)) = k - 1
                  /\ t[1] = FrameNum(s[1].frame)
                  /\ \A i \in 1 .. k - 1 : v[i] = t[i + 1]
  BY SenderNumsFacts, TailFacts
<1> HIDE DEF k, t, u, v
<1>3. /\ u[k + 1] = 0 => Stretch(u, k + 1, lo, hi)
      /\ u[k + 1] = hi + 1 => Stretch(u, k + 1, lo, hi + 1)
  BY <1>1, StretchAppend
<1>4. s # <<>> => /\ t[1] = 0 => Stretch(v, k - 1, lo, hi)
                  /\ t[1] # 0 => t[1] = lo + 1 /\ lo + 1 <= hi /\ Stretch(v, k - 1, lo + 1, hi)
  BY <1>1, <1>2, StretchTail
<1>5. /\ FrameNum(q.frame) = 0 => Stretch(u, Len(Append(s, q)), lo, hi)
      /\ FrameNum(q.frame) = hi + 1 => Stretch(u, Len(Append(s, q)), lo, hi + 1)
  BY <1>1, <1>3
<1>6. /\ s # <<>> /\ FrameNum(s[1].frame) = 0 => Stretch(v, Len(Tail(s)), lo, hi)
      /\ s # <<>> /\ FrameNum(s[1].frame) # 0 =>
           FrameNum(s[1].frame) = lo + 1 /\ lo + 1 <= hi /\ Stretch(v, Len(Tail(s)), lo + 1, hi)
  BY <1>2, <1>4
<1> QED
  BY <1>5, <1>6 DEF u, v

\* msg_writer takes the first frame, and the first sender that waits moves in.
LEMMA FlowsTake ==
  ASSUME NEW bu \in Seq(Frame), bu # <<>>, NEW pk \in Seq(Sender), NEW s, NEW cr,
         NEW n \in Nat, NEW m \in Nat, Flows(bu, pk, <<>>, s, FALSE, cr, n, m)
  PROVE  /\ pk = <<>> => Flows(Tail(bu), pk, Chunks(bu[1]), s, FALSE, cr, n, m)
         /\ pk # <<>> => Flows(Append(Tail(bu), pk[1].frame), Tail(pk), Chunks(bu[1]), s,
                               FALSE, cr, n, m)
<1>1. PICK b \in 0 .. m, a \in 0 .. m, e \in 0 .. m :
        /\ cr = FALSE => Stretch(ChunkNums(s), Len(s), n, b)
        /\ Stretch(ChunkNums(<<>>), Len(<<>>), b, a)
        /\ Stretch(FrameNums(bu), Len(bu), a, e)
        /\ Stretch(SenderNums(pk), Len(pk), e, m)
  BY DEF Flows
<1>2. b \in Nat /\ a \in Nat /\ e \in Nat /\ a <= e /\ e <= m
  BY <1>1 DEF Stretch
<1>3. b = a
  <2>1. Len(<<>>) = 0
    OBVIOUS
  <2> QED
    BY <1>1, <1>2, <2>1, StretchEmpty
<1>4. bu[1] \in Frame /\ Tail(bu) \in Seq(Frame)
  BY TailFacts
<1>6. PICK c \in 0 .. m :
        /\ Stretch(ChunkNums(Chunks(bu[1])), Len(Chunks(bu[1])), b, c)
        /\ Stretch(FrameNums(Tail(bu)), Len(Tail(bu)), c, e)
  <2>1. /\ FrameNum(bu[1]) = 0 => Stretch(FrameNums(Tail(bu)), Len(Tail(bu)), a, e)
        /\ FrameNum(bu[1]) # 0 =>
             /\ FrameNum(bu[1]) = a + 1 /\ a + 1 <= e
             /\ Stretch(FrameNums(Tail(bu)), Len(Tail(bu)), a + 1, e)
    BY <1>1, <1>2, <1>4, FrameStretch
  <2>2. CASE FrameNum(bu[1]) = 0
    BY <1>2, <1>3, <1>4, <2>1, <2>2, ChunksStretch
  <2>3. CASE FrameNum(bu[1]) # 0
    <3>1. a + 1 \in 0 .. m
      BY <1>2, <2>1, <2>3
    <3>2. Stretch(ChunkNums(Chunks(bu[1])), Len(Chunks(bu[1])), b, a + 1)
      BY <1>2, <1>3, <1>4, <2>1, <2>3, ChunksStretch
    <3> QED
      BY <2>1, <2>3, <3>1, <3>2
  <2> QED
    BY <2>2, <2>3
<1>7. CASE pk = <<>>
  BY <1>1, <1>6, <1>7 DEF Flows
<1>8. CASE pk # <<>>
  <2>1. pk[1] \in Sender /\ pk[1].frame \in Frame
    <3>1. pk[1] \in Sender
      BY <1>8, TailFacts
    <3> QED
      BY <3>1 DEF Sender
  <2> DEFINE r == Append(Tail(bu), pk[1].frame)
  <2>4. PICK d \in 0 .. m :
          /\ Stretch(FrameNums(r), Len(r), c, d)
          /\ Stretch(SenderNums(Tail(pk)), Len(Tail(pk)), d, m)
    <3>1. /\ FrameNum(pk[1].frame) = 0 => Stretch(SenderNums(Tail(pk)), Len(Tail(pk)), e, m)
          /\ FrameNum(pk[1].frame) # 0 =>
               /\ FrameNum(pk[1].frame) = e + 1 /\ e + 1 <= m
               /\ Stretch(SenderNums(Tail(pk)), Len(Tail(pk)), e + 1, m)
      BY <1>1, <1>2, <1>8, <2>1, SenderStretch
    <3>2. c \in Nat
      BY <1>2
    <3>3. /\ FrameNum(pk[1].frame) = 0 => Stretch(FrameNums(r), Len(r), c, e)
          /\ FrameNum(pk[1].frame) = e + 1 => Stretch(FrameNums(r), Len(r), c, e + 1)
      BY <1>2, <1>4, <1>6, <2>1, <3>2, FrameStretch
    <3> HIDE DEF r
    <3>4. CASE FrameNum(pk[1].frame) = 0
      BY <3>1, <3>3, <3>4
    <3>5. CASE FrameNum(pk[1].frame) # 0
      <4>1. e + 1 \in 0 .. m
        BY <1>2, <3>1, <3>5
      <4> QED
        BY <3>1, <3>3, <3>5, <4>1
    <3> QED
      BY <3>4, <3>5
  <2> QED
    BY <1>1, <1>6, <1>8, <2>4 DEF Flows, r
<1> QED
  BY <1>7, <1>8

\* A chunk goes from the writer to the network.
LEMMA FlowsWrite ==
  ASSUME NEW bu, NEW pk, NEW o \in Seq(Chunk), o # <<>>, NEW s \in Seq(Chunk), NEW cr,
         NEW n \in Nat, NEW m \in Nat, Flows(bu, pk, o, s, FALSE, cr, n, m)
  PROVE  Flows(bu, pk, Tail(o), Append(s, o[1]), FALSE, cr, n, m)
<1>1. PICK b \in 0 .. m, a \in 0 .. m, e \in 0 .. m :
        /\ cr = FALSE => Stretch(ChunkNums(s), Len(s), n, b)
        /\ Stretch(ChunkNums(o), Len(o), b, a)
        /\ Stretch(FrameNums(bu), Len(bu), a, e)
        /\ Stretch(SenderNums(pk), Len(pk), e, m)
  BY DEF Flows
<1>2. b \in Nat /\ a \in Nat /\ e \in Nat /\ a <= m
  BY <1>1
<1>3. o[1] \in Chunk
  BY TailFacts
<1> DEFINE r == Append(s, o[1])
<1>6. /\ ChunkNum(o[1]) = 0 => Stretch(ChunkNums(Tail(o)), Len(Tail(o)), b, a)
      /\ ChunkNum(o[1]) # 0 =>
           /\ ChunkNum(o[1]) = b + 1 /\ b + 1 <= a
           /\ Stretch(ChunkNums(Tail(o)), Len(Tail(o)), b + 1, a)
  BY <1>1, <1>2, <1>3, ChunkStretch
<1>7. /\ ChunkNum(o[1]) = 0 /\ cr = FALSE => Stretch(ChunkNums(r), Len(r), n, b)
      /\ ChunkNum(o[1]) = b + 1 /\ cr = FALSE => Stretch(ChunkNums(r), Len(r), n, b + 1)
  BY <1>1, <1>2, <1>3, ChunkStretch
<1> HIDE DEF r
<1>8. CASE ChunkNum(o[1]) = 0
  BY <1>1, <1>6, <1>7, <1>8 DEF Flows, r
<1>9. CASE ChunkNum(o[1]) # 0
  <2>1. b + 1 \in 0 .. m
    BY <1>2, <1>6, <1>9
  <2> QED
    BY <1>1, <1>6, <1>7, <1>9, <2>1 DEF Flows, r
<1> QED
  BY <1>8, <1>9

\* A frame is buffered, or its sender suspended behind the others.
LEMMA FlowsQueue ==
  ASSUME NEW bu \in Seq(Frame), NEW pk \in Seq(Sender), NEW o, NEW s, NEW cr,
         NEW n \in Nat, NEW m \in Nat, Flows(bu, pk, o, s, FALSE, cr, n, m),
         NEW q \in Sender, NEW w \in {m, m + 1},
         FrameNum(q.frame) = IF w = m THEN 0 ELSE m + 1
  PROVE  /\ pk = <<>> => Flows(Append(bu, q.frame), pk, o, s, FALSE, cr, n, w)
         /\ Flows(bu, Append(pk, q), o, s, FALSE, cr, n, w)
<1>1. PICK b \in 0 .. m, a \in 0 .. m, e \in 0 .. m :
        /\ cr = FALSE => Stretch(ChunkNums(s), Len(s), n, b)
        /\ Stretch(ChunkNums(o), Len(o), b, a)
        /\ Stretch(FrameNums(bu), Len(bu), a, e)
        /\ Stretch(SenderNums(pk), Len(pk), e, m)
  BY DEF Flows
<1>2. /\ b \in Nat /\ a \in Nat /\ e \in Nat /\ q.frame \in Frame
      /\ w \in Nat /\ w \in 0 .. w /\ b \in 0 .. w /\ a \in 0 .. w /\ e \in 0 .. w
  BY <1>1 DEF Sender
<1>5. pk = <<>> => Flows(Append(bu, q.frame), pk, o, s, FALSE, cr, n, w)
  <2> SUFFICES ASSUME pk = <<>> PROVE Flows(Append(bu, q.frame), pk, o, s, FALSE, cr, n, w)
    OBVIOUS
  <2>1. Len(pk) = 0
    OBVIOUS
  <2>2. e = m /\ Stretch(SenderNums(pk), Len(pk), w, w)
    BY <1>1, <1>2, <2>1, StretchEmpty
  <2>3. /\ FrameNum(q.frame) = 0 =>
             Stretch(FrameNums(Append(bu, q.frame)), Len(Append(bu, q.frame)), a, e)
        /\ FrameNum(q.frame) = e + 1 =>
             Stretch(FrameNums(Append(bu, q.frame)), Len(Append(bu, q.frame)), a, e + 1)
    BY <1>1, <1>2, FrameStretch
  <2>4. Stretch(FrameNums(Append(bu, q.frame)), Len(Append(bu, q.frame)), a, w)
    BY <2>2, <2>3
  <2> QED
    BY <1>1, <1>2, <2>2, <2>4 DEF Flows
<1>6. Stretch(SenderNums(Append(pk, q)), Len(Append(pk, q)), e, w)
  <2>1. /\ FrameNum(q.frame) = 0 =>
             Stretch(SenderNums(Append(pk, q)), Len(Append(pk, q)), e, m)
        /\ FrameNum(q.frame) = m + 1 =>
             Stretch(SenderNums(Append(pk, q)), Len(Append(pk, q)), e, m + 1)
    BY <1>1, <1>2, SenderStretch
  <2> QED
    BY <2>1
<1> QED
  BY <1>1, <1>2, <1>5, <1>6 DEF Flows

\* The reader takes a chunk off the network.
LEMMA FlowsRead ==
  ASSUME NEW bu, NEW pk, NEW o, NEW s \in Seq(Chunk), s # <<>>, NEW cw,
         NEW n \in Nat, NEW m \in Nat, Flows(bu, pk, o, s, cw, FALSE, n, m)
  PROVE  /\ ChunkNum(s[1]) = 0 => Flows(bu, pk, o, Tail(s), cw, FALSE, n, m)
         /\ ChunkNum(s[1]) # 0 => /\ ChunkNum(s[1]) = n + 1 /\ n + 1 <= m
                                  /\ Flows(bu, pk, o, Tail(s), cw, FALSE, n + 1, m)
<1>1. PICK b \in 0 .. m, a \in 0 .. m, e \in 0 .. m :
        /\ Stretch(ChunkNums(s), Len(s), n, b)
        /\ cw = FALSE => /\ Stretch(ChunkNums(o), Len(o), b, a)
                         /\ Stretch(FrameNums(bu), Len(bu), a, e)
                         /\ Stretch(SenderNums(pk), Len(pk), e, m)
  BY DEF Flows
<1>2. b \in Nat /\ b <= m
  BY <1>1
<1>3. s[1] \in Chunk
  BY TailFacts
<1>5. /\ ChunkNum(s[1]) = 0 => Stretch(ChunkNums(Tail(s)), Len(Tail(s)), n, b)
      /\ ChunkNum(s[1]) # 0 =>
           /\ ChunkNum(s[1]) = n + 1 /\ n + 1 <= b
           /\ Stretch(ChunkNums(Tail(s)), Len(Tail(s)), n + 1, b)
  BY <1>1, <1>2, <1>3, ChunkStretch
<1>6. n + 1 <= b => n + 1 <= m
  BY <1>2
<1> QED
  BY <1>1, <1>5, <1>6 DEF Flows

\* A session closes, at this end or at that: what its writer had is lost.
LEMMA FlowsClose ==
  ASSUME NEW bu, NEW pk, NEW o, NEW s, NEW cw, NEW cr, NEW n, NEW m,
         Flows(bu, pk, o, s, cw, cr, n, m)
  PROVE  /\ Flows(<<>>, pk, <<>>, s, TRUE, cr, n, m)
         /\ Flows(bu, pk, o, s, cw, TRUE, n, m)
<1>1. PICK b \in 0 .. m, a \in 0 .. m, e \in 0 .. m :
        /\ cr = FALSE => Stretch(ChunkNums(s), Len(s), n, b)
        /\ cw = FALSE => /\ Stretch(ChunkNums(o), Len(o), b, a)
                         /\ Stretch(FrameNums(bu), Len(bu), a, e)
                         /\ Stretch(SenderNums(pk), Len(pk), e, m)
  BY DEF Flows
<1> QED
  BY <1>1 DEF Flows

-----------------------------------------------------------------------------
(* The framing of one way *)

\* What the writer has of a frame goes chunk by chunk, in the order of the frame.
LEMMA UnwrittenFacts ==
  ASSUME NEW o \in Seq(Chunk), o # <<>>, Unwritten(o)
  PROVE  /\ Unwritten(Tail(o)) /\ Continues(After(o[1]), Tail(o))
         /\ o[1].part = "header" \/ (o[1].part = "body" /\ Len(o) = 1)
<1>1. PICK f \in Frame : o = Chunks(f) \/ (f.size # "empty" /\ o = <<Body(f)>>)
  BY DEF Unwritten
<1>2. CASE f.size # "empty" /\ o = <<Body(f)>>
  <2>1. Tail(o) = <<>> /\ o[1] = Body(f) /\ Len(o) = 1
    BY <1>2
  <2> QED
    BY <2>1 DEF Unwritten, Continues, After, Body
<1>3. CASE f.size = "empty" /\ o = Chunks(f)
  <2>1. o = <<Header(f)>>
    BY <1>3 DEF Chunks
  <2>2. Tail(o) = <<>> /\ o[1] = Header(f)
    BY <2>1
  <2> QED
    BY <1>3, <2>2 DEF Unwritten, Continues, After, Header
<1>4. CASE f.size # "empty" /\ o = Chunks(f)
  <2>1. o = <<Header(f), Body(f)>>
    BY <1>4 DEF Chunks
  <2>2. Tail(o) = <<Body(f)>> /\ o[1] = Header(f)
    BY <2>1
  <2>3. <<Body(f)>> # <<>> /\ <<Body(f)>>[1] = Body(f)
    OBVIOUS
  <2>4. After(o[1]) = Body(f) /\ o[1].part = "header"
    BY <1>4, <2>2 DEF After, Header
  <2>5. Body(f) # Boundary
    BY DEF Body, Boundary, Header
  <2> QED
    BY <1>4, <2>2, <2>3, <2>4, <2>5 DEF Unwritten, Continues, Fits
<1> QED
  BY <1>1, <1>2, <1>3, <1>4

\* The writer starts on a frame, at a boundary.
LEMMA FramedTake ==
  ASSUME NEW s, NEW rd, NEW cr, NEW f \in Frame, Framed(<<>>, s, rd, FALSE, cr)
  PROVE  Framed(Chunks(f), s, rd, FALSE, cr)
<1>1. Chunks(f) # <<>> /\ Chunks(f)[1].part = "header" /\ Unwritten(Chunks(f))
  <2>1. Chunks(f) # <<>> /\ Chunks(f)[1] = Header(f)
    BY ChunksFacts
  <2>2. Header(f).part = "header"
    BY DEF Header
  <2>3. Unwritten(Chunks(f))
    BY DEF Unwritten
  <2> QED
    BY <2>1, <2>2, <2>3
<1>2. \A e : Continues(e, <<>>) => Continues(e, Chunks(f))
  BY <1>1 DEF Continues, Fits
<1> QED
  BY <1>1, <1>2 DEF Framed

\* A chunk goes from the writer to the network.
LEMMA FramedWrite ==
  ASSUME NEW o \in Seq(Chunk), o # <<>>, NEW s \in Seq(Chunk), NEW rd, NEW cr,
         Framed(o, s, rd, FALSE, cr)
  PROVE  Framed(Tail(o), Append(s, o[1]), rd, FALSE, cr)
<1> DEFINE c == o[1]
           u == Append(s, c)
<1>1. c \in Chunk
  BY TailFacts
<1>2. /\ Len(s) \in Nat /\ Len(u) = Len(s) + 1 /\ u # <<>>
      /\ \A i \in 1 .. Len(s) : u[i] = s[i]
      /\ u[Len(u)] = c /\ u[Len(s) + 1] = c
      /\ s = <<>> <=> Len(s) = 0
  BY <1>1, AppendFacts, EmptyFacts
<1>3. Unwritten(Tail(o)) /\ Continues(After(c), Tail(o))
  BY UnwrittenFacts DEF Framed
<1> HIDE DEF c, u
<1>4. /\ s # <<>> => Fits(After(s[Len(s)]), c)
      /\ s = <<>> /\ Listens(rd, cr) => Fits(Expected(rd), c)
  BY DEF Framed, Continues, c
<1>5. \A i \in 1 .. Len(u) - 1 : Fits(After(u[i]), u[i + 1])
  <2> SUFFICES ASSUME NEW i \in 1 .. Len(s) PROVE Fits(After(u[i]), u[i + 1])
    BY <1>2
  <2>1. CASE i = Len(s)
    BY <1>2, <1>4, <2>1
  <2>2. CASE i # Len(s)
    <3>1. i \in 1 .. Len(s) - 1 /\ i + 1 \in 1 .. Len(s)
      BY <1>2, <2>2
    <3> QED
      BY <1>2, <3>1 DEF Framed
  <2> QED
    BY <2>1, <2>2
<1>6. Listens(rd, cr) => Fits(Expected(rd), u[1])
  <2>1. CASE s = <<>>
    <3>1. u[1] = c
      BY <1>2, <2>1
    <3> QED
      BY <1>4, <2>1, <3>1
  <2>2. CASE s # <<>>
    <3>1. u[1] = s[1]
      BY <1>2, <2>2
    <3> QED
      BY <2>2, <3>1 DEF Framed
  <2> QED
    BY <2>1, <2>2
<1>7. Framed(Tail(o), u, rd, FALSE, cr)
  BY <1>2, <1>3, <1>5, <1>6 DEF Framed
<1> QED
  BY <1>7 DEF u, c

\* The reader takes a chunk, and waits for what has to come after it.
LEMMA FramedRead ==
  ASSUME NEW o, NEW s \in Seq(Chunk), s # <<>>, NEW rd, NEW ru, NEW cw, NEW cr,
         Framed(o, s, rd, cw, cr), Listens(ru, cr) => Expected(ru) = After(s[1])
  PROVE  Framed(o, Tail(s), ru, cw, cr)
<1> DEFINE u == Tail(s)
<1>1. /\ Len(s) \in Nat \ {0} /\ Len(u) = Len(s) - 1 /\ u \in Seq(Chunk)
      /\ \A i \in 1 .. Len(s) - 1 : u[i] = s[i + 1]
  BY TailFacts
<1>2. u = <<>> <=> Len(u) = 0
  BY <1>1, EmptyFacts
<1> HIDE DEF u
<1>3. /\ Unwritten(o)
      /\ \A i \in 1 .. Len(s) - 1 : Fits(After(s[i]), s[i + 1])
      /\ cw = FALSE => Continues(After(s[Len(s)]), o)
  BY DEF Framed
<1>4. \A i \in 1 .. Len(u) - 1 : Fits(After(u[i]), u[i + 1])
  <2> SUFFICES ASSUME NEW i \in 1 .. Len(u) - 1 PROVE Fits(After(u[i]), u[i + 1])
    OBVIOUS
  <2>1. /\ i \in 1 .. Len(s) - 1 /\ i + 1 \in 1 .. Len(s) - 1
        /\ u[i] = s[i + 1] /\ u[i + 1] = s[(i + 1) + 1]
    BY <1>1
  <2> QED
    BY <1>3, <2>1
<1>5. CASE u = <<>>
  <2>1. Len(s) = 1
    BY <1>1, <1>2, <1>5
  <2> QED
    BY <1>3, <1>4, <1>5, <2>1 DEF Framed, u
<1>6. CASE u # <<>>
  <2>1. /\ 1 \in 1 .. Len(s) - 1 /\ u[1] = s[1 + 1] /\ u[Len(u)] = s[Len(s)]
    BY <1>1, <1>2, <1>6
  <2> QED
    BY <1>3, <1>4, <1>6, <2>1 DEF Framed, u
<1> QED
  BY <1>5, <1>6

\* The reader moves on without reading, and waits for the same.
LEMMA FramedMoves ==
  ASSUME NEW o, NEW s, NEW rd, NEW ru, NEW cw, NEW cr, Framed(o, s, rd, cw, cr),
         Listens(ru, cr) => Listens(rd, cr) /\ Expected(ru) = Expected(rd)
  PROVE  Framed(o, s, ru, cw, cr)
  BY DEF Framed

\* A session closes, at this end or at that.
LEMMA FramedClose ==
  ASSUME NEW o, NEW s, NEW rd, NEW ru, NEW cw, NEW cr, Framed(o, s, rd, cw, cr)
  PROVE  Framed(<<>>, s, rd, TRUE, cr) /\ Framed(o, s, ru, cw, TRUE)
  BY DEF Framed, Unwritten, Listens

-----------------------------------------------------------------------------
(* One way, step by step *)

LEMMA StreamTake ==
  ASSUME NEW L, NEW bu, NEW pk, NEW s, NEW rd, NEW cr, NEW n \in Nat, NEW m \in Nat,
         Stream(L, bu, pk, <<>>, s, rd, FALSE, cr, n, m), bu # <<>>
  PROVE  /\ bu[1] \in Frame
         /\ pk = <<>> => Stream(L, Tail(bu), pk, Chunks(bu[1]), s, rd, FALSE, cr, n, m)
         /\ pk # <<>> => /\ pk[1] \in Sender /\ Waits(L, pk[1])
                         /\ Stream(L, Append(Tail(bu), pk[1].frame), Tail(pk),
                                   Chunks(bu[1]), s, rd, FALSE, cr, n, m)
<1>1. /\ bu \in Seq(Frame) /\ Len(bu) <= WriteCap /\ pk \in Seq(Sender)
      /\ pk # <<>> => Len(bu) = WriteCap
      /\ s \in Seq(Chunk) /\ Len(s) <= PipeCap
      /\ \A i \in 1 .. Len(bu) : bu[i] \in L
      /\ \A i \in 1 .. Len(pk) : Waits(L, pk[i])
      /\ \A i \in 1 .. Len(s) : s[i].frame \in L
  BY DEF Stream, Held
<1>2. /\ bu[1] \in Frame /\ Len(bu) \in Nat \ {0} /\ Tail(bu) \in Seq(Frame)
      /\ Len(Tail(bu)) = Len(bu) - 1
      /\ \A i \in 1 .. Len(bu) - 1 : Tail(bu)[i] = bu[i + 1]
  BY <1>1, TailFacts
<1>3. WriteCap \in Nat
  BY ConnectionAssumption
<1>4. bu[1] \in L /\ \A i \in 1 .. Len(Tail(bu)) : Tail(bu)[i] \in L
  BY <1>1, <1>2
<1>5. /\ Chunks(bu[1]) \in Seq(Chunk) /\ Len(Chunks(bu[1])) <= 2
      /\ \A i \in 1 .. Len(Chunks(bu[1])) : Chunks(bu[1])[i].frame \in L
  <2> DEFINE f == bu[1]
  <2>1. /\ Chunks(f) \in Seq(Chunk) /\ Len(Chunks(f)) \in {1, 2}
        /\ Chunks(f)[1] = Header(f) /\ (Len(Chunks(f)) = 2 => Chunks(f)[2] = Body(f))
    BY <1>2, ChunksFacts
  <2>2. Header(f).frame = f /\ Body(f).frame = f /\ f \in L
    BY <1>4 DEF Header, Body
  <2> HIDE DEF f
  <2>3. Len(Chunks(f)) <= 2 /\ \A i \in 1 .. Len(Chunks(f)) : i = 1 \/ i = 2
    <3> DEFINE k == Len(Chunks(f))
    <3>1. k \in {1, 2}
      BY <2>1
    <3> HIDE DEF k
    <3>2. k <= 2 /\ \A i \in 1 .. k : i = 1 \/ i = 2
      BY <3>1
    <3> QED
      BY <3>2 DEF k
  <2>4. \A i \in 1 .. Len(Chunks(f)) : Chunks(f)[i].frame \in L
    BY <2>1, <2>2, <2>3
  <2> QED
    BY <2>1, <2>3, <2>4 DEF f
<1>6. Framed(Chunks(bu[1]), s, rd, FALSE, cr)
  BY <1>2, FramedTake DEF Stream
<1>7. Flows(bu, pk, <<>>, s, FALSE, cr, n, m)
  BY DEF Stream
<1>8. CASE pk = <<>>
  <2>1. Held(L, Tail(bu), pk, Chunks(bu[1]), s)
    BY <1>1, <1>2, <1>3, <1>4, <1>5, <1>8 DEF Held
  <2>2. Flows(Tail(bu), pk, Chunks(bu[1]), s, FALSE, cr, n, m)
    BY <1>1, <1>7, <1>8, FlowsTake
  <2> QED
    BY <1>2, <1>6, <1>8, <2>1, <2>2 DEF Stream
<1>9. CASE pk # <<>>
  <2>1. /\ pk[1] \in Sender /\ Len(pk) \in Nat \ {0} /\ Tail(pk) \in Seq(Sender)
        /\ Len(Tail(pk)) = Len(pk) - 1
        /\ \A i \in 1 .. Len(pk) - 1 : Tail(pk)[i] = pk[i + 1]
    BY <1>1, <1>9, TailFacts
  <2>2. Waits(L, pk[1]) /\ \A i \in 1 .. Len(Tail(pk)) : Waits(L, Tail(pk)[i])
    BY <1>1, <2>1
  <2>3. pk[1].frame \in Frame
    BY <2>1 DEF Sender
  <2>4. pk[1].frame \in L
    BY <2>2 DEF Waits
  <2> DEFINE u == Append(Tail(bu), pk[1].frame)
  <2>5. /\ u \in Seq(Frame) /\ Len(u) = Len(Tail(bu)) + 1
        /\ \A i \in 1 .. Len(Tail(bu)) : u[i] = Tail(bu)[i]
        /\ u[Len(Tail(bu)) + 1] = pk[1].frame
    BY <1>2, <2>3, AppendFacts
  <2> HIDE DEF u
  <2>6. Len(u) = Len(bu) /\ Len(u) = WriteCap
    BY <1>1, <1>2, <1>9, <2>5
  <2>7. \A i \in 1 .. Len(u) : u[i] \in L
    <3>1. \A i \in 1 .. Len(u) : i \in 1 .. Len(Tail(bu)) \/ i = Len(Tail(bu)) + 1
      BY <1>2, <2>6
    <3> QED
      BY <1>4, <2>4, <2>5, <3>1
  <2>8. Held(L, u, Tail(pk), Chunks(bu[1]), s)
    BY <1>1, <1>3, <1>5, <2>1, <2>2, <2>5, <2>6, <2>7 DEF Held
  <2>9. Flows(u, Tail(pk), Chunks(bu[1]), s, FALSE, cr, n, m)
    BY <1>1, <1>7, <1>9, FlowsTake DEF u
  <2> QED
    BY <1>2, <1>6, <1>9, <2>1, <2>2, <2>6, <2>8, <2>9 DEF Stream, u
<1> QED
  BY <1>8, <1>9

LEMMA StreamWrite ==
  ASSUME NEW L, NEW bu, NEW pk, NEW o, NEW s, NEW rd, NEW cr, NEW n \in Nat, NEW m \in Nat,
         Stream(L, bu, pk, o, s, rd, FALSE, cr, n, m), o # <<>>, Len(s) < PipeCap
  PROVE  Stream(L, bu, pk, Tail(o), Append(s, o[1]), rd, FALSE, cr, n, m)
<1>1. /\ o \in Seq(Chunk) /\ Len(o) <= 2 /\ s \in Seq(Chunk) /\ PipeCap \in Nat
      /\ \A i \in 1 .. Len(o) : o[i].frame \in L
      /\ \A i \in 1 .. Len(s) : s[i].frame \in L
  BY ConnectionAssumption DEF Stream, Held
<1>2. /\ o[1] \in Chunk /\ Len(o) \in Nat \ {0} /\ Tail(o) \in Seq(Chunk)
      /\ Len(Tail(o)) = Len(o) - 1
      /\ \A i \in 1 .. Len(o) - 1 : Tail(o)[i] = o[i + 1]
  BY <1>1, TailFacts
<1> DEFINE u == Append(s, o[1])
<1>3. /\ u \in Seq(Chunk) /\ Len(s) \in Nat /\ Len(u) = Len(s) + 1
      /\ \A i \in 1 .. Len(s) : u[i] = s[i]
      /\ u[Len(s) + 1] = o[1]
  BY <1>1, <1>2, AppendFacts
<1>4. Framed(Tail(o), u, rd, FALSE, cr)
  BY <1>1, FramedWrite DEF Stream
<1>5. Flows(bu, pk, Tail(o), u, FALSE, cr, n, m)
  BY <1>1, FlowsWrite DEF Stream
<1> HIDE DEF u
<1>6. o[1].frame \in L /\ \A i \in 1 .. Len(Tail(o)) : Tail(o)[i].frame \in L
  BY <1>1, <1>2
<1>7. \A i \in 1 .. Len(u) : u[i].frame \in L
  <2>1. \A i \in 1 .. Len(u) : i \in 1 .. Len(s) \/ i = Len(s) + 1
    BY <1>3
  <2> QED
    BY <1>1, <1>3, <1>6, <2>1
<1>8. Len(Tail(o)) <= 2 /\ Len(u) <= PipeCap
  BY <1>1, <1>2, <1>3
<1>9. Held(L, bu, pk, Tail(o), u)
  BY <1>2, <1>3, <1>6, <1>7, <1>8 DEF Stream, Held
<1> QED
  BY <1>4, <1>5, <1>9 DEF Stream, u

LEMMA StreamQueue ==
  ASSUME NEW L, NEW bu, NEW pk, NEW o, NEW s, NEW rd, NEW cr, NEW n \in Nat, NEW m \in Nat,
         Stream(L, bu, pk, o, s, rd, FALSE, cr, n, m),
         NEW q \in Sender, q.frame \in L, NEW w \in {m, m + 1},
         FrameNum(q.frame) = IF w = m THEN 0 ELSE m + 1
  PROVE  /\ Len(bu) < WriteCap =>
              Stream(L, Append(bu, q.frame), pk, o, s, rd, FALSE, cr, n, w)
         /\ ~(Len(bu) < WriteCap) /\ Waits(L, q) =>
              Stream(L, bu, Append(pk, q), o, s, rd, FALSE, cr, n, w)
<1>1. /\ bu \in Seq(Frame) /\ Len(bu) <= WriteCap /\ pk \in Seq(Sender) /\ WriteCap \in Nat
      /\ pk # <<>> => Len(bu) = WriteCap
      /\ \A i \in 1 .. Len(bu) : bu[i] \in L
      /\ \A i \in 1 .. Len(pk) : Waits(L, pk[i])
      /\ q.frame \in Frame
  BY ConnectionAssumption DEF Stream, Held, Sender
<1>2. CASE Len(bu) < WriteCap
  <2> DEFINE u == Append(bu, q.frame)
  <2>1. /\ u \in Seq(Frame) /\ Len(bu) \in Nat /\ Len(u) = Len(bu) + 1
        /\ \A i \in 1 .. Len(bu) : u[i] = bu[i]
        /\ u[Len(bu) + 1] = q.frame
    BY <1>1, AppendFacts
  <2>2. pk = <<>>
    BY <1>1, <1>2
  <2>3. Flows(u, pk, o, s, FALSE, cr, n, w)
    BY <1>1, <2>2, FlowsQueue DEF Stream
  <2> HIDE DEF u
  <2>4. Len(u) <= WriteCap
    BY <1>1, <1>2, <2>1
  <2>5. \A i \in 1 .. Len(u) : u[i] \in L
    <3>1. \A i \in 1 .. Len(u) : i \in 1 .. Len(bu) \/ i = Len(bu) + 1
      BY <2>1
    <3> QED
      BY <1>1, <2>1, <3>1
  <2>6. Held(L, u, pk, o, s)
    BY <2>1, <2>4, <2>5 DEF Stream, Held
  <2> QED
    BY <1>2, <2>2, <2>3, <2>6 DEF Stream, u
<1>3. CASE ~(Len(bu) < WriteCap)
  <2> SUFFICES ASSUME Waits(L, q)
               PROVE  Stream(L, bu, Append(pk, q), o, s, rd, FALSE, cr, n, w)
    BY <1>3
  <2> DEFINE u == Append(pk, q)
  <2>1. /\ u \in Seq(Sender) /\ Len(pk) \in Nat /\ Len(u) = Len(pk) + 1
        /\ \A i \in 1 .. Len(pk) : u[i] = pk[i]
        /\ u[Len(pk) + 1] = q
    BY <1>1, AppendFacts
  <2>2. Len(bu) = WriteCap
    <3>1. Len(bu) \in Nat
      BY <1>1, EmptyFacts
    <3> QED
      BY <1>1, <1>3, <3>1
  <2>3. Flows(bu, u, o, s, FALSE, cr, n, w)
    BY <1>1, FlowsQueue DEF Stream
  <2> HIDE DEF u
  <2>4. \A i \in 1 .. Len(u) : Waits(L, u[i])
    <3>1. \A i \in 1 .. Len(u) : i \in 1 .. Len(pk) \/ i = Len(pk) + 1
      BY <2>1
    <3> QED
      BY <1>1, <2>1, <3>1
  <2>5. Held(L, bu, u, o, s)
    BY <2>1, <2>4 DEF Stream, Held
  <2> QED
    BY <2>2, <2>3, <2>5 DEF Stream, u
<1> QED
  BY <1>2, <1>3

LEMMA StreamRead ==
  ASSUME NEW L, NEW bu, NEW pk, NEW o, NEW s, NEW rd, NEW ru, NEW cw,
         NEW n \in Nat, NEW m \in Nat,
         Stream(L, bu, pk, o, s, rd, cw, FALSE, n, m), s # <<>>,
         Listens(ru, FALSE) => Expected(ru) = After(s[1])
  PROVE  /\ s[1] \in Chunk /\ s[1].frame \in L
         /\ ChunkNum(s[1]) = 0 => Stream(L, bu, pk, o, Tail(s), ru, cw, FALSE, n, m)
         /\ ChunkNum(s[1]) # 0 =>
              /\ ChunkNum(s[1]) = n + 1 /\ n + 1 <= m
              /\ Stream(L, bu, pk, o, Tail(s), ru, cw, FALSE, n + 1, m)
<1>1. /\ s \in Seq(Chunk) /\ Len(s) <= PipeCap /\ PipeCap \in Nat
      /\ \A i \in 1 .. Len(s) : s[i].frame \in L
  BY ConnectionAssumption DEF Stream, Held
<1> DEFINE u == Tail(s)
<1>2. /\ s[1] \in Chunk /\ Len(s) \in Nat \ {0} /\ u \in Seq(Chunk)
      /\ Len(u) = Len(s) - 1
      /\ \A i \in 1 .. Len(s) - 1 : u[i] = s[i + 1]
  BY <1>1, TailFacts
<1>3. Framed(o, u, ru, cw, FALSE)
  BY <1>1, FramedRead DEF Stream
<1>4. /\ ChunkNum(s[1]) = 0 => Flows(bu, pk, o, u, cw, FALSE, n, m)
      /\ ChunkNum(s[1]) # 0 => /\ ChunkNum(s[1]) = n + 1 /\ n + 1 <= m
                               /\ Flows(bu, pk, o, u, cw, FALSE, n + 1, m)
  BY <1>1, FlowsRead DEF Stream
<1> HIDE DEF u
<1>5. s[1].frame \in L /\ \A i \in 1 .. Len(u) : u[i].frame \in L
  BY <1>1, <1>2
<1>6. Len(u) <= PipeCap
  BY <1>1, <1>2
<1>7. Held(L, bu, pk, o, u)
  BY <1>2, <1>5, <1>6 DEF Stream, Held
<1> QED
  BY <1>2, <1>3, <1>4, <1>5, <1>7 DEF Stream, u

\* The reader moves on without reading, and waits for the same.
LEMMA StreamMoves ==
  ASSUME NEW L, NEW bu, NEW pk, NEW o, NEW s, NEW rd, NEW ru, NEW cw, NEW cr, NEW n, NEW m,
         Stream(L, bu, pk, o, s, rd, cw, cr, n, m),
         Listens(ru, cr) => Listens(rd, cr) /\ Expected(ru) = Expected(rd)
  PROVE  Stream(L, bu, pk, o, s, ru, cw, cr, n, m)
<1>1. Framed(o, s, ru, cw, cr)
  BY FramedMoves DEF Stream
<1> QED
  BY <1>1 DEF Stream

\* A session closes, at this end or at that.
LEMMA StreamClose ==
  ASSUME NEW L, NEW bu, NEW pk, NEW o, NEW s, NEW rd, NEW ru, NEW cw, NEW cr, NEW n, NEW m,
         Stream(L, bu, pk, o, s, rd, cw, cr, n, m)
  PROVE  /\ Stream(L, <<>>, pk, <<>>, s, rd, TRUE, cr, n, m)
         /\ Stream(L, bu, pk, o, s, ru, cw, TRUE, n, m)
<1>1. Held(L, bu, pk, o, s) /\ Framed(o, s, rd, cw, cr) /\ Flows(bu, pk, o, s, cw, cr, n, m)
  BY DEF Stream
<1>2. Framed(<<>>, s, rd, TRUE, cr) /\ Framed(o, s, ru, cw, TRUE)
  BY <1>1, FramedClose
<1>3. Flows(<<>>, pk, <<>>, s, TRUE, cr, n, m) /\ Flows(bu, pk, o, s, cw, TRUE, n, m)
  BY <1>1, FlowsClose
<1>4. Held(L, <<>>, pk, <<>>, s)
  <2>1. /\ Len(<<>>) = 0 /\ <<>> \in Seq(Frame) /\ <<>> \in Seq(Chunk)
        /\ 0 <= WriteCap /\ 0 <= 2 /\ 1 .. 0 = {}
    BY ConnectionAssumption
  <2> QED
    BY <1>1, <2>1 DEF Held
<1> QED
  BY <1>1, <1>2, <1>3, <1>4 DEF Stream


\* More requests count as answered.
LEMMA StreamMore ==
  ASSUME NEW L, NEW K, L \subseteq K,
         NEW bu, NEW pk, NEW o, NEW s, NEW rd, NEW cw, NEW cr, NEW n, NEW m,
         Stream(L, bu, pk, o, s, rd, cw, cr, n, m)
  PROVE  Stream(K, bu, pk, o, s, rd, cw, cr, n, m)
<1>1. \A q : Waits(L, q) => Waits(K, q)
  BY DEF Waits
<1> QED
  BY <1>1 DEF Stream, Held

-----------------------------------------------------------------------------
(* The two ends *)

LEMMA PeerFacts ==
  /\ "client" \in Peers /\ "server" \in Peers
  /\ Other("client") = "server" /\ Other("server") = "client"
  /\ \A p \in Peers : /\ Other(p) \in Peers /\ Other(p) # p /\ Other(Other(p)) = p
                      /\ \A q \in Peers : q = p \/ q = Other(p)
  BY DEF Peers, Other

\* The sequences of a way have their types.
LEMMA WayTypes ==
  ASSUME NEW p \in Peers, WayOf(p)
  PROVE  /\ buf[p] \in Seq(Frame) /\ Len(buf[p]) <= WriteCap
         /\ parked[p] \in Seq(Sender)
         /\ out[p] \in Seq(Chunk) /\ Len(out[p]) <= 2
         /\ pipe[p] \in Seq(Chunk) /\ Len(pipe[p]) <= PipeCap
  BY DEF WayOf, Way, Stream, Held

LEMMA MostFacts ==
  ASSUME NEW p \in Peers
  PROVE  /\ Most(p) \in Nat
         /\ \A m \in 0 .. Most(p) : m \in Nat /\ \A n \in 0 .. m : n \in Nat
  BY ConnectionAssumption DEF Most

\* A step that does not touch a way.
LEMMA WayUntouched ==
  ASSUME NEW p \in Peers, WayOf(p),
         buf'[p] = buf[p], parked'[p] = parked[p], out'[p] = out[p], pipe'[p] = pipe[p],
         reader'[Other(p)] = reader[Other(p)], closed'[p] = closed[p],
         closed'[Other(p)] = closed[Other(p)], UNCHANGED answers,
         \A n : Arrived(p, n) => Arrived(p, n)', \A m : Made(p, m) => Made(p, m)'
  PROVE  WayOf(p)'
<1>1. \A n, m : Way(p, n, m) => Way(p, n, m)'
  BY DEF Way
<1> QED
  BY <1>1 DEF WayOf

\* What the network takes from the writer.
LEMMA WriteChunkStep ==
  ASSUME IInv, NEW p \in Peers, WriteChunk(p)
  PROVE  IInv'
<1>1. /\ closed[p] = FALSE /\ out[p] # <<>> /\ Len(pipe[p]) < PipeCap
      /\ pipe' = [pipe EXCEPT ![p] = Append(pipe[p], Head(out[p]))]
      /\ out' = [out EXCEPT ![p] = Tail(out[p])]
      /\ UNCHANGED <<buf, parked, reader, closed, call, handler, answers, notified, posted,
                     applied>>
  BY DEF WriteChunk, IInv, Rest
<1>2. /\ Rest /\ WayOf(p) /\ WayOf(Other(p)) /\ ReaderInv /\ SenderInv /\ AnswerInv /\ OrderInv
  BY PeerFacts DEF IInv, WayInv
<1>3. /\ pipe'[p] = Append(pipe[p], out[p][1]) /\ out'[p] = Tail(out[p])
      /\ pipe'[Other(p)] = pipe[Other(p)] /\ out'[Other(p)] = out[Other(p)]
  <2>1. Head(out[p]) = out[p][1]
    BY <1>1, <1>2, WayTypes, TailFacts
  <2> QED
    BY <1>1, <1>2, <2>1, PeerFacts DEF Rest
<1>4. Rest'
  BY <1>1, <1>2 DEF Rest
<1>5. (\A q, n : Arrived(q, n) => Arrived(q, n)') /\ (\A q, m : Made(q, m) => Made(q, m)')
  BY <1>1 DEF Arrived, Made
<1>6. WayOf(p)'
  <2>1. PICK m \in 0 .. Most(p) : \E n \in 0 .. m :
          Way(p, n, m) /\ Arrived(p, n) /\ Made(p, m)
    BY <1>2 DEF WayOf
  <2>2. PICK n \in 0 .. m : Way(p, n, m) /\ Arrived(p, n) /\ Made(p, m)
    BY <2>1
  <2>3. m \in Nat /\ n \in Nat
    BY MostFacts
  <2>4. Stream(Sent(p, answers), buf[p], parked[p], out[p], pipe[p], reader[Other(p)], FALSE,
               closed[Other(p)], n, m)
    BY <1>1, <2>2 DEF Way
  <2>5. Stream(Sent(p, answers), buf[p], parked[p], Tail(out[p]), Append(pipe[p], out[p][1]),
               reader[Other(p)], FALSE, closed[Other(p)], n, m)
    BY <1>1, <2>3, <2>4, StreamWrite
  <2>6. Way(p, n, m)'
    BY <1>1, <1>3, <2>5 DEF Way
  <2> QED
    BY <1>5, <2>2, <2>6 DEF WayOf
<1>7. WayOf(Other(p))'
  BY <1>1, <1>2, <1>3, <1>5, PeerFacts, WayUntouched
<1>8. ReaderInv' /\ SenderInv' /\ AnswerInv' /\ OrderInv'
  BY <1>1, <1>2 DEF ReaderInv, SenderInv, SenderOk, AnswerInv, OrderInv, OneAnswer, NotificationOrder
<1> QED
  BY <1>4, <1>6, <1>7, <1>8, PeerFacts DEF IInv, WayInv


-----------------------------------------------------------------------------
(* What the steps have in common *)

\* The numbers behind a way ...
LEMMA WayPick ==
  ASSUME NEW p \in Peers, WayOf(p)
  PROVE  \E m, n \in Nat : /\ m <= Most(p) /\ n <= m
                           /\ Way(p, n, m) /\ Arrived(p, n) /\ Made(p, m)
<1>1. PICK m \in 0 .. Most(p) : \E n \in 0 .. m : Way(p, n, m) /\ Arrived(p, n) /\ Made(p, m)
  BY DEF WayOf
<1>2. PICK n \in 0 .. m : Way(p, n, m) /\ Arrived(p, n) /\ Made(p, m)
  BY <1>1
<1>3. Most(p) \in Nat
  BY MostFacts
<1>4. m \in Nat /\ n \in Nat /\ m <= Most(p) /\ n <= m
  BY <1>3
<1> QED
  BY <1>2, <1>4

\* ... and after a step.
LEMMA WayMake ==
  ASSUME NEW p \in Peers, NEW m \in Nat, NEW n \in Nat, m <= Most(p), n <= m,
         Way(p, n, m)', Arrived(p, n)', Made(p, m)'
  PROVE  WayOf(p)'
<1>1. Most(p) \in Nat
  BY MostFacts
<1>2. m \in 0 .. Most(p) /\ n \in 0 .. m
  BY <1>1
<1>3. Most(p)' = Most(p)
  BY DEF Most
<1> QED
  BY <1>2, <1>3 DEF WayOf

\* The parts of the invariant.
LEMMA Parts ==
  ASSUME IInv
  PROVE  /\ Rest /\ WayOf("client") /\ WayOf("server") /\ \A p \in Peers : WayOf(p)
         /\ ReaderInv /\ SenderInv /\ AnswerInv /\ OrderInv
  BY PeerFacts DEF IInv, WayInv

LEMMA Whole ==
  ASSUME Rest', WayOf("client")', WayOf("server")', ReaderInv', SenderInv', AnswerInv', OrderInv'
  PROVE  IInv'
<1>1. \A p \in Peers : WayOf(p)'
  BY DEF Peers
<1> QED
  BY <1>1 DEF IInv, WayInv

\* Numbers stay where they are when handlers only move on, and the readers
\* outside a body.
LEMMA ArrivedKept ==
  ASSUME ReaderInv, NEW p \in Peers, NEW n, Arrived(p, n), UNCHANGED <<answers, applied, posted>>,
         \A r \in Requests : handler[r] = "none" => handler'[r] = "none",
         \A q \in Peers : \/ reader'[q] = reader[q] /\ closed'[q] = closed[q]
                          \/ /\ reader[q].at \notin {"body", "drain"} /\ closed'[q] = closed[q]
                             /\ reader'[q].at \notin {"body", "drain"}
                          \/ closed'[q] = TRUE /\ reader'[q].at \notin {"body", "drain"}
  PROVE  Arrived(p, n)'
<1>1. CASE p = "client"
  <2>1. Arrived("client", n)
    BY <1>1
  <2>2. reader'["server"].at \in {"body", "drain"} => reader'["server"] = reader["server"]
    BY PeerFacts
  <2>3. reader["server"].at \in {"body", "drain"} =>
          LET r == reader["server"].frame.id IN r = n /\ handler[r] = "none" /\ answers[r] = 0
    BY <2>1 DEF Arrived
  <2>4. \A r \in Requests : r > n => handler[r] = "none" /\ answers[r] = 0
    BY <2>1 DEF Arrived
  <2>5. reader["server"].at \in {"body", "drain"} => reader["server"].frame.id \in Requests
    BY PeerFacts DEF ReaderInv, Sent
  <2> QED
    BY <1>1, <2>2, <2>3, <2>4, <2>5 DEF Arrived
<1>2. CASE p = "server"
  <2>1. Arrived("server", n)
    BY <1>2
  <2> QED
    BY <1>2, <2>1, PeerFacts DEF Arrived
<1> QED
  BY <1>1, <1>2 DEF Peers


-----------------------------------------------------------------------------
(* The steps of the writer *)

\* What becomes of the first sender that waits.
LEMMA SenderResumes ==
  ASSUME IInv, NEW p \in Peers, WriterTakes(p)
  PROVE  /\ closed[p] = FALSE /\ out[p] = <<>> /\ buf[p] # <<>>
         /\ out' = [out EXCEPT ![p] = Chunks(Head(buf[p]))]
         /\ UNCHANGED <<pipe, closed, answers, notified, posted, applied>>
         /\ reader' \in [Peers -> [at : Readers, frame : Frame \cup {NoFrame}]]
         /\ call' \in [Requests -> {"idle", "parked", "sent", "answered"}]
         /\ handler' \in [Requests -> {"none", "running", "caught", "parked", "done"}]
         /\ \A r \in Requests : call'[r] = "idle" <=> call[r] = "idle"
         /\ \A r \in Requests : handler'[r] = "none" <=> handler[r] = "none"
         /\ \A r \in Requests : Unsent(handler'[r]) => Unsent(handler[r])
         /\ reader'[Other(p)] = reader[Other(p)]
         /\ \/ reader'[p] = reader[p] /\ (parked[p] # <<>> => parked[p][1].by # "reader")
            \/ /\ parked[p] # <<>> /\ parked[p][1].by = "reader"
               /\ reader[p].at \in {"responding", "rejecting"}
               /\ reader'[p] = AfterRespond(reader[p])
<1>1. Rest /\ WayOf(p) /\ SenderInv
  BY Parts
<1>2. /\ closed[p] = FALSE /\ out[p] = <<>> /\ buf[p] # <<>>
      /\ out' = [out EXCEPT ![p] = Chunks(Head(buf[p]))]
      /\ UNCHANGED <<pipe, closed, answers, notified, posted, applied>>
  BY <1>1 DEF WriterTakes, Rest
<1>3. CASE parked[p] = <<>>
  <2>1. UNCHANGED <<reader, call, handler>>
    BY <1>3 DEF WriterTakes
  <2> QED
    BY <1>1, <1>2, <1>3, <2>1 DEF Rest
<1>4. CASE parked[p] # <<>>
  <2> DEFINE s == parked[p][1]
  <2>1. /\ s \in Sender /\ Head(parked[p]) = s /\ 1 \in 1 .. Len(parked[p])
    <3>1. parked[p] \in Seq(Sender)
      BY <1>1, WayTypes
    <3>2. Len(parked[p]) \in Nat \ {0} /\ Head(parked[p]) = parked[p][1] /\ parked[p][1] \in Sender
      BY <1>4, <3>1, TailFacts
    <3> QED
      BY <3>2
  <2>2. /\ reader' = IF s.by = "reader" THEN [reader EXCEPT ![p] = AfterRespond(reader[p])]
                     ELSE reader
        /\ call' = IF s.by = "call" THEN [call EXCEPT ![s.frame.id] = "sent"] ELSE call
        /\ handler' = IF s.by = "handler" THEN [handler EXCEPT ![s.frame.id] = "done"]
                      ELSE handler
    BY <1>1, <1>4, <2>1 DEF WriterTakes, Rest
  <2>3. /\ s.by = "call" => s.frame.id \in Requests /\ call[s.frame.id] # "idle"
        /\ s.by = "handler" => s.frame.id \in Requests /\ handler[s.frame.id] # "none"
        /\ s.by = "reader" => reader[p].at \in {"responding", "rejecting"}
    BY <1>1, <2>1 DEF SenderInv, SenderOk
  <2> HIDE DEF s
  <2>4. /\ call' \in [Requests -> {"idle", "parked", "sent", "answered"}]
        /\ \A r \in Requests : call'[r] = "idle" <=> call[r] = "idle"
    BY <1>1, <2>2, <2>3 DEF Rest
  <2>5. /\ handler' \in [Requests -> {"none", "running", "caught", "parked", "done"}]
        /\ \A r \in Requests : handler'[r] = "none" <=> handler[r] = "none"
        /\ \A r \in Requests : Unsent(handler'[r]) => Unsent(handler[r])
    BY <1>1, <2>2, <2>3 DEF Rest, Unsent
  <2>6. AfterRespond(reader[p]) \in [at : Readers, frame : Frame \cup {NoFrame}]
    BY DEF AfterRespond, At, Readers
  <2>7. /\ reader' \in [Peers -> [at : Readers, frame : Frame \cup {NoFrame}]]
        /\ reader'[Other(p)] = reader[Other(p)]
        /\ s.by = "reader" => reader'[p] = AfterRespond(reader[p])
        /\ s.by # "reader" => reader'[p] = reader[p]
    BY <1>1, <2>2, <2>6, PeerFacts DEF Rest
  <2> QED
    BY <1>2, <1>4, <2>3, <2>4, <2>5, <2>7 DEF s
<1> QED
  BY <1>3, <1>4


\* The reader that has answered waits for a header, or closes.
LEMMA AfterRespondFacts ==
  ASSUME NEW rd, NEW cl, rd.at \in {"responding", "rejecting"}
  PROVE  /\ AfterRespond(rd).at \in {"header", "closing"}
         /\ Listens(AfterRespond(rd), cl) =>
              Listens(rd, cl) /\ Expected(AfterRespond(rd)) = Expected(rd)
  BY DEF AfterRespond, At, Listens, Expected

\* The writer takes the next frame, and a sender that waits comes in.
LEMMA WriterTakesStep ==
  ASSUME IInv, NEW p \in Peers, WriterTakes(p)
  PROVE  IInv'
<1> DEFINE q == Other(p)
<1>1. Rest /\ WayOf(p) /\ WayOf(q) /\ ReaderInv /\ SenderInv /\ AnswerInv /\ OrderInv
  BY Parts, PeerFacts
<1>2. q \in Peers /\ q # p /\ Other(q) = p
  BY PeerFacts
<1>3. /\ closed[p] = FALSE /\ out[p] = <<>> /\ buf[p] # <<>>
      /\ out' = [out EXCEPT ![p] = Chunks(Head(buf[p]))]
      /\ UNCHANGED <<pipe, closed, answers, notified, posted, applied>>
      /\ reader' \in [Peers -> [at : Readers, frame : Frame \cup {NoFrame}]]
      /\ call' \in [Requests -> {"idle", "parked", "sent", "answered"}]
      /\ handler' \in [Requests -> {"none", "running", "caught", "parked", "done"}]
      /\ reader'[q] = reader[q]
  BY SenderResumes
<1>4. /\ \A r \in Requests : call'[r] = "idle" <=> call[r] = "idle"
      /\ \A r \in Requests : handler'[r] = "none" <=> handler[r] = "none"
      /\ \A r \in Requests : Unsent(handler'[r]) => Unsent(handler[r])
  BY SenderResumes
<1>5. \/ reader'[p] = reader[p] /\ (parked[p] # <<>> => parked[p][1].by # "reader")
      \/ /\ parked[p] # <<>> /\ parked[p][1].by = "reader"
         /\ reader[p].at \in {"responding", "rejecting"}
         /\ reader'[p] = AfterRespond(reader[p])
  BY SenderResumes
<1>6. buf[p] \in Seq(Frame) /\ parked[p] \in Seq(Sender)
  BY <1>1, WayTypes
<1>7. /\ parked[p] = <<>> => buf' = [buf EXCEPT ![p] = Tail(buf[p])] /\ parked' = parked
      /\ parked[p] # <<>> => /\ buf' = [buf EXCEPT ![p] = Append(Tail(buf[p]), Head(parked[p]).frame)]
                             /\ parked' = [parked EXCEPT ![p] = Tail(parked[p])]
  BY <1>1 DEF WriterTakes, Rest
<1>8. Head(buf[p]) = buf[p][1] /\ (parked[p] # <<>> => Head(parked[p]) = parked[p][1])
  BY <1>3, <1>6, TailFacts
<1>9. /\ out'[p] = Chunks(buf[p][1]) /\ out'[q] = out[q]
      /\ buf'[q] = buf[q] /\ parked'[q] = parked[q]
      /\ parked[p] = <<>> => buf'[p] = Tail(buf[p]) /\ parked'[p] = parked[p]
      /\ parked[p] # <<>> => /\ buf'[p] = Append(Tail(buf[p]), parked[p][1].frame)
                             /\ parked'[p] = Tail(parked[p])
  BY <1>1, <1>2, <1>3, <1>7, <1>8 DEF Rest
<1>10. Rest'
  <2>1. /\ buf' = [x \in Peers |-> buf'[x]] /\ parked' = [x \in Peers |-> parked'[x]]
        /\ out' = [x \in Peers |-> out'[x]] /\ pipe' = [x \in Peers |-> pipe'[x]]
    BY <1>1, <1>3, <1>7 DEF Rest
  <2> QED
    BY <1>1, <1>3, <2>1 DEF Rest
<1> HIDE DEF q
<1>11. \A x \in Peers : x = p \/ x = q
  BY PeerFacts DEF q
<1>12. reader'[p] = reader[p] \/ (/\ reader[p].at \notin {"body", "drain"}
                                  /\ reader'[p].at \notin {"body", "drain"})
  <2>1. reader[p].at \in {"responding", "rejecting"} =>
          AfterRespond(reader[p]).at \in {"header", "closing"}
    BY AfterRespondFacts
  <2> QED
    BY <1>5, <2>1
<1>13. ASSUME NEW x \in Peers, NEW n, Arrived(x, n) PROVE Arrived(x, n)'
  <2>1. \A y \in Peers : closed'[y] = closed[y]
    BY <1>3
  <2> QED
    BY <1>1, <1>3, <1>4, <1>11, <1>12, <1>13, <2>1, ArrivedKept
<1>14. ASSUME NEW x \in Peers, NEW m, Made(x, m) PROVE Made(x, m)'
  BY <1>3, <1>4, <1>14 DEF Made
<1>15. WayOf(p)'
  <2>1. PICK m, n \in Nat : /\ m <= Most(p) /\ n <= m
                            /\ Way(p, n, m) /\ Arrived(p, n) /\ Made(p, m)
    BY <1>1, WayPick
  <2>2. Stream(Sent(p, answers), buf[p], parked[p], <<>>, pipe[p], reader[q], FALSE,
               closed[q], n, m)
    BY <1>3, <2>1 DEF Way, q
  <2>3. /\ parked[p] = <<>> => Stream(Sent(p, answers), Tail(buf[p]), parked[p],
                                      Chunks(buf[p][1]), pipe[p], reader[q], FALSE,
                                      closed[q], n, m)
        /\ parked[p] # <<>> => Stream(Sent(p, answers), Append(Tail(buf[p]), parked[p][1].frame),
                                      Tail(parked[p]), Chunks(buf[p][1]), pipe[p], reader[q],
                                      FALSE, closed[q], n, m)
    BY <1>3, <2>2, StreamTake
  <2>4. Stream(Sent(p, answers), buf'[p], parked'[p], out'[p], pipe[p], reader[q], FALSE,
               closed[q], n, m)
    BY <1>9, <2>3
  <2>5. Way(p, n, m)'
    BY <1>3, <2>4 DEF Way, q
  <2> QED
    BY <1>13, <1>14, <2>1, <2>5, WayMake
<1>16. WayOf(q)'
  <2>1. PICK m, n \in Nat : /\ m <= Most(q) /\ n <= m
                            /\ Way(q, n, m) /\ Arrived(q, n) /\ Made(q, m)
    BY <1>1, <1>2, WayPick
  <2>2. Stream(Sent(q, answers), buf[q], parked[q], out[q], pipe[q], reader[p], closed[q],
               closed[p], n, m)
    BY <1>2, <2>1 DEF Way
  <2>3. Listens(reader'[p], closed[p]) =>
          Listens(reader[p], closed[p]) /\ Expected(reader'[p]) = Expected(reader[p])
    BY <1>5, AfterRespondFacts
  <2>4. Stream(Sent(q, answers), buf[q], parked[q], out[q], pipe[q], reader'[p], closed[q],
               closed[p], n, m)
    BY <2>2, <2>3, StreamMoves
  <2>5. Way(q, n, m)'
    BY <1>2, <1>3, <1>9, <2>4 DEF Way
  <2> QED
    BY <1>2, <1>13, <1>14, <2>1, <2>5, WayMake
<1>17. ReaderInv'
  BY <1>1, <1>3, <1>11, <1>12 DEF ReaderInv
<1>18. SenderInv'
  <2>1. ASSUME NEW i \in 1 .. Len(parked'[q]) PROVE SenderOk(q, i)'
    <3>1. SenderOk(q, i)
      BY <1>1, <1>2, <1>9 DEF SenderInv
    <3> QED
      BY <1>3, <1>4, <1>9, <3>1 DEF SenderOk
  <2>2. ASSUME NEW i \in 1 .. Len(parked'[p]) PROVE SenderOk(p, i)'
    <3>1. CASE parked[p] = <<>>
      <4>1. Len(parked'[p]) = 0
        BY <1>9, <3>1
      <4> QED
        BY <4>1
    <3>2. CASE parked[p] # <<>>
      <4> DEFINE pk == parked[p]
                 pu == parked'[p]
      <4>1. pk \in Seq(Sender) /\ pk # <<>> /\ pu = Tail(pk)
        BY <1>6, <1>9, <3>2
      <4> HIDE DEF pk, pu
      <4>2. /\ Len(pk) \in Nat \ {0} /\ Len(pu) = Len(pk) - 1
            /\ \A k \in 1 .. Len(pk) - 1 : pu[k] = pk[k + 1]
        BY <4>1, TailFacts
      <4>3. \A k \in 1 .. Len(pu) :
              /\ k \in Int /\ k + 1 \in 1 .. Len(pk) /\ 1 \in 1 .. Len(pk) /\ k + 1 # 1
              /\ pu[k] = pk[k + 1]
        BY <4>2
      <4>4. i + 1 \in 1 .. Len(pk) /\ 1 \in 1 .. Len(pk) /\ pu[i] = pk[i + 1]
        BY <2>2, <4>3 DEF pu
      <4>5. SenderOk(p, i + 1) /\ SenderOk(p, 1)
        BY <1>1, <4>4 DEF SenderInv, pk
      <4>6. pk[1].by = "reader" => pu[i].by # "reader"
        BY <2>2, <4>3, <4>4, <4>5 DEF SenderOk, pk, pu
      <4>7. pu[i].by = "reader" => reader'[p] = reader[p]
        BY <1>5, <4>1, <4>6 DEF pk
      <4>8. pu[i].by = "reader" => \A j \in 1 .. Len(pu) : pu[j].by = "reader" => i = j
        <5> SUFFICES ASSUME pu[i].by = "reader", NEW j \in 1 .. Len(pu), pu[j].by = "reader"
                     PROVE  i = j
          OBVIOUS
        <5>1. j \in Int /\ j + 1 \in 1 .. Len(pk) /\ pk[j + 1].by = "reader"
          BY <4>3
        <5>2. i + 1 = j + 1
          BY <4>4, <4>5, <5>1 DEF SenderOk, pk
        <5>3. i \in Int
          BY <2>2
        <5> QED
          BY <5>1, <5>2, <5>3
      <4> QED
        BY <1>4, <4>4, <4>5, <4>7, <4>8 DEF SenderOk, pk, pu
    <3> QED
      BY <3>1, <3>2
  <2>3. \A x \in Peers : \A i \in 1 .. Len(parked'[x]) : SenderOk(x, i)'
    BY <1>11, <2>1, <2>2
  <2> QED
    BY <2>3 DEF SenderInv
<1>19. AnswerInv'
  BY <1>1, <1>3, <1>4 DEF AnswerInv, OneAnswer
<1>20. OrderInv'
  BY <1>1, <1>3 DEF OrderInv, NotificationOrder
<1>21. WayOf("client")' /\ WayOf("server")'
  BY <1>11, <1>15, <1>16, PeerFacts
<1> QED
  BY <1>10, <1>17, <1>18, <1>19, <1>20, <1>21, Whole


-----------------------------------------------------------------------------
(* The end of a session *)

\* A session closes, after its reader has taken a last chunk or not.
LEMMA CloseStep ==
  ASSUME IInv, NEW p \in Peers, Close(p), UNCHANGED <<answers, notified, posted, applied>>,
         \/ UNCHANGED pipe
         \/ /\ closed[p] = FALSE /\ pipe[Other(p)] # <<>> /\ p = "client"
            /\ pipe' = [pipe EXCEPT ![Other(p)] = Tail(pipe[Other(p)])]
  PROVE  IInv'
<1> DEFINE q == Other(p)
<1>1. Rest /\ WayOf(p) /\ WayOf(q) /\ ReaderInv /\ SenderInv /\ AnswerInv /\ OrderInv
  BY Parts, PeerFacts
<1>2. q \in Peers /\ q # p /\ Other(q) = p /\ \A x \in Peers : x = p \/ x = q
  BY PeerFacts
<1>3. /\ closed'[p] = TRUE /\ closed'[q] = closed[q]
      /\ buf'[p] = <<>> /\ buf'[q] = buf[q]
      /\ out'[p] = <<>> /\ out'[q] = out[q] /\ pipe'[p] = pipe[p]
      /\ UNCHANGED <<parked, call, handler>>
      /\ reader'[q] = reader[q]
  BY <1>1, <1>2 DEF Close, Rest
<1>r. reader'[p] = IF reader[p].at \in {"responding", "rejecting"} THEN reader[p]
                   ELSE AtBoundary
  BY <1>1 DEF Close, Rest
<1>5. AtBoundary.at = "header" /\ AtBoundary \in [at : Readers, frame : Frame \cup {NoFrame}]
  BY DEF AtBoundary, At, Readers
<1>4. reader'[p].at \notin {"body", "drain"}
  BY <1>r, <1>5
<1>6. Rest'
  <2>1. /\ buf' = [x \in Peers |-> buf'[x]] /\ parked' = [x \in Peers |-> parked'[x]]
        /\ out' = [x \in Peers |-> out'[x]] /\ pipe' = [x \in Peers |-> pipe'[x]]
    BY <1>1 DEF Rest, Close
  <2>3. /\ closed' \in [Peers -> BOOLEAN]
        /\ reader' \in [Peers -> [at : Readers, frame : Frame \cup {NoFrame}]]
    BY <1>1, <1>5 DEF Rest, Close
  <2> QED
    BY <1>1, <1>3, <2>1, <2>3 DEF Rest
<1> HIDE DEF q
<1>7. ASSUME NEW x \in Peers, NEW n, Arrived(x, n) PROVE Arrived(x, n)'
  BY <1>1, <1>2, <1>3, <1>4, <1>7, ArrivedKept
<1>8. ASSUME NEW x \in Peers, NEW m, Made(x, m) PROVE Made(x, m)'
  BY <1>3, <1>8 DEF Made
<1>9. WayOf(p)'
  <2>1. PICK m, n \in Nat : /\ m <= Most(p) /\ n <= m
                            /\ Way(p, n, m) /\ Arrived(p, n) /\ Made(p, m)
    BY <1>1, WayPick
  <2>2. Stream(Sent(p, answers), buf[p], parked[p], out[p], pipe[p], reader[q], closed[p],
               closed[q], n, m)
    BY <2>1 DEF Way, q
  <2>3. Stream(Sent(p, answers), <<>>, parked[p], <<>>, pipe[p], reader[q], TRUE, closed[q],
               n, m)
    BY <2>2, StreamClose
  <2>4. Way(p, n, m)'
    BY <1>3, <2>3 DEF Way, q
  <2> QED
    BY <1>7, <1>8, <2>1, <2>4, WayMake
<1>10. WayOf(q)'
  <2>1. PICK m, n \in Nat : /\ m <= Most(q) /\ n <= m
                            /\ Way(q, n, m) /\ Arrived(q, n) /\ Made(q, m)
    BY <1>1, <1>2, WayPick
  <2>2. Stream(Sent(q, answers), buf[q], parked[q], out[q], pipe[q], reader[p], closed[q],
               closed[p], n, m)
    BY <1>2, <2>1 DEF Way
  <2>3. CASE UNCHANGED pipe
    <3>1. Stream(Sent(q, answers), buf[q], parked[q], out[q], pipe[q], reader'[p], closed[q],
                 TRUE, n, m)
      BY <2>2, StreamClose
    <3>2. Way(q, n, m)'
      BY <1>2, <1>3, <2>3, <3>1 DEF Way
    <3> QED
      BY <1>2, <1>7, <1>8, <2>1, <3>2, WayMake
  <2>4. CASE /\ closed[p] = FALSE /\ pipe[q] # <<>> /\ p = "client"
             /\ pipe' = [pipe EXCEPT ![q] = Tail(pipe[q])]
    <3> DEFINE ru == At("closing", NoFrame)
    <3>1. ~Listens(ru, FALSE)
      BY DEF Listens, At
    <3> HIDE DEF ru
    <3>2. Stream(Sent(q, answers), buf[q], parked[q], out[q], pipe[q], reader[p], closed[q],
                 FALSE, n, m)
      BY <2>2, <2>4
    <3>3. \/ Stream(Sent(q, answers), buf[q], parked[q], out[q], Tail(pipe[q]), ru, closed[q],
                    FALSE, n, m)
          \/ n + 1 <= m /\ Stream(Sent(q, answers), buf[q], parked[q], out[q], Tail(pipe[q]), ru,
                                  closed[q], FALSE, n + 1, m)
      BY <2>4, <3>1, <3>2, StreamRead
    <3>4. PICK k \in Nat : k <= m /\ Stream(Sent(q, answers), buf[q], parked[q], out[q],
                                            Tail(pipe[q]), ru, closed[q], FALSE, k, m)
      <4> DEFINE St(k) == Stream(Sent(q, answers), buf[q], parked[q], out[q], Tail(pipe[q]), ru,
                                 closed[q], FALSE, k, m)
      <4>1. St(n) \/ (n + 1 <= m /\ St(n + 1))
        BY <3>3
      <4>2. n <= m /\ n + 1 \in Nat
        BY <2>1
      <4> HIDE DEF St
      <4>3. \E k \in Nat : k <= m /\ St(k)
        BY <4>1, <4>2
      <4> QED
        BY <4>3 DEF St
    <3>5. Stream(Sent(q, answers), buf[q], parked[q], out[q], Tail(pipe[q]), reader'[p],
                 closed[q], TRUE, k, m)
      BY <3>4, StreamClose
    <3>6. pipe'[q] = Tail(pipe[q])
      BY <1>1, <1>2, <2>4 DEF Rest
    <3>7. Way(q, k, m)'
      BY <1>2, <1>3, <3>5, <3>6 DEF Way
    <3>8. Arrived(q, k)'
      <4>1. q = "server"
        BY <2>4 DEF q, Other
      <4> QED
        BY <1>3, <2>4, <4>1 DEF Arrived
    <3> QED
      BY <1>2, <1>8, <2>1, <3>4, <3>7, <3>8, WayMake
  <2> QED
    BY <2>3, <2>4 DEF q
<1>11. ReaderInv'
  BY <1>1, <1>2, <1>3, <1>4 DEF ReaderInv
<1>12. SenderInv'
  <2>1. ASSUME NEW x \in Peers, NEW i \in 1 .. Len(parked'[x]) PROVE SenderOk(x, i)'
    <3>1. SenderOk(x, i)
      BY <1>1, <1>3, <2>1 DEF SenderInv
    <3>2. reader[x].at \in {"responding", "rejecting"} => reader'[x] = reader[x]
      BY <1>2, <1>3, <1>r
    <3> QED
      BY <1>3, <3>1, <3>2 DEF SenderOk
  <2> QED
    BY <2>1 DEF SenderInv
<1>13. AnswerInv'
  BY <1>1, <1>3 DEF AnswerInv, OneAnswer
<1>14. OrderInv'
  BY <1>1 DEF OrderInv, NotificationOrder
<1>15. WayOf("client")' /\ WayOf("server")'
  BY <1>2, <1>9, <1>10, PeerFacts
<1> QED
  BY <1>6, <1>11, <1>12, <1>13, <1>14, <1>15, Whole

-----------------------------------------------------------------------------
(* What is queued *)

\* A frame goes into the write channel, or its sender waits: the other end is
\* not concerned.
LEMMA QueueFacts ==
  ASSUME Rest, NEW p \in Peers, WayOf(p), NEW f \in Frame, NEW by \in {"call", "handler", "reader"},
         Queue(p, f, by)
  PROVE  /\ buf' = [x \in Peers |-> buf'[x]] /\ parked' = [x \in Peers |-> parked'[x]]
         /\ buf'[Other(p)] = buf[Other(p)] /\ parked'[Other(p)] = parked[Other(p)]
         /\ HasRoom(p) => buf'[p] = Append(buf[p], f) /\ parked'[p] = parked[p]
         /\ ~HasRoom(p) => /\ buf'[p] = buf[p]
                           /\ parked'[p] = Append(parked[p], [frame |-> f, by |-> by])
         /\ [frame |-> f, by |-> by] \in Sender
<1>1. [frame |-> f, by |-> by] \in Sender
  BY DEF Sender
<1>2. CASE HasRoom(p)
  BY <1>1, <1>2, PeerFacts DEF Queue, Rest
<1>3. CASE ~HasRoom(p)
  BY <1>1, <1>3, PeerFacts DEF Queue, Rest
<1> QED
  BY <1>2, <1>3

LEMMA QueueStream ==
  ASSUME Rest, NEW p \in Peers, WayOf(p), NEW f \in Frame, NEW by \in {"call", "handler", "reader"},
         Queue(p, f, by),
         NEW L, NEW o, NEW s, NEW rd, NEW cr, NEW n \in Nat, NEW m \in Nat,
         Stream(L, buf[p], parked[p], o, s, rd, FALSE, cr, n, m),
         f \in L, f.type \in {"request", "response", "error"},
         NEW w \in {m, m + 1}, FrameNum(f) = IF w = m THEN 0 ELSE m + 1
  PROVE  Stream(L, buf'[p], parked'[p], o, s, rd, FALSE, cr, n, w)
<1> DEFINE q == [frame |-> f, by |-> by]
<1>1. q \in Sender /\ q.frame = f
  BY DEF Sender
<1>2. Waits(L, q)
  BY <1>1 DEF Waits
<1>3. /\ HasRoom(p) => buf'[p] = Append(buf[p], f) /\ parked'[p] = parked[p]
      /\ ~HasRoom(p) => buf'[p] = buf[p] /\ parked'[p] = Append(parked[p], q)
  BY QueueFacts
<1> HIDE DEF q
<1>4. /\ Len(buf[p]) < WriteCap =>
           Stream(L, Append(buf[p], q.frame), parked[p], o, s, rd, FALSE, cr, n, w)
      /\ ~(Len(buf[p]) < WriteCap) =>
           Stream(L, buf[p], Append(parked[p], q), o, s, rd, FALSE, cr, n, w)
  BY <1>1, <1>2, StreamQueue
<1> QED
  BY <1>1, <1>3, <1>4 DEF HasRoom

\* The senders at p after a frame was queued there.
LEMMA QueueSenders ==
  ASSUME Rest, NEW p \in Peers, WayOf(p), NEW f \in Frame, NEW by \in {"call", "handler", "reader"},
         Queue(p, f, by), SenderInv,
         \A r \in Requests : call[r] # "idle" => call'[r] # "idle",
         \A r \in Requests : handler[r] # "none" => handler'[r] # "none",
         reader'[Other(p)] = reader[Other(p)],
         by = "call" => f.id \in Requests /\ call'[f.id] # "idle",
         by = "handler" => f.id \in Requests /\ handler'[f.id] # "none",
         by = "reader" => /\ p = "server" /\ reader[p].at \notin {"responding", "rejecting"}
                          /\ ~HasRoom(p) => reader'[p].at \in {"responding", "rejecting"},
         by # "reader" => reader'[p] = reader[p]
  PROVE  SenderInv'
<1> DEFINE q == Other(p)
           x == [frame |-> f, by |-> by]
<1>1. /\ buf'[q] = buf[q] /\ parked'[q] = parked[q]
      /\ HasRoom(p) => parked'[p] = parked[p]
      /\ ~HasRoom(p) => parked'[p] = Append(parked[p], x)
      /\ x \in Sender
  BY QueueFacts
<1>2. x.frame = f /\ x.by = by
  OBVIOUS
<1>3. q \in Peers /\ \A y \in Peers : y = p \/ y = q
  BY PeerFacts
<1>4. reader'[q] = reader[q]
  OBVIOUS
<1> HIDE DEF q, x
<1>5. ASSUME NEW i \in 1 .. Len(parked'[q]) PROVE SenderOk(q, i)'
  <2>1. SenderOk(q, i)
    BY <1>1, <1>3 DEF SenderInv
  <2> QED
    BY <1>1, <1>4, <2>1 DEF SenderOk
<1>6. by = "reader" => \A j \in 1 .. Len(parked[p]) : parked[p][j].by # "reader"
  BY DEF SenderInv, SenderOk
<1>7. ASSUME NEW i \in 1 .. Len(parked'[p]) PROVE SenderOk(p, i)'
  <2>1. CASE HasRoom(p)
    <3>1. SenderOk(p, i) /\ parked'[p] = parked[p]
      BY <1>1, <2>1 DEF SenderInv
    <3>2. i \in 1 .. Len(parked[p])
      BY <3>1
    <3> QED
      BY <1>6, <3>1, <3>2 DEF SenderOk
  <2>2. CASE ~HasRoom(p)
    <3> DEFINE pk == parked[p]
               pu == parked'[p]
               k == Len(parked[p])
    <3>1. pk \in Seq(Sender) /\ pu = Append(pk, x)
      BY <1>1, <2>2, WayTypes
    <3> HIDE DEF pk, pu
    <3>2. /\ k \in Nat /\ Len(pu) = k + 1 /\ \A j \in 1 .. k : pu[j] = pk[j]
      <4>1. k = Len(pk)
        BY DEF pk
      <4>2. /\ Len(pk) \in Nat /\ Len(pu) = Len(pk) + 1
            /\ \A j \in 1 .. Len(pk) : pu[j] = pk[j]
        BY <1>1, <3>1, AppendFacts
      <4> QED
        BY <4>1, <4>2
    <3>3. pu[k + 1] = x
      BY <1>1, <3>1, AppendFacts DEF pk
    <3> HIDE DEF k
    <3>4. \A j \in 1 .. Len(pu) : j \in 1 .. k \/ j = k + 1
      BY <3>2
    <3>5. \A j \in 1 .. k : SenderOk(p, j)
      BY DEF SenderInv, k
    <3>6. CASE i \in 1 .. k
      <4>1. SenderOk(p, i) /\ pu[i] = pk[i]
        BY <3>2, <3>5, <3>6
      <4>2. pk[i].by = "reader" => by # "reader" /\ reader'[p] = reader[p]
        BY <1>6, <3>6 DEF k, pk
      <4>3. pk[i].by = "reader" => \A j \in 1 .. Len(pu) : pu[j].by = "reader" => i = j
        BY <1>2, <3>2, <3>3, <3>4, <4>1, <4>2 DEF SenderOk, pk, k
      <4> QED
        BY <4>1, <4>2, <4>3 DEF SenderOk, pk, pu
    <3>7. CASE i = k + 1
      <4>1. pu[i] = x
        BY <3>3, <3>7
      <4>2. by = "reader" => \A j \in 1 .. Len(pu) : pu[j].by = "reader" => i = j
        BY <1>6, <3>2, <3>4, <3>7 DEF pk, k
      <4> QED
        BY <1>2, <2>2, <4>1, <4>2 DEF SenderOk, pu
    <3> QED
      BY <3>4, <3>6, <3>7 DEF pu
  <2> QED
    BY <2>1, <2>2
<1>8. \A y \in Peers : \A i \in 1 .. Len(parked'[y]) : SenderOk(y, i)'
  BY <1>3, <1>5, <1>7
<1> QED
  BY <1>8 DEF SenderInv


-----------------------------------------------------------------------------
(* What the application asks of the sessions *)

\* A call is the next one.
LEMMA CallStep ==
  ASSUME IInv, NEW r \in Requests, Call(r)
  PROVE  IInv'
<1>1. /\ Rest /\ WayOf("client") /\ WayOf("server") /\ ReaderInv /\ SenderInv /\ AnswerInv
      /\ OrderInv
  BY Parts
<1>2. PICK size \in Sizes :
        Queue("client", [type |-> "request", id |-> r, size |-> size], "call")
  BY DEF Call
<1>3. /\ closed["client"] = FALSE
      /\ call[r] = "idle" /\ \A x \in 1 .. r - 1 : call[x] # "idle"
      /\ call' = [call EXCEPT ![r] = IF HasRoom("client") THEN "sent" ELSE "parked"]
      /\ UNCHANGED <<out, pipe, reader, closed, handler, answers, notified, posted, applied>>
  BY <1>1, PeerFacts DEF Call, Rest
<1> DEFINE f == [type |-> "request", id |-> r, size |-> size]
<1>4. /\ f \in Frame /\ f.type = "request" /\ f.id = r /\ FrameNum(f) = r
      /\ f \in Sent("client", answers)
  BY DEF Frame, Types, FrameNum, Sent
<1>5. Queue("client", f, "call")
  BY <1>2
<1> HIDE DEF f
<1>6. /\ buf' = [x \in Peers |-> buf'[x]] /\ parked' = [x \in Peers |-> parked'[x]]
      /\ buf'["server"] = buf["server"] /\ parked'["server"] = parked["server"]
  <2>1. /\ buf' = [x \in Peers |-> buf'[x]] /\ parked' = [x \in Peers |-> parked'[x]]
        /\ buf'[Other("client")] = buf[Other("client")]
        /\ parked'[Other("client")] = parked[Other("client")]
    BY <1>1, <1>4, <1>5, PeerFacts, QueueFacts
  <2> QED
    BY <2>1, PeerFacts
<1>7. /\ call' \in [Requests -> {"idle", "parked", "sent", "answered"}]
      /\ call'[r] # "idle" /\ \A x \in Requests : x # r => call'[x] = call[x]
  BY <1>1, <1>3 DEF Rest
<1>8. Rest'
  BY <1>1, <1>3, <1>6, <1>7 DEF Rest
<1>9. \A x, n : Arrived(x, n) => Arrived(x, n)'
  BY <1>3 DEF Arrived
<1>10. WayOf("client")'
  <2>1. PICK m, n \in Nat : /\ m <= Most("client") /\ n <= m
                            /\ Way("client", n, m) /\ Arrived("client", n) /\ Made("client", m)
    BY <1>1, PeerFacts, WayPick
  <2>2. \A x \in Requests : call[x] = "idle" <=> x > m
    BY <2>1 DEF Made
  <2>3. r = m + 1
    <3>1. r > m
      BY <1>3, <2>2
    <3>2. CASE r - 1 > m
      <4>1. r - 1 \in Requests /\ r - 1 \in 1 .. r - 1
        BY <3>2, ConnectionAssumption DEF Requests
      <4> QED
        BY <1>3, <2>2, <3>2, <4>1
    <3> QED
      BY <3>1, <3>2 DEF Requests
  <2>4. m + 1 <= Most("client") /\ n <= m + 1
    <3>1. m + 1 <= MaxRequests
      BY <2>3, ConnectionAssumption DEF Requests
    <3> QED
      BY <2>1, <3>1 DEF Most
  <2>5. Stream(Sent("client", answers), buf["client"], parked["client"], out["client"],
               pipe["client"], reader["server"], FALSE, closed["server"], n, m)
    BY <1>3, <2>1, PeerFacts DEF Way
  <2>6. m + 1 \in {m, m + 1} /\ FrameNum(f) = IF m + 1 = m THEN 0 ELSE m + 1
    BY <1>4, <2>3
  <2>7. Stream(Sent("client", answers), buf'["client"], parked'["client"], out["client"],
               pipe["client"], reader["server"], FALSE, closed["server"], n, m + 1)
    BY <1>1, <1>4, <1>5, <2>5, <2>6, PeerFacts, QueueStream
  <2>8. Way("client", n, m + 1)'
    BY <1>3, <2>7, PeerFacts DEF Way
  <2>9. Made("client", m + 1)'
    <3>1. \A x \in Requests : x > m + 1 <=> x > m /\ x # r
      BY <2>3 DEF Requests
    <3>2. \A x \in Requests : call'[x] = "idle" <=> x > m + 1
      BY <1>7, <2>2, <3>1
    <3> QED
      BY <3>2 DEF Made
  <2>10. m + 1 \in Nat
    OBVIOUS
  <2> QED
    BY <1>9, <2>1, <2>4, <2>8, <2>9, <2>10, PeerFacts, WayMake
<1>11. WayOf("server")'
  <2>1. \A m : Made("server", m) => Made("server", m)'
    BY <1>3 DEF Made
  <2> QED
    BY <1>1, <1>3, <1>6, <1>9, <2>1, PeerFacts, WayUntouched
<1>12. SenderInv'
  <2>1. \A x \in Requests : call[x] # "idle" => call'[x] # "idle"
    BY <1>7
  <2> QED
    BY <1>1, <1>3, <1>4, <1>5, <1>7, <2>1, PeerFacts, QueueSenders
<1>13. ReaderInv' /\ AnswerInv' /\ OrderInv'
  BY <1>1, <1>3 DEF ReaderInv, AnswerInv, OrderInv, OneAnswer, NotificationOrder
<1> QED
  BY <1>8, <1>10, <1>11, <1>12, <1>13, Whole

\* try_send: a frame that goes into the write channel of p, or is dropped.
LEMMA PutStream ==
  ASSUME NEW p \in Peers, HasRoom(p), NEW f \in Frame,
         NEW L, NEW o, NEW s, NEW rd, NEW cr, NEW n \in Nat, NEW m \in Nat,
         Stream(L, buf[p], parked[p], o, s, rd, FALSE, cr, n, m), f \in L,
         NEW w \in {m, m + 1}, FrameNum(f) = IF w = m THEN 0 ELSE m + 1
  PROVE  Stream(L, Append(buf[p], f), parked[p], o, s, rd, FALSE, cr, n, w)
<1> DEFINE q == [frame |-> f, by |-> "call"]
<1>1. q \in Sender /\ q.frame = f
  BY DEF Sender
<1> HIDE DEF q
<1>2. Len(buf[p]) < WriteCap
  BY DEF HasRoom
<1> QED
  BY <1>1, <1>2, StreamQueue

LEMMA TryPingStep ==
  ASSUME IInv, TryPing
  PROVE  IInv'
<1>1. /\ Rest /\ WayOf("client") /\ WayOf("server") /\ ReaderInv /\ SenderInv /\ AnswerInv
      /\ OrderInv
  BY Parts
<1> DEFINE f == [type |-> "ping", id |-> Ping, size |-> "empty"]
<1>2. /\ closed["client"] = FALSE /\ HasRoom("client")
      /\ buf' = [buf EXCEPT !["client"] = Append(buf["client"], f)]
      /\ UNCHANGED <<parked, out, pipe, reader, closed, call, handler, answers, notified, posted,
                     applied>>
  BY <1>1, PeerFacts DEF TryPing, Rest
<1>3. f \in Frame /\ FrameNum(f) = 0 /\ f \in Sent("client", answers)
  BY DEF Frame, Types, Sizes, FrameNum, Sent
<1> HIDE DEF f
<1>4. /\ buf' = [x \in Peers |-> buf'[x]] /\ buf'["server"] = buf["server"]
      /\ buf'["client"] = Append(buf["client"], f)
  BY <1>1, <1>2, PeerFacts DEF Rest
<1>5. Rest'
  BY <1>1, <1>2, <1>4 DEF Rest
<1>6. (\A x, n : Arrived(x, n) => Arrived(x, n)') /\ (\A x, m : Made(x, m) => Made(x, m)')
  BY <1>2 DEF Arrived, Made
<1>7. WayOf("client")'
  <2>1. PICK m, n \in Nat : /\ m <= Most("client") /\ n <= m
                            /\ Way("client", n, m) /\ Arrived("client", n) /\ Made("client", m)
    BY <1>1, PeerFacts, WayPick
  <2>2. Stream(Sent("client", answers), buf["client"], parked["client"], out["client"],
               pipe["client"], reader["server"], FALSE, closed["server"], n, m)
    BY <1>2, <2>1, PeerFacts DEF Way
  <2>3. Stream(Sent("client", answers), Append(buf["client"], f), parked["client"],
               out["client"], pipe["client"], reader["server"], FALSE, closed["server"], n, m)
    BY <1>2, <1>3, <2>2, PeerFacts, PutStream
  <2>4. Way("client", n, m)'
    BY <1>2, <1>4, <2>3, PeerFacts DEF Way
  <2> QED
    BY <1>6, <2>1, <2>4, PeerFacts, WayMake
<1>8. WayOf("server")'
  BY <1>1, <1>2, <1>4, <1>6, PeerFacts, WayUntouched
<1>9. ReaderInv' /\ SenderInv' /\ AnswerInv' /\ OrderInv'
  BY <1>1, <1>2 DEF ReaderInv, SenderInv, SenderOk, AnswerInv, OrderInv, OneAnswer,
     NotificationOrder
<1> QED
  BY <1>5, <1>7, <1>8, <1>9, Whole

LEMMA TryNotifyStep ==
  ASSUME IInv, TryNotify
  PROVE  IInv'
<1>1. /\ Rest /\ WayOf("client") /\ WayOf("server") /\ ReaderInv /\ SenderInv /\ AnswerInv
      /\ OrderInv
  BY Parts
<1>2. PICK size \in Sizes :
        buf' = [buf EXCEPT !["server"] =
                  Append(@, [type |-> "notification", id |-> notified', size |-> size])]
  BY DEF TryNotify
<1> DEFINE f == [type |-> "notification", id |-> notified + 1, size |-> size]
<1>3. /\ closed["server"] = FALSE /\ HasRoom("server")
      /\ notified < MaxNotes /\ notified' = notified + 1
      /\ buf' = [buf EXCEPT !["server"] = Append(buf["server"], f)]
      /\ UNCHANGED <<parked, out, pipe, reader, closed, call, handler, answers, posted, applied>>
  <2>1. /\ HasRoom("server") /\ notified < MaxNotes /\ notified' = notified + 1
        /\ UNCHANGED <<parked, out, pipe, reader, closed, call, handler, answers, posted, applied>>
    BY DEF TryNotify
  <2>2. closed["server"] = FALSE
    BY <1>1, PeerFacts DEF TryNotify, Rest
  <2>3. buf' = [buf EXCEPT !["server"] = Append(buf["server"], f)]
    BY <1>2, <2>1
  <2> QED
    BY <2>1, <2>2, <2>3
<1>4. notified \in Nat /\ notified + 1 \in Notes /\ notified' \in 0 .. MaxNotes
  BY <1>1, <1>3, ConnectionAssumption DEF Rest, Notes
<1>5. f \in Frame /\ FrameNum(f) = notified + 1 /\ f \in Sent("server", answers)
  BY <1>4 DEF Frame, Types, FrameNum, Sent
<1> HIDE DEF f
<1>6. /\ buf' = [x \in Peers |-> buf'[x]] /\ buf'["client"] = buf["client"]
      /\ buf'["server"] = Append(buf["server"], f)
  BY <1>1, <1>3, PeerFacts DEF Rest
<1>7. Rest'
  BY <1>1, <1>3, <1>4, <1>6 DEF Rest
<1>8. \A x, n : Arrived(x, n) => Arrived(x, n)'
  BY <1>3 DEF Arrived
<1>9. WayOf("server")'
  <2>1. PICK m, n \in Nat : /\ m <= Most("server") /\ n <= m
                            /\ Way("server", n, m) /\ Arrived("server", n) /\ Made("server", m)
    BY <1>1, PeerFacts, WayPick
  <2>2. Stream(Sent("server", answers), buf["server"], parked["server"], out["server"],
               pipe["server"], reader["client"], FALSE, closed["client"], n, m)
    BY <1>3, <2>1, PeerFacts DEF Way
  <2>3. m = notified
    BY <2>1 DEF Made
  <2>4. m + 1 \in {m, m + 1} /\ FrameNum(f) = IF m + 1 = m THEN 0 ELSE m + 1
    BY <1>5, <2>3
  <2>5. Stream(Sent("server", answers), Append(buf["server"], f), parked["server"],
               out["server"], pipe["server"], reader["client"], FALSE, closed["client"], n, m + 1)
    BY <1>3, <1>5, <2>2, <2>4, PeerFacts, PutStream
  <2>6. Way("server", n, m + 1)'
    BY <1>3, <1>6, <2>5, PeerFacts DEF Way
  <2>7. Made("server", m + 1)'
    BY <1>3, <2>3 DEF Made
  <2>8. m + 1 \in Nat /\ m + 1 <= Most("server") /\ n <= m + 1
    <3>1. Most("server") = MaxNotes
      BY DEF Most
    <3> QED
      BY <1>3, <2>1, <2>3, <3>1, ConnectionAssumption
  <2> QED
    BY <1>8, <2>1, <2>6, <2>7, <2>8, PeerFacts, WayMake
<1>10. WayOf("client")'
  <2>1. \A m : Made("client", m) => Made("client", m)'
    BY <1>3 DEF Made
  <2> QED
    BY <1>1, <1>3, <1>6, <1>8, <2>1, PeerFacts, WayUntouched
<1>11. ReaderInv' /\ SenderInv' /\ AnswerInv' /\ OrderInv'
  BY <1>1, <1>3 DEF ReaderInv, SenderInv, SenderOk, AnswerInv, OrderInv, OneAnswer,
     NotificationOrder
<1> QED
  BY <1>7, <1>9, <1>10, <1>11, Whole


-----------------------------------------------------------------------------
(* The answers of the server *)

\* One more answer, and what else the server may send stays.
LEMMA SentMore ==
  ASSUME Rest, NEW r \in Requests, answers' = [answers EXCEPT ![r] = answers[r] + 1]
  PROVE  /\ \A p \in Peers : Sent(p, answers) \subseteq Sent(p, answers')
         /\ Sent("client", answers') = Sent("client", answers)
         /\ answers' \in [Requests -> Nat] /\ answers'[r] = answers[r] + 1 /\ answers'[r] # 0
         /\ \A x \in Requests : x # r => answers'[x] = answers[x]
<1>1. answers \in [Requests -> Nat]
  BY DEF Rest
<1>2. /\ answers' \in [Requests -> Nat] /\ answers'[r] = answers[r] + 1 /\ answers'[r] # 0
      /\ \A x \in Requests : x # r => answers'[x] = answers[x]
  BY <1>1
<1>3. Sent("client", answers') = Sent("client", answers)
  BY DEF Sent
<1>4. \A x \in Requests : answers[x] # 0 => answers'[x] # 0
  BY <1>2
<1>5. Sent("server", answers) \subseteq Sent("server", answers')
  <2> SUFFICES ASSUME NEW f \in Sent("server", answers) PROVE f \in Sent("server", answers')
    OBVIOUS
  <2>1. /\ f \in Frame
        /\ \/ /\ f.type \in {"response", "error"}
              /\ f.id \in Requests /\ answers[f.id] # 0
           \/ f.type = "notification" /\ f.id \in Notes
           \/ f.type = "pong" /\ f.size = "empty"
    BY DEF Sent
  <2>2. f.id \in Requests /\ answers[f.id] # 0 => answers'[f.id] # 0
    BY <1>4
  <2> QED
    BY <2>1, <2>2 DEF Sent
<1> QED
  BY <1>2, <1>3, <1>5 DEF Peers

\* An answer on its way to the client.
LEMMA AnswerWay ==
  ASSUME IInv, NEW r \in Requests, NEW type \in {"response", "error"}, NEW size \in Sizes,
         NEW by \in {"handler", "reader"}, closed["server"] = FALSE,
         Queue("server", [type |-> type, id |-> r, size |-> size], by),
         answers' = [answers EXCEPT ![r] = answers[r] + 1],
         UNCHANGED <<out, closed, notified, posted, applied>>,
         pipe'["server"] = pipe["server"], reader'["client"] = reader["client"]
  PROVE  /\ WayOf("server")'
         /\ buf' = [x \in Peers |-> buf'[x]] /\ parked' = [x \in Peers |-> parked'[x]]
         /\ buf'["client"] = buf["client"] /\ parked'["client"] = parked["client"]
<1> DEFINE f == [type |-> type, id |-> r, size |-> size]
<1>1. Rest /\ WayOf("server") /\ "server" \in Peers /\ by \in {"call", "handler", "reader"}
  BY Parts, PeerFacts
<1>2. /\ Sent("server", answers) \subseteq Sent("server", answers')
      /\ answers'[r] # 0
  BY <1>1, SentMore
<1>3. /\ f \in Frame /\ FrameNum(f) = 0 /\ f \in Sent("server", answers')
      /\ f.type \in {"request", "response", "error"}
  BY <1>2 DEF Frame, Types, FrameNum, Sent
<1>4. Queue("server", f, by)
  OBVIOUS
<1> HIDE DEF f
<1>5. /\ buf' = [x \in Peers |-> buf'[x]] /\ parked' = [x \in Peers |-> parked'[x]]
      /\ buf'[Other("server")] = buf[Other("server")]
      /\ parked'[Other("server")] = parked[Other("server")]
  BY <1>1, <1>3, <1>4, QueueFacts
<1>6. PICK m, n \in Nat : /\ m <= Most("server") /\ n <= m
                          /\ Way("server", n, m) /\ Arrived("server", n) /\ Made("server", m)
  BY <1>1, WayPick
<1>7. Stream(Sent("server", answers), buf["server"], parked["server"], out["server"],
             pipe["server"], reader["client"], FALSE, closed["client"], n, m)
  BY <1>6, PeerFacts DEF Way
<1>8. Stream(Sent("server", answers'), buf["server"], parked["server"], out["server"],
             pipe["server"], reader["client"], FALSE, closed["client"], n, m)
  BY <1>2, <1>7, StreamMore
<1>9. m \in {m, m + 1} /\ FrameNum(f) = IF m = m THEN 0 ELSE m + 1
  BY <1>3
<1>10. Stream(Sent("server", answers'), buf'["server"], parked'["server"], out["server"],
              pipe["server"], reader["client"], FALSE, closed["client"], n, m)
  BY <1>1, <1>3, <1>4, <1>8, <1>9, QueueStream
<1>11. Way("server", n, m)'
  BY <1>10, PeerFacts DEF Way
<1>12. Arrived("server", n)' /\ Made("server", m)'
  BY <1>6 DEF Arrived, Made
<1> QED
  BY <1>1, <1>5, <1>6, <1>11, <1>12, PeerFacts, WayMake

\* A request handler answers.
LEMMA HandlerAnswersStep ==
  ASSUME IInv, NEW r \in Requests, Unsent(handler[r]), closed["server"] = FALSE,
         NEW type \in {"response", "error"}, NEW size \in Sizes, Answer(r, type, size),
         UNCHANGED <<out, pipe, reader, closed, call, notified, posted, applied>>
  PROVE  IInv'
<1>1. /\ Rest /\ WayOf("client") /\ WayOf("server") /\ ReaderInv /\ SenderInv /\ AnswerInv
      /\ OrderInv
  BY Parts
<1> DEFINE f == [type |-> type, id |-> r, size |-> size]
<1>3. /\ closed["server"] = FALSE /\ Unsent(handler[r])
      /\ Queue("server", f, "handler")
      /\ handler' = [handler EXCEPT ![r] = IF HasRoom("server") THEN "done" ELSE "parked"]
      /\ answers' = [answers EXCEPT ![r] = answers[r] + 1]
      /\ UNCHANGED <<out, pipe, reader, closed, call, notified, posted, applied>>
  BY <1>1, PeerFacts DEF Answer, Rest
<1>4. /\ WayOf("server")'
      /\ buf' = [x \in Peers |-> buf'[x]] /\ parked' = [x \in Peers |-> parked'[x]]
      /\ buf'["client"] = buf["client"] /\ parked'["client"] = parked["client"]
  BY <1>3, AnswerWay
<1>5. f \in Frame /\ f.id = r
  BY DEF Frame, Types
<1> HIDE DEF f
<1>6. /\ handler' \in [Requests -> {"none", "running", "caught", "parked", "done"}]
      /\ handler'[r] \in {"done", "parked"} /\ \A x \in Requests : x # r => handler'[x] = handler[x]
  BY <1>1, <1>3 DEF Rest
<1>7. /\ \A p \in Peers : Sent(p, answers) \subseteq Sent(p, answers')
      /\ Sent("client", answers') = Sent("client", answers)
      /\ answers' \in [Requests -> Nat] /\ answers'[r] = answers[r] + 1
      /\ \A x \in Requests : x # r => answers'[x] = answers[x]
  BY <1>1, <1>3, SentMore
<1>8. Rest'
  BY <1>1, <1>3, <1>4, <1>6, <1>7 DEF Rest
<1>9. WayOf("client")'
  <2>1. PICK m, n \in Nat : /\ m <= Most("client") /\ n <= m
                            /\ Way("client", n, m) /\ Arrived("client", n) /\ Made("client", m)
    BY <1>1, PeerFacts, WayPick
  <2>2. Way("client", n, m)'
    BY <1>3, <1>4, <1>7, <2>1, PeerFacts DEF Way
  <2>3. Arrived("client", n)'
    <3>1. /\ \A x \in Requests : x > n => handler[x] = "none" /\ answers[x] = 0
          /\ reader["server"].at \in {"body", "drain"} =>
               LET x == reader["server"].frame.id IN
               x = n /\ handler[x] = "none" /\ answers[x] = 0
      BY <2>1 DEF Arrived
    <3>2. reader["server"].at \in {"body", "drain"} => reader["server"].frame.id \in Requests
      BY <1>1, PeerFacts DEF ReaderInv, Sent
    <3>3. \A x \in Requests : handler[x] = "none" => x # r
      BY <1>3 DEF Unsent
    <3> QED
      BY <1>3, <1>6, <1>7, <3>1, <3>2, <3>3 DEF Arrived
  <2>4. Made("client", m)'
    BY <1>3, <2>1 DEF Made
  <2> QED
    BY <2>1, <2>2, <2>3, <2>4, PeerFacts, WayMake
<1>10. ReaderInv'
  BY <1>1, <1>3, <1>7, PeerFacts DEF ReaderInv
<1>11. SenderInv'
  <2>1. \A x \in Requests : handler[x] # "none" => handler'[x] # "none"
    BY <1>6
  <2> QED
    BY <1>1, <1>3, <1>5, <1>6, <2>1, PeerFacts, QueueSenders
<1>12. AnswerInv'
  <2>1. answers[r] = 0
    BY <1>1, <1>3 DEF AnswerInv
  <2>2. answers'[r] <= 1
    BY <1>7, <2>1
  <2> QED
    BY <1>1, <1>6, <1>7, <2>2 DEF AnswerInv, OneAnswer, Unsent
<1>13. OrderInv'
  BY <1>1, <1>3 DEF OrderInv, NotificationOrder
<1> QED
  BY <1>4, <1>8, <1>9, <1>10, <1>11, <1>12, <1>13, Whole

\* A request handler moves on without having sent anything.
LEMMA HandlerMovesStep ==
  ASSUME IInv, NEW r \in Requests, Unsent(handler[r]),
         NEW state \in {"caught", "done"}, Unanswered(r, state),
         UNCHANGED <<out, pipe, reader, closed, call, notified, posted, applied>>
  PROVE  IInv'
<1>1. /\ Rest /\ WayOf("client") /\ WayOf("server") /\ ReaderInv /\ SenderInv /\ AnswerInv
      /\ OrderInv
  BY Parts
<1>2. /\ handler' = [handler EXCEPT ![r] = state]
      /\ UNCHANGED <<buf, parked, out, pipe, reader, closed, call, answers, notified, posted,
                     applied>>
  BY DEF Unanswered
<1>3. /\ handler' \in [Requests -> {"none", "running", "caught", "parked", "done"}]
      /\ \A x \in Requests : handler'[x] = "none" <=> handler[x] = "none"
      /\ \A x \in Requests : Unsent(handler'[x]) => Unsent(handler[x])
  BY <1>1, <1>2 DEF Rest, Unsent
<1>4. \A q \in Peers : reader'[q] = reader[q] /\ closed'[q] = closed[q]
  BY <1>2
<1>5. ASSUME NEW x \in Peers, NEW n, Arrived(x, n) PROVE Arrived(x, n)'
  BY <1>1, <1>2, <1>3, <1>4, <1>5, ArrivedKept
<1>6. \A x, m : Made(x, m) => Made(x, m)'
  BY <1>2 DEF Made
<1>7. WayOf("client")' /\ WayOf("server")'
  BY <1>1, <1>2, <1>5, <1>6, PeerFacts, WayUntouched
<1>8. Rest' /\ ReaderInv' /\ AnswerInv' /\ OrderInv'
  BY <1>1, <1>2, <1>3 DEF Rest, ReaderInv, AnswerInv, OneAnswer, OrderInv, NotificationOrder
<1>9. SenderInv'
  BY <1>1, <1>2, <1>3 DEF SenderInv, SenderOk
<1> QED
  BY <1>7, <1>8, <1>9, Whole

\* A request handler returns, throws, or sends the error.
LEMMA HandlerStep ==
  ASSUME IInv, NEW r \in Requests, HandlerNext(r)
  PROVE  IInv'
<1>1. /\ Unsent(handler[r])
      /\ UNCHANGED <<out, pipe, reader, closed, call, notified, posted, applied>>
      /\ \/ /\ ~closed["server"]
            /\ \E type \in {"response", "error"}, size \in Sizes : Answer(r, type, size)
         \/ \E state \in {"caught", "done"} : Unanswered(r, state)
  BY DEF HandlerNext, HandlerReturns, HandlerThrows, SendError, Unsent, Sizes
<1>2. ~closed["server"] => closed["server"] = FALSE
  BY PeerFacts, Parts DEF Rest
<1> QED
  BY <1>1, <1>2, HandlerAnswersStep, HandlerMovesStep


-----------------------------------------------------------------------------
(* The reader at a header *)

\* What it takes is a header of the other end.
LEMMA HeaderFacts ==
  ASSUME IInv, NEW p \in Peers, closed[p] = FALSE, reader[p].at = "header", Incoming(p) # <<>>
  PROVE  LET c == pipe[Other(p)][1] IN
         /\ Head(Incoming(p)) = c /\ c \in Chunk /\ c.part = "header"
         /\ c.frame \in Sent(Other(p), answers) /\ c.frame \in Frame /\ NextFrame(p) = c.frame
<1> DEFINE q == Other(p)
           c == pipe[q][1]
<1>1. WayOf(q) /\ q \in Peers /\ Other(q) = p
  BY Parts, PeerFacts
<1>2. PICK m, n \in Nat : Way(q, n, m)
  BY <1>1, WayPick
<1>3. /\ Held(Sent(q, answers), buf[q], parked[q], out[q], pipe[q])
      /\ Framed(out[q], pipe[q], reader[p], closed[q], FALSE)
  BY <1>1, <1>2 DEF Way, Stream
<1>4. pipe[q] \in Seq(Chunk) /\ pipe[q] # <<>>
  BY <1>3 DEF Held, Incoming
<1>5. /\ Head(pipe[q]) = c /\ c \in Chunk /\ Len(pipe[q]) \in Nat \ {0}
  BY <1>4, TailFacts
<1>6. 1 \in 1 .. Len(pipe[q])
  BY <1>5
<1>7. c.frame \in Sent(q, answers)
  BY <1>3, <1>6 DEF Held
<1>8. c.part = "header"
  <2>1. Listens(reader[p], FALSE) /\ Expected(reader[p]) = Boundary
    BY DEF Listens, Expected
  <2>2. Fits(Boundary, c)
    BY <1>3, <1>4, <2>1 DEF Framed
  <2> QED
    BY <2>2 DEF Fits
<1>9. c.frame \in Frame
  BY <1>5 DEF Chunk
<1> QED
  BY <1>5, <1>7, <1>8, <1>9 DEF Incoming, NextFrame

\* It has read the header, and goes on as ru.
LEMMA HeaderStream ==
  ASSUME IInv, NEW p \in Peers, closed[p] = FALSE, reader[p].at = "header", Incoming(p) # <<>>,
         NEW ru, NEW n \in Nat, NEW m \in Nat, Way(Other(p), n, m),
         Listens(ru, FALSE) => Expected(ru) = After(pipe[Other(p)][1])
  PROVE  LET q == Other(p)
             f == pipe[q][1].frame
             k == IF FrameNum(f) = 0 THEN n ELSE n + 1 IN
         /\ FrameNum(f) # 0 => FrameNum(f) = n + 1 /\ n + 1 <= m
         /\ Stream(Sent(q, answers), buf[q], parked[q], out[q], Tail(pipe[q]), ru, closed[q],
                   FALSE, k, m)
<1> DEFINE q == Other(p)
           c == pipe[q][1]
<1>1. pipe[q] # <<>> /\ Other(q) = p
  BY PeerFacts DEF Incoming
<1>2. c.part = "header"
  BY HeaderFacts
<1>3. ChunkNum(c) = FrameNum(c.frame)
  BY <1>2 DEF ChunkNum
<1>4. Stream(Sent(q, answers), buf[q], parked[q], out[q], pipe[q], reader[p], closed[q],
             FALSE, n, m)
  BY <1>1 DEF Way
<1>5. Listens(ru, FALSE) => Expected(ru) = After(c)
  OBVIOUS
<1> HIDE DEF q
<1>6. /\ ChunkNum(c) = 0 => Stream(Sent(q, answers), buf[q], parked[q], out[q], Tail(pipe[q]), ru,
                                   closed[q], FALSE, n, m)
      /\ ChunkNum(c) # 0 =>
           /\ ChunkNum(c) = n + 1 /\ n + 1 <= m
           /\ Stream(Sent(q, answers), buf[q], parked[q], out[q], Tail(pipe[q]), ru, closed[q],
                     FALSE, n + 1, m)
  BY <1>1, <1>4, <1>5, StreamRead
<1> QED
  BY <1>3, <1>6 DEF q

\* A pong ends at the reader.
LEMMA ReadPongStep ==
  ASSUME IInv, NEW p \in Peers, ReadPong(p)
  PROVE  IInv'
<1> DEFINE q == Other(p)
           c == pipe[q][1]
<1>1. Rest /\ WayOf(p) /\ WayOf(q) /\ ReaderInv /\ SenderInv /\ AnswerInv /\ OrderInv
  BY Parts, PeerFacts
<1>2. q \in Peers /\ q # p /\ Other(q) = p /\ \A x \in Peers : x = p \/ x = q
  BY PeerFacts
<1>3. /\ closed[p] = FALSE /\ reader[p].at = "header" /\ Incoming(p) # <<>>
      /\ pipe' = [pipe EXCEPT ![q] = Tail(pipe[q])] /\ NextFrame(p).type = "pong"
      /\ UNCHANGED <<buf, parked, out, reader, closed, call, handler, answers, notified, posted,
                     applied>>
  BY <1>1, <1>2 DEF ReadPong, Reads, HeaderOf, Rest
<1>4. /\ c.part = "header" /\ c.frame \in Sent(q, answers) /\ c.frame.type = "pong"
  BY <1>3, HeaderFacts
<1>5. c.frame.size = "empty" /\ FrameNum(c.frame) = 0
  BY <1>4 DEF Sent, FrameNum
<1>6. pipe'[q] = Tail(pipe[q]) /\ pipe'[p] = pipe[p] /\ pipe' = [x \in Peers |-> pipe'[x]]
  BY <1>1, <1>2, <1>3 DEF Rest
<1>7. Listens(reader[p], FALSE) => Expected(reader[p]) = After(c)
  BY <1>3, <1>4, <1>5 DEF Expected, After
<1>8. Rest'
  BY <1>1, <1>3, <1>6 DEF Rest
<1>9. (\A x, n : Arrived(x, n) => Arrived(x, n)') /\ (\A x, m : Made(x, m) => Made(x, m)')
  BY <1>3 DEF Arrived, Made
<1>10. WayOf(q)'
  <2>1. PICK m, n \in Nat : /\ m <= Most(q) /\ n <= m
                            /\ Way(q, n, m) /\ Arrived(q, n) /\ Made(q, m)
    BY <1>1, <1>2, WayPick
  <2>2. Stream(Sent(q, answers), buf[q], parked[q], out[q], Tail(pipe[q]), reader[p], closed[q],
               FALSE, n, m)
    BY <1>3, <1>5, <1>7, <2>1, HeaderStream
  <2> HIDE DEF q
  <2>3. Way(q, n, m)'
    BY <1>2, <1>3, <1>6, <2>2 DEF Way
  <2> QED
    BY <1>2, <1>9, <2>1, <2>3, WayMake
<1>11. WayOf(p)'
  BY <1>1, <1>3, <1>6, <1>9, WayUntouched
<1>12. ReaderInv' /\ SenderInv' /\ AnswerInv' /\ OrderInv'
  BY <1>1, <1>3 DEF ReaderInv, SenderInv, SenderOk, AnswerInv, OrderInv, OneAnswer,
     NotificationOrder
<1>13. WayOf("client")' /\ WayOf("server")'
  BY <1>2, <1>10, <1>11, PeerFacts
<1> QED
  BY <1>8, <1>12, <1>13, Whole

\* A ping reaches only the server, which answers with a pong if there is room.
LEMMA ReadPingStep ==
  ASSUME IInv, NEW p \in Peers, ReadPing(p)
  PROVE  IInv'
<1> DEFINE c == pipe["client"][1]
           f == [type |-> "pong", id |-> Ping, size |-> "empty"]
<1>1. /\ Rest /\ WayOf("client") /\ WayOf("server") /\ ReaderInv /\ SenderInv /\ AnswerInv
      /\ OrderInv
  BY Parts
<1>2. /\ closed[p] = FALSE /\ reader[p].at = "header" /\ Incoming(p) # <<>>
      /\ NextFrame(p).type = "ping"
  BY <1>1 DEF ReadPing, Reads, HeaderOf, Rest
<1>3. p = "server"
  <2>1. NextFrame(p) \in Sent(Other(p), answers)
    BY <1>2, HeaderFacts
  <2>2. Other(p) = "client"
    BY <1>2, <2>1 DEF Sent, Other
  <2> QED
    BY <2>2 DEF Other, Peers
<1>4. /\ closed["server"] = FALSE /\ reader["server"].at = "header" /\ Incoming("server") # <<>>
      /\ pipe' = [pipe EXCEPT !["client"] = Tail(pipe["client"])]
      /\ buf' = IF HasRoom("server") THEN [buf EXCEPT !["server"] = Append(buf["server"], f)]
                ELSE buf
      /\ UNCHANGED <<parked, out, reader, closed, call, handler, answers, notified, posted,
                     applied>>
  BY <1>1, <1>2, <1>3, PeerFacts DEF ReadPing, Reads, Rest
<1>5. c.part = "header" /\ c.frame \in Sent("client", answers) /\ c.frame.type = "ping"
  BY <1>2, <1>3, PeerFacts, HeaderFacts
<1>6. c.frame.size = "empty" /\ FrameNum(c.frame) = 0
  BY <1>5 DEF Sent, FrameNum
<1>7. f \in Frame /\ FrameNum(f) = 0 /\ f \in Sent("server", answers)
  BY DEF Frame, Types, Sizes, FrameNum, Sent
<1> HIDE DEF f
<1>8. /\ pipe'["client"] = Tail(pipe["client"]) /\ pipe'["server"] = pipe["server"]
      /\ pipe' = [x \in Peers |-> pipe'[x]] /\ buf' = [x \in Peers |-> buf'[x]]
      /\ buf'["client"] = buf["client"]
      /\ HasRoom("server") => buf'["server"] = Append(buf["server"], f)
      /\ ~HasRoom("server") => buf'["server"] = buf["server"]
  BY <1>1, <1>4, PeerFacts DEF Rest
<1>9. Listens(reader["server"], FALSE) => Expected(reader["server"]) = After(c)
  BY <1>4, <1>5, <1>6 DEF Expected, After
<1>10. Rest'
  BY <1>1, <1>4, <1>8 DEF Rest
<1>11. (\A x, n : Arrived(x, n) => Arrived(x, n)') /\ (\A x, m : Made(x, m) => Made(x, m)')
  BY <1>4 DEF Arrived, Made
<1>12. WayOf("client")'
  <2>1. PICK m, n \in Nat : /\ m <= Most("client") /\ n <= m
                            /\ Way("client", n, m) /\ Arrived("client", n) /\ Made("client", m)
    BY <1>1, PeerFacts, WayPick
  <2>2. Stream(Sent("client", answers), buf["client"], parked["client"], out["client"],
               Tail(pipe["client"]), reader["server"], closed["client"], FALSE, n, m)
    <3> DEFINE rd == reader["server"]
    <3>1. Way(Other("server"), n, m) /\ (Listens(rd, FALSE) => Expected(rd) = After(pipe[Other("server")][1]))
      BY <1>9, <2>1, PeerFacts
    <3> HIDE DEF rd
    <3>2. LET q == Other("server")
              g == pipe[q][1].frame
              k == IF FrameNum(g) = 0 THEN n ELSE n + 1 IN
          Stream(Sent(q, answers), buf[q], parked[q], out[q], Tail(pipe[q]), rd, closed[q],
                 FALSE, k, m)
      BY <1>4, <3>1, PeerFacts, HeaderStream
    <3> QED
      BY <1>6, <3>2, PeerFacts DEF rd
  <2>3. Way("client", n, m)'
    BY <1>4, <1>8, <2>2, PeerFacts DEF Way
  <2> QED
    BY <1>11, <2>1, <2>3, PeerFacts, WayMake
<1>13. WayOf("server")'
  <2>1. PICK m, n \in Nat : /\ m <= Most("server") /\ n <= m
                            /\ Way("server", n, m) /\ Arrived("server", n) /\ Made("server", m)
    BY <1>1, PeerFacts, WayPick
  <2>2. Stream(Sent("server", answers), buf["server"], parked["server"], out["server"],
               pipe["server"], reader["client"], FALSE, closed["client"], n, m)
    BY <1>4, <2>1, PeerFacts DEF Way
  <2>3. HasRoom("server") =>
          Stream(Sent("server", answers), Append(buf["server"], f), parked["server"],
                 out["server"], pipe["server"], reader["client"], FALSE, closed["client"], n, m)
    BY <1>7, <2>2, PeerFacts, PutStream
  <2>4. Stream(Sent("server", answers), buf'["server"], parked["server"], out["server"],
               pipe["server"], reader["client"], FALSE, closed["client"], n, m)
    BY <1>8, <2>2, <2>3
  <2>5. Way("server", n, m)'
    BY <1>4, <1>8, <2>4, PeerFacts DEF Way
  <2> QED
    BY <1>11, <2>1, <2>5, PeerFacts, WayMake
<1>14. ReaderInv' /\ SenderInv' /\ AnswerInv' /\ OrderInv'
  BY <1>1, <1>4 DEF ReaderInv, SenderInv, SenderOk, AnswerInv, OrderInv, OneAnswer,
     NotificationOrder
<1> QED
  BY <1>10, <1>12, <1>13, <1>14, Whole


\* A request is the next number.
LEMMA RequestStream ==
  ASSUME IInv, Reads("server", "header"), HeaderOf("server", "request"),
         NEW ru, Listens(ru, FALSE) => Expected(ru) = After(pipe["client"][1])
  PROVE  LET f == pipe["client"][1].frame IN
         /\ NextFrame("server") = f /\ f \in Sent("client", answers) /\ f \in Frame
         /\ f.type = "request" /\ f.id \in Requests
         /\ closed["server"] = FALSE /\ reader["server"].at = "header"
         /\ pipe["client"][1].part = "header"
         /\ pipe'["client"] = Tail(pipe["client"]) /\ pipe'["server"] = pipe["server"]
         /\ pipe' = [x \in Peers |-> pipe'[x]]
         /\ \E m, n \in Nat :
              /\ m <= Most("client") /\ n + 1 <= m /\ f.id = n + 1
              /\ Way("client", n, m) /\ Arrived("client", n) /\ Made("client", m)
              /\ Stream(Sent("client", answers), buf["client"], parked["client"], out["client"],
                        Tail(pipe["client"]), ru, closed["client"], FALSE, n + 1, m)
<1> DEFINE c == pipe["client"][1]
           f == c.frame
<1>1. Rest /\ WayOf("client")
  BY Parts
<1>2. /\ closed["server"] = FALSE /\ reader["server"].at = "header" /\ Incoming("server") # <<>>
      /\ pipe' = [pipe EXCEPT !["client"] = Tail(pipe["client"])]
      /\ NextFrame("server").type = "request"
  BY <1>1, PeerFacts DEF Reads, HeaderOf, Rest
<1>3. /\ pipe'["client"] = Tail(pipe["client"]) /\ pipe'["server"] = pipe["server"]
      /\ pipe' = [x \in Peers |-> pipe'[x]]
  BY <1>1, <1>2, PeerFacts DEF Rest
<1>4. /\ NextFrame("server") = f /\ f \in Sent("client", answers) /\ f \in Frame
      /\ c.part = "header" /\ f.type = "request"
  BY <1>2, PeerFacts, HeaderFacts
<1>5. f.id \in Requests /\ FrameNum(f) = f.id /\ FrameNum(f) # 0
  <2>1. f.id \in Requests
    BY <1>4 DEF Sent
  <2>2. f.id # 0
    BY <2>1 DEF Requests
  <2> QED
    BY <1>4, <2>1, <2>2 DEF FrameNum
<1>6. PICK m, n \in Nat : /\ m <= Most("client") /\ n <= m
                          /\ Way("client", n, m) /\ Arrived("client", n) /\ Made("client", m)
  BY <1>1, PeerFacts, WayPick
<1>7. /\ Way(Other("server"), n, m)
      /\ Listens(ru, FALSE) => Expected(ru) = After(pipe[Other("server")][1])
  BY <1>6, PeerFacts
<1>8. LET q == Other("server")
          g == pipe[q][1].frame
          k == IF FrameNum(g) = 0 THEN n ELSE n + 1 IN
      /\ FrameNum(g) # 0 => FrameNum(g) = n + 1 /\ n + 1 <= m
      /\ Stream(Sent(q, answers), buf[q], parked[q], out[q], Tail(pipe[q]), ru, closed[q],
                FALSE, k, m)
  BY <1>2, <1>7, PeerFacts, HeaderStream
<1>9. /\ f.id = n + 1 /\ n + 1 <= m
      /\ Stream(Sent("client", answers), buf["client"], parked["client"], out["client"],
                Tail(pipe["client"]), ru, closed["client"], FALSE, n + 1, m)
  BY <1>5, <1>8, PeerFacts
<1> QED
  BY <1>2, <1>3, <1>4, <1>5, <1>6, <1>9

\* The server's reader answers the request f, the last it has taken off the wire.
LEMMA ReaderAnswers ==
  ASSUME IInv, NEW f \in Frame, f.id \in Requests, closed["server"] = FALSE,
         NEW wait \in {"responding", "rejecting"}, NEW next \in {"header", "closing"},
         RespondError(f, wait, next), reader["server"].at \in {"header", "drain"},
         pipe'["server"] = pipe["server"], pipe' = [x \in Peers |-> pipe'[x]],
         UNCHANGED <<out, closed, call, handler, notified, posted, applied>>,
         NEW m \in Nat, NEW n \in Nat, m <= Most("client"), n <= m, Made("client", m),
         f.id = n, answers[n] = 0, handler[n] = "none",
         \A r \in Requests : r > n => handler[r] = "none" /\ answers[r] = 0,
         Stream(Sent("client", answers), buf["client"], parked["client"], out["client"],
                pipe'["client"], reader'["server"], closed["client"], FALSE, n, m)
  PROVE  IInv'
<1> DEFINE g == [type |-> "error", id |-> f.id, size |-> "empty"]
<1>1. /\ Rest /\ WayOf("client") /\ WayOf("server") /\ ReaderInv /\ SenderInv /\ AnswerInv
      /\ OrderInv
  BY Parts
<1>2. /\ Queue("server", g, "reader")
      /\ answers' = [answers EXCEPT ![f.id] = answers[f.id] + 1]
      /\ reader' = [reader EXCEPT !["server"] = At(IF HasRoom("server") THEN next ELSE wait, f)]
  BY <1>1 DEF RespondError, Rest
<1> DEFINE rd == At(IF HasRoom("server") THEN next ELSE wait, f)
<1>3. /\ rd \in [at : Readers, frame : Frame \cup {NoFrame}]
      /\ rd.at \notin {"body", "drain"} /\ (~HasRoom("server") => rd.at \in {"responding", "rejecting"})
  BY DEF At, Readers
<1>4. g \in Frame /\ g.id = f.id
  BY DEF Frame, Types, Sizes
<1>5. reader' = [reader EXCEPT !["server"] = rd]
  BY <1>2
<1> HIDE DEF rd
<1>6. /\ reader'["client"] = reader["client"] /\ reader'["server"] = rd
      /\ reader' \in [Peers -> [at : Readers, frame : Frame \cup {NoFrame}]]
  BY <1>1, <1>3, <1>5, PeerFacts DEF Rest
<1>7. /\ WayOf("server")'
      /\ buf' = [x \in Peers |-> buf'[x]] /\ parked' = [x \in Peers |-> parked'[x]]
      /\ buf'["client"] = buf["client"] /\ parked'["client"] = parked["client"]
  <2>1. "empty" \in Sizes
    BY DEF Sizes
  <2> QED
    BY <1>2, <1>6, <2>1, AnswerWay
<1> HIDE DEF g
<1>8. /\ \A p \in Peers : Sent(p, answers) \subseteq Sent(p, answers')
      /\ Sent("client", answers') = Sent("client", answers)
      /\ answers' \in [Requests -> Nat] /\ answers'[n] = answers[n] + 1
      /\ \A x \in Requests : x # n => answers'[x] = answers[x]
  BY <1>1, <1>2, SentMore
<1>9. Rest'
  BY <1>1, <1>6, <1>7, <1>8 DEF Rest
<1>10. WayOf("client")'
  <2>1. Way("client", n, m)'
    BY <1>7, <1>8, PeerFacts DEF Way
  <2>2. Arrived("client", n)'
    <3>1. \A r \in Requests : r > n => r # n
      BY DEF Requests
    <3>2. \A r \in Requests : r > n => handler'[r] = "none" /\ answers'[r] = 0
      BY <1>8, <3>1
    <3> QED
      BY <1>3, <1>6, <3>2 DEF Arrived
  <2>3. Made("client", m)'
    BY DEF Made
  <2> QED
    BY <2>1, <2>2, <2>3, PeerFacts, WayMake
<1>11. ReaderInv'
  BY <1>1, <1>3, <1>6, <1>8, PeerFacts DEF ReaderInv, Peers
<1>12. SenderInv'
  BY <1>1, <1>2, <1>3, <1>4, <1>6, PeerFacts, QueueSenders
<1>13. AnswerInv'
  <2>1. answers'[n] <= 1
    BY <1>8
  <2> QED
    BY <1>1, <1>8, <2>1 DEF AnswerInv, OneAnswer, Unsent
<1>14. OrderInv'
  BY <1>1 DEF OrderInv, NotificationOrder
<1> QED
  BY <1>7, <1>9, <1>10, <1>11, <1>12, <1>13, <1>14, Whole

\* A request that is too large is answered; the reader is about to close.
LEMMA RejectOversizedStep ==
  ASSUME IInv, RejectOversized
  PROVE  IInv'
<1> DEFINE f == pipe["client"][1].frame
           rd == At(IF HasRoom("server") THEN "closing" ELSE "rejecting", f)
<1>1. Rest
  BY Parts
<1>2. /\ Reads("server", "header") /\ HeaderOf("server", "request")
      /\ RespondError(NextFrame("server"), "rejecting", "closing")
      /\ UNCHANGED <<out, closed, call, handler, notified, posted, applied>>
  BY DEF RejectOversized
<1>3. ~Listens(rd, FALSE)
  BY DEF Listens, At
<1> HIDE DEF rd
<1>4. /\ NextFrame("server") = f /\ f \in Frame /\ f.id \in Requests
      /\ closed["server"] = FALSE /\ reader["server"].at = "header"
      /\ pipe'["client"] = Tail(pipe["client"]) /\ pipe'["server"] = pipe["server"]
      /\ pipe' = [x \in Peers |-> pipe'[x]]
  BY <1>2, <1>3, RequestStream
<1>5. PICK m, n \in Nat :
        /\ m <= Most("client") /\ n + 1 <= m /\ f.id = n + 1
        /\ Arrived("client", n) /\ Made("client", m)
        /\ Stream(Sent("client", answers), buf["client"], parked["client"], out["client"],
                  Tail(pipe["client"]), rd, closed["client"], FALSE, n + 1, m)
  BY <1>2, <1>3, RequestStream
<1>6. reader'["server"] = rd /\ RespondError(f, "rejecting", "closing")
  BY <1>1, <1>2, <1>4, PeerFacts DEF RespondError, Rest, rd
<1> HIDE DEF f
<1>7. /\ answers[n + 1] = 0 /\ handler[n + 1] = "none" /\ n + 1 \in Nat
      /\ \A r \in Requests : r > n + 1 => handler[r] = "none" /\ answers[r] = 0
  <2>1. \A r \in Requests : r > n => handler[r] = "none" /\ answers[r] = 0
    BY <1>5 DEF Arrived
  <2>2. (\A r \in Requests : r > n + 1 => r > n) /\ n + 1 > n /\ n + 1 \in Requests
    BY <1>4, <1>5 DEF Requests
  <2> QED
    BY <2>1, <2>2
<1>8. Stream(Sent("client", answers), buf["client"], parked["client"], out["client"],
             pipe'["client"], reader'["server"], closed["client"], FALSE, n + 1, m)
  BY <1>4, <1>5, <1>6
<1> QED
  BY <1>2, <1>4, <1>5, <1>6, <1>7, <1>8, ReaderAnswers


\* The reader on its way into a body waits for just that body.
LEMMA BodyExpected ==
  ASSUME NEW a \in {"body", "drain"}, NEW c, c.part = "header"
  PROVE  /\ Expected(At(a, c.frame)) = After(c) /\ At(a, c.frame).at = a
         /\ At(a, c.frame).frame = c.frame
  BY DEF Expected, At, After

\* A request is read, or drained because of the request rate.
LEMMA ReadRequestStep ==
  ASSUME IInv, ReadRequest
  PROVE  IInv'
<1> DEFINE c == pipe["client"][1]
           f == c.frame
<1>1. /\ Rest /\ WayOf("client") /\ WayOf("server") /\ ReaderInv /\ SenderInv /\ AnswerInv
      /\ OrderInv
  BY Parts
<1>2. /\ Reads("server", "header") /\ HeaderOf("server", "request")
      /\ UNCHANGED <<buf, parked, answers, out, closed, call, handler, notified, posted, applied>>
  BY DEF ReadRequest, RateLimited
<1>3. /\ NextFrame("server") = f /\ f \in Sent("client", answers) /\ f \in Frame
      /\ f.type = "request" /\ f.id \in Requests /\ c.part = "header"
      /\ closed["server"] = FALSE /\ reader["server"].at = "header"
      /\ pipe'["client"] = Tail(pipe["client"]) /\ pipe'["server"] = pipe["server"]
      /\ pipe' = [x \in Peers |-> pipe'[x]]
  <2>1. ~Listens(At("closing", NoFrame), FALSE)
    BY DEF Listens, At
  <2> QED
    BY <1>2, <2>1, RequestStream
<1>4. PICK a \in {"body", "drain"} : reader' = [reader EXCEPT !["server"] = At(a, f)]
  BY <1>3 DEF ReadRequest, RateLimited
<1> DEFINE rd == At(a, f)
<1>5. /\ rd \in [at : Readers, frame : Frame \cup {NoFrame}] /\ rd.at = a /\ rd.frame = f
      /\ Expected(rd) = After(c)
  <2>1. /\ Expected(rd) = After(c) /\ rd.at = a /\ rd.frame = f
    BY <1>3, BodyExpected
  <2>2. At(a, f) = [at |-> a, frame |-> f]
    BY DEF At
  <2> QED
    BY <1>3, <2>1, <2>2 DEF Readers
<1> HIDE DEF rd
<1>6. /\ reader'["server"] = rd /\ reader'["client"] = reader["client"]
      /\ reader' \in [Peers -> [at : Readers, frame : Frame \cup {NoFrame}]]
  BY <1>1, <1>4, <1>5, PeerFacts DEF Rest, rd
<1>7. PICK m, n \in Nat :
        /\ m <= Most("client") /\ n + 1 <= m /\ f.id = n + 1
        /\ Arrived("client", n) /\ Made("client", m)
        /\ Stream(Sent("client", answers), buf["client"], parked["client"], out["client"],
                  Tail(pipe["client"]), rd, closed["client"], FALSE, n + 1, m)
  BY <1>2, <1>5, RequestStream
<1> HIDE DEF f
<1>8. Rest'
  BY <1>1, <1>2, <1>3, <1>6 DEF Rest
<1>9. WayOf("client")'
  <2>1. Way("client", n + 1, m)'
    BY <1>2, <1>3, <1>6, <1>7, PeerFacts DEF Way
  <2>2. Arrived("client", n + 1)'
    <3>1. \A r \in Requests : r > n => handler[r] = "none" /\ answers[r] = 0
      BY <1>7 DEF Arrived
    <3>2. (\A r \in Requests : r > n + 1 => r > n) /\ n + 1 > n /\ n + 1 \in Requests
      BY <1>3, <1>7 DEF Requests
    <3> QED
      BY <1>2, <1>5, <1>6, <1>7, <3>1, <3>2 DEF Arrived
  <2>3. Made("client", m)'
    BY <1>2, <1>7 DEF Made
  <2>4. n + 1 \in Nat
    OBVIOUS
  <2> QED
    BY <1>7, <2>1, <2>2, <2>3, <2>4, PeerFacts, WayMake
<1>10. WayOf("server")'
  <2>1. (\A n1 : Arrived("server", n1) => Arrived("server", n1)') /\
        (\A m1 : Made("server", m1) => Made("server", m1)')
    BY <1>2, <1>6 DEF Arrived, Made
  <2> QED
    BY <1>1, <1>2, <1>3, <1>6, <2>1, PeerFacts, WayUntouched
<1>11. ReaderInv'
  BY <1>1, <1>2, <1>3, <1>5, <1>6, PeerFacts DEF ReaderInv, Peers
<1>12. SenderInv'
  <2>1. \A p \in Peers : \A i \in 1 .. Len(parked[p]) : SenderOk(p, i) /\ parked[p][i].by # "reader"
    BY <1>1, <1>3 DEF SenderInv, SenderOk
  <2> QED
    BY <1>2, <2>1 DEF SenderInv, SenderOk
<1>13. AnswerInv' /\ OrderInv'
  BY <1>1, <1>2 DEF AnswerInv, OrderInv, OneAnswer, NotificationOrder
<1> QED
  BY <1>8, <1>9, <1>10, <1>11, <1>12, <1>13, Whole

\* An answer or notification is read; one that is too large closes the client.
LEMMA ReadAnswerOrNotificationStep ==
  ASSUME IInv, ReadAnswerOrNotification
  PROVE  IInv'
<1> DEFINE c == pipe["server"][1]
           f == c.frame
<1>1. /\ Rest /\ WayOf("client") /\ WayOf("server") /\ ReaderInv /\ SenderInv /\ AnswerInv
      /\ OrderInv
  BY Parts
<1>2. /\ closed["client"] = FALSE /\ reader["client"].at = "header" /\ Incoming("client") # <<>>
      /\ pipe' = [pipe EXCEPT !["server"] = Tail(pipe["server"])]
      /\ NextFrame("client").type \in {"response", "error", "notification"}
      /\ UNCHANGED <<answers, notified, posted, applied>>
  <2>1. /\ Reads("client", "header")
        /\ NextFrame("client").type \in {"response", "error", "notification"}
        /\ UNCHANGED <<answers, notified, posted, applied>>
    BY DEF ReadAnswerOrNotification
  <2>2. closed["client"] \in BOOLEAN /\ Other("client") = "server"
    BY <1>1, PeerFacts DEF Rest
  <2> QED
    BY <2>1, <2>2 DEF Reads
<1>3. /\ pipe'["server"] = Tail(pipe["server"]) /\ pipe'["client"] = pipe["client"]
      /\ pipe' = [x \in Peers |-> pipe'[x]] /\ pipe["server"] # <<>>
  BY <1>1, <1>2, PeerFacts DEF Rest, Incoming
<1>4. /\ NextFrame("client") = f /\ f \in Sent("server", answers) /\ f \in Frame
      /\ c.part = "header" /\ f.type \in {"response", "error", "notification"}
  BY <1>2, PeerFacts, HeaderFacts
<1>5. CASE f.size = "over"
  <2>1. Close("client")
    BY <1>4, <1>5 DEF ReadAnswerOrNotification
  <2> QED
    BY <1>2, <1>3, <2>1, PeerFacts, CloseStep
<1>6. CASE f.size # "over"
  <2>1. /\ reader' = [reader EXCEPT !["client"] = At("body", f)]
        /\ UNCHANGED <<buf, parked, out, closed, call, handler>>
    BY <1>4, <1>6 DEF ReadAnswerOrNotification
  <2> DEFINE rd == At("body", f)
  <2>2. /\ rd \in [at : Readers, frame : Frame \cup {NoFrame}] /\ rd.at = "body" /\ rd.frame = f
        /\ Expected(rd) = After(c)
    <3>1. /\ Expected(rd) = After(c) /\ rd.at = "body" /\ rd.frame = f
      BY <1>4, BodyExpected
    <3>2. At("body", f) = [at |-> "body", frame |-> f]
      BY DEF At
    <3> QED
      BY <1>4, <3>1, <3>2 DEF Readers
  <2> HIDE DEF rd
  <2>3. /\ reader'["client"] = rd /\ reader'["server"] = reader["server"]
        /\ reader' \in [Peers -> [at : Readers, frame : Frame \cup {NoFrame}]]
    BY <1>1, <2>1, <2>2, PeerFacts DEF Rest, rd
  <2>4. Rest'
    BY <1>1, <1>2, <1>3, <2>1, <2>3 DEF Rest
  <2>5. WayOf("server")'
    <3>1. PICK m, n \in Nat : /\ m <= Most("server") /\ n <= m
                              /\ Way("server", n, m) /\ Arrived("server", n) /\ Made("server", m)
      BY <1>1, PeerFacts, WayPick
    <3>2. /\ Way(Other("client"), n, m)
          /\ Listens(rd, FALSE) => Expected(rd) = After(pipe[Other("client")][1])
      BY <2>2, <3>1, PeerFacts
    <3>3. LET q == Other("client")
              g == pipe[q][1].frame
              kk == IF FrameNum(g) = 0 THEN n ELSE n + 1 IN
          /\ FrameNum(g) # 0 => FrameNum(g) = n + 1 /\ n + 1 <= m
          /\ Stream(Sent(q, answers), buf[q], parked[q], out[q], Tail(pipe[q]), rd, closed[q],
                    FALSE, kk, m)
      BY <1>2, <3>2, PeerFacts, HeaderStream
    <3>4. PICK k \in Nat :
            /\ k = IF FrameNum(f) = 0 THEN n ELSE n + 1
            /\ FrameNum(f) # 0 => FrameNum(f) = n + 1 /\ n + 1 <= m
            /\ Stream(Sent("server", answers), buf["server"], parked["server"], out["server"],
                      Tail(pipe["server"]), rd, closed["server"], FALSE, k, m)
      <4>1. (IF FrameNum(f) = 0 THEN n ELSE n + 1) \in Nat
        OBVIOUS
      <4> QED
        BY <3>3, <4>1, PeerFacts
    <3>5. k <= m
      BY <3>1, <3>4
    <3>6. Way("server", k, m)'
      <4>1. Stream(Sent("server", answers'), buf'["server"], parked'["server"], out'["server"],
                   pipe'["server"], reader'["client"], closed'["server"], closed'["client"], k, m)
        BY <1>2, <1>3, <2>1, <2>3, <3>4
      <4> QED
        BY <4>1, PeerFacts DEF Way
    <3>7. Arrived("server", k)'
      <4>1. n = Len(applied) + Len(posted)
        BY <1>2, <3>1 DEF Arrived
      <4>2. CASE f.type = "notification"
        <5>1. f.id \in Notes /\ FrameNum(f) = f.id
          BY <1>4, <4>2 DEF Sent, FrameNum
        <5>2. f.id # 0
          BY <5>1 DEF Notes
        <5>3. k = n + 1 /\ f.id = k
          BY <3>4, <5>1, <5>2
        <5> QED
          BY <1>2, <2>2, <2>3, <4>1, <4>2, <5>3 DEF Arrived
      <4>3. CASE f.type # "notification"
        <5>1. k = n
          BY <1>4, <3>4, <4>3 DEF FrameNum
        <5> QED
          BY <1>2, <2>2, <2>3, <4>1, <4>3, <5>1 DEF Arrived
      <4> QED
        BY <4>2, <4>3
    <3>8. Made("server", m)'
      BY <1>2, <3>1 DEF Made
    <3> QED
      BY <3>1, <3>5, <3>6, <3>7, <3>8, PeerFacts, WayMake
  <2>6. WayOf("client")'
    <3>1. (\A n : Arrived("client", n) => Arrived("client", n)') /\
          (\A m : Made("client", m) => Made("client", m)')
      BY <1>2, <2>1, <2>3 DEF Arrived, Made
    <3> QED
      BY <1>1, <1>2, <1>3, <2>1, <2>3, <3>1, PeerFacts, WayUntouched
  <2>7. ReaderInv'
    BY <1>1, <1>2, <1>4, <2>2, <2>3, PeerFacts DEF ReaderInv, Peers
  <2>8. SenderInv'
    BY <1>1, <2>1, <2>3 DEF SenderInv, SenderOk
  <2>9. AnswerInv' /\ OrderInv'
    BY <1>1, <1>2, <2>1 DEF AnswerInv, OrderInv, OneAnswer, NotificationOrder
  <2> QED
    BY <2>4, <2>5, <2>6, <2>7, <2>8, <2>9, Whole
<1> QED
  BY <1>5, <1>6


-----------------------------------------------------------------------------
(* The reader in a body *)

\* It takes the body of its frame, or nothing when that is empty.
LEMMA BodyStream ==
  ASSUME IInv, NEW p \in Peers, NEW a \in {"body", "drain"}, ReadsBody(p, a),
         NEW ru, Expected(ru) = Boundary, NEW n \in Nat, NEW m \in Nat, Way(Other(p), n, m)
  PROVE  LET q == Other(p) IN
         /\ closed[p] = FALSE /\ reader[p].at = a /\ pipe'[p] = pipe[p]
         /\ pipe' = [x \in Peers |-> pipe'[x]]
         /\ Stream(Sent(q, answers), buf[q], parked[q], out[q], pipe'[q], ru, closed[q],
                   FALSE, n, m)
<1> DEFINE q == Other(p)
           f == reader[p].frame
<1>1. Rest /\ q \in Peers /\ q # p /\ Other(q) = p
  BY Parts, PeerFacts
<1>2. closed[p] = FALSE /\ reader[p].at = a
  BY <1>1 DEF ReadsBody, Rest
<1>3. pipe'[p] = pipe[p] /\ pipe' = [x \in Peers |-> pipe'[x]]
  BY <1>1 DEF ReadsBody, Rest
<1>4. Stream(Sent(q, answers), buf[q], parked[q], out[q], pipe[q], reader[p], closed[q],
             FALSE, n, m)
  BY <1>1, <1>2 DEF Way
<1>5. Listens(reader[p], FALSE)
  BY <1>2 DEF Listens
<1>6. CASE f.size = "empty"
  <2>1. Expected(reader[p]) = Boundary
    BY <1>6 DEF Expected
  <2>2. pipe' = pipe
    BY <1>6 DEF ReadsBody
  <2> HIDE DEF q
  <2>3. Stream(Sent(q, answers), buf[q], parked[q], out[q], pipe[q], ru, closed[q], FALSE, n, m)
    BY <1>4, <1>5, <2>1, StreamMoves
  <2> QED
    BY <1>2, <1>3, <2>2, <2>3 DEF q
<1>7. CASE f.size # "empty"
  <2>1. Incoming(p) # <<>> /\ pipe' = [pipe EXCEPT ![q] = Tail(pipe[q])]
    BY <1>7 DEF ReadsBody
  <2>2. pipe[q] # <<>> /\ pipe'[q] = Tail(pipe[q])
    BY <1>1, <2>1 DEF Incoming, Rest
  <2>3. Expected(reader[p]) = Body(f) /\ Body(f) # Boundary
    <3>1. Body(f).part = "body" /\ Boundary.part = "header"
      BY DEF Body, Boundary, Header
    <3> QED
      BY <1>2, <1>7, <3>1 DEF Expected
  <2>4. pipe[q][1] = Body(f)
    <3>1. Fits(Expected(reader[p]), pipe[q][1])
      BY <1>4, <1>5, <2>2 DEF Stream, Framed
    <3> QED
      BY <2>3, <3>1 DEF Fits
  <2>5. ChunkNum(pipe[q][1]) = 0 /\ After(pipe[q][1]) = Boundary
    BY <2>4 DEF ChunkNum, After, Body
  <2> HIDE DEF q
  <2>6. Stream(Sent(q, answers), buf[q], parked[q], out[q], Tail(pipe[q]), ru, closed[q],
               FALSE, n, m)
    BY <1>4, <2>2, <2>5, StreamRead
  <2> QED
    BY <1>2, <1>3, <2>2, <2>6 DEF q
<1> QED
  BY <1>6, <1>7

LEMMA BoundaryFacts ==
  /\ AtBoundary.at = "header" /\ AtBoundary \in [at : Readers, frame : Frame \cup {NoFrame}]
  /\ Expected(AtBoundary) = Boundary
  BY DEF AtBoundary, At, Readers, Expected

\* The server's reader in the body of a request: the last it has taken.
LEMMA ServerBody ==
  ASSUME IInv, NEW a \in {"body", "drain"}, ReadsBody("server", a), NEW ru, Expected(ru) = Boundary
  PROVE  LET f == reader["server"].frame IN
         /\ closed["server"] = FALSE /\ reader["server"].at = a
         /\ pipe'["server"] = pipe["server"] /\ pipe' = [x \in Peers |-> pipe'[x]]
         /\ f \in Frame /\ f.id \in Requests
         /\ \E m, n \in Nat :
              /\ m <= Most("client") /\ n <= m /\ Made("client", m)
              /\ f.id = n /\ answers[n] = 0 /\ handler[n] = "none"
              /\ \A r \in Requests : r > n => handler[r] = "none" /\ answers[r] = 0
              /\ Stream(Sent("client", answers), buf["client"], parked["client"], out["client"],
                        pipe'["client"], ru, closed["client"], FALSE, n, m)
<1> DEFINE f == reader["server"].frame
<1>1. Rest /\ WayOf("client") /\ ReaderInv
  BY Parts
<1>2. PICK m, n \in Nat : /\ m <= Most("client") /\ n <= m
                          /\ Way("client", n, m) /\ Arrived("client", n) /\ Made("client", m)
  BY <1>1, PeerFacts, WayPick
<1>3. Way(Other("server"), n, m)
  BY <1>2, PeerFacts
<1>4. LET q == Other("server") IN
      /\ closed["server"] = FALSE /\ reader["server"].at = a /\ pipe'["server"] = pipe["server"]
      /\ pipe' = [x \in Peers |-> pipe'[x]]
      /\ Stream(Sent(q, answers), buf[q], parked[q], out[q], pipe'[q], ru, closed[q],
                FALSE, n, m)
  BY <1>3, PeerFacts, BodyStream
<1>5. /\ closed["server"] = FALSE /\ reader["server"].at = a
      /\ pipe'["server"] = pipe["server"] /\ pipe' = [x \in Peers |-> pipe'[x]]
      /\ Stream(Sent("client", answers), buf["client"], parked["client"], out["client"],
                pipe'["client"], ru, closed["client"], FALSE, n, m)
  BY <1>4, PeerFacts
<1>6. f \in Frame /\ f.id \in Requests
  BY <1>1, <1>5, PeerFacts DEF ReaderInv, Sent
<1>7. /\ f.id = n /\ answers[n] = 0 /\ handler[n] = "none"
      /\ \A r \in Requests : r > n => handler[r] = "none" /\ answers[r] = 0
  BY <1>2, <1>5 DEF Arrived
<1> QED
  BY <1>2, <1>5, <1>6, <1>7

\* The body of a request is drained and the request answered.
LEMMA AnswerDrainedStep ==
  ASSUME IInv, AnswerDrained
  PROVE  IInv'
<1> DEFINE f == reader["server"].frame
           rd == At(IF HasRoom("server") THEN "header" ELSE "responding", f)
<1>1. Rest
  BY Parts
<1>2. /\ ReadsBody("server", "drain") /\ RespondError(f, "responding", "header")
      /\ UNCHANGED <<out, closed, call, handler, notified, posted, applied>>
  BY DEF AnswerDrained
<1>3. Expected(rd) = Boundary
  BY DEF Expected, At
<1>4. reader'["server"] = rd
  BY <1>1, <1>2, PeerFacts DEF RespondError, Rest
<1> HIDE DEF rd
<1>5. /\ closed["server"] = FALSE /\ reader["server"].at = "drain"
      /\ pipe'["server"] = pipe["server"] /\ pipe' = [x \in Peers |-> pipe'[x]]
      /\ f \in Frame /\ f.id \in Requests
  BY <1>2, <1>3, ServerBody
<1>6. PICK m, n \in Nat :
        /\ m <= Most("client") /\ n <= m /\ Made("client", m)
        /\ f.id = n /\ answers[n] = 0 /\ handler[n] = "none"
        /\ \A r \in Requests : r > n => handler[r] = "none" /\ answers[r] = 0
        /\ Stream(Sent("client", answers), buf["client"], parked["client"], out["client"],
                  pipe'["client"], rd, closed["client"], FALSE, n, m)
  BY <1>2, <1>3, ServerBody
<1>7. Stream(Sent("client", answers), buf["client"], parked["client"], out["client"],
             pipe'["client"], reader'["server"], closed["client"], FALSE, n, m)
  BY <1>4, <1>6
<1> HIDE DEF f
<1> QED
  BY <1>2, <1>5, <1>6, <1>7, ReaderAnswers

\* A request has been read: its handler runs.
LEMMA SpawnHandlerStep ==
  ASSUME IInv, SpawnHandler
  PROVE  IInv'
<1> DEFINE f == reader["server"].frame
<1>1. /\ Rest /\ WayOf("client") /\ WayOf("server") /\ ReaderInv /\ SenderInv /\ AnswerInv
      /\ OrderInv
  BY Parts
<1>2. /\ ReadsBody("server", "body")
      /\ handler' = [handler EXCEPT ![f.id] = "running"]
      /\ reader' = [reader EXCEPT !["server"] = AtBoundary]
      /\ UNCHANGED <<buf, parked, out, closed, call, answers, notified, posted, applied>>
  BY DEF SpawnHandler
<1>3. /\ closed["server"] = FALSE /\ reader["server"].at = "body"
      /\ pipe'["server"] = pipe["server"] /\ pipe' = [x \in Peers |-> pipe'[x]]
      /\ f \in Frame /\ f.id \in Requests
  BY <1>2, BoundaryFacts, ServerBody
<1>4. PICK m, n \in Nat :
        /\ m <= Most("client") /\ n <= m /\ Made("client", m)
        /\ f.id = n /\ answers[n] = 0 /\ handler[n] = "none"
        /\ \A r \in Requests : r > n => handler[r] = "none" /\ answers[r] = 0
        /\ Stream(Sent("client", answers), buf["client"], parked["client"], out["client"],
                  pipe'["client"], AtBoundary, closed["client"], FALSE, n, m)
  BY <1>2, BoundaryFacts, ServerBody
<1>5. /\ reader'["server"] = AtBoundary /\ reader'["client"] = reader["client"]
      /\ reader' \in [Peers -> [at : Readers, frame : Frame \cup {NoFrame}]]
  BY <1>1, <1>2, BoundaryFacts, PeerFacts DEF Rest
<1> HIDE DEF f
<1>6. /\ handler' \in [Requests -> {"none", "running", "caught", "parked", "done"}]
      /\ \A x \in Requests : x # n => handler'[x] = handler[x]
      /\ handler'[n] = "running"
  BY <1>1, <1>2, <1>3, <1>4 DEF Rest
<1>7. Rest'
  BY <1>1, <1>2, <1>3, <1>5, <1>6 DEF Rest
<1>8. WayOf("client")'
  <2>1. Way("client", n, m)'
    <3>1. Stream(Sent("client", answers'), buf'["client"], parked'["client"], out'["client"],
                 pipe'["client"], reader'["server"], closed'["client"], closed'["server"], n, m)
      BY <1>2, <1>3, <1>4, <1>5
    <3> QED
      BY <3>1, PeerFacts DEF Way
  <2>2. Arrived("client", n)'
    <3>1. \A r \in Requests : r > n => r # n
      BY DEF Requests
    <3>2. \A r \in Requests : r > n => handler'[r] = "none" /\ answers'[r] = 0
      BY <1>2, <1>4, <1>6, <3>1
    <3> QED
      BY <1>5, <3>2, BoundaryFacts DEF Arrived
  <2>3. Made("client", m)'
    BY <1>2, <1>4 DEF Made
  <2> QED
    BY <1>4, <2>1, <2>2, <2>3, PeerFacts, WayMake
<1>9. WayOf("server")'
  <2>1. (\A n1 : Arrived("server", n1) => Arrived("server", n1)') /\
        (\A m1 : Made("server", m1) => Made("server", m1)')
    BY <1>2, <1>5 DEF Arrived, Made
  <2> QED
    BY <1>1, <1>2, <1>3, <1>5, <2>1, PeerFacts, WayUntouched
<1>10. ReaderInv'
  BY <1>1, <1>2, <1>5, BoundaryFacts, PeerFacts DEF ReaderInv, Peers
<1>11. SenderInv'
  <2>1. \A p \in Peers : \A i \in 1 .. Len(parked[p]) : SenderOk(p, i) /\ parked[p][i].by # "reader"
    BY <1>1, <1>3 DEF SenderInv, SenderOk
  <2>2. \A x \in Requests : handler[x] # "none" => handler'[x] # "none"
    BY <1>6
  <2> QED
    BY <1>2, <2>1, <2>2 DEF SenderInv, SenderOk
<1>12. AnswerInv'
  BY <1>1, <1>2, <1>4, <1>6 DEF AnswerInv, OneAnswer
<1>13. OrderInv'
  BY <1>1, <1>2 DEF OrderInv, NotificationOrder
<1> QED
  BY <1>7, <1>8, <1>9, <1>10, <1>11, <1>12, <1>13, Whole


\* The client's reader in the body of an answer or notification.
LEMMA ClientBody ==
  ASSUME IInv, ReadsBody("client", "body")
  PROVE  LET f == reader["client"].frame IN
         /\ closed["client"] = FALSE /\ reader["client"].at = "body"
         /\ pipe'["client"] = pipe["client"] /\ pipe' = [x \in Peers |-> pipe'[x]]
         /\ f \in Sent("server", answers)
         /\ \E m, n \in Nat :
              /\ m <= Most("server") /\ n <= m /\ Arrived("server", n) /\ Made("server", m)
              /\ Stream(Sent("server", answers), buf["server"], parked["server"], out["server"],
                        pipe'["server"], AtBoundary, closed["server"], FALSE, n, m)
<1> DEFINE f == reader["client"].frame
<1>1. Rest /\ WayOf("server") /\ ReaderInv
  BY Parts
<1>2. PICK m, n \in Nat : /\ m <= Most("server") /\ n <= m
                          /\ Way("server", n, m) /\ Arrived("server", n) /\ Made("server", m)
  BY <1>1, PeerFacts, WayPick
<1>3. Way(Other("client"), n, m)
  BY <1>2, PeerFacts
<1>4. LET q == Other("client") IN
      /\ closed["client"] = FALSE /\ reader["client"].at = "body"
      /\ pipe'["client"] = pipe["client"] /\ pipe' = [x \in Peers |-> pipe'[x]]
      /\ Stream(Sent(q, answers), buf[q], parked[q], out[q], pipe'[q], AtBoundary, closed[q],
                FALSE, n, m)
  BY <1>3, PeerFacts, BoundaryFacts, BodyStream
<1>5. /\ closed["client"] = FALSE /\ reader["client"].at = "body"
      /\ pipe'["client"] = pipe["client"] /\ pipe' = [x \in Peers |-> pipe'[x]]
      /\ Stream(Sent("server", answers), buf["server"], parked["server"], out["server"],
                pipe'["server"], AtBoundary, closed["server"], FALSE, n, m)
  BY <1>4, PeerFacts
<1>6. f \in Sent("server", answers)
  BY <1>1, <1>5, PeerFacts DEF ReaderInv
<1> QED
  BY <1>2, <1>5, <1>6

\* An answer reaches its call, which has been made.
LEMMA DeliverAnswerStep ==
  ASSUME IInv, DeliverAnswer
  PROVE  IInv'
<1> DEFINE f == reader["client"].frame
<1>1. /\ Rest /\ WayOf("client") /\ WayOf("server") /\ ReaderInv /\ SenderInv /\ AnswerInv
      /\ OrderInv
  BY Parts
<1>2. /\ ReadsBody("client", "body") /\ f.type \in {"response", "error"}
      /\ call' = [call EXCEPT ![f.id] = "answered"]
      /\ reader' = [reader EXCEPT !["client"] = AtBoundary]
      /\ UNCHANGED <<buf, parked, out, closed, handler, answers, notified, posted, applied>>
  BY DEF DeliverAnswer
<1>3. /\ closed["client"] = FALSE /\ reader["client"].at = "body"
      /\ pipe'["client"] = pipe["client"] /\ pipe' = [x \in Peers |-> pipe'[x]]
      /\ f \in Sent("server", answers)
  BY <1>2, ClientBody
<1>4. PICK m, n \in Nat :
        /\ m <= Most("server") /\ n <= m /\ Arrived("server", n) /\ Made("server", m)
        /\ Stream(Sent("server", answers), buf["server"], parked["server"], out["server"],
                  pipe'["server"], AtBoundary, closed["server"], FALSE, n, m)
  BY <1>2, ClientBody
<1>5. f.id \in Requests /\ answers[f.id] # 0
  BY <1>2, <1>3 DEF Sent
<1>6. PICK mc, nc \in Nat : /\ mc <= Most("client") /\ nc <= mc /\ Way("client", nc, mc)
                            /\ Arrived("client", nc) /\ Made("client", mc)
  BY <1>1, PeerFacts, WayPick
<1>7. call[f.id] # "idle"
  <2>1. ~(f.id > nc)
    BY <1>5, <1>6 DEF Arrived
  <2>2. ~(f.id > mc)
    BY <1>5, <1>6, <2>1 DEF Requests
  <2> QED
    BY <1>5, <1>6, <2>2 DEF Made
<1>8. /\ reader'["client"] = AtBoundary /\ reader'["server"] = reader["server"]
      /\ reader' \in [Peers -> [at : Readers, frame : Frame \cup {NoFrame}]]
  BY <1>1, <1>2, BoundaryFacts, PeerFacts DEF Rest
<1>9. n = Len(applied) + Len(posted)
  BY <1>2, <1>3, <1>4 DEF Arrived
<1> HIDE DEF f
<1>10. /\ call' \in [Requests -> {"idle", "parked", "sent", "answered"}]
       /\ \A r \in Requests : call'[r] = "idle" <=> call[r] = "idle"
  BY <1>1, <1>2, <1>5, <1>7 DEF Rest
<1>11. Rest'
  BY <1>1, <1>2, <1>3, <1>8, <1>10 DEF Rest
<1>12. WayOf("server")'
  <2>1. Way("server", n, m)'
    <3>1. Stream(Sent("server", answers'), buf'["server"], parked'["server"], out'["server"],
                 pipe'["server"], reader'["client"], closed'["server"], closed'["client"], n, m)
      BY <1>2, <1>3, <1>4, <1>8
    <3> QED
      BY <3>1, PeerFacts DEF Way
  <2>2. Arrived("server", n)'
    BY <1>2, <1>8, <1>9, BoundaryFacts DEF Arrived
  <2>3. Made("server", m)'
    BY <1>2, <1>4 DEF Made
  <2> QED
    BY <1>4, <2>1, <2>2, <2>3, PeerFacts, WayMake
<1>13. WayOf("client")'
  <2>1. (\A n1 : Arrived("client", n1) => Arrived("client", n1)') /\
        (\A m1 : Made("client", m1) => Made("client", m1)')
    BY <1>2, <1>8, <1>10 DEF Arrived, Made
  <2> QED
    BY <1>1, <1>2, <1>3, <1>8, <2>1, PeerFacts, WayUntouched
<1>14. ReaderInv'
  BY <1>1, <1>2, <1>8, BoundaryFacts, PeerFacts DEF ReaderInv, Peers
<1>15. SenderInv'
  BY <1>1, <1>2, <1>8, <1>10 DEF SenderInv, SenderOk
<1>16. AnswerInv' /\ OrderInv'
  BY <1>1, <1>2 DEF AnswerInv, OrderInv, OneAnswer, NotificationOrder
<1> QED
  BY <1>11, <1>12, <1>13, <1>14, <1>15, <1>16, Whole

\* A notification is posted behind the ones before it.
LEMMA PostNotificationStep ==
  ASSUME IInv, PostNotification
  PROVE  IInv'
<1> DEFINE f == reader["client"].frame
<1>1. /\ Rest /\ WayOf("client") /\ WayOf("server") /\ ReaderInv /\ SenderInv /\ AnswerInv
      /\ OrderInv
  BY Parts
<1>2. /\ ReadsBody("client", "body") /\ f.type = "notification"
      /\ posted' = Append(posted, f.id)
      /\ reader' = [reader EXCEPT !["client"] = AtBoundary]
      /\ UNCHANGED <<buf, parked, out, closed, call, handler, answers, notified, applied>>
  BY DEF PostNotification, PostToStrand
<1>3. /\ closed["client"] = FALSE /\ reader["client"].at = "body"
      /\ pipe'["client"] = pipe["client"] /\ pipe' = [x \in Peers |-> pipe'[x]]
      /\ f \in Sent("server", answers)
  BY <1>2, ClientBody
<1>4. PICK m, n \in Nat :
        /\ m <= Most("server") /\ n <= m /\ Arrived("server", n) /\ Made("server", m)
        /\ Stream(Sent("server", answers), buf["server"], parked["server"], out["server"],
                  pipe'["server"], AtBoundary, closed["server"], FALSE, n, m)
  BY <1>2, ClientBody
<1>5. f.id \in Notes /\ f.id = n /\ n = Len(applied) + Len(posted) + 1
  BY <1>2, <1>3, <1>4 DEF Sent, Arrived
<1>6. /\ reader'["client"] = AtBoundary /\ reader'["server"] = reader["server"]
      /\ reader' \in [Peers -> [at : Readers, frame : Frame \cup {NoFrame}]]
  BY <1>1, <1>2, BoundaryFacts, PeerFacts DEF Rest
<1> HIDE DEF f
<1>7. posted \in Seq(Notes) /\ applied \in Seq(Notes)
  BY <1>1 DEF Rest
<1>8. /\ posted' \in Seq(Notes) /\ Len(posted) \in Nat /\ Len(posted') = Len(posted) + 1
      /\ \A i \in 1 .. Len(posted) : posted'[i] = posted[i]
      /\ posted'[Len(posted) + 1] = f.id
  BY <1>2, <1>5, <1>7, AppendFacts
<1>9. Len(applied) \in Nat
  BY <1>7, EmptyFacts
<1>10. Rest'
  BY <1>1, <1>2, <1>3, <1>6, <1>8 DEF Rest
<1>11. WayOf("server")'
  <2>1. Way("server", n, m)'
    <3>1. Stream(Sent("server", answers'), buf'["server"], parked'["server"], out'["server"],
                 pipe'["server"], reader'["client"], closed'["server"], closed'["client"], n, m)
      BY <1>2, <1>3, <1>4, <1>6
    <3> QED
      BY <3>1, PeerFacts DEF Way
  <2>2. Arrived("server", n)'
    <3>1. n = Len(applied) + Len(posted')
      BY <1>5, <1>8, <1>9
    <3> QED
      BY <1>2, <1>6, <3>1, BoundaryFacts DEF Arrived
  <2>3. Made("server", m)'
    BY <1>2, <1>4 DEF Made
  <2> QED
    BY <1>4, <2>1, <2>2, <2>3, PeerFacts, WayMake
<1>12. WayOf("client")'
  <2>1. (\A n1 : Arrived("client", n1) => Arrived("client", n1)') /\
        (\A m1 : Made("client", m1) => Made("client", m1)')
    BY <1>2, <1>6 DEF Arrived, Made
  <2> QED
    BY <1>1, <1>2, <1>3, <1>6, <2>1, PeerFacts, WayUntouched
<1>13. ReaderInv'
  BY <1>1, <1>2, <1>6, BoundaryFacts, PeerFacts DEF ReaderInv, Peers
<1>14. SenderInv'
  BY <1>1, <1>2, <1>6 DEF SenderInv, SenderOk
<1>15. AnswerInv'
  BY <1>1, <1>2 DEF AnswerInv, OneAnswer
<1>16. OrderInv'
  <2>1. NotificationOrder'
    BY <1>1, <1>2 DEF OrderInv, NotificationOrder
  <2>2. \A i \in 1 .. Len(posted) : posted[i] = Len(applied) + i
    BY <1>1 DEF OrderInv
  <2>3. \A i \in 1 .. Len(posted') : i \in 1 .. Len(posted) \/ i = Len(posted) + 1
    BY <1>8
  <2>4. posted'[Len(posted) + 1] = Len(applied) + (Len(posted) + 1)
    BY <1>5, <1>8, <1>9
  <2>5. \A i \in 1 .. Len(posted') : posted'[i] = Len(applied) + i
    BY <1>8, <2>2, <2>3, <2>4
  <2> QED
    BY <1>2, <2>1, <2>5 DEF OrderInv
<1> QED
  BY <1>10, <1>11, <1>12, <1>13, <1>14, <1>15, <1>16, Whole

\* notification_strand_ applies the first of the posted notifications.
LEMMA ApplyNotificationStep ==
  ASSUME IInv, ApplyNotification
  PROVE  IInv'
<1>1. /\ Rest /\ WayOf("client") /\ WayOf("server") /\ ReaderInv /\ SenderInv /\ AnswerInv
      /\ OrderInv
  BY Parts
<1>2. /\ posted # <<>> /\ applied' = Append(applied, Head(posted)) /\ posted' = Tail(posted)
      /\ UNCHANGED <<buf, parked, out, pipe, reader, closed, call, handler, answers, notified>>
  BY DEF ApplyNotification
<1>3. posted \in Seq(Notes) /\ applied \in Seq(Notes)
  BY <1>1 DEF Rest
<1>4. /\ Len(posted) \in Nat \ {0} /\ Head(posted) = posted[1] /\ posted[1] \in Notes
      /\ posted' \in Seq(Notes) /\ Len(posted') = Len(posted) - 1
      /\ \A i \in 1 .. Len(posted) - 1 : posted'[i] = posted[i + 1]
  BY <1>2, <1>3, TailFacts
<1>5. /\ applied' \in Seq(Notes) /\ Len(applied) \in Nat /\ Len(applied') = Len(applied) + 1
      /\ \A i \in 1 .. Len(applied) : applied'[i] = applied[i]
      /\ applied'[Len(applied) + 1] = posted[1]
  BY <1>2, <1>3, <1>4, AppendFacts
<1>6. Len(applied') + Len(posted') = Len(applied) + Len(posted)
  BY <1>4, <1>5
<1>7. Rest'
  BY <1>1, <1>2, <1>4, <1>5 DEF Rest
<1>8. (\A x, n : Arrived(x, n) => Arrived(x, n)') /\ (\A x, m : Made(x, m) => Made(x, m)')
  BY <1>2, <1>6 DEF Arrived, Made
<1>9. WayOf("client")' /\ WayOf("server")'
  BY <1>1, <1>2, <1>8, PeerFacts, WayUntouched
<1>10. ReaderInv' /\ SenderInv' /\ AnswerInv'
  BY <1>1, <1>2 DEF ReaderInv, SenderInv, SenderOk, AnswerInv, OneAnswer
<1>11. OrderInv'
  <2>1. /\ \A i \in 1 .. Len(applied) : applied[i] = i
        /\ \A i \in 1 .. Len(posted) : posted[i] = Len(applied) + i
    BY <1>1 DEF OrderInv, NotificationOrder
  <2>2. posted[1] = Len(applied) + 1
    <3>1. 1 \in 1 .. Len(posted)
      BY <1>4
    <3> QED
      BY <2>1, <3>1
  <2>3. \A i \in 1 .. Len(applied') : i \in 1 .. Len(applied) \/ i = Len(applied) + 1
    BY <1>5
  <2>4. \A i \in 1 .. Len(applied') : applied'[i] = i
    BY <1>5, <2>1, <2>2, <2>3
  <2>5. ASSUME NEW i \in 1 .. Len(posted') PROVE posted'[i] = Len(applied') + i
    <3>1. i \in 1 .. Len(posted) - 1 /\ i + 1 \in 1 .. Len(posted)
      BY <1>4
    <3>2. posted'[i] = Len(applied) + (i + 1)
      BY <1>4, <2>1, <3>1
    <3> QED
      BY <1>5, <3>1, <3>2
  <2> QED
    BY <2>4, <2>5 DEF OrderInv, NotificationOrder
<1> QED
  BY <1>7, <1>9, <1>10, <1>11, Whole

-----------------------------------------------------------------------------
(* The invariant holds *)

LEMMA InitIInv == Init => IInv
<1> SUFFICES ASSUME Init PROVE IInv
  OBVIOUS
<1>1. /\ \A p \in Peers : /\ buf[p] = <<>> /\ parked[p] = <<>> /\ out[p] = <<>>
                          /\ pipe[p] = <<>> /\ reader[p] = AtBoundary /\ closed[p] = FALSE
      /\ \A r \in Requests : call[r] = "idle" /\ handler[r] = "none" /\ answers[r] = 0
      /\ notified = 0 /\ posted = <<>> /\ applied = <<>>
  BY DEF Init
<1>2. Len(<<>>) = 0 /\ 1 .. 0 = {} /\ \A S : <<>> \in Seq(S)
  OBVIOUS
<1>3. Rest
  <2>1. 0 \in 0 .. MaxNotes
    BY ConnectionAssumption
  <2> QED
    BY <1>1, <1>2, <2>1, BoundaryFacts DEF Rest, Init
<1>4. ASSUME NEW p \in Peers PROVE WayOf(p)
  <2>1. Held(Sent(p, answers), <<>>, <<>>, <<>>, <<>>)
    <3>1. 0 <= WriteCap /\ 0 <= PipeCap /\ 0 <= 2
      BY ConnectionAssumption
    <3> QED
      BY <1>2, <3>1 DEF Held
  <2>2. Framed(<<>>, <<>>, AtBoundary, FALSE, FALSE)
    <3>1. 1 .. Len(<<>>) - 1 = {}
      OBVIOUS
    <3> QED
      BY <3>1, BoundaryFacts DEF Framed, Unwritten, Continues
  <2>3. Flows(<<>>, <<>>, <<>>, <<>>, FALSE, FALSE, 0, 0)
    <3>1. \A t : Stretch(t, 0, 0, 0)
      BY StretchEmpty
    <3>2. 0 \in 0 .. 0
      OBVIOUS
    <3> QED
      BY <1>2, <3>1, <3>2 DEF Flows
  <2>4. Way(p, 0, 0)
    BY <1>1, <2>1, <2>2, <2>3, PeerFacts DEF Way, Stream
  <2>5. Arrived(p, 0)
    BY <1>1, <1>2, BoundaryFacts, PeerFacts DEF Arrived
  <2>6. Made(p, 0)
    <3>1. \A r \in Requests : r > 0
      BY DEF Requests
    <3> QED
      BY <1>1, <3>1 DEF Made
  <2>7. 0 \in 0 .. Most(p) /\ 0 \in 0 .. 0
    BY MostFacts
  <2> QED
    BY <2>4, <2>5, <2>6, <2>7 DEF WayOf
<1>5. ReaderInv /\ SenderInv
  BY <1>1, <1>2, BoundaryFacts DEF ReaderInv, SenderInv
<1>6. AnswerInv /\ OrderInv
  BY <1>1, <1>2 DEF AnswerInv, OneAnswer, OrderInv, NotificationOrder
<1> QED
  BY <1>3, <1>4, <1>5, <1>6 DEF IInv, WayInv

LEMMA NextIInv == IInv /\ [Next]_vars => IInv'
<1> SUFFICES ASSUME IInv, [Next]_vars PROVE IInv'
  OBVIOUS
<1>1. ASSUME NEW p \in Peers, WriterNext(p) PROVE IInv'
  BY <1>1, WriterTakesStep, WriteChunkStep DEF WriterNext
<1>2. ASSUME NEW p \in Peers, ReadPing(p) \/ ReadPong(p) PROVE IInv'
  BY <1>2, ReadPingStep, ReadPongStep
<1>3. ASSUME NEW p \in Peers, ReadFails(p) \/ Disconnect(p) PROVE IInv'
  BY <1>3, CloseStep DEF ReadFails, Disconnect
<1>4. ASSUME ServerReads PROVE IInv'
  <2>1. ASSUME CloseRejected PROVE IInv'
    BY <2>1, PeerFacts, CloseStep DEF CloseRejected
  <2> QED
    BY <1>4, <2>1, RejectOversizedStep, ReadRequestStep, SpawnHandlerStep, AnswerDrainedStep
       DEF ServerReads
<1>5. ASSUME ClientReads PROVE IInv'
  BY <1>5, ReadAnswerOrNotificationStep, DeliverAnswerStep, PostNotificationStep DEF ClientReads
<1>6. ASSUME NEW r \in Requests, Call(r) \/ HandlerNext(r) PROVE IInv'
  BY <1>6, CallStep, HandlerStep
<1>7. ASSUME UNCHANGED vars PROVE IInv'
  <2>1. /\ Rest /\ WayOf("client") /\ WayOf("server") /\ ReaderInv /\ SenderInv /\ AnswerInv
        /\ OrderInv
    BY Parts
  <2>2. UNCHANGED <<buf, parked, out, pipe, reader, closed, call, handler, answers, notified,
                    posted, applied>>
    BY <1>7 DEF vars
  <2>3. (\A x, n : Arrived(x, n) => Arrived(x, n)') /\ (\A x, m : Made(x, m) => Made(x, m)')
    BY <2>2 DEF Arrived, Made
  <2>4. WayOf("client")' /\ WayOf("server")'
    BY <2>1, <2>2, <2>3, PeerFacts, WayUntouched
  <2>5. Rest' /\ ReaderInv' /\ SenderInv' /\ AnswerInv' /\ OrderInv'
    BY <2>1, <2>2 DEF Rest, ReaderInv, SenderInv, SenderOk, AnswerInv, OrderInv, OneAnswer,
       NotificationOrder
  <2> QED
    BY <2>4, <2>5, Whole
<1> QED
  BY <1>1, <1>2, <1>3, <1>4, <1>5, <1>6, <1>7, ApplyNotificationStep, TryPingStep, TryNotifyStep
     DEF Next

LEMMA Invariance == Spec => []IInv
  BY InitIInv, NextIInv, PTL DEF Spec

-----------------------------------------------------------------------------
(* What it implies *)

\* Every variable stays in its type, and channels and network within capacity.
THEOREM ConnectionTypes == Spec => []TypeOK
<1>1. IInv => TypeOK
  <2> SUFFICES ASSUME IInv PROVE TypeOK
    OBVIOUS
  <2>1. Rest /\ \A p \in Peers : WayOf(p)
    BY Parts
  <2>2. \A p \in Peers : /\ buf[p] \in Seq(Frame) /\ Len(buf[p]) <= WriteCap
                         /\ parked[p] \in Seq(Sender)
                         /\ out[p] \in Seq(Chunk) /\ Len(out[p]) <= 2
                         /\ pipe[p] \in Seq(Chunk) /\ Len(pipe[p]) <= PipeCap
    BY <2>1, WayTypes
  <2>3. /\ buf \in [Peers -> Seq(Frame)] /\ parked \in [Peers -> Seq(Sender)]
        /\ out \in [Peers -> Seq(Chunk)] /\ pipe \in [Peers -> Seq(Chunk)]
    BY <2>1, <2>2 DEF Rest
  <2> QED
    BY <2>1, <2>2, <2>3 DEF Rest, TypeOK
<1> QED
  BY <1>1, Invariance, PTL

\* The stream keeps its framing for any traffic: a reader that expects a header
\* finds one, and one that expects the body of a frame finds that body, on every
\* path through dispatch_request and the handlers of the client.
THEOREM FramingIsKept == Spec => []FramingSync
<1>1. IInv => FramingSync
  <2> SUFFICES ASSUME IInv, NEW p \in Peers, ~closed[p], Incoming(p) # <<>>
               PROVE  LET next == Head(Incoming(p)) IN
                      /\ reader[p].at = "header" => next.part = "header"
                      /\ reader[p].at \in {"body", "drain"} /\ reader[p].frame.size # "empty" =>
                           next = Body(reader[p].frame)
    BY DEF FramingSync
  <2> DEFINE q == Other(p)
             f == reader[p].frame
  <2>1. Rest /\ WayOf(q) /\ q \in Peers /\ Other(q) = p
    BY Parts, PeerFacts
  <2>2. closed[p] = FALSE
    BY <2>1 DEF Rest
  <2>3. reader[p].at = "header" => Head(Incoming(p)).part = "header"
    BY <2>2, HeaderFacts
  <2>4. ASSUME reader[p].at \in {"body", "drain"}, f.size # "empty"
        PROVE  Head(Incoming(p)) = Body(f)
    <3>1. PICK m, n \in Nat : Way(q, n, m)
      BY <2>1, WayPick
    <3>2. pipe[q] \in Seq(Chunk) /\ pipe[q] # <<>>
      BY <2>1, WayTypes DEF Incoming
    <3>3. Head(Incoming(p)) = pipe[q][1]
      BY <3>2, TailFacts DEF Incoming
    <3>4. Framed(out[q], pipe[q], reader[p], closed[q], FALSE)
      BY <2>1, <2>2, <3>1 DEF Way, Stream
    <3>5. Listens(reader[p], FALSE) /\ Expected(reader[p]) = Body(f)
      BY <2>4 DEF Listens, Expected
    <3>6. Body(f) # Boundary
      <4>1. Body(f).part = "body" /\ Boundary.part = "header"
        BY DEF Body, Boundary, Header
      <4> QED
        BY <4>1
    <3>7. Fits(Body(f), pipe[q][1])
      BY <3>2, <3>4, <3>5 DEF Framed
    <3> QED
      BY <3>3, <3>6, <3>7 DEF Fits
  <2> QED
    BY <2>3, <2>4
<1> QED
  BY <1>1, Invariance, PTL

\* A request is answered at most once, for any number of requests: a rejected or
\* drained request never gets a handler, and a handler answers once.
THEOREM AnsweredOnce == Spec => []OneAnswer
<1>1. IInv => OneAnswer
  BY DEF IInv, AnswerInv
<1> QED
  BY <1>1, Invariance, PTL

\* However notifications, answers and closes interleave, the client applies the
\* notifications in the order they were queued and without gaps.
THEOREM NotificationsInOrder == Spec => []NotificationOrder
<1>1. IInv => NotificationOrder
  BY DEF IInv, OrderInv
<1> QED
  BY <1>1, Invariance, PTL

=============================================================================
