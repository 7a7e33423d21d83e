------------------------- MODULE TokenBucketProofs --------------------------
(* What token_bucket::try_take does to a bucket, for any capacity and rate. *)
EXTENDS TokenBucket, TLAPS

\* A bucket that has been touched no later than now and does not overflow.
Bucket == [capacity : Nat, refill_per_sec : Nat, tokens : Nat, last_refill : Nat]
Sound(b, now) == b \in Bucket /\ b.tokens <= b.capacity /\ b.last_refill <= now

\* The refill is between nothing and the capacity, is the capacity on the first
\* call, and gives no more than the rate allows for the time since the last one.
LEMMA RefilledBounds ==
  ASSUME NEW now \in Nat, NEW b, Sound(b, now)
  PROVE  /\ Refilled(b, now) \in Nat
         /\ Refilled(b, now) <= b.capacity
         /\ b.last_refill # 0 =>
              Refilled(b, now) <= b.tokens + b.refill_per_sec * (now - b.last_refill)
         /\ b.last_refill = 0 => Refilled(b, now) = b.capacity
<1>1. /\ b.capacity \in Nat /\ b.refill_per_sec \in Nat
      /\ b.tokens \in Nat /\ b.last_refill \in Nat
      /\ now - b.last_refill \in Nat
  BY DEF Sound, Bucket
<1>2. /\ Earned(b, now) \in Nat
      /\ Earned(b, now) = b.refill_per_sec * (now - b.last_refill)
  BY <1>1 DEF Earned
<1> QED
  BY <1>1, <1>2 DEF Refilled, Least

\* try_take leaves a sound bucket with the same limits, touched now; it takes
\* the cost exactly when the caller may proceed under a limit.
LEMMA TryTakeFacts ==
  ASSUME NEW now \in Nat, NEW b, Sound(b, now), BucketAssumption
  PROVE  /\ Sound(try_take(b, now), now)
         /\ try_take(b, now).capacity = b.capacity
         /\ try_take(b, now).refill_per_sec = b.refill_per_sec
         /\ try_take(b, now).last_refill = now
         /\ b.capacity > 0 /\ Proceeds(b, now) =>
              try_take(b, now).tokens = Refilled(b, now) - Cost
         /\ ~Proceeds(b, now) => try_take(b, now).tokens = Refilled(b, now)
<1>1. b \in Bucket /\ b.capacity \in Nat
  BY DEF Sound, Bucket
<1>2. Refilled(b, now) \in Nat /\ Refilled(b, now) <= b.capacity
  BY RefilledBounds
<1> DEFINE left == IF b.capacity > 0 /\ Refilled(b, now) >= Cost
                   THEN Refilled(b, now) - Cost ELSE Refilled(b, now)
<1>3. left \in Nat /\ left <= b.capacity
  BY <1>1, <1>2, BucketAssumption
<1>4. /\ b.capacity > 0 /\ Proceeds(b, now) => left = Refilled(b, now) - Cost
      /\ ~Proceeds(b, now) => left = Refilled(b, now)
  BY <1>1, <1>2, BucketAssumption DEF Proceeds
<1>5. try_take(b, now) = [b EXCEPT !.last_refill = now, !.tokens = left]
  BY DEF try_take
<1> HIDE DEF left
<1>6. try_take(b, now) = [capacity |-> b.capacity, refill_per_sec |-> b.refill_per_sec,
                          tokens |-> left, last_refill |-> now]
  BY <1>1, <1>5 DEF Bucket
<1> QED
  BY <1>1, <1>3, <1>4, <1>6 DEF Sound, Bucket

\* A caller that comes long enough after the last one, or for the first time, may
\* proceed if the capacity has room for one request; without a limit all may.
LEMMA BackOff ==
  ASSUME NEW now \in Nat, NEW b, Sound(b, now), BucketAssumption,
         \/ b.capacity = 0
         \/ /\ b.capacity >= Cost
            /\ (now - b.last_refill) * b.refill_per_sec >= Cost
  PROVE  Proceeds(b, now)
<1>1. /\ b.capacity \in Nat /\ b.refill_per_sec \in Nat
      /\ b.tokens \in Nat /\ b.last_refill \in Nat
  BY DEF Sound, Bucket
<1>2. CASE b.capacity = 0
  BY <1>2 DEF Proceeds
<1>3. CASE b.capacity >= Cost /\ (now - b.last_refill) * b.refill_per_sec >= Cost
  <2>1. Earned(b, now) \in Int /\ Earned(b, now) >= Cost
    BY <1>1, <1>3 DEF Earned
  <2>2. Refilled(b, now) >= Cost
    BY <1>1, <1>3, <2>1, BucketAssumption DEF Refilled, Least
  <2> QED
    BY <2>2 DEF Proceeds
<1> QED
  BY <1>2, <1>3

\* The budget of an interval: a bucket that had d more tokens to give than it
\* holds still has no more than the rate adds to d when it is touched again.
LEMMA BudgetStep ==
  ASSUME NEW now \in Nat, NEW b, Sound(b, now), BucketAssumption,
         b.capacity > 0, b.last_refill # 0,
         NEW n \in Nat, NEW t \in Nat,
         n * Cost + b.tokens <= b.capacity + b.refill_per_sec * (b.last_refill - t)
  PROVE  /\ n * Cost + Refilled(b, now) <= b.capacity + b.refill_per_sec * (now - t)
         /\ Proceeds(b, now) =>
              (n + 1) * Cost + try_take(b, now).tokens
                <= b.capacity + b.refill_per_sec * (now - t)
<1>1. /\ b.capacity \in Nat /\ b.refill_per_sec \in Nat
      /\ b.tokens \in Nat /\ b.last_refill \in Nat
  BY DEF Sound, Bucket
<1>2. /\ Refilled(b, now) \in Nat
      /\ Refilled(b, now) <= b.tokens + b.refill_per_sec * (now - b.last_refill)
  BY RefilledBounds
<1> DEFINE since == b.refill_per_sec * (now - t)
           before == b.refill_per_sec * (b.last_refill - t)
           earned == b.refill_per_sec * (now - b.last_refill)
           taken == n * Cost
<1>3. /\ since \in Int /\ before \in Int /\ earned \in Int /\ taken \in Int
      /\ since = before + earned
      /\ (n + 1) * Cost = taken + Cost
  BY <1>1, BucketAssumption
<1>4. taken + b.tokens <= b.capacity + before /\ Refilled(b, now) <= b.tokens + earned
  BY <1>2
<1> HIDE DEF since, before, earned, taken
<1>5. taken + Refilled(b, now) <= b.capacity + since
  BY <1>1, <1>2, <1>3, <1>4
<1>6. ASSUME Proceeds(b, now)
      PROVE  (n + 1) * Cost + try_take(b, now).tokens = taken + Refilled(b, now)
  <2>1. try_take(b, now).tokens = Refilled(b, now) - Cost
    BY <1>1, <1>6, TryTakeFacts
  <2> QED
    BY <1>2, <1>3, <2>1, BucketAssumption
<1>7. /\ taken + Refilled(b, now) <= b.capacity + since
      /\ Proceeds(b, now) =>
           (n + 1) * Cost + try_take(b, now).tokens <= b.capacity + since
  BY <1>5, <1>6
<1> QED
  BY <1>7 DEF since, taken

=============================================================================
