---------------------------- MODULE TokenBucket -----------------------------
(***************************************************************************)
(* token_bucket of security.hpp as operators on a record.  Tokens are real *)
(* numbers in the code; here they are counted in units, a request costs    *)
(* Cost of them and refill_per_sec of them come back per tick of the       *)
(* steady clock.  A Cost above refill_per_sec gives the fractional rates.  *)
(* Time starts at 1: a last_refill of 0 is the default-constructed time    *)
(* point.                                                                  *)
(***************************************************************************)
EXTENDS Integers

CONSTANT Cost   \* units a request takes

ASSUME BucketAssumption == Cost \in Nat \ {0}

Least(a, b) == IF a <= b THEN a ELSE b

Fresh(capacity, refill) ==
  [capacity |-> capacity, refill_per_sec |-> refill, tokens |-> 0, last_refill |-> 0]

Earned(b, now) == (now - b.last_refill) * b.refill_per_sec

\* Mutant: tokens keep accumulating while nobody calls.
RefillUncapped(b, now) ==
  IF b.last_refill = 0 THEN b.capacity ELSE b.tokens + Earned(b, now)
\* Mutant: an empty bucket stays empty.
RefillUnlessEmpty(b, now) ==
  IF b.last_refill = 0 THEN b.capacity
  ELSE IF b.tokens < Cost THEN b.tokens
  ELSE Least(b.capacity, b.tokens + Earned(b, now))
Refilled(b, now) ==
  IF b.last_refill = 0 THEN b.capacity
  ELSE Least(b.capacity, b.tokens + Earned(b, now))

\* Whether the caller may proceed: a capacity of 0 means no limit.
Proceeds(b, now) == b.capacity <= 0 \/ Refilled(b, now) >= Cost

\* The bucket try_take leaves behind, refilled also when it refuses.
try_take(b, now) ==
  [b EXCEPT !.last_refill = now,
            !.tokens = IF b.capacity > 0 /\ Refilled(b, now) >= Cost
                       THEN Refilled(b, now) - Cost ELSE Refilled(b, now)]

=============================================================================
