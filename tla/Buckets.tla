------------------------------ MODULE Buckets ------------------------------
(***************************************************************************)
(* The arithmetic of TokenBucket in src/edsl/runner/queues.py.  A bucket   *)
(* is its tokens and the time since it was last refilled: it is refilled   *)
(* when somebody asks it, not as time passes.  Time is counted in ticks,   *)
(* rate is the tokens a tick brings.                                       *)
(*                                                                         *)
(* A definition introduced as a mutated form of the one that follows it is *)
(* used by no action: it is there to show that the properties notice it.   *)
(***************************************************************************)
EXTENDS Integers

Lesser(x, y) == IF x <= y THEN x ELSE y

Full(capacity) == [tokens |-> capacity, lag |-> 0]

\* Mutated form: last_refill is not moved.
RefilledAgain(b, capacity, rate) ==
  [tokens |-> Lesser(capacity, b.tokens + b.lag * rate), lag |-> b.lag]

Refilled(b, capacity, rate) ==
  [tokens |-> Lesser(capacity, b.tokens + b.lag * rate), lag |-> 0]

Has(b, amount, capacity, rate) == Refilled(b, capacity, rate).tokens >= amount

\* try_acquire, when it succeeds.
Spent(b, amount, capacity, rate) ==
  [Refilled(b, capacity, rate) EXCEPT !.tokens = @ - amount]

\* Mutated form: the division rounds down.
WaitRoundedDown(b, amount, capacity, rate) ==
  IF Has(b, amount, capacity, rate) THEN 0
  ELSE (amount - Refilled(b, capacity, rate).tokens) \div rate

\* Ticks until the amount is there; a tick that brings the last token counts.
TimeUntilAvailable(b, amount, capacity, rate) ==
  IF Has(b, amount, capacity, rate) THEN 0
  ELSE (amount - Refilled(b, capacity, rate).tokens + rate - 1) \div rate

\* The estimate is replaced by what was used; below zero if it was exceeded.
Reconciled(b, estimated, actual, capacity) ==
  [b EXCEPT !.tokens = Lesser(capacity, @ + estimated - actual)]

=============================================================================
