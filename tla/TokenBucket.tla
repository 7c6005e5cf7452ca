---------------------------- MODULE TokenBucket ----------------------------
(***************************************************************************)
(* One token bucket and the calls that spend from it: what the limit of a  *)
(* queue means.  A call acquires its estimate, and when it returns the     *)
(* estimate is reconciled with what it used.                               *)
(*                                                                         *)
(* elapsed and granted observe a window of time that may begin at any      *)
(* moment: what was granted in it, less what was given back.               *)
(***************************************************************************)
EXTENDS Buckets

CONSTANTS
  Capacity,   \* tokens of a full bucket
  Rate,       \* tokens per tick
  Calls,      \* calls that may be under way
  Amounts,    \* what a call may ask for
  Usage,      \* what a call may turn out to have used
  MaxLag,     \* bound: ticks without a refill
  MaxElapsed, \* bound: ticks of a window
  None        \* the estimate of a call that is not under way

ASSUME BucketConstants ==
  /\ Capacity \in Nat /\ Rate \in Nat \ {0}
  /\ Amounts \subseteq Nat /\ Usage \subseteq Nat
  /\ MaxLag \in Nat /\ MaxElapsed \in Nat
  /\ None \notin Amounts

VARIABLES
  bucket,     \* the bucket
  estimate,   \* estimate of the calls under way
  elapsed,    \* ticks since the window began
  granted     \* granted since then, less refunds

vars == <<bucket, estimate, elapsed, granted>>

TypeOK ==
  /\ bucket \in [tokens : Int, lag : Nat] /\ bucket.tokens <= Capacity
  /\ estimate \in [Calls -> Amounts \cup {None}]
  /\ elapsed \in Nat
  /\ granted \in Int

Init ==
  /\ bucket = Full(Capacity)
  /\ estimate = [c \in Calls |-> None]
  /\ elapsed = 0
  /\ granted = 0

Acquire(c, amount) ==
  /\ estimate[c] = None
  /\ Has(bucket, amount, Capacity, Rate)
  /\ bucket' = Spent(bucket, amount, Capacity, Rate)
  /\ estimate' = [estimate EXCEPT ![c] = amount]
  /\ granted' = granted + amount
  /\ UNCHANGED elapsed

\* try_acquire in vain, and time_until_available: the bucket is refilled.
Look ==
  /\ bucket' = Refilled(bucket, Capacity, Rate)
  /\ UNCHANGED <<estimate, elapsed, granted>>

Reconcile(c, actual) ==
  /\ estimate[c] # None
  /\ bucket' = Reconciled(bucket, estimate[c], actual, Capacity)
  /\ estimate' = [estimate EXCEPT ![c] = None]
  /\ granted' = IF actual < estimate[c] THEN granted - (estimate[c] - actual) ELSE granted
  /\ UNCHANGED elapsed

Tick ==
  /\ bucket.lag < MaxLag /\ elapsed < MaxElapsed
  /\ bucket' = [bucket EXCEPT !.lag = @ + 1]
  /\ elapsed' = elapsed + 1
  /\ UNCHANGED <<estimate, granted>>

\* The observer starts another window.
StartWindow ==
  /\ elapsed' = 0
  /\ granted' = 0
  /\ UNCHANGED <<bucket, estimate>>

Next ==
  \/ \E c \in Calls :
       (\E a \in Amounts : Acquire(c, a)) \/ (\E u \in Usage : Reconcile(c, u))
  \/ Look \/ Tick \/ StartWindow

Spec == Init /\ [][Next]_vars

-----------------------------------------------------------------------------

\* Whatever calls were refused, under- and overestimated before it and in it, no
\* window sees more granted than a full bucket and what its time brings.
WindowLimit ==
  \A a \in Amounts :
    Has(bucket, a, Capacity, Rate) => granted + a <= Capacity + Rate * elapsed

\* The bucket after w more ticks in which nobody asks it.
After(w) == [bucket EXCEPT !.lag = @ + w]

\* The time _try_assign puts on the heap for a refused task is right: after it the
\* task's estimate is there, before it it is not, unless no bucket holds as much.
WaitExact ==
  \A a \in Amounts :
    LET w == TimeUntilAvailable(bucket, a, Capacity, Rate)
    IN  /\ a <= Capacity => Has(After(w), a, Capacity, Rate)
        /\ \A v \in 0..(w - 1) : ~Has(After(v), a, Capacity, Rate)
        /\ w = 0 => a <= Capacity

=============================================================================
