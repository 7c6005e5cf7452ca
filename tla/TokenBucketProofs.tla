------------------------- MODULE TokenBucketProofs -------------------------
(***************************************************************************)
(* Proofs about TokenBucket for every capacity, rate and set of calls.     *)
(*                                                                         *)
(* WindowLimit is not inductive: it says what may be granted now, and a    *)
(* refusal or a refund changes the bucket without granting anything.  What *)
(* every step keeps is the sum of what was granted in the window and what  *)
(* the bucket would hold if it were refilled now.                          *)
(***************************************************************************)
EXTENDS TokenBucket, TLAPS

Available == Refilled(bucket, Capacity, Rate).tokens

Budget == Available + granted <= Capacity + Rate * elapsed

IInv == TypeOK /\ Budget

-----------------------------------------------------------------------------
(***************************************************************************)
(* Arithmetic.                                                             *)
(***************************************************************************)

\* One more tick brings Rate more tokens.
LEMMA OneMore ==
  ASSUME NEW r \in Int, NEW x \in Int
  PROVE  r * (x + 1) = r * x + r /\ (x + 1) * r = x * r + r /\ r * x \in Int /\ x * r \in Int
OBVIOUS

\* Division rounds down.
LEMMA DivBounds ==
  ASSUME NEW n \in Int, NEW r \in Nat \ {0}
  PROVE  n \div r \in Int /\ (n \div r) * r <= n /\ n < (n \div r) * r + r
OBVIOUS

\* More ticks bring no fewer tokens.
LEMMA MoreTicks ==
  ASSUME NEW r \in Nat, NEW v \in Int, NEW w \in Int, v <= w
  PROVE  v * r <= w * r /\ v * r \in Int /\ w * r \in Int
OBVIOUS

LEMMA Distribute ==
  ASSUME NEW r \in Int, NEW x \in Int, NEW y \in Int
  PROVE  (x + y) * r = x * r + y * r
OBVIOUS

\* What a refill makes of a bucket.
LEMMA RefilledIs ==
  ASSUME NEW b \in [tokens : Int, lag : Nat]
  PROVE  /\ Refilled(b, Capacity, Rate) \in [tokens : Int, lag : Nat]
         /\ b.lag * Rate \in Int
         /\ Refilled(b, Capacity, Rate).tokens = Lesser(Capacity, b.tokens + b.lag * Rate)
         /\ Refilled(b, Capacity, Rate).lag = 0
         /\ Refilled(b, Capacity, Rate).tokens <= Capacity
<1>1. b.lag * Rate \in Int
  BY MoreTicks, BucketConstants
<1> QED
  BY <1>1, BucketConstants DEF Refilled, Lesser

\* Refilling a bucket that was just refilled does nothing.
LEMMA RefilledOnce ==
  ASSUME NEW b \in [tokens : Int, lag : Nat], b.lag = 0, b.tokens <= Capacity
  PROVE  Refilled(b, Capacity, Rate).tokens = b.tokens
<1>1. 0 * Rate = 0
  BY BucketConstants
<1> QED
  BY <1>1, BucketConstants DEF Refilled, Lesser

-----------------------------------------------------------------------------
(***************************************************************************)
(* The invariant.                                                          *)
(***************************************************************************)

LEMMA InitIInv == Init => IInv
<1> SUFFICES ASSUME Init PROVE IInv
  OBVIOUS
<1>1. TypeOK
  BY BucketConstants DEF Init, TypeOK, Full
<1>2. Available = Capacity
  BY <1>1, RefilledOnce DEF Init, Full, Available, TypeOK
<1>3. Rate * 0 = 0
  BY BucketConstants
<1> QED
  BY <1>1, <1>2, <1>3, BucketConstants DEF Init, IInv, Budget

LEMMA AcquireKeeps ==
  ASSUME IInv, NEW c \in Calls, NEW a \in Amounts, Acquire(c, a)
  PROVE  IInv'
<1>1. a \in Nat /\ Available \in Int /\ Available <= Capacity
  BY RefilledIs, BucketConstants DEF IInv, TypeOK, Available
<1>2. bucket' = [Refilled(bucket, Capacity, Rate) EXCEPT !.tokens = @ - a]
  BY DEF Acquire, Spent
<1>3. /\ bucket' \in [tokens : Int, lag : Nat]
      /\ bucket'.tokens = Available - a
      /\ bucket'.lag = 0
  BY <1>1, <1>2, RefilledIs DEF IInv, TypeOK, Available
<1>4. TypeOK'
  BY <1>1, <1>3, BucketConstants DEF Acquire, IInv, TypeOK
<1>5. Available' = Available - a
  BY <1>1, <1>3, <1>4, RefilledOnce, BucketConstants DEF Available, TypeOK
<1>6. Rate * elapsed \in Int
  BY OneMore, BucketConstants DEF IInv, TypeOK
<1>7. Budget'
  BY <1>1, <1>5, <1>6, BucketConstants DEF Acquire, IInv, TypeOK, Budget
<1> QED
  BY <1>4, <1>7 DEF IInv

LEMMA LookKeeps ==
  ASSUME IInv, Look
  PROVE  IInv'
<1>1. TypeOK'
  BY RefilledIs DEF Look, IInv, TypeOK
<1>2. Available' = Available
  BY <1>1, RefilledIs, RefilledOnce DEF Look, IInv, TypeOK, Available
<1> QED
  BY <1>1, <1>2 DEF Look, IInv, Budget

LEMMA ReconcileKeeps ==
  ASSUME IInv, NEW c \in Calls, NEW u \in Usage, Reconcile(c, u)
  PROVE  IInv'
<1> DEFINE d == estimate[c] - u
<1>0. estimate[c] \in Amounts \cup {None} /\ estimate[c] # None
  BY DEF Reconcile, IInv, TypeOK
<1>1. estimate[c] \in Nat /\ u \in Nat /\ d \in Int
  <2>1. estimate[c] \in Amounts
    BY <1>0
  <2>2. estimate[c] \in Nat /\ u \in Nat
    BY <2>1, BucketConstants
  <2> QED
    BY <2>2
<1>2. /\ bucket' \in [tokens : Int, lag : Nat]
      /\ bucket'.tokens = Lesser(Capacity, bucket.tokens + d)
      /\ bucket'.lag = bucket.lag
  BY <1>1, BucketConstants DEF Reconcile, Reconciled, Lesser, IInv, TypeOK
<1>3. TypeOK'
  BY <1>1, <1>2, BucketConstants DEF Reconcile, IInv, TypeOK, Lesser
<1>4. bucket.lag * Rate \in Nat
  BY BucketConstants DEF IInv, TypeOK
<1>5. /\ Available = Lesser(Capacity, bucket.tokens + bucket.lag * Rate)
      /\ Available' = Lesser(Capacity, bucket'.tokens + bucket.lag * Rate)
  BY <1>2, RefilledIs DEF IInv, TypeOK, Available
<1>6. Rate * elapsed \in Int
  BY OneMore, BucketConstants DEF IInv, TypeOK
<1>7. CASE u < estimate[c]
  <2>1. Available' <= Available + d
    BY <1>1, <1>2, <1>4, <1>5, <1>7, BucketConstants DEF Lesser, IInv, TypeOK
  <2>2. granted' = granted - d /\ elapsed' = elapsed
    BY <1>7 DEF Reconcile
  <2> QED
    BY <1>1, <1>3, <1>4, <1>5, <1>6, <2>1, <2>2, BucketConstants
       DEF IInv, TypeOK, Budget, Lesser
<1>8. CASE ~(u < estimate[c])
  <2>1. Available' <= Available
    BY <1>1, <1>2, <1>4, <1>5, <1>8, BucketConstants DEF Lesser, IInv, TypeOK
  <2>2. granted' = granted /\ elapsed' = elapsed
    BY <1>8 DEF Reconcile
  <2> QED
    BY <1>3, <1>4, <1>5, <1>6, <2>1, <2>2, BucketConstants DEF IInv, TypeOK, Budget, Lesser
<1> QED
  BY <1>7, <1>8

LEMMA TickKeeps ==
  ASSUME IInv, Tick
  PROVE  IInv'
<1>1. /\ bucket' \in [tokens : Int, lag : Nat]
      /\ bucket'.tokens = bucket.tokens
      /\ bucket'.lag = bucket.lag + 1
  BY DEF Tick, IInv, TypeOK
<1>2. TypeOK'
  BY <1>1 DEF Tick, IInv, TypeOK
<1>3. bucket'.lag * Rate = bucket.lag * Rate + Rate /\ bucket.lag * Rate \in Int
  BY <1>1, OneMore, BucketConstants DEF IInv, TypeOK
<1>4. Rate * elapsed' = Rate * elapsed + Rate /\ Rate * elapsed \in Int
  BY OneMore, BucketConstants DEF Tick, IInv, TypeOK
<1>5. /\ Available = Lesser(Capacity, bucket.tokens + bucket.lag * Rate)
      /\ Available' = Lesser(Capacity, bucket.tokens + bucket'.lag * Rate)
  BY <1>1, RefilledIs DEF IInv, TypeOK, Available
<1>6. Budget'
  BY <1>1, <1>3, <1>4, <1>5, BucketConstants DEF Tick, IInv, TypeOK, Budget, Lesser
<1> QED
  BY <1>2, <1>6 DEF IInv

LEMMA WindowKeeps ==
  ASSUME IInv, StartWindow
  PROVE  IInv'
<1>1. TypeOK'
  BY DEF StartWindow, IInv, TypeOK
<1>2. Available' = Available /\ Available \in Int /\ Available <= Capacity
  BY RefilledIs DEF StartWindow, IInv, TypeOK, Available
<1>3. Rate * 0 = 0
  BY BucketConstants
<1> QED
  BY <1>1, <1>2, <1>3, BucketConstants DEF StartWindow, IInv, Budget

LEMMA NextIInv == IInv /\ [Next]_vars => IInv'
<1> SUFFICES ASSUME IInv, [Next]_vars PROVE IInv'
  OBVIOUS
<1>1. CASE UNCHANGED vars
  BY <1>1 DEF vars, IInv, TypeOK, Budget, Available
<1> QED
  BY <1>1, AcquireKeeps, LookKeeps, ReconcileKeeps, TickKeeps, WindowKeeps DEF Next

-----------------------------------------------------------------------------

THEOREM Invariant == Spec => []IInv
BY InitIInv, NextIInv, PTL DEF Spec

\* No bucket is ever fuller than full, however calls are reconciled.
THEOREM TypeCorrect == Spec => []TypeOK
BY Invariant, PTL DEF IInv

\* In no window is more granted than a full bucket and what the window brings.
THEOREM LimitKept == Spec => []WindowLimit
<1>1. IInv => WindowLimit
  <2> SUFFICES ASSUME IInv, NEW a \in Amounts, Has(bucket, a, Capacity, Rate)
               PROVE  granted + a <= Capacity + Rate * elapsed
    BY DEF WindowLimit
  <2>1. Available \in Int /\ a \in Nat /\ a <= Available
    BY RefilledIs, BucketConstants DEF IInv, TypeOK, Available, Has
  <2>2. Rate * elapsed \in Int
    BY OneMore, BucketConstants DEF IInv, TypeOK
  <2> QED
    BY <2>1, <2>2, BucketConstants DEF IInv, TypeOK, Budget
<1> QED
  BY <1>1, Invariant, PTL

\* The wait computed for a refused call is neither too short nor too long.
THEOREM WaitCorrect == Spec => []WaitExact
<1>1. TypeOK => WaitExact
  <2> SUFFICES ASSUME TypeOK, NEW a \in Amounts
               PROVE  LET w == TimeUntilAvailable(bucket, a, Capacity, Rate)
                      IN  /\ a <= Capacity => Has(After(w), a, Capacity, Rate)
                          /\ \A v \in 0..(w - 1) : ~Has(After(v), a, Capacity, Rate)
                          /\ w = 0 => a <= Capacity
    BY DEF WaitExact
  <2> DEFINE w == TimeUntilAvailable(bucket, a, Capacity, Rate)
             n == a - Available + Rate - 1
  <2>1. /\ a \in Nat /\ bucket.lag * Rate \in Int
        /\ Available = Lesser(Capacity, bucket.tokens + bucket.lag * Rate)
        /\ Available \in Int /\ Available <= Capacity
    BY RefilledIs, BucketConstants DEF TypeOK, Available
  <2>2. \A v \in Nat : /\ v * Rate \in Int
                       /\ Has(After(v), a, Capacity, Rate) <=>
                            a <= Lesser(Capacity, bucket.tokens + bucket.lag * Rate + v * Rate)
    <3> TAKE v \in Nat
    <3>1. After(v) \in [tokens : Int, lag : Nat] /\ After(v).tokens = bucket.tokens
      BY DEF After, TypeOK
    <3>2. After(v).lag * Rate = bucket.lag * Rate + v * Rate /\ v * Rate \in Int
      BY Distribute, OneMore, BucketConstants DEF After, TypeOK
    <3>3. bucket.tokens + After(v).lag * Rate = bucket.tokens + bucket.lag * Rate + v * Rate
      BY <2>1, <3>2 DEF TypeOK
    <3>4. Refilled(After(v), Capacity, Rate).tokens
            = Lesser(Capacity, bucket.tokens + bucket.lag * Rate + v * Rate)
      BY <3>1, <3>3, RefilledIs
    <3>5. Lesser(Capacity, bucket.tokens + bucket.lag * Rate + v * Rate) \in Int
      BY <2>1, <3>2, BucketConstants DEF TypeOK, Lesser
    <3> QED
      BY <2>1, <3>2, <3>4, <3>5 DEF Has
  <2>3. CASE a <= Available
    <3>1. w = 0
      BY <2>3 DEF TimeUntilAvailable, Has, Available
    <3>2. 0 * Rate = 0
      BY BucketConstants
    <3> QED
      BY <2>1, <2>2, <2>3, <3>1, <3>2, BucketConstants DEF Lesser, TypeOK
  <2>4. CASE ~(a <= Available)
    <3>1. w = n \div Rate /\ n \in Int
      BY <2>1, <2>4, BucketConstants DEF TimeUntilAvailable, Has, Available
    <3>2. w \in Int /\ w * Rate <= n /\ n < w * Rate + Rate
      BY <3>1, DivBounds, BucketConstants
    <3> HIDE DEF w
    <3>3. w \in Nat /\ w # 0
      BY <2>1, <2>4, <3>2, BucketConstants
    <3>4. a <= Capacity => Has(After(w), a, Capacity, Rate)
      BY <2>1, <2>2, <2>4, <3>2, <3>3, BucketConstants DEF Lesser, TypeOK
    <3>5. ASSUME NEW v \in 0..(w - 1)
          PROVE  ~Has(After(v), a, Capacity, Rate)
      <4>1. v \in Nat /\ v <= w - 1
        BY <3>3
      <4>2. v * Rate <= (w - 1) * Rate /\ v * Rate \in Int
        BY <3>3, <4>1, MoreTicks, BucketConstants
      <4>3. (w - 1) * Rate = w * Rate - Rate /\ w * Rate \in Int
        BY <3>3, OneMore, BucketConstants
      <4>4. Available + v * Rate < a
        BY <2>1, <3>2, <4>2, <4>3, BucketConstants
      <4>5. a <= Lesser(Capacity, bucket.tokens + bucket.lag * Rate + v * Rate) => FALSE
        <5>1. 0 <= v * Rate
          BY <4>1, BucketConstants
        <5> QED
          BY <2>1, <4>2, <4>4, <5>1, BucketConstants DEF Lesser, TypeOK
      <4> QED
        BY <2>2, <4>1, <4>5
    <3> QED
      BY <3>3, <3>4, <3>5 DEF w
  <2> QED
    BY <2>3, <2>4
<1> QED
  BY <1>1, TypeCorrect, PTL

=============================================================================
