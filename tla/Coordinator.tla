---------------------------- MODULE Coordinator ----------------------------
(***************************************************************************)
(* ExecutionCoordinator and QueueRegistry of src/edsl/runner: rendered     *)
(* tasks wait in the FIFO of a (service, model, key) queue, the dispatch   *)
(* heap orders the queues by the time their limits next let a task start,  *)
(* and workers ask for work.                                               *)
(*                                                                         *)
(* A queue's position is kept relative to now: the heap is a sequence of   *)
(* queues with the ticks until each is worth trying, sorted by them, and   *)
(* entries the heap's lazy deletion would drop are not kept; queues that   *)
(* come due in one tick keep the order in which they were listed.  No      *)
(* method awaits, so each is one action.                                   *)
(*                                                                         *)
(* A definition introduced as a mutated form of the one that follows it is *)
(* used by no action: it is there to show that the properties notice it.   *)
(***************************************************************************)
EXTENDS Buckets, Sequences, FiniteSets, SequencesExt

CONSTANTS
  Tasks,
  Queues,
  Workers,
  Candidates,  \* task -> queues of its service and model
  Estimated,   \* task -> estimated_tokens
  Used,        \* task -> the token counts its call may turn out to use
  Rpm, Tpm,    \* queue -> capacity of its buckets
  RpmRate, TpmRate,  \* queue -> tokens a tick brings
  FalseAlarms, \* may the heartbeats of a worker at work come too late?
  MaxAttempts, \* max_attempts of _try_assign
  MaxSends,    \* bound: how often a task is enqueued (retries)
  MaxLag,      \* bound: a longer time without refill fills any bucket
  None

ASSUME CoordinatorConstants ==
  /\ Candidates \in [Tasks -> SUBSET Queues] /\ \A t \in Tasks : Candidates[t] # {}
  /\ Estimated \in [Tasks -> Nat] /\ Used \in [Tasks -> SUBSET Nat]
  /\ {Rpm, Tpm, RpmRate, TpmRate} \subseteq [Queues -> Nat \ {0}]
  /\ {MaxAttempts, MaxSends, MaxLag} \subseteq Nat \ {0}
  /\ FalseAlarms \in BOOLEAN
  /\ None \notin Tasks \cup Queues \cup [task : Tasks, queue : Queues]

VARIABLES
  fifo,      \* Queue._tasks
  heap,      \* DispatchHeap: <<[queue, wait], ...>>
  rpm, tpm,  \* the two buckets of each queue
  inFlight,  \* ExecutionCoordinator._in_flight: task -> queue, or None
  held,      \* worker -> the assignment it executes, or None
  sends      \* how often a task was enqueued

vars == <<fifo, heap, rpm, tpm, inFlight, held, sends>>

Assignments == [task : Tasks, queue : Queues]

TypeOK ==
  /\ fifo \in [Queues -> Seq(Tasks)]
  /\ heap \in Seq([queue : Queues, wait : Nat])
  /\ \A q \in Queues : /\ rpm[q].tokens \in 0..Rpm[q] /\ rpm[q].lag \in 0..MaxLag
                       /\ tpm[q].tokens <= Tpm[q] /\ tpm[q].lag \in 0..MaxLag
  /\ inFlight \in [Tasks -> Queues \cup {None}]
  /\ held \in [Workers -> Assignments \cup {None}]
  /\ sends \in [Tasks -> 0..MaxSends]

Init ==
  /\ fifo = [q \in Queues |-> <<>>]
  /\ heap = <<>>
  /\ rpm = [q \in Queues |-> Full(Rpm[q])]
  /\ tpm = [q \in Queues |-> Full(Tpm[q])]
  /\ inFlight = [t \in Tasks |-> None]
  /\ held = [w \in Workers |-> None]
  /\ sends = [t \in Tasks |-> 0]

-----------------------------------------------------------------------------
(***************************************************************************)
(* Queue and DispatchHeap.                                                 *)
(***************************************************************************)

HasRequest(q)       == Has(rpm[q], 1, Rpm[q], RpmRate[q])
HasTokens(q, t)     == Has(tpm[q], Estimated[t], Tpm[q], TpmRate[q])
MayStart(q, t)      == HasRequest(q) /\ HasTokens(q, t)
RpmRefilled(q)      == Refilled(rpm[q], Rpm[q], RpmRate[q])
TpmRefilled(q)      == Refilled(tpm[q], Tpm[q], TpmRate[q])

\* Queue.time_until_available.
WaitFor(q, t) ==
  LET forRequest == TimeUntilAvailable(rpm[q], 1, Rpm[q], RpmRate[q])
      forTokens  == TimeUntilAvailable(tpm[q], Estimated[t], Tpm[q], TpmRate[q])
  IN  IF forRequest >= forTokens THEN forRequest ELSE forTokens

\* The heap without the entry of q, which the next push makes stale.
Without(h, q) ==
  IF \E k \in 1..Len(h) : h[k].queue = q
  THEN RemoveAt(h, CHOOSE k \in 1..Len(h) : h[k].queue = q)
  ELSE h

\* push: the queue's entry is replaced, behind all that come as early.
Push(h, q, wait) ==
  LET others == Without(h, q)
      early  == Cardinality({k \in 1..Len(others) : others[k].wait <= wait})
  IN  InsertAt(others, early + 1, [queue |-> q, wait |-> wait])

Depth(q) == Len(fifo[q])

-----------------------------------------------------------------------------
(***************************************************************************)
(* enqueue: the shortest queue of the task's service and model takes it.   *)
(* A queue that was empty is put on the heap.                              *)
(***************************************************************************)

Shortest(t) == {q \in Candidates[t] : \A r \in Candidates[t] : Depth(q) <= Depth(r)}

Enqueue(t, q) ==
  /\ inFlight[t] = None /\ \A r \in Queues : ~Contains(fifo[r], t)
  /\ sends[t] < MaxSends
  /\ q \in Shortest(t)
  /\ sends' = [sends EXCEPT ![t] = @ + 1]
  /\ fifo' = [fifo EXCEPT ![q] = Append(@, t)]
  /\ IF fifo[q] = <<>>
     THEN /\ heap' = Push(heap, q, WaitFor(q, t))
          /\ rpm' = [rpm EXCEPT ![q] = RpmRefilled(q)]
          /\ tpm' = [tpm EXCEPT ![q] = TpmRefilled(q)]
     ELSE UNCHANGED <<heap, rpm, tpm>>
  /\ UNCHANGED <<inFlight, held>>

-----------------------------------------------------------------------------
(***************************************************************************)
(* _try_assign: the queues that are due are tried in the heap's order, at  *)
(* most MaxAttempts of them, until one may start its first task.           *)
(***************************************************************************)

Due == {k \in 1..Len(heap) : k <= MaxAttempts /\ heap[k].wait = 0}
Entry(k) == heap[k].queue
StartsAt(k) == MayStart(Entry(k), Head(fifo[Entry(k)]))

\* The entries before k were refused: they go back with the time they still need.
PutBack(h, refused) ==
  LET put[n \in 0..Len(refused)] ==
        IF n = 0 THEN h
        ELSE LET q == refused[n].queue IN Push(put[n-1], q, WaitFor(q, Head(fifo[q])))
  IN  put[Len(refused)]

Tried(k) == {Entry(j) : j \in 1..k}

\* Mutated form: the queue goes back on the heap only when something is refused.
AssignDropsQueue(w, k) ==
  LET q == Entry(k)
      t == Head(fifo[q])
  IN  /\ held[w] = None
      /\ k \in Due /\ StartsAt(k) /\ \A j \in 1..(k - 1) : ~StartsAt(j)
      /\ fifo' = [fifo EXCEPT ![q] = Tail(@)]
      /\ inFlight' = [inFlight EXCEPT ![t] = q]
      /\ held' = [held EXCEPT ![w] = [task |-> t, queue |-> q]]
      /\ rpm' = [r \in Queues |-> IF r = q THEN Spent(rpm[q], 1, Rpm[q], RpmRate[q])
                                  ELSE IF r \in Tried(k) THEN RpmRefilled(r) ELSE rpm[r]]
      /\ tpm' = [r \in Queues |-> IF r = q THEN Spent(tpm[q], Estimated[t], Tpm[q], TpmRate[q])
                                  ELSE IF r \in Tried(k) THEN TpmRefilled(r) ELSE tpm[r]]
      /\ heap' = PutBack(SubSeq(heap, k + 1, Len(heap)), SubSeq(heap, 1, k - 1))
      /\ UNCHANGED sends

\* The time the queue's next task must wait, after t has spent.
NextWait(q, t, next) ==
  LET forRequest == TimeUntilAvailable(Spent(rpm[q], 1, Rpm[q], RpmRate[q]), 1, Rpm[q], RpmRate[q])
      forTokens  == TimeUntilAvailable(Spent(tpm[q], Estimated[t], Tpm[q], TpmRate[q]),
                                       Estimated[next], Tpm[q], TpmRate[q])
  IN  IF forRequest >= forTokens THEN forRequest ELSE forTokens

Assign(w, k) ==
  LET q    == Entry(k)
      t    == Head(fifo[q])
      rest == Tail(fifo[q])
      left == PutBack(SubSeq(heap, k + 1, Len(heap)), SubSeq(heap, 1, k - 1))
  IN  /\ held[w] = None
      /\ k \in Due /\ StartsAt(k) /\ \A j \in 1..(k - 1) : ~StartsAt(j)
      /\ fifo' = [fifo EXCEPT ![q] = rest]
      /\ inFlight' = [inFlight EXCEPT ![t] = q]
      /\ held' = [held EXCEPT ![w] = [task |-> t, queue |-> q]]
      /\ rpm' = [r \in Queues |-> IF r = q THEN Spent(rpm[q], 1, Rpm[q], RpmRate[q])
                                  ELSE IF r \in Tried(k) THEN RpmRefilled(r) ELSE rpm[r]]
      /\ tpm' = [r \in Queues |-> IF r = q THEN Spent(tpm[q], Estimated[t], Tpm[q], TpmRate[q])
                                  ELSE IF r \in Tried(k) THEN TpmRefilled(r) ELSE tpm[r]]
      /\ heap' = IF rest = <<>> THEN left ELSE Push(left, q, NextWait(q, t, Head(rest)))
      /\ UNCHANGED sends

\* Mutated form: a request refused for its tokens keeps the request it took.
RefuseKeepingRequest(w) ==
  /\ held[w] = None
  /\ Due # {} /\ \A k \in Due : ~StartsAt(k)
  /\ LET refused == Cardinality(Due)
     IN  /\ rpm' = [q \in Queues |-> IF q \notin Tried(refused) THEN rpm[q]
                                     ELSE IF HasRequest(q)
                                          THEN Spent(rpm[q], 1, Rpm[q], RpmRate[q])
                                          ELSE RpmRefilled(q)]
         /\ tpm' = [q \in Queues |-> IF q \in Tried(refused) THEN TpmRefilled(q) ELSE tpm[q]]
         /\ heap' = PutBack(SubSeq(heap, refused + 1, Len(heap)), SubSeq(heap, 1, refused))
  /\ UNCHANGED <<fifo, inFlight, held, sends>>

\* Every queue that was tried refused: the worker gets nothing.
Refuse(w) ==
  /\ held[w] = None
  /\ Due # {} /\ \A k \in Due : ~StartsAt(k)
  /\ LET refused == Cardinality(Due)
     IN  /\ rpm' = [q \in Queues |-> IF q \in Tried(refused) THEN RpmRefilled(q) ELSE rpm[q]]
         /\ tpm' = [q \in Queues |-> IF q \in Tried(refused) THEN TpmRefilled(q) ELSE tpm[q]]
         /\ heap' = PutBack(SubSeq(heap, refused + 1, Len(heap)), SubSeq(heap, 1, refused))
  /\ UNCHANGED <<fifo, inFlight, held, sends>>

-----------------------------------------------------------------------------
(***************************************************************************)
(* complete_work: the bucket is reconciled if the task is still tracked.   *)
(***************************************************************************)

\* Mutated form: the task of a finished call stays tracked.
CompleteTracked(w, used) ==
  LET t == held[w].task
  IN  /\ held[w] # None /\ used \in Used[t]
      /\ held' = [held EXCEPT ![w] = None]
      /\ tpm' = [tpm EXCEPT ![held[w].queue] = Reconciled(@, Estimated[t], used, Tpm[held[w].queue])]
      /\ UNCHANGED <<fifo, heap, rpm, inFlight, sends>>

Complete(w, used) ==
  LET t == held[w].task
      q == held[w].queue
  IN  /\ held[w] # None /\ used \in Used[t]
      /\ held' = [held EXCEPT ![w] = None]
      /\ inFlight' = [inFlight EXCEPT ![t] = None]
      /\ tpm' = IF inFlight[t] # None /\ Estimated[t] > 0
                THEN [tpm EXCEPT ![q] = Reconciled(@, Estimated[t], used, Tpm[q])]
                ELSE tpm
      /\ UNCHANGED <<fifo, heap, rpm, sends>>

Held(t) == \E w \in Workers : IF held[w] = None THEN FALSE ELSE held[w].task = t

\* The pool is stopped with calls under way: its workers are cancelled.
StopPool ==
  /\ \E w \in Workers : held[w] # None
  /\ held' = [w \in Workers |-> None]
  /\ UNCHANGED <<fifo, heap, rpm, tpm, inFlight, sends>>

\* Mutated form: a task is requeued and the heap not told.
RequeueUnlisted(t) ==
  LET q == inFlight[t]
  IN  /\ q # None /\ (FalseAlarms \/ ~Held(t))
      /\ inFlight' = [inFlight EXCEPT ![t] = None]
      /\ fifo' = [fifo EXCEPT ![q] = Append(@, t)]
      /\ UNCHANGED <<heap, rpm, tpm, held, sends>>

\* _check_dead_workers and _requeue_task: the worker of the task is gone, or its
\* heartbeats are so late that it is taken to be.
Requeue(t) ==
  LET q == inFlight[t]
  IN  /\ q # None /\ (FalseAlarms \/ ~Held(t))
      /\ inFlight' = [inFlight EXCEPT ![t] = None]
      /\ fifo' = [fifo EXCEPT ![q] = Append(@, t)]
      /\ heap' = Push(heap, q, WaitFor(q, t))
      /\ rpm' = [rpm EXCEPT ![q] = RpmRefilled(q)]
      /\ tpm' = [tpm EXCEPT ![q] = TpmRefilled(q)]
      /\ UNCHANGED <<held, sends>>

Later(b) == [b EXCEPT !.lag = Lesser(@ + 1, MaxLag)]

Tick ==
  /\ rpm' = [q \in Queues |-> Later(rpm[q])]
  /\ tpm' = [q \in Queues |-> Later(tpm[q])]
  /\ heap' = [k \in 1..Len(heap) |->
                [heap[k] EXCEPT !.wait = IF @ = 0 THEN 0 ELSE @ - 1]]
  /\ UNCHANGED <<fifo, inFlight, held, sends>>

Next ==
  \/ \E t \in Tasks : Requeue(t) \/ \E q \in Queues : Enqueue(t, q)
  \/ \E w \in Workers :
       \/ \E k \in 1..Len(heap) : Assign(w, k)
       \/ Refuse(w)
       \/ \E t \in Tasks : \E used \in Used[t] : Complete(w, used)
  \/ StopPool
  \/ Tick

Spec == Init /\ [][Next]_vars

\* A worker without a task asks again at least every half second, time passes, and
\* a call returns because the language model bounds it.
Ask == \E w \in Workers : Refuse(w) \/ \E k \in 1..Len(heap) : Assign(w, k)
Return(w) == \E t \in Tasks : \E used \in Used[t] : Complete(w, used)

Fairness == WF_vars(Ask) /\ WF_vars(Tick) /\ \A w \in Workers : WF_vars(Return(w))

FairSpec == Spec /\ Fairness

-----------------------------------------------------------------------------
(***************************************************************************)
(* Properties.                                                             *)
(***************************************************************************)

\* The dispatch heap lists a queue, once, exactly while the queue has a task: a
\* queue it forgot would never be tried again, since enqueue only lists a queue
\* that was empty.  (The variables have their types.)
ListedExactly ==
  /\ TypeOK
  /\ ToSet([k \in 1..Len(heap) |-> heap[k].queue]) = {q \in Queues : fifo[q] # <<>>}
  /\ Len(heap) = Cardinality({q \in Queues : fifo[q] # <<>>})

\* A worker that is refused costs nothing: no queue can start less, or later, than
\* before, although try_acquire takes the request before it looks at the tokens.
RefusalFree ==
  [][UNCHANGED <<fifo, inFlight>> =>
       \A q \in Queues : /\ RpmRefilled(q)'.tokens >= RpmRefilled(q).tokens
                         /\ TpmRefilled(q)'.tokens >= TpmRefilled(q).tokens]_vars

\* No task of queue q up to its k-th is estimated above all the queue's bucket holds.
Fits(q, k) == \A j \in 1..k : Estimated[fifo[q][j]] <= Tpm[q]

\* Every queued task is handed to a worker, whatever limits are exhausted, however
\* far calls overrun their estimates and however few queues a worker tries; unless
\* it, or a task before it in its queue, asks for more than its bucket ever holds.
EveryTaskStarts ==
  \A t \in Tasks, q \in Queues :
    (\E k \in 1..Len(fifo[q]) : fifo[q][k] = t /\ Fits(q, k)) ~> ~Contains(fifo[q], t)

\* The coordinator implements the pool Runner assumes.
Pool == INSTANCE WorkPool WITH
          queued  <- {t \in Tasks : \E q \in Queues : Contains(fifo[q], t)},
          hand    <- [w \in Workers |-> IF held[w] = None THEN None ELSE held[w].task],
          orphans <- {t \in Tasks : inFlight[t] # None /\ ~Held(t)}
PoolKept == Pool!Spec

=============================================================================
