------------------------ MODULE CrashRecoveryProofs ------------------------
(***************************************************************************)
(* That no two processes hold one task, that nothing is asked before what  *)
(* it depends on, that no outcome is lost, that the counters agree with    *)
(* the statuses, and that without crashes the last one out makes interview *)
(* and job final: for any tasks, any number of processes and crashes, and  *)
(* handlers that interleave call by call.                                  *)
(*                                                                         *)
(* The proofs look at the calls a process has still to make through three  *)
(* sets: the tasks whose status or readiness is still to be written        *)
(* (Owned), the dependents it has still to tell of an outcome already      *)
(* written (Telling), and the sets of tasks still to be blocked            *)
(* (Blocking).  Shape says which calls may follow each other.  For the     *)
(* counters, the calls of a process are also read as its books: what it    *)
(* has given an outcome and not yet counted (Owes), so that a counter and  *)
(* what all processes owe to it together make up the tasks with the        *)
(* outcome (Balanced).  And as long as no process has died, what is left   *)
(* undone on the way to a final job is among the calls still to be made    *)
(* (LastInv).                                                              *)
(***************************************************************************)
EXTENDS CrashRecovery, FiniteSetTheorems, SequenceTheorems, TLAPS

Calls ==
  [op : {"status"}, task : Tasks, to : Status \ {"BLOCKED"}]
    \cup [op : {"ready", "answer", "decrement", "attempt", "propagate", "requeue"}, task : Tasks]
    \cup [op : {"block"}, tasks : SUBSET Tasks]
    \cup [op : {"increment"}, outcome : Outcomes, by : Nat]
    \cup [op : {"counter"}, outcome : Outcomes, to : Nat]
    \cup [op : {"interview", "setJob"}, to : States]
    \cup [op : {"count", "job"}, as : Verdicts]
    \cup [op : {"finalize", "mark", "finalizeJob"}]

\* As Storage, with counters that are not bounded.
StorageType ==
  [status : [Tasks -> Status], unmetDeps : [Tasks -> Int], ready : SUBSET Tasks,
   attempts : [Tasks -> Nat], answers : SUBSET Tasks, tally : [Outcomes -> Nat],
   interview : States, counted : BOOLEAN, jobTally : [Verdicts -> Nat], job : States]

\* As TypeOK; and a process that does not run has no calls to make.
RecoveryType ==
  /\ db \in StorageType
  /\ hand \in [Processes -> SUBSET Tasks]
  /\ todo \in [Processes -> Seq(Calls)]
  /\ up \subseteq Processes /\ crashes \in 0..MaxCrashes /\ whole \in BOOLEAN
  /\ \A p \in Processes \ up : hand[p] = {} /\ todo[p] = <<>>

-----------------------------------------------------------------------------

OwnOps == {"status", "ready", "requeue"}
Settles(w) == w.op \in {"status", "requeue"}
Satisfies(w) == w.op = "status" /\ w.to \in Satisfied

Owned(L)    == {t \in Tasks : \E i \in 1..Len(L) : L[i].op \in OwnOps /\ L[i].task = t}
Telling(L)  == {t \in Tasks : /\ \E i \in 1..Len(L) : L[i].op = "decrement" /\ L[i].task = t
                              /\ \A j \in 1..Len(L) : ~Satisfies(L[j])}
Blocking(L) == {S \in SUBSET Tasks : \E i \in 1..Len(L) : L[i].op = "block" /\ L[i].tasks = S}

SettledOnce(L) ==
  \A i, j \in 1..Len(L) : Settles(L[i]) /\ Settles(L[j]) /\ L[i].task = L[j].task => i = j
ReadyAfterStatus(L) ==
  \A i \in 1..Len(L) : L[i].op = "ready" =>
    IF i = 1 THEN \A j \in 1..Len(L) : Settles(L[j]) => L[j].task # L[1].task
    ELSE L[i-1].op = "status" /\ L[i-1].task = L[i].task /\ L[i-1].to = "READY"
PropagateAfterFailed(L) ==
  \A i \in 2..Len(L) : L[i].op = "propagate" =>
    L[i-1].op = "status" /\ L[i-1].task = L[i].task /\ L[i-1].to = "FAILED"
ToldOnce(L) ==
  \A i, j \in 1..Len(L) :
    L[i].op = "decrement" /\ L[j].op = "decrement" /\ L[i].task = L[j].task => i = j
ToldAfterStatus(L) ==
  \A i, j \in 1..Len(L) :
    L[i].op = "decrement" /\ Satisfies(L[j]) => j < i /\ L[j].task \in Deps[L[i].task]
SatisfiedOnce(L) ==
  \A i, j \in 1..Len(L) : Satisfies(L[i]) /\ Satisfies(L[j]) => i = j

Shape(L) ==
  /\ SettledOnce(L) /\ ReadyAfterStatus(L) /\ PropagateAfterFailed(L)
  /\ ToldOnce(L) /\ ToldAfterStatus(L) /\ SatisfiedOnce(L)

-----------------------------------------------------------------------------
(***************************************************************************)
(* The inductive invariant.                                                *)
(***************************************************************************)

InShape == \A p \in Processes : Shape(todo[p])

\* The first call of a handler that the one before it prepared.
HeadPrepared ==
  \A p \in Processes : todo[p] # <<>> =>
    /\ todo[p][1].op = "ready" => db.status[todo[p][1].task] = "READY"
    /\ todo[p][1].op = "propagate" => db.status[todo[p][1].task] = "FAILED"

Has(p, t) == t \in hand[p] \/ t \in Owned(todo[p])

\* A task is in one place: the ready set, the hand of one process, or its calls.
OnePlace ==
  \A p \in Processes, t \in Tasks : Has(p, t) =>
    /\ t \notin db.ready
    /\ ~(t \in hand[p] /\ t \in Owned(todo[p]))
    /\ \A q \in Processes : Has(q, t) => q = p

PlacedStatus ==
  /\ \A t \in db.ready : db.status[t] = "READY"
  /\ \A p \in Processes : /\ \A t \in hand[p] : db.status[t] \in Claimed \cup {"READY"}
                          /\ \A t \in Owned(todo[p]) : db.status[t] \notin Outcomes

\* A task that waits for another is nowhere, and has not begun.
UnmetWaits ==
  \A t \in Tasks : db.unmetDeps[t] > 0 =>
    /\ db.status[t] \in {"PENDING", "BLOCKED"} /\ t \notin db.ready
    /\ \A p \in Processes : ~Has(p, t)

Unsatisfied(t) == {d \in Deps[t] : db.status[d] \notin Satisfied}
Tellers(t)     == {p \in Processes : t \in Telling(todo[p])}

\* The counter of a task is never less than what is still to be decremented from it;
\* it is more when a process died before it told.
UnmetCounted ==
  \A t \in Tasks : db.unmetDeps[t] >= Cardinality(Unsatisfied(t)) + Cardinality(Tellers(t))

\* What is blocked, or about to be, has a dependency that will never be satisfied.
BlockedForCause ==
  /\ \A t \in Tasks : db.status[t] = "BLOCKED" =>
       \E d \in Deps[t] : db.status[d] \in {"FAILED", "BLOCKED"}
  /\ \A p \in Processes : \A S \in Blocking(todo[p]) : \A t \in S :
       /\ db.status[t] \in {"PENDING", "BLOCKED"}
       /\ \E d \in Deps[t] : d \in S \/ db.status[d] \in {"FAILED", "BLOCKED"}

Inv ==
  /\ RecoveryType /\ InShape /\ HeadPrepared /\ OnePlace /\ PlacedStatus
  /\ UnmetWaits /\ UnmetCounted /\ BlockedForCause

-----------------------------------------------------------------------------
(***************************************************************************)
(* The calls, one at a time.                                               *)
(***************************************************************************)

TaskOps == {"status", "ready", "answer", "decrement", "attempt", "propagate", "requeue"}

\* What fields a call has.
LEMMA CallFields ==
  ASSUME NEW w \in Calls
  PROVE  /\ w.op \in TaskOps \cup {"block", "increment", "counter", "interview", "setJob",
                                   "count", "job", "finalize", "mark", "finalizeJob"}
         /\ w.op \in TaskOps => w.task \in Tasks
         /\ w.op = "status" => w.to \in Status \ {"BLOCKED"}
         /\ w.op = "block" => w.tasks \subseteq Tasks
         /\ w.op = "increment" => w.outcome \in Outcomes /\ w.by \in Nat
         /\ w.op = "counter" => w.outcome \in Outcomes /\ w.to \in Nat
         /\ w.op \in {"interview", "setJob"} => w.to \in States
         /\ w.op \in {"count", "job"} => w.as \in Verdicts
  BY DEF Calls, TaskOps

\* Every call that a handler makes is one of Calls.
LEMMA CallsMade ==
  /\ \A t \in Tasks : /\ \A s \in Status \ {"BLOCKED"} : SetStatus(t, s) \in Calls
                      /\ AddToReady(t) \in Calls /\ StoreAnswer(t) \in Calls
                      /\ Decrement(t) \in Calls /\ CountAttempt(t) \in Calls
                      /\ Propagate(t) \in Calls /\ RequeueTask(t) \in Calls
  /\ \A S \in SUBSET Tasks : Block(S) \in Calls
  /\ \A o \in Outcomes, n \in Nat : Increment(o, n) \in Calls /\ WriteCounter(o, n) \in Calls
  /\ \A v \in States : SetInterview(v) \in Calls /\ SetJob(v) \in Calls
  /\ \A v \in Verdicts : CountInterview(v) \in Calls /\ IncrementJob(v) \in Calls
  /\ Finalize \in Calls /\ MarkInterview \in Calls /\ FinalizeJob \in Calls
  BY DEF Calls, SetStatus, AddToReady, StoreAnswer, Decrement, CountAttempt, Propagate,
         RequeueTask, Block, Increment, WriteCounter, SetInterview, SetJob, CountInterview,
         IncrementJob, Finalize, MarkInterview, FinalizeJob

\* What a call does to the storage.
LEMMA CallWrites ==
  ASSUME NEW w \in Calls, db \in StorageType
  PROVE  /\ Written(w) \in StorageType
         /\ Written(w).status =
              [t \in Tasks |-> IF w.op = "status" /\ t = w.task THEN w.to
                               ELSE IF w.op = "block" /\ t \in w.tasks THEN "BLOCKED"
                               ELSE db.status[t]]
         /\ Written(w).unmetDeps =
              [t \in Tasks |-> IF w.op = "decrement" /\ t = w.task THEN db.unmetDeps[t] - 1
                               ELSE db.unmetDeps[t]]
         /\ Written(w).ready = IF w.op = "ready" THEN db.ready \cup {w.task} ELSE db.ready
<1> USE CallFields DEF TaskOps, StorageType
<1>1. CASE w.op = "status"
  <2>1. Written(w) = [db EXCEPT !.status[w.task] = w.to]
    BY <1>1 DEF Written
  <2>2. [db.status EXCEPT ![w.task] = w.to] \in [Tasks -> Status]
    BY <1>1
  <2>3. Written(w) \in StorageType
    BY <2>1, <2>2
  <2>4. /\ Written(w).status = [db.status EXCEPT ![w.task] = w.to]
        /\ Written(w).unmetDeps = db.unmetDeps /\ Written(w).ready = db.ready
    BY <2>1
  <2>5. QED BY <1>1, <2>3, <2>4
<1>2. CASE w.op = "ready"
  <2>1. Written(w) = [db EXCEPT !.ready = @ \cup {w.task}]
    BY <1>2 DEF Written
  <2>2. Written(w) \in StorageType
    BY <1>2, <2>1
  <2>3. Written(w).status = db.status /\ Written(w).unmetDeps = db.unmetDeps
    BY <2>1
  <2>4. QED BY <1>2, <2>1, <2>2, <2>3
<1>3. CASE w.op = "answer"
  <2>1. Written(w) = [db EXCEPT !.answers = @ \cup {w.task}]
    BY <1>3 DEF Written
  <2>2. Written(w) \in StorageType
    BY <1>3, <2>1
  <2>3. Written(w).status = db.status /\ Written(w).unmetDeps = db.unmetDeps /\ Written(w).ready = db.ready
    BY <2>1
  <2>4. QED BY <1>3, <2>2, <2>3
<1>4. CASE w.op = "decrement"
  <2>1. Written(w) = [db EXCEPT !.unmetDeps[w.task] = @ - 1]
    BY <1>4 DEF Written
  <2>2. [db.unmetDeps EXCEPT ![w.task] = @ - 1] \in [Tasks -> Int]
    BY <1>4
  <2>3. Written(w) \in StorageType
    BY <2>1, <2>2
  <2>4. /\ Written(w).unmetDeps = [db.unmetDeps EXCEPT ![w.task] = @ - 1]
        /\ Written(w).status = db.status /\ Written(w).ready = db.ready
    BY <2>1
  <2>5. QED BY <1>4, <2>3, <2>4
<1>5. CASE w.op = "attempt"
  <2>1. Written(w) = [db EXCEPT !.attempts[w.task] = @ + 1]
    BY <1>5 DEF Written
  <2>2. [db.attempts EXCEPT ![w.task] = @ + 1] \in [Tasks -> Nat]
    BY <1>5
  <2>3. Written(w) \in StorageType
    BY <1>5, <2>1, <2>2
  <2>4. Written(w).status = db.status /\ Written(w).unmetDeps = db.unmetDeps /\ Written(w).ready = db.ready
    BY <2>1
  <2>5. QED BY <1>5, <2>3, <2>4
<1>6. CASE w.op = "block"
  <2>1. [t \in Tasks |-> IF t \in w.tasks THEN "BLOCKED" ELSE db.status[t]] \in [Tasks -> Status]
    BY <1>6 DEF Status, Outcomes
  <2>2. QED BY <1>6, <2>1 DEF Written
<1>7. CASE w.op = "increment"
  <2>1. Written(w) = [db EXCEPT !.tally[w.outcome] = @ + w.by]
    BY <1>7 DEF Written
  <2>2. [db.tally EXCEPT ![w.outcome] = @ + w.by] \in [Outcomes -> Nat]
    BY <1>7
  <2>3. Written(w) \in StorageType
    BY <2>1, <2>2
  <2>4. /\ Written(w).status = db.status /\ Written(w).unmetDeps = db.unmetDeps
        /\ Written(w).ready = db.ready
    BY <2>1
  <2>5. QED BY <1>7, <2>3, <2>4
<1>8. CASE w.op = "counter"
  <2>1. Written(w) = [db EXCEPT !.tally[w.outcome] = w.to]
    BY <1>8 DEF Written
  <2>2. [db.tally EXCEPT ![w.outcome] = w.to] \in [Outcomes -> Nat]
    BY <1>8
  <2>3. Written(w) \in StorageType
    BY <1>8, <2>1, <2>2
  <2>4. Written(w).status = db.status /\ Written(w).unmetDeps = db.unmetDeps /\ Written(w).ready = db.ready
    BY <2>1
  <2>5. QED BY <1>8, <2>3, <2>4
<1>9. CASE w.op = "interview"
  <2>1. Written(w) = [db EXCEPT !.interview = w.to]
    BY <1>9 DEF Written
  <2>2. Written(w) \in StorageType
    BY <1>9, <2>1
  <2>3. Written(w).status = db.status /\ Written(w).unmetDeps = db.unmetDeps /\ Written(w).ready = db.ready
    BY <2>1
  <2>4. QED BY <1>9, <2>2, <2>3
<1>10. CASE w.op = "count"
  <2>1. Written(w) = [db EXCEPT !.counted = TRUE]
    BY <1>10 DEF Written
  <2>2. /\ Written(w) \in StorageType /\ Written(w).status = db.status
        /\ Written(w).unmetDeps = db.unmetDeps /\ Written(w).ready = db.ready
    BY <2>1
  <2>3. QED BY <1>10, <2>2
<1>11. CASE w.op = "job"
  <2>1. Written(w) = [db EXCEPT !.jobTally[w.as] = @ + 1]
    BY <1>11 DEF Written
  <2>2. [db.jobTally EXCEPT ![w.as] = @ + 1] \in [Verdicts -> Nat]
    BY <1>11
  <2>3. Written(w) \in StorageType
    BY <2>1, <2>2
  <2>4. /\ Written(w).status = db.status /\ Written(w).unmetDeps = db.unmetDeps
        /\ Written(w).ready = db.ready
    BY <2>1
  <2>5. QED BY <1>11, <2>3, <2>4
<1>12. CASE w.op = "setJob"
  <2>1. Written(w) = [db EXCEPT !.job = w.to]
    BY <1>12 DEF Written
  <2>2. Written(w) \in StorageType
    BY <1>12, <2>1
  <2>3. Written(w).status = db.status /\ Written(w).unmetDeps = db.unmetDeps /\ Written(w).ready = db.ready
    BY <2>1
  <2>4. QED BY <1>12, <2>2, <2>3
<1>13. CASE w.op \in {"propagate", "requeue", "finalize", "mark", "finalizeJob"}
  <2>1. Written(w) = db BY <1>13 DEF Written
  <2>2. QED BY <1>13, <2>1
<1>14. QED BY <1>1, <1>2, <1>3, <1>4, <1>5, <1>6, <1>7, <1>8, <1>9, <1>10, <1>11, <1>12, <1>13

PairOf(t) == <<SetStatus(t, "READY"), AddToReady(t)>>

\* Calls that neither own a task nor tell one of an outcome.
PlainCalls(F) ==
  \A i \in 1..Len(F) : F[i].op \notin OwnOps \cup {"decrement", "propagate"}

\* Which calls follow a call: those that make a task ready follow a decrement or a
\* requeue, and those that block follow the propagation of a failure.
LEMMA CallFollowed ==
  ASSUME NEW w \in Calls, db \in StorageType
  PROVE  /\ Following(w) \in Seq(Calls)
         /\ w.op = "decrement" =>
              Following(w) = IF db.unmetDeps[w.task] = 1 THEN PairOf(w.task) ELSE <<>>
         /\ w.op = "requeue" =>
              Following(w) \in {PairOf(w.task), <<SetStatus(w.task, "PENDING")>>}
         /\ w.op \notin {"decrement", "requeue"} => PlainCalls(Following(w))
         /\ w.op \notin {"decrement", "requeue"} =>
              \A i \in 1..Len(Following(w)) : Following(w)[i].op = "block" =>
                w.op = "propagate" /\ Following(w)[i].tasks = NewlyBlocked(w.task)
         /\ w.op \in {"status", "ready"} => Following(w) = <<>>
<1> USE CallFields, CallsMade DEF TaskOps
<1> DEFINE F == Following(w)
<1>1. CASE w.op = "decrement"
  <2>1. F = IF db.unmetDeps[w.task] = 1 THEN PairOf(w.task) ELSE <<>>
    BY <1>1 DEF Following, PairOf
  <2>2. PairOf(w.task) \in Seq(Calls)
    BY <1>1 DEF PairOf, Status
  <2>3. QED BY <1>1, <2>1, <2>2
<1>2. CASE w.op = "requeue"
  <2>1. F = Requeue(w.task)
    BY <1>2 DEF Following
  <2>2. F \in {PairOf(w.task), <<SetStatus(w.task, "PENDING")>>}
    BY <2>1 DEF Requeue, PairOf
  <2>3. PairOf(w.task) \in Seq(Calls) /\ <<SetStatus(w.task, "PENDING")>> \in Seq(Calls)
    BY <1>2 DEF PairOf, Status
  <2>4. QED BY <1>2, <2>2, <2>3
<1>3. CASE w.op = "propagate"
  <2> DEFINE B == NewlyBlocked(w.task)
  <2>1. B \in SUBSET Tasks /\ Cardinality(B) \in Nat
    <3>1. B \in SUBSET Tasks
      BY DEF NewlyBlocked
    <3>2. IsFiniteSet(B)
      BY <3>1, FS_Subset, RecoveryConstants
    <3>3. QED BY <3>1, <3>2, FS_CardinalityType
  <2>2. CASE B # {}
    <3>1. F = <<Block(B), Increment("BLOCKED", Cardinality(B)), Finalize>>
      BY <1>3, <2>2 DEF Following
    <3>2. Block(B) \in Calls /\ Increment("BLOCKED", Cardinality(B)) \in Calls /\ Finalize \in Calls
      BY <2>1 DEF Outcomes
    <3>3. F \in Seq(Calls)
      BY <3>1, <3>2
    <3>4. Len(F) = 3 /\ F[1] = Block(B) /\ F[2] = Increment("BLOCKED", Cardinality(B)) /\ F[3] = Finalize
      BY <3>1
    <3>5. \A i \in 1..Len(F) : F[i].op \in {"block", "increment", "finalize"}
                               /\ (F[i].op = "block" => F[i].tasks = B)
      BY <3>4 DEF Block, Increment, Finalize
    <3>6. QED BY <1>3, <3>3, <3>5 DEF PlainCalls, OwnOps
  <2>3. CASE B = {}
    <3>1. F = <<>>
      BY <1>3, <2>3 DEF Following
    <3>2. QED BY <1>3, <3>1 DEF PlainCalls
  <2>4. QED BY <2>2, <2>3
<1>4. CASE w.op = "finalize"
  <2>1. F = IF IsDone THEN <<SetInterview(Verdict)>> ELSE <<>>
    BY <1>4 DEF Following
  <2>2. Verdict \in States
    BY DEF Verdict, States, Verdicts
  <2>3. QED BY <1>4, <2>1, <2>2 DEF PlainCalls, OwnOps, SetInterview
<1>5. CASE w.op = "mark"
  <2>1. F = IF db.interview # "RUNNING" THEN <<CountInterview(db.interview)>> ELSE <<>>
    BY <1>5 DEF Following
  <2>2. db.interview # "RUNNING" => db.interview \in Verdicts
    BY DEF StorageType, States
  <2>3. QED BY <1>5, <2>1, <2>2 DEF PlainCalls, OwnOps, CountInterview
<1>6. CASE w.op = "count"
  <2>1. F = IF db.counted THEN <<>> ELSE <<IncrementJob(w.as), FinalizeJob>>
    BY <1>6 DEF Following, CountOnce
  <2>2. QED BY <1>6, <2>1 DEF PlainCalls, OwnOps, IncrementJob, FinalizeJob
<1>7. CASE w.op = "finalizeJob"
  <2>1. F = IF \E v \in Verdicts : db.jobTally[v] > 0 THEN <<SetJob(JobVerdict)>> ELSE <<>>
    BY <1>7 DEF Following
  <2>2. JobVerdict \in States
    BY DEF JobVerdict, States, Verdicts
  <2>3. QED BY <1>7, <2>1, <2>2 DEF PlainCalls, OwnOps, SetJob
<1>8. CASE w.op \notin {"decrement", "requeue", "propagate", "finalize", "mark", "count", "finalizeJob"}
  <2>1. F = <<>>
    BY <1>8 DEF Following
  <2>2. QED BY <1>8, <2>1 DEF PlainCalls
<1>9. QED BY <1>1, <1>2, <1>3, <1>4, <1>5, <1>6, <1>7, <1>8

-----------------------------------------------------------------------------
(***************************************************************************)
(* The calls of a process, after it made the first of them.                *)
(***************************************************************************)

\* Where the calls are afterwards.
LEMMA CallsLeft ==
  ASSUME NEW L \in Seq(Calls), L # <<>>, NEW F \in Seq(Calls)
  PROVE  /\ F \o Tail(L) \in Seq(Calls)
         /\ Len(L) \in Nat \ {0} /\ Len(F) \in Nat /\ Len(F \o Tail(L)) = Len(F) + Len(L) - 1
         /\ \A i \in 1..Len(F) : (F \o Tail(L))[i] = F[i]
         /\ \A i \in Len(F) + 1..Len(F \o Tail(L)) : (F \o Tail(L))[i] = L[i - Len(F) + 1]
<1>1. Tail(L) \in Seq(Calls) /\ Len(Tail(L)) = Len(L) - 1
      /\ \A i \in 1..Len(Tail(L)) : Tail(L)[i] = L[i+1]
  BY HeadTailProperties
<1>2. Len(L) \in Nat \ {0} /\ Len(F) \in Nat
  BY EmptySeq, LenProperties
<1>3. F \o Tail(L) \in Seq(Calls) /\ Len(F \o Tail(L)) = Len(F) + Len(Tail(L))
      /\ \A i \in 1..Len(F) + Len(Tail(L)) :
           (F \o Tail(L))[i] = IF i <= Len(F) THEN F[i] ELSE Tail(L)[i - Len(F)]
  BY <1>1, ConcatProperties
<1>4. QED BY <1>1, <1>2, <1>3

\* After a call that made nobody ready.
LEMMA ShapeAfterPlain ==
  ASSUME NEW L \in Seq(Calls), L # <<>>, Shape(L), NEW F \in Seq(Calls), PlainCalls(F),
         L[1].op = "status" => F = <<>>,
         NEW N, N = F \o Tail(L)
  PROVE  /\ Shape(N)
         /\ Owned(N) \subseteq Owned(L)
         /\ (L[1].op = "status" /\ L[1].to # "READY") \/ L[1].op = "ready" => L[1].task \notin Owned(N)
         /\ Telling(N) \subseteq Telling(L) \cup (IF Satisfies(L[1]) THEN Dependents(L[1].task) ELSE {})
         /\ L[1].op = "decrement" => L[1].task \in Telling(L) \ Telling(N)
         /\ Blocking(N) \subseteq Blocking(L) \cup Blocking(F)
<1> DEFINE k == Len(F)
<1>1. /\ N \in Seq(Calls) /\ Len(L) \in Nat \ {0} /\ k \in Nat /\ Len(N) = k + Len(L) - 1
      /\ \A i \in 1..k : N[i] = F[i]
      /\ \A i \in k+1..Len(N) : N[i] = L[i - k + 1] /\ i - k + 1 \in 2..Len(L)
  BY CallsLeft
<1>2. \A i \in 1..k : N[i].op \notin OwnOps \cup {"decrement", "propagate"}
  BY <1>1 DEF PlainCalls
<1>3. L[1].op = "status" => k = 0
  OBVIOUS
<1>a. \A i \in 1..Len(N) : i \notin 1..k => i \in k+1..Len(N)
  BY <1>1
<1> HIDE DEF k
<1>k. k \in Int
  BY <1>1
<1>c. \A i \in 1..Len(N) : N[i].op \in OwnOps \cup {"decrement", "propagate"} =>
        i \in Int /\ i - k + 1 \in 2..Len(L) /\ i - k + 1 \in 1..Len(L) /\ N[i] = L[i - k + 1]
  BY <1>1, <1>2, <1>a
<1>4. SettledOnce(N)
  <2>1. SUFFICES ASSUME NEW i \in 1..Len(N), NEW j \in 1..Len(N),
                        Settles(N[i]), Settles(N[j]), N[i].task = N[j].task
                 PROVE  i = j
    BY DEF SettledOnce
  <2>2. N[i] = L[i-k+1] /\ N[j] = L[j-k+1] /\ i-k+1 \in 1..Len(L) /\ j-k+1 \in 1..Len(L)
        /\ i \in Int /\ j \in Int
    BY <1>c, <2>1 DEF Settles, OwnOps
  <2>3. i-k+1 = j-k+1
    BY <2>1, <2>2 DEF Shape, SettledOnce
  <2>4. QED BY <1>k, <2>2, <2>3
<1>5. ReadyAfterStatus(N)
  <2>1. SUFFICES ASSUME NEW i \in 1..Len(N), N[i].op = "ready"
                 PROVE  IF i = 1 THEN \A j \in 1..Len(N) : Settles(N[j]) => N[j].task # N[1].task
                        ELSE N[i-1].op = "status" /\ N[i-1].task = N[i].task /\ N[i-1].to = "READY"
    BY DEF ReadyAfterStatus
  <2>2. i \in k+1..Len(N)
    BY <1>2, <1>a, <2>1 DEF OwnOps
  <2> DEFINE m == i - k + 1
  <2>3. m \in 2..Len(L) /\ L[m] = N[i] /\ L[m-1].op = "status" /\ L[m-1].task = L[m].task /\ L[m-1].to = "READY"
    BY <1>1, <2>1, <2>2 DEF Shape, ReadyAfterStatus
  <2>4. CASE m = 2
    <3>1. k = 0 /\ i = 1
      BY <1>1, <1>3, <2>3, <2>4
    <3>2. SUFFICES ASSUME NEW j \in 1..Len(N), Settles(N[j]), N[j].task = N[1].task
                   PROVE  FALSE
      BY <3>1
    <3>3. N[j] = L[j+1] /\ j + 1 \in 1..Len(L) /\ 1 \in 1..Len(L)
      BY <1>1, <3>1
    <3>4. Settles(L[1]) /\ Settles(L[j+1]) /\ L[1].task = L[j+1].task
      BY <3>1, <3>2, <3>3, <2>3, <2>4 DEF Settles
    <3>5. 1 = j + 1
      BY <3>3, <3>4 DEF Shape, SettledOnce
    <3>6. QED BY <3>5
  <2>5. CASE m # 2
    <3>1. i # 1 /\ i - 1 \in k+1..Len(N) /\ N[i-1] = L[m-1]
      BY <1>1, <2>2, <2>3, <2>5
    <3>2. QED BY <3>1, <2>3
  <2>6. QED BY <2>4, <2>5
<1>6. PropagateAfterFailed(N)
  <2>1. SUFFICES ASSUME NEW i \in 2..Len(N), N[i].op = "propagate"
                 PROVE  N[i-1].op = "status" /\ N[i-1].task = N[i].task /\ N[i-1].to = "FAILED"
    BY DEF PropagateAfterFailed
  <2>2. i \in k+1..Len(N)
    BY <1>1, <1>2, <1>a, <2>1
  <2> DEFINE m == i - k + 1
  <2>3. m \in 2..Len(L) /\ L[m] = N[i] /\ L[m-1].op = "status" /\ L[m-1].task = L[m].task /\ L[m-1].to = "FAILED"
    BY <1>1, <2>1, <2>2 DEF Shape, PropagateAfterFailed
  <2>4. m # 2
    <3>1. SUFFICES ASSUME m = 2 PROVE FALSE
      OBVIOUS
    <3>2. k = 0 /\ i \in Int /\ i >= 2
      BY <1>3, <2>3, <3>1
    <3>3. QED BY <3>1, <3>2
  <2>5. i - 1 \in k+1..Len(N) /\ N[i-1] = L[m-1]
    BY <1>1, <2>2, <2>3, <2>4
  <2>6. QED BY <2>5, <2>3
<1>7. ToldOnce(N)
  <2>1. SUFFICES ASSUME NEW i \in 1..Len(N), NEW j \in 1..Len(N), N[i].op = "decrement",
                        N[j].op = "decrement", N[i].task = N[j].task
                 PROVE  i = j
    BY DEF ToldOnce
  <2>2. N[i] = L[i-k+1] /\ N[j] = L[j-k+1] /\ i-k+1 \in 1..Len(L) /\ j-k+1 \in 1..Len(L)
        /\ i \in Int /\ j \in Int
    BY <1>c, <2>1
  <2>3. i-k+1 = j-k+1
    BY <2>1, <2>2 DEF Shape, ToldOnce
  <2>4. QED BY <1>k, <2>2, <2>3
<1>b. \A j \in 1..Len(N) : Satisfies(N[j]) => j \in k+1..Len(N) /\ Satisfies(L[j-k+1])
  BY <1>1, <1>2, <1>a DEF Satisfies, OwnOps
<1>8. ToldAfterStatus(N)
  <2>1. SUFFICES ASSUME NEW i \in 1..Len(N), NEW j \in 1..Len(N), N[i].op = "decrement", Satisfies(N[j])
                 PROVE  j < i /\ N[j].task \in Deps[N[i].task]
    BY DEF ToldAfterStatus
  <2>2. i \in k+1..Len(N) /\ j \in k+1..Len(N)
    BY <1>2, <1>a, <1>b, <2>1
  <2>3. L[i-k+1].op = "decrement" /\ Satisfies(L[j-k+1]) /\ i-k+1 \in 1..Len(L) /\ j-k+1 \in 1..Len(L)
    BY <1>1, <1>b, <2>1, <2>2
  <2>4. j-k+1 < i-k+1 /\ L[j-k+1].task \in Deps[L[i-k+1].task]
    BY <2>3 DEF Shape, ToldAfterStatus
  <2>5. N[i] = L[i-k+1] /\ N[j] = L[j-k+1] /\ i \in Int /\ j \in Int
    BY SMTT(30), <1>1, <2>2
  <2>6. j < i
    BY <1>1, <2>4, <2>5
  <2>7. QED BY <2>4, <2>5, <2>6
<1>9. SatisfiedOnce(N)
  <2>1. SUFFICES ASSUME NEW i \in 1..Len(N), NEW j \in 1..Len(N), Satisfies(N[i]), Satisfies(N[j])
                 PROVE  i = j
    BY DEF SatisfiedOnce
  <2>2. Satisfies(L[i-k+1]) /\ Satisfies(L[j-k+1]) /\ i-k+1 \in 1..Len(L) /\ j-k+1 \in 1..Len(L)
    BY <1>c, <1>b, <2>1 DEF Satisfies, OwnOps
  <2>3. i-k+1 = j-k+1
    BY <2>2 DEF Shape, SatisfiedOnce
  <2>4. QED BY <1>k, <2>2, <2>3
<1>10. Owned(N) \subseteq Owned(L)
  <2>1. SUFFICES ASSUME NEW i \in 1..Len(N), N[i].op \in OwnOps
                 PROVE  \E j \in 1..Len(L) : L[j].op \in OwnOps /\ L[j].task = N[i].task
    BY DEF Owned
  <2>2. QED BY <1>c, <2>1
<1>11. (L[1].op = "status" /\ L[1].to # "READY") \/ L[1].op = "ready" => L[1].task \notin Owned(N)
  <2>1. SUFFICES ASSUME (L[1].op = "status" /\ L[1].to # "READY") \/ L[1].op = "ready",
                        NEW i \in 1..Len(N), N[i].op \in OwnOps, N[i].task = L[1].task
                 PROVE  FALSE
    BY DEF Owned
  <2> DEFINE m == i - k + 1
  <2>2. m \in 2..Len(L) /\ L[m].op \in OwnOps /\ L[m].task = L[1].task /\ 1 \in 1..Len(L)
    <3>1. m \in 2..Len(L) /\ N[i] = L[m]
      BY <1>c, <2>1
    <3>2. 1 \in 1..Len(L)
      BY <3>1
    <3>3. QED BY <2>1, <3>1, <3>2
  <2>3. CASE L[1].op = "status"
    <3>1. ~Settles(L[m])
      BY <2>2, <2>3 DEF Shape, SettledOnce, Settles
    <3>2. L[m].op = "ready"
      BY <2>2, <3>1 DEF Settles, OwnOps
    <3>3. L[m-1].op = "status" /\ L[m-1].task = L[m].task /\ L[m-1].to = "READY"
      BY <2>2, <3>2 DEF Shape, ReadyAfterStatus
    <3>4. m - 1 \in 1..Len(L) /\ m - 1 # 1
      BY <2>1, <2>2, <2>3, <3>3
    <3>5. QED BY <2>2, <2>3, <3>3, <3>4 DEF Shape, SettledOnce, Settles
  <2>4. CASE L[1].op = "ready"
    <3>1. \A j \in 1..Len(L) : Settles(L[j]) => L[j].task # L[1].task
      BY <2>2, <2>4 DEF Shape, ReadyAfterStatus
    <3>2. L[m].op = "ready"
      BY <2>2, <3>1 DEF Settles, OwnOps
    <3>3. L[m-1].op = "status" /\ L[m-1].task = L[m].task /\ m - 1 \in 1..Len(L)
      BY <2>2, <3>2 DEF Shape, ReadyAfterStatus
    <3>4. QED BY <2>2, <3>1, <3>3 DEF Settles
  <2>5. QED BY <2>1, <2>3, <2>4
<1>12. Telling(N) \subseteq Telling(L) \cup (IF Satisfies(L[1]) THEN Dependents(L[1].task) ELSE {})
  <2>1. SUFFICES ASSUME NEW t \in Telling(N), t \notin Telling(L)
                 PROVE  Satisfies(L[1]) /\ t \in Dependents(L[1].task)
    OBVIOUS
  <2>2. PICK i \in 1..Len(N) : N[i].op = "decrement" /\ N[i].task = t
    BY <2>1 DEF Telling
  <2>3. i - k + 1 \in 1..Len(L) /\ L[i-k+1].op = "decrement" /\ L[i-k+1].task = t /\ t \in Tasks
    BY <1>c, <2>1, <2>2 DEF Telling
  <2>4. PICK j \in 1..Len(L) : Satisfies(L[j])
    BY <2>1, <2>3 DEF Telling
  <2>5. j = 1
    <3>1. SUFFICES ASSUME j # 1 PROVE FALSE
      OBVIOUS
    <3>2. j + k - 1 \in k+1..Len(N) /\ j + k - 1 \in 1..Len(N) /\ (j + k - 1) - k + 1 = j
      <4>1. j \in Int /\ j >= 2 /\ j <= Len(L)
        BY <1>1, <3>1
      <4>2. QED BY <1>1, <4>1
    <3>3. Satisfies(N[j + k - 1])
      BY <1>1, <2>4, <3>2
    <3>4. QED BY <2>1, <3>2, <3>3 DEF Telling
  <2>6. QED BY <2>3, <2>4, <2>5 DEF Shape, ToldAfterStatus, Dependents
<1>13. L[1].op = "decrement" => L[1].task \in Telling(L) \ Telling(N)
  <2>1. SUFFICES ASSUME L[1].op = "decrement"
                 PROVE  L[1].task \in Telling(L) /\ L[1].task \notin Telling(N)
    OBVIOUS
  <2>2. 1 \in 1..Len(L) /\ L[1] \in Calls
    BY <1>1, ElementOfSeq
  <2>3. \A j \in 1..Len(L) : ~Satisfies(L[j])
    BY <1>1, <2>1, <2>2 DEF Shape, ToldAfterStatus
  <2>4. L[1].task \in Telling(L)
    BY <2>1, <2>2, <2>3, CallFields DEF Telling, TaskOps
  <2>5. SUFFICES ASSUME NEW i \in 1..Len(N), N[i].op = "decrement", N[i].task = L[1].task
                 PROVE  FALSE
    BY <2>4 DEF Telling
  <2>6. i-k+1 \in 2..Len(L) /\ L[i-k+1].op = "decrement" /\ L[i-k+1].task = L[1].task
    BY <1>1, <1>2, <1>a, <2>5
  <2>7. QED BY <2>1, <2>2, <2>6 DEF Shape, ToldOnce
<1>14. Blocking(N) \subseteq Blocking(L) \cup Blocking(F)
  <2>1. SUFFICES ASSUME NEW S \in Blocking(N) PROVE S \in Blocking(L) \cup Blocking(F)
    OBVIOUS
  <2>2. PICK i \in 1..Len(N) : N[i].op = "block" /\ N[i].tasks = S
    BY <2>1 DEF Blocking
  <2>3. QED BY SMTT(30), <1>1, <1>a, <2>1, <2>2 DEF Blocking, k
<1>15. QED BY <1>4, <1>5, <1>6, <1>7, <1>8, <1>9, <1>10, <1>11, <1>12, <1>13, <1>14 DEF Shape

\* After a call from which a task is found to be ready.
LEMMA ShapeAfterPair ==
  ASSUME NEW L \in Seq(Calls), L # <<>>, Shape(L), L[1].op \in {"decrement", "requeue"},
         L[1].op = "decrement" => L[1].task \notin Owned(L),
         NEW F \in {PairOf(L[1].task), <<SetStatus(L[1].task, "PENDING")>>},
         NEW N, N = F \o Tail(L)
  PROVE  /\ N \in Seq(Calls) /\ N # <<>> /\ N[1].op = "status" /\ Shape(N)
         /\ Owned(N) \subseteq Owned(L) \cup {L[1].task}
         /\ Telling(N) \subseteq Telling(L)
         /\ L[1].op = "decrement" => L[1].task \in Telling(L) \ Telling(N)
         /\ Blocking(N) \subseteq Blocking(L)
<1> DEFINE k == Len(F)
           t == L[1].task
<1>t. t \in Tasks /\ L[1] \in Calls /\ 1 \in 1..Len(L)
  <2>1. Len(L) \in Nat \ {0} /\ L[1] \in Calls
    BY EmptySeq, ElementOfSeq
  <2>2. QED BY <2>1, CallFields DEF TaskOps
<1>f. /\ F \in Seq(Calls) /\ k \in {1, 2} /\ F[1].op = "status" /\ F[1].task = t
      /\ F[1].to \in {"READY", "PENDING"}
      /\ k = 2 => F[2].op = "ready" /\ F[2].task = t /\ F[1].to = "READY"
  <2>1. \A s \in Status \ {"BLOCKED"} : SetStatus(t, s) \in Calls
    BY <1>t, CallsMade
  <2>2. SetStatus(t, "READY") \in Calls /\ SetStatus(t, "PENDING") \in Calls /\ AddToReady(t) \in Calls
    BY <1>t, <2>1, CallsMade DEF Status
  <2>3. CASE F = PairOf(t)
    BY <2>2, <2>3 DEF PairOf, SetStatus, AddToReady
  <2>4. CASE F = <<SetStatus(t, "PENDING")>>
    BY <2>2, <2>4 DEF SetStatus
  <2>5. QED BY <2>3, <2>4
<1>1. /\ N \in Seq(Calls) /\ Len(L) \in Nat \ {0} /\ k \in Int /\ Len(N) = k + Len(L) - 1
      /\ \A i \in 1..k : N[i] = F[i]
      /\ \A i \in k+1..Len(N) : N[i] = L[i - k + 1]
  BY <1>f, CallsLeft
<1> HIDE DEF k, t
<1>n. Len(N) \in Int /\ Len(L) \in Int /\ k \in {1, 2} /\ Len(N) >= k
  BY <1>f, <1>1
<1>2. /\ N[1].op = "status" /\ N[1].task = t /\ N[1].to \in {"READY", "PENDING"}
      /\ k = 2 => N[2].op = "ready" /\ N[2].task = t /\ N[1].to = "READY"
  BY <1>f, <1>1
<1>3. \A i \in 1..Len(N) : i \in Int /\
        \/ i = 1
        \/ i = 2 /\ k = 2
        \/ i > k /\ i >= 2 /\ i - k + 1 \in 2..Len(L) /\ i - k + 1 \in 1..Len(L) /\ N[i] = L[i - k + 1]
  <2>1. SUFFICES ASSUME NEW i \in 1..Len(N), i # 1, ~(i = 2 /\ k = 2)
                 PROVE  i > k /\ i >= 2 /\ i - k + 1 \in 2..Len(L) /\ i - k + 1 \in 1..Len(L)
                        /\ i \in k+1..Len(N)
    BY <1>1, <1>n
  <2>2. Len(N) = k + Len(L) - 1
    BY <1>1
  <2>3. QED BY <1>n, <2>1, <2>2
<1>4. \A j \in 2..Len(L) : L[j].op \in OwnOps => L[j].task # t
  <2>1. SUFFICES ASSUME NEW j \in 2..Len(L), L[j].op \in OwnOps, L[j].task = t
                 PROVE  FALSE
    OBVIOUS
  <2>2. j \in 1..Len(L)
    BY <1>n
  <2>3. L[1].op = "requeue"
    BY <1>t, <2>1, <2>2 DEF Owned, t
  <2>4. ~Settles(L[j])
    BY <1>t, <2>1, <2>2, <2>3 DEF Shape, SettledOnce, Settles, t
  <2>5. L[j].op = "ready"
    BY <2>1, <2>4 DEF Settles, OwnOps
  <2>6. L[j-1].op = "status" /\ L[j-1].task = t /\ j - 1 \in 1..Len(L)
    BY <2>1, <2>2, <2>5, <1>n DEF Shape, ReadyAfterStatus
  <2>7. j - 1 = 1
    BY <1>t, <2>3, <2>6 DEF Shape, SettledOnce, Settles, t
  <2>8. QED BY <2>3, <2>6, <2>7
<1>5. SettledOnce(N)
  <2>1. SUFFICES ASSUME NEW i \in 1..Len(N), NEW j \in 1..Len(N),
                        Settles(N[i]), Settles(N[j]), N[i].task = N[j].task, i # j
                 PROVE  FALSE
    BY DEF SettledOnce
  <2>2. ~(i = 1 /\ j # 1) /\ ~(j = 1 /\ i # 1)
    BY <1>2, <1>3, <1>4, <2>1 DEF Settles, OwnOps
  <2>3. i > k /\ j > k /\ N[i] = L[i-k+1] /\ N[j] = L[j-k+1] /\ i-k+1 \in 1..Len(L) /\ j-k+1 \in 1..Len(L)
    BY <1>2, <1>3, <2>1, <2>2 DEF Settles
  <2>4. i-k+1 = j-k+1
    BY <2>1, <2>3 DEF Shape, SettledOnce
  <2>5. QED BY SMTT(30), <1>3, <1>n, <2>1, <2>4
<1>6. ReadyAfterStatus(N)
  <2>1. SUFFICES ASSUME NEW i \in 1..Len(N), N[i].op = "ready"
                 PROVE  i # 1 /\ N[i-1].op = "status" /\ N[i-1].task = N[i].task /\ N[i-1].to = "READY"
    BY DEF ReadyAfterStatus
  <2>2. CASE i = 2 /\ k = 2
    BY <1>2, <2>2
  <2>3. CASE i > k /\ i >= 2 /\ i - k + 1 \in 2..Len(L) /\ i - k + 1 \in 1..Len(L) /\ N[i] = L[i - k + 1]
    <3> DEFINE m == i - k + 1
    <3>1. L[m-1].op = "status" /\ L[m-1].task = L[m].task /\ L[m-1].to = "READY" /\ L[m] = N[i]
      BY <2>1, <2>3 DEF Shape, ReadyAfterStatus
    <3>2. m # 2
      BY <3>1
    <3>3. i - 1 \in 1..Len(N) /\ i - 1 > k /\ (i - 1) - k + 1 = m - 1
      BY <1>n, <1>3, <2>3, <3>2
    <3>4. N[i-1] = L[m-1]
      BY <1>1, <1>n, <3>3
    <3>5. i # 1
      BY <1>n, <2>3
    <3>6. QED BY <3>1, <3>4, <3>5
  <2>4. QED BY <1>2, <1>3, <2>1, <2>2, <2>3
<1>7. PropagateAfterFailed(N)
  <2>1. SUFFICES ASSUME NEW i \in 2..Len(N), N[i].op = "propagate"
                 PROVE  N[i-1].op = "status" /\ N[i-1].task = N[i].task /\ N[i-1].to = "FAILED"
    BY DEF PropagateAfterFailed
  <2>2. i \in 1..Len(N) /\ ~(i = 2 /\ k = 2) /\ i # 1
    BY <1>2, <1>n, <2>1
  <2>3. i > k /\ i >= 2 /\ i - k + 1 \in 2..Len(L) /\ N[i] = L[i - k + 1]
    BY <1>3, <2>2
  <2> DEFINE m == i - k + 1
  <2>4. L[m-1].op = "status" /\ L[m-1].task = L[m].task /\ L[m-1].to = "FAILED" /\ L[m] = N[i]
    BY <2>1, <2>3 DEF Shape, PropagateAfterFailed
  <2>5. m # 2
    BY <2>4
  <2>6. i - 1 \in 1..Len(N) /\ i - 1 > k /\ (i - 1) - k + 1 = m - 1
    BY <1>n, <1>3, <2>3, <2>5
  <2>7. N[i-1] = L[m-1]
    BY <1>1, <1>n, <2>6
  <2>8. QED BY <2>4, <2>7
<1>8. \A i \in 1..Len(N) : N[i].op \in {"decrement", "block"} \/ Satisfies(N[i]) =>
        i > k /\ i \in Int /\ i - k + 1 \in 2..Len(L) /\ i - k + 1 \in 1..Len(L) /\ N[i] = L[i-k+1]
  BY <1>2, <1>3 DEF Satisfies, Satisfied
<1>9. ToldOnce(N)
  <2>1. SUFFICES ASSUME NEW i \in 1..Len(N), NEW j \in 1..Len(N), N[i].op = "decrement",
                        N[j].op = "decrement", N[i].task = N[j].task
                 PROVE  i = j
    BY DEF ToldOnce
  <2>2. i-k+1 = j-k+1
    BY <1>8, <2>1 DEF Shape, ToldOnce
  <2>3. QED BY SMTT(30), <1>8, <1>n, <2>1, <2>2
<1>10. ToldAfterStatus(N)
  <2>1. SUFFICES ASSUME NEW i \in 1..Len(N), NEW j \in 1..Len(N), N[i].op = "decrement", Satisfies(N[j])
                 PROVE  j < i /\ N[j].task \in Deps[N[i].task]
    BY DEF ToldAfterStatus
  <2>2. j-k+1 < i-k+1 /\ L[j-k+1].task \in Deps[L[i-k+1].task] /\ N[i] = L[i-k+1] /\ N[j] = L[j-k+1]
    BY <1>8, <2>1 DEF Shape, ToldAfterStatus
  <2>3. i \in Int /\ j \in Int /\ k \in Int
    BY <1>3, <1>n
  <2>4. j < i
    BY <2>2, <2>3
  <2>5. QED BY <2>2, <2>4
<1>11. SatisfiedOnce(N)
  <2>1. SUFFICES ASSUME NEW i \in 1..Len(N), NEW j \in 1..Len(N), Satisfies(N[i]), Satisfies(N[j])
                 PROVE  i = j
    BY DEF SatisfiedOnce
  <2>2. i-k+1 = j-k+1
    BY <1>8, <2>1 DEF Shape, SatisfiedOnce
  <2>3. i \in Int /\ j \in Int
    BY <1>3
  <2>4. QED BY <1>n, <2>2, <2>3
<1>12. Owned(N) \subseteq Owned(L) \cup {t}
  <2>1. SUFFICES ASSUME NEW x \in Tasks, NEW i \in 1..Len(N), N[i].op \in OwnOps, N[i].task = x, x # t
                 PROVE  \E j \in 1..Len(L) : L[j].op \in OwnOps /\ L[j].task = x
    BY DEF Owned
  <2>2. i - k + 1 \in 1..Len(L) /\ N[i] = L[i-k+1]
    BY <1>2, <1>3, <2>1
  <2>3. QED BY <2>1, <2>2
<1>13. Telling(N) \subseteq Telling(L)
  <2>1. SUFFICES ASSUME NEW x \in Telling(N) PROVE x \in Telling(L)
    OBVIOUS
  <2>2. PICK i \in 1..Len(N) : N[i].op = "decrement" /\ N[i].task = x
    BY <2>1 DEF Telling
  <2>3. \A j \in 1..Len(L) : ~Satisfies(L[j])
    <3>1. SUFFICES ASSUME NEW j \in 1..Len(L), Satisfies(L[j]) PROVE FALSE
      OBVIOUS
    <3>2. j # 1 /\ j \in Int /\ j >= 2 /\ j <= Len(L)
      BY <3>1, <1>n DEF Satisfies
    <3>3. j + k - 1 \in 1..Len(N) /\ j + k - 1 \in k+1..Len(N) /\ (j + k - 1) - k + 1 = j
      BY <1>1, <1>n, <3>2
    <3>4. N[j + k - 1] = L[j]
      BY <1>1, <3>3
    <3>5. QED BY <2>1, <3>1, <3>3, <3>4 DEF Telling
  <2>4. QED BY SMTT(30), <1>8, <2>1, <2>2, <2>3 DEF Telling
<1>14. L[1].op = "decrement" => t \in Telling(L) \ Telling(N)
  <2>1. SUFFICES ASSUME L[1].op = "decrement"
                 PROVE  t \in Telling(L) /\ t \notin Telling(N)
    OBVIOUS
  <2>2. \A j \in 1..Len(L) : ~Satisfies(L[j])
    BY <1>t, <1>n, <2>1 DEF Shape, ToldAfterStatus
  <2>3. t \in Telling(L)
    BY <1>t, <2>1, <2>2 DEF Telling, t
  <2>4. SUFFICES ASSUME NEW i \in 1..Len(N), N[i].op = "decrement", N[i].task = t
                 PROVE  FALSE
    BY <2>3 DEF Telling
  <2>5. QED BY <1>t, <1>8, <2>1, <2>4, SMTT(20) DEF Shape, ToldOnce, t
<1>15. Blocking(N) \subseteq Blocking(L)
  BY <1>8 DEF Blocking
<1>16. QED BY <1>1, <1>2, <1>n, <1>5, <1>6, <1>7, <1>9, <1>10, <1>11, <1>12, <1>13, <1>14, <1>15 DEF Shape, t

-----------------------------------------------------------------------------
(***************************************************************************)
(* The calls a handler starts with.                                        *)
(***************************************************************************)

\* SetToSeq lists each element of a finite set, once.
LEMMA SetToSeqLists ==
  ASSUME NEW S, IsFiniteSet(S)
  PROVE  /\ SetToSeq(S) \in Seq(S)
         /\ \A i, j \in 1..Len(SetToSeq(S)) : SetToSeq(S)[i] = SetToSeq(S)[j] => i = j
         /\ \A x \in S : \E i \in 1..Len(SetToSeq(S)) : SetToSeq(S)[i] = x
<1> DEFINE n == Cardinality(S)
           Lists(f) == f \in [1..n -> S] /\ IsInjective(f)
           g == SetToSeq(S)
<1>1. n \in Nat /\ ExistsBijection(1..n, S)
  BY FS_CardinalityType
<1>2. \E f : Lists(f)
  BY <1>1 DEF ExistsBijection, Bijection, Injection, IsInjective
<1>3. g = CHOOSE f \in [1..n -> S] : IsInjective(f)
  BY DEF SetToSeq
<1>4. g \in [1..n -> S] /\ IsInjective(g)
  BY <1>2, <1>3
<1>5. g \in Injection(1..n, S)
  BY <1>4 DEF IsInjective, Injection
<1>6. IsFiniteSet(1..n) /\ Cardinality(1..n) = n
  BY <1>1, FS_Interval
<1> HIDE DEF g
<1>7. g \in Surjection(1..n, S)
  BY <1>5, <1>6, FS_Injection
<1>8. g \in Seq(S) /\ Len(g) = n
  BY <1>1, <1>4, SeqDef
<1>9. \A x \in S : \E i \in 1..n : g[i] = x
  BY <1>7 DEF Surjection
<1>10. QED BY <1>4, <1>8, <1>9 DEF g, IsInjective

\* A set of calls as a sequence of calls.
LEMMA CallsListed ==
  ASSUME NEW S, IsFiniteSet(S), S \subseteq Calls
  PROVE  /\ SetToSeq(S) \in Seq(Calls)
         /\ \A i \in 1..Len(SetToSeq(S)) : SetToSeq(S)[i] \in S
         /\ \A i, j \in 1..Len(SetToSeq(S)) : SetToSeq(S)[i] = SetToSeq(S)[j] => i = j
<1>1. SetToSeq(S) \in Seq(S)
  BY SetToSeqLists
<1>2. QED BY <1>1, SetToSeqLists, SeqMonotonic, ElementOfSeq

LEMMA DependentsTold ==
  ASSUME NEW t \in Tasks
  PROVE  /\ NotifyDependents(t) \in Seq(Calls)
         /\ \A i \in 1..Len(NotifyDependents(t)) :
              /\ NotifyDependents(t)[i].op = "decrement"
              /\ NotifyDependents(t)[i].task \in Tasks
              /\ t \in Deps[NotifyDependents(t)[i].task]
         /\ \A i, j \in 1..Len(NotifyDependents(t)) :
              NotifyDependents(t)[i].task = NotifyDependents(t)[j].task => i = j
         /\ \A d \in Dependents(t) : \E i \in 1..Len(NotifyDependents(t)) : NotifyDependents(t)[i].task = d
<1> DEFINE S == {Decrement(d) : d \in Dependents(t)}
           D == NotifyDependents(t)
<1>1. IsFiniteSet(S)
  <2>1. IsFiniteSet(Dependents(t))
    BY FS_Subset, RecoveryConstants DEF Dependents
  <2> DEFINE f == [d \in Dependents(t) |-> Decrement(d)]
  <2>2. f \in Surjection(Dependents(t), S)
    BY DEF Surjection
  <2>3. QED BY <2>1, <2>2, FS_Surjection
<1>2. S \subseteq Calls
  BY CallsMade DEF Dependents
<1>3. D = SetToSeq(S)
  BY DEF NotifyDependents
<1>4. \A w \in S : w.op = "decrement" /\ w.task \in Tasks /\ t \in Deps[w.task] /\ w = Decrement(w.task)
  BY DEF Dependents, Decrement
<1> HIDE DEF S, D
<1>5. /\ D \in Seq(Calls)
      /\ \A i \in 1..Len(D) : D[i] \in S
      /\ \A i, j \in 1..Len(D) : D[i] = D[j] => i = j
  BY <1>1, <1>2, <1>3, CallsListed
<1>6. \A i, j \in 1..Len(D) : D[i].task = D[j].task => i = j
  BY <1>4, <1>5
<1>7. \A d \in Dependents(t) : \E i \in 1..Len(D) : D[i].task = d
  <2>1. \A d \in Dependents(t) : Decrement(d) \in S /\ Decrement(d).task = d
    BY DEF S, Decrement
  <2>2. \A x \in S : \E i \in 1..Len(D) : D[i] = x
    BY <1>1, <1>3, SetToSeqLists
  <2>3. QED BY <2>1, <2>2
<1>8. QED BY <1>4, <1>5, <1>6, <1>7 DEF D

\* The calls for a task that is completed, skipped or failed have the shape; only the
\* task is theirs, and nothing is told or blocked yet.
Prepared(L, t) ==
  /\ L \in Seq(Calls) /\ L # <<>> /\ Shape(L)
  /\ Owned(L) \subseteq {t} /\ Telling(L) = {} /\ Blocking(L) = {}
  /\ L[1].op \notin {"ready", "propagate"}

\* The calls L for an outcome o of t: written at a, told up to b, counted next.
OutcomeCalls(L, t, o, a, b) ==
  /\ L \in Seq(Calls) /\ a \in {1, 2} /\ b \in Nat /\ a <= b /\ Len(L) = b + 3
  /\ b = a + Len(NotifyDependents(t))
  /\ \A i \in 1..Len(L) : i \in Int /\
       \/ i = a /\ L[i].op = "status" /\ L[i].task = t /\ L[i].to = o
       \/ i < a /\ L[i].op = "answer" /\ L[i].task = t
       \/ /\ a < i /\ i <= b /\ L[i].op = "decrement"
          /\ i - a \in 1..Len(NotifyDependents(t)) /\ L[i] = NotifyDependents(t)[i - a]
       \/ i = b + 1 /\ L[i].op = "increment" /\ L[i].outcome = o /\ L[i].by = 1
       \/ i = b + 2 /\ L[i].op = "finalize"
       \/ i = b + 3 /\ L[i].op = "mark"

LEMMA OutcomeListed ==
  ASSUME NEW t \in Tasks, NEW o \in Satisfied,
         NEW A \in {<<SetStatus(t, o)>>, <<StoreAnswer(t), SetStatus(t, o)>>}
  PROVE  \E b \in Nat : OutcomeCalls(A \o NotifyDependents(t) \o MarkTask(o), t, o, Len(A), b)
<1> DEFINE D == NotifyDependents(t)
           M == MarkTask(o)
           L == A \o D \o M
           a == Len(A)
           b == Len(A) + Len(D)
<1>1. /\ A \in Seq(Calls) /\ a \in {1, 2}
      /\ A[a].op = "status" /\ A[a].task = t /\ A[a].to = o
      /\ a = 2 => A[1].op = "answer" /\ A[1].task = t
  <2>1. \A s \in Status \ {"BLOCKED"} : SetStatus(t, s) \in Calls
    BY CallsMade
  <2>2. SetStatus(t, o) \in Calls /\ StoreAnswer(t) \in Calls
    BY <2>1, CallsMade DEF Status, Satisfied, Outcomes
  <2>3. CASE A = <<SetStatus(t, o)>>
    BY <2>2, <2>3 DEF SetStatus
  <2>4. CASE A = <<StoreAnswer(t), SetStatus(t, o)>>
    BY <2>2, <2>4 DEF SetStatus, StoreAnswer
  <2>5. QED BY <2>3, <2>4
<1>2. /\ M \in Seq(Calls) /\ Len(M) = 3
      /\ M[1].op = "increment" /\ M[1].outcome = o /\ M[1].by = 1
      /\ M[2].op = "finalize" /\ M[3].op = "mark"
  <2>1. Increment(o, 1) \in Calls /\ Finalize \in Calls /\ MarkInterview \in Calls
    BY CallsMade DEF Satisfied, Outcomes
  <2>2. QED BY <2>1 DEF MarkTask, Increment, Finalize, MarkInterview
<1>3. D \in Seq(Calls) /\ Len(D) \in Nat
  BY DependentsTold, LenProperties
<1>4. A \o D \in Seq(Calls) /\ Len(A \o D) = b
      /\ \A i \in 1..b : (A \o D)[i] = IF i <= a THEN A[i] ELSE D[i - a]
  BY <1>1, <1>3, ConcatProperties
<1>5. L \in Seq(Calls) /\ Len(L) = b + 3
      /\ \A i \in 1..b + 3 : L[i] = IF i <= b THEN (A \o D)[i] ELSE M[i - b]
  <2> DEFINE AD == A \o D
  <2> HIDE DEF AD, M, b
  <2>1. AD \in Seq(Calls) /\ M \in Seq(Calls) /\ Len(AD) = b /\ Len(M) = 3 /\ L = AD \o M
    BY <1>2, <1>4 DEF AD
  <2>2. /\ AD \o M \in Seq(Calls) /\ Len(AD \o M) = Len(AD) + Len(M)
        /\ \A i \in 1..Len(AD) + Len(M) :
             (AD \o M)[i] = IF i <= Len(AD) THEN AD[i] ELSE M[i - Len(AD)]
    BY <2>1, ConcatProperties
  <2>3. /\ L \in Seq(Calls) /\ Len(L) = b + 3
        /\ \A i \in 1..b + 3 : L[i] = IF i <= b THEN AD[i] ELSE M[i - b]
    BY <2>1, <2>2
  <2>4. QED BY <2>3 DEF AD
<1> HIDE DEF D, M, L, a, b
<1>n. a \in {1, 2} /\ b \in Nat /\ b >= a /\ b = a + Len(D)
  BY <1>1, <1>3 DEF a, b
<1>6. \A i \in 1..Len(L) : i \in Int /\
        \/ i = a /\ L[i].op = "status" /\ L[i].task = t /\ L[i].to = o
        \/ i < a /\ L[i].op = "answer" /\ L[i].task = t
        \/ a < i /\ i <= b /\ i - a \in 1..Len(D) /\ L[i] = D[i - a] /\ L[i].op = "decrement"
        \/ i = b + 1 /\ L[i].op = "increment" /\ L[i].outcome = o /\ L[i].by = 1
        \/ i = b + 2 /\ L[i].op = "finalize"
        \/ i = b + 3 /\ L[i].op = "mark"
  <2>1. TAKE i \in 1..Len(L)
  <2>2. CASE i <= a
    BY <1>1, <1>4, <1>5, <1>n, <2>2
  <2>3. CASE a < i /\ i <= b
    <3>1. i - a \in 1..Len(D)
      BY <1>3, <1>n, <1>5, <2>3
    <3>2. L[i] = D[i - a]
      BY <1>4, <1>5, <1>n, <2>3
    <3>3. QED BY <2>3, <3>1, <3>2, DependentsTold DEF D
  <2>4. CASE b < i
    <3>1. i - b \in {1, 2, 3} /\ L[i] = M[i - b] /\ i \in Int
      BY <1>5, <1>n, <2>4
    <3>2. i = b + 1 \/ i = b + 2 \/ i = b + 3
      BY <1>n, <3>1
    <3>3. CASE i = b + 1
      BY <1>2, <1>n, <3>1, <3>3
    <3>4. CASE i = b + 2
      BY <1>2, <1>n, <3>1, <3>4
    <3>5. CASE i = b + 3
      BY <1>2, <1>n, <3>1, <3>5
    <3>6. QED BY <3>2, <3>3, <3>4, <3>5
  <2>5. QED BY <1>5, <1>n, <2>2, <2>3, <2>4
<1>7. OutcomeCalls(L, t, o, a, b)
  <2>1. b = a + Len(NotifyDependents(t))
    BY <1>n DEF D
  <2>2. QED BY <1>5, <1>6, <1>n, <2>1 DEF OutcomeCalls, D
<1>8. QED BY <1>7, <1>n DEF L, D, M, a

LEMMA OutcomePrepared ==
  ASSUME NEW t \in Tasks, NEW o \in Satisfied,
         NEW A \in {<<SetStatus(t, o)>>, <<StoreAnswer(t), SetStatus(t, o)>>}
  PROVE  Prepared(A \o NotifyDependents(t) \o MarkTask(o), t)
<1> DEFINE D == NotifyDependents(t)
           L == A \o D \o MarkTask(o)
           a == Len(A)
<1>1. \E b \in Nat : OutcomeCalls(L, t, o, a, b)
  BY OutcomeListed
<1> HIDE DEF L, a
<1>2. PICK b \in Nat : OutcomeCalls(L, t, o, a, b)
  BY <1>1
<1>5. L \in Seq(Calls) /\ Len(L) = b + 3
  BY <1>2 DEF OutcomeCalls
<1>n. a \in {1, 2} /\ b \in Nat /\ b >= a
  BY <1>2 DEF OutcomeCalls
<1>6. \A i \in 1..Len(L) : i \in Int /\
        \/ i = a /\ L[i].op = "status" /\ L[i].task = t /\ L[i].to = o
        \/ i < a /\ L[i].op = "answer"
        \/ a < i /\ i <= b /\ i - a \in 1..Len(D) /\ L[i] = D[i - a] /\ L[i].op = "decrement"
        \/ b < i /\ L[i].op \in {"increment", "finalize", "mark"}
  <2>1. \A i \in 1..Len(L) : i \in Int /\
          \/ i = a /\ L[i].op = "status" /\ L[i].task = t /\ L[i].to = o
          \/ i < a /\ L[i].op = "answer" /\ L[i].task = t
          \/ a < i /\ i <= b /\ L[i].op = "decrement" /\ i - a \in 1..Len(D) /\ L[i] = D[i - a]
          \/ i = b + 1 /\ L[i].op = "increment" /\ L[i].outcome = o /\ L[i].by = 1
          \/ i = b + 2 /\ L[i].op = "finalize"
          \/ i = b + 3 /\ L[i].op = "mark"
    BY <1>2 DEF OutcomeCalls
  <2>2. b < b + 1 /\ b < b + 2 /\ b < b + 3
    BY <1>n
  <2> HIDE DEF D
  <2>3. QED BY <2>1, <2>2
<1> HIDE DEF D
<1>7. \A i \in 1..Len(L) : L[i].op = "decrement" => a < i /\ i - a \in 1..Len(D) /\ L[i] = D[i - a]
  BY <1>6
<1>8. \A i \in 1..Len(L) : L[i].op \in OwnOps => i = a /\ L[i].op = "status" /\ L[i].task = t
  BY <1>6 DEF OwnOps
<1>9. a \in 1..Len(L) /\ Satisfies(L[a])
  <2>1. a \in 1..Len(L)
    BY <1>5, <1>n
  <2>2. QED BY <1>6, <1>n, <2>1 DEF Satisfies
<1>10. Shape(L)
  <2>1. SettledOnce(L) /\ SatisfiedOnce(L) /\ ReadyAfterStatus(L)
    BY <1>8 DEF SettledOnce, SatisfiedOnce, ReadyAfterStatus, Settles, Satisfies, OwnOps
  <2>2. PropagateAfterFailed(L)
    <3>1. \A i \in 2..Len(L) : i \in 1..Len(L)
      BY <1>5
    <3>2. QED BY <1>6, <3>1 DEF PropagateAfterFailed
  <2>3. ToldOnce(L)
    <3>1. SUFFICES ASSUME NEW i \in 1..Len(L), NEW j \in 1..Len(L), L[i].op = "decrement",
                          L[j].op = "decrement", L[i].task = L[j].task
                   PROVE  i = j
      BY DEF ToldOnce
    <3>2. i - a = j - a
      BY <1>7, <3>1, DependentsTold DEF D
    <3>3. QED BY <1>6, <1>n, <3>2
  <2>4. ToldAfterStatus(L)
    <3>1. SUFFICES ASSUME NEW i \in 1..Len(L), NEW j \in 1..Len(L), L[i].op = "decrement", Satisfies(L[j])
                   PROVE  j < i /\ L[j].task \in Deps[L[i].task]
      BY DEF ToldAfterStatus
    <3>2. j = a /\ L[j].task = t
      BY <1>8, <3>1 DEF Satisfies, OwnOps
    <3>3. a < i /\ i - a \in 1..Len(D) /\ L[i] = D[i - a]
      BY <1>7, <3>1
    <3>4. \A k \in 1..Len(D) : t \in Deps[D[k].task]
      BY DependentsTold DEF D
    <3>5. QED BY <3>2, <3>3, <3>4
  <2>5. QED BY <2>1, <2>2, <2>3, <2>4 DEF Shape
<1>11. Owned(L) \subseteq {t} /\ Telling(L) = {} /\ Blocking(L) = {}
  <2>1. Owned(L) \subseteq {t}
    BY <1>8 DEF Owned
  <2>2. Telling(L) = {}
    BY <1>9 DEF Telling
  <2>3. \A i \in 1..Len(L) : L[i].op # "block"
    BY <1>6
  <2>4. QED BY <2>1, <2>2, <2>3 DEF Blocking
<1>12. L # <<>> /\ L[1].op \notin {"ready", "propagate"}
  <2>1. 1 \in 1..Len(L)
    BY <1>5, <1>n
  <2>2. QED BY <1>5, <1>6, <2>1, EmptySeq
<1>13. Prepared(L, t)
  BY <1>5, <1>10, <1>11, <1>12 DEF Prepared
<1>14. QED BY <1>13 DEF L, D

LEMMA ThreeCalls ==
  ASSUME NEW x \in Calls, NEW y \in Calls, NEW z \in Calls
  PROVE  <<x>> \o <<y, z>> = <<x, y, z>>
<1> DEFINE s == <<x>>
           u == <<y, z>>
<1>1. s \in Seq(Calls) /\ u \in Seq(Calls) /\ <<x, y, z>> \in Seq(Calls)
      /\ Len(s) = 1 /\ Len(u) = 2 /\ s[1] = x /\ u[1] = y /\ u[2] = z
  OBVIOUS
<1> HIDE DEF s, u
<1>2. s \o u \in Seq(Calls) /\ Len(s \o u) = Len(s) + Len(u)
      /\ \A i \in 1..Len(s) + Len(u) : (s \o u)[i] = IF i <= Len(s) THEN s[i] ELSE u[i - Len(s)]
  BY <1>1, ConcatProperties
<1>3. s \o u = <<x, y, z>>
  <2>1. Len(s \o u) = 3 /\ (s \o u)[1] = x /\ (s \o u)[2] = y /\ (s \o u)[3] = z
    BY <1>1, <1>2
  <2>2. \A i \in 1..3 : (s \o u)[i] = <<x, y, z>>[i]
    BY <2>1
  <2>3. QED BY <1>1, <1>2, <2>1, <2>2, SeqEqual
<1>4. QED BY <1>3 DEF s, u

LEMMA SixCalls ==
  ASSUME NEW a \in Calls, NEW b \in Calls, NEW c \in Calls, NEW x \in Calls, NEW y \in Calls, NEW z \in Calls
  PROVE  <<a>> \o (<<b, c>> \o <<x, y, z>>) = <<a, b, c, x, y, z>>
<1> DEFINE s == <<b, c>>
           u == <<x, y, z>>
           v == <<a>>
           w == s \o u
<1>1. s \in Seq(Calls) /\ u \in Seq(Calls) /\ v \in Seq(Calls) /\ <<a, b, c, x, y, z>> \in Seq(Calls)
      /\ Len(s) = 2 /\ Len(u) = 3 /\ s[1] = b /\ s[2] = c /\ u[1] = x /\ u[2] = y /\ u[3] = z
      /\ Len(v) = 1 /\ v[1] = a
  OBVIOUS
<1>a. s \in Seq(Calls) /\ u \in Seq(Calls) /\ v \in Seq(Calls)
  BY <1>1
<1> HIDE DEF s, u, v
<1>2. w \in Seq(Calls) /\ Len(w) = Len(s) + Len(u)
      /\ \A i \in 1..Len(s) + Len(u) : w[i] = IF i <= Len(s) THEN s[i] ELSE u[i - Len(s)]
  BY <1>a, ConcatProperties
<1>3. Len(w) = 5 /\ w[1] = b /\ w[2] = c /\ w[3] = x /\ w[4] = y /\ w[5] = z
  BY <1>1, <1>2
<1> HIDE DEF w
<1>4. v \o w \in Seq(Calls) /\ Len(v \o w) = Len(v) + Len(w)
      /\ \A i \in 1..Len(v) + Len(w) : (v \o w)[i] = IF i <= Len(v) THEN v[i] ELSE w[i - Len(v)]
  <2>1. w \in Seq(Calls)
    BY <1>2
  <2>2. QED BY <1>a, <2>1, ConcatProperties
<1>5. v \o w = <<a, b, c, x, y, z>>
  <2> DEFINE r == v \o w
  <2>1. Len(r) = 6 /\ r[1] = a /\ r[2] = b /\ r[3] = c /\ r[4] = x /\ r[5] = y /\ r[6] = z
    BY <1>1, <1>3, <1>4
  <2> HIDE DEF r
  <2>2. \A i \in 1..6 : r[i] = <<a, b, c, x, y, z>>[i]
    BY <2>1
  <2>3. r \in Seq(Calls)
    BY <1>4 DEF r
  <2>4. r = <<a, b, c, x, y, z>>
    BY <1>1, <2>1, <2>2, <2>3, SeqEqual
  <2>5. QED BY <2>4 DEF r
<1>6. QED BY <1>5 DEF s, u, v, w

\* The calls for a failure that is tried again, and for one that is final.
LEMMA FailurePrepared ==
  ASSUME NEW t \in Tasks
  PROVE  /\ Prepared(<<CountAttempt(t)>> \o <<SetStatus(t, "READY"), AddToReady(t)>>, t)
         /\ Prepared(<<CountAttempt(t)>> \o (<<SetStatus(t, "FAILED"), Propagate(t)>> \o MarkTask("FAILED")), t)
<1> DEFINE R == <<CountAttempt(t), SetStatus(t, "READY"), AddToReady(t)>>
           X == <<CountAttempt(t), SetStatus(t, "FAILED"), Propagate(t), Increment("FAILED", 1), Finalize, MarkInterview>>
<1>0. \A s \in Status \ {"BLOCKED"} : SetStatus(t, s) \in Calls
  BY CallsMade
<1>1. SetStatus(t, "READY") \in Calls /\ SetStatus(t, "FAILED") \in Calls
  BY <1>0 DEF Status, Outcomes
<1>2. CountAttempt(t) \in Calls /\ AddToReady(t) \in Calls /\ Propagate(t) \in Calls
      /\ Increment("FAILED", 1) \in Calls /\ Finalize \in Calls /\ MarkInterview \in Calls
  BY CallsMade DEF Outcomes
<1>3. <<CountAttempt(t)>> \o <<SetStatus(t, "READY"), AddToReady(t)>> = R
  BY <1>1, <1>2, ThreeCalls
<1>4. <<CountAttempt(t)>> \o (<<SetStatus(t, "FAILED"), Propagate(t)>> \o MarkTask("FAILED")) = X
  BY <1>1, <1>2, SixCalls DEF MarkTask
<1>5. Prepared(R, t)
  <2>1. R \in Seq(Calls) /\ R # <<>> /\ Len(R) = 3
    BY <1>1, <1>2
  <2>2. R[1].op = "attempt" /\ R[2].op = "status" /\ R[2].task = t /\ R[2].to = "READY"
        /\ R[3].op = "ready" /\ R[3].task = t
    BY DEF CountAttempt, SetStatus, AddToReady
  <2> HIDE DEF R
  <2>3. \A i \in 1..Len(R) : i \in {1, 2, 3}
    BY <2>1
  <2>4. \A i \in 1..Len(R) : /\ Settles(R[i]) => i = 2
                             /\ R[i].op = "ready" => i = 3
                             /\ R[i].op \notin {"decrement", "propagate", "block"}
                             /\ ~Satisfies(R[i])
    BY <2>2, <2>3 DEF Settles, Satisfies, Satisfied
  <2>5. SettledOnce(R) /\ ToldOnce(R) /\ SatisfiedOnce(R) /\ ToldAfterStatus(R)
    BY <2>4 DEF SettledOnce, ToldOnce, SatisfiedOnce, ToldAfterStatus
  <2>6. ReadyAfterStatus(R)
    BY <2>2, <2>4 DEF ReadyAfterStatus
  <2>7. PropagateAfterFailed(R)
    BY <2>1, <2>4 DEF PropagateAfterFailed
  <2>8. Owned(R) \subseteq {t} /\ Telling(R) = {} /\ Blocking(R) = {}
    BY <2>2, <2>3, <2>4 DEF Owned, Telling, Blocking, OwnOps
  <2>9. QED BY <2>1, <2>2, <2>5, <2>6, <2>7, <2>8 DEF Prepared, Shape
<1>6. Prepared(X, t)
  <2>1. X \in Seq(Calls) /\ X # <<>> /\ Len(X) = 6
    BY <1>1, <1>2
  <2>2. X[1].op = "attempt" /\ X[2].op = "status" /\ X[2].task = t /\ X[2].to = "FAILED"
        /\ X[3].op = "propagate" /\ X[3].task = t /\ X[4].op = "increment" /\ X[5].op = "finalize"
        /\ X[6].op = "mark"
    BY DEF CountAttempt, SetStatus, Propagate, Increment, Finalize, MarkInterview
  <2> HIDE DEF X
  <2>3. \A i \in 1..Len(X) : i \in {1, 2, 3, 4, 5, 6}
    BY <2>1
  <2>4. \A i \in 1..Len(X) : /\ X[i].op \in OwnOps => i = 2
                             /\ X[i].op = "propagate" => i = 3
                             /\ X[i].op \notin {"decrement", "ready", "block"}
                             /\ ~Satisfies(X[i])
    BY <2>2, <2>3 DEF OwnOps, Satisfies, Satisfied
  <2>5. SettledOnce(X) /\ ToldOnce(X) /\ SatisfiedOnce(X) /\ ToldAfterStatus(X)
    BY <2>4 DEF SettledOnce, ToldOnce, SatisfiedOnce, ToldAfterStatus, Settles, OwnOps
  <2>6. ReadyAfterStatus(X)
    BY <2>4 DEF ReadyAfterStatus
  <2>7. PropagateAfterFailed(X)
    BY <2>1, <2>2, <2>4 DEF PropagateAfterFailed
  <2>8. Owned(X) \subseteq {t} /\ Telling(X) = {} /\ Blocking(X) = {}
    BY <2>2, <2>4 DEF Owned, Telling, Blocking
  <2>9. QED BY <2>1, <2>2, <2>5, <2>6, <2>7, <2>8 DEF Prepared, Shape
<1>7. QED BY <1>3, <1>4, <1>5, <1>6

\* The calls of the recovery: only claimed tasks are theirs.
RecoveryCalls ==
  SetToSeq({WriteCounter(o, Cardinality(WithStatus({o}))) : o \in Outcomes}) \o Requeues

LEMMA RecoveryPrepared ==
  ASSUME db \in StorageType
  PROVE  /\ RecoveryCalls \in Seq(Calls) /\ Shape(RecoveryCalls)
         /\ Owned(RecoveryCalls) \subseteq WithStatus(Claimed)
         /\ Telling(RecoveryCalls) = {} /\ Blocking(RecoveryCalls) = {}
         /\ \A i \in 1..Len(RecoveryCalls) : RecoveryCalls[i].op \notin {"ready", "propagate"}
<1> DEFINE L == RecoveryCalls
           N(o) == Cardinality(WithStatus({o}))
           W == {WriteCounter(o, N(o)) : o \in Outcomes}
           Q == {RequeueTask(t) : t \in WithStatus(Claimed)}
           C == SetToSeq(W)
           R == SetToSeq(Q)
<1>1. IsFiniteSet(W) /\ W \subseteq Calls /\ \A w \in W : w.op = "counter"
  <2>1. \A o \in Outcomes : N(o) \in Nat
    <3>1. TAKE o \in Outcomes
    <3>2. IsFiniteSet(WithStatus({o}))
      BY FS_Subset, RecoveryConstants DEF WithStatus
    <3>3. QED BY <3>2, FS_CardinalityType
  <2>2. IsFiniteSet(Outcomes)
    <3>1. Outcomes = (({"COMPLETED"} \cup {"SKIPPED"}) \cup {"FAILED"}) \cup {"BLOCKED"}
      BY DEF Outcomes
    <3>2. IsFiniteSet({"COMPLETED"})
      BY FS_Singleton
    <3>3. IsFiniteSet({"COMPLETED"} \cup {"SKIPPED"})
      BY <3>2, FS_AddElement
    <3>4. IsFiniteSet(({"COMPLETED"} \cup {"SKIPPED"}) \cup {"FAILED"})
      BY <3>3, FS_AddElement
    <3>5. QED BY <3>1, <3>4, FS_AddElement
  <2> DEFINE f == [o \in Outcomes |-> WriteCounter(o, N(o))]
  <2>3. f \in Surjection(Outcomes, W)
    BY DEF Surjection
  <2> HIDE DEF N
  <2>4. W \subseteq Calls /\ \A w \in W : w.op = "counter"
    BY <2>1, CallsMade DEF WriteCounter
  <2>5. QED BY <2>2, <2>3, <2>4, FS_Surjection
<1>2. IsFiniteSet(Q) /\ Q \subseteq Calls
      /\ \A w \in Q : w.op = "requeue" /\ w.task \in WithStatus(Claimed) /\ w = RequeueTask(w.task)
  <2>1. IsFiniteSet(WithStatus(Claimed))
    BY FS_Subset, RecoveryConstants DEF WithStatus
  <2> DEFINE f == [t \in WithStatus(Claimed) |-> RequeueTask(t)]
  <2>2. f \in Surjection(WithStatus(Claimed), Q)
    BY DEF Surjection
  <2>3. Q \subseteq Calls
    BY CallsMade DEF WithStatus
  <2>4. QED BY <2>1, <2>2, <2>3, FS_Surjection DEF RequeueTask
<1> HIDE DEF W, Q
<1>3. C \in Seq(Calls) /\ \A i \in 1..Len(C) : C[i].op = "counter"
  BY <1>1, CallsListed
<1>4. /\ R \in Seq(Calls)
      /\ \A i \in 1..Len(R) : R[i] \in Q
      /\ \A i, j \in 1..Len(R) : R[i] = R[j] => i = j
  BY <1>2, CallsListed
<1>5. L = C \o R
  BY DEF RecoveryCalls, Requeues, W, Q
<1> HIDE DEF C, R, L
<1>6. /\ L \in Seq(Calls) /\ Len(C) \in Nat /\ Len(R) \in Nat /\ Len(L) = Len(C) + Len(R)
      /\ \A i \in 1..Len(C) + Len(R) : L[i] = IF i <= Len(C) THEN C[i] ELSE R[i - Len(C)]
  <2>1. Len(C) \in Nat /\ Len(R) \in Nat
    BY <1>3, <1>4, LenProperties
  <2>2. C \o R \in Seq(Calls) /\ Len(C \o R) = Len(C) + Len(R)
        /\ \A i \in 1..Len(C) + Len(R) : (C \o R)[i] = IF i <= Len(C) THEN C[i] ELSE R[i - Len(C)]
    BY <1>3, <1>4, ConcatProperties
  <2>3. QED BY <1>5, <2>1, <2>2
<1>7. \A i \in 1..Len(L) : i \in Int /\
        \/ L[i].op = "counter"
        \/ L[i].op = "requeue" /\ L[i] = R[i - Len(C)] /\ i - Len(C) \in 1..Len(R) /\ L[i] \in Q
  <2>1. TAKE i \in 1..Len(L)
  <2>a. Len(C) \in Int /\ Len(R) \in Int /\ i \in Int /\ 1 <= i /\ i <= Len(C) + Len(R)
        /\ i \in 1..Len(C) + Len(R)
    BY <1>6
  <2>2. CASE i <= Len(C)
    <3>1. i \in 1..Len(C) /\ L[i] = C[i]
      BY <1>6, <2>a, <2>2
    <3>2. QED BY <1>3, <2>a, <3>1
  <2>3. CASE i > Len(C)
    <3>1. i - Len(C) \in 1..Len(R) /\ L[i] = R[i - Len(C)]
      <4>1. i - Len(C) \in 1..Len(R)
        BY <2>a, <2>3
      <4>2. L[i] = R[i - Len(C)]
        BY <1>6, <2>a, <2>3
      <4>3. QED BY <4>1, <4>2
    <3>2. QED BY <1>2, <1>4, <2>a, <3>1
  <2>4. QED BY <2>a, <2>2, <2>3
<1>8. SettledOnce(L)
  <2>1. SUFFICES ASSUME NEW i \in 1..Len(L), NEW j \in 1..Len(L),
                        Settles(L[i]), Settles(L[j]), L[i].task = L[j].task
                 PROVE  i = j
    BY DEF SettledOnce
  <2>2. L[i] \in Q /\ L[j] \in Q /\ L[i] = R[i - Len(C)] /\ L[j] = R[j - Len(C)]
        /\ i - Len(C) \in 1..Len(R) /\ j - Len(C) \in 1..Len(R)
    BY <1>7, <2>1 DEF Settles
  <2>3. L[i] = L[j]
    BY <1>2, <2>1, <2>2
  <2>4. i - Len(C) = j - Len(C)
    BY <1>4, <2>2, <2>3
  <2>5. QED BY <1>6, <1>7, <2>4
<1>9. \A i \in 1..Len(L) : L[i].op \notin {"status", "ready", "propagate", "decrement", "block"}
  BY <1>7
<1>10. ReadyAfterStatus(L) /\ PropagateAfterFailed(L) /\ ToldOnce(L) /\ ToldAfterStatus(L) /\ SatisfiedOnce(L)
  <2>1. \A i \in 2..Len(L) : i \in 1..Len(L)
    BY <1>6
  <2>2. QED BY <1>9, <2>1 DEF ReadyAfterStatus, PropagateAfterFailed, ToldOnce, ToldAfterStatus,
               SatisfiedOnce, Satisfies
<1>11. Owned(L) \subseteq WithStatus(Claimed)
  BY <1>2, <1>7 DEF Owned, OwnOps
<1>12. Telling(L) = {} /\ Blocking(L) = {}
  BY <1>9 DEF Telling, Blocking
<1>13. QED BY <1>6, <1>8, <1>9, <1>10, <1>11, <1>12 DEF Shape, L

-----------------------------------------------------------------------------
(***************************************************************************)
(* What a step of a process may do, and that it keeps the invariant.       *)
(***************************************************************************)

LEMMA NoCalls ==
  /\ <<>> \in Seq(Calls) /\ Shape(<<>>)
  /\ Owned(<<>>) = {} /\ Telling(<<>>) = {} /\ Blocking(<<>>) = {}
<1>1. Len(<<>>) = 0 /\ <<>> \in Seq(Calls)
  BY EmptySeq
<1>2. 1..Len(<<>>) = {} /\ 2..Len(<<>>) = {}
  BY <1>1
<1>3. Owned(<<>>) = {} /\ Telling(<<>>) = {} /\ Blocking(<<>>) = {}
  BY <1>2 DEF Owned, Telling, Blocking
<1>4. Shape(<<>>)
  BY <1>2 DEF Shape, SettledOnce, ReadyAfterStatus, PropagateAfterFailed, ToldOnce, ToldAfterStatus,
              SatisfiedOnce
<1>5. QED BY <1>1, <1>3, <1>4

\* S is a set of tasks that may be blocked, in the storage s.
ToBlock(s, S) ==
  \A t \in S : /\ s.status[t] \in {"PENDING", "BLOCKED"}
               /\ \E d \in Deps[t] : d \in S \/ s.status[d] \in {"FAILED", "BLOCKED"}

\* p takes a task only from the ready set, or when it is nowhere and waits for nothing.
TakesFree(p) ==
  \A t \in Tasks : Has(p, t)' =>
    /\ t \notin db'.ready
    /\ ~(t \in hand'[p] /\ t \in Owned(todo'[p]))
    /\ Has(p, t) \/ (db'.unmetDeps[t] <= 0 /\ \A q \in Processes : ~Has(q, t))

OffersOwn(p) ==
  \A t \in db'.ready : t \in db.ready \/ (Has(p, t) /\ db'.status[t] = "READY")

PlacedStatusOf(p) ==
  /\ \A t \in hand'[p] : db'.status[t] \in Claimed \cup {"READY"}
  /\ \A t \in Owned(todo'[p]) : db'.status[t] \notin Outcomes

\* p writes the status of what it has, or blocks what it was to block.
WritesOwn(p) ==
  \A t \in Tasks : db'.status[t] # db.status[t] =>
    \/ Has(p, t) /\ db'.status[t] # "BLOCKED"
    \/ \E S \in Blocking(todo[p]) : t \in S /\ \A x \in S : db'.status[x] = "BLOCKED"

CountsDown(p) ==
  \A t \in Tasks :
    \/ /\ db'.unmetDeps[t] = db.unmetDeps[t]
       /\ t \in Telling(todo'[p]) =>
            \/ t \in Telling(todo[p])
            \/ \E d \in Deps[t] : db.status[d] \notin Satisfied /\ db'.status[d] \in Satisfied
    \/ /\ db'.unmetDeps[t] = db.unmetDeps[t] - 1
       /\ t \in Telling(todo[p]) /\ t \notin Telling(todo'[p])

HeadOf(p) ==
  todo'[p] # <<>> =>
    /\ todo'[p][1].op = "ready" => db'.status[todo'[p][1].task] = "READY"
    /\ todo'[p][1].op = "propagate" => db'.status[todo'[p][1].task] = "FAILED"

LawfulStep(p) ==
  /\ \A q \in Processes \ {p} : hand'[q] = hand[q] /\ todo'[q] = todo[q]
  /\ Shape(todo'[p]) /\ HeadOf(p)
  /\ TakesFree(p) /\ OffersOwn(p) /\ PlacedStatusOf(p) /\ WritesOwn(p) /\ CountsDown(p)
  /\ \A S \in Blocking(todo'[p]) : S \in Blocking(todo[p]) \/ ToBlock(db', S)

\* A task with a dependency that is not satisfied waits.
LEMMA UnsatisfiedWaits ==
  ASSUME Inv, NEW t \in Tasks
  PROVE  /\ IsFiniteSet(Unsatisfied(t)) /\ IsFiniteSet(Tellers(t))
         /\ Cardinality(Unsatisfied(t)) \in Nat /\ Cardinality(Tellers(t)) \in Nat
         /\ db.unmetDeps[t] \in Int
         /\ \A d \in Deps[t] : db.status[d] \notin Satisfied => db.unmetDeps[t] > 0
         /\ \A p \in Processes : t \in Telling(todo[p]) => db.unmetDeps[t] > 0
<1>1. IsFiniteSet(Unsatisfied(t))
  BY FS_Subset, RecoveryConstants DEF Unsatisfied
<1>2. IsFiniteSet(Tellers(t))
  BY FS_Subset, RecoveryConstants DEF Tellers
<1>3. Cardinality(Unsatisfied(t)) \in Nat /\ Cardinality(Tellers(t)) \in Nat
  BY <1>1, <1>2, FS_CardinalityType
<1>4. db.unmetDeps[t] \in Int /\ db.unmetDeps[t] >= Cardinality(Unsatisfied(t)) + Cardinality(Tellers(t))
  BY DEF Inv, RecoveryType, StorageType, UnmetCounted
<1>5. \A d \in Deps[t] : db.status[d] \notin Satisfied => db.unmetDeps[t] > 0
  <2>1. SUFFICES ASSUME NEW d \in Deps[t], db.status[d] \notin Satisfied PROVE db.unmetDeps[t] > 0
    OBVIOUS
  <2>2. Unsatisfied(t) # {}
    BY <2>1 DEF Unsatisfied
  <2>3. Cardinality(Unsatisfied(t)) # 0
    BY <1>1, <2>2, FS_EmptySet
  <2>4. QED BY <1>3, <1>4, <2>3
<1>6. \A p \in Processes : t \in Telling(todo[p]) => db.unmetDeps[t] > 0
  <2>1. SUFFICES ASSUME NEW p \in Processes, t \in Telling(todo[p]) PROVE db.unmetDeps[t] > 0
    OBVIOUS
  <2>2. Tellers(t) # {}
    BY <2>1 DEF Tellers
  <2>3. Cardinality(Tellers(t)) # 0
    BY <1>2, <2>2, FS_EmptySet
  <2>4. QED BY <1>3, <1>4, <2>3
<1>7. QED BY <1>1, <1>2, <1>3, <1>4, <1>5, <1>6

LEMMA DepsAreTasks == ASSUME NEW t \in Tasks, NEW d \in Deps[t] PROVE d \in Tasks
  BY RecoveryConstants

\* No status of a task that has an outcome changes; and what is placed elsewhere, or
\* waits, is changed only from PENDING or BLOCKED to BLOCKED.
LEMMA LawfulStatus ==
  ASSUME Inv, NEW p \in Processes, LawfulStep(p), NEW t \in Tasks
  PROVE  /\ db.status[t] \in Outcomes => db'.status[t] = db.status[t]
         /\ ~Has(p, t) => db'.status[t] = db.status[t]
                          \/ (db.unmetDeps[t] > 0 /\ db'.status[t] = "BLOCKED" /\ db.status[t] = "PENDING")
         /\ db.unmetDeps[t] > 0 => ~Has(p, t)
         /\ db'.status[t] = "BLOCKED" /\ db.status[t] # "BLOCKED" =>
              \E S \in Blocking(todo[p]) : t \in S /\ \A x \in S : db'.status[x] = "BLOCKED"
<1>1. \A S \in Blocking(todo[p]) : t \in S =>
        db.status[t] \in {"PENDING", "BLOCKED"} /\ db.unmetDeps[t] > 0
  <2>1. SUFFICES ASSUME NEW S \in Blocking(todo[p]), t \in S
                 PROVE  db.status[t] \in {"PENDING", "BLOCKED"} /\ db.unmetDeps[t] > 0
    OBVIOUS
  <2>2. db.status[t] \in {"PENDING", "BLOCKED"}
        /\ \E d \in Deps[t] : d \in S \/ db.status[d] \in {"FAILED", "BLOCKED"}
    BY <2>1 DEF Inv, BlockedForCause
  <2>3. PICK d \in Deps[t] : d \in S \/ db.status[d] \in {"FAILED", "BLOCKED"}
    BY <2>2
  <2>4. db.status[d] \in {"PENDING", "FAILED", "BLOCKED"}
    BY <2>1, <2>3 DEF Inv, BlockedForCause
  <2>5. db.status[d] \notin Satisfied
    BY <2>4 DEF Satisfied
  <2>6. QED BY <2>2, <2>5, UnsatisfiedWaits
<1>2. db.unmetDeps[t] > 0 => ~Has(p, t)
  BY DEF Inv, UnmetWaits
<1>3. Has(p, t) => db.status[t] \notin Outcomes
  BY DEF Has, Inv, PlacedStatus, Claimed, Outcomes
<1>4. db'.status[t] # db.status[t] =>
        \/ Has(p, t) /\ db'.status[t] # "BLOCKED"
        \/ \E S \in Blocking(todo[p]) : t \in S /\ \A x \in S : db'.status[x] = "BLOCKED"
  BY DEF LawfulStep, WritesOwn
<1>5. QED BY <1>1, <1>2, <1>3, <1>4 DEF Outcomes

LEMMA LawfulPlaces ==
  ASSUME Inv, RecoveryType', NEW p \in Processes, LawfulStep(p)
  PROVE  OnePlace' /\ PlacedStatus' /\ UnmetWaits' /\ HeadPrepared' /\ InShape'
<1> USE DEF Inv
<1>1. \A q \in Processes \ {p}, t \in Tasks : Has(q, t)' <=> Has(q, t)
  BY DEF LawfulStep, Has
<1>2. OnePlace'
  <2>1. SUFFICES ASSUME NEW q \in Processes, NEW t \in Tasks, Has(q, t)'
                 PROVE  /\ t \notin db'.ready
                        /\ ~(t \in hand'[q] /\ t \in Owned(todo'[q]))
                        /\ \A r \in Processes : Has(r, t)' => r = q
    BY DEF OnePlace, Has
  <2>2. CASE q = p
    <3>1. t \notin db'.ready /\ ~(t \in hand'[q] /\ t \in Owned(todo'[q]))
          /\ (Has(p, t) \/ \A r \in Processes : ~Has(r, t))
      BY <2>1, <2>2 DEF LawfulStep, TakesFree
    <3>2. \A r \in Processes \ {p} : ~Has(r, t)
      BY <3>1 DEF OnePlace
    <3>3. QED BY <1>1, <2>2, <3>1, <3>2
  <2>3. CASE q # p
    <3>1. Has(q, t) /\ ~Has(p, t) /\ t \notin db.ready
      BY <1>1, <2>1, <2>3 DEF OnePlace
    <3>2. ~Has(p, t)'
      BY <3>1 DEF LawfulStep, TakesFree
    <3>3. t \notin db'.ready
      BY <3>1 DEF LawfulStep, OffersOwn
    <3>4. ~(t \in hand'[q] /\ t \in Owned(todo'[q]))
      BY <2>3, <3>1 DEF LawfulStep, OnePlace
    <3>5. \A r \in Processes : Has(r, t)' => r = q
      BY <1>1, <3>1, <3>2 DEF OnePlace
    <3>6. QED BY <3>3, <3>4, <3>5
  <2>4. QED BY <2>2, <2>3
<1>3. \A q \in Processes \ {p}, t \in Tasks : Has(q, t) => db'.status[t] = db.status[t]
  <2>1. SUFFICES ASSUME NEW q \in Processes \ {p}, NEW t \in Tasks, Has(q, t)
                 PROVE  db'.status[t] = db.status[t]
    OBVIOUS
  <2>2. ~Has(p, t)
    BY <2>1 DEF OnePlace
  <2>3. ~(db.unmetDeps[t] > 0)
    BY <2>1 DEF UnmetWaits
  <2>4. QED BY <2>2, <2>3, LawfulStatus
<1>4. PlacedStatus'
  <2>1. \A t \in db'.ready : db'.status[t] = "READY"
    <3>1. SUFFICES ASSUME NEW t \in db'.ready PROVE db'.status[t] = "READY"
      OBVIOUS
    <3>2. t \in Tasks
      BY <3>1 DEF RecoveryType, StorageType
    <3>3. CASE t \in db.ready
      <4>1. ~Has(p, t) /\ db.status[t] = "READY"
        BY <3>2, <3>3 DEF OnePlace, PlacedStatus
      <4>2. QED BY <3>2, <4>1, LawfulStatus
    <3>4. QED BY <3>3 DEF LawfulStep, OffersOwn
  <2>2. ASSUME NEW q \in Processes
        PROVE  /\ \A t \in hand'[q] : db'.status[t] \in Claimed \cup {"READY"}
               /\ \A t \in Owned(todo'[q]) : db'.status[t] \notin Outcomes
    <3>1. CASE q = p
      BY <3>1 DEF LawfulStep, PlacedStatusOf
    <3>2. CASE q # p
      <4>1. hand'[q] = hand[q] /\ todo'[q] = todo[q] /\ hand[q] \subseteq Tasks
        BY <3>2 DEF LawfulStep, RecoveryType
      <4>2. \A t \in hand[q] : Has(q, t) /\ t \in Tasks
        BY <4>1 DEF Has
      <4>3. \A t \in Owned(todo[q]) : Has(q, t) /\ t \in Tasks
        BY DEF Has, Owned
      <4>4. \A t \in hand[q] : db.status[t] \in Claimed \cup {"READY"}
        BY DEF PlacedStatus
      <4>5. \A t \in Owned(todo[q]) : db.status[t] \notin Outcomes
        BY DEF PlacedStatus
      <4>6. QED BY <1>3, <3>2, <4>1, <4>2, <4>3, <4>4, <4>5
    <3>3. QED BY <3>1, <3>2
  <2>3. QED BY <2>1, <2>2 DEF PlacedStatus
<1>5. UnmetWaits'
  <2>1. SUFFICES ASSUME NEW t \in Tasks, db'.unmetDeps[t] > 0
                 PROVE  /\ db'.status[t] \in {"PENDING", "BLOCKED"} /\ t \notin db'.ready
                        /\ \A q \in Processes : ~Has(q, t)'
    BY DEF UnmetWaits, Has
  <2>2. db.unmetDeps[t] \in Int /\ db'.unmetDeps[t] \in Int
    BY DEF RecoveryType, StorageType
  <2>3. db.unmetDeps[t] > 0
    BY <2>1, <2>2 DEF LawfulStep, CountsDown
  <2>4. db.status[t] \in {"PENDING", "BLOCKED"} /\ t \notin db.ready /\ \A q \in Processes : ~Has(q, t)
    BY <2>3 DEF UnmetWaits
  <2>5. db'.status[t] \in {"PENDING", "BLOCKED"}
    BY <2>4, LawfulStatus
  <2>6. t \notin db'.ready
    BY <2>4 DEF LawfulStep, OffersOwn
  <2>7. ~Has(p, t)'
    <3>1. ~(db'.unmetDeps[t] <= 0)
      BY <2>1, <2>2
    <3>2. QED BY <2>4, <3>1 DEF LawfulStep, TakesFree
  <2>8. QED BY <1>1, <2>4, <2>5, <2>6, <2>7
<1>6. HeadPrepared'
  <2>1. SUFFICES ASSUME NEW q \in Processes, todo'[q] # <<>>
                 PROVE  /\ todo'[q][1].op = "ready" => db'.status[todo'[q][1].task] = "READY"
                        /\ todo'[q][1].op = "propagate" => db'.status[todo'[q][1].task] = "FAILED"
    BY DEF HeadPrepared
  <2>2. CASE q = p
    BY <2>1, <2>2 DEF LawfulStep, HeadOf
  <2>3. CASE q # p
    <3> DEFINE w == todo[q][1]
    <3>1. todo'[q] = todo[q]
      BY <2>3 DEF LawfulStep
    <3>2. todo[q] \in Seq(Calls) /\ 1 \in 1..Len(todo[q])
      BY <2>1, <3>1, EmptySeq DEF RecoveryType
    <3>3. w \in Calls
      BY <3>2, ElementOfSeq
    <3>4. CASE w.op = "ready"
      <4>1. w.task \in Tasks
        BY <3>3, <3>4, CallFields DEF TaskOps
      <4>2. w.task \in Owned(todo[q])
        BY <3>2, <3>4, <4>1 DEF Owned, OwnOps
      <4>3. db.status[w.task] = "READY"
        BY <2>1, <3>1, <3>4 DEF HeadPrepared
      <4>4. QED BY <1>3, <2>3, <3>1, <3>4, <4>1, <4>2, <4>3 DEF Has
    <3>5. CASE w.op = "propagate"
      <4>1. w.task \in Tasks
        BY <3>3, <3>5, CallFields DEF TaskOps
      <4>2. db.status[w.task] = "FAILED"
        BY <2>1, <3>1, <3>5 DEF HeadPrepared
      <4>3. QED BY <3>1, <3>5, <4>1, <4>2, LawfulStatus DEF Outcomes
    <3>6. QED BY <3>1, <3>4, <3>5
  <2>4. QED BY <2>2, <2>3
<1>7. InShape'
  BY DEF LawfulStep, InShape
<1>8. QED BY <1>2, <1>4, <1>5, <1>6, <1>7

LEMMA LawfulCounts ==
  ASSUME Inv, RecoveryType', NEW p \in Processes, LawfulStep(p)
  PROVE  UnmetCounted'
<1>1. SUFFICES ASSUME NEW t \in Tasks
               PROVE  db'.unmetDeps[t] >= Cardinality(Unsatisfied(t)') + Cardinality(Tellers(t)')
  BY DEF UnmetCounted, Unsatisfied, Tellers
<1> DEFINE U == Unsatisfied(t)
           V == {d \in Deps[t] : db'.status[d] \notin Satisfied}
           A == Tellers(t)
           B == {q \in Processes : t \in Telling(todo'[q])}
<1>2. Unsatisfied(t)' = V /\ Tellers(t)' = B
  BY DEF Unsatisfied, Tellers
<1>3. IsFiniteSet(U) /\ IsFiniteSet(A) /\ Cardinality(U) \in Nat /\ Cardinality(A) \in Nat
  BY UnsatisfiedWaits
<1>4. db.unmetDeps[t] \in Int /\ db'.unmetDeps[t] \in Int
      /\ db.unmetDeps[t] >= Cardinality(U) + Cardinality(A)
  BY DEF Inv, RecoveryType, StorageType, UnmetCounted
<1>5. V \subseteq U
  <2>1. SUFFICES ASSUME NEW d \in Deps[t], db.status[d] \in Satisfied PROVE db'.status[d] \in Satisfied
    BY DEF Unsatisfied
  <2>2. d \in Tasks /\ db.status[d] \in Outcomes
    BY <2>1, DepsAreTasks DEF Satisfied, Outcomes
  <2>3. QED BY <2>1, <2>2, LawfulStatus
<1>6. B \subseteq A \cup {p} /\ A \ {p} = B \ {p}
  BY DEF LawfulStep, Tellers
<1>7. p \in A <=> t \in Telling(todo[p])
  BY DEF Tellers
<1>8. p \in B <=> t \in Telling(todo'[p])
  OBVIOUS
<1> HIDE DEF U, V, A, B
<1>9. IsFiniteSet(V) /\ IsFiniteSet(A \cup {p}) /\ IsFiniteSet(B)
  BY <1>3, <1>5, <1>6, FS_Subset, FS_AddElement
<1>10. Cardinality(V) \in Nat /\ Cardinality(B) \in Nat /\ Cardinality(V) <= Cardinality(U)
  BY <1>3, <1>5, <1>9, FS_CardinalityType, FS_Subset
<1>11. CASE db'.unmetDeps[t] = db.unmetDeps[t] /\ (t \in Telling(todo'[p]) => t \in Telling(todo[p]))
  <2>1. B \subseteq A
    BY <1>6, <1>7, <1>8, <1>11
  <2>2. Cardinality(B) <= Cardinality(A)
    BY <1>3, <2>1, FS_Subset
  <2>3. QED BY <1>2, <1>3, <1>4, <1>10, <1>11, <2>2
<1>12. CASE /\ db'.unmetDeps[t] = db.unmetDeps[t]
            /\ \E d \in Deps[t] : db.status[d] \notin Satisfied /\ db'.status[d] \in Satisfied
  <2>1. V # U
    BY <1>12 DEF U, V, Unsatisfied
  <2>2. Cardinality(V) # Cardinality(U)
    BY <1>3, <1>5, <2>1, FS_Subset
  <2>3. Cardinality(A \cup {p}) <= Cardinality(A) + 1
    BY SMTT(30), <1>3, FS_AddElement
  <2>4. Cardinality(A \cup {p}) \in Nat /\ Cardinality(B) <= Cardinality(A \cup {p})
    BY <1>6, <1>9, FS_Subset, FS_CardinalityType
  <2>5. Cardinality(V) + 1 <= Cardinality(U) /\ Cardinality(B) <= Cardinality(A) + 1
    BY <1>3, <1>10, <2>2, <2>3, <2>4
  <2>6. QED BY <1>2, <1>3, <1>4, <1>10, <1>12, <2>5
<1>13. CASE /\ db'.unmetDeps[t] = db.unmetDeps[t] - 1
            /\ t \in Telling(todo[p]) /\ t \notin Telling(todo'[p])
  <2>1. B = A \ {p} /\ p \in A
    BY <1>6, <1>7, <1>8, <1>13
  <2>2. Cardinality(B) = Cardinality(A) - 1
    BY <1>3, <2>1, FS_RemoveElement
  <2>3. QED BY <1>2, <1>3, <1>4, <1>10, <1>13, <2>2
<1>14. QED BY <1>11, <1>12, <1>13 DEF LawfulStep, CountsDown

LEMMA LawfulBlocks ==
  ASSUME Inv, RecoveryType', NEW p \in Processes, LawfulStep(p)
  PROVE  BlockedForCause'
<1>1. \A d \in Tasks : db.status[d] \in {"FAILED", "BLOCKED"} => db'.status[d] = db.status[d]
  BY LawfulStatus DEF Outcomes
<1>2. ASSUME NEW t \in Tasks, db'.status[t] = "BLOCKED"
      PROVE  \E d \in Deps[t] : db'.status[d] \in {"FAILED", "BLOCKED"}
  <2>1. CASE db.status[t] = "BLOCKED"
    <3>1. PICK d \in Deps[t] : db.status[d] \in {"FAILED", "BLOCKED"}
      BY <1>2, <2>1 DEF Inv, BlockedForCause
    <3>2. QED BY <1>1, <1>2, <3>1, DepsAreTasks
  <2>2. CASE db.status[t] # "BLOCKED"
    <3>1. PICK S \in Blocking(todo[p]) : t \in S /\ \A x \in S : db'.status[x] = "BLOCKED"
      BY <1>2, <2>2, LawfulStatus
    <3>2. PICK d \in Deps[t] : d \in S \/ db.status[d] \in {"FAILED", "BLOCKED"}
      BY <3>1 DEF Inv, BlockedForCause
    <3>3. QED BY <1>1, <1>2, <3>1, <3>2, DepsAreTasks
  <2>3. QED BY <2>1, <2>2
<1>3. ASSUME NEW q \in Processes, NEW S \in Blocking(todo[q])
      PROVE  ToBlock(db', S)
  <2>1. SUFFICES ASSUME NEW t \in S
                 PROVE  /\ db'.status[t] \in {"PENDING", "BLOCKED"}
                        /\ \E d \in Deps[t] : d \in S \/ db'.status[d] \in {"FAILED", "BLOCKED"}
    BY DEF ToBlock
  <2>2. db.status[t] \in {"PENDING", "BLOCKED"} /\ t \in Tasks
    BY <1>3 DEF Inv, BlockedForCause, Blocking
  <2>3. PICK d \in Deps[t] : d \in S \/ db.status[d] \in {"FAILED", "BLOCKED"}
    BY <1>3 DEF Inv, BlockedForCause
  <2>4. db.status[d] \in {"PENDING", "FAILED", "BLOCKED"}
    BY <1>3, <2>3 DEF Inv, BlockedForCause
  <2>5. db.unmetDeps[t] > 0
    BY <2>2, <2>4, UnsatisfiedWaits DEF Satisfied
  <2>6. db'.status[t] \in {"PENDING", "BLOCKED"}
    BY <2>2, <2>5, LawfulStatus
  <2>7. QED BY <1>1, <2>2, <2>3, <2>6, DepsAreTasks
<1>4. ASSUME NEW q \in Processes, NEW S \in Blocking(todo'[q])
      PROVE  ToBlock(db', S)
  BY <1>3, <1>4 DEF LawfulStep
<1>5. QED BY <1>2, <1>4 DEF BlockedForCause, ToBlock

\* A lawful step keeps the invariant, and all outcomes.
LEMMA LawfulKeeps ==
  ASSUME Inv, RecoveryType', NEW p \in Processes, LawfulStep(p)
  PROVE  /\ Inv'
         /\ \A t \in Tasks : db.status[t] \in Outcomes => db'.status[t] = db.status[t]
<1>1. Inv'
  BY LawfulPlaces, LawfulCounts, LawfulBlocks DEF Inv
<1>2. QED BY <1>1, LawfulStatus

-----------------------------------------------------------------------------
(***************************************************************************)
(* Every action is a lawful step.                                          *)
(***************************************************************************)

LEMMA PopReadyLawful ==
  ASSUME Inv, NEW p \in Processes, NEW t \in Tasks, PopReady(p, t)
  PROVE  RecoveryType' /\ LawfulStep(p)
<1>1. /\ p \in up /\ t \in db.ready /\ todo' = todo
      /\ db' = [db EXCEPT !.ready = @ \ {t}]
      /\ hand' = [hand EXCEPT ![p] = @ \cup {t}]
      /\ UNCHANGED <<up, crashes, whole>>
  BY DEF PopReady, Idle
<1>2. RecoveryType
  BY DEF Inv
<1>3. /\ db'.status = db.status /\ db'.unmetDeps = db.unmetDeps /\ db'.ready = db.ready \ {t}
      /\ db' \in StorageType
  BY <1>1, <1>2 DEF RecoveryType, StorageType
<1>4. hand'[p] = hand[p] \cup {t} /\ \A q \in Processes \ {p} : hand'[q] = hand[q]
  BY <1>1, <1>2 DEF RecoveryType
<1>5. RecoveryType'
  BY <1>1, <1>2, <1>3, <1>4 DEF RecoveryType
<1>6. \A q \in Processes : ~Has(q, t)
  BY <1>1 DEF Inv, OnePlace
<1>7. ~(db.unmetDeps[t] > 0) /\ db.unmetDeps[t] \in Int
  BY <1>1, UnsatisfiedWaits DEF Inv, UnmetWaits
<1>8. TakesFree(p)
  <2>1. SUFFICES ASSUME NEW x \in Tasks, x \in hand'[p] \/ x \in Owned(todo[p])
                 PROVE  /\ x \notin db'.ready /\ ~(x \in hand'[p] /\ x \in Owned(todo[p]))
                        /\ Has(p, x) \/ (db.unmetDeps[x] <= 0 /\ \A q \in Processes : ~Has(q, x))
    BY <1>1, <1>3 DEF TakesFree, Has
  <2>2. CASE x = t
    BY <1>3, <1>6, <1>7, <2>2 DEF Has
  <2>3. CASE x # t
    BY <1>3, <1>4, <2>1, <2>3 DEF Has, Inv, OnePlace
  <2>4. QED BY <2>2, <2>3
<1>9. PlacedStatusOf(p)
  BY <1>1, <1>3, <1>4 DEF PlacedStatusOf, Inv, PlacedStatus
<1>10. OffersOwn(p) /\ WritesOwn(p) /\ CountsDown(p)
  BY <1>1, <1>3 DEF OffersOwn, WritesOwn, CountsDown
<1>11. Shape(todo'[p]) /\ HeadOf(p)
  BY <1>1, <1>3 DEF Inv, InShape, HeadPrepared, HeadOf
<1>12. QED BY <1>1, <1>4, <1>5, <1>8, <1>9, <1>10, <1>11 DEF LawfulStep

LEMMA ClaimLawful ==
  ASSUME Inv, NEW p \in Processes, NEW t \in Tasks, Claim(p, t)
  PROVE  RecoveryType' /\ LawfulStep(p)
<1>1. PICK from \in Claimed \cup {"READY"}, to \in Claimed : Move(p, t, from, to)
  BY DEF Claim, Claimed
<1>2. /\ t \in hand[p] /\ todo' = todo /\ hand' = hand /\ UNCHANGED <<up, crashes, whole>>
      /\ db' = [db EXCEPT !.status[t] = to]
  BY <1>1 DEF Move
<1>3. RecoveryType
  BY DEF Inv
<1>4. /\ db'.status = [db.status EXCEPT ![t] = to] /\ db'.unmetDeps = db.unmetDeps /\ db'.ready = db.ready
      /\ db' \in StorageType
  BY <1>2, <1>3 DEF RecoveryType, StorageType, Status
<1>5. db'.status[t] = to /\ \A x \in Tasks \ {t} : db'.status[x] = db.status[x]
  BY <1>3, <1>4 DEF RecoveryType, StorageType
<1>6. RecoveryType'
  BY <1>2, <1>3, <1>4 DEF RecoveryType
<1>7. Has(p, t) /\ t \notin Owned(todo[p]) /\ t \notin db.ready
  BY <1>2 DEF Has, Inv, OnePlace
<1>8. TakesFree(p)
  BY <1>2, <1>4 DEF TakesFree, Has, Inv, OnePlace
<1>9. PlacedStatusOf(p)
  <2>1. \A x \in hand[p] : x \in Tasks /\ db'.status[x] \in Claimed \cup {"READY"}
    BY <1>3, <1>5 DEF RecoveryType, Inv, PlacedStatus
  <2>2. \A x \in Owned(todo[p]) : x \in Tasks /\ db'.status[x] \notin Outcomes
    BY <1>5, <1>7 DEF Inv, PlacedStatus, Owned
  <2>3. QED BY <1>2, <2>1, <2>2 DEF PlacedStatusOf
<1>10. WritesOwn(p)
  BY <1>5, <1>7 DEF WritesOwn, Claimed
<1>11. OffersOwn(p) /\ CountsDown(p)
  BY <1>2, <1>4 DEF OffersOwn, CountsDown
<1>12. HeadOf(p)
  <2>1. SUFFICES ASSUME todo[p] # <<>>
                 PROVE  FALSE
    BY <1>2 DEF HeadOf
  <2>2. QED BY <1>1, <2>1 DEF Move, Idle
<1>13. QED BY <1>2, <1>6, <1>8, <1>9, <1>10, <1>11, <1>12 DEF LawfulStep, Inv, InShape

\* A report hands the task over to the calls of the handler.
LEMMA ReportLawful ==
  ASSUME Inv, NEW p \in Processes, NEW t \in Tasks, NEW from \in Claimed \cup {"READY"}, NEW L,
         Prepared(L, t), Report(p, t, from, L)
  PROVE  RecoveryType' /\ LawfulStep(p)
<1>1. /\ p \in up /\ todo[p] = <<>> /\ t \in hand[p] /\ db.status[t] = from /\ db' = db
      /\ todo' = [todo EXCEPT ![p] = L] /\ hand' = [hand EXCEPT ![p] = @ \ {t}]
      /\ UNCHANGED <<up, crashes, whole>>
  BY DEF Report, Idle
<1>2. RecoveryType
  BY DEF Inv
<1>3. /\ L \in Seq(Calls) /\ L # <<>> /\ Shape(L) /\ Owned(L) \subseteq {t} /\ Telling(L) = {}
      /\ Blocking(L) = {} /\ L[1].op \notin {"ready", "propagate"}
  BY DEF Prepared
<1>4. hand'[p] = hand[p] \ {t} /\ todo'[p] = L
      /\ \A q \in Processes \ {p} : hand'[q] = hand[q] /\ todo'[q] = todo[q]
  BY <1>1, <1>2 DEF RecoveryType
<1>5. RecoveryType'
  BY <1>1, <1>2, <1>3, <1>4 DEF RecoveryType
<1>6. Has(p, t) /\ \A x \in hand[p] : x \in Tasks /\ Has(p, x)
  BY <1>1, <1>2 DEF Has, RecoveryType
<1>7. TakesFree(p)
  BY <1>1, <1>3, <1>4, <1>6 DEF TakesFree, Has, Inv, OnePlace
<1>8. PlacedStatusOf(p)
  <2>1. from \notin Outcomes
    BY DEF Claimed, Outcomes
  <2>2. QED BY <1>1, <1>3, <1>4, <2>1 DEF PlacedStatusOf, Inv, PlacedStatus
<1>9. OffersOwn(p) /\ WritesOwn(p) /\ CountsDown(p) /\ HeadOf(p)
  BY <1>1, <1>3, <1>4 DEF OffersOwn, WritesOwn, CountsDown, HeadOf
<1>10. QED BY <1>3, <1>4, <1>5, <1>7, <1>8, <1>9 DEF LawfulStep

LEMMA OutcomeLawful ==
  ASSUME Inv, NEW p \in Processes, NEW t \in Tasks,
         OnTaskCompleted(p, t) \/ OnTaskSkipped(p, t) \/ OnTaskFailed(p, t)
  PROVE  RecoveryType' /\ LawfulStep(p)
<1>1. CASE OnTaskCompleted(p, t)
  <2>1. Prepared(<<StoreAnswer(t), SetStatus(t, "COMPLETED")>> \o NotifyDependents(t) \o MarkTask("COMPLETED"), t)
    BY OutcomePrepared DEF Satisfied
  <2>2. "RUNNING" \in Claimed \cup {"READY"}
    BY DEF Claimed
  <2>3. QED BY <1>1, <2>1, <2>2, ReportLawful DEF OnTaskCompleted
<1>2. CASE OnTaskSkipped(p, t)
  <2>1. Prepared(<<SetStatus(t, "SKIPPED")>> \o NotifyDependents(t) \o MarkTask("SKIPPED"), t)
    BY OutcomePrepared DEF Satisfied
  <2>2. QED BY <1>2, <2>1, ReportLawful DEF OnTaskSkipped
<1>3. CASE OnTaskFailed(p, t)
  <2> DEFINE L == <<CountAttempt(t)>>
                    \o IF db.attempts[t] + 1 < MaxAttempts
                       THEN <<SetStatus(t, "READY"), AddToReady(t)>>
                       ELSE <<SetStatus(t, "FAILED"), Propagate(t)>> \o MarkTask("FAILED")
  <2>1. Prepared(L, t)
    <3>1. CASE db.attempts[t] + 1 < MaxAttempts
      BY <3>1, FailurePrepared
    <3>2. CASE ~(db.attempts[t] + 1 < MaxAttempts)
      BY <3>2, FailurePrepared
    <3>3. QED BY <3>1, <3>2
  <2>2. "RUNNING" \in Claimed \cup {"READY"}
    BY DEF Claimed
  <2>3. Report(p, t, "RUNNING", L)
    BY <1>3 DEF OnTaskFailed
  <2> HIDE DEF L
  <2>4. QED BY <2>1, <2>2, <2>3, ReportLawful
<1>4. QED BY <1>1, <1>2, <1>3

LEMMA CrashLawful ==
  ASSUME Inv, NEW p \in Processes, Crash(p)
  PROVE  RecoveryType' /\ LawfulStep(p)
<1>1. /\ p \in up /\ db' = db /\ up' = up \ {p} /\ crashes < MaxCrashes
      /\ crashes' = crashes + 1 /\ whole' = FALSE
      /\ hand' = [hand EXCEPT ![p] = {}] /\ todo' = [todo EXCEPT ![p] = <<>>]
  BY DEF Crash
<1>2. RecoveryType
  BY DEF Inv
<1>3. hand'[p] = {} /\ todo'[p] = <<>>
      /\ \A q \in Processes \ {p} : hand'[q] = hand[q] /\ todo'[q] = todo[q]
  BY <1>1, <1>2 DEF RecoveryType
<1>4. crashes' \in 0..MaxCrashes
  BY <1>1, <1>2, RecoveryConstants DEF RecoveryType
<1>5. RecoveryType'
  <2>1. hand' \in [Processes -> SUBSET Tasks] /\ todo' \in [Processes -> Seq(Calls)]
    BY <1>1, <1>2, NoCalls DEF RecoveryType
  <2>2. \A q \in Processes \ up' : hand'[q] = {} /\ todo'[q] = <<>>
    BY <1>1, <1>2, <1>3 DEF RecoveryType
  <2>3. QED BY <1>1, <1>2, <1>4, <2>1, <2>2 DEF RecoveryType
<1>6. Shape(todo'[p]) /\ Owned(todo'[p]) = {} /\ Telling(todo'[p]) = {} /\ Blocking(todo'[p]) = {}
  BY <1>3, NoCalls
<1>7. TakesFree(p) /\ OffersOwn(p) /\ PlacedStatusOf(p) /\ WritesOwn(p) /\ CountsDown(p) /\ HeadOf(p)
  BY <1>1, <1>3, <1>6 DEF TakesFree, Has, OffersOwn, PlacedStatusOf, WritesOwn, CountsDown, HeadOf
<1>8. QED BY <1>3, <1>5, <1>6, <1>7 DEF LawfulStep

LEMMA RecoverLawful ==
  ASSUME Inv, NEW p \in Processes, Recover(p)
  PROVE  RecoveryType' /\ LawfulStep(p)
<1>1. /\ up = {} /\ up' = {p} /\ whole' = TRUE /\ db' = db /\ hand' = hand /\ crashes' = crashes
      /\ todo' = [todo EXCEPT ![p] = RecoveryCalls]
  BY DEF Recover, RecoveryCalls
<1>2. RecoveryType
  BY DEF Inv
<1>3. \A q \in Processes : hand[q] = {} /\ todo[q] = <<>>
  BY <1>1, <1>2 DEF RecoveryType
<1>4. /\ RecoveryCalls \in Seq(Calls) /\ Shape(RecoveryCalls)
      /\ Owned(RecoveryCalls) \subseteq WithStatus(Claimed)
      /\ Telling(RecoveryCalls) = {} /\ Blocking(RecoveryCalls) = {}
      /\ \A i \in 1..Len(RecoveryCalls) : RecoveryCalls[i].op \notin {"ready", "propagate"}
  BY <1>2, RecoveryPrepared DEF RecoveryType
<1>5. todo'[p] = RecoveryCalls /\ \A q \in Processes \ {p} : todo'[q] = todo[q]
  BY <1>1, <1>2 DEF RecoveryType
<1>6. RecoveryType'
  BY <1>1, <1>2, <1>3, <1>4, <1>5 DEF RecoveryType
<1>7. \A q \in Processes, t \in Tasks : ~Has(q, t)
  BY <1>3, NoCalls DEF Has
<1>8. \A t \in WithStatus(Claimed) : t \in Tasks /\ t \notin db.ready /\ db.unmetDeps[t] <= 0
                                     /\ db.status[t] \notin Outcomes
  <2>1. TAKE t \in WithStatus(Claimed)
  <2>2. t \in Tasks /\ db.status[t] \in Claimed /\ db.unmetDeps[t] \in Int
    BY <1>2 DEF WithStatus, RecoveryType, StorageType
  <2>3. QED BY <2>2 DEF Inv, PlacedStatus, UnmetWaits, Claimed, Outcomes
<1>9. TakesFree(p)
  BY <1>1, <1>3, <1>4, <1>5, <1>7, <1>8 DEF TakesFree, Has
<1>10. PlacedStatusOf(p)
  BY <1>1, <1>3, <1>4, <1>5, <1>8 DEF PlacedStatusOf
<1>11. OffersOwn(p) /\ WritesOwn(p) /\ CountsDown(p)
  BY <1>1, <1>4, <1>5 DEF OffersOwn, WritesOwn, CountsDown
<1>12. HeadOf(p)
  <2>1. SUFFICES ASSUME RecoveryCalls # <<>>
                 PROVE  RecoveryCalls[1].op \notin {"ready", "propagate"}
    BY <1>5 DEF HeadOf
  <2>2. 1 \in 1..Len(RecoveryCalls)
    BY <1>4, <2>1, EmptySeq
  <2>3. QED BY <1>4, <2>2
<1>13. QED BY <1>1, <1>4, <1>5, <1>6, <1>9, <1>10, <1>11, <1>12 DEF LawfulStep

LEMMA BlockingWaits ==
  ASSUME Inv, NEW p \in Processes, NEW S \in Blocking(todo[p]), NEW t \in S
  PROVE  t \in Tasks /\ db.status[t] \in {"PENDING", "BLOCKED"} /\ db.unmetDeps[t] > 0
<1>1. t \in Tasks /\ db.status[t] \in {"PENDING", "BLOCKED"}
  BY DEF Inv, BlockedForCause, Blocking
<1>2. PICK d \in Deps[t] : d \in S \/ db.status[d] \in {"FAILED", "BLOCKED"}
  BY DEF Inv, BlockedForCause
<1>3. db.status[d] \in {"PENDING", "FAILED", "BLOCKED"}
  BY <1>2 DEF Inv, BlockedForCause
<1>4. QED BY <1>1, <1>3, UnsatisfiedWaits DEF Satisfied

\* The last decrement of a task finds it pending: it was not blocked.
LEMMA LastDecrement ==
  ASSUME Inv, NEW p \in Processes, NEW t \in Telling(todo[p]), db.unmetDeps[t] = 1
  PROVE  t \in Tasks /\ db.status[t] = "PENDING"
<1>1. t \in Tasks
  BY DEF Telling
<1>2. db.status[t] \in {"PENDING", "BLOCKED"}
  BY <1>1 DEF Inv, UnmetWaits
<1>3. SUFFICES ASSUME db.status[t] = "BLOCKED" PROVE FALSE
  BY <1>1, <1>2
<1>4. PICK d \in Deps[t] : db.status[d] \in {"FAILED", "BLOCKED"}
  BY <1>1, <1>3 DEF Inv, BlockedForCause
<1>5. Unsatisfied(t) # {} /\ Tellers(t) # {}
  BY <1>4 DEF Unsatisfied, Tellers, Satisfied
<1>6. Cardinality(Unsatisfied(t)) \in Nat \ {0} /\ Cardinality(Tellers(t)) \in Nat \ {0}
  BY <1>1, <1>5, UnsatisfiedWaits, FS_EmptySet
<1>7. db.unmetDeps[t] >= Cardinality(Unsatisfied(t)) + Cardinality(Tellers(t))
  BY <1>1 DEF Inv, UnmetCounted
<1>8. QED BY <1>6, <1>7

\* What a failure blocks waits for it, or for a task that is blocked with it.
LEMMA FailureBlocks ==
  ASSUME Inv, NEW t \in Tasks, db.status[t] = "FAILED"
  PROVE  ToBlock(db, NewlyBlocked(t))
<1> DEFINE Closed(S) == \A x \in Tasks : (t \in Deps[x] \/ Deps[x] \cap S # {}) => x \in S
           Below(x) == \A S \in SUBSET Tasks : Closed(S) => x \in S
           Y == {x \in Tasks : /\ Below(x) /\ db.status[x] \in {"PENDING", "BLOCKED"}
                               /\ \E d \in Deps[x] : \/ db.status[d] \in {"FAILED", "BLOCKED"}
                                                     \/ d \in NewlyBlocked(t)}
<1>1. \A x \in Tasks : \A d \in Deps[x] : db.status[d] \notin Satisfied => db.status[x] \in {"PENDING", "BLOCKED"}
  BY UnsatisfiedWaits DEF Inv, UnmetWaits
<1>2. NewlyBlocked(t) = {d \in Tasks : db.status[d] \notin Outcomes /\ Below(d)}
  BY DEF NewlyBlocked
<1>3. Closed(Y)
  <2>1. ASSUME NEW x \in Tasks, t \in Deps[x] PROVE x \in Y
    <3>1. Below(x)
      BY <2>1
    <3>2. db.status[x] \in {"PENDING", "BLOCKED"}
      BY <1>1, <2>1 DEF Satisfied
    <3>3. QED BY <2>1, <3>1, <3>2
  <2>2. ASSUME NEW x \in Tasks, NEW d \in Deps[x], d \in Y PROVE x \in Y
    <3>1. Below(x)
      <4>1. SUFFICES ASSUME NEW S \in SUBSET Tasks, Closed(S) PROVE x \in S
        OBVIOUS
      <4>2. d \in S
        BY <2>2, <4>1
      <4>3. QED BY <2>2, <4>1, <4>2
    <3>2. db.status[d] \in {"PENDING", "BLOCKED"} /\ Below(d) /\ d \in Tasks
      BY <2>2
    <3>3. db.status[x] \in {"PENDING", "BLOCKED"}
      BY <1>1, <3>2 DEF Satisfied
    <3>4. db.status[d] = "BLOCKED" \/ d \in NewlyBlocked(t)
      BY <1>2, <3>2 DEF Outcomes
    <3>5. QED BY <3>1, <3>3, <3>4
  <2>3. QED BY <2>1, <2>2
<1>4. NewlyBlocked(t) \subseteq Y
  <2>1. Y \in SUBSET Tasks
    OBVIOUS
  <2>2. QED BY <1>2, <1>3, <2>1
<1>5. QED BY <1>4 DEF ToBlock

\* The call that comes first after a call that made nobody ready.
LEMMA HeadAfterPlain ==
  ASSUME NEW L \in Seq(Calls), L # <<>>, Shape(L), NEW F \in Seq(Calls), PlainCalls(F),
         L[1].op = "status" => F = <<>>,
         NEW N, N = F \o Tail(L), N # <<>>, N[1].op \in {"ready", "propagate"}
  PROVE  /\ L[1].op = "status" /\ N[1].task = L[1].task
         /\ L[1].to = IF N[1].op = "ready" THEN "READY" ELSE "FAILED"
<1>1. /\ N \in Seq(Calls) /\ Len(L) \in Nat \ {0} /\ Len(F) \in Nat /\ Len(N) = Len(F) + Len(L) - 1
      /\ \A i \in 1..Len(F) : N[i] = F[i]
      /\ \A i \in Len(F)+1..Len(N) : N[i] = L[i - Len(F) + 1]
  BY CallsLeft
<1>2. Len(N) \in Nat \ {0}
  BY <1>1, EmptySeq
<1>3. Len(F) = 0
  <2>1. SUFFICES ASSUME Len(F) > 0 PROVE FALSE
    BY <1>1
  <2>2. 1 \in 1..Len(F)
    BY <1>1, <2>1
  <2>3. N[1] = F[1]
    BY <1>1, <2>2
  <2>4. F[1].op \notin {"ready", "propagate"}
    BY <2>2 DEF PlainCalls, OwnOps
  <2>5. QED BY <2>3, <2>4
<1>4. N[1] = L[2] /\ 2 \in 2..Len(L) /\ 2 \in 1..Len(L)
  BY <1>1, <1>2, <1>3
<1>5. CASE N[1].op = "ready"
  BY SMTT(30), <1>4, <1>5 DEF Shape, ReadyAfterStatus
<1>6. CASE N[1].op = "propagate"
  BY <1>4, <1>6 DEF Shape, PropagateAfterFailed
<1>7. QED BY <1>5, <1>6

LEMMA CallLawful ==
  ASSUME Inv, NEW p \in Processes, Call(p)
  PROVE  RecoveryType' /\ LawfulStep(p)
<1> DEFINE L == todo[p]
           w == L[1]
           F == Following(w)
           N == F \o Tail(L)
<1>1. RecoveryType /\ L \in Seq(Calls) /\ L # <<>> /\ Shape(L) /\ db \in StorageType
  BY DEF Inv, RecoveryType, InShape, Call
<1>2. w \in Calls /\ 1 \in 1..Len(L) /\ Head(L) = w
  BY <1>1, EmptySeq, ElementOfSeq
<1>3. /\ db' = Written(w) /\ todo' = [todo EXCEPT ![p] = N] /\ hand' = hand
      /\ UNCHANGED <<up, crashes, whole>>
  BY <1>2 DEF Call
<1>4. F \in Seq(Calls) /\ N \in Seq(Calls)
  BY <1>1, <1>2, CallFollowed, CallsLeft
<1>5. todo'[p] = N /\ \A q \in Processes \ {p} : hand'[q] = hand[q] /\ todo'[q] = todo[q]
  BY <1>1, <1>3 DEF RecoveryType
<1>6. /\ db' \in StorageType
      /\ db'.status =
           [t \in Tasks |-> IF w.op = "status" /\ t = w.task THEN w.to
                            ELSE IF w.op = "block" /\ t \in w.tasks THEN "BLOCKED"
                            ELSE db.status[t]]
      /\ db'.unmetDeps =
           [t \in Tasks |-> IF w.op = "decrement" /\ t = w.task THEN db.unmetDeps[t] - 1
                            ELSE db.unmetDeps[t]]
      /\ db'.ready = IF w.op = "ready" THEN db.ready \cup {w.task} ELSE db.ready
  BY <1>1, <1>2, <1>3, CallWrites
<1>7. RecoveryType'
  <2>1. todo' \in [Processes -> Seq(Calls)]
    BY <1>1, <1>3, <1>4 DEF RecoveryType
  <2>2. p \in up
    BY <1>1 DEF RecoveryType
  <2>3. QED BY <1>1, <1>3, <1>5, <1>6, <2>1, <2>2 DEF RecoveryType
<1>8. /\ \A x \in hand[p] : x \in Tasks /\ Has(p, x)
      /\ \A x \in Owned(L) : x \in Tasks /\ Has(p, x) /\ x \notin hand[p]
      /\ \A x \in Tasks : Has(p, x) => x \notin db.ready /\ ~(x \in hand[p] /\ x \in Owned(L))
  BY <1>1 DEF Has, Owned, RecoveryType, Inv, OnePlace
<1>9. w.op \in OwnOps => w.task \in Owned(L) /\ w.task \in Tasks
  BY <1>2, CallFields DEF Owned, OwnOps, TaskOps
<1> HIDE DEF w, F, N
<1>10. CASE w.op = "requeue" \/ (w.op = "decrement" /\ db.unmetDeps[w.task] = 1)
  <2> DEFINE t == w.task
  <2>1. t \in Tasks
    BY <1>2, <1>10, CallFields DEF TaskOps
  <2>2. w.op = "decrement" => t \in Telling(L)
    <3>1. \A j \in 1..Len(L) : w.op = "decrement" => ~Satisfies(L[j])
      BY <1>1, <1>2 DEF Shape, ToldAfterStatus, w
    <3>2. QED BY <1>2, <2>1, <3>1 DEF Telling, w
  <2>3. w.op = "decrement" =>
          db.status[t] = "PENDING" /\ t \notin db.ready /\ \A q \in Processes : ~Has(q, t)
    BY <1>10, <2>1, <2>2, LastDecrement DEF Inv, UnmetWaits
  <2>4. F \in {PairOf(t), <<SetStatus(t, "PENDING")>>}
    BY <1>1, <1>2, <1>10, CallFollowed DEF F
  <2>5. w.op = "decrement" => t \notin Owned(L)
    BY <2>3 DEF Has
  <2>6. /\ N # <<>> /\ N[1].op = "status" /\ Shape(N)
        /\ Owned(N) \subseteq Owned(L) \cup {t}
        /\ Telling(N) \subseteq Telling(L)
        /\ w.op = "decrement" => t \in Telling(L) \ Telling(N)
        /\ Blocking(N) \subseteq Blocking(L)
    <3>1. L[1].op \in {"decrement", "requeue"} /\ (L[1].op = "decrement" => L[1].task \notin Owned(L))
          /\ F \in {PairOf(L[1].task), <<SetStatus(L[1].task, "PENDING")>>}
      BY <1>10, <2>4, <2>5 DEF w
    <3>2. /\ N # <<>> /\ N[1].op = "status" /\ Shape(N)
          /\ Owned(N) \subseteq Owned(L) \cup {L[1].task}
          /\ Telling(N) \subseteq Telling(L)
          /\ L[1].op = "decrement" => L[1].task \in Telling(L) \ Telling(N)
          /\ Blocking(N) \subseteq Blocking(L)
      <4> HIDE DEF L
      <4>1. N = F \o Tail(L)
        BY DEF N
      <4>2. QED BY <1>1, <3>1, <4>1, ShapeAfterPair
    <3>3. QED BY <3>2 DEF w
  <2>7. db'.status = db.status /\ db'.ready = db.ready
    BY <1>1, <1>6, <1>10 DEF StorageType
  <2>8. TakesFree(p)
    <3>1. SUFFICES ASSUME NEW x \in Tasks, x \in hand[p] \/ x \in Owned(N)
                   PROVE  /\ x \notin db'.ready /\ ~(x \in hand[p] /\ x \in Owned(N))
                          /\ Has(p, x) \/ (db'.unmetDeps[x] <= 0 /\ \A q \in Processes : ~Has(q, x))
      BY <1>3, <1>5 DEF TakesFree, Has
    <3>2. CASE x = t /\ w.op = "decrement"
      BY <1>6, <1>8, <1>10, <2>3, <2>7, <3>1, <3>2
    <3>3. CASE x = t /\ w.op = "requeue"
      BY <1>8, <1>9, <2>7, <3>3 DEF OwnOps
    <3>4. CASE x # t
      BY <1>8, <2>6, <2>7, <3>1, <3>4
    <3>5. QED BY <1>10, <3>2, <3>3, <3>4
  <2>9. PlacedStatusOf(p)
    <3>1. \A x \in Owned(L) : db.status[x] \notin Outcomes
      BY DEF Inv, PlacedStatus
    <3>2. db.status[t] \notin Outcomes
      BY <1>9, <1>10, <2>3, <3>1 DEF Outcomes, OwnOps
    <3>3. \A x \in hand[p] : db.status[x] \in Claimed \cup {"READY"}
      BY DEF Inv, PlacedStatus
    <3>4. QED BY <1>3, <1>5, <2>6, <2>7, <3>1, <3>2, <3>3 DEF PlacedStatusOf
  <2>10. OffersOwn(p) /\ WritesOwn(p)
    BY <2>7 DEF OffersOwn, WritesOwn
  <2>11. CountsDown(p)
    BY <1>5, <1>6, <1>10, <2>6 DEF CountsDown
  <2>12. HeadOf(p)
    BY <1>5, <2>6 DEF HeadOf
  <2>13. QED BY <1>5, <1>7, <2>6, <2>8, <2>9, <2>10, <2>11, <2>12 DEF LawfulStep
<1>11. CASE w.op # "requeue" /\ ~(w.op = "decrement" /\ db.unmetDeps[w.task] = 1)
  <2>1. PlainCalls(F) /\ (w.op \in {"status", "ready"} => F = <<>>)
    <3>1. w.op = "decrement" => F = <<>>
      BY <1>1, <1>2, <1>11, CallFollowed DEF F
    <3>2. PlainCalls(<<>>)
      BY EmptySeq DEF PlainCalls
    <3>3. QED BY <1>1, <1>2, <1>11, <3>1, <3>2, CallFollowed DEF F
  <2>2. /\ Shape(N)
        /\ Owned(N) \subseteq Owned(L)
        /\ (w.op = "status" /\ w.to # "READY") \/ w.op = "ready" => w.task \notin Owned(N)
        /\ Telling(N) \subseteq Telling(L) \cup (IF Satisfies(w) THEN Dependents(w.task) ELSE {})
        /\ w.op = "decrement" => w.task \in Telling(L) \ Telling(N)
        /\ Blocking(N) \subseteq Blocking(L) \cup Blocking(F)
    BY <1>1, <1>4, <2>1, ShapeAfterPlain DEF N, w
  <2>3. N # <<>> /\ N[1].op \in {"ready", "propagate"} =>
          /\ w.op = "status" /\ N[1].task = w.task
          /\ w.to = IF N[1].op = "ready" THEN "READY" ELSE "FAILED"
    BY <1>1, <1>4, <2>1, HeadAfterPlain DEF N, w
  <2>4. TakesFree(p)
    <3>1. SUFFICES ASSUME NEW x \in Tasks, x \in hand[p] \/ x \in Owned(N)
                   PROVE  x \notin db'.ready /\ ~(x \in hand[p] /\ x \in Owned(N)) /\ Has(p, x)
      BY <1>3, <1>5 DEF TakesFree, Has
    <3>2. Has(p, x) /\ x \notin db.ready /\ ~(x \in hand[p] /\ x \in Owned(N))
      BY <1>8, <2>2, <3>1
    <3>3. w.op = "ready" => x # w.task
      BY <1>8, <1>9, <2>2, <3>1 DEF OwnOps
    <3>4. QED BY <1>6, <3>2, <3>3
  <2>5. \A x \in Tasks : db'.status[x] # db.status[x] =>
          \/ w.op = "status" /\ x = w.task
          \/ w.op = "block" /\ x \in w.tasks
    BY <1>6
  <2>6. w.op = "block" => w.tasks \in Blocking(L)
    BY <1>2, CallFields DEF Blocking, w
  <2>7. OffersOwn(p)
    <3>1. SUFFICES ASSUME NEW t \in db'.ready, t \notin db.ready
                   PROVE  Has(p, t) /\ db'.status[t] = "READY"
      BY DEF OffersOwn
    <3>2. w.op = "ready" /\ t = w.task
      BY <1>6, <3>1
    <3>3. db.status[t] = "READY"
      BY <1>1, <3>2 DEF Inv, HeadPrepared, w
    <3>4. t \in Tasks /\ Has(p, t)
      BY <1>8, <1>9, <3>2 DEF OwnOps
    <3>5. QED BY <1>6, <3>2, <3>3, <3>4
  <2>8. PlacedStatusOf(p)
    <3>1. ASSUME NEW t \in hand[p] PROVE db'.status[t] \in Claimed \cup {"READY"}
      <4>1. t \in Tasks /\ db.status[t] \in Claimed \cup {"READY"}
        BY <1>8 DEF Inv, PlacedStatus
      <4>2. ~(w.op = "status" /\ t = w.task)
        BY <1>8, <1>9 DEF OwnOps
      <4>3. ~(w.op = "block" /\ t \in w.tasks)
        BY <2>6, <4>1, BlockingWaits DEF Claimed
      <4>4. QED BY <2>5, <4>1, <4>2, <4>3
    <3>2. ASSUME NEW t \in Owned(N) PROVE db'.status[t] \notin Outcomes
      <4>1. t \in Tasks /\ Has(p, t) /\ db.status[t] \notin Outcomes
        BY <1>8, <2>2 DEF Inv, PlacedStatus
      <4>2. w.op = "status" /\ t = w.task => db'.status[t] = "READY"
        BY <1>6, <2>2, <4>1
      <4>3. ~(w.op = "block" /\ t \in w.tasks)
        BY <2>6, <4>1, BlockingWaits DEF Inv, UnmetWaits
      <4>4. QED BY <2>5, <4>1, <4>2, <4>3 DEF Outcomes
    <3>3. QED BY <1>3, <1>5, <3>1, <3>2 DEF PlacedStatusOf
  <2>9. WritesOwn(p)
    <3>1. SUFFICES ASSUME NEW t \in Tasks, db'.status[t] # db.status[t]
                   PROVE  \/ Has(p, t) /\ db'.status[t] # "BLOCKED"
                          \/ \E S \in Blocking(L) : t \in S /\ \A x \in S : db'.status[x] = "BLOCKED"
      BY DEF WritesOwn
    <3>2. CASE w.op = "status" /\ t = w.task
      BY <1>2, <1>6, <1>8, <1>9, <3>2, CallFields DEF OwnOps
    <3>3. CASE w.op = "block" /\ t \in w.tasks
      <4>1. \A x \in w.tasks : x \in Tasks
        BY <1>2, <3>3, CallFields
      <4>2. \A x \in w.tasks : db'.status[x] = "BLOCKED"
        BY <1>6, <3>3, <4>1
      <4>3. QED BY <2>6, <3>3, <4>2
    <3>4. QED BY <2>5, <3>1, <3>2, <3>3
  <2>10. CountsDown(p)
    <3>1. SUFFICES ASSUME NEW t \in Tasks
                   PROVE  \/ /\ db'.unmetDeps[t] = db.unmetDeps[t]
                             /\ t \in Telling(N) =>
                                  \/ t \in Telling(L)
                                  \/ \E d \in Deps[t] : db.status[d] \notin Satisfied /\ db'.status[d] \in Satisfied
                          \/ /\ db'.unmetDeps[t] = db.unmetDeps[t] - 1
                             /\ t \in Telling(L) /\ t \notin Telling(N)
      BY <1>5 DEF CountsDown
    <3>2. CASE w.op = "decrement" /\ t = w.task
      BY <1>6, <2>2, <3>2
    <3>3. CASE ~(w.op = "decrement" /\ t = w.task)
      <4>1. db'.unmetDeps[t] = db.unmetDeps[t]
        BY <1>6, <3>3
      <4>2. ASSUME t \in Telling(N), t \notin Telling(L)
            PROVE  \E d \in Deps[t] : db.status[d] \notin Satisfied /\ db'.status[d] \in Satisfied
        <5>1. w.op = "status" /\ w.to \in Satisfied /\ w.task \in Deps[t]
          BY <2>2, <4>2 DEF Satisfies, Dependents
        <5>2. w.task \in Tasks /\ db.status[w.task] \notin Outcomes
          BY <1>9, <5>1 DEF OwnOps, Inv, PlacedStatus
        <5>3. db'.status[w.task] = w.to
          BY <1>6, <5>1, <5>2
        <5>4. QED BY <5>1, <5>2, <5>3 DEF Satisfied, Outcomes
      <4>3. QED BY <4>1, <4>2
    <3>4. QED BY <3>2, <3>3
  <2>11. HeadOf(p)
    <3>1. SUFFICES ASSUME N # <<>>, N[1].op \in {"ready", "propagate"}
                   PROVE  db'.status[N[1].task] = IF N[1].op = "ready" THEN "READY" ELSE "FAILED"
      BY <1>5 DEF HeadOf
    <3>2. w.op = "status" /\ N[1].task = w.task /\ w.to = IF N[1].op = "ready" THEN "READY" ELSE "FAILED"
      BY <2>3, <3>1
    <3>3. w.task \in Tasks
      BY <1>9, <3>2 DEF OwnOps
    <3>4. QED BY <1>6, <3>2, <3>3
  <2>12. \A S \in Blocking(N) : S \in Blocking(L) \/ ToBlock(db', S)
    <3>1. SUFFICES ASSUME NEW S \in Blocking(F) PROVE ToBlock(db', S)
      BY <2>2
    <3>2. PICK i \in 1..Len(F) : F[i].op = "block" /\ F[i].tasks = S
      BY DEF Blocking
    <3>3. w.op \notin {"requeue", "decrement"}
      <4>1. w.op # "decrement"
        <5>1. SUFFICES ASSUME w.op = "decrement" PROVE FALSE
          OBVIOUS
        <5>2. F = <<>>
          BY <1>1, <1>2, <1>11, <5>1, CallFollowed DEF F
        <5>3. QED BY <3>1, <5>2, NoCalls
      <4>2. QED BY <1>11, <4>1
    <3>4. w.op = "propagate" /\ S = NewlyBlocked(w.task)
      BY <1>1, <1>2, <3>2, <3>3, CallFollowed DEF F
    <3>5. w.task \in Tasks /\ db.status[w.task] = "FAILED"
      <4>1. w.task \in Tasks
        BY <1>2, <3>4, CallFields DEF TaskOps
      <4>2. QED BY <1>1, <3>4, <4>1 DEF Inv, HeadPrepared, w
    <3>6. ToBlock(db, S)
      BY <3>4, <3>5, FailureBlocks
    <3>7. db'.status = db.status
      BY <1>1, <1>6, <3>4 DEF StorageType
    <3>8. QED BY <3>6, <3>7 DEF ToBlock
  <2>13. QED BY <1>5, <1>7, <2>2, <2>4, <2>7, <2>8, <2>9, <2>10, <2>11, <2>12 DEF LawfulStep
<1>12. QED BY <1>10, <1>11

-----------------------------------------------------------------------------
(***************************************************************************)
(* The invariant, and what it says of the tasks.                           *)
(***************************************************************************)

LEMMA InitInv == ASSUME Init PROVE Inv
<1>1. /\ db.status = [t \in Tasks |-> IF Deps[t] = {} THEN "READY" ELSE "PENDING"]
      /\ db.unmetDeps = [t \in Tasks |-> Cardinality(Deps[t])]
      /\ db.ready = {t \in Tasks : Deps[t] = {}}
      /\ hand = [p \in Processes |-> {}] /\ todo = [p \in Processes |-> <<>>]
  BY DEF Init
<1>2. \A t \in Tasks : IsFiniteSet(Deps[t]) /\ Cardinality(Deps[t]) \in Nat
  <2>1. TAKE t \in Tasks
  <2>2. Deps[t] \in SUBSET Tasks
    BY RecoveryConstants
  <2>3. IsFiniteSet(Deps[t])
    BY <2>2, FS_Subset, RecoveryConstants
  <2>4. QED BY <2>3, FS_CardinalityType
<1>3. \A p \in Processes : hand[p] = {} /\ todo[p] = <<>>
  BY <1>1
<1>4. db \in StorageType
  <2>1. db.unmetDeps \in [Tasks -> Int]
    BY <1>1, <1>2
  <2>2. db.status \in [Tasks -> Status] /\ db.ready \in SUBSET Tasks
    BY <1>1 DEF Status
  <2>3. db = [status |-> db.status, unmetDeps |-> db.unmetDeps, ready |-> db.ready,
              attempts |-> [t \in Tasks |-> 0], answers |-> {}, tally |-> [o \in Outcomes |-> 0],
              interview |-> "RUNNING", counted |-> FALSE,
              jobTally |-> [v \in Verdicts |-> 0], job |-> "RUNNING"]
    BY DEF Init
  <2> DEFINE zeros(S) == [s \in S |-> 0]
             st == db.status
             un == db.unmetDeps
             re == db.ready
             ze == zeros(Tasks)
             ta == zeros(Outcomes)
             jo == zeros(Verdicts)
  <2>4. ze \in [Tasks -> Nat] /\ ta \in [Outcomes -> Nat] /\ jo \in [Verdicts -> Nat]
        /\ st \in [Tasks -> Status] /\ un \in [Tasks -> Int] /\ re \in SUBSET Tasks
    BY <2>1, <2>2
  <2>5. db = [status |-> st, unmetDeps |-> un, ready |-> re, attempts |-> ze, answers |-> {},
              tally |-> ta, interview |-> "RUNNING", counted |-> FALSE, jobTally |-> jo, job |-> "RUNNING"]
    BY <2>3
  <2> HIDE DEF st, un, re, ze, ta, jo
  <2>6. QED BY <2>4, <2>5 DEF StorageType, States
<1>5. RecoveryType
  <2>1. todo \in [Processes -> Seq(Calls)] /\ hand \in [Processes -> SUBSET Tasks]
    BY <1>1, NoCalls
  <2>2. up \subseteq Processes /\ crashes \in 0..MaxCrashes /\ whole \in BOOLEAN
    BY RecoveryConstants DEF Init
  <2>3. QED BY <1>3, <1>4, <2>1, <2>2 DEF RecoveryType
<1>6. InShape /\ HeadPrepared
  BY <1>3, NoCalls DEF InShape, HeadPrepared
<1>7. \A p \in Processes, t \in Tasks : ~Has(p, t)
  BY <1>3, NoCalls DEF Has
<1>8. OnePlace
  BY <1>7 DEF OnePlace
<1>9. PlacedStatus
  BY <1>1, <1>3, NoCalls DEF PlacedStatus
<1>10. UnmetWaits
  <2>1. SUFFICES ASSUME NEW t \in Tasks, db.unmetDeps[t] > 0
                 PROVE  db.status[t] = "PENDING" /\ t \notin db.ready
    BY <1>7 DEF UnmetWaits
  <2>2. Deps[t] # {}
    BY SMTT(30), <1>1, <2>1, FS_EmptySet
  <2>3. QED BY <1>1, <2>2
<1>11. UnmetCounted
  <2>1. SUFFICES ASSUME NEW t \in Tasks
                 PROVE  db.unmetDeps[t] >= Cardinality(Unsatisfied(t)) + Cardinality(Tellers(t))
    BY DEF UnmetCounted
  <2>2. Unsatisfied(t) \subseteq Deps[t]
    BY DEF Unsatisfied
  <2>3. Cardinality(Unsatisfied(t)) <= Cardinality(Deps[t]) /\ Cardinality(Unsatisfied(t)) \in Nat
    BY <1>2, <2>2, FS_Subset, FS_CardinalityType
  <2>4. Tellers(t) = {}
    BY <1>3, NoCalls DEF Tellers
  <2>5. Cardinality(Tellers(t)) = 0
    BY <2>4, FS_EmptySet
  <2>6. QED BY <1>1, <1>2, <2>3, <2>5
<1>12. BlockedForCause
  BY <1>1, <1>3, NoCalls DEF BlockedForCause
<1>13. QED BY <1>5, <1>6, <1>8, <1>9, <1>10, <1>11, <1>12 DEF Inv

LEMMA NextInv ==
  ASSUME Inv, [Next]_vars
  PROVE  Inv' /\ \A t \in Tasks : db.status[t] \in Outcomes => db'.status[t] = db.status[t]
<1>1. CASE Next
  <2>1. PICK p \in Processes : Process(p)
    BY <1>1 DEF Next
  <2>2. RecoveryType' /\ LawfulStep(p)
    BY <2>1, PopReadyLawful, ClaimLawful, OutcomeLawful, CallLawful, CrashLawful, RecoverLawful
       DEF Process
  <2>3. QED BY <2>2, LawfulKeeps
<1>2. CASE UNCHANGED vars
  BY <1>2 DEF vars, Inv, RecoveryType, InShape, HeadPrepared, OnePlace, Has, PlacedStatus, UnmetWaits,
              UnmetCounted, Unsatisfied, Tellers, BlockedForCause
<1>3. QED BY <1>1, <1>2

\* The invariant: the type of the storage and of the calls, with counters that no bound
\* holds down, and all that the other theorems of this module rest on.
THEOREM RecoveryInvariant == Spec => []Inv
<1>1. Init => Inv
  BY InitInv
<1>2. Inv /\ [Next]_vars => Inv'
  BY NextInv
<1>3. QED BY <1>1, <1>2, PTL DEF Spec

\* No two processes have the same task, and none is offered again while one has it, for
\* any number of processes that die and recover the job.
THEOREM TasksHeldByOne == Spec => []HeldByOne
<1>1. Inv => HeldByOne
  <2>1. SUFFICES ASSUME Inv, NEW p \in Processes, NEW t \in hand[p]
                 PROVE  t \notin db.ready /\ \A q \in Processes \ {p} : t \notin hand[q]
    BY DEF HeldByOne
  <2>2. t \in Tasks
    BY <2>1 DEF Inv, RecoveryType
  <2>3. QED BY <2>1, <2>2 DEF Inv, OnePlace, Has
<1>2. QED BY <1>1, RecoveryInvariant, PTL

\* A task is asked only after all it depends on, also when handlers of several processes
\* interleave call by call and some are never finished.
THEOREM RecoveryRespectsDependencies == Spec => []DependenciesRespected
<1>1. Inv => DependenciesRespected
  <2>1. SUFFICES ASSUME Inv, NEW t \in Tasks,
                        t \in db.ready \cup Held \/ db.status[t] \in Claimed \cup {"READY"},
                        NEW d \in Deps[t], db.status[d] \notin Satisfied
                 PROVE  FALSE
    BY DEF DependenciesRespected
  <2>2. db.unmetDeps[t] > 0
    BY <2>1, UnsatisfiedWaits
  <2>3. db.status[t] \in {"PENDING", "BLOCKED"} /\ t \notin db.ready /\ \A p \in Processes : ~Has(p, t)
    BY <2>1, <2>2 DEF Inv, UnmetWaits
  <2>4. QED BY <2>1, <2>3 DEF Held, Has, Claimed
<1>2. QED BY <1>1, RecoveryInvariant, PTL

\* Whenever a process dies, no task loses its outcome to a handler that runs again or to
\* the recovery.
THEOREM RecoveryKeepsOutcomes == Spec => OutcomeKept
<1>1. Inv /\ [Next]_vars => [\A t \in Tasks : db.status[t] \in Outcomes => db'.status[t] = db.status[t]]_vars
  BY NextInv
<1>2. QED BY <1>1, RecoveryInvariant, PTL DEF Spec, OutcomeKept

-----------------------------------------------------------------------------
(*****************************************************************************)
(* Sums over the processes.                                                  *)
(*****************************************************************************)

TaskCount == Cardinality(Tasks)

\* The sum of f, which is at most TaskCount at every process: the pairs of a process and
\* a number up to its value are counted.
Total(f) == Cardinality({x \in Processes \X (1..TaskCount) : x[2] <= f[x[1]]})

LEMMA TaskCountType == TaskCount \in Nat \ {0} /\ IsFiniteSet(Processes \X (1..TaskCount))
<1>1. TaskCount \in Nat
  BY RecoveryConstants, FS_CardinalityType DEF TaskCount
<1>2. TaskCount # 0
  BY RecoveryConstants, FS_EmptySet DEF TaskCount
<1>3. IsFiniteSet(1..TaskCount)
  BY <1>1, FS_Interval
<1>4. IsFiniteSet(Processes)
  BY RecoveryConstants
<1>5. QED BY <1>1, <1>2, <1>3, <1>4, FS_Product

LEMMA TotalType ==
  ASSUME NEW f
  PROVE  Total(f) \in Nat
<1> DEFINE S == {x \in Processes \X (1..TaskCount) : x[2] <= f[x[1]]}
<1>1. IsFiniteSet(S)
  BY TaskCountType, FS_Subset
<1>2. QED BY <1>1, FS_CardinalityType DEF Total

\* The sum changes as its one part that changes.
LEMMA TotalChanges ==
  ASSUME NEW f \in [Processes -> 0..TaskCount], NEW g \in [Processes -> 0..TaskCount],
         NEW p \in Processes, \A q \in Processes \ {p} : g[q] = f[q]
  PROVE  Total(g) + f[p] = Total(f) + g[p]
<1> DEFINE Pairs(h) == {x \in Processes \X (1..TaskCount) : x[2] <= h[x[1]]}
           Others == {x \in Processes \X (1..TaskCount) : x[1] # p /\ x[2] <= f[x[1]]}
<1>1. IsFiniteSet(Others)
  BY TaskCountType, FS_Subset
<1>2. ASSUME NEW h \in [Processes -> 0..TaskCount], \A q \in Processes \ {p} : h[q] = f[q]
      PROVE  Total(h) = Cardinality(Others) + h[p]
  <2> DEFINE Own == {p} \X (1..h[p])
  <2>1. h[p] \in Nat /\ h[p] <= TaskCount
    BY <1>2, TaskCountType
  <2>2. IsFiniteSet({p}) /\ Cardinality({p}) = 1
    BY FS_Singleton
  <2>3. IsFiniteSet(1..h[p]) /\ Cardinality(1..h[p]) = h[p]
    BY <2>1, FS_Interval
  <2>4. IsFiniteSet(Own) /\ Cardinality(Own) = Cardinality({p}) * Cardinality(1..h[p])
    BY <2>2, <2>3, FS_Product
  <2>5. Cardinality(Own) = h[p]
    BY <2>1, <2>2, <2>3, <2>4
  <2>6. Pairs(h) = Others \cup Own
    <3>1. ASSUME NEW x \in Pairs(h) PROVE x \in Others \cup Own
      <4>1. x \in Processes \X (1..TaskCount) /\ x[2] <= h[x[1]]
        BY <3>1
      <4>2. x = <<x[1], x[2]>> /\ x[1] \in Processes /\ x[2] \in 1..TaskCount
        BY <4>1
      <4>3. CASE x[1] = p
        BY <2>1, <4>1, <4>2, <4>3
      <4>4. CASE x[1] # p
        BY <1>2, <4>1, <4>2, <4>4
      <4>5. QED BY <4>3, <4>4
    <3>2. ASSUME NEW x \in Others PROVE x \in Pairs(h)
      BY <1>2, <3>2
    <3>3. ASSUME NEW x \in Own PROVE x \in Pairs(h)
      BY <2>1, <3>3, TaskCountType
    <3>4. QED BY <3>1, <3>2, <3>3
  <2>7. Others \cap Own = {}
    OBVIOUS
  <2>8. Cardinality(Others) \in Nat
    BY <1>1, FS_CardinalityType
  <2> HIDE DEF Others, Own, Pairs
  <2>9. Cardinality(Others \cup Own) = Cardinality(Others) + Cardinality(Own) - Cardinality(Others \cap Own)
    BY <1>1, <2>4, FS_Union
  <2>a. Cardinality(Others \cap Own) = 0
    BY <2>7, FS_EmptySet
  <2>10. Cardinality(Pairs(h)) = Cardinality(Others) + h[p]
    <3>1. Cardinality(Pairs(h)) = Cardinality(Others \cup Own)
      BY <2>6
    <3>2. QED BY <2>1, <2>5, <2>8, <2>9, <2>a, <3>1
  <2>11. QED BY <2>10 DEF Total, Pairs
<1>3. Total(f) = Cardinality(Others) + f[p] /\ Total(g) = Cardinality(Others) + g[p]
  BY <1>2
<1>4. Cardinality(Others) \in Nat /\ f[p] \in Int /\ g[p] \in Int
  BY <1>1, FS_CardinalityType
<1> HIDE DEF Others
<1>5. QED BY <1>3, <1>4

\* The sum of nothing.
LEMMA TotalOfNone ==
  ASSUME NEW f, \A q \in Processes : f[q] = 0
  PROVE  Total(f) = 0
<1>1. {x \in Processes \X (1..TaskCount) : x[2] <= f[x[1]]} = {}
  <2>1. SUFFICES ASSUME NEW x \in Processes \X (1..TaskCount), x[2] <= f[x[1]]
                 PROVE  FALSE
    OBVIOUS
  <2>2. x[1] \in Processes /\ x[2] \in 1..TaskCount
    BY <2>1
  <2>3. QED BY <2>1, <2>2
<1>2. QED BY <1>1, FS_EmptySet DEF Total

\* Two parts are no more than the sum.
LEMMA TotalOfTwo ==
  ASSUME NEW f \in [Processes -> 0..TaskCount], NEW p \in Processes
  PROVE  f[p] <= Total(f) /\ \A q \in Processes \ {p} : f[p] + f[q] <= Total(f)
<1> DEFINE g == [f EXCEPT ![p] = 0]
<1>1. g \in [Processes -> 0..TaskCount] /\ g[p] = 0 /\ \A q \in Processes \ {p} : g[q] = f[q]
  BY TaskCountType
<1>2. Total(g) \in Nat /\ Total(f) \in Nat
  BY TotalType
<1> HIDE DEF g
<1>3. Total(g) + f[p] = Total(f) + g[p]
  BY <1>1, TotalChanges
<1>4. f[p] \in Int /\ Total(f) = Total(g) + f[p]
  BY <1>1, <1>2, <1>3
<1>5. ASSUME NEW q \in Processes \ {p} PROVE f[p] + f[q] <= Total(f)
  <2> DEFINE h == [g EXCEPT ![q] = 0]
  <2>1. h \in [Processes -> 0..TaskCount] /\ h[q] = 0 /\ \A r \in Processes \ {q} : h[r] = g[r]
    BY <1>1, TaskCountType
  <2>2. Total(h) \in Nat
    BY TotalType
  <2> HIDE DEF h
  <2>3. Total(h) + g[q] = Total(g) + h[q]
    BY <1>1, <2>1, TotalChanges
  <2>4. g[q] = f[q] /\ f[q] \in Int
    BY <1>1
  <2>5. QED BY <1>2, <1>4, <2>1, <2>2, <2>3, <2>4
<1>6. QED BY <1>2, <1>4, <1>5

-----------------------------------------------------------------------------
(*****************************************************************************)
(* The books: the outcomes a process writes, and those it counts.            *)
(*****************************************************************************)

Ends(w)          == w.op = "status" /\ w.to \in Outcomes
Counts(w)        == w.op = "increment" /\ w.outcome # "BLOCKED"
CountsBlocked(w) == w.op = "increment" /\ w.outcome = "BLOCKED"
Spreads(w)       == w.op \in {"propagate", "block"} \/ CountsBlocked(w)

\* A handler gives at most one task an outcome, and counts it afterwards, once; what a
\* failure blocks is blocked and counted in between.
EndsOnce(L) == \A i, j \in 1..Len(L) : Ends(L[i]) /\ Ends(L[j]) => i = j
CountsOnce(L) ==
  /\ \A i, j \in 1..Len(L) : Counts(L[i]) /\ Counts(L[j]) => i = j
  /\ \A i \in 1..Len(L) : Counts(L[i]) => L[i].by = 1
CountAfterEnd(L) ==
  \A i \in 1..Len(L) : Ends(L[i]) =>
    \E j \in 1..Len(L) : i < j /\ Counts(L[j]) /\ L[j].outcome = L[i].to
CountAfterSpread(L) ==
  \A i \in 1..Len(L) : Spreads(L[i]) =>
    \E j \in 1..Len(L) : i < j /\ Counts(L[j]) /\ L[j].outcome = "FAILED"
SpreadAfterEnd(L) == \A i, j \in 1..Len(L) : Spreads(L[i]) /\ Ends(L[j]) => j < i
BlockFirst(L) ==
  \A i \in 1..Len(L) :
    /\ L[i].op = "block" =>
         i = 1 /\ 2 \in 1..Len(L) /\ CountsBlocked(L[2]) /\ L[2].by = Cardinality(L[1].tasks)
    /\ CountsBlocked(L[i]) => L[i].by <= TaskCount /\ (i = 1 \/ (i = 2 /\ L[1].op = "block"))
CountersAlone(L) ==
  \A i, j \in 1..Len(L) : L[i].op = "counter" => ~Ends(L[j]) /\ ~Counts(L[j]) /\ ~Spreads(L[j])
JobFirst(L) == \A i \in 1..Len(L) : L[i].op = "job" => i = 1

Books(L) ==
  /\ EndsOnce(L) /\ CountsOnce(L) /\ CountAfterEnd(L) /\ CountAfterSpread(L)
  /\ SpreadAfterEnd(L) /\ BlockFirst(L) /\ CountersAlone(L) /\ JobFirst(L)

\* What the calls L have still to count of outcomes already written.
Ended(L) == \A j \in 1..Len(L) : ~Ends(L[j])
WillCount(L, o) == \E i \in 1..Len(L) : Counts(L[i]) /\ L[i].outcome = o
Owes(L, o) ==
  IF o = "BLOCKED"
  THEN IF L # <<>> /\ CountsBlocked(L[1]) THEN L[1].by ELSE 0
  ELSE IF Ended(L) /\ WillCount(L, o) THEN 1 ELSE 0

\* A failure is written, and what waits for it is not yet counted as blocked: at most
\* all tasks.
Spreading(L) == IF Ended(L) /\ \E i \in 1..Len(L) : Spreads(L[i]) THEN TaskCount ELSE 0
OwesJob(L) == IF L # <<>> /\ L[1].op = "job" THEN 1 ELSE 0

-----------------------------------------------------------------------------
(*****************************************************************************)
(* The books after a call.                                                   *)
(*****************************************************************************)

\* N is what is left of L, whose first call was followed by F.
Left(L, F, N) ==
  /\ L \in Seq(Calls) /\ L # <<>> /\ F \in Seq(Calls) /\ N = F \o Tail(L)

\* Where the calls are afterwards.
Moved(L, F, N) ==
  /\ N \in Seq(Calls) /\ Len(L) \in Nat \ {0} /\ Len(F) \in Nat /\ 1 \in 1..Len(L)
  /\ Len(N) = Len(F) + Len(L) - 1
  /\ \A i \in 1..Len(F) : i \in 1..Len(N) /\ N[i] = F[i]
  /\ \A i \in 1..Len(N) : i \notin 1..Len(F) =>
       \E m \in 2..Len(L) : m \in 1..Len(L) /\ N[i] = L[m] /\ i = m + Len(F) - 1
  /\ \A m \in 2..Len(L) : m + Len(F) - 1 \in 1..Len(N) /\ N[m + Len(F) - 1] = L[m]

LEMMA CallsMove ==
  ASSUME NEW L, NEW F, NEW N, Left(L, F, N)
  PROVE  Moved(L, F, N)
<1>1. /\ N \in Seq(Calls) /\ Len(L) \in Nat \ {0} /\ Len(F) \in Nat /\ Len(N) = Len(F) + Len(L) - 1
      /\ \A i \in 1..Len(F) : N[i] = F[i]
      /\ \A i \in Len(F)+1..Len(N) : N[i] = L[i - Len(F) + 1]
  BY CallsLeft DEF Left
<1> DEFINE k == Len(F)
           l == Len(L)
           n == Len(N)
<1> HIDE DEF k, l, n
<1>2. l \in Nat \ {0} /\ k \in Nat /\ n = k + l - 1
  BY <1>1 DEF k, l, n
<1>3. \A i \in 1..k : i \in 1..n /\ N[i] = F[i]
  BY <1>1, <1>2 DEF k, n
<1>4. \A i \in 1..n : i \notin 1..k => \E m \in 2..l : m \in 1..l /\ N[i] = L[m] /\ i = m + k - 1
  <2>1. SUFFICES ASSUME NEW i \in 1..n, i \notin 1..k
                 PROVE  \E m \in 2..l : m \in 1..l /\ N[i] = L[m] /\ i = m + k - 1
    OBVIOUS
  <2>2. i \in k+1..n /\ i - k + 1 \in 2..l /\ i - k + 1 \in 1..l /\ i = (i - k + 1) + k - 1
    BY <1>2, <2>1
  <2>3. N[i] = L[i - k + 1]
    BY <1>1, <2>2 DEF k, n
  <2>4. QED BY <2>2, <2>3
<1>5. \A m \in 2..l : m + k - 1 \in 1..n /\ N[m + k - 1] = L[m]
  <2>1. TAKE m \in 2..l
  <2>2. m + k - 1 \in k+1..n /\ m + k - 1 \in 1..n /\ (m + k - 1) - k + 1 = m
    BY <1>2
  <2>3. QED BY <1>1, <2>2 DEF k, n
<1>6. 1 \in 1..l
  BY <1>2
<1>7. QED BY <1>1, <1>3, <1>4, <1>5, <1>6 DEF k, l, n, Moved

\* Calls that count nothing, and give no outcome.
Aside(w) == ~Ends(w) /\ ~Counts(w) /\ ~Spreads(w) /\ w.op \notin {"counter", "attempt"}
AllAside(F) == \A i \in 1..Len(F) : Aside(F[i]) /\ (F[i].op = "job" => i = 1)
Asks(w) == w.op \in {"decrement", "requeue", "finalize", "mark", "count", "finalizeJob"}

\* The books are kept after a call that nothing follows but calls aside.
LEMMA BooksAfterAside ==
  ASSUME NEW L, NEW F, NEW N, Left(L, F, N), Books(L), AllAside(F), F = <<>> \/ Asks(L[1])
  PROVE  Books(N)
<1> DEFINE k == Len(F)
           Marked(w) == Ends(w) \/ Counts(w) \/ Spreads(w) \/ w.op = "counter"
<1>1. /\ N \in Seq(Calls) /\ Len(L) \in Nat \ {0} /\ k \in Nat /\ 1 \in 1..Len(L)
      /\ Len(N) = k + Len(L) - 1
      /\ \A i \in 1..k : i \in 1..Len(N) /\ N[i] = F[i]
      /\ \A i \in 1..Len(N) : i \notin 1..k =>
           \E m \in 2..Len(L) : m \in 1..Len(L) /\ N[i] = L[m] /\ i = m + k - 1
      /\ \A m \in 2..Len(L) : m + k - 1 \in 1..Len(N) /\ N[m + k - 1] = L[m]
  <2>1. Moved(L, F, N)
    BY CallsMove
  <2>2. QED BY <2>1 DEF Moved
<1>2. \A i \in 1..k : ~Marked(N[i]) /\ (N[i].op = "job" => i = 1)
  BY <1>1 DEF AllAside, Aside
<1>3. F = <<>> => k = 0
  OBVIOUS
<1> HIDE DEF k, Marked
<1>k. k \in Int
  BY <1>1
<1>4. \A i \in 1..Len(N) : Marked(N[i]) =>
        i \in Int /\ \E m \in 2..Len(L) : m \in Int /\ m \in 1..Len(L) /\ N[i] = L[m] /\ i = m + k - 1
  <2>1. SUFFICES ASSUME NEW i \in 1..Len(N), Marked(N[i])
                 PROVE  \E m \in 2..Len(L) : m \in 1..Len(L) /\ N[i] = L[m] /\ i = m + k - 1
    OBVIOUS
  <2>2. i \notin 1..k
    BY <1>2, <2>1
  <2>3. QED BY <1>1, <2>2
<1>5. \A w : Ends(w) \/ Counts(w) \/ Spreads(w) \/ w.op = "counter" => Marked(w)
  BY DEF Marked
<1>6. EndsOnce(N)
  <2>1. SUFFICES ASSUME NEW i \in 1..Len(N), NEW j \in 1..Len(N), Ends(N[i]), Ends(N[j])
                 PROVE  i = j
    BY DEF EndsOnce
  <2>2. PICK m \in 1..Len(L) : N[i] = L[m] /\ i = m + k - 1
    BY <1>4, <1>5, <2>1
  <2>3. PICK x \in 1..Len(L) : N[j] = L[x] /\ j = x + k - 1
    BY <1>4, <1>5, <2>1
  <2>4. m = x
    BY <2>1, <2>2, <2>3 DEF Books, EndsOnce
  <2>5. QED BY <2>2, <2>3, <2>4
<1>7. CountsOnce(N)
  <2>1. ASSUME NEW i \in 1..Len(N), NEW j \in 1..Len(N), Counts(N[i]), Counts(N[j])
        PROVE  i = j
    <3>2. PICK m \in 1..Len(L) : N[i] = L[m] /\ i = m + k - 1
      BY <1>4, <1>5, <2>1
    <3>3. PICK x \in 1..Len(L) : N[j] = L[x] /\ j = x + k - 1
      BY <1>4, <1>5, <2>1
    <3>4. m = x
      BY <2>1, <3>2, <3>3 DEF Books, CountsOnce
    <3>5. QED BY <3>2, <3>3, <3>4
  <2>2. ASSUME NEW i \in 1..Len(N), Counts(N[i]) PROVE N[i].by = 1
    <3>2. PICK m \in 1..Len(L) : N[i] = L[m]
      BY <1>4, <1>5, <2>2
    <3>3. QED BY <2>2, <3>2 DEF Books, CountsOnce
  <2>3. QED BY <2>1, <2>2 DEF CountsOnce
<1>8. ASSUME NEW m \in 2..Len(L), m \in 1..Len(L), NEW o,
             \E x \in 1..Len(L) : m < x /\ Counts(L[x]) /\ L[x].outcome = o
      PROVE  \E j \in 1..Len(N) : m + k - 1 < j /\ Counts(N[j]) /\ N[j].outcome = o
  <2>1. PICK x \in 1..Len(L) : m < x /\ Counts(L[x]) /\ L[x].outcome = o
    BY <1>8
  <2>2. x \in 2..Len(L)
    BY <1>1, <2>1
  <2>3. x + k - 1 \in 1..Len(N) /\ N[x + k - 1] = L[x]
    BY <1>1, <2>2
  <2>4. m + k - 1 < x + k - 1
    BY <1>k, <2>1
  <2>5. QED BY <2>1, <2>3, <2>4
<1>9. CountAfterEnd(N)
  <2>1. SUFFICES ASSUME NEW i \in 1..Len(N), Ends(N[i])
                 PROVE  \E j \in 1..Len(N) : i < j /\ Counts(N[j]) /\ N[j].outcome = N[i].to
    BY DEF CountAfterEnd
  <2>2. PICK m \in 2..Len(L) : m \in 1..Len(L) /\ N[i] = L[m] /\ i = m + k - 1
    BY <1>4, <1>5, <2>1
  <2>3. \E x \in 1..Len(L) : m < x /\ Counts(L[x]) /\ L[x].outcome = L[m].to
    BY <2>1, <2>2 DEF Books, CountAfterEnd
  <2>4. QED BY <1>8, <2>2, <2>3
<1>10. CountAfterSpread(N)
  <2>1. SUFFICES ASSUME NEW i \in 1..Len(N), Spreads(N[i])
                 PROVE  \E j \in 1..Len(N) : i < j /\ Counts(N[j]) /\ N[j].outcome = "FAILED"
    BY DEF CountAfterSpread
  <2>2. PICK m \in 2..Len(L) : m \in 1..Len(L) /\ N[i] = L[m] /\ i = m + k - 1
    BY <1>4, <1>5, <2>1
  <2>3. \E x \in 1..Len(L) : m < x /\ Counts(L[x]) /\ L[x].outcome = "FAILED"
    BY <2>1, <2>2 DEF Books, CountAfterSpread
  <2>4. QED BY <1>8, <2>2, <2>3
<1>11. SpreadAfterEnd(N)
  <2>1. SUFFICES ASSUME NEW i \in 1..Len(N), NEW j \in 1..Len(N), Spreads(N[i]), Ends(N[j])
                 PROVE  j < i
    BY DEF SpreadAfterEnd
  <2>2. PICK m \in 1..Len(L) : N[i] = L[m] /\ i = m + k - 1
    BY <1>4, <1>5, <2>1
  <2>3. PICK x \in 1..Len(L) : N[j] = L[x] /\ j = x + k - 1
    BY <1>4, <1>5, <2>1
  <2>4. x < m
    BY <2>1, <2>2, <2>3 DEF Books, SpreadAfterEnd
  <2>5. QED BY <1>k, <2>2, <2>3, <2>4
<1>12. BlockFirst(N)
  <2>1. SUFFICES ASSUME NEW i \in 1..Len(N), N[i].op = "block" \/ CountsBlocked(N[i])
                 PROVE  ~(N[i].op = "block") /\ N[i].by <= TaskCount /\ i = 1
    BY DEF BlockFirst
  <2>2. PICK m \in 2..Len(L) : m \in 1..Len(L) /\ N[i] = L[m] /\ i = m + k - 1
    BY <1>4, <1>5, <2>1 DEF Spreads
  <2>3. CountsBlocked(L[m]) /\ m = 2 /\ L[1].op = "block" /\ L[m].by <= TaskCount
    BY <2>1, <2>2 DEF Books, BlockFirst
  <2>4. k = 0
    BY <1>3, <2>3 DEF Asks
  <2>5. QED BY <2>2, <2>3, <2>4 DEF CountsBlocked
<1>13. CountersAlone(N)
  <2>1. SUFFICES ASSUME NEW i \in 1..Len(N), NEW j \in 1..Len(N), N[i].op = "counter",
                        Ends(N[j]) \/ Counts(N[j]) \/ Spreads(N[j])
                 PROVE  FALSE
    BY DEF CountersAlone
  <2>2. PICK m \in 1..Len(L) : N[i] = L[m]
    BY <1>4, <1>5, <2>1
  <2>3. PICK x \in 1..Len(L) : N[j] = L[x]
    BY <1>4, <1>5, <2>1
  <2>4. QED BY <2>1, <2>2, <2>3 DEF Books, CountersAlone
<1>14. JobFirst(N)
  <2>1. SUFFICES ASSUME NEW i \in 1..Len(N), N[i].op = "job", i # 1 PROVE FALSE
    BY DEF JobFirst
  <2>2. PICK m \in 2..Len(L) : m \in 1..Len(L) /\ N[i] = L[m]
    BY <1>1, <1>2, <2>1
  <2>3. QED BY <2>1, <2>2 DEF Books, JobFirst
<1>15. QED BY <1>6, <1>7, <1>9, <1>10, <1>11, <1>12, <1>13, <1>14 DEF Books

\* Which calls that end or count are left.
LEMMA EndsLeft ==
  ASSUME NEW L, NEW F, NEW N, Left(L, F, N), \A i \in 1..Len(F) : ~Ends(F[i]) /\ ~Counts(F[i])
  PROVE  /\ \A o : WillCount(N, o) <=> \E x \in 2..Len(L) : Counts(L[x]) /\ L[x].outcome = o
         /\ Ended(N) <=> \A x \in 2..Len(L) : ~Ends(L[x])
<1> DEFINE k == Len(F)
<1>1. /\ \A i \in 1..k : N[i] = F[i]
      /\ \A i \in 1..Len(N) : i \notin 1..k => \E m \in 2..Len(L) : N[i] = L[m]
      /\ \A m \in 2..Len(L) : m + k - 1 \in 1..Len(N) /\ N[m + k - 1] = L[m]
  <2>1. Moved(L, F, N)
    BY CallsMove
  <2>2. QED BY <2>1 DEF Moved
<1>2. \A i \in 1..k : ~Ends(N[i]) /\ ~Counts(N[i])
  BY <1>1
<1> HIDE DEF k
<1>3. \A i \in 1..Len(N) : Ends(N[i]) \/ Counts(N[i]) => \E m \in 2..Len(L) : N[i] = L[m]
  BY <1>1, <1>2
<1>4. ASSUME NEW o
      PROVE  WillCount(N, o) <=> \E x \in 2..Len(L) : Counts(L[x]) /\ L[x].outcome = o
  <2>1. ASSUME NEW i \in 1..Len(N), Counts(N[i]), N[i].outcome = o
        PROVE  \E x \in 2..Len(L) : Counts(L[x]) /\ L[x].outcome = o
    <3>1. PICK m \in 2..Len(L) : N[i] = L[m]
      BY <1>3, <2>1
    <3>2. QED BY <2>1, <3>1
  <2>2. ASSUME NEW x \in 2..Len(L), Counts(L[x]), L[x].outcome = o
        PROVE  \E i \in 1..Len(N) : Counts(N[i]) /\ N[i].outcome = o
    <3>1. x + k - 1 \in 1..Len(N) /\ N[x + k - 1] = L[x]
      BY <1>1, <2>2
    <3>2. QED BY <2>2, <3>1
  <2>3. QED BY <2>1, <2>2 DEF WillCount
<1>5. Ended(N) <=> \A x \in 2..Len(L) : ~Ends(L[x])
  BY <1>1, <1>3 DEF Ended
<1>6. QED BY <1>4, <1>5

\* What is owed after a call that nothing follows but calls aside.
LEMMA OwedAfterAside ==
  ASSUME NEW L, NEW F, NEW N, Left(L, F, N), Books(L), Shape(L), AllAside(F), F = <<>> \/ Asks(L[1]),
         NEW w, w = L[1]
  PROVE  /\ Ends(w) => /\ Owes(N, w.to) = 1
                       /\ \A o \in Outcomes \ {"BLOCKED"} : Owes(L, o) = 0 /\ (o # w.to => Owes(N, o) = 0)
         /\ Counts(w) => Owes(L, w.outcome) = 1 /\ Owes(N, w.outcome) = 0
         /\ \A o \in Outcomes \ {"BLOCKED"} :
              ~Ends(w) /\ ~(Counts(w) /\ w.outcome = o) => Owes(N, o) = Owes(L, o)
         /\ Owes(L, "BLOCKED") = IF CountsBlocked(w) THEN w.by ELSE 0
         /\ Owes(N, "BLOCKED") = IF w.op = "block" THEN Cardinality(w.tasks) ELSE 0
         /\ \/ Spreading(N) <= Spreading(L)
            \/ Ends(w) /\ w.to = "FAILED" /\ Spreading(L) = 0 /\ Spreading(N) <= TaskCount
         /\ CountsBlocked(w) => Spreading(L) = TaskCount /\ Spreading(N) = 0
         /\ N # <<>> => (N[1].op \in {"propagate", "block"} => Ends(w) /\ w.to = "FAILED")
         /\ OwesJob(N) = 0 \/ (F # <<>> /\ F[1].op = "job" /\ OwesJob(N) = 1)
<1> DEFINE k == Len(F)
<1>1. /\ N \in Seq(Calls) /\ Len(L) \in Nat \ {0} /\ k \in Nat /\ 1 \in 1..Len(L)
      /\ Len(N) = k + Len(L) - 1
      /\ \A i \in 1..k : i \in 1..Len(N) /\ N[i] = F[i]
      /\ \A i \in 1..Len(N) : i \notin 1..k =>
           \E m \in 2..Len(L) : m \in 1..Len(L) /\ N[i] = L[m] /\ i = m + k - 1
      /\ \A m \in 2..Len(L) : m + k - 1 \in 1..Len(N) /\ N[m + k - 1] = L[m]
  <2>1. Moved(L, F, N)
    BY CallsMove
  <2>2. QED BY <2>1 DEF Moved
<1>2. L # <<>> /\ L \in Seq(Calls) /\ w \in Calls /\ F \in Seq(Calls)
  BY <1>1, ElementOfSeq DEF Left
<1>3. \A i \in 1..Len(F) : ~Ends(F[i]) /\ ~Counts(F[i]) /\ ~Spreads(F[i])
  BY DEF AllAside, Aside
<1>4. /\ \A o : WillCount(N, o) <=> \E x \in 2..Len(L) : Counts(L[x]) /\ L[x].outcome = o
      /\ Ended(N) <=> \A x \in 2..Len(L) : ~Ends(L[x])
  BY <1>3, EndsLeft
<1>5. \A x \in 1..Len(L) : x = 1 \/ x \in 2..Len(L)
  BY <1>1
<1>6. \A x \in 2..Len(L) : x \in 1..Len(L) /\ x # 1 /\ x > 1
  BY <1>1
<1>7. k = 0 \/ Asks(w)
  <2>1. F = <<>> => Len(F) = 0
    OBVIOUS
  <2>2. QED BY <2>1 DEF k
<1>8. N # <<>> => 1 \in 1..Len(N)
  BY <1>1, EmptySeq
<1>9. k # 0 => F # <<>> /\ 1 \in 1..k
  BY <1>1, EmptySeq
<1>a. k = 0 /\ N # <<>> => 2 \in 2..Len(L) /\ N[1] = L[2]
  <2>1. SUFFICES ASSUME k = 0, N # <<>> PROVE 2 \in 2..Len(L) /\ N[1] = L[2]
    OBVIOUS
  <2>2. 1 \notin 1..k /\ 1 \in 1..Len(N)
    BY <1>8, <2>1
  <2>3. PICK m \in 2..Len(L) : N[1] = L[m] /\ 1 = m + k - 1
    BY <1>1, <2>2
  <2>4. m = 2
    BY <2>1, <2>3
  <2>5. QED BY <2>3, <2>4
<1> HIDE DEF k
<1>10. Ends(w) => /\ Owes(N, w.to) = 1
                  /\ \A o \in Outcomes \ {"BLOCKED"} : Owes(L, o) = 0 /\ (o # w.to => Owes(N, o) = 0)
  <2>1. SUFFICES ASSUME Ends(w)
                 PROVE  /\ Owes(N, w.to) = 1
                        /\ \A o \in Outcomes \ {"BLOCKED"} : Owes(L, o) = 0 /\ (o # w.to => Owes(N, o) = 0)
    OBVIOUS
  <2>2. Ended(N)
    BY <1>1, <1>4, <1>6, <2>1 DEF Books, EndsOnce
  <2>3. ~Ended(L)
    BY <1>1, <2>1 DEF Ended
  <2>4. PICK x \in 1..Len(L) : 1 < x /\ Counts(L[x]) /\ L[x].outcome = w.to
    BY <1>1, <2>1 DEF Books, CountAfterEnd
  <2>5. x \in 2..Len(L)
    BY <1>5, <2>4
  <2>6. WillCount(N, w.to)
    BY <1>4, <2>4, <2>5
  <2>7. \A o : WillCount(N, o) => o = w.to
    BY <1>4, <1>6, <2>4 DEF Books, CountsOnce
  <2>8. w.to # "BLOCKED"
    BY <1>2, <2>1, CallFields DEF Ends, TaskOps
  <2>9. QED BY <2>2, <2>3, <2>6, <2>7, <2>8 DEF Owes
<1>11. Counts(w) => Owes(L, w.outcome) = 1 /\ Owes(N, w.outcome) = 0
  <2>1. SUFFICES ASSUME Counts(w)
                 PROVE  Owes(L, w.outcome) = 1 /\ Owes(N, w.outcome) = 0
    OBVIOUS
  <2>2. WillCount(L, w.outcome)
    BY <1>1, <2>1 DEF WillCount
  <2>3. Ended(L)
    <3>1. SUFFICES ASSUME NEW x \in 1..Len(L), Ends(L[x]) PROVE FALSE
      BY DEF Ended
    <3>2. PICK y \in 1..Len(L) : x < y /\ Counts(L[y])
      BY <3>1 DEF Books, CountAfterEnd
    <3>3. y = 1
      BY <1>1, <2>1, <3>2 DEF Books, CountsOnce
    <3>4. QED BY <3>2, <3>3
  <2>4. ~WillCount(N, w.outcome)
    BY <1>1, <1>4, <1>6, <2>1 DEF Books, CountsOnce
  <2>5. QED BY <2>1, <2>2, <2>3, <2>4 DEF Owes, Counts
<1>12. ASSUME ~Ends(w) PROVE Ended(N) <=> Ended(L)
  BY <1>4, <1>5, <1>6, <1>12 DEF Ended
<1>13. ASSUME NEW o \in Outcomes \ {"BLOCKED"}, ~Ends(w), ~(Counts(w) /\ w.outcome = o)
       PROVE  Owes(N, o) = Owes(L, o)
  <2>1. WillCount(N, o) <=> WillCount(L, o)
    BY <1>4, <1>5, <1>6, <1>13 DEF WillCount
  <2>2. QED BY <1>12, <1>13, <2>1 DEF Owes
<1>14. Owes(L, "BLOCKED") = IF CountsBlocked(w) THEN w.by ELSE 0
  BY <1>2 DEF Owes
<1>15. w.op = "block" => k = 0 /\ N # <<>> /\ N[1] = L[2] /\ CountsBlocked(L[2])
                         /\ L[2].by = Cardinality(w.tasks)
  <2>1. SUFFICES ASSUME w.op = "block"
                 PROVE  k = 0 /\ N # <<>> /\ N[1] = L[2] /\ CountsBlocked(L[2])
                         /\ L[2].by = Cardinality(w.tasks)
    OBVIOUS
  <2>2. k = 0
    BY <1>7, <2>1 DEF Asks
  <2>3. 2 \in 1..Len(L) /\ CountsBlocked(L[2]) /\ L[2].by = Cardinality(w.tasks)
    BY <1>1, <2>1 DEF Books, BlockFirst
  <2>4. 2 \in 2..Len(L)
    BY <1>5, <2>3
  <2>5. Len(N) # 0
    BY <1>1, <2>2, <2>4
  <2>6. N # <<>>
    BY <2>5
  <2>7. QED BY <1>a, <2>2, <2>3, <2>6
<1>16. N # <<>> /\ CountsBlocked(N[1]) => w.op = "block"
  <2>1. SUFFICES ASSUME N # <<>>, CountsBlocked(N[1]) PROVE w.op = "block"
    OBVIOUS
  <2>2. k = 0
    BY <1>1, <1>3, <1>9, <2>1 DEF k, Spreads
  <2>3. 2 \in 1..Len(L) /\ CountsBlocked(L[2])
    BY <1>6, <1>a, <2>1, <2>2
  <2>4. QED BY <2>3 DEF Books, BlockFirst
<1>17. Owes(N, "BLOCKED") = IF w.op = "block" THEN Cardinality(w.tasks) ELSE 0
  BY <1>15, <1>16 DEF Owes
<1>18. (\E i \in 1..Len(N) : Spreads(N[i])) => \E x \in 2..Len(L) : Spreads(L[x])
  <2>1. SUFFICES ASSUME NEW i \in 1..Len(N), Spreads(N[i])
                 PROVE  \E x \in 2..Len(L) : Spreads(L[x])
    OBVIOUS
  <2>2. i \notin 1..k
    BY <1>1, <1>3, <2>1 DEF k
  <2>3. QED BY <1>1, <2>1, <2>2
<1>19. Spreading(N) \in {0, TaskCount} /\ Spreading(L) \in {0, TaskCount} /\ TaskCount \in Nat
  BY TaskCountType DEF Spreading
<1>20. \/ Spreading(N) <= Spreading(L)
       \/ Ends(w) /\ w.to = "FAILED" /\ Spreading(L) = 0 /\ Spreading(N) <= TaskCount
  <2>1. SUFFICES ASSUME ~(Spreading(N) <= Spreading(L))
                 PROVE  Ends(w) /\ w.to = "FAILED" /\ Spreading(L) = 0 /\ Spreading(N) <= TaskCount
    OBVIOUS
  <2>2. Spreading(L) = 0 /\ Spreading(N) = TaskCount /\ TaskCount # 0
    BY <1>19, <2>1
  <2>3. Ended(N) /\ \E x \in 2..Len(L) : Spreads(L[x])
    BY <1>18, <2>2 DEF Spreading
  <2>4. PICK x \in 2..Len(L) : Spreads(L[x])
    BY <2>3
  <2>5. ~Ended(L)
    BY <1>6, <2>2, <2>4 DEF Spreading
  <2>6. Ends(w)
    BY <1>12, <2>3, <2>5
  <2>7. PICK y \in 1..Len(L) : Counts(L[y]) /\ L[y].outcome = "FAILED"
    BY <1>6, <2>4 DEF Books, CountAfterSpread
  <2>8. PICK z \in 1..Len(L) : Counts(L[z]) /\ L[z].outcome = w.to
    BY <1>1, <2>6 DEF Books, CountAfterEnd
  <2>9. w.to = "FAILED"
    BY <2>7, <2>8 DEF Books, CountsOnce
  <2>10. QED BY <1>19, <2>2, <2>6, <2>9
<1>21. CountsBlocked(w) => Spreading(L) = TaskCount /\ Spreading(N) = 0
  <2>1. SUFFICES ASSUME CountsBlocked(w) PROVE Spreading(L) = TaskCount /\ Spreading(N) = 0
    OBVIOUS
  <2>2. Spreads(L[1])
    BY <2>1 DEF Spreads
  <2>3. \A x \in 1..Len(L) : ~Ends(L[x])
    <3>1. SUFFICES ASSUME NEW x \in 1..Len(L), Ends(L[x]) PROVE FALSE
      OBVIOUS
    <3>2. x < 1
      BY <1>1, <2>2, <3>1 DEF Books, SpreadAfterEnd
    <3>3. QED BY <3>2
  <2>4. Spreading(L) = TaskCount
    BY <1>1, <2>2, <2>3 DEF Spreading, Ended
  <2>5. ASSUME NEW x \in 2..Len(L), Spreads(L[x]) PROVE FALSE
    <3>1. L[x].op # "propagate"
      <4>1. SUFFICES ASSUME L[x].op = "propagate" PROVE FALSE
        OBVIOUS
      <4>2. L[x-1].op = "status" /\ L[x-1].to = "FAILED" /\ x - 1 \in 1..Len(L)
        BY <1>6, <4>1 DEF Shape, PropagateAfterFailed
      <4>3. QED BY <2>3, <4>2 DEF Ends, Outcomes
    <3>2. L[x].op = "block" \/ CountsBlocked(L[x])
      BY <2>5, <3>1 DEF Spreads
    <3>3. L[1].op = "block"
      BY <1>6, <3>2 DEF Books, BlockFirst
    <3>4. QED BY <2>1, <3>3 DEF CountsBlocked
  <2>6. Spreading(N) = 0
    BY <1>18, <2>5 DEF Spreading
  <2>7. QED BY <2>4, <2>6
<1>22. N # <<>> => (N[1].op \in {"propagate", "block"} => Ends(w) /\ w.to = "FAILED")
  <2>1. SUFFICES ASSUME N # <<>>, N[1].op \in {"propagate", "block"} PROVE Ends(w) /\ w.to = "FAILED"
    OBVIOUS
  <2>2. k = 0
    BY <1>1, <1>3, <1>9, <2>1 DEF k, Spreads
  <2>3. 2 \in 2..Len(L) /\ 2 \in 1..Len(L) /\ L[2].op \in {"propagate", "block"}
    BY <1>6, <1>a, <2>1, <2>2
  <2>4. L[2].op = "propagate"
    BY <2>3 DEF Books, BlockFirst
  <2>5. L[1].op = "status" /\ L[1].to = "FAILED"
    BY <2>3, <2>4 DEF Shape, PropagateAfterFailed
  <2>6. QED BY <2>5 DEF Ends, Outcomes
<1>23. OwesJob(N) = 0 \/ (F # <<>> /\ F[1].op = "job" /\ OwesJob(N) = 1)
  <2>1. CASE k = 0
    <3>1. SUFFICES ASSUME N # <<>>, N[1].op = "job" PROVE FALSE
      BY DEF OwesJob
    <3>2. QED BY <1>6, <1>a, <2>1, <3>1 DEF Books, JobFirst
  <2>2. CASE k # 0
    BY <1>1, <1>9, <2>2 DEF OwesJob
  <2>3. QED BY <2>1, <2>2
<1>24. QED BY <1>10, <1>11, <1>13, <1>14, <1>17, <1>20, <1>21, <1>22, <1>23

\* The books are kept when a failure finds what waits for it.
LEMMA BooksAfterSpread ==
  ASSUME NEW L, NEW F, NEW N, Left(L, F, N), Books(L), Shape(L), L[1].op = "propagate",
         NEW S \in SUBSET Tasks, F = <<Block(S), Increment("BLOCKED", Cardinality(S)), Finalize>>
  PROVE  /\ Books(N)
         /\ \A o \in Outcomes : Owes(N, o) = Owes(L, o)
         /\ Owes(L, "BLOCKED") = 0
         /\ Spreading(N) = Spreading(L)
         /\ OwesJob(N) = 0
<1>1. /\ Len(F) = 3
      /\ F[1].op = "block" /\ F[1].tasks = S
      /\ F[2].op = "increment" /\ F[2].outcome = "BLOCKED" /\ F[2].by = Cardinality(S)
      /\ F[3].op = "finalize"
  BY DEF Block, Increment, Finalize
<1>2. /\ N \in Seq(Calls) /\ Len(L) \in Nat \ {0} /\ 1 \in 1..Len(L)
      /\ Len(N) = 3 + Len(L) - 1
      /\ \A i \in 1..3 : i \in 1..Len(N) /\ N[i] = F[i]
      /\ \A i \in 1..Len(N) : i \notin 1..3 =>
           \E m \in 2..Len(L) : m \in 1..Len(L) /\ N[i] = L[m] /\ i = m + 3 - 1
      /\ \A m \in 2..Len(L) : m + 3 - 1 \in 1..Len(N) /\ N[m + 3 - 1] = L[m]
  <2>1. Moved(L, F, N)
    BY CallsMove
  <2>2. Len(F) = 3
    BY <1>1
  <2>3. QED BY <2>1, <2>2 DEF Moved
<1>3. /\ \A i \in 1..Len(F) : ~Ends(F[i]) /\ ~Counts(F[i])
      /\ \A i \in 1..Len(F) : F[i].op \notin {"counter", "job"}
  BY <1>1 DEF Ends, Counts
<1>4. /\ \A o : WillCount(N, o) <=> \E x \in 2..Len(L) : Counts(L[x]) /\ L[x].outcome = o
      /\ Ended(N) <=> \A x \in 2..Len(L) : ~Ends(L[x])
  BY <1>3, EndsLeft
<1>5. \A x \in 2..Len(L) : x \in 1..Len(L) /\ x # 1 /\ x > 1 /\ x \in Int
  BY <1>2
<1>6. \A x \in 1..Len(L) : x = 1 \/ x \in 2..Len(L)
  BY <1>2
<1>7. Spreads(L[1]) /\ ~Ends(L[1]) /\ ~Counts(L[1]) /\ ~CountsBlocked(L[1])
  BY DEF Spreads, Ends, Counts, CountsBlocked
<1>8. \A x \in 1..Len(L) : ~Ends(L[x])
  <2>1. SUFFICES ASSUME NEW x \in 1..Len(L), Ends(L[x]) PROVE FALSE
    OBVIOUS
  <2>2. x < 1
    BY <1>2, <1>7, <2>1 DEF Books, SpreadAfterEnd
  <2>3. QED BY <2>2
<1>9. \A x \in 2..Len(L) : ~Spreads(L[x])
  <2>1. SUFFICES ASSUME NEW x \in 2..Len(L), Spreads(L[x]) PROVE FALSE
    OBVIOUS
  <2>2. L[x].op # "propagate"
    <3>1. SUFFICES ASSUME L[x].op = "propagate" PROVE FALSE
      OBVIOUS
    <3>2. L[x-1].op = "status" /\ L[x-1].to = "FAILED" /\ x - 1 \in 1..Len(L)
      BY <1>5, <3>1 DEF Shape, PropagateAfterFailed
    <3>3. QED BY <1>8, <3>2 DEF Ends, Outcomes
  <2>3. L[1].op = "block"
    BY <1>5, <2>1, <2>2 DEF Spreads, Books, BlockFirst
  <2>4. QED BY <2>3
<1>10. \A x \in 1..Len(L) : L[x].op # "counter"
  BY <1>2, <1>7 DEF Books, CountersAlone
<1>11. PICK c \in 1..Len(L) : 1 < c /\ Counts(L[c]) /\ L[c].outcome = "FAILED"
  BY <1>2, <1>7 DEF Books, CountAfterSpread
<1>12. c \in 2..Len(L) /\ c + 2 \in 1..Len(N) /\ N[c + 2] = L[c] /\ c + 2 > 3
  BY <1>2, <1>6, <1>11
\* What each call that is left is.
<1>13. \A i \in 1..Len(N) :
         \/ i = 1 /\ N[i].op = "block" /\ N[i].tasks = S
         \/ i = 2 /\ CountsBlocked(N[i]) /\ N[i].by = Cardinality(S)
         \/ i = 3 /\ N[i].op = "finalize"
         \/ \E m \in 2..Len(L) : m \in 1..Len(L) /\ m \in Int /\ N[i] = L[m] /\ i = m + 2
  <2>1. TAKE i \in 1..Len(N)
  <2>2. CASE i \in 1..3
    BY <1>1, <1>2, <2>2 DEF CountsBlocked
  <2>3. CASE i \notin 1..3
    BY <1>2, <1>5, <2>3
  <2>4. QED BY <2>2, <2>3
<1>14. \A i \in 1..Len(N) : ~Ends(N[i])
  BY <1>8, <1>13 DEF Ends, CountsBlocked
<1>15. \A i \in 1..Len(N) : Counts(N[i]) =>
         \E m \in 1..Len(L) : N[i] = L[m] /\ i = m + 2
  BY <1>13 DEF Counts, CountsBlocked
<1>16. \A i \in 1..Len(N) : Spreads(N[i]) =>
         \/ i = 1 /\ N[i].op = "block" /\ N[i].tasks = S
         \/ i = 2 /\ CountsBlocked(N[i]) /\ N[i].by = Cardinality(S)
  BY <1>9, <1>13 DEF Spreads, CountsBlocked
<1>17. Cardinality(S) <= TaskCount
  BY RecoveryConstants, FS_Subset DEF TaskCount
<1>18. Books(N)
  <2>1. EndsOnce(N) /\ CountAfterEnd(N) /\ SpreadAfterEnd(N)
    BY <1>14 DEF EndsOnce, CountAfterEnd, SpreadAfterEnd
  <2>2. CountsOnce(N)
    <3>1. ASSUME NEW i \in 1..Len(N), NEW j \in 1..Len(N), Counts(N[i]), Counts(N[j])
          PROVE  i = j
      <4>1. PICK m \in 1..Len(L) : N[i] = L[m] /\ i = m + 2
        BY <1>15, <3>1
      <4>2. PICK x \in 1..Len(L) : N[j] = L[x] /\ j = x + 2
        BY <1>15, <3>1
      <4>3. m = x
        BY <3>1, <4>1, <4>2 DEF Books, CountsOnce
      <4>4. QED BY <4>1, <4>2, <4>3
    <3>2. ASSUME NEW i \in 1..Len(N), Counts(N[i]) PROVE N[i].by = 1
      BY <1>15, <3>2 DEF Books, CountsOnce
    <3>3. QED BY <3>1, <3>2 DEF CountsOnce
  <2>3. CountAfterSpread(N)
    <3>1. SUFFICES ASSUME NEW i \in 1..Len(N), Spreads(N[i])
                   PROVE  i < c + 2 /\ Counts(N[c + 2]) /\ N[c + 2].outcome = "FAILED"
      BY <1>12 DEF CountAfterSpread
    <3>2. i \in {1, 2}
      BY <1>16, <3>1
    <3>3. QED BY <1>11, <1>12, <3>2
  <2>4. BlockFirst(N)
    <3>1. 1 \in 1..Len(N) /\ 2 \in 1..Len(N) /\ N[1].op = "block" /\ N[1].tasks = S
          /\ CountsBlocked(N[2]) /\ N[2].by = Cardinality(S)
      BY <1>1, <1>2 DEF CountsBlocked
    <3>2. SUFFICES ASSUME NEW i \in 1..Len(N)
                   PROVE  /\ N[i].op = "block" => i = 1
                          /\ CountsBlocked(N[i]) => i = 2
      BY <1>17, <3>1 DEF BlockFirst
    <3>3. QED BY <1>16 DEF Spreads, CountsBlocked
  <2>5. CountersAlone(N)
    <3>1. \A i \in 1..Len(N) : N[i].op # "counter"
      BY <1>10, <1>13 DEF CountsBlocked
    <3>2. QED BY <3>1 DEF CountersAlone
  <2>6. JobFirst(N)
    <3>1. \A i \in 1..Len(N) : N[i].op # "job"
      BY <1>5, <1>13 DEF CountsBlocked, Books, JobFirst
    <3>2. QED BY <3>1 DEF JobFirst
  <2>7. QED BY <2>1, <2>2, <2>3, <2>4, <2>5, <2>6 DEF Books
<1>19. L # <<>> /\ N # <<>> /\ 1 \in 1..Len(N) /\ N[1].op = "block"
  <2>1. 1 \in 1..Len(N) /\ N[1].op = "block"
    BY <1>1, <1>2
  <2>2. QED BY <2>1, EmptySeq DEF Left
<1>20. Ended(L) /\ Ended(N)
  BY <1>8, <1>14 DEF Ended
<1>21. Owes(L, "BLOCKED") = 0 /\ Owes(N, "BLOCKED") = 0
  BY <1>7, <1>19 DEF Owes, CountsBlocked
<1>22. \A o \in Outcomes : Owes(N, o) = Owes(L, o)
  <2>1. TAKE o \in Outcomes
  <2>2. WillCount(N, o) <=> WillCount(L, o)
    BY <1>4, <1>5, <1>6, <1>7 DEF WillCount
  <2>3. QED BY <1>20, <1>21, <2>2 DEF Owes
<1>23. Spreading(N) = Spreading(L)
  <2>1. Spreads(N[1])
    BY <1>19 DEF Spreads
  <2>2. QED BY <1>2, <1>7, <1>19, <1>20, <2>1 DEF Spreading
<1>24. OwesJob(N) = 0
  BY <1>19 DEF OwesJob
<1>25. QED BY <1>18, <1>21, <1>22, <1>23, <1>24

\* Which calls follow a call: only a failure that finds what waits for it is followed
\* by calls that block and count.
LEMMA FollowedAside ==
  ASSUME NEW w \in Calls, db \in StorageType
  PROVE  \/ /\ w.op = "propagate"
            /\ \E S \in SUBSET Tasks :
                 /\ S = NewlyBlocked(w.task)
                 /\ Following(w) = <<Block(S), Increment("BLOCKED", Cardinality(S)), Finalize>>
         \/ /\ AllAside(Following(w)) /\ (Following(w) = <<>> \/ Asks(w))
            /\ Following(w) # <<>> /\ Following(w)[1].op = "job" => w.op = "count" /\ ~db.counted
<1> DEFINE F == Following(w)
<1>0. AllAside(<<>>)
  BY EmptySeq DEF AllAside
<1>1. CASE w.op = "propagate" /\ NewlyBlocked(w.task) # {}
  <2>1. F = <<Block(NewlyBlocked(w.task)), Increment("BLOCKED", Cardinality(NewlyBlocked(w.task))), Finalize>>
    BY <1>1 DEF Following
  <2>2. NewlyBlocked(w.task) \in SUBSET Tasks
    BY DEF NewlyBlocked
  <2>3. QED BY <1>1, <2>1, <2>2
<1>2. CASE w.op \notin {"decrement", "requeue", "propagate", "finalize", "mark", "count", "finalizeJob"}
           \/ (w.op = "propagate" /\ NewlyBlocked(w.task) = {})
  <2>1. F = <<>>
    BY <1>2 DEF Following
  <2>2. QED BY <1>0, <2>1
<1>3. CASE w.op = "decrement"
  <2>1. F \in {PairOf(w.task), <<>>}
    BY <1>3 DEF Following, PairOf
  <2>2. QED BY <1>0, <1>3, <2>1 DEF PairOf, SetStatus, AddToReady, AllAside, Aside, Asks, Ends, Counts,
                                   Spreads, CountsBlocked, Outcomes
<1>4. CASE w.op = "requeue"
  <2>1. F \in {PairOf(w.task), <<SetStatus(w.task, "PENDING")>>}
    BY <1>4 DEF Following, Requeue, PairOf
  <2>2. QED BY <1>4, <2>1 DEF PairOf, SetStatus, AddToReady, AllAside, Aside, Asks, Ends, Counts,
                             Spreads, CountsBlocked, Outcomes
<1>5. CASE w.op = "finalize"
  <2>1. F \in {<<SetInterview(Verdict)>>, <<>>}
    BY <1>5 DEF Following
  <2>2. QED BY <1>0, <1>5, <2>1 DEF SetInterview, AllAside, Aside, Asks, Ends, Counts, Spreads, CountsBlocked
<1>6. CASE w.op = "mark"
  <2>1. F \in {<<CountInterview(db.interview)>>, <<>>}
    BY <1>6 DEF Following
  <2>2. QED BY <1>0, <1>6, <2>1 DEF CountInterview, AllAside, Aside, Asks, Ends, Counts, Spreads, CountsBlocked
<1>7. CASE w.op = "finalizeJob"
  <2>1. F \in {<<SetJob(JobVerdict)>>, <<>>}
    BY <1>7 DEF Following
  <2>2. QED BY <1>0, <1>7, <2>1 DEF SetJob, AllAside, Aside, Asks, Ends, Counts, Spreads, CountsBlocked
<1>8. CASE w.op = "count"
  <2>1. F = IF db.counted THEN <<>> ELSE <<IncrementJob(w.as), FinalizeJob>>
    BY <1>8 DEF Following, CountOnce
  <2>2. CASE db.counted
    BY <1>0, <2>1, <2>2
  <2>3. CASE ~db.counted
    <3>1. F = <<IncrementJob(w.as), FinalizeJob>>
      BY <2>1, <2>3
    <3>2. QED BY <1>8, <2>3, <3>1 DEF IncrementJob, FinalizeJob, AllAside, Aside, Asks, Ends, Counts,
                                     Spreads, CountsBlocked
  <2>4. QED BY <2>2, <2>3
<1>9. QED BY <1>1, <1>2, <1>3, <1>4, <1>5, <1>6, <1>7, <1>8

-----------------------------------------------------------------------------
(*****************************************************************************)
(* The books of a handler that starts.                                       *)
(*****************************************************************************)

\* Calls with which a handler starts: the books are right, and nothing is owed yet.
Opens(L) ==
  /\ Books(L) /\ \A o \in Outcomes : Owes(L, o) = 0
  /\ Spreading(L) = 0 /\ OwesJob(L) = 0
  /\ \A i \in 1..Len(L) : L[i].op \notin {"counter", "block"} /\ (L[i].op = "propagate" => i # 1)

LEMMA OutcomeOpens ==
  ASSUME NEW t \in Tasks, NEW o \in Satisfied, NEW a, NEW b, NEW L, OutcomeCalls(L, t, o, a, b)
  PROVE  /\ Opens(L)
         /\ \A i \in 1..Len(L) : L[i].op = "status" => i = a /\ L[i].task = t /\ L[i].to = o
         /\ a = 2 => L[1].op = "answer" /\ L[1].task = t
         /\ \A i \in 1..Len(L) : L[i].op # "attempt"
<1>1. /\ a \in {1, 2} /\ b \in Nat /\ a <= b /\ Len(L) = b + 3
      /\ \A i \in 1..Len(L) : i \in Int /\
           \/ i = a /\ L[i].op = "status" /\ L[i].task = t /\ L[i].to = o
           \/ i < a /\ L[i].op = "answer" /\ L[i].task = t
           \/ a < i /\ i <= b /\ L[i].op = "decrement"
           \/ i = b + 1 /\ L[i].op = "increment" /\ L[i].outcome = o /\ L[i].by = 1
           \/ b + 1 < i /\ L[i].op \in {"finalize", "mark"}
  BY DEF OutcomeCalls
<1>2. a \in 1..Len(L) /\ b + 1 \in 1..Len(L) /\ 1 \in 1..Len(L) /\ a < b + 1
  BY <1>1
<1>3. \A i \in 1..Len(L) : L[i].op = "status" => i = a /\ L[i].task = t /\ L[i].to = o
  BY <1>1
<1>4. L[a].op = "status" /\ L[a].to = o /\ L[b+1].op = "increment" /\ L[b+1].outcome = o /\ L[b+1].by = 1
  BY <1>1, <1>2
<1>5. \A i \in 1..Len(L) : L[i].op = "increment" => i = b + 1 /\ L[i].outcome = o /\ L[i].by = 1
  BY <1>1
<1>6. \A i \in 1..Len(L) : L[i].op \notin {"propagate", "block", "counter", "job", "attempt"}
  BY <1>1
<1>7. o \in Outcomes \ {"BLOCKED"}
  BY DEF Satisfied, Outcomes
<1>8. \A i \in 1..Len(L) : ~Spreads(L[i]) /\ ~CountsBlocked(L[i])
  BY <1>5, <1>6, <1>7 DEF Spreads, CountsBlocked
<1>9. Ends(L[a]) /\ Counts(L[b+1])
  BY <1>4, <1>7 DEF Ends, Counts
<1>10. EndsOnce(L) /\ CountsOnce(L)
  BY <1>3, <1>5 DEF EndsOnce, CountsOnce, Ends, Counts
<1>11. CountAfterEnd(L)
  <2>1. SUFFICES ASSUME NEW i \in 1..Len(L), Ends(L[i])
                 PROVE  i < b + 1 /\ Counts(L[b+1]) /\ L[b+1].outcome = L[i].to
    BY <1>2 DEF CountAfterEnd
  <2>2. i = a /\ L[i].to = o
    BY <1>3, <2>1 DEF Ends
  <2>3. QED BY <1>2, <1>4, <1>9, <2>2
<1>12. CountAfterSpread(L) /\ SpreadAfterEnd(L) /\ BlockFirst(L)
  BY <1>6, <1>8 DEF CountAfterSpread, SpreadAfterEnd, BlockFirst
<1>13. CountersAlone(L) /\ JobFirst(L)
  BY <1>6 DEF CountersAlone, JobFirst
<1>14. Books(L)
  BY <1>10, <1>11, <1>12, <1>13 DEF Books
<1>15. ~Ended(L)
  BY <1>2, <1>9 DEF Ended
<1>16. Spreading(L) = 0 /\ OwesJob(L) = 0 /\ \A x \in Outcomes : Owes(L, x) = 0
  BY <1>2, <1>6, <1>8, <1>15 DEF Spreading, OwesJob, Owes
<1>17. a = 2 => L[1].op = "answer" /\ L[1].task = t
  BY <1>1, <1>2
<1>18. QED BY <1>3, <1>6, <1>14, <1>16, <1>17 DEF Opens

\* The calls for a failure that is tried again, and for one that is final.
LEMMA FailureOpens ==
  ASSUME NEW t \in Tasks, NEW L,
         \/ L = <<CountAttempt(t)>> \o <<SetStatus(t, "READY"), AddToReady(t)>>
         \/ L = <<CountAttempt(t)>> \o (<<SetStatus(t, "FAILED"), Propagate(t)>> \o MarkTask("FAILED"))
  PROVE  /\ Opens(L)
         /\ 2 \in 1..Len(L) /\ L[1].op = "attempt" /\ L[1].task = t
         /\ L[2].op = "status" /\ L[2].task = t /\ L[2].to \in {"READY", "FAILED"}
         /\ L[2].to = "READY" <=> L = <<CountAttempt(t)>> \o <<SetStatus(t, "READY"), AddToReady(t)>>
         /\ \A i \in 1..Len(L) : /\ L[i].op = "attempt" => i = 1
                                 /\ L[i].op = "status" => i = 2
<1> DEFINE R == <<CountAttempt(t), SetStatus(t, "READY"), AddToReady(t)>>
           X == <<CountAttempt(t), SetStatus(t, "FAILED"), Propagate(t), Increment("FAILED", 1), Finalize, MarkInterview>>
<1>0. \A s \in Status \ {"BLOCKED"} : SetStatus(t, s) \in Calls
  BY CallsMade
<1>1. SetStatus(t, "READY") \in Calls /\ SetStatus(t, "FAILED") \in Calls
  BY <1>0 DEF Status, Outcomes
<1>2. CountAttempt(t) \in Calls /\ AddToReady(t) \in Calls /\ Propagate(t) \in Calls
      /\ Increment("FAILED", 1) \in Calls /\ Finalize \in Calls /\ MarkInterview \in Calls
  BY CallsMade DEF Outcomes
<1>3. <<CountAttempt(t)>> \o <<SetStatus(t, "READY"), AddToReady(t)>> = R
  BY <1>1, <1>2, ThreeCalls
<1>4. <<CountAttempt(t)>> \o (<<SetStatus(t, "FAILED"), Propagate(t)>> \o MarkTask("FAILED")) = X
  BY <1>1, <1>2, SixCalls DEF MarkTask
<1>5. Len(R) = 3 /\ R[1].op = "attempt" /\ R[1].task = t /\ R[2].op = "status" /\ R[2].task = t
      /\ R[2].to = "READY" /\ R[3].op = "ready"
  BY DEF CountAttempt, SetStatus, AddToReady
<1>6. Len(X) = 6 /\ X[1].op = "attempt" /\ X[1].task = t /\ X[2].op = "status" /\ X[2].task = t
      /\ X[2].to = "FAILED" /\ X[3].op = "propagate" /\ X[4].op = "increment" /\ X[4].outcome = "FAILED"
      /\ X[4].by = 1 /\ X[5].op = "finalize" /\ X[6].op = "mark"
  BY DEF CountAttempt, SetStatus, Propagate, Increment, Finalize, MarkInterview
<1>7. L = R \/ L = X
  BY <1>3, <1>4
<1> HIDE DEF R, X
<1>8. R # X
  BY <1>5, <1>6
<1>9. CASE L = R
  <2>0. Len(L) = 3
    BY <1>5, <1>9, Zenon
  <2>1. \A i \in 1..Len(L) : i \in {1, 2, 3}
    BY <2>0
  <2>2. \A i \in 1..Len(L) : /\ L[i].op \in {"attempt", "status", "ready"}
                             /\ L[i].op = "attempt" => i = 1
                             /\ L[i].op = "status" => i = 2 /\ L[i].to = "READY"
    BY <1>5, <1>9, <2>1
  <2>3. \A i \in 1..Len(L) : ~Ends(L[i]) /\ ~Counts(L[i]) /\ ~Spreads(L[i]) /\ ~CountsBlocked(L[i])
                             /\ L[i].op \notin {"counter", "job", "block"}
    BY <2>2 DEF Ends, Counts, Spreads, CountsBlocked, Outcomes
  <2>4. Books(L)
    BY <2>3 DEF Books, EndsOnce, CountsOnce, CountAfterEnd, CountAfterSpread, SpreadAfterEnd, BlockFirst,
                CountersAlone, JobFirst
  <2>5. 1 \in 1..Len(L) /\ 2 \in 1..Len(L)
    BY <2>0
  <2>6. \A o : ~WillCount(L, o)
    BY <2>3 DEF WillCount
  <2>7. Opens(L)
    BY <2>2, <2>3, <2>4, <2>5, <2>6 DEF Opens, Owes, Spreading, OwesJob
  <2>8. QED BY <1>3, <1>5, <1>9, <2>2, <2>5, <2>7
<1>10. CASE L = X
  <2>0. Len(L) = 6
    BY <1>6, <1>10, Zenon
  <2>1. \A i \in 1..Len(L) : i \in {1, 2, 3, 4, 5, 6}
    BY <2>0
  <2>2. \A i \in 1..Len(L) : /\ L[i].op = "attempt" => i = 1
                             /\ L[i].op = "status" => i = 2
                             /\ L[i].op = "propagate" => i = 3
                             /\ L[i].op = "increment" => i = 4
                             /\ L[i].op \notin {"counter", "job", "block"}
    BY <1>6, <1>10, <2>1
  <2>3. 1 \in 1..Len(L) /\ 2 \in 1..Len(L) /\ 4 \in 1..Len(L)
    BY <2>0
  <2>4. \A i \in 1..Len(L) : /\ Ends(L[i]) => i = 2
                             /\ Counts(L[i]) => i = 4
                             /\ ~CountsBlocked(L[i])
                             /\ Spreads(L[i]) => i = 3
    BY <1>6, <1>10, <2>2 DEF Ends, Counts, Spreads, CountsBlocked
  <2>5. Ends(L[2]) /\ L[2].to = "FAILED" /\ Counts(L[4]) /\ L[4].outcome = "FAILED" /\ L[4].by = 1
    BY <1>6, <1>10 DEF Ends, Counts, Outcomes
  <2>6. EndsOnce(L) /\ CountsOnce(L) /\ SpreadAfterEnd(L)
    BY <2>4, <2>5 DEF EndsOnce, CountsOnce, SpreadAfterEnd
  <2>7. CountAfterEnd(L) /\ CountAfterSpread(L)
    BY <2>3, <2>4, <2>5 DEF CountAfterEnd, CountAfterSpread
  <2>8. BlockFirst(L) /\ CountersAlone(L) /\ JobFirst(L)
    BY <2>2, <2>4 DEF BlockFirst, CountersAlone, JobFirst
  <2>9. ~Ended(L)
    BY <2>3, <2>5 DEF Ended
  <2>10. Opens(L)
    BY <2>2, <2>3, <2>4, <2>6, <2>7, <2>8, <2>9 DEF Opens, Books, Owes, Spreading, OwesJob
  <2>11. QED BY <1>3, <1>6, <1>8, <1>10, <2>2, <2>3, <2>10
<1>11. QED BY <1>7, <1>9, <1>10

-----------------------------------------------------------------------------
(*****************************************************************************)
(* What all processes owe, and the balance.                                  *)
(*****************************************************************************)

\* What the running handlers have still to count, of an outcome, of tasks to be blocked
\* and of the interview.
Owed(o)  == Total([x \in Processes |-> Owes(todo[x], o)])
Spread   == Total([x \in Processes |-> Spreading(todo[x])])
OwedJobs == Total([x \in Processes |-> OwesJob(todo[x])])

InBooks == \A x \in Processes : Books(todo[x])

LEMMA OwesType ==
  ASSUME NEW L \in Seq(Calls), Books(L)
  PROVE  /\ \A o \in Outcomes : Owes(L, o) \in 0..TaskCount
         /\ Spreading(L) \in 0..TaskCount /\ OwesJob(L) \in 0..TaskCount
<1>1. TaskCount \in Nat /\ 0 \in 0..TaskCount /\ 1 \in 0..TaskCount /\ TaskCount \in 0..TaskCount
  BY TaskCountType
<1>2. L # <<>> /\ CountsBlocked(L[1]) => L[1].by \in 0..TaskCount
  <2>1. SUFFICES ASSUME L # <<>>, CountsBlocked(L[1]) PROVE L[1].by \in 0..TaskCount
    OBVIOUS
  <2>2. 1 \in 1..Len(L) /\ L[1] \in Calls
    BY <2>1, EmptySeq, ElementOfSeq
  <2>3. L[1].by \in Nat
    BY <2>1, <2>2, CallFields DEF CountsBlocked
  <2>4. L[1].by <= TaskCount
    BY <2>1, <2>2 DEF Books, BlockFirst
  <2>5. QED BY <1>1, <2>3, <2>4
<1>3. \A o \in Outcomes : Owes(L, o) \in 0..TaskCount
  BY <1>1, <1>2 DEF Owes
<1>4. QED BY <1>1, <1>3 DEF Spreading, OwesJob

\* Only p steps: the sums change as what p owes.
LEMMA OwedChanges ==
  ASSUME RecoveryType, RecoveryType', InBooks, NEW p \in Processes, Books(todo'[p]),
         \A q \in Processes \ {p} : todo'[q] = todo[q]
  PROVE  /\ \A o \in Outcomes : Owed(o)' + Owes(todo[p], o) = Owed(o) + Owes(todo'[p], o)
         /\ Spread' + Spreading(todo[p]) = Spread + Spreading(todo'[p])
         /\ OwedJobs' + OwesJob(todo[p]) = OwedJobs + OwesJob(todo'[p])
<1>1. \A x \in Processes : todo[x] \in Seq(Calls) /\ Books(todo[x])
  BY DEF RecoveryType, InBooks
<1>2. \A x \in Processes : todo'[x] \in Seq(Calls) /\ Books(todo'[x])
  BY <1>1 DEF RecoveryType
<1>3. ASSUME NEW o \in Outcomes PROVE Owed(o)' + Owes(todo[p], o) = Owed(o) + Owes(todo'[p], o)
  <2> DEFINE f == [x \in Processes |-> Owes(todo[x], o)]
             g == [x \in Processes |-> Owes(todo'[x], o)]
  <2>1. f \in [Processes -> 0..TaskCount] /\ g \in [Processes -> 0..TaskCount]
    BY <1>1, <1>2, <1>3, OwesType
  <2>2. f[p] = Owes(todo[p], o) /\ g[p] = Owes(todo'[p], o) /\ \A q \in Processes \ {p} : g[q] = f[q]
    OBVIOUS
  <2>3. Owed(o) = Total(f) /\ Owed(o)' = Total(g)
    BY DEF Owed
  <2> HIDE DEF f, g
  <2>4. Total(g) + f[p] = Total(f) + g[p]
    BY <2>1, <2>2, TotalChanges
  <2>5. QED BY <2>2, <2>3, <2>4
<1>4. Spread' + Spreading(todo[p]) = Spread + Spreading(todo'[p])
  <2> DEFINE f == [x \in Processes |-> Spreading(todo[x])]
             g == [x \in Processes |-> Spreading(todo'[x])]
  <2>1. f \in [Processes -> 0..TaskCount] /\ g \in [Processes -> 0..TaskCount]
    BY <1>1, <1>2, OwesType
  <2>2. f[p] = Spreading(todo[p]) /\ g[p] = Spreading(todo'[p]) /\ \A q \in Processes \ {p} : g[q] = f[q]
    OBVIOUS
  <2>3. Spread = Total(f) /\ Spread' = Total(g)
    BY DEF Spread
  <2> HIDE DEF f, g
  <2>4. Total(g) + f[p] = Total(f) + g[p]
    BY <2>1, <2>2, TotalChanges
  <2>5. QED BY <2>2, <2>3, <2>4
<1>5. OwedJobs' + OwesJob(todo[p]) = OwedJobs + OwesJob(todo'[p])
  <2> DEFINE f == [x \in Processes |-> OwesJob(todo[x])]
             g == [x \in Processes |-> OwesJob(todo'[x])]
  <2>1. f \in [Processes -> 0..TaskCount] /\ g \in [Processes -> 0..TaskCount]
    BY <1>1, <1>2, OwesType
  <2>2. f[p] = OwesJob(todo[p]) /\ g[p] = OwesJob(todo'[p]) /\ \A q \in Processes \ {p} : g[q] = f[q]
    OBVIOUS
  <2>3. OwedJobs = Total(f) /\ OwedJobs' = Total(g)
    BY DEF OwedJobs
  <2> HIDE DEF f, g
  <2>4. Total(g) + f[p] = Total(f) + g[p]
    BY <2>1, <2>2, TotalChanges
  <2>5. QED BY <2>2, <2>3, <2>4
<1>6. QED BY <1>3, <1>4, <1>5

\* When no process has calls to make, nothing is owed.
LEMMA NothingOwed ==
  ASSUME \A x \in Processes : \A o \in Outcomes : Owes(todo[x], o) = 0
  PROVE  \A o \in Outcomes : Owed(o) = 0
BY TotalOfNone DEF Owed

LEMMA OwedTypes ==
  /\ \A o : Owed(o) \in Nat /\ Owed(o)' \in Nat
  /\ Spread \in Nat /\ Spread' \in Nat /\ OwedJobs \in Nat /\ OwedJobs' \in Nat
BY TotalType DEF Owed, Spread, OwedJobs

\* What two processes owe is part of the sum.
LEMMA OwedOfTwo ==
  ASSUME RecoveryType, InBooks, NEW p \in Processes, NEW o \in Outcomes
  PROVE  /\ Owes(todo[p], o) <= Owed(o)
         /\ \A q \in Processes \ {p} : Owes(todo[p], o) + Owes(todo[q], o) <= Owed(o)
<1> DEFINE f == [x \in Processes |-> Owes(todo[x], o)]
<1>1. \A x \in Processes : todo[x] \in Seq(Calls) /\ Books(todo[x])
  BY DEF RecoveryType, InBooks
<1>2. f \in [Processes -> 0..TaskCount]
  BY <1>1, OwesType
<1>3. Owed(o) = Total(f) /\ \A x \in Processes : f[x] = Owes(todo[x], o)
  BY DEF Owed
<1> HIDE DEF f
<1>4. f[p] <= Total(f) /\ \A q \in Processes \ {p} : f[p] + f[q] <= Total(f)
  BY <1>2, TotalOfTwo
<1>5. QED BY <1>3, <1>4

\* What else a call does to the storage.
LEMMA CallRecords ==
  ASSUME NEW w \in Calls, db \in StorageType
  PROVE  /\ Written(w).tally =
              [o \in Outcomes |->
                 IF w.op = "increment" /\ w.outcome = o THEN db.tally[o] + w.by
                 ELSE IF w.op = "counter" /\ w.outcome = o THEN w.to ELSE db.tally[o]]
         /\ Written(w).attempts =
              [t \in Tasks |-> IF w.op = "attempt" /\ w.task = t THEN db.attempts[t] + 1 ELSE db.attempts[t]]
         /\ Written(w).answers = IF w.op = "answer" THEN db.answers \cup {w.task} ELSE db.answers
         /\ Written(w).counted = (db.counted \/ w.op = "count")
         /\ Written(w).jobTally =
              [v \in Verdicts |-> IF w.op = "job" /\ w.as = v THEN db.jobTally[v] + 1 ELSE db.jobTally[v]]
<1> USE CallFields DEF TaskOps, StorageType
<1>1. CASE w.op = "status"
  <2>1. Written(w) = [db EXCEPT !.status[w.task] = w.to]
    BY <1>1 DEF Written
  <2>2. QED BY <1>1, <2>1
<1>2. CASE w.op = "ready"
  <2>1. Written(w) = [db EXCEPT !.ready = @ \cup {w.task}]
    BY <1>2 DEF Written
  <2>2. QED BY <1>2, <2>1
<1>3. CASE w.op = "answer"
  <2>1. Written(w) = [db EXCEPT !.answers = @ \cup {w.task}]
    BY <1>3 DEF Written
  <2>2. QED BY <1>3, <2>1
<1>4. CASE w.op = "decrement"
  <2>1. Written(w) = [db EXCEPT !.unmetDeps[w.task] = @ - 1]
    BY <1>4 DEF Written
  <2>2. QED BY <1>4, <2>1
<1>5. CASE w.op = "attempt"
  <2>1. Written(w) = [db EXCEPT !.attempts[w.task] = @ + 1]
    BY <1>5 DEF Written
  <2>2. QED BY <1>5, <2>1
<1>6. CASE w.op = "block"      BY <1>6 DEF Written
<1>7. CASE w.op = "increment"
  <2>1. Written(w) = [db EXCEPT !.tally[w.outcome] = @ + w.by]
    BY <1>7 DEF Written
  <2>2. QED BY <1>7, <2>1
<1>8. CASE w.op = "counter"
  <2>1. Written(w) = [db EXCEPT !.tally[w.outcome] = w.to]
    BY <1>8 DEF Written
  <2>2. QED BY <1>8, <2>1
<1>9. CASE w.op = "interview"
  <2>1. Written(w) = [db EXCEPT !.interview = w.to]
    BY <1>9 DEF Written
  <2>2. QED BY <1>9, <2>1
<1>10. CASE w.op = "count"
  <2>1. Written(w) = [db EXCEPT !.counted = TRUE]
    BY <1>10 DEF Written
  <2>2. /\ Written(w).tally = db.tally /\ Written(w).attempts = db.attempts
        /\ Written(w).answers = db.answers /\ Written(w).jobTally = db.jobTally
        /\ Written(w).counted = TRUE
    BY <2>1
  <2>3. Written(w).counted = (db.counted \/ w.op = "count")
    BY <1>10, <2>2
  <2>4. QED BY <1>10, <2>2, <2>3
<1>11. CASE w.op = "job"
  <2>1. Written(w) = [db EXCEPT !.jobTally[w.as] = @ + 1]
    BY <1>11 DEF Written
  <2>2. QED BY <1>11, <2>1
<1>12. CASE w.op = "setJob"
  <2>1. Written(w) = [db EXCEPT !.job = w.to]
    BY <1>12 DEF Written
  <2>2. QED BY <1>12, <2>1
<1>13. CASE w.op \in {"propagate", "requeue", "finalize", "mark", "finalizeJob"}
  <2>1. Written(w) = db BY <1>13 DEF Written
  <2>2. QED BY <1>13, <2>1
<1>14. QED BY <1>1, <1>2, <1>3, <1>4, <1>5, <1>6, <1>7, <1>8, <1>9, <1>10, <1>11, <1>12, <1>13

\* Which tasks have an outcome after a call.
LEMMA OutcomesAfter ==
  ASSUME Inv, Inv', NEW p \in Processes, Call(p), NEW w, w = todo[p][1]
  PROVE  /\ \A o \in Outcomes :
              WithStatus({o})' =
                IF Ends(w) /\ w.to = o THEN WithStatus({o}) \cup {w.task}
                ELSE IF w.op = "block" /\ o = "BLOCKED" THEN WithStatus({o}) \cup w.tasks
                ELSE WithStatus({o})
         /\ Ends(w) => w.task \in Tasks /\ db.status[w.task] \notin Outcomes
         /\ w.op = "block" => w.tasks \subseteq Tasks
<1>1. RecoveryType /\ todo[p] \in Seq(Calls) /\ todo[p] # <<>> /\ db \in StorageType
  BY DEF Inv, RecoveryType, Call
<1>2. w \in Calls /\ 1 \in 1..Len(todo[p]) /\ Head(todo[p]) = w
  BY <1>1, EmptySeq, ElementOfSeq
<1>3. db' = Written(w)
  BY <1>2 DEF Call
<1>4. db'.status = [t \in Tasks |-> IF w.op = "status" /\ t = w.task THEN w.to
                                    ELSE IF w.op = "block" /\ t \in w.tasks THEN "BLOCKED"
                                    ELSE db.status[t]]
  BY <1>1, <1>2, <1>3, CallWrites
<1>5. w.op = "status" => w.task \in Tasks /\ db.status[w.task] \notin Outcomes /\ w.to # "BLOCKED"
  <2>1. SUFFICES ASSUME w.op = "status"
                 PROVE  w.task \in Tasks /\ db.status[w.task] \notin Outcomes /\ w.to # "BLOCKED"
    OBVIOUS
  <2>2. w.task \in Tasks /\ w.to # "BLOCKED"
    BY <1>2, <2>1, CallFields DEF TaskOps
  <2>3. w.task \in Owned(todo[p])
    BY <1>2, <2>1, <2>2 DEF Owned, OwnOps
  <2>4. QED BY <2>2, <2>3 DEF Inv, PlacedStatus
<1>6. w.op = "block" =>
        /\ w.tasks \subseteq Tasks
        /\ \A t \in w.tasks : db.status[t] \in {"PENDING", "BLOCKED"}
  <2>1. SUFFICES ASSUME w.op = "block"
                 PROVE  w.tasks \subseteq Tasks /\ \A t \in w.tasks : db.status[t] \in {"PENDING", "BLOCKED"}
    OBVIOUS
  <2>2. w.tasks \subseteq Tasks
    BY <1>2, <2>1, CallFields
  <2>3. w.tasks \in Blocking(todo[p])
    BY <1>2, <2>1, <2>2 DEF Blocking
  <2>4. QED BY <2>2, <2>3, BlockingWaits
<1>7. ASSUME NEW o \in Outcomes
      PROVE  WithStatus({o})' =
                IF Ends(w) /\ w.to = o THEN WithStatus({o}) \cup {w.task}
                ELSE IF w.op = "block" /\ o = "BLOCKED" THEN WithStatus({o}) \cup w.tasks
                ELSE WithStatus({o})
  <2>0. WithStatus({o}) = {t \in Tasks : db.status[t] = o} /\ WithStatus({o})' = {t \in Tasks : db'.status[t] = o}
    BY DEF WithStatus
  <2>1. CASE w.op = "status"
    <3>1. \A t \in Tasks : db'.status[t] = IF t = w.task THEN w.to ELSE db.status[t]
      BY <1>4, <2>1
    <3>2. w.task \in Tasks /\ db.status[w.task] # o
      BY <1>5, <1>7, <2>1
    <3>3. w.to = o => Ends(w)
      BY <1>7, <2>1 DEF Ends
    <3>4. CASE w.to = o
      <4>1. {t \in Tasks : db'.status[t] = o} = {t \in Tasks : db.status[t] = o} \cup {w.task}
        BY <3>1, <3>2, <3>4
      <4>2. QED BY <2>0, <3>3, <3>4, <4>1
    <3>5. CASE w.to # o
      <4>1. {t \in Tasks : db'.status[t] = o} = {t \in Tasks : db.status[t] = o}
        BY <3>1, <3>2, <3>5
      <4>2. QED BY <2>0, <2>1, <3>5, <4>1
    <3>6. QED BY <3>4, <3>5
  <2>2. CASE w.op = "block"
    <3>1. \A t \in Tasks : db'.status[t] = IF t \in w.tasks THEN "BLOCKED" ELSE db.status[t]
      BY <1>4, <2>2
    <3>2. \A t \in w.tasks : t \in Tasks /\ (db.status[t] = o => o = "BLOCKED")
      BY <1>6, <1>7, <2>2 DEF Outcomes
    <3>3. ~Ends(w)
      BY <2>2 DEF Ends
    <3>4. QED BY <2>0, <2>2, <3>1, <3>2, <3>3
  <2>3. CASE w.op \notin {"status", "block"}
    <3>1. \A t \in Tasks : db'.status[t] = db.status[t]
      BY <1>4, <2>3
    <3>2. QED BY <2>0, <2>3, <3>1 DEF Ends
  <2>4. QED BY <2>1, <2>2, <2>3
<1>8. QED BY <1>5, <1>6, <1>7 DEF Ends

Number(o) == Cardinality(WithStatus({o}))

\* The recovery has still to write the counter of o.
Rewritten(o) ==
  \E x \in Processes : \E i \in 1..Len(todo[x]) : todo[x][i].op = "counter" /\ todo[x][i].outcome = o

\* It does so alone, and writes what the statuses say.
CountersFit ==
  \A x \in Processes : \A i \in 1..Len(todo[x]) : todo[x][i].op = "counter" =>
    up = {x} /\ \A o \in Outcomes : todo[x][i].outcome = o => todo[x][i].to = Number(o)

\* A counter and what is owed to it are no more than the tasks with the outcome, and are
\* as many unless a process died.
Balanced ==
  \A o \in Outcomes \ {"BLOCKED"} :
    /\ db.tally[o] + Owed(o) <= Number(o)
    /\ whole /\ ~Rewritten(o) => db.tally[o] + Owed(o) = Number(o)

\* Of blocked tasks no fewer are counted; and no more, unless failures met: one failure
\* counts at most all tasks.
BlockedBalanced ==
  /\ db.tally["BLOCKED"] + Spread <= TaskCount * Number("FAILED")
  /\ whole /\ ~Rewritten("BLOCKED") =>
       /\ Number("BLOCKED") <= db.tally["BLOCKED"] + Owed("BLOCKED")
       /\ Number("FAILED") <= 1 => Number("BLOCKED") = db.tally["BLOCKED"] + Owed("BLOCKED")

\* Nothing is blocked before the first failure blocks.
BlockedFresh ==
  /\ WithStatus({"FAILED"}) = {} => WithStatus({"BLOCKED"}) = {}
  /\ Number("FAILED") <= 1 =>
       \A x \in Processes : todo[x] # <<>> =>
         (todo[x][1].op \in {"propagate", "block"} => WithStatus({"BLOCKED"}) = {})

CountersInv == InBooks /\ CountersFit /\ Balanced /\ BlockedBalanced /\ BlockedFresh

LEMMA NumberType ==
  /\ \A o : Number(o) \in Nat /\ Number(o) <= TaskCount /\ IsFiniteSet(WithStatus({o}))
            /\ (Number(o) = 0 <=> WithStatus({o}) = {})
  /\ \A o : Number(o)' \in Nat /\ Number(o)' <= TaskCount /\ IsFiniteSet(WithStatus({o})')
            /\ (Number(o)' = 0 <=> WithStatus({o})' = {})
<1>1. ASSUME NEW S \in SUBSET Tasks
      PROVE  Cardinality(S) \in Nat /\ Cardinality(S) <= TaskCount /\ IsFiniteSet(S)
             /\ (Cardinality(S) = 0 <=> S = {})
  <2>1. IsFiniteSet(S) /\ Cardinality(S) <= TaskCount
    BY RecoveryConstants, FS_Subset DEF TaskCount
  <2>2. QED BY <2>1, FS_CardinalityType, FS_EmptySet
<1>2. \A o : WithStatus({o}) \in SUBSET Tasks /\ WithStatus({o})' \in SUBSET Tasks
  BY DEF WithStatus
<1>3. QED BY <1>1, <1>2 DEF Number

\* What a step of p does to the counters, to what p owes them and to the statuses.
Pays(p, o) ==
  \/ /\ whole' = whole /\ (Rewritten(o) => Rewritten(o)')
     /\ db'.tally[o] + Owes(todo'[p], o) + Number(o) = db.tally[o] + Owes(todo[p], o) + Number(o)'
  \/ /\ ~whole' \/ Rewritten(o)'
     /\ db'.tally[o] + Owes(todo'[p], o) + Number(o) <= db.tally[o] + Owes(todo[p], o) + Number(o)'
  \/ db'.tally[o] = Number(o)' /\ Owed(o)' = 0

PaysBlocked(p) ==
  \/ /\ whole' = whole /\ (Rewritten("BLOCKED") => Rewritten("BLOCKED")')
     /\ Number("BLOCKED")' + db.tally["BLOCKED"] + Owes(todo[p], "BLOCKED")
          <= Number("BLOCKED") + db'.tally["BLOCKED"] + Owes(todo'[p], "BLOCKED")
     /\ Number("FAILED")' <= 1 =>
          Number("BLOCKED")' + db.tally["BLOCKED"] + Owes(todo[p], "BLOCKED")
            = Number("BLOCKED") + db'.tally["BLOCKED"] + Owes(todo'[p], "BLOCKED")
  \/ ~whole' \/ Rewritten("BLOCKED")'
  \/ db'.tally["BLOCKED"] = Number("BLOCKED")' /\ Owed("BLOCKED")' = 0

SpreadsFor(p) ==
  \/ /\ Number("FAILED")' = Number("FAILED")
     /\ db'.tally["BLOCKED"] + Spreading(todo'[p]) <= db.tally["BLOCKED"] + Spreading(todo[p])
  \/ /\ Number("FAILED")' = Number("FAILED") + 1
     /\ db'.tally["BLOCKED"] = db.tally["BLOCKED"] /\ Spreading(todo[p]) = 0
  \/ db'.tally["BLOCKED"] = Number("BLOCKED")' /\ Spread' = 0

Accounts(p) ==
  /\ \A q \in Processes \ {p} : todo'[q] = todo[q]
  /\ Books(todo'[p]) /\ CountersFit' /\ BlockedFresh'
  /\ Number("FAILED") <= Number("FAILED")'
  /\ \A o \in Outcomes \ {"BLOCKED"} : Pays(p, o)
  /\ PaysBlocked(p) /\ SpreadsFor(p)

\* Such a step keeps the balance.
LEMMA AccountsKeep ==
  ASSUME RecoveryType, RecoveryType', CountersInv, NEW p \in Processes, Accounts(p)
  PROVE  CountersInv'
<1>1. InBooks'
  BY DEF CountersInv, InBooks, Accounts
<1>2. /\ \A o \in Outcomes : Owed(o)' + Owes(todo[p], o) = Owed(o) + Owes(todo'[p], o)
      /\ Spread' + Spreading(todo[p]) = Spread + Spreading(todo'[p])
  BY OwedChanges DEF CountersInv, Accounts
<1>3. /\ \A o \in Outcomes : db.tally[o] \in Nat /\ db'.tally[o] \in Nat
      /\ "BLOCKED" \in Outcomes /\ "FAILED" \in Outcomes
  BY DEF RecoveryType, StorageType, Outcomes
<1>4. /\ \A o \in Outcomes : Owes(todo[p], o) \in Nat /\ Owes(todo'[p], o) \in Nat
      /\ Spreading(todo[p]) \in 0..TaskCount /\ Spreading(todo'[p]) \in 0..TaskCount
  <2>1. todo[p] \in Seq(Calls) /\ todo'[p] \in Seq(Calls) /\ Books(todo[p]) /\ Books(todo'[p])
    BY <1>1 DEF RecoveryType, CountersInv, InBooks
  <2>2. QED BY <2>1, OwesType, TaskCountType
<1>5. Balanced'
  <2>1. SUFFICES ASSUME NEW o \in Outcomes \ {"BLOCKED"}
                 PROVE  /\ db'.tally[o] + Owed(o)' <= Number(o)'
                        /\ whole' /\ ~Rewritten(o)' => db'.tally[o] + Owed(o)' = Number(o)'
    BY DEF Balanced
  <2> DEFINE s == db.tally[o]      s1 == db'.tally[o]
             x == Owes(todo[p], o) x1 == Owes(todo'[p], o)
             y == Owed(o)          y1 == Owed(o)'
             n == Number(o)        n1 == Number(o)'
  <2>2. s \in Nat /\ s1 \in Nat /\ x \in Nat /\ x1 \in Nat /\ y \in Nat /\ y1 \in Nat /\ n \in Nat /\ n1 \in Nat
    BY <1>3, <1>4, OwedTypes, NumberType
  <2>3. y1 + x = y + x1 /\ s + y <= n /\ (whole /\ ~Rewritten(o) => s + y = n)
    BY <1>2 DEF CountersInv, Balanced
  <2>4. \/ whole' = whole /\ (Rewritten(o) => Rewritten(o)') /\ s1 + x1 + n = s + x + n1
        \/ (~whole' \/ Rewritten(o)') /\ s1 + x1 + n <= s + x + n1
        \/ s1 = n1 /\ y1 = 0
    BY DEF Accounts, Pays
  <2> HIDE DEF s, s1, x, x1, y, y1, n, n1
  <2>5. s1 + y1 <= n1
    BY <2>2, <2>3, <2>4
  <2>6. whole' /\ ~Rewritten(o)' => s1 + y1 = n1
    <3>1. SUFFICES ASSUME whole', ~Rewritten(o)' PROVE s1 + y1 = n1
      OBVIOUS
    <3>2. (s1 + x1 + n = s + x + n1 /\ s + y = n) \/ (s1 = n1 /\ y1 = 0)
      BY <2>3, <2>4, <3>1
    <3>3. QED BY <2>2, <2>3, <3>2
  <2>7. QED BY <2>5, <2>6 DEF s1, y1, n1
<1>6. BlockedBalanced'
  <2> DEFINE s == db.tally["BLOCKED"]      s1 == db'.tally["BLOCKED"]
             x == Owes(todo[p], "BLOCKED") x1 == Owes(todo'[p], "BLOCKED")
             y == Owed("BLOCKED")          y1 == Owed("BLOCKED")'
             n == Number("BLOCKED")        n1 == Number("BLOCKED")'
             f == Number("FAILED")         f1 == Number("FAILED")'
             u == Spread                   u1 == Spread'
             v == Spreading(todo[p])       v1 == Spreading(todo'[p])
             R == Rewritten("BLOCKED")     R1 == Rewritten("BLOCKED")'
  <2>2. /\ s \in Nat /\ s1 \in Nat /\ x \in Nat /\ x1 \in Nat /\ y \in Nat /\ y1 \in Nat /\ n \in Nat /\ n1 \in Nat
        /\ f \in Nat /\ f1 \in Nat /\ u \in Nat /\ u1 \in Nat /\ v \in 0..TaskCount /\ v1 \in 0..TaskCount
        /\ TaskCount \in Nat /\ n1 <= TaskCount
    BY <1>3, <1>4, OwedTypes, NumberType, TaskCountType
  <2>3. y1 + x = y + x1 /\ u1 + v = u + v1
    BY <1>2, <1>3
  <2>4. /\ s + u <= TaskCount * f
        /\ whole /\ ~R => n <= s + y /\ (f <= 1 => n = s + y)
    BY DEF CountersInv, BlockedBalanced
  <2>5. f <= f1 /\ (f1 = 0 => n1 = 0)
    BY NumberType DEF Accounts, BlockedFresh
  <2>6. \/ whole' = whole /\ (R => R1) /\ n1 + s + x <= n + s1 + x1 /\ (f1 <= 1 => n1 + s + x = n + s1 + x1)
        \/ ~whole' \/ R1
        \/ s1 = n1 /\ y1 = 0
    BY DEF Accounts, PaysBlocked
  <2>7. \/ f1 = f /\ s1 + v1 <= s + v
        \/ f1 = f + 1 /\ s1 = s /\ v = 0
        \/ s1 = n1 /\ u1 = 0
    BY DEF Accounts, SpreadsFor
  <2>8. SUFFICES /\ s1 + u1 <= TaskCount * f1
                 /\ whole' /\ ~R1 => n1 <= s1 + y1 /\ (f1 <= 1 => n1 = s1 + y1)
    BY DEF BlockedBalanced
  <2> HIDE DEF s, s1, x, x1, y, y1, n, n1, f, f1, u, u1, v, v1, R, R1
  <2>9. s1 + u1 <= TaskCount * f1
    <3>1. CASE f1 = f /\ s1 + v1 <= s + v
      <4>1. s1 + u1 <= s + u
        BY <2>2, <2>3, <3>1
      <4>2. TaskCount * f \in Nat
        BY <2>2
      <4>3. s1 + u1 <= TaskCount * f
        BY <2>2, <2>4, <4>1, <4>2
      <4>4. QED BY <3>1, <4>3
    <3>2. CASE f1 = f + 1 /\ s1 = s /\ v = 0
      <4>1. s1 + u1 <= s + u + TaskCount
        BY <2>2, <2>3, <3>2
      <4>2. TaskCount * f1 = TaskCount * f + TaskCount /\ TaskCount * f \in Nat
        BY <2>2, <3>2
      <4>3. QED BY <2>2, <2>4, <4>1, <4>2
    <3>3. CASE s1 = n1 /\ u1 = 0
      <4>1. CASE f1 = 0
        BY <2>2, <2>5, <3>3, <4>1
      <4>2. CASE f1 # 0
        <5>1. TaskCount <= TaskCount * f1
          BY <2>2, <4>2
        <5>2. TaskCount * f1 \in Nat
          BY <2>2
        <5>3. QED BY <2>2, <3>3, <5>1, <5>2
      <4>3. QED BY <4>1, <4>2
    <3>4. QED BY <2>7, <3>1, <3>2, <3>3
  <2>10. ASSUME whole', ~R1 PROVE n1 <= s1 + y1 /\ (f1 <= 1 => n1 = s1 + y1)
    <3>1. CASE s1 = n1 /\ y1 = 0
      BY <2>2, <3>1
    <3>2. CASE ~(s1 = n1 /\ y1 = 0)
      <4>1. /\ n1 + s + x <= n + s1 + x1 /\ (f1 <= 1 => n1 + s + x = n + s1 + x1)
            /\ n <= s + y /\ (f <= 1 => n = s + y)
        BY <2>4, <2>6, <2>10, <3>2
      <4>2. n1 <= s1 + y1
        BY <2>2, <2>3, <4>1
      <4>3. f1 <= 1 => n1 = s1 + y1
        BY <2>2, <2>3, <2>5, <4>1
      <4>4. QED BY <4>2, <4>3
    <3>3. QED BY <3>1, <3>2
  <2>11. QED BY <2>9, <2>10
<1>7. QED BY <1>1, <1>5, <1>6 DEF CountersInv, Accounts

LEMMA NoBooks ==
  /\ Books(<<>>) /\ \A o \in Outcomes : Owes(<<>>, o) = 0
  /\ Spreading(<<>>) = 0 /\ OwesJob(<<>>) = 0 /\ Len(<<>>) = 0
<1>1. Len(<<>>) = 0
  BY EmptySeq
<1>2. 1..Len(<<>>) = {}
  BY <1>1
<1>3. Books(<<>>)
  BY <1>2 DEF Books, EndsOnce, CountsOnce, CountAfterEnd, CountAfterSpread, SpreadAfterEnd, BlockFirst,
              CountersAlone, JobFirst
<1>4. QED BY <1>1, <1>2, <1>3 DEF Owes, WillCount, Spreading, OwesJob

\* A handler about to block, or to look for what to block, has its failure to count.
LEMMA FailureOwed ==
  ASSUME NEW L \in Seq(Calls), L # <<>>, Books(L), Spreads(L[1])
  PROVE  Owes(L, "FAILED") = 1
<1>1. 1 \in 1..Len(L)
  BY EmptySeq
<1>2. WillCount(L, "FAILED")
  BY <1>1 DEF Books, CountAfterSpread, WillCount
<1>3. Ended(L)
  <2>1. SUFFICES ASSUME NEW x \in 1..Len(L), Ends(L[x]) PROVE FALSE
    BY DEF Ended
  <2>2. x < 1
    BY <1>1, <2>1 DEF Books, SpreadAfterEnd
  <2>3. QED BY <2>2
<1>4. QED BY <1>2, <1>3 DEF Owes

\* What neither touches the books nor the statuses that they are about.
LEMMA NothingAccounted ==
  ASSUME CountersInv, todo' = todo, db'.tally = db.tally, up' = up, whole' = whole,
         \A o \in Outcomes : WithStatus({o})' = WithStatus({o})
  PROVE  CountersInv'
<1>1. /\ \A o \in Outcomes : Number(o)' = Number(o)
      /\ \A o : Owed(o)' = Owed(o) /\ (Rewritten(o)' <=> Rewritten(o))
      /\ Spread' = Spread /\ "BLOCKED" \in Outcomes /\ "FAILED" \in Outcomes
  BY DEF Number, Owed, Spread, Rewritten, Outcomes
<1>2. InBooks' /\ Balanced' /\ BlockedBalanced' /\ BlockedFresh'
  BY <1>1 DEF CountersInv, InBooks, Balanced, BlockedBalanced, BlockedFresh
<1>3. CountersFit'
  BY <1>1 DEF CountersInv, CountersFit
<1>4. QED BY <1>2, <1>3 DEF CountersInv

-----------------------------------------------------------------------------
(*****************************************************************************)
(* Every step accounts for what it does.                                     *)
(*****************************************************************************)

\* A handler that starts owes nothing yet.
LEMMA ReportAccounts ==
  ASSUME Inv, Inv', CountersInv, NEW p \in Processes, NEW t \in Tasks, NEW from, NEW L,
         Report(p, t, from, L), Opens(L)
  PROVE  Accounts(p)
<1>1. /\ p \in up /\ todo[p] = <<>> /\ db' = db /\ up' = up /\ whole' = whole
      /\ todo' = [todo EXCEPT ![p] = L]
  BY DEF Report, Idle
<1>2. RecoveryType /\ RecoveryType'
  BY DEF Inv
<1>3. todo'[p] = L /\ \A q \in Processes \ {p} : todo'[q] = todo[q]
  BY <1>1, <1>2 DEF RecoveryType
<1>4. L \in Seq(Calls)
  BY <1>2, <1>3 DEF RecoveryType
<1>5. \A o : WithStatus({o})' = WithStatus({o}) /\ Number(o)' = Number(o)
  BY <1>1 DEF WithStatus, Number
<1>6. \A o : Rewritten(o) => Rewritten(o)'
  BY <1>1, <1>3, NoBooks DEF Rewritten
<1>7. \A i \in 1..Len(L) : L[i].op \notin {"counter", "block"} /\ (L[i].op = "propagate" => i # 1)
  BY DEF Opens
<1>8. CountersFit'
  BY <1>1, <1>3, <1>5, <1>7 DEF CountersInv, CountersFit
<1>9. BlockedFresh'
  <2>1. L # <<>> => L[1].op \notin {"propagate", "block"}
    <3>1. L # <<>> => 1 \in 1..Len(L)
      BY <1>4, EmptySeq
    <3>2. QED BY <1>7, <3>1
  <2>2. \A x \in Processes : todo'[x] # <<>> =>
          (todo'[x][1].op \in {"propagate", "block"} => todo[x] # <<>> /\ todo[x][1].op \in {"propagate", "block"})
    BY <1>3, <2>1
  <2>3. QED BY <1>5, <2>2 DEF CountersInv, BlockedFresh
<1>10. /\ \A o \in Outcomes : Owes(todo[p], o) = 0 /\ Owes(todo'[p], o) = 0
       /\ Spreading(todo[p]) = 0 /\ Spreading(todo'[p]) = 0 /\ Books(todo'[p])
  BY <1>1, <1>3, NoBooks DEF Opens
<1>11. Number("FAILED") <= Number("FAILED")' /\ "BLOCKED" \in Outcomes
       /\ \A o \in Outcomes : db.tally[o] \in Nat /\ Number(o) \in Nat
  <2>1. Number("FAILED") \in Nat /\ Number("FAILED")' = Number("FAILED")
    BY <1>5, NumberType
  <2>2. \A o \in Outcomes : db.tally[o] \in Nat /\ Number(o) \in Nat
    BY <1>2, NumberType DEF RecoveryType, StorageType
  <2>3. QED BY <2>1, <2>2 DEF Outcomes
<1>12. \A o \in Outcomes \ {"BLOCKED"} : Pays(p, o)
  BY <1>1, <1>5, <1>6, <1>10 DEF Pays
<1>13. PaysBlocked(p)
  BY <1>1, <1>5, <1>6, <1>10, <1>11 DEF PaysBlocked
<1>14. SpreadsFor(p)
  BY <1>1, <1>5, <1>10, <1>11 DEF SpreadsFor
<1>15. QED BY <1>3, <1>8, <1>9, <1>10, <1>11, <1>12, <1>13, <1>14 DEF Accounts

\* What a process owed that dies is counted by no one, until the job is recovered.
LEMMA CrashAccounts ==
  ASSUME Inv, Inv', CountersInv, NEW p \in Processes, Crash(p)
  PROVE  Accounts(p)
<1>1. p \in up /\ db' = db /\ whole' = FALSE /\ todo' = [todo EXCEPT ![p] = <<>>]
  BY DEF Crash
<1>2. RecoveryType /\ InBooks
  BY DEF Inv, CountersInv
<1>3. todo'[p] = <<>> /\ \A q \in Processes \ {p} : todo'[q] = todo[q]
  BY <1>1, <1>2 DEF RecoveryType
<1>5. \A o : WithStatus({o})' = WithStatus({o}) /\ Number(o)' = Number(o)
  BY <1>1 DEF WithStatus, Number
<1>8. CountersFit'
  <2>1. SUFFICES ASSUME NEW x \in Processes, NEW i \in 1..Len(todo'[x]), todo'[x][i].op = "counter"
                 PROVE  FALSE
    BY DEF CountersFit
  <2>2. x # p
    BY <1>3, <2>1, NoBooks
  <2>3. up = {x}
    BY <1>3, <2>1, <2>2 DEF CountersInv, CountersFit
  <2>4. QED BY <1>1, <2>2, <2>3
<1>9. BlockedFresh'
  BY <1>3, <1>5 DEF CountersInv, BlockedFresh
<1>10. /\ \A o \in Outcomes : Owes(todo[p], o) \in Nat /\ Owes(todo'[p], o) = 0
       /\ Spreading(todo[p]) \in 0..TaskCount /\ Spreading(todo'[p]) = 0 /\ Books(todo'[p])
  <2>1. todo[p] \in Seq(Calls) /\ Books(todo[p])
    BY <1>2 DEF RecoveryType, InBooks
  <2>2. QED BY <1>3, <2>1, NoBooks, OwesType, TaskCountType
<1>11. Number("FAILED") <= Number("FAILED")' /\ "BLOCKED" \in Outcomes
       /\ \A o \in Outcomes : db.tally[o] \in Nat /\ Number(o) \in Nat
  <2>1. Number("FAILED") \in Nat /\ Number("FAILED")' = Number("FAILED")
    BY <1>5, NumberType
  <2>2. \A o \in Outcomes : db.tally[o] \in Nat /\ Number(o) \in Nat
    BY <1>2, NumberType DEF RecoveryType, StorageType
  <2>3. QED BY <2>1, <2>2 DEF Outcomes
<1>12. \A o \in Outcomes \ {"BLOCKED"} : Pays(p, o)
  BY <1>1, <1>5, <1>10, <1>11 DEF Pays
<1>13. PaysBlocked(p)
  BY <1>1 DEF PaysBlocked
<1>14. SpreadsFor(p)
  <2>1. Spreading(todo[p]) >= 0
    BY <1>10
  <2>2. db'.tally["BLOCKED"] + Spreading(todo'[p]) <= db.tally["BLOCKED"] + Spreading(todo[p])
    BY <1>1, <1>10, <1>11, <2>1, TaskCountType
  <2>3. QED BY <1>5, <2>2 DEF SpreadsFor
<1>15. QED BY <1>3, <1>8, <1>9, <1>10, <1>11, <1>12, <1>13, <1>14 DEF Accounts

\* The recovery writes every counter from the statuses, and requeues.
LEMMA RecoveryListed ==
  ASSUME db \in StorageType
  PROVE  /\ \A i \in 1..Len(RecoveryCalls) :
              \/ RecoveryCalls[i].op = "requeue"
              \/ /\ RecoveryCalls[i].op = "counter"
                 /\ \A o \in Outcomes : RecoveryCalls[i].outcome = o => RecoveryCalls[i].to = Number(o)
         /\ \A o \in Outcomes : \E i \in 1..Len(RecoveryCalls) :
              RecoveryCalls[i].op = "counter" /\ RecoveryCalls[i].outcome = o
<1> DEFINE W == {WriteCounter(o, Number(o)) : o \in Outcomes}
           Q == {RequeueTask(t) : t \in WithStatus(Claimed)}
           C == SetToSeq(W)
           R == SetToSeq(Q)
<1>1. /\ IsFiniteSet(W) /\ W \subseteq Calls
      /\ \A w \in W : w.op = "counter" /\ \A o \in Outcomes : w.outcome = o => w.to = Number(o)
      /\ \A o \in Outcomes : \E w \in W : w.op = "counter" /\ w.outcome = o
  <2>1. \A o \in Outcomes : Number(o) \in Nat
    BY NumberType
  <2>2. IsFiniteSet(Outcomes)
    <3>1. Outcomes = (({"COMPLETED"} \cup {"SKIPPED"}) \cup {"FAILED"}) \cup {"BLOCKED"}
      BY DEF Outcomes
    <3>2. IsFiniteSet({"COMPLETED"})
      BY FS_Singleton
    <3>3. IsFiniteSet({"COMPLETED"} \cup {"SKIPPED"})
      BY <3>2, FS_AddElement
    <3>4. IsFiniteSet(({"COMPLETED"} \cup {"SKIPPED"}) \cup {"FAILED"})
      BY <3>3, FS_AddElement
    <3>5. QED BY <3>1, <3>4, FS_AddElement
  <2> DEFINE f == [o \in Outcomes |-> WriteCounter(o, Number(o))]
  <2>3. f \in Surjection(Outcomes, W)
    BY DEF Surjection
  <2>4. IsFiniteSet(W)
    BY <2>2, <2>3, FS_Surjection
  <2>5. W \subseteq Calls
    BY <2>1, CallsMade
  <2>6. \A w \in W : w.op = "counter" /\ \A o \in Outcomes : w.outcome = o => w.to = Number(o)
    BY DEF WriteCounter
  <2>7. ASSUME NEW o \in Outcomes PROVE \E w \in W : w.op = "counter" /\ w.outcome = o
    <3>1. WriteCounter(o, Number(o)) \in W
      OBVIOUS
    <3>2. WriteCounter(o, Number(o)).op = "counter" /\ WriteCounter(o, Number(o)).outcome = o
      BY DEF WriteCounter
    <3>3. QED BY <3>1, <3>2
  <2>8. QED BY <2>4, <2>5, <2>6, <2>7
<1>2. IsFiniteSet(Q) /\ Q \subseteq Calls /\ \A w \in Q : w.op = "requeue"
  <2>1. IsFiniteSet(WithStatus(Claimed))
    BY FS_Subset, RecoveryConstants DEF WithStatus
  <2> DEFINE f == [t \in WithStatus(Claimed) |-> RequeueTask(t)]
  <2>2. f \in Surjection(WithStatus(Claimed), Q)
    BY DEF Surjection
  <2>3. Q \subseteq Calls
    BY CallsMade DEF WithStatus
  <2>4. QED BY <2>1, <2>2, <2>3, FS_Surjection DEF RequeueTask
<1>a. RecoveryCalls = C \o R
  BY DEF RecoveryCalls, Requeues, Number
<1> HIDE DEF W, Q
<1>3. /\ C \in Seq(Calls) /\ R \in Seq(Calls)
      /\ \A i \in 1..Len(C) : C[i] \in W
      /\ \A i \in 1..Len(R) : R[i] \in Q
  BY <1>1, <1>2, CallsListed
<1>4. \A w \in W : \E i \in 1..Len(C) : C[i] = w
  BY <1>1, SetToSeqLists
<1> HIDE DEF C, R
<1>5. /\ Len(C) \in Nat /\ Len(R) \in Nat /\ Len(C \o R) = Len(C) + Len(R)
      /\ \A i \in 1..Len(C) + Len(R) : (C \o R)[i] = IF i <= Len(C) THEN C[i] ELSE R[i - Len(C)]
  BY <1>3, LenProperties, ConcatProperties
<1> DEFINE L == RecoveryCalls
<1>6. /\ Len(L) = Len(C) + Len(R)
      /\ \A i \in 1..Len(L) : L[i] = IF i <= Len(C) THEN C[i] ELSE R[i - Len(C)]
  BY <1>a, <1>5
<1> HIDE DEF L
<1>7. \A i \in 1..Len(L) : L[i] \in W \/ L[i] \in Q
  <2>1. TAKE i \in 1..Len(L)
  <2>2. CASE i <= Len(C)
    <3>1. i \in 1..Len(C)
      BY <1>5, <1>6, <2>2
    <3>2. QED BY <1>3, <1>6, <2>2, <3>1
  <2>3. CASE ~(i <= Len(C))
    <3>1. i - Len(C) \in 1..Len(R)
      BY <1>5, <1>6, <2>3
    <3>2. QED BY <1>3, <1>6, <2>3, <3>1
  <2>4. QED BY <2>2, <2>3
<1>8. \A w \in W : \E i \in 1..Len(L) : L[i] = w
  <2>1. TAKE w \in W
  <2>2. PICK i \in 1..Len(C) : C[i] = w
    BY <1>4
  <2>3. i \in 1..Len(L) /\ i <= Len(C)
    BY <1>5, <1>6
  <2>4. QED BY <1>6, <2>2, <2>3
<1>9. /\ \A i \in 1..Len(L) : \/ L[i].op = "requeue"
                              \/ /\ L[i].op = "counter"
                                 /\ \A o \in Outcomes : L[i].outcome = o => L[i].to = Number(o)
      /\ \A o \in Outcomes : \E i \in 1..Len(L) : L[i].op = "counter" /\ L[i].outcome = o
  BY <1>1, <1>2, <1>7, <1>8
<1>10. QED BY <1>9 DEF L

\* The recovery owes nothing: it writes the counters again.
LEMMA RecoverAccounts ==
  ASSUME Inv, Inv', CountersInv, NEW p \in Processes, Recover(p)
  PROVE  Accounts(p)
<1> DEFINE L == RecoveryCalls
<1>1. /\ up = {} /\ up' = {p} /\ db' = db /\ todo' = [todo EXCEPT ![p] = L]
  BY DEF Recover, RecoveryCalls
<1>2. RecoveryType /\ RecoveryType'
  BY DEF Inv
<1>3. todo'[p] = L /\ \A q \in Processes \ {p} : todo'[q] = todo[q]
  BY <1>1, <1>2 DEF RecoveryType
<1>4. \A q \in Processes : todo[q] = <<>>
  BY <1>1, <1>2 DEF RecoveryType
<1>5. \A o : WithStatus({o})' = WithStatus({o}) /\ Number(o)' = Number(o)
  BY <1>1 DEF WithStatus, Number
<1>6. L \in Seq(Calls)
  BY <1>2, <1>3 DEF RecoveryType
<1>7. /\ \A i \in 1..Len(L) : \/ L[i].op = "requeue"
                              \/ /\ L[i].op = "counter"
                                 /\ \A o \in Outcomes : L[i].outcome = o => L[i].to = Number(o)
      /\ \A o \in Outcomes : \E i \in 1..Len(L) : L[i].op = "counter" /\ L[i].outcome = o
  BY <1>2, RecoveryListed DEF RecoveryType
<1> HIDE DEF L
<1>8. \A i \in 1..Len(L) : ~Ends(L[i]) /\ ~Counts(L[i]) /\ ~Spreads(L[i]) /\ ~CountsBlocked(L[i])
                           /\ L[i].op \notin {"job", "block", "propagate"}
  BY <1>7 DEF Ends, Counts, Spreads, CountsBlocked
<1>9. L # <<>> => 1 \in 1..Len(L)
  BY <1>6, EmptySeq
<1>10. Books(L)
  BY <1>8 DEF Books, EndsOnce, CountsOnce, CountAfterEnd, CountAfterSpread, SpreadAfterEnd, BlockFirst,
              CountersAlone, JobFirst
<1>11. Spreading(L) = 0 /\ \A o \in Outcomes : Owes(L, o) = 0
  BY <1>8, <1>9 DEF Owes, WillCount, Spreading
<1>12. CountersFit'
  <2>1. SUFFICES ASSUME NEW x \in Processes, NEW i \in 1..Len(todo'[x]), todo'[x][i].op = "counter"
                 PROVE  /\ up' = {x}
                        /\ \A o \in Outcomes : todo'[x][i].outcome = o => todo'[x][i].to = Number(o)'
    BY DEF CountersFit
  <2>2. x = p
    BY <1>3, <1>4, <2>1, NoBooks
  <2>3. QED BY <1>1, <1>3, <1>5, <1>7, <2>1, <2>2
<1>13. BlockedFresh'
  <2>1. \A x \in Processes : todo'[x] # <<>> => todo'[x][1].op \notin {"propagate", "block"}
    BY <1>3, <1>4, <1>8, <1>9
  <2>2. QED BY <1>5, <2>1 DEF CountersInv, BlockedFresh
<1>14. \A o \in Outcomes : Rewritten(o)'
  <2>1. \A o \in Outcomes : \E i \in 1..Len(todo'[p]) : todo'[p][i].op = "counter" /\ todo'[p][i].outcome = o
    BY <1>3, <1>7
  <2>2. QED BY <2>1 DEF Rewritten
<1>15. Number("FAILED") <= Number("FAILED")' /\ "BLOCKED" \in Outcomes
       /\ \A o \in Outcomes : db.tally[o] \in Nat /\ Number(o) \in Nat
  <2>1. Number("FAILED") \in Nat /\ Number("FAILED")' = Number("FAILED")
    BY <1>5, NumberType
  <2>2. \A o \in Outcomes : db.tally[o] \in Nat /\ Number(o) \in Nat
    BY <1>2, NumberType DEF RecoveryType, StorageType
  <2>3. QED BY <2>1, <2>2 DEF Outcomes
<1>16. /\ \A o \in Outcomes : Owes(todo[p], o) = 0 /\ Owes(todo'[p], o) = 0
       /\ Spreading(todo[p]) = 0 /\ Spreading(todo'[p]) = 0 /\ Books(todo'[p])
  BY <1>3, <1>4, <1>10, <1>11, NoBooks
<1>17. \A o \in Outcomes \ {"BLOCKED"} : Pays(p, o)
  BY <1>1, <1>5, <1>14, <1>15, <1>16 DEF Pays
<1>18. PaysBlocked(p)
  BY <1>14, <1>15 DEF PaysBlocked
<1>19. SpreadsFor(p)
  BY <1>1, <1>5, <1>15, <1>16 DEF SpreadsFor
<1>20. QED BY <1>3, <1>12, <1>13, <1>15, <1>16, <1>17, <1>18, <1>19 DEF Accounts

\* A process that makes a call runs; what is left are the calls that follow it and the rest.
LEMMA CallSetting ==
  ASSUME Inv, NEW p \in Processes, Call(p), NEW w, w = todo[p][1]
  PROVE  /\ todo[p] \in Seq(Calls) /\ todo[p] # <<>> /\ 1 \in 1..Len(todo[p]) /\ w \in Calls /\ p \in up
         /\ db \in StorageType /\ db' = Written(w) /\ up' = up /\ whole' = whole
         /\ \A q \in Processes \ {p} : todo'[q] = todo[q]
         /\ Following(w) \in Seq(Calls) /\ Left(todo[p], Following(w), todo'[p])
<1>1. RecoveryType /\ todo[p] \in Seq(Calls) /\ todo[p] # <<>> /\ db \in StorageType
  BY DEF Inv, RecoveryType, Call
<1>2. w \in Calls /\ 1 \in 1..Len(todo[p]) /\ Head(todo[p]) = w
  BY <1>1, EmptySeq, ElementOfSeq
<1>3. /\ db' = Written(w) /\ up' = up /\ whole' = whole
      /\ todo' = [todo EXCEPT ![p] = Following(w) \o Tail(todo[p])]
  BY <1>2 DEF Call
<1>4. todo'[p] = Following(w) \o Tail(todo[p]) /\ \A q \in Processes \ {p} : todo'[q] = todo[q]
  BY <1>1, <1>3 DEF RecoveryType
<1>5. Following(w) \in Seq(Calls)
  BY <1>1, <1>2, CallFollowed
<1>6. Left(todo[p], Following(w), todo'[p])
  BY <1>1, <1>4, <1>5 DEF Left
<1>7. p \in up
  BY <1>1 DEF RecoveryType
<1>8. QED BY <1>1, <1>2, <1>3, <1>4, <1>5, <1>6, <1>7

\* How many tasks have an outcome after a call.
LEMMA NumbersAfter ==
  ASSUME Inv, Inv', NEW p \in Processes, Call(p), NEW w, w = todo[p][1]
  PROVE  /\ Ends(w) => /\ \A o \in Outcomes : w.to = o => Number(o)' = Number(o) + 1
                       /\ \A o \in Outcomes : w.to # o => Number(o)' = Number(o)
                       /\ WithStatus({"BLOCKED"})' = WithStatus({"BLOCKED"}) /\ w.to # "BLOCKED"
         /\ w.op = "block" => /\ \A o \in Outcomes \ {"BLOCKED"} : Number(o)' = Number(o)
                              /\ Cardinality(w.tasks) \in Nat
                              /\ Number("BLOCKED")' <= Number("BLOCKED") + Cardinality(w.tasks)
                              /\ WithStatus({"BLOCKED"}) = {} =>
                                   Number("BLOCKED")' = Number("BLOCKED") + Cardinality(w.tasks)
         /\ ~Ends(w) /\ w.op # "block" =>
              \A o \in Outcomes : Number(o)' = Number(o) /\ WithStatus({o})' = WithStatus({o})
         /\ \A o \in Outcomes : Number(o) <= Number(o)' /\ WithStatus({o}) \subseteq WithStatus({o})'
<1>1. /\ \A o \in Outcomes :
           WithStatus({o})' =
             IF Ends(w) /\ w.to = o THEN WithStatus({o}) \cup {w.task}
             ELSE IF w.op = "block" /\ o = "BLOCKED" THEN WithStatus({o}) \cup w.tasks
             ELSE WithStatus({o})
      /\ Ends(w) => w.task \in Tasks /\ db.status[w.task] \notin Outcomes
      /\ w.op = "block" => w.tasks \subseteq Tasks
  BY OutcomesAfter
<1>2. \A o : Number(o)' = Cardinality(WithStatus({o})') /\ Number(o) = Cardinality(WithStatus({o}))
             /\ Number(o) \in Nat /\ IsFiniteSet(WithStatus({o}))
  BY NumberType DEF Number
<1>3. w \in Calls
  BY CallSetting
<1>4. Ends(w) => w.op = "status" /\ w.to # "BLOCKED"
  BY <1>3, CallFields DEF Ends, TaskOps
<1>5. ASSUME Ends(w), NEW o \in Outcomes, w.to = o PROVE Number(o)' = Number(o) + 1
  <2>1. WithStatus({o})' = WithStatus({o}) \cup {w.task}
    BY <1>1, <1>5
  <2>2. w.task \notin WithStatus({o})
    BY <1>1, <1>5 DEF WithStatus
  <2>3. Cardinality(WithStatus({o}) \cup {w.task}) = Cardinality(WithStatus({o})) + 1
    BY <1>2, <2>2, FS_AddElement
  <2>4. QED BY <1>2, <2>1, <2>3
<1>6. ASSUME Ends(w), NEW o \in Outcomes, w.to # o PROVE Number(o)' = Number(o) /\ WithStatus({o})' = WithStatus({o})
  <2>1. WithStatus({o})' = WithStatus({o})
    BY <1>1, <1>4, <1>6
  <2>2. QED BY <1>2, <2>1
<1>7. ASSUME ~Ends(w), NEW o \in Outcomes, w.op # "block" \/ o # "BLOCKED"
      PROVE  Number(o)' = Number(o) /\ WithStatus({o})' = WithStatus({o})
  <2>1. WithStatus({o})' = WithStatus({o})
    BY <1>1, <1>7
  <2>2. QED BY <1>2, <2>1
<1>8. w.op = "block" => ~Ends(w)
  BY DEF Ends
<1>9. ASSUME w.op = "block"
      PROVE  /\ Cardinality(w.tasks) \in Nat
             /\ Number("BLOCKED")' <= Number("BLOCKED") + Cardinality(w.tasks)
             /\ WithStatus({"BLOCKED"}) = {} => Number("BLOCKED")' = Number("BLOCKED") + Cardinality(w.tasks)
  <2> DEFINE B == WithStatus({"BLOCKED"})
             S == w.tasks
  <2>1. WithStatus({"BLOCKED"})' = B \cup S
    BY <1>1, <1>8, <1>9 DEF Outcomes
  <2>2. IsFiniteSet(S) /\ IsFiniteSet(B)
    BY <1>1, <1>2, <1>9, FS_Subset, RecoveryConstants
  <2>3. Cardinality(S) \in Nat /\ Cardinality(B) \in Nat /\ Cardinality(B \cap S) \in Nat
    BY <2>2, FS_CardinalityType, FS_Intersection
  <2>4. Cardinality(B \cup S) = Cardinality(B) + Cardinality(S) - Cardinality(B \cap S)
    BY <2>2, FS_Union
  <2>5. B = {} => Cardinality(B \cap S) = 0
    BY FS_EmptySet
  <2>6. Number("BLOCKED")' = Cardinality(B \cup S) /\ Number("BLOCKED") = Cardinality(B)
    BY <1>2, <2>1
  <2> HIDE DEF B, S
  <2>7. Number("BLOCKED")' <= Number("BLOCKED") + Cardinality(S)
    BY <2>3, <2>4, <2>6
  <2>8. B = {} => Number("BLOCKED")' = Number("BLOCKED") + Cardinality(S)
    BY <2>3, <2>4, <2>5, <2>6
  <2>9. QED BY <2>3, <2>7, <2>8 DEF B, S
<1>10. ASSUME NEW o \in Outcomes PROVE Number(o) <= Number(o)' /\ WithStatus({o}) \subseteq WithStatus({o})'
  <2>1. WithStatus({o}) \subseteq WithStatus({o})'
    BY <1>1
  <2>2. IsFiniteSet(WithStatus({o})')
    BY NumberType
  <2>3. Cardinality(WithStatus({o})) <= Cardinality(WithStatus({o})')
    BY <2>1, <2>2, FS_Subset
  <2>4. QED BY <1>2, <2>1, <2>3
<1>11. "BLOCKED" \in Outcomes
  BY DEF Outcomes
<1>12. QED BY <1>4, <1>5, <1>6, <1>7, <1>8, <1>9, <1>10, <1>11

\* The counters that are still to be rewritten.
LEMMA CountersAfter ==
  ASSUME Inv, Inv', CountersInv, NEW p \in Processes, Call(p), NEW w, w = todo[p][1]
  PROVE  /\ CountersFit'
         /\ \A o \in Outcomes : Rewritten(o) /\ ~(w.op = "counter" /\ w.outcome = o) => Rewritten(o)'
<1> DEFINE L == todo[p]
           F == Following(w)
           N == todo'[p]
<1>1. /\ L \in Seq(Calls) /\ L # <<>> /\ 1 \in 1..Len(L) /\ w \in Calls /\ p \in up
      /\ db \in StorageType /\ up' = up /\ Left(L, F, N)
      /\ \A q \in Processes \ {p} : todo'[q] = todo[q]
  BY CallSetting
<1>2. Moved(L, F, N)
  BY <1>1, CallsMove
<1>3. \A i \in 1..Len(F) : F[i].op # "counter"
  <2>1. CASE \E S \in SUBSET Tasks : F = <<Block(S), Increment("BLOCKED", Cardinality(S)), Finalize>>
    BY <2>1 DEF Block, Increment, Finalize
  <2>2. CASE AllAside(F)
    BY <2>2 DEF AllAside, Aside
  <2>3. QED BY <1>1, <2>1, <2>2, FollowedAside
<1> HIDE DEF F, N
<1>4. \A i \in 1..Len(N) : N[i].op = "counter" => \E m \in 2..Len(L) : m \in 1..Len(L) /\ N[i] = L[m]
  BY <1>2, <1>3 DEF Moved
<1>5. \A m \in 2..Len(L) : \E i \in 1..Len(N) : N[i] = L[m]
  BY <1>2 DEF Moved
<1>6. CountersFit'
  <2>1. SUFFICES ASSUME NEW x \in Processes, NEW i \in 1..Len(todo'[x]), todo'[x][i].op = "counter"
                 PROVE  /\ up' = {x}
                        /\ \A o \in Outcomes : todo'[x][i].outcome = o => todo'[x][i].to = Number(o)'
    BY DEF CountersFit
  <2>2. x = p
    <3>1. SUFFICES ASSUME x # p PROVE FALSE
      OBVIOUS
    <3>2. up = {x}
      BY <1>1, <2>1, <3>1 DEF CountersInv, CountersFit
    <3>3. QED BY <1>1, <3>1, <3>2
  <2>3. PICK m \in 2..Len(L) : m \in 1..Len(L) /\ N[i] = L[m]
    BY <1>4, <2>1, <2>2 DEF N
  <2>4. L[m].op = "counter" /\ todo'[x][i] = L[m]
    BY <2>1, <2>2, <2>3 DEF N
  <2>5. up = {p} /\ \A o \in Outcomes : L[m].outcome = o => L[m].to = Number(o)
    BY <2>3, <2>4 DEF CountersInv, CountersFit
  <2>6. ~Ends(w) /\ w.op # "block"
    BY <1>1, <2>3, <2>4 DEF CountersInv, InBooks, Books, CountersAlone, Spreads
  <2>7. \A o \in Outcomes : Number(o)' = Number(o)
    BY <2>6, NumbersAfter
  <2>8. QED BY <1>1, <2>2, <2>4, <2>5, <2>7
<1>7. ASSUME NEW o \in Outcomes, Rewritten(o), ~(w.op = "counter" /\ w.outcome = o)
      PROVE  Rewritten(o)'
  <2>1. PICK x \in Processes : \E i \in 1..Len(todo[x]) : todo[x][i].op = "counter" /\ todo[x][i].outcome = o
    BY <1>7 DEF Rewritten
  <2>2. PICK i \in 1..Len(todo[x]) : todo[x][i].op = "counter" /\ todo[x][i].outcome = o
    BY <2>1
  <2>3. CASE x # p
    BY <1>1, <2>2, <2>3 DEF Rewritten
  <2>4. CASE x = p
    <3>1. i \in 2..Len(L)
      BY <1>7, <2>2, <2>4
    <3>2. \E j \in 1..Len(N) : N[j] = L[i]
      BY <1>5, <3>1
    <3>3. PICK j \in 1..Len(todo'[p]) : todo'[p][j] = L[i]
      BY <3>2 DEF N
    <3>4. todo'[p][j].op = "counter" /\ todo'[p][j].outcome = o
      BY <2>2, <2>4, <3>3
    <3>5. QED BY <3>4 DEF Rewritten
  <2>5. QED BY <2>3, <2>4
<1>8. QED BY <1>6, <1>7

\* A recovery that writes a counter runs alone and owes nothing.
LEMMA NothingOwedAfter ==
  ASSUME Inv, Inv', CountersInv, NEW p \in Processes, Call(p), NEW w, w = todo[p][1], w.op = "counter",
         Books(todo'[p]), \A o \in Outcomes : Owes(todo'[p], o) = 0, Spreading(todo'[p]) = 0
  PROVE  Spread' = 0 /\ \A o \in Outcomes : Owed(o)' = 0
<1>1. /\ 1 \in 1..Len(todo[p]) /\ p \in up /\ up' = up
      /\ \A q \in Processes \ {p} : todo'[q] = todo[q]
  BY CallSetting
<1>2. up = {p}
  BY <1>1 DEF CountersInv, CountersFit
<1>3. \A q \in Processes \ {p} : todo'[q] = <<>>
  BY <1>1, <1>2 DEF Inv, RecoveryType
<1>4. \A q \in Processes : Spreading(todo'[q]) = 0 /\ \A o \in Outcomes : Owes(todo'[q], o) = 0
  BY <1>3, NoBooks
<1>5. Spread' = 0
  <2> DEFINE f == [q \in Processes |-> Spreading(todo'[q])]
  <2>1. \A q \in Processes : f[q] = 0
    BY <1>4
  <2>2. Spread' = Total(f)
    BY DEF Spread
  <2> HIDE DEF f
  <2>3. QED BY <2>1, <2>2, TotalOfNone
<1>6. ASSUME NEW o \in Outcomes PROVE Owed(o)' = 0
  <2> DEFINE f == [q \in Processes |-> Owes(todo'[q], o)]
  <2>1. \A q \in Processes : f[q] = 0
    BY <1>4
  <2>2. Owed(o)' = Total(f)
    BY DEF Owed
  <2> HIDE DEF f
  <2>3. QED BY <2>1, <2>2, TotalOfNone
<1>7. QED BY <1>5, <1>6

\* What a call may block is still fresh if only one failure is there.
LEMMA FreshAfter ==
  ASSUME Inv, Inv', CountersInv, NEW p \in Processes, Call(p), NEW w, w = todo[p][1],
         todo'[p] # <<>> =>
           (todo'[p][1].op \in {"propagate", "block"} => (Ends(w) /\ w.to = "FAILED") \/ w.op = "propagate")
  PROVE  BlockedFresh'
<1>1. /\ todo[p] \in Seq(Calls) /\ todo[p] # <<>> /\ w \in Calls
      /\ \A q \in Processes \ {p} : todo'[q] = todo[q]
  BY CallSetting
<1>2. /\ RecoveryType /\ InBooks /\ Balanced /\ BlockedFresh
      /\ "FAILED" \in Outcomes \ {"BLOCKED"} /\ "FAILED" \in Outcomes /\ "BLOCKED" \in Outcomes
  BY DEF Inv, CountersInv, Outcomes
<1>3. ASSUME NEW x \in Processes, todo[x] # <<>>, Spreads(todo[x][1]) PROVE Owes(todo[x], "FAILED") = 1
  <2>1. todo[x] \in Seq(Calls) /\ Books(todo[x])
    BY <1>2 DEF RecoveryType, InBooks
  <2>2. QED BY <1>3, <2>1, FailureOwed
<1>4. Owed("FAILED") <= Number("FAILED")
  <2>1. db.tally["FAILED"] + Owed("FAILED") <= Number("FAILED")
    BY <1>2 DEF Balanced
  <2>2. db.tally["FAILED"] \in Nat
    BY <1>2 DEF RecoveryType, StorageType
  <2>3. Owed("FAILED") \in Nat /\ Number("FAILED") \in Nat
    BY OwedTypes, NumberType
  <2>4. QED BY <2>1, <2>2, <2>3
<1>5. \A x \in Processes : /\ Owes(todo[x], "FAILED") <= Owed("FAILED")
                           /\ \A q \in Processes \ {x} : Owes(todo[x], "FAILED") + Owes(todo[q], "FAILED") <= Owed("FAILED")
  BY <1>2, OwedOfTwo
<1>6. Owed("FAILED") \in Nat /\ Number("FAILED") \in Nat
  BY OwedTypes, NumberType
<1>7. Number("FAILED") = 0 => WithStatus({"FAILED"}) = {}
  BY NumberType
<1>8. Number("FAILED") <= Number("FAILED")' /\ WithStatus({"FAILED"}) \subseteq WithStatus({"FAILED"})'
  BY <1>2, NumbersAfter
<1>9. Number("FAILED")' \in Nat
  BY NumberType
<1>10. w.op # "block" => WithStatus({"BLOCKED"})' = WithStatus({"BLOCKED"})
  BY <1>2, NumbersAfter
<1>11. w.op = "block" => Spreads(w) /\ Owes(todo[p], "FAILED") = 1
  BY <1>1, <1>3 DEF Spreads
<1>12. Ends(w) /\ w.to = "FAILED" => Number("FAILED")' = Number("FAILED") + 1
  BY <1>2, NumbersAfter
<1>13. WithStatus({"FAILED"})' = {} => WithStatus({"BLOCKED"})' = {}
  <2>1. SUFFICES ASSUME WithStatus({"FAILED"})' = {} PROVE WithStatus({"BLOCKED"})' = {}
    OBVIOUS
  <2>2. WithStatus({"FAILED"}) = {}
    BY <1>8, <2>1
  <2>3. WithStatus({"BLOCKED"}) = {}
    BY <1>2, <2>2 DEF BlockedFresh
  <2>4. Number("FAILED") = 0
    BY <2>2, NumberType
  <2>5. w.op # "block"
    <3>1. Owes(todo[p], "FAILED") <= 0
      BY <1>4, <1>5, <1>6, <2>4
    <3>2. QED BY <1>11, <3>1
  <2>6. QED BY <1>10, <2>3, <2>5
<1>14. ASSUME Number("FAILED")' <= 1, NEW x \in Processes, todo'[x] # <<>>, todo'[x][1].op \in {"propagate", "block"}
       PROVE  WithStatus({"BLOCKED"})' = {}
  <2>1. Number("FAILED") <= 1
    BY <1>6, <1>8, <1>9, <1>14
  <2>2. CASE x = p
    <3>1. (Ends(w) /\ w.to = "FAILED") \/ w.op = "propagate"
      BY <1>14, <2>2
    <3>2. w.op # "block"
      BY <3>1 DEF Ends
    <3>3. CASE Ends(w) /\ w.to = "FAILED"
      <4>1. Number("FAILED") = 0
        BY <1>6, <1>12, <1>14, <3>3
      <4>2. WithStatus({"BLOCKED"}) = {}
        BY <1>2, <1>7, <4>1 DEF BlockedFresh
      <4>3. QED BY <1>10, <3>2, <4>2
    <3>4. CASE w.op = "propagate"
      <4>1. WithStatus({"BLOCKED"}) = {}
        BY <1>1, <1>2, <2>1, <3>4 DEF BlockedFresh
      <4>2. QED BY <1>10, <3>2, <4>1
    <3>5. QED BY <3>1, <3>3, <3>4
  <2>3. CASE x # p
    <3>1. todo[x] # <<>> /\ todo[x][1].op \in {"propagate", "block"}
      BY <1>1, <1>14, <2>3
    <3>2. Owes(todo[x], "FAILED") = 1
      BY <1>3, <3>1 DEF Spreads
    <3>3. WithStatus({"BLOCKED"}) = {}
      BY <1>2, <2>1, <3>1 DEF BlockedFresh
    <3>4. w.op # "block"
      <4>1. SUFFICES ASSUME w.op = "block" PROVE FALSE
        OBVIOUS
      <4>2. Owes(todo[p], "FAILED") = 1
        BY <1>11, <4>1
      <4>3. Owes(todo[x], "FAILED") + Owes(todo[p], "FAILED") <= Owed("FAILED")
        BY <1>5, <2>3
      <4>4. 2 <= Owed("FAILED")
        BY <3>2, <4>2, <4>3
      <4>5. QED BY <1>4, <1>6, <2>1, <4>4
    <3>5. QED BY <1>10, <3>3, <3>4
  <2>4. QED BY <2>2, <2>3
<1>15. QED BY <1>13, <1>14 DEF BlockedFresh

\* A failure that found what waits for it.
LEMMA SpreadAccounts ==
  ASSUME Inv, Inv', CountersInv, NEW p \in Processes, Call(p), NEW w, w = todo[p][1], w.op = "propagate",
         NEW S \in SUBSET Tasks,
         Following(w) = <<Block(S), Increment("BLOCKED", Cardinality(S)), Finalize>>
  PROVE  Accounts(p)
<1> DEFINE L == todo[p]
           N == todo'[p]
<1>1. /\ L \in Seq(Calls) /\ w \in Calls /\ db \in StorageType /\ db' = Written(w) /\ whole' = whole
      /\ \A q \in Processes \ {p} : todo'[q] = todo[q]
      /\ Left(L, Following(w), N)
  BY CallSetting
<1>2. Books(L) /\ Shape(L)
  BY DEF CountersInv, InBooks, Inv, InShape
<1>3. /\ Books(N) /\ \A o \in Outcomes : Owes(N, o) = Owes(L, o)
      /\ Owes(L, "BLOCKED") = 0 /\ Spreading(N) = Spreading(L)
  BY <1>1, <1>2, BooksAfterSpread
<1>4. \A o \in Outcomes : db'.tally[o] = db.tally[o]
  <2>1. Written(w).tally =
          [o \in Outcomes |->
             IF w.op = "increment" /\ w.outcome = o THEN db.tally[o] + w.by
             ELSE IF w.op = "counter" /\ w.outcome = o THEN w.to ELSE db.tally[o]]
    BY <1>1, CallRecords
  <2>2. db'.tally = Written(w).tally
    BY <1>1
  <2>3. QED BY <2>1, <2>2
<1>5. ~Ends(w)
  BY DEF Ends
<1>6. /\ \A o \in Outcomes : Number(o)' = Number(o) /\ Number(o) <= Number(o)'
      /\ "FAILED" \in Outcomes /\ "BLOCKED" \in Outcomes
  BY <1>5, NumbersAfter DEF Outcomes
<1>7. CountersFit' /\ \A o \in Outcomes : Rewritten(o) => Rewritten(o)'
  BY CountersAfter
<1>8. BlockedFresh'
  BY FreshAfter
<1>9. \A o \in Outcomes : db.tally[o] \in Nat /\ Number(o) \in Nat /\ Owes(L, o) \in 0..TaskCount
  BY <1>1, <1>2, NumberType, OwesType DEF StorageType
<1>10. Spreading(L) \in 0..TaskCount /\ TaskCount \in Nat
  BY <1>1, <1>2, OwesType, TaskCountType
<1>11. \A o \in Outcomes \ {"BLOCKED"} : Pays(p, o)
  BY <1>1, <1>3, <1>4, <1>6, <1>7 DEF Pays
<1>12. PaysBlocked(p)
  BY <1>1, <1>3, <1>4, <1>6, <1>7, <1>9 DEF PaysBlocked
<1>13. SpreadsFor(p)
  BY <1>3, <1>4, <1>6, <1>9, <1>10 DEF SpreadsFor
<1>14. QED BY <1>1, <1>3, <1>6, <1>7, <1>8, <1>11, <1>12, <1>13 DEF Accounts

\* Any other call.
LEMMA AsideAccounts ==
  ASSUME Inv, Inv', CountersInv, NEW p \in Processes, Call(p), NEW w, w = todo[p][1],
         AllAside(Following(w)), Following(w) = <<>> \/ Asks(w)
  PROVE  Accounts(p)
<1> DEFINE L == todo[p]
           N == todo'[p]
<1>1. /\ L \in Seq(Calls) /\ L # <<>> /\ 1 \in 1..Len(L) /\ w \in Calls
      /\ db \in StorageType /\ db' = Written(w) /\ whole' = whole
      /\ \A q \in Processes \ {p} : todo'[q] = todo[q]
      /\ Left(L, Following(w), N)
  BY CallSetting
<1>2. Books(L) /\ Shape(L)
  BY DEF CountersInv, InBooks, Inv, InShape
<1>3. Books(N)
  BY <1>1, <1>2, BooksAfterAside
<1>4. /\ Ends(w) => /\ Owes(N, w.to) = 1
                    /\ \A o \in Outcomes \ {"BLOCKED"} : Owes(L, o) = 0 /\ (o # w.to => Owes(N, o) = 0)
      /\ Counts(w) => Owes(L, w.outcome) = 1 /\ Owes(N, w.outcome) = 0
      /\ \A o \in Outcomes \ {"BLOCKED"} :
           ~Ends(w) /\ ~(Counts(w) /\ w.outcome = o) => Owes(N, o) = Owes(L, o)
      /\ Owes(L, "BLOCKED") = IF CountsBlocked(w) THEN w.by ELSE 0
      /\ Owes(N, "BLOCKED") = IF w.op = "block" THEN Cardinality(w.tasks) ELSE 0
      /\ \/ Spreading(N) <= Spreading(L)
         \/ Ends(w) /\ w.to = "FAILED" /\ Spreading(L) = 0 /\ Spreading(N) <= TaskCount
      /\ CountsBlocked(w) => Spreading(L) = TaskCount /\ Spreading(N) = 0
      /\ N # <<>> => (N[1].op \in {"propagate", "block"} => Ends(w) /\ w.to = "FAILED")
  BY <1>1, <1>2, OwedAfterAside
<1>5. \A o \in Outcomes : db'.tally[o] =
         IF w.op = "increment" /\ w.outcome = o THEN db.tally[o] + w.by
         ELSE IF w.op = "counter" /\ w.outcome = o THEN w.to ELSE db.tally[o]
  <2>1. Written(w).tally =
          [o \in Outcomes |->
             IF w.op = "increment" /\ w.outcome = o THEN db.tally[o] + w.by
             ELSE IF w.op = "counter" /\ w.outcome = o THEN w.to ELSE db.tally[o]]
    BY <1>1, CallRecords
  <2>2. db'.tally = Written(w).tally
    BY <1>1
  <2>3. QED BY <2>1, <2>2
<1>6. /\ Ends(w) => /\ \A o \in Outcomes : w.to = o => Number(o)' = Number(o) + 1
                    /\ \A o \in Outcomes : w.to # o => Number(o)' = Number(o)
                    /\ w.to # "BLOCKED"
      /\ w.op = "block" => /\ \A o \in Outcomes \ {"BLOCKED"} : Number(o)' = Number(o)
                           /\ Cardinality(w.tasks) \in Nat
                           /\ Number("BLOCKED")' <= Number("BLOCKED") + Cardinality(w.tasks)
                           /\ WithStatus({"BLOCKED"}) = {} =>
                                Number("BLOCKED")' = Number("BLOCKED") + Cardinality(w.tasks)
      /\ ~Ends(w) /\ w.op # "block" => \A o \in Outcomes : Number(o)' = Number(o)
      /\ \A o \in Outcomes : Number(o) <= Number(o)'
  BY NumbersAfter
<1>7. CountersFit' /\ \A o \in Outcomes : Rewritten(o) /\ ~(w.op = "counter" /\ w.outcome = o) => Rewritten(o)'
  BY CountersAfter
<1>8. BlockedFresh'
  BY <1>4, FreshAfter
<1>9. \A o \in Outcomes : db.tally[o] \in Nat /\ Number(o) \in Nat /\ Number(o)' \in Nat
                          /\ Owes(L, o) \in 0..TaskCount /\ Owes(N, o) \in 0..TaskCount
  <2>1. \A o \in Outcomes : Number(o) \in Nat /\ Number(o)' \in Nat
    BY NumberType
  <2>2. N \in Seq(Calls)
    BY DEF Inv, RecoveryType
  <2>3. \A o \in Outcomes : Owes(L, o) \in 0..TaskCount /\ Owes(N, o) \in 0..TaskCount
    BY <1>1, <1>2, <1>3, <2>2, OwesType
  <2>4. QED BY <1>1, <2>1, <2>3 DEF StorageType
<1>10. Spreading(L) \in 0..TaskCount /\ Spreading(N) \in 0..TaskCount /\ TaskCount \in Nat
  <2>1. N \in Seq(Calls)
    BY DEF Inv, RecoveryType
  <2>2. QED BY <1>1, <1>2, <1>3, <2>1, OwesType, TaskCountType
<1>11. /\ "FAILED" \in Outcomes /\ "BLOCKED" \in Outcomes /\ "FAILED" # "BLOCKED"
       /\ w.op = "increment" => w.outcome \in Outcomes /\ w.by \in Nat
       /\ Ends(w) => w.op = "status" /\ w.to \in Outcomes
       /\ Counts(w) => w.op = "increment" /\ w.outcome # "BLOCKED" /\ w.by = 1
       /\ CountsBlocked(w) => w.op = "increment" /\ w.outcome = "BLOCKED" /\ w.by <= TaskCount
       /\ w.op = "increment" => Counts(w) \/ CountsBlocked(w)
  BY <1>1, <1>2, CallFields DEF Ends, Counts, CountsBlocked, Outcomes, Books, CountsOnce, BlockFirst
\* A counter is written again.
<1>12. ASSUME w.op = "counter"
       PROVE  /\ Spread' = 0
              /\ \A o \in Outcomes : Owed(o)' = 0 /\ (w.outcome = o => db'.tally[o] = Number(o)')
  <2>1. \A j \in 1..Len(L) : ~Ends(L[j]) /\ ~Counts(L[j]) /\ ~Spreads(L[j])
    BY <1>1, <1>2, <1>12 DEF Books, CountersAlone
  <2>2. ~Ends(w) /\ ~Counts(w) /\ ~CountsBlocked(w)
    BY <1>1, <2>1 DEF Spreads
  <2>3. \A o \in Outcomes \ {"BLOCKED"} : Owes(L, o) = 0
    BY <2>1 DEF Owes, WillCount
  <2>4. \A o \in Outcomes : Owes(N, o) = 0
    BY <1>4, <1>12, <2>2, <2>3
  <2>5. Spreading(L) = 0
    BY <2>1 DEF Spreading
  <2>6. Spreading(N) = 0
    BY <1>4, <1>10, <2>2, <2>5
  <2>7. Spread' = 0 /\ \A o \in Outcomes : Owed(o)' = 0
    BY <1>3, <1>12, <2>4, <2>6, NothingOwedAfter
  <2>8. \A o \in Outcomes : w.outcome = o => w.to = Number(o)
    BY <1>1, <1>12 DEF CountersInv, CountersFit
  <2>9. \A o \in Outcomes : Number(o)' = Number(o)
    BY <1>6, <1>12, <2>2
  <2>10. QED BY <1>5, <1>12, <2>7, <2>8, <2>9
<1> HIDE DEF L, N
<1>13. ASSUME NEW o \in Outcomes \ {"BLOCKED"} PROVE Pays(p, o)
  <2>1. CASE w.op = "counter" /\ w.outcome = o
    BY <1>12, <2>1 DEF Pays
  <2>2. CASE ~(w.op = "counter" /\ w.outcome = o)
    <3>1. whole' = whole /\ (Rewritten(o) => Rewritten(o)')
      BY <1>1, <1>7, <2>2
    <3>2. db'.tally[o] + Owes(N, o) + Number(o) = db.tally[o] + Owes(L, o) + Number(o)'
      <4>1. CASE Ends(w) /\ w.to = o
        <5>1. db'.tally[o] = db.tally[o] /\ Owes(N, o) = 1 /\ Owes(L, o) = 0 /\ Number(o)' = Number(o) + 1
          BY <1>4, <1>5, <1>6, <1>11, <4>1
        <5>2. QED BY <1>9, <5>1
      <4>2. CASE Ends(w) /\ w.to # o
        <5>1. db'.tally[o] = db.tally[o] /\ Owes(N, o) = 0 /\ Owes(L, o) = 0 /\ Number(o)' = Number(o)
          BY <1>4, <1>5, <1>6, <1>11, <4>2
        <5>2. QED BY <5>1
      <4>3. CASE Counts(w) /\ w.outcome = o
        <5>1. ~Ends(w) /\ w.op # "block"
          BY <1>11, <4>3
        <5>2. db'.tally[o] = db.tally[o] + 1 /\ Owes(N, o) = 0 /\ Owes(L, o) = 1 /\ Number(o)' = Number(o)
          BY <1>4, <1>5, <1>6, <1>11, <4>3, <5>1
        <5>3. QED BY <1>9, <5>2
      <4>4. CASE ~Ends(w) /\ ~(Counts(w) /\ w.outcome = o)
        <5>1. ~(w.op = "increment" /\ w.outcome = o)
          BY <1>11, <4>4
        <5>2. db'.tally[o] = db.tally[o] /\ Owes(N, o) = Owes(L, o) /\ Number(o)' = Number(o)
          BY <1>4, <1>5, <1>6, <2>2, <4>4, <5>1
        <5>3. QED BY <5>2
      <4>5. QED BY <4>1, <4>2, <4>3, <4>4
    <3>3. QED BY <3>1, <3>2 DEF Pays, N, L
  <2>3. QED BY <2>1, <2>2
<1>14. PaysBlocked(p)
  <2>1. CASE w.op = "counter" /\ w.outcome = "BLOCKED"
    BY <1>11, <1>12, <2>1 DEF PaysBlocked
  <2>2. CASE ~(w.op = "counter" /\ w.outcome = "BLOCKED")
    <3>1. whole' = whole /\ (Rewritten("BLOCKED") => Rewritten("BLOCKED")')
      BY <1>1, <1>7, <1>11, <2>2
    <3>2. /\ Number("BLOCKED")' + db.tally["BLOCKED"] + Owes(L, "BLOCKED")
               <= Number("BLOCKED") + db'.tally["BLOCKED"] + Owes(N, "BLOCKED")
          /\ Number("FAILED")' <= 1 =>
               Number("BLOCKED")' + db.tally["BLOCKED"] + Owes(L, "BLOCKED")
                 = Number("BLOCKED") + db'.tally["BLOCKED"] + Owes(N, "BLOCKED")
      <4>1. CASE w.op = "block"
        <5>1. ~CountsBlocked(w) /\ ~Ends(w) /\ w.op # "increment"
          BY <1>11, <4>1
        <5>2. db'.tally["BLOCKED"] = db.tally["BLOCKED"] /\ Owes(L, "BLOCKED") = 0
              /\ Owes(N, "BLOCKED") = Cardinality(w.tasks)
          BY <1>4, <1>5, <1>11, <4>1, <5>1
        <5>3. Number("FAILED")' <= 1 => WithStatus({"BLOCKED"}) = {}
          <6>1. Number("FAILED")' = Number("FAILED")
            BY <1>6, <1>11, <4>1
          <6>2. QED BY <1>1, <4>1, <6>1 DEF CountersInv, BlockedFresh, L
        <5>4. /\ Cardinality(w.tasks) \in Nat
              /\ Number("BLOCKED")' <= Number("BLOCKED") + Cardinality(w.tasks)
              /\ Number("FAILED")' <= 1 => Number("BLOCKED")' = Number("BLOCKED") + Cardinality(w.tasks)
          BY <1>6, <4>1, <5>3
        <5>5. db.tally["BLOCKED"] \in Nat /\ Number("BLOCKED") \in Nat /\ Number("BLOCKED")' \in Nat
          BY <1>9, <1>11
        <5>6. QED BY <5>2, <5>4, <5>5, SMTT(20)
      <4>2. CASE w.op # "block" /\ CountsBlocked(w)
        <5>1. ~Ends(w)
          BY <1>11, <4>2
        <5>2. /\ db'.tally["BLOCKED"] = db.tally["BLOCKED"] + w.by /\ Owes(L, "BLOCKED") = w.by
              /\ Owes(N, "BLOCKED") = 0 /\ Number("BLOCKED")' = Number("BLOCKED") /\ w.by \in Nat
          BY <1>4, <1>5, <1>6, <1>11, <4>2, <5>1
        <5>3. db.tally["BLOCKED"] \in Nat /\ Number("BLOCKED") \in Nat
          BY <1>9, <1>11
        <5>4. QED BY <5>2, <5>3, SMTT(20)
      <4>3. CASE w.op # "block" /\ ~CountsBlocked(w)
        <5>1. ~(w.op = "increment" /\ w.outcome = "BLOCKED")
          BY <1>11, <4>3
        <5>2. db'.tally["BLOCKED"] = db.tally["BLOCKED"] /\ Owes(L, "BLOCKED") = 0 /\ Owes(N, "BLOCKED") = 0
          BY <1>4, <1>5, <1>11, <2>2, <4>3, <5>1
        <5>3. Number("BLOCKED")' = Number("BLOCKED")
          BY <1>6, <1>11, <4>3
        <5>4. db.tally["BLOCKED"] \in Nat /\ Number("BLOCKED") \in Nat
          BY <1>9, <1>11
        <5>5. QED BY <5>2, <5>3, <5>4, SMTT(20)
      <4>4. QED BY <4>1, <4>2, <4>3
    <3>3. QED BY <3>1, <3>2 DEF PaysBlocked, N, L
  <2>3. QED BY <2>1, <2>2
<1>15. SpreadsFor(p)
  <2>1. CASE Ends(w) /\ w.to = "FAILED"
    <3>1. Number("FAILED")' = Number("FAILED") + 1 /\ db'.tally["BLOCKED"] = db.tally["BLOCKED"]
      BY <1>5, <1>6, <1>11, <2>1
    <3>2. Spreading(L) = 0
      BY <1>1, <2>1 DEF Spreading, Ended, L
    <3>3. QED BY <3>1, <3>2 DEF SpreadsFor, L
  <2>2. CASE CountsBlocked(w)
    <3>1. ~Ends(w) /\ w.op # "block"
      BY <1>11, <2>2
    <3>2. /\ Number("FAILED")' = Number("FAILED") /\ db'.tally["BLOCKED"] = db.tally["BLOCKED"] + w.by
          /\ w.by \in Nat /\ w.by <= TaskCount /\ Spreading(L) = TaskCount /\ Spreading(N) = 0
      BY <1>4, <1>5, <1>6, <1>11, <2>2, <3>1
    <3>3. db.tally["BLOCKED"] \in Nat
      BY <1>9, <1>11
    <3>4. db'.tally["BLOCKED"] + Spreading(N) <= db.tally["BLOCKED"] + Spreading(L)
      BY <1>10, <3>2, <3>3
    <3>5. QED BY <3>2, <3>4 DEF SpreadsFor, N, L
  <2>3. CASE w.op = "counter" /\ w.outcome = "BLOCKED"
    BY <1>11, <1>12, <2>3 DEF SpreadsFor
  <2>4. CASE ~(Ends(w) /\ w.to = "FAILED") /\ ~CountsBlocked(w) /\ ~(w.op = "counter" /\ w.outcome = "BLOCKED")
    <3>1. Number("FAILED")' = Number("FAILED")
      BY <1>6, <1>11, <2>4
    <3>2. ~(w.op = "increment" /\ w.outcome = "BLOCKED")
      BY <1>11, <2>4
    <3>3. db'.tally["BLOCKED"] = db.tally["BLOCKED"]
      BY <1>5, <1>11, <2>4, <3>2
    <3>4. Spreading(N) <= Spreading(L)
      BY <1>4, <2>4
    <3>5. db.tally["BLOCKED"] \in Nat
      BY <1>9, <1>11
    <3>6. db'.tally["BLOCKED"] + Spreading(N) <= db.tally["BLOCKED"] + Spreading(L)
      BY <1>10, <3>3, <3>4, <3>5
    <3>7. QED BY <3>1, <3>6 DEF SpreadsFor, N, L
  <2>5. QED BY <2>1, <2>2, <2>3, <2>4
<1>16. Number("FAILED") <= Number("FAILED")'
  BY <1>6, <1>11
<1>17. QED BY <1>1, <1>3, <1>7, <1>8, <1>13, <1>14, <1>15, <1>16 DEF Accounts, N

LEMMA CallAccounts ==
  ASSUME Inv, Inv', CountersInv, NEW p \in Processes, Call(p)
  PROVE  Accounts(p)
<1> DEFINE w == todo[p][1]
<1>1. w \in Calls /\ db \in StorageType
  BY CallSetting
<1> HIDE DEF w
<1>2. CASE AllAside(Following(w)) /\ (Following(w) = <<>> \/ Asks(w))
  BY <1>2, AsideAccounts DEF w
<1>3. CASE w.op = "propagate" /\ \E S \in SUBSET Tasks :
             Following(w) = <<Block(S), Increment("BLOCKED", Cardinality(S)), Finalize>>
  BY <1>3, SpreadAccounts DEF w
<1>4. QED BY <1>1, <1>2, <1>3, FollowedAside

-----------------------------------------------------------------------------
(*****************************************************************************)
(* Answers, attempts and the interview counted.                              *)
(*****************************************************************************)

\* What is written as completed has its answer first.
AnswersKept ==
  /\ WithStatus({"COMPLETED"}) \subseteq db.answers
  /\ \A x \in Processes : \A i \in 1..Len(todo[x]) :
       todo[x][i].op = "status" /\ todo[x][i].to = "COMPLETED" =>
         \/ i = 1 /\ todo[x][1].task \in db.answers
         \/ i = 2 /\ todo[x][1].op = "answer" /\ todo[x][1].task = todo[x][2].task

FailsLater(L, t) == \E i \in 1..Len(L) : L[i].op = "status" /\ L[i].to = "FAILED" /\ L[i].task = t

\* An attempt is counted just before the status of the failed task is written.
AttemptListed(L) ==
  \A i \in 1..Len(L) : L[i].op = "attempt" =>
    /\ i = 1 /\ 2 \in 1..Len(L)
    /\ L[2].op = "status" /\ L[2].task = L[1].task /\ L[2].to \in {"READY", "FAILED"}
    /\ db.attempts[L[1].task] < MaxAttempts + crashes
    /\ L[2].to = "READY" => db.attempts[L[1].task] + 1 < MaxAttempts

\* A task is asked no more often than the policy says, and once more for each process
\* that died.
AttemptsBounded ==
  /\ \A t \in Tasks :
       /\ db.attempts[t] <= MaxAttempts + crashes
       /\ db.status[t] # "FAILED" /\ (\A x \in Processes : ~FailsLater(todo[x], t)) =>
            db.attempts[t] < MaxAttempts + crashes
  /\ \A x \in Processes : AttemptListed(todo[x])

\* The interview is counted once.
JobCounted ==
  db.jobTally["COMPLETED"] + db.jobTally["COMPLETED_WITH_FAILURES"] + OwedJobs
    <= IF db.counted THEN 1 ELSE 0

\* The calls of a handler that starts, for t.
Starts(L, t) ==
  /\ Opens(L)
  /\ \A i \in 1..Len(L) : L[i].op = "status" =>
       L[i].task = t /\ (L[i].to = "COMPLETED" => i = 2 /\ L[1].op = "answer" /\ L[1].task = t)
  /\ \A i \in 1..Len(L) : L[i].op = "attempt" =>
       /\ i = 1 /\ 2 \in 1..Len(L) /\ L[1].task = t
       /\ L[2].op = "status" /\ L[2].task = t /\ L[2].to \in {"READY", "FAILED"}
       /\ L[2].to = "READY" => db.attempts[t] + 1 < MaxAttempts

LEMMA OutcomeStarts ==
  ASSUME NEW t \in Tasks, NEW o \in Satisfied,
         NEW A \in {<<SetStatus(t, o)>>, <<StoreAnswer(t), SetStatus(t, o)>>},
         o = "COMPLETED" => A = <<StoreAnswer(t), SetStatus(t, o)>>
  PROVE  Starts(A \o NotifyDependents(t) \o MarkTask(o), t)
<1> DEFINE L == A \o NotifyDependents(t) \o MarkTask(o)
<1>1. \E b \in Nat : OutcomeCalls(L, t, o, Len(A), b)
  BY OutcomeListed
<1>2. o = "COMPLETED" => Len(A) = 2
  <2>1. Len(<<StoreAnswer(t), SetStatus(t, o)>>) = 2
    OBVIOUS
  <2>2. QED BY <2>1
<1> HIDE DEF L
<1>3. PICK b \in Nat : OutcomeCalls(L, t, o, Len(A), b)
  BY <1>1
<1> DEFINE a == Len(A)
<1> HIDE DEF a
<1>a. OutcomeCalls(L, t, o, a, b)
  BY <1>3 DEF a
<1>b. /\ Opens(L)
      /\ \A i \in 1..Len(L) : L[i].op = "status" => i = a /\ L[i].task = t /\ L[i].to = o
      /\ a = 2 => L[1].op = "answer" /\ L[1].task = t
      /\ \A i \in 1..Len(L) : L[i].op # "attempt"
  BY <1>a, OutcomeOpens
<1>4. /\ Opens(L)
      /\ \A i \in 1..Len(L) : L[i].op = "status" => i = Len(A) /\ L[i].task = t /\ L[i].to = o
      /\ Len(A) = 2 => L[1].op = "answer" /\ L[1].task = t
      /\ \A i \in 1..Len(L) : L[i].op # "attempt"
  BY <1>b DEF a
<1>5. Starts(L, t)
  BY <1>2, <1>4 DEF Starts
<1>6. QED BY <1>5 DEF L

LEMMA ReportStarts ==
  ASSUME NEW p \in Processes, NEW t \in Tasks,
         OnTaskCompleted(p, t) \/ OnTaskSkipped(p, t) \/ OnTaskFailed(p, t)
  PROVE  \E from \in {"RUNNING", "READY"} : \E L : Report(p, t, from, L) /\ Starts(L, t)
<1>1. CASE OnTaskCompleted(p, t)
  <2>1. Starts(<<StoreAnswer(t), SetStatus(t, "COMPLETED")>> \o NotifyDependents(t) \o MarkTask("COMPLETED"), t)
    BY OutcomeStarts DEF Satisfied
  <2>2. QED BY <1>1, <2>1 DEF OnTaskCompleted
<1>2. CASE OnTaskSkipped(p, t)
  <2>1. Starts(<<SetStatus(t, "SKIPPED")>> \o NotifyDependents(t) \o MarkTask("SKIPPED"), t)
    BY OutcomeStarts DEF Satisfied
  <2>2. QED BY <1>2, <2>1 DEF OnTaskSkipped
<1>3. CASE OnTaskFailed(p, t)
  <2> DEFINE L == <<CountAttempt(t)>>
                    \o IF db.attempts[t] + 1 < MaxAttempts
                       THEN <<SetStatus(t, "READY"), AddToReady(t)>>
                       ELSE <<SetStatus(t, "FAILED"), Propagate(t)>> \o MarkTask("FAILED")
             R == <<CountAttempt(t)>> \o <<SetStatus(t, "READY"), AddToReady(t)>>
             X == <<CountAttempt(t)>> \o (<<SetStatus(t, "FAILED"), Propagate(t)>> \o MarkTask("FAILED"))
  <2>1. Report(p, t, "RUNNING", L)
    BY <1>3 DEF OnTaskFailed
  <2>2. L = IF db.attempts[t] + 1 < MaxAttempts THEN R ELSE X
    OBVIOUS
  <2>3. \A M : M = R \/ M = X =>
          /\ Opens(M)
          /\ 2 \in 1..Len(M) /\ M[1].op = "attempt" /\ M[1].task = t
          /\ M[2].op = "status" /\ M[2].task = t /\ M[2].to \in {"READY", "FAILED"}
          /\ M[2].to = "READY" <=> M = R
          /\ \A i \in 1..Len(M) : /\ M[i].op = "attempt" => i = 1
                                  /\ M[i].op = "status" => i = 2
    BY FailureOpens
  <2>4. X # R
    <3>1. X[2].to = "READY" <=> X = R
      BY <2>3
    <3>2. X = <<CountAttempt(t), SetStatus(t, "FAILED"), Propagate(t), Increment("FAILED", 1), Finalize, MarkInterview>>
      <4>1. \A s \in Status \ {"BLOCKED"} : SetStatus(t, s) \in Calls
        BY CallsMade
      <4>2. QED BY <4>1, CallsMade, SixCalls DEF Status, Outcomes, MarkTask
    <3>3. X[2] = SetStatus(t, "FAILED")
      BY <3>2
    <3>4. QED BY <3>1, <3>3 DEF SetStatus
  <2> HIDE DEF L, R, X
  <2>5. /\ Opens(L)
        /\ 2 \in 1..Len(L) /\ L[1].task = t
        /\ L[2].op = "status" /\ L[2].task = t /\ L[2].to \in {"READY", "FAILED"}
        /\ \A i \in 1..Len(L) : /\ L[i].op = "attempt" => i = 1
                                /\ L[i].op = "status" => i = 2
    BY <2>2, <2>3
  <2>6. L[2].to = "READY" => db.attempts[t] + 1 < MaxAttempts
    BY <2>2, <2>3, <2>4
  <2>7. Starts(L, t)
    BY <2>5, <2>6 DEF Starts
  <2>8. QED BY <2>1, <2>7
<1>4. QED BY <1>1, <1>2, <1>3

RecordsInv == AnswersKept /\ AttemptsBounded /\ JobCounted

\* A step that writes no outcome, and nothing that these records are about.
LEMMA NothingRecorded ==
  ASSUME RecoveryType, RecordsInv, todo' = todo, crashes' = crashes,
         db'.answers = db.answers, db'.attempts = db.attempts, db'.jobTally = db.jobTally,
         db'.counted = db.counted,
         \A t \in Tasks : \A o \in Outcomes : db'.status[t] = o <=> db.status[t] = o
  PROVE  RecordsInv'
<1>1. "COMPLETED" \in Outcomes /\ "FAILED" \in Outcomes
  BY DEF Outcomes
<1>2. WithStatus({"COMPLETED"})' = WithStatus({"COMPLETED"})
  BY <1>1 DEF WithStatus
<1>3. AnswersKept'
  BY <1>2 DEF RecordsInv, AnswersKept
<1>4. AttemptsBounded'
  BY <1>1 DEF RecordsInv, AttemptsBounded, AttemptListed, FailsLater
<1>5. OwedJobs' = OwedJobs
  BY DEF OwedJobs
<1>6. JobCounted'
  BY <1>5 DEF RecordsInv, JobCounted
<1>7. QED BY <1>3, <1>4, <1>6 DEF RecordsInv

\* How the interviews counted and still to be counted change.
LEMMA JobsChange ==
  ASSUME Inv, Inv', CountersInv, NEW p \in Processes, Accounts(p)
  PROVE  /\ OwedJobs' + OwesJob(todo[p]) = OwedJobs + OwesJob(todo'[p])
         /\ OwedJobs \in Nat /\ OwedJobs' \in Nat
<1>1. RecoveryType /\ RecoveryType' /\ InBooks
  BY DEF Inv, CountersInv
<1>2. Books(todo'[p]) /\ \A q \in Processes \ {p} : todo'[q] = todo[q]
  BY DEF Accounts
<1>3. OwedJobs' + OwesJob(todo[p]) = OwedJobs + OwesJob(todo'[p])
  BY <1>1, <1>2, OwedChanges
<1>4. QED BY <1>3, OwedTypes

\* A handler that starts has recorded nothing yet.
LEMMA ReportRecords ==
  ASSUME Inv, Inv', CountersInv, RecordsInv, NEW p \in Processes, NEW t \in Tasks,
         NEW from \in {"RUNNING", "READY"}, NEW L, Report(p, t, from, L), Starts(L, t), Accounts(p)
  PROVE  RecordsInv'
<1>1. /\ todo[p] = <<>> /\ db' = db /\ crashes' = crashes /\ t \in hand[p] /\ db.status[t] = from
      /\ todo' = [todo EXCEPT ![p] = L]
  BY DEF Report, Idle
<1>2. RecoveryType
  BY DEF Inv
<1>3. todo'[p] = L /\ \A q \in Processes \ {p} : todo'[q] = todo[q]
  BY <1>1, <1>2 DEF RecoveryType
<1>4. AnswersKept'
  <2>1. WithStatus({"COMPLETED"})' = WithStatus({"COMPLETED"}) /\ db'.answers = db.answers
    BY <1>1 DEF WithStatus
  <2>2. \A i \in 1..Len(L) : L[i].op = "status" /\ L[i].to = "COMPLETED" =>
          i = 2 /\ L[1].op = "answer" /\ L[1].task = L[2].task
    BY DEF Starts
  <2>3. \A x \in Processes : \A i \in 1..Len(todo'[x]) :
          todo'[x][i].op = "status" /\ todo'[x][i].to = "COMPLETED" =>
            \/ i = 1 /\ todo'[x][1].task \in db'.answers
            \/ i = 2 /\ todo'[x][1].op = "answer" /\ todo'[x][1].task = todo'[x][2].task
    <3>1. TAKE x \in Processes
    <3>2. CASE x = p
      BY <1>3, <2>2, <3>2
    <3>3. CASE x # p
      BY <1>1, <1>3, <3>3 DEF RecordsInv, AnswersKept
    <3>4. QED BY <3>2, <3>3
  <2>4. QED BY <2>1, <2>3 DEF RecordsInv, AnswersKept
<1>5. db.attempts[t] < MaxAttempts + crashes
  <2>1. db.status[t] # "FAILED"
    BY <1>1
  <2>2. ASSUME NEW x \in Processes, FailsLater(todo[x], t) PROVE FALSE
    <3>1. t \in Owned(todo[x])
      BY <2>2 DEF FailsLater, Owned, OwnOps
    <3>2. x = p
      BY <1>1, <3>1 DEF Inv, OnePlace, Has
    <3>3. QED BY <1>1, <2>2, <3>2, NoBooks DEF FailsLater
  <2>3. QED BY <2>1, <2>2 DEF RecordsInv, AttemptsBounded
<1>6. AttemptsBounded'
  <2>1. \A x \in Processes : AttemptListed(todo[x])'
    <3>1. TAKE x \in Processes
    <3>2. CASE x = p
      BY <1>1, <1>3, <1>5, <3>2 DEF Starts, AttemptListed
    <3>3. CASE x # p
      BY <1>1, <1>3, <3>3 DEF RecordsInv, AttemptsBounded, AttemptListed
    <3>4. QED BY <3>2, <3>3
  <2>2. \A s \in Tasks : (\A x \in Processes : ~FailsLater(todo'[x], s)) => \A x \in Processes : ~FailsLater(todo[x], s)
    BY <1>1, <1>3, NoBooks DEF FailsLater
  <2>3. \A s \in Tasks :
          /\ db'.attempts[s] <= MaxAttempts + crashes'
          /\ db'.status[s] # "FAILED" /\ (\A x \in Processes : ~FailsLater(todo'[x], s)) =>
               db'.attempts[s] < MaxAttempts + crashes'
    BY <1>1, <2>2 DEF RecordsInv, AttemptsBounded
  <2>4. QED BY <2>1, <2>3 DEF AttemptsBounded
<1>7. JobCounted'
  <2>1. OwedJobs' + OwesJob(todo[p]) = OwedJobs + OwesJob(todo'[p]) /\ OwedJobs \in Nat /\ OwedJobs' \in Nat
    BY JobsChange
  <2>2. OwesJob(todo[p]) = 0 /\ OwesJob(todo'[p]) = 0
    BY <1>1, <1>3, NoBooks DEF Starts, Opens
  <2>3. OwedJobs' = OwedJobs
    BY <2>1, <2>2
  <2>4. QED BY <1>1, <2>3 DEF RecordsInv, JobCounted
<1>8. QED BY <1>4, <1>6, <1>7 DEF RecordsInv

LEMMA CrashRecords ==
  ASSUME Inv, Inv', CountersInv, RecordsInv, NEW p \in Processes, Crash(p), Accounts(p)
  PROVE  RecordsInv'
<1>1. db' = db /\ crashes' = crashes + 1 /\ todo' = [todo EXCEPT ![p] = <<>>]
  BY DEF Crash
<1>2. RecoveryType
  BY DEF Inv
<1>3. todo'[p] = <<>> /\ \A q \in Processes \ {p} : todo'[q] = todo[q]
  BY <1>1, <1>2 DEF RecoveryType
<1>4. AnswersKept'
  <2>1. WithStatus({"COMPLETED"})' = WithStatus({"COMPLETED"}) /\ db'.answers = db.answers
    BY <1>1 DEF WithStatus
  <2>2. \A x \in Processes : \A i \in 1..Len(todo'[x]) :
          todo'[x][i].op = "status" /\ todo'[x][i].to = "COMPLETED" =>
            \/ i = 1 /\ todo'[x][1].task \in db'.answers
            \/ i = 2 /\ todo'[x][1].op = "answer" /\ todo'[x][1].task = todo'[x][2].task
    <3>1. TAKE x \in Processes
    <3>2. CASE x = p
      BY <1>3, <3>2, NoBooks
    <3>3. CASE x # p
      BY <1>1, <1>3, <3>3 DEF RecordsInv, AnswersKept
    <3>4. QED BY <3>2, <3>3
  <2>3. QED BY <2>1, <2>2 DEF RecordsInv, AnswersKept
<1>5. crashes \in Nat /\ MaxAttempts \in Nat /\ \A t \in Tasks : db.attempts[t] \in Nat
  BY <1>2, RecoveryConstants DEF RecoveryType, StorageType
<1>6. AttemptsBounded'
  <2>1. ASSUME NEW x \in Processes PROVE AttemptListed(todo[x])'
    <3>1. CASE x = p
      BY <1>3, <3>1, NoBooks DEF AttemptListed
    <3>2. CASE x # p
      <4>1. AttemptListed(todo[x]) /\ todo'[x] = todo[x] /\ todo[x] \in Seq(Calls)
        BY <1>2, <1>3, <3>2 DEF RecordsInv, AttemptsBounded, RecoveryType
      <4>2. ASSUME NEW i \in 1..Len(todo[x]), todo[x][i].op = "attempt"
            PROVE  todo[x][1].task \in Tasks
        <5>1. i = 1
          BY <4>1, <4>2 DEF AttemptListed
        <5>2. todo[x][1] \in Calls /\ todo[x][1].op = "attempt"
          BY <4>1, <4>2, <5>1, ElementOfSeq
        <5>3. QED BY <5>2, CallFields DEF TaskOps
      <4>3. ASSUME NEW i \in 1..Len(todo[x]), todo[x][i].op = "attempt"
            PROVE  db'.attempts[todo[x][1].task] < MaxAttempts + crashes'
        <5>1. db.attempts[todo[x][1].task] < MaxAttempts + crashes /\ db.attempts[todo[x][1].task] \in Nat
          BY <1>5, <4>1, <4>2, <4>3 DEF AttemptListed
        <5>2. QED BY <1>1, <1>5, <5>1
      <4>4. QED BY <1>1, <4>1, <4>3 DEF AttemptListed
    <3>3. QED BY <3>1, <3>2
  <2>2. ASSUME NEW t \in Tasks PROVE db'.attempts[t] <= MaxAttempts + crashes' /\ db'.attempts[t] < MaxAttempts + crashes'
    <3>1. db.attempts[t] <= MaxAttempts + crashes /\ db.attempts[t] \in Nat
      BY <1>5 DEF RecordsInv, AttemptsBounded
    <3>2. QED BY <1>1, <1>5, <3>1
  <2>3. QED BY <2>1, <2>2 DEF AttemptsBounded
<1>7. JobCounted'
  <2>1. OwedJobs' + OwesJob(todo[p]) = OwedJobs + OwesJob(todo'[p]) /\ OwedJobs \in Nat /\ OwedJobs' \in Nat
    BY JobsChange
  <2>2. OwesJob(todo[p]) \in Nat /\ OwesJob(todo'[p]) = 0
    BY <1>3, NoBooks DEF OwesJob
  <2>3. OwedJobs' <= OwedJobs
    BY <2>1, <2>2
  <2>4. \A v \in Verdicts : db.jobTally[v] \in Nat
    BY <1>2 DEF RecoveryType, StorageType
  <2>5. db.jobTally["COMPLETED"] \in Nat /\ db.jobTally["COMPLETED_WITH_FAILURES"] \in Nat
    BY <2>4 DEF Verdicts
  <2>6. db.jobTally["COMPLETED"] + db.jobTally["COMPLETED_WITH_FAILURES"] + OwedJobs'
          <= db.jobTally["COMPLETED"] + db.jobTally["COMPLETED_WITH_FAILURES"] + OwedJobs
    BY <2>1, <2>3, <2>5
  <2> DEFINE s == db.jobTally["COMPLETED"] + db.jobTally["COMPLETED_WITH_FAILURES"]
             c == IF db.counted THEN 1 ELSE 0
  <2>7. s \in Nat /\ c \in Nat /\ s + OwedJobs <= c
    BY <2>5 DEF RecordsInv, JobCounted
  <2>8. JobCounted' <=> s + OwedJobs' <= c
    BY <1>1 DEF JobCounted
  <2> HIDE DEF s, c
  <2>9. QED BY <2>1, <2>3, <2>7, <2>8
<1>8. QED BY <1>4, <1>6, <1>7 DEF RecordsInv

LEMMA RecoverRecords ==
  ASSUME Inv, Inv', CountersInv, RecordsInv, NEW p \in Processes, Recover(p), Accounts(p)
  PROVE  RecordsInv'
<1> DEFINE L == RecoveryCalls
<1>1. up = {} /\ db' = db /\ crashes' = crashes /\ todo' = [todo EXCEPT ![p] = L]
  BY DEF Recover, RecoveryCalls
<1>2. RecoveryType /\ RecoveryType'
  BY DEF Inv
<1>3. todo'[p] = L /\ \A q \in Processes \ {p} : todo'[q] = todo[q]
  BY <1>1, <1>2 DEF RecoveryType
<1>4. \A q \in Processes : todo[q] = <<>>
  BY <1>1, <1>2 DEF RecoveryType
<1>5. L \in Seq(Calls)
  BY <1>2, <1>3 DEF RecoveryType
<1>6. \A i \in 1..Len(L) : L[i].op \in {"requeue", "counter"}
  BY <1>2, RecoveryListed DEF RecoveryType
<1> HIDE DEF L
<1>7. \A x \in Processes : \A i \in 1..Len(todo'[x]) : todo'[x][i].op \in {"requeue", "counter"}
  BY <1>3, <1>4, <1>6, NoBooks
<1>8. AnswersKept'
  <2>1. WithStatus({"COMPLETED"})' = WithStatus({"COMPLETED"}) /\ db'.answers = db.answers
    BY <1>1 DEF WithStatus
  <2>2. QED BY <1>7, <2>1 DEF RecordsInv, AnswersKept
<1>9. AttemptsBounded'
  <2>1. \A x \in Processes : AttemptListed(todo[x])'
    BY <1>7 DEF AttemptListed
  <2>2. \A t \in Tasks : \A x \in Processes : ~FailsLater(todo[x], t)
    BY <1>4, NoBooks DEF FailsLater
  <2>3. QED BY <1>1, <2>1, <2>2 DEF RecordsInv, AttemptsBounded
<1>10. JobCounted'
  <2>1. OwedJobs' + OwesJob(todo[p]) = OwedJobs + OwesJob(todo'[p]) /\ OwedJobs \in Nat /\ OwedJobs' \in Nat
    BY JobsChange
  <2>2. OwesJob(L) = 0
    <3>1. L # <<>> => 1 \in 1..Len(L)
      BY <1>5, EmptySeq
    <3>2. QED BY <1>6, <3>1 DEF OwesJob
  <2>3. OwesJob(todo[p]) = 0 /\ OwesJob(todo'[p]) = 0
    BY <1>3, <1>4, <2>2, NoBooks
  <2>4. OwedJobs' = OwedJobs
    BY <2>1, <2>3
  <2>5. QED BY <1>1, <2>4 DEF RecordsInv, JobCounted
<1>11. QED BY <1>8, <1>9, <1>10 DEF RecordsInv

\* Calls that follow a call write no outcome and count no attempt.
LEMMA FollowedRecords ==
  ASSUME Inv, NEW p \in Processes, Call(p), NEW w, w = todo[p][1]
  PROVE  /\ \A i \in 1..Len(todo'[p]) : Ends(todo'[p][i]) \/ todo'[p][i].op = "attempt" =>
              \E m \in 2..Len(todo[p]) : /\ m \in 1..Len(todo[p]) /\ todo'[p][i] = todo[p][m]
                                         /\ w.op \in {"answer", "attempt", "status"} => i = m - 1
         /\ \A m \in 2..Len(todo[p]) : \E i \in 1..Len(todo'[p]) : todo'[p][i] = todo[p][m]
         /\ w.op \in {"answer", "attempt", "status"} /\ 2 \in 1..Len(todo[p]) =>
              1 \in 1..Len(todo'[p]) /\ todo'[p][1] = todo[p][2]
<1> DEFINE L == todo[p]
           F == Following(w)
           N == todo'[p]
           k == Len(F)
<1>1. /\ w \in Calls /\ db \in StorageType /\ Left(L, F, N)
  BY CallSetting
<1>2. Moved(L, F, N)
  BY <1>1, CallsMove
<1>3. /\ \A i \in 1..Len(F) : ~Ends(F[i]) /\ F[i].op # "attempt"
      /\ w.op \in {"answer", "attempt", "status"} => k = 0
  <2>1. CASE w.op = "propagate" /\ \E S \in SUBSET Tasks : F = <<Block(S), Increment("BLOCKED", Cardinality(S)), Finalize>>
    BY <2>1 DEF Block, Increment, Finalize, Ends
  <2>2. CASE AllAside(F) /\ (F = <<>> \/ Asks(w))
    <3>1. F = <<>> => k = 0
      OBVIOUS
    <3>2. QED BY <2>2, <3>1 DEF AllAside, Aside, Asks
  <2>3. QED BY <1>1, <2>1, <2>2, FollowedAside
<1> HIDE DEF F, N, L, k
<1>4. k \in Nat /\ k = Len(F)
  BY <1>2 DEF Moved, k
<1>5. ASSUME NEW i \in 1..Len(N), Ends(N[i]) \/ N[i].op = "attempt"
      PROVE  \E m \in 2..Len(L) : /\ m \in 1..Len(L) /\ N[i] = L[m]
                                  /\ w.op \in {"answer", "attempt", "status"} => i = m - 1
  <2>1. i \notin 1..Len(F)
    BY <1>2, <1>3, <1>5 DEF Moved
  <2>2. PICK m \in 2..Len(L) : m \in 1..Len(L) /\ N[i] = L[m] /\ i = m + Len(F) - 1
    BY <1>2, <2>1 DEF Moved
  <2>3. w.op \in {"answer", "attempt", "status"} => i = m - 1
    BY <1>3, <1>4, <2>2
  <2>4. QED BY <2>2, <2>3
<1>6. \A m \in 2..Len(L) : \E i \in 1..Len(N) : N[i] = L[m]
  BY <1>2 DEF Moved
<1>7. ASSUME w.op \in {"answer", "attempt", "status"}, 2 \in 1..Len(L) PROVE 1 \in 1..Len(N) /\ N[1] = L[2]
  <2>1. 2 \in 2..Len(L)
    BY <1>7
  <2>2. 2 + Len(F) - 1 \in 1..Len(N) /\ N[2 + Len(F) - 1] = L[2]
    BY <1>2, <2>1 DEF Moved
  <2>3. 2 + Len(F) - 1 = 1
    BY <1>3, <1>4, <1>7
  <2>4. QED BY <2>2, <2>3
<1>8. QED BY <1>5, <1>6, <1>7 DEF N, L

LEMMA CallAnswers ==
  ASSUME Inv, Inv', RecordsInv, NEW p \in Processes, Call(p)
  PROVE  AnswersKept'
<1> DEFINE w == todo[p][1]
           L == todo[p]
           N == todo'[p]
<1>1. /\ w \in Calls /\ db \in StorageType /\ db' = Written(w) /\ 1 \in 1..Len(L)
      /\ \A q \in Processes \ {p} : todo'[q] = todo[q]
  BY CallSetting
<1>2. /\ \A i \in 1..Len(N) : Ends(N[i]) \/ N[i].op = "attempt" =>
           \E m \in 2..Len(L) : /\ m \in 1..Len(L) /\ N[i] = L[m]
                                /\ w.op \in {"answer", "attempt", "status"} => i = m - 1
  BY FollowedRecords
<1>3. db'.answers = IF w.op = "answer" THEN db.answers \cup {w.task} ELSE db.answers
  <2>1. Written(w).answers = IF w.op = "answer" THEN db.answers \cup {w.task} ELSE db.answers
    BY <1>1, CallRecords
  <2>2. db'.answers = Written(w).answers
    BY <1>1
  <2>3. QED BY <2>1, <2>2
<1>4. AnswersKept
  BY DEF RecordsInv
<1> HIDE DEF L, N
<1>5. WithStatus({"COMPLETED"})' \subseteq db'.answers
  <2>1. /\ \A o \in Outcomes :
             WithStatus({o})' =
               IF Ends(w) /\ w.to = o THEN WithStatus({o}) \cup {w.task}
               ELSE IF w.op = "block" /\ o = "BLOCKED" THEN WithStatus({o}) \cup w.tasks
               ELSE WithStatus({o})
    BY OutcomesAfter
  <2>2. Ends(w) /\ w.to = "COMPLETED" => w.task \in db.answers
    BY <1>1, <1>4 DEF AnswersKept, Ends, L
  <2>3. WithStatus({"COMPLETED"})' = IF Ends(w) /\ w.to = "COMPLETED" THEN WithStatus({"COMPLETED"}) \cup {w.task}
                                     ELSE WithStatus({"COMPLETED"})
    BY <2>1 DEF Outcomes
  <2>4. QED BY <1>3, <1>4, <2>2, <2>3 DEF AnswersKept
<1>6. ASSUME NEW x \in Processes, NEW i \in 1..Len(todo'[x]),
             todo'[x][i].op = "status", todo'[x][i].to = "COMPLETED"
      PROVE  \/ i = 1 /\ todo'[x][1].task \in db'.answers
             \/ i = 2 /\ todo'[x][1].op = "answer" /\ todo'[x][1].task = todo'[x][2].task
  <2>1. CASE x # p
    BY <1>1, <1>3, <1>4, <1>6, <2>1 DEF AnswersKept
  <2>2. CASE x = p
    <3>1. Ends(N[i]) /\ i \in 1..Len(N)
      BY <1>6, <2>2 DEF Ends, Outcomes, N
    <3>2. PICK m \in 2..Len(L) : /\ m \in 1..Len(L) /\ N[i] = L[m]
                                 /\ w.op \in {"answer", "attempt", "status"} => i = m - 1
      BY <1>2, <3>1
    <3>3. m = 2 /\ L[1].op = "answer" /\ L[1].task = L[2].task
      BY <1>4, <1>6, <2>2, <3>2 DEF AnswersKept, N, L
    <3>4. i = 1
      BY <3>2, <3>3 DEF L
    <3>5. N[1].task \in db'.answers
      BY <1>3, <3>2, <3>3, <3>4 DEF L
    <3>6. QED BY <2>2, <3>4, <3>5 DEF N
  <2>3. QED BY <2>1, <2>2
<1>7. QED BY <1>5, <1>6 DEF AnswersKept

LEMMA CallAttempts ==
  ASSUME Inv, Inv', RecordsInv, NEW p \in Processes, Call(p),
         \A t \in Tasks : db.status[t] \in Outcomes => db'.status[t] = db.status[t]
  PROVE  AttemptsBounded'
<1> DEFINE w == todo[p][1]
           L == todo[p]
           N == todo'[p]
<1>1. /\ w \in Calls /\ db \in StorageType /\ db' = Written(w) /\ 1 \in 1..Len(L) /\ L \in Seq(Calls)
      /\ \A q \in Processes \ {p} : todo'[q] = todo[q]
  BY CallSetting
<1>2. /\ \A i \in 1..Len(N) : Ends(N[i]) \/ N[i].op = "attempt" =>
           \E m \in 2..Len(L) : m \in 1..Len(L) /\ N[i] = L[m]
      /\ \A m \in 2..Len(L) : \E i \in 1..Len(N) : N[i] = L[m]
      /\ w.op = "attempt" /\ 2 \in 1..Len(L) => 1 \in 1..Len(N) /\ N[1] = L[2]
  BY FollowedRecords
<1>3. \A t \in Tasks : db'.attempts[t] = IF w.op = "attempt" /\ w.task = t THEN db.attempts[t] + 1 ELSE db.attempts[t]
  <2>1. Written(w).attempts =
          [t \in Tasks |-> IF w.op = "attempt" /\ w.task = t THEN db.attempts[t] + 1 ELSE db.attempts[t]]
    BY <1>1, CallRecords
  <2>2. db'.attempts = Written(w).attempts
    BY <1>1
  <2>3. QED BY <2>1, <2>2
<1>4. \A t \in Tasks : w.op = "status" /\ w.task = t => db'.status[t] = w.to
  <2>1. Written(w).status =
              [t \in Tasks |-> IF w.op = "status" /\ t = w.task THEN w.to
                               ELSE IF w.op = "block" /\ t \in w.tasks THEN "BLOCKED"
                               ELSE db.status[t]]
    BY <1>1, CallWrites
  <2>2. db'.status = Written(w).status
    BY <1>1
  <2>3. QED BY <2>1, <2>2
<1>5. /\ crashes' = crashes /\ crashes \in Nat /\ MaxAttempts \in Nat
      /\ \A t \in Tasks : db.attempts[t] \in Nat
  BY <1>1, RecoveryConstants DEF Call, Inv, RecoveryType, StorageType
<1>6. /\ \A t \in Tasks :
           /\ db.attempts[t] <= MaxAttempts + crashes
           /\ db.status[t] # "FAILED" /\ (\A x \in Processes : ~FailsLater(todo[x], t)) =>
                db.attempts[t] < MaxAttempts + crashes
      /\ \A x \in Processes : AttemptListed(todo[x])
  BY DEF RecordsInv, AttemptsBounded
<1>7. w.op = "attempt" =>
        /\ w.task \in Tasks /\ 2 \in 1..Len(L) /\ 2 \in 2..Len(L)
        /\ L[2].op = "status" /\ L[2].task = w.task /\ L[2].to \in {"READY", "FAILED"}
        /\ db.attempts[w.task] < MaxAttempts + crashes
        /\ L[2].to = "READY" => db.attempts[w.task] + 1 < MaxAttempts
        /\ 1 \in 1..Len(N) /\ N[1] = L[2]
  <2>1. SUFFICES ASSUME w.op = "attempt"
                 PROVE  /\ w.task \in Tasks /\ 2 \in 1..Len(L) /\ 2 \in 2..Len(L)
                        /\ L[2].op = "status" /\ L[2].task = w.task /\ L[2].to \in {"READY", "FAILED"}
                        /\ db.attempts[w.task] < MaxAttempts + crashes
                        /\ L[2].to = "READY" => db.attempts[w.task] + 1 < MaxAttempts
                        /\ 1 \in 1..Len(N) /\ N[1] = L[2]
    OBVIOUS
  <2>2. w.task \in Tasks
    BY <1>1, <2>1, CallFields DEF TaskOps
  <2>3. /\ 2 \in 1..Len(L)
        /\ L[2].op = "status" /\ L[2].task = w.task /\ L[2].to \in {"READY", "FAILED"}
        /\ db.attempts[w.task] < MaxAttempts + crashes
        /\ L[2].to = "READY" => db.attempts[w.task] + 1 < MaxAttempts
    BY <1>1, <1>6, <2>1 DEF AttemptListed
  <2>4. 2 \in 2..Len(L)
    BY <2>3
  <2>5. QED BY <1>2, <2>1, <2>2, <2>3, <2>4
<1> HIDE DEF w, N, L
<1>8. ASSUME NEW x \in Processes PROVE AttemptListed(todo[x])'
  <2>1. CASE x = p
    <3>1. ASSUME NEW i \in 1..Len(N), N[i].op = "attempt" PROVE FALSE
      <4>1. PICK m \in 2..Len(L) : m \in 1..Len(L) /\ N[i] = L[m]
        BY <1>2, <3>1
      <4>2. AttemptListed(L)
        BY <1>6 DEF L
      <4>3. QED BY <3>1, <4>1, <4>2 DEF AttemptListed
    <3>2. QED BY <2>1, <3>1 DEF AttemptListed, N
  <2>2. CASE x # p
    <3>1. todo'[x] = todo[x] /\ AttemptListed(todo[x]) /\ todo[x] \in Seq(Calls)
      BY <1>1, <1>6, <2>2 DEF Inv, RecoveryType
    <3>2. ASSUME NEW i \in 1..Len(todo[x]), todo[x][i].op = "attempt"
          PROVE  db'.attempts[todo[x][1].task] = db.attempts[todo[x][1].task]
      <4>1. /\ i = 1 /\ 2 \in 1..Len(todo[x]) /\ todo[x][2].op = "status" /\ todo[x][2].task = todo[x][1].task
        BY <3>1, <3>2 DEF AttemptListed
      <4>2. todo[x][1].task \in Tasks
        <5>1. todo[x][1] \in Calls /\ todo[x][1].op = "attempt"
          BY <3>1, <3>2, <4>1, ElementOfSeq
        <5>2. QED BY <5>1, CallFields DEF TaskOps
      <4>3. todo[x][1].task \in Owned(todo[x])
        BY <4>1, <4>2 DEF Owned, OwnOps
      <4>4. w.op = "attempt" => w.task \in Owned(todo[p])
        BY <1>7 DEF Owned, OwnOps, L
      <4>5. ~(w.op = "attempt" /\ w.task = todo[x][1].task)
        BY <2>2, <4>2, <4>3, <4>4 DEF Inv, OnePlace, Has
      <4>6. QED BY <1>3, <4>2, <4>5
    <3>3. QED BY <1>5, <3>1, <3>2 DEF AttemptListed
  <2>3. QED BY <2>1, <2>2
<1>9. ASSUME NEW t \in Tasks
      PROVE  /\ db'.attempts[t] <= MaxAttempts + crashes'
             /\ db'.status[t] # "FAILED" /\ (\A x \in Processes : ~FailsLater(todo'[x], t)) =>
                  db'.attempts[t] < MaxAttempts + crashes'
  <2>1. CASE w.op = "attempt" /\ w.task = t
    <3>1. db'.attempts[t] = db.attempts[t] + 1 /\ db.attempts[t] < MaxAttempts + crashes
      BY <1>3, <1>7, <2>1
    <3>2. (\A x \in Processes : ~FailsLater(todo'[x], t)) => db.attempts[t] + 1 < MaxAttempts
      <4>1. SUFFICES ASSUME ~FailsLater(N, t) PROVE db.attempts[t] + 1 < MaxAttempts
        BY DEF N
      <4>2. L[2].to # "FAILED"
        BY <1>7, <2>1, <4>1 DEF FailsLater
      <4>3. QED BY <1>7, <2>1, <4>2
    <3>3. QED BY <1>5, <3>1, <3>2
  <2>2. CASE ~(w.op = "attempt" /\ w.task = t)
    <3>1. db'.attempts[t] = db.attempts[t]
      BY <1>3, <2>2
    <3>2. ASSUME db'.status[t] # "FAILED", \A x \in Processes : ~FailsLater(todo'[x], t)
          PROVE  db.status[t] # "FAILED" /\ \A x \in Processes : ~FailsLater(todo[x], t)
      <4>1. db.status[t] # "FAILED"
        BY <3>2 DEF Outcomes
      <4>2. ASSUME NEW x \in Processes, FailsLater(todo[x], t) PROVE FALSE
        <5>1. CASE x # p
          BY <1>1, <3>2, <4>2, <5>1
        <5>2. CASE x = p
          <6>1. PICK i \in 1..Len(L) : L[i].op = "status" /\ L[i].to = "FAILED" /\ L[i].task = t
            BY <4>2, <5>2 DEF FailsLater, L
          <6>2. CASE i = 1
            BY <1>4, <3>2, <6>1, <6>2 DEF w, L
          <6>3. CASE i # 1
            <7>1. i \in 2..Len(L)
              BY <6>3
            <7>2. PICK j \in 1..Len(N) : N[j] = L[i]
              BY <1>2, <7>1
            <7>3. FailsLater(N, t)
              BY <6>1, <7>2 DEF FailsLater
            <7>4. QED BY <3>2, <7>3 DEF N
          <6>4. QED BY <6>2, <6>3
        <5>3. QED BY <5>1, <5>2
      <4>3. QED BY <4>1, <4>2
    <3>3. QED BY <1>5, <1>6, <3>1, <3>2
  <2>3. QED BY <2>1, <2>2
<1>10. QED BY <1>8, <1>9 DEF AttemptsBounded

LEMMA CallJobs ==
  ASSUME Inv, Inv', CountersInv, RecordsInv, NEW p \in Processes, Call(p), Accounts(p)
  PROVE  JobCounted'
<1> DEFINE w == todo[p][1]
           L == todo[p]
           N == todo'[p]
           F == Following(w)
           s == db.jobTally["COMPLETED"] + db.jobTally["COMPLETED_WITH_FAILURES"]
           s1 == db'.jobTally["COMPLETED"] + db'.jobTally["COMPLETED_WITH_FAILURES"]
<1>1. /\ w \in Calls /\ db \in StorageType /\ db' = Written(w) /\ L # <<>> /\ Left(L, F, N)
  BY CallSetting
<1>2. Books(L) /\ Shape(L)
  BY DEF CountersInv, InBooks, Inv, InShape
<1>3. OwedJobs' + OwesJob(L) = OwedJobs + OwesJob(N) /\ OwedJobs \in Nat /\ OwedJobs' \in Nat
  BY JobsChange
<1>4. OwesJob(N) = 0 \/ (w.op = "count" /\ ~db.counted /\ OwesJob(N) = 1)
  <2>1. CASE w.op = "propagate" /\ \E S \in SUBSET Tasks : F = <<Block(S), Increment("BLOCKED", Cardinality(S)), Finalize>>
    BY <1>1, <1>2, <2>1, BooksAfterSpread
  <2>2. CASE AllAside(F) /\ (F = <<>> \/ Asks(w)) /\ (F # <<>> /\ F[1].op = "job" => w.op = "count" /\ ~db.counted)
    <3>1. OwesJob(N) = 0 \/ (F # <<>> /\ F[1].op = "job" /\ OwesJob(N) = 1)
      BY <1>1, <1>2, <2>2, OwedAfterAside
    <3>2. QED BY <2>2, <3>1
  <2>3. QED BY <1>1, <2>1, <2>2, FollowedAside
<1>5. OwesJob(L) = IF w.op = "job" THEN 1 ELSE 0
  BY <1>1 DEF OwesJob
<1>6. /\ db'.counted = (db.counted \/ w.op = "count")
      /\ \A v \in Verdicts : db'.jobTally[v] = IF w.op = "job" /\ w.as = v THEN db.jobTally[v] + 1 ELSE db.jobTally[v]
  <2>1. /\ Written(w).counted = (db.counted \/ w.op = "count")
        /\ Written(w).jobTally =
              [v \in Verdicts |-> IF w.op = "job" /\ w.as = v THEN db.jobTally[v] + 1 ELSE db.jobTally[v]]
    BY <1>1, CallRecords
  <2>2. db'.counted = Written(w).counted /\ db'.jobTally = Written(w).jobTally
    BY <1>1
  <2>3. QED BY <2>1, <2>2
<1>7. w.op = "job" => w.as \in Verdicts
  BY <1>1, CallFields
<1>8. db.jobTally["COMPLETED"] \in Nat /\ db.jobTally["COMPLETED_WITH_FAILURES"] \in Nat
  BY <1>1 DEF StorageType, Verdicts
<1> HIDE DEF w, L, N, F
<1>9. s \in Nat /\ s1 = IF w.op = "job" THEN s + 1 ELSE s
  <2>1. CASE w.op = "job" /\ w.as = "COMPLETED"
    BY <1>6, <1>8, <2>1 DEF Verdicts
  <2>2. CASE w.op = "job" /\ w.as = "COMPLETED_WITH_FAILURES"
    BY <1>6, <1>8, <2>2 DEF Verdicts
  <2>3. CASE w.op # "job"
    BY <1>6, <1>8, <2>3 DEF Verdicts
  <2>4. QED BY <1>7, <2>1, <2>2, <2>3 DEF Verdicts
<1>10. s + OwedJobs <= IF db.counted THEN 1 ELSE 0
  BY DEF RecordsInv, JobCounted
<1>11. JobCounted' <=> s1 + OwedJobs' <= IF db'.counted THEN 1 ELSE 0
  BY DEF JobCounted
<1> DEFINE y == OwedJobs
           y1 == OwedJobs'
           l == OwesJob(L)
           n == OwesJob(N)
<1>a. y1 + l = y + n /\ y \in Nat /\ y1 \in Nat /\ s \in Nat
  BY <1>3, <1>9
<1> HIDE DEF s, s1, y, y1, l, n
<1>12. CASE w.op = "job"
  <2>1. s1 = s + 1 /\ OwesJob(L) = 1 /\ OwesJob(N) = 0 /\ (db'.counted <=> db.counted)
    BY <1>4, <1>5, <1>6, <1>9, <1>12
  <2>2. s1 + y1 = s + y
    <3>1. s1 = s + 1 /\ l = 1 /\ n = 0
      BY <2>1 DEF l, n
    <3>2. QED BY <1>a, <3>1
  <2>3. QED BY <1>10, <1>11, <2>1, <2>2 DEF y, y1
<1>13. CASE w.op = "count" /\ ~db.counted
  <2>1. s1 = s /\ OwesJob(L) = 0 /\ db'.counted /\ OwesJob(N) \in {0, 1}
    BY <1>4, <1>5, <1>6, <1>9, <1>13
  <2>2. s + OwedJobs <= 0
    BY <1>10, <1>13
  <2>3. s1 + y1 <= 1
    <3>1. s1 = s /\ l = 0 /\ n \in {0, 1} /\ s + y <= 0
      BY <2>1, <2>2 DEF l, n, y
    <3>2. QED BY <1>a, <3>1
  <2>4. QED BY <1>11, <2>1, <2>3 DEF y1
<1>14. CASE w.op # "job" /\ ~(w.op = "count" /\ ~db.counted)
  <2>1. s1 = s /\ OwesJob(L) = 0 /\ OwesJob(N) = 0 /\ (db'.counted <=> db.counted)
    BY <1>4, <1>5, <1>6, <1>9, <1>14
  <2>2. s1 + y1 = s + y
    <3>1. s1 = s /\ l = 0 /\ n = 0
      BY <2>1 DEF l, n
    <3>2. QED BY <1>a, <3>1
  <2>3. QED BY <1>10, <1>11, <2>1, <2>2 DEF y, y1
<1>15. QED BY <1>12, <1>13, <1>14

-----------------------------------------------------------------------------
(*****************************************************************************)
(* The counters agree.                                                       *)
(*****************************************************************************)

TallyInv == CountersInv /\ RecordsInv

\* Where no process has calls to make, nothing is owed.
LEMMA QuietOwes ==
  ASSUME \A p \in Processes : todo[p] = <<>>
  PROVE  /\ \A o \in Outcomes : Owed(o) = 0 /\ ~Rewritten(o)
         /\ Spread = 0 /\ OwedJobs = 0
<1>1. \A p \in Processes : /\ \A o \in Outcomes : Owes(todo[p], o) = 0
                           /\ Spreading(todo[p]) = 0 /\ OwesJob(todo[p]) = 0
  BY NoBooks
<1>2. \A o \in Outcomes : Owed(o) = 0
  BY <1>1, NothingOwed
<1>3. Spread = 0 /\ OwedJobs = 0
  BY <1>1, TotalOfNone DEF Spread, OwedJobs
<1>4. \A o \in Outcomes : ~Rewritten(o)
  BY NoBooks DEF Rewritten
<1>5. QED BY <1>2, <1>3, <1>4

LEMMA InitTallies == ASSUME Init PROVE TallyInv
<1>1. /\ \A p \in Processes : todo[p] = <<>>
      /\ \A t \in Tasks : db.status[t] \in {"READY", "PENDING"} /\ db.attempts[t] = 0
      /\ db.answers = {} /\ \A o \in Outcomes : db.tally[o] = 0
      /\ \A v \in Verdicts : db.jobTally[v] = 0
      /\ db.counted = FALSE /\ crashes = 0
  BY DEF Init
<1>2. \A o \in Outcomes : WithStatus({o}) = {}
  BY <1>1 DEF WithStatus, Outcomes
<1>3. \A o \in Outcomes : Number(o) = 0
  BY <1>2, NumberType
<1>4. /\ \A o \in Outcomes : Owed(o) = 0 /\ ~Rewritten(o)
      /\ Spread = 0 /\ OwedJobs = 0
  BY <1>1, QuietOwes
<1>5. "FAILED" \in Outcomes /\ "BLOCKED" \in Outcomes /\ "COMPLETED" \in Outcomes
  BY DEF Outcomes
<1>6. InBooks
  BY <1>1, NoBooks DEF InBooks
<1>7. CountersFit
  BY <1>1, NoBooks DEF CountersFit
<1>8. Balanced
  BY <1>1, <1>3, <1>4 DEF Balanced
<1>9. BlockedBalanced
  BY <1>1, <1>3, <1>4, <1>5, TaskCountType DEF BlockedBalanced
<1>10. BlockedFresh
  BY <1>1, <1>2, <1>5 DEF BlockedFresh
<1>11. AnswersKept
  BY <1>1, <1>2, <1>5, NoBooks DEF AnswersKept
<1>12. AttemptsBounded
  <2>1. MaxAttempts \in Nat \ {0}
    BY RecoveryConstants
  <2>2. \A p \in Processes : AttemptListed(todo[p])
    BY <1>1, NoBooks DEF AttemptListed
  <2>3. QED BY <1>1, <2>1, <2>2 DEF AttemptsBounded
<1>13. JobCounted
  BY <1>1, <1>4 DEF JobCounted, Verdicts
<1>14. QED BY <1>6, <1>7, <1>8, <1>9, <1>10, <1>11, <1>12, <1>13 DEF TallyInv, CountersInv, RecordsInv

LEMMA NextTallies ==
  ASSUME Inv, TallyInv, [Next]_vars
  PROVE  TallyInv'
<1>1. Inv' /\ \A t \in Tasks : db.status[t] \in Outcomes => db'.status[t] = db.status[t]
  BY NextInv
<1>2. RecoveryType /\ RecoveryType' /\ CountersInv /\ RecordsInv
  BY <1>1 DEF Inv, TallyInv
<1>3. ASSUME NEW p \in Processes, Process(p) PROVE TallyInv'
  <2>1. ASSUME NEW t \in Tasks, PopReady(p, t) PROVE TallyInv'
    <3>1. /\ db' = [db EXCEPT !.ready = @ \ {t}]
          /\ todo' = todo /\ up' = up /\ crashes' = crashes /\ whole' = whole
      BY <2>1 DEF PopReady
    <3>2. /\ db'.status = db.status /\ db'.tally = db.tally /\ db'.answers = db.answers
          /\ db'.attempts = db.attempts /\ db'.jobTally = db.jobTally /\ db'.counted = db.counted
      BY <1>2, <3>1 DEF RecoveryType, StorageType
    <3>3. \A o \in Outcomes : WithStatus({o})' = WithStatus({o})
      BY <3>2 DEF WithStatus
    <3>4. CountersInv'
      BY <1>2, <3>1, <3>2, <3>3, NothingAccounted
    <3>5. RecordsInv'
      BY <1>2, <3>1, <3>2, NothingRecorded
    <3>6. QED BY <3>4, <3>5 DEF TallyInv
  <2>2. ASSUME NEW t \in Tasks, Claim(p, t) PROVE TallyInv'
    <3>1. PICK s \in Claimed : /\ db.status[t] \in Claimed \cup {"READY"}
                               /\ db' = [db EXCEPT !.status[t] = s]
                               /\ todo' = todo /\ up' = up /\ crashes' = crashes /\ whole' = whole
      BY <2>2 DEF Claim, Move, Claimed
    <3>2. /\ db'.status = [db.status EXCEPT ![t] = s] /\ db'.tally = db.tally /\ db'.answers = db.answers
          /\ db'.attempts = db.attempts /\ db'.jobTally = db.jobTally /\ db'.counted = db.counted
      BY <1>2, <3>1 DEF RecoveryType, StorageType
    <3>3. \A x \in Tasks : \A o \in Outcomes : db'.status[x] = o <=> db.status[x] = o
      <4>1. db.status \in [Tasks -> Status]
        BY <1>2 DEF RecoveryType, StorageType
      <4>2. QED BY <3>1, <3>2, <4>1 DEF Claimed, Outcomes
    <3>4. \A o \in Outcomes : WithStatus({o})' = WithStatus({o})
      BY <3>3 DEF WithStatus
    <3>5. CountersInv'
      BY <1>2, <3>1, <3>2, <3>4, NothingAccounted
    <3>6. RecordsInv'
      BY <1>2, <3>1, <3>2, <3>3, NothingRecorded
    <3>7. QED BY <3>5, <3>6 DEF TallyInv
  <2>3. ASSUME NEW t \in Tasks, OnTaskCompleted(p, t) \/ OnTaskSkipped(p, t) \/ OnTaskFailed(p, t)
        PROVE  TallyInv'
    <3>1. \E from \in {"RUNNING", "READY"} : \E L : Report(p, t, from, L) /\ Starts(L, t)
      BY <2>3, ReportStarts
    <3>2. PICK from \in {"RUNNING", "READY"} : \E L : Report(p, t, from, L) /\ Starts(L, t)
      BY <3>1
    <3>3. PICK L : Report(p, t, from, L) /\ Starts(L, t)
      BY <3>2
    <3>4. Opens(L)
      BY <3>3 DEF Starts
    <3>5. Accounts(p)
      BY <1>1, <1>2, <3>3, <3>4, ReportAccounts
    <3>6. CountersInv'
      BY <1>2, <3>5, AccountsKeep
    <3>7. RecordsInv'
      BY <1>1, <1>2, <3>3, <3>5, ReportRecords
    <3>8. QED BY <3>6, <3>7 DEF TallyInv
  <2>4. ASSUME Call(p) PROVE TallyInv'
    <3>1. Accounts(p)
      BY <1>1, <1>2, <2>4, CallAccounts
    <3>2. CountersInv'
      BY <1>2, <3>1, AccountsKeep
    <3>3. AnswersKept'
      BY <1>1, <1>2, <2>4, CallAnswers
    <3>4. AttemptsBounded'
      BY <1>1, <1>2, <2>4, CallAttempts
    <3>5. JobCounted'
      BY <1>1, <1>2, <2>4, <3>1, CallJobs
    <3>6. QED BY <3>2, <3>3, <3>4, <3>5 DEF TallyInv, RecordsInv
  <2>5. ASSUME Crash(p) PROVE TallyInv'
    <3>1. Accounts(p)
      BY <1>1, <1>2, <2>5, CrashAccounts
    <3>2. CountersInv'
      BY <1>2, <3>1, AccountsKeep
    <3>3. RecordsInv'
      BY <1>1, <1>2, <2>5, <3>1, CrashRecords
    <3>4. QED BY <3>2, <3>3 DEF TallyInv
  <2>6. ASSUME Recover(p) PROVE TallyInv'
    <3>1. Accounts(p)
      BY <1>1, <1>2, <2>6, RecoverAccounts
    <3>2. CountersInv'
      BY <1>2, <3>1, AccountsKeep
    <3>3. RecordsInv'
      BY <1>1, <1>2, <2>6, <3>1, RecoverRecords
    <3>4. QED BY <3>2, <3>3 DEF TallyInv
  <2>7. QED BY <1>3, <2>1, <2>2, <2>3, <2>4, <2>5, <2>6 DEF Process
<1>4. CASE UNCHANGED vars
  <2>1. /\ db' = db /\ todo' = todo /\ up' = up /\ crashes' = crashes /\ whole' = whole
    BY <1>4 DEF vars
  <2>2. \A o \in Outcomes : WithStatus({o})' = WithStatus({o})
    BY <2>1 DEF WithStatus
  <2>3. CountersInv'
    BY <1>2, <2>1, <2>2, NothingAccounted
  <2>4. RecordsInv'
    BY <1>2, <2>1, NothingRecorded
  <2>5. QED BY <2>3, <2>4 DEF TallyInv
<1>5. QED BY <1>3, <1>4 DEF Next

\* The counters are within the bounds the storage gives them.
LEMMA StorageBounded ==
  ASSUME Inv, TallyInv
  PROVE  TypeOK
<1>1. RecoveryType /\ db \in StorageType
  BY DEF Inv, RecoveryType
<1>2. TaskCount \in Nat \ {0} /\ MaxCount = TaskCount * TaskCount /\ MaxCount \in Nat /\ TaskCount <= MaxCount
  <2>1. TaskCount \in Nat \ {0}
    BY TaskCountType
  <2>2. MaxCount = TaskCount * TaskCount
    BY DEF MaxCount, TaskCount
  <2>3. \A n \in Nat \ {0} : n * n \in Nat /\ n <= n * n
    OBVIOUS
  <2>4. QED BY <2>1, <2>2, <2>3
<1>3. ASSUME NEW o \in Outcomes PROVE db.tally[o] \in 0..MaxCount
  <2>1. db.tally[o] \in Nat
    BY <1>1 DEF StorageType
  <2>2. CASE o # "BLOCKED"
    <3>1. db.tally[o] + Owed(o) <= Number(o)
      BY <2>2 DEF TallyInv, CountersInv, Balanced
    <3>2. Owed(o) \in Nat /\ Number(o) \in Nat /\ Number(o) <= TaskCount
      BY OwedTypes, NumberType
    <3>3. QED BY <1>2, <2>1, <3>1, <3>2
  <2>3. CASE o = "BLOCKED"
    <3>1. db.tally[o] + Spread <= TaskCount * Number("FAILED")
      BY <2>3 DEF TallyInv, CountersInv, BlockedBalanced
    <3>2. Spread \in Nat /\ Number("FAILED") \in Nat /\ Number("FAILED") <= TaskCount
      BY OwedTypes, NumberType
    <3>3. \A n, m \in Nat : m <= n => n * m \in Nat /\ n * m <= n * n
      OBVIOUS
    <3>4. TaskCount * Number("FAILED") <= MaxCount /\ TaskCount * Number("FAILED") \in Nat
      BY <1>2, <3>2, <3>3
    <3>5. QED BY <1>2, <2>1, <3>1, <3>2, <3>4
  <2>4. QED BY <2>2, <2>3
<1>4. ASSUME NEW t \in Tasks PROVE db.attempts[t] \in 0..(MaxAttempts + MaxCrashes)
  <2>1. db.attempts[t] \in Nat /\ crashes \in 0..MaxCrashes /\ MaxAttempts \in Nat /\ MaxCrashes \in Nat
    BY <1>1, RecoveryConstants DEF RecoveryType, StorageType
  <2>2. db.attempts[t] <= MaxAttempts + crashes
    BY DEF TallyInv, RecordsInv, AttemptsBounded
  <2>3. QED BY <2>1, <2>2
<1>5. ASSUME NEW t \in Tasks PROVE db.unmetDeps[t] \in Nat
  <2>1. db.unmetDeps[t] \in Int
    BY <1>1 DEF StorageType
  <2>2. db.unmetDeps[t] >= Cardinality(Unsatisfied(t)) + Cardinality(Tellers(t))
    BY DEF Inv, UnmetCounted
  <2>3. Cardinality(Unsatisfied(t)) \in Nat /\ Cardinality(Tellers(t)) \in Nat
    <3>1. Unsatisfied(t) \subseteq Tasks /\ Tellers(t) \subseteq Processes
      BY DepsAreTasks DEF Unsatisfied, Tellers
    <3>2. IsFiniteSet(Unsatisfied(t)) /\ IsFiniteSet(Tellers(t))
      BY <3>1, RecoveryConstants, FS_Subset
    <3>3. QED BY <3>2, FS_CardinalityType
  <2>4. QED BY <2>1, <2>2, <2>3
<1>6. ASSUME NEW v \in Verdicts PROVE db.jobTally[v] \in 0..1
  <2>1. db.jobTally["COMPLETED"] \in Nat /\ db.jobTally["COMPLETED_WITH_FAILURES"] \in Nat
    BY <1>1 DEF StorageType, Verdicts
  <2>2. OwedJobs \in Nat
    BY OwedTypes
  <2>3. db.jobTally["COMPLETED"] + db.jobTally["COMPLETED_WITH_FAILURES"] + OwedJobs <= 1
    <3>1. (IF db.counted THEN 1 ELSE 0) \in 0..1
      OBVIOUS
    <3>2. db.jobTally["COMPLETED"] + db.jobTally["COMPLETED_WITH_FAILURES"] + OwedJobs \in Nat
      BY <2>1, <2>2
    <3>3. QED BY <3>1, <3>2 DEF TallyInv, RecordsInv, JobCounted
  <2>4. db.jobTally["COMPLETED"] \in 0..1 /\ db.jobTally["COMPLETED_WITH_FAILURES"] \in 0..1
    BY <2>1, <2>2, <2>3
  <2>5. QED BY <2>4 DEF Verdicts
<1>7. db \in Storage
  <2>1. /\ db.tally \in [Outcomes -> 0..MaxCount]
        /\ db.attempts \in [Tasks -> 0..(MaxAttempts + MaxCrashes)]
        /\ db.unmetDeps \in [Tasks -> Nat]
        /\ db.jobTally \in [Verdicts -> 0..1]
    BY <1>1, <1>3, <1>4, <1>5, <1>6 DEF StorageType
  <2>2. QED BY <1>1, <2>1 DEF StorageType, Storage
<1>8. QED BY <1>1, <1>7 DEF TypeOK, RecoveryType

\* A completed task has its answer, and whenever no handler is running the counters of
\* the interview agree with the statuses, for any tasks, processes and crashes; tasks
\* are counted as blocked more than once only where failures met.
THEOREM TalliesAgree == Spec => []TalliesRecovered
<1>1. Init => TallyInv
  BY InitTallies
<1>2. Inv /\ TallyInv /\ [Next]_vars => TallyInv'
  BY NextTallies
<1>3. Inv /\ TallyInv => TalliesRecovered
  <2>1. SUFFICES ASSUME Inv, TallyInv PROVE TalliesRecovered
    OBVIOUS
  <2>2. TypeOK
    BY <2>1, StorageBounded
  <2>3. WithStatus({"COMPLETED"}) \subseteq db.answers
    BY <2>1 DEF TallyInv, RecordsInv, AnswersKept
  <2>4. ASSUME Quiet, NEW o \in Outcomes
        PROVE  \/ db.tally[o] = Cardinality(WithStatus({o}))
               \/ /\ o = "BLOCKED" /\ db.tally[o] > Cardinality(WithStatus({o}))
                  /\ Cardinality(WithStatus({"FAILED"})) > 1
    <3>1. \A p \in Processes : todo[p] = <<>>
      BY <2>1, <2>4 DEF Quiet, Idle, Inv, RecoveryType
    <3>2. whole /\ Owed(o) = 0 /\ ~Rewritten(o)
      BY <2>4, <3>1, QuietOwes DEF Quiet
    <3>3. /\ db.tally[o] \in Nat /\ Number(o) \in Nat /\ Number("FAILED") \in Nat
          /\ Number(o) = Cardinality(WithStatus({o})) /\ Number("FAILED") = Cardinality(WithStatus({"FAILED"}))
      BY <2>1, NumberType DEF Inv, RecoveryType, StorageType, Number
    <3>4. CASE o # "BLOCKED"
      <4>1. db.tally[o] + Owed(o) = Number(o)
        BY <2>1, <3>2, <3>4 DEF TallyInv, CountersInv, Balanced
      <4>2. QED BY <3>2, <3>3, <4>1
    <3>5. CASE o = "BLOCKED"
      <4>1. /\ Number(o) <= db.tally[o] + Owed(o)
            /\ Number("FAILED") <= 1 => Number(o) = db.tally[o] + Owed(o)
        BY <2>1, <3>2, <3>5 DEF TallyInv, CountersInv, BlockedBalanced
      <4>2. QED BY <3>2, <3>3, <3>5, <4>1
    <3>6. QED BY <3>4, <3>5
  <2>5. QED BY <2>2, <2>3, <2>4 DEF TalliesRecovered
<1>4. QED BY <1>1, <1>2, <1>3, RecoveryInvariant, PTL DEF Spec
-----------------------------------------------------------------------------
(***************************************************************************)
(* The last one out.  As long as no process has died, what is not yet done *)
(* is in the calls of a process that runs.                                 *)
(***************************************************************************)

\* After a call of A comes one of B.
Followed(L, A, B) ==
  \A i \in 1..Len(L) : L[i].op \in A => \E j \in 1..Len(L) : i < j /\ L[j].op \in B

\* Who is satisfied tells all dependents; who is made ready is put into the ready set.
TellsAll(L) ==
  \A i \in 1..Len(L) : Satisfies(L[i]) =>
    \A d \in Dependents(L[i].task) : \E j \in 1..Len(L) : L[j].op = "decrement" /\ L[j].task = d
ReadyFollows(L) ==
  \A i \in 1..Len(L) : L[i].op = "status" /\ L[i].to = "READY" =>
    \E j \in 1..Len(L) : i < j /\ L[j].op = "ready" /\ L[j].task = L[i].task

\* Calls that no recovery makes.
Running(w) ==
  /\ w.op \notin {"counter", "requeue"}
  /\ w.op = "status" => w.to \in Outcomes \cup {"READY"}
  /\ w.op \in {"interview", "setJob"} => w.to \in Verdicts

Closing(L) ==
  /\ TellsAll(L) /\ ReadyFollows(L)
  /\ Followed(L, {"increment"}, {"finalize"})
  /\ Followed(L, {"propagate", "finalize", "interview"}, {"mark"})
  /\ Followed(L, {"job"}, {"finalizeJob"})
  /\ \A i \in 1..Len(L) : Running(L[i])

Unbroken == whole /\ up # {} /\ \A x \in Processes : Closing(todo[x])

\* The counter of a task is no more than what is still to be decremented from it.
UnmetExact ==
  \A t \in Tasks : db.unmetDeps[t] <= Cardinality(Unsatisfied(t)) + Cardinality(Tellers(t))

\* A task that is not done waits for another, or is somewhere.
Placed ==
  \A t \in Tasks :
    \/ db.status[t] \in Outcomes
    \/ db.status[t] = "PENDING" /\ db.unmetDeps[t] > 0
    \/ t \in db.ready
    \/ \E x \in Processes : Has(x, t)

\* A call of A is still to be made.
Due(A) == \E x \in Processes : \E i \in 1..Len(todo[x]) : todo[x][i].op \in A

\* What is left undone on the way to a final job is still to be done by someone.
LastOne ==
  /\ IsDone => db.interview # "RUNNING" \/ Due({"finalize", "interview"})
  /\ db.interview # "RUNNING" => db.counted \/ Due({"mark", "count"})
  /\ db.counted => \/ db.job # "RUNNING" \/ Due({"job", "setJob"})
                   \/ /\ (\E v \in Verdicts : db.jobTally[v] > 0)
                      /\ Due({"finalizeJob"})

\* The verdicts given, or about to be.
Says(w, v) ==
  \/ w.op \in {"interview", "setJob"} /\ w.to = v
  \/ w.op \in {"count", "job"} /\ w.as = v
Given(v) ==
  \/ db.interview = v \/ db.job = v \/ db.jobTally[v] > 0
  \/ \E x \in Processes : \E i \in 1..Len(todo[x]) : Says(todo[x][i], v)

\* Unless failures met they are given when all tasks have their outcome, and are right.
VerdictFits ==
  Number("FAILED") <= 1 =>
    \A v \in Verdicts : Given(v) =>
      WithStatus(Outcomes) = Tasks /\ (v = "COMPLETED" <=> WithStatus({"FAILED"}) = {})

LastInv == crashes = 0 => Unbroken /\ UnmetExact /\ Placed /\ LastOne /\ VerdictFits

-----------------------------------------------------------------------------

\* What follows a call, and what it found.
Sequel(w, F) ==
  \/ F = <<>>
  \/ w.op = "decrement" /\ F = PairOf(w.task)
  \/ /\ w.op = "propagate"
     /\ \E S \in SUBSET Tasks : F = <<Block(S), Increment("BLOCKED", Cardinality(S)), Finalize>>
  \/ w.op = "finalize" /\ IsDone /\ F = <<SetInterview(Verdict)>>
  \/ w.op = "mark" /\ db.interview # "RUNNING" /\ F = <<CountInterview(db.interview)>>
  \/ w.op = "count" /\ ~db.counted /\ F = <<IncrementJob(w.as), FinalizeJob>>
  \/ w.op = "finalizeJob" /\ (\E v \in Verdicts : db.jobTally[v] > 0) /\ F = <<SetJob(JobVerdict)>>

LEMMA FollowingIsSequel ==
  ASSUME NEW w \in Calls, Running(w)
  PROVE  Sequel(w, Following(w))
<1> DEFINE F == Following(w)
<1>1. CASE w.op = "propagate" /\ NewlyBlocked(w.task) # {}
  <2>1. F = <<Block(NewlyBlocked(w.task)), Increment("BLOCKED", Cardinality(NewlyBlocked(w.task))), Finalize>>
    BY <1>1 DEF Following
  <2>2. NewlyBlocked(w.task) \in SUBSET Tasks
    BY DEF NewlyBlocked
  <2>3. QED BY <1>1, <2>1, <2>2 DEF Sequel
<1>2. CASE w.op \notin {"decrement", "requeue", "propagate", "finalize", "mark", "count", "finalizeJob"}
           \/ (w.op = "propagate" /\ NewlyBlocked(w.task) = {})
  <2>1. F = <<>>
    BY <1>2 DEF Following
  <2>2. QED BY <2>1 DEF Sequel
<1>3. CASE w.op = "decrement"
  <2>1. F \in {PairOf(w.task), <<>>}
    BY <1>3 DEF Following, PairOf
  <2>2. QED BY <1>3, <2>1 DEF Sequel
<1>4. CASE w.op = "finalize"
  <2>1. F = IF IsDone THEN <<SetInterview(Verdict)>> ELSE <<>>
    BY <1>4 DEF Following
  <2>2. QED BY <1>4, <2>1 DEF Sequel
<1>5. CASE w.op = "mark"
  <2>1. F = IF db.interview # "RUNNING" THEN <<CountInterview(db.interview)>> ELSE <<>>
    BY <1>5 DEF Following
  <2>2. QED BY <1>5, <2>1 DEF Sequel
<1>6. CASE w.op = "finalizeJob"
  <2>1. F = IF \E v \in Verdicts : db.jobTally[v] > 0 THEN <<SetJob(JobVerdict)>> ELSE <<>>
    BY <1>6 DEF Following
  <2>2. QED BY <1>6, <2>1 DEF Sequel
<1>7. CASE w.op = "count"
  <2>1. F = IF db.counted THEN <<>> ELSE <<IncrementJob(w.as), FinalizeJob>>
    BY <1>7 DEF Following, CountOnce
  <2>2. QED BY <1>7, <2>1 DEF Sequel
<1>8. w.op # "requeue"
  BY DEF Running
<1>9. QED BY <1>1, <1>2, <1>3, <1>4, <1>5, <1>6, <1>7, <1>8

\* The same, call by call.
LEMMA SequelCalls ==
  ASSUME NEW w \in Calls, NEW F, Sequel(w, F), NEW i \in 1..Len(F)
  PROVE  \/ /\ w.op = "decrement" /\ F[i].task = w.task
            /\ \/ /\ i = 1 /\ F[i].op = "status" /\ F[i].to = "READY"
                  /\ 2 \in 1..Len(F) /\ F[2].op = "ready" /\ F[2].task = w.task
               \/ i = 2 /\ F[i].op = "ready"
         \/ /\ w.op = "propagate"
            /\ \/ F[i].op \in {"block", "finalize"}
               \/ F[i].op = "increment" /\ i = 2 /\ 3 \in 1..Len(F) /\ F[3].op = "finalize"
         \/ w.op = "finalize" /\ IsDone /\ F[i].op = "interview" /\ F[i].to = Verdict
         \/ w.op = "mark" /\ db.interview # "RUNNING" /\ F[i].op = "count" /\ F[i].as = db.interview
         \/ /\ w.op = "count"
            /\ \/ /\ i = 1 /\ F[i].op = "job" /\ F[i].as = w.as
                  /\ 2 \in 1..Len(F) /\ F[2].op = "finalizeJob"
               \/ F[i].op = "finalizeJob"
         \/ /\ w.op = "finalizeJob" /\ F[i].op = "setJob" /\ F[i].to = JobVerdict
            /\ \E v \in Verdicts : db.jobTally[v] > 0
<1>1. F # <<>>
  OBVIOUS
<1>2. CASE w.op = "decrement" /\ F = PairOf(w.task)
  BY <1>2 DEF PairOf, SetStatus, AddToReady
<1>3. CASE /\ w.op = "propagate"
           /\ \E S \in SUBSET Tasks : F = <<Block(S), Increment("BLOCKED", Cardinality(S)), Finalize>>
  BY <1>3 DEF Block, Increment, Finalize
<1>4. CASE w.op = "finalize" /\ IsDone /\ F = <<SetInterview(Verdict)>>
  BY <1>4 DEF SetInterview
<1>5. CASE w.op = "mark" /\ db.interview # "RUNNING" /\ F = <<CountInterview(db.interview)>>
  BY <1>5 DEF CountInterview
<1>6. CASE w.op = "count" /\ ~db.counted /\ F = <<IncrementJob(w.as), FinalizeJob>>
  BY <1>6 DEF IncrementJob, FinalizeJob
<1>7. CASE w.op = "finalizeJob" /\ (\E v \in Verdicts : db.jobTally[v] > 0) /\ F = <<SetJob(JobVerdict)>>
  BY <1>7 DEF SetJob
<1>8. QED BY <1>1, <1>2, <1>3, <1>4, <1>5, <1>6, <1>7 DEF Sequel

LEMMA FollowedLeft ==
  ASSUME NEW L, NEW F, NEW N, Left(L, F, N), NEW A, NEW B, Followed(L, A, B),
         \A i \in 1..Len(F) : F[i].op \in A =>
           L[1].op \in A \/ \E j \in 1..Len(F) : i < j /\ F[j].op \in B
  PROVE  Followed(N, A, B)
<1>1. Moved(L, F, N)
  BY CallsMove
<1>2. SUFFICES ASSUME NEW i \in 1..Len(N), N[i].op \in A
               PROVE  \E j \in 1..Len(N) : i < j /\ N[j].op \in B
  BY DEF Followed
<1>3. Len(L) \in Nat \ {0} /\ Len(F) \in Nat /\ 1 \in 1..Len(L) /\ i \in Int
  BY <1>1 DEF Moved
<1>4. \A m \in 1..Len(L) : L[m].op \in A /\ i <= m + Len(F) - 1 =>
        \E j \in 1..Len(N) : i < j /\ N[j].op \in B
  <2>1. SUFFICES ASSUME NEW m \in 1..Len(L), L[m].op \in A, i <= m + Len(F) - 1
                 PROVE  \E j \in 1..Len(N) : i < j /\ N[j].op \in B
    OBVIOUS
  <2>2. PICK x \in 1..Len(L) : m < x /\ L[x].op \in B
    BY <2>1 DEF Followed
  <2>3. x \in 2..Len(L) /\ i < x + Len(F) - 1
    BY <1>3, <2>1, <2>2
  <2>4. x + Len(F) - 1 \in 1..Len(N) /\ N[x + Len(F) - 1] = L[x]
    BY <1>1, <2>3 DEF Moved
  <2>5. QED BY <2>2, <2>3, <2>4
<1>5. CASE i \in 1..Len(F)
  <2>1. N[i] = F[i] /\ i <= 1 + Len(F) - 1
    BY <1>1, <1>3, <1>5 DEF Moved
  <2>2. CASE L[1].op \in A
    BY <1>3, <1>4, <2>1, <2>2
  <2>3. CASE \E j \in 1..Len(F) : i < j /\ F[j].op \in B
    <3>1. PICK j \in 1..Len(F) : i < j /\ F[j].op \in B
      BY <2>3
    <3>2. j \in 1..Len(N) /\ N[j] = F[j]
      BY <1>1 DEF Moved
    <3>3. QED BY <3>1, <3>2
  <2>4. QED BY <1>2, <1>5, <2>1, <2>2, <2>3
<1>6. CASE i \notin 1..Len(F)
  <2>1. PICK m \in 2..Len(L) : m \in 1..Len(L) /\ N[i] = L[m] /\ i = m + Len(F) - 1
    BY <1>1, <1>6 DEF Moved
  <2>2. m + Len(F) - 1 \in Int
    BY <1>3
  <2>3. QED BY <1>2, <1>4, <2>1, <2>2
<1>7. QED BY <1>5, <1>6

\* What is to come after a call still comes after another was made.
LEMMA ClosingLeft ==
  ASSUME NEW L, NEW F, NEW N, Left(L, F, N), Shape(L), Closing(L), NEW w, w = L[1], w \in Calls, Sequel(w, F)
  PROVE  Closing(N)
<1>1. Moved(L, F, N)
  BY CallsMove
<1>2. Len(L) \in Nat \ {0} /\ Len(F) \in Nat /\ 1 \in 1..Len(L)
  BY <1>1 DEF Moved
<1>3. \A m \in 2..Len(L) : m + Len(F) - 1 \in 1..Len(N) /\ N[m + Len(F) - 1] = L[m]
  BY <1>1 DEF Moved
<1>4. \A i \in 1..Len(N) : i \notin 1..Len(F) =>
        \E m \in 2..Len(L) : m \in 1..Len(L) /\ N[i] = L[m] /\ i = m + Len(F) - 1
  BY <1>1 DEF Moved
<1>5. \A i \in 1..Len(F) : i \in 1..Len(N) /\ N[i] = F[i]
  BY <1>1 DEF Moved
<1>6. \A i \in 1..Len(F) : ~Satisfies(F[i])
  <2>1. TAKE i \in 1..Len(F)
  <2>2. F[i].op = "status" => F[i].to = "READY"
    BY SequelCalls
  <2>3. QED BY <2>2 DEF Satisfies, Satisfied
<1>7. TellsAll(N)
  <2>1. SUFFICES ASSUME NEW i \in 1..Len(N), Satisfies(N[i]), NEW d \in Dependents(N[i].task)
                 PROVE  \E j \in 1..Len(N) : N[j].op = "decrement" /\ N[j].task = d
    BY DEF TellsAll
  <2>2. PICK m \in 2..Len(L) : m \in 1..Len(L) /\ N[i] = L[m]
    BY <1>4, <1>5, <1>6, <2>1
  <2>3. PICK x \in 1..Len(L) : L[x].op = "decrement" /\ L[x].task = d
    BY <2>1, <2>2 DEF Closing, TellsAll
  <2>4. m < x
    BY <2>1, <2>2, <2>3 DEF Shape, ToldAfterStatus
  <2>5. x \in 2..Len(L)
    BY <1>2, <2>3, <2>4
  <2>6. QED BY <1>3, <2>3, <2>5
<1>8. ReadyFollows(N)
  <2>1. SUFFICES ASSUME NEW i \in 1..Len(N), N[i].op = "status", N[i].to = "READY"
                 PROVE  \E j \in 1..Len(N) : i < j /\ N[j].op = "ready" /\ N[j].task = N[i].task
    BY DEF ReadyFollows
  <2>2. CASE i \in 1..Len(F)
    <3>1. i = 1 /\ F[i].task = w.task /\ 2 \in 1..Len(F) /\ F[2].op = "ready" /\ F[2].task = w.task
      BY <1>5, <2>1, <2>2, SequelCalls
    <3>2. QED BY <1>5, <2>2, <3>1
  <2>3. CASE i \notin 1..Len(F)
    <3>1. PICK m \in 2..Len(L) : m \in 1..Len(L) /\ N[i] = L[m] /\ i = m + Len(F) - 1
      BY <1>4, <2>3
    <3>2. PICK x \in 1..Len(L) : m < x /\ L[x].op = "ready" /\ L[x].task = L[m].task
      BY <2>1, <3>1 DEF Closing, ReadyFollows
    <3>3. x \in 2..Len(L) /\ i < x + Len(F) - 1
      BY <1>2, <3>1, <3>2
    <3>4. QED BY <1>3, <3>1, <3>2, <3>3
  <2>4. QED BY <2>2, <2>3
<1>9. Followed(N, {"increment"}, {"finalize"})
  <2>1. \A i \in 1..Len(F) : F[i].op = "increment" => i = 2 /\ 3 \in 1..Len(F) /\ F[3].op = "finalize"
    BY SequelCalls
  <2>2. \A i \in 1..Len(F) : F[i].op \in {"increment"} =>
          L[1].op \in {"increment"} \/ \E j \in 1..Len(F) : i < j /\ F[j].op \in {"finalize"}
    BY <2>1
  <2>3. QED BY <2>2, FollowedLeft DEF Closing
<1>10. Followed(N, {"propagate", "finalize", "interview"}, {"mark"})
  <2>1. \A i \in 1..Len(F) : F[i].op \in {"propagate", "finalize", "interview"} =>
          w.op \in {"propagate", "finalize", "interview"}
    BY SequelCalls
  <2>2. QED BY <2>1, FollowedLeft DEF Closing
<1>11. Followed(N, {"job"}, {"finalizeJob"})
  <2>1. \A i \in 1..Len(F) : F[i].op = "job" => i = 1 /\ 2 \in 1..Len(F) /\ F[2].op = "finalizeJob"
    BY SequelCalls
  <2>2. \A i \in 1..Len(F) : F[i].op \in {"job"} =>
          L[1].op \in {"job"} \/ \E j \in 1..Len(F) : i < j /\ F[j].op \in {"finalizeJob"}
    BY <2>1
  <2>3. QED BY <2>2, FollowedLeft DEF Closing
<1>12. \A i \in 1..Len(N) : Running(N[i])
  <2>1. \A i \in 1..Len(F) : Running(F[i])
    <3>1. TAKE i \in 1..Len(F)
    <3>2. Verdict \in Verdicts /\ JobVerdict \in Verdicts
      BY DEF Verdict, JobVerdict, Verdicts
    <3>3. /\ F[i].op \notin {"counter", "requeue"} /\ (F[i].op = "status" => F[i].to = "READY")
          /\ F[i].op \in {"interview", "setJob"} => F[i].to \in {Verdict, JobVerdict}
      BY SequelCalls
    <3>4. QED BY <3>2, <3>3 DEF Running
  <2>2. QED BY <1>4, <1>5, <2>1 DEF Closing
<1>13. QED BY <1>7, <1>8, <1>9, <1>10, <1>11, <1>12 DEF Closing

-----------------------------------------------------------------------------
(***************************************************************************)
(* A handler that starts.                                                  *)
(***************************************************************************)

\* It has given no verdict.
NoVerdict(L) == \A i \in 1..Len(L) : L[i].op \notin {"interview", "setJob", "count", "job"}

LEMMA OutcomeCloses ==
  ASSUME NEW t \in Tasks, NEW o \in Satisfied,
         NEW A \in {<<SetStatus(t, o)>>, <<StoreAnswer(t), SetStatus(t, o)>>},
         NEW L, L = A \o NotifyDependents(t) \o MarkTask(o)
  PROVE  Closing(L) /\ NoVerdict(L) /\ t \in Owned(L)
<1>1. PICK b \in Nat : OutcomeCalls(L, t, o, Len(A), b)
  BY OutcomeListed
<1> DEFINE a == Len(A)
           D == NotifyDependents(t)
<1>2. /\ a \in {1, 2} /\ Len(L) = b + 3 /\ b = a + Len(D)
      /\ \A i \in 1..Len(L) : i \in Int /\
           \/ i = a /\ L[i].op = "status" /\ L[i].task = t /\ L[i].to = o
           \/ i < a /\ L[i].op = "answer" /\ L[i].task = t
           \/ a < i /\ i <= b /\ L[i].op = "decrement" /\ i - a \in 1..Len(D) /\ L[i] = D[i - a]
           \/ i = b + 1 /\ L[i].op = "increment" /\ L[i].outcome = o /\ L[i].by = 1
           \/ i = b + 2 /\ L[i].op = "finalize"
           \/ i = b + 3 /\ L[i].op = "mark"
  BY <1>1 DEF OutcomeCalls
<1>3. D \in Seq(Calls) /\ Len(D) \in Nat /\ \A d \in Dependents(t) : \E i \in 1..Len(D) : D[i].task = d
  BY DependentsTold, LenProperties
<1> HIDE DEF a, D
<1>4. a \in 1..Len(L) /\ b + 2 \in 1..Len(L) /\ b + 3 \in 1..Len(L) /\ b + 1 < b + 2 /\ b + 2 < b + 3
  BY <1>2, <1>3
<1>5. /\ L[a].op = "status" /\ L[a].task = t /\ L[a].to = o
      /\ L[b + 2].op = "finalize" /\ L[b + 3].op = "mark"
  <2>1. a # b + 1 /\ a # b + 2 /\ a # b + 3
    BY <1>2, <1>3
  <2>2. b + 2 # a /\ ~(b + 2 < a) /\ ~(b + 2 <= b) /\ b + 2 # b + 1 /\ b + 2 # b + 3
    BY <1>2, <1>3
  <2>3. b + 3 # a /\ ~(b + 3 < a) /\ ~(b + 3 <= b) /\ b + 3 # b + 1 /\ b + 3 # b + 2
    BY <1>2, <1>3
  <2>4. ~(a < a)
    BY <1>2
  <2>5. L[a].op = "status" /\ L[a].task = t /\ L[a].to = o
    BY <1>2, <1>4, <2>1, <2>4
  <2>6. L[b + 2].op = "finalize"
    BY <1>2, <1>4, <2>2
  <2>7. L[b + 3].op = "mark"
    BY <1>2, <1>4, <2>3
  <2>8. QED BY <2>5, <2>6, <2>7
<1>6. \A i \in 1..Len(L) : /\ L[i].op \in {"status", "answer", "decrement", "increment", "finalize", "mark"}
                           /\ L[i].op = "status" => i = a
                           /\ L[i].op = "increment" => i = b + 1
                           /\ L[i].op = "finalize" => i = b + 2
  BY <1>2
<1>7. o \in Outcomes /\ o \notin {"READY", "PENDING"}
  BY DEF Satisfied, Outcomes
<1>8. TellsAll(L)
  <2>1. SUFFICES ASSUME NEW i \in 1..Len(L), Satisfies(L[i]), NEW d \in Dependents(L[i].task)
                 PROVE  \E j \in 1..Len(L) : L[j].op = "decrement" /\ L[j].task = d
    BY DEF TellsAll
  <2>2. d \in Dependents(t)
    BY <1>5, <1>6, <2>1 DEF Satisfies
  <2>3. PICK x \in 1..Len(D) : D[x].task = d
    BY <1>3, <2>2
  <2>4. x + a \in 1..Len(L) /\ x + a \in Int /\ ~(x + a <= a) /\ x + a <= b /\ (x + a) - a = x
    BY <1>2, <1>3
  <2>5. x + a # a /\ ~(x + a < a) /\ x + a # b + 1 /\ x + a # b + 2 /\ x + a # b + 3
    BY <1>2, <1>3, <2>4
  <2>6. L[x + a].op = "decrement" /\ L[x + a] = D[(x + a) - a]
    BY <1>2, <2>4, <2>5
  <2>7. QED BY <2>3, <2>4, <2>6
<1>9. ReadyFollows(L)
  <2>1. L[a].to # "READY"
    BY <1>5, <1>7
  <2>2. \A i \in 1..Len(L) : L[i].op = "status" => L[i].to # "READY"
    BY <1>6, <2>1
  <2>3. QED BY <2>2 DEF ReadyFollows
<1>10. Followed(L, {"increment"}, {"finalize"})
  BY <1>4, <1>5, <1>6 DEF Followed
<1>11. Followed(L, {"propagate", "finalize", "interview"}, {"mark"})
  BY <1>4, <1>5, <1>6 DEF Followed
<1>12. Followed(L, {"job"}, {"finalizeJob"})
  BY <1>6 DEF Followed
<1>13. \A i \in 1..Len(L) : Running(L[i])
  BY <1>5, <1>6, <1>7 DEF Running
<1>14. NoVerdict(L)
  BY <1>6 DEF NoVerdict
<1>15. t \in Owned(L)
  BY <1>4, <1>5 DEF Owned, OwnOps
<1>16. QED BY <1>8, <1>9, <1>10, <1>11, <1>12, <1>13, <1>14, <1>15 DEF Closing

LEMMA FailureCloses ==
  ASSUME NEW t \in Tasks, NEW L,
         \/ L = <<CountAttempt(t)>> \o <<SetStatus(t, "READY"), AddToReady(t)>>
         \/ L = <<CountAttempt(t)>> \o (<<SetStatus(t, "FAILED"), Propagate(t)>> \o MarkTask("FAILED"))
  PROVE  Closing(L) /\ NoVerdict(L) /\ t \in Owned(L)
<1> DEFINE R == <<CountAttempt(t), SetStatus(t, "READY"), AddToReady(t)>>
           X == <<CountAttempt(t), SetStatus(t, "FAILED"), Propagate(t), Increment("FAILED", 1), Finalize, MarkInterview>>
<1>0. \A s \in Status \ {"BLOCKED"} : SetStatus(t, s) \in Calls
  BY CallsMade
<1>1. SetStatus(t, "READY") \in Calls /\ SetStatus(t, "FAILED") \in Calls
  BY <1>0 DEF Status, Outcomes
<1>2. CountAttempt(t) \in Calls /\ AddToReady(t) \in Calls /\ Propagate(t) \in Calls
      /\ Increment("FAILED", 1) \in Calls /\ Finalize \in Calls /\ MarkInterview \in Calls
  BY CallsMade DEF Outcomes
<1>3. <<CountAttempt(t)>> \o <<SetStatus(t, "READY"), AddToReady(t)>> = R
  BY <1>1, <1>2, ThreeCalls
<1>4. <<CountAttempt(t)>> \o (<<SetStatus(t, "FAILED"), Propagate(t)>> \o MarkTask("FAILED")) = X
  BY <1>1, <1>2, SixCalls DEF MarkTask
<1>5. Len(R) = 3 /\ R[1].op = "attempt" /\ R[2].op = "status" /\ R[2].task = t
      /\ R[2].to = "READY" /\ R[3].op = "ready" /\ R[3].task = t
  BY DEF CountAttempt, SetStatus, AddToReady
<1>6. Len(X) = 6 /\ X[1].op = "attempt" /\ X[2].op = "status" /\ X[2].task = t
      /\ X[2].to = "FAILED" /\ X[3].op = "propagate" /\ X[4].op = "increment"
      /\ X[5].op = "finalize" /\ X[6].op = "mark"
  BY DEF CountAttempt, SetStatus, Propagate, Increment, Finalize, MarkInterview
<1>7. L = R \/ L = X
  BY <1>3, <1>4
<1> HIDE DEF R, X
<1>8. CASE L = R
  <2>0. Len(L) = 3
    BY <1>5, <1>8, Zenon
  <2>1. (\A i \in 1..Len(L) : i \in {1, 2, 3}) /\ 2 \in 1..Len(L) /\ 3 \in 1..Len(L)
    BY <2>0
  <2>2. /\ \A i \in 1..Len(L) : /\ L[i].op \in {"attempt", "status", "ready"}
                                /\ L[i].op = "status" => i = 2
        /\ L[2].op = "status" /\ L[2].to = "READY" /\ L[2].task = t /\ L[3].op = "ready" /\ L[3].task = t
    BY <1>5, <1>8, <2>1
  <2>3. TellsAll(L)
    BY <2>2 DEF TellsAll, Satisfies, Satisfied
  <2>4. ReadyFollows(L)
    BY <2>1, <2>2 DEF ReadyFollows
  <2>5. \A i \in 1..Len(L) : Running(L[i])
    BY <2>2 DEF Running
  <2>6. NoVerdict(L)
    BY <2>2 DEF NoVerdict
  <2>7. t \in Owned(L)
    BY <2>1, <2>2 DEF Owned, OwnOps
  <2>8. QED BY <2>2, <2>3, <2>4, <2>5, <2>6, <2>7 DEF Closing, Followed
<1>9. CASE L = X
  <2>0. Len(L) = 6
    BY <1>6, <1>9, Zenon
  <2>1. (\A i \in 1..Len(L) : i \in {1, 2, 3, 4, 5, 6}) /\ 2 \in 1..Len(L) /\ 5 \in 1..Len(L) /\ 6 \in 1..Len(L)
    BY <2>0
  <2>2. /\ \A i \in 1..Len(L) : /\ L[i].op \in {"attempt", "status", "propagate", "increment", "finalize", "mark"}
                                /\ L[i].op = "status" => i = 2
                                /\ L[i].op = "propagate" => i = 3
                                /\ L[i].op = "increment" => i = 4
                                /\ L[i].op = "finalize" => i = 5
        /\ L[2].op = "status" /\ L[2].to = "FAILED" /\ L[2].task = t
        /\ L[5].op = "finalize" /\ L[6].op = "mark"
    BY <1>6, <1>9, <2>1
  <2>3. TellsAll(L)
    BY <2>2 DEF TellsAll, Satisfies, Satisfied
  <2>4. ReadyFollows(L)
    BY <2>2 DEF ReadyFollows
  <2>5. \A i \in 1..Len(L) : Running(L[i])
    BY <2>2 DEF Running, Outcomes
  <2>6. NoVerdict(L)
    BY <2>2 DEF NoVerdict
  <2>7. t \in Owned(L)
    BY <2>1, <2>2 DEF Owned, OwnOps
  <2>8. Followed(L, {"increment"}, {"finalize"})
    BY <2>1, <2>2 DEF Followed
  <2>9. Followed(L, {"job"}, {"finalizeJob"})
    BY <2>2 DEF Followed
  <2>10. Followed(L, {"propagate", "finalize", "interview"}, {"mark"})
    <3>1. \A i \in 1..Len(L) : L[i].op \in {"propagate", "finalize", "interview"} => i \in {3, 5}
      BY <2>2
    <3>2. 3 < 6 /\ 5 < 6
      OBVIOUS
    <3>3. QED BY <2>1, <2>2, <3>1, <3>2 DEF Followed
  <2>11. QED BY <2>3, <2>4, <2>5, <2>6, <2>7, <2>8, <2>9, <2>10 DEF Closing
<1>10. QED BY <1>7, <1>8, <1>9

LEMMA ReportCloses ==
  ASSUME NEW p \in Processes, NEW t \in Tasks,
         OnTaskCompleted(p, t) \/ OnTaskSkipped(p, t) \/ OnTaskFailed(p, t)
  PROVE  \E from \in {"RUNNING", "READY"} : \E L :
           Report(p, t, from, L) /\ Closing(L) /\ NoVerdict(L) /\ t \in Owned(L)
<1>1. CASE OnTaskCompleted(p, t)
  <2> DEFINE A == <<StoreAnswer(t), SetStatus(t, "COMPLETED")>>
             L == A \o NotifyDependents(t) \o MarkTask("COMPLETED")
  <2>1. Closing(L) /\ NoVerdict(L) /\ t \in Owned(L)
    <3>1. "COMPLETED" \in Satisfied /\ A \in {<<SetStatus(t, "COMPLETED")>>, <<StoreAnswer(t), SetStatus(t, "COMPLETED")>>}
      BY DEF Satisfied
    <3>2. QED BY <3>1, OutcomeCloses
  <2>2. Report(p, t, "RUNNING", L)
    BY <1>1 DEF OnTaskCompleted
  <2>3. QED BY <2>1, <2>2
<1>2. CASE OnTaskSkipped(p, t)
  <2> DEFINE A == <<SetStatus(t, "SKIPPED")>>
             L == A \o NotifyDependents(t) \o MarkTask("SKIPPED")
  <2>1. Closing(L) /\ NoVerdict(L) /\ t \in Owned(L)
    <3>1. "SKIPPED" \in Satisfied /\ A \in {<<SetStatus(t, "SKIPPED")>>, <<StoreAnswer(t), SetStatus(t, "SKIPPED")>>}
      BY DEF Satisfied
    <3>2. QED BY <3>1, OutcomeCloses
  <2>2. Report(p, t, "READY", L)
    BY <1>2 DEF OnTaskSkipped
  <2>3. QED BY <2>1, <2>2
<1>3. CASE OnTaskFailed(p, t)
  <2> DEFINE R == <<CountAttempt(t)>> \o <<SetStatus(t, "READY"), AddToReady(t)>>
             X == <<CountAttempt(t)>> \o (<<SetStatus(t, "FAILED"), Propagate(t)>> \o MarkTask("FAILED"))
             L == IF db.attempts[t] + 1 < MaxAttempts THEN R ELSE X
  <2>1. L = R \/ L = X
    OBVIOUS
  <2>2. Report(p, t, "RUNNING", L)
    BY <1>3 DEF OnTaskFailed
  <2> HIDE DEF L
  <2>3. Closing(L) /\ NoVerdict(L) /\ t \in Owned(L)
    BY <2>1, FailureCloses
  <2>4. QED BY <2>2, <2>3
<1>4. QED BY <1>1, <1>2, <1>3

-----------------------------------------------------------------------------
(***************************************************************************)
(* What waits is counted, and who does not wait is somewhere.              *)
(***************************************************************************)

\* Who is still told after a call.
LEMMA TellingLeft ==
  ASSUME NEW L, NEW F, NEW N, Left(L, F, N), Shape(L), Closing(L), NEW w, w = L[1], w \in Calls, Sequel(w, F)
  PROVE  /\ \A t \in Telling(L) : t \in Telling(N) \/ (w.op = "decrement" /\ w.task = t)
         /\ Satisfies(w) => Telling(L) = {} /\ \A t \in Dependents(w.task) : t \in Telling(N)
<1>1. Moved(L, F, N)
  BY CallsMove
<1>2. Len(L) \in Nat \ {0} /\ Len(F) \in Nat /\ 1 \in 1..Len(L)
  BY <1>1 DEF Moved
<1>3. \A m \in 2..Len(L) : m + Len(F) - 1 \in 1..Len(N) /\ N[m + Len(F) - 1] = L[m]
  BY <1>1 DEF Moved
<1>4. \A i \in 1..Len(N) : i \notin 1..Len(F) =>
        \E m \in 2..Len(L) : m \in 1..Len(L) /\ N[i] = L[m]
  BY <1>1 DEF Moved
<1>5. \A i \in 1..Len(F) : N[i] = F[i]
  BY <1>1 DEF Moved
<1>6. \A i \in 1..Len(F) : ~Satisfies(F[i])
  <2>1. TAKE i \in 1..Len(F)
  <2>2. F[i].op = "status" => F[i].to = "READY"
    BY SequelCalls
  <2>3. QED BY <2>2 DEF Satisfies, Satisfied
<1>7. \A i \in 1..Len(N) : Satisfies(N[i]) => \E m \in 2..Len(L) : m \in 1..Len(L) /\ Satisfies(L[m])
  BY <1>4, <1>5, <1>6
<1>8. ASSUME NEW t \in Telling(L) PROVE t \in Telling(N) \/ (w.op = "decrement" /\ w.task = t)
  <2>1. PICK i \in 1..Len(L) : L[i].op = "decrement" /\ L[i].task = t
    BY <1>8 DEF Telling
  <2>2. t \in Tasks /\ \A j \in 1..Len(N) : ~Satisfies(N[j])
    BY <1>7, <1>8 DEF Telling
  <2>3. i = 1 \/ i \in 2..Len(L)
    BY <1>2
  <2>4. QED BY <1>3, <2>1, <2>2, <2>3 DEF Telling
<1>9. ASSUME Satisfies(w) PROVE Telling(L) = {} /\ \A t \in Dependents(w.task) : t \in Telling(N)
  <2>1. Telling(L) = {}
    BY <1>2, <1>9 DEF Telling
  <2>2. \A j \in 1..Len(N) : ~Satisfies(N[j])
    <3>1. SUFFICES ASSUME NEW m \in 2..Len(L), m \in 1..Len(L), Satisfies(L[m]) PROVE FALSE
      BY <1>7
    <3>2. m = 1
      BY <1>2, <1>9, <3>1 DEF Shape, SatisfiedOnce
    <3>3. QED BY <3>1, <3>2
  <2>3. ASSUME NEW t \in Dependents(w.task) PROVE t \in Telling(N)
    <3>1. PICK x \in 1..Len(L) : L[x].op = "decrement" /\ L[x].task = t
      BY <1>2, <1>9, <2>3 DEF Closing, TellsAll
    <3>2. 1 < x
      BY <1>2, <1>9, <3>1 DEF Shape, ToldAfterStatus
    <3>3. x \in 2..Len(L) /\ t \in Tasks
      BY <3>1, <3>2 DEF Dependents
    <3>4. QED BY <1>3, <2>2, <3>1, <3>3 DEF Telling
  <2>4. QED BY <2>1, <2>3
<1>10. QED BY <1>8, <1>9

\* A step of p that takes from a counter only what p told, and satisfies a dependency only
\* when p is to tell it.
TellsExactly(p) ==
  \A t \in Tasks :
    \/ /\ db'.unmetDeps[t] = db.unmetDeps[t]
       /\ Unsatisfied(t) \subseteq Unsatisfied(t)' /\ Tellers(t) \subseteq Tellers(t)'
    \/ /\ db'.unmetDeps[t] = db.unmetDeps[t] - 1
       /\ Unsatisfied(t) \subseteq Unsatisfied(t)' /\ Tellers(t) \subseteq Tellers(t)' \cup {p}
    \/ /\ db'.unmetDeps[t] = db.unmetDeps[t]
       /\ \E d : Unsatisfied(t) \subseteq Unsatisfied(t)' \cup {d}
       /\ Tellers(t) \subseteq Tellers(t)' /\ p \in Tellers(t)' \ Tellers(t)

LEMMA SmallerSet ==
  ASSUME NEW S, NEW T, IsFiniteSet(T), IsFiniteSet(S)
  PROVE  /\ Cardinality(S) \in Nat /\ Cardinality(T) \in Nat
         /\ S \subseteq T => Cardinality(S) <= Cardinality(T)
         /\ \A x : S \subseteq T \cup {x} => Cardinality(S) <= Cardinality(T) + 1
         /\ \A x : S \subseteq T /\ x \in T \ S => Cardinality(S) + 1 <= Cardinality(T)
<1>1. Cardinality(S) \in Nat /\ Cardinality(T) \in Nat
  BY FS_CardinalityType
<1>2. S \subseteq T => Cardinality(S) <= Cardinality(T)
  BY FS_Subset
<1>3. ASSUME NEW x, S \subseteq T \cup {x} PROVE Cardinality(S) <= Cardinality(T) + 1
  <2>1. IsFiniteSet(T \cup {x}) /\ Cardinality(T \cup {x}) = IF x \in T THEN Cardinality(T) ELSE Cardinality(T) + 1
    BY FS_AddElement
  <2>2. Cardinality(S) <= Cardinality(T \cup {x})
    BY <1>3, <2>1, FS_Subset
  <2>3. QED BY <1>1, <2>1, <2>2
<1>4. ASSUME NEW x, S \subseteq T, x \in T \ S PROVE Cardinality(S) + 1 <= Cardinality(T)
  <2>1. IsFiniteSet(S \cup {x}) /\ Cardinality(S \cup {x}) = Cardinality(S) + 1
    BY <1>4, FS_AddElement
  <2>2. S \cup {x} \subseteq T
    BY <1>4
  <2>3. Cardinality(S \cup {x}) <= Cardinality(T)
    BY <2>2, FS_Subset
  <2>4. QED BY <2>1, <2>3
<1>5. QED BY <1>1, <1>2, <1>3, <1>4

LEMMA ExactKept ==
  ASSUME Inv, Inv', UnmetExact, NEW p \in Processes, TellsExactly(p)
  PROVE  UnmetExact'
<1>1. SUFFICES ASSUME NEW t \in Tasks
               PROVE  db'.unmetDeps[t] <= Cardinality(Unsatisfied(t))' + Cardinality(Tellers(t))'
  BY DEF UnmetExact
<1> DEFINE U == Unsatisfied(t)
           V == Unsatisfied(t)'
           S == Tellers(t)
           T == Tellers(t)'
<1>2. IsFiniteSet(Deps[t])
  BY FS_Subset, RecoveryConstants
<1>3. U \subseteq Deps[t] /\ V \subseteq Deps[t] /\ S \subseteq Processes /\ T \subseteq Processes
  BY DEF Unsatisfied, Tellers
<1>4. IsFiniteSet(U) /\ IsFiniteSet(V) /\ IsFiniteSet(S) /\ IsFiniteSet(T)
  BY <1>2, <1>3, FS_Subset, RecoveryConstants
<1>5. db.unmetDeps[t] \in Int /\ db.unmetDeps[t] <= Cardinality(U) + Cardinality(S)
  BY DEF UnmetExact, Inv, RecoveryType, StorageType
<1>6. /\ \/ db'.unmetDeps[t] = db.unmetDeps[t] /\ U \subseteq V /\ S \subseteq T
         \/ db'.unmetDeps[t] = db.unmetDeps[t] - 1 /\ U \subseteq V /\ S \subseteq T \cup {p}
         \/ /\ db'.unmetDeps[t] = db.unmetDeps[t]
            /\ \E d : U \subseteq V \cup {d}
            /\ S \subseteq T /\ p \in T \ S
  BY DEF TellsExactly
<1> HIDE DEF U, V, S, T
<1>7. Cardinality(U) \in Nat /\ Cardinality(V) \in Nat /\ Cardinality(S) \in Nat /\ Cardinality(T) \in Nat
  BY <1>4, FS_CardinalityType
<1>8. /\ U \subseteq V => Cardinality(U) <= Cardinality(V)
      /\ (\E d : U \subseteq V \cup {d}) => Cardinality(U) <= Cardinality(V) + 1
      /\ S \subseteq T => Cardinality(S) <= Cardinality(T)
      /\ S \subseteq T \cup {p} => Cardinality(S) <= Cardinality(T) + 1
      /\ S \subseteq T /\ p \in T \ S => Cardinality(S) + 1 <= Cardinality(T)
  BY <1>4, SmallerSet
<1>9. db'.unmetDeps[t] <= Cardinality(V) + Cardinality(T)
  BY <1>5, <1>6, <1>7, <1>8
<1>10. QED BY <1>9 DEF V, T

\* A step that makes no call: what is told, waits and is owned stays as it is.
LEMMA NoCallWaits ==
  ASSUME Inv, Inv', Unbroken, UnmetExact, Placed, NEW p \in Processes,
         db'.unmetDeps = db.unmetDeps, up' = up, whole' = whole,
         \A x \in Tasks : db'.status[x] = db.status[x]
                          \/ {db.status[x], db'.status[x]} \subseteq Claimed \cup {"READY"},
         \A q \in Processes \ {p} : todo'[q] = todo[q],
         Closing(todo'[p]), Telling(todo[p]) \subseteq Telling(todo'[p]),
         \A x \in Tasks : \/ x \in db.ready => x \in db'.ready
                          \/ Has(p, x)',
         \A x \in Tasks : \A q \in Processes : Has(q, x) => Has(q, x)'
  PROVE  Unbroken' /\ UnmetExact' /\ Placed'
<1>1. Unbroken'
  BY DEF Unbroken
<1>2. \A x \in Tasks : Unsatisfied(x) \subseteq Unsatisfied(x)' /\ Tellers(x) \subseteq Tellers(x)'
  <2>1. TAKE x \in Tasks
  <2>2. Unsatisfied(x) \subseteq Unsatisfied(x)'
    <3>1. SUFFICES ASSUME NEW d \in Deps[x], db.status[d] \notin Satisfied
                   PROVE  db'.status[d] \notin Satisfied
      BY DEF Unsatisfied
    <3>2. d \in Tasks
      BY DepsAreTasks
    <3>3. QED BY <3>1, <3>2 DEF Claimed, Satisfied
  <2>3. Tellers(x) \subseteq Tellers(x)'
    BY DEF Tellers
  <2>4. QED BY <2>2, <2>3
<1>3. UnmetExact'
  <2>1. TellsExactly(p)
    BY <1>2 DEF TellsExactly
  <2>2. QED BY <2>1, ExactKept
<1>4. Placed'
  <2>1. SUFFICES ASSUME NEW x \in Tasks
                 PROVE  \/ db'.status[x] \in Outcomes
                        \/ db'.status[x] = "PENDING" /\ db'.unmetDeps[x] > 0
                        \/ x \in db'.ready
                        \/ \E q \in Processes : Has(q, x)'
    BY DEF Placed
  <2>2. CASE db.status[x] \in Outcomes \/ (db.status[x] = "PENDING" /\ db.unmetDeps[x] > 0)
    BY <2>2 DEF Claimed, Outcomes
  <2>3. CASE x \in db.ready \/ \E q \in Processes : Has(q, x)
    BY <2>3
  <2>4. QED BY <2>2, <2>3 DEF Placed
<1>5. QED BY <1>1, <1>3, <1>4

LEMMA PopReadyWaits ==
  ASSUME Inv, Inv', Unbroken, UnmetExact, Placed, NEW p \in Processes, NEW t \in Tasks, PopReady(p, t)
  PROVE  Unbroken' /\ UnmetExact' /\ Placed'
<1>1. db \in StorageType /\ hand \in [Processes -> SUBSET Tasks]
  BY DEF Inv, RecoveryType
<1>2. /\ db'.unmetDeps = db.unmetDeps /\ db'.status = db.status /\ db'.ready = db.ready \ {t}
      /\ up' = up /\ whole' = whole /\ todo' = todo
      /\ hand' = [hand EXCEPT ![p] = @ \cup {t}]
  BY <1>1 DEF PopReady, StorageType
<1>3. hand'[p] = hand[p] \cup {t} /\ \A q \in Processes \ {p} : hand'[q] = hand[q]
  BY <1>1, <1>2
<1>4. \A x \in Tasks : \A q \in Processes : Has(q, x) => Has(q, x)'
  BY <1>2, <1>3 DEF Has
<1>5. \A x \in Tasks : (x \in db.ready => x \in db'.ready) \/ Has(p, x)'
  BY <1>2, <1>3 DEF Has
<1>6. Closing(todo'[p]) /\ Telling(todo[p]) \subseteq Telling(todo'[p])
      /\ \A q \in Processes \ {p} : todo'[q] = todo[q]
  BY <1>2 DEF Unbroken
<1>7. \A x \in Tasks : db'.status[x] = db.status[x]
  BY <1>2
<1>8. QED BY <1>2, <1>4, <1>5, <1>6, <1>7, NoCallWaits

LEMMA ClaimWaits ==
  ASSUME Inv, Inv', Unbroken, UnmetExact, Placed, NEW p \in Processes, NEW t \in Tasks, Claim(p, t)
  PROVE  Unbroken' /\ UnmetExact' /\ Placed'
<1>1. db \in StorageType
  BY DEF Inv, RecoveryType
<1>2. PICK from \in Claimed \cup {"READY"}, to \in Claimed : Move(p, t, from, to)
  BY DEF Claim, Claimed
<1>3. /\ db'.unmetDeps = db.unmetDeps /\ db'.ready = db.ready
      /\ db'.status = [db.status EXCEPT ![t] = to] /\ db.status[t] = from
      /\ up' = up /\ whole' = whole /\ todo' = todo /\ hand' = hand
  BY <1>1, <1>2 DEF Move, StorageType
<1>4. \A x \in Tasks : db'.status[x] = db.status[x]
                       \/ {db.status[x], db'.status[x]} \subseteq Claimed \cup {"READY"}
  BY <1>1, <1>2, <1>3 DEF StorageType
<1>5. \A x \in Tasks : \A q \in Processes : Has(q, x) => Has(q, x)'
  BY <1>3 DEF Has
<1>6. Closing(todo'[p]) /\ Telling(todo[p]) \subseteq Telling(todo'[p])
      /\ \A q \in Processes \ {p} : todo'[q] = todo[q]
  BY <1>3 DEF Unbroken
<1>7. QED BY <1>3, <1>4, <1>5, <1>6, NoCallWaits

LEMMA ReportWaits ==
  ASSUME Inv, Inv', Unbroken, UnmetExact, Placed, NEW p \in Processes, NEW t \in Tasks, NEW from, NEW L,
         Report(p, t, from, L), Closing(L), t \in Owned(L)
  PROVE  Unbroken' /\ UnmetExact' /\ Placed'
<1>1. hand \in [Processes -> SUBSET Tasks] /\ todo \in [Processes -> Seq(Calls)]
  BY DEF Inv, RecoveryType
<1>2. /\ db' = db /\ up' = up /\ whole' = whole /\ todo[p] = <<>>
      /\ todo'[p] = L /\ \A q \in Processes \ {p} : todo'[q] = todo[q]
      /\ hand'[p] = hand[p] \ {t} /\ \A q \in Processes \ {p} : hand'[q] = hand[q]
  BY <1>1 DEF Report, Idle
<1>3. Telling(todo[p]) = {} /\ Owned(todo[p]) = {}
  BY <1>2, NoCalls
<1>4. \A x \in Tasks : \A q \in Processes : Has(q, x) => Has(q, x)'
  BY <1>2, <1>3 DEF Has
<1>5. QED BY <1>2, <1>3, <1>4, NoCallWaits

LEMMA CallWaits ==
  ASSUME Inv, Inv', Unbroken, UnmetExact, Placed, NEW p \in Processes, Call(p),
         \A t \in Tasks : db.status[t] \in Outcomes => db'.status[t] = db.status[t]
  PROVE  Unbroken' /\ UnmetExact' /\ Placed'
<1> DEFINE w == todo[p][1]
           L == todo[p]
           F == Following(w)
           N == todo'[p]
<1>1. /\ L \in Seq(Calls) /\ 1 \in 1..Len(L) /\ w \in Calls
      /\ db \in StorageType /\ db' = Written(w) /\ up' = up /\ whole' = whole
      /\ \A q \in Processes \ {p} : todo'[q] = todo[q]
      /\ F \in Seq(Calls) /\ Left(L, F, N)
  BY CallSetting
<1>2. Closing(L) /\ Running(w) /\ Shape(L) /\ hand' = hand
  BY <1>1 DEF Unbroken, Closing, Inv, InShape, Call
<1>3. Sequel(w, F)
  BY <1>1, <1>2, FollowingIsSequel
<1>4. Closing(N)
  BY <1>1, <1>2, <1>3, ClosingLeft
<1>5. Unbroken'
  BY <1>1, <1>4 DEF Unbroken
<1>6. /\ db'.status = [t \in Tasks |-> IF w.op = "status" /\ t = w.task THEN w.to
                                       ELSE IF w.op = "block" /\ t \in w.tasks THEN "BLOCKED"
                                       ELSE db.status[t]]
      /\ db'.unmetDeps = [t \in Tasks |-> IF w.op = "decrement" /\ t = w.task THEN db.unmetDeps[t] - 1
                                          ELSE db.unmetDeps[t]]
      /\ db'.ready = IF w.op = "ready" THEN db.ready \cup {w.task} ELSE db.ready
  BY <1>1, CallWrites
<1>7. /\ \A t \in Telling(L) : t \in Telling(N) \/ (w.op = "decrement" /\ w.task = t)
      /\ Satisfies(w) => Telling(L) = {} /\ \A t \in Dependents(w.task) : t \in Telling(N)
  BY <1>1, <1>2, <1>3, TellingLeft
<1>8. \A q \in Processes \ {p} : \A t : (q \in Tellers(t) <=> q \in Tellers(t)') /\ (Has(q, t) <=> Has(q, t)')
  BY <1>1, <1>2 DEF Tellers, Has
<1> HIDE DEF w, L, F, N
<1>9. UnmetExact'
  <2>1. SUFFICES ASSUME NEW t \in Tasks
                 PROVE  \/ /\ db'.unmetDeps[t] = db.unmetDeps[t]
                           /\ Unsatisfied(t) \subseteq Unsatisfied(t)' /\ Tellers(t) \subseteq Tellers(t)'
                        \/ /\ db'.unmetDeps[t] = db.unmetDeps[t] - 1
                           /\ Unsatisfied(t) \subseteq Unsatisfied(t)' /\ Tellers(t) \subseteq Tellers(t)' \cup {p}
                        \/ /\ db'.unmetDeps[t] = db.unmetDeps[t]
                           /\ \E d : Unsatisfied(t) \subseteq Unsatisfied(t)' \cup {d}
                           /\ Tellers(t) \subseteq Tellers(t)' /\ p \in Tellers(t)' \ Tellers(t)
    BY ExactKept DEF TellsExactly
  <2>2. \A d \in Deps[t] : d \in Tasks
    BY DepsAreTasks
  <2>3. \A d \in Unsatisfied(t) : d \in Unsatisfied(t)' \/ (Satisfies(w) /\ d = w.task)
    <3>1. SUFFICES ASSUME NEW d \in Deps[t], db.status[d] \notin Satisfied, db'.status[d] \in Satisfied
                   PROVE  Satisfies(w) /\ d = w.task
      BY DEF Unsatisfied
    <3>2. QED BY <1>6, <2>2, <3>1 DEF Satisfies, Satisfied
  <2>4. p \in Tellers(t) <=> t \in Telling(L)
    BY DEF Tellers, L
  <2>5. p \in Tellers(t)' <=> t \in Telling(N)
    BY DEF Tellers, N
  <2>6. Tellers(t) \subseteq Processes
    BY DEF Tellers
  <2>7. CASE w.op = "decrement" /\ t = w.task
    <3>1. Unsatisfied(t) \subseteq Unsatisfied(t)'
      BY <2>3, <2>7 DEF Satisfies
    <3>2. Tellers(t) \subseteq Tellers(t)' \cup {p}
      BY <1>8, <2>6
    <3>3. QED BY <1>6, <2>7, <3>1, <3>2
  <2>8. CASE ~(w.op = "decrement" /\ t = w.task)
    <3>1. db'.unmetDeps[t] = db.unmetDeps[t]
      BY <1>6, <2>8
    <3>2. Tellers(t) \subseteq Tellers(t)'
      BY <1>7, <1>8, <2>4, <2>5, <2>6, <2>8
    <3>3. CASE Satisfies(w) /\ w.task \in Unsatisfied(t)
      <4>1. t \in Dependents(w.task)
        BY <3>3 DEF Dependents, Unsatisfied
      <4>2. p \in Tellers(t)' /\ p \notin Tellers(t)
        BY <1>7, <2>4, <2>5, <3>3, <4>1
      <4>3. \E d : Unsatisfied(t) \subseteq Unsatisfied(t)' \cup {d}
        BY <2>3
      <4>4. QED BY <3>1, <3>2, <4>2, <4>3
    <3>4. CASE ~(Satisfies(w) /\ w.task \in Unsatisfied(t))
      BY <2>3, <3>1, <3>2, <3>4
    <3>5. QED BY <3>3, <3>4
  <2>9. QED BY <2>7, <2>8
<1>10. Placed'
  <2>1. SUFFICES ASSUME NEW t \in Tasks
                 PROVE  \/ db'.status[t] \in Outcomes
                        \/ db'.status[t] = "PENDING" /\ db'.unmetDeps[t] > 0
                        \/ t \in db'.ready
                        \/ \E q \in Processes : Has(q, t)'
    BY DEF Placed
  <2>2. Moved(L, F, N)
    BY <1>1, CallsMove
  <2>3. \A m \in 2..Len(L) : L[m].op \in OwnOps /\ L[m].task = t => Has(p, t)'
    <3>1. SUFFICES ASSUME NEW m \in 2..Len(L), L[m].op \in OwnOps, L[m].task = t PROVE t \in Owned(N)
      BY DEF Has, N
    <3>2. m + Len(F) - 1 \in 1..Len(N) /\ N[m + Len(F) - 1] = L[m]
      BY <2>2 DEF Moved
    <3>3. QED BY <3>1, <3>2 DEF Owned
  <2>4. CASE db.status[t] \in Outcomes
    BY <2>4
  <2>5. CASE db.status[t] = "PENDING" /\ db.unmetDeps[t] > 0
    <3>1. ~Has(p, t) /\ db.unmetDeps[t] \in Int
      BY <2>5 DEF Inv, UnmetWaits, RecoveryType, StorageType
    <3>2. ~(w.op = "status" /\ t = w.task)
      BY <1>1, <3>1 DEF Has, Owned, OwnOps, w, L
    <3>3. db'.status[t] = "PENDING" \/ db'.status[t] \in Outcomes
      BY <1>6, <2>5, <3>2 DEF Outcomes
    <3>4. CASE w.op = "decrement" /\ t = w.task /\ db.unmetDeps[t] = 1
      <4>1. F = PairOf(t)
        BY <1>1, <3>4, CallFollowed DEF F
      <4>2. 1 \in 1..Len(F) /\ F[1].op = "status" /\ F[1].task = t
        BY <4>1 DEF PairOf, SetStatus
      <4>3. 1 \in 1..Len(N) /\ N[1] = F[1]
        BY <2>2, <4>2 DEF Moved
      <4>4. t \in Owned(N)
        BY <4>2, <4>3 DEF Owned, OwnOps
      <4>5. QED BY <4>4 DEF Has, N
    <3>5. CASE ~(w.op = "decrement" /\ t = w.task /\ db.unmetDeps[t] = 1)
      <4>1. db'.unmetDeps[t] > 0
        BY <1>6, <2>5, <3>1, <3>5
      <4>2. QED BY <3>3, <4>1
    <3>6. QED BY <3>4, <3>5
  <2>6. CASE t \in db.ready
    BY <1>6, <2>6
  <2>7. CASE \E q \in Processes : Has(q, t)
    <3>1. PICK q \in Processes : Has(q, t)
      BY <2>7
    <3>2. CASE q # p \/ t \in hand[p]
      BY <1>2, <1>8, <3>1, <3>2 DEF Has
    <3>3. CASE t \in Owned(L)
      <4>1. PICK i \in 1..Len(L) : L[i].op \in OwnOps /\ L[i].task = t
        BY <3>3 DEF Owned
      <4>2. CASE i \in 2..Len(L)
        BY <2>3, <4>1, <4>2
      <4>3. CASE i = 1
        <5>1. w.op \in {"status", "ready"} /\ w.task = t
          BY <1>2, <4>1, <4>3 DEF OwnOps, Running, w, L
        <5>2. CASE w.op = "ready"
          BY <1>6, <5>1, <5>2
        <5>3. CASE w.op = "status" /\ w.to \in Outcomes
          BY <1>6, <5>1, <5>3
        <5>4. CASE w.op = "status" /\ w.to = "READY"
          <6>1. PICK j \in 1..Len(L) : 1 < j /\ L[j].op = "ready" /\ L[j].task = t
            BY <1>1, <1>2, <5>1, <5>4 DEF Closing, ReadyFollows, w, L
          <6>2. j \in 2..Len(L)
            BY <6>1
          <6>3. QED BY <2>3, <6>1, <6>2 DEF OwnOps
        <5>5. QED BY <1>2, <5>1, <5>2, <5>3, <5>4 DEF Running
      <4>4. i = 1 \/ i \in 2..Len(L)
        BY <4>1
      <4>5. QED BY <4>2, <4>3, <4>4
    <3>4. QED BY <3>1, <3>2, <3>3 DEF Has, L
  <2>8. QED BY <2>4, <2>5, <2>6, <2>7 DEF Placed
<1>11. QED BY <1>5, <1>9, <1>10

-----------------------------------------------------------------------------
(***************************************************************************)
(* What is left undone stays to be done.                                   *)
(***************************************************************************)

\* What a call does to the two final states.
LEMMA CallFinals ==
  ASSUME NEW w \in Calls, db \in StorageType
  PROVE  /\ Written(w).interview = IF w.op = "interview" THEN w.to ELSE db.interview
         /\ Written(w).job = IF w.op = "setJob" THEN w.to ELSE db.job
<1> USE CallFields DEF TaskOps, StorageType
<1>1. CASE w.op \in {"status", "ready", "answer", "decrement", "attempt"}
  <2>1. CASE w.op = "status"
    <3>1. Written(w) = [db EXCEPT !.status[w.task] = w.to]
      BY <2>1 DEF Written
    <3>2. QED BY <2>1, <3>1
  <2>2. CASE w.op = "ready"
    <3>1. Written(w) = [db EXCEPT !.ready = @ \cup {w.task}]
      BY <2>2 DEF Written
    <3>2. QED BY <2>2, <3>1
  <2>3. CASE w.op = "answer"
    <3>1. Written(w) = [db EXCEPT !.answers = @ \cup {w.task}]
      BY <2>3 DEF Written
    <3>2. QED BY <2>3, <3>1
  <2>4. CASE w.op = "decrement"
    <3>1. Written(w) = [db EXCEPT !.unmetDeps[w.task] = @ - 1]
      BY <2>4 DEF Written
    <3>2. QED BY <2>4, <3>1
  <2>5. CASE w.op = "attempt"
    <3>1. Written(w) = [db EXCEPT !.attempts[w.task] = @ + 1]
      BY <2>5 DEF Written
    <3>2. QED BY <2>5, <3>1
  <2>6. QED BY <1>1, <2>1, <2>2, <2>3, <2>4, <2>5
<1>2. CASE w.op = "block"
  <2>1. Written(w) = [db EXCEPT !.status = [t \in Tasks |-> IF t \in w.tasks THEN "BLOCKED" ELSE @[t]]]
    BY <1>2 DEF Written
  <2>2. QED BY <1>2, <2>1
<1>3. CASE w.op \in {"increment", "counter", "job"}
  <2>1. CASE w.op = "increment"
    <3>1. Written(w) = [db EXCEPT !.tally[w.outcome] = @ + w.by]
      BY <2>1 DEF Written
    <3>2. QED BY <2>1, <3>1
  <2>2. CASE w.op = "counter"
    <3>1. Written(w) = [db EXCEPT !.tally[w.outcome] = w.to]
      BY <2>2 DEF Written
    <3>2. QED BY <2>2, <3>1
  <2>3. CASE w.op = "job"
    <3>1. Written(w) = [db EXCEPT !.jobTally[w.as] = @ + 1]
      BY <2>3 DEF Written
    <3>2. QED BY <2>3, <3>1
  <2>4. QED BY <1>3, <2>1, <2>2, <2>3
<1>4. CASE w.op = "count"
  <2>1. Written(w) = [db EXCEPT !.counted = TRUE]
    BY <1>4 DEF Written
  <2>2. QED BY <1>4, <2>1
<1>5. CASE w.op = "interview"
  <2>1. Written(w) = [db EXCEPT !.interview = w.to]
    BY <1>5 DEF Written
  <2>2. QED BY <1>5, <2>1
<1>6. CASE w.op = "setJob"
  <2>1. Written(w) = [db EXCEPT !.job = w.to]
    BY <1>6 DEF Written
  <2>2. QED BY <1>6, <2>1
<1>7. CASE w.op \in {"propagate", "requeue", "finalize", "mark", "finalizeJob"}
  <2>1. Written(w) = db BY <1>7 DEF Written
  <2>2. QED BY <1>7, <2>1
<1>8. QED BY <1>1, <1>2, <1>3, <1>4, <1>5, <1>6, <1>7

\* What is due stays due, but for the call that is made.
LEMMA DueKept ==
  ASSUME Inv, NEW p \in Processes, Call(p), NEW w, w = todo[p][1], NEW A, Due(A)
  PROVE  Due(A)' \/ w.op \in A
<1>1. Left(todo[p], Following(w), todo'[p]) /\ \A q \in Processes \ {p} : todo'[q] = todo[q]
  BY CallSetting
<1>2. Moved(todo[p], Following(w), todo'[p])
  BY <1>1, CallsMove
<1>3. PICK x \in Processes : \E i \in 1..Len(todo[x]) : todo[x][i].op \in A
  BY DEF Due
<1>4. CASE x # p
  BY <1>1, <1>3, <1>4 DEF Due
<1>5. CASE x = p
  <2>1. PICK i \in 1..Len(todo[p]) : todo[p][i].op \in A
    BY <1>3, <1>5
  <2>2. CASE i # 1
    <3>1. i \in 2..Len(todo[p])
      BY <1>2, <2>2 DEF Moved
    <3>2. \E j \in 1..Len(todo'[p]) : todo'[p][j] = todo[p][i]
      BY <1>2, <3>1 DEF Moved
    <3>3. QED BY <2>1, <3>2 DEF Due
  <2>3. QED BY <2>1, <2>2
<1>6. QED BY <1>4, <1>5

\* After a call of A one of B is due.
LEMMA DueNext ==
  ASSUME Inv, NEW p \in Processes, Call(p), NEW w, w = todo[p][1],
         NEW A, NEW B, Followed(todo[p], A, B), w.op \in A
  PROVE  Due(B)'
<1>1. Left(todo[p], Following(w), todo'[p]) /\ 1 \in 1..Len(todo[p])
  BY CallSetting
<1>2. Moved(todo[p], Following(w), todo'[p])
  BY <1>1, CallsMove
<1>3. PICK i \in 1..Len(todo[p]) : 1 < i /\ todo[p][i].op \in B
  BY <1>1 DEF Followed
<1>4. i \in 2..Len(todo[p])
  BY <1>3
<1>5. \E j \in 1..Len(todo'[p]) : todo'[p][j] = todo[p][i]
  BY <1>2, <1>4 DEF Moved
<1>6. QED BY <1>3, <1>5 DEF Due

\* What follows from what a call found is due.
LEMMA DueFound ==
  ASSUME Inv, NEW p \in Processes, Call(p), NEW w, w = todo[p][1], NEW A,
         NEW i \in 1..Len(Following(w)), Following(w)[i].op \in A
  PROVE  Due(A)'
<1>1. Left(todo[p], Following(w), todo'[p])
  BY CallSetting
<1>2. Moved(todo[p], Following(w), todo'[p])
  BY <1>1, CallsMove
<1>3. i \in 1..Len(todo'[p]) /\ todo'[p][i] = Following(w)[i]
  BY <1>2 DEF Moved
<1>4. QED BY <1>3 DEF Due

LEMMA CallLastOne ==
  ASSUME Inv, Inv', Unbroken, LastOne, NEW p \in Processes, Call(p)
  PROVE  LastOne'
<1> DEFINE w == todo[p][1]
<1>1. w \in Calls /\ db \in StorageType /\ db' = Written(w)
  BY CallSetting
<1>2. Running(w) /\ Closing(todo[p])
  <2>1. Closing(todo[p]) /\ 1 \in 1..Len(todo[p])
    BY CallSetting DEF Unbroken
  <2>2. QED BY <2>1 DEF Closing
<1>3. w.op # "counter" /\ (w.op \in {"interview", "setJob"} => w.to # "RUNNING")
  BY <1>2 DEF Running, Verdicts
<1>4. /\ db'.interview = IF w.op = "interview" THEN w.to ELSE db.interview
      /\ db'.job = IF w.op = "setJob" THEN w.to ELSE db.job
  BY <1>1, CallFinals
<1>5. /\ w.op # "increment" => db'.tally = db.tally
      /\ db'.counted = (db.counted \/ w.op = "count")
      /\ \A v \in Verdicts : db.jobTally[v] > 0 \/ (w.op = "job" /\ w.as = v) => db'.jobTally[v] > 0
      /\ w.op = "job" => w.as \in Verdicts
  <2>1. /\ db'.tally = [o \in Outcomes |->
             IF w.op = "increment" /\ w.outcome = o THEN db.tally[o] + w.by
             ELSE IF w.op = "counter" /\ w.outcome = o THEN w.to ELSE db.tally[o]]
        /\ db'.counted = (db.counted \/ w.op = "count")
        /\ db'.jobTally =
             [v \in Verdicts |-> IF w.op = "job" /\ w.as = v THEN db.jobTally[v] + 1 ELSE db.jobTally[v]]
    BY <1>1, CallRecords
  <2>2. w.op # "increment" => db'.tally = db.tally
    BY <1>1, <1>3, <2>1 DEF StorageType
  <2>3. \A v \in Verdicts : db.jobTally[v] > 0 \/ (w.op = "job" /\ w.as = v) => db'.jobTally[v] > 0
    BY <1>1, <2>1 DEF StorageType
  <2>4. QED BY <1>1, <2>1, <2>2, <2>3, CallFields
<1>6. /\ Followed(todo[p], {"increment"}, {"finalize"})
      /\ Followed(todo[p], {"propagate", "finalize", "interview"}, {"mark"})
      /\ Followed(todo[p], {"job"}, {"finalizeJob"})
  BY <1>2 DEF Closing
<1>7. ASSUME IsDone' PROVE db'.interview # "RUNNING" \/ Due({"finalize", "interview"})'
  <2>1. CASE w.op = "increment"
    <3>1. Due({"finalize"})'
      BY <1>6, <2>1, DueNext
    <3>2. QED BY <3>1 DEF Due
  <2>2. CASE w.op # "increment"
    <3>1. IsDone
      BY <1>5, <1>7, <2>2 DEF IsDone
    <3>2. CASE w.op = "finalize"
      <4>1. Following(w) = <<SetInterview(Verdict)>>
        BY <3>1, <3>2 DEF Following
      <4>2. 1 \in 1..Len(Following(w)) /\ Following(w)[1].op = "interview"
        BY <4>1 DEF SetInterview
      <4>3. QED BY <4>2, DueFound
    <3>3. CASE w.op = "interview"
      BY <1>3, <1>4, <3>3
    <3>4. CASE w.op \notin {"finalize", "interview"}
      <4>1. db.interview # "RUNNING" \/ Due({"finalize", "interview"})
        BY <3>1 DEF LastOne
      <4>2. QED BY <1>4, <3>4, <4>1, DueKept
    <3>5. QED BY <3>2, <3>3, <3>4
  <2>3. QED BY <2>1, <2>2
<1>8. ASSUME db'.interview # "RUNNING" PROVE db'.counted \/ Due({"mark", "count"})'
  <2>1. CASE w.op = "interview"
    <3>1. Due({"mark"})'
      BY <1>6, <2>1, DueNext
    <3>2. QED BY <3>1 DEF Due
  <2>2. CASE w.op = "mark"
    <3>1. Following(w) = <<CountInterview(db.interview)>>
      BY <1>4, <1>8, <2>2 DEF Following
    <3>2. 1 \in 1..Len(Following(w)) /\ Following(w)[1].op = "count"
      BY <3>1 DEF CountInterview
    <3>3. QED BY <3>2, DueFound
  <2>3. CASE w.op = "count"
    BY <1>5, <2>3
  <2>4. CASE w.op \notin {"interview", "mark", "count"}
    <3>1. db.counted \/ Due({"mark", "count"})
      BY <1>4, <1>8, <2>4 DEF LastOne
    <3>2. QED BY <1>5, <2>4, <3>1, DueKept
  <2>5. QED BY <2>1, <2>2, <2>3, <2>4
<1>9. ASSUME db'.counted
      PROVE  \/ db'.job # "RUNNING" \/ Due({"job", "setJob"})'
             \/ (\E v \in Verdicts : db'.jobTally[v] > 0) /\ Due({"finalizeJob"})'
  <2>1. CASE ~db.counted
    <3>1. w.op = "count"
      BY <1>5, <1>9, <2>1
    <3>2. Following(w) = <<IncrementJob(w.as), FinalizeJob>>
      BY <2>1, <3>1 DEF Following, CountOnce
    <3>3. 1 \in 1..Len(Following(w)) /\ Following(w)[1].op = "job"
      BY <3>2 DEF IncrementJob
    <3>4. QED BY <3>3, DueFound
  <2>2. CASE w.op = "job"
    <3>1. Due({"finalizeJob"})'
      BY <1>6, <2>2, DueNext
    <3>2. \E v \in Verdicts : db'.jobTally[v] > 0
      BY <1>5, <2>2
    <3>3. QED BY <3>1, <3>2
  <2>3. CASE w.op = "setJob"
    BY <1>3, <1>4, <2>3
  <2>4. CASE w.op = "finalizeJob" /\ \E v \in Verdicts : db.jobTally[v] > 0
    <3>1. Following(w) = <<SetJob(JobVerdict)>>
      BY <2>4 DEF Following
    <3>2. 1 \in 1..Len(Following(w)) /\ Following(w)[1].op = "setJob"
      BY <3>1 DEF SetJob
    <3>3. QED BY <3>2, DueFound
  <2>5. CASE /\ db.counted /\ w.op \notin {"job", "setJob"}
             /\ ~(w.op = "finalizeJob" /\ \E v \in Verdicts : db.jobTally[v] > 0)
    <3>1. CASE db.job # "RUNNING"
      BY <1>4, <2>5, <3>1
    <3>2. CASE Due({"job", "setJob"})
      BY <2>5, <3>2, DueKept
    <3>3. CASE (\E v \in Verdicts : db.jobTally[v] > 0) /\ Due({"finalizeJob"})
      <4>1. Due({"finalizeJob"})'
        BY <2>5, <3>3, DueKept
      <4>2. QED BY <1>5, <3>3, <4>1
    <3>4. QED BY <2>5, <3>1, <3>2, <3>3 DEF LastOne
  <2>6. QED BY <2>1, <2>2, <2>3, <2>4, <2>5
<1>10. QED BY <1>7, <1>8, <1>9 DEF LastOne

\* Where no call is made, and those that were to be made are still to be made.
LEMMA NoCallLastOne ==
  ASSUME LastOne, db'.tally = db.tally, db'.interview = db.interview, db'.counted = db.counted,
         db'.job = db.job, db'.jobTally = db.jobTally,
         \A x \in Processes : todo[x] = <<>> \/ todo'[x] = todo[x]
  PROVE  LastOne'
<1>1. \A A : Due(A) => Due(A)'
  <2>1. SUFFICES ASSUME NEW A, Due(A) PROVE Due(A)'
    OBVIOUS
  <2>2. PICK x \in Processes : \E i \in 1..Len(todo[x]) : todo[x][i].op \in A
    BY <2>1 DEF Due
  <2>3. todo[x] # <<>>
    BY <2>2, NoBooks
  <2>4. QED BY <2>2, <2>3 DEF Due
<1>2. IsDone' = IsDone
  BY DEF IsDone
<1>3. QED BY <1>1, <1>2 DEF LastOne

-----------------------------------------------------------------------------
(***************************************************************************)
(* The verdicts are right.                                                 *)
(***************************************************************************)

\* What the numbers of the outcomes come to.
LEMMA NumbersAdd ==
  /\ Cardinality(WithStatus(Outcomes))
       = Number("COMPLETED") + Number("SKIPPED") + Number("FAILED") + Number("BLOCKED")
  /\ Cardinality(WithStatus(Outcomes)) <= TaskCount
  /\ Cardinality(WithStatus(Outcomes)) = TaskCount => WithStatus(Outcomes) = Tasks
<1> DEFINE C == WithStatus({"COMPLETED"})
           S == WithStatus({"SKIPPED"})
           X == WithStatus({"FAILED"})
           B == WithStatus({"BLOCKED"})
<1>1. IsFiniteSet(C) /\ IsFiniteSet(S) /\ IsFiniteSet(X) /\ IsFiniteSet(B)
  BY NumberType
<1>2. C \cap S = {} /\ (C \cup S) \cap X = {} /\ (C \cup S \cup X) \cap B = {}
  BY DEF WithStatus
<1>3. WithStatus(Outcomes) = C \cup S \cup X \cup B
  BY DEF WithStatus, Outcomes
<1> HIDE DEF C, S, X, B
<1>4. IsFiniteSet(C \cup S) /\ Cardinality(C \cup S) = Cardinality(C) + Cardinality(S) - Cardinality(C \cap S)
  BY <1>1, FS_Union
<1>5. /\ IsFiniteSet(C \cup S \cup X)
      /\ Cardinality(C \cup S \cup X) = Cardinality(C \cup S) + Cardinality(X) - Cardinality((C \cup S) \cap X)
  BY <1>1, <1>4, FS_Union
<1>6. Cardinality(C \cup S \cup X \cup B)
        = Cardinality(C \cup S \cup X) + Cardinality(B) - Cardinality((C \cup S \cup X) \cap B)
  BY <1>1, <1>5, FS_Union
<1>7. Cardinality({}) = 0
  BY FS_EmptySet
<1>8. /\ Cardinality(C) = Number("COMPLETED") /\ Cardinality(S) = Number("SKIPPED")
      /\ Cardinality(X) = Number("FAILED") /\ Cardinality(B) = Number("BLOCKED")
  BY DEF Number, C, S, X, B
<1>9. \A o : Number(o) \in Nat
  BY NumberType
<1>10. Cardinality(WithStatus(Outcomes))
         = Number("COMPLETED") + Number("SKIPPED") + Number("FAILED") + Number("BLOCKED")
  <2>1. /\ Cardinality(C \cap S) = 0 /\ Cardinality((C \cup S) \cap X) = 0
        /\ Cardinality((C \cup S \cup X) \cap B) = 0
    BY <1>2, <1>7
  <2>2. \A n \in Nat : n - 0 = n
    OBVIOUS
  <2>3. Cardinality(C \cup S) = Number("COMPLETED") + Number("SKIPPED")
    BY <1>4, <1>8, <1>9, <2>1, <2>2
  <2>4. Cardinality(C \cup S \cup X) = Number("COMPLETED") + Number("SKIPPED") + Number("FAILED")
    BY <1>5, <1>8, <1>9, <2>1, <2>2, <2>3
  <2>5. Cardinality(C \cup S \cup X \cup B)
          = Number("COMPLETED") + Number("SKIPPED") + Number("FAILED") + Number("BLOCKED")
    BY <1>6, <1>8, <1>9, <2>1, <2>2, <2>4
  <2>6. QED BY <1>3, <2>5
<1>11. /\ Cardinality(WithStatus(Outcomes)) <= TaskCount
       /\ Cardinality(WithStatus(Outcomes)) = TaskCount => WithStatus(Outcomes) = Tasks
  <2>1. WithStatus(Outcomes) \subseteq Tasks
    BY DEF WithStatus
  <2>2. QED BY <2>1, RecoveryConstants, FS_Subset DEF TaskCount
<1>12. QED BY <1>10, <1>11

\* Where all is counted every task has its outcome, and the verdict on them is right.
LEMMA DoneMeansAll ==
  ASSUME Inv, CountersInv, Unbroken, IsDone, Number("FAILED") <= 1
  PROVE  WithStatus(Outcomes) = Tasks /\ (Verdict = "COMPLETED" <=> WithStatus({"FAILED"}) = {})
<1>1. /\ db.tally["COMPLETED"] \in Nat /\ db.tally["SKIPPED"] \in Nat
      /\ db.tally["FAILED"] \in Nat /\ db.tally["BLOCKED"] \in Nat
  BY DEF Inv, RecoveryType, StorageType, Outcomes
<1>2. /\ Number("COMPLETED") \in Nat /\ Number("SKIPPED") \in Nat
      /\ Number("FAILED") \in Nat /\ Number("BLOCKED") \in Nat
      /\ Owed("COMPLETED") \in Nat /\ Owed("SKIPPED") \in Nat
      /\ Owed("FAILED") \in Nat /\ Owed("BLOCKED") \in Nat
  BY NumberType, OwedTypes
<1>3. ~Rewritten("BLOCKED")
  BY DEF Unbroken, Closing, Running, Rewritten
<1>4. /\ db.tally["COMPLETED"] <= Number("COMPLETED") /\ db.tally["SKIPPED"] <= Number("SKIPPED")
      /\ db.tally["FAILED"] <= Number("FAILED")
  <2>1. \A o \in {"COMPLETED", "SKIPPED", "FAILED"} : db.tally[o] + Owed(o) <= Number(o)
    BY DEF CountersInv, Balanced, Outcomes
  <2>2. QED BY <1>1, <1>2, <2>1
<1>5. db.tally["BLOCKED"] <= Number("BLOCKED")
  <2>1. Number("BLOCKED") = db.tally["BLOCKED"] + Owed("BLOCKED")
    BY <1>3 DEF CountersInv, BlockedBalanced, Unbroken
  <2>2. QED BY <1>1, <1>2, <2>1
<1>6. TaskCount \in Nat /\ Cardinality(WithStatus(Outcomes)) <= TaskCount
  BY TaskCountType, NumbersAdd
<1>7. db.tally["COMPLETED"] + db.tally["SKIPPED"] + db.tally["FAILED"] + db.tally["BLOCKED"] >= TaskCount
  BY DEF IsDone, TaskCount
<1>8. Cardinality(WithStatus(Outcomes))
        = Number("COMPLETED") + Number("SKIPPED") + Number("FAILED") + Number("BLOCKED")
  BY NumbersAdd
<1>9. Cardinality(WithStatus(Outcomes)) = TaskCount /\ db.tally["FAILED"] = Number("FAILED")
  <2>1. ASSUME NEW a \in Nat, NEW b \in Nat, NEW c \in Nat, NEW d \in Nat,
               NEW x \in Nat, NEW y \in Nat, NEW z \in Nat, NEW u \in Nat, NEW n \in Nat,
               a <= x, b <= y, c <= z, d <= u, n <= a + b + c + d, x + y + z + u <= n
        PROVE  x + y + z + u = n /\ c = z
    <3>1. a + b + c + d <= x + y + z + u
      BY <2>1
    <3>2. c < z => a + b + c + d < x + y + z + u
      BY <2>1
    <3>3. QED BY <2>1, <3>1, <3>2
  <2>2. QED BY <1>1, <1>2, <1>4, <1>5, <1>6, <1>7, <1>8, <2>1
<1>10. WithStatus(Outcomes) = Tasks
  BY <1>9, NumbersAdd
<1>11. CASE WithStatus({"FAILED"}) = {}
  <2>1. Number("FAILED") = 0 /\ Number("BLOCKED") = 0
    BY <1>11, NumberType DEF CountersInv, BlockedFresh
  <2>2. db.tally["FAILED"] = 0 /\ db.tally["BLOCKED"] = 0
    BY <1>1, <1>4, <1>5, <2>1
  <2>3. Verdict = "COMPLETED"
    BY <2>2 DEF Verdict
  <2>4. QED BY <1>10, <1>11, <2>3
<1>12. CASE WithStatus({"FAILED"}) # {}
  <2>1. Number("FAILED") # 0
    BY <1>12, NumberType
  <2>2. db.tally["FAILED"] + db.tally["BLOCKED"] # 0
    BY <1>1, <1>2, <1>9, <2>1
  <2>3. Verdict # "COMPLETED"
    BY <2>2 DEF Verdict
  <2>4. QED BY <1>10, <1>12, <2>3
<1>13. QED BY <1>11, <1>12

\* A call gives a verdict that was given, or that on what is counted.
LEMMA GivenAfter ==
  ASSUME Inv, Unbroken, NEW p \in Processes, Call(p), NEW w, w = todo[p][1],
         NEW v \in Verdicts, Given(v)'
  PROVE  Given(v) \/ (w.op = "finalize" /\ IsDone /\ v = Verdict)
<1>1. /\ w \in Calls /\ db \in StorageType /\ db' = Written(w) /\ 1 \in 1..Len(todo[p])
      /\ \A q \in Processes \ {p} : todo'[q] = todo[q]
      /\ Left(todo[p], Following(w), todo'[p])
  BY CallSetting
<1>2. Running(w)
  BY <1>1 DEF Unbroken, Closing
<1>3. Sequel(w, Following(w))
  BY <1>1, <1>2, FollowingIsSequel
<1>4. Moved(todo[p], Following(w), todo'[p])
  BY <1>1, CallsMove
<1>5. Says(w, v) => Given(v)
  BY <1>1 DEF Given
<1>6. CASE db'.interview = v \/ db'.job = v
  <2>1. /\ db'.interview = IF w.op = "interview" THEN w.to ELSE db.interview
        /\ db'.job = IF w.op = "setJob" THEN w.to ELSE db.job
    BY <1>1, CallFinals
  <2>2. Says(w, v) \/ db.interview = v \/ db.job = v
    BY <1>6, <2>1 DEF Says
  <2>3. QED BY <1>5, <2>2 DEF Given
<1>7. CASE db'.jobTally[v] > 0
  <2>1. db'.jobTally =
          [x \in Verdicts |-> IF w.op = "job" /\ w.as = x THEN db.jobTally[x] + 1 ELSE db.jobTally[x]]
    BY <1>1, CallRecords
  <2>2. (w.op = "job" /\ w.as = v) \/ db.jobTally[v] > 0
    BY <1>7, <2>1
  <2>3. Says(w, v) \/ db.jobTally[v] > 0
    BY <2>2 DEF Says
  <2>4. QED BY <1>5, <2>3 DEF Given
<1>8. CASE \E x \in Processes : \E i \in 1..Len(todo'[x]) : Says(todo'[x][i], v)
  <2>1. PICK x \in Processes : \E i \in 1..Len(todo'[x]) : Says(todo'[x][i], v)
    BY <1>8
  <2>2. CASE x # p
    BY <1>1, <2>1, <2>2 DEF Given
  <2>3. CASE x = p
    <3>1. PICK i \in 1..Len(todo'[p]) : Says(todo'[p][i], v)
      BY <2>1, <2>3
    <3>2. CASE i \notin 1..Len(Following(w))
      <4>1. \E m \in 1..Len(todo[p]) : todo'[p][i] = todo[p][m]
        BY <1>4, <3>2 DEF Moved
      <4>2. QED BY <3>1, <4>1 DEF Given
    <3>3. CASE i \in 1..Len(Following(w))
      <4> DEFINE c == Following(w)[i]
      <4>1. Says(c, v)
        BY <1>4, <3>1, <3>3 DEF Moved
      <4>2. c.op \in {"interview", "setJob", "count", "job"}
        BY <4>1 DEF Says
      <4>3. \/ w.op = "finalize" /\ IsDone /\ c.op = "interview" /\ c.to = Verdict
            \/ w.op = "mark" /\ c.op = "count" /\ c.as = db.interview
            \/ w.op = "count" /\ c.op = "job" /\ c.as = w.as
            \/ /\ w.op = "finalizeJob" /\ c.op = "setJob" /\ c.to = JobVerdict
               /\ \E u \in Verdicts : db.jobTally[u] > 0
        BY <1>1, <1>3, <3>3, <4>2, SequelCalls
      <4> HIDE DEF c
      <4>4. CASE w.op = "finalize" /\ IsDone /\ c.op = "interview" /\ c.to = Verdict
        BY <4>1, <4>4 DEF Says
      <4>5. CASE w.op = "mark" /\ c.op = "count" /\ c.as = db.interview
        BY <4>1, <4>5 DEF Says, Given
      <4>6. CASE w.op = "count" /\ c.op = "job" /\ c.as = w.as
        <5>1. Says(w, v)
          BY <4>1, <4>6 DEF Says
        <5>2. QED BY <1>5, <5>1
      <4>7. CASE /\ w.op = "finalizeJob" /\ c.op = "setJob" /\ c.to = JobVerdict
                 /\ \E u \in Verdicts : db.jobTally[u] > 0
        <5>1. v = JobVerdict
          BY <4>1, <4>7 DEF Says
        <5>2. db.jobTally["COMPLETED"] \in Nat /\ db.jobTally["COMPLETED_WITH_FAILURES"] \in Nat
          BY <1>1 DEF StorageType, Verdicts
        <5>3. db.jobTally["COMPLETED"] > 0 \/ db.jobTally["COMPLETED_WITH_FAILURES"] > 0
          BY <4>7 DEF Verdicts
        <5>4. db.jobTally[v] > 0
          BY <5>1, <5>2, <5>3 DEF JobVerdict
        <5>5. QED BY <5>4 DEF Given
      <4>8. QED BY <4>3, <4>4, <4>5, <4>6, <4>7
    <3>4. QED BY <3>2, <3>3
  <2>4. QED BY <2>2, <2>3
<1>9. QED BY <1>6, <1>7, <1>8 DEF Given

LEMMA CallVerdicts ==
  ASSUME Inv, Inv', CountersInv, Unbroken, VerdictFits, NEW p \in Processes, Call(p),
         \A t \in Tasks : db.status[t] \in Outcomes => db'.status[t] = db.status[t]
  PROVE  VerdictFits'
<1> DEFINE w == todo[p][1]
<1>1. SUFFICES ASSUME Number("FAILED")' <= 1, NEW v \in Verdicts, Given(v)'
               PROVE  /\ WithStatus(Outcomes)' = Tasks
                      /\ v = "COMPLETED" <=> WithStatus({"FAILED"})' = {}
  BY DEF VerdictFits
<1>2. Number("FAILED") <= 1
  <2>1. Number("FAILED") <= Number("FAILED")'
    BY NumbersAfter DEF Outcomes
  <2>2. Number("FAILED") \in Nat /\ Number("FAILED")' \in Nat
    BY NumberType
  <2>3. QED BY <1>1, <2>1, <2>2
<1>3. WithStatus(Outcomes) = Tasks /\ (v = "COMPLETED" <=> WithStatus({"FAILED"}) = {})
  <2>1. CASE Given(v)
    BY <1>2, <2>1 DEF VerdictFits
  <2>2. CASE IsDone /\ v = Verdict
    BY <1>2, <2>2, DoneMeansAll
  <2>3. Given(v) \/ (w.op = "finalize" /\ IsDone /\ v = Verdict)
    BY <1>1, GivenAfter
  <2>4. QED BY <2>1, <2>2, <2>3
<1>4. \A t \in Tasks : db.status[t] \in Outcomes
  BY <1>3 DEF WithStatus
<1>5. \A t \in Tasks : db'.status[t] = db.status[t]
  BY <1>4
<1>6. \A O : WithStatus(O)' = WithStatus(O)
  BY <1>5 DEF WithStatus
<1>7. QED BY <1>3, <1>6

\* Where no verdict is given.
LEMMA NoCallVerdicts ==
  ASSUME VerdictFits, db'.interview = db.interview, db'.job = db.job, db'.jobTally = db.jobTally,
         \A t \in Tasks : \A o \in Outcomes : db'.status[t] = o <=> db.status[t] = o,
         \A x \in Processes : todo'[x] = todo[x] \/ NoVerdict(todo'[x])
  PROVE  VerdictFits'
<1>1. \A v : Given(v)' => Given(v)
  <2>1. SUFFICES ASSUME NEW v, Given(v)' PROVE Given(v)
    OBVIOUS
  <2>2. CASE db'.interview = v \/ db'.job = v \/ db'.jobTally[v] > 0
    BY <2>2 DEF Given
  <2>3. CASE \E x \in Processes : \E i \in 1..Len(todo'[x]) : Says(todo'[x][i], v)
    <3>1. PICK x \in Processes : \E i \in 1..Len(todo'[x]) : Says(todo'[x][i], v)
      BY <2>3
    <3>2. ~NoVerdict(todo'[x])
      BY <3>1 DEF NoVerdict, Says
    <3>3. QED BY <3>1, <3>2 DEF Given
  <2>4. QED BY <2>1, <2>2, <2>3 DEF Given
<1>2. WithStatus(Outcomes)' = WithStatus(Outcomes) /\ WithStatus({"FAILED"})' = WithStatus({"FAILED"})
  <2>1. \A t \in Tasks : db'.status[t] \in Outcomes <=> db.status[t] \in Outcomes
    OBVIOUS
  <2>2. \A t \in Tasks : db'.status[t] = "FAILED" <=> db.status[t] = "FAILED"
    BY DEF Outcomes
  <2>3. QED BY <2>1, <2>2 DEF WithStatus
<1>3. Number("FAILED")' = Number("FAILED")
  BY <1>2 DEF Number
<1>4. QED BY <1>1, <1>2, <1>3 DEF VerdictFits

-----------------------------------------------------------------------------
(***************************************************************************)
(* The invariant.                                                          *)
(***************************************************************************)

LEMMA InitLast == ASSUME Init, Inv PROVE LastInv
<1>1. /\ db.status = [t \in Tasks |-> IF Deps[t] = {} THEN "READY" ELSE "PENDING"]
      /\ db.unmetDeps = [t \in Tasks |-> Cardinality(Deps[t])]
      /\ db.ready = {t \in Tasks : Deps[t] = {}}
      /\ db.interview = "RUNNING" /\ db.job = "RUNNING" /\ db.counted = FALSE
      /\ \A v \in Verdicts : db.jobTally[v] = 0
      /\ \A o \in Outcomes : db.tally[o] = 0
  BY DEF Init
<1>2. \A x \in Processes : todo[x] = <<>>
  BY DEF Init
<1>3. Unbroken
  <2>1. Closing(<<>>)
    BY NoBooks DEF Closing, TellsAll, ReadyFollows, Followed
  <2>2. up # {}
    BY DEF Init
  <2>3. whole = TRUE
    BY DEF Init
  <2>4. QED BY <1>2, <2>1, <2>2, <2>3 DEF Unbroken
<1>4. UnmetExact
  <2>1. SUFFICES ASSUME NEW t \in Tasks
                 PROVE  db.unmetDeps[t] <= Cardinality(Unsatisfied(t)) + Cardinality(Tellers(t))
    BY DEF UnmetExact
  <2>2. Unsatisfied(t) = Deps[t]
    <3>1. \A d \in Deps[t] : db.status[d] \in {"READY", "PENDING"}
      BY <1>1, DepsAreTasks
    <3>2. QED BY <3>1 DEF Unsatisfied, Satisfied
  <2>3. db.unmetDeps[t] = Cardinality(Unsatisfied(t))
    BY <1>1, <2>2
  <2>4. Cardinality(Unsatisfied(t)) \in Nat /\ Cardinality(Tellers(t)) \in Nat
    BY UnsatisfiedWaits
  <2>5. QED BY <2>3, <2>4
<1>5. Placed
  <2>1. SUFFICES ASSUME NEW t \in Tasks, t \notin db.ready
                 PROVE  db.status[t] = "PENDING" /\ db.unmetDeps[t] > 0
    BY DEF Placed
  <2>2. Deps[t] # {}
    BY <1>1, <2>1
  <2>3. IsFiniteSet(Deps[t])
    BY RecoveryConstants, FS_Subset
  <2>4. Cardinality(Deps[t]) # 0 /\ Cardinality(Deps[t]) \in Nat
    BY <2>2, <2>3, FS_EmptySet, FS_CardinalityType
  <2>5. db.unmetDeps[t] = Cardinality(Deps[t]) /\ db.status[t] = "PENDING"
    BY <1>1, <2>2
  <2>6. QED BY <2>4, <2>5
<1>6. LastOne
  <2>1. TaskCount \in Nat \ {0}
    BY TaskCountType
  <2>2. ~IsDone
    BY <1>1, <2>1 DEF IsDone, TaskCount, Outcomes
  <2>3. QED BY <1>1, <2>2 DEF LastOne
<1>7. VerdictFits
  <2>1. \A v \in Verdicts : ~Given(v)
    BY <1>1, <1>2, NoBooks DEF Given, Verdicts
  <2>2. QED BY <2>1 DEF VerdictFits
<1>8. QED BY <1>3, <1>4, <1>5, <1>6, <1>7 DEF LastInv

LEMMA NextLast ==
  ASSUME Inv, Inv', TallyInv, LastInv, [Next]_vars,
         \A t \in Tasks : db.status[t] \in Outcomes => db'.status[t] = db.status[t]
  PROVE  LastInv'
<1>1. SUFFICES ASSUME crashes' = 0
               PROVE  Unbroken' /\ UnmetExact' /\ Placed' /\ LastOne' /\ VerdictFits'
  BY DEF LastInv
<1>2. crashes \in Nat
  BY RecoveryConstants DEF Inv, RecoveryType
<1>3. CASE Next
  <2>1. PICK p \in Processes : Process(p)
    BY <1>3 DEF Next
  <2>2. crashes = 0 /\ ~Crash(p)
    <3>1. Crash(p) => crashes' # 0
      BY <1>2 DEF Crash
    <3>2. Process(p) => crashes' = crashes \/ Crash(p)
      BY DEF Process, PopReady, Claim, Move, OnTaskCompleted, OnTaskSkipped, OnTaskFailed, Report, Call, Recover
    <3>3. QED BY <1>1, <2>1, <3>1, <3>2
  <2>3. Unbroken /\ UnmetExact /\ Placed /\ LastOne /\ VerdictFits
    BY <2>2 DEF LastInv
  <2>4. ~Recover(p)
    BY <2>3 DEF Unbroken, Recover
  <2>5. ASSUME NEW t \in Tasks, PopReady(p, t)
        PROVE  Unbroken' /\ UnmetExact' /\ Placed' /\ LastOne' /\ VerdictFits'
    <3>1. Unbroken' /\ UnmetExact' /\ Placed'
      BY <2>3, <2>5, PopReadyWaits
    <3>2. db' = [db EXCEPT !.ready = @ \ {t}] /\ todo' = todo
      BY <2>5 DEF PopReady
    <3>3. db \in StorageType
      BY DEF Inv, RecoveryType
    <3>4. /\ db'.tally = db.tally /\ db'.interview = db.interview /\ db'.counted = db.counted
          /\ db'.job = db.job /\ db'.jobTally = db.jobTally /\ db'.status = db.status
      BY <3>2, <3>3 DEF StorageType
    <3>5. LastOne'
      BY <2>3, <3>2, <3>4, NoCallLastOne
    <3>6. VerdictFits'
      BY <2>3, <3>2, <3>4, NoCallVerdicts
    <3>7. QED BY <3>1, <3>5, <3>6
  <2>6. ASSUME NEW t \in Tasks, Claim(p, t)
        PROVE  Unbroken' /\ UnmetExact' /\ Placed' /\ LastOne' /\ VerdictFits'
    <3>1. Unbroken' /\ UnmetExact' /\ Placed'
      BY <2>3, <2>6, ClaimWaits
    <3>2. PICK from \in Claimed \cup {"READY"}, to \in Claimed : Move(p, t, from, to)
      BY <2>6 DEF Claim, Claimed
    <3>3. db' = [db EXCEPT !.status[t] = to] /\ db.status[t] = from /\ todo' = todo
      BY <3>2 DEF Move
    <3>4. db \in StorageType
      BY DEF Inv, RecoveryType
    <3>5. /\ db'.tally = db.tally /\ db'.interview = db.interview /\ db'.counted = db.counted
          /\ db'.job = db.job /\ db'.jobTally = db.jobTally
          /\ db'.status = [db.status EXCEPT ![t] = to]
      BY <3>3, <3>4 DEF StorageType
    <3>6. \A x \in Tasks : \A o \in Outcomes : db'.status[x] = o <=> db.status[x] = o
      BY <3>2, <3>3, <3>4, <3>5 DEF StorageType, Claimed, Outcomes
    <3>7. LastOne'
      BY <2>3, <3>3, <3>5, NoCallLastOne
    <3>8. VerdictFits'
      BY <2>3, <3>3, <3>5, <3>6, NoCallVerdicts
    <3>9. QED BY <3>1, <3>7, <3>8
  <2>7. ASSUME NEW t \in Tasks, OnTaskCompleted(p, t) \/ OnTaskSkipped(p, t) \/ OnTaskFailed(p, t)
        PROVE  Unbroken' /\ UnmetExact' /\ Placed' /\ LastOne' /\ VerdictFits'
    <3>1. PICK from \in {"RUNNING", "READY"} : \E L :
            Report(p, t, from, L) /\ Closing(L) /\ NoVerdict(L) /\ t \in Owned(L)
      BY <2>7, ReportCloses
    <3>2. PICK L : Report(p, t, from, L) /\ Closing(L) /\ NoVerdict(L) /\ t \in Owned(L)
      BY <3>1
    <3>3. Unbroken' /\ UnmetExact' /\ Placed'
      BY <2>3, <3>2, ReportWaits
    <3>4. todo \in [Processes -> Seq(Calls)]
      BY DEF Inv, RecoveryType
    <3>5. db' = db /\ todo[p] = <<>> /\ todo'[p] = L /\ \A x \in Processes \ {p} : todo'[x] = todo[x]
      BY <3>2, <3>4 DEF Report, Idle
    <3>6. LastOne'
      <4>1. \A x \in Processes : todo[x] = <<>> \/ todo'[x] = todo[x]
        BY <3>5
      <4>2. QED BY <2>3, <3>5, <4>1, NoCallLastOne
    <3>7. VerdictFits'
      <4>1. \A x \in Processes : todo'[x] = todo[x] \/ NoVerdict(todo'[x])
        BY <3>2, <3>5
      <4>2. QED BY <2>3, <3>5, <4>1, NoCallVerdicts
    <3>8. QED BY <3>3, <3>6, <3>7
  <2>8. ASSUME Call(p) PROVE Unbroken' /\ UnmetExact' /\ Placed' /\ LastOne' /\ VerdictFits'
    <3>1. Unbroken' /\ UnmetExact' /\ Placed'
      BY <2>3, <2>8, CallWaits
    <3>2. LastOne'
      BY <2>3, <2>8, CallLastOne
    <3>3. VerdictFits'
      BY <2>3, <2>8, CallVerdicts DEF TallyInv
    <3>4. QED BY <3>1, <3>2, <3>3
  <2>9. QED BY <2>1, <2>2, <2>4, <2>5, <2>6, <2>7, <2>8 DEF Process
<1>4. CASE UNCHANGED vars
  <2>1. db' = db /\ hand' = hand /\ todo' = todo /\ up' = up /\ crashes' = crashes /\ whole' = whole
    BY <1>4 DEF vars
  <2>2. Unbroken /\ UnmetExact /\ Placed /\ LastOne /\ VerdictFits
    BY <1>1, <2>1 DEF LastInv
  <2>3. Unbroken'
    BY <2>1, <2>2 DEF Unbroken
  <2>4. UnmetExact'
    BY <2>1, <2>2 DEF UnmetExact, Unsatisfied, Tellers
  <2>5. Placed'
    BY <2>1, <2>2 DEF Placed, Has
  <2>6. LastOne'
    BY <2>1, <2>2, NoCallLastOne
  <2>7. VerdictFits'
    BY <2>1, <2>2, NoCallVerdicts
  <2>8. QED BY <2>3, <2>4, <2>5, <2>6, <2>7
<1>5. QED BY <1>3, <1>4

LEMMA LastFinalizes ==
  ASSUME Inv, TallyInv, LastInv
  PROVE  FinalizedByLast
<1>1. SUFFICES ASSUME crashes = 0
               PROVE  /\ Quiet => ReadyRebuilt /\ FinalRebuilt
                      /\ db.jobTally["COMPLETED"] + db.jobTally["COMPLETED_WITH_FAILURES"] <= 1
                      /\ Cardinality(WithStatus({"FAILED"})) <= 1 /\ db.interview # "RUNNING" =>
                           /\ WithStatus(Outcomes) = Tasks
                           /\ (db.interview = "COMPLETED") = (WithStatus({"FAILED"}) = {})
                           /\ db.job \in {"RUNNING", db.interview}
  BY DEF FinalizedByLast
<1>2. Unbroken /\ UnmetExact /\ Placed /\ LastOne /\ VerdictFits
  BY <1>1 DEF LastInv
<1>3. db \in StorageType
  BY DEF Inv, RecoveryType
<1>4. ASSUME Quiet PROVE ReadyRebuilt /\ FinalRebuilt
  <2>1. \A x \in Processes : todo[x] = <<>>
    BY <1>4 DEF Quiet, Idle, Inv, RecoveryType
  <2>2. ASSUME NEW t \in Tasks, db.status[t] \notin Outcomes, \A d \in Deps[t] : db.status[d] \in Satisfied
        PROVE  t \in db.ready \cup Held
    <3>1. Unsatisfied(t) = {} /\ Tellers(t) = {}
      BY <2>1, <2>2, NoCalls DEF Unsatisfied, Tellers
    <3>2. Cardinality(Unsatisfied(t)) = 0 /\ Cardinality(Tellers(t)) = 0
      BY <3>1, FS_EmptySet
    <3>3. db.unmetDeps[t] <= 0 /\ db.unmetDeps[t] \in Int
      BY <1>2, <1>3, <3>2 DEF UnmetExact, StorageType
    <3>4. t \in db.ready \/ \E x \in Processes : Has(x, t)
      BY <1>2, <2>2, <3>3 DEF Placed
    <3>5. \A x \in Processes : Has(x, t) => t \in hand[x]
      BY <2>1, NoCalls DEF Has
    <3>6. QED BY <3>4, <3>5 DEF Held
  <2>3. ASSUME WithStatus(Outcomes) = Tasks PROVE db.interview # "RUNNING" /\ db.job # "RUNNING"
    <3>1. \A A : ~Due(A)
      BY <2>1, NoBooks DEF Due
    <3>2. \A o \in Outcomes : Owed(o) = 0 /\ ~Rewritten(o)
      BY <2>1, QuietOwes
    <3>3. \A o \in Outcomes : db.tally[o] \in Nat /\ Number(o) \in Nat
      BY <1>3, NumberType DEF StorageType
    <3>4. \A o \in Outcomes : db.tally[o] >= Number(o)
      <4>1. \A o \in Outcomes \ {"BLOCKED"} : db.tally[o] + Owed(o) = Number(o)
        BY <1>2, <3>2 DEF TallyInv, CountersInv, Balanced, Unbroken
      <4>2. "BLOCKED" \in Outcomes
        BY DEF Outcomes
      <4>3. Number("BLOCKED") <= db.tally["BLOCKED"] + Owed("BLOCKED")
        BY <1>2, <3>2, <4>2 DEF TallyInv, CountersInv, BlockedBalanced, Unbroken
      <4>4. QED BY <3>2, <3>3, <4>1, <4>2, <4>3
    <3>5. TaskCount = Number("COMPLETED") + Number("SKIPPED") + Number("FAILED") + Number("BLOCKED")
      BY <2>3, NumbersAdd DEF TaskCount
    <3>6. IsDone
      <4>1. {"COMPLETED", "SKIPPED", "FAILED", "BLOCKED"} \subseteq Outcomes
        BY DEF Outcomes
      <4>2. db.tally["COMPLETED"] + db.tally["SKIPPED"] + db.tally["FAILED"] + db.tally["BLOCKED"] >= TaskCount
        BY <3>3, <3>4, <3>5, <4>1
      <4>3. QED BY <4>2 DEF IsDone, TaskCount
    <3>7. QED BY <1>2, <3>1, <3>6 DEF LastOne
  <2>4. QED BY <2>2, <2>3 DEF ReadyRebuilt, FinalRebuilt
<1>5. db.jobTally["COMPLETED"] + db.jobTally["COMPLETED_WITH_FAILURES"] <= 1
  <2>1. db.jobTally["COMPLETED"] \in Nat /\ db.jobTally["COMPLETED_WITH_FAILURES"] \in Nat /\ OwedJobs \in Nat
    BY <1>3, OwedTypes DEF StorageType, Verdicts
  <2>2. (IF db.counted THEN 1 ELSE 0) \in 0..1
    OBVIOUS
  <2>3. QED BY <2>1, <2>2 DEF TallyInv, RecordsInv, JobCounted
<1>6. ASSUME Cardinality(WithStatus({"FAILED"})) <= 1, db.interview # "RUNNING"
      PROVE  /\ WithStatus(Outcomes) = Tasks
             /\ (db.interview = "COMPLETED") = (WithStatus({"FAILED"}) = {})
             /\ db.job \in {"RUNNING", db.interview}
  <2>1. \A v \in Verdicts : Given(v) =>
          WithStatus(Outcomes) = Tasks /\ (v = "COMPLETED" <=> WithStatus({"FAILED"}) = {})
    BY <1>2, <1>6 DEF VerdictFits, Number
  <2>2. db.interview \in Verdicts /\ (db.job = "RUNNING" \/ db.job \in Verdicts)
    BY <1>3, <1>6 DEF StorageType, States
  <2>3. Given(db.interview) /\ Given(db.job)
    BY DEF Given
  <2>4. WithStatus(Outcomes) = Tasks /\ (db.interview = "COMPLETED" <=> WithStatus({"FAILED"}) = {})
    BY <2>1, <2>2, <2>3
  <2>5. CASE db.job \in Verdicts
    <3>1. db.job = "COMPLETED" <=> WithStatus({"FAILED"}) = {}
      BY <2>1, <2>3, <2>5
    <3>2. db.job = db.interview
      BY <2>2, <2>4, <2>5, <3>1 DEF Verdicts
    <3>3. QED BY <2>4, <3>2
  <2>6. QED BY <2>2, <2>4, <2>5
<1>7. QED BY <1>4, <1>5, <1>6

\* Whatever the tasks, the processes and the order of their calls: as long as none dies,
\* what may be asked is asked, the last one out makes interview and job final, and the
\* interview counts once; unless failures met, no one makes them final before, and the
\* verdict is right.
THEOREM LastOneFinalizes == Spec => []FinalizedByLast
<1>1. Init => TallyInv /\ LastInv
  BY InitInv, InitTallies, InitLast
<1>2. Inv /\ TallyInv /\ LastInv /\ [Next]_vars => TallyInv' /\ LastInv'
  BY NextInv, NextTallies, NextLast
<1>3. Inv /\ TallyInv /\ LastInv => FinalizedByLast
  BY LastFinalizes
<1>4. QED BY <1>1, <1>2, <1>3, RecoveryInvariant, PTL DEF Spec
=============================================================================
