--------------------------- MODULE CrashRecovery ---------------------------
(***************************************************************************)
(* Processes that run one job on one storage, and die: the handlers of the *)
(* job service write by write, and recover_job of                          *)
(* src/edsl/runner/service.py in the process that follows.  The storage is *)
(* one that survives and can be shared (SQLAlchemyStorage, RedisStorage):  *)
(* it keeps every write made before a crash, also the volatile ones, and a *)
(* single call of it is atomic.                                            *)
(*                                                                         *)
(* JobService has a handler in one action; here it is the sequence of its  *)
(* storage calls, todo.  What a call finds may decide which follow it      *)
(* (Following).  Handlers of several processes interleave between any two  *)
(* calls, and a process may die between any two of its own.  A job of one  *)
(* interview, without direct answers.                                      *)
(*                                                                         *)
(* A definition introduced as a mutated form of the one that follows it is *)
(* used by no action: it is there to show that the properties notice it.   *)
(***************************************************************************)
EXTENDS Integers, Sequences, FiniteSets, SequencesExt

CONSTANTS
  Tasks,
  Deps,         \* task -> tasks it depends on
  MaxAttempts,  \* max_attempts of the retry policy
  Processes,
  MaxCrashes    \* bound: how many processes die

ASSUME RecoveryConstants ==
  /\ IsFiniteSet(Tasks) /\ Tasks # {}
  /\ Deps \in [Tasks -> SUBSET Tasks]
  /\ MaxAttempts \in Nat \ {0} /\ MaxCrashes \in Nat
  /\ IsFiniteSet(Processes)

VARIABLES
  db,      \* the storage: what JobService has in variables of its own
  hand,    \* tasks each process has popped and not yet reported
  todo,    \* storage calls its running handler has still to make
  up,      \* the processes that run
  crashes,
  whole    \* has no process died since the job was last recovered?

vars == <<db, hand, todo, up, crashes, whole>>

Satisfied == {"COMPLETED", "SKIPPED"}
Outcomes  == {"COMPLETED", "SKIPPED", "FAILED", "BLOCKED"}
Claimed   == {"RENDERING", "QUEUED", "RUNNING"}
Status    == {"PENDING", "READY"} \cup Claimed \cup Outcomes
Verdicts  == {"COMPLETED", "COMPLETED_WITH_FAILURES"}
States    == {"RUNNING"} \cup Verdicts

\* Failures that meet count a blocked task once each.
MaxCount == Cardinality(Tasks) * Cardinality(Tasks)

Storage ==
  [status : [Tasks -> Status], unmetDeps : [Tasks -> Nat], ready : SUBSET Tasks,
   attempts : [Tasks -> 0..(MaxAttempts + MaxCrashes)], answers : SUBSET Tasks,
   tally : [Outcomes -> 0..MaxCount], interview : States, counted : BOOLEAN,
   jobTally : [Verdicts -> 0..1], job : States]

TypeOK ==
  /\ db \in Storage
  /\ hand \in [Processes -> SUBSET Tasks]
  /\ up \subseteq Processes /\ crashes \in 0..MaxCrashes /\ whole \in BOOLEAN
  /\ \A p \in Processes \ up : hand[p] = {} /\ todo[p] = <<>>

\* Any of the processes run from the start.
Init ==
  /\ db = [status    |-> [t \in Tasks |-> IF Deps[t] = {} THEN "READY" ELSE "PENDING"],
           unmetDeps |-> [t \in Tasks |-> Cardinality(Deps[t])],
           ready     |-> {t \in Tasks : Deps[t] = {}},
           attempts  |-> [t \in Tasks |-> 0],
           answers   |-> {},
           tally     |-> [o \in Outcomes |-> 0],
           interview |-> "RUNNING", counted |-> FALSE,
           jobTally  |-> [v \in Verdicts |-> 0], job |-> "RUNNING"]
  /\ hand = [p \in Processes |-> {}]
  /\ todo = [p \in Processes |-> <<>>]
  /\ up \in (SUBSET Processes) \ {{}}
  /\ crashes = 0
  /\ whole = TRUE

-----------------------------------------------------------------------------
(***************************************************************************)
(* The storage calls of the handlers.                                      *)
(***************************************************************************)

SetStatus(t, s)    == [op |-> "status", task |-> t, to |-> s]
AddToReady(t)      == [op |-> "ready", task |-> t]
StoreAnswer(t)     == [op |-> "answer", task |-> t]
Decrement(t)       == [op |-> "decrement", task |-> t]
CountAttempt(t)    == [op |-> "attempt", task |-> t]
Propagate(t)       == [op |-> "propagate", task |-> t]    \* reads
Block(S)           == [op |-> "block", tasks |-> S]
Increment(o, n)    == [op |-> "increment", outcome |-> o, by |-> n]
WriteCounter(o, n) == [op |-> "counter", outcome |-> o, to |-> n]
Finalize           == [op |-> "finalize"]                 \* reads
SetInterview(v)    == [op |-> "interview", to |-> v]
MarkInterview      == [op |-> "mark"]                     \* reads
CountInterview(v)  == [op |-> "count", as |-> v]
IncrementJob(v)    == [op |-> "job", as |-> v]
FinalizeJob        == [op |-> "finalizeJob"]              \* reads
SetJob(v)          == [op |-> "setJob", to |-> v]
RequeueTask(t)     == [op |-> "requeue", task |-> t]      \* reads

Dependents(t) == {d \in Tasks : t \in Deps[d]}

\* All that depend on t, directly or not, and have no outcome.
NewlyBlocked(t) ==
  {d \in Tasks : /\ db.status[d] \notin Outcomes
                 /\ \A S \in SUBSET Tasks :
                      (\A x \in Tasks : (t \in Deps[x] \/ Deps[x] \cap S # {}) => x \in S) => d \in S}

IsDone == db.tally["COMPLETED"] + db.tally["SKIPPED"] + db.tally["FAILED"] + db.tally["BLOCKED"]
            >= Cardinality(Tasks)
Verdict == IF db.tally["FAILED"] + db.tally["BLOCKED"] = 0
           THEN "COMPLETED" ELSE "COMPLETED_WITH_FAILURES"
JobVerdict == IF db.jobTally["COMPLETED_WITH_FAILURES"] = 0
              THEN "COMPLETED" ELSE "COMPLETED_WITH_FAILURES"

\* The storage after call w; those that read leave it as it is.
Written(w) ==
  CASE w.op = "status"    -> [db EXCEPT !.status[w.task] = w.to]
    [] w.op = "ready"     -> [db EXCEPT !.ready = @ \cup {w.task}]
    [] w.op = "answer"    -> [db EXCEPT !.answers = @ \cup {w.task}]
    [] w.op = "decrement" -> [db EXCEPT !.unmetDeps[w.task] = @ - 1]
    [] w.op = "attempt"   -> [db EXCEPT !.attempts[w.task] = @ + 1]
    [] w.op = "block"     -> [db EXCEPT !.status =
                                [t \in Tasks |-> IF t \in w.tasks THEN "BLOCKED" ELSE @[t]]]
    [] w.op = "increment" -> [db EXCEPT !.tally[w.outcome] = @ + w.by]
    [] w.op = "counter"   -> [db EXCEPT !.tally[w.outcome] = w.to]
    [] w.op = "interview" -> [db EXCEPT !.interview = w.to]
    [] w.op = "count"     -> [db EXCEPT !.counted = TRUE]
    [] w.op = "job"       -> [db EXCEPT !.jobTally[w.as] = @ + 1]
    [] w.op = "setJob"    -> [db EXCEPT !.job = w.to]
    [] OTHER              -> db

\* Mutated form: the interview is counted whether or not it was counted before.
CountAgain(v) == <<IncrementJob(v), FinalizeJob>>

CountOnce(v) == IF db.counted THEN <<>> ELSE <<IncrementJob(v), FinalizeJob>>

\* _requeue_task.
Requeue(t) ==
  IF \A d \in Deps[t] : db.status[d] \in Satisfied
  THEN <<SetStatus(t, "READY"), AddToReady(t)>> ELSE <<SetStatus(t, "PENDING")>>

\* The calls that follow from what w found.
Following(w) ==
  CASE w.op = "decrement" /\ db.unmetDeps[w.task] = 1 ->
         <<SetStatus(w.task, "READY"), AddToReady(w.task)>>
    [] w.op = "propagate" /\ NewlyBlocked(w.task) # {} ->
         <<Block(NewlyBlocked(w.task)), Increment("BLOCKED", Cardinality(NewlyBlocked(w.task))), Finalize>>
    [] w.op = "finalize" /\ IsDone -> <<SetInterview(Verdict)>>
    [] w.op = "mark" /\ db.interview # "RUNNING" -> <<CountInterview(db.interview)>>
    [] w.op = "count" -> CountOnce(w.as)
    [] w.op = "requeue" -> Requeue(w.task)
    [] w.op = "finalizeJob" /\ (\E v \in Verdicts : db.jobTally[v] > 0) -> <<SetJob(JobVerdict)>>
    [] OTHER -> <<>>

Call(p) ==
  /\ todo[p] # <<>>
  /\ db' = Written(Head(todo[p]))
  /\ todo' = [todo EXCEPT ![p] = Following(Head(@)) \o Tail(@)]
  /\ UNCHANGED <<hand, up, crashes, whole>>

-----------------------------------------------------------------------------
(***************************************************************************)
(* What a process does with a task.  A handler starts when the one before  *)
(* it has made its last call.                                              *)
(***************************************************************************)

Idle(p) == p \in up /\ todo[p] = <<>>

\* Mutated form: the task is looked up in the ready set and not taken out.
PopReadyKept(p, t) ==
  /\ Idle(p) /\ t \in db.ready
  /\ hand' = [hand EXCEPT ![p] = @ \cup {t}]
  /\ UNCHANGED <<db, todo, up, crashes, whole>>

PopReady(p, t) ==
  /\ Idle(p) /\ t \in db.ready
  /\ db' = [db EXCEPT !.ready = @ \ {t}]
  /\ hand' = [hand EXCEPT ![p] = @ \cup {t}]
  /\ UNCHANGED <<todo, up, crashes, whole>>

Move(p, t, from, to) ==
  /\ Idle(p) /\ t \in hand[p] /\ db.status[t] = from
  /\ db' = [db EXCEPT !.status[t] = to]
  /\ UNCHANGED <<hand, todo, up, crashes, whole>>

Claim(p, t) ==
  \/ Move(p, t, "READY", "RENDERING")
  \/ Move(p, t, "RENDERING", "QUEUED")
  \/ Move(p, t, "QUEUED", "RUNNING")

Report(p, t, from, calls) ==
  /\ Idle(p) /\ t \in hand[p] /\ db.status[t] = from
  /\ todo' = [todo EXCEPT ![p] = calls]
  /\ hand' = [hand EXCEPT ![p] = @ \ {t}]
  /\ UNCHANGED <<db, up, crashes, whole>>

NotifyDependents(t) == SetToSeq({Decrement(d) : d \in Dependents(t)})
MarkTask(o) == <<Increment(o, 1), Finalize, MarkInterview>>

OnTaskCompleted(p, t) ==
  Report(p, t, "RUNNING", <<StoreAnswer(t), SetStatus(t, "COMPLETED")>>
                         \o NotifyDependents(t) \o MarkTask("COMPLETED"))

\* Mutated form: the dependents are told before the status is set.
OnTaskSkippedLate(p, t) ==
  Report(p, t, "READY", NotifyDependents(t) \o <<SetStatus(t, "SKIPPED")>> \o MarkTask("SKIPPED"))

OnTaskSkipped(p, t) ==
  Report(p, t, "READY", <<SetStatus(t, "SKIPPED")>> \o NotifyDependents(t) \o MarkTask("SKIPPED"))

\* Mutated form: the failure is recorded before the policy is looked up.
OnTaskFailedRecordedFirst(p, t) ==
  Report(p, t, "RUNNING",
         <<SetStatus(t, "FAILED"), CountAttempt(t)>>
           \o IF db.attempts[t] + 1 < MaxAttempts
              THEN <<SetStatus(t, "READY"), AddToReady(t)>>
              ELSE <<Propagate(t)>> \o MarkTask("FAILED"))

OnTaskFailed(p, t) ==
  Report(p, t, "RUNNING",
         <<CountAttempt(t)>>
           \o IF db.attempts[t] + 1 < MaxAttempts
              THEN <<SetStatus(t, "READY"), AddToReady(t)>>
              ELSE <<SetStatus(t, "FAILED"), Propagate(t)>> \o MarkTask("FAILED"))

-----------------------------------------------------------------------------

Crash(p) ==
  /\ p \in up /\ crashes < MaxCrashes
  /\ up' = up \ {p} /\ crashes' = crashes + 1 /\ whole' = FALSE
  /\ hand' = [hand EXCEPT ![p] = {}] /\ todo' = [todo EXCEPT ![p] = <<>>]
  /\ UNCHANGED db

WithStatus(O) == {t \in Tasks : db.status[t] \in O}

Requeues == SetToSeq({RequeueTask(t) : t \in WithStatus(Claimed)})

\* Mutated form: the blocked tasks are not counted.
RecoverWithoutBlocked(p) ==
  /\ up = {} /\ up' = {p} /\ whole' = TRUE
  /\ todo' = [todo EXCEPT ![p] =
       SetToSeq({WriteCounter(o, Cardinality(WithStatus({o}))) : o \in Outcomes \ {"BLOCKED"}}) \o Requeues]
  /\ UNCHANGED <<db, hand, crashes>>

\* When no process is left, a new one calls recover_job: the four counters of the
\* interview are written from the statuses, then every claimed task is requeued.
Recover(p) ==
  /\ up = {} /\ up' = {p} /\ whole' = TRUE
  /\ todo' = [todo EXCEPT ![p] =
       SetToSeq({WriteCounter(o, Cardinality(WithStatus({o}))) : o \in Outcomes}) \o Requeues]
  /\ UNCHANGED <<db, hand, crashes>>

Process(p) ==
  \/ \E t \in Tasks : \/ PopReady(p, t) \/ Claim(p, t)
                      \/ OnTaskCompleted(p, t) \/ OnTaskSkipped(p, t) \/ OnTaskFailed(p, t)
  \/ Call(p) \/ Crash(p) \/ Recover(p)

Next == \E p \in Processes : Process(p)

Spec == Init /\ [][Next]_vars

-----------------------------------------------------------------------------
(***************************************************************************)
(* Properties.                                                             *)
(***************************************************************************)

\* Whenever the process dies, no task loses its outcome, to a handler that runs again
\* or to the recovery: what has an answer is not asked again.
OutcomeKept ==
  [][\A t \in Tasks : db.status[t] \in Outcomes => db'.status[t] = db.status[t]]_vars

\* No handler is running, and none is left unfinished.
Quiet == whole /\ \A p \in up : Idle(p)

\* A completed task has its answer; and whenever no handler is running, the counters of
\* the interview agree with the statuses, however often processes died and wherever.
\* Only where two failures met may a task be counted as blocked more than once.  (The
\* variables have their types.)
TalliesRecovered ==
  /\ TypeOK
  /\ WithStatus({"COMPLETED"}) \subseteq db.answers
  /\ Quiet => \A o \in Outcomes :
       \/ db.tally[o] = Cardinality(WithStatus({o}))
       \/ /\ o = "BLOCKED" /\ db.tally[o] > Cardinality(WithStatus({o}))
          /\ Cardinality(WithStatus({"FAILED"})) > 1

Held == UNION {hand[p] : p \in Processes}

\* A task is asked only after all it depends on, also when it is requeued and when a
\* handler that told only some dependents is never finished, or still running in
\* another process.
DependenciesRespected ==
  \A t \in Tasks : t \in db.ready \cup Held \/ db.status[t] \in Claimed \cup {"READY"} =>
    \A d \in Deps[t] : db.status[d] \in Satisfied

\* No two processes have the same task, and none is offered again while one has it.
HeldByOne ==
  \A p \in Processes : \A t \in hand[p] :
    t \notin db.ready /\ \A q \in Processes \ {p} : t \notin hand[q]

ReadyRebuilt ==
  \A t \in Tasks :
    db.status[t] \notin Outcomes /\ (\A d \in Deps[t] : db.status[d] \in Satisfied)
      => t \in db.ready \cup Held

FinalRebuilt == WithStatus(Outcomes) = Tasks => db.interview # "RUNNING" /\ db.job # "RUNNING"

\* Without crashes, whatever handlers run at once, what may be asked is asked, the last one
\* out makes interview and job final, and the interview counts once.  Unless failures met,
\* no one makes them final before, and the verdict is right.
FinalizedByLast ==
  crashes = 0 =>
    /\ Quiet => ReadyRebuilt /\ FinalRebuilt
    /\ db.jobTally["COMPLETED"] + db.jobTally["COMPLETED_WITH_FAILURES"] <= 1
    /\ Cardinality(WithStatus({"FAILED"})) <= 1 /\ db.interview # "RUNNING" =>
         /\ WithStatus(Outcomes) = Tasks
         /\ (db.interview = "COMPLETED") = (WithStatus({"FAILED"}) = {})
         /\ db.job \in {"RUNNING", db.interview}

\* What service.py:2687 says: recover_job rebuilds the volatile state.  After it, what
\* may be asked is ready or held by the process, and an interview whose tasks all have
\* an outcome is final, and so is its job.
Rebuilt == Quiet => ReadyRebuilt /\ FinalRebuilt

=============================================================================
