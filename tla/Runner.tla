------------------------------- MODULE Runner -------------------------------
(***************************************************************************)
(* One run of a job: Runner._execute_job_async of src/edsl/runner with its *)
(* direct-answer path, the render loop, the coordinator's queue and the    *)
(* pool of workers, all calling the handlers of JobService.                *)
(*                                                                         *)
(* Everything runs on one event loop: a coroutine gives way only where it  *)
(* awaits.  The main coroutine awaits while a direct answer is computed    *)
(* (pc = "answering") and while it sleeps (pc = "sleeping"); only then do  *)
(* the workers take steps.  In between, the main coroutine's code is cut   *)
(* into steps, one per task it handles, that no worker comes between.      *)
(***************************************************************************)
EXTENDS Integers, FiniteSets, FiniteSetsExt

CONSTANTS
  Tasks, Interviews, InterviewOf, Deps, ErrorTypes, RetryPolicies,
  StopOnException,  \* the flag given to submit_job
  RaiseChoices,     \* the flags in effect for a call (results may override that one)
  DirectTasks,      \* tasks with execution_type other than "llm"
  RuledTasks,       \* tasks for which survey rules may decide to skip
  BrokenRules,      \* tasks whose rules may raise when evaluated
  BrokenPrompts,    \* tasks whose prompts may raise when rendered
  RoutableTasks,    \* tasks whose service and model have a queue
  WorkerErrors,     \* error types _classify_error may give a failed call
  MaxRender,        \* max_tasks of render_ready_tasks
  Workers,
  Calls,            \* bound: how often results is called on the handle
  MaxStreamErrors,  \* bound: how often the interview callback raises
  NoTask

\* A finite job as JobService takes it: dependencies within interviews, none of them empty.
ASSUME JobConstants ==
  /\ IsFiniteSet(Tasks) /\ IsFiniteSet(Interviews) /\ Interviews # {}
  /\ InterviewOf \in [Tasks -> Interviews] /\ Deps \in [Tasks -> SUBSET Tasks]
  /\ \A t \in Tasks : \A d \in Deps[t] : d # t /\ InterviewOf[d] = InterviewOf[t]
  /\ \A i \in Interviews : \E t \in Tasks : InterviewOf[t] = i
  /\ RetryPolicies \in [ErrorTypes -> [retryable : BOOLEAN, max_attempts : Nat]]
  /\ StopOnException \in BOOLEAN
  /\ {"none", "upstream_failure"} \cap ErrorTypes = {}

ASSUME RunnerConstants ==
  /\ RaiseChoices \subseteq BOOLEAN
  /\ DirectTasks \subseteq Tasks /\ RuledTasks \subseteq Tasks
  /\ BrokenRules \subseteq RuledTasks /\ RoutableTasks \subseteq Tasks
  /\ BrokenPrompts \subseteq Tasks \ DirectTasks
  /\ {"direct_answer_error", "no_queue", "rule_error"} \cup WorkerErrors \subseteq ErrorTypes
  /\ MaxRender \in Nat \ {0} /\ Calls \in Nat \ {0} /\ MaxStreamErrors \in Nat
  /\ NoTask \notin Tasks

VARIABLES
  status, unmetDeps, readyTasks, attempts, lastError, batchError, answers,
  tally, interview, counted, jobTally, job, notified,
  pc,        \* where the main coroutine is
  calls,     \* calls of results so far
  raise,     \* stop_on_exception of this call
  raised,    \* whether an earlier call raised
  direct,    \* the direct-answer task it has popped, or NoTask
  registry,  \* tasks with an entry in the DirectAnswerRegistry
  batch,     \* tasks popped by render_ready_tasks and not yet sorted
  rendered,  \* tasks it is rendering or has rendered, not yet enqueued
  queued,    \* tasks in the coordinator's queue
  worker,    \* the task each worker executes, or NoTask
  gone,      \* workers of this run whose coroutine has ended
  streamErrors  \* how often the interview callback raised

JS == INSTANCE JobService

jobServiceVars == <<status, unmetDeps, readyTasks, attempts, lastError, batchError, answers,
                    tally, interview, counted, jobTally, job, notified>>
runnerVars == <<pc, calls, raise, raised, direct, registry, batch, rendered, queued, worker,
                gone, streamErrors>>
vars == <<jobServiceVars, runnerVars>>

Points == {"direct", "deciding", "answering", "failing", "pop", "sort", "render", "enqueue",
           "sleeping", "raising", "done", "raised"}

\* The counters of dependents are numbers only: a task that is completed again may bring
\* one below zero.
TypeOK ==
  /\ JS!RestTypeOK
  /\ unmetDeps \in [Tasks -> Int]
  /\ pc \in Points
  /\ calls \in 1..Calls
  /\ {raise, raised} \subseteq BOOLEAN
  /\ direct \in Tasks \cup {NoTask}
  /\ registry \in SUBSET DirectTasks
  /\ batch \in SUBSET Tasks
  /\ rendered \in SUBSET Tasks
  /\ queued \in SUBSET Tasks
  /\ worker \in [Workers -> Tasks \cup {NoTask}]
  /\ gone \in SUBSET Workers
  /\ streamErrors \in 0..MaxStreamErrors

\* The pool is started and the main coroutine sleeps for a moment.
Init ==
  /\ JS!Init
  /\ pc = "sleeping"
  /\ calls = 1
  /\ raise \in RaiseChoices
  /\ raised = FALSE
  /\ direct = NoTask
  /\ registry = DirectTasks
  /\ batch = {}
  /\ rendered = {}
  /\ queued = {}
  /\ worker = [w \in Workers |-> NoTask]
  /\ gone = {}
  /\ streamErrors = 0

Goto(from, to) ==
  pc = from /\ pc' = to /\ UNCHANGED <<calls, raise, raised, gone, streamErrors>>

\* A handler that finishes an interview calls the interview callback last.  With
\* stream_to_cas that writes a commit, and what the write raises leaves the handler.
StreamRaises ==
  /\ streamErrors < MaxStreamErrors /\ notified' # notified
  /\ streamErrors' = streamErrors + 1

\* The finally clause: the workers are cancelled, and what they held and what was
\* rendered and not enqueued is forgotten.  The coordinator's queue outlives the run.
StopPool ==
  /\ worker' = [w \in Workers |-> NoTask]
  /\ rendered' = {}

\* should_skip_task: what the survey's rules say, and whether they can be evaluated
\* with the answers given so far, is a choice.
MaySkip(t)  == t \in RuledTasks
MayRaise(t) == t \in BrokenRules

-----------------------------------------------------------------------------
(***************************************************************************)
(* _execute_ready_direct_answers.                                          *)
(***************************************************************************)

DirectPop(t) ==
  /\ Goto("direct", "deciding")
  /\ t \in registry
  /\ JS!PopReady(t)
  /\ direct' = t
  /\ UNCHANGED <<registry, batch, rendered, queued, worker>>

\* No task is ready, or the one popped has no entry and is put back.
DirectEnd ==
  /\ Goto("direct", "pop")
  /\ readyTasks = {} \/ \E t \in readyTasks : t \notin registry
  /\ UNCHANGED <<jobServiceVars, direct, registry, batch, rendered, queued, worker>>

DirectSkip ==
  /\ Goto("deciding", "direct")
  /\ MaySkip(direct)
  /\ JS!OnTaskSkipped(direct)
  /\ direct' = NoTask
  /\ registry' = registry \ {direct}
  /\ UNCHANGED <<batch, rendered, queued, worker>>

\* should_skip_task is called outside the try: what it raises ends the run.
DirectRuleRaises ==
  /\ Goto("deciding", "raised")
  /\ MayRaise(direct)
  /\ StopPool
  /\ UNCHANGED <<jobServiceVars, direct, registry, batch, queued>>

DirectExecute ==
  /\ Goto("deciding", "answering")
  /\ UNCHANGED <<jobServiceVars, direct, registry, batch, rendered, queued, worker>>

\* The call of on_task_completed is inside the try: when the callback raises, the
\* completed task goes on to on_task_failed.  (Bound: once, as the first such error.  The
\* next time it could block a task that is ready, and every status may follow.)
DirectUnstreamed ==
  /\ pc = "answering" /\ pc' = "failing"
  /\ streamErrors = 0
  /\ JS!OnTaskCompleted(direct)
  /\ StreamRaises
  /\ UNCHANGED <<calls, raise, raised, gone, direct, registry, batch, rendered, queued, worker>>

DirectAnswered ==
  /\ Goto("answering", "direct")
  /\ JS!OnTaskCompleted(direct)
  /\ direct' = NoTask
  /\ registry' = registry \ {direct}
  /\ UNCHANGED <<batch, rendered, queued, worker>>

\* A task that was just completed is retried or failed all the same.
FailDirect ==
  /\ pc \in {"answering", "failing"}
  /\ Goto(pc, IF raise THEN "raising" ELSE "direct")
  /\ \/ JS!RetryTask(direct, "direct_answer_error")
     \/ JS!FailTask(direct, "direct_answer_error", FALSE)

\* Mutated form: the entry is removed even when the task will be retried.
DirectFailedDropsEntry ==
  /\ FailDirect
  /\ direct' = NoTask
  /\ registry' = registry \ {direct}
  /\ UNCHANGED <<batch, rendered, queued, worker>>

DirectFailed ==
  /\ FailDirect
  /\ direct' = NoTask
  /\ registry' = IF status'[direct] = "READY" THEN registry ELSE registry \ {direct}
  /\ UNCHANGED <<batch, rendered, queued, worker>>

DirectStep ==
  \/ \E t \in Tasks : DirectPop(t)
  \/ DirectEnd \/ DirectSkip \/ DirectRuleRaises \/ DirectExecute
  \/ DirectAnswered \/ DirectUnstreamed \/ DirectFailed

-----------------------------------------------------------------------------
(***************************************************************************)
(* render_ready_tasks: pop a batch, sort it, render what is left.          *)
(***************************************************************************)

PopOne(t) ==
  /\ Goto("pop", "pop")
  /\ Cardinality(batch) < MaxRender
  /\ JS!PopReady(t)
  /\ batch' = batch \cup {t}
  /\ UNCHANGED <<direct, registry, rendered, queued, worker>>

PopEnd ==
  /\ Goto("pop", "sort")
  /\ readyTasks = {} \/ Cardinality(batch) = MaxRender
  /\ UNCHANGED <<jobServiceVars, direct, registry, batch, rendered, queued, worker>>

\* Whatever becomes of t, it leaves the batch and the sorting goes on.
Sort(t) ==
  /\ Goto("sort", "sort")
  /\ t \in batch
  /\ batch' = batch \ {t}
  /\ UNCHANGED <<direct, registry, queued, worker>>

\* Step 5b, when the others are sorted.
SortDirect(t) ==
  /\ Sort(t) /\ batch \subseteq DirectTasks
  /\ JS!AddToReady(t)
  /\ UNCHANGED rendered

SortSkip(t) ==
  /\ Sort(t) /\ t \notin DirectTasks /\ MaySkip(t)
  /\ JS!OnTaskSkipped(t)
  /\ UNCHANGED rendered

\* Here what should_skip_task raises fails the task, for good.
SortRuleRaises(t) ==
  /\ Sort(t) /\ t \notin DirectTasks /\ MayRaise(t)
  /\ JS!OnTaskFailed(t, "rule_error", TRUE)
  /\ UNCHANGED rendered

SortRender(t) ==
  /\ Sort(t) /\ t \notin DirectTasks
  /\ rendered' = rendered \cup {t}
  /\ UNCHANGED jobServiceVars

SortEnd ==
  /\ Goto("sort", "render")
  /\ batch = {}
  /\ UNCHANGED <<jobServiceVars, direct, registry, batch, rendered, queued, worker>>

\* Step 6: the whole batch is marked RENDERING.
MarkRendering(t) ==
  /\ Goto("render", "render")
  /\ t \in rendered
  /\ JS!StartRendering(t)
  /\ UNCHANGED <<direct, registry, batch, rendered, queued, worker>>

\* No try surrounds step 9: what a prompt raises ends the run, and the status of
\* every task of the batch is still RENDERING.
RenderRaises ==
  /\ Goto("render", "raised")
  /\ rendered \cap BrokenPrompts # {} /\ \A t \in rendered : status[t] = "RENDERING"
  /\ StopPool
  /\ UNCHANGED <<jobServiceVars, direct, registry, batch, queued>>

\* Step 10: the whole batch is marked QUEUED.
RenderOne(t) ==
  /\ Goto("render", "render")
  /\ t \in rendered /\ \A x \in rendered : status[x] # "READY"
  /\ JS!EnqueueTask(t)
  /\ UNCHANGED <<direct, registry, batch, rendered, queued, worker>>

RenderEnd ==
  /\ Goto("render", "enqueue")
  /\ \A t \in rendered : status[t] = "QUEUED"
  /\ UNCHANGED <<jobServiceVars, direct, registry, batch, rendered, queued, worker>>

RenderStep ==
  \/ \E t \in Tasks : PopOne(t) \/ SortDirect(t) \/ SortSkip(t) \/ SortRuleRaises(t)
                       \/ SortRender(t) \/ MarkRendering(t) \/ RenderOne(t)
  \/ PopEnd \/ SortEnd \/ RenderRaises \/ RenderEnd

-----------------------------------------------------------------------------
(***************************************************************************)
(* The main loop: enqueue what was rendered, look for failures, for the    *)
(* end, sleep.                                                             *)
(***************************************************************************)

Enqueue(t) ==
  /\ Goto("enqueue", "enqueue")
  /\ t \in rendered \cap RoutableTasks
  /\ rendered' = rendered \ {t}
  /\ queued' = queued \cup {t}
  /\ UNCHANGED <<jobServiceVars, direct, registry, batch, worker>>

NoQueue(t) ==
  /\ Goto("enqueue", IF raise THEN "raising" ELSE "enqueue")
  /\ t \in rendered \ RoutableTasks
  /\ JS!OnTaskFailed(t, "no_queue", FALSE)
  /\ rendered' = rendered \ {t}
  /\ UNCHANGED <<direct, registry, batch, queued, worker>>

\* get_progress: finished tasks are counted by the interviews' counters, ready
\* and running ones by the ready set and the statuses, and the rest is pending.
CountedAs(o) == MapThenSumSet(LAMBDA i : tally[i][o], Interviews)
Accounted    == MapThenSumSet(CountedAs, JS!Outcomes)
Running      == Cardinality({t \in Tasks : status[t] \in JS!Claimed})
Pending      == Cardinality(Tasks) - Accounted - Cardinality(readyTasks) - Running

\* failed_tasks > 0, and get_first_failed_task finds one of them.
FailureSeen == CountedAs("FAILED") > 0 /\ \E t \in Tasks : status[t] = "FAILED"

\* Mutated form: tasks on their way through render, queue and worker are forgotten.
AllDoneWhenNoneReady == readyTasks = {}

AllDone == readyTasks = {} /\ Running = 0 /\ Pending <= 0

\* Mutated form: the end is looked for before the failures.
CheckDoneFirst ==
  /\ pc = "enqueue" /\ rendered = {}
  /\ pc' = IF AllDone THEN "done"
           ELSE IF raise /\ FailureSeen THEN "raising" ELSE "sleeping"
  /\ UNCHANGED <<jobServiceVars, calls, raise, raised, gone, streamErrors, direct, registry,
                 batch, rendered, queued, worker>>

Check ==
  /\ pc = "enqueue" /\ rendered = {}
  /\ pc' = IF raise /\ FailureSeen THEN "raising"
           ELSE IF AllDone THEN "done" ELSE "sleeping"
  /\ UNCHANGED <<jobServiceVars, calls, raise, raised, gone, streamErrors, direct, registry,
                 batch, rendered, queued, worker>>

WakeUp ==
  /\ Goto("sleeping", "direct")
  /\ UNCHANGED <<jobServiceVars, direct, registry, batch, rendered, queued, worker>>

\* Mutated form: the job is not cancelled before the error is raised.
RaiseWithoutCancel ==
  /\ Goto("raising", "raised")
  /\ StopPool
  /\ UNCHANGED <<jobServiceVars, direct, registry, batch, queued>>

Raise ==
  /\ Goto("raising", "raised")
  /\ JS!Cancel
  /\ StopPool
  /\ UNCHANGED <<direct, registry, batch, queued>>

\* The handler whose callback raises is called by the main coroutine and outside of
\* every try: the run ends, and the batch it was sorting is forgotten.
MainUnstreamed ==
  /\ pc' = "raised"
  /\ \/ pc = "deciding" /\ MaySkip(direct) /\ JS!OnTaskSkipped(direct)
     \/ pc \in {"answering", "failing"} /\ JS!FailTask(direct, "direct_answer_error", FALSE)
     \/ \E t \in batch \ DirectTasks :
          /\ pc = "sort"
          /\ \/ MaySkip(t) /\ JS!OnTaskSkipped(t)
             \/ MayRaise(t) /\ JS!OnTaskFailed(t, "rule_error", TRUE)
     \/ \E t \in rendered \ RoutableTasks : pc = "enqueue" /\ JS!OnTaskFailed(t, "no_queue", FALSE)
  /\ StreamRaises
  /\ StopPool
  /\ batch' = {}
  /\ UNCHANGED <<calls, raise, raised, gone, direct, registry, queued>>

MainStep ==
  \/ \E t \in Tasks : Enqueue(t) \/ NoQueue(t)
  \/ MainUnstreamed \/ Check \/ WakeUp \/ Raise

-----------------------------------------------------------------------------
(***************************************************************************)
(* ExecutionWorker.run.  A worker gives way while the model answers.       *)
(***************************************************************************)

LoopIsFree == pc \in {"answering", "sleeping"}

\* Mutated form: the task stays in the queue while it is executed.
TakeWithoutDequeue(w, t) ==
  /\ LoopIsFree
  /\ worker[w] = NoTask /\ w \notin gone /\ t \in queued
  /\ JS!StartRunning(t)
  /\ worker' = [worker EXCEPT ![w] = t]
  /\ UNCHANGED <<pc, calls, raise, raised, gone, streamErrors, direct, registry, batch,
                 rendered, queued>>

Take(w, t) ==
  /\ LoopIsFree
  /\ worker[w] = NoTask /\ w \notin gone /\ t \in queued
  /\ JS!StartRunning(t)
  /\ queued' = queued \ {t}
  /\ worker' = [worker EXCEPT ![w] = t]
  /\ UNCHANGED <<pc, calls, raise, raised, gone, streamErrors, direct, registry, batch, rendered>>

\* The worker reports the outcome of its call and asks for work again.
Release(w) ==
  /\ LoopIsFree
  /\ worker[w] # NoTask
  /\ worker' = [worker EXCEPT ![w] = NoTask]
  /\ UNCHANGED <<pc, calls, raise, raised, gone, streamErrors, direct, registry, batch,
                 rendered, queued>>

Answered(w)  == Release(w) /\ JS!OnTaskCompleted(worker[w])
Failed(w, e) == Release(w) /\ JS!OnTaskFailed(worker[w], e, FALSE)

\* Nothing in run catches what the callback raises: the coroutine ends, nobody looks at
\* it before the pool is stopped, and no worker takes its place.
WorkerEnds(w) ==
  /\ LoopIsFree /\ worker[w] # NoTask
  /\ \/ JS!OnTaskCompleted(worker[w])
     \/ \E e \in WorkerErrors : JS!OnTaskFailed(worker[w], e, FALSE)
  /\ StreamRaises
  /\ worker' = [worker EXCEPT ![w] = NoTask]
  /\ gone' = gone \cup {w}
  /\ UNCHANGED <<pc, calls, raise, raised, direct, registry, batch, rendered, queued>>

WorkerStep(w) ==
  \/ \E t \in Tasks : Take(w, t)
  \/ Answered(w) \/ WorkerEnds(w)
  \/ \E e \in WorkerErrors : Failed(w, e)

\* JobHandle.cancel, by another thread or while the loop awaits.
UserCancel ==
  /\ JS!Cancel
  /\ UNCHANGED runnerVars

Ended == pc \in {"done", "raised"} /\ UNCHANGED vars

\* results is called again on the same handle, with a new pool.
CallAgain ==
  /\ pc \in {"done", "raised"} /\ calls < Calls
  /\ pc' = "sleeping"
  /\ calls' = calls + 1
  /\ raise' \in RaiseChoices
  /\ raised' = (raised \/ pc = "raised")
  /\ direct' = NoTask
  /\ gone' = {}
  /\ UNCHANGED <<jobServiceVars, streamErrors, registry, batch, rendered, queued, worker>>

Next ==
  \/ DirectStep \/ RenderStep \/ MainStep
  \/ \E w \in Workers : WorkerStep(w)
  \/ UserCancel
  \/ CallAgain
  \/ Ended

\* The event loop runs every coroutine that is not awaiting, in turn, so the main
\* coroutine goes on and the workers that can go on are not all passed over each time
\* the main coroutine awaits.  A model call returns: wait_for bounds it in
\* language_model.py.  A direct answer is the user's function and is assumed to.
Fairness ==
  /\ WF_vars(DirectStep \/ RenderStep \/ MainStep)
  /\ SF_vars(\E w \in Workers : WorkerStep(w))

Spec == Init /\ [][Next]_vars
FairSpec == Spec /\ Fairness

-----------------------------------------------------------------------------
(***************************************************************************)
(* Properties.                                                             *)
(***************************************************************************)

Count(p) == IF p THEN 1 ELSE 0

\* An interview was streamed twice, or before its last task: a direct answer was completed
\* and, since the write of the stream failed, then retried or failed.
Recounted == \E i \in Interviews : notified[i] > 1 \/ (notified[i] = 1 /\ ~JS!Finished(i))

\* A task between its readiness and its outcome is in one place exactly: the
\* ready set, the batch, the direct path's hand, the rendered list, the queue or
\* one worker's hand.  None is lost on the way and none is executed twice, until
\* an exception ends the run or a completed task is retried.  (The variables have
\* their types.)
HeldOnce ==
  /\ TypeOK
  /\ pc \notin {"failing", "raised"} /\ ~raised /\ ~Recounted => \A t \in Tasks :
       Count(t \in readyTasks) + Count(t \in batch) + Count(t = direct) + Count(t \in rendered)
         + Count(t \in queued) + Cardinality({w \in Workers : worker[w] = t})
       = Count(status[t] \in {"READY"} \cup JS!Claimed)

\* The loop ends by itself only when every task has its outcome, every interview
\* was streamed once, and no worker or queue holds anything, also when an earlier
\* call raised and left tasks in nobody's hands.  (Where a task was counted twice,
\* the count may hide another one.)
ExitComplete ==
  pc = "done" /\ ~Recounted =>
    /\ \A t \in Tasks : status[t] \in JS!Outcomes
    /\ \A i \in Interviews : notified[i] = 1
    /\ queued = {} /\ \A w \in Workers : worker[w] = NoTask
    /\ job # "RUNNING"

\* Every call of results ends, as long as no earlier one raised and a worker is left:
\* retries are bounded and no task is left in a place nobody looks at again (the hazard
\* the comment in _execute_ready_direct_answers describes).
RunEnds == []<>(raised \/ pc \in {"done", "raised"} \/ gone = Workers)

\* With stop_on_exception, a permanent failure always ends the run by raising,
\* also when it was the last task's and the job looks finished.
FailureRaises == (raise /\ FailureSeen) ~> (pc = "raised")

\* The run raises only when a rule, a prompt or the stream blows up, or after an attempt
\* failed, and a failed attempt leaves the job CANCELLED before its error is raised.
RaisedForCause ==
  [][pc # "raised" /\ pc' = "raised" =>
       \/ direct \in BrokenRules
       \/ \E t \in BrokenPrompts : status[t] = "RENDERING"
       \/ streamErrors' > streamErrors
       \/ raise /\ job' = "CANCELLED"
            /\ \E t \in Tasks : status[t] = "FAILED" \/ \E e \in ErrorTypes : attempts[t][e] > 0]_vars

=============================================================================
