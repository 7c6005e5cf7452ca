---------------------------- MODULE RunnerProofs ----------------------------
(***************************************************************************)
(* Proofs about Runner, for every finite job, every number of workers and  *)
(* every number of calls of results and of writes that fail (in the direct *)
(* path the first, see Runner).                                            *)
(*                                                                         *)
(* LooseInv holds at every moment: what the main coroutine holds at each   *)
(* point of its code.  The rest holds until a completed task is failed or  *)
(* retried (Recounted): every call of a handler is in turn, so the books   *)
(* of JobService are right; what lies in a place has the status of that    *)
(* place (Hands); and every task under way lies somewhere (Placed).  The   *)
(* books need Hands, since a handler is in turn only for a task in hand,   *)
(* and Hands needs the books, since only they say that the handlers leave  *)
(* other tasks where they are.                                             *)
(***************************************************************************)
EXTENDS Runner, FiniteSetTheorems, TLAPS

JP == INSTANCE JobServiceProofs

-----------------------------------------------------------------------------
(***************************************************************************)
(* The job service Runner calls is the one JobServiceProofs is about.      *)
(***************************************************************************)

LEMMA JobFinite == JP!FiniteJob
BY JobConstants DEF IsFiniteSet, JP!IsFiniteSet

LEMMA JobDeps == JP!DepsWithinInterview
BY JobConstants

LEMMA JobNonEmpty == JP!NonEmptyJob
BY JobConstants

LEMMA JobPolicies == JP!PolicyTypes
BY JobConstants

LEMMA JobErrors == JP!ErrorTypesAreNot
BY JobConstants DEF JP!NoError

LEMMA SameInit == JS!Init <=> JP!Init
BY DEF JS!Init, JP!Init, JS!InitRest, JP!InitRest, JS!Outcomes, JP!Outcomes, JS!NoError, JP!NoError,
       JS!Cardinality, JP!Cardinality

LEMMA SameTypes == JS!RestTypeOK <=> JP!RestTypeOK
BY DEF JS!RestTypeOK, JP!RestTypeOK, JS!Status, JP!Status, JS!Claimed, JP!Claimed, JS!Outcomes,
       JP!Outcomes, JS!InterviewStates, JP!InterviewStates, JS!JobStates, JP!JobStates,
       JS!NoError, JP!NoError

LEMMA SameRecounted ==
  /\ Recounted <=> JP!Recounted
  /\ Recounted' <=> JP!Recounted'
BY DEF Recounted, JP!Recounted, JS!Finished, JP!Finished, JS!TasksOf, JP!TasksOf, JS!Outcomes,
       JP!Outcomes

LEMMA SameClaims ==
  ASSUME NEW t
  PROVE  /\ JS!PopReady(t) <=> JP!PopReady(t)
         /\ JS!AddToReady(t) <=> JP!AddToReady(t)
         /\ JS!StartRendering(t) <=> JP!StartRendering(t)
         /\ JS!EnqueueTask(t) <=> JP!EnqueueTask(t)
         /\ JS!StartRunning(t) <=> JP!StartRunning(t)
<1> USE DEF JS!jobVars, JP!jobVars, JS!InHand, JP!InHand, JS!Claimed, JP!Claimed
<1>1. JS!PopReady(t) <=> JP!PopReady(t)
  BY DEF JS!PopReady, JP!PopReady
<1>2. JS!AddToReady(t) <=> JP!AddToReady(t)
  BY DEF JS!AddToReady, JP!AddToReady
<1>3. \A from, to : JS!SetStatus(t, from, to) <=> JP!SetStatus(t, from, to)
  BY DEF JS!SetStatus, JP!SetStatus
<1> QED
  BY <1>1, <1>2, <1>3 DEF JS!StartRendering, JP!StartRendering, JS!EnqueueTask, JP!EnqueueTask,
                          JS!StartRunning, JP!StartRunning

LEMMA SameOutcomes ==
  ASSUME NEW t
  PROVE  /\ JS!OnTaskCompleted(t) <=> JP!OnTaskCompleted(t)
         /\ JS!OnTaskSkipped(t) <=> JP!OnTaskSkipped(t)
<1> USE DEF JS!InHand, JP!InHand, JS!Claimed, JP!Claimed, JS!MarkSatisfied, JP!MarkSatisfied,
            JS!NowReady, JP!NowReady, JS!Met, JP!Met, JS!Cardinality, JP!Cardinality,
            JS!InterviewState, JP!InterviewState, JS!FinishedCount, JP!FinishedCount,
            JS!TasksOf, JP!TasksOf, JS!MarkInterviewCompleted, JP!MarkInterviewCompleted,
            JS!JobState, JP!JobState
<1>1. JS!OnTaskCompleted(t) <=> JP!OnTaskCompleted(t)
  BY DEF JS!OnTaskCompleted, JP!OnTaskCompleted
<1>2. JS!OnTaskSkipped(t) <=> JP!OnTaskSkipped(t)
  BY DEF JS!OnTaskSkipped, JP!OnTaskSkipped
<1> QED
  BY <1>1, <1>2

LEMMA SameFailures ==
  ASSUME NEW t, NEW e, NEW force
  PROVE  /\ JS!RetryTask(t, e) <=> JP!RetryTask(t, e)
         /\ JS!FailTask(t, e, force) <=> JP!FailTask(t, e, force)
         /\ JS!OnTaskFailed(t, e, force)
              <=> JP!OnTaskFailedRetry(t, e) \/ JP!OnTaskFailedForGood(t, e, force)
<1>1. JS!RetryTask(t, e) <=> JP!RetryTask(t, e)
  BY DEF JS!RetryTask, JP!RetryTask, JS!WillRetry, JP!WillRetry, JS!CountsAttempt,
         JP!CountsAttempt, JS!CountAttempt, JP!CountAttempt, JS!jobVars, JP!jobVars
<1>2. JS!FailTask(t, e, force) <=> JP!FailTask(t, e, force)
  BY DEF JS!FailTask, JP!FailTask, JS!NewlyBlocked, JP!NewlyBlocked, JS!Downstream, JP!Downstream,
         JS!WillRetry, JP!WillRetry, JS!CountsAttempt, JP!CountsAttempt, JS!CountAttempt,
         JP!CountAttempt, JS!Outcomes, JP!Outcomes, JS!Cardinality, JP!Cardinality,
         JS!InterviewState, JP!InterviewState, JS!FinishedCount, JP!FinishedCount, JS!TasksOf,
         JP!TasksOf, JS!MarkInterviewCompleted, JP!MarkInterviewCompleted, JS!JobState, JP!JobState
<1>3. JS!MayFail(t) <=> JP!MayFail(t)
  BY DEF JS!MayFail, JP!MayFail, JS!InHand, JP!InHand, JS!Claimed, JP!Claimed
<1> QED
  BY <1>1, <1>2, <1>3 DEF JS!OnTaskFailed, JS!OnTaskFailedRetry, JP!OnTaskFailedRetry,
                          JS!OnTaskFailedForGood, JP!OnTaskFailedForGood

LEMMA SameCancel == JS!Cancel <=> JP!Cancel
BY DEF JS!Cancel, JP!Cancel, JS!taskVars, JP!taskVars

LEMMA SameVars == UNCHANGED jobServiceVars <=> UNCHANGED JP!vars
BY DEF jobServiceVars, JP!vars, JP!taskVars, JP!jobVars

-----------------------------------------------------------------------------
(***************************************************************************)
(* Where the main coroutine is, and what it holds there.                   *)
(***************************************************************************)

RunnerTyped ==
  /\ pc \in Points
  /\ calls \in 1..Calls
  /\ {raise, raised} \subseteq BOOLEAN
  /\ direct \in Tasks \cup {NoTask}
  /\ registry \in SUBSET DirectTasks
  /\ batch \in SUBSET Tasks
  /\ rendered \in SUBSET Tasks
  /\ queued \in SUBSET Tasks
  /\ worker \in [Workers -> Tasks \cup {NoTask}]
  /\ gone \in SUBSET Workers
  /\ streamErrors \in 0..MaxStreamErrors

AttemptFailed == \E t \in Tasks : status[t] = "FAILED" \/ \E e \in ErrorTypes : attempts[t][e] > 0

Where ==
  /\ pc \in {"deciding", "answering", "failing"} => direct \in Tasks
  /\ pc \notin {"deciding", "answering", "failing", "raised"} => direct = NoTask
  /\ batch # {} => pc \in {"pop", "sort"}
  /\ rendered # {} => pc \in {"sort", "render", "enqueue", "raising"}
  /\ pc = "failing" => notified[InterviewOf[direct]] > 0
  /\ pc = "raising" => raise /\ AttemptFailed

LooseInv == JP!Loose /\ RunnerTyped /\ Where

\* A failed attempt shows in the status of its task or in its attempts.
LEMMA FailureShows ==
  ASSUME JP!Loose, NEW t \in Tasks, NEW e \in ErrorTypes, NEW force \in BOOLEAN,
         JS!RetryTask(t, e) \/ JS!FailTask(t, e, force) \/ JS!OnTaskFailed(t, e, force)
  PROVE  AttemptFailed'
<1>1. CASE JP!RetryTask(t, e)
  <2>1. attempts \in [Tasks -> [ErrorTypes -> Nat]]
    BY DEF JP!Loose, JP!RestTypeOK
  <2>2. attempts' = [attempts EXCEPT ![t][e] = @ + 1]
    BY <1>1 DEF JP!RetryTask, JP!WillRetry, JP!CountAttempt
  <2>3. attempts'[t][e] > 0
    BY <2>1, <2>2
  <2> QED
    BY <2>3 DEF AttemptFailed
<1>2. CASE JP!FailTask(t, e, force)
  BY <1>2 DEF JP!FailTask, AttemptFailed
<1> QED
  BY <1>1, <1>2, SameFailures DEF JP!OnTaskFailedRetry, JP!OnTaskFailedForGood

\* The direct path's task is still in hand when its failure is reported.
InTurn == pc # "failing" /\ (pc = "answering" => JP!MayFail(direct))

\* A step of the service, and a proper one when the caller keeps its turn.
Serves == JP!Called /\ (InTurn => JP!Next \/ UNCHANGED JP!vars)

LEMMA ServiceCalls ==
  ASSUME NEW t \in Tasks
  PROVE  /\ JS!PopReady(t) => Serves
         /\ JS!AddToReady(t) => Serves
         /\ JS!StartRendering(t) => Serves
         /\ JS!EnqueueTask(t) => Serves
         /\ JS!StartRunning(t) => Serves
         /\ JS!OnTaskCompleted(t) => Serves
         /\ JS!OnTaskSkipped(t) => Serves
         /\ \A e \in ErrorTypes : \A force \in BOOLEAN : JS!OnTaskFailed(t, e, force) => Serves
<1>1. JS!PopReady(t) \/ JS!AddToReady(t) \/ JS!StartRendering(t) \/ JS!EnqueueTask(t)
        \/ JS!StartRunning(t) => Serves
  <2>1. JP!Claim(t) => Serves
    BY DEF JP!Called, JP!Next, Serves
  <2> QED
    BY <2>1, SameClaims DEF JP!Claim
<1>2. JS!OnTaskCompleted(t) \/ JS!OnTaskSkipped(t) => Serves
  BY SameOutcomes DEF JP!Called, JP!Next, Serves
<1>3. \A e \in ErrorTypes : \A force \in BOOLEAN : JS!OnTaskFailed(t, e, force) => Serves
  BY SameFailures DEF JP!Called, JP!OnTaskFailedRetry, JP!OnTaskFailedForGood, JP!Next, Serves
<1> QED
  BY <1>1, <1>2, <1>3

LEMMA FailureCalls ==
  ASSUME NEW t \in Tasks, NEW e \in ErrorTypes, NEW force \in BOOLEAN,
         JS!RetryTask(t, e) \/ JS!FailTask(t, e, force), InTurn => JP!MayFail(t)
  PROVE  Serves
BY SameFailures
   DEF JP!Called, JP!OnTaskFailedRetry, JP!OnTaskFailedForGood, JP!Next, Serves

LEMMA ServiceRests ==
  /\ UNCHANGED jobServiceVars => Serves
  /\ JS!Cancel => Serves
BY SameVars, SameCancel DEF JP!Called, JP!Next, Serves

LEMMA ErrorsKnown ==
  /\ "direct_answer_error" \in ErrorTypes /\ "no_queue" \in ErrorTypes
  /\ "rule_error" \in ErrorTypes /\ WorkerErrors \subseteq ErrorTypes
BY RunnerConstants

-----------------------------------------------------------------------------
(***************************************************************************)
(* Every step calls the service at most once and keeps what is said of the *)
(* main coroutine, also when a task was counted twice.                     *)
(***************************************************************************)

Stays == Serves /\ RunnerTyped' /\ Where'

LEMMA DirectStays ==
  ASSUME LooseInv, DirectStep
  PROVE  Stays
<1> USE DEF LooseInv, RunnerTyped, Where, Goto, Points
<1>1. ASSUME NEW t \in Tasks, DirectPop(t) PROVE Stays
  <2>1. Serves
    BY <1>1, ServiceCalls DEF DirectPop
  <2> QED
    BY <1>1, <2>1 DEF DirectPop, Stays
<1>2. CASE DirectEnd
  <2>1. Serves
    BY <1>2, ServiceRests DEF DirectEnd
  <2> QED
    BY <1>2, <2>1 DEF DirectEnd, Stays
<1>3. CASE DirectSkip
  <2>1. Serves
    BY <1>3, ServiceCalls DEF DirectSkip
  <2> QED
    BY <1>3, <2>1 DEF DirectSkip, Stays
<1>4. CASE DirectRuleRaises
  <2>1. Serves
    BY <1>4, ServiceRests DEF DirectRuleRaises
  <2> QED
    BY <1>4, <2>1 DEF DirectRuleRaises, StopPool, Stays
<1>5. CASE DirectExecute
  <2>1. Serves
    BY <1>5, ServiceRests DEF DirectExecute
  <2> QED
    BY <1>5, <2>1 DEF DirectExecute, Stays
<1>6. CASE DirectAnswered
  <2>1. Serves
    BY <1>6, ServiceCalls DEF DirectAnswered
  <2> QED
    BY <1>6, <2>1 DEF DirectAnswered, Stays
<1>7. CASE DirectUnstreamed
  <2>1. Serves
    BY <1>7, ServiceCalls DEF DirectUnstreamed
  <2>2. notified'[InterviewOf[direct]] > 0
    <3>1. InterviewOf[direct] \in Interviews /\ notified \in [Interviews -> Nat]
      BY <1>7, JobConstants DEF DirectUnstreamed, JP!Loose, JP!RestTypeOK
    <3>2. notified' = [notified EXCEPT ![InterviewOf[direct]] = @ + 1]
      BY <1>7 DEF DirectUnstreamed, StreamRaises, JS!OnTaskCompleted, JS!MarkInterviewCompleted
    <3> QED
      BY <3>1, <3>2
  <2>3. RunnerTyped'
    BY <1>7, RunnerConstants DEF DirectUnstreamed, StreamRaises
  <2> QED
    BY <1>7, <2>1, <2>2, <2>3 DEF DirectUnstreamed, Stays
<1>8. CASE DirectFailed
  <2>1. direct \in Tasks /\ pc \in {"answering", "failing"}
    BY <1>8 DEF DirectFailed, FailDirect
  <2>2. JS!RetryTask(direct, "direct_answer_error")
          \/ JS!FailTask(direct, "direct_answer_error", FALSE)
    BY <1>8 DEF DirectFailed, FailDirect
  <2>3. Serves
    BY <2>1, <2>2, FailureCalls, ErrorsKnown DEF InTurn
  <2>4. AttemptFailed'
    BY <2>1, <2>2, FailureShows, ErrorsKnown
  <2>5. pc' = IF raise THEN "raising" ELSE "direct"
    BY <1>8 DEF DirectFailed, FailDirect
  <2>6. /\ direct' = NoTask /\ registry' \in SUBSET DirectTasks
        /\ UNCHANGED <<calls, raise, raised, gone, streamErrors, batch, rendered, queued, worker>>
    BY <1>8 DEF DirectFailed, FailDirect
  <2> QED
    BY <2>1, <2>3, <2>4, <2>5, <2>6 DEF Stays
<1> QED
  BY <1>1, <1>2, <1>3, <1>4, <1>5, <1>6, <1>7, <1>8 DEF DirectStep

LEMMA RenderStays ==
  ASSUME LooseInv, RenderStep
  PROVE  Stays
<1> USE DEF LooseInv, RunnerTyped, Where, Goto, Points
<1>1. ASSUME NEW t \in Tasks, PopOne(t) PROVE Stays
  <2>1. Serves
    BY <1>1, ServiceCalls DEF PopOne
  <2> QED
    BY <1>1, <2>1 DEF PopOne, Stays
<1>2. ASSUME NEW t \in Tasks, SortDirect(t) PROVE Stays
  <2>1. Serves
    BY <1>2, ServiceCalls DEF SortDirect
  <2> QED
    BY <1>2, <2>1 DEF SortDirect, Sort, Stays
<1>3. ASSUME NEW t \in Tasks, SortSkip(t) PROVE Stays
  <2>1. Serves
    BY <1>3, ServiceCalls DEF SortSkip
  <2> QED
    BY <1>3, <2>1 DEF SortSkip, Sort, Stays
<1>4. ASSUME NEW t \in Tasks, SortRuleRaises(t) PROVE Stays
  <2>1. Serves
    BY <1>4, ServiceCalls, ErrorsKnown DEF SortRuleRaises
  <2> QED
    BY <1>4, <2>1 DEF SortRuleRaises, Sort, Stays
<1>5. ASSUME NEW t \in Tasks, SortRender(t) PROVE Stays
  <2>1. Serves
    BY <1>5, ServiceRests DEF SortRender
  <2> QED
    BY <1>5, <2>1 DEF SortRender, Sort, Stays
<1>6. ASSUME NEW t \in Tasks, MarkRendering(t) PROVE Stays
  <2>1. Serves
    BY <1>6, ServiceCalls DEF MarkRendering
  <2> QED
    BY <1>6, <2>1 DEF MarkRendering, Stays
<1>7. ASSUME NEW t \in Tasks, RenderOne(t) PROVE Stays
  <2>1. Serves
    BY <1>7, ServiceCalls DEF RenderOne
  <2> QED
    BY <1>7, <2>1 DEF RenderOne, Stays
<1>8. CASE PopEnd
  <2>1. Serves
    BY <1>8, ServiceRests DEF PopEnd
  <2> QED
    BY <1>8, <2>1 DEF PopEnd, Stays
<1>9. CASE SortEnd
  <2>1. Serves
    BY <1>9, ServiceRests DEF SortEnd
  <2> QED
    BY <1>9, <2>1 DEF SortEnd, Stays
<1>10. CASE RenderRaises
  <2>1. Serves
    BY <1>10, ServiceRests DEF RenderRaises
  <2> QED
    BY <1>10, <2>1 DEF RenderRaises, StopPool, Stays
<1>11. CASE RenderEnd
  <2>1. Serves
    BY <1>11, ServiceRests DEF RenderEnd
  <2> QED
    BY <1>11, <2>1 DEF RenderEnd, Stays
<1> QED
  BY <1>1, <1>2, <1>3, <1>4, <1>5, <1>6, <1>7, <1>8, <1>9, <1>10, <1>11 DEF RenderStep

LEMMA UnstreamedCalls ==
  ASSUME LooseInv, MainUnstreamed
  PROVE  Serves
<1> USE DEF LooseInv, RunnerTyped, Where
<1>1. CASE pc = "deciding" /\ MaySkip(direct) /\ JS!OnTaskSkipped(direct)
  BY <1>1, ServiceCalls
<1>2. CASE pc \in {"answering", "failing"} /\ JS!FailTask(direct, "direct_answer_error", FALSE)
  BY <1>2, FailureCalls, ErrorsKnown DEF InTurn
<1>3. ASSUME NEW t \in batch \ DirectTasks,
             \/ MaySkip(t) /\ JS!OnTaskSkipped(t)
             \/ MayRaise(t) /\ JS!OnTaskFailed(t, "rule_error", TRUE)
      PROVE  Serves
  <2>1. t \in Tasks
    OBVIOUS
  <2> QED
    BY <1>3, <2>1, ServiceCalls, ErrorsKnown
<1>4. ASSUME NEW t \in rendered \ RoutableTasks, JS!OnTaskFailed(t, "no_queue", FALSE)
      PROVE  Serves
  <2>1. t \in Tasks
    OBVIOUS
  <2> QED
    BY <1>4, <2>1, ServiceCalls, ErrorsKnown
<1> QED
  BY <1>1, <1>2, <1>3, <1>4 DEF MainUnstreamed

LEMMA MainStays ==
  ASSUME LooseInv, MainStep
  PROVE  Stays
<1> USE DEF LooseInv, RunnerTyped, Where, Goto, Points
<1>1. ASSUME NEW t \in Tasks, Enqueue(t) PROVE Stays
  <2>1. Serves
    BY <1>1, ServiceRests DEF Enqueue
  <2> QED
    BY <1>1, <2>1 DEF Enqueue, Stays
<1>2. ASSUME NEW t \in Tasks, NoQueue(t) PROVE Stays
  <2>1. JS!OnTaskFailed(t, "no_queue", FALSE)
    BY <1>2 DEF NoQueue
  <2>2. Serves
    BY <2>1, ServiceCalls, ErrorsKnown
  <2>3. AttemptFailed'
    BY <2>1, FailureShows, ErrorsKnown
  <2>4. /\ pc = "enqueue" /\ pc' = IF raise THEN "raising" ELSE "enqueue"
        /\ rendered' = rendered \ {t}
        /\ UNCHANGED <<calls, raise, raised, gone, streamErrors, direct, registry, batch, queued,
                       worker>>
    BY <1>2 DEF NoQueue
  <2> QED
    BY <2>2, <2>3, <2>4 DEF Stays
<1>3. CASE MainUnstreamed
  <2>1. Serves
    BY <1>3, UnstreamedCalls
  <2>2. /\ pc' = "raised" /\ StreamRaises /\ StopPool /\ batch' = {}
        /\ UNCHANGED <<calls, raise, raised, gone, direct, registry, queued>>
    BY <1>3 DEF MainUnstreamed
  <2> QED
    BY <2>1, <2>2, RunnerConstants DEF StreamRaises, StopPool, Stays
<1>4. CASE Check
  <2>1. Serves
    BY <1>4, ServiceRests DEF Check
  <2>2. raise /\ FailureSeen => AttemptFailed'
    BY <1>4 DEF Check, FailureSeen, AttemptFailed, jobServiceVars
  <2>3. /\ pc = "enqueue" /\ rendered = {} /\ pc' \in {"raising", "done", "sleeping"}
        /\ pc' = "raising" => raise /\ FailureSeen
        /\ UNCHANGED <<jobServiceVars, calls, raise, raised, gone, streamErrors, direct, registry,
                       batch, rendered, queued, worker>>
    BY <1>4 DEF Check
  <2> QED
    BY <2>1, <2>2, <2>3 DEF Stays
<1>5. CASE WakeUp
  <2>1. Serves
    BY <1>5, ServiceRests DEF WakeUp
  <2> QED
    BY <1>5, <2>1 DEF WakeUp, Stays
<1>6. CASE Raise
  <2>1. Serves
    BY <1>6, ServiceRests DEF Raise
  <2> QED
    BY <1>6, <2>1 DEF Raise, StopPool, Stays
<1> QED
  BY <1>1, <1>2, <1>3, <1>4, <1>5, <1>6 DEF MainStep

LEMMA WorkerStays ==
  ASSUME LooseInv, NEW w \in Workers, WorkerStep(w)
  PROVE  Stays
<1> USE DEF LooseInv, RunnerTyped, Where, LoopIsFree, Points
<1>1. worker[w] # NoTask => worker[w] \in Tasks
  OBVIOUS
<1>2. ASSUME NEW t \in Tasks, Take(w, t) PROVE Stays
  <2>1. Serves
    BY <1>2, ServiceCalls DEF Take
  <2> QED
    BY <1>2, <2>1 DEF Take, Stays
<1>3. CASE Answered(w)
  <2>1. Serves
    BY <1>1, <1>3, ServiceCalls DEF Answered, Release
  <2> QED
    BY <1>3, <2>1 DEF Answered, Release, Stays
<1>4. CASE WorkerEnds(w)
  <2>1. Serves
    BY <1>1, <1>4, ServiceCalls, ErrorsKnown DEF WorkerEnds
  <2> QED
    BY <1>4, <2>1, RunnerConstants DEF WorkerEnds, StreamRaises, Stays
<1>5. ASSUME NEW e \in WorkerErrors, Failed(w, e) PROVE Stays
  <2>1. Serves
    BY <1>1, <1>5, ServiceCalls, ErrorsKnown DEF Failed, Release
  <2> QED
    BY <1>5, <2>1 DEF Failed, Release, Stays
<1> QED
  BY <1>2, <1>3, <1>4, <1>5 DEF WorkerStep

LEMMA OthersStay ==
  ASSUME LooseInv, UserCancel \/ CallAgain \/ Ended \/ UNCHANGED vars
  PROVE  Stays
<1> USE DEF LooseInv, RunnerTyped, Where, Points
<1>1. CASE UserCancel
  <2>1. Serves
    BY <1>1, ServiceRests DEF UserCancel
  <2>2. UNCHANGED <<status, attempts, notified, runnerVars>>
    BY <1>1 DEF UserCancel, JS!Cancel, JS!taskVars
  <2> QED
    BY <2>1, <2>2 DEF runnerVars, AttemptFailed, Stays
<1>2. CASE CallAgain
  <2>1. Serves
    BY <1>2, ServiceRests DEF CallAgain
  <2> QED
    BY <1>2, <2>1, RunnerConstants DEF CallAgain, Stays
<1>3. CASE UNCHANGED vars
  <2>1. Serves
    BY <1>3, ServiceRests DEF vars
  <2> QED
    BY <1>3, <2>1 DEF vars, jobServiceVars, runnerVars, AttemptFailed, Stays
<1> QED
  BY <1>1, <1>2, <1>3 DEF Ended

LEMMA NextStays ==
  ASSUME LooseInv, [Next]_vars
  PROVE  Stays /\ LooseInv' /\ (Recounted => Recounted')
<1>1. Stays
  BY DirectStays, RenderStays, MainStays, WorkerStays, OthersStay DEF Next
<1>2. JP!Loose' /\ (JP!Recounted => JP!Recounted')
  BY <1>1, JP!CalledLoosely, JobFinite, JobDeps, JobNonEmpty, JobPolicies, JobErrors
     DEF LooseInv, Stays, Serves
<1> QED
  BY <1>1, <1>2, SameRecounted DEF LooseInv, Stays

-----------------------------------------------------------------------------
(***************************************************************************)
(* Where the tasks are.                                                    *)
(***************************************************************************)

\* What lies in a place has the status the place stands for, and lies in no other.
Hands ==
  /\ pc \in {"deciding", "answering"} => status[direct] = "READY" /\ direct \notin readyTasks
  /\ \A x \in batch : status[x] = "READY" /\ x \notin readyTasks
  /\ \A x \in rendered :
       /\ status[x] \in {"READY", "RENDERING", "QUEUED"} /\ x \notin readyTasks
       /\ pc = "sort" => status[x] = "READY"
       /\ pc \in {"enqueue", "raising"} => status[x] = "QUEUED"
  /\ rendered \cap (batch \cup queued) = {}
  /\ \A x \in queued : status[x] = "QUEUED"
  /\ \A w \in Workers : worker[w] # NoTask =>
       status[worker[w]] = "RUNNING" /\ \A v \in Workers : worker[v] = worker[w] => v = w

\* Every task between its readiness and its outcome is somewhere.
Somewhere(x) ==
  \/ x \in readyTasks \/ x \in batch \/ x = direct \/ x \in rendered \/ x \in queued
  \/ \E w \in Workers : worker[w] = x

Placed == \A x \in Tasks : status[x] \in JP!Live => Somewhere(x)

LEMMA LiveStatuses ==
  /\ JP!Live = {"READY", "RENDERING", "QUEUED", "RUNNING"}
  /\ JP!Live = {"READY"} \cup JS!Claimed
BY DEF JP!Live, JP!Claimed, JS!Claimed

\* A report takes its task out of its place and leaves the others where they are.
LEMMA ReportKeepsHands ==
  ASSUME JP!IInv, RunnerTyped, RunnerTyped', Hands, NEW t \in Tasks, JP!Reports(t),
         batch' \subseteq batch \ {t}, rendered' \subseteq rendered \ {t},
         queued' \subseteq queued \ {t},
         \A w \in Workers : worker'[w] = NoTask \/ (worker'[w] = worker[w] /\ worker[w] # t),
         pc' \in {"deciding", "answering"} =>
           pc' = pc /\ direct' = direct /\ direct \in Tasks \ {t},
         rendered' # {} => pc' = pc \/ (pc = "enqueue" /\ pc' = "raising")
  PROVE  Hands'
<1>1. JP!HandedOver(t)
  BY JP!ReportHandsOver, JobFinite, JobDeps, JobNonEmpty, JobPolicies, JobErrors
<1>2. \A x \in Tasks \ {t} : status[x] \in {"READY", "RENDERING", "QUEUED", "RUNNING"} =>
        status'[x] = status[x] /\ (x \in readyTasks' <=> x \in readyTasks)
  BY <1>1, LiveStatuses DEF JP!HandedOver
<1>3. /\ batch \subseteq Tasks /\ rendered \subseteq Tasks /\ queued \subseteq Tasks
      /\ \A w \in Workers : worker[w] # NoTask => worker[w] \in Tasks
  BY DEF RunnerTyped
<1>4. pc' \in {"deciding", "answering"} => status'[direct'] = "READY" /\ direct' \notin readyTasks'
  BY <1>2 DEF Hands
<1>5. \A x \in batch' : status'[x] = "READY" /\ x \notin readyTasks'
  BY <1>2, <1>3 DEF Hands
<1>6. \A x \in rendered' :
       /\ status'[x] \in {"READY", "RENDERING", "QUEUED"} /\ x \notin readyTasks'
       /\ pc' = "sort" => status'[x] = "READY"
       /\ pc' \in {"enqueue", "raising"} => status'[x] = "QUEUED"
  BY <1>2, <1>3 DEF Hands
<1>7. rendered' \cap (batch' \cup queued') = {} /\ \A x \in queued' : status'[x] = "QUEUED"
  BY <1>2, <1>3 DEF Hands
<1>8. \A w \in Workers : worker'[w] # NoTask =>
        status'[worker'[w]] = "RUNNING" /\ \A v \in Workers : worker'[v] = worker'[w] => v = w
  BY <1>2, <1>3 DEF Hands
<1> QED
  BY <1>4, <1>5, <1>6, <1>7, <1>8 DEF Hands

LEMMA ReportKeepsPlaced ==
  ASSUME JP!IInv, RunnerTyped, Placed, NEW t \in Tasks, JP!Reports(t),
         batch \ {t} \subseteq batch', rendered \ {t} \subseteq rendered',
         queued \ {t} \subseteq queued', direct # t => direct' = direct,
         \A w \in Workers : worker[w] # t => worker'[w] = worker[w]
  PROVE  Placed'
<1>1. JP!HandedOver(t)
  BY JP!ReportHandsOver, JobFinite, JobDeps, JobNonEmpty, JobPolicies, JobErrors
<1> SUFFICES ASSUME NEW x \in Tasks, status'[x] \in JP!Live
             PROVE  Somewhere(x)'
  BY DEF Placed, JP!Live, JP!Claimed
<1>2. CASE x = t
  BY <1>1, <1>2 DEF JP!HandedOver, Somewhere
<1>3. CASE x # t /\ status[x] \notin JP!Live
  BY <1>1, <1>3 DEF JP!HandedOver, Somewhere
<1>4. CASE x # t /\ status[x] \in JP!Live
  <2>1. Somewhere(x) /\ (x \in readyTasks' <=> x \in readyTasks)
    BY <1>1, <1>4 DEF JP!HandedOver, Placed
  <2> QED
    BY <1>4, <2>1 DEF Somewhere
<1> QED
  BY <1>2, <1>3, <1>4

LEMMA SameReports ==
  ASSUME NEW t \in Tasks
  PROVE  /\ JS!OnTaskCompleted(t) => JP!Reports(t)
         /\ JS!OnTaskSkipped(t) => JP!Reports(t)
         /\ \A e \in ErrorTypes : \A force \in BOOLEAN :
              JS!OnTaskFailed(t, e, force) => JP!Reports(t)
         /\ \A e \in ErrorTypes : \A force \in BOOLEAN :
              JP!MayFail(t) /\ (JS!RetryTask(t, e) \/ JS!FailTask(t, e, force)) => JP!Reports(t)
<1>1. JS!OnTaskCompleted(t) \/ JS!OnTaskSkipped(t) => JP!Reports(t)
  BY SameOutcomes DEF JP!Reports
<1>2. \A e \in ErrorTypes : \A force \in BOOLEAN : JS!OnTaskFailed(t, e, force) => JP!Reports(t)
  BY SameFailures DEF JP!Reports
<1>3. \A e \in ErrorTypes : \A force \in BOOLEAN :
        JP!MayFail(t) /\ (JS!RetryTask(t, e) \/ JS!FailTask(t, e, force)) => JP!Reports(t)
  BY SameFailures DEF JP!Reports, JP!OnTaskFailedRetry, JP!OnTaskFailedForGood
<1> QED
  BY <1>1, <1>2, <1>3

\* A task in one place is in no other.
LEMMA DirectAlone ==
  ASSUME RunnerTyped, Where, Hands, pc \in {"deciding", "answering"}
  PROVE  /\ direct \in Tasks /\ status[direct] = "READY" /\ direct \notin readyTasks
         /\ direct \notin queued /\ batch = {} /\ rendered = {}
         /\ \A w \in Workers : worker[w] # direct
BY RunnerConstants DEF RunnerTyped, Where, Hands

LEMMA BatchAlone ==
  ASSUME RunnerTyped, Where, Hands, NEW t \in batch
  PROVE  /\ t \in Tasks /\ status[t] = "READY" /\ t \notin readyTasks
         /\ t \notin queued /\ t \notin rendered /\ direct = NoTask
         /\ \A w \in Workers : worker[w] # t
<1>1. /\ t \in Tasks /\ status[t] = "READY"
      /\ t \notin readyTasks /\ t \notin queued /\ t \notin rendered
  BY DEF RunnerTyped, Hands
<1>2. direct = NoTask
  BY DEF Where
<1>3. \A w \in Workers : worker[w] # t
  BY <1>1, RunnerConstants DEF Hands
<1> QED
  BY <1>1, <1>2, <1>3

LEMMA RenderedAlone ==
  ASSUME RunnerTyped, Where, Hands, NEW t \in rendered
  PROVE  /\ t \in Tasks /\ t \notin readyTasks
         /\ t \notin queued /\ t \notin batch /\ direct = NoTask
         /\ \A w \in Workers : worker[w] # t
<1>1. /\ t \in Tasks /\ status[t] \in {"READY", "RENDERING", "QUEUED"}
      /\ t \notin readyTasks /\ t \notin queued /\ t \notin batch
  BY DEF RunnerTyped, Hands
<1>2. direct = NoTask
  BY DEF Where
<1>3. \A w \in Workers : worker[w] # t
  BY <1>1, RunnerConstants DEF Hands
<1> QED
  BY <1>1, <1>2, <1>3

LEMMA WorkerAlone ==
  ASSUME RunnerTyped, Where, Hands, LoopIsFree, NEW w \in Workers, worker[w] # NoTask
  PROVE  /\ worker[w] \in Tasks /\ status[worker[w]] = "RUNNING"
         /\ worker[w] \notin queued /\ worker[w] # direct
         /\ batch = {} /\ rendered = {}
         /\ \A v \in Workers : worker[v] = worker[w] => v = w
<1>1. /\ worker[w] \in Tasks /\ status[worker[w]] = "RUNNING"
      /\ \A v \in Workers : worker[v] = worker[w] => v = w
  BY DEF RunnerTyped, Hands
<1>2. worker[w] \notin queued
  BY <1>1 DEF Hands
<1>3. batch = {} /\ rendered = {}
  BY DEF Where, LoopIsFree
<1>4. worker[w] # direct
  BY <1>1, RunnerConstants DEF Hands, Where, LoopIsFree
<1> QED
  BY <1>1, <1>2, <1>3, <1>4

-----------------------------------------------------------------------------
(***************************************************************************)
(* No step that the caller's turn allows loses a task or hands it on twice.*)
(***************************************************************************)

Lost == raised \/ pc \in {"failing", "raised"}

Steady == LooseInv /\ JP!IInv /\ Hands /\ (~Lost => Placed) /\ pc # "failing"

KeepsPlaces == Hands' /\ (~Lost' => Placed')

LEMMA DirectKeeps ==
  ASSUME Steady, RunnerTyped', DirectStep
  PROVE  KeepsPlaces
<1> USE DEF Steady, LooseInv
<1>1. ASSUME NEW t \in Tasks, DirectPop(t) PROVE KeepsPlaces
  <2>1. /\ pc = "direct" /\ pc' = "deciding" /\ direct' = t /\ t \in readyTasks
        /\ readyTasks' = readyTasks \ {t}
        /\ UNCHANGED <<status, raised, batch, rendered, queued, worker>>
    BY <1>1 DEF DirectPop, Goto, JS!PopReady
  <2>2. status[t] = "READY"
    BY <2>1 DEF JP!IInv, JP!DepInv, JP!ReadyOnly
  <2>3. Hands'
    BY <2>1, <2>2 DEF Hands
  <2>4. ~Lost' => Placed'
    BY <2>1, RunnerConstants DEF Lost, Placed, Somewhere, Where, JP!Live, JP!Claimed
  <2> QED
    BY <2>3, <2>4 DEF KeepsPlaces
<1>2. CASE DirectEnd \/ DirectExecute
  <2>1. /\ pc \in {"direct", "deciding"} /\ pc' \in {"pop", "answering"}
        /\ pc' = "answering" => pc = "deciding"
        /\ UNCHANGED <<jobServiceVars, raised, direct, batch, rendered, queued, worker>>
    BY <1>2 DEF DirectEnd, DirectExecute, Goto
  <2>2. Hands'
    BY <2>1 DEF Hands, jobServiceVars, Where
  <2>3. ~Lost' => Placed'
    BY <2>1 DEF Lost, Placed, Somewhere, jobServiceVars, JP!Live, JP!Claimed
  <2> QED
    BY <2>2, <2>3 DEF KeepsPlaces
<1>3. CASE DirectRuleRaises
  <2>1. /\ pc' = "raised" /\ rendered' = {} /\ worker' = [w \in Workers |-> NoTask]
        /\ UNCHANGED <<jobServiceVars, batch, queued>>
    BY <1>3 DEF DirectRuleRaises, Goto, StopPool
  <2>2. Hands'
    BY <2>1 DEF Hands, jobServiceVars
  <2> QED
    BY <2>1, <2>2 DEF KeepsPlaces, Lost
<1>4. CASE DirectSkip \/ DirectAnswered \/ DirectUnstreamed \/ DirectFailed
  <2>1. pc \in {"deciding", "answering"}
    BY <1>4 DEF DirectSkip, DirectAnswered, DirectUnstreamed, DirectFailed, FailDirect, Goto
  <2>2. /\ direct \in Tasks /\ status[direct] = "READY" /\ direct \notin readyTasks
        /\ direct \notin queued /\ batch = {} /\ rendered = {}
        /\ \A w \in Workers : worker[w] # direct
    BY <2>1, DirectAlone
  <2>3. JP!MayFail(direct)
    BY <2>2 DEF JP!MayFail, JP!InHand
  <2>4. JP!Reports(direct)
    BY <1>4, <2>2, <2>3, SameReports, ErrorsKnown
       DEF DirectSkip, DirectAnswered, DirectUnstreamed, DirectFailed, FailDirect
  <2>5. /\ UNCHANGED <<raised, batch, rendered, queued, worker>>
        /\ pc' \in {"direct", "failing", "raising"}
    BY <1>4 DEF DirectSkip, DirectAnswered, DirectUnstreamed, DirectFailed, FailDirect, Goto
  <2>6. Hands'
    BY <2>2, <2>4, <2>5, ReportKeepsHands
  <2>7. Placed => Placed'
    BY <2>2, <2>4, <2>5, ReportKeepsPlaced
  <2> QED
    BY <2>1, <2>5, <2>6, <2>7 DEF KeepsPlaces, Lost
<1> QED
  BY <1>1, <1>2, <1>3, <1>4 DEF DirectStep

LEMMA RenderKeeps ==
  ASSUME Steady, RunnerTyped', RenderStep
  PROVE  KeepsPlaces
<1> USE DEF Steady, LooseInv
<1>1. ASSUME NEW t \in Tasks, PopOne(t) PROVE KeepsPlaces
  <2>1. /\ pc = "pop" /\ pc' = "pop" /\ batch' = batch \cup {t} /\ t \in readyTasks
        /\ readyTasks' = readyTasks \ {t}
        /\ UNCHANGED <<status, raised, direct, rendered, queued, worker>>
    BY <1>1 DEF PopOne, Goto, JS!PopReady
  <2>2. status[t] = "READY" /\ rendered = {}
    BY <2>1 DEF JP!IInv, JP!DepInv, JP!ReadyOnly, Where
  <2>3. Hands'
    BY <2>1, <2>2 DEF Hands
  <2>4. ~Lost' => Placed'
    BY <2>1 DEF Lost, Placed, Somewhere, JP!Live, JP!Claimed
  <2> QED
    BY <2>3, <2>4 DEF KeepsPlaces
<1>2. ASSUME NEW t \in Tasks, SortDirect(t) PROVE KeepsPlaces
  <2>1. /\ pc = "sort" /\ pc' = "sort" /\ t \in batch /\ batch' = batch \ {t}
        /\ readyTasks' = readyTasks \cup {t}
        /\ UNCHANGED <<status, raised, direct, rendered, queued, worker>>
    BY <1>2 DEF SortDirect, Sort, Goto, JS!AddToReady
  <2>2. t \notin queued /\ t \notin rendered
    BY <2>1, BatchAlone
  <2>3. Hands'
    BY <2>1, <2>2 DEF Hands
  <2>4. ~Lost' => Placed'
    BY <2>1 DEF Lost, Placed, Somewhere, JP!Live, JP!Claimed
  <2> QED
    BY <2>3, <2>4 DEF KeepsPlaces
<1>3. ASSUME NEW t \in Tasks, SortSkip(t) \/ SortRuleRaises(t) PROVE KeepsPlaces
  <2>1. /\ pc = "sort" /\ pc' = "sort" /\ t \in batch /\ batch' = batch \ {t}
        /\ UNCHANGED <<raised, direct, rendered, queued, worker>>
    BY <1>3 DEF SortSkip, SortRuleRaises, Sort, Goto
  <2>2. JP!Reports(t)
    BY <1>3, SameReports, ErrorsKnown DEF SortSkip, SortRuleRaises
  <2>3. t \notin queued /\ t \notin rendered /\ direct = NoTask /\ \A w \in Workers : worker[w] # t
    BY <2>1, BatchAlone
  <2>4. Hands'
    BY <2>1, <2>2, <2>3, ReportKeepsHands
  <2>5. Placed => Placed'
    BY <2>1, <2>2, <2>3, ReportKeepsPlaced
  <2> QED
    BY <2>1, <2>4, <2>5 DEF KeepsPlaces, Lost
<1>4. ASSUME NEW t \in Tasks, SortRender(t) PROVE KeepsPlaces
  <2>1. /\ pc = "sort" /\ pc' = "sort" /\ t \in batch /\ batch' = batch \ {t}
        /\ rendered' = rendered \cup {t}
        /\ UNCHANGED <<status, readyTasks, raised, direct, queued, worker>>
    BY <1>4 DEF SortRender, Sort, Goto, jobServiceVars
  <2>2. status[t] = "READY" /\ t \notin readyTasks /\ t \notin queued
    BY <2>1, BatchAlone
  <2>3. Hands'
    BY <2>1, <2>2 DEF Hands
  <2>4. ~Lost' => Placed'
    BY <2>1 DEF Lost, Placed, Somewhere, JP!Live, JP!Claimed
  <2> QED
    BY <2>3, <2>4 DEF KeepsPlaces
<1>5. ASSUME NEW t \in Tasks, MarkRendering(t) \/ RenderOne(t) PROVE KeepsPlaces
  <2>1. /\ pc = "render" /\ pc' = "render" /\ t \in rendered
        /\ \E s \in {"RENDERING", "QUEUED"} : status' = [status EXCEPT ![t] = s]
        /\ UNCHANGED <<readyTasks, raised, direct, batch, rendered, queued, worker>>
    BY <1>5 DEF MarkRendering, RenderOne, Goto, JS!StartRendering, JS!EnqueueTask, JS!SetStatus
  <2>2. t \notin queued /\ t \notin batch /\ direct = NoTask /\ \A w \in Workers : worker[w] # t
    BY <2>1, RenderedAlone
  <2>3. \A x \in Tasks \ {t} : status'[x] = status[x]
    BY <2>1 DEF JP!Loose, JP!RestTypeOK
  <2>4. status'[t] \in {"RENDERING", "QUEUED"}
    BY <2>1 DEF JP!Loose, JP!RestTypeOK
  <2>5. Hands'
    BY <2>1, <2>2, <2>3, <2>4 DEF Hands, RunnerTyped
  <2>6. ~Lost' => Placed'
    BY <2>1, <2>3 DEF Lost, Placed, Somewhere, JP!Live, JP!Claimed
  <2> QED
    BY <2>5, <2>6 DEF KeepsPlaces
<1>6. CASE PopEnd \/ SortEnd
  <2>1. /\ pc \in {"pop", "sort"} /\ pc' \in {"sort", "render"}
        /\ pc' = "sort" => rendered = {}
        /\ UNCHANGED <<jobServiceVars, raised, direct, batch, rendered, queued, worker>>
    BY <1>6 DEF PopEnd, SortEnd, Goto, Where
  <2>2. Hands'
    BY <2>1 DEF Hands, jobServiceVars
  <2>3. ~Lost' => Placed'
    BY <2>1 DEF Lost, Placed, Somewhere, jobServiceVars, JP!Live, JP!Claimed
  <2> QED
    BY <2>2, <2>3 DEF KeepsPlaces
<1>7. CASE RenderRaises
  <2>1. /\ pc' = "raised" /\ rendered' = {} /\ worker' = [w \in Workers |-> NoTask]
        /\ UNCHANGED <<jobServiceVars, batch, queued>>
    BY <1>7 DEF RenderRaises, Goto, StopPool
  <2>2. Hands'
    BY <2>1 DEF Hands, jobServiceVars
  <2> QED
    BY <2>1, <2>2 DEF KeepsPlaces, Lost
<1>8. CASE RenderEnd
  <2>1. /\ pc = "render" /\ pc' = "enqueue" /\ \A t \in rendered : status[t] = "QUEUED"
        /\ UNCHANGED <<jobServiceVars, raised, direct, batch, rendered, queued, worker>>
    BY <1>8 DEF RenderEnd, Goto
  <2>2. Hands'
    BY <2>1 DEF Hands, jobServiceVars
  <2>3. ~Lost' => Placed'
    BY <2>1 DEF Lost, Placed, Somewhere, jobServiceVars, JP!Live, JP!Claimed
  <2> QED
    BY <2>2, <2>3 DEF KeepsPlaces
<1> QED
  BY <1>1, <1>2, <1>3, <1>4, <1>5, <1>6, <1>7, <1>8 DEF RenderStep

\* The handlers whose callback raises take their task out of its place, too.
LEMMA UnstreamedKeeps ==
  ASSUME Steady, RunnerTyped', MainUnstreamed
  PROVE  KeepsPlaces
<1> USE DEF Steady, LooseInv
<1>1. /\ pc' = "raised" /\ rendered' = {} /\ batch' = {} /\ worker' = [w \in Workers |-> NoTask]
      /\ queued' = queued
  BY DEF MainUnstreamed, StopPool
<1>2. \E t \in Tasks : JP!Reports(t) /\ t \notin queued
  <2>1. CASE pc = "deciding" /\ JS!OnTaskSkipped(direct)
    BY <2>1, DirectAlone, SameReports
  <2>2. CASE pc = "answering" /\ JS!FailTask(direct, "direct_answer_error", FALSE)
    <3>1. /\ direct \in Tasks /\ status[direct] = "READY"
          /\ direct \notin readyTasks /\ direct \notin queued
      BY <2>2, DirectAlone
    <3>2. JP!MayFail(direct)
      BY <3>1 DEF JP!MayFail, JP!InHand
    <3>3. JP!Reports(direct)
      BY <2>2, <3>1, <3>2, SameReports, ErrorsKnown
    <3> QED
      BY <3>1, <3>3
  <2>3. ASSUME NEW t \in batch, JS!OnTaskSkipped(t) \/ JS!OnTaskFailed(t, "rule_error", TRUE)
        PROVE  \E x \in Tasks : JP!Reports(x) /\ x \notin queued
    <3>1. t \in Tasks /\ t \notin queued
      BY BatchAlone
    <3> QED
      BY <2>3, <3>1, SameReports, ErrorsKnown
  <2>4. ASSUME NEW t \in rendered, JS!OnTaskFailed(t, "no_queue", FALSE)
        PROVE  \E x \in Tasks : JP!Reports(x) /\ x \notin queued
    <3>1. t \in Tasks /\ t \notin queued
      BY RenderedAlone
    <3> QED
      BY <2>4, <3>1, SameReports, ErrorsKnown
  <2> QED
    BY <2>1, <2>2, <2>3, <2>4 DEF MainUnstreamed
<1>3. PICK t \in Tasks : JP!Reports(t) /\ t \notin queued
  BY <1>2
<1>4. Hands'
  BY <1>1, <1>3, ReportKeepsHands
<1> QED
  BY <1>1, <1>4 DEF KeepsPlaces, Lost

LEMMA MainKeeps ==
  ASSUME Steady, RunnerTyped', MainStep
  PROVE  KeepsPlaces
<1> USE DEF Steady, LooseInv
<1>1. ASSUME NEW t \in Tasks, Enqueue(t) PROVE KeepsPlaces
  <2>1. /\ pc = "enqueue" /\ pc' = "enqueue" /\ t \in rendered
        /\ rendered' = rendered \ {t} /\ queued' = queued \cup {t}
        /\ UNCHANGED <<status, readyTasks, raised, direct, batch, worker>>
    BY <1>1 DEF Enqueue, Goto, jobServiceVars
  <2>2. status[t] = "QUEUED" /\ batch = {}
    BY <2>1 DEF Hands, Where
  <2>3. Hands'
    BY <2>1, <2>2 DEF Hands
  <2>4. ~Lost' => Placed'
    BY <2>1 DEF Lost, Placed, Somewhere, JP!Live, JP!Claimed
  <2> QED
    BY <2>3, <2>4 DEF KeepsPlaces
<1>2. ASSUME NEW t \in Tasks, NoQueue(t) PROVE KeepsPlaces
  <2>1. /\ pc = "enqueue" /\ pc' \in {"enqueue", "raising"} /\ t \in rendered
        /\ rendered' = rendered \ {t} /\ JP!Reports(t)
        /\ UNCHANGED <<raised, direct, batch, queued, worker>>
    BY <1>2, SameReports, ErrorsKnown DEF NoQueue, Goto
  <2>2. t \notin queued /\ t \notin batch /\ direct = NoTask /\ \A w \in Workers : worker[w] # t
    BY <2>1, RenderedAlone
  <2>3. Hands'
    BY <2>1, <2>2, ReportKeepsHands
  <2>4. Placed => Placed'
    BY <2>1, <2>2, ReportKeepsPlaced
  <2> QED
    BY <2>1, <2>3, <2>4 DEF KeepsPlaces, Lost
<1>3. CASE MainUnstreamed
  BY <1>3, UnstreamedKeeps
<1>4. CASE Check \/ WakeUp
  <2>1. /\ pc \in {"enqueue", "sleeping"} /\ rendered = {}
        /\ pc' \in {"raising", "done", "sleeping", "direct"}
        /\ UNCHANGED <<jobServiceVars, raised, direct, batch, rendered, queued, worker>>
    BY <1>4 DEF Check, WakeUp, Goto, Where
  <2>2. Hands'
    BY <2>1 DEF Hands, jobServiceVars
  <2>3. ~Lost' => Placed'
    BY <2>1 DEF Lost, Placed, Somewhere, jobServiceVars, JP!Live, JP!Claimed
  <2> QED
    BY <2>2, <2>3 DEF KeepsPlaces
<1>5. CASE Raise
  <2>1. /\ pc' = "raised" /\ rendered' = {} /\ worker' = [w \in Workers |-> NoTask]
        /\ UNCHANGED <<status, readyTasks, batch, queued>>
    BY <1>5 DEF Raise, Goto, StopPool, JS!Cancel, JS!taskVars
  <2>2. Hands'
    BY <2>1 DEF Hands
  <2> QED
    BY <2>1, <2>2 DEF KeepsPlaces, Lost
<1> QED
  BY <1>1, <1>2, <1>3, <1>4, <1>5 DEF MainStep

LEMMA WorkerKeeps ==
  ASSUME Steady, RunnerTyped', NEW w \in Workers, WorkerStep(w)
  PROVE  KeepsPlaces
<1> USE DEF Steady, LooseInv
<1>1. ASSUME NEW t \in Tasks, Take(w, t) PROVE KeepsPlaces
  <2>1. /\ LoopIsFree /\ worker[w] = NoTask /\ t \in queued
        /\ status' = [status EXCEPT ![t] = "RUNNING"] /\ queued' = queued \ {t}
        /\ worker' = [worker EXCEPT ![w] = t]
        /\ UNCHANGED <<readyTasks, pc, raised, direct, batch, rendered>>
    BY <1>1 DEF Take, JS!StartRunning, JS!SetStatus
  <2>2. batch = {} /\ rendered = {}
    BY <2>1 DEF LoopIsFree, Where
  <2>3. /\ \A x \in Tasks \ {t} : status'[x] = status[x]
        /\ status'[t] = "RUNNING" /\ status[t] = "QUEUED"
    BY <2>1 DEF JP!Loose, JP!RestTypeOK, Hands
  <2>4. worker'[w] = t /\ \A v \in Workers \ {w} : worker'[v] = worker[v]
    BY <2>1 DEF RunnerTyped
  <2>5. \A v \in Workers : worker[v] # t
    BY <2>3, RunnerConstants DEF Hands
  <2>6. pc \in {"deciding", "answering"} => direct \in Tasks /\ direct # t
    BY <2>3 DEF Hands, Where
  <2>7. Hands'
    <3>1. \A v \in Workers : worker'[v] # NoTask =>
            status'[worker'[v]] = "RUNNING" /\ \A u \in Workers : worker'[u] = worker'[v] => u = v
      BY <2>3, <2>4, <2>5 DEF Hands, RunnerTyped
    <3>2. pc' \in {"deciding", "answering"} =>
            status'[direct'] = "READY" /\ direct' \notin readyTasks'
      BY <2>1, <2>3, <2>6 DEF Hands
    <3>3. \A x \in queued' : status'[x] = "QUEUED"
      BY <2>1, <2>3 DEF Hands, RunnerTyped
    <3> QED
      BY <2>1, <2>2, <3>1, <3>2, <3>3 DEF Hands
  <2>8. ~Lost' => Placed'
    <3> SUFFICES ASSUME ~Lost', NEW x \in Tasks, status'[x] \in JP!Live
                 PROVE  Somewhere(x)'
      BY DEF Placed, JP!Live, JP!Claimed
    <3>1. CASE x = t
      BY <2>4, <3>1 DEF Somewhere
    <3>2. CASE x # t
      <4>1. Somewhere(x)
        BY <2>1, <2>3, <3>2 DEF Lost, Placed
      <4> QED
        BY <2>1, <2>4, <3>2, <4>1, RunnerConstants DEF Somewhere
    <3> QED
      BY <3>1, <3>2
  <2> QED
    BY <2>7, <2>8 DEF KeepsPlaces
<1>2. ASSUME worker[w] # NoTask, LoopIsFree, JP!Reports(worker[w]),
             worker' = [worker EXCEPT ![w] = NoTask],
             UNCHANGED <<pc, raised, direct, batch, rendered, queued>>
      PROVE  KeepsPlaces
  <2>1. /\ worker[w] \in Tasks
        /\ worker[w] \notin queued /\ worker[w] # direct
        /\ batch = {} /\ rendered = {}
        /\ \A v \in Workers : worker[v] = worker[w] => v = w
    BY <1>2, WorkerAlone
  <2>2. worker'[w] = NoTask /\ \A v \in Workers \ {w} : worker'[v] = worker[v]
    BY <1>2 DEF RunnerTyped
  <2>3. pc' \in {"deciding", "answering"} => direct \in Tasks
    BY <1>2 DEF Where
  <2>4. Hands'
    BY <1>2, <2>1, <2>2, <2>3, ReportKeepsHands
  <2>5. Placed => Placed'
    BY <1>2, <2>1, <2>2, ReportKeepsPlaced
  <2> QED
    BY <1>2, <2>4, <2>5 DEF KeepsPlaces, Lost
<1>3. worker[w] # NoTask => worker[w] \in Tasks
  BY DEF RunnerTyped
<1>4. CASE Answered(w)
  BY <1>2, <1>3, <1>4, SameReports DEF Answered, Release
<1>5. CASE WorkerEnds(w)
  BY <1>2, <1>3, <1>5, SameReports, ErrorsKnown DEF WorkerEnds
<1>6. ASSUME NEW e \in WorkerErrors, Failed(w, e) PROVE KeepsPlaces
  BY <1>2, <1>3, <1>6, SameReports, ErrorsKnown DEF Failed, Release
<1> QED
  BY <1>1, <1>4, <1>5, <1>6 DEF WorkerStep

LEMMA OthersKeep ==
  ASSUME LooseInv, Hands, ~Lost => Placed, UserCancel \/ CallAgain \/ Ended \/ UNCHANGED vars
  PROVE  KeepsPlaces
<1>1. CASE UserCancel \/ UNCHANGED vars
  <2>1. UNCHANGED <<status, readyTasks, pc, raised, direct, batch, rendered, queued, worker>>
    BY <1>1 DEF UserCancel, JS!Cancel, JS!taskVars, runnerVars, vars, jobServiceVars
  <2> QED
    BY <2>1 DEF KeepsPlaces, Lost, Hands, Placed, Somewhere, JP!Live, JP!Claimed
<1>2. CASE CallAgain
  <2>1. /\ pc \in {"done", "raised"} /\ pc' = "sleeping" /\ direct' = NoTask
        /\ raised' = (raised \/ pc = "raised")
        /\ UNCHANGED <<status, readyTasks, batch, rendered, queued, worker>>
    BY <1>2 DEF CallAgain, jobServiceVars
  <2>2. batch = {} /\ rendered = {}
    BY <2>1 DEF LooseInv, Where
  <2>3. Hands'
    BY <2>1, <2>2 DEF Hands
  <2>4. ~Lost' => Placed'
    BY <2>1, RunnerConstants DEF LooseInv, Where, Lost, Placed, Somewhere, JP!Live, JP!Claimed
  <2> QED
    BY <2>3, <2>4 DEF KeepsPlaces
<1> QED
  BY <1>1, <1>2 DEF Ended

-----------------------------------------------------------------------------
(***************************************************************************)
(* Sums.  MapThenSumSet of Folds adds up a set by a recursive function on  *)
(* its subsets.                                                            *)
(***************************************************************************)

\* Of a collection of finite subsets of S that is not empty, some member contains no other.
LEMMA SmallestSet ==
  ASSUME NEW S, IsFiniteSet(S), NEW B \in SUBSET SUBSET S, B # {}
  PROVE  \E s \in B : \A r \in SUBSET s : r # s => r \notin B
<1>1. IsWellFoundedOn(StrictSubsetOrdering(S), SUBSET S)
  BY FS_StrictSubsetOrderingWellFounded, FS_FiniteSubsetsOfFinite
<1>2. PICK s \in B : \A r \in B : <<r, s>> \notin StrictSubsetOrdering(S)
  BY <1>1, WFMin
<1>3. ASSUME NEW r \in SUBSET s, r # s, r \in B PROVE FALSE
  <2>1. <<r, s>> \in StrictSubsetOrdering(S)
    BY <1>3 DEF StrictSubsetOrdering
  <2> QED
    BY <1>2, <1>3, <2>1
<1> QED
  BY <1>3

\* A set of numbers that is not empty has a least one.
LEMMA LeastNumber ==
  ASSUME NEW T \in SUBSET Nat, T # {}
  PROVE  \E n \in T : \A m \in T : n <= m
<1>1. PICK k \in T : TRUE
  OBVIOUS
<1> DEFINE I == 0..k
           B == {r \in SUBSET I : \E n \in T : n <= k /\ r = 0..n}
<1>2. IsFiniteSet(I)
  BY FS_Interval
<1>3. I \in B
  OBVIOUS
<1>4. PICK s \in B : \A r \in SUBSET s : r # s => r \notin B
  <2>1. B \in SUBSET SUBSET I /\ B # {}
    BY <1>3
  <2> HIDE DEF B, I
  <2> QED
    BY <1>2, <2>1, SmallestSet
<1>5. PICK n \in T : n <= k /\ s = 0..n
  BY <1>4
<1>6. ASSUME NEW m \in T, m < n PROVE FALSE
  <2>1. 0..m \in B /\ 0..m \subseteq 0..n /\ n \in 0..n /\ n \notin 0..m
    BY <1>5, <1>6
  <2> QED
    BY <1>4, <1>5, <2>1
<1> QED
  BY <1>6

Pick(s) == CHOOSE x \in s : TRUE

LEMMA Picked ==
  ASSUME NEW s, s # {}
  PROVE  Pick(s) \in s
BY DEF Pick

\* g adds up F over each set of the collection D.
Adds(g, F, D) ==
  g = [s \in D |-> IF s = {} THEN 0 ELSE F[Pick(s)] + g[s \ {Pick(s)}]]

\* There is such a function on the subsets of a finite set.
LEMMA SumsExist ==
  ASSUME NEW S, IsFiniteSet(S), NEW F
  PROVE  \E g : Adds(g, F, SUBSET S)
<1> DEFINE D(n) == {s \in SUBSET S : Cardinality(s) <= n}
           T == {n \in Nat : ~\E g : Adds(g, F, D(n))}
<1>1. \A s \in SUBSET S : /\ IsFiniteSet(s) /\ Cardinality(s) \in Nat
                          /\ Cardinality(s) = 0 <=> s = {}
                          /\ \A x \in s : Cardinality(s \ {x}) = Cardinality(s) - 1
  BY FS_Subset, FS_CardinalityType, FS_EmptySet, FS_RemoveElement
<1>2. \E g : Adds(g, F, D(0))
  <2> DEFINE g == [s \in D(0) |-> 0]
  <2>1. \A s \in D(0) : s = {}
    BY <1>1
  <2>2. g = [s \in D(0) |-> IF s = {} THEN 0 ELSE F[Pick(s)] + g[s \ {Pick(s)}]]
    BY <2>1
  <2> QED
    BY <2>2 DEF Adds
<1>3. ASSUME NEW n \in Nat, \E g : Adds(g, F, D(n))
      PROVE  \E g : Adds(g, F, D(n + 1))
  <2>1. PICK g : Adds(g, F, D(n))
    BY <1>3
  <2> DEFINE h == [s \in D(n + 1) |-> IF s = {} THEN 0 ELSE F[Pick(s)] + g[s \ {Pick(s)}]]
  <2>2. \A s \in D(n) : g[s] = IF s = {} THEN 0 ELSE F[Pick(s)] + g[s \ {Pick(s)}]
    BY <2>1 DEF Adds
  <2>3. \A s \in D(n) : s \in D(n + 1)
    BY <1>1
  <2>4. \A s \in D(n) : h[s] = g[s]
    BY <2>2, <2>3
  <2>5. \A s \in D(n + 1) : s # {} => s \ {Pick(s)} \in D(n)
    BY <1>1, Picked
  <2>6. h = [s \in D(n + 1) |-> IF s = {} THEN 0 ELSE F[Pick(s)] + h[s \ {Pick(s)}]]
    <3> HIDE DEF D
    <3> QED
      BY <2>4, <2>5
  <2> HIDE DEF h
  <2> QED
    BY <2>6 DEF Adds
<1>4. T = {}
  <2> SUFFICES ASSUME T # {} PROVE FALSE
    OBVIOUS
  <2>1. PICK n \in T : \A m \in T : n <= m
    <3>1. T \in SUBSET Nat
      OBVIOUS
    <3> HIDE DEF T
    <3> QED
      BY <3>1, LeastNumber
  <2>2. n \in Nat /\ ~\E g : Adds(g, F, D(n))
    OBVIOUS
  <2> HIDE DEF D
  <2>3. n # 0
    BY <1>2, <2>2
  <2>4. n - 1 \in Nat /\ n - 1 \notin T
    BY <2>1, <2>2, <2>3
  <2>5. \E g : Adds(g, F, D(n - 1))
    BY <2>4
  <2>6. \E g : Adds(g, F, D(n - 1 + 1))
    BY <1>3, <2>4, <2>5
  <2> QED
    BY <2>2, <2>6
<1>5. Cardinality(S) \in Nat
  BY FS_CardinalityType
<1>6. D(Cardinality(S)) = SUBSET S
  <2>1. \A s \in SUBSET S : Cardinality(s) <= Cardinality(S)
    BY FS_Subset
  <2> QED
    BY <2>1
<1>7. \E g : Adds(g, F, D(Cardinality(S)))
  BY <1>4, <1>5
<1> QED
  BY <1>6, <1>7

\* P[a], for each a of S, is a set of F[a] members of T, and no two of them overlap.
Parts(P, F, S, T) ==
  /\ IsFiniteSet(S) /\ IsFiniteSet(T) /\ P \in [S -> SUBSET T]
  /\ \A a \in S : \A b \in S : a # b => P[a] \cap P[b] = {}
  /\ \A a \in S : F[a] = Cardinality(P[a])

\* Their sizes add up to the size of their union.
LEMMA PartsAddUp ==
  ASSUME NEW S, NEW T, NEW P, NEW F, Parts(P, F, S, T), NEW g, Adds(g, F, SUBSET S)
  PROVE  g[S] = Cardinality(UNION {P[a] : a \in S})
<1> USE DEF Parts
<1> DEFINE U(s) == UNION {P[a] : a \in s}
           B == {s \in SUBSET S : g[s] # Cardinality(U(s))}
<1>1. \A s \in SUBSET S : g[s] = IF s = {} THEN 0 ELSE F[Pick(s)] + g[s \ {Pick(s)}]
  BY DEF Adds
<1>2. B = {}
  <2> SUFFICES ASSUME B # {} PROVE FALSE
    OBVIOUS
  <2>1. PICK s \in B : \A r \in SUBSET s : r # s => r \notin B
    <3>1. B \in SUBSET SUBSET S
      OBVIOUS
    <3> HIDE DEF B
    <3> QED
      BY <3>1, SmallestSet
  <2>2. s \in SUBSET S /\ g[s] # Cardinality(U(s))
    OBVIOUS
  <2>3. s # {}
    <3> SUFFICES ASSUME s = {} PROVE FALSE
      OBVIOUS
    <3>1. U(s) = {}
      OBVIOUS
    <3> QED
      BY <1>1, <2>2, <3>1, FS_EmptySet
  <2> DEFINE x == Pick(s)
             r == s \ {x}
  <2>4. x \in s /\ r \in SUBSET s /\ r # s /\ r \in SUBSET S
    BY <2>2, <2>3, Picked
  <2>5. g[r] = Cardinality(U(r))
    BY <2>1, <2>4
  <2>6. g[s] = Cardinality(P[x]) + Cardinality(U(r))
    BY <1>1, <2>2, <2>3, <2>4, <2>5
  <2>7. U(s) = P[x] \cup U(r) /\ P[x] \cap U(r) = {} /\ P[x] \subseteq T /\ U(r) \subseteq T
    <3>1. s = {x} \cup r /\ x \in S /\ x \notin r /\ r \subseteq S
      BY <2>2, <2>4
    <3> HIDE DEF x, r
    <3>2. U(s) = P[x] \cup U(r)
      BY <3>1
    <3>3. P[x] \cap U(r) = {}
      BY <3>1
    <3>4. P[x] \subseteq T /\ U(r) \subseteq T
      BY <3>1
    <3> QED
      BY <3>2, <3>3, <3>4
  <2>8. Cardinality(U(s)) = Cardinality(P[x]) + Cardinality(U(r))
    <3> HIDE DEF U, x, r
    <3>1. IsFiniteSet(P[x]) /\ IsFiniteSet(U(r))
      BY <2>7, FS_Subset
    <3>2. /\ Cardinality(P[x] \cup U(r))
               = Cardinality(P[x]) + Cardinality(U(r)) - Cardinality(P[x] \cap U(r))
          /\ Cardinality(P[x]) \in Nat /\ Cardinality(U(r)) \in Nat
      BY <3>1, FS_Union, FS_CardinalityType
    <3>3. Cardinality(P[x] \cap U(r)) = 0
      BY <2>7, FS_EmptySet
    <3> QED
      BY <2>7, <3>2, <3>3
  <2> QED
    BY <2>2, <2>6, <2>8
<1> QED
  BY <1>2

-----------------------------------------------------------------------------
(***************************************************************************)
(* get_progress counts right while the books are right.                    *)
(***************************************************************************)

LEMMA SameSizes == \A A : JP!Cardinality(A) = Cardinality(A)
BY DEF Cardinality, JP!Cardinality

WithStatus(o) == {t \in Tasks : status[t] = o}

\* The interviews' counters of one outcome, added up.
LEMMA CountedAsSum ==
  ASSUME NEW o
  PROVE  \E g : /\ Adds(g, [i \in Interviews |-> tally[i][o]], SUBSET Interviews)
                /\ CountedAs(o) = g[Interviews]
<1> DEFINE F == [i \in Interviews |-> tally[i][o]]
<1>1. \E h : Adds(h, F, SUBSET Interviews)
  BY JobConstants, SumsExist
<1>2. \A h : Adds(h, F, SUBSET Interviews)
               <=> h = [s \in SUBSET Interviews |->
                          IF s = {} THEN 0 ELSE tally[Pick(s)][o] + h[s \ {Pick(s)}]]
  <2> TAKE h
  <2>1. \A s \in SUBSET Interviews : s # {} => F[Pick(s)] = tally[Pick(s)][o]
    BY Picked
  <2> HIDE DEF F
  <2> QED
    BY <2>1 DEF Adds
<1> HIDE DEF F
<1>3. \E h : h = [s \in SUBSET Interviews |->
                    IF s = {} THEN 0 ELSE tally[Pick(s)][o] + h[s \ {Pick(s)}]]
  BY <1>1, <1>2
<1>4. \E h : /\ h = [s \in SUBSET Interviews |->
                       IF s = {} THEN 0 ELSE tally[Pick(s)][o] + h[s \ {Pick(s)}]]
             /\ CountedAs(o) = h[Interviews]
  BY <1>3 DEF CountedAs, MapThenSumSet, MapThenFoldSet, Pick
<1> QED
  BY <1>2, <1>4 DEF F

LEMMA CountedAsExact ==
  ASSUME JP!BookInv, NEW o \in JP!Outcomes
  PROVE  CountedAs(o) = Cardinality(WithStatus(o))
<1> DEFINE F == [i \in Interviews |-> tally[i][o]]
           P == [i \in Interviews |-> {t \in WithStatus(o) : InterviewOf[t] = i}]
<1>1. PICK g : Adds(g, F, SUBSET Interviews) /\ CountedAs(o) = g[Interviews]
  BY CountedAsSum
<1>2. IsFiniteSet(Interviews) /\ IsFiniteSet(WithStatus(o))
  BY JobConstants, FS_Subset DEF WithStatus
<1>3. P \in [Interviews -> SUBSET WithStatus(o)]
  OBVIOUS
<1>4. \A i \in Interviews : \A j \in Interviews : i # j => P[i] \cap P[j] = {}
  OBVIOUS
<1>5. \A i \in Interviews : F[i] = Cardinality(P[i])
  <2>1. \A i \in Interviews : P[i] = JP!WithOutcome(i, {o})
    BY DEF WithStatus, JP!WithOutcome, JP!TasksOf
  <2>2. \A i \in Interviews : tally[i][o] = Cardinality(JP!WithOutcome(i, {o}))
    BY SameSizes DEF JP!BookInv, JP!TalliesExact
  <2> QED
    BY <2>1, <2>2
<1>6. UNION {P[i] : i \in Interviews} = WithStatus(o)
  BY JobConstants DEF WithStatus
<1> HIDE DEF F, P
<1>7. Adds(g, F, SUBSET Interviews)
  BY <1>1
<1>8. Parts(P, F, Interviews, WithStatus(o))
  BY <1>2, <1>3, <1>4, <1>5 DEF Parts
<1>9. g[Interviews] = Cardinality(UNION {P[i] : i \in Interviews})
  BY <1>7, <1>8, PartsAddUp
<1> QED
  BY <1>1, <1>6, <1>9

LEMMA SameOutcomeNames == JS!Outcomes = JP!Outcomes /\ IsFiniteSet(JS!Outcomes)
<1>1. IsFiniteSet({"COMPLETED"})
  BY FS_EmptySet, FS_AddElement
<1>2. IsFiniteSet({"COMPLETED", "SKIPPED"})
  <2>1. {"COMPLETED", "SKIPPED"} = {"COMPLETED"} \cup {"SKIPPED"}
    OBVIOUS
  <2> QED
    BY <1>1, <2>1, FS_AddElement
<1>3. IsFiniteSet({"COMPLETED", "SKIPPED", "FAILED"})
  <2>1. {"COMPLETED", "SKIPPED", "FAILED"} = {"COMPLETED", "SKIPPED"} \cup {"FAILED"}
    OBVIOUS
  <2> QED
    BY <1>2, <2>1, FS_AddElement
<1>4. IsFiniteSet({"COMPLETED", "SKIPPED", "FAILED", "BLOCKED"})
  <2>1. {"COMPLETED", "SKIPPED", "FAILED", "BLOCKED"}
          = {"COMPLETED", "SKIPPED", "FAILED"} \cup {"BLOCKED"}
    OBVIOUS
  <2> QED
    BY <1>3, <2>1, FS_AddElement
<1> QED
  BY <1>4 DEF JS!Outcomes, JP!Outcomes

LEMMA AccountedAsSum ==
  \E g : /\ Adds(g, [o \in JS!Outcomes |-> CountedAs(o)], SUBSET JS!Outcomes)
         /\ Accounted = g[JS!Outcomes]
<1> DEFINE F == [o \in JS!Outcomes |-> CountedAs(o)]
<1>1. \E h : Adds(h, F, SUBSET JS!Outcomes)
  BY SameOutcomeNames, SumsExist
<1>2. \A h : Adds(h, F, SUBSET JS!Outcomes)
               <=> h = [s \in SUBSET JS!Outcomes |->
                          IF s = {} THEN 0 ELSE CountedAs(Pick(s)) + h[s \ {Pick(s)}]]
  <2> TAKE h
  <2>1. \A s \in SUBSET JS!Outcomes : s # {} => F[Pick(s)] = CountedAs(Pick(s))
    BY Picked
  <2> HIDE DEF F
  <2> QED
    BY <2>1 DEF Adds
<1> HIDE DEF F
<1>3. \E h : h = [s \in SUBSET JS!Outcomes |->
                    IF s = {} THEN 0 ELSE CountedAs(Pick(s)) + h[s \ {Pick(s)}]]
  BY <1>1, <1>2
<1>4. \E h : /\ h = [s \in SUBSET JS!Outcomes |->
                       IF s = {} THEN 0 ELSE CountedAs(Pick(s)) + h[s \ {Pick(s)}]]
             /\ Accounted = h[JS!Outcomes]
  BY <1>3 DEF Accounted, MapThenSumSet, MapThenFoldSet, Pick
<1> QED
  BY <1>2, <1>4 DEF F

\* Every task with an outcome is accounted for, once.
LEMMA AccountedExact ==
  ASSUME JP!BookInv
  PROVE  Accounted = Cardinality({t \in Tasks : status[t] \in JS!Outcomes})
<1> DEFINE F == [o \in JS!Outcomes |-> CountedAs(o)]
           P == [o \in JS!Outcomes |-> WithStatus(o)]
           T == {t \in Tasks : status[t] \in JS!Outcomes}
<1>1. PICK g : Adds(g, F, SUBSET JS!Outcomes) /\ Accounted = g[JS!Outcomes]
  BY AccountedAsSum
<1>2. IsFiniteSet(JS!Outcomes) /\ IsFiniteSet(T)
  BY JobConstants, FS_Subset, SameOutcomeNames
<1>3. P \in [JS!Outcomes -> SUBSET T]
  BY DEF WithStatus
<1>4. \A a \in JS!Outcomes : \A b \in JS!Outcomes : a # b => P[a] \cap P[b] = {}
  BY DEF WithStatus
<1>5. \A o \in JS!Outcomes : F[o] = Cardinality(P[o])
  BY CountedAsExact, SameOutcomeNames
<1>6. UNION {P[o] : o \in JS!Outcomes} = T
  BY DEF WithStatus
<1> HIDE DEF F, P, T
<1>7. Adds(g, F, SUBSET JS!Outcomes)
  BY <1>1
<1>8. Parts(P, F, JS!Outcomes, T)
  BY <1>2, <1>3, <1>4, <1>5 DEF Parts
<1>9. g[JS!Outcomes] = Cardinality(UNION {P[o] : o \in JS!Outcomes})
  BY <1>7, <1>8, PartsAddUp
<1> QED
  BY <1>1, <1>6, <1>9 DEF T

-----------------------------------------------------------------------------
(***************************************************************************)
(* The books, the places and the end of the run.                           *)
(***************************************************************************)

ExitFacts ==
  /\ \A t \in Tasks : status[t] \in JS!Outcomes
  /\ \A i \in Interviews : notified[i] = 1
  /\ queued = {} /\ \A w \in Workers : worker[w] = NoTask
  /\ job # "RUNNING"

\* While the books are right, get_progress says the job is done only when it is.
LEMMA AllDoneExit ==
  ASSUME LooseInv, JP!IInv, JP!BookInv, Hands, AllDone
  PROVE  ExitFacts
<1> DEFINE T == {t \in Tasks : status[t] \in JS!Outcomes}
<1>1. {t \in Tasks : status[t] \in JS!Claimed} = {}
  <2>1. IsFiniteSet({t \in Tasks : status[t] \in JS!Claimed})
    BY JobConstants, FS_Subset
  <2> QED
    BY <2>1, FS_EmptySet DEF AllDone, Running
<1>2. T = Tasks
  <2>1. T \subseteq Tasks /\ IsFiniteSet(Tasks)
    BY JobConstants
  <2>2. Accounted = Cardinality(T)
    BY AccountedExact
  <2> HIDE DEF T
  <2>3. /\ Cardinality(T) <= Cardinality(Tasks)
        /\ Cardinality(T) = Cardinality(Tasks) => T = Tasks
        /\ Cardinality(T) \in Nat /\ Cardinality(Tasks) \in Nat
    BY <2>1, FS_Subset, FS_CardinalityType
  <2>4. Cardinality(Tasks) - Accounted <= 0
    <3>1. Cardinality(readyTasks) = 0 /\ Running = 0 /\ Pending <= 0
      BY FS_EmptySet DEF AllDone
    <3> QED
      BY <2>2, <2>3, <3>1 DEF Pending
  <2> QED
    BY <2>2, <2>3, <2>4
<1>3. \A t \in Tasks : status[t] \in JS!Outcomes
  BY <1>2
<1>4. \A i \in Interviews : JP!Finished(i)
  BY <1>3, SameOutcomeNames DEF JP!Finished, JP!TasksOf
<1>5. \A i \in Interviews : notified[i] = 1
  BY <1>4 DEF JP!BookInv, JP!NotifiedOnce
<1>6. job # "RUNNING"
  BY <1>4 DEF JP!BookInv, JP!FinalizedExactly
<1>7. queued = {} /\ \A w \in Workers : worker[w] = NoTask
  BY <1>3 DEF JS!Outcomes, Hands, LooseInv, RunnerTyped
<1> QED
  BY <1>3, <1>5, <1>6, <1>7 DEF ExitFacts

\* The loop is left where the check says so, and a run that ended stays ended.
LEMMA EndsByCheck ==
  ASSUME [Next]_vars, pc' = "done"
  PROVE  \/ pc = "enqueue" /\ AllDone /\ UNCHANGED <<status, notified, queued, worker, job>>
         \/ pc = "done" /\ (UserCancel \/ UNCHANGED vars)
<1>1. ASSUME DirectStep PROVE FALSE
  BY <1>1 DEF DirectStep, DirectPop, DirectEnd, DirectSkip, DirectRuleRaises, DirectExecute,
              DirectAnswered, DirectUnstreamed, DirectFailed, FailDirect, Goto
<1>2. ASSUME RenderStep PROVE FALSE
  BY <1>2 DEF RenderStep, PopOne, SortDirect, SortSkip, SortRuleRaises, SortRender, Sort,
              MarkRendering, RenderOne, PopEnd, SortEnd, RenderRaises, RenderEnd, Goto
<1>3. ASSUME MainStep
      PROVE  pc = "enqueue" /\ AllDone /\ UNCHANGED <<status, notified, queued, worker, job>>
  <2>1. Check
    BY <1>3 DEF MainStep, Enqueue, NoQueue, MainUnstreamed, WakeUp, Raise, Goto
  <2> QED
    BY <2>1 DEF Check, jobServiceVars
<1>4. ASSUME NEW w \in Workers, WorkerStep(w) PROVE FALSE
  BY <1>4 DEF WorkerStep, Take, Answered, Failed, Release, WorkerEnds, LoopIsFree
<1>5. ASSUME UserCancel \/ UNCHANGED vars PROVE pc = "done"
  BY <1>5 DEF UserCancel, runnerVars, vars
<1>6. ASSUME CallAgain PROVE FALSE
  BY <1>6 DEF CallAgain
<1> QED
  BY <1>1, <1>2, <1>3, <1>4, <1>5, <1>6 DEF Next, Ended

\* After a write that failed, on_task_failed follows, unless nothing happens or a cancel.
LEMMA FailingStep ==
  ASSUME LooseInv, pc = "failing", [Next]_vars, ~Recounted'
  PROVE  UserCancel \/ UNCHANGED vars
<1>1. direct \in Tasks /\ notified[InterviewOf[direct]] > 0
  BY DEF LooseInv, Where
<1>2. ASSUME JS!RetryTask(direct, "direct_answer_error")
               \/ JS!FailTask(direct, "direct_answer_error", FALSE)
      PROVE  FALSE
  <2>1. \/ JP!RetryTask(direct, "direct_answer_error")
        \/ \E force \in BOOLEAN : JP!FailTask(direct, "direct_answer_error", force)
    BY <1>2, SameFailures
  <2>2. JP!Recounted'
    BY <1>1, <2>1, ErrorsKnown, JP!FailedAfterReport, JobFinite, JobDeps, JobNonEmpty,
       JobPolicies, JobErrors DEF LooseInv
  <2> QED
    BY <2>2, SameRecounted
<1>3. ASSUME DirectStep PROVE FALSE
  <2>1. FailDirect
    BY <1>3 DEF DirectStep, DirectPop, DirectEnd, DirectSkip, DirectRuleRaises, DirectExecute,
                DirectAnswered, DirectUnstreamed, DirectFailed, Goto
  <2> QED
    BY <1>2, <2>1 DEF FailDirect
<1>4. ASSUME RenderStep PROVE FALSE
  BY <1>4 DEF RenderStep, PopOne, SortDirect, SortSkip, SortRuleRaises, SortRender, Sort,
              MarkRendering, RenderOne, PopEnd, SortEnd, RenderRaises, RenderEnd, Goto
<1>5. ASSUME MainStep PROVE FALSE
  <2>1. MainUnstreamed
    BY <1>5 DEF MainStep, Enqueue, NoQueue, Check, WakeUp, Raise, Goto
  <2> QED
    BY <1>2, <2>1 DEF MainUnstreamed
<1>6. ASSUME NEW w \in Workers, WorkerStep(w) PROVE FALSE
  BY <1>6 DEF WorkerStep, Take, Answered, Failed, Release, WorkerEnds, LoopIsFree
<1>7. ASSUME CallAgain PROVE FALSE
  BY <1>7 DEF CallAgain
<1> QED
  BY <1>3, <1>4, <1>5, <1>6, <1>7 DEF Next, Ended

\* Until a completed task is failed or retried, a step of the run is one of JobService.
LEMMA ServiceStep ==
  ASSUME LooseInv, Hands, [Next]_vars, pc = "failing" => UserCancel \/ UNCHANGED vars
  PROVE  JP!Next \/ UNCHANGED JP!vars
<1>1. Serves
  BY NextStays DEF Stays
<1>2. CASE pc = "failing"
  BY <1>2, SameCancel, SameVars DEF UserCancel, JP!Next, vars
<1>3. CASE pc # "failing"
  <2>1. pc = "answering" => JP!MayFail(direct)
    BY DirectAlone DEF LooseInv, JP!MayFail, JP!InHand
  <2> QED
    BY <1>1, <1>3, <2>1 DEF Serves, InTurn
<1> QED
  BY <1>2, <1>3

LEMMA BooksStep ==
  ASSUME LooseInv, JP!IInv, JP!BookInv, Hands, [Next]_vars,
         pc = "failing" => UserCancel \/ UNCHANGED vars
  PROVE  JP!IInv' /\ JP!BookInv'
<1>1. JP!Next \/ UNCHANGED JP!vars
  BY ServiceStep
<1>2. JP!IInv'
  BY <1>1, JP!NextIInv, JobFinite, JobDeps, JobNonEmpty, JobPolicies, JobErrors
<1>3. JP!BookInv'
  BY <1>1, <1>2, JP!NextBook, JobFinite, JobDeps, JobNonEmpty, JobPolicies, JobErrors
<1> QED
  BY <1>2, <1>3

-----------------------------------------------------------------------------
(***************************************************************************)
(* The inductive invariant.                                                *)
(***************************************************************************)

RInv ==
  /\ LooseInv
  /\ ~Recounted => /\ JP!IInv /\ JP!BookInv
                   /\ Hands /\ (~Lost => Placed)
                   /\ pc = "done" => ExitFacts

LEMMA InitRInv == Init => RInv
<1> SUFFICES ASSUME Init PROVE RInv
  OBVIOUS
<1>1. JP!Init
  BY SameInit DEF Init
<1>2. JP!IInv
  BY <1>1, JP!InitIInv, JobFinite, JobDeps, JobNonEmpty, JobPolicies, JobErrors
<1>3. JP!BookInv
  BY <1>1, JP!InitBook, JobFinite, JobDeps, JobNonEmpty, JobPolicies, JobErrors
<1>4. JP!Loose
  BY <1>2, <1>3, JP!BooksNotRecounted, JobFinite, JobDeps, JobNonEmpty, JobPolicies, JobErrors
<1>5. RunnerTyped
  <2>1. calls \in 1..Calls /\ streamErrors \in 0..MaxStreamErrors
    BY RunnerConstants DEF Init
  <2>2. {raise, raised} \subseteq BOOLEAN
    BY RunnerConstants, Zenon DEF Init
  <2>3. pc \in Points /\ worker \in [Workers -> Tasks \cup {NoTask}]
    BY DEF Init, Points
  <2> QED
    BY <2>1, <2>2, <2>3 DEF Init, RunnerTyped
<1>6. Where /\ Hands
  BY DEF Init, Where, Hands
<1>7. Placed
  BY <1>1 DEF JP!Init, JP!InitRest, Placed, Somewhere, JP!Live, JP!Claimed
<1>8. pc # "done"
  BY DEF Init
<1> QED
  BY <1>2, <1>3, <1>4, <1>5, <1>6, <1>7, <1>8 DEF RInv, LooseInv

LEMMA NextRInv == RInv /\ [Next]_vars => RInv'
<1> SUFFICES ASSUME RInv, [Next]_vars PROVE RInv'
  OBVIOUS
<1>1. LooseInv /\ LooseInv' /\ (Recounted => Recounted')
  BY NextStays DEF RInv
<1>2. ASSUME ~Recounted'
      PROVE  (JP!IInv /\ JP!BookInv)' /\ KeepsPlaces /\ (pc' = "done" => ExitFacts')
  <2>1. JP!IInv /\ JP!BookInv /\ Hands /\ (~Lost => Placed) /\ (pc = "done" => ExitFacts)
    BY <1>1, <1>2 DEF RInv
  <2>2. pc = "failing" => UserCancel \/ UNCHANGED vars
    BY <1>1, <1>2, FailingStep
  <2>3. JP!IInv' /\ JP!BookInv'
    BY <1>1, <2>1, <2>2, BooksStep
  <2>4. KeepsPlaces
    <3>1. CASE pc = "failing"
      BY <1>1, <2>1, <2>2, <3>1, OthersKeep
    <3>2. CASE pc # "failing"
      <4>1. Steady /\ RunnerTyped'
        BY <1>1, <2>1, <3>2 DEF Steady, LooseInv
      <4> QED
        BY <1>1, <2>1, <4>1, DirectKeeps, RenderKeeps, MainKeeps, WorkerKeeps, OthersKeep
           DEF Next
    <3> QED
      BY <3>1, <3>2
  <2>5. ASSUME pc' = "done" PROVE ExitFacts'
    <3>1. CASE pc = "enqueue" /\ AllDone /\ UNCHANGED <<status, notified, queued, worker, job>>
      <4>1. ExitFacts
        BY <1>1, <2>1, <3>1, AllDoneExit
      <4> QED
        BY <3>1, <4>1 DEF ExitFacts, JS!Outcomes
    <3>2. CASE pc = "done" /\ (UserCancel \/ UNCHANGED vars)
      <4>1. /\ UNCHANGED <<status, notified, queued, worker>>
            /\ job' \in {"CANCELLED", job}
        BY <3>2 DEF UserCancel, JS!Cancel, JS!taskVars, runnerVars, vars, jobServiceVars
      <4> QED
        BY <2>1, <3>2, <4>1 DEF ExitFacts, JS!Outcomes
    <3> QED
      BY <2>5, <3>1, <3>2, EndsByCheck
  <2> QED
    BY <2>3, <2>4, <2>5
<1> QED
  BY <1>1, <1>2 DEF RInv, KeepsPlaces

\* At every moment of a run: see RInv.
THEOREM RunInvariant == Spec => []RInv
<1> QED
  BY InitRInv, NextRInv, PTL DEF Spec

\* The variables have their types, whatever raises.
THEOREM RunTyped == Spec => []TypeOK
<1>1. RInv => TypeOK
  BY SameTypes DEF RInv, LooseInv, JP!Loose, RunnerTyped, TypeOK
<1> QED
  BY <1>1, RunInvariant, PTL

\* The main coroutine, the workers and JobHandle.cancel call the service's handlers in
\* such an order that its books stay right: dependencies, counters, states of
\* interviews and job, streams and attempts, until a completed task is failed or retried.
THEOREM RunKeepsBooks == Spec => [](~Recounted => JP!IInv /\ JP!BookInv)
<1>1. RInv => (~Recounted => JP!IInv /\ JP!BookInv)
  BY DEF RInv
<1> QED
  BY <1>1, RunInvariant, PTL

\* A run is a behaviour of JobService until a completed task is failed or retried.
THEOREM RunCallsService == Spec => [][~Recounted' => JP!Next]_jobServiceVars
<1>1. RInv /\ [Next]_vars => [~Recounted' => JP!Next]_jobServiceVars
  <2> SUFFICES ASSUME RInv, [Next]_vars, ~Recounted', ~UNCHANGED jobServiceVars
               PROVE  JP!Next
    OBVIOUS
  <2>1. LooseInv /\ Hands
    BY NextStays DEF RInv
  <2>2. pc = "failing" => UserCancel \/ UNCHANGED vars
    BY <2>1, FailingStep
  <2> QED
    BY <2>1, <2>2, ServiceStep, SameVars
<1> QED
  BY <1>1, RunInvariant, PTL DEF Spec

\* In one place, or in none.
LEMMA WorkersHolding ==
  ASSUME Hands, NEW t \in Tasks
  PROVE  Cardinality({w \in Workers : worker[w] = t}) = Count(\E w \in Workers : worker[w] = t)
<1>1. CASE \A w \in Workers : worker[w] # t
  <2>1. {w \in Workers : worker[w] = t} = {}
    BY <1>1
  <2> QED
    BY <1>1, <2>1, FS_EmptySet DEF Count
<1>2. ASSUME NEW w \in Workers, worker[w] = t
      PROVE  Cardinality({v \in Workers : worker[v] = t}) = Count(\E v \in Workers : worker[v] = t)
  <2>1. {v \in Workers : worker[v] = t} = {w}
    BY <1>2, RunnerConstants DEF Hands
  <2> QED
    BY <1>2, <2>1, FS_Singleton DEF Count
<1> QED
  BY <1>1, <1>2

\* No task is lost on its way from the ready set to a worker's hand and none is in two places.
THEOREM HeldOnceCorrect == Spec => []HeldOnce
<1>1. RInv => HeldOnce
  <2> SUFFICES ASSUME RInv PROVE HeldOnce
    OBVIOUS
  <2>1. TypeOK
    BY SameTypes DEF RInv, LooseInv, JP!Loose, RunnerTyped, TypeOK
  <2>2. ASSUME pc \notin {"failing", "raised"}, ~raised, ~Recounted, NEW t \in Tasks
        PROVE  Count(t \in readyTasks) + Count(t \in batch) + Count(t = direct)
                 + Count(t \in rendered) + Count(t \in queued)
                 + Cardinality({w \in Workers : worker[w] = t})
               = Count(status[t] \in {"READY"} \cup JS!Claimed)
    <3> DEFINE inHand == \E w \in Workers : worker[w] = t
    <3>1. RunnerTyped /\ Where /\ Hands /\ Placed /\ \A x \in readyTasks : status[x] = "READY"
      BY <2>2 DEF RInv, LooseInv, Lost, JP!IInv, JP!DepInv, JP!ReadyOnly
    <3>2. /\ t \in readyTasks => status[t] = "READY"
          /\ t \in batch => status[t] = "READY" /\ t \notin readyTasks /\ t # direct
          /\ t = direct => status[t] = "READY" /\ t \notin readyTasks
          /\ t \in rendered => /\ status[t] \in {"READY", "RENDERING", "QUEUED"}
                               /\ t \notin readyTasks /\ t # direct
                               /\ t \notin batch /\ t \notin queued
          /\ t \in queued => status[t] = "QUEUED"
          /\ inHand => status[t] = "RUNNING"
      BY <2>2, <3>1, RunnerConstants DEF Where, Hands
    <3>3. status[t] \in {"READY"} \cup JS!Claimed
            <=> \/ t \in readyTasks \/ t \in batch \/ t = direct \/ t \in rendered
                \/ t \in queued \/ inHand
      BY <3>1, <3>2, LiveStatuses DEF Placed, Somewhere, JS!Claimed
    <3>4. Cardinality({w \in Workers : worker[w] = t}) = Count(inHand)
      BY <3>1, WorkersHolding
    <3> HIDE DEF inHand
    <3> QED
      BY <3>2, <3>3, <3>4 DEF Count
  <2> QED
    BY <2>1, <2>2 DEF HeldOnce
<1> QED
  BY <1>1, RunInvariant, PTL

\* The loop ends by itself only with every task settled and every interview streamed.
THEOREM ExitCompleteCorrect == Spec => []ExitComplete
<1>1. RInv => ExitComplete
  BY DEF RInv, ExitFacts, ExitComplete
<1> QED
  BY <1>1, RunInvariant, PTL

\* The run raises for one of four causes, also when a task was counted twice.
THEOREM RaisedForCauseCorrect == Spec => RaisedForCause
<1>1. ASSUME LooseInv, [Next]_vars, pc # "raised", pc' = "raised"
      PROVE  \/ direct \in BrokenRules
             \/ \E t \in BrokenPrompts : status[t] = "RENDERING"
             \/ streamErrors' > streamErrors
             \/ raise /\ job' = "CANCELLED" /\ AttemptFailed
  <2>1. CASE DirectStep
    <3>1. DirectRuleRaises
      BY <1>1, <2>1 DEF DirectStep, DirectPop, DirectEnd, DirectSkip, DirectExecute, DirectAnswered,
                        DirectUnstreamed, DirectFailed, FailDirect, Goto
    <3> QED
      BY <3>1 DEF DirectRuleRaises, MayRaise
  <2>2. CASE RenderStep
    <3>1. RenderRaises
      BY <1>1, <2>2 DEF RenderStep, PopOne, SortDirect, SortSkip, SortRuleRaises, SortRender, Sort,
                        MarkRendering, RenderOne, PopEnd, SortEnd, RenderEnd, Goto
    <3> QED
      BY <3>1 DEF RenderRaises
  <2>3. CASE MainStep
    <3>1. MainUnstreamed \/ Raise
      BY <1>1, <2>3 DEF MainStep, Enqueue, NoQueue, Check, WakeUp, Goto
    <3>2. MainUnstreamed => streamErrors' > streamErrors
      BY <1>1, RunnerConstants DEF MainUnstreamed, StreamRaises, LooseInv, RunnerTyped
    <3>3. Raise => raise /\ job' = "CANCELLED" /\ AttemptFailed
      BY <1>1 DEF Raise, Goto, JS!Cancel, LooseInv, Where
    <3> QED
      BY <3>1, <3>2, <3>3
  <2>4. ASSUME NEW w \in Workers, WorkerStep(w) PROVE FALSE
    BY <1>1, <2>4 DEF WorkerStep, Take, Answered, Failed, Release, WorkerEnds, LoopIsFree
  <2>5. ~(UserCancel \/ CallAgain \/ Ended \/ UNCHANGED vars)
    BY <1>1 DEF UserCancel, CallAgain, Ended, vars, runnerVars
  <2> QED
    BY <1>1, <2>1, <2>2, <2>3, <2>4, <2>5 DEF Next
<1>2. RInv /\ [Next]_vars =>
        [pc # "raised" /\ pc' = "raised" =>
           \/ direct \in BrokenRules
           \/ \E t \in BrokenPrompts : status[t] = "RENDERING"
           \/ streamErrors' > streamErrors
           \/ raise /\ job' = "CANCELLED"
                /\ \E t \in Tasks :
                     status[t] = "FAILED" \/ \E e \in ErrorTypes : attempts[t][e] > 0]_vars
  BY <1>1 DEF RInv, AttemptFailed
<1> QED
  BY <1>2, RunInvariant, PTL DEF RaisedForCause, Spec

=============================================================================
