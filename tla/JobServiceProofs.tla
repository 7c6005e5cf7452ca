-------------------------- MODULE JobServiceProofs --------------------------
(***************************************************************************)
(* Proofs about JobService, for every finite job: its dependency graph     *)
(* needs to be finite and within interviews, nothing else.                 *)
(*                                                                         *)
(* The dependency properties are not inductive one by one: a counter is    *)
(* exact only because a task in hand has no unmet dependency, a task in    *)
(* hand has none only because the counter alone makes tasks ready, and a   *)
(* BLOCKED task stays out of the ready set only because one of its         *)
(* dependencies failed or is blocked for ever.  DepInv states them         *)
(* together.                                                               *)
(*                                                                         *)
(* BookInv is about the bookkeeping: the counters of interviews and job,   *)
(* their final states, the callbacks and the attempts.  It is inductive    *)
(* because outcomes are kept: a counter that grows by the tasks which get  *)
(* an outcome stays the number of those that have it, and an interview is  *)
(* not finished as long as one of its tasks is in some caller's hands.     *)
(* With it JobService implements JobOutcomes.                              *)
(*                                                                         *)
(* The last sections are for the modules that call the handlers: what is   *)
(* left when one is called out of turn, and where a report leaves the      *)
(* tasks.                                                                  *)
(***************************************************************************)
EXTENDS JobService, FiniteSetTheorems, TLAPS

Live    == {"READY"} \cup Claimed
Waiting == {"PENDING", "BLOCKED"}
Broken  == {"FAILED", "BLOCKED"}

Unmet(t) == {d \in Deps[t] : status[d] \notin Satisfied}

CounterExact == \A t \in Tasks : unmetDeps[t] = Cardinality(Unmet(t))
WaitingExact == \A t \in Tasks : status[t] \in Waiting <=> Unmet(t) # {}
BlockedByDep ==
  \A t \in Tasks : status[t] = "BLOCKED" <=> \E d \in Deps[t] : status[d] \in Broken
ReadyOnly    == \A t \in readyTasks : status[t] = "READY"
BlockedCause ==
  \A t \in Tasks : status[t] = "BLOCKED" =>
    \E f \in Tasks : status[f] = "FAILED" /\ t \in Downstream[f]

Kept == \A t \in Tasks : status[t] \in Outcomes => status'[t] = status[t]

DepInv == CounterExact /\ WaitingExact /\ BlockedByDep /\ ReadyOnly /\ BlockedCause

IInv == TypeOK /\ DepInv

-----------------------------------------------------------------------------
(***************************************************************************)
(* The dependency graph.                                                   *)
(***************************************************************************)

\* The dependencies of a task are finitely many tasks.
LEMMA DepsFinite ==
  ASSUME NEW t \in Tasks
  PROVE  Deps[t] \subseteq Tasks /\ IsFiniteSet(Deps[t])
<1>1. Deps[t] \in SUBSET Tasks
  BY DepsWithinInterview
<1> QED
  BY <1>1, FiniteJob, FS_Subset

\* What _propagate_failure visits: the dependents of t, and their dependents.
LEMMA DownstreamClosed ==
  ASSUME NEW t \in Tasks, NEW x \in Tasks,
         t \in Deps[x] \/ Deps[x] \cap Downstream[t] # {}
  PROVE  x \in Downstream[t]
<1> SUFFICES ASSUME NEW S \in SUBSET Tasks,
                    \A y \in Tasks : (t \in Deps[y] \/ Deps[y] \cap S # {}) => y \in S
             PROVE  x \in S
  BY DEF Downstream
<1>1. Downstream[t] \subseteq S
  BY DEF Downstream
<1> QED
  BY <1>1

\* ... and no other task.
LEMMA DownstreamLeast ==
  ASSUME NEW t \in Tasks, NEW S \in SUBSET Tasks,
         \A x \in Tasks : (t \in Deps[x] \/ Deps[x] \cap S # {}) => x \in S
  PROVE  Downstream[t] \subseteq S
BY DEF Downstream

\* Every task visited was reached over one of its dependencies.
LEMMA DownstreamReached ==
  ASSUME NEW t \in Tasks, NEW x \in Downstream[t]
  PROVE  x \in Tasks /\ \E d \in Deps[x] : d = t \/ d \in Downstream[t]
<1> DEFINE S == {y \in Downstream[t] : \E d \in Deps[y] : d = t \/ d \in Downstream[t]}
<1>1. Downstream[t] \subseteq Tasks
  BY DEF Downstream
<1>2. S \in SUBSET Tasks
  BY <1>1
<1>3. ASSUME NEW y \in Tasks, t \in Deps[y] \/ Deps[y] \cap S # {}
      PROVE  y \in S
  <2>1. y \in Downstream[t]
    BY <1>3, DownstreamClosed
  <2> QED
    BY <1>3, <2>1
<1>4. Downstream[t] \subseteq S
  <2> HIDE DEF S
  <2> QED
    BY <1>2, <1>3, DownstreamLeast
<1> QED
  BY <1>1, <1>4

\* Dependencies stay within an interview, and so does what is downstream of a task.
LEMMA DownstreamWithin ==
  ASSUME NEW t \in Tasks
  PROVE  Downstream[t] \subseteq TasksOf(InterviewOf[t])
<1> DEFINE S == TasksOf(InterviewOf[t])
<1>1. ASSUME NEW x \in Tasks, t \in Deps[x] \/ Deps[x] \cap S # {}
      PROVE  x \in S
  BY <1>1, DepsWithinInterview DEF TasksOf
<1>2. Downstream[t] \subseteq S
  <2>1. S \in SUBSET Tasks
    BY DEF TasksOf
  <2> HIDE DEF S
  <2> QED
    BY <1>1, <2>1, DownstreamLeast
<1> QED
  BY <1>2

-----------------------------------------------------------------------------
(***************************************************************************)
(* What the invariant says of single tasks.                                *)
(***************************************************************************)

\* A task in some caller's hands has all its dependencies met.
LEMMA InHandIsReady ==
  ASSUME IInv, NEW t \in Tasks, InHand(t)
  PROVE  status[t] \in Live /\ Unmet(t) = {} /\ unmetDeps[t] = 0
<1>1. status[t] \in Live /\ Unmet(t) = {}
  BY DEF IInv, DepInv, WaitingExact, InHand, Live, Waiting, Claimed
<1> QED
  BY <1>1, FS_EmptySet DEF IInv, DepInv, CounterExact

\* Everything downstream of a task that is not completed or skipped waits.
LEMMA DownstreamWaits ==
  ASSUME IInv, NEW f \in Tasks, status[f] \notin Satisfied
  PROVE  \A x \in Downstream[f] : x \in Tasks /\ status[x] \in Waiting
<1> DEFINE S == {x \in Tasks : status[x] \in Waiting}
<1>1. ASSUME NEW x \in Tasks, f \in Deps[x] \/ Deps[x] \cap S # {}
      PROVE  x \in S
  <2>1. Unmet(x) # {}
    BY <1>1 DEF Unmet, Waiting, Satisfied
  <2> QED
    BY <2>1 DEF IInv, DepInv, WaitingExact
<1>2. Downstream[f] \subseteq S
  <2> HIDE DEF S
  <2>1. S \in SUBSET Tasks
    BY DEF S
  <2> QED
    BY <1>1, <2>1, DownstreamLeast
<1> QED
  BY <1>2

\* Everything downstream of a failed task is blocked.
LEMMA DownstreamBlocked ==
  ASSUME IInv, NEW f \in Tasks, status[f] = "FAILED"
  PROVE  \A x \in Downstream[f] : x \in Tasks /\ status[x] = "BLOCKED"
<1> DEFINE S == {x \in Tasks : status[x] = "BLOCKED"}
<1>1. ASSUME NEW x \in Tasks, f \in Deps[x] \/ Deps[x] \cap S # {}
      PROVE  x \in S
  BY <1>1 DEF IInv, DepInv, BlockedByDep, Broken
<1>2. Downstream[f] \subseteq S
  <2> HIDE DEF S
  <2>1. S \in SUBSET Tasks
    BY DEF S
  <2> QED
    BY <1>1, <2>1, DownstreamLeast
<1> QED
  BY <1>2

-----------------------------------------------------------------------------
(***************************************************************************)
(* The three ways a handler changes statuses, and DepInv.                  *)
(***************************************************************************)

\* A task is passed from hand to hand, or its attempt failed and is repeated.
LEMMA PassedOn ==
  ASSUME IInv,
         \A x \in Tasks : status'[x] = status[x] \/ (status[x] \in Live /\ status'[x] \in Live),
         unmetDeps' = unmetDeps,
         ReadyOnly'
  PROVE  DepInv'
<1>1. \A x \in Tasks : /\ status'[x] \in Satisfied <=> status[x] \in Satisfied
                       /\ status'[x] \in Waiting <=> status[x] \in Waiting
                       /\ status'[x] \in Broken <=> status[x] \in Broken
                       /\ status'[x] = "BLOCKED" <=> status[x] = "BLOCKED"
                       /\ status'[x] = "FAILED" <=> status[x] = "FAILED"
  BY DEF Live, Claimed, Satisfied, Waiting, Broken
<1>2. \A x \in Tasks : Unmet(x)' = Unmet(x)
  BY <1>1, DepsFinite DEF Unmet
<1>3. CounterExact'
  BY <1>2 DEF IInv, DepInv, CounterExact
<1>4. WaitingExact'
  BY <1>1, <1>2 DEF IInv, DepInv, WaitingExact
<1>5. BlockedByDep'
  BY <1>1, DepsFinite DEF IInv, DepInv, BlockedByDep
<1>6. BlockedCause'
  BY <1>1 DEF IInv, DepInv, BlockedCause
<1> QED
  BY <1>3, <1>4, <1>5, <1>6 DEF DepInv

\* Some tasks in hand are completed or skipped, and their dependents told.
LEMMA DependentsTold ==
  ASSUME IInv, NEW S \in SUBSET Tasks, \A x \in S : InHand(x),
         NEW o \in Satisfied, MarkSatisfied(S, o)
  PROVE  /\ DepInv'
         /\ unmetDeps' \in [Tasks -> Nat]
         /\ \A x \in NowReady(S) : status[x] = "PENDING"
<1> DEFINE N == NowReady(S)
<1>1. \A x \in S : status[x] \in Live /\ Unmet(x) = {} /\ unmetDeps[x] = 0
  BY InHandIsReady
<1>2. \A x \in Tasks : /\ Unmet(x) \subseteq Deps[x] /\ IsFiniteSet(Unmet(x))
                       /\ Cardinality(Unmet(x)) \in Nat
                       /\ unmetDeps[x] = Cardinality(Unmet(x))
                       /\ unmetDeps[x] = 0 <=> Unmet(x) = {}
  <2> TAKE x \in Tasks
  <2>1. Unmet(x) \subseteq Deps[x] /\ IsFiniteSet(Unmet(x))
    BY DepsFinite, FS_Subset DEF Unmet
  <2>2. unmetDeps[x] = Cardinality(Unmet(x))
    BY DEF IInv, DepInv, CounterExact
  <2> QED
    BY <2>1, <2>2, FS_CardinalityType, FS_EmptySet
<1>3. \A x \in Tasks : Met(x, S) = Cardinality(Unmet(x) \cap S)
  <2> TAKE x \in Tasks
  <2>1. Deps[x] \cap S = Unmet(x) \cap S
    BY <1>1 DEF Unmet, Live, Claimed, Satisfied
  <2> QED
    BY <2>1 DEF Met
<1>4. \A x \in Tasks : /\ Met(x, S) \in Nat
                       /\ Cardinality(Unmet(x) \ S) = unmetDeps[x] - Met(x, S)
                       /\ Cardinality(Unmet(x) \ S) \in Nat
                       /\ Cardinality(Unmet(x) \ S) = 0 <=> Unmet(x) \ S = {}
  <2> TAKE x \in Tasks
  <2>1. IsFiniteSet(Unmet(x) \cap S) /\ IsFiniteSet(Unmet(x) \ S)
    BY <1>2, FS_Intersection, FS_Difference
  <2>2. Cardinality(Unmet(x) \cap S) \in Nat /\ Cardinality(Unmet(x) \ S) \in Nat
    BY <2>1, FS_CardinalityType
  <2>3. Cardinality(Unmet(x) \ S) = Cardinality(Unmet(x)) - Cardinality(Unmet(x) \cap S)
    BY <1>2, FS_Difference
  <2>4. Cardinality(Unmet(x) \ S) = 0 <=> Unmet(x) \ S = {}
    BY <2>1, FS_EmptySet
  <2> QED
    BY <1>2, <1>3, <2>2, <2>3, <2>4
<1>5. \A x \in Tasks : x \in N <=> Unmet(x) # {} /\ Unmet(x) \ S = {}
  <2> TAKE x \in Tasks
  <2>1. x \in N <=> unmetDeps[x] \in 1..Met(x, S)
    BY DEF NowReady
  <2>2. unmetDeps[x] \in Nat /\ Met(x, S) \in Nat /\ unmetDeps[x] - Met(x, S) \in Nat
    BY <1>2, <1>4
  <2>3. unmetDeps[x] \in 1..Met(x, S) <=> unmetDeps[x] # 0 /\ unmetDeps[x] - Met(x, S) = 0
    BY <2>2
  <2> HIDE DEF N
  <2> QED
    BY <1>2, <1>4, <2>1, <2>3
<1>6. \A x \in Tasks : status'[x] = IF x \in N THEN "READY" ELSE IF x \in S THEN o ELSE status[x]
  BY DEF MarkSatisfied
<1>7. \A x \in N : x \in Tasks /\ x \notin S /\ status[x] \in Waiting
  <2>1. \A x \in N : x \in Tasks
    BY DEF NowReady
  <2> QED
    BY <1>1, <1>5, <2>1 DEF IInv, DepInv, WaitingExact
<1>8. \A x \in Tasks : Unmet(x)' = Unmet(x) \ S
  <2> TAKE x \in Tasks
  <2>1. ASSUME NEW d \in Deps[x]
        PROVE  status'[d] \in Satisfied <=> status[d] \in Satisfied \/ d \in S
    <3>1. d \in Tasks
      BY DepsFinite
    <3> HIDE DEF N
    <3> QED
      BY <1>6, <1>7, <3>1 DEF Satisfied, Waiting
  <2> QED
    BY <2>1 DEF Unmet
<1>9. \A x \in N : status[x] = "PENDING"
  <2> SUFFICES ASSUME NEW x \in N, status[x] = "BLOCKED"
               PROVE  FALSE
    BY <1>7 DEF Waiting
  <2>0. x \in Tasks
    BY <1>7
  <2>1. PICK d \in Deps[x] : status[d] \in Broken
    BY <2>0 DEF IInv, DepInv, BlockedByDep
  <2>2. d \in Unmet(x) \ S
    BY <1>1, <2>1 DEF Unmet, Live, Claimed, Satisfied, Broken
  <2> QED
    BY <1>5, <2>0, <2>2
<1>10. \A x \in Tasks : /\ status'[x] \in Broken <=> status[x] \in Broken
                        /\ status'[x] = "BLOCKED" <=> status[x] = "BLOCKED"
                        /\ status'[x] = "FAILED" <=> status[x] = "FAILED"
  <2> HIDE DEF N
  <2> QED
    BY <1>1, <1>6, <1>9 DEF Broken, Live, Claimed, Satisfied
<1>11. unmetDeps' = [x \in Tasks |-> unmetDeps[x] - Met(x, S)]
  BY DEF MarkSatisfied
<1>12. CounterExact'
  BY <1>4, <1>8, <1>11 DEF CounterExact
<1>13. WaitingExact'
  <2> SUFFICES ASSUME NEW x \in Tasks
               PROVE  status'[x] \in Waiting <=> Unmet(x) \ S # {}
    BY <1>8 DEF WaitingExact
  <2>1. status[x] \in Waiting <=> Unmet(x) # {}
    BY DEF IInv, DepInv, WaitingExact
  <2>2. status'[x] \in Waiting <=> x \notin N /\ x \notin S /\ status[x] \in Waiting
    <3> HIDE DEF N
    <3> QED
      BY <1>6 DEF Waiting, Satisfied
  <2>3. x \in S => Unmet(x) = {}
    BY <1>1
  <2> HIDE DEF N
  <2> QED
    BY <1>5, <2>1, <2>2, <2>3
<1>14. BlockedByDep'
  BY <1>10, DepsFinite DEF IInv, DepInv, BlockedByDep
<1>15. BlockedCause'
  BY <1>10 DEF IInv, DepInv, BlockedCause
<1>16. ReadyOnly'
  <2> SUFFICES ASSUME NEW x \in readyTasks \cup N
               PROVE  status'[x] = "READY"
    BY DEF ReadyOnly, MarkSatisfied
  <2>1. x \in Tasks
    BY <1>7 DEF IInv, TypeOK, RestTypeOK
  <2>2. x \in readyTasks => x \notin S /\ status[x] = "READY"
    BY DEF IInv, DepInv, ReadyOnly, InHand
  <2> HIDE DEF N
  <2> QED
    BY <1>6, <2>1, <2>2
<1>17. unmetDeps' \in [Tasks -> Nat]
  BY <1>4, <1>11
<1> QED
  BY <1>9, <1>12, <1>13, <1>14, <1>15, <1>16, <1>17 DEF DepInv

\* A task fails for good, and what is downstream of it is blocked.
LEMMA FailureSpreads ==
  ASSUME IInv, NEW t \in Tasks, InHand(t),
         status' = [x \in Tasks |-> IF x = t THEN "FAILED"
                                    ELSE IF x \in NewlyBlocked(t) THEN "BLOCKED" ELSE status[x]],
         UNCHANGED <<unmetDeps, readyTasks>>
  PROVE  DepInv'
<1>1. status[t] \in Live
  BY InHandIsReady
<1>2. \A x \in Downstream[t] : x \in Tasks /\ x # t /\ status[x] \in Waiting
  BY <1>1, DownstreamWaits DEF Live, Claimed, Satisfied, Waiting
<1>3. \A x \in Tasks :
        status'[x] = IF x = t THEN "FAILED"
                     ELSE IF x \in Downstream[t] THEN "BLOCKED" ELSE status[x]
  BY <1>2 DEF NewlyBlocked, Waiting, Outcomes
<1>4. \A x \in Tasks : /\ status'[x] \in Satisfied <=> status[x] \in Satisfied
                       /\ status'[x] \in Waiting <=> status[x] \in Waiting
  BY <1>1, <1>2, <1>3 DEF Live, Claimed, Satisfied, Waiting
<1>5. \A x \in Tasks : status'[x] \in Broken <=> \/ x = t
                                                 \/ x \in Downstream[t]
                                                 \/ status[x] \in Broken
  BY <1>3 DEF Broken
<1>6. \A x \in Tasks : status'[x] = "BLOCKED" <=> x \in Downstream[t] \/ status[x] = "BLOCKED"
  BY <1>1, <1>2, <1>3 DEF Live, Claimed
<1>7. \A x \in Tasks : Unmet(x)' = Unmet(x)
  BY <1>4, DepsFinite DEF Unmet
<1>8. CounterExact'
  BY <1>7 DEF IInv, DepInv, CounterExact
<1>9. WaitingExact'
  BY <1>4, <1>7 DEF IInv, DepInv, WaitingExact
<1>10. BlockedByDep'
  <2> SUFFICES ASSUME NEW x \in Tasks
               PROVE  status'[x] = "BLOCKED" <=> \E d \in Deps[x] : status'[d] \in Broken
    BY DEF BlockedByDep
  <2>1. status[x] = "BLOCKED" <=> \E d \in Deps[x] : status[d] \in Broken
    BY DEF IInv, DepInv, BlockedByDep
  <2>2. x \in Downstream[t] <=> \E d \in Deps[x] : d = t \/ d \in Downstream[t]
    BY DownstreamClosed, DownstreamReached
  <2> QED
    BY <1>5, <1>6, <2>1, <2>2, DepsFinite
<1>11. BlockedCause'
  <2> SUFFICES ASSUME NEW x \in Tasks, status'[x] = "BLOCKED"
               PROVE  \E f \in Tasks : status'[f] = "FAILED" /\ x \in Downstream[f]
    BY DEF BlockedCause
  <2>1. CASE x \in Downstream[t]
    BY <1>3, <2>1
  <2>2. CASE status[x] = "BLOCKED"
    <3>1. PICK f \in Tasks : status[f] = "FAILED" /\ x \in Downstream[f]
      BY <2>2 DEF IInv, DepInv, BlockedCause
    <3>2. status'[f] = "FAILED"
      BY <1>2, <1>3, <3>1 DEF Waiting
    <3> QED
      BY <3>1, <3>2
  <2> QED
    BY <1>6, <2>1, <2>2
<1>12. ReadyOnly'
  BY <1>2, <1>3 DEF IInv, DepInv, ReadyOnly, TypeOK, RestTypeOK, InHand, Waiting
<1> QED
  BY <1>8, <1>9, <1>10, <1>11, <1>12 DEF DepInv

-----------------------------------------------------------------------------
(***************************************************************************)
(* Types of what the finalization computes.                                *)
(***************************************************************************)

\* _maybe_finalize of either store leaves a state of the right kind.
LEMMA StatesTyped ==
  ASSUME RestTypeOK
  PROVE  /\ \A i \in Interviews : \A c : InterviewState(i, c) \in InterviewStates
         /\ \A c : JobState(c) \in JobStates
BY DEF RestTypeOK, InterviewState, JobState, InterviewStates, JobStates

\* Marking one interview as finished keeps the job's counters typed.
LEMMA MarkOneTyped ==
  ASSUME RestTypeOK, NEW i \in Interviews, NEW h \in BOOLEAN, MarkInterviewCompleted(i, h)
  PROVE  /\ counted' \in SUBSET Interviews
         /\ jobTally' \in [completed : Nat, failed : Nat]
         /\ job' \in JobStates
         /\ notified' \in [Interviews -> Nat]
<1>1. job' \in JobStates
  BY StatesTyped DEF RestTypeOK, MarkInterviewCompleted
<1>2. counted' \in SUBSET Interviews /\ notified' \in [Interviews -> Nat]
  BY DEF RestTypeOK, MarkInterviewCompleted
<1>3. jobTally' \in [completed : Nat, failed : Nat]
  BY DEF RestTypeOK, MarkInterviewCompleted
<1> QED
  BY <1>1, <1>2, <1>3

\* ... and so does marking several.
LEMMA MarkBatchTyped ==
  ASSUME TypeOK, NEW done \in SUBSET Interviews, MarkInterviewsCompletedBatch(done)
  PROVE  /\ counted' \in SUBSET Interviews
         /\ jobTally' \in [completed : Nat, failed : Nat]
         /\ job' \in JobStates
         /\ notified' \in [Interviews -> Nat]
<1> DEFINE failing == {i \in done : interview'[i] = "COMPLETED_WITH_FAILURES"}
<1>1. CASE done = {}
  BY <1>1 DEF TypeOK, RestTypeOK, MarkInterviewsCompletedBatch
<1>2. CASE done # {}
  <2>1. /\ counted' = counted \cup done
        /\ notified' = [i \in Interviews |-> IF i \in done THEN notified[i] + 1 ELSE notified[i]]
        /\ jobTally' = [completed |-> jobTally.completed + Cardinality(done \ failing),
                        failed    |-> jobTally.failed + Cardinality(failing)]
        /\ job' = JobState(jobTally')
    BY <1>2 DEF MarkInterviewsCompletedBatch
  <2>2. Cardinality(done \ failing) \in Nat /\ Cardinality(failing) \in Nat
    BY FiniteJob, FS_Subset, FS_CardinalityType
  <2>3. job' \in JobStates
    BY <2>1, StatesTyped DEF TypeOK
  <2>4. jobTally' \in [completed : Nat, failed : Nat]
    <3> HIDE DEF failing
    <3> QED
      BY <2>1, <2>2 DEF TypeOK, RestTypeOK
  <2> QED
    BY <2>1, <2>3, <2>4 DEF TypeOK, RestTypeOK
<1> QED
  BY <1>1, <1>2

\* So does adding tasks to one counter.
LEMMA CountTyped ==
  ASSUME NEW c \in [Outcomes -> Nat], NEW o \in Outcomes, NEW n \in Nat
  PROVE  [c EXCEPT ![o] = @ + n] \in [Outcomes -> Nat]
OBVIOUS

\* More tasks under outcome o keep the counters of their interview typed.
LEMMA TallyTyped ==
  ASSUME NEW c \in [Interviews -> [Outcomes -> Nat]],
         NEW i \in Interviews, NEW o \in Outcomes, NEW n \in Nat
  PROVE  [c EXCEPT ![i][o] = @ + n] \in [Interviews -> [Outcomes -> Nat]]
<1>1. [c[i] EXCEPT ![o] = @ + n] \in [Outcomes -> Nat]
  BY CountTyped
<1> QED
  BY <1>1

-----------------------------------------------------------------------------
(***************************************************************************)
(* The invariant holds initially and every step keeps it.                  *)
(***************************************************************************)

LEMMA InitIInv == Init => IInv
<1> SUFFICES ASSUME Init PROVE IInv
  OBVIOUS
<1> USE DEF Init, InitRest
<1>1. \A t \in Tasks : /\ Unmet(t) = Deps[t]
                       /\ IsFiniteSet(Deps[t])
                       /\ Cardinality(Deps[t]) \in Nat
  BY DepsFinite, FS_CardinalityType DEF Unmet, Satisfied
<1>2. TypeOK
  BY <1>1 DEF TypeOK, RestTypeOK, Status, InterviewStates, JobStates, NoError
<1>3. CounterExact
  BY <1>1 DEF CounterExact
<1>4. WaitingExact
  BY <1>1 DEF WaitingExact, Waiting
<1>5. BlockedByDep
  BY DepsFinite DEF BlockedByDep, Broken
<1>6. ReadyOnly /\ BlockedCause
  BY DEF ReadyOnly, BlockedCause
<1> QED
  BY <1>2, <1>3, <1>4, <1>5, <1>6 DEF IInv, DepInv

\* Popping a task, putting it back and claiming it.
LEMMA ClaimKeeps ==
  ASSUME IInv, NEW t \in Tasks, Claim(t)
  PROVE  IInv'
<1> USE DEF IInv
<1>1. CASE PopReady(t)
  BY <1>1, PassedOn DEF PopReady, TypeOK, RestTypeOK, jobVars, DepInv, ReadyOnly
<1>2. CASE AddToReady(t)
  BY <1>2, PassedOn DEF AddToReady, TypeOK, RestTypeOK, jobVars, DepInv, ReadyOnly
<1>3. ASSUME NEW from \in Live, NEW to \in Live, SetStatus(t, from, to)
      PROVE  IInv'
  <2>1. TypeOK'
    BY <1>3 DEF SetStatus, TypeOK, RestTypeOK, jobVars, Live, Claimed, Status
  <2>2. \A x \in Tasks : status'[x] = status[x] \/ (status[x] \in Live /\ status'[x] \in Live)
    BY <1>3 DEF SetStatus, TypeOK, RestTypeOK
  <2>3. ReadyOnly'
    BY <1>3 DEF SetStatus, TypeOK, RestTypeOK, InHand, DepInv, ReadyOnly
  <2> QED
    BY <1>3, <2>1, <2>2, <2>3, PassedOn DEF SetStatus
<1>4. "READY" \in Live /\ "RENDERING" \in Live /\ "QUEUED" \in Live /\ "RUNNING" \in Live
  BY DEF Live, Claimed
<1> QED
  BY <1>1, <1>2, <1>3, <1>4 DEF Claim, StartRendering, EnqueueTask, StartRunning

LEMMA CompletedKeeps ==
  ASSUME IInv, NEW t \in Tasks, OnTaskCompleted(t)
  PROVE  IInv'
<1> DEFINE i == InterviewOf[t]
<1>1. i \in Interviews
  BY DepsWithinInterview
<1>2. MarkSatisfied({t}, "COMPLETED") /\ InHand(t)
  BY DEF OnTaskCompleted
<1>3. DepInv' /\ unmetDeps' \in [Tasks -> Nat]
  BY <1>2, DependentsTold DEF Satisfied
<1>4. status' \in [Tasks -> Status] /\ readyTasks' \in SUBSET Tasks
  BY <1>2 DEF MarkSatisfied, NowReady, IInv, TypeOK, RestTypeOK, Status, Outcomes
<1>5. tally' \in [Interviews -> [Outcomes -> Nat]]
  BY <1>1, TallyTyped DEF OnTaskCompleted, IInv, TypeOK, RestTypeOK, Outcomes
<1>6. interview' \in [Interviews -> InterviewStates]
  BY <1>1, StatesTyped DEF OnTaskCompleted, IInv, TypeOK, RestTypeOK
<1>7. /\ counted' \in SUBSET Interviews
      /\ jobTally' \in [completed : Nat, failed : Nat]
      /\ job' \in JobStates
      /\ notified' \in [Interviews -> Nat]
  BY <1>1, MarkOneTyped DEF OnTaskCompleted, IInv, TypeOK
<1>8. TypeOK'
  BY <1>3, <1>4, <1>5, <1>6, <1>7 DEF OnTaskCompleted, IInv, TypeOK, RestTypeOK
<1> QED
  BY <1>3, <1>8 DEF IInv

LEMMA BatchKeeps ==
  ASSUME IInv, NEW S \in SUBSET Tasks, OnTasksCompletedBatch(S)
  PROVE  IInv'
<1> DEFINE here == {i \in Interviews : TasksOf(i) \cap S # {}}
           done == {i \in here : interview'[i] # "RUNNING"}
<1>1. MarkSatisfied(S, "COMPLETED") /\ \A x \in S : InHand(x)
  BY DEF OnTasksCompletedBatch
<1>2. DepInv' /\ unmetDeps' \in [Tasks -> Nat]
  BY <1>1, DependentsTold DEF Satisfied
<1>3. status' \in [Tasks -> Status] /\ readyTasks' \in SUBSET Tasks
  BY <1>1 DEF MarkSatisfied, NowReady, IInv, TypeOK, RestTypeOK, Status, Outcomes
<1>4. tally' \in [Interviews -> [Outcomes -> Nat]]
  <2>1. \A i \in Interviews : Cardinality(TasksOf(i) \cap S) \in Nat
    BY FiniteJob, FS_Subset, FS_CardinalityType DEF TasksOf
  <2>2. ASSUME NEW i \in Interviews, NEW n \in Nat
        PROVE  [tally[i] EXCEPT !["COMPLETED"] = @ + n] \in [Outcomes -> Nat]
    <3>1. tally[i] \in [Outcomes -> Nat] /\ "COMPLETED" \in Outcomes
      BY DEF IInv, TypeOK, RestTypeOK, Outcomes
    <3> QED
      BY <3>1, CountTyped
  <2> QED
    BY <2>1, <2>2 DEF OnTasksCompletedBatch
<1>5. interview' \in [Interviews -> InterviewStates]
  BY StatesTyped DEF OnTasksCompletedBatch, IInv, TypeOK, RestTypeOK
<1>6. MarkInterviewsCompletedBatch(done)
  BY DEF OnTasksCompletedBatch
<1>7. /\ counted' \in SUBSET Interviews
      /\ jobTally' \in [completed : Nat, failed : Nat]
      /\ job' \in JobStates
      /\ notified' \in [Interviews -> Nat]
  BY <1>6, MarkBatchTyped DEF IInv
<1>8. TypeOK'
  BY <1>2, <1>3, <1>4, <1>5, <1>7 DEF OnTasksCompletedBatch, IInv, TypeOK, RestTypeOK
<1> QED
  BY <1>2, <1>8 DEF IInv

LEMMA SkippedKeeps ==
  ASSUME IInv, NEW t \in Tasks, OnTaskSkipped(t)
  PROVE  IInv'
<1> DEFINE i == InterviewOf[t]
<1>1. i \in Interviews
  BY DepsWithinInterview
<1>2. MarkSatisfied({t}, "SKIPPED") /\ InHand(t)
  BY DEF OnTaskSkipped
<1>3. DepInv' /\ unmetDeps' \in [Tasks -> Nat]
  BY <1>2, DependentsTold DEF Satisfied
<1>4. status' \in [Tasks -> Status] /\ readyTasks' \in SUBSET Tasks
  BY <1>2 DEF MarkSatisfied, NowReady, IInv, TypeOK, RestTypeOK, Status, Outcomes
<1>5. tally' \in [Interviews -> [Outcomes -> Nat]]
  BY <1>1, TallyTyped DEF OnTaskSkipped, IInv, TypeOK, RestTypeOK, Outcomes
<1>6. interview' \in [Interviews -> InterviewStates]
  BY <1>1, StatesTyped DEF OnTaskSkipped, IInv, TypeOK, RestTypeOK
<1>7. /\ counted' \in SUBSET Interviews
      /\ jobTally' \in [completed : Nat, failed : Nat]
      /\ job' \in JobStates
      /\ notified' \in [Interviews -> Nat]
  BY <1>1, MarkOneTyped DEF OnTaskSkipped, IInv, TypeOK
<1>8. TypeOK'
  BY <1>3, <1>4, <1>5, <1>6, <1>7 DEF OnTaskSkipped, IInv, TypeOK, RestTypeOK
<1> QED
  BY <1>3, <1>8 DEF IInv

\* Counting an attempt, whether or not another one follows.
LEMMA AttemptTyped ==
  ASSUME RestTypeOK, NEW t \in Tasks, NEW e \in ErrorTypes, NEW force \in BOOLEAN,
         CountAttempt(t, e, force)
  PROVE  attempts' \in [Tasks -> [ErrorTypes -> Nat]]
BY DEF RestTypeOK, CountAttempt

LEMMA RetryKeeps ==
  ASSUME IInv, NEW t \in Tasks, NEW e \in ErrorTypes, OnTaskFailedRetry(t, e)
  PROVE  IInv'
<1> USE DEF IInv
<1>1. status[t] \in Live
  BY InHandIsReady DEF OnTaskFailedRetry, RetryTask, MayFail
<1>2. attempts' \in [Tasks -> [ErrorTypes -> Nat]]
  BY AttemptTyped DEF OnTaskFailedRetry, RetryTask, TypeOK
<1>3. TypeOK'
  BY <1>2 DEF OnTaskFailedRetry, RetryTask, TypeOK, RestTypeOK, jobVars, Status
<1>4. \A x \in Tasks : status'[x] = status[x] \/ (status[x] \in Live /\ status'[x] \in Live)
  BY <1>1 DEF OnTaskFailedRetry, RetryTask, TypeOK, RestTypeOK, Live
<1>5. ReadyOnly'
  BY DEF OnTaskFailedRetry, RetryTask, TypeOK, RestTypeOK, DepInv, ReadyOnly
<1> QED
  BY <1>3, <1>4, <1>5, PassedOn DEF OnTaskFailedRetry, RetryTask

LEMMA ForGoodKeeps ==
  ASSUME IInv, NEW t \in Tasks, NEW e \in ErrorTypes, NEW force \in BOOLEAN,
         OnTaskFailedForGood(t, e, force)
  PROVE  IInv'
<1> DEFINE i == InterviewOf[t]
           blocked == NewlyBlocked(t)
<1>1. i \in Interviews
  BY DepsWithinInterview
<1>2. DepInv'
  BY FailureSpreads DEF OnTaskFailedForGood, FailTask, MayFail
<1>3. attempts' \in [Tasks -> [ErrorTypes -> Nat]]
  BY AttemptTyped DEF OnTaskFailedForGood, FailTask, IInv, TypeOK
<1>4. status' \in [Tasks -> Status]
  BY DEF OnTaskFailedForGood, FailTask, IInv, TypeOK, RestTypeOK, Status, Outcomes
<1>5. /\ lastError' \in [Tasks -> ErrorTypes \cup {NoError, "upstream_failure"}]
      /\ batchError' \in [Tasks -> {NoError, "upstream_failure"}]
  BY DEF OnTaskFailedForGood, FailTask, IInv, TypeOK, RestTypeOK
<1>6. tally' \in [Interviews -> [Outcomes -> Nat]]
  <2>1. Cardinality(blocked) \in Nat
    BY FiniteJob, FS_Subset, FS_CardinalityType DEF NewlyBlocked, Downstream
  <2> HIDE DEF blocked
  <2>2. [tally EXCEPT ![i]["FAILED"] = @ + 1] \in [Interviews -> [Outcomes -> Nat]]
    BY <1>1, TallyTyped DEF IInv, TypeOK, RestTypeOK, Outcomes
  <2>3. [[tally EXCEPT ![i]["FAILED"] = @ + 1] EXCEPT ![i]["BLOCKED"] = @ + Cardinality(blocked)]
          \in [Interviews -> [Outcomes -> Nat]]
    BY <1>1, <2>1, <2>2, TallyTyped DEF Outcomes
  <2>4. tally' = [tally EXCEPT ![i]["FAILED"] = @ + 1, ![i]["BLOCKED"] = @ + Cardinality(blocked)]
    BY DEF OnTaskFailedForGood, FailTask, blocked
  <2> QED
    BY <2>3, <2>4
<1>7. interview' \in [Interviews -> InterviewStates]
  BY <1>1, StatesTyped DEF OnTaskFailedForGood, FailTask, IInv, TypeOK, RestTypeOK
<1>8. /\ counted' \in SUBSET Interviews
      /\ jobTally' \in [completed : Nat, failed : Nat]
      /\ job' \in JobStates
      /\ notified' \in [Interviews -> Nat]
  BY <1>1, MarkOneTyped DEF OnTaskFailedForGood, FailTask, IInv, TypeOK
<1>9. TypeOK'
  BY <1>3, <1>4, <1>5, <1>6, <1>7, <1>8 DEF OnTaskFailedForGood, FailTask, IInv, TypeOK, RestTypeOK
<1> QED
  BY <1>2, <1>9 DEF IInv

\* Nothing moves, or only the job's state does.
LEMMA CancelKeeps ==
  ASSUME IInv, Cancel \/ UNCHANGED vars
  PROVE  IInv'
<1>1. UNCHANGED <<taskVars, tally, interview, counted, jobTally, notified>> /\ job' \in JobStates
  BY DEF IInv, TypeOK, RestTypeOK, Cancel, vars, taskVars, jobVars, JobStates
<1>2. TypeOK'
  BY <1>1 DEF IInv, TypeOK, RestTypeOK, taskVars
<1>3. ReadyOnly' /\ unmetDeps' = unmetDeps /\ status' = status
  BY <1>1 DEF IInv, DepInv, ReadyOnly, taskVars
<1> QED
  BY <1>2, <1>3, PassedOn DEF IInv

LEMMA NextIInv == IInv /\ [Next]_vars => IInv'
<1> SUFFICES ASSUME IInv, [Next]_vars PROVE IInv'
  OBVIOUS
<1>1. ASSUME NEW t \in Tasks, Claim(t) PROVE IInv'
  BY <1>1, ClaimKeeps
<1>2. ASSUME NEW t \in Tasks, OnTaskCompleted(t) PROVE IInv'
  BY <1>2, CompletedKeeps
<1>3. ASSUME NEW t \in Tasks, OnTaskSkipped(t) PROVE IInv'
  BY <1>3, SkippedKeeps
<1>4. ASSUME NEW t \in Tasks, NEW e \in ErrorTypes, OnTaskFailedRetry(t, e) PROVE IInv'
  BY <1>4, RetryKeeps
<1>5. ASSUME NEW t \in Tasks, NEW e \in ErrorTypes, NEW force \in BOOLEAN,
             OnTaskFailedForGood(t, e, force)
      PROVE  IInv'
  BY <1>5, ForGoodKeeps
<1>6. ASSUME NEW S \in SUBSET Tasks, OnTasksCompletedBatch(S) PROVE IInv'
  BY <1>6, BatchKeeps
<1>7. CASE Cancel \/ UNCHANGED vars
  BY <1>7, CancelKeeps
<1> QED
  BY <1>1, <1>2, <1>3, <1>4, <1>5, <1>6, <1>7 DEF Next

\* No step takes an outcome back.
LEMMA StepKeeps ==
  ASSUME IInv, Next
  PROVE  Kept
<1> SUFFICES ASSUME NEW t \in Tasks, status[t] \in Outcomes
             PROVE  status'[t] = status[t]
  BY DEF Kept
<1>1. \A x \in Tasks : InHand(x) => x # t
  BY DEF InHand, Claimed, Outcomes
<1>2. ASSUME NEW x \in Tasks, Claim(x) PROVE status'[t] = status[t]
  BY <1>1, <1>2 DEF Claim, PopReady, AddToReady, StartRendering, EnqueueTask, StartRunning,
                    SetStatus, IInv, TypeOK, RestTypeOK
<1>3. ASSUME NEW S \in SUBSET Tasks, \A x \in S : InHand(x),
             NEW o \in Satisfied, MarkSatisfied(S, o)
      PROVE  status'[t] = status[t]
  <2>1. t \notin S
    BY <1>1, <1>3
  <2>2. t \notin NowReady(S)
    BY <1>3, DependentsTold DEF Outcomes
  <2> QED
    BY <1>3, <2>1, <2>2 DEF MarkSatisfied
<1>4. ASSUME NEW x \in Tasks, OnTaskCompleted(x) \/ OnTaskSkipped(x)
      PROVE  status'[t] = status[t]
  <2>1. CASE OnTaskCompleted(x)
    BY <1>3, <2>1 DEF OnTaskCompleted, Satisfied
  <2>2. CASE OnTaskSkipped(x)
    BY <1>3, <2>2 DEF OnTaskSkipped, Satisfied
  <2> QED
    BY <1>4, <2>1, <2>2
<1>5. ASSUME NEW S \in SUBSET Tasks, OnTasksCompletedBatch(S)
      PROVE  status'[t] = status[t]
  BY <1>3, <1>5 DEF OnTasksCompletedBatch, Satisfied
<1>6. ASSUME NEW x \in Tasks, NEW e \in ErrorTypes, OnTaskFailedRetry(x, e)
      PROVE  status'[t] = status[t]
  BY <1>1, <1>6 DEF OnTaskFailedRetry, RetryTask, MayFail, IInv, TypeOK, RestTypeOK
<1>7. ASSUME NEW x \in Tasks, NEW e \in ErrorTypes, NEW force \in BOOLEAN,
             OnTaskFailedForGood(x, e, force)
      PROVE  status'[t] = status[t]
  BY <1>1, <1>7 DEF OnTaskFailedForGood, FailTask, MayFail, NewlyBlocked
<1>8. CASE Cancel
  BY <1>8 DEF Cancel, taskVars
<1> QED
  BY <1>2, <1>4, <1>5, <1>6, <1>7, <1>8 DEF Next

-----------------------------------------------------------------------------
(***************************************************************************)
(* Theorems.                                                               *)
(***************************************************************************)

THEOREM Invariant == Spec => []IInv
BY InitIInv, NextIInv, PTL DEF Spec

\* The stores hold values of their types; no dependency counter goes negative.
THEOREM TypeCorrect == Spec => []TypeOK
BY Invariant, PTL DEF IInv

\* The counter mark_dependency_satisfied decrements is exact in every job.
THEOREM UnmetDepsCorrect == Spec => []UnmetDepsExact
<1>1. IInv => UnmetDepsExact
  <2> SUFFICES ASSUME IInv, NEW t \in Tasks
               PROVE  /\ unmetDeps[t] = Cardinality(Unmet(t))
                      /\ unmetDeps[t] > 0 <=> status[t] \in Waiting
    BY DEF UnmetDepsExact, Unmet, Waiting
  <2>1. IsFiniteSet(Unmet(t))
    BY DepsFinite, FS_Subset DEF Unmet
  <2>2. Cardinality(Unmet(t)) \in Nat /\ (Cardinality(Unmet(t)) = 0 <=> Unmet(t) = {})
    BY <2>1, FS_CardinalityType, FS_EmptySet
  <2> QED
    BY <2>2 DEF IInv, DepInv, CounterExact, WaitingExact
<1> QED
  BY <1>1, Invariant, PTL

\* No task is handled before everything it depends on was completed or skipped.
THEOREM DependenciesCorrect == Spec => []DependenciesRespected
<1>1. IInv => DependenciesRespected
  BY DEF IInv, DepInv, WaitingExact, Unmet, Waiting, ReadyOnly, DependenciesRespected
<1> QED
  BY <1>1, Invariant, PTL

\* No task waits for tasks that all have their outcome.
THEOREM NeverStranded == Spec => []NothingStranded
<1>1. IInv => NothingStranded
  <2> SUFFICES ASSUME IInv, NEW t \in Tasks, status[t] = "PENDING"
               PROVE  \E d \in Deps[t] : status[d] \notin Outcomes
    BY DEF NothingStranded
  <2>1. PICK d \in Deps[t] : status[d] \notin Satisfied
    BY DEF IInv, DepInv, WaitingExact, Waiting, Unmet
  <2>2. status[d] \notin Broken
    BY DEF IInv, DepInv, BlockedByDep
  <2> QED
    BY <2>1, <2>2 DEF Satisfied, Broken, Outcomes
<1> QED
  BY <1>1, Invariant, PTL

\* A failure blocks what depends on it and nothing else, however the graph
\* converges and in whatever order failures arrive.
THEOREM BlockedCorrect == Spec => []BlockedExactly
<1>1. IInv => BlockedExactly
  BY DEF IInv, DepInv, BlockedByDep, Broken, BlockedExactly
<1> QED
  BY <1>1, Invariant, PTL

\* Whatever is downstream of a failed task is blocked, and every blocked task is
\* downstream of a failed one, also in a graph with cycles.
THEOREM FailureReaches ==
  Spec => [](\A t \in Tasks : status[t] = "BLOCKED" <=>
               \E f \in Tasks : status[f] = "FAILED" /\ t \in Downstream[f])
<1> DEFINE Reached ==
  \A t \in Tasks : status[t] = "BLOCKED" <=>
    \E f \in Tasks : status[f] = "FAILED" /\ t \in Downstream[f]
<1>1. IInv => Reached
  <2> SUFFICES ASSUME IInv, NEW t \in Tasks
               PROVE  status[t] = "BLOCKED" <=>
                        \E f \in Tasks : status[f] = "FAILED" /\ t \in Downstream[f]
    OBVIOUS
  <2> QED
    BY DownstreamBlocked DEF IInv, DepInv, BlockedCause
<1> QED
  BY <1>1, Invariant, PTL

\* A task that has an outcome keeps it, whatever happens to the tasks around it.
THEOREM OutcomesKept == Spec => OutcomeKept
<1>1. IInv /\ [Next]_vars => Kept \/ UNCHANGED vars
  BY StepKeeps
<1> QED
  BY <1>1, Invariant, PTL DEF Spec, OutcomeKept, Kept

-----------------------------------------------------------------------------
(***************************************************************************)
(* The bookkeeping.                                                        *)
(***************************************************************************)

Having(s, i, o) == {t \in TasksOf(i) : s[t] = o}

\* The tasks of an interview that get outcome o in a step.
Gained(i, o) == {t \in TasksOf(i) : status'[t] = o /\ status[t] # o}

BookInv == TalliesExact /\ FinalizedExactly /\ NotifiedOnce /\ AttemptsWithinPolicy

-----------------------------------------------------------------------------
(***************************************************************************)
(* Counters and finished interviews.                                       *)
(***************************************************************************)

LEMMA TasksOfFinite ==
  ASSUME NEW i \in Interviews
  PROVE  /\ TasksOf(i) \subseteq Tasks /\ IsFiniteSet(TasksOf(i)) /\ TasksOf(i) # {}
         /\ \A S \in SUBSET TasksOf(i) : IsFiniteSet(S) /\ Cardinality(S) \in Nat
<1>1. TasksOf(i) \subseteq Tasks /\ IsFiniteSet(TasksOf(i))
  BY FiniteJob, FS_Subset DEF TasksOf
<1> QED
  BY <1>1, FS_Subset, FS_CardinalityType, NonEmptyJob DEF TasksOf

\* Disjoint sets of tasks of an interview are counted separately.
LEMMA CountedApart ==
  ASSUME NEW i \in Interviews, NEW A \in SUBSET TasksOf(i), NEW B \in SUBSET TasksOf(i),
         A \cap B = {}
  PROVE  Cardinality(A \cup B) = Cardinality(A) + Cardinality(B)
<1>1. IsFiniteSet(A) /\ IsFiniteSet(B)
  BY TasksOfFinite
<1>2. Cardinality(A \cap B) = 0
  BY FS_EmptySet
<1>3. Cardinality(A \cup B) = Cardinality(A) + Cardinality(B) - Cardinality(A \cap B)
  BY <1>1, FS_Union
<1>4. Cardinality(A) \in Nat /\ Cardinality(B) \in Nat
  BY <1>1, FS_CardinalityType
<1> QED
  BY <1>2, <1>3, <1>4

\* is_done and compute_state decide rightly if the counters c are exact.
LEMMA CountersDecide ==
  ASSUME NEW s, NEW i \in Interviews, NEW c \in [Outcomes -> Nat],
         \A o \in Outcomes : c[o] = Cardinality(Having(s, i, o))
  PROVE  /\ FinishedCount(c) < Cardinality(TasksOf(i))
              <=> \E t \in TasksOf(i) : s[t] \notin Outcomes
         /\ c["FAILED"] = 0 /\ c["BLOCKED"] = 0
              <=> {t \in TasksOf(i) : s[t] \in {"FAILED", "BLOCKED"}} = {}
<1> DEFINE C == Having(s, i, "COMPLETED")
           K == Having(s, i, "SKIPPED")
           F == Having(s, i, "FAILED")
           B == Having(s, i, "BLOCKED")
           All == {t \in TasksOf(i) : s[t] \in Outcomes}
<1>1. /\ {C, K, F, B, C \cup K, F \cup B, All} \subseteq SUBSET TasksOf(i)
      /\ C \cap K = {} /\ F \cap B = {} /\ (C \cup K) \cap (F \cup B) = {}
      /\ All = (C \cup K) \cup (F \cup B)
  BY DEF Having, Outcomes
<1>2. c["COMPLETED"] = Cardinality(C) /\ c["SKIPPED"] = Cardinality(K)
      /\ c["FAILED"] = Cardinality(F) /\ c["BLOCKED"] = Cardinality(B)
  BY DEF Outcomes
<1>3. {t \in TasksOf(i) : s[t] \in {"FAILED", "BLOCKED"}} = F \cup B
  BY DEF Having
<1> HIDE DEF C, K, F, B
<1>4. /\ Cardinality(C \cup K) = Cardinality(C) + Cardinality(K)
      /\ Cardinality(F \cup B) = Cardinality(F) + Cardinality(B)
      /\ Cardinality(All) = Cardinality(C \cup K) + Cardinality(F \cup B)
  BY <1>1, CountedApart
<1>5. /\ IsFiniteSet(F) /\ IsFiniteSet(B)
      /\ Cardinality(C) \in Nat /\ Cardinality(K) \in Nat
      /\ Cardinality(F) \in Nat /\ Cardinality(B) \in Nat
  BY <1>1, TasksOfFinite
<1>6. FinishedCount(c) = Cardinality(All)
  <2> HIDE DEF All
  <2> QED
    BY <1>2, <1>4, <1>5 DEF FinishedCount
<1>7. Cardinality(All) < Cardinality(TasksOf(i)) <=> All # TasksOf(i)
  <2>1. All \subseteq TasksOf(i) /\ IsFiniteSet(TasksOf(i))
    BY TasksOfFinite
  <2>2. Cardinality(All) \in Nat /\ Cardinality(TasksOf(i)) \in Nat
    BY <2>1, TasksOfFinite
  <2>3. Cardinality(All) <= Cardinality(TasksOf(i))
        /\ (Cardinality(All) = Cardinality(TasksOf(i)) => All = TasksOf(i))
    BY <2>1, FS_Subset
  <2> QED
    BY <2>2, <2>3
<1>8. c["FAILED"] = 0 /\ c["BLOCKED"] = 0 <=> F \cup B = {}
  BY <1>2, <1>5, FS_EmptySet
<1> QED
  BY <1>3, <1>6, <1>7, <1>8

\* Counters that grow by what is gained stay exact, since nothing is lost.
LEMMA TalliesGrow ==
  ASSUME BookInv, Kept,
         \A i \in Interviews, o \in Outcomes :
           tally'[i][o] = tally[i][o] + Cardinality(Gained(i, o))
  PROVE  \A i \in Interviews, o \in Outcomes : tally'[i][o] = Cardinality(Having(status', i, o))
<1> SUFFICES ASSUME NEW i \in Interviews, NEW o \in Outcomes
             PROVE  tally'[i][o] = Cardinality(Having(status', i, o))
  OBVIOUS
<1> DEFINE before == Having(status, i, o)
           gained == Gained(i, o)
<1>1. tally[i][o] = Cardinality(before)
  <2>1. WithOutcome(i, {o}) = before
    BY DEF WithOutcome, Having
  <2> QED
    BY <2>1 DEF BookInv, TalliesExact
<1>2. /\ before \in SUBSET TasksOf(i) /\ gained \in SUBSET TasksOf(i)
      /\ before \cap gained = {}
      /\ Having(status', i, o) = before \cup gained
  BY TasksOfFinite DEF Having, Gained, Kept
<1>3. Cardinality(before \cup gained) = Cardinality(before) + Cardinality(gained)
  <2> HIDE DEF before, gained
  <2> QED
    BY <1>2, CountedApart
<1> QED
  BY <1>1, <1>2, <1>3

\* What _maybe_finalize makes of an interview, told from the statuses s alone.
StateOf(s, i) ==
  IF \E t \in TasksOf(i) : s[t] \notin Outcomes THEN "RUNNING"
  ELSE IF {t \in TasksOf(i) : s[t] \in {"FAILED", "BLOCKED"}} = {} THEN "COMPLETED"
  ELSE "COMPLETED_WITH_FAILURES"

Final == {"COMPLETED", "COMPLETED_WITH_FAILURES"}

LEMMA StatesFinal ==
  ASSUME NEW s, NEW i
  PROVE  /\ StateOf(s, i) \in InterviewStates
         /\ StateOf(s, i) = "RUNNING" <=> \E t \in TasksOf(i) : s[t] \notin Outcomes
         /\ StateOf(s, i) \in Final <=> \A t \in TasksOf(i) : s[t] \in Outcomes
BY DEF StateOf, InterviewStates, Final

\* The invariant in these terms.
LEMMA BookStates ==
  ASSUME BookInv
  PROVE  /\ \A i \in Interviews : interview[i] = StateOf(status, i)
         /\ counted = {i \in Interviews : interview[i] \in Final}
         /\ \A i \in Interviews : notified[i] = IF i \in counted THEN 1 ELSE 0
<1>1. \A i : Finished(i) <=> ~\E t \in TasksOf(i) : status[t] \notin Outcomes
  BY DEF Finished
<1>2. \A i : WithOutcome(i, {"FAILED", "BLOCKED"})
                = {t \in TasksOf(i) : status[t] \in {"FAILED", "BLOCKED"}}
  BY DEF WithOutcome
<1>3. \A i \in Interviews : interview[i] = StateOf(status, i)
  BY <1>1, <1>2 DEF BookInv, FinalizedExactly, StateOf
<1>4. \A i \in Interviews : interview[i] \in Final <=> Finished(i)
  BY <1>1, <1>3, StatesFinal
<1> QED
  BY <1>3, <1>4 DEF BookInv, FinalizedExactly, NotifiedOnce

\* ... and how it is shown in the next state.
LEMMA BookStatesNext ==
  ASSUME \A i \in Interviews : interview'[i] = StateOf(status', i),
         counted' = {i \in Interviews : interview'[i] \in Final},
         \A i \in Interviews : notified'[i] = IF i \in counted' THEN 1 ELSE 0,
         jobTally'.completed = Cardinality({i \in Interviews : interview'[i] = "COMPLETED"}),
         jobTally'.failed =
           Cardinality({i \in Interviews : interview'[i] = "COMPLETED_WITH_FAILURES"}),
         job' # "CANCELLED" =>
           job' = IF counted' # Interviews THEN "RUNNING"
                  ELSE IF jobTally'.failed = 0 THEN "COMPLETED" ELSE "COMPLETED_WITH_FAILURES"
  PROVE  FinalizedExactly' /\ NotifiedOnce'
<1>1. \A i : Finished(i)' <=> ~\E t \in TasksOf(i) : status'[t] \notin Outcomes
  BY DEF Finished, TasksOf
<1>2. \A i : WithOutcome(i, {"FAILED", "BLOCKED"})'
                = {t \in TasksOf(i) : status'[t] \in {"FAILED", "BLOCKED"}}
  BY DEF WithOutcome, TasksOf
<1>3. \A i \in Interviews : interview'[i] \in Final <=> Finished(i)'
  BY <1>1, StatesFinal
<1>4. \A i \in Interviews :
        interview'[i] = IF ~Finished(i)' THEN "RUNNING"
                        ELSE IF WithOutcome(i, {"FAILED", "BLOCKED"})' = {} THEN "COMPLETED"
                        ELSE "COMPLETED_WITH_FAILURES"
  BY <1>1, <1>2 DEF StateOf
<1>5. FinalizedExactly'
  BY <1>3, <1>4 DEF FinalizedExactly
<1>6. NotifiedOnce'
  BY <1>3 DEF NotifiedOnce
<1> QED
  BY <1>5, <1>6

\* The statuses of an interview of which no task gets an outcome.
Untouched(i) ==
  \A t \in TasksOf(i) : \/ status'[t] = status[t]
                        \/ status[t] \notin Outcomes /\ status'[t] \notin Outcomes

LEMMA UntouchedState ==
  ASSUME NEW i, Untouched(i)
  PROVE  StateOf(status', i) = StateOf(status, i)
<1>1. \A t \in TasksOf(i) : /\ status'[t] \in Outcomes <=> status[t] \in Outcomes
                            /\ status'[t] \in {"FAILED", "BLOCKED"} <=> status[t] \in {"FAILED", "BLOCKED"}
  BY DEF Untouched, Outcomes
<1> QED
  BY <1>1 DEF StateOf

\* Everything the counters of the job need: interviews H, none of them finished, may be
\* finalized, and those that are, are counted.
LEMMA Finalized ==
  ASSUME TypeOK, TypeOK', BookInv, NEW H \in SUBSET Interviews,
         \A i \in H : ~Finished(i),
         \A i \in Interviews \ H : Untouched(i),
         \A i \in Interviews, o \in Outcomes : tally'[i][o] = Cardinality(Having(status', i, o)),
         \A i \in Interviews : interview'[i] = IF i \in H THEN InterviewState(i, tally'[i])
                                                ELSE interview[i],
         MarkInterviewsCompletedBatch({i \in H : interview'[i] # "RUNNING"})
  PROVE  FinalizedExactly' /\ NotifiedOnce'
<1> DEFINE done == {i \in H : interview'[i] # "RUNNING"}
           failing == {i \in done : interview'[i] = "COMPLETED_WITH_FAILURES"}
           OfState(s) == {i \in Interviews : interview[i] = s}
<1>1. \A i \in H : interview[i] = "RUNNING"
  BY BookStates, StatesFinal DEF Finished
<1>2. \A i \in Interviews : interview'[i] = StateOf(status', i)
  <2> TAKE i \in Interviews
  <2>1. CASE i \in H
    <3>1. tally'[i] \in [Outcomes -> Nat]
      BY DEF TypeOK, RestTypeOK
    <3>2. /\ FinishedCount(tally'[i]) < Cardinality(TasksOf(i))
               <=> \E t \in TasksOf(i) : status'[t] \notin Outcomes
          /\ tally'[i]["FAILED"] = 0 /\ tally'[i]["BLOCKED"] = 0
               <=> {t \in TasksOf(i) : status'[t] \in {"FAILED", "BLOCKED"}} = {}
      BY <3>1, CountersDecide
    <3> QED
      BY <1>1, <2>1, <3>2 DEF InterviewState, StateOf
  <2>2. CASE i \notin H
    BY <2>2, BookStates, UntouchedState
  <2> QED
    BY <2>1, <2>2
<1>3. \A i \in Interviews : interview[i] \in InterviewStates /\ interview'[i] \in InterviewStates
  BY DEF TypeOK, RestTypeOK
<1>4. \A i \in Interviews : interview'[i] \in Final <=> interview[i] \in Final \/ i \in done
  BY <1>1, <1>3 DEF InterviewStates, Final
<1>5. /\ counted' = counted \cup done
      /\ \A i \in Interviews : notified'[i] = IF i \in done THEN notified[i] + 1 ELSE notified[i]
      /\ jobTally'.completed = jobTally.completed + Cardinality(done \ failing)
      /\ jobTally'.failed = jobTally.failed + Cardinality(failing)
      /\ job' = IF done = {} THEN job ELSE JobState(jobTally')
  <2>1. CASE done = {}
    <3>1. Cardinality(failing) = 0 /\ Cardinality(done \ failing) = 0
      BY <2>1, FS_EmptySet
    <3> QED
      BY <2>1, <3>1 DEF MarkInterviewsCompletedBatch, TypeOK, RestTypeOK
  <2>2. CASE done # {}
    BY <2>2 DEF MarkInterviewsCompletedBatch
  <2> QED
    BY <2>1, <2>2
<1>6. counted' = {i \in Interviews : interview'[i] \in Final}
  BY <1>4, <1>5, BookStates
<1>7. \A i \in Interviews : notified'[i] = IF i \in counted' THEN 1 ELSE 0
  BY <1>1, <1>5, BookStates DEF Final
<1>8. /\ OfState("COMPLETED")' = OfState("COMPLETED") \cup (done \ failing)
      /\ OfState("COMPLETED_WITH_FAILURES")' = OfState("COMPLETED_WITH_FAILURES") \cup failing
      /\ OfState("COMPLETED") \cap (done \ failing) = {}
      /\ OfState("COMPLETED_WITH_FAILURES") \cap failing = {}
  BY <1>1, <1>3 DEF InterviewStates
<1>9. \A S \in SUBSET Interviews : IsFiniteSet(S) /\ Cardinality(S) \in Nat
  BY FiniteJob, FS_Subset, FS_CardinalityType
<1>10. ASSUME NEW A \in SUBSET Interviews, NEW B \in SUBSET Interviews, A \cap B = {}
       PROVE  Cardinality(A \cup B) = Cardinality(A) + Cardinality(B)
  <2>1. Cardinality(A \cup B) = Cardinality(A) + Cardinality(B) - Cardinality(A \cap B)
    BY <1>9, FS_Union
  <2>2. Cardinality(A \cap B) = 0
    BY <1>10, FS_EmptySet
  <2> QED
    BY <1>9, <2>1, <2>2
<1>11. /\ jobTally'.completed = Cardinality(OfState("COMPLETED")')
       /\ jobTally'.failed = Cardinality(OfState("COMPLETED_WITH_FAILURES")')
  <2>1. /\ jobTally.completed = Cardinality(OfState("COMPLETED"))
        /\ jobTally.failed = Cardinality(OfState("COMPLETED_WITH_FAILURES"))
    BY DEF BookInv, FinalizedExactly
  <2>2. /\ OfState("COMPLETED") \in SUBSET Interviews /\ done \ failing \in SUBSET Interviews
        /\ OfState("COMPLETED_WITH_FAILURES") \in SUBSET Interviews
        /\ failing \in SUBSET Interviews
    OBVIOUS
  <2> HIDE DEF OfState, failing, done
  <2>3. /\ Cardinality(OfState("COMPLETED") \cup (done \ failing))
             = Cardinality(OfState("COMPLETED")) + Cardinality(done \ failing)
        /\ Cardinality(OfState("COMPLETED_WITH_FAILURES") \cup failing)
             = Cardinality(OfState("COMPLETED_WITH_FAILURES")) + Cardinality(failing)
    BY <1>8, <1>10, <2>2
  <2> QED
    BY <1>5, <1>8, <2>1, <2>3
<1>12. /\ Cardinality(counted') = jobTally'.completed + jobTally'.failed
       /\ counted' # Interviews <=> jobTally'.completed + jobTally'.failed < Cardinality(Interviews)
  <2>1. /\ counted' = OfState("COMPLETED")' \cup OfState("COMPLETED_WITH_FAILURES")'
        /\ OfState("COMPLETED")' \cap OfState("COMPLETED_WITH_FAILURES")' = {}
        /\ OfState("COMPLETED")' \in SUBSET Interviews
        /\ OfState("COMPLETED_WITH_FAILURES")' \in SUBSET Interviews
    BY <1>6 DEF Final
  <2>2. Cardinality(counted') = Cardinality(OfState("COMPLETED")')
                                 + Cardinality(OfState("COMPLETED_WITH_FAILURES")')
    BY <1>10, <2>1
  <2>3. counted' \in SUBSET Interviews /\ IsFiniteSet(Interviews)
    BY <1>6, FiniteJob
  <2>4. /\ Cardinality(counted') <= Cardinality(Interviews)
        /\ Cardinality(counted') = Cardinality(Interviews) => counted' = Interviews
        /\ Cardinality(counted') \in Nat /\ Cardinality(Interviews) \in Nat
    BY <2>3, FS_Subset, FS_CardinalityType
  <2> QED
    BY <1>11, <2>2, <2>4
<1>13. job' # "CANCELLED" =>
         job' = IF counted' # Interviews THEN "RUNNING"
                ELSE IF jobTally'.failed = 0 THEN "COMPLETED" ELSE "COMPLETED_WITH_FAILURES"
  <2>1. CASE done = {}
    <3>1. counted' = counted /\ job' = job /\ jobTally'.failed = jobTally.failed
      <4>1. jobTally.failed = Cardinality(OfState("COMPLETED_WITH_FAILURES"))
        BY DEF BookInv, FinalizedExactly
      <4>2. OfState("COMPLETED_WITH_FAILURES")' = OfState("COMPLETED_WITH_FAILURES")
        BY <1>8, <2>1
      <4> QED
        BY <1>5, <1>11, <2>1, <4>1, <4>2
    <3> QED
      BY <3>1 DEF BookInv, FinalizedExactly
  <2>2. CASE done # {}
    <3>1. counted # Interviews
      BY <1>1, <2>2, BookStates DEF Final
    <3>2. job' = JobState(jobTally')
      BY <1>5, <2>2
    <3>3. CASE counted' # Interviews
      BY <1>12, <3>1, <3>2, <3>3 DEF JobState, BookInv, FinalizedExactly
    <3>4. CASE counted' = Interviews
      BY <1>12, <3>2, <3>4 DEF JobState
    <3> QED
      BY <3>3, <3>4
  <2> QED
    BY <2>1, <2>2
<1> QED
  BY <1>2, <1>6, <1>7, <1>11, <1>13, BookStatesNext

-----------------------------------------------------------------------------
(***************************************************************************)
(* The handlers.                                                           *)
(***************************************************************************)

\* Finalizing one interview that is not counted yet is a batch of one or none.
LEMMA OneIsBatch ==
  ASSUME TypeOK, NEW i \in Interviews, i \notin counted, NEW h,
         interview'[i] \in InterviewStates,
         interview'[i] # "RUNNING" => (h <=> interview'[i] = "COMPLETED_WITH_FAILURES"),
         MarkInterviewCompleted(i, h)
  PROVE  MarkInterviewsCompletedBatch({j \in {i} : interview'[j] # "RUNNING"})
<1>1. CASE interview'[i] = "RUNNING"
  BY <1>1 DEF MarkInterviewCompleted, MarkInterviewsCompletedBatch
<1>2. CASE interview'[i] # "RUNNING"
  <2> DEFINE failing == {j \in {i} : interview'[j] = "COMPLETED_WITH_FAILURES"}
  <2>1. {j \in {i} : interview'[j] # "RUNNING"} = {i}
    BY <1>2
  <2>2. failing = IF h THEN {i} ELSE {}
    BY <1>2
  <2>3. {i} \ failing = IF h THEN {} ELSE {i}
    BY <2>2
  <2>4. /\ counted' = counted \cup {i}
        /\ notified' = [notified EXCEPT ![i] = @ + 1]
        /\ jobTally' = IF h THEN [jobTally EXCEPT !.failed = @ + 1]
                       ELSE [jobTally EXCEPT !.completed = @ + 1]
        /\ job' = JobState(jobTally')
    BY <1>2 DEF MarkInterviewCompleted
  <2>5. jobTally.completed \in Nat /\ jobTally.failed \in Nat
        /\ jobTally = [completed |-> jobTally.completed, failed |-> jobTally.failed]
    BY DEF TypeOK, RestTypeOK
  <2>6. notified' = [j \in Interviews |-> IF j \in {i} THEN notified[j] + 1 ELSE notified[j]]
    BY <2>4 DEF TypeOK, RestTypeOK
  <2>7. jobTally' = [completed |-> jobTally.completed + (IF h THEN 0 ELSE 1),
                     failed    |-> jobTally.failed + (IF h THEN 1 ELSE 0)]
    <3>1. CASE h
      <4>1. jobTally' = [completed |-> jobTally.completed, failed |-> jobTally.failed + 1]
        BY <2>4, <2>5, <3>1
      <4> QED
        BY <2>5, <3>1, <4>1
    <3>2. CASE ~h
      <4>1. jobTally' = [completed |-> jobTally.completed + 1, failed |-> jobTally.failed]
        BY <2>4, <2>5, <3>2
      <4> QED
        BY <2>5, <3>2, <4>1
    <3> QED
      BY <3>1, <3>2
  <2>8. /\ Cardinality({i} \ failing) = IF h THEN 0 ELSE 1
        /\ Cardinality(failing) = IF h THEN 1 ELSE 0
    BY <2>2, <2>3, FS_EmptySet, FS_Singleton
  <2> HIDE DEF failing
  <2>9. MarkInterviewsCompletedBatch({i})
    BY <2>4, <2>6, <2>7, <2>8 DEF MarkInterviewsCompletedBatch, failing
  <2> QED
    BY <2>1, <2>9
<1> QED
  BY <1>1, <1>2

\* An interview with a task in somebody's hands is not finished.
LEMMA HandOpensInterview ==
  ASSUME IInv, BookInv, NEW t \in Tasks, InHand(t)
  PROVE  /\ InterviewOf[t] \in Interviews /\ t \in TasksOf(InterviewOf[t])
         /\ ~Finished(InterviewOf[t]) /\ InterviewOf[t] \notin counted
<1>1. InterviewOf[t] \in Interviews /\ t \in TasksOf(InterviewOf[t])
  BY DepsWithinInterview DEF TasksOf
<1>2. status[t] \notin Outcomes
  BY InHandIsReady DEF Live, Claimed, Outcomes
<1> QED
  BY <1>1, <1>2 DEF Finished, BookInv, FinalizedExactly

\* Tasks S get outcome o, and no other task gets an outcome.
LEMMA SettledStatuses ==
  ASSUME IInv, NEW S \in SUBSET Tasks, \A x \in S : InHand(x), NEW o \in Satisfied,
         MarkSatisfied(S, o)
  PROVE  \A x \in Tasks : /\ x \in S => status'[x] = o /\ status[x] \notin Outcomes
                          /\ x \notin S => \/ status'[x] = status[x]
                                           \/ status[x] = "PENDING" /\ status'[x] = "READY"
<1> DEFINE N == NowReady(S)
<1>1. \A x \in N : status[x] = "PENDING"
  BY DependentsTold
<1>2. \A x \in Tasks : status'[x] = IF x \in N THEN "READY" ELSE IF x \in S THEN o ELSE status[x]
  BY DEF MarkSatisfied
<1>3. \A x \in S : status[x] \in Live
  BY InHandIsReady
<1> HIDE DEF N
<1> QED
  BY <1>1, <1>2, <1>3 DEF Live, Claimed, Outcomes

\* What becomes of the counters.
LEMMA GainedBySettled ==
  ASSUME IInv, NEW S \in SUBSET Tasks, \A x \in S : InHand(x), NEW o \in Satisfied,
         MarkSatisfied(S, o)
  PROVE  /\ \A i : Gained(i, o) = TasksOf(i) \cap S
         /\ \A i : \A p \in Outcomes \ {o} : Gained(i, p) = {}
         /\ \A i : TasksOf(i) \cap S = {} => Untouched(i)
<1>1. \A x \in Tasks : /\ x \in S => status'[x] = o /\ status[x] \notin Outcomes
                       /\ x \notin S => \/ status'[x] = status[x]
                                        \/ status[x] = "PENDING" /\ status'[x] = "READY"
  BY SettledStatuses
<1>2. /\ o \in Outcomes /\ "PENDING" \notin Outcomes /\ "READY" \notin Outcomes
      /\ \A i : TasksOf(i) \subseteq Tasks
  BY DEF Outcomes, Satisfied, TasksOf
<1>3. \A i : Gained(i, o) = TasksOf(i) \cap S
  BY <1>1, <1>2 DEF Gained
<1>4. \A i : \A p \in Outcomes \ {o} : Gained(i, p) = {}
  BY <1>1, <1>2 DEF Gained
<1>5. ASSUME NEW i, TasksOf(i) \cap S = {}
      PROVE  Untouched(i)
  <2>1. \A x \in TasksOf(i) : x \in Tasks /\ x \notin S
    BY <1>2, <1>5
  <2> QED
    BY <1>1, <1>2, <2>1 DEF Untouched
<1> QED
  BY <1>3, <1>4, <1>5

\* The counter of the one task that got an outcome.
LEMMA CountedOnce ==
  ASSUME TypeOK, NEW i \in Interviews, NEW o \in Outcomes,
         tally' = [tally EXCEPT ![i][o] = @ + 1]
  PROVE  \A j \in Interviews, p \in Outcomes :
           tally'[j][p] = tally[j][p] + IF j = i /\ p = o THEN 1 ELSE 0
BY DEF TypeOK, RestTypeOK

LEMMA SettledBooks ==
  ASSUME IInv, TypeOK', BookInv, Kept, NEW t \in Tasks, InHand(t), NEW o \in Satisfied,
         MarkSatisfied({t}, o),
         tally' = [tally EXCEPT ![InterviewOf[t]][o] = @ + 1],
         interview' = [interview EXCEPT
                         ![InterviewOf[t]] = InterviewState(InterviewOf[t], tally'[InterviewOf[t]])],
         MarkInterviewCompleted(InterviewOf[t],
                                interview'[InterviewOf[t]] = "COMPLETED_WITH_FAILURES")
  PROVE  /\ \A j \in Interviews, p \in Outcomes : tally'[j][p] = Cardinality(Having(status', j, p))
         /\ FinalizedExactly' /\ NotifiedOnce'
<1> DEFINE i == InterviewOf[t]
<1>1. TypeOK
  BY DEF IInv
<1>2. i \in Interviews /\ t \in TasksOf(i) /\ ~Finished(i) /\ i \notin counted
  BY HandOpensInterview
<1>3. \A j \in Interviews : TasksOf(j) \cap {t} = IF j = i THEN {t} ELSE {}
  BY DEF TasksOf
<1>4. /\ \A j : Gained(j, o) = TasksOf(j) \cap {t}
      /\ \A j : \A p \in Outcomes \ {o} : Gained(j, p) = {}
      /\ \A j : TasksOf(j) \cap {t} = {} => Untouched(j)
  BY GainedBySettled
<1>5. \A j \in Interviews, p \in Outcomes : Gained(j, p) = IF j = i /\ p = o THEN {t} ELSE {}
  BY <1>3, <1>4
<1>6. \A j \in Interviews, p \in Outcomes :
        tally'[j][p] = tally[j][p] + Cardinality(Gained(j, p))
  <2>1. o \in Outcomes
    BY DEF Satisfied, Outcomes
  <2>2. \A j \in Interviews, p \in Outcomes :
          tally'[j][p] = tally[j][p] + IF j = i /\ p = o THEN 1 ELSE 0
    BY <1>1, <1>2, <2>1, CountedOnce
  <2>3. Cardinality({t}) = 1 /\ \A A : A = {} => Cardinality(A) = 0
    BY FS_EmptySet, FS_Singleton
  <2> QED
    BY <1>5, <2>2, <2>3
<1>7. \A j \in Interviews, p \in Outcomes : tally'[j][p] = Cardinality(Having(status', j, p))
  BY <1>6, TalliesGrow
<1>8. /\ {i} \in SUBSET Interviews
      /\ \A j \in {i} : ~Finished(j)
      /\ \A j \in Interviews \ {i} : Untouched(j)
      /\ \A j \in Interviews : interview'[j] = IF j \in {i} THEN InterviewState(j, tally'[j])
                                               ELSE interview[j]
  BY <1>1, <1>2, <1>3, <1>4 DEF TypeOK, RestTypeOK
<1>9. MarkInterviewsCompletedBatch({j \in {i} : interview'[j] # "RUNNING"})
  <2>1. interview'[i] \in InterviewStates
    BY <1>2 DEF TypeOK, RestTypeOK
  <2> QED
    BY <1>1, <1>2, <2>1, OneIsBatch
<1>10. FinalizedExactly' /\ NotifiedOnce'
  <2> HIDE DEF i
  <2> QED
    BY <1>1, <1>7, <1>8, <1>9, Finalized
<1> QED
  BY <1>7, <1>10

\* Everything downstream of a task belongs to its interview; what has no outcome waits.
LEMMA DownstreamHere ==
  ASSUME IInv, NEW t \in Tasks, InHand(t)
  PROVE  /\ NewlyBlocked(t) \subseteq TasksOf(InterviewOf[t])
         /\ \A x \in NewlyBlocked(t) : x # t /\ status[x] = "PENDING"
<1>1. Downstream[t] \subseteq TasksOf(InterviewOf[t])
  BY DownstreamWithin
<1>2. status[t] \in Live
  BY InHandIsReady
<1>3. \A x \in Downstream[t] : status[x] \in Waiting
  BY <1>2, DownstreamWaits DEF Live, Claimed, Satisfied
<1> QED
  BY <1>1, <1>2, <1>3 DEF NewlyBlocked, Waiting, Outcomes, Live, Claimed

LEMMA FailedBooks ==
  ASSUME IInv, TypeOK', BookInv, Kept, NEW t \in Tasks, NEW e \in ErrorTypes,
         NEW force \in BOOLEAN, OnTaskFailedForGood(t, e, force)
  PROVE  /\ \A j \in Interviews, p \in Outcomes : tally'[j][p] = Cardinality(Having(status', j, p))
         /\ FinalizedExactly' /\ NotifiedOnce'
<1> DEFINE i == InterviewOf[t]
           blocked == NewlyBlocked(t)
<1>1. TypeOK /\ InHand(t)
  BY DEF IInv, OnTaskFailedForGood, FailTask, MayFail
<1>2. i \in Interviews /\ t \in TasksOf(i) /\ ~Finished(i) /\ i \notin counted
  BY <1>1, HandOpensInterview
<1>3. blocked \subseteq TasksOf(i) /\ \A x \in blocked : x # t /\ status[x] = "PENDING"
  BY <1>1, DownstreamHere
<1>4. status[t] \in Live
  BY <1>1, InHandIsReady
<1>5. \A x \in Tasks : status'[x] = IF x = t THEN "FAILED"
                                    ELSE IF x \in blocked THEN "BLOCKED" ELSE status[x]
  BY DEF OnTaskFailedForGood, FailTask
<1> HIDE DEF blocked
<1>6. \A j \in Interviews : /\ TasksOf(j) \subseteq Tasks
                            /\ j # i => TasksOf(j) \cap TasksOf(i) = {}
  BY DEF TasksOf
<1>7. \A j \in Interviews, p \in Outcomes :
        Gained(j, p) = IF j = i /\ p = "FAILED" THEN {t}
                       ELSE IF j = i /\ p = "BLOCKED" THEN blocked ELSE {}
  <2> SUFFICES ASSUME NEW j \in Interviews, NEW p \in Outcomes
               PROVE  Gained(j, p) = IF j = i /\ p = "FAILED" THEN {t}
                                     ELSE IF j = i /\ p = "BLOCKED" THEN blocked ELSE {}
    OBVIOUS
  <2>1. status[t] # "FAILED" /\ status[t] # "BLOCKED"
    BY <1>4 DEF Live, Claimed
  <2>2. CASE j = i
    BY <1>2, <1>3, <1>5, <1>6, <2>1, <2>2 DEF Gained
  <2>3. CASE j # i
    BY <1>2, <1>3, <1>5, <1>6, <2>3 DEF Gained
  <2> QED
    BY <2>2, <2>3
<1>8. \A j \in Interviews \ {i} : Untouched(j)
  BY <1>2, <1>3, <1>5, <1>6 DEF Untouched
<1>9. \A j \in Interviews, p \in Outcomes :
        tally'[j][p] = tally[j][p] + Cardinality(Gained(j, p))
  <2>1. tally' = [tally EXCEPT ![i]["FAILED"] = @ + 1, ![i]["BLOCKED"] = @ + Cardinality(blocked)]
    BY DEF OnTaskFailedForGood, FailTask, blocked
  <2>2. \A j \in Interviews, p \in Outcomes :
          tally'[j][p] = tally[j][p] + IF j = i /\ p = "FAILED" THEN 1
                                       ELSE IF j = i /\ p = "BLOCKED" THEN Cardinality(blocked)
                                       ELSE 0
    <3>1. Cardinality(blocked) \in Nat
      BY <1>2, <1>3, TasksOfFinite
    <3>2. \A j \in Interviews, p \in Outcomes : tally[j][p] \in Nat
      BY <1>1 DEF TypeOK, RestTypeOK
    <3> QED
      BY <1>1, <1>2, <2>1, <3>1, <3>2 DEF TypeOK, RestTypeOK, Outcomes
  <2>3. Cardinality({t}) = 1 /\ \A A : A = {} => Cardinality(A) = 0
    BY FS_EmptySet, FS_Singleton
  <2> QED
    BY <1>7, <2>2, <2>3, SMTT(30)
<1>10. \A j \in Interviews, p \in Outcomes : tally'[j][p] = Cardinality(Having(status', j, p))
  BY <1>9, TalliesGrow
<1>11. /\ {i} \in SUBSET Interviews
       /\ \A j \in {i} : ~Finished(j)
       /\ \A j \in Interviews \ {i} : Untouched(j)
       /\ \A j \in Interviews : interview'[j] = IF j \in {i} THEN InterviewState(j, tally'[j])
                                                ELSE interview[j]
  BY <1>1, <1>2, <1>8 DEF TypeOK, RestTypeOK, OnTaskFailedForGood, FailTask
<1>12. interview'[i] # "RUNNING" => interview'[i] = "COMPLETED_WITH_FAILURES"
  <2>1. tally'[i] \in [Outcomes -> Nat]
    BY <1>2 DEF TypeOK, RestTypeOK
  <2>2. tally'[i]["FAILED"] = 0 /\ tally'[i]["BLOCKED"] = 0
          <=> {x \in TasksOf(i) : status'[x] \in {"FAILED", "BLOCKED"}} = {}
    BY <1>2, <1>10, <2>1, CountersDecide
  <2>3. t \in Tasks /\ status'[t] = "FAILED"
    BY <1>5
  <2>4. interview'[i] = InterviewState(i, tally'[i]) /\ interview[i] = "RUNNING"
    BY <1>2, <1>11 DEF BookInv, FinalizedExactly
  <2> QED
    BY <1>2, <2>2, <2>3, <2>4 DEF InterviewState
<1>13. MarkInterviewsCompletedBatch({j \in {i} : interview'[j] # "RUNNING"})
  <2>1. interview'[i] \in InterviewStates
    BY <1>2 DEF TypeOK, RestTypeOK
  <2>2. MarkInterviewCompleted(i, TRUE)
    BY DEF OnTaskFailedForGood, FailTask
  <2> QED
    BY <1>1, <1>2, <1>12, <2>1, <2>2, OneIsBatch
<1>14. FinalizedExactly' /\ NotifiedOnce'
  <2> HIDE DEF i
  <2> QED
    BY <1>1, <1>10, <1>11, <1>13, Finalized
<1> QED
  BY <1>10, <1>14

LEMMA BatchBooks ==
  ASSUME IInv, TypeOK', BookInv, Kept, NEW S \in SUBSET Tasks, OnTasksCompletedBatch(S)
  PROVE  /\ \A j \in Interviews, p \in Outcomes : tally'[j][p] = Cardinality(Having(status', j, p))
         /\ FinalizedExactly' /\ NotifiedOnce'
<1> DEFINE here == {i \in Interviews : TasksOf(i) \cap S # {}}
           o == "COMPLETED"
<1>1. /\ TypeOK /\ \A x \in S : InHand(x)
      /\ MarkSatisfied(S, o) /\ o \in Satisfied /\ o \in Outcomes
  BY DEF IInv, OnTasksCompletedBatch, Satisfied, Outcomes
<1>2. /\ \A j : Gained(j, o) = TasksOf(j) \cap S
      /\ \A j : \A p \in Outcomes \ {o} : Gained(j, p) = {}
      /\ \A j : TasksOf(j) \cap S = {} => Untouched(j)
  BY <1>1, GainedBySettled
<1>3. \A j \in Interviews, p \in Outcomes :
        tally'[j][p] = tally[j][p] + Cardinality(Gained(j, p))
  <2> SUFFICES ASSUME NEW j \in Interviews, NEW p \in Outcomes
               PROVE  tally'[j][p] = tally[j][p] + Cardinality(Gained(j, p))
    OBVIOUS
  <2>1. tally'[j] = [tally[j] EXCEPT !["COMPLETED"] = @ + Cardinality(TasksOf(j) \cap S)]
    BY DEF OnTasksCompletedBatch
  <2>2. tally[j] \in [Outcomes -> Nat]
    BY <1>1 DEF TypeOK, RestTypeOK
  <2>3. CASE p = o
    BY <1>1, <1>2, <2>1, <2>2, <2>3
  <2>4. CASE p # o
    <3>1. Cardinality(Gained(j, p)) = 0
      BY <1>2, <2>4, FS_EmptySet
    <3>2. tally'[j][p] = tally[j][p] /\ tally[j][p] \in Nat
      BY <2>1, <2>2, <2>4
    <3> QED
      BY <3>1, <3>2
  <2> QED
    BY <2>3, <2>4
<1>4. \A j \in Interviews, p \in Outcomes : tally'[j][p] = Cardinality(Having(status', j, p))
  BY <1>3, TalliesGrow
<1>5. \A i \in here : ~Finished(i)
  <2> SUFFICES ASSUME NEW i \in here, NEW t \in TasksOf(i) \cap S
               PROVE  ~Finished(i)
    OBVIOUS
  <2>1. t \in Tasks /\ InterviewOf[t] = i
    BY DEF TasksOf
  <2> QED
    BY <1>1, <2>1, HandOpensInterview
<1>6. /\ here \in SUBSET Interviews
      /\ \A i \in Interviews \ here : Untouched(i)
      /\ \A i \in Interviews : interview'[i] = IF i \in here THEN InterviewState(i, tally'[i])
                                               ELSE interview[i]
      /\ MarkInterviewsCompletedBatch({i \in here : interview'[i] # "RUNNING"})
  BY <1>2 DEF OnTasksCompletedBatch
<1>7. FinalizedExactly' /\ NotifiedOnce'
  <2> HIDE DEF here
  <2> QED
    BY <1>1, <1>4, <1>5, <1>6, Finalized
<1> QED
  BY <1>4, <1>7

\* The books stand while no task gets an outcome.
LEMMA BooksStand ==
  ASSUME TypeOK, BookInv, Kept, \A i \in Interviews : Untouched(i),
         UNCHANGED <<tally, interview, counted, jobTally, notified>>,
         job' = job \/ job' = "CANCELLED"
  PROVE  /\ \A j \in Interviews, p \in Outcomes : tally'[j][p] = Cardinality(Having(status', j, p))
         /\ FinalizedExactly' /\ NotifiedOnce'
<1>1. \A j \in Interviews, p \in Outcomes : Gained(j, p) = {}
  BY DEF Gained, Untouched
<1>2. \A j \in Interviews, p \in Outcomes :
        tally'[j][p] = tally[j][p] + Cardinality(Gained(j, p))
  <2>1. \A j \in Interviews, p \in Outcomes : Cardinality(Gained(j, p)) = 0
    BY <1>1, FS_EmptySet
  <2>2. \A j \in Interviews, p \in Outcomes : tally[j][p] \in Nat
    BY DEF TypeOK, RestTypeOK
  <2> QED
    BY <2>1, <2>2
<1>3. \A j \in Interviews, p \in Outcomes : tally'[j][p] = Cardinality(Having(status', j, p))
  BY <1>2, TalliesGrow
<1>4. \A i \in Interviews : interview'[i] = StateOf(status', i)
  BY BookStates, UntouchedState
<1>5. /\ jobTally'.completed = Cardinality({i \in Interviews : interview'[i] = "COMPLETED"})
      /\ jobTally'.failed =
           Cardinality({i \in Interviews : interview'[i] = "COMPLETED_WITH_FAILURES"})
      /\ job' # "CANCELLED" =>
           job' = IF counted' # Interviews THEN "RUNNING"
                  ELSE IF jobTally'.failed = 0 THEN "COMPLETED" ELSE "COMPLETED_WITH_FAILURES"
  BY DEF BookInv, FinalizedExactly
<1>6. /\ counted' = {i \in Interviews : interview'[i] \in Final}
      /\ \A i \in Interviews : notified'[i] = IF i \in counted' THEN 1 ELSE 0
  BY BookStates
<1> QED
  BY <1>3, <1>4, <1>5, <1>6, BookStatesNext

\* What the counters mean, in the terms of the property.
LEMMA TalliesNext ==
  ASSUME \A j \in Interviews, p \in Outcomes : tally'[j][p] = Cardinality(Having(status', j, p)),
         answers' = {t \in Tasks : status'[t] = "COMPLETED"}
  PROVE  TalliesExact'
<1>1. \A j, p : WithOutcome(j, {p})' = Having(status', j, p)
  BY DEF WithOutcome, Having, TasksOf
<1> QED
  BY <1>1 DEF TalliesExact

\* Attempts are counted for a task in hand only, and a failed task stays failed.
LEMMA AttemptsStand ==
  ASSUME BookInv, Kept, attempts' = attempts
  PROVE  AttemptsWithinPolicy'
BY DEF BookInv, Kept, AttemptsWithinPolicy, Outcomes

LEMMA AttemptCounted ==
  ASSUME IInv, BookInv, Kept, NEW t \in Tasks, NEW e \in ErrorTypes, NEW force \in BOOLEAN,
         InHand(t), CountAttempt(t, e, force),
         WillRetry(t, e, force) \/ status'[t] = "FAILED"
  PROVE  AttemptsWithinPolicy'
<1> DEFINE p(x) == RetryPolicies[x]
           most(x) == IF p(x).max_attempts = 0 THEN 1 ELSE p(x).max_attempts
<1>1. /\ attempts \in [Tasks -> [ErrorTypes -> Nat]]
      /\ \A x \in ErrorTypes : p(x).max_attempts \in Nat /\ p(x).retryable \in BOOLEAN
  BY PolicyTypes DEF IInv, TypeOK, RestTypeOK
<1>2. status[t] # "FAILED"
  BY InHandIsReady DEF Live, Claimed
<1>3. \A x \in ErrorTypes : p(x).retryable =>
                              attempts[t][x] = 0 \/ attempts[t][x] < p(x).max_attempts
  BY <1>1, <1>2 DEF BookInv, AttemptsWithinPolicy
<1>4. ASSUME NEW u \in Tasks, NEW x \in ErrorTypes, u # t \/ x # e \/ ~CountsAttempt(e, force)
      PROVE  attempts'[u][x] = attempts[u][x]
  BY <1>1, <1>4 DEF CountAttempt
<1>5. CASE CountsAttempt(e, force)
  <2>1. p(e).retryable
    BY <1>5 DEF CountsAttempt
  <2>2. attempts'[t][e] = attempts[t][e] + 1
    BY <1>1, <1>5 DEF CountAttempt
  <2>3. attempts'[t][e] <= most(e) /\ (attempts'[t][e] < p(e).max_attempts \/ status'[t] = "FAILED")
    BY <1>1, <1>3, <2>1, <2>2 DEF WillRetry
  <2>4. \A u \in Tasks, x \in ErrorTypes :
          /\ attempts'[u][x] <= most(x)
          /\ p(x).retryable /\ attempts'[u][x] >= p(x).max_attempts /\ attempts'[u][x] > 0
               => status'[u] = "FAILED"
    <3> SUFFICES ASSUME NEW u \in Tasks, NEW x \in ErrorTypes
                 PROVE  /\ attempts'[u][x] <= most(x)
                        /\ p(x).retryable /\ attempts'[u][x] >= p(x).max_attempts
                             /\ attempts'[u][x] > 0 => status'[u] = "FAILED"
      OBVIOUS
    <3>1. CASE u = t /\ x = e
      BY <1>1, <2>2, <2>3, <3>1
    <3>2. CASE ~(u = t /\ x = e)
      <4>1. attempts'[u][x] = attempts[u][x]
        BY <1>4, <3>2
      <4>2. /\ attempts[u][x] <= most(x)
            /\ p(x).retryable /\ attempts[u][x] >= p(x).max_attempts /\ attempts[u][x] > 0
                 => status[u] = "FAILED"
        BY DEF BookInv, AttemptsWithinPolicy
      <4> QED
        BY <4>1, <4>2 DEF Kept, Outcomes
    <3> QED
      BY <3>1, <3>2
  <2> QED
    BY <2>4 DEF AttemptsWithinPolicy
<1>6. CASE ~CountsAttempt(e, force)
  BY <1>6, AttemptsStand DEF CountAttempt
<1> QED
  BY <1>5, <1>6

-----------------------------------------------------------------------------
(***************************************************************************)
(* The invariant holds initially and every step keeps it.                  *)
(***************************************************************************)

LEMMA InitBook == Init => BookInv
<1> SUFFICES ASSUME Init PROVE BookInv
  OBVIOUS
<1> USE DEF Init, InitRest
<1>1. \A t \in Tasks : status[t] \notin Outcomes
  BY DEF Outcomes
<1>2. \A i \in Interviews : \A O \in SUBSET Outcomes : WithOutcome(i, O) = {}
  BY <1>1 DEF WithOutcome, TasksOf
<1>3. \A i \in Interviews : ~Finished(i)
  BY <1>1, TasksOfFinite DEF Finished
<1>4. TalliesExact
  <2>1. \A i \in Interviews, o \in Outcomes : Cardinality(WithOutcome(i, {o})) = 0
    BY <1>2, FS_EmptySet
  <2>2. {t \in Tasks : status[t] = "COMPLETED"} = {}
    BY <1>1 DEF Outcomes
  <2> QED
    BY <2>1, <2>2 DEF TalliesExact
<1>5. FinalizedExactly
  <2>1. \A s : s # "RUNNING" => Cardinality({i \in Interviews : interview[i] = s}) = 0
    BY FS_EmptySet
  <2>2. counted = {i \in Interviews : Finished(i)} /\ counted # Interviews
    BY <1>3, NonEmptyJob
  <2>3. jobTally.completed = 0 /\ jobTally.failed = 0 /\ job = "RUNNING"
    OBVIOUS
  <2>4. \A i \in Interviews : interview[i] = "RUNNING"
    OBVIOUS
  <2> QED
    BY <1>3, <2>1, <2>2, <2>3, <2>4 DEF FinalizedExactly
<1>6. NotifiedOnce /\ AttemptsWithinPolicy
  BY <1>3, PolicyTypes DEF NotifiedOnce, AttemptsWithinPolicy
<1> QED
  BY <1>4, <1>5, <1>6 DEF BookInv

LEMMA ClaimBooks ==
  ASSUME IInv, BookInv, Kept, NEW t \in Tasks, Claim(t)
  PROVE  BookInv'
<1>1. UNCHANGED <<attempts, answers, jobVars>>
  BY DEF Claim, PopReady, AddToReady, StartRendering, EnqueueTask, StartRunning, SetStatus
<1>2. \A x \in Tasks : \/ status'[x] = status[x]
                       \/ status[x] \notin Outcomes /\ status'[x] \notin Outcomes
  BY DEF Claim, PopReady, AddToReady, StartRendering, EnqueueTask, StartRunning, SetStatus,
         IInv, TypeOK, RestTypeOK, Outcomes
<1>3. \A i \in Interviews : Untouched(i)
  BY <1>2 DEF Untouched, TasksOf
<1>4. /\ \A j \in Interviews, p \in Outcomes : tally'[j][p] = Cardinality(Having(status', j, p))
      /\ FinalizedExactly' /\ NotifiedOnce'
  BY <1>1, <1>3, BooksStand DEF jobVars, IInv
<1>5. answers' = {x \in Tasks : status'[x] = "COMPLETED"}
  BY <1>1, <1>2 DEF BookInv, TalliesExact, Outcomes
<1> QED
  BY <1>1, <1>4, <1>5, TalliesNext, AttemptsStand DEF BookInv

\* One task was completed or skipped, or several were completed.
LEMMA SettleBooks ==
  ASSUME IInv, TypeOK', BookInv, Kept,
         \/ \E t \in Tasks : OnTaskCompleted(t) \/ OnTaskSkipped(t)
         \/ \E S \in SUBSET Tasks : OnTasksCompletedBatch(S)
  PROVE  BookInv'
<1>1. attempts' = attempts
  BY DEF OnTaskCompleted, OnTaskSkipped, OnTasksCompletedBatch
<1>2. ASSUME NEW S \in SUBSET Tasks, \A x \in S : InHand(x), NEW o \in Satisfied,
             MarkSatisfied(S, o), answers' = IF o = "COMPLETED" THEN answers \cup S ELSE answers
      PROVE  answers' = {x \in Tasks : status'[x] = "COMPLETED"}
  <2>1. \A x \in Tasks : /\ x \in S => status'[x] = o /\ status[x] \notin Outcomes
                         /\ x \notin S => \/ status'[x] = status[x]
                                          \/ status[x] = "PENDING" /\ status'[x] = "READY"
    BY <1>2, SettledStatuses
  <2>2. answers = {x \in Tasks : status[x] = "COMPLETED"}
    BY DEF BookInv, TalliesExact
  <2>3. \A x \in Tasks : status'[x] = "COMPLETED" <=>
                           \/ status[x] = "COMPLETED"
                           \/ x \in S /\ o = "COMPLETED"
    BY <2>1 DEF Outcomes
  <2> QED
    BY <1>2, <2>2, <2>3
<1>3. ASSUME NEW t \in Tasks, OnTaskCompleted(t)
      PROVE  BookInv'
  <2>1. InHand(t) /\ MarkSatisfied({t}, "COMPLETED") /\ "COMPLETED" \in Satisfied
    BY <1>3 DEF OnTaskCompleted, Satisfied
  <2>2. /\ \A j \in Interviews, p \in Outcomes : tally'[j][p] = Cardinality(Having(status', j, p))
        /\ FinalizedExactly' /\ NotifiedOnce'
    BY <1>3, <2>1, SettledBooks DEF OnTaskCompleted
  <2>3. answers' = {x \in Tasks : status'[x] = "COMPLETED"}
    BY <1>2, <1>3, <2>1 DEF OnTaskCompleted
  <2> QED
    BY <1>1, <2>2, <2>3, TalliesNext, AttemptsStand DEF BookInv
<1>4. ASSUME NEW t \in Tasks, OnTaskSkipped(t)
      PROVE  BookInv'
  <2>1. InHand(t) /\ MarkSatisfied({t}, "SKIPPED") /\ "SKIPPED" \in Satisfied
    BY <1>4 DEF OnTaskSkipped, Satisfied
  <2>2. /\ \A j \in Interviews, p \in Outcomes : tally'[j][p] = Cardinality(Having(status', j, p))
        /\ FinalizedExactly' /\ NotifiedOnce'
    BY <1>4, <2>1, SettledBooks DEF OnTaskSkipped
  <2>3. answers' = {x \in Tasks : status'[x] = "COMPLETED"}
    BY <1>2, <1>4, <2>1 DEF OnTaskSkipped
  <2> QED
    BY <1>1, <2>2, <2>3, TalliesNext, AttemptsStand DEF BookInv
<1>5. ASSUME NEW S \in SUBSET Tasks, OnTasksCompletedBatch(S)
      PROVE  BookInv'
  <2>1. (\A x \in S : InHand(x)) /\ MarkSatisfied(S, "COMPLETED") /\ "COMPLETED" \in Satisfied
    BY <1>5 DEF OnTasksCompletedBatch, Satisfied
  <2>2. /\ \A j \in Interviews, p \in Outcomes : tally'[j][p] = Cardinality(Having(status', j, p))
        /\ FinalizedExactly' /\ NotifiedOnce'
    BY <1>5, BatchBooks
  <2>3. answers' = {x \in Tasks : status'[x] = "COMPLETED"}
    BY <1>2, <1>5, <2>1 DEF OnTasksCompletedBatch
  <2> QED
    BY <1>1, <2>2, <2>3, TalliesNext, AttemptsStand DEF BookInv
<1> QED
  BY <1>3, <1>4, <1>5

LEMMA RetryBooks ==
  ASSUME IInv, BookInv, Kept, NEW t \in Tasks, NEW e \in ErrorTypes, OnTaskFailedRetry(t, e)
  PROVE  BookInv'
<1>1. InHand(t) /\ UNCHANGED <<answers, jobVars>>
  BY DEF OnTaskFailedRetry, RetryTask, MayFail
<1>2. status[t] \notin Outcomes
  BY <1>1, InHandIsReady DEF Live, Claimed, Outcomes
<1>3. \A x \in Tasks : \/ status'[x] = status[x]
                       \/ status[x] \notin Outcomes /\ status'[x] \notin Outcomes
  BY <1>2 DEF OnTaskFailedRetry, RetryTask, IInv, TypeOK, RestTypeOK, Outcomes
<1>4. \A i \in Interviews : Untouched(i)
  BY <1>3 DEF Untouched, TasksOf
<1>5. /\ \A j \in Interviews, p \in Outcomes : tally'[j][p] = Cardinality(Having(status', j, p))
      /\ FinalizedExactly' /\ NotifiedOnce'
  BY <1>1, <1>4, BooksStand DEF jobVars, IInv
<1>6. answers' = {x \in Tasks : status'[x] = "COMPLETED"}
  BY <1>1, <1>3 DEF BookInv, TalliesExact, Outcomes
<1>7. AttemptsWithinPolicy'
  BY <1>1, AttemptCounted DEF OnTaskFailedRetry, RetryTask
<1> QED
  BY <1>5, <1>6, <1>7, TalliesNext DEF BookInv

LEMMA ForGoodBooks ==
  ASSUME IInv, TypeOK', BookInv, Kept, NEW t \in Tasks, NEW e \in ErrorTypes,
         NEW force \in BOOLEAN, OnTaskFailedForGood(t, e, force)
  PROVE  BookInv'
<1>1. InHand(t) /\ answers' = answers
  BY DEF OnTaskFailedForGood, FailTask, MayFail
<1>2. status[t] \in Live /\ \A x \in NewlyBlocked(t) : status[x] = "PENDING"
  BY <1>1, InHandIsReady, DownstreamHere
<1>3. \A x \in Tasks : status'[x] = IF x = t THEN "FAILED"
                                    ELSE IF x \in NewlyBlocked(t) THEN "BLOCKED" ELSE status[x]
  BY DEF OnTaskFailedForGood, FailTask
<1>4. answers' = {x \in Tasks : status'[x] = "COMPLETED"}
  BY <1>1, <1>2, <1>3 DEF BookInv, TalliesExact, Live, Claimed
<1>5. AttemptsWithinPolicy'
  BY <1>1, <1>3, AttemptCounted DEF OnTaskFailedForGood, FailTask
<1> QED
  BY <1>4, <1>5, FailedBooks, TalliesNext DEF BookInv

LEMMA CancelBooks ==
  ASSUME IInv, BookInv, Kept, Cancel
  PROVE  BookInv'
<1>1. /\ UNCHANGED <<status, attempts, answers, tally, interview, counted, jobTally, notified>>
      /\ job' = "CANCELLED"
  BY DEF Cancel, taskVars
<1>2. \A i \in Interviews : Untouched(i)
  BY <1>1 DEF Untouched
<1>3. /\ \A j \in Interviews, p \in Outcomes : tally'[j][p] = Cardinality(Having(status', j, p))
      /\ FinalizedExactly' /\ NotifiedOnce'
  BY <1>1, <1>2, BooksStand DEF IInv
<1>4. answers' = {x \in Tasks : status'[x] = "COMPLETED"}
  BY <1>1 DEF BookInv, TalliesExact
<1> QED
  BY <1>1, <1>3, <1>4, TalliesNext, AttemptsStand DEF BookInv

LEMMA NextBook == IInv /\ IInv' /\ BookInv /\ [Next]_vars => BookInv'
<1> SUFFICES ASSUME IInv, IInv', BookInv, [Next]_vars PROVE BookInv'
  OBVIOUS
<1>1. CASE UNCHANGED vars
  BY <1>1 DEF vars, taskVars, jobVars, BookInv, TalliesExact, FinalizedExactly, NotifiedOnce,
              AttemptsWithinPolicy, Finished, WithOutcome, TasksOf
<1>2. CASE Next
  <2>1. Kept /\ TypeOK'
    BY <1>2, StepKeeps DEF IInv
  <2>2. ASSUME NEW t \in Tasks, Claim(t) PROVE BookInv'
    BY <2>1, <2>2, ClaimBooks
  <2>3. CASE \/ \E t \in Tasks : OnTaskCompleted(t) \/ OnTaskSkipped(t)
             \/ \E S \in SUBSET Tasks : OnTasksCompletedBatch(S)
    BY <2>1, <2>3, SettleBooks
  <2>4. ASSUME NEW t \in Tasks, NEW e \in ErrorTypes, OnTaskFailedRetry(t, e) PROVE BookInv'
    BY <2>1, <2>4, RetryBooks
  <2>5. ASSUME NEW t \in Tasks, NEW e \in ErrorTypes, NEW force \in BOOLEAN,
               OnTaskFailedForGood(t, e, force)
        PROVE  BookInv'
    BY <2>1, <2>5, ForGoodBooks
  <2>6. CASE Cancel
    BY <2>1, <2>6, CancelBooks
  <2> QED
    BY <1>2, <2>2, <2>3, <2>4, <2>5, <2>6 DEF Next
<1> QED
  BY <1>1, <1>2

-----------------------------------------------------------------------------
(***************************************************************************)
(* Theorems.                                                               *)
(***************************************************************************)

THEOREM BooksInvariant == Spec => []BookInv
BY InitBook, NextBook, Invariant, PTL DEF Spec

\* The counters an interview is finalized by count every task once, under the outcome
\* it has, and the answers are those of the completed tasks.
THEOREM TalliesCorrect == Spec => []TalliesExact
BY BooksInvariant, PTL DEF BookInv

\* Interviews and the job become final with the last outcome, never before and never
\* later, and their final states say whether a task failed or was blocked.
THEOREM FinalizedCorrect == Spec => []FinalizedExactly
BY BooksInvariant, PTL DEF BookInv

\* The interview callback is called once per interview, after its last task.
THEOREM NotifiedCorrect == Spec => []NotifiedOnce
BY BooksInvariant, PTL DEF BookInv

\* No retry policy is exceeded, and a task whose attempts are used up has failed.
THEOREM AttemptsCorrect == Spec => []AttemptsWithinPolicy
BY BooksInvariant, PTL DEF BookInv

-----------------------------------------------------------------------------
(***************************************************************************)
(* JobService implements JobOutcomes.                                      *)
(***************************************************************************)

Moved(S, o) ==
  \A x \in Tasks : /\ x \in S => status'[x] = o /\ status[x] \notin Outcomes
                   /\ x \notin S => \/ status'[x] = status[x]
                                    \/ status[x] \notin Outcomes /\ status'[x] \notin Outcomes

\* The job's state follows its counters in the steps that finish an interview.
JobMoves == IF counted' = counted THEN job' = job ELSE job' = JobState(jobTally')

\* What the counters of the job say of its interviews and tasks.
CountersMean ==
  /\ jobTally.completed + jobTally.failed < Cardinality(Interviews) <=> counted # Interviews
  /\ counted = Interviews =>
       (jobTally.failed = 0 <=> ~\E t \in Tasks : status[t] \in {"FAILED", "BLOCKED"})

LEMMA CountedTogether == BookInv => CountersMean
<1> SUFFICES ASSUME BookInv PROVE CountersMean
  OBVIOUS
<1> DEFINE C == {i \in Interviews : interview[i] = "COMPLETED"}
           F == {i \in Interviews : interview[i] = "COMPLETED_WITH_FAILURES"}
<1>1. jobTally.completed = Cardinality(C) /\ jobTally.failed = Cardinality(F)
  BY DEF BookInv, FinalizedExactly
<1>2. counted = C \cup F /\ C \cap F = {}
  BY BookStates DEF Final
<1>3. /\ \A S \in SUBSET Interviews : IsFiniteSet(S) /\ Cardinality(S) \in Nat
      /\ C \in SUBSET Interviews /\ F \in SUBSET Interviews /\ counted \in SUBSET Interviews
  BY <1>2, FiniteJob, FS_Subset, FS_CardinalityType
<1>4. counted = Interviews =>
        (F = {} <=> ~\E t \in Tasks : status[t] \in {"FAILED", "BLOCKED"})
  <2> SUFFICES ASSUME counted = Interviews
               PROVE  F = {} <=> ~\E t \in Tasks : status[t] \in {"FAILED", "BLOCKED"}
    OBVIOUS
  <2>1. \A i \in Interviews : Finished(i)
    BY DEF BookInv, FinalizedExactly
  <2>2. \A i \in Interviews :
          i \in F <=> \E t \in TasksOf(i) : status[t] \in {"FAILED", "BLOCKED"}
    BY <2>1 DEF BookInv, FinalizedExactly, WithOutcome
  <2>3. \A t \in Tasks : InterviewOf[t] \in Interviews /\ t \in TasksOf(InterviewOf[t])
    BY DepsWithinInterview DEF TasksOf
  <2>4. \A i : TasksOf(i) \subseteq Tasks
    BY DEF TasksOf
  <2> HIDE DEF F
  <2> QED
    BY <1>3, <2>2, <2>3, <2>4
<1> HIDE DEF C, F
<1>5. Cardinality(counted) = Cardinality(C) + Cardinality(F)
  <2>1. Cardinality(C \cup F) = Cardinality(C) + Cardinality(F) - Cardinality(C \cap F)
    BY <1>3, FS_Union
  <2>2. Cardinality(C \cap F) = 0
    BY <1>2, FS_EmptySet
  <2> QED
    BY <1>2, <1>3, <2>1, <2>2
<1>6. /\ Cardinality(counted) <= Cardinality(Interviews)
      /\ Cardinality(counted) = Cardinality(Interviews) => counted = Interviews
      /\ Cardinality(Interviews) \in Nat
  BY <1>3, FiniteJob, FS_Subset, FS_CardinalityType
<1>7. Cardinality(F) = 0 <=> F = {}
  BY <1>3, FS_EmptySet
<1> QED
  BY <1>1, <1>3, <1>4, <1>5, <1>6, <1>7 DEF CountersMean

\* Finishing one interview, or several, that are not counted yet.
LEMMA OneMoves ==
  ASSUME NEW i, i \notin counted, NEW h, MarkInterviewCompleted(i, h)
  PROVE  JobMoves
BY DEF MarkInterviewCompleted, JobMoves

LEMMA BatchMoves ==
  ASSUME NEW done, done \cap counted = {}, MarkInterviewsCompletedBatch(done)
  PROVE  JobMoves
<1>1. CASE done = {}
  BY <1>1 DEF MarkInterviewsCompletedBatch, JobMoves
<1>2. CASE done # {}
  <2>1. counted' = counted \cup done /\ job' = JobState(jobTally')
    BY <1>2 DEF MarkInterviewsCompletedBatch
  <2> QED
    BY <1>2, <2>1 DEF JobMoves
<1> QED
  BY <1>1, <1>2

\* Interviews are reported and the job is judged as promised.
LEMMA ReportAndJudge ==
  ASSUME IInv, IInv', BookInv, BookInv', Kept, JobMoves
  PROVE  Promise!Report /\ Promise!Judge
<1> DEFINE out == [t \in Tasks |-> IF status[t] \in Outcomes THEN status[t] ELSE "NONE"]
<1>1. \A i : TasksOf(i) = Promise!TasksOf(i) /\ TasksOf(i) \subseteq Tasks
  BY DEF TasksOf, Promise!TasksOf
<1>2. "NONE" \notin Outcomes
  BY DEF Outcomes
<1>3. \A i : /\ Promise!Finished(i, out) <=> Finished(i)
             /\ Promise!Finished(i, out') <=> Finished(i)'
  <2>1. \A i : Finished(i)' <=> \A t \in TasksOf(i) : status'[t] \in Outcomes
    BY DEF Finished, TasksOf
  <2> QED
    BY <1>1, <1>2, <2>1 DEF Finished, Promise!Finished
<1>4. \A i : Finished(i) => Finished(i)'
  BY <1>1 DEF Finished, Kept, TasksOf
<1>5. Promise!Report
  <2>1. notified' \in [Interviews -> Nat]
    BY DEF IInv, TypeOK, RestTypeOK
  <2>2. \A i \in Interviews : /\ notified[i] = IF Finished(i) THEN 1 ELSE 0
                              /\ notified'[i] = IF Finished(i)' THEN 1 ELSE 0
    BY DEF BookInv, NotifiedOnce
  <2>3. \A i \in Interviews : notified'[i] = IF Finished(i)' /\ ~Finished(i)
                                             THEN notified[i] + 1 ELSE notified[i]
    BY <1>4, <2>2
  <2>4. notified' = [i \in Interviews |-> IF Finished(i)' /\ ~Finished(i)
                                          THEN notified[i] + 1 ELSE notified[i]]
    BY <2>1, <2>3
  <2> QED
    BY <1>3, <2>4 DEF Promise!Report
<1>6. Promise!Judge
  <2>1. /\ counted = {i \in Interviews : Finished(i)}
        /\ counted' = {i \in Interviews : Finished(i)'}
    BY DEF BookInv, FinalizedExactly
  <2>2. /\ jobTally'.completed + jobTally'.failed < Cardinality(Interviews)
             <=> counted' # Interviews
        /\ counted' = Interviews =>
             (jobTally'.failed = 0 <=> ~\E t \in Tasks : status'[t] \in {"FAILED", "BLOCKED"})
    <3>1. CountersMean'
      BY CountedTogether, PTL
    <3> QED
      BY <3>1 DEF CountersMean
  <2>3. (\E t \in Tasks : out'[t] \in Promise!Failures)
          <=> \E t \in Tasks : status'[t] \in {"FAILED", "BLOCKED"}
    BY DEF Promise!Failures, Outcomes
  <2>4. (\A i \in Interviews : Finished(i)') <=> counted' = Interviews
    BY <2>1
  <2>5. (\E i \in Interviews : ~Finished(i)) <=> counted # Interviews
    BY <2>1
  <2>6. job' = IF counted' = Interviews /\ counted # Interviews
               THEN IF \E t \in Tasks : status'[t] \in {"FAILED", "BLOCKED"}
                    THEN "COMPLETED_WITH_FAILURES" ELSE "COMPLETED"
               ELSE job
    <3>1. CASE counted' = counted
      BY <3>1 DEF JobMoves
    <3>2. CASE counted' # counted
      <4>1. job' = JobState(jobTally')
        BY <3>2 DEF JobMoves
      <4>2. counted # Interviews
        BY <1>4, <2>1, <3>2
      <4> QED
        BY <2>2, <4>1, <4>2 DEF JobState
    <3> QED
      BY <3>1, <3>2
  <2> QED
    BY <1>3, <2>3, <2>4, <2>5, <2>6 DEF Promise!Judge
<1> QED
  BY <1>5, <1>6

\* A task in hand may be started: it is open, and what it depends on is settled.
LEMMA InHandStartable ==
  ASSUME IInv, NEW t \in Tasks, InHand(t)
  PROVE  t \in Promise!Startable
<1>1. status[t] \notin Outcomes /\ \A d \in Deps[t] : d \in Tasks /\ status[d] \in Satisfied
  BY InHandIsReady, DepsFinite DEF Live, Claimed, Outcomes, Unmet
<1>2. Promise!Open(t)
  BY <1>1 DEF Promise!Open
<1> QED
  BY <1>1, <1>2 DEF Promise!Startable, Promise!Satisfied, Satisfied, Outcomes

LEMMA SettleImplements ==
  ASSUME IInv, IInv', BookInv, BookInv', Kept, JobMoves, NEW S \in SUBSET Tasks, S # {},
         \A x \in S : InHand(x), NEW o \in Satisfied, Moved(S, o)
  PROVE  Promise!Next
<1>1. S \in SUBSET Promise!Startable
  BY InHandStartable
<1>2. o \in Outcomes /\ o \in Promise!Satisfied
  BY DEF Satisfied, Outcomes, Promise!Satisfied
<1>3. [t \in Tasks |-> IF status[t] \in Outcomes THEN status[t] ELSE "NONE"]'
        = [t \in Tasks |-> IF t \in S THEN o
                           ELSE [x \in Tasks |-> IF status[x] \in Outcomes THEN status[x]
                                                 ELSE "NONE"][t]]
  BY <1>2 DEF Moved
<1>4. Promise!Settle(S, o)
  BY <1>3, ReportAndJudge DEF Promise!Settle
<1> QED
  BY <1>1, <1>2, <1>4 DEF Promise!Next

LEMMA FailImplements ==
  ASSUME IInv, IInv', BookInv, BookInv', Kept, JobMoves, NEW t \in Tasks, InHand(t),
         status' = [x \in Tasks |-> IF x = t THEN "FAILED"
                                    ELSE IF x \in NewlyBlocked(t) THEN "BLOCKED" ELSE status[x]]
  PROVE  Promise!Next
<1> DEFINE B == NewlyBlocked(t)
<1>1. /\ B \subseteq Tasks /\ B \subseteq Downstream[t]
      /\ \A x \in B : x # t /\ status[x] = "PENDING"
  BY DownstreamHere DEF NewlyBlocked, TasksOf
<1>2. \A x \in Tasks : Promise!Open(x) <=> status[x] \notin Outcomes
  BY DEF Promise!Open, Outcomes
<1>3. B \in SUBSET {x \in Tasks : Promise!Open(x)}
  BY <1>1, <1>2 DEF Outcomes
<1>4. ASSUME NEW x \in Tasks
      PROVE  x \in B <=> Promise!Open(x) /\ \E d \in Deps[x] : d = t \/ d \in B
  <2>1. ASSUME x \in B
        PROVE  \E d \in Deps[x] : d = t \/ d \in B
    <3>1. PICK d \in Deps[x] : d = t \/ d \in Downstream[t]
      BY <1>1, <2>1, DownstreamReached
    <3>2. status[d] \notin Broken
      BY <1>1, <2>1 DEF IInv, DepInv, BlockedByDep
    <3>3. status[t] \in Live
      BY InHandIsReady
    <3>4. d \in Downstream[t] => status[d] \in Waiting
      BY <3>3, DownstreamWaits DEF Live, Claimed, Satisfied
    <3>5. d \in Downstream[t] => d \in B
      BY <3>2, <3>4 DEF NewlyBlocked, Waiting, Broken, Outcomes
    <3> QED
      BY <3>1, <3>5
  <2>2. ASSUME NEW d \in Deps[x], d = t \/ d \in B, status[x] \notin Outcomes
        PROVE  x \in B
    <3>1. x \in Downstream[t]
      BY <1>1, <2>2, DownstreamClosed
    <3> QED
      BY <2>2, <3>1 DEF NewlyBlocked
  <2>3. x \in B => status[x] \notin Outcomes
    BY DEF NewlyBlocked
  <2> QED
    BY <1>2, <2>1, <2>2, <2>3
<1>5. [x \in Tasks |-> IF status[x] \in Outcomes THEN status[x] ELSE "NONE"]'
        = [x \in Tasks |-> IF x = t THEN "FAILED"
                           ELSE IF x \in B THEN "BLOCKED"
                           ELSE [y \in Tasks |-> IF status[y] \in Outcomes THEN status[y]
                                                 ELSE "NONE"][x]]
  BY DEF Outcomes
<1>6. Promise!Report /\ Promise!Judge
  BY ReportAndJudge
<1> HIDE DEF B
<1>7. Promise!Fail(t)
  BY <1>3, <1>4, <1>5, <1>6 DEF Promise!Fail
<1>8. t \in Promise!Startable
  BY InHandStartable
<1> QED
  BY <1>7, <1>8 DEF Promise!Next

\* Passing tasks on and repeating an attempt change nothing a user is promised.
LEMMA PassedOnStutters ==
  ASSUME \A x \in Tasks : \/ status'[x] = status[x]
                          \/ status[x] \notin Outcomes /\ status'[x] \notin Outcomes,
         UNCHANGED jobVars
  PROVE  UNCHANGED Promise!vars
<1>1. [t \in Tasks |-> IF status[t] \in Outcomes THEN status[t] ELSE "NONE"]'
        = [t \in Tasks |-> IF status[t] \in Outcomes THEN status[t] ELSE "NONE"]
  OBVIOUS
<1> QED
  BY <1>1 DEF Promise!vars, jobVars

LEMMA SettleMoves ==
  ASSUME IInv, NEW S \in SUBSET Tasks, \A x \in S : InHand(x), NEW o \in Satisfied,
         MarkSatisfied(S, o)
  PROVE  Moved(S, o)
<1>1. "PENDING" \notin Outcomes /\ "READY" \notin Outcomes
  BY DEF Outcomes
<1>2. \A x \in Tasks : /\ x \in S => status'[x] = o /\ status[x] \notin Outcomes
                       /\ x \notin S => \/ status'[x] = status[x]
                                        \/ status[x] = "PENDING" /\ status'[x] = "READY"
  BY SettledStatuses
<1> QED
  BY <1>1, <1>2 DEF Moved

LEMMA StepImplements ==
  ASSUME IInv, IInv', BookInv, BookInv', Next
  PROVE  Promise!Next \/ UNCHANGED Promise!vars
<1>1. Kept
  BY StepKeeps
<1>2. ASSUME NEW t \in Tasks, Claim(t)
      PROVE  UNCHANGED Promise!vars
  <2>1. \A x \in Tasks : \/ status'[x] = status[x]
                         \/ status[x] \notin Outcomes /\ status'[x] \notin Outcomes
    BY <1>2 DEF Claim, PopReady, AddToReady, StartRendering, EnqueueTask, StartRunning,
                SetStatus, IInv, TypeOK, RestTypeOK, Outcomes
  <2>2. UNCHANGED jobVars
    BY <1>2 DEF Claim, PopReady, AddToReady, StartRendering, EnqueueTask, StartRunning, SetStatus
  <2> QED
    BY <2>1, <2>2, PassedOnStutters
<1>3. ASSUME NEW t \in Tasks, NEW e \in ErrorTypes, OnTaskFailedRetry(t, e)
      PROVE  UNCHANGED Promise!vars
  <2>1. status[t] \notin Outcomes
    BY <1>3, InHandIsReady DEF OnTaskFailedRetry, RetryTask, MayFail, Live, Claimed, Outcomes
  <2>2. \A x \in Tasks : \/ status'[x] = status[x]
                         \/ status[x] \notin Outcomes /\ status'[x] \notin Outcomes
    BY <1>3, <2>1 DEF OnTaskFailedRetry, RetryTask, IInv, TypeOK, RestTypeOK, Outcomes
  <2> QED
    BY <1>3, <2>2, PassedOnStutters DEF OnTaskFailedRetry, RetryTask
<1>4. ASSUME NEW t \in Tasks, NEW o \in Satisfied, InHand(t), MarkSatisfied({t}, o),
             NEW h, MarkInterviewCompleted(InterviewOf[t], h)
      PROVE  Promise!Next
  <2>1. Moved({t}, o)
    BY <1>4, SettleMoves
  <2>2. JobMoves
    BY <1>4, HandOpensInterview, OneMoves
  <2>3. {t} \in SUBSET Tasks /\ {t} # {} /\ \A x \in {t} : InHand(x)
    BY <1>4
  <2> QED
    BY <1>1, <2>1, <2>2, <2>3, SettleImplements
<1>5. ASSUME NEW t \in Tasks, OnTaskCompleted(t) \/ OnTaskSkipped(t)
      PROVE  Promise!Next
  <2>1. CASE OnTaskCompleted(t)
    <3>1. /\ InHand(t) /\ MarkSatisfied({t}, "COMPLETED") /\ "COMPLETED" \in Satisfied
          /\ MarkInterviewCompleted(InterviewOf[t],
                                    interview'[InterviewOf[t]] = "COMPLETED_WITH_FAILURES")
      BY <2>1 DEF OnTaskCompleted, Satisfied
    <3> QED
      BY <1>4, <3>1
  <2>2. CASE OnTaskSkipped(t)
    <3>1. /\ InHand(t) /\ MarkSatisfied({t}, "SKIPPED") /\ "SKIPPED" \in Satisfied
          /\ MarkInterviewCompleted(InterviewOf[t],
                                    interview'[InterviewOf[t]] = "COMPLETED_WITH_FAILURES")
      BY <2>2 DEF OnTaskSkipped, Satisfied
    <3> QED
      BY <1>4, <3>1
  <2> QED
    BY <1>5, <2>1, <2>2
<1>6. ASSUME NEW S \in SUBSET Tasks, OnTasksCompletedBatch(S)
      PROVE  Promise!Next
  <2> DEFINE done == {i \in {j \in Interviews : TasksOf(j) \cap S # {}} :
                        interview'[i] # "RUNNING"}
  <2>1. /\ S # {} /\ \A x \in S : InHand(x)
        /\ MarkSatisfied(S, "COMPLETED") /\ "COMPLETED" \in Satisfied
        /\ MarkInterviewsCompletedBatch(done)
    BY <1>6 DEF OnTasksCompletedBatch, Satisfied
  <2>2. ASSUME NEW i \in done
        PROVE  i \notin counted
    <3>1. PICK t \in TasksOf(i) \cap S : TRUE
      BY <2>2
    <3>2. t \in Tasks /\ InterviewOf[t] = i
      BY <3>1 DEF TasksOf
    <3> QED
      BY <2>1, <3>1, <3>2, HandOpensInterview
  <2>3. done \cap counted = {}
    BY <2>2
  <2> HIDE DEF done
  <2>4. JobMoves
    BY <2>1, <2>3, BatchMoves
  <2>5. Moved(S, "COMPLETED")
    BY <2>1, SettleMoves
  <2> QED
    BY <1>1, <2>1, <2>4, <2>5, SettleImplements
<1>7. ASSUME NEW t \in Tasks, NEW e \in ErrorTypes, NEW force \in BOOLEAN,
             OnTaskFailedForGood(t, e, force)
      PROVE  Promise!Next
  <2>1. InHand(t) /\ MarkInterviewCompleted(InterviewOf[t], TRUE)
    BY <1>7 DEF OnTaskFailedForGood, FailTask, MayFail
  <2>2. JobMoves
    BY <2>1, HandOpensInterview, OneMoves
  <2> QED
    BY <1>1, <1>7, <2>1, <2>2, FailImplements DEF OnTaskFailedForGood, FailTask
<1>8. CASE Cancel
  BY <1>8 DEF Cancel, taskVars, Promise!Next, Promise!Cancel
<1> QED
  BY <1>2, <1>3, <1>5, <1>6, <1>7, <1>8 DEF Next

\* The handlers with all their bookkeeping do what JobOutcomes promises: whatever the
\* order in which callers complete, skip, fail, retry and cancel, for every finite job.
THEOREM Implements == Spec => PromiseKept
<1>1. Init => Promise!Init
  BY DEF Init, InitRest, Promise!Init, Outcomes
<1>2. IInv /\ IInv' /\ BookInv /\ BookInv' /\ [Next]_vars => [Promise!Next]_(Promise!vars)
  <2> SUFFICES ASSUME IInv, IInv', BookInv, BookInv', [Next]_vars
               PROVE  Promise!Next \/ UNCHANGED Promise!vars
    OBVIOUS
  <2>1. CASE Next
    BY <2>1, StepImplements
  <2>2. CASE UNCHANGED vars
    BY <2>2, PassedOnStutters DEF vars, taskVars
  <2> QED
    BY <2>1, <2>2
<1> QED
  BY <1>1, <1>2, Invariant, BooksInvariant, PTL DEF Spec, PromiseKept, Promise!Spec

-----------------------------------------------------------------------------
(***************************************************************************)
(* Handlers called out of turn.  on_task_failed does not look at the       *)
(* status of its task, and Runner calls it for a task it has completed     *)
(* when the write of the stream fails.  The books are wrong from then on,  *)
(* and the interview callback shows it: an interview is reported a second  *)
(* time, or is open again after its report.                                *)
(***************************************************************************)

\* The handlers, and the ones that fail a task whatever its status.
Called ==
  \/ \E t \in Tasks : Claim(t) \/ OnTaskCompleted(t) \/ OnTaskSkipped(t)
  \/ \E t \in Tasks, e \in ErrorTypes :
        RetryTask(t, e) \/ \E force \in BOOLEAN : FailTask(t, e, force)
  \/ Cancel \/ UNCHANGED vars

Recounted == \E i \in Interviews : notified[i] > 1 \/ (notified[i] = 1 /\ ~Finished(i))

\* What is left of the invariant: types, and a reported interview is not RUNNING again.
Loose ==
  /\ RestTypeOK
  /\ unmetDeps \in [Tasks -> Int]
  /\ \A i \in Interviews : notified[i] > 0 => interview[i] # "RUNNING"

\* A handler that gave a task its outcome: statuses of its interview only, and its counters.
Handled(t) ==
  /\ \A x \in Tasks : InterviewOf[x] # InterviewOf[t] => status'[x] = status[x]
  /\ tally' \in [Interviews -> [Outcomes -> Nat]]
  /\ interview' = [interview EXCEPT
                     ![InterviewOf[t]] = InterviewState(InterviewOf[t], tally'[InterviewOf[t]])]
  /\ \E h \in BOOLEAN : MarkInterviewCompleted(InterviewOf[t], h)

LEMMA HandledReports ==
  ASSUME Loose, NEW t \in Tasks, Handled(t)
  PROVE  /\ interview' \in [Interviews -> InterviewStates]
         /\ \A j \in Interviews : notified'[j] > 0 => interview'[j] # "RUNNING"
         /\ \A j \in Interviews : notified'[j] >= notified[j]
         /\ notified[InterviewOf[t]] > 0 => notified'[InterviewOf[t]] > 1
         /\ \A j \in Interviews \ {InterviewOf[t]} : notified'[j] = notified[j]
<1> DEFINE i == InterviewOf[t]
<1>1. i \in Interviews
  BY DepsWithinInterview
<1>2. PICK h \in BOOLEAN : MarkInterviewCompleted(i, h)
  BY DEF Handled
<1>3. interview' = [interview EXCEPT ![i] = InterviewState(i, tally'[i])]
  BY DEF Handled
<1>4. interview' \in [Interviews -> InterviewStates]
  BY <1>1, <1>3, StatesTyped DEF Loose, RestTypeOK
<1>5. /\ notified \in [Interviews -> Nat]
      /\ interview \in [Interviews -> InterviewStates]
      /\ \A j \in Interviews : notified[j] > 0 => interview[j] # "RUNNING"
  BY DEF Loose, RestTypeOK
<1>6. interview[i] # "RUNNING" => interview'[i] # "RUNNING"
  BY <1>1, <1>3, <1>5 DEF InterviewState
<1>7. notified' = IF interview'[i] = "RUNNING" THEN notified
                  ELSE [notified EXCEPT ![i] = @ + 1]
  BY <1>2 DEF MarkInterviewCompleted
<1>8. \A j \in Interviews \ {i} : notified'[j] = notified[j] /\ interview'[j] = interview[j]
  BY <1>1, <1>3, <1>5, <1>7
<1>9. /\ notified'[i] = IF interview'[i] = "RUNNING" THEN notified[i] ELSE notified[i] + 1
      /\ notified[i] \in Nat
  BY <1>1, <1>5, <1>7
<1> HIDE DEF i
<1>10. \A j \in Interviews : notified'[j] > 0 => interview'[j] # "RUNNING"
  BY <1>1, <1>5, <1>6, <1>8, <1>9
<1>11. \A j \in Interviews : notified'[j] >= notified[j]
  BY <1>5, <1>8, <1>9
<1>12. notified[i] > 0 => notified'[i] > 1
  BY <1>1, <1>5, <1>6, <1>9
<1> QED
  BY <1>4, <1>8, <1>10, <1>11, <1>12 DEF i

\* on_task_completed and on_task_skipped, whatever the counters of the dependents say.
LEMMA SettledLoosely ==
  ASSUME Loose, NEW t \in Tasks, OnTaskCompleted(t) \/ OnTaskSkipped(t)
  PROVE  /\ Handled(t)
         /\ status' \in [Tasks -> Status] /\ readyTasks' \in SUBSET Tasks
         /\ unmetDeps' \in [Tasks -> Int] /\ answers' \in SUBSET Tasks
         /\ UNCHANGED <<attempts, lastError, batchError>>
<1>1. PICK o \in Satisfied : /\ MarkSatisfied({t}, o)
                             /\ tally' = [tally EXCEPT ![InterviewOf[t]][o] = @ + 1]
  BY DEF OnTaskCompleted, OnTaskSkipped, Satisfied
<1>2. InterviewOf[t] \in Interviews
  BY DepsWithinInterview
<1>3. \A x \in Tasks : Met(x, {t}) \in Nat /\ (t \notin Deps[x] => Met(x, {t}) = 0)
  <2> TAKE x \in Tasks
  <2>1. Deps[x] \cap {t} \subseteq Deps[x] /\ (t \notin Deps[x] => Deps[x] \cap {t} = {})
    OBVIOUS
  <2> QED
    BY <2>1, DepsFinite, FS_Subset, FS_CardinalityType, FS_EmptySet DEF Met
<1>4. unmetDeps' \in [Tasks -> Int]
  <2>1. unmetDeps' = [x \in Tasks |-> unmetDeps[x] - Met(x, {t})]
    BY <1>1 DEF MarkSatisfied
  <2>2. \A x \in Tasks : unmetDeps[x] - Met(x, {t}) \in Int
    <3> TAKE x \in Tasks
    <3>1. unmetDeps[x] \in Int
      BY DEF Loose
    <3>2. Met(x, {t}) \in Nat
      BY <1>3
    <3> QED
      BY <3>1, <3>2
  <2> QED
    BY <2>1, <2>2
<1>5. status' \in [Tasks -> Status] /\ readyTasks' \in SUBSET Tasks
  BY <1>1 DEF MarkSatisfied, NowReady, Loose, RestTypeOK, Status, Outcomes, Satisfied
<1>6. tally' \in [Interviews -> [Outcomes -> Nat]]
  BY <1>1, <1>2, TallyTyped DEF Loose, RestTypeOK, Outcomes, Satisfied
<1>7. \A x \in Tasks : InterviewOf[x] # InterviewOf[t] => status'[x] = status[x]
  <2> TAKE x \in Tasks
  <2>1. InterviewOf[x] # InterviewOf[t] => t \notin Deps[x] /\ x # t
    BY DepsWithinInterview
  <2>2. Met(x, {t}) = 0 => x \notin NowReady({t})
    BY DEF NowReady, Loose
  <2> QED
    BY <1>1, <1>3, <2>1, <2>2 DEF MarkSatisfied
<1>8. \E h \in BOOLEAN : MarkInterviewCompleted(InterviewOf[t], h)
  BY DEF OnTaskCompleted, OnTaskSkipped
<1>9. interview' = [interview EXCEPT
                      ![InterviewOf[t]] = InterviewState(InterviewOf[t], tally'[InterviewOf[t]])]
  BY DEF OnTaskCompleted, OnTaskSkipped
<1>10. UNCHANGED <<attempts, lastError, batchError>> /\ answers' \in SUBSET Tasks
  BY DEF OnTaskCompleted, OnTaskSkipped, Loose, RestTypeOK
<1> QED
  BY <1>4, <1>5, <1>6, <1>7, <1>8, <1>9, <1>10 DEF Handled

\* on_task_failed for good, whatever the status of its task.
LEMMA FailedLoosely ==
  ASSUME Loose, NEW t \in Tasks, NEW e \in ErrorTypes, NEW force \in BOOLEAN,
         FailTask(t, e, force)
  PROVE  /\ Handled(t)
         /\ status' \in [Tasks -> Status]
         /\ attempts' \in [Tasks -> [ErrorTypes -> Nat]]
         /\ lastError' \in [Tasks -> ErrorTypes \cup {NoError, "upstream_failure"}]
         /\ batchError' \in [Tasks -> {NoError, "upstream_failure"}]
         /\ UNCHANGED <<unmetDeps, readyTasks, answers>>
<1> DEFINE i == InterviewOf[t]
           blocked == NewlyBlocked(t)
<1>1. i \in Interviews
  BY DepsWithinInterview
<1>2. blocked \subseteq TasksOf(i) /\ Cardinality(blocked) \in Nat
  <2>1. blocked \subseteq TasksOf(i)
    BY DownstreamWithin DEF NewlyBlocked
  <2> QED
    BY <2>1, FiniteJob, FS_Subset, FS_CardinalityType DEF TasksOf
<1>3. attempts' \in [Tasks -> [ErrorTypes -> Nat]]
  BY AttemptTyped DEF FailTask, Loose
<1>4. status' \in [Tasks -> Status]
  BY DEF FailTask, Loose, RestTypeOK, Status, Outcomes
<1>5. /\ lastError' \in [Tasks -> ErrorTypes \cup {NoError, "upstream_failure"}]
      /\ batchError' \in [Tasks -> {NoError, "upstream_failure"}]
      /\ UNCHANGED <<unmetDeps, readyTasks, answers>>
  BY DEF FailTask, Loose, RestTypeOK
<1>6. tally' \in [Interviews -> [Outcomes -> Nat]]
  <2> HIDE DEF blocked
  <2>1. [tally EXCEPT ![i]["FAILED"] = @ + 1] \in [Interviews -> [Outcomes -> Nat]]
    BY <1>1, TallyTyped DEF Loose, RestTypeOK, Outcomes
  <2>2. [[tally EXCEPT ![i]["FAILED"] = @ + 1] EXCEPT ![i]["BLOCKED"] = @ + Cardinality(blocked)]
          \in [Interviews -> [Outcomes -> Nat]]
    BY <1>1, <1>2, <2>1, TallyTyped DEF Outcomes
  <2>3. tally' = [tally EXCEPT ![i]["FAILED"] = @ + 1, ![i]["BLOCKED"] = @ + Cardinality(blocked)]
    BY DEF FailTask, blocked
  <2> QED
    BY <2>2, <2>3
<1>7. \A x \in Tasks : InterviewOf[x] # InterviewOf[t] => status'[x] = status[x]
  BY <1>2 DEF FailTask, TasksOf
<1>8. MarkInterviewCompleted(i, TRUE)
  BY DEF FailTask
<1>9. interview' = [interview EXCEPT ![i] = InterviewState(i, tally'[i])]
  BY DEF FailTask
<1> QED
  BY <1>3, <1>4, <1>5, <1>6, <1>7, <1>8, <1>9 DEF Handled

\* ... and when it is retried.
LEMMA RetriedLoosely ==
  ASSUME Loose, NEW t \in Tasks, NEW e \in ErrorTypes, RetryTask(t, e)
  PROVE  /\ status' = [status EXCEPT ![t] = "READY"]
         /\ attempts' \in [Tasks -> [ErrorTypes -> Nat]]
         /\ readyTasks' \in SUBSET Tasks
         /\ UNCHANGED <<unmetDeps, lastError, batchError, answers, jobVars>>
BY AttemptTyped DEF RetryTask, Loose, RestTypeOK

\* The handlers that give a task its outcome.
LEMMA HandledLoosely ==
  ASSUME Loose, NEW t \in Tasks, Handled(t),
         status' \in [Tasks -> Status], readyTasks' \in SUBSET Tasks,
         attempts' \in [Tasks -> [ErrorTypes -> Nat]],
         lastError' \in [Tasks -> ErrorTypes \cup {NoError, "upstream_failure"}],
         batchError' \in [Tasks -> {NoError, "upstream_failure"}],
         answers' \in SUBSET Tasks, unmetDeps' \in [Tasks -> Int]
  PROVE  Loose' /\ (Recounted => Recounted')
<1>1. InterviewOf[t] \in Interviews
  BY DepsWithinInterview
<1>2. /\ interview' \in [Interviews -> InterviewStates]
      /\ \A j \in Interviews : notified'[j] > 0 => interview'[j] # "RUNNING"
      /\ \A j \in Interviews : notified'[j] >= notified[j]
      /\ notified[InterviewOf[t]] > 0 => notified'[InterviewOf[t]] > 1
      /\ \A j \in Interviews \ {InterviewOf[t]} : notified'[j] = notified[j]
  BY HandledReports
<1>3. PICK h \in BOOLEAN : MarkInterviewCompleted(InterviewOf[t], h)
  BY DEF Handled
<1>4. /\ counted' \in SUBSET Interviews
      /\ jobTally' \in [completed : Nat, failed : Nat]
      /\ job' \in JobStates
      /\ notified' \in [Interviews -> Nat]
  BY <1>1, <1>3, MarkOneTyped DEF Loose
<1>5. tally' \in [Interviews -> [Outcomes -> Nat]]
  BY DEF Handled
<1>6. Loose'
  BY <1>2, <1>4, <1>5 DEF Loose, RestTypeOK
<1>7. ASSUME NEW i \in Interviews, notified[i] > 1 \/ (notified[i] = 1 /\ ~Finished(i))
      PROVE  notified'[i] > 1 \/ (notified'[i] = 1 /\ ~Finished(i)')
  <2>1. notified[i] \in Nat /\ notified'[i] \in Nat
    BY <1>4 DEF Loose, RestTypeOK
  <2>2. CASE i = InterviewOf[t]
    BY <1>2, <1>7, <2>1, <2>2
  <2>3. CASE i # InterviewOf[t]
    <3>1. \A x \in TasksOf(i) : status'[x] = status[x]
      BY <2>3 DEF Handled, TasksOf
    <3>2. ~Finished(i) => ~Finished(i)'
      BY <3>1 DEF Finished, TasksOf
    <3>3. notified'[i] = notified[i]
      BY <1>2, <2>3
    <3> QED
      BY <1>7, <3>2, <3>3
  <2> QED
    BY <2>2, <2>3
<1>8. Recounted => Recounted'
  BY <1>7 DEF Recounted
<1> QED
  BY <1>6, <1>8

\* Outcomes neither come nor go elsewhere: nothing is reported.
LEMMA QuietLoosely ==
  ASSUME Loose, Loose', notified' = notified,
         \A x \in Tasks : status'[x] \in Outcomes => status[x] \in Outcomes
  PROVE  Recounted => Recounted'
<1>1. ASSUME NEW i \in Interviews, ~Finished(i) PROVE ~Finished(i)'
  BY <1>1 DEF Finished, TasksOf
<1> QED
  BY <1>1 DEF Recounted

\* The types stay, and what was counted twice stays so.
LEMMA CalledLoosely ==
  ASSUME Loose, Called
  PROVE  Loose' /\ (Recounted => Recounted')
<1> DEFINE Goal == Loose' /\ (Recounted => Recounted')
<1>1. ASSUME NEW t \in Tasks, Claim(t) PROVE Goal
  <2>1. UNCHANGED <<unmetDeps, attempts, lastError, batchError, answers, jobVars>>
    BY <1>1 DEF Claim, PopReady, AddToReady, StartRendering, EnqueueTask, StartRunning, SetStatus
  <2>2. readyTasks' \in SUBSET Tasks
    BY <1>1 DEF Claim, PopReady, AddToReady, StartRendering, EnqueueTask, StartRunning, SetStatus,
                Loose, RestTypeOK
  <2>3. status' = status \/ \E s \in Claimed : status' = [status EXCEPT ![t] = s]
    BY <1>1 DEF Claim, PopReady, AddToReady, StartRendering, EnqueueTask, StartRunning, SetStatus,
                Claimed
  <2>4. /\ status' \in [Tasks -> Status]
        /\ \A x \in Tasks : status'[x] \in Outcomes => status[x] \in Outcomes
    BY <2>3 DEF Loose, RestTypeOK, Status, Claimed, Outcomes
  <2>5. Loose'
    BY <2>1, <2>2, <2>4 DEF Loose, RestTypeOK, jobVars
  <2> QED
    BY <2>1, <2>4, <2>5, QuietLoosely DEF jobVars
<1>2. ASSUME NEW t \in Tasks, OnTaskCompleted(t) \/ OnTaskSkipped(t) PROVE Goal
  <2>1. /\ Handled(t)
        /\ status' \in [Tasks -> Status] /\ readyTasks' \in SUBSET Tasks
        /\ unmetDeps' \in [Tasks -> Int] /\ answers' \in SUBSET Tasks
        /\ UNCHANGED <<attempts, lastError, batchError>>
    BY <1>2, SettledLoosely
  <2>2. /\ attempts' \in [Tasks -> [ErrorTypes -> Nat]]
        /\ lastError' \in [Tasks -> ErrorTypes \cup {NoError, "upstream_failure"}]
        /\ batchError' \in [Tasks -> {NoError, "upstream_failure"}]
    BY <2>1 DEF Loose, RestTypeOK
  <2> QED
    BY <2>1, <2>2, HandledLoosely
<1>3. ASSUME NEW t \in Tasks, NEW e \in ErrorTypes, NEW force \in BOOLEAN, FailTask(t, e, force)
      PROVE  Goal
  <2>1. /\ Handled(t)
        /\ status' \in [Tasks -> Status]
        /\ attempts' \in [Tasks -> [ErrorTypes -> Nat]]
        /\ lastError' \in [Tasks -> ErrorTypes \cup {NoError, "upstream_failure"}]
        /\ batchError' \in [Tasks -> {NoError, "upstream_failure"}]
        /\ UNCHANGED <<unmetDeps, readyTasks, answers>>
    BY <1>3, FailedLoosely
  <2>2. readyTasks' \in SUBSET Tasks /\ answers' \in SUBSET Tasks /\ unmetDeps' \in [Tasks -> Int]
    BY <2>1 DEF Loose, RestTypeOK
  <2> QED
    BY <2>1, <2>2, HandledLoosely
<1>4. ASSUME NEW t \in Tasks, NEW e \in ErrorTypes, RetryTask(t, e) PROVE Goal
  <2>1. /\ status' = [status EXCEPT ![t] = "READY"]
        /\ attempts' \in [Tasks -> [ErrorTypes -> Nat]]
        /\ readyTasks' \in SUBSET Tasks
        /\ UNCHANGED <<unmetDeps, lastError, batchError, answers, jobVars>>
    BY <1>4, RetriedLoosely
  <2>2. /\ status' \in [Tasks -> Status]
        /\ \A x \in Tasks : status'[x] \in Outcomes => status[x] \in Outcomes
    BY <2>1 DEF Loose, RestTypeOK, Status, Outcomes
  <2>3. Loose'
    BY <2>1, <2>2 DEF Loose, RestTypeOK, jobVars
  <2> QED
    BY <2>1, <2>2, <2>3, QuietLoosely DEF jobVars
<1>5. CASE Cancel \/ UNCHANGED vars
  <2>1. UNCHANGED <<taskVars, tally, interview, counted, jobTally, notified>> /\ job' \in JobStates
    BY <1>5 DEF Loose, RestTypeOK, Cancel, vars, taskVars, jobVars, JobStates
  <2>2. Loose'
    BY <2>1 DEF Loose, RestTypeOK, taskVars
  <2> QED
    BY <2>1, <2>2, QuietLoosely DEF taskVars
<1> QED
  BY <1>1, <1>2, <1>3, <1>4, <1>5 DEF Called

\* A task of a reported interview that is failed or retried is counted twice.
LEMMA FailedAfterReport ==
  ASSUME Loose, NEW t \in Tasks, notified[InterviewOf[t]] > 0, NEW e \in ErrorTypes,
         RetryTask(t, e) \/ \E force \in BOOLEAN : FailTask(t, e, force)
  PROVE  Recounted'
<1> DEFINE i == InterviewOf[t]
<1>1. i \in Interviews /\ t \in TasksOf(i)
  BY DepsWithinInterview DEF TasksOf
<1>2. CASE RetryTask(t, e)
  <2>1. status' = [status EXCEPT ![t] = "READY"] /\ notified' = notified
    BY <1>2, RetriedLoosely DEF jobVars
  <2>2. ~Finished(i)'
    BY <1>1, <2>1 DEF Finished, Outcomes, Loose, RestTypeOK, TasksOf
  <2>3. notified'[i] \in Nat /\ notified'[i] > 0
    BY <1>1, <2>1 DEF Loose, RestTypeOK
  <2> QED
    BY <1>1, <2>2, <2>3 DEF Recounted
<1>3. ASSUME NEW force \in BOOLEAN, FailTask(t, e, force) PROVE Recounted'
  <2>1. Handled(t)
    BY <1>3, FailedLoosely
  <2>2. notified'[i] > 1
    BY <2>1, HandledReports
  <2> QED
    BY <1>1, <2>2 DEF Recounted
<1> QED
  BY <1>2, <1>3

\* While nothing was counted twice the books are right, and say so.
LEMMA BooksNotRecounted ==
  ASSUME IInv, BookInv
  PROVE  Loose /\ ~Recounted
<1>1. Loose
  BY DEF IInv, TypeOK, Loose, BookInv, NotifiedOnce, FinalizedExactly
<1>2. ~Recounted
  BY DEF BookInv, NotifiedOnce, Recounted
<1> QED
  BY <1>1, <1>2

-----------------------------------------------------------------------------
(***************************************************************************)
(* What a caller knows of the tasks when it has reported on one of them.   *)
(***************************************************************************)

\* A report on task t: it leaves its caller's hands, for good or to be tried again.
Reports(t) ==
  \/ OnTaskCompleted(t) \/ OnTaskSkipped(t)
  \/ \E e \in ErrorTypes :
        OnTaskFailedRetry(t, e) \/ \E force \in BOOLEAN : OnTaskFailedForGood(t, e, force)

\* The other tasks stay where they are, or become ready.
HandedOver(t) ==
  /\ \A x \in Tasks \ {t} : status[x] \in Live =>
        status'[x] = status[x] /\ (x \in readyTasks' <=> x \in readyTasks)
  /\ \A x \in Tasks \ {t} : status[x] \notin Live => (status'[x] \in Live <=> x \in readyTasks')
  /\ status'[t] \in Live <=> t \in readyTasks'

LEMMA ReportHandsOver ==
  ASSUME IInv, NEW t \in Tasks, Reports(t)
  PROVE  HandedOver(t)
<1>1. ReadyOnly /\ readyTasks \subseteq Tasks /\ status \in [Tasks -> Status]
  BY DEF IInv, DepInv, TypeOK, RestTypeOK
<1>2. ASSUME NEW o \in Satisfied, InHand(t), MarkSatisfied({t}, o)
      PROVE  HandedOver(t)
  <2> DEFINE N == NowReady({t})
  <2>1. \A x \in N : status[x] = "PENDING"
    BY <1>2, DependentsTold
  <2>2. \A x \in Tasks : status'[x] = IF x \in N THEN "READY" ELSE IF x = t THEN o ELSE status[x]
    BY <1>2 DEF MarkSatisfied
  <2>3. readyTasks' = readyTasks \cup N
    BY <1>2 DEF MarkSatisfied
  <2>4. t \notin readyTasks /\ status[t] \in Live
    BY <1>2, InHandIsReady DEF InHand
  <2> HIDE DEF N
  <2> QED
    BY <1>1, <2>1, <2>2, <2>3, <2>4 DEF HandedOver, Live, Claimed, Satisfied, ReadyOnly
<1>3. CASE OnTaskCompleted(t)
  BY <1>2, <1>3 DEF OnTaskCompleted, Satisfied
<1>4. CASE OnTaskSkipped(t)
  BY <1>2, <1>4 DEF OnTaskSkipped, Satisfied
<1>5. ASSUME NEW e \in ErrorTypes, OnTaskFailedRetry(t, e)
      PROVE  HandedOver(t)
  BY <1>1, <1>5 DEF OnTaskFailedRetry, RetryTask, HandedOver, Live, ReadyOnly
<1>6. ASSUME NEW e \in ErrorTypes, NEW force \in BOOLEAN, OnTaskFailedForGood(t, e, force)
      PROVE  HandedOver(t)
  <2>1. \A x \in NewlyBlocked(t) : x # t /\ status[x] = "PENDING"
    BY <1>6, DownstreamHere DEF OnTaskFailedForGood, MayFail
  <2>2. \A x \in Tasks : status'[x] = IF x = t THEN "FAILED"
                                      ELSE IF x \in NewlyBlocked(t) THEN "BLOCKED" ELSE status[x]
    BY <1>6 DEF OnTaskFailedForGood, FailTask
  <2>3. readyTasks' = readyTasks /\ t \notin readyTasks
    BY <1>6 DEF OnTaskFailedForGood, FailTask, MayFail, InHand
  <2> QED
    BY <1>1, <2>1, <2>2, <2>3 DEF HandedOver, Live, Claimed, ReadyOnly
<1> QED
  BY <1>3, <1>4, <1>5, <1>6 DEF Reports

=============================================================================
