------------------------- MODULE TaskSchedulerProofs -------------------------
(***************************************************************************)
(* Proofs about TaskScheduler for every finite set of tasks and every      *)
(* limit: the slots bound the tasks that run, and what Await returns is    *)
(* the truth about all of them.                                            *)
(***************************************************************************)
EXTENDS TaskScheduler, FiniteSetTheorems, TLAPS

\* The part of TypeOK that needs no bound on the slots.
ShapeOK ==
    /\ ctxDone \in BOOLEAN
    /\ caller \in {"scheduling", "awaiting", "succeeded", "reported"}
    /\ task \in [Tasks -> {"new", "rejected", "running", "failing", "ending", "released", "done"}]
    /\ failures \subseteq Tasks
    /\ slots <= MaxParallel

FullInv == ShapeOK /\ IInv

-----------------------------------------------------------------------------
(* Cardinalities of sets of tasks.                                         *)

LEMMA TaskSetsFinite == \A S \in SUBSET Tasks : IsFiniteSet(S) /\ Cardinality(S) \in Nat
  BY TasksAssumption, FS_Subset, FS_CardinalityType

LEMMA CardinalityAdd ==
  ASSUME NEW S \in SUBSET Tasks, NEW t \in Tasks, t \notin S
  PROVE  Cardinality(S \cup {t}) = Cardinality(S) + 1
  BY TaskSetsFinite, FS_AddElement

LEMMA CardinalityRemove ==
  ASSUME NEW S \in SUBSET Tasks, NEW t \in S
  PROVE  Cardinality(S \ {t}) = Cardinality(S) - 1
  BY TaskSetsFinite, FS_RemoveElement

LEMMA NoneLeft == ASSUME NEW S \in SUBSET Tasks PROVE Cardinality(S) = 0 <=> S = {}
  BY TaskSetsFinite, FS_EmptySet

-----------------------------------------------------------------------------
LEMMA InitFull == Init => FullInv
<1> SUFFICES ASSUME Init PROVE FullInv
  OBVIOUS
<1>1. Holders = {} /\ Counted = {} /\ Errors = {}
  BY DEF Init, Holders, Counted, Errors
<1>2. Cardinality({}) = 0
  BY FS_EmptySet
<1>3. ShapeOK
  <2>1. MaxParallel \in Nat /\ 0 <= MaxParallel
    BY LimitAssumption
  <2>2. slots <= MaxParallel
    BY <2>1 DEF Init
  <2>3. task \in [Tasks -> {"new", "rejected", "running", "failing", "ending", "released", "done"}]
    BY DEF Init
  <2> QED
    BY <2>2, <2>3 DEF Init, ShapeOK
<1>4. slots = Cardinality(Holders) /\ waiting = Cardinality(Counted) /\ errorCount = Cardinality(Errors)
  BY <1>1, <1>2, Zenon DEF Init
<1>5. \A t \in Tasks : task[t] = "new"
  BY DEF Init
<1>6. caller = "scheduling" /\ failures = {}
  BY DEF Init
<1> QED
  BY <1>3, <1>4, <1>5, <1>6 DEF FullInv, IInv, Returned

\* The sets of tasks a step of task t moves t into or out of.
LEMMA NextFull == FullInv /\ [Next]_vars => FullInv'
<1> SUFFICES ASSUME FullInv, [Next]_vars PROVE FullInv'
  OBVIOUS
<1> USE DEF FullInv, ShapeOK
<1>1. /\ Holders \in SUBSET Tasks /\ Counted \in SUBSET Tasks /\ Errors \in SUBSET Tasks
      /\ slots \in Nat /\ waiting \in Nat /\ errorCount \in Nat
  <2>1. Holders \in SUBSET Tasks /\ Counted \in SUBSET Tasks /\ Errors \in SUBSET Tasks
    BY DEF Holders, Counted, Errors
  <2> QED
    BY <2>1, TaskSetsFinite DEF IInv
<1>2. ASSUME UNCHANGED <<task, failures, slots, waiting, errorCount>>,
             (Returned => Counted = {} /\ (caller = "reported" <=> errorCount > 0))'
      PROVE  IInv'
  <2>1. Holders' = Holders /\ Counted' = Counted /\ Errors' = Errors
    BY <1>2 DEF Holders, Counted, Errors
  <2> QED
    BY <1>2, <2>1 DEF IInv
<1>3. CASE Cancel
  BY <1>2, <1>3 DEF Cancel, IInv, Returned, Counted
<1>4. CASE CallAwait
  BY <1>2, <1>4 DEF CallAwait, Returned
<1>5. CASE AwaitReturns
  <2>1. Counted = {}
    BY <1>1, <1>5, NoneLeft DEF AwaitReturns, IInv
  <2>2. Counted' = {}
    BY <1>5, <2>1 DEF AwaitReturns, Counted
  <2> QED
    BY <1>2, <1>5, <2>2 DEF AwaitReturns, Returned
<1>6. ASSUME NEW t \in Tasks, Schedule(t) PROVE FullInv'
  <2>1. t \notin Holders /\ t \notin Counted
    BY <1>6 DEF Schedule, Holders, Counted
  <2>2. Holders' = Holders \cup {t} /\ Counted' = Counted \cup {t}
    BY <1>6 DEF Schedule, Holders, Counted
  <2>3. Errors' = Errors
    BY <1>6 DEF Schedule, Errors, IInv
  <2>4. slots' = Cardinality(Holders') /\ waiting' = Cardinality(Counted')
    BY <1>1, <1>6, <2>1, <2>2, CardinalityAdd DEF Schedule, IInv
  <2>5. slots' <= MaxParallel
    BY <1>1, <1>6, LimitAssumption DEF Schedule
  <2>6. errorCount' = Cardinality(Errors')
    BY <1>6, <2>3 DEF Schedule, IInv
  <2> QED
    BY <1>6, <2>4, <2>5, <2>6 DEF Schedule, IInv, Returned
<1>7. ASSUME NEW t \in Tasks, Reject(t) PROVE FullInv'
  <2>1. Holders' = Holders /\ Counted' = Counted /\ Errors' = Errors
    BY <1>7 DEF Reject, Holders, Counted, Errors
  <2> QED
    BY <1>7, <2>1 DEF Reject, IInv, Returned
<1>8. ASSUME NEW t \in Tasks, Succeed(t) PROVE FullInv'
  <2>1. Holders' = Holders /\ Counted' = Counted /\ Errors' = Errors
    BY <1>8 DEF Succeed, Holders, Counted, Errors
  <2> QED
    BY <1>8, <2>1 DEF Succeed, IInv, Returned
<1>9. ASSUME NEW t \in Tasks, Fail(t) PROVE FullInv'
  <2>1. t \notin failures
    BY <1>9 DEF Fail, IInv
  <2>2. Holders' = Holders /\ Counted' = Counted /\ Errors' = Errors
    BY <1>9, <2>1 DEF Fail, Holders, Counted, Errors
  <2> QED
    BY <1>9, <2>2 DEF Fail, IInv, Returned
<1>10. ASSUME NEW t \in Tasks, CountError(t) PROVE FullInv'
  <2>1. t \in failures /\ t \notin Errors
    BY <1>10 DEF CountError, Errors, IInv
  <2>2. Holders' = Holders /\ Counted' = Counted /\ Errors' = Errors \cup {t}
    BY <1>10, <2>1 DEF CountError, Holders, Counted, Errors
  <2>3. errorCount' = Cardinality(Errors')
    BY <1>1, <1>10, <2>1, <2>2, CardinalityAdd DEF CountError, IInv
  <2>4. t \in Counted
    BY <1>10 DEF CountError, Counted
  <2> QED
    BY <1>10, <2>2, <2>3, <2>4 DEF CountError, IInv, Returned
<1>11. ASSUME NEW t \in Tasks, Release(t) PROVE FullInv'
  <2>1. t \in Holders
    BY <1>11 DEF Release, Holders
  <2>2. Holders' = Holders \ {t} /\ Counted' = Counted /\ Errors' = Errors
    BY <1>11 DEF Release, Holders, Counted, Errors
  <2>3. slots' = Cardinality(Holders') /\ slots' <= MaxParallel
    BY <1>1, <1>11, <2>1, <2>2, CardinalityRemove, LimitAssumption DEF Release, IInv
  <2> QED
    BY <1>11, <2>2, <2>3 DEF Release, IInv, Returned
<1>12. ASSUME NEW t \in Tasks, Done(t) PROVE FullInv'
  <2>1. t \in Counted
    BY <1>12 DEF Done, Counted
  <2>2. Counted' = Counted \ {t} /\ Holders' = Holders /\ Errors' = Errors
    BY <1>12 DEF Done, Holders, Counted, Errors
  <2>3. waiting' = Cardinality(Counted')
    BY <1>1, <1>12, <2>1, <2>2, CardinalityRemove DEF Done, IInv
  <2> QED
    BY <1>12, <2>1, <2>2, <2>3 DEF Done, IInv, Returned
<1>13. CASE UNCHANGED vars
  BY <1>2, <1>13 DEF vars, IInv, Returned, Counted
<1> QED
  BY <1>3, <1>4, <1>5, <1>6, <1>7, <1>8, <1>9, <1>10, <1>11, <1>12, <1>13, <1>2
  DEF Next, TaskStep, Cancel, CallAwait, AwaitReturns, vars

LEMMA FullInvariant == Spec => []FullInv
  BY InitFull, NextFull, PTL DEF Spec

-----------------------------------------------------------------------------
\* The variables keep their types; in particular the counters that tasks take
\* from never become negative and the slots never exceed the limit.
THEOREM SchedulerTypeCorrect == Spec => []TypeOK
<1>1. FullInv => TypeOK
  <2> SUFFICES ASSUME FullInv PROVE TypeOK
    OBVIOUS
  <2>1. Holders \in SUBSET Tasks /\ Counted \in SUBSET Tasks /\ Errors \in SUBSET Tasks
    BY DEF Holders, Counted, Errors
  <2>2. slots \in Nat /\ waiting \in Nat /\ errorCount \in Nat
    BY <2>1, TaskSetsFinite DEF FullInv, IInv
  <2> QED
    BY <2>2, LimitAssumption DEF TypeOK, FullInv, ShapeOK
<1> QED
  BY <1>1, FullInvariant, PTL

\* No more than MaxParallel tasks run at once.
THEOREM ParallelismIsBounded == Spec => []BoundedParallelism
<1>1. FullInv => BoundedParallelism
  BY DEF FullInv, ShapeOK, IInv, BoundedParallelism
<1> QED
  BY <1>1, FullInvariant, PTL

\* After Await nothing that was scheduled runs, and an error is reported exactly
\* when a task failed.
THEOREM AwaitTellsTheTruth == Spec => []AwaitIsComplete
<1>1. FullInv => AwaitIsComplete
  <2> SUFFICES ASSUME FullInv, Returned PROVE Counted = {} /\ (caller = "reported" <=> failures # {})
    BY DEF AwaitIsComplete
  <2>1. Counted = {} /\ (caller = "reported" <=> errorCount > 0)
    BY DEF FullInv, IInv
  <2>2. Errors = failures
    BY <2>1 DEF FullInv, ShapeOK, IInv, Errors, Counted
  <2>3. Errors \in SUBSET Tasks /\ errorCount = Cardinality(Errors) /\ errorCount \in Nat
    BY TaskSetsFinite DEF Errors, FullInv, IInv
  <2>4. errorCount = 0 <=> Errors = {}
    BY <2>3, NoneLeft
  <2> QED
    BY <2>1, <2>2, <2>3, <2>4
<1> QED
  BY <1>1, FullInvariant, PTL
=============================================================================
