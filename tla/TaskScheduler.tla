---------------------------- MODULE TaskScheduler ----------------------------
(***************************************************************************)
(* The TaskScheduler of pkg/sbproxy/reconcile/task_scheduler.go: one       *)
(* caller schedules tasks, each in a goroutine of its own and at most      *)
(* MaxParallel of them at a time, and then awaits them all.                *)
(*                                                                         *)
(* A task goes through the points of its goroutine at which the state it   *)
(* shares with the others changes:                                         *)
(*   new -> running -> ok or failed -> released -> done                    *)
(* It holds a slot of waitGroupLimit until it is released and is counted   *)
(* by the wait group until it is done; a task of a cancelled context may   *)
(* be rejected by Schedule instead.                                        *)
(***************************************************************************)
EXTENDS Integers, FiniteSets

CONSTANTS Tasks, MaxParallel

ASSUME TasksAssumption == IsFiniteSet(Tasks)
ASSUME LimitAssumption == MaxParallel \in Nat \ {0}

VARIABLES
    ctxDone,    \* state.ctx is cancelled
    caller,     \* the goroutine that calls Schedule and Await
    task,       \* where each task is
    slots,      \* how many elements waitGroupLimit holds
    waiting,    \* the counter of the wait group
    errorCount, \* state.errorCount
    failures    \* history: the tasks that returned an error

vars == <<ctxDone, caller, task, slots, waiting, errorCount, failures>>

TypeOK ==
    /\ ctxDone \in BOOLEAN
    /\ caller \in {"scheduling", "awaiting", "succeeded", "reported"}
    /\ task \in [Tasks -> {"new", "rejected", "running", "failing", "ending", "released", "done"}]
    /\ slots \in 0..MaxParallel
    /\ waiting \in Nat
    /\ errorCount \in Nat
    /\ failures \subseteq Tasks

Init ==
    /\ ctxDone = FALSE
    /\ caller = "scheduling"
    /\ task = [t \in Tasks |-> "new"]
    /\ slots = 0
    /\ waiting = 0
    /\ errorCount = 0
    /\ failures = {}

Cancel ==
    /\ ~ctxDone
    /\ ctxDone' = TRUE
    /\ UNCHANGED <<caller, task, slots, waiting, errorCount, failures>>

-----------------------------------------------------------------------------
(* The caller.                                                             *)

\* Mutant: waitGroupLimit has room for one more.
Schedule_OffByOne(t) ==
    /\ caller = "scheduling"
    /\ task[t] = "new"
    /\ slots <= MaxParallel
    /\ slots' = slots + 1
    /\ waiting' = waiting + 1
    /\ task' = [task EXCEPT ![t] = "running"]
    /\ UNCHANGED <<ctxDone, caller, errorCount, failures>>

\* Mutant: the goroutine adds itself to the wait group, too late.
Schedule_NotCounted(t) ==
    /\ caller = "scheduling"
    /\ task[t] = "new"
    /\ slots < MaxParallel
    /\ slots' = slots + 1
    /\ task' = [task EXCEPT ![t] = "running"]
    /\ UNCHANGED <<ctxDone, caller, waiting, errorCount, failures>>

\* A slot is taken, the task counted and its goroutine started.
Schedule(t) ==
    /\ caller = "scheduling"
    /\ task[t] = "new"
    /\ slots < MaxParallel
    /\ slots' = slots + 1
    /\ waiting' = waiting + 1
    /\ task' = [task EXCEPT ![t] = "running"]
    /\ UNCHANGED <<ctxDone, caller, errorCount, failures>>

\* The context is cancelled: Schedule may return its error, even with a slot
\* free, and the task never runs.
Reject(t) ==
    /\ caller = "scheduling"
    /\ task[t] = "new"
    /\ ctxDone
    /\ task' = [task EXCEPT ![t] = "rejected"]
    /\ UNCHANGED <<ctxDone, caller, slots, waiting, errorCount, failures>>

\* The caller has no more tasks; Await starts.
CallAwait ==
    /\ caller = "scheduling"
    /\ caller' = "awaiting"
    /\ UNCHANGED <<ctxDone, task, slots, waiting, errorCount, failures>>

AwaitReturns ==
    /\ caller = "awaiting"
    /\ waiting = 0
    /\ caller' = IF errorCount > 0 THEN "reported" ELSE "succeeded"
    /\ UNCHANGED <<ctxDone, task, slots, waiting, errorCount, failures>>

-----------------------------------------------------------------------------
(* The goroutine of task t.                                                *)

Succeed(t) ==
    /\ task[t] = "running"
    /\ task' = [task EXCEPT ![t] = "ending"]
    /\ UNCHANGED <<ctxDone, caller, slots, waiting, errorCount, failures>>

Fail(t) ==
    /\ task[t] = "running"
    /\ task' = [task EXCEPT ![t] = "failing"]
    /\ failures' = failures \cup {t}
    /\ UNCHANGED <<ctxDone, caller, slots, waiting, errorCount>>

\* Mutant: the counter is not updated atomically and an increment is lost.
CountError_Lost(t) ==
    /\ task[t] = "failing"
    /\ errorCount' \in {errorCount, errorCount + 1}
    /\ task' = [task EXCEPT ![t] = "ending"]
    /\ UNCHANGED <<ctxDone, caller, slots, waiting, failures>>

CountError(t) ==
    /\ task[t] = "failing"
    /\ errorCount' = errorCount + 1
    /\ task' = [task EXCEPT ![t] = "ending"]
    /\ UNCHANGED <<ctxDone, caller, slots, waiting, failures>>

\* Mutant: a task that failed keeps its slot.
Release_OnSuccessOnly(t) ==
    /\ task[t] = "ending"
    /\ slots' = IF t \in failures THEN slots ELSE slots - 1
    /\ task' = [task EXCEPT ![t] = "released"]
    /\ UNCHANGED <<ctxDone, caller, waiting, errorCount, failures>>

Release(t) ==
    /\ task[t] = "ending"
    /\ slots' = slots - 1
    /\ task' = [task EXCEPT ![t] = "released"]
    /\ UNCHANGED <<ctxDone, caller, waiting, errorCount, failures>>

\* Mutant: a task that failed does not leave the wait group.
Done_OnSuccessOnly(t) ==
    /\ task[t] = "released"
    /\ waiting' = IF t \in failures THEN waiting ELSE waiting - 1
    /\ task' = [task EXCEPT ![t] = "done"]
    /\ UNCHANGED <<ctxDone, caller, slots, errorCount, failures>>

Done(t) ==
    /\ task[t] = "released"
    /\ waiting' = waiting - 1
    /\ task' = [task EXCEPT ![t] = "done"]
    /\ UNCHANGED <<ctxDone, caller, slots, errorCount, failures>>

-----------------------------------------------------------------------------
TaskStep(t) == Succeed(t) \/ Fail(t) \/ CountError(t) \/ Release(t) \/ Done(t)

Next ==
    \/ Cancel
    \/ \E t \in Tasks : Schedule(t) \/ Reject(t) \/ TaskStep(t)
    \/ CallAwait
    \/ AwaitReturns

Spec == Init /\ [][Next]_vars

(* The tasks, calls with a timeout, return; the caller schedules what it   *)
(* has and awaits it.                                                      *)
Fairness ==
    /\ \A t \in Tasks : WF_vars(TaskStep(t))
    /\ WF_vars(\E t \in Tasks : Schedule(t) \/ Reject(t))
    /\ WF_vars(AwaitReturns)
FairSpec == Spec /\ Fairness

-----------------------------------------------------------------------------
Holders == {t \in Tasks : task[t] \in {"running", "failing", "ending"}}
Counted == {t \in Tasks : task[t] \in {"running", "failing", "ending", "released"}}
Errors == {t \in Tasks : t \in failures /\ task[t] # "failing"}

Returned == caller \in {"succeeded", "reported"}

\* The platform never sees more than MaxParallel tasks of a reconciliation at
\* once: maxParallelTasks.
BoundedParallelism == Cardinality(Holders) <= MaxParallel

\* When Await has returned nothing of what was scheduled runs any more, and the
\* error it returned tells the truth about every task.
AwaitIsComplete ==
    Returned => /\ Counted = {}
                /\ caller = "reported" <=> failures # {}

\* Every task offered to Schedule is taken in the end, or rejected because the
\* context was cancelled: no slot is lost.
NoSlotLost ==
    \A t \in Tasks : (task[t] = "new") ~> (task[t] # "new" \/ caller # "scheduling")

\* Await returns.
AwaitEnds == (caller = "awaiting") ~> Returned

-----------------------------------------------------------------------------
\* The channel, the wait group and the counter agree with the tasks.
IInv ==
    /\ slots = Cardinality(Holders)
    /\ waiting = Cardinality(Counted)
    /\ errorCount = Cardinality(Errors)
    /\ \A t \in Tasks : task[t] = "failing" => t \in failures
    /\ failures \subseteq {t \in Tasks : task[t] \notin {"new", "rejected", "running"}}
    /\ Returned => Counted = {} /\ (caller = "reported" <=> errorCount > 0)
=============================================================================
