---------------------------- MODULE TaskExecutor -----------------------------
(***************************************************************************)
(* The pool of business threads: src/base/TaskExecutor.cc.                 *)
(*                                                                         *)
(* Each section that holds mutex_ is one step.  submit() pushes under the  *)
(* mutex and notifies after it; a worker that finds nothing to do waits on *)
(* cv_ and tests again when it is notified, or for no reason at all.  A    *)
(* task is its ticket, the number of tasks submitted before it plus one.   *)
(*                                                                         *)
(* start() is called once, before the first submit (main.cc): it has       *)
(* happened in the initial state, and no worker has run yet.               *)
(***************************************************************************)
EXTENDS Naturals, Sequences, FiniteSets

CONSTANTS Workers,     \* the threads start() creates
          Submitters,  \* the threads that call submit(): the I/O loops
          MaxTasks     \* bound: tasks submitted

ASSUME PoolAssumption == /\ IsFiniteSet(Workers)
                         /\ IsFiniteSet(Submitters)
                         /\ MaxTasks \in Nat

VARIABLES running,     \* running_
          tasks,       \* tasks_
          worker,      \* where each worker is in workerLoop
          submitter,   \* where each submitter is in submit
          stopPc,      \* where the thread that calls stop() is
          submitted,   \* ghost: how many tasks were submitted
          taken,       \* ghost: how many tasks were taken by a worker
          atStop       \* ghost: submitted when stop() cleared running_

vars == <<running, tasks, worker, submitter, stopPc, submitted, taken, atStop>>

Init == /\ running = TRUE
        /\ tasks = <<>>
        /\ worker = [w \in Workers |-> "testing"]
        /\ submitter = [s \in Submitters |-> "idle"]
        /\ stopPc = "serving"
        /\ submitted = 0
        /\ taken = 0
        /\ atStop = 0

Are(at) == {w \in Workers : worker[w] = at}

-----------------------------------------------------------------------------
(* submit                                                                   *)

Submit(s) ==
    /\ submitter[s] = "idle"
    /\ submitted < MaxTasks
    /\ submitted' = submitted + 1
    /\ tasks' = Append(tasks, submitted + 1)
    /\ submitter' = [submitter EXCEPT ![s] = "notifying"]
    /\ UNCHANGED <<running, worker, stopPc, taken, atStop>>

Mut_NotifyNobody(s) ==
    /\ submitter[s] = "notifying"
    /\ submitter' = [submitter EXCEPT ![s] = "idle"]
    /\ UNCHANGED <<running, tasks, worker, stopPc, submitted, taken, atStop>>

\* notify_one wakes some waiting worker, if there is one.
Notify(s) ==
    /\ submitter[s] = "notifying"
    /\ submitter' = [submitter EXCEPT ![s] = "idle"]
    /\ \/ Are("waiting") = {} /\ UNCHANGED worker
       \/ \E w \in Are("waiting") : worker' = [worker EXCEPT ![w] = "testing"]
    /\ UNCHANGED <<running, tasks, stopPc, submitted, taken, atStop>>

-----------------------------------------------------------------------------
(* workerLoop                                                               *)

Wait(w) ==
    /\ worker[w] = "testing"
    /\ tasks = <<>> /\ running
    /\ worker' = [worker EXCEPT ![w] = "waiting"]
    /\ UNCHANGED <<running, tasks, submitter, stopPc, submitted, taken, atStop>>

SpuriousWakeup(w) ==
    /\ worker[w] = "waiting"
    /\ worker' = [worker EXCEPT ![w] = "testing"]
    /\ UNCHANGED <<running, tasks, submitter, stopPc, submitted, taken, atStop>>

Mut_ExitWhenStopped(w) ==
    /\ worker[w] = "testing"
    /\ ~running
    /\ worker' = [worker EXCEPT ![w] = "exited"]
    /\ UNCHANGED <<running, tasks, submitter, stopPc, submitted, taken, atStop>>

Exit(w) ==
    /\ worker[w] = "testing"
    /\ ~running /\ tasks = <<>>
    /\ worker' = [worker EXCEPT ![w] = "exited"]
    /\ UNCHANGED <<running, tasks, submitter, stopPc, submitted, taken, atStop>>

Mut_TakeWithoutPop(w) ==
    /\ worker[w] = "testing"
    /\ tasks # <<>>
    /\ worker' = [worker EXCEPT ![w] = "busy"]
    /\ taken' = taken + 1
    /\ UNCHANGED <<running, tasks, submitter, stopPc, submitted, atStop>>

Take(w) ==
    /\ worker[w] = "testing"
    /\ tasks # <<>>
    /\ worker' = [worker EXCEPT ![w] = "busy"]
    /\ tasks' = Tail(tasks)
    /\ taken' = taken + 1
    /\ UNCHANGED <<running, submitter, stopPc, submitted, atStop>>

\* The task, run outside the mutex, returns.
Finish(w) ==
    /\ worker[w] = "busy"
    /\ worker' = [worker EXCEPT ![w] = "testing"]
    /\ UNCHANGED <<running, tasks, submitter, stopPc, submitted, taken, atStop>>

-----------------------------------------------------------------------------
(* stop                                                                     *)

StopClears ==
    /\ stopPc = "serving"
    /\ running' = FALSE
    /\ atStop' = submitted
    /\ stopPc' = "notifying"
    /\ UNCHANGED <<tasks, worker, submitter, submitted, taken>>

StopNotifiesAll ==
    /\ stopPc = "notifying"
    /\ stopPc' = "joining"
    /\ worker' = [w \in Workers |->
                    IF worker[w] = "waiting" THEN "testing" ELSE worker[w]]
    /\ UNCHANGED <<running, tasks, submitter, submitted, taken, atStop>>

StopJoins ==
    /\ stopPc = "joining"
    /\ Are("exited") = Workers
    /\ stopPc' = "stopped"
    /\ UNCHANGED <<running, tasks, worker, submitter, submitted, taken, atStop>>

-----------------------------------------------------------------------------
WorkerStep(w) == Wait(w) \/ Exit(w) \/ Take(w) \/ Finish(w)

Next == \/ \E s \in Submitters : Submit(s) \/ Notify(s)
        \/ \E w \in Workers : WorkerStep(w) \/ SpuriousWakeup(w)
        \/ StopClears
        \/ StopNotifiesAll
        \/ StopJoins

\* Threads are scheduled and tasks return; nobody counts on a spurious wakeup.
Spec == /\ Init
        /\ [][Next]_vars
        /\ \A s \in Submitters : WF_vars(Notify(s))
        /\ \A w \in Workers : WF_vars(WorkerStep(w))
        /\ WF_vars(StopNotifiesAll \/ StopJoins)

-----------------------------------------------------------------------------
Notifying == {s \in Submitters : submitter[s] = "notifying"}

TypeOK ==
    /\ running \in BOOLEAN
    /\ tasks \in Seq(Nat)
    /\ worker \in [Workers -> {"testing", "waiting", "busy", "exited"}]
    /\ submitter \in [Submitters -> {"idle", "notifying"}]
    /\ stopPc \in {"serving", "notifying", "joining", "stopped"}
    /\ submitted \in Nat
    /\ taken \in Nat
    /\ atStop \in Nat

\* Every task is taken once, in the order of submission: what is queued is
\* exactly what was submitted and not taken (TaskExecutor.cc:43-66).
TasksInOrder ==
    /\ submitted = taken + Len(tasks)
    /\ \A i \in 1..Len(tasks) : tasks[i] = taken + i

\* No task waits behind busy workers while a worker sleeps: as long as some
\* worker sleeps, there is for each queued task a worker that is about to test
\* the queue or a submitter that is about to notify (the notify after the
\* unlock, TaskExecutor.cc:44-48, and the test under the mutex, 56-62).
WorkConserving ==
    Are("waiting") # {} =>
        \/ Len(tasks) <= Cardinality(Are("testing")) + Cardinality(Notifying)
        \/ stopPc = "notifying"

\* Nothing is lost, done twice or left behind a sleeping worker.
IInv == TypeOK /\ TasksInOrder /\ WorkConserving

\* A task submitted to a running pool is taken, also when stop() follows.
SubmittedIsTaken ==
    \A n \in 1..MaxTasks : (submitted >= n /\ running) ~> (taken >= n)

\* stop() returns, and when it does every task submitted before it was called
\* has run to its end: the queue is drained, not abandoned
\* (TaskExecutor.cc:26-40, 59).
Drained == stopPc = "stopped" /\ taken >= atStop /\ Are("busy") = {}

StopDrains == (stopPc = "notifying") ~> Drained
=============================================================================
