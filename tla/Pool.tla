-------------------------------- MODULE Pool --------------------------------
(***************************************************************************)
(* The worker pool of src/pool: the goroutine in Run spawns the workers,   *)
(* adds the number of tasks to the WaitGroup, hands the tasks over an      *)
(* unbuffered channel, closes it and waits.  A worker receives a task,     *)
(* runs it and calls Done, until the channel is closed.                    *)
(***************************************************************************)
EXTENDS Integers, FiniteSets

CONSTANTS Concurrency,  \* number of worker goroutines (NewPool's argument)
          MaxTasks,     \* bound: tasks a pool may be given
          Unset         \* Task.Err and Task.Body before the task has run

ASSUME ConcurrencyAssumption == Concurrency \in Nat \ {0}
ASSUME MaxTasksAssumption == MaxTasks \in Nat
ASSUME UnsetAssumption == Unset \notin {"ok", "err"}

Workers == 1..Concurrency
Results == {"ok", "err"}

VARIABLES
  runner,   \* where the goroutine that calls Run is
  ntasks,   \* len(p.Tasks)
  spawned,  \* worker goroutines started so far
  next,     \* index of the next task Run sends
  closed,   \* p.tasksChan is closed
  wg,       \* counter of p.wg
  worker,   \* where each worker goroutine is
  held,     \* the task a worker took from the channel, 0 for none
  result    \* what each task has returned

vars == <<runner, ntasks, spawned, next, closed, wg, worker, held, result>>

Init ==
  /\ runner = "idle"
  /\ ntasks = 0
  /\ spawned = 0
  /\ next = 1
  /\ closed = FALSE
  /\ wg = 0
  /\ worker = [w \in Workers |-> "none"]
  /\ held = [w \in Workers |-> 0]
  /\ result = [t \in 1..MaxTasks |-> Unset]

-----------------------------------------------------------------------------
(* The caller and the goroutine in Run.                                    *)

\* NewPool with its list of tasks, and the plugins' AddTask, before Run.
AddTask ==
  /\ runner = "idle"
  /\ ntasks < MaxTasks
  /\ ntasks' = ntasks + 1
  /\ UNCHANGED <<runner, spawned, next, closed, wg, worker, held, result>>

CallRun ==
  /\ runner = "idle"
  /\ runner' = "spawn"
  /\ UNCHANGED <<ntasks, spawned, next, closed, wg, worker, held, result>>

\* One turn of the loop that starts the workers; they block on the channel.
Spawn ==
  /\ runner = "spawn"
  /\ spawned < Concurrency
  /\ spawned' = spawned + 1
  /\ worker' = [worker EXCEPT ![spawned + 1] = "recv"]
  /\ UNCHANGED <<runner, ntasks, next, closed, wg, held, result>>

\* p.wg.Add(len(p.Tasks)), once every worker has been started.
WgAdd ==
  /\ runner = "spawn"
  /\ spawned = Concurrency
  /\ wg' = wg + ntasks
  /\ runner' = "send"
  /\ UNCHANGED <<ntasks, spawned, next, closed, worker, held, result>>

\* Mutant: the list is walked from its end.
HandoverReversed(w) ==
  /\ runner = "send"
  /\ next <= ntasks
  /\ worker[w] = "recv"
  /\ held' = [held EXCEPT ![w] = ntasks + 1 - next]
  /\ worker' = [worker EXCEPT ![w] = "run"]
  /\ next' = next + 1
  /\ UNCHANGED <<runner, ntasks, spawned, closed, wg, result>>

\* The rendezvous on the unbuffered channel: Run's send of the next task and
\* a worker's receive are one step.
Handover(w) ==
  /\ runner = "send"
  /\ next <= ntasks
  /\ worker[w] = "recv"
  /\ held' = [held EXCEPT ![w] = next]
  /\ worker' = [worker EXCEPT ![w] = "run"]
  /\ next' = next + 1
  /\ UNCHANGED <<runner, ntasks, spawned, closed, wg, result>>

\* Mutant: the channel is left open.
CloseForgotten ==
  /\ runner = "send"
  /\ next > ntasks
  /\ runner' = "wait"
  /\ UNCHANGED <<ntasks, spawned, next, closed, wg, worker, held, result>>

CloseChan ==
  /\ runner = "send"
  /\ next > ntasks
  /\ closed' = TRUE
  /\ runner' = "wait"
  /\ UNCHANGED <<ntasks, spawned, next, wg, worker, held, result>>

\* Mutant: Run does not wait.
WaitSkipped ==
  /\ runner = "wait"
  /\ runner' = "returned"
  /\ UNCHANGED <<ntasks, spawned, next, closed, wg, worker, held, result>>

\* p.wg.Wait() returns when the counter is zero, and Run with it.
WaitReturns ==
  /\ runner = "wait"
  /\ wg = 0
  /\ runner' = "returned"
  /\ UNCHANGED <<ntasks, spawned, next, closed, wg, worker, held, result>>

-----------------------------------------------------------------------------
(* A worker goroutine.                                                     *)

\* t.Body, t.Err = t.f()
RunTask(w) ==
  /\ worker[w] = "run"
  /\ \E r \in Results : result' = [result EXCEPT ![held[w]] = r]
  /\ worker' = [worker EXCEPT ![w] = "ran"]
  /\ UNCHANGED <<runner, ntasks, spawned, next, closed, wg, held>>

\* wg.Done(), then back to the range over the channel.
Done(w) ==
  /\ worker[w] = "ran"
  /\ wg' = wg - 1
  /\ held' = [held EXCEPT ![w] = 0]
  /\ worker' = [worker EXCEPT ![w] = "recv"]
  /\ UNCHANGED <<runner, ntasks, spawned, next, closed, result>>

\* The range ends on a closed channel and the goroutine returns.
WorkerExit(w) ==
  /\ worker[w] = "recv"
  /\ closed
  /\ worker' = [worker EXCEPT ![w] = "exited"]
  /\ UNCHANGED <<runner, ntasks, spawned, next, closed, wg, held, result>>

-----------------------------------------------------------------------------

\* Run's own steps, and the two sides of the channel.
RunStep == Spawn \/ WgAdd \/ CloseChan \/ WaitReturns

WorkStep(w) == Handover(w) \/ RunTask(w) \/ Done(w) \/ WorkerExit(w)

Next == AddTask \/ CallRun \/ RunStep \/ \E w \in Workers : WorkStep(w)

\* The Go scheduler runs every runnable goroutine; f returns because Fetch
\* only makes requests that time out (module Fetch).
Fairness ==
  /\ WF_vars(RunStep)
  /\ \A w \in Workers : WF_vars(WorkStep(w))

Spec == Init /\ [][Next]_vars /\ Fairness

-----------------------------------------------------------------------------
(* Properties.                                                             *)

TypeOK ==
  /\ runner \in {"idle", "spawn", "send", "wait", "returned"}
  /\ ntasks \in 0..MaxTasks
  /\ spawned \in 0..Concurrency
  /\ next \in 1..(MaxTasks + 1)
  /\ closed \in BOOLEAN
  /\ wg \in Int
  /\ worker \in [Workers -> {"none", "recv", "run", "ran", "exited"}]
  /\ held \in [Workers -> 0..MaxTasks]
  /\ result \in [1..MaxTasks -> Results \cup {Unset}]

Busy(w) == worker[w] \in {"run", "ran"}

\* The tasks whose Done has not been called: still to be sent, or with a worker.
Unaccounted ==
  {t \in 1..MaxTasks : \/ next <= t /\ t <= ntasks
                       \/ \E w \in Workers : Busy(w) /\ held[w] = t}

\* The loop of scrape() reads Task.Err of every task right after Run has
\* returned (exporter.go:508): by then every task has stored its result and no
\* worker still holds one.  (pool.go:61-77, task.go:27-29)
ReturnedMeansAllRan ==
  runner = "returned" =>
    /\ \A t \in 1..ntasks : result[t] # Unset
    /\ \A w \in Workers : ~Busy(w)

\* The WaitGroup never drops below zero, which would panic, and while Run
\* sends and waits it counts exactly the tasks that have not called Done.
\* (pool.go:68, task.go:70)
WgCountsUnaccounted ==
  /\ wg >= 0
  /\ runner \in {"send", "wait"} => wg = Cardinality(Unaccounted)

\* No task is run by two workers or run a second time: a result, once stored,
\* is never written again.  (pool.go:69-71, 84-88)
ResultWrittenOnce ==
  [][\A t \in 1..MaxTasks : result[t] # Unset => result'[t] = result[t]]_vars

\* Tasks are started in the order of the list and at most Concurrency of them
\* are in flight, so that when a task has run, fewer than Concurrency earlier
\* ones have not: with the concurrency of 1 that every caller passes, to stay
\* below the BMC's 4 sessions, the order is strict.  (pool.go:64-71,
\* exporter.go:444, 507)
RunsInOrder ==
  \A t \in 1..MaxTasks : result[t] # Unset =>
    Cardinality({u \in 1..t : result[u] = Unset}) < Concurrency

\* The worker goroutines do not leak: after Run every one of them returns.
WorkersExit == runner = "spawn" ~> \A w \in Workers : worker[w] = "exited"

-----------------------------------------------------------------------------
(* The pool implements PoolSpec.                                           *)

Abstract == INSTANCE PoolSpec WITH
  phase <- IF runner \in {"spawn", "send", "wait"} THEN "running" ELSE runner,
  todo <- {t \in 1..ntasks : result[t] = Unset},
  outcome <- result

\* Run does all the work, each task once, and returns only when it is done.
ImplementsPoolSpec == Abstract!SSpec
=============================================================================
