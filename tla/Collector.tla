------------------------------ MODULE Collector ------------------------------
(***************************************************************************)
(* Exporter.Collect and scrape (src/exporter/exporter.go): the pool of     *)
(* module Pool is run, then its tasks are read in the order of the list,   *)
(* the body of each goes through the task's metric handlers, and the       *)
(* metric "up" is set.                                                     *)
(***************************************************************************)
EXTENDS Pool, Sequences

CONSTANT MaxHandlers  \* bound: metric handlers of a task

ASSUME MaxHandlersAssumption == MaxHandlers \in Nat \ {0}

VARIABLES
  scan,     \* "off", "task" (at the top of the loop), "handlers" or "over"
  task,     \* the task the loop is at
  err,      \* the variable err of this turn: the last handler's error
  state,    \* the variable state: 1 until a task's handlers fail
  up,       \* the metric
  ignored,  \* this scrape has put its host on the ignored list
  failed    \* per task, which of the handlers that ran have failed

scanVars == <<scan, task, err, state, up, ignored, failed>>
cvars == <<vars, scanVars>>

CInit ==
  /\ Init
  /\ scan = "off"
  /\ task = 1
  /\ err = FALSE
  /\ state = "1"
  /\ up = "none"
  /\ ignored = FALSE
  /\ failed = [t \in 1..MaxTasks |-> <<>>]

\* Mutant: the loop begins while the pool is at work.
BeginScanEarly ==
  /\ runner = "wait"
  /\ scan = "off"
  /\ scan' = "task"
  /\ UNCHANGED <<task, err, state, up, ignored, failed>>

\* e.pool.Run() has returned.
BeginScan ==
  /\ runner = "returned"
  /\ scan = "off"
  /\ scan' = "task"
  /\ UNCHANGED <<task, err, state, up, ignored, failed>>

\* Mutant: a failed task does not end the loop.
TaskErrPassed ==
  /\ scan = "task"
  /\ task <= ntasks
  /\ result[task] = "err"
  /\ task' = task + 1
  /\ UNCHANGED <<scan, err, state, up, ignored, failed>>

\* The first task with an error ends the scrape: rejected credentials put the
\* host on the ignored list.
TaskErr ==
  /\ scan = "task"
  /\ task <= ntasks
  /\ result[task] = "err"
  /\ \/ ignored' = TRUE /\ up' = "2"
     \/ UNCHANGED ignored /\ up' = "0"
  /\ scan' = "over"
  /\ UNCHANGED <<task, err, state, failed>>

BeginHandlers ==
  /\ scan = "task"
  /\ task <= ntasks
  /\ result[task] # "err"
  /\ err' = FALSE
  /\ scan' = "handlers"
  /\ UNCHANGED <<task, state, up, ignored, failed>>

\* A handler gets the body; it fails if it cannot parse it.
Handle ==
  /\ scan = "handlers"
  /\ Len(failed[task]) < MaxHandlers
  /\ \E f \in BOOLEAN :
       /\ failed' = [failed EXCEPT ![task] = Append(@, f)]
       /\ err' = f
  /\ UNCHANGED <<scan, task, state, up, ignored>>

\* Mutant: a later task that succeeds makes up for it.
HandledAnew ==
  /\ scan = "handlers"
  /\ failed[task] # <<>>
  /\ state' = IF err THEN "0" ELSE "1"
  /\ task' = task + 1
  /\ scan' = "task"
  /\ UNCHANGED <<err, up, ignored, failed>>

\* The task has no more handlers.
Handled ==
  /\ scan = "handlers"
  /\ failed[task] # <<>>
  /\ state' = IF err THEN "0" ELSE state
  /\ task' = task + 1
  /\ scan' = "task"
  /\ UNCHANGED <<err, up, ignored, failed>>

\* Mutant: up is set only for a good scrape.
EndScanQuiet ==
  /\ scan = "task"
  /\ task > ntasks
  /\ up' = IF state = "1" THEN state ELSE up
  /\ scan' = "over"
  /\ UNCHANGED <<task, err, state, ignored, failed>>

EndScan ==
  /\ scan = "task"
  /\ task > ntasks
  /\ up' = state
  /\ scan' = "over"
  /\ UNCHANGED <<task, err, state, ignored, failed>>

ScanStep == BeginScan \/ TaskErr \/ BeginHandlers \/ Handle \/ Handled \/ EndScan

CNext ==
  \/ Next /\ UNCHANGED scanVars
  \/ ScanStep /\ UNCHANGED vars

CSpec == CInit /\ [][CNext]_cvars /\ Fairness /\ WF_cvars(ScanStep /\ UNCHANGED vars)

-----------------------------------------------------------------------------
(* Properties.                                                             *)

CTypeOK ==
  /\ scan \in {"off", "task", "handlers", "over"}
  /\ task \in 1..(MaxTasks + 1)
  /\ err \in BOOLEAN
  /\ state \in {"0", "1"}
  /\ up \in {"none", "0", "1", "2"}
  /\ ignored \in BOOLEAN
  /\ failed \in [1..MaxTasks -> Seq(BOOLEAN)]

Last(s) == s[Len(s)]

\* The loop never looks at a task that has not run: whatever the workers do,
\* the Err and Body it reads are those the task's call returned.
\* (exporter.go:508-509, pool.go:61-77)
ScanReadsResults ==
  scan # "off" => \A t \in 1..ntasks : result[t] # Unset

\* up = 1 says that every call succeeded and every task was handled, the last
\* handler of each without an error; an earlier handler of a task with two may
\* have failed.  (exporter.go:531-544)
UpMeansAllHandled ==
  up = "1" => \A t \in 1..ntasks :
    result[t] = "ok" /\ failed[t] # <<>> /\ ~Last(failed[t])

\* The other way round: up is less than 1 only because a call or a task's last
\* handler failed, and only a failed call puts the host on the list.
\* (exporter.go:512-524, 535-537)
DownHasCause ==
  /\ up = "0" => \E t \in 1..ntasks :
       result[t] = "err" \/ (failed[t] # <<>> /\ Last(failed[t]))
  /\ up = "2" <=> ignored
  /\ ignored => \E t \in 1..ntasks : result[t] = "err"

\* So up tells how the scrape went, in both directions.
UpExplained == UpMeansAllHandled /\ DownHasCause

\* What up = 1 is said to mean, a successful scrape: no handler of any task has
\* failed.  The code does not keep this up, for of several handlers of one body
\* only the last one's error is left in err.  (exporter.go:531-533)
UpMeansSuccessful ==
  up = "1" => \A t \in 1..ntasks : \A n \in DOMAIN failed[t] : ~failed[t][n]

\* What a scrape with a failed call exports: everything of the tasks before
\* it in the list and nothing of the tasks after it, although they have run.
\* (exporter.go:509-529)
PartialSeries ==
  scan = "over" => \A t \in 1..ntasks :
    failed[t] # <<>> <=> \A u \in 1..t : result[u] = "ok"

\* Collect sets up, whatever the device's answers are: it never hangs on the
\* pool once that is called.  (exporter.go:469-488)
UpReported == runner = "spawn" ~> up # "none"
=============================================================================
