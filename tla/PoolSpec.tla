------------------------------ MODULE PoolSpec ------------------------------
(***************************************************************************)
(* What pool.Pool promises its caller (src/pool/pool.go:61): Run runs all  *)
(* the work of the pool, each task once, and blocks until it is finished.  *)
(* Workers, channel and WaitGroup are hidden.                              *)
(***************************************************************************)
EXTENDS Naturals

CONSTANTS MaxTasks,   \* bound: tasks a pool may be given
          Unset       \* a task that has no result yet

Results == {"ok", "err"}

VARIABLES phase,     \* "idle", "running" or "returned"
          todo,      \* the tasks that have no result yet
          outcome    \* what each task returned

svars == <<phase, todo, outcome>>

SInit ==
  /\ phase = "idle"
  /\ todo = {}
  /\ outcome = [t \in 1..MaxTasks |-> Unset]

\* A caller that still builds the pool hands in one more task.
SAdd ==
  /\ phase = "idle"
  /\ \E t \in (1..MaxTasks) \ todo : todo' = todo \cup {t}
  /\ UNCHANGED <<phase, outcome>>

SStart ==
  /\ phase = "idle"
  /\ phase' = "running"
  /\ UNCHANGED <<todo, outcome>>

\* One task of the pool runs and keeps its result.
SDo ==
  /\ phase = "running"
  /\ \E t \in todo, r \in Results :
       /\ todo' = todo \ {t}
       /\ outcome' = [outcome EXCEPT ![t] = r]
  /\ UNCHANGED phase

\* Run returns, which it may do only when no work is left.
SReturn ==
  /\ phase = "running"
  /\ todo = {}
  /\ phase' = "returned"
  /\ UNCHANGED <<todo, outcome>>

SNext == SAdd \/ SStart \/ SDo \/ SReturn

SSpec == SInit /\ [][SNext]_svars /\ WF_svars(SDo \/ SReturn)
=============================================================================
