----------------------------- MODULE PoolProofs -----------------------------
(***************************************************************************)
(* Proofs about the worker pool, for every number of workers and tasks.    *)
(* The inductive invariant ties the WaitGroup's counter to the tasks that  *)
(* are still to be sent or in a worker's hands.  The second part is about  *)
(* the loop over the tasks that Run has left behind, which leaves the      *)
(* pool's variables alone.                                                 *)
(***************************************************************************)
EXTENDS Collector, TLAPS, FiniteSetTheorems

\* No two workers hold one task; a held task has been sent and, until it has
\* run, has no result; a task that has been sent is held or has its result.
HeldOK ==
  /\ \A w \in Workers : Busy(w) => held[w] \in 1..(next - 1) /\ held[w] <= ntasks
  /\ \A v, w \in Workers : Busy(v) /\ Busy(w) /\ held[v] = held[w] => v = w
  /\ \A w \in Workers : worker[w] = "run" => result[held[w]] = Unset
  /\ \A t \in 1..MaxTasks : t >= next => result[t] = Unset
  /\ \A t \in 1..ntasks :
       t < next /\ result[t] = Unset =>
         \E w \in Workers : worker[w] = "run" /\ held[w] = t

\* Where Run is and what it has done so far.
RunnerOK ==
  /\ next <= ntasks + 1
  /\ runner \in {"idle", "spawn"} => next = 1 /\ wg = 0
  /\ runner \in {"wait", "returned"} => next = ntasks + 1
  /\ runner \in {"send", "wait", "returned"} => wg = Cardinality(Unaccounted)
  /\ runner = "returned" => Unaccounted = {}

IInv == TypeOK /\ HeldOK /\ RunnerOK

-----------------------------------------------------------------------------

LEMMA UnaccountedFinite ==
  ASSUME TypeOK
  PROVE  IsFiniteSet(Unaccounted)
<1> DEFINE S == 0..MaxTasks
<1>1. IsFiniteSet(S)
  BY FS_Interval, MaxTasksAssumption
<1>2. Unaccounted \subseteq S
  BY MaxTasksAssumption DEF Unaccounted, TypeOK, Busy
<1> QED BY <1>1, <1>2, FS_Subset

\* The variables of Pool keep their types.
LEMMA TypeStep == TypeOK /\ RunnerOK /\ HeldOK /\ [Next]_vars => TypeOK'
<1> SUFFICES ASSUME TypeOK, RunnerOK, HeldOK, [Next]_vars PROVE TypeOK'
  OBVIOUS
<1> USE ConcurrencyAssumption, MaxTasksAssumption DEF TypeOK, Workers, Results
<1>1. CASE AddTask BY <1>1 DEF AddTask
<1>2. CASE CallRun BY <1>2 DEF CallRun
<1>3. CASE Spawn BY <1>3 DEF Spawn
<1>4. CASE WgAdd BY <1>4 DEF WgAdd
<1>5. CASE CloseChan BY <1>5 DEF CloseChan
<1>6. CASE WaitReturns BY <1>6 DEF WaitReturns
<1>7. ASSUME NEW w \in Workers, Handover(w) PROVE TypeOK'
  BY <1>7 DEF Handover
<1>8. ASSUME NEW w \in Workers, RunTask(w) PROVE TypeOK'
  BY <1>8 DEF RunTask
<1>9. ASSUME NEW w \in Workers, Done(w) PROVE TypeOK'
  BY <1>9 DEF Done
<1>10. ASSUME NEW w \in Workers, WorkerExit(w) PROVE TypeOK'
  BY <1>10 DEF WorkerExit
<1>11. CASE UNCHANGED vars BY <1>11 DEF vars
<1> QED BY <1>1, <1>2, <1>3, <1>4, <1>5, <1>6, <1>7, <1>8, <1>9, <1>10, <1>11
        DEF Next, RunStep, WorkStep

\* Every step keeps the workers' hold on the tasks.
LEMMA HeldStep == IInv /\ TypeOK' /\ [Next]_vars => HeldOK'
<1> SUFFICES ASSUME IInv, TypeOK', [Next]_vars PROVE HeldOK'
  OBVIOUS
<1> USE ConcurrencyAssumption, MaxTasksAssumption, UnsetAssumption
    DEF IInv, TypeOK, Workers, HeldOK, Busy
<1>1. CASE AddTask BY <1>1 DEF AddTask, RunnerOK
<1>2. CASE CallRun BY <1>2 DEF CallRun
<1>3. CASE Spawn
  <2>1. \A w \in Workers : ~Busy(w)
    BY <1>3 DEF Spawn, RunnerOK
  <2>2. \A w \in Workers : ~Busy(w)'
    BY <1>3, <2>1 DEF Spawn
  <2> QED BY <1>3, <2>1, <2>2 DEF Spawn
<1>4. CASE WgAdd BY <1>4 DEF WgAdd
<1>5. CASE CloseChan BY <1>5 DEF CloseChan
<1>6. CASE WaitReturns BY <1>6 DEF WaitReturns
<1>7. ASSUME NEW w \in Workers, Handover(w) PROVE HeldOK'
  BY <1>7 DEF Handover
<1>8. ASSUME NEW w \in Workers, RunTask(w) PROVE HeldOK'
  BY <1>8 DEF RunTask, Results
<1>9. ASSUME NEW w \in Workers, Done(w) PROVE HeldOK'
  BY <1>9 DEF Done
<1>10. ASSUME NEW w \in Workers, WorkerExit(w) PROVE HeldOK'
  BY <1>10 DEF WorkerExit
<1>11. CASE UNCHANGED vars BY <1>11 DEF vars
<1> QED BY <1>1, <1>2, <1>3, <1>4, <1>5, <1>6, <1>7, <1>8, <1>9, <1>10, <1>11
        DEF Next, RunStep, WorkStep

\* The counter follows the set of unaccounted tasks.
LEMMA RunnerStep == IInv /\ TypeOK' /\ HeldOK' /\ [Next]_vars => RunnerOK'
<1> SUFFICES ASSUME IInv, TypeOK', HeldOK', [Next]_vars PROVE RunnerOK'
  OBVIOUS
<1> USE ConcurrencyAssumption, MaxTasksAssumption DEF IInv, TypeOK, Workers
<1>f. IsFiniteSet(Unaccounted)
  BY UnaccountedFinite
<1>1. CASE AddTask
  BY <1>1 DEF AddTask, RunnerOK
<1>2. CASE CallRun
  BY <1>2 DEF CallRun, RunnerOK
<1>3. CASE Spawn
  BY <1>3 DEF Spawn, RunnerOK
<1>4. CASE WgAdd
  <2>1. /\ runner' = "send" /\ wg' = ntasks /\ next' = 1 /\ ntasks' = ntasks
        /\ \A w \in Workers : ~Busy(w)'
    BY <1>4 DEF WgAdd, RunnerOK, HeldOK, Busy
  <2>2. Unaccounted' = 1..ntasks
    BY <2>1 DEF Unaccounted
  <2>3. Cardinality(1..ntasks) = ntasks
    BY FS_Interval
  <2> QED BY <2>1, <2>2, <2>3 DEF RunnerOK
<1>5. CASE CloseChan
  <2>1. Unaccounted' = Unaccounted
    BY <1>5 DEF CloseChan, Unaccounted, Busy
  <2> QED BY <1>5, <2>1 DEF CloseChan, RunnerOK
<1>6. CASE WaitReturns
  <2>1. Unaccounted' = Unaccounted
    BY <1>6 DEF WaitReturns, Unaccounted, Busy
  <2>2. Unaccounted = {}
    BY <1>6, <1>f, FS_EmptySet DEF WaitReturns, RunnerOK
  <2> QED BY <1>6, <2>1, <2>2 DEF WaitReturns, RunnerOK
<1>7. ASSUME NEW w \in Workers, Handover(w) PROVE RunnerOK'
  <2>1. \A t \in 1..MaxTasks : t \in Unaccounted' <=> t \in Unaccounted
    <3> SUFFICES ASSUME NEW t \in 1..MaxTasks
                 PROVE  t \in Unaccounted' <=> t \in Unaccounted
      OBVIOUS
    <3>1. ~Busy(w) /\ Busy(w)' /\ held'[w] = next
      BY <1>7 DEF Handover, Busy
    <3>2. \A v \in Workers \ {w} : Busy(v)' = Busy(v) /\ held'[v] = held[v]
      BY <1>7 DEF Handover, Busy
    <3>3. next <= ntasks /\ next' = next + 1 /\ ntasks' = ntasks
      BY <1>7 DEF Handover
    <3>4. (\E v \in Workers : Busy(v)' /\ held'[v] = t)
            <=> t = next \/ \E v \in Workers : Busy(v) /\ held[v] = t
      BY <3>1, <3>2
    <3> QED BY <3>3, <3>4 DEF Unaccounted
  <2>2. Unaccounted' = Unaccounted
    BY <2>1 DEF Unaccounted
  <2> QED BY <1>7, <2>2 DEF Handover, RunnerOK
<1>8. ASSUME NEW w \in Workers, RunTask(w) PROVE RunnerOK'
  <2>1. Unaccounted' = Unaccounted
    <3>1. \A v \in Workers : Busy(v)' <=> Busy(v)
      BY <1>8 DEF RunTask, Busy
    <3> QED BY <1>8, <3>1 DEF RunTask, Unaccounted
  <2> QED BY <1>8, <2>1 DEF RunTask, RunnerOK
<1>9. ASSUME NEW w \in Workers, Done(w) PROVE RunnerOK'
  <2>0. Busy(w) /\ held[w] \in 1..(next - 1) /\ held[w] <= ntasks
    BY <1>9 DEF Done, Busy, HeldOK
  <2>1. Busy(w) /\ held[w] \in Unaccounted
    BY <2>0 DEF Unaccounted
  <2>2. Unaccounted' = Unaccounted \ {held[w]}
    <3>1. \A v \in Workers : Busy(v)' <=> Busy(v) /\ v # w
      BY <1>9 DEF Done, Busy
    <3>2. \A v \in Workers \ {w} : held'[v] = held[v]
      BY <1>9 DEF Done
    <3>3. \A v \in Workers : Busy(v) /\ v # w => held[v] # held[w]
      BY <2>1 DEF HeldOK
    <3>4. held[w] < next /\ held[w] \in 1..MaxTasks
      BY <2>0
    <3>5. next' = next /\ ntasks' = ntasks
      BY <1>9 DEF Done
    <3>6. \A t \in 1..MaxTasks :
            (\E v \in Workers : Busy(v)' /\ held'[v] = t)
              <=> t # held[w] /\ \E v \in Workers : Busy(v) /\ held[v] = t
      BY <2>1, <3>1, <3>2, <3>3
    <3>7. ASSUME NEW t \in 1..MaxTasks
          PROVE  t \in Unaccounted' <=> t \in Unaccounted /\ t # held[w]
      <4>1. next' <= t /\ t <= ntasks' <=> next <= t /\ t <= ntasks /\ t # held[w]
        BY <3>4, <3>5
      <4>2. t \in Unaccounted' <=>
              (next' <= t /\ t <= ntasks') \/ \E v \in Workers : Busy(v)' /\ held'[v] = t
        BY DEF Unaccounted
      <4> QED BY <4>1, <4>2, <3>6 DEF Unaccounted
    <3> QED BY <3>7 DEF Unaccounted
  <2>3. Cardinality(Unaccounted') = Cardinality(Unaccounted) - 1
    BY <1>f, <2>1, <2>2, FS_RemoveElement
  <2>4. runner' = runner /\ wg' = wg - 1 /\ next' = next /\ ntasks' = ntasks
    BY <1>9 DEF Done
  <2>5. runner \notin {"idle", "spawn"}
    BY <2>1 DEF RunnerOK, HeldOK
  <2> QED BY <2>1, <2>2, <2>3, <2>4, <2>5 DEF RunnerOK
<1>10. ASSUME NEW w \in Workers, WorkerExit(w) PROVE RunnerOK'
  <2>1. Unaccounted' = Unaccounted
    <3>1. \A v \in Workers : Busy(v)' <=> Busy(v)
      BY <1>10 DEF WorkerExit, Busy
    <3> QED BY <1>10, <3>1 DEF WorkerExit, Unaccounted
  <2> QED BY <1>10, <2>1 DEF WorkerExit, RunnerOK
<1>11. CASE UNCHANGED vars
  <2>1. Unaccounted' = Unaccounted
    BY <1>11 DEF vars, Unaccounted, Busy
  <2> QED BY <1>11, <2>1 DEF vars, RunnerOK
<1> QED BY <1>1, <1>2, <1>3, <1>4, <1>5, <1>6, <1>7, <1>8, <1>9, <1>10, <1>11
        DEF Next, RunStep, WorkStep

LEMMA IInvInit == Init => IInv
<1> SUFFICES ASSUME Init PROVE IInv
  OBVIOUS
<1> USE ConcurrencyAssumption, MaxTasksAssumption DEF Init, Workers
<1>1. TypeOK
  <2>1. worker \in [Workers -> {"none", "recv", "run", "ran", "exited"}]
    OBVIOUS
  <2>2. held \in [Workers -> 0..MaxTasks]
    OBVIOUS
  <2>3. result \in [1..MaxTasks -> Results \cup {Unset}]
    OBVIOUS
  <2>4. /\ runner \in {"idle", "spawn", "send", "wait", "returned"}
        /\ ntasks \in 0..MaxTasks
        /\ spawned \in 0..Concurrency
        /\ next \in 1..(MaxTasks + 1)
        /\ wg \in Int
    OBVIOUS
  <2>5. closed \in BOOLEAN
    BY Zenon
  <2> HIDE DEF Init
  <2> QED BY <2>1, <2>2, <2>3, <2>4, <2>5 DEF TypeOK
<1>2. \A w \in Workers : ~Busy(w) BY DEF Busy
<1>3. HeldOK BY <1>2 DEF HeldOK, Busy
<1>4. RunnerOK BY DEF RunnerOK
<1> QED BY <1>1, <1>3, <1>4 DEF IInv

\* The inductive invariant of the pool holds throughout every run.
THEOREM PoolInvariant == Spec => []IInv
<1>1. IInv /\ [Next]_vars => IInv'
  BY TypeStep, HeldStep, RunnerStep DEF IInv
<1> QED BY <1>1, IInvInit, PTL DEF Spec

\* Every variable keeps its type, for every number of workers and tasks.
THEOREM PoolTypeOK == Spec => []TypeOK
<1>1. IInv => TypeOK BY DEF IInv
<1> QED BY <1>1, PoolInvariant, PTL

\* When Run returns, every task of the pool has stored its result and no worker
\* holds one, so scrape() may read Task.Err without further synchronisation.
THEOREM PoolReturnedMeansAllRan == Spec => []ReturnedMeansAllRan
<1>1. IInv => ReturnedMeansAllRan
  <2> SUFFICES ASSUME IInv, runner = "returned"
               PROVE  /\ \A t \in 1..ntasks : result[t] # Unset
                      /\ \A w \in Workers : ~Busy(w)
    BY DEF ReturnedMeansAllRan
  <2>1. Unaccounted = {} /\ next = ntasks + 1
    BY DEF IInv, RunnerOK
  <2>2. ASSUME NEW w \in Workers, Busy(w) PROVE FALSE
    <3>1. held[w] \in 1..MaxTasks
      BY <2>1, <2>2, MaxTasksAssumption DEF IInv, HeldOK, TypeOK
    <3> QED BY <2>1, <2>2, <3>1 DEF Unaccounted
  <2>3. ASSUME NEW t \in 1..ntasks, result[t] = Unset PROVE FALSE
    BY <2>1, <2>2, <2>3, MaxTasksAssumption DEF IInv, HeldOK, TypeOK, Busy
  <2> QED BY <2>2, <2>3
<1> QED BY <1>1, PoolInvariant, PTL

\* A task's result, once stored, is never written again.
THEOREM PoolResultWrittenOnce == Spec => ResultWrittenOnce
<1>1. IInv /\ [Next]_vars =>
        [\A t \in 1..MaxTasks : result[t] # Unset => result'[t] = result[t]]_vars
  <2> SUFFICES ASSUME IInv, Next, NEW t \in 1..MaxTasks, result[t] # Unset
               PROVE  result'[t] = result[t]
    OBVIOUS
  <2>1. ASSUME NEW w \in Workers, RunTask(w) PROVE result'[t] = result[t]
    BY <2>1 DEF RunTask, IInv, HeldOK, TypeOK
  <2>2. CASE ~\E w \in Workers : RunTask(w)
    BY <2>2 DEF Next, AddTask, CallRun, RunStep, Spawn, WgAdd, CloseChan,
                WaitReturns, WorkStep, Handover, Done, WorkerExit
  <2> QED BY <2>1, <2>2
<1> QED BY <1>1, PoolInvariant, PTL DEF Spec, ResultWrittenOnce

\* The WaitGroup counts the unaccounted tasks and never goes below zero.
THEOREM PoolWgCountsUnaccounted == Spec => []WgCountsUnaccounted
<1>1. IInv => WgCountsUnaccounted
  <2> SUFFICES ASSUME IInv PROVE WgCountsUnaccounted
    OBVIOUS
  <2>1. IsFiniteSet(Unaccounted) /\ Cardinality(Unaccounted) \in Nat
    BY UnaccountedFinite, FS_CardinalityType DEF IInv
  <2>2. runner \in {"send", "wait", "returned"} => wg = Cardinality(Unaccounted)
    BY DEF IInv, RunnerOK
  <2>3. wg >= 0
    <3>1. CASE runner \in {"send", "wait", "returned"} BY <3>1, <2>1, <2>2
    <3>2. CASE runner \in {"idle", "spawn"} BY <3>2 DEF IInv, RunnerOK
    <3> QED BY <3>1, <3>2 DEF IInv, TypeOK
  <2> QED BY <2>2, <2>3 DEF WgCountsUnaccounted
<1> QED BY <1>1, PoolInvariant, PTL

-----------------------------------------------------------------------------
(* The order in which the tasks are run.                                   *)

\* The tasks before t that have no result yet.
Behind(t) == {u \in 1..(t - 1) : result[u] = Unset}

\* When a task has been sent, fewer than Concurrency earlier ones are unfinished:
\* its receiver held none of them, and no two of the others hold the same.
OrderOK == \A t \in 1..MaxTasks : t < next => Cardinality(Behind(t)) < Concurrency

LEMMA BehindFinite ==
  ASSUME NEW t \in 1..MaxTasks
  PROVE  IsFiniteSet(Behind(t)) /\ Cardinality(Behind(t)) \in Nat
<1>1. IsFiniteSet(1..(t - 1))
  BY FS_Interval, MaxTasksAssumption
<1>2. Behind(t) \subseteq 1..(t - 1)
  BY DEF Behind
<1>3. IsFiniteSet(Behind(t))
  BY <1>1, <1>2, FS_Subset
<1> QED BY <1>3, FS_CardinalityType

\* A task that Run sends to worker w while the others hold the unfinished ones.
LEMMA FewBehindNext ==
  ASSUME IInv, NEW w \in Workers, Handover(w)
  PROVE  Cardinality(Behind(next)) < Concurrency
<1> DEFINE S == Behind(next)
           T == Workers \ {w}
           Holder(u) == CHOOSE v \in Workers : worker[v] = "run" /\ held[v] = u
           f == [u \in S |-> Holder(u)]
<1>1. next \in 1..MaxTasks /\ worker[w] = "recv" /\ next <= ntasks /\ ntasks \in 0..MaxTasks
  BY MaxTasksAssumption DEF IInv, TypeOK, Handover
<1>2. ASSUME NEW u \in S PROVE \E v \in Workers : worker[v] = "run" /\ held[v] = u
  <2>1. u \in 1..ntasks /\ u < next /\ result[u] = Unset
    BY <1>1, MaxTasksAssumption DEF Behind
  <2> QED BY <2>1 DEF IInv, HeldOK
<1>3. ASSUME NEW u \in S PROVE f[u] \in T /\ held[f[u]] = u
  <2>1. Holder(u) \in Workers /\ worker[Holder(u)] = "run" /\ held[Holder(u)] = u
    BY <1>2
  <2>2. f[u] = Holder(u)
    OBVIOUS
  <2> QED BY <2>1, <2>2, <1>1
<1>4. f \in Injection(S, T)
  <2>1. f \in [S -> T]
    BY <1>3
  <2>2. ASSUME NEW a \in S, NEW b \in S, f[a] = f[b] PROVE a = b
    BY <1>3, <2>2
  <2> HIDE DEF f, S, T
  <2>3. IsInjective(f)
    BY <2>1, <2>2 DEF IsInjective
  <2> QED BY <2>1, <2>3 DEF Injection
<1>5. IsFiniteSet(Workers) /\ Cardinality(Workers) = Concurrency
  BY FS_Interval, ConcurrencyAssumption DEF Workers
<1>6. IsFiniteSet(T) /\ Cardinality(T) = Concurrency - 1
  BY <1>5, FS_RemoveElement
<1>7. Cardinality(S) <= Concurrency - 1
  <2> HIDE DEF f, S, T
  <2> QED BY <1>4, <1>6, FS_Injection
<1>8. Cardinality(S) \in Nat
  BY <1>1, BehindFinite
<1> QED BY <1>7, <1>8, ConcurrencyAssumption

LEMMA OrderStep == IInv /\ IInv' /\ OrderOK /\ [Next]_vars => OrderOK'
<1> SUFFICES ASSUME IInv, IInv', OrderOK, [Next]_vars,
                    NEW t \in 1..MaxTasks, t < next'
             PROVE  Cardinality(Behind(t)') < Concurrency
  BY DEF OrderOK
<1>1. \A u \in 1..MaxTasks : result[u] # Unset => result'[u] # Unset
  <2>1. ASSUME NEW w \in Workers, RunTask(w), NEW u \in 1..MaxTasks, result[u] # Unset
        PROVE  result'[u] # Unset
    BY <2>1, UnsetAssumption DEF RunTask, Results, IInv, TypeOK
  <2>2. CASE ~\E w \in Workers : RunTask(w)
    BY <2>2 DEF Next, AddTask, CallRun, RunStep, Spawn, WgAdd, CloseChan,
                WaitReturns, WorkStep, Handover, Done, WorkerExit, vars
  <2> QED BY <2>1, <2>2
<1>2. Behind(t)' \subseteq Behind(t)
  BY <1>1, MaxTasksAssumption DEF Behind
<1>3. Cardinality(Behind(t)') <= Cardinality(Behind(t))
  BY <1>2, BehindFinite, FS_Subset
<1>4. Cardinality(Behind(t)) < Concurrency
  <2>1. CASE t < next
    BY <2>1 DEF OrderOK
  <2>2. CASE ~(t < next)
    <3>1. next' > next
      BY <2>2, MaxTasksAssumption DEF IInv, TypeOK
    <3>2. PICK w \in Workers : Handover(w)
      BY <3>1 DEF Next, AddTask, CallRun, RunStep, Spawn, WgAdd, CloseChan,
                  WaitReturns, WorkStep, RunTask, Done, WorkerExit, vars,
                  IInv, TypeOK
    <3>3. t = next
      BY <2>2, <3>2, MaxTasksAssumption DEF Handover, IInv, TypeOK
    <3> QED BY <3>2, <3>3, FewBehindNext
  <2> QED BY <2>1, <2>2
<1>5. Cardinality(Behind(t)) \in Nat /\ Cardinality(Behind(t)') \in Nat
  <2>1. IsFiniteSet(Behind(t)')
    BY <1>2, BehindFinite, FS_Subset
  <2> QED BY <2>1, BehindFinite, FS_CardinalityType
<1> QED BY <1>3, <1>4, <1>5, ConcurrencyAssumption

\* The tasks run in the order of the list, with fewer than Concurrency earlier
\* ones unfinished when a task has run; with one worker the order is strict.
THEOREM PoolRunsInOrder == Spec => []RunsInOrder
<1>1. Init => OrderOK
  BY MaxTasksAssumption DEF Init, OrderOK
<1>2. IInv /\ OrderOK => RunsInOrder
  <2> SUFFICES ASSUME IInv, OrderOK, NEW t \in 1..MaxTasks, result[t] # Unset
               PROVE  Cardinality({u \in 1..t : result[u] = Unset}) < Concurrency
    BY DEF RunsInOrder
  <2>1. t < next
    BY MaxTasksAssumption DEF IInv, HeldOK, TypeOK
  <2>2. {u \in 1..t : result[u] = Unset} = Behind(t)
    BY MaxTasksAssumption DEF Behind
  <2> QED BY <2>1, <2>2 DEF OrderOK
<1>3. IInv /\ IInv' /\ OrderOK /\ [Next]_vars => OrderOK'
  BY OrderStep
<1> QED BY <1>1, <1>2, <1>3, PoolInvariant, PTL DEF Spec

-----------------------------------------------------------------------------
(* The safety part of the refinement: every step of the pool is a step of  *)
(* PoolSpec or leaves its variables alone.                                 *)

LEMMA RefinementInit == Init => Abstract!SInit
  BY MaxTasksAssumption DEF Init, Abstract!SInit

LEMMA RefinementStep == IInv /\ [Next]_vars => [Abstract!SNext]_Abstract!svars
<1> SUFFICES ASSUME IInv, [Next]_vars PROVE [Abstract!SNext]_Abstract!svars
  OBVIOUS
<1> USE ConcurrencyAssumption, MaxTasksAssumption, UnsetAssumption
    DEF IInv, TypeOK, Workers, Results, Abstract!svars
<1> DEFINE todo == {t \in 1..ntasks : result[t] = Unset}
<1>1. CASE AddTask
  <2>1. ntasks + 1 \in (1..MaxTasks) \ todo
    BY <1>1 DEF AddTask
  <2>2. result[ntasks + 1] = Unset
    BY <1>1, <2>1 DEF AddTask, HeldOK, RunnerOK
  <2>3. todo' = todo \cup {ntasks + 1}
    BY <1>1, <2>2 DEF AddTask
  <2> QED BY <1>1, <2>1, <2>3 DEF AddTask, Abstract!SNext, Abstract!SAdd
<1>2. CASE CallRun
  BY <1>2 DEF CallRun, Abstract!SNext, Abstract!SStart
<1>3. CASE Spawn BY <1>3 DEF Spawn
<1>4. CASE WgAdd BY <1>4 DEF WgAdd
<1>5. CASE CloseChan BY <1>5 DEF CloseChan
<1>6. CASE WaitReturns
  <2>1. Unaccounted = {} /\ next = ntasks + 1
    BY <1>6, UnaccountedFinite, FS_EmptySet DEF WaitReturns, RunnerOK
  <2>2. todo = {}
    BY <2>1 DEF Unaccounted, HeldOK, Busy
  <2> QED BY <1>6, <2>2 DEF WaitReturns, Abstract!SNext, Abstract!SReturn
<1>7. ASSUME NEW w \in Workers, Handover(w) PROVE UNCHANGED Abstract!svars
  BY <1>7 DEF Handover
<1>8. ASSUME NEW w \in Workers, RunTask(w) PROVE Abstract!SDo
  <2>1. held[w] \in todo /\ runner \in {"send", "wait"}
    BY <1>8 DEF RunTask, HeldOK, RunnerOK, Unaccounted, Busy
  <2>2. PICK r \in Results : result' = [result EXCEPT ![held[w]] = r]
    BY <1>8 DEF RunTask
  <2>3. todo' = todo \ {held[w]} /\ runner' = runner
    BY <1>8, <2>1, <2>2 DEF RunTask
  <2> QED BY <2>1, <2>2, <2>3 DEF Abstract!SDo, Abstract!Results
<1>9. ASSUME NEW w \in Workers, Done(w) PROVE UNCHANGED Abstract!svars
  BY <1>9 DEF Done
<1>10. ASSUME NEW w \in Workers, WorkerExit(w) PROVE UNCHANGED Abstract!svars
  BY <1>10 DEF WorkerExit
<1>11. CASE UNCHANGED vars BY <1>11 DEF vars
<1> QED BY <1>1, <1>2, <1>3, <1>4, <1>5, <1>6, <1>7, <1>8, <1>9, <1>10, <1>11
        DEF Next, RunStep, WorkStep, Abstract!SNext

\* Every run of the pool is a run of PoolSpec without its fairness: all the work
\* is done, each task once, before Run returns.
THEOREM PoolRefinesPoolSpec == Spec => Abstract!SInit /\ [][Abstract!SNext]_Abstract!svars
  BY RefinementInit, RefinementStep, PoolInvariant, PTL DEF Spec

-----------------------------------------------------------------------------
(* The loop over the tasks.                                                *)

\* What the loop knows of the tasks: those before it are handled, those after
\* it are not, and the variables err and state are about the ones before.
LoopOK ==
  /\ \A t \in 1..MaxTasks : t < task => result[t] = "ok" /\ failed[t] # <<>>
  /\ \A t \in 1..MaxTasks : t > task => failed[t] = <<>>
  /\ scan # "handlers" => \A t \in 1..MaxTasks : t = task => failed[t] = <<>>
  /\ scan = "handlers" => /\ task <= ntasks /\ result[task] = "ok"
                          /\ failed[task] # <<>> => err = Last(failed[task])
  /\ state = "1" <=> \A t \in 1..MaxTasks : t < task => ~Last(failed[t])

\* Where the loop is, and the outcomes it may have.
ScanOK ==
  /\ scan = "off" => task = 1
  /\ scan # "off" => runner = "returned"
  /\ task <= ntasks + 1
  /\ scan # "over" => up = "none" /\ ignored = FALSE
  /\ scan = "over" =>
       \/ task > ntasks /\ up = state /\ ignored = FALSE
       \/ /\ task <= ntasks /\ result[task] = "err"
          /\ \/ ignored = TRUE /\ up = "2"
             \/ ignored = FALSE /\ up = "0"

CInv == CTypeOK /\ ScanOK /\ LoopOK

-----------------------------------------------------------------------------

\* The composition runs the pool as it is.
LEMMA CollectorRunsPool == CSpec => Spec
<1>1. CInit => Init
  BY DEF CInit
<1>2. [CNext]_cvars => [Next]_vars
  BY DEF CNext, cvars
<1> QED BY <1>1, <1>2, PTL DEF CSpec, Spec

LEMMA CInvInit == CInit => CInv
<1> SUFFICES ASSUME CInit PROVE CInv
  OBVIOUS
<1> USE MaxTasksAssumption, MaxHandlersAssumption DEF CInit
<1>1. CTypeOK
  <2>1. <<>> \in Seq(BOOLEAN)
    OBVIOUS
  <2>2. failed \in [1..MaxTasks -> Seq(BOOLEAN)]
    BY <2>1
  <2>3. task \in 1..(MaxTasks + 1)
    OBVIOUS
  <2>4. err \in BOOLEAN /\ ignored \in BOOLEAN
    OBVIOUS
  <2> QED BY <2>2, <2>3, <2>4 DEF CTypeOK
<1>2. ScanOK
  BY DEF ScanOK, Init
<1>3. LoopOK
  BY DEF LoopOK
<1> QED BY <1>1, <1>2, <1>3 DEF CInv

\* Once Run has returned, no step of the pool touches list or results.
LEMMA PoolStepInv ==
  IInv /\ CInv /\ Next /\ UNCHANGED scanVars => CInv'
<1> SUFFICES ASSUME IInv, CInv, Next, UNCHANGED scanVars PROVE CInv'
  OBVIOUS
<1> USE MaxTasksAssumption, ConcurrencyAssumption DEF CInv, scanVars
<1>1. CTypeOK'
  BY DEF CTypeOK
<1>2. CASE scan = "off"
  <2>1. ntasks' \in Nat
    <3>1. TypeOK'
      BY TypeStep DEF IInv
    <3> QED BY <3>1 DEF TypeOK
  <2>2. ScanOK'
    <3>1. task' = task /\ task = 1
      BY <1>2 DEF ScanOK
    <3>2. \A n \in Nat : 1 <= n + 1
      OBVIOUS
    <3>3. task' <= ntasks' + 1
      BY <2>1, <3>1, <3>2, Zenon
    <3> QED BY <1>2, <3>3 DEF ScanOK
  <2>3. LoopOK'
    BY <1>2 DEF LoopOK, ScanOK
  <2> QED BY <1>1, <2>2, <2>3
<1>3. CASE scan # "off"
  <2>1. runner = "returned" /\ \A w \in Workers : ~Busy(w)
    BY <1>3 DEF ScanOK, IInv, RunnerOK, HeldOK, Unaccounted, TypeOK
  <2>2. UNCHANGED <<runner, ntasks, result>>
    BY <2>1 DEF Next, AddTask, CallRun, RunStep, Spawn, WgAdd, CloseChan, WaitReturns,
                WorkStep, Handover, RunTask, Done, WorkerExit, Busy
  <2>3. ScanOK'
    BY <1>3, <2>2 DEF ScanOK
  <2>4. LoopOK'
    BY <1>3, <2>2 DEF LoopOK
  <2> QED BY <1>1, <2>3, <2>4
<1> QED BY <1>2, <1>3

LEMMA ScanStepInv ==
  IInv /\ ReturnedMeansAllRan /\ CInv /\ ScanStep /\ UNCHANGED vars => CInv'
<1> SUFFICES ASSUME IInv, ReturnedMeansAllRan, CInv, ScanStep, UNCHANGED vars
             PROVE  CInv'
  OBVIOUS
<1> USE MaxTasksAssumption, MaxHandlersAssumption DEF CInv, vars
<1>t. ntasks \in 0..MaxTasks
  BY DEF IInv, TypeOK
<1>1. CASE BeginScan
  BY <1>1, <1>t DEF BeginScan, CTypeOK, ScanOK, LoopOK
<1>2. CASE TaskErr
  <2>1. \/ ignored' = TRUE /\ up' = "2"
        \/ ignored' = ignored /\ up' = "0"
    BY <1>2 DEF TaskErr
  <2>2. CTypeOK'
    BY <1>2, <2>1 DEF TaskErr, CTypeOK
  <2>3. ScanOK'
    BY <1>2, <2>1, <1>t DEF TaskErr, ScanOK
  <2>4. LoopOK'
    BY <1>2 DEF TaskErr, LoopOK
  <2> QED BY <2>2, <2>3, <2>4
<1>3. CASE BeginHandlers
  <2>1. result[task] = "ok"
    BY <1>3, <1>t DEF BeginHandlers, ScanOK, ReturnedMeansAllRan, IInv, TypeOK, CTypeOK, Results
  <2>2. CTypeOK' /\ ScanOK'
    BY <1>3, <1>t DEF BeginHandlers, CTypeOK, ScanOK
  <2>3. LoopOK'
    BY <1>3, <1>t, <2>1 DEF BeginHandlers, CTypeOK, LoopOK
  <2> QED BY <2>2, <2>3
<1>4. CASE Handle
  <2>1. PICK f \in BOOLEAN : /\ failed' = [failed EXCEPT ![task] = Append(@, f)]
                             /\ err' = f
    BY <1>4 DEF Handle
  <2>2. task \in 1..MaxTasks /\ scan = "handlers"
    BY <1>4, <1>t DEF Handle, CTypeOK, LoopOK
  <2>3. /\ failed'[task] = Append(failed[task], f)
        /\ failed[task] \in Seq(BOOLEAN)
        /\ \A t \in 1..MaxTasks : t # task => failed'[t] = failed[t]
    BY <2>1, <2>2 DEF CTypeOK
  <2>4. failed'[task] # <<>> /\ Last(failed'[task]) = f
    BY <2>3 DEF Last
  <2>5. CTypeOK'
    BY <1>4, <2>1, <2>2, <2>3 DEF Handle, CTypeOK
  <2>6. ScanOK'
    BY <1>4 DEF Handle, ScanOK
  <2>7. LoopOK'
    BY <1>4, <2>1, <2>2, <2>3, <2>4 DEF Handle, LoopOK, CTypeOK
  <2> QED BY <2>5, <2>6, <2>7
<1>5. CASE Handled
  <2>1. /\ task \in 1..MaxTasks /\ scan = "handlers"
        /\ failed[task] # <<>> /\ failed[task] \in Seq(BOOLEAN)
        /\ err = Last(failed[task])
    BY <1>5, <1>t DEF Handled, CTypeOK, LoopOK
  <2>2. /\ CTypeOK'
        /\ ScanOK'
    BY <1>5, <1>t, <2>1 DEF Handled, CTypeOK, ScanOK, LoopOK
  <2>3. state' = "1" <=> state = "1" /\ ~err
    BY <1>5 DEF Handled, CTypeOK
  <2>4. LoopOK'
    BY <1>5, <1>t, <2>1, <2>3 DEF Handled, LoopOK, CTypeOK
  <2> QED BY <2>2, <2>4
<1>6. CASE EndScan
  BY <1>6, <1>t DEF EndScan, CTypeOK, ScanOK, LoopOK
<1> QED BY <1>1, <1>2, <1>3, <1>4, <1>5, <1>6 DEF ScanStep

LEMMA CollectorInvariant == CSpec => []CInv
<1>1. CSpec => []IInv /\ []ReturnedMeansAllRan
  BY CollectorRunsPool, PoolInvariant, PoolReturnedMeansAllRan, PTL
<1>2. IInv /\ ReturnedMeansAllRan /\ CInv /\ [CNext]_cvars => CInv'
  <2> SUFFICES ASSUME IInv, ReturnedMeansAllRan, CInv, [CNext]_cvars PROVE CInv'
    OBVIOUS
  <2>1. CASE UNCHANGED cvars
    BY <2>1 DEF cvars, scanVars, vars, CInv, CTypeOK, ScanOK, LoopOK
  <2> QED BY <2>1, PoolStepInv, ScanStepInv DEF CNext
<1> QED BY <1>1, <1>2, CInvInit, PTL DEF CSpec

-----------------------------------------------------------------------------

\* With the loop over the tasks behind it, too, the pool is a run of PoolSpec
\* without its fairness.  (exporter.go:504-548)
THEOREM CollectorRefinesPoolSpec == CSpec => Abstract!SInit /\ [][Abstract!SNext]_Abstract!svars
  BY CollectorRunsPool, PoolRefinesPoolSpec

\* Every variable of the loop keeps its type: it never steps past the list.
THEOREM CollectorTypeOK == CSpec => []CTypeOK
<1>1. CInv => CTypeOK
  BY DEF CInv
<1> QED BY <1>1, CollectorInvariant, PTL

\* However many workers run the tasks, the loop never reads the Err or Body of
\* one that has not run.  (exporter.go:508-509)
THEOREM CollectorScanReadsResults == CSpec => []ScanReadsResults
<1>1. CInv /\ ReturnedMeansAllRan => ScanReadsResults
  BY DEF CInv, ScanOK, ScanReadsResults, ReturnedMeansAllRan
<1>2. CSpec => []ReturnedMeansAllRan
  BY CollectorRunsPool, PoolReturnedMeansAllRan, PTL
<1> QED BY <1>1, <1>2, CollectorInvariant, PTL

\* up = 1 says that every call succeeded and the last handler of every task,
\* whatever the number of tasks and handlers.  (exporter.go:531-544)
THEOREM CollectorUpMeansAllHandled == CSpec => []UpMeansAllHandled
<1>1. IInv /\ CInv => UpMeansAllHandled
  <2> SUFFICES ASSUME IInv, CInv, up = "1", NEW t \in 1..ntasks
               PROVE  result[t] = "ok" /\ failed[t] # <<>> /\ ~Last(failed[t])
    BY DEF UpMeansAllHandled
  <2>1. scan = "over" /\ task > ntasks /\ state = "1"
    BY DEF CInv, ScanOK, CTypeOK
  <2>2. t \in 1..MaxTasks /\ t < task
    BY <2>1, MaxTasksAssumption DEF CInv, CTypeOK, IInv, TypeOK
  <2> QED BY <2>1, <2>2 DEF CInv, LoopOK
<1>2. CSpec => []IInv
  BY CollectorRunsPool, PoolInvariant, PTL
<1> QED BY <1>1, <1>2, CollectorInvariant, PTL

\* up is less than 1 only with a cause, and only a failed call puts the host on
\* the ignored list.  (exporter.go:512-524, 535-537)
THEOREM CollectorDownHasCause == CSpec => []DownHasCause
<1>1. IInv /\ CInv => DownHasCause
  <2> SUFFICES ASSUME IInv, CInv PROVE DownHasCause
    OBVIOUS
  <2>t. ntasks \in 0..MaxTasks /\ task \in 1..(MaxTasks + 1)
    BY DEF IInv, TypeOK, CInv, CTypeOK
  <2>1. CASE scan # "over"
    BY <2>1 DEF CInv, ScanOK, DownHasCause
  <2>2. CASE scan = "over" /\ task <= ntasks
    BY <2>2, <2>t DEF CInv, ScanOK, DownHasCause
  <2>3. CASE scan = "over" /\ task > ntasks
    <3>1. up = state /\ ignored = FALSE /\ task = ntasks + 1
      BY <2>3, <2>t DEF CInv, ScanOK
    <3>2. up = "0" => \E t \in 1..ntasks : failed[t] # <<>> /\ Last(failed[t])
      BY <3>1, <2>t, MaxTasksAssumption DEF CInv, LoopOK
    <3> QED BY <3>1, <3>2 DEF DownHasCause, CInv, CTypeOK
  <2> QED BY <2>t, <2>1, <2>2, <2>3
<1>2. CSpec => []IInv
  BY CollectorRunsPool, PoolInvariant, PTL
<1> QED BY <1>1, <1>2, CollectorInvariant, PTL

\* Both directions in one.  (exporter.go:512-544)
THEOREM CollectorUpExplained == CSpec => []UpExplained
<1>1. UpMeansAllHandled /\ DownHasCause => UpExplained
  BY DEF UpExplained
<1> QED BY <1>1, CollectorUpMeansAllHandled, CollectorDownHasCause, PTL

\* A scrape with a failed call exports exactly the tasks before the first that
\* failed.  (exporter.go:509-529)
THEOREM CollectorPartialSeries == CSpec => []PartialSeries
<1>1. IInv /\ CInv => PartialSeries
  <2> SUFFICES ASSUME IInv, CInv, scan = "over", NEW t \in 1..ntasks
               PROVE  failed[t] # <<>> <=> \A u \in 1..t : result[u] = "ok"
    BY DEF PartialSeries
  <2>t. ntasks \in 0..MaxTasks /\ task \in 1..(MaxTasks + 1) /\ t \in 1..MaxTasks
    BY MaxTasksAssumption DEF IInv, TypeOK, CInv, CTypeOK
  <2>1. CASE t < task
    <3>1. failed[t] # <<>>
      BY <2>1, <2>t DEF CInv, LoopOK
    <3>2. \A u \in 1..t : u \in 1..MaxTasks /\ u < task
      BY <2>1, <2>t, MaxTasksAssumption
    <3> QED BY <3>1, <3>2 DEF CInv, LoopOK
  <2>2. CASE t >= task
    <3>1. failed[t] = <<>>
      BY <2>2, <2>t DEF CInv, LoopOK
    <3>2. task \in 1..t /\ result[task] = "err"
      BY <2>2, <2>t DEF CInv, ScanOK
    <3> QED BY <3>1, <3>2
  <2> QED BY <2>1, <2>2, <2>t
<1>2. CSpec => []IInv
  BY CollectorRunsPool, PoolInvariant, PTL
<1> QED BY <1>1, <1>2, CollectorInvariant, PTL
=============================================================================
