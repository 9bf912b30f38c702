-------------------------- MODULE WorkerPoolProofs --------------------------
(***************************************************************************)
(* Proofs about WorkerPool, for any number of tasks, workers, Resize and   *)
(* Shutdown calls and any sizes.                                           *)
(***************************************************************************)
EXTENDS WorkerPool, FiniteSetTheorems, TLAPS

\* Every step of the pool is one of its actions: the case split of the proofs.
LEMMA NextCases ==
  ASSUME Next
  PROVE \/ \E w \in Workers :
             \/ Take(w) \/ WorkerDone(w)
             \/ MarkActive(w) \/ Number(w) \/ ExecuteTask(w) \/ MarkInactive(w)
             \/ CountCompleted(w) \/ Report(w) \/ IdleExit(w) \/ IdleStay(w) \/ IdleTimeout(w)
        \/ ReadResult
        \/ \E t \in Tasks :
             \/ SubmitStart(t) \/ SubmitCheck(t) \/ ScaleDecide(t) \/ ScaleSpawn(t)
             \/ SubmitSend(t) \/ SubmitCancelled(t)
        \/ \E r \in Resizers :
             \/ ResizeStore(r) \/ ResizeSpawn(r) \/ ResizeReturn(r)
             \/ \E n \in ResizeTargets : ResizeLoad(r, n)
        \/ \E c \in Closers : Stop(c) \/ Cancel(c) \/ ShutdownWait(c) \/ ShutdownWake(c)
        \/ UNCHANGED vars
BY DEF Next, Step, WorkerSelect, WorkerRun, SubmitStep, ResizeStep, ShutdownStep, Terminated

-----------------------------------------------------------------------------
\* The state NewWorkerPool leaves behind is well typed.
LEMMA TypeInit == Init => TypeOK
<1> SUFFICES ASSUME Init PROVE TypeOK
  OBVIOUS
<1>1. wpc \in [Workers -> WorkerStates]
  BY DEF Init, WorkerStates
<1>2. tasks \in Seq(Tasks) /\ Len(tasks) = 0 /\ results \in Seq(Nat) /\ Len(results) = 0
  BY DEF Init
<1>3. /\ seen \in [Workers -> Int] /\ taskID \in [Workers -> Nat]
      /\ held \in [Workers -> Tasks \cup {NoTask}]
  BY DEF Init
<1>4. /\ spc \in [Tasks -> {"idle", "check", "scale", "grow", "send", "sent", "dropped", "err"}]
      /\ grow \in [Tasks -> 0..4] /\ ran \in [Tasks -> Nat]
  BY DEF Init
<1>5. /\ rpc \in [Resizers -> {"idle", "loaded", "spawn", "done"}]
      /\ rold \in [Resizers -> Int] /\ rnew \in [Resizers -> Nat]
      /\ cpc \in [Closers -> CloserStates]
  BY DEF Init, CloserStates
<1>6. /\ numWorkers \in Int /\ active \in Int /\ submitted \in Nat /\ completed \in Nat
      /\ Len(tasks) <= QueueSize /\ Len(results) <= QueueSize
  BY <1>2, PoolAssumption DEF Init
<1>7. stopped \in BOOLEAN /\ cancelled \in BOOLEAN /\ mu \in Tasks \cup Resizers \cup {"free"}
  BY DEF Init
<1>8. QED
  BY <1>1, <1>2, <1>3, <1>4, <1>5, <1>6, <1>7 DEF TypeOK

\* Leaving the wait group wakes Shutdown calls, and nothing else of theirs.
LEMMA WGDoneType ==
  ASSUME NEW w \in Workers, cpc \in [Closers -> CloserStates], WGDone(w)
  PROVE cpc' \in [Closers -> CloserStates]
BY DEF WGDone, CloserStates

\* No step of the pool leaves the types: in particular no channel is
\* overfilled, and maybeScaleUp never counts below zero.
LEMMA TypeStep == PoolInv /\ [Next]_vars => TypeOK'
<1> SUFFICES ASSUME PoolInv, [Next]_vars PROVE TypeOK'
  OBVIOUS
<1> USE PoolAssumption DEF PoolInv, TypeOK, WorkerStates, counters, channels, flags,
                           workers, submits, resizes, CloserStates
<1>1. ASSUME NEW w \in Workers, Take(w) PROVE TypeOK'
  BY <1>1 DEF Take, WGoto
<1>2. ASSUME NEW w \in Workers, WorkerDone(w) PROVE TypeOK'
  BY <1>2, WGDoneType DEF WorkerDone, WGoto
<1>3. ASSUME NEW w \in Workers, MarkActive(w) PROVE TypeOK'
  BY <1>3 DEF MarkActive, WGoto
<1>4. ASSUME NEW w \in Workers, Number(w) PROVE TypeOK'
  BY <1>4 DEF Number, WGoto
<1>5. ASSUME NEW w \in Workers, ExecuteTask(w) PROVE TypeOK'
  <2>1. held[w] \in Tasks
    BY <1>5 DEF ExecuteTask, WGoto, TaskInv, HeldWhileBusy, HoldStates
  <2>2. QED
    BY <1>5, <2>1 DEF ExecuteTask, WGoto
<1>6. ASSUME NEW w \in Workers, MarkInactive(w) PROVE TypeOK'
  BY <1>6 DEF MarkInactive, WGoto
<1>7. ASSUME NEW w \in Workers, CountCompleted(w) PROVE TypeOK'
  BY <1>7 DEF CountCompleted, WGoto
<1>8. ASSUME NEW w \in Workers, Report(w) PROVE TypeOK'
  BY <1>8 DEF Report, WGoto
<1>9. ASSUME NEW w \in Workers, IdleExit(w) PROVE TypeOK'
  BY <1>9, WGDoneType DEF IdleExit, WGoto
<1>10. ASSUME NEW w \in Workers, IdleStay(w) PROVE TypeOK'
  BY <1>10 DEF IdleStay, WGoto
<1>11. ASSUME NEW w \in Workers, IdleTimeout(w) PROVE TypeOK'
  BY <1>11 DEF IdleTimeout, WGoto
<1>12. CASE ReadResult
  BY <1>12 DEF ReadResult
<1>13. ASSUME NEW t \in Tasks, SubmitStart(t) PROVE TypeOK'
  BY <1>13 DEF SubmitStart, SGoto
<1>14. ASSUME NEW t \in Tasks, SubmitCheck(t) PROVE TypeOK'
  BY <1>14 DEF SubmitCheck, SGoto
<1>15. ASSUME NEW t \in Tasks, ScaleDecide(t) PROVE TypeOK'
  <2>1. CASE numWorkers >= MaxWorkers
    BY <1>15, <2>1 DEF ScaleDecide, SGoto
  <2>2. CASE ~(numWorkers >= MaxWorkers)
    <3>1. ScaleBatch(numWorkers) \in 0..4
      BY <2>2 DEF ScaleBatch
    <3>2. /\ spc' = [spc EXCEPT ![t] = "grow"] /\ mu' = t
          /\ grow' = [grow EXCEPT ![t] = ScaleBatch(numWorkers)]
          /\ UNCHANGED <<counters, flags, channels, workers, resizes, cpc, ran>>
      BY <1>15, <2>2 DEF ScaleDecide, SGoto
    <3>3. QED
      BY <3>1, <3>2
  <2>3. QED
    BY <2>1, <2>2
<1>16. ASSUME NEW t \in Tasks, ScaleSpawn(t) PROVE TypeOK'
  <2>1. grow[t] \in 1..4
    BY <1>16 DEF ScaleSpawn, ScaleInv
  <2>2. grow' \in [Tasks -> 0..4]
    BY <1>16, <2>1 DEF ScaleSpawn
  <2>3. wpc' \in [Workers -> WorkerStates]
    BY <1>16 DEF ScaleSpawn, Spawn
  <2>4. spc' \in [Tasks -> {"idle", "check", "scale", "grow", "send", "sent", "dropped", "err"}]
    <3>1. spc' = [spc EXCEPT ![t] = "send"] \/ spc' = spc
      BY <1>16 DEF ScaleSpawn
    <3>2. QED
      BY <3>1
  <2>5. mu' \in Tasks \cup Resizers \cup {"free"}
    BY <1>16 DEF ScaleSpawn
  <2>6. QED
    BY <1>16, <2>2, <2>3, <2>4, <2>5 DEF ScaleSpawn, Spawn
<1>17. ASSUME NEW t \in Tasks, SubmitSend(t) PROVE TypeOK'
  BY <1>17 DEF SubmitSend, SGoto
<1>18. ASSUME NEW t \in Tasks, SubmitCancelled(t) PROVE TypeOK'
  BY <1>18 DEF SubmitCancelled, SGoto
<1>19. ASSUME NEW r \in Resizers, ResizeStore(r) PROVE TypeOK'
  BY <1>19 DEF ResizeStore, RGoto
<1>20. ASSUME NEW r \in Resizers, ResizeSpawn(r) PROVE TypeOK'
  BY <1>20 DEF ResizeSpawn, Spawn
<1>21. ASSUME NEW r \in Resizers, ResizeReturn(r) PROVE TypeOK'
  BY <1>21 DEF ResizeReturn, RGoto
<1>22. ASSUME NEW r \in Resizers, NEW n \in ResizeTargets, ResizeLoad(r, n) PROVE TypeOK'
  BY <1>22 DEF ResizeLoad, RGoto
<1>23. ASSUME NEW c \in Closers, Stop(c) PROVE TypeOK'
  BY <1>23 DEF Stop, CGoto
<1>24. ASSUME NEW c \in Closers, Cancel(c) PROVE TypeOK'
  BY <1>24 DEF Cancel, CGoto
<1>25. ASSUME NEW c \in Closers, ShutdownWait(c) \/ ShutdownWake(c) PROVE TypeOK'
  BY <1>25 DEF ShutdownWait, ShutdownWake, CGoto
<1>26. CASE UNCHANGED vars
  BY <1>26 DEF vars
<1> HIDE DEF PoolInv, TypeOK
<1>27. QED
  BY <1>1, <1>2, <1>3, <1>4, <1>5, <1>6, <1>7, <1>8, <1>9, <1>10, <1>11, <1>12,
     <1>13, <1>14, <1>15, <1>16, <1>17, <1>18, <1>19, <1>20, <1>21, <1>22,
     <1>23, <1>24, <1>25, <1>26, NextCases

-----------------------------------------------------------------------------
\* The scale-up stays under its bound because p.mu is held from the load of
\* numWorkers to the last addition, and everyone else only lowers the count
\* meanwhile.
LEMMA ScaleStep == PoolInv /\ [Next]_vars => ScaleInv' /\ WithinLimit'
<1> SUFFICES ASSUME PoolInv, [Next]_vars PROVE ScaleInv' /\ WithinLimit'
  OBVIOUS
<1> DEFINE Goal == ScaleInv' /\ WithinLimit'
<1> USE DEF PoolInv
<1>1. ASSUME UNCHANGED <<numWorkers, mu, spc, grow, rpc, rnew>> PROVE Goal
  BY <1>1 DEF ScaleInv, WithinLimit
<1>2. ASSUME NEW w \in Workers, IdleExit(w) PROVE Goal
  <2>1. numWorkers' <= numWorkers /\ numWorkers' \in Int
    BY <1>2 DEF IdleExit, TypeOK
  <2>2. UNCHANGED <<mu, spc, grow, rpc, rnew>>
    BY <1>2 DEF IdleExit, submits, resizes
  <2>3. ScaleInv'
    <3>1. grow \in [Tasks -> 0..4] /\ numWorkers \in Int
      BY DEF TypeOK
    <3>2. QED
      BY <2>1, <2>2, <3>1, PoolAssumption DEF ScaleInv
  <2>4. WithinLimit'
    BY <2>1, <2>2, PoolAssumption DEF WithinLimit, TypeOK
  <2>5. QED
    BY <2>3, <2>4
<1>3. ASSUME NEW t \in Tasks, SubmitStart(t) \/ SubmitCheck(t) \/ SubmitSend(t) \/ SubmitCancelled(t)
      PROVE Goal
  <2>1. UNCHANGED <<numWorkers, mu, grow, rpc, rnew>>
    BY <1>3 DEF SubmitStart, SubmitCheck, SubmitSend, SubmitCancelled, counters, resizes
  <2>2. \A u \in Tasks : spc'[u] = "grow" => spc[u] = "grow"
    BY <1>3 DEF SubmitStart, SubmitCheck, SubmitSend, SubmitCancelled, SGoto, TypeOK
  <2>3. QED
    BY <2>1, <2>2 DEF ScaleInv, WithinLimit
<1>4. ASSUME NEW t \in Tasks, ScaleDecide(t) PROVE Goal
  <2>1. mu = "free" /\ UNCHANGED <<numWorkers, rpc, rnew>>
    BY <1>4 DEF ScaleDecide, counters, resizes
  <2>2. (\A u \in Tasks : spc[u] # "grow") /\ (\A r \in Resizers : rpc[r] # "loaded")
    BY <2>1, PoolAssumption DEF ScaleInv
  <2>3. CASE numWorkers >= MaxWorkers
    <3>1. mu' = mu /\ \A u \in Tasks : spc'[u] # "grow"
      BY <1>4, <2>2, <2>3 DEF ScaleDecide, SGoto, TypeOK
    <3>2. QED
      BY <3>1, <2>1, <2>2 DEF ScaleInv, WithinLimit
  <2>4. CASE ~(numWorkers >= MaxWorkers)
    <3>1. /\ mu' = t /\ spc' = [spc EXCEPT ![t] = "grow"]
          /\ grow' = [grow EXCEPT ![t] = ScaleBatch(numWorkers)]
      BY <1>4, <2>4 DEF ScaleDecide, SGoto
    <3>2. ScaleBatch(numWorkers) >= 1 /\ numWorkers + ScaleBatch(numWorkers) <= MaxWorkers
      BY <2>4, PoolAssumption DEF ScaleBatch, TypeOK
    <3>3. QED
      BY <3>1, <3>2, <2>1, <2>2 DEF ScaleInv, WithinLimit, TypeOK
  <2>5. QED
    BY <2>3, <2>4
<1>5. ASSUME NEW t \in Tasks, ScaleSpawn(t) PROVE Goal
  <2>1. /\ spc[t] = "grow" /\ numWorkers' = numWorkers + 1
        /\ grow' = [grow EXCEPT ![t] = @ - 1] /\ UNCHANGED <<rpc, rnew>>
    BY <1>5 DEF ScaleSpawn, resizes
  <2>a. mu = t /\ grow[t] >= 1 /\ numWorkers + grow[t] <= MaxWorkers
    BY <2>1 DEF ScaleInv
  <2>b. grow \in [Tasks -> 0..4] /\ numWorkers \in Int
    BY DEF TypeOK
  <2>c. grow[t] \in Nat
    BY <2>b
  <2>2. /\ mu = t /\ grow[t] >= 1 /\ numWorkers + grow[t] <= MaxWorkers
        /\ grow[t] \in Nat /\ numWorkers \in Int
    BY <2>a, <2>b, <2>c
  <2>3. /\ \A u \in Tasks : spc[u] = "grow" => u = t
        /\ \A r \in Resizers : rpc[r] # "loaded"
    BY <2>2, PoolAssumption DEF ScaleInv
  <2>4. WithinLimit'
    BY <2>1, <2>2, PoolAssumption DEF WithinLimit
  <2>5. CASE grow[t] = 1
    <3>1. spc' = [spc EXCEPT ![t] = "send"]
      BY <1>5, <2>5 DEF ScaleSpawn
    <3>2. \A u \in Tasks : spc'[u] # "grow"
      BY <3>1, <2>3 DEF TypeOK
    <3>3. QED
      BY <3>2, <2>1, <2>3, <2>4 DEF ScaleInv
  <2>6. CASE grow[t] # 1
    <3>1. UNCHANGED <<mu, spc>>
      BY <1>5, <2>6 DEF ScaleSpawn
    <3>2. grow'[t] = grow[t] - 1
      BY <2>1 DEF TypeOK
    <3>3. grow'[t] >= 1 /\ numWorkers' + grow'[t] <= MaxWorkers
      BY <3>2, <2>1, <2>2, <2>6, PoolAssumption
    <3>4. QED
      BY <3>1, <3>3, <2>1, <2>2, <2>3, <2>4 DEF ScaleInv
  <2>7. QED
    BY <2>5, <2>6
<1>6. ASSUME NEW r \in Resizers, ResizeStore(r) PROVE Goal
  <2>1. /\ rpc[r] = "loaded" /\ rpc' = [rpc EXCEPT ![r] = "spawn"]
        /\ mu' = "free" /\ numWorkers' = rnew[r] /\ UNCHANGED <<spc, grow, rnew>>
    BY <1>6 DEF ResizeStore, RGoto, submits
  <2>2. mu = r /\ rnew[r] \in ResizeTargets
    BY <2>1 DEF ScaleInv
  <2>3. /\ \A u \in Tasks : spc[u] # "grow"
        /\ \A q \in Resizers : rpc[q] = "loaded" => q = r
    BY <2>2, PoolAssumption DEF ScaleInv
  <2>4. WithinLimit'
    <3>1. rnew[r] \in Nat
      BY <2>2, PoolAssumption
    <3>2. rnew[r] <= rnew[r]
      BY <3>1
    <3>3. QED
      BY <2>1, <2>2, <3>1, <3>2 DEF WithinLimit
  <2>5. \A q \in Resizers : rpc'[q] # "loaded"
    BY <2>1, <2>3 DEF TypeOK
  <2>6. QED
    BY <2>1, <2>3, <2>4, <2>5 DEF ScaleInv
<1>7. ASSUME NEW r \in Resizers, ResizeReturn(r) PROVE Goal
  <2>1. /\ rpc' = [rpc EXCEPT ![r] = "done"]
        /\ UNCHANGED <<numWorkers, mu, spc, grow, rnew>>
    BY <1>7 DEF ResizeReturn, RGoto, submits, counters
  <2>2. \A q \in Resizers : rpc'[q] = "loaded" => rpc[q] = "loaded"
    BY <2>1 DEF TypeOK
  <2>3. QED
    BY <2>1, <2>2 DEF ScaleInv, WithinLimit
<1>8. ASSUME NEW r \in Resizers, NEW n \in ResizeTargets, ResizeLoad(r, n) PROVE Goal
  <2>1. /\ mu = "free" /\ mu' = r /\ rpc' = [rpc EXCEPT ![r] = "loaded"]
        /\ rnew' = [rnew EXCEPT ![r] = n] /\ UNCHANGED <<numWorkers, spc, grow>>
    BY <1>8 DEF ResizeLoad, RGoto, submits, counters
  <2>2. (\A u \in Tasks : spc[u] # "grow") /\ (\A q \in Resizers : rpc[q] # "loaded")
    BY <2>1, PoolAssumption DEF ScaleInv
  <2>3. QED
    BY <2>1, <2>2 DEF ScaleInv, WithinLimit, TypeOK
<1>9. ASSUME NEW w \in Workers,
             \/ Take(w) \/ WorkerDone(w) \/ MarkActive(w) \/ Number(w) \/ ExecuteTask(w)
             \/ MarkInactive(w) \/ CountCompleted(w) \/ Report(w) \/ IdleStay(w) \/ IdleTimeout(w)
      PROVE Goal
  BY <1>1, <1>9 DEF Take, WorkerDone, MarkActive, Number, ExecuteTask, MarkInactive,
                    CountCompleted, Report, IdleStay, IdleTimeout, counters, submits, resizes
<1>10. ASSUME ReadResult PROVE Goal
  BY <1>1, <1>10 DEF ReadResult, counters, submits, resizes
<1>11. ASSUME NEW r \in Resizers, ResizeSpawn(r) PROVE Goal
  BY <1>1, <1>11 DEF ResizeSpawn, counters, submits
<1>12. ASSUME NEW c \in Closers, Stop(c) \/ Cancel(c) \/ ShutdownWait(c) \/ ShutdownWake(c) PROVE Goal
  BY <1>1, <1>12 DEF Stop, Cancel, ShutdownWait, ShutdownWake, counters, submits, resizes
<1>13. ASSUME UNCHANGED vars PROVE Goal
  BY <1>1, <1>13 DEF vars, counters, submits, resizes
<1> HIDE DEF Goal, PoolInv
<1>14. Goal
  BY <1>2, <1>3, <1>4, <1>5, <1>6, <1>7, <1>8, <1>9, <1>10, <1>11, <1>12, <1>13, NextCases
<1>15. QED
  BY <1>14 DEF Goal

-----------------------------------------------------------------------------
\* Most steps move no task: they leave the channel, the workers' hands and the
\* executions alone, and no program counter crosses a boundary TaskInv sees.
LEMMA TaskFrame ==
  ASSUME PoolInv,
         UNCHANGED <<tasks, held, ran>>,
         \A t \in Tasks : spc'[t] = "sent" <=> spc[t] = "sent",
         \A w \in Workers : wpc'[w] \in HoldStates <=> wpc[w] \in HoldStates,
         \A w \in Workers : wpc'[w] \in {"taken", "active", "run"}
                              <=> wpc[w] \in {"taken", "active", "run"}
  PROVE TaskInv'
<1> USE DEF PoolInv, TaskInv
<1>1. tasks \in Seq(Tasks) /\ held \in [Workers -> Tasks \cup {NoTask}]
  BY DEF TypeOK
<1>2. QueueDistinct' /\ HeldByOne'
  BY DEF QueueDistinct, HeldByOne
<1>3. QueuedFresh'
  BY <1>1 DEF QueuedFresh
<1>4. HeldWhileBusy'
  BY DEF HeldWhileBusy
<1>5. HeldSent'
  BY <1>1 DEF HeldSent
<1>6. RanSent'
  BY DEF RanSent
<1>7. SentSomewhere'
  BY DEF SentSomewhere, Queued
<1>8. QED
  BY <1>2, <1>3, <1>4, <1>5, <1>6, <1>7

\* Taking a task moves it from the head of the channel to one pair of hands.
LEMMA TakeStep == ASSUME PoolInv, NEW w \in Workers, Take(w) PROVE TaskInv'
<1> DEFINE t == Head(tasks)
<1> USE DEF PoolInv, TaskInv
<1>1. /\ tasks \in Seq(Tasks) /\ tasks # <<>>
      /\ held \in [Workers -> Tasks \cup {NoTask}] /\ wpc \in [Workers -> WorkerStates]
  BY DEF TypeOK, Take
<1>2. /\ wpc[w] = "select" /\ wpc' = [wpc EXCEPT ![w] = "taken"]
      /\ held' = [held EXCEPT ![w] = t] /\ tasks' = Tail(tasks)
      /\ UNCHANGED <<spc, ran>>
  BY DEF Take, WGoto, submits
<1>3. /\ Len(tasks') = Len(tasks) - 1 /\ Len(tasks) \in Nat /\ Len(tasks) >= 1
      /\ \A i \in 1..Len(tasks') : i + 1 \in 1..Len(tasks) /\ tasks'[i] = tasks[i + 1]
      /\ t = tasks[1] /\ t \in Tasks
  BY <1>1, <1>2
<1>4. /\ spc[t] = "sent" /\ ran[t] = 0 /\ \A v \in Workers : held[v] # t
      /\ \A i \in 1..Len(tasks') : tasks'[i] # t
  <2>1. 1 \in 1..Len(tasks)
    BY <1>3
  <2>2. QED
    BY <2>1, <1>3 DEF QueuedFresh, QueueDistinct
<1>5. held[w] = NoTask /\ t # NoTask /\ held'[w] = t
  BY <1>1, <1>2, <1>3, PoolAssumption DEF HeldWhileBusy, HoldStates
<1>6. \A v \in Workers : v # w => held'[v] = held[v] /\ wpc'[v] = wpc[v]
  BY <1>1, <1>2
<1>7. wpc'[w] = "taken"
  BY <1>1, <1>2
<1> HIDE DEF t
<1>8. QueueDistinct'
  BY <1>3 DEF QueueDistinct
<1>9. QueuedFresh'
  BY <1>2, <1>3, <1>4, <1>5, <1>6 DEF QueuedFresh
<1>10. HeldWhileBusy'
  BY <1>5, <1>6, <1>7 DEF HeldWhileBusy, HoldStates
<1>11. HeldByOne'
  BY <1>4, <1>5, <1>6 DEF HeldByOne
<1>12. HeldSent'
  BY <1>2, <1>4, <1>5, <1>6, <1>7 DEF HeldSent
<1>13. RanSent'
  BY <1>2 DEF RanSent
<1>14. SentSomewhere'
  <2>1. SUFFICES ASSUME NEW u \in Tasks, spc[u] = "sent", ran[u] # 1, u # t
                 PROVE Queued(u)' \/ \E v \in Workers : held'[v] = u
    BY <1>2, <1>5 DEF SentSomewhere
  <2>2. CASE Queued(u)
    <3>1. PICK i \in 1..Len(tasks) : tasks[i] = u
      BY <2>2 DEF Queued
    <3>2. i # 1 /\ i - 1 \in 1..Len(tasks')
      BY <3>1, <2>1, <1>3
    <3>3. tasks'[i - 1] = u
      BY <3>1, <3>2, <1>3
    <3>4. QED
      BY <3>2, <3>3 DEF Queued
  <2>3. CASE \E v \in Workers : held[v] = u
    <3>1. PICK v \in Workers : held[v] = u
      BY <2>3
    <3>2. v # w
      BY <3>1, <1>5, PoolAssumption
    <3>3. QED
      BY <3>1, <3>2, <1>6
  <2>4. QED
    BY <2>1, <2>2, <2>3 DEF SentSomewhere
<1>15. QED
  BY <1>8, <1>9, <1>10, <1>11, <1>12, <1>13, <1>14

\* Executing a task is the first time it runs.
LEMMA ExecuteStep == ASSUME PoolInv, NEW w \in Workers, ExecuteTask(w) PROVE TaskInv'
<1> DEFINE t == held[w]
<1> USE DEF PoolInv, TaskInv
<1>1. /\ wpc \in [Workers -> WorkerStates] /\ ran \in [Tasks -> Nat]
      /\ held \in [Workers -> Tasks \cup {NoTask}]
  BY DEF TypeOK
<1>2. /\ wpc[w] = "run" /\ wpc' = [wpc EXCEPT ![w] = "ran"]
      /\ ran' = [ran EXCEPT ![t] = @ + 1] /\ UNCHANGED <<tasks, held, spc>>
  BY DEF ExecuteTask, WGoto, submits, channels
<1>3. t \in Tasks /\ t # NoTask
  BY <1>1, <1>2, PoolAssumption DEF HeldWhileBusy, HoldStates
<1>4. spc[t] = "sent" /\ ran[t] = 0
  BY <1>2, <1>3 DEF HeldSent
<1>5. ran'[t] = 1 /\ \A u \in Tasks : u # t => ran'[u] = ran[u]
  BY <1>1, <1>2, <1>3, <1>4
<1>6. wpc'[w] = "ran" /\ \A v \in Workers : v # w => wpc'[v] = wpc[v]
  BY <1>1, <1>2
<1>7. /\ \A i \in 1..Len(tasks) : tasks[i] # t
      /\ \A v \in Workers : v # w => held[v] # t
  BY <1>3 DEF QueuedFresh, HeldByOne
<1>8. tasks \in Seq(Tasks)
  BY DEF TypeOK
<1>9. QueueDistinct' /\ HeldByOne'
  BY <1>2 DEF QueueDistinct, HeldByOne
<1>10. QueuedFresh'
  BY <1>2, <1>5, <1>7, <1>8 DEF QueuedFresh
<1>11. HeldWhileBusy'
  BY <1>2, <1>6 DEF HeldWhileBusy, HoldStates
<1>12. HeldSent'
  BY <1>1, <1>2, <1>4, <1>5, <1>6, <1>7 DEF HeldSent
<1>13. RanSent'
  BY <1>2, <1>4, <1>5 DEF RanSent
<1>14. SentSomewhere'
  BY <1>2, <1>5 DEF SentSomewhere, Queued
<1>15. QED
  BY <1>9, <1>10, <1>11, <1>12, <1>13, <1>14

\* Reporting releases a task that has run.
LEMMA ReportStep == ASSUME PoolInv, NEW w \in Workers, Report(w) PROVE TaskInv'
<1> USE DEF PoolInv, TaskInv
<1>1. wpc \in [Workers -> WorkerStates] /\ held \in [Workers -> Tasks \cup {NoTask}]
  BY DEF TypeOK
<1>2. /\ wpc[w] = "report" /\ wpc' = [wpc EXCEPT ![w] = "select"]
      /\ held' = [held EXCEPT ![w] = NoTask] /\ UNCHANGED <<tasks, ran, spc>>
  BY DEF Report, WGoto, submits
<1>3. held[w] # NoTask /\ ran[held[w]] = 1
  BY <1>2 DEF HeldWhileBusy, HeldSent, HoldStates
<1>4. /\ wpc'[w] = "select" /\ held'[w] = NoTask
      /\ \A v \in Workers : v # w => wpc'[v] = wpc[v] /\ held'[v] = held[v]
  BY <1>1, <1>2
<1>5. tasks \in Seq(Tasks)
  BY DEF TypeOK
<1>6. QueueDistinct' /\ RanSent'
  BY <1>2 DEF QueueDistinct, RanSent
<1>7. QueuedFresh'
  BY <1>2, <1>4, <1>5, PoolAssumption DEF QueuedFresh
<1>8. HeldWhileBusy'
  BY <1>4 DEF HeldWhileBusy, HoldStates
<1>9. HeldByOne'
  BY <1>4 DEF HeldByOne
<1>10. HeldSent'
  BY <1>2, <1>4 DEF HeldSent
<1>11. SentSomewhere'
  BY <1>2, <1>3, <1>4 DEF SentSomewhere, Queued
<1>12. QED
  BY <1>6, <1>7, <1>8, <1>9, <1>10, <1>11

\* A successful send puts a task nobody has seen before at the end.
LEMMA SendStep == ASSUME PoolInv, NEW t \in Tasks, SubmitSend(t) PROVE TaskInv'
<1> USE DEF PoolInv, TaskInv
<1>1. tasks \in Seq(Tasks) /\ spc \in [Tasks -> {"idle", "check", "scale", "grow", "send", "sent", "dropped", "err"}]
      /\ held \in [Workers -> Tasks \cup {NoTask}]
  BY DEF TypeOK
<1>2. /\ spc[t] = "send" /\ spc' = [spc EXCEPT ![t] = "sent"]
      /\ tasks' = Append(tasks, t) /\ UNCHANGED <<held, ran, wpc>>
  BY DEF SubmitSend, SGoto, workers
<1>3. /\ Len(tasks') = Len(tasks) + 1 /\ Len(tasks) \in Nat /\ tasks'[Len(tasks) + 1] = t
      /\ \A i \in 1..Len(tasks) : tasks'[i] = tasks[i] /\ tasks[i] \in Tasks
  BY <1>1, <1>2
<1>4. spc'[t] = "sent" /\ \A u \in Tasks : u # t => spc'[u] = spc[u]
  BY <1>1, <1>2
<1>5. /\ \A i \in 1..Len(tasks) : tasks[i] # t
      /\ ran[t] = 0
      /\ \A w \in Workers : held[w] # t
  BY <1>2, PoolAssumption DEF QueuedFresh, RanSent, HeldSent
<1>6. QueueDistinct'
  BY <1>3, <1>5 DEF QueueDistinct
<1>7. QueuedFresh'
  BY <1>2, <1>3, <1>4, <1>5 DEF QueuedFresh
<1>8. HeldWhileBusy' /\ HeldByOne'
  BY <1>2 DEF HeldWhileBusy, HeldByOne
<1>9. HeldSent'
  BY <1>1, <1>2, <1>4, <1>5 DEF HeldSent
<1>10. RanSent'
  BY <1>2, <1>4, <1>5 DEF RanSent
<1>11. SentSomewhere'
  <2>1. \A u \in Tasks : Queued(u) => Queued(u)'
    BY <1>3 DEF Queued
  <2>2. Queued(t)'
    BY <1>3 DEF Queued
  <2>3. QED
    BY <2>1, <2>2, <1>2, <1>4 DEF SentSomewhere
<1>12. QED
  BY <1>6, <1>7, <1>8, <1>9, <1>10, <1>11

\* Every step keeps track of every task.
LEMMA TaskStep == PoolInv /\ [Next]_vars => TaskInv'
<1> SUFFICES ASSUME PoolInv, [Next]_vars PROVE TaskInv'
  OBVIOUS
<1>0. /\ wpc \in [Workers -> WorkerStates]
      /\ spc \in [Tasks -> {"idle", "check", "scale", "grow", "send", "sent", "dropped", "err"}]
  BY DEF PoolInv, TypeOK
<1>1. ASSUME NEW w \in Workers, NEW from, NEW to,
             WGoto(w, from, to), UNCHANGED <<tasks, held, ran, spc>>,
             from \in HoldStates <=> to \in HoldStates,
             from \in {"taken", "active", "run"} <=> to \in {"taken", "active", "run"}
      PROVE TaskInv'
  <2>1. wpc[w] = from /\ wpc'[w] = to /\ \A v \in Workers : v # w => wpc'[v] = wpc[v]
    BY <1>0, <1>1 DEF WGoto
  <2>2. QED
    BY <1>1, <2>1, TaskFrame
<1>2. ASSUME NEW w \in Workers,
             \/ WorkerDone(w) \/ MarkActive(w) \/ Number(w) \/ MarkInactive(w)
             \/ CountCompleted(w) \/ IdleExit(w) \/ IdleStay(w) \/ IdleTimeout(w)
      PROVE TaskInv'
  <2>1. UNCHANGED <<tasks, held, ran, spc>>
    BY <1>2 DEF WorkerDone, MarkActive, Number, MarkInactive, CountCompleted,
                IdleExit, IdleStay, IdleTimeout, channels, submits
  <2>2. \/ WGoto(w, "select", "none") \/ WGoto(w, "taken", "active")
        \/ WGoto(w, "active", "run") \/ WGoto(w, "ran", "inactive")
        \/ WGoto(w, "inactive", "report") \/ WGoto(w, "idle", "none")
        \/ WGoto(w, "idle", "select") \/ WGoto(w, "select", "idle")
    BY <1>2 DEF WorkerDone, MarkActive, Number, MarkInactive, CountCompleted,
                IdleExit, IdleStay, IdleTimeout
  <2>3. QED
    BY <1>1, <2>1, <2>2 DEF HoldStates
<1>3. ASSUME NEW t \in Tasks,
             SubmitStart(t) \/ SubmitCheck(t) \/ ScaleDecide(t) \/ SubmitCancelled(t)
      PROVE TaskInv'
  <2>1. UNCHANGED <<tasks, held, ran, wpc>>
    BY <1>3 DEF SubmitStart, SubmitCheck, ScaleDecide, SubmitCancelled, channels, workers
  <2>2. \A u \in Tasks : spc'[u] = "sent" <=> spc[u] = "sent"
    BY <1>0, <1>3 DEF SubmitStart, SubmitCheck, ScaleDecide, SubmitCancelled, SGoto
  <2>3. QED
    BY <2>1, <2>2, TaskFrame
<1>4. ASSUME Spawn PROVE /\ held' = held
                         /\ \A w \in Workers : wpc'[w] \in HoldStates <=> wpc[w] \in HoldStates
                         /\ \A w \in Workers : wpc'[w] \in {"taken", "active", "run"}
                                                 <=> wpc[w] \in {"taken", "active", "run"}
  BY <1>0, <1>4 DEF Spawn, HoldStates
<1>5. ASSUME NEW t \in Tasks, ScaleSpawn(t) PROVE TaskInv'
  <2>1. Spawn /\ UNCHANGED <<tasks, ran>>
    BY <1>5 DEF ScaleSpawn, channels
  <2>2. \A u \in Tasks : spc'[u] = "sent" <=> spc[u] = "sent"
    BY <1>0, <1>5 DEF ScaleSpawn
  <2>3. QED
    BY <1>4, <2>1, <2>2, TaskFrame
<1>6. ASSUME NEW r \in Resizers, ResizeSpawn(r) PROVE TaskInv'
  <2>1. Spawn /\ UNCHANGED <<tasks, ran, spc>>
    BY <1>6 DEF ResizeSpawn, channels, submits
  <2>2. QED
    BY <1>4, <2>1, TaskFrame
<1>7. ASSUME UNCHANGED <<tasks, held, ran, spc, wpc>> PROVE TaskInv'
  BY <1>7, TaskFrame
<1>8. CASE ReadResult
  BY <1>7, <1>8 DEF ReadResult, workers, submits
<1>9. ASSUME NEW r \in Resizers,
             ResizeStore(r) \/ ResizeReturn(r) \/ (\E n \in ResizeTargets : ResizeLoad(r, n))
      PROVE TaskInv'
  BY <1>7, <1>9 DEF ResizeStore, ResizeReturn, ResizeLoad, channels, workers, submits
<1>10. ASSUME NEW c \in Closers, Stop(c) \/ Cancel(c) \/ ShutdownWait(c) \/ ShutdownWake(c) PROVE TaskInv'
  BY <1>7, <1>10 DEF Stop, Cancel, ShutdownWait, ShutdownWake, channels, workers, submits
<1>11. CASE UNCHANGED vars
  BY <1>7, <1>11 DEF vars, channels, workers, submits
<1>12. QED
  BY <1>2, <1>3, <1>5, <1>6, <1>8, <1>9, <1>10, <1>11, TakeStep, ExecuteStep, ReportStep,
     SendStep, NextCases

-----------------------------------------------------------------------------
\* PoolInv is an inductive invariant of the pool.
THEOREM PoolInvariant == Spec => []PoolInv
<1>1. Init => PoolInv
  <2> SUFFICES ASSUME Init PROVE PoolInv
    OBVIOUS
  <2>1. ScaleInv
    BY DEF Init, ScaleInv
  <2>2. WithinLimit
    BY PoolAssumption DEF Init, WithinLimit
  <2>3. tasks = <<>> /\ Len(tasks) = 0
    BY DEF Init
  <2>4. QueueDistinct /\ QueuedFresh
    BY <2>3 DEF QueueDistinct, QueuedFresh
  <2>5. HeldWhileBusy /\ HeldByOne /\ HeldSent
    BY DEF Init, HeldWhileBusy, HeldByOne, HeldSent, HoldStates
  <2>6. RanSent /\ SentSomewhere
    BY DEF Init, RanSent, SentSomewhere
  <2>7. QED
    BY <2>1, <2>2, <2>4, <2>5, <2>6, TypeInit DEF PoolInv, TaskInv
<1>2. PoolInv /\ [Next]_vars => PoolInv'
  BY TypeStep, ScaleStep, TaskStep DEF PoolInv
<1>3. QED
  BY <1>1, <1>2, PTL DEF Spec

\* The type invariant of the pool, for any sizes.
THEOREM TypeCorrect == Spec => []TypeOK
<1>1. PoolInv => TypeOK
  BY DEF PoolInv
<1>2. QED
  BY <1>1, PoolInvariant, PTL

\* maybeScaleUp respects its upper bound, however many Submit calls race.
THEOREM LimitRespected == Spec => []WithinLimit
<1>1. PoolInv => WithinLimit
  BY DEF PoolInv
<1>2. QED
  BY <1>1, PoolInvariant, PTL

\* No accepted task is lost or run twice, no rejected one ever runs.
THEOREM TasksAcceptedOnce == Spec => []AcceptedOnce
<1>1. PoolInv => AcceptedOnce
  <2> SUFFICES ASSUME PoolInv, NEW t \in Tasks
               PROVE /\ ran[t] <= 1
                     /\ spc[t] # "sent" => ran[t] = 0 /\ ~Queued(t) /\ Holding(t) = {}
                     /\ spc[t] = "sent" =>
                          \/ Queued(t) /\ ran[t] = 0 /\ Holding(t) = {}
                          \/ ran[t] = 0 /\ ~Queued(t) /\ \E w \in Workers : Holding(t) = {w}
                          \/ ran[t] = 1 /\ ~Queued(t)
    BY DEF AcceptedOnce
  <2> USE DEF PoolInv, TaskInv
  <2>1. ran[t] <= 1
    BY DEF RanSent
  <2>2. Queued(t) => spc[t] = "sent" /\ ran[t] = 0 /\ Holding(t) = {}
    BY DEF Queued, QueuedFresh, Holding
  <2>3. ASSUME NEW w \in Workers, held[w] = t
        PROVE spc[t] = "sent" /\ Holding(t) = {w} /\ ~Queued(t)
    BY <2>2, <2>3, PoolAssumption DEF HeldSent, HeldByOne, Holding
  <2>4. ran[t] # 0 => ran[t] = 1 /\ spc[t] = "sent"
    BY DEF RanSent
  <2>5. spc[t] = "sent" => ran[t] = 1 \/ Queued(t) \/ \E w \in Workers : held[w] = t
    BY DEF SentSomewhere
  <2>6. Holding(t) # {} => \E w \in Workers : held[w] = t
    BY DEF Holding
  <2>7. QED
    BY <2>1, <2>2, <2>3, <2>4, <2>5, <2>6
<1>2. QED
  BY <1>1, PoolInvariant, PTL

-----------------------------------------------------------------------------
\* Moving one worker's program counter changes the number of workers in a
\* region by one when it enters or leaves the region, and not otherwise.
LEMMA CountMove ==
  ASSUME wpc \in [Workers -> WorkerStates], NEW w \in Workers, NEW from, NEW to, NEW S,
         WGoto(w, from, to)
  PROVE /\ Counted(S) \in Nat
        /\ from \notin S /\ to \in S => Counted(S)' = Counted(S) + 1
        /\ from \in S /\ to \notin S => Counted(S)' = Counted(S) - 1
        /\ (from \in S <=> to \in S) => Counted(S)' = Counted(S)
<1> DEFINE C == {v \in Workers : wpc[v] \in S}
           D == {v \in Workers : wpc'[v] \in S}
<1>1. IsFiniteSet(C) /\ Counted(S) = Cardinality(C) /\ Counted(S)' = Cardinality(D)
  BY WorkersAssumption, FS_Subset DEF Counted
<1>2. Cardinality(C) \in Nat
  BY <1>1, FS_CardinalityType
<1>3. wpc[w] = from /\ wpc'[w] = to /\ \A v \in Workers : v # w => wpc'[v] = wpc[v]
  BY DEF WGoto
<1>4. CASE from \notin S /\ to \in S
  <2>1. D = C \cup {w} /\ w \notin C
    BY <1>3, <1>4
  <2>2. Cardinality(C \cup {w}) = Cardinality(C) + 1
    BY <1>1, <2>1, FS_AddElement
  <2>3. QED
    BY <1>1, <1>2, <1>4, <2>1, <2>2
<1>5. CASE from \in S /\ to \notin S
  <2>1. D = C \ {w} /\ w \in C
    BY <1>3, <1>5
  <2>2. Cardinality(C \ {w}) = Cardinality(C) - 1
    BY <1>1, <2>1, FS_RemoveElement
  <2>3. QED
    BY <1>1, <1>2, <1>5, <2>1, <2>2
<1>6. CASE from \in S <=> to \in S
  <2>1. D = C
    BY <1>3, <1>6
  <2>2. QED
    BY <1>1, <1>2, <1>6, <2>1
<1>7. QED
  BY <1>4, <1>5, <1>6

\* The statistics agree with the workers, whatever the interleaving.
THEOREM StatisticsAgree == Spec => []CountersAgree
<1> DEFINE A == {"active", "run", "ran"}
           B == {"run", "ran", "inactive"}
<1>1. Init => CountersAgree
  <2> SUFFICES ASSUME Init PROVE CountersAgree
    OBVIOUS
  <2>1. \A w \in Workers : wpc[w] \notin A \cup B
    BY DEF Init
  <2>2. {w \in Workers : wpc[w] \in A} = {} /\ {w \in Workers : wpc[w] \in B} = {}
    BY <2>1
  <2>3. Counted(A) = 0 /\ Counted(B) = 0
    BY <2>2, FS_EmptySet DEF Counted
  <2>4. QED
    BY <2>3 DEF Init, CountersAgree
<1>2. CountersAgree /\ PoolInv /\ [Next]_vars => CountersAgree'
  <2> SUFFICES ASSUME CountersAgree, PoolInv, [Next]_vars PROVE CountersAgree'
    OBVIOUS
  <2>0. /\ wpc \in [Workers -> WorkerStates]
        /\ active \in Int /\ submitted \in Int /\ completed \in Int
        /\ active = Counted(A) /\ submitted - completed = Counted(B)
    BY DEF PoolInv, TypeOK, CountersAgree
  <2>m. /\ {"active", "run", "ran"} \subseteq A /\ {"run", "ran", "inactive"} \subseteq B
        /\ "taken" \notin A \cup B /\ "active" \notin B /\ "inactive" \notin A
        /\ "report" \notin A \cup B
    OBVIOUS
  <2> HIDE DEF A, B
  <2>1. ASSUME NEW w \in Workers, MarkActive(w) PROVE CountersAgree'
    <3>1. WGoto(w, "taken", "active") /\ active' = active + 1 /\ UNCHANGED <<submitted, completed>>
      BY <2>1 DEF MarkActive
    <3>a. Counted(A)' = Counted(A) + 1
      BY <2>0, <2>m, <3>1, CountMove
    <3>2. Counted(A)' = Counted(A) + 1 /\ Counted(B)' = Counted(B)
      BY <2>0, <2>m, <3>1, <3>a, CountMove
    <3>3. QED
      BY <2>0, <3>1, <3>2 DEF CountersAgree, A, B
  <2>2. ASSUME NEW w \in Workers, Number(w) PROVE CountersAgree'
    <3>1. WGoto(w, "active", "run") /\ submitted' = submitted + 1 /\ UNCHANGED <<active, completed>>
      BY <2>2 DEF Number
    <3>a. Counted(A)' = Counted(A)
      BY <2>0, <2>m, <3>1, CountMove
    <3>2. Counted(A)' = Counted(A) /\ Counted(B)' = Counted(B) + 1
      BY <2>0, <2>m, <3>1, <3>a, CountMove
    <3>3. QED
      BY <2>0, <3>1, <3>2 DEF CountersAgree, A, B
  <2>3. ASSUME NEW w \in Workers, MarkInactive(w) PROVE CountersAgree'
    <3>1. WGoto(w, "ran", "inactive") /\ active' = active - 1 /\ UNCHANGED <<submitted, completed>>
      BY <2>3 DEF MarkInactive
    <3>a. Counted(A)' = Counted(A) - 1
      BY <2>0, <2>m, <3>1, CountMove
    <3>2. Counted(A)' = Counted(A) - 1 /\ Counted(B)' = Counted(B)
      BY <2>0, <2>m, <3>1, <3>a, CountMove
    <3>3. QED
      BY <2>0, <3>1, <3>2 DEF CountersAgree, A, B
  <2>4. ASSUME NEW w \in Workers, CountCompleted(w) PROVE CountersAgree'
    <3>1. WGoto(w, "inactive", "report") /\ completed' = completed + 1 /\ UNCHANGED <<active, submitted>>
      BY <2>4 DEF CountCompleted
    <3>a. Counted(A)' = Counted(A)
      BY <2>0, <2>m, <3>1, CountMove
    <3>2. Counted(A)' = Counted(A) /\ Counted(B)' = Counted(B) - 1
      BY <2>0, <2>m, <3>1, <3>a, CountMove
    <3>3. QED
      BY <2>0, <3>1, <3>2 DEF CountersAgree, A, B
  <2>5. ASSUME NEW w \in Workers, NEW from, NEW to, WGoto(w, from, to),
               from \in A <=> to \in A, from \in B <=> to \in B,
               UNCHANGED <<active, submitted, completed>>
        PROVE CountersAgree'
    <3>a. Counted(A)' = Counted(A)
      BY <2>0, <2>5, CountMove
    <3>1. Counted(A)' = Counted(A) /\ Counted(B)' = Counted(B)
      BY <2>0, <2>5, <3>a, CountMove
    <3>2. QED
      BY <2>0, <2>5, <3>1 DEF CountersAgree, A, B
  <2>6. ASSUME NEW w \in Workers,
               \/ Take(w) \/ WorkerDone(w) \/ ExecuteTask(w) \/ Report(w)
               \/ IdleExit(w) \/ IdleStay(w) \/ IdleTimeout(w)
        PROVE CountersAgree'
    <3>1. UNCHANGED <<active, submitted, completed>>
      BY <2>6 DEF Take, WorkerDone, ExecuteTask, Report, IdleExit, IdleStay, IdleTimeout, counters
    <3>2. \/ WGoto(w, "select", "taken") \/ WGoto(w, "select", "none") \/ WGoto(w, "run", "ran")
          \/ WGoto(w, "report", "select") \/ WGoto(w, "idle", "none")
          \/ WGoto(w, "idle", "select") \/ WGoto(w, "select", "idle")
      BY <2>6 DEF Take, WorkerDone, ExecuteTask, Report, IdleExit, IdleStay, IdleTimeout
    <3>3. QED
      BY <2>5, <3>1, <3>2 DEF A, B
  <2>7. ASSUME Spawn, UNCHANGED <<active, submitted, completed>> PROVE CountersAgree'
    <3>1. PICK w \in Workers : WGoto(w, "none", "select")
      BY <2>7 DEF Spawn, WGoto
    <3>2. QED
      BY <2>5, <2>7, <3>1 DEF A, B
  <2>8. ASSUME UNCHANGED <<active, submitted, completed, wpc>> PROVE CountersAgree'
    BY <2>8 DEF CountersAgree, Counted
  <2>9. ASSUME NEW t \in Tasks, ScaleSpawn(t) PROVE CountersAgree'
    BY <2>7, <2>9 DEF ScaleSpawn
  <2>10. ASSUME NEW r \in Resizers, ResizeSpawn(r) PROVE CountersAgree'
    BY <2>7, <2>10 DEF ResizeSpawn, counters
  <2>11. CASE ReadResult
    BY <2>8, <2>11 DEF ReadResult, counters, workers
  <2>12. ASSUME NEW t \in Tasks,
                \/ SubmitStart(t) \/ SubmitCheck(t) \/ ScaleDecide(t)
                \/ SubmitSend(t) \/ SubmitCancelled(t)
         PROVE CountersAgree'
    BY <2>8, <2>12 DEF SubmitStart, SubmitCheck, ScaleDecide, SubmitSend, SubmitCancelled,
                       counters, workers
  <2>13. ASSUME NEW r \in Resizers,
                ResizeStore(r) \/ ResizeReturn(r) \/ (\E n \in ResizeTargets : ResizeLoad(r, n))
         PROVE CountersAgree'
    BY <2>8, <2>13 DEF ResizeStore, ResizeReturn, ResizeLoad, counters, workers
  <2>14. ASSUME NEW c \in Closers, Stop(c) \/ Cancel(c) \/ ShutdownWait(c) \/ ShutdownWake(c) PROVE CountersAgree'
    BY <2>8, <2>14 DEF Stop, Cancel, ShutdownWait, ShutdownWake, counters, workers
  <2>15. CASE UNCHANGED vars
    BY <2>8, <2>15 DEF vars, counters, workers
  <2>16. QED
    BY <2>1, <2>2, <2>3, <2>4, <2>6, <2>9, <2>10, <2>11, <2>12, <2>13, <2>14, <2>15, NextCases
<1>3. QED
  BY <1>1, <1>2, PoolInvariant, PTL DEF Spec

\* NumWorkers() is the number of live workers as long as no Resize has stored
\* its target and the context is not cancelled.
THEOREM WorkersAreCounted == Spec => []WorkersCounted
<1> DEFINE L == WorkerStates \ {"none"}
<1>0. ASSUME TypeOK PROVE Cardinality(Live) = Counted(L)
  <2>1. Live = {w \in Workers : wpc[w] \in L}
    BY <1>0 DEF TypeOK, Live
  <2>2. QED
    BY <2>1 DEF Counted
<1>p. ASSUME TypeOK' PROVE Cardinality(Live)' = Counted(L)'
  <2>1. Live' = {w \in Workers : wpc'[w] \in L}
    BY <1>p DEF TypeOK, Live
  <2>2. QED
    BY <2>1 DEF Counted
<1>1. Init => WorkersCounted
  <2> SUFFICES ASSUME Init PROVE WorkersCounted
    OBVIOUS
  <2>1. PICK S \in SUBSET Workers :
          /\ Cardinality(S) = NumWorkers
          /\ wpc = [w \in Workers |-> IF w \in S THEN "select" ELSE "none"]
    BY DEF Init
  <2>2. Live = S
    BY <2>1 DEF Live
  <2>3. QED
    BY <2>1, <2>2 DEF Init, WorkersCounted
<1>2. WorkersCounted /\ PoolInv /\ PoolInv' /\ [Next]_vars => WorkersCounted'
  <2> SUFFICES ASSUME WorkersCounted, PoolInv, PoolInv', [Next]_vars,
                      ~cancelled', \A r \in Resizers : rpc'[r] \in {"idle", "loaded"}
               PROVE numWorkers' = Cardinality(Live)'
    BY DEF WorkersCounted
  <2>0. /\ wpc \in [Workers -> WorkerStates] /\ numWorkers \in Int
        /\ rpc \in [Resizers -> {"idle", "loaded", "spawn", "done"}] /\ cancelled \in BOOLEAN
        /\ Cardinality(Live) = Counted(L) /\ Cardinality(Live)' = Counted(L)'
    <3>1. TypeOK /\ TypeOK'
      BY DEF PoolInv
    <3>2. Cardinality(Live) = Counted(L) /\ Cardinality(Live)' = Counted(L)'
      BY <3>1, <1>0, <1>p
    <3>3. QED
      BY <3>1, <3>2 DEF TypeOK
  <2>w. "none" \notin L /\ L = {"select", "taken", "active", "run", "ran", "inactive", "report", "idle"}
    BY DEF WorkerStates
  <2>l. "none" \notin L /\ "idle" \in L /\ "select" \in L
    BY <2>w
  <2> HIDE DEF L
  <2>c. ASSUME UNCHANGED <<cancelled, rpc>> PROVE numWorkers = Counted(L)
    BY <2>c, <2>0 DEF WorkersCounted
  <2>1. ASSUME NEW w \in Workers, IdleExit(w) PROVE numWorkers' = Counted(L)'
    <3>1. WGoto(w, "idle", "none") /\ numWorkers' = numWorkers - 1 /\ UNCHANGED <<cancelled, rpc>>
      BY <2>1 DEF IdleExit, flags, resizes
    <3>2. Counted(L)' = Counted(L) - 1
      BY <2>0, <2>l, <3>1, CountMove
    <3>3. QED
      BY <2>c, <3>1, <3>2
  <2>2. ASSUME NEW t \in Tasks, ScaleSpawn(t) PROVE numWorkers' = Counted(L)'
    <3>1. Spawn /\ numWorkers' = numWorkers + 1 /\ UNCHANGED <<cancelled, rpc>>
      BY <2>2 DEF ScaleSpawn, flags, resizes
    <3>2. PICK w \in Workers : WGoto(w, "none", "select")
      BY <3>1 DEF Spawn, WGoto
    <3>3. Counted(L)' = Counted(L) + 1
      BY <2>0, <2>l, <3>2, CountMove
    <3>4. QED
      BY <2>c, <3>1, <3>3
  <2>3. ASSUME NEW w \in Workers, NEW from \in L, NEW to \in L, WGoto(w, from, to),
               UNCHANGED <<numWorkers, cancelled, rpc>>
        PROVE numWorkers' = Counted(L)'
    <3>1. Counted(L)' = Counted(L)
      BY <2>0, <2>3, CountMove
    <3>2. QED
      BY <2>c, <2>3, <3>1
  <2>4. ASSUME NEW w \in Workers,
               \/ Take(w) \/ MarkActive(w) \/ Number(w) \/ ExecuteTask(w) \/ MarkInactive(w)
               \/ CountCompleted(w) \/ Report(w) \/ IdleStay(w) \/ IdleTimeout(w)
        PROVE numWorkers' = Counted(L)'
    <3>1. UNCHANGED <<numWorkers, cancelled, rpc>>
      BY <2>4 DEF Take, MarkActive, Number, ExecuteTask, MarkInactive, CountCompleted, Report,
                  IdleStay, IdleTimeout, counters, flags, resizes
    <3>2. \/ WGoto(w, "select", "taken") \/ WGoto(w, "taken", "active") \/ WGoto(w, "active", "run")
          \/ WGoto(w, "run", "ran") \/ WGoto(w, "ran", "inactive") \/ WGoto(w, "inactive", "report")
          \/ WGoto(w, "report", "select") \/ WGoto(w, "idle", "select") \/ WGoto(w, "select", "idle")
      BY <2>4 DEF Take, MarkActive, Number, ExecuteTask, MarkInactive, CountCompleted, Report,
                  IdleStay, IdleTimeout
    <3>3. QED
      BY <2>3, <2>w, <3>1, <3>2
  <2>5. ASSUME NEW w \in Workers, WorkerDone(w) PROVE FALSE
    BY <2>5 DEF WorkerDone, flags
  <2>6. ASSUME UNCHANGED <<numWorkers, cancelled, rpc, wpc>> PROVE numWorkers' = Counted(L)'
    BY <2>c, <2>6 DEF Counted
  <2>7. ASSUME NEW r \in Resizers, ResizeStore(r) \/ ResizeSpawn(r) \/ ResizeReturn(r) PROVE FALSE
    BY <2>0, <2>7 DEF ResizeStore, ResizeSpawn, ResizeReturn, RGoto
  <2>8. ASSUME NEW r \in Resizers, NEW n \in ResizeTargets, ResizeLoad(r, n)
        PROVE numWorkers' = Counted(L)'
    <3>1. /\ rpc[r] = "idle" /\ rpc' = [rpc EXCEPT ![r] = "loaded"]
          /\ UNCHANGED <<numWorkers, cancelled, wpc>>
      BY <2>8 DEF ResizeLoad, RGoto, counters, flags, workers
    <3>2. \A q \in Resizers : rpc[q] \in {"idle", "loaded"}
      BY <2>0, <3>1
    <3>3. numWorkers = Counted(L)
      BY <2>0, <3>1, <3>2 DEF WorkersCounted
    <3>4. QED
      BY <3>1, <3>3 DEF Counted
  <2>9. ASSUME ReadResult PROVE numWorkers' = Counted(L)'
    BY <2>6, <2>9 DEF ReadResult, counters, flags, workers, resizes
  <2>10. ASSUME NEW t \in Tasks,
                \/ SubmitStart(t) \/ SubmitCheck(t) \/ ScaleDecide(t)
                \/ SubmitSend(t) \/ SubmitCancelled(t)
         PROVE numWorkers' = Counted(L)'
    BY <2>6, <2>10 DEF SubmitStart, SubmitCheck, ScaleDecide, SubmitSend, SubmitCancelled,
                       counters, flags, workers, resizes
  <2>11. ASSUME NEW c \in Closers, Stop(c) \/ ShutdownWait(c) \/ ShutdownWake(c) PROVE numWorkers' = Counted(L)'
    BY <2>6, <2>11 DEF Stop, ShutdownWait, ShutdownWake, counters, flags, workers, resizes
  <2>12. ASSUME NEW c \in Closers, Cancel(c) PROVE FALSE
    BY <2>12 DEF Cancel
  <2>13. ASSUME UNCHANGED vars PROVE numWorkers' = Counted(L)'
    BY <2>6, <2>13 DEF vars, counters, flags, workers, resizes
  <2>14. numWorkers' = Counted(L)'
    BY <2>1, <2>2, <2>4, <2>5, <2>7, <2>8, <2>9, <2>10, <2>11, <2>12, <2>13, NextCases
  <2>15. QED
    BY <2>0, <2>14
<1>3. QED
  BY <1>1, <1>2, PoolInvariant, PTL DEF Spec
=============================================================================
