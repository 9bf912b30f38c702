----------------------------- MODULE WorkerPool -----------------------------
(***************************************************************************)
(* core/worker.go: the dynamic worker pool.                                *)
(*                                                                         *)
(* The pool is a buffered channel of tasks drained by goroutines.  Workers *)
(* leave when idle, Submit starts more when the queue is over three        *)
(* quarters full, Resize changes the target, Shutdown cancels the context  *)
(* and waits.  Counters are atomics: every atomic operation is a step of   *)
(* its own, so that all interleavings between a load and the update that   *)
(* follows it are explored.  A counter update and the goroutine start or   *)
(* return that directly follows it are one step: only the wait group sees  *)
(* the difference, and it sees the same before and after.                  *)
(*                                                                         *)
(* The wait group counts the live workers.  Wait of sync.WaitGroup is      *)
(* external: a caller that has to block is woken by the Done that reaches  *)
(* zero, and panics, which ends the program, if the count is not zero any  *)
(* more when it runs again ("WaitGroup is reused"): a Submit or a Resize    *)
(* under way may start workers after the cancellation.                     *)
(*                                                                         *)
(* Each member of Tasks stands for one call of Submit, each member of      *)
(* Resizers for one call of Resize, each member of Closers for one call    *)
(* of Shutdown, made by goroutines of their own.  A worker's locals are    *)
(* cleared when they go out of scope, and the identity of a goroutine that *)
(* has returned may be used again.                                         *)
(***************************************************************************)
EXTENDS Integers, Sequences, FiniteSets

CONSTANTS
  Tasks,          \* one Submit call each
  Resizers,       \* one Resize call each
  Closers,        \* one Shutdown call each
  NumWorkers,     \* config.NumWorkers
  QueueSize,      \* config.QueueSize, capacity of tasks and of results
  MaxWorkers,     \* 4 * runtime.NumCPU()
  ResizeTargets,  \* the arguments Resize is called with
  Workers,        \* identities of goroutines; bounds how many are alive at once
  NoTask

ASSUME PoolAssumption ==
  /\ NumWorkers \in Nat \ {0}
  /\ QueueSize \in Nat \ {0}
  /\ MaxWorkers \in Nat \ {0}
  /\ ResizeTargets \subseteq Nat \ {0}
  /\ NoTask \notin Tasks
  /\ Tasks \cap Resizers = {}
  /\ "free" \notin Tasks \cup Resizers

ASSUME WorkersAssumption == IsFiniteSet(Workers) /\ NumWorkers <= Cardinality(Workers)

\* minWorkers: max(2, config.NumWorkers/4)
MinWorkers == IF NumWorkers \div 4 > 2 THEN NumWorkers \div 4 ELSE 2

\* Submit scales up when len(tasks) > cap(tasks)*3/4
ScaleThreshold == (QueueSize * 3) \div 4

\* maybeScaleUp starts min(4, maxWorkers-current) workers
ScaleBatch(current) == IF MaxWorkers - current < 4 THEN MaxWorkers - current ELSE 4

VARIABLES
  numWorkers, active, submitted, completed,  \* the atomic counters
  stopped, cancelled,                        \* stopped flag, ctx.Done
  tasks, results,                            \* the two channels
  mu,                                        \* holder of p.mu, or "free"
  wpc, held, taskID, seen,                   \* worker goroutines
  spc, grow,                                 \* Submit calls
  rpc, rold, rnew,                           \* Resize calls
  cpc,                                       \* Shutdown calls
  ran                                        \* history: executions of a task

counters == <<numWorkers, active, submitted, completed>>
channels == <<tasks, results>>
flags    == <<stopped, cancelled>>
workers  == <<wpc, held, taskID, seen>>
submits  == <<spc, grow>>
resizes  == <<rpc, rold, rnew>>
vars == <<counters, flags, channels, mu, workers, submits, resizes, cpc, ran>>

Live == {w \in Workers : wpc[w] # "none"}

-----------------------------------------------------------------------------
\* defer p.wg.Done() of worker w: the last one wakes everybody who waits
WGDone(w) ==
  cpc' = IF Live = {w}
         THEN [c \in Closers |-> IF cpc[c] = "blocked" THEN "woken" ELSE cpc[c]]
         ELSE cpc

Panicked == \E c \in Closers : cpc[c] = "panicked"

(* Starting a goroutine: wg.Add(1); go p.worker(i).                         *)
Spawn ==
  /\ \E w \in Workers : wpc[w] = "none" /\ wpc' = [wpc EXCEPT ![w] = "select"]
  /\ UNCHANGED <<held, taskID, seen>>

(* NewWorkerPool followed by Start.                                         *)
Init ==
  /\ numWorkers = NumWorkers
  /\ active = 0 /\ submitted = 0 /\ completed = 0
  /\ stopped = FALSE /\ cancelled = FALSE
  /\ tasks = <<>> /\ results = <<>>
  /\ mu = "free"
  /\ \E S \in SUBSET Workers :
       /\ Cardinality(S) = NumWorkers
       /\ wpc = [w \in Workers |-> IF w \in S THEN "select" ELSE "none"]
  /\ held = [w \in Workers |-> NoTask]
  /\ taskID = [w \in Workers |-> 0]
  /\ seen = [w \in Workers |-> 0]
  /\ spc = [t \in Tasks |-> "idle"]
  /\ grow = [t \in Tasks |-> 0]
  /\ rpc = [r \in Resizers |-> "idle"]
  /\ rold = [r \in Resizers |-> 0]
  /\ rnew = [r \in Resizers |-> 0]
  /\ cpc = [c \in Closers |-> "idle"]
  /\ ran = [t \in Tasks |-> 0]

-----------------------------------------------------------------------------
(* The worker goroutine.                                                    *)

WGoto(w, from, to) == wpc[w] = from /\ wpc' = [wpc EXCEPT ![w] = to]

\* Mutant: the task is read without being removed from the channel.
Take_Peek(w) ==
  /\ tasks # <<>>
  /\ WGoto(w, "select", "taken")
  /\ held' = [held EXCEPT ![w] = Head(tasks)]
  /\ UNCHANGED <<counters, flags, channels, mu, taskID, seen, submits, resizes, cpc, ran>>

\* case task := <-p.tasks
Take(w) ==
  /\ tasks # <<>>
  /\ WGoto(w, "select", "taken")
  /\ held' = [held EXCEPT ![w] = Head(tasks)]
  /\ tasks' = Tail(tasks)
  /\ UNCHANGED <<counters, flags, results, mu, taskID, seen, submits, resizes, cpc, ran>>

\* atomic.AddInt32(&p.active, 1)
MarkActive(w) ==
  /\ WGoto(w, "taken", "active")
  /\ active' = active + 1
  /\ UNCHANGED <<numWorkers, submitted, completed, flags, channels, mu, held, taskID, seen, submits, resizes, cpc, ran>>

\* taskID := atomic.AddInt64(&p.submitted, 1)
Number(w) ==
  /\ WGoto(w, "active", "run")
  /\ submitted' = submitted + 1
  /\ taskID' = [taskID EXCEPT ![w] = submitted + 1]
  /\ UNCHANGED <<numWorkers, active, completed, flags, channels, mu, held, seen, submits, resizes, cpc, ran>>

\* executeTask: the task runs and returns
ExecuteTask(w) ==
  /\ WGoto(w, "run", "ran")
  /\ ran' = [ran EXCEPT ![held[w]] = @ + 1]
  /\ UNCHANGED <<counters, flags, channels, mu, held, taskID, seen,
                 submits, resizes, cpc>>

\* Mutant: the decrement is forgotten.
MarkInactive_Forgotten(w) ==
  /\ WGoto(w, "ran", "inactive")
  /\ UNCHANGED <<counters, flags, channels, mu, held, taskID, seen, submits, resizes, cpc, ran>>

\* atomic.AddInt32(&p.active, -1)
MarkInactive(w) ==
  /\ WGoto(w, "ran", "inactive")
  /\ active' = active - 1
  /\ UNCHANGED <<numWorkers, submitted, completed, flags, channels, mu, held, taskID, seen, submits, resizes, cpc, ran>>

\* atomic.AddInt64(&p.completed, 1)
CountCompleted(w) ==
  /\ WGoto(w, "inactive", "report")
  /\ completed' = completed + 1
  /\ UNCHANGED <<numWorkers, active, submitted, flags, channels, mu, held, taskID, seen, submits, resizes, cpc, ran>>

\* select { case p.results <- ...: default: }: a full channel drops the result
Report(w) ==
  /\ WGoto(w, "report", "select")
  /\ results' = IF Len(results) < QueueSize THEN Append(results, taskID[w]) ELSE results
  /\ held' = [held EXCEPT ![w] = NoTask]
  /\ taskID' = [taskID EXCEPT ![w] = 0]
  /\ UNCHANGED <<counters, flags, tasks, mu, seen, submits, resizes, cpc, ran>>

\* case <-timer.C: currentWorkers := atomic.LoadInt32(&p.numWorkers)
IdleTimeout(w) ==
  /\ WGoto(w, "select", "idle")
  /\ seen' = [seen EXCEPT ![w] = numWorkers]
  /\ UNCHANGED <<counters, flags, channels, mu, held, taskID, submits, resizes, cpc, ran>>

\* Mutant: the worker leaves without lowering the count.
IdleExit_NoDecrement(w) ==
  /\ seen[w] > MinWorkers
  /\ WGoto(w, "idle", "none") /\ WGDone(w)
  /\ seen' = [seen EXCEPT ![w] = 0]
  /\ UNCHANGED <<counters, flags, channels, mu, held, taskID, submits, resizes, ran>>

\* if currentWorkers > minWorkers { atomic.AddInt32(&p.numWorkers, -1); return }
IdleExit(w) ==
  /\ seen[w] > MinWorkers
  /\ WGoto(w, "idle", "none") /\ WGDone(w)
  /\ numWorkers' = numWorkers - 1
  /\ seen' = [seen EXCEPT ![w] = 0]
  /\ UNCHANGED <<active, submitted, completed, flags, channels, mu, held, taskID, submits, resizes, ran>>

\* otherwise timer.Reset and loop
IdleStay(w) ==
  /\ seen[w] <= MinWorkers
  /\ WGoto(w, "idle", "select")
  /\ seen' = [seen EXCEPT ![w] = 0]
  /\ UNCHANGED <<counters, flags, channels, mu, held, taskID, submits, resizes, cpc, ran>>

\* case <-p.ctx.Done(): return, without touching numWorkers
WorkerDone(w) ==
  /\ cancelled
  /\ WGoto(w, "select", "none") /\ WGDone(w)
  /\ UNCHANGED <<counters, flags, channels, mu, held, taskID, seen, submits, resizes, ran>>

\* a client receives from Results()
ReadResult ==
  /\ results # <<>>
  /\ results' = Tail(results)
  /\ UNCHANGED <<counters, flags, tasks, mu, workers, submits, resizes, cpc, ran>>

-----------------------------------------------------------------------------
(* Submit and maybeScaleUp.                                                 *)

SGoto(t, from, to) == spc[t] = from /\ spc' = [spc EXCEPT ![t] = to]

\* a stopped pool swallows the task and returns nil
SubmitStart(t) ==
  /\ SGoto(t, "idle", IF stopped THEN "dropped" ELSE "check")
  /\ UNCHANGED <<counters, flags, channels, mu, workers, grow, resizes, cpc, ran>>

SubmitCheck(t) ==
  /\ SGoto(t, "check", IF Len(tasks) > ScaleThreshold THEN "scale" ELSE "send")
  /\ UNCHANGED <<counters, flags, channels, mu, workers, grow, resizes, cpc, ran>>

\* p.mu.Lock(); load numWorkers; return at the upper bound
ScaleDecide(t) ==
  /\ mu = "free"
  /\ IF numWorkers >= MaxWorkers
     THEN /\ SGoto(t, "scale", "send")
          /\ UNCHANGED <<mu, grow>>
     ELSE /\ SGoto(t, "scale", "grow")
          /\ mu' = t
          /\ grow' = [grow EXCEPT ![t] = ScaleBatch(numWorkers)]
  /\ UNCHANGED <<counters, flags, channels, workers, resizes, cpc, ran>>

\* one turn of the loop; the deferred unlock follows the last one
ScaleSpawn(t) ==
  /\ spc[t] = "grow"
  /\ numWorkers' = numWorkers + 1
  /\ Spawn
  /\ grow' = [grow EXCEPT ![t] = @ - 1]
  /\ IF grow[t] = 1
     THEN mu' = "free" /\ spc' = [spc EXCEPT ![t] = "send"]
     ELSE UNCHANGED <<mu, spc>>
  /\ UNCHANGED <<active, submitted, completed, flags, channels, resizes, cpc, ran>>

\* select { case p.tasks <- task: return nil
SubmitSend(t) ==
  /\ Len(tasks) < QueueSize
  /\ SGoto(t, "send", "sent")
  /\ tasks' = Append(tasks, t)
  /\ UNCHANGED <<counters, flags, results, mu, workers, grow, resizes, cpc, ran>>

\* Mutant: the context is looked at only when the queue has room.
SubmitCancelled_NeedsRoom(t) ==
  /\ cancelled
  /\ Len(tasks) < QueueSize
  /\ SGoto(t, "send", "err")
  /\ UNCHANGED <<counters, flags, channels, mu, workers, grow, resizes, cpc, ran>>

\* case <-p.ctx.Done(): return p.ctx.Err() }
SubmitCancelled(t) ==
  /\ cancelled
  /\ SGoto(t, "send", "err")
  /\ UNCHANGED <<counters, flags, channels, mu, workers, grow, resizes, cpc, ran>>

-----------------------------------------------------------------------------
(* Resize: load and store under p.mu, start workers after the unlock.       *)

RGoto(r, from, to) == rpc[r] = from /\ rpc' = [rpc EXCEPT ![r] = to]

\* Mutant: Resize does not take p.mu.
ResizeLoad_NoLock(r, n) ==
  /\ RGoto(r, "idle", "loaded")
  /\ rold' = [rold EXCEPT ![r] = numWorkers]
  /\ rnew' = [rnew EXCEPT ![r] = n]
  /\ UNCHANGED <<counters, flags, channels, mu, workers, submits, cpc, ran>>

ResizeLoad(r, n) ==
  /\ mu = "free"
  /\ RGoto(r, "idle", "loaded")
  /\ mu' = r
  /\ rold' = [rold EXCEPT ![r] = numWorkers]
  /\ rnew' = [rnew EXCEPT ![r] = n]
  /\ UNCHANGED <<counters, flags, channels, workers, submits, cpc, ran>>

ResizeStore(r) ==
  /\ RGoto(r, "loaded", "spawn")
  /\ mu' = "free"
  /\ numWorkers' = rnew[r]
  /\ UNCHANGED <<active, submitted, completed, flags, channels, workers, submits, rold, rnew, cpc, ran>>

\* for i := oldNum; i < numWorkers; i++
ResizeSpawn(r) ==
  /\ rpc[r] = "spawn" /\ rold[r] < rnew[r]
  /\ Spawn
  /\ rold' = [rold EXCEPT ![r] = @ + 1]
  /\ UNCHANGED <<counters, flags, channels, mu, submits, rpc, rnew, cpc, ran>>

ResizeReturn(r) ==
  /\ rold[r] >= rnew[r]
  /\ RGoto(r, "spawn", "done")
  /\ UNCHANGED <<counters, flags, channels, mu, workers, submits, rold, rnew, cpc, ran>>

-----------------------------------------------------------------------------
(* Stop and Shutdown.                                                       *)

CGoto(c, from, to) == cpc[c] = from /\ cpc' = [cpc EXCEPT ![c] = to]

\* CompareAndSwap(&p.stopped, 0, 1); only the winner cancels
Stop(c) ==
  /\ CGoto(c, "idle", IF stopped THEN "wait" ELSE "cancel")
  /\ stopped' = TRUE
  /\ UNCHANGED <<counters, cancelled, channels, mu, workers, submits, resizes, ran>>

Cancel(c) ==
  /\ CGoto(c, "cancel", "wait")
  /\ cancelled' = TRUE
  /\ UNCHANGED <<counters, stopped, channels, mu, workers, submits, resizes, ran>>

\* p.wg.Wait()
ShutdownWait(c) ==
  /\ CGoto(c, "wait", IF Live = {} THEN "done" ELSE "blocked")
  /\ UNCHANGED <<counters, flags, channels, mu, workers, submits, resizes, ran>>

\* the woken Wait looks at the count once more
ShutdownWake(c) ==
  /\ CGoto(c, "woken", IF Live = {} THEN "done" ELSE "panicked")
  /\ UNCHANGED <<counters, flags, channels, mu, workers, submits, resizes, ran>>

-----------------------------------------------------------------------------
WorkerSelect(w) == Take(w) \/ WorkerDone(w)

WorkerRun(w) ==
  \/ MarkActive(w) \/ Number(w) \/ ExecuteTask(w) \/ MarkInactive(w)
  \/ CountCompleted(w) \/ Report(w) \/ IdleExit(w) \/ IdleStay(w)

SubmitStep(t) ==
  \/ SubmitCheck(t) \/ ScaleDecide(t) \/ ScaleSpawn(t)
  \/ SubmitSend(t) \/ SubmitCancelled(t)

ResizeStep(r) == ResizeStore(r) \/ ResizeSpawn(r) \/ ResizeReturn(r)

ShutdownStep(c) == Cancel(c) \/ ShutdownWait(c) \/ ShutdownWake(c)

\* Every call has returned and no worker is left to wait for one, or a panic has
\* ended the program.
Terminated ==
  /\ \/ Panicked
     \/ /\ \A t \in Tasks : spc[t] \in {"dropped", "sent", "err"}
        /\ \A c \in Closers : cpc[c] = "done"
        /\ Live = {}
  /\ UNCHANGED vars

Step ==
  \/ \E w \in Workers : WorkerSelect(w) \/ WorkerRun(w) \/ IdleTimeout(w)
  \/ ReadResult
  \/ \E t \in Tasks : SubmitStart(t) \/ SubmitStep(t)
  \/ \E r \in Resizers : ResizeStep(r) \/ \E n \in ResizeTargets : ResizeLoad(r, n)
  \/ \E c \in Closers : Stop(c) \/ ShutdownStep(c)

Next == (~Panicked /\ Step) \/ Terminated

Spec == Init /\ [][Next]_vars

(***************************************************************************)
(* Goroutines are scheduled (weak fairness) and a select that keeps having *)
(* a ready task or a done context does not ignore it for ever in favour of *)
(* the idle timer (strong fairness: Go picks among ready cases at random). *)
(* Tasks return.  Nobody is obliged to call Submit, Resize or Shutdown.    *)
(***************************************************************************)
Fairness ==
  /\ \A w \in Workers : WF_vars(~Panicked /\ WorkerRun(w)) /\ SF_vars(~Panicked /\ WorkerSelect(w))
  /\ \A t \in Tasks : WF_vars(~Panicked /\ SubmitStep(t))
  /\ \A r \in Resizers : WF_vars(~Panicked /\ ResizeStep(r))
  /\ \A c \in Closers : WF_vars(~Panicked /\ ShutdownStep(c))

FairSpec == Spec /\ Fairness
-----------------------------------------------------------------------------
(* Properties.                                                              *)

WorkerStates == {"none", "select", "taken", "active", "run", "ran",
                 "inactive", "report", "idle"}
CloserStates == {"idle", "cancel", "wait", "blocked", "woken", "done", "panicked"}

\* Type invariant of the pool.  The bounds on the channels and on grow are
\* what the code guards: a send never exceeds QueueSize, and maybeScaleUp
\* never starts a negative number of workers or more than four.
TypeOK ==
  /\ numWorkers \in Int
  /\ active \in Int /\ submitted \in Nat /\ completed \in Nat
  /\ stopped \in BOOLEAN /\ cancelled \in BOOLEAN
  /\ tasks \in Seq(Tasks) /\ Len(tasks) <= QueueSize
  /\ results \in Seq(Nat) /\ Len(results) <= QueueSize
  /\ mu \in Tasks \cup Resizers \cup {"free"}
  /\ wpc \in [Workers -> WorkerStates]
  /\ held \in [Workers -> Tasks \cup {NoTask}]
  /\ taskID \in [Workers -> Nat]
  /\ seen \in [Workers -> Int]
  /\ spc \in [Tasks -> {"idle", "check", "scale", "grow", "send", "sent", "dropped", "err"}]
  /\ grow \in [Tasks -> 0..4]
  /\ rpc \in [Resizers -> {"idle", "loaded", "spawn", "done"}]
  /\ rold \in [Resizers -> Int]
  /\ rnew \in [Resizers -> Nat]
  /\ cpc \in [Closers -> CloserStates]
  /\ ran \in [Tasks -> Nat]

Queued(t)  == \E i \in 1..Len(tasks) : tasks[i] = t
Holding(t) == {w \in Workers : held[w] = t}

\* A task whose Submit returned nil after the send is in exactly one place:
\* the channel, the hands of one worker that has not run it yet, or executed
\* once.  A task whose Submit returned an error, or nil because the pool was
\* stopped, is in none and never runs, however the send raced with Shutdown.
AcceptedOnce ==
  \A t \in Tasks :
    /\ ran[t] <= 1
    /\ spc[t] # "sent" => ran[t] = 0 /\ ~Queued(t) /\ Holding(t) = {}
    /\ spc[t] = "sent" =>
         \/ Queued(t) /\ ran[t] = 0 /\ Holding(t) = {}
         \/ ran[t] = 0 /\ ~Queued(t) /\ \E w \in Workers : Holding(t) = {w}
         \/ ran[t] = 1 /\ ~Queued(t)

Counted(S) == Cardinality({w \in Workers : wpc[w] \in S})

\* The statistics Active(), Submitted() and Completed() agree with what the
\* workers do at every interleaving of their updates: active is the number of
\* workers between the two updates around a task, and submitted exceeds
\* completed by the number of tasks numbered but not yet counted.
CountersAgree ==
  /\ active = Counted({"active", "run", "ran"})
  /\ submitted - completed = Counted({"run", "ran", "inactive"})

\* Until Resize stores a target and until the context is cancelled,
\* NumWorkers() is the number of live worker goroutines, although idle
\* workers and maybeScaleUp change it concurrently.
WorkersCounted ==
  ~cancelled /\ (\A r \in Resizers : rpc[r] \in {"idle", "loaded"})
    => numWorkers = Cardinality(Live)

\* maybeScaleUp never raises the count over 4x CPU (or over what the
\* configuration or a Resize asked for), however many Submit calls see a full
\* queue at once: the load and the additions are under p.mu.
WithinLimit ==
  \/ numWorkers <= MaxWorkers
  \/ numWorkers <= NumWorkers
  \/ \E n \in ResizeTargets : numWorkers <= n

\* Somebody goes on starting workers after the cancellation.
LateStart ==
  cancelled /\ ( \/ \E t \in Tasks : spc[t] = "grow"
                \/ \E r \in Resizers : rpc[r] = "spawn" /\ rold[r] < rnew[r] )

\* Shutdown returns: the context gets cancelled, every worker leaves and wg.Wait
\* ends, and no Submit stays blocked on a full queue once the pool is cancelled.
\* A Submit that is scaling the pool up at the cancellation starts workers all
\* the same: Shutdown still comes to an end, for it either waits for them too or,
\* woken by the last worker before they are counted, panics ("WaitGroup is
\* reused"); without such a late start there is no panic.  (Each call is made
\* once: from some time on none of them is in progress.)
ShutdownReturns ==
  LET Returned == \A c \in Closers : cpc[c] \in {"idle", "done"}
      Settled  == cancelled => \A t \in Tasks : spc[t] \in {"idle", "sent", "dropped", "err"}
  IN  /\ <>[](Panicked \/ (Returned /\ Settled))
      /\ []~LateStart => <>[]Returned

-----------------------------------------------------------------------------
(* The inductive invariant behind AcceptedOnce and WithinLimit.             *)

HoldStates == {"taken", "active", "run", "ran", "inactive", "report"}

\* p.mu protects the scale-up: its holder has a positive number of starts
\* left, and all of them fit under the upper bound.
ScaleInv ==
  /\ \A t \in Tasks : spc[t] = "grow" =>
       mu = t /\ grow[t] >= 1 /\ numWorkers + grow[t] <= MaxWorkers
  /\ \A r \in Resizers : rpc[r] = "loaded" => mu = r /\ rnew[r] \in ResizeTargets

\* Where the tasks are: queued ones are distinct, sent, not run and not held;
\* a worker holds a task exactly while it deals with it, no two hold the same,
\* and it has run exactly when the worker is past executeTask.
QueueDistinct == \A i, j \in 1..Len(tasks) : tasks[i] = tasks[j] => i = j

QueuedFresh ==
  \A i \in 1..Len(tasks) :
    /\ spc[tasks[i]] = "sent" /\ ran[tasks[i]] = 0
    /\ \A w \in Workers : held[w] # tasks[i]

HeldWhileBusy == \A w \in Workers : held[w] # NoTask <=> wpc[w] \in HoldStates

HeldByOne == \A v, w \in Workers : held[v] # NoTask /\ held[v] = held[w] => v = w

HeldSent ==
  \A w \in Workers : held[w] # NoTask =>
    /\ spc[held[w]] = "sent"
    /\ wpc[w] \in {"taken", "active", "run"} => ran[held[w]] = 0
    /\ wpc[w] \notin {"taken", "active", "run"} => ran[held[w]] = 1

RanSent == \A t \in Tasks : ran[t] = 0 \/ (ran[t] = 1 /\ spc[t] = "sent")

SentSomewhere ==
  \A t \in Tasks : spc[t] = "sent" =>
    ran[t] = 1 \/ Queued(t) \/ \E w \in Workers : held[w] = t

TaskInv ==
  QueueDistinct /\ QueuedFresh /\ HeldWhileBusy /\ HeldByOne /\ HeldSent /\ RanSent /\ SentSomewhere

PoolInv == TypeOK /\ ScaleInv /\ TaskInv /\ WithinLimit
=============================================================================
