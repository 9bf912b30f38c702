-------------------------------- MODULE Core --------------------------------
(***************************************************************************)
(* core/core.go: the life of a Core.                                       *)
(*                                                                         *)
(* Goroutines of the program (Callers) call Start, Stop and LoadConfig,    *)
(* each under the Core's lock.  Start makes a new proxy manager of the     *)
(* configuration and a goroutine for each of its inbounds, which takes its *)
(* port later or not at all; Stop cancels the contexts and waits, lock in  *)
(* hand, for the tasks in the worker pool (WorkerPool.tla has the pool,    *)
(* ProxyManager.tla the manager).  A task may call a method of the Core    *)
(* that takes the lock (CallingTasks), such as IsRunning.                  *)
(*                                                                         *)
(* A configuration is a record: its routing (NoRouting for nil), whether   *)
(* it has a DualStack section, and its inbounds, each with a port and      *)
(* whether its protocol is supported.  ProbesLines: NewCore made a         *)
(* multi-line manager.  MaxStarts bounds the calls of Start.               *)
(***************************************************************************)
EXTENDS Integers, Sequences

CONSTANTS Callers, Configs, FirstConfig, NoRouting, Tasks, CallingTasks, ProbesLines, Ports, MaxStarts

\* What is assumed of the constants.
CoreAssumption ==
  /\ FirstConfig \in Configs /\ CallingTasks \subseteq Tasks /\ ProbesLines \in BOOLEAN /\ MaxStarts \in Nat
  /\ \A cfg \in Configs : \A k \in DOMAIN cfg.inbounds : cfg.inbounds[k].port \in Ports
  /\ "free" \notin Callers

VARIABLES mu, pc, running, ctxDone, poolStopped, config, router, managers, starting, bound, background, task, panicked
core == <<running, ctxDone, poolStopped, config, router, managers, panicked>>
inbounds == <<starting, bound>>
vars == <<mu, pc, core, inbounds, background, task>>

Free == "free"
NoRouter == "noRouter"

\* NewCore: the contexts, the pool; neither a manager nor a router
Init ==
  /\ mu = Free /\ pc = [c \in Callers |-> "idle"]
  /\ running = FALSE /\ ctxDone = FALSE /\ poolStopped = FALSE
  /\ config = FirstConfig /\ router = NoRouter
  /\ managers = <<>> /\ starting = {} /\ bound = [p \in Ports |-> 0]
  /\ background = 0 /\ task = [t \in Tasks |-> "none"] /\ panicked = FALSE

-----------------------------------------------------------------------------
\* ProxyManager.Start stops at the first inbound whose protocol is not supported.
Supported(cfg) == {k \in DOMAIN cfg.inbounds : \A j \in 1 .. k : cfg.inbounds[j].supported}

Starts(cfg) == Supported(cfg) = DOMAIN cfg.inbounds

\* Start, with the lock: a manager and a router of the configuration, goroutines
\* for the inbounds; then, unless one of them failed, the background task
Start(c) ==
  /\ pc[c] = "idle" /\ mu = Free /\ ~running /\ Len(managers) < MaxStarts
  /\ managers' = Append(managers, [config |-> config, cancelled |-> FALSE])
  /\ router' = config.routing
  /\ starting' = starting \union {<<Len(managers) + 1, config.inbounds[k].port>> : k \in Supported(config)}
  /\ panicked' = (Starts(config) /\ ProbesLines /\ ~config.dualStack)
  /\ running' = (Starts(config) /\ ~panicked')
  /\ background' = IF Starts(config) THEN background + 1 ELSE background
  /\ UNCHANGED <<mu, pc, ctxDone, poolStopped, config, bound, task>>

\* Mutant: Stop leaves the manager's context alone.
StopCancel_NotManager(c) ==
  /\ pc[c] = "idle" /\ mu = Free /\ running
  /\ mu' = c /\ pc' = [pc EXCEPT ![c] = "shutdown"]
  /\ ctxDone' = TRUE /\ poolStopped' = TRUE
  /\ UNCHANGED <<running, config, router, managers, panicked, inbounds, background, task>>

\* Stop, with the lock: the contexts of the Core, the manager and the pool
StopCancel(c) ==
  /\ pc[c] = "idle" /\ mu = Free /\ running
  /\ mu' = c /\ pc' = [pc EXCEPT ![c] = "shutdown"]
  /\ ctxDone' = TRUE /\ poolStopped' = TRUE
  /\ managers' = [managers EXCEPT ![Len(managers)].cancelled = TRUE]
  /\ UNCHANGED <<running, config, router, panicked, inbounds, background, task>>

\* Mutant: the Core stays running.
StopReturn_StillRunning(c) ==
  /\ pc[c] = "shutdown" /\ \A t \in Tasks : task[t] \notin {"runs", "calls"}
  /\ mu' = Free /\ pc' = [pc EXCEPT ![c] = "idle"]
  /\ UNCHANGED <<core, inbounds, background, task>>

\* Stop: workerPool.Shutdown has waited for the workers; return
StopReturn(c) ==
  /\ pc[c] = "shutdown" /\ \A t \in Tasks : task[t] \notin {"runs", "calls"}
  /\ running' = FALSE
  /\ mu' = Free /\ pc' = [pc EXCEPT ![c] = "idle"]
  /\ UNCHANGED <<ctxDone, poolStopped, config, router, managers, panicked, inbounds, background, task>>

\* LoadConfig, with the lock: the Core's configuration and the router's
LoadConfig(c, cfg) ==
  /\ pc[c] = "idle" /\ mu = Free
  /\ config' = cfg
  /\ router' = IF cfg.routing # NoRouting /\ router # NoRouter THEN cfg.routing ELSE router
  /\ UNCHANGED <<mu, pc, running, ctxDone, poolStopped, managers, panicked, inbounds, background, task>>

-----------------------------------------------------------------------------
\* startInbound takes its port, or finds it taken and returns
Listen(m, p) ==
  /\ <<m, p>> \in starting
  /\ starting' = starting \ {<<m, p>>}
  /\ bound' = IF bound[p] = 0 THEN [bound EXCEPT ![p] = m] ELSE bound
  /\ UNCHANGED <<mu, pc, core, background, task>>

\* startInbound sees the context, after one more connection, and gives up the port
Unlisten(p) ==
  /\ bound[p] # 0 /\ managers[bound[p]].cancelled
  /\ bound' = [bound EXCEPT ![p] = 0]
  /\ UNCHANGED <<mu, pc, core, starting, background, task>>

\* the background tasks end with the Core's context
BackgroundEnds ==
  /\ background > 0 /\ ctxDone
  /\ background' = background - 1
  /\ UNCHANGED <<mu, pc, core, inbounds, task>>

\* Submit queues a task; the queue of a cancelled pool may take it still or not.
TaskSubmitted(t) ==
  /\ task[t] = "none"
  /\ \/ task' = [task EXCEPT ![t] = "queued"]
     \/ poolStopped /\ task' = [task EXCEPT ![t] = "done"]
  /\ UNCHANGED <<mu, pc, core, inbounds, background>>

\* A worker takes a task, until it sees the cancellation; one that a Submit under
\* way starts after it may take one too.
TaskStarts(t) ==
  /\ task[t] = "queued"
  /\ task' = [task EXCEPT ![t] = "runs"]
  /\ UNCHANGED <<mu, pc, core, inbounds, background>>

TaskCalls(t) ==
  /\ task[t] = "runs" /\ t \in CallingTasks
  /\ task' = [task EXCEPT ![t] = "calls"]
  /\ UNCHANGED <<mu, pc, core, inbounds, background>>

\* Mutant: a task's end is taken for a call, which waits for the lock.
TaskEnds_Locks(t) ==
  /\ task[t] \in {"runs", "calls"} /\ mu = Free
  /\ task' = [task EXCEPT ![t] = "done"]
  /\ UNCHANGED <<mu, pc, core, inbounds, background>>

\* The task returns; a call of the Core's (IsRunning, ExportConfig) waits for the lock.
TaskEnds(t) ==
  /\ (task[t] = "runs" /\ t \notin CallingTasks) \/ (task[t] = "calls" /\ mu = Free)
  /\ task' = [task EXCEPT ![t] = "done"]
  /\ UNCHANGED <<mu, pc, core, inbounds, background>>

Next ==
  /\ ~panicked
  /\ \/ \E c \in Callers : Start(c) \/ StopCancel(c) \/ StopReturn(c) \/ \E cfg \in Configs : LoadConfig(c, cfg)
     \/ \E p \in Ports : Unlisten(p) \/ \E m \in DOMAIN managers : Listen(m, p)
     \/ BackgroundEnds
     \/ \E t \in Tasks : TaskSubmitted(t) \/ TaskStarts(t) \/ TaskCalls(t) \/ TaskEnds(t)

Spec == Init /\ [][Next]_vars

\* Goroutines that can move do, one that waits for the lock gets it in turn
\* (sync.Mutex), and tasks end.  The program need not call anything.
Fairness ==
  /\ \A c \in Callers : WF_vars(~panicked /\ StopReturn(c))
  /\ \A t \in Tasks : WF_vars(~panicked /\ TaskCalls(t)) /\ SF_vars(~panicked /\ TaskEnds(t))
  /\ \A p \in Ports : WF_vars(~panicked /\ \E m \in DOMAIN managers : Listen(m, p))

FairSpec == Spec /\ Fairness

-----------------------------------------------------------------------------
\* Type invariant of the Core: the lock is held by the one Stop in progress.
TypeOK ==
  /\ mu \in Callers \union {Free} /\ pc \in [Callers -> {"idle", "shutdown"}]
  /\ \A c \in Callers : mu = c <=> pc[c] = "shutdown"
  /\ running \in BOOLEAN /\ ctxDone \in BOOLEAN /\ poolStopped \in BOOLEAN
  /\ config \in Configs /\ managers \in Seq([config : Configs, cancelled : BOOLEAN])
  /\ bound \in [Ports -> 0 .. MaxStarts] /\ background \in 0 .. MaxStarts

\* A Core that is running, and not just stopping, has a manager whose context is
\* alive: however Start, Stop and LoadConfig follow each other, a Start that
\* reports success is not a Start on a manager that Stop has ended.
RunningServes ==
  (running /\ mu = Free) => (managers # <<>> /\ ~managers[Len(managers)].cancelled)

\* A port is held by the manager of the running Core, by one that was told to
\* give it up, or by one whose Start failed, which nothing ends: no manager that
\* started goes on accepting connections with its old configuration beside the
\* current one.
NoOldManager == \A p \in Ports : bound[p] # 0 =>
  \/ running /\ bound[p] = Len(managers)
  \/ managers[bound[p]].cancelled
  \/ ~Starts(managers[bound[p]].config)

\* Stop, which waits lock in hand for the tasks in the pool, returns unless one
\* of them has called a method of the Core and waits for that lock.
StopReturns == mu # Free ~> (mu = Free \/ \E t \in Tasks : task[t] = "calls")
=============================================================================
