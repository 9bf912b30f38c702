------------------------------- MODULE MCCore -------------------------------
(***************************************************************************)
(* The parts of package core, and the certificates it makes, for TLC: the  *)
(* executor of batches, the scheduler, the end of the worker pool, the     *)
(* life of a Core and the certificate manager.  They share no state here:  *)
(* a behaviour is one of a single part, chosen at the start, and each      *)
(* liveness property assumes the fairness of the part that it is about.    *)
(***************************************************************************)
EXTENDS ParallelExecutor

CONSTANTS c1, c2, t1, t2, t3, t4, Flushers, Priorities, Unscheduled, PoolWorkers, NoTask, NoRouting,
          ScheduledTasks, CoreTasks, CallingTasks, Configs, FirstConfig, ProbesLines, Ports, MaxStarts,
          Names, NoName, Unlocked, MaxKeys, MaxAge, AutoRenew, HasOutputDir

\* A batch longer than the semaphore, and another caller.
MCBatch == [c \in {c1, c2} |-> IF c = c1 THEN <<t1, t2, t3>> ELSE <<t4>>]

Inbound(port, supported) == [port |-> port, supported |-> supported]
Config(routing, dualStack, list) == [routing |-> routing, dualStack |-> dualStack, inbounds |-> list]

Routed == Config("r1", TRUE, <<Inbound(1, TRUE)>>)
Unrouted == Config(NoRouting, TRUE, <<Inbound(2, TRUE)>>)
Unsupported == Config("r1", TRUE, <<Inbound(1, TRUE), Inbound(2, FALSE)>>)
NoDualStack == Config("r2", FALSE, <<Inbound(1, TRUE)>>)

AllConfigs == {Routed, Unrouted, Unsupported, NoDualStack}

VARIABLE part
-----------------------------------------------------------------------------
VARIABLES pending, taken, placed, dropped, flushStopped, priority
Scheduler == INSTANCE TaskScheduler WITH Tasks <- ScheduledTasks, stopped <- flushStopped
schedulerVars == <<pending, taken, placed, dropped, flushStopped, priority>>

VARIABLES numWorkers, active, submitted, completed, stopped, cancelled, tasks, results, poolMu,
          wpc, held, taskID, seen, spc, grow, rpc, rold, rnew, cpc, ran
Pool == INSTANCE WorkerPool WITH
  Tasks <- {t1, t2}, Resizers <- {}, ResizeTargets <- {}, Closers <- {c1}, Workers <- PoolWorkers,
  NumWorkers <- 3, MaxWorkers <- 3, QueueSize <- 1, mu <- poolMu
poolVars == <<numWorkers, active, submitted, completed, stopped, cancelled, tasks, results, poolMu,
              wpc, held, taskID, seen, spc, grow, rpc, rold, rnew, cpc, ran>>

VARIABLES coreMu, corePc, running, ctxDone, poolStopped, config, router, managers, starting, bound,
          background, task, panicked
TheCore == INSTANCE Core WITH Tasks <- CoreTasks, mu <- coreMu, pc <- corePc
coreVars == <<coreMu, corePc, running, ctxDone, poolStopped, config, router, managers, starting, bound,
              background, task, panicked>>

VARIABLES certMu, certs, made, name, age, certFile, keyFile, certPc, want, key, got
Certificates == INSTANCE CertificateManager WITH Free <- Unlocked, mu <- certMu, pc <- certPc
certVars == <<certMu, certs, made, name, age, certFile, keyFile, certPc, want, key, got>>

ASSUME PartsAssumption ==
  Scheduler!SchedulerAssumption /\ TheCore!CoreAssumption /\ Certificates!CertificateAssumption
-----------------------------------------------------------------------------
allVars == <<part, vars, schedulerVars, poolVars, coreVars, certVars>>

MCInit ==
  /\ part \in {"executor", "scheduler", "pool", "core", "certificates"}
  /\ Init /\ Scheduler!Init /\ Pool!Init /\ TheCore!Init /\ Certificates!Init
MCNext ==
  /\ UNCHANGED part
  /\ \/ part = "executor" /\ Next /\ UNCHANGED <<schedulerVars, poolVars, coreVars, certVars>>
     \/ part = "scheduler" /\ Scheduler!Next /\ UNCHANGED <<vars, poolVars, coreVars, certVars>>
     \/ part = "pool" /\ Pool!Next /\ UNCHANGED <<vars, schedulerVars, coreVars, certVars>>
     \/ part = "core" /\ TheCore!Next /\ UNCHANGED <<vars, schedulerVars, poolVars, certVars>>
     \/ part = "certificates" /\ Certificates!Next /\ UNCHANGED <<vars, schedulerVars, poolVars, coreVars>>
MCSpec == MCInit /\ [][MCNext]_allVars

\* TaskScheduler: no task is lost or handed over twice.
NoneLostOrDoubled == Scheduler!NoneLostOrDoubled

\* Core: a running Core has a manager whose context is alive.
RunningServes == TheCore!RunningServes

\* Core: no earlier manager goes on serving beside the current one.
NoOldManager == TheCore!NoOldManager

\* CertificateManager: every name has a certificate for that name.
NamesMatch == Certificates!NamesMatch

\* ParallelExecutor and CertificateManager: every batch returns, and a caller
\* without a cached certificate gets one.
CallsReturn ==
  /\ part = "executor" /\ Fairness => BatchEnds
  /\ part = "certificates" /\ Certificates!Fairness => Certificates!GetReturns

\* WorkerPool: Shutdown returns, and no Submit stays blocked on a full queue; where
\* a Submit under way starts workers after the cancellation, Shutdown's Wait may
\* panic or wait for those as well.
ShutdownReturns == part = "pool" /\ Pool!Fairness => Pool!ShutdownReturns

\* Core: Stop returns unless a task waits for the lock that it holds.
StopReturns == part = "core" /\ TheCore!Fairness => TheCore!StopReturns
=============================================================================
