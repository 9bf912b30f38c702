--------------------------- MODULE TaskScheduler ----------------------------
(***************************************************************************)
(* core/worker.go: TaskScheduler, which collects tasks and hands them to   *)
(* the worker pool.                                                        *)
(*                                                                         *)
(* Schedule and the first half of Flush hold the lock; Flush then submits  *)
(* what it took without the lock, one task after the other, while other    *)
(* goroutines schedule and flush.  Submit of a stopped pool returns        *)
(* without taking the task, and Flush ignores what Submit returns; a       *)
(* Submit that began before the stop may still place its task.             *)
(***************************************************************************)
EXTENDS Integers, Sequences

CONSTANTS Tasks, Flushers, Priorities, Unscheduled

\* What is assumed of the constants.
SchedulerAssumption == Priorities \subseteq Int /\ Unscheduled \notin Priorities

VARIABLES pending, taken, placed, dropped, stopped, priority
vars == <<pending, taken, placed, dropped, stopped, priority>>

Init ==
  /\ pending = <<>>
  /\ taken = [f \in Flushers |-> <<>>]
  /\ placed = <<>>
  /\ dropped = {}
  /\ stopped = FALSE
  /\ priority = [t \in Tasks |-> Unscheduled]

\* Schedule: positive priorities go to the front, the others to the back
Schedule(t, p) ==
  /\ priority[t] = Unscheduled
  /\ priority' = [priority EXCEPT ![t] = p]
  /\ pending' = IF p > 0 THEN <<t>> \o pending ELSE Append(pending, t)
  /\ UNCHANGED <<taken, placed, dropped, stopped>>

\* Mutant: the pending tasks are copied and not cleared.
FlushTake_NotCleared(f) ==
  /\ taken[f] = <<>>
  /\ taken' = [taken EXCEPT ![f] = pending]
  /\ UNCHANGED <<pending, placed, dropped, stopped, priority>>

\* Flush: take all that is pending, under the lock
FlushTake(f) ==
  /\ taken[f] = <<>>
  /\ taken' = [taken EXCEPT ![f] = pending]
  /\ pending' = <<>>
  /\ UNCHANGED <<placed, dropped, stopped, priority>>

\* Flush: s.pool.Submit(task) places the task in the pool's queue
FlushSubmit(f) ==
  /\ taken[f] # <<>>
  /\ placed' = Append(placed, Head(taken[f]))
  /\ taken' = [taken EXCEPT ![f] = Tail(@)]
  /\ UNCHANGED <<pending, dropped, stopped, priority>>

\* Flush: Submit of a pool that was stopped gives the task up
FlushDrop(f) ==
  /\ taken[f] # <<>>
  /\ stopped
  /\ dropped' = dropped \union {Head(taken[f])}
  /\ taken' = [taken EXCEPT ![f] = Tail(@)]
  /\ UNCHANGED <<pending, placed, stopped, priority>>

\* WorkerPool.Stop
StopPool ==
  /\ ~stopped
  /\ stopped' = TRUE
  /\ UNCHANGED <<pending, taken, placed, dropped, priority>>

Next ==
  \/ \E t \in Tasks, p \in Priorities : Schedule(t, p)
  \/ \E f \in Flushers : FlushTake(f) \/ FlushSubmit(f) \/ FlushDrop(f)
  \/ StopPool

Spec == Init /\ [][Next]_vars

-----------------------------------------------------------------------------
Scheduled == {t \in Tasks : priority[t] # Unscheduled}

\* Type invariant of the scheduler.
TypeOK ==
  /\ pending \in Seq(Tasks) /\ placed \in Seq(Tasks)
  /\ taken \in [Flushers -> Seq(Tasks)]
  /\ dropped \subseteq Tasks /\ stopped \in BOOLEAN
  /\ priority \in [Tasks -> Priorities \union {Unscheduled}]

At(s, t) == {i \in DOMAIN s : s[i] = t}

\* Where the task is: in which of the sequences and at which index, or dropped
Places(t) ==
  ({"pending"} \X At(pending, t)) \union ({"placed"} \X At(placed, t))
  \union (UNION {{f} \X At(taken[f], t) : f \in Flushers})
  \union ({"dropped"} \X ({t} \intersect dropped))

\* Concurrent flushes divide the pending tasks among themselves: a scheduled
\* task is in exactly one place, and lost only to a stopped pool.
NoneLostOrDoubled ==
  /\ \A t \in Scheduled : \E place \in Places(t) : Places(t) = {place}
  /\ dropped # {} => stopped

=============================================================================
