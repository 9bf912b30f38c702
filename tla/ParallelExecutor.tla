-------------------------- MODULE ParallelExecutor --------------------------
(***************************************************************************)
(* core/worker.go: ParallelExecutor, a semaphore and a wait group shared   *)
(* by every caller of ExecuteBatch.                                        *)
(*                                                                         *)
(* Execute takes a slot of the semaphore, which may block, counts the task *)
(* in the wait group and starts its goroutine; the goroutine runs the task *)
(* and, its deferred calls running last first, returns the slot before it  *)
(* leaves the wait group.  ExecuteBatch executes its tasks in order and    *)
(* waits.  Wait of sync.WaitGroup is external: a caller that has to block  *)
(* is woken by the Done that reaches zero, and panics if the counter is    *)
(* not zero any more when it runs again (the wait group was reused).       *)
(***************************************************************************)
EXTENDS Integers, Sequences, FiniteSets

CONSTANTS Callers, Tasks, Batch, MaxConcurrency

ASSUME ExecutorAssumption ==
  /\ IsFiniteSet(Tasks)
  /\ MaxConcurrency \in Nat \ {0}
  /\ Batch \in [Callers -> Seq(Tasks)]
  /\ \A c, d \in Callers : \A i \in DOMAIN Batch[c], j \in DOMAIN Batch[d] :
       Batch[c][i] = Batch[d][j] => c = d /\ i = j

VARIABLES pc, next, semaphore, wg, state
vars == <<pc, next, semaphore, wg, state>>

Holding == {t \in Tasks : state[t] \in {"held", "counted", "running", "ran"}}
Counted == {t \in Tasks : state[t] \in {"counted", "running", "ran", "released"}}
Running == {t \in Tasks : state[t] = "running"}

Init ==
  /\ pc = [c \in Callers |-> "execute"]
  /\ next = [c \in Callers |-> 1]
  /\ semaphore = 0
  /\ wg = 0
  /\ state = [t \in Tasks |-> "new"]

Current(c) == Batch[c][next[c]]
HasNext(c) == next[c] \in DOMAIN Batch[c]

\* Mutant: a full semaphore does not block the caller.
Acquire_NonBlocking(c) ==
  /\ pc[c] = "execute" /\ HasNext(c)
  /\ semaphore' = IF semaphore < MaxConcurrency THEN semaphore + 1 ELSE semaphore
  /\ state' = [state EXCEPT ![Current(c)] = "held"]
  /\ pc' = [pc EXCEPT ![c] = "add"]
  /\ UNCHANGED <<next, wg>>

\* Execute: e.semaphore <- struct{}{}
Acquire(c) ==
  /\ pc[c] = "execute" /\ HasNext(c)
  /\ semaphore < MaxConcurrency
  /\ semaphore' = semaphore + 1
  /\ state' = [state EXCEPT ![Current(c)] = "held"]
  /\ pc' = [pc EXCEPT ![c] = "add"]
  /\ UNCHANGED <<next, wg>>

\* Mutant: the goroutine is left to count itself, and does so too late.
Add_Late(c) ==
  /\ pc[c] = "add"
  /\ state' = [state EXCEPT ![Current(c)] = "counted"]
  /\ pc' = [pc EXCEPT ![c] = "go"]
  /\ UNCHANGED <<next, semaphore, wg>>

\* Execute: e.wg.Add(1)
Add(c) ==
  /\ pc[c] = "add"
  /\ wg' = wg + 1
  /\ state' = [state EXCEPT ![Current(c)] = "counted"]
  /\ pc' = [pc EXCEPT ![c] = "go"]
  /\ UNCHANGED <<next, semaphore>>

\* Execute: the go statement; on to the next task of the batch
Go(c) ==
  /\ pc[c] = "go"
  /\ state' = [state EXCEPT ![Current(c)] = "running"]
  /\ next' = [next EXCEPT ![c] = @ + 1]
  /\ pc' = [pc EXCEPT ![c] = "execute"]
  /\ UNCHANGED <<semaphore, wg>>

\* the task returns
Return(t) ==
  /\ state[t] = "running"
  /\ state' = [state EXCEPT ![t] = "ran"]
  /\ UNCHANGED <<pc, next, semaphore, wg>>

\* Mutant: the slot is not given back.
Release_Kept(t) ==
  /\ state[t] = "ran"
  /\ state' = [state EXCEPT ![t] = "released"]
  /\ UNCHANGED <<pc, next, semaphore, wg>>

\* the deferred receive from the semaphore
Release(t) ==
  /\ state[t] = "ran"
  /\ semaphore' = semaphore - 1
  /\ state' = [state EXCEPT ![t] = "released"]
  /\ UNCHANGED <<pc, next, wg>>

\* the deferred e.wg.Done(): at zero everybody who waits is woken
Done(t) ==
  /\ state[t] = "released"
  /\ wg' = wg - 1
  /\ state' = [state EXCEPT ![t] = "done"]
  /\ pc' = IF wg = 1 THEN [c \in Callers |-> IF pc[c] = "waiting" THEN "woken" ELSE pc[c]] ELSE pc
  /\ UNCHANGED <<next, semaphore>>

\* Wait, after the last task of the batch
Wait(c) ==
  /\ pc[c] = "execute" /\ ~HasNext(c)
  /\ pc' = [pc EXCEPT ![c] = IF wg = 0 THEN "returned" ELSE "waiting"]
  /\ UNCHANGED <<next, semaphore, wg, state>>

Wake(c) ==
  /\ pc[c] = "woken"
  /\ pc' = [pc EXCEPT ![c] = IF wg = 0 THEN "returned" ELSE "panicked"]
  /\ UNCHANGED <<next, semaphore, wg, state>>

Next ==
  \/ \E c \in Callers : Acquire(c) \/ Add(c) \/ Go(c) \/ Wait(c) \/ Wake(c)
  \/ \E t \in Tasks : Return(t) \/ Release(t) \/ Done(t)

Spec == Init /\ [][Next]_vars

\* Goroutines that can move are scheduled and tasks return; a sender blocked on
\* the semaphore is served in turn (channel waiters are queued).
Fairness ==
  /\ \A c \in Callers : SF_vars(Acquire(c)) /\ WF_vars(Add(c) \/ Go(c) \/ Wait(c) \/ Wake(c))
  /\ \A t \in Tasks : WF_vars(Return(t) \/ Release(t) \/ Done(t))
FairSpec == Spec /\ Fairness

-----------------------------------------------------------------------------
\* Type invariant of the executor.
TypeOK ==
  /\ pc \in [Callers -> {"execute", "add", "go", "waiting", "woken", "returned", "panicked"}]
  /\ next \in [Callers -> Nat \ {0}]
  /\ semaphore \in 0..MaxConcurrency
  /\ wg \in Int
  /\ state \in [Tasks -> {"new", "held", "counted", "running", "ran", "released", "done"}]

\* The semaphore bounds concurrency whoever calls: no more than MaxConcurrency
\* tasks run at a time (core/README.md: "Semaphore-bounded concurrent
\* execution").
Bounded == Cardinality(Running) <= MaxConcurrency

\* ExecuteBatch returns only when all of its tasks have returned, although the
\* wait group also counts the tasks of other callers.
BatchComplete ==
  \A c \in Callers : pc[c] = "returned" =>
    \A i \in DOMAIN Batch[c] : state[Batch[c][i]] \in {"released", "done"}

\* How far each caller has got with its batch.
BatchProgress ==
  \A c \in Callers : \A i \in DOMAIN Batch[c] :
    /\ i > next[c] => state[Batch[c][i]] = "new"
    /\ i < next[c] => state[Batch[c][i]] \in {"running", "ran", "released", "done"}
    /\ i = next[c] =>
         /\ pc[c] = "execute" => state[Batch[c][i]] = "new"
         /\ pc[c] = "add" => state[Batch[c][i]] = "held"
         /\ pc[c] = "go" => state[Batch[c][i]] = "counted"

PastLast ==
  \A c \in Callers : /\ pc[c] \in {"add", "go"} => HasNext(c)
                     /\ pc[c] \in {"waiting", "woken", "returned", "panicked"} => ~HasNext(c)

\* The semaphore and the wait group are the numbers of tasks they stand for.
CountersExact == semaphore = Cardinality(Holding) /\ wg = Cardinality(Counted)

ExecutorInv == TypeOK /\ CountersExact /\ BatchProgress /\ PastLast /\ BatchComplete

\* Every caller of ExecuteBatch gets to the end of it, however few slots there
\* are; a wait group that is reused before a waiter runs ends it in a panic.
BatchEnds == <>(\A c \in Callers : pc[c] \in {"returned", "panicked"})
=============================================================================
