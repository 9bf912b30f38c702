----------------------------- MODULE CoreProofs -----------------------------
(***************************************************************************)
(* Proofs about the parts that MCCore composes: ParallelExecutor, for all  *)
(* values of the constants that satisfy ExecutorAssumption, TaskScheduler, *)
(* Core and CertificateManager, for all that satisfy PartsAssumption.      *)
(***************************************************************************)
EXTENDS MCCore, FiniteSetTheorems, SequenceTheorems, TLAPS

(***************************************************************************)
(* ParallelExecutor                                                        *)
(***************************************************************************)
\* The sets of tasks that the counters stand for are finite.
LEMMA FiniteCounts ==
  /\ IsFiniteSet(Holding) /\ Cardinality(Holding) \in Nat
  /\ IsFiniteSet(Counted) /\ Cardinality(Counted) \in Nat
<1>1. Holding \subseteq Tasks /\ Counted \subseteq Tasks
  BY DEF Holding, Counted
<1>2. IsFiniteSet(Holding) /\ IsFiniteSet(Counted)
  BY <1>1, FS_Subset, ExecutorAssumption
<1> QED
  BY <1>2, FS_CardinalityType

\* The same of the next state.
LEMMA FiniteCountsNext ==
  /\ IsFiniteSet(Holding') /\ Cardinality(Holding') \in Nat
  /\ IsFiniteSet(Counted') /\ Cardinality(Counted') \in Nat
<1>1. Holding' \subseteq Tasks /\ Counted' \subseteq Tasks
  BY DEF Holding, Counted
<1>2. IsFiniteSet(Holding') /\ IsFiniteSet(Counted')
  BY <1>1, FS_Subset, ExecutorAssumption
<1> QED
  BY <1>2, FS_CardinalityType

\* The task that a caller is at is a task of its batch.
LEMMA CurrentTask ==
  ASSUME NEW c \in Callers, HasNext(c)
  PROVE  next[c] \in DOMAIN Batch[c] /\ Current(c) = Batch[c][next[c]] /\ Current(c) \in Tasks
<1>1. Batch[c] \in Seq(Tasks)
  BY ExecutorAssumption
<1> QED
  BY <1>1 DEF HasNext, Current

\* No step changes the counters otherwise than the sets they count.
LEMMA ExecutorCounters == ExecutorInv /\ [Next]_vars => CountersExact'
<1> SUFFICES ASSUME ExecutorInv, [Next]_vars PROVE CountersExact'
  OBVIOUS
<1> USE DEF ExecutorInv
<1>0. TypeOK /\ semaphore = Cardinality(Holding) /\ wg = Cardinality(Counted)
  BY DEF CountersExact
<1>1. ASSUME NEW c \in Callers, Acquire(c) PROVE CountersExact'
  <2>1. HasNext(c) /\ Current(c) \in Tasks /\ state[Current(c)] = "new"
    BY <1>1, CurrentTask DEF Acquire, BatchProgress
  <2>2. Holding' = Holding \cup {Current(c)} /\ Current(c) \notin Holding /\ Counted' = Counted
    BY <1>0, <1>1, <2>1 DEF Acquire, Holding, Counted, TypeOK
  <2>3. Cardinality(Holding \cup {Current(c)}) = Cardinality(Holding) + 1
    BY <2>2, FiniteCounts, FS_AddElement
  <2>4. semaphore' = semaphore + 1 /\ wg' = wg
    BY <1>1 DEF Acquire
  <2> QED
    BY <1>0, <2>2, <2>3, <2>4 DEF CountersExact
<1>2. ASSUME NEW c \in Callers, Add(c) PROVE CountersExact'
  <2>1. HasNext(c)
    BY <1>2 DEF Add, PastLast
  <2>2. Current(c) \in Tasks /\ state[Current(c)] = "held"
    BY <1>2, <2>1, CurrentTask DEF Add, BatchProgress
  <2>3. Counted' = Counted \cup {Current(c)} /\ Current(c) \notin Counted /\ Holding' = Holding
    BY <1>0, <1>2, <2>2 DEF Add, Holding, Counted, TypeOK
  <2>4. Cardinality(Counted \cup {Current(c)}) = Cardinality(Counted) + 1
    BY <2>3, FiniteCounts, FS_AddElement
  <2>5. wg' = wg + 1 /\ semaphore' = semaphore
    BY <1>2 DEF Add
  <2> QED
    BY <1>0, <2>3, <2>4, <2>5 DEF CountersExact
<1>3. ASSUME NEW c \in Callers, Go(c) PROVE CountersExact'
  <2>1. HasNext(c)
    BY <1>3 DEF Go, PastLast
  <2>2. Current(c) \in Tasks /\ state[Current(c)] = "counted"
    BY <1>3, <2>1, CurrentTask DEF Go, BatchProgress
  <2>3. Counted' = Counted /\ Holding' = Holding /\ wg' = wg /\ semaphore' = semaphore
    BY <1>0, <1>3, <2>2 DEF Go, Holding, Counted, TypeOK
  <2> QED
    BY <1>0, <2>3 DEF CountersExact
<1>4. ASSUME NEW t \in Tasks, Return(t) PROVE CountersExact'
  <2>1. Counted' = Counted /\ Holding' = Holding /\ wg' = wg /\ semaphore' = semaphore
    BY <1>0, <1>4 DEF Return, Holding, Counted, TypeOK
  <2> QED
    BY <1>0, <2>1 DEF CountersExact
<1>5. ASSUME NEW t \in Tasks, Release(t) PROVE CountersExact'
  <2>1. Holding' = Holding \ {t} /\ t \in Holding /\ Counted' = Counted
    BY <1>0, <1>5 DEF Release, Holding, Counted, TypeOK
  <2>2. Cardinality(Holding \ {t}) = Cardinality(Holding) - 1
    BY <2>1, FiniteCounts, FS_RemoveElement
  <2>3. semaphore' = semaphore - 1 /\ wg' = wg
    BY <1>5 DEF Release
  <2> QED
    BY <1>0, <2>1, <2>2, <2>3 DEF CountersExact
<1>6. ASSUME NEW t \in Tasks, Done(t) PROVE CountersExact'
  <2>1. Counted' = Counted \ {t} /\ t \in Counted /\ Holding' = Holding
    BY <1>0, <1>6 DEF Done, Holding, Counted, TypeOK
  <2>2. Cardinality(Counted \ {t}) = Cardinality(Counted) - 1
    BY <2>1, FiniteCounts, FS_RemoveElement
  <2>3. wg' = wg - 1 /\ semaphore' = semaphore
    BY <1>6 DEF Done
  <2> QED
    BY <1>0, <2>1, <2>2, <2>3 DEF CountersExact
<1>7. ASSUME UNCHANGED <<semaphore, wg, state>> PROVE CountersExact'
  BY <1>0, <1>7 DEF CountersExact, Holding, Counted
<1>8. ASSUME NEW c \in Callers, Wait(c) \/ Wake(c) PROVE CountersExact'
  BY <1>7, <1>8 DEF Wait, Wake
<1>9. CASE UNCHANGED vars
  BY <1>7, <1>9 DEF vars
<1> QED
  BY <1>1, <1>2, <1>3, <1>4, <1>5, <1>6, <1>8, <1>9 DEF Next

\* Types are preserved: that the semaphore does not become negative rests on
\* the counters being exact.
LEMMA ExecutorTypes == ExecutorInv /\ [Next]_vars => TypeOK'
<1> SUFFICES ASSUME ExecutorInv, [Next]_vars PROVE TypeOK'
  OBVIOUS
<1>0. TypeOK /\ semaphore' \in Nat /\ wg' \in Nat
  BY ExecutorCounters, FiniteCountsNext DEF ExecutorInv, CountersExact
<1> USE DEF TypeOK
<1>1. ASSUME NEW c \in Callers, Acquire(c) PROVE TypeOK'
  <2>1. pc' \in [Callers -> {"execute", "add", "go", "waiting", "woken", "returned", "panicked"}]
    BY <1>0, <1>1 DEF Acquire
  <2>2. state' \in [Tasks -> {"new", "held", "counted", "running", "ran", "released", "done"}]
    BY <1>0, <1>1 DEF Acquire
  <2>3. next' \in [Callers -> Nat \ {0}]
    BY <1>0, <1>1 DEF Acquire
  <2>4. semaphore' \in 0..MaxConcurrency
    BY <1>0, <1>1, ExecutorAssumption DEF Acquire
  <2> QED
    BY <1>0, <2>1, <2>2, <2>3, <2>4
<1>2. ASSUME NEW c \in Callers, Add(c) PROVE TypeOK'
  <2>1. pc' \in [Callers -> {"execute", "add", "go", "waiting", "woken", "returned", "panicked"}]
    BY <1>0, <1>2 DEF Add
  <2>2. state' \in [Tasks -> {"new", "held", "counted", "running", "ran", "released", "done"}]
    BY <1>0, <1>2 DEF Add
  <2>3. next' \in [Callers -> Nat \ {0}]
    BY <1>0, <1>2 DEF Add
  <2>4. semaphore' \in 0..MaxConcurrency
    BY <1>0, <1>2, ExecutorAssumption DEF Add
  <2> QED
    BY <1>0, <2>1, <2>2, <2>3, <2>4
<1>3. ASSUME NEW c \in Callers, Go(c) PROVE TypeOK'
  <2>1. pc' \in [Callers -> {"execute", "add", "go", "waiting", "woken", "returned", "panicked"}]
    BY <1>0, <1>3 DEF Go
  <2>2. state' \in [Tasks -> {"new", "held", "counted", "running", "ran", "released", "done"}]
    BY <1>0, <1>3 DEF Go
  <2>3. next' \in [Callers -> Nat \ {0}]
    BY <1>0, <1>3 DEF Go
  <2>4. semaphore' \in 0..MaxConcurrency
    BY <1>0, <1>3, ExecutorAssumption DEF Go
  <2> QED
    BY <1>0, <2>1, <2>2, <2>3, <2>4
<1>4. ASSUME NEW t \in Tasks, Return(t) PROVE TypeOK'
  BY <1>0, <1>4 DEF Return
<1>5. ASSUME NEW t \in Tasks, Release(t) PROVE TypeOK'
  BY <1>0, <1>5, ExecutorAssumption DEF Release
<1>6. ASSUME NEW t \in Tasks, Done(t) PROVE TypeOK'
  <2>1. wg' \in Int /\ UNCHANGED <<next, semaphore>> /\ state' = [state EXCEPT ![t] = "done"]
    BY <1>0, <1>6 DEF Done
  <2>2. pc' \in [Callers -> {"execute", "add", "go", "waiting", "woken", "returned", "panicked"}]
    <3>1. CASE wg = 1
      BY <1>0, <1>6, <3>1 DEF Done
    <3>2. CASE wg # 1
      BY <1>0, <1>6, <3>2 DEF Done
    <3> QED
      BY <3>1, <3>2
  <2> QED
    BY <1>0, <2>1, <2>2
<1>7. ASSUME NEW c \in Callers, Wait(c) PROVE TypeOK'
  BY <1>0, <1>7 DEF Wait
<1>8. ASSUME NEW c \in Callers, Wake(c) PROVE TypeOK'
  BY <1>0, <1>8 DEF Wake
<1>9. CASE UNCHANGED vars
  BY <1>0, <1>9 DEF vars
<1> QED
  BY <1>1, <1>2, <1>3, <1>4, <1>5, <1>6, <1>7, <1>8, <1>9 DEF Next

\* The tasks of all batches are distinct: the task that the caller c is at is
\* no other task of any batch.
LEMMA OnlyCurrent ==
  ASSUME NEW c \in Callers, HasNext(c)
  PROVE  \A d \in Callers : \A i \in DOMAIN Batch[d] :
           /\ Batch[d][i] \in Tasks
           /\ Batch[d][i] = Current(c) <=> (d = c /\ i = next[c])
<1> SUFFICES ASSUME NEW d \in Callers, NEW i \in DOMAIN Batch[d]
    PROVE /\ Batch[d][i] \in Tasks
          /\ Batch[d][i] = Current(c) <=> (d = c /\ i = next[c])
  OBVIOUS
<1>1. Batch[d] \in Seq(Tasks)
  BY ExecutorAssumption
<1>2. Batch[d][i] \in Tasks
  BY <1>1
<1>3. Batch[d][i] = Current(c) <=> (d = c /\ i = next[c])
  BY CurrentTask, ExecutorAssumption DEF HasNext
<1> QED
  BY <1>2, <1>3

\* Callers get on through their batches in order.
LEMMA ExecutorProgress == ExecutorInv /\ [Next]_vars => BatchProgress' /\ PastLast'
<1> SUFFICES ASSUME ExecutorInv, [Next]_vars PROVE BatchProgress' /\ PastLast'
  OBVIOUS
<1>0. TypeOK /\ BatchProgress /\ PastLast
  BY DEF ExecutorInv
<1>t. \A d \in Callers : \A i \in DOMAIN Batch[d] : Batch[d][i] \in Tasks /\ i \in Nat
  <2> SUFFICES ASSUME NEW d \in Callers, NEW i \in DOMAIN Batch[d]
               PROVE  Batch[d][i] \in Tasks /\ i \in Nat
    OBVIOUS
  <2>1. Batch[d] \in Seq(Tasks)
    BY ExecutorAssumption
  <2> QED
    BY <2>1
<1>1. ASSUME NEW c \in Callers, Acquire(c) PROVE BatchProgress' /\ PastLast'
  <2>1. HasNext(c) /\ pc' = [pc EXCEPT ![c] = "add"] /\ next' = next
    BY <1>1 DEF Acquire
  <2>2. \A d \in Callers : \A i \in DOMAIN Batch[d] :
          state'[Batch[d][i]] = IF d = c /\ i = next[c] THEN "held" ELSE state[Batch[d][i]]
    <3>1. state' = [state EXCEPT ![Current(c)] = "held"]
      BY <1>1 DEF Acquire
    <3> QED
      BY <1>0, <2>1, <3>1, OnlyCurrent DEF TypeOK
  <2>3. BatchProgress'
    BY <1>0, <1>t, <2>1, <2>2 DEF BatchProgress, TypeOK
  <2>4. PastLast'
    BY <1>0, <2>1 DEF PastLast, HasNext, TypeOK
  <2> QED
    BY <2>3, <2>4
<1>2. ASSUME NEW c \in Callers, Add(c) PROVE BatchProgress' /\ PastLast'
  <2>1. HasNext(c) /\ pc' = [pc EXCEPT ![c] = "go"] /\ next' = next
    BY <1>0, <1>2 DEF Add, PastLast
  <2>2. \A d \in Callers : \A i \in DOMAIN Batch[d] :
          state'[Batch[d][i]] = IF d = c /\ i = next[c] THEN "counted" ELSE state[Batch[d][i]]
    <3>1. state' = [state EXCEPT ![Current(c)] = "counted"]
      BY <1>2 DEF Add
    <3> QED
      BY <1>0, <2>1, <3>1, OnlyCurrent DEF TypeOK
  <2>3. BatchProgress'
    BY <1>0, <1>t, <2>1, <2>2 DEF BatchProgress, TypeOK
  <2>4. PastLast'
    BY <1>0, <2>1 DEF PastLast, HasNext, TypeOK
  <2> QED
    BY <2>3, <2>4
<1>3. ASSUME NEW c \in Callers, Go(c) PROVE BatchProgress' /\ PastLast'
  <2>1. HasNext(c) /\ pc' = [pc EXCEPT ![c] = "execute"] /\ next' = [next EXCEPT ![c] = @ + 1]
    BY <1>0, <1>3 DEF Go, PastLast
  <2>2. \A d \in Callers : \A i \in DOMAIN Batch[d] :
          state'[Batch[d][i]] = IF d = c /\ i = next[c] THEN "running" ELSE state[Batch[d][i]]
    <3>1. state' = [state EXCEPT ![Current(c)] = "running"]
      BY <1>3 DEF Go
    <3> QED
      BY <1>0, <2>1, <3>1, OnlyCurrent DEF TypeOK
  <2>3. BatchProgress'
    <3> SUFFICES ASSUME NEW d \in Callers, NEW i \in DOMAIN Batch[d]
        PROVE (/\ i > next[d] => state[Batch[d][i]] = "new"
               /\ i < next[d] => state[Batch[d][i]] \in {"running", "ran", "released", "done"}
               /\ i = next[d] =>
                    /\ pc[d] = "execute" => state[Batch[d][i]] = "new"
                    /\ pc[d] = "add" => state[Batch[d][i]] = "held"
                    /\ pc[d] = "go" => state[Batch[d][i]] = "counted")'
      BY DEF BatchProgress
    <3>1. i \in Nat /\ next[d] \in Nat /\ next[c] \in Nat
      BY <1>0, <1>t DEF TypeOK
    <3>2. CASE d = c
      <4>1. next'[d] = next[d] + 1 /\ pc'[d] = "execute"
        BY <1>0, <2>1, <3>2 DEF TypeOK
      <4> QED
        BY <1>0, <2>2, <3>1, <3>2, <4>1 DEF BatchProgress
    <3>3. CASE d # c
      <4>1. next'[d] = next[d] /\ pc'[d] = pc[d] /\ state'[Batch[d][i]] = state[Batch[d][i]]
        BY <1>0, <2>1, <2>2, <3>3 DEF TypeOK
      <4> QED
        BY <1>0, <3>1, <4>1 DEF BatchProgress
    <3> QED
      BY <3>2, <3>3
  <2>4. PastLast'
    BY <1>0, <2>1 DEF PastLast, HasNext, TypeOK
  <2> QED
    BY <2>3, <2>4
<1>4. ASSUME NEW t \in Tasks, Return(t) \/ Release(t) PROVE BatchProgress' /\ PastLast'
  <2>1. pc' = pc /\ next' = next
    BY <1>4 DEF Return, Release
  <2>2. \A u \in Tasks : \/ state'[u] = state[u]
                         \/ state[u] \in {"running", "ran"} /\ state'[u] \in {"ran", "released"}
    BY <1>0, <1>4 DEF Return, Release, TypeOK
  <2>3. BatchProgress'
    BY <1>0, <1>t, <2>1, <2>2 DEF BatchProgress
  <2>4. PastLast'
    BY <1>0, <2>1 DEF PastLast, HasNext
  <2> QED
    BY <2>3, <2>4
<1>5. ASSUME NEW t \in Tasks, Done(t) PROVE BatchProgress' /\ PastLast'
  <2>0. /\ next' = next /\ state[t] = "released" /\ state' = [state EXCEPT ![t] = "done"]
        /\ pc' = IF wg = 1 THEN [d \in Callers |-> IF pc[d] = "waiting" THEN "woken" ELSE pc[d]]
                 ELSE pc
    BY <1>5 DEF Done
  <2>1. \A d \in Callers : pc'[d] = pc[d] \/ (pc[d] = "waiting" /\ pc'[d] = "woken")
    BY <2>0
  <2>2. \A u \in Tasks : state'[u] = state[u] \/ (state[u] = "released" /\ state'[u] = "done")
    BY <1>0, <2>0 DEF TypeOK
  <2>3. BatchProgress'
    BY <1>0, <1>t, <2>0, <2>1, <2>2 DEF BatchProgress
  <2>4. PastLast'
    BY <1>0, <2>0, <2>1 DEF PastLast, HasNext
  <2> QED
    BY <2>3, <2>4
<1>6. ASSUME NEW c \in Callers, Wait(c) \/ Wake(c) PROVE BatchProgress' /\ PastLast'
  <2>1. /\ next' = next /\ state' = state
        /\ pc[c] \in {"execute", "woken"} /\ ~HasNext(c)
        /\ \A d \in Callers : d # c => pc'[d] = pc[d]
        /\ pc'[c] \in {"waiting", "returned", "panicked"}
    BY <1>0, <1>6 DEF Wait, Wake, TypeOK, PastLast
  <2>2. BatchProgress'
    BY <1>0, <2>1 DEF BatchProgress
  <2>3. PastLast'
    BY <1>0, <2>1 DEF PastLast, HasNext
  <2> QED
    BY <2>2, <2>3
<1>7. CASE UNCHANGED vars
  BY <1>0, <1>7 DEF vars, BatchProgress, PastLast, HasNext
<1> QED
  BY <1>1, <1>2, <1>3, <1>4, <1>5, <1>6, <1>7 DEF Next

\* A caller returns when the counter is zero; all its tasks were counted before
\* it waited, so that none of them is still running.
LEMMA ExecutorCompletes == ExecutorInv /\ [Next]_vars => BatchComplete'
<1> SUFFICES ASSUME ExecutorInv, [Next]_vars PROVE BatchComplete'
  OBVIOUS
<1>0. TypeOK /\ CountersExact /\ BatchProgress /\ PastLast /\ BatchComplete
  BY DEF ExecutorInv
<1>t. \A d \in Callers : \A i \in DOMAIN Batch[d] : Batch[d][i] \in Tasks
  <2> SUFFICES ASSUME NEW d \in Callers, NEW i \in DOMAIN Batch[d] PROVE Batch[d][i] \in Tasks
    OBVIOUS
  <2>1. Batch[d] \in Seq(Tasks)
    BY ExecutorAssumption
  <2> QED
    BY <2>1
<1>1. ASSUME NEW c \in Callers, wg = 0, ~HasNext(c), NEW i \in DOMAIN Batch[c]
      PROVE  state[Batch[c][i]] = "done"
  <2>1. Counted = {}
    <3>1. Cardinality(Counted) = 0 /\ IsFiniteSet(Counted)
      BY <1>0, <1>1, FiniteCounts DEF CountersExact
    <3> QED
      BY <3>1, FS_EmptySet
  <2>2. i < next[c]
    <3>1. Batch[c] \in Seq(Tasks) /\ next[c] \in Nat \ {0}
      BY <1>0, ExecutorAssumption DEF TypeOK
    <3>2. next[c] # i /\ ~(i > next[c])
      BY <1>1, <3>1 DEF HasNext
    <3> QED
      BY <1>0, <1>1, <3>1, <3>2 DEF PastLast
  <2>3. state[Batch[c][i]] \in {"running", "ran", "released", "done"}
    BY <1>0, <2>2 DEF BatchProgress
  <2> QED
    BY <1>t, <2>1, <2>3 DEF Counted
<1>2. ASSUME NEW c \in Callers, Wait(c) \/ Wake(c) PROVE BatchComplete'
  <2>1. /\ state' = state
        /\ \A d \in Callers : d # c => pc'[d] = pc[d]
        /\ ~HasNext(c)
        /\ pc'[c] = "returned" => wg = 0
    BY <1>0, <1>2 DEF Wait, Wake, TypeOK, PastLast
  <2> QED
    BY <1>0, <1>1, <2>1 DEF BatchComplete
<1>3. ASSUME NEW c \in Callers, Acquire(c) \/ Add(c) \/ Go(c) PROVE BatchComplete'
  <2>1. HasNext(c) /\ pc'[c] # "returned" /\ \A d \in Callers : d # c => pc'[d] = pc[d]
    BY <1>0, <1>3 DEF Acquire, Add, Go, TypeOK, PastLast
  <2>2. \A u \in Tasks : u # Current(c) => state'[u] = state[u]
    BY <1>0, <1>3 DEF Acquire, Add, Go, TypeOK
  <2>3. \A d \in Callers : \A i \in DOMAIN Batch[d] :
          d # c => Batch[d][i] \in Tasks /\ Batch[d][i] # Current(c)
    BY <2>1, OnlyCurrent
  <2> QED
    BY <1>0, <2>1, <2>2, <2>3 DEF BatchComplete
<1>4. ASSUME NEW t \in Tasks, Return(t) \/ Release(t) PROVE BatchComplete'
  <2>1. pc' = pc
    BY <1>4 DEF Return, Release
  <2>2. \A u \in Tasks : state[u] \in {"released", "done"} => state'[u] = state[u]
    BY <1>0, <1>4 DEF Return, Release, TypeOK
  <2> QED
    BY <1>0, <1>t, <2>1, <2>2 DEF BatchComplete
<1>5. ASSUME NEW t \in Tasks, Done(t) PROVE BatchComplete'
  <2>0. /\ state' = [state EXCEPT ![t] = "done"]
        /\ pc' = IF wg = 1 THEN [d \in Callers |-> IF pc[d] = "waiting" THEN "woken" ELSE pc[d]]
                 ELSE pc
    BY <1>5 DEF Done
  <2>1. \A d \in Callers : pc'[d] = "returned" => pc[d] = "returned"
    BY <2>0
  <2>2. \A u \in Tasks : state[u] \in {"released", "done"} => state'[u] \in {"released", "done"}
    BY <1>0, <2>0 DEF TypeOK
  <2> QED
    BY <1>0, <1>t, <2>1, <2>2 DEF BatchComplete
<1>6. CASE UNCHANGED vars
  BY <1>0, <1>6 DEF vars, BatchComplete
<1> QED
  BY <1>2, <1>3, <1>4, <1>5, <1>6 DEF Next

\* The initial state satisfies the invariant.
LEMMA ExecutorInit == Init => ExecutorInv
<1> SUFFICES ASSUME Init PROVE ExecutorInv
  OBVIOUS
<1>1. Holding = {} /\ Counted = {}
  BY DEF Init, Holding, Counted
<1>2. CountersExact
  BY <1>1, FS_EmptySet DEF Init, CountersExact
<1>3. TypeOK
  BY ExecutorAssumption DEF Init, TypeOK
<1>4. BatchProgress
  <2> SUFFICES ASSUME NEW c \in Callers, NEW i \in DOMAIN Batch[c]
               PROVE  i \in Nat \ {0} /\ Batch[c][i] \in Tasks
    BY DEF Init, BatchProgress
  <2>1. Batch[c] \in Seq(Tasks)
    BY ExecutorAssumption
  <2> QED
    BY <2>1
<1>5. PastLast /\ BatchComplete
  BY DEF Init, PastLast, BatchComplete
<1> QED
  BY <1>2, <1>3, <1>4, <1>5 DEF ExecutorInv

\* The inductive invariant of the executor.
THEOREM ExecutorInvariant == Spec => []ExecutorInv
<1>1. ExecutorInv /\ [Next]_vars => ExecutorInv'
  BY ExecutorCounters, ExecutorTypes, ExecutorProgress, ExecutorCompletes DEF ExecutorInv
<1> QED
  BY <1>1, ExecutorInit, PTL DEF Spec

\* At most MaxConcurrency tasks run at a time, whoever calls.
THEOREM ConcurrencyBounded == Spec => []Bounded
<1>1. ExecutorInv => Bounded
  <2> SUFFICES ASSUME ExecutorInv PROVE Bounded
    OBVIOUS
  <2>1. Running \subseteq Holding
    BY DEF Running, Holding
  <2>2. Cardinality(Running) <= Cardinality(Holding) /\ Cardinality(Running) \in Nat
    BY <2>1, FiniteCounts, FS_Subset, FS_CardinalityType
  <2> QED
    BY <2>2, ExecutorAssumption DEF ExecutorInv, TypeOK, CountersExact, Bounded
<1> QED
  BY <1>1, ExecutorInvariant, PTL

\* ExecuteBatch returns only after every task of its batch, whatever the other
\* callers do with the shared semaphore and wait group.
THEOREM BatchesComplete == Spec => []BatchComplete
<1>1. ExecutorInv => BatchComplete
  BY DEF ExecutorInv
<1> QED
  BY <1>1, ExecutorInvariant, PTL

(***************************************************************************)
(* TaskScheduler                                                           *)
(***************************************************************************)
\* The tasks in a sequence, and that it has none twice
Elems(s) == {s[i] : i \in DOMAIN s}
Once(s) == \A i, j \in DOMAIN s : s[i] = s[j] => i = j

LEMMA ElemsEmpty == Elems(<<>>) = {} /\ Once(<<>>)
BY DEF Elems, Once

\* Schedule appends a task ...
LEMMA ElemsAppend ==
  ASSUME NEW S, NEW s \in Seq(S), NEW t \in S
  PROVE  /\ Append(s, t) \in Seq(S)
         /\ Elems(Append(s, t)) = Elems(s) \union {t}
         /\ Once(s) /\ t \notin Elems(s) => Once(Append(s, t))
<1>1. /\ Append(s, t) \in Seq(S) /\ DOMAIN Append(s, t) = 1 .. Len(s) + 1
      /\ \A i \in 1 .. Len(s) : Append(s, t)[i] = s[i]
      /\ Append(s, t)[Len(s) + 1] = t
  BY AppendProperties
<1>2. Len(s) \in Nat /\ DOMAIN s = 1 .. Len(s)
  BY LenProperties
<1>3. Elems(Append(s, t)) = Elems(s) \union {t}
  BY <1>1, <1>2 DEF Elems
<1>4. Once(s) /\ t \notin Elems(s) => Once(Append(s, t))
  BY <1>1, <1>2 DEF Elems, Once
<1> QED
  BY <1>1, <1>3, <1>4

\* ... or puts it in front ...
LEMMA ElemsCons ==
  ASSUME NEW S, NEW s \in Seq(S), NEW t \in S
  PROVE  /\ <<t>> \o s \in Seq(S)
         /\ Elems(<<t>> \o s) = Elems(s) \union {t}
         /\ Once(s) /\ t \notin Elems(s) => Once(<<t>> \o s)
<1>0. <<t>> \in Seq(S) /\ Len(<<t>>) = 1
  OBVIOUS
<1>1. <<t>> \o s \in Seq(S) /\ Len(<<t>> \o s) = 1 + Len(s)
  BY <1>0, ConcatProperties
<1>2. Len(s) \in Nat /\ DOMAIN s = 1 .. Len(s) /\ DOMAIN (<<t>> \o s) = 1 .. Len(s) + 1
  BY <1>1, LenProperties
<1>3. (<<t>> \o s)[1] = t /\ \A i \in 1 .. Len(s) : (<<t>> \o s)[i + 1] = s[i]
  BY <1>0, <1>2
<1>4. \A i \in DOMAIN (<<t>> \o s) : i = 1 \/ (i - 1 \in DOMAIN s /\ (<<t>> \o s)[i] = s[i - 1])
  BY <1>2, <1>3
<1>5. Elems(<<t>> \o s) = Elems(s) \union {t}
  <2>1. ASSUME NEW i \in DOMAIN (<<t>> \o s) PROVE (<<t>> \o s)[i] \in Elems(s) \union {t}
    BY <1>3, <1>4 DEF Elems
  <2>2. t \in Elems(<<t>> \o s)
    BY <1>2, <1>3 DEF Elems
  <2>3. ASSUME NEW i \in DOMAIN s PROVE s[i] \in Elems(<<t>> \o s)
    <3>1. i + 1 \in DOMAIN (<<t>> \o s) /\ s[i] = (<<t>> \o s)[i + 1]
      BY <1>2, <1>3
    <3> QED
      BY <3>1, Zenon DEF Elems
  <2> QED
    BY <2>1, <2>2, <2>3 DEF Elems
<1>6. Once(s) /\ t \notin Elems(s) => Once(<<t>> \o s)
  <2> SUFFICES ASSUME Once(s), t \notin Elems(s),
                      NEW i \in DOMAIN (<<t>> \o s), NEW j \in DOMAIN (<<t>> \o s),
                      (<<t>> \o s)[i] = (<<t>> \o s)[j]
               PROVE  i = j
    BY DEF Once
  <2> QED
    BY <1>2, <1>3, <1>4 DEF Once, Elems
<1> QED
  BY <1>1, <1>5, <1>6

\* ... and Flush takes tasks off the front.
LEMMA ElemsTail ==
  ASSUME NEW S, NEW s \in Seq(S), s # <<>>
  PROVE  /\ Head(s) \in S /\ Tail(s) \in Seq(S)
         /\ Elems(s) = Elems(Tail(s)) \union {Head(s)}
         /\ Once(s) => Once(Tail(s)) /\ Head(s) \notin Elems(Tail(s))
<1>1. Len(s) \in Nat \ {0} /\ DOMAIN s = 1 .. Len(s)
  BY LenProperties, EmptySeq
<1>2. /\ Head(s) \in S /\ Tail(s) \in Seq(S) /\ Len(Tail(s)) = Len(s) - 1
      /\ \A i \in 1 .. Len(Tail(s)) : Tail(s)[i] = s[i + 1]
  BY HeadTailProperties
<1>3. DOMAIN Tail(s) = 1 .. Len(s) - 1 /\ Head(s) = s[1]
  BY <1>1, <1>2, LenProperties
<1>4. \A i \in DOMAIN s : i = 1 \/ (i - 1 \in DOMAIN Tail(s) /\ s[i] = Tail(s)[i - 1])
  BY <1>1, <1>2, <1>3
<1>5. \A i \in DOMAIN Tail(s) : i + 1 \in DOMAIN s /\ Tail(s)[i] = s[i + 1]
  BY <1>1, <1>2, <1>3
<1>6. Elems(s) = Elems(Tail(s)) \union {Head(s)}
  <2>1. ASSUME NEW i \in DOMAIN s PROVE s[i] \in Elems(Tail(s)) \union {Head(s)}
    BY <1>3, <1>4 DEF Elems
  <2>2. Elems(Tail(s)) \subseteq Elems(s)
    BY <1>5 DEF Elems
  <2>3. Head(s) \in Elems(s)
    BY <1>1, <1>3 DEF Elems
  <2>4. Elems(s) \subseteq Elems(Tail(s)) \union {Head(s)}
    BY <2>1, Zenon DEF Elems
  <2> QED
    BY <2>2, <2>3, <2>4
<1>7. Once(s) => Once(Tail(s)) /\ Head(s) \notin Elems(Tail(s))
  BY <1>1, <1>3, <1>5 DEF Once, Elems
<1> QED
  BY <1>2, <1>6, <1>7

-----------------------------------------------------------------------------
\* Every task is in one of the places at most, and in one of them if and only if
\* it has been scheduled.
Apart ==
  /\ Elems(pending) \intersect Elems(placed) = {}
  /\ \A f \in Flushers : Elems(taken[f]) \intersect (Elems(pending) \union Elems(placed) \union dropped) = {}
  /\ \A f, g \in Flushers : f # g => Elems(taken[f]) \intersect Elems(taken[g]) = {}
  /\ dropped \intersect (Elems(pending) \union Elems(placed)) = {}
NoneTwice == Once(pending) /\ Once(placed) /\ \A f \in Flushers : Once(taken[f])
Somewhere == \A t \in ScheduledTasks :
  priority[t] # Unscheduled <=>
    t \in Elems(pending) \/ t \in Elems(placed) \/ t \in dropped \/ \E f \in Flushers : t \in Elems(taken[f])

SchedulerInv ==
  Scheduler!TypeOK /\ Apart /\ NoneTwice /\ Somewhere /\ (dropped # {} => flushStopped)

LEMMA SchedulerInit == Scheduler!Init => SchedulerInv
<1> SUFFICES ASSUME Scheduler!Init PROVE SchedulerInv
  OBVIOUS
<1>1. Scheduler!TypeOK
  <2>1. pending \in Seq(ScheduledTasks) /\ placed \in Seq(ScheduledTasks) /\ dropped \subseteq ScheduledTasks
    BY DEF Scheduler!Init
  <2>2. taken \in [Flushers -> Seq(ScheduledTasks)]
    BY DEF Scheduler!Init
  <2>3. priority \in [ScheduledTasks -> Priorities \union {Unscheduled}] /\ flushStopped \in BOOLEAN
    BY DEF Scheduler!Init
  <2> QED
    BY <2>1, <2>2, <2>3 DEF Scheduler!TypeOK
<1>2. Apart /\ NoneTwice
  BY ElemsEmpty DEF Scheduler!Init, Apart, NoneTwice
<1>3. Somewhere
  BY ElemsEmpty DEF Scheduler!Init, Somewhere
<1> QED
  BY <1>1, <1>2, <1>3 DEF Scheduler!Init, SchedulerInv

LEMMA ScheduleKeeps ==
  ASSUME SchedulerInv, NEW t \in ScheduledTasks, NEW p \in Priorities, Scheduler!Schedule(t, p)
  PROVE  SchedulerInv'
<1> USE DEF SchedulerInv
<1>1. priority[t] = Unscheduled /\ priority' = [priority EXCEPT ![t] = p] /\ p # Unscheduled
  BY PartsAssumption DEF Scheduler!Schedule, Scheduler!SchedulerAssumption
<1>2. UNCHANGED <<taken, placed, dropped, flushStopped>>
  BY DEF Scheduler!Schedule
<1>3. t \notin Elems(pending) \union Elems(placed) \union dropped /\ \A f \in Flushers : t \notin Elems(taken[f])
  BY <1>1 DEF Somewhere
<1>4. pending' \in Seq(ScheduledTasks) /\ Elems(pending') = Elems(pending) \union {t} /\ Once(pending')
  <2>1. pending \in Seq(ScheduledTasks) /\ Once(pending)
    BY DEF Scheduler!TypeOK, NoneTwice
  <2>2. pending' = <<t>> \o pending \/ pending' = Append(pending, t)
    BY DEF Scheduler!Schedule
  <2>3. CASE pending' = <<t>> \o pending
    BY <1>3, <2>1, <2>3, ElemsCons
  <2>4. CASE pending' = Append(pending, t)
    BY <1>3, <2>1, <2>4, ElemsAppend
  <2> QED
    BY <2>2, <2>3, <2>4
<1>5. Scheduler!TypeOK'
  BY <1>1, <1>2, <1>4 DEF Scheduler!TypeOK
<1>6. Apart'
  BY <1>2, <1>3, <1>4 DEF Apart
<1>7. NoneTwice'
  BY <1>2, <1>4 DEF NoneTwice
<1>8. Somewhere'
  <2>1. priority \in [ScheduledTasks -> Priorities \union {Unscheduled}]
    BY DEF Scheduler!TypeOK
  <2>2. ASSUME NEW u \in ScheduledTasks
        PROVE  /\ priority'[u] # Unscheduled <=> priority[u] # Unscheduled \/ u = t
    BY <1>1, <2>1
  <2> QED
    BY <1>2, <1>4, <2>2 DEF Somewhere
<1> QED
  BY <1>2, <1>5, <1>6, <1>7, <1>8

LEMMA FlushTakeKeeps ==
  ASSUME SchedulerInv, NEW f \in Flushers, Scheduler!FlushTake(f)
  PROVE  SchedulerInv'
<1> USE DEF SchedulerInv
<1>1. UNCHANGED <<placed, dropped, flushStopped, priority>> /\ pending' = <<>>
  BY DEF Scheduler!FlushTake
<1>2. taken[f] = <<>> /\ taken' = [taken EXCEPT ![f] = pending]
  BY DEF Scheduler!FlushTake
<1>3. /\ taken' \in [Flushers -> Seq(ScheduledTasks)] /\ taken'[f] = pending
      /\ \A g \in Flushers \ {f} : taken'[g] = taken[g]
  BY <1>2 DEF Scheduler!TypeOK
<1>4. Elems(pending') = {} /\ Once(pending') /\ Elems(taken[f]) = {}
  BY <1>1, <1>2, ElemsEmpty
<1>5. Scheduler!TypeOK'
  BY <1>1, <1>3 DEF Scheduler!TypeOK
<1>6. Apart'
  BY <1>1, <1>3, <1>4 DEF Apart
<1>7. NoneTwice'
  BY <1>1, <1>3, <1>4 DEF NoneTwice
<1>8. Somewhere'
  BY <1>1, <1>3, <1>4 DEF Somewhere
<1> QED
  BY <1>1, <1>5, <1>6, <1>7, <1>8

\* What both ends of a Submit do to the tasks that a flusher holds
LEMMA HeadTaken ==
  ASSUME SchedulerInv, NEW f \in Flushers, taken[f] # <<>>, taken' = [taken EXCEPT ![f] = Tail(@)]
  PROVE  /\ Head(taken[f]) \in ScheduledTasks
         /\ taken' \in [Flushers -> Seq(ScheduledTasks)]
         /\ Elems(taken[f]) = Elems(taken'[f]) \union {Head(taken[f])}
         /\ Once(taken'[f]) /\ Head(taken[f]) \notin Elems(taken'[f])
         /\ \A g \in Flushers \ {f} : taken'[g] = taken[g]
<1>1. taken \in [Flushers -> Seq(ScheduledTasks)] /\ Once(taken[f])
  BY DEF SchedulerInv, Scheduler!TypeOK, NoneTwice
<1>2. taken'[f] = Tail(taken[f]) /\ \A g \in Flushers \ {f} : taken'[g] = taken[g]
  BY <1>1
<1>3. /\ Head(taken[f]) \in ScheduledTasks /\ Tail(taken[f]) \in Seq(ScheduledTasks)
      /\ Elems(taken[f]) = Elems(Tail(taken[f])) \union {Head(taken[f])}
      /\ Once(Tail(taken[f])) /\ Head(taken[f]) \notin Elems(Tail(taken[f]))
  BY <1>1, ElemsTail
<1> QED
  BY <1>1, <1>2, <1>3

LEMMA FlushSubmitKeeps ==
  ASSUME SchedulerInv, NEW f \in Flushers, Scheduler!FlushSubmit(f)
  PROVE  SchedulerInv'
<1> USE DEF SchedulerInv
<1>1. UNCHANGED <<pending, dropped, flushStopped, priority>>
  BY DEF Scheduler!FlushSubmit
<1>2. PICK t : t = Head(taken[f])
  OBVIOUS
<1>3. /\ t \in ScheduledTasks /\ taken' \in [Flushers -> Seq(ScheduledTasks)]
      /\ Elems(taken[f]) = Elems(taken'[f]) \union {t} /\ Once(taken'[f]) /\ t \notin Elems(taken'[f])
      /\ \A g \in Flushers \ {f} : taken'[g] = taken[g]
  BY <1>2, HeadTaken DEF Scheduler!FlushSubmit
<1>4. placed' \in Seq(ScheduledTasks) /\ Elems(placed') = Elems(placed) \union {t} /\ Once(placed')
  <2>1. placed \in Seq(ScheduledTasks) /\ Once(placed) /\ t \notin Elems(placed) /\ placed' = Append(placed, t)
    BY <1>2, <1>3 DEF Scheduler!FlushSubmit, Scheduler!TypeOK, NoneTwice, Apart
  <2> QED
    BY <1>3, <2>1, ElemsAppend
<1>5. Scheduler!TypeOK'
  BY <1>1, <1>3, <1>4 DEF Scheduler!TypeOK
<1>6. Apart'
  <2>1. \A g \in Flushers :
          taken'[g] = taken[g] \/ (g = f /\ Elems(taken[g]) = Elems(taken'[g]) \union {t} /\ t \notin Elems(taken'[g]))
    BY <1>3
  <2>2. t \in Elems(taken[f]) /\ \A g \in Flushers : Elems(taken'[g]) \subseteq Elems(taken[g])
    BY <1>3, <2>1
  <2>3. ASSUME NEW g \in Flushers PROVE t \notin Elems(taken'[g])
    <3>1. CASE g # f
      <4>1. Elems(taken[g]) \intersect Elems(taken[f]) = {}
        BY <3>1 DEF Apart
      <4> QED
        BY <2>2, <4>1
    <3> QED
      BY <1>3, <3>1
  <2>4. (Elems(pending) \intersect Elems(placed) = {})'
    BY <1>1, <1>4, <2>2 DEF Apart
  <2>5. (\A g \in Flushers : Elems(taken[g]) \intersect (Elems(pending) \union Elems(placed) \union dropped) = {})'
    BY <1>1, <1>4, <2>2, <2>3 DEF Apart
  <2>6. (\A g, h \in Flushers : g # h => Elems(taken[g]) \intersect Elems(taken[h]) = {})'
    BY <2>2 DEF Apart
  <2>7. (dropped \intersect (Elems(pending) \union Elems(placed)) = {})'
    BY <1>1, <1>4, <2>2 DEF Apart
  <2> QED
    BY <2>4, <2>5, <2>6, <2>7 DEF Apart
<1>7. NoneTwice'
  BY <1>1, <1>3, <1>4 DEF NoneTwice
<1>8. Somewhere'
  BY <1>1, <1>3, <1>4 DEF Somewhere
<1> QED
  BY <1>1, <1>5, <1>6, <1>7, <1>8

LEMMA FlushDropKeeps ==
  ASSUME SchedulerInv, NEW f \in Flushers, Scheduler!FlushDrop(f)
  PROVE  SchedulerInv'
<1> USE DEF SchedulerInv
<1>1. UNCHANGED <<pending, placed, flushStopped, priority>> /\ flushStopped
  BY DEF Scheduler!FlushDrop
<1>2. PICK t : t = Head(taken[f])
  OBVIOUS
<1>3. /\ t \in ScheduledTasks /\ taken' \in [Flushers -> Seq(ScheduledTasks)]
      /\ Elems(taken[f]) = Elems(taken'[f]) \union {t} /\ Once(taken'[f]) /\ t \notin Elems(taken'[f])
      /\ \A g \in Flushers \ {f} : taken'[g] = taken[g]
  BY <1>2, HeadTaken DEF Scheduler!FlushDrop
<1>4. dropped' = dropped \union {t}
  BY <1>2 DEF Scheduler!FlushDrop
<1>5. Scheduler!TypeOK'
  BY <1>1, <1>3, <1>4 DEF Scheduler!TypeOK
<1>6. Apart'
  <2>1. \A g \in Flushers :
          taken'[g] = taken[g] \/ (g = f /\ Elems(taken[g]) = Elems(taken'[g]) \union {t} /\ t \notin Elems(taken'[g]))
    BY <1>3
  <2>2. t \in Elems(taken[f]) /\ \A g \in Flushers : Elems(taken'[g]) \subseteq Elems(taken[g])
    BY <1>3, <2>1
  <2>3. ASSUME NEW g \in Flushers PROVE t \notin Elems(taken'[g])
    <3>1. CASE g # f
      <4>1. Elems(taken[g]) \intersect Elems(taken[f]) = {}
        BY <3>1 DEF Apart
      <4> QED
        BY <2>2, <4>1
    <3> QED
      BY <1>3, <3>1
  <2>4. (Elems(pending) \intersect Elems(placed) = {})'
    BY <1>1, <1>4, <2>2 DEF Apart
  <2>5. (\A g \in Flushers : Elems(taken[g]) \intersect (Elems(pending) \union Elems(placed) \union dropped) = {})'
    BY <1>1, <1>4, <2>2, <2>3 DEF Apart
  <2>6. (\A g, h \in Flushers : g # h => Elems(taken[g]) \intersect Elems(taken[h]) = {})'
    BY <2>2 DEF Apart
  <2>7. (dropped \intersect (Elems(pending) \union Elems(placed)) = {})'
    BY <1>1, <1>4, <2>2 DEF Apart
  <2> QED
    BY <2>4, <2>5, <2>6, <2>7 DEF Apart
<1>7. NoneTwice'
  BY <1>1, <1>3 DEF NoneTwice
<1>8. Somewhere'
  BY <1>1, <1>3, <1>4 DEF Somewhere
<1> QED
  BY <1>1, <1>5, <1>6, <1>7, <1>8

LEMMA SchedulerStep == SchedulerInv /\ [Scheduler!Next]_schedulerVars => SchedulerInv'
<1> SUFFICES ASSUME SchedulerInv, [Scheduler!Next]_schedulerVars PROVE SchedulerInv'
  OBVIOUS
<1>1. CASE Scheduler!StopPool
  BY <1>1 DEF SchedulerInv, Scheduler!TypeOK, Apart, NoneTwice, Somewhere, Scheduler!StopPool
<1>2. CASE UNCHANGED schedulerVars
  BY <1>2 DEF SchedulerInv, Scheduler!TypeOK, Apart, NoneTwice, Somewhere, schedulerVars
<1> QED
  BY <1>1, <1>2, ScheduleKeeps, FlushTakeKeeps, FlushSubmitKeeps, FlushDropKeeps DEF Scheduler!Next

LEMMA AtOnce ==
  ASSUME NEW s, NEW t
  PROVE  /\ t \notin Elems(s) => Scheduler!At(s, t) = {}
         /\ t \in Elems(s) /\ Once(s) => \E i : Scheduler!At(s, t) = {i}
BY DEF Elems, Once, Scheduler!At

\* The sequences that hold a task give it a place, all the others none.
LEMMA SchedulerSafe == SchedulerInv => NoneLostOrDoubled
<1> SUFFICES ASSUME SchedulerInv, NEW t \in Scheduler!Scheduled
             PROVE  \E place : Scheduler!Places(t) = {place}
  BY DEF SchedulerInv, NoneLostOrDoubled, Scheduler!NoneLostOrDoubled
<1> USE DEF SchedulerInv
<1>1. t \in Elems(pending) \/ t \in Elems(placed) \/ t \in dropped \/ \E f \in Flushers : t \in Elems(taken[f])
  BY DEF Scheduler!Scheduled, Somewhere
<1>2. CASE t \in Elems(pending)
  <2>1. t \notin Elems(placed) /\ t \notin dropped /\ \A f \in Flushers : t \notin Elems(taken[f])
    BY <1>2 DEF Apart
  <2>2. PICK i : Scheduler!At(pending, t) = {i}
    BY <1>2, AtOnce DEF NoneTwice
  <2>3. Scheduler!At(placed, t) = {} /\ \A f \in Flushers : Scheduler!At(taken[f], t) = {}
    BY <2>1, AtOnce
  <2>4. Scheduler!Places(t) = {<<"pending", i>>}
    BY <2>1, <2>2, <2>3 DEF Scheduler!Places
  <2> QED
    BY <2>4
<1>3. CASE t \in Elems(placed)
  <2>1. t \notin Elems(pending) /\ t \notin dropped /\ \A f \in Flushers : t \notin Elems(taken[f])
    BY <1>3 DEF Apart
  <2>2. PICK i : Scheduler!At(placed, t) = {i}
    BY <1>3, AtOnce DEF NoneTwice
  <2>3. Scheduler!At(pending, t) = {} /\ \A f \in Flushers : Scheduler!At(taken[f], t) = {}
    BY <2>1, AtOnce
  <2>4. Scheduler!Places(t) = {<<"placed", i>>}
    BY <2>1, <2>2, <2>3 DEF Scheduler!Places
  <2> QED
    BY <2>4
<1>4. CASE t \in dropped
  <2>1. t \notin Elems(pending) /\ t \notin Elems(placed) /\ \A f \in Flushers : t \notin Elems(taken[f])
    BY <1>4 DEF Apart
  <2>2. /\ Scheduler!At(pending, t) = {} /\ Scheduler!At(placed, t) = {}
        /\ \A f \in Flushers : Scheduler!At(taken[f], t) = {}
    BY <2>1, AtOnce
  <2>3. Scheduler!Places(t) = {<<"dropped", t>>}
    <3>1. {t} \intersect dropped = {t}
      BY <1>4
    <3> QED
      BY <2>2, <3>1 DEF Scheduler!Places
  <2> QED
    BY <2>3
<1>5. ASSUME NEW f \in Flushers, t \in Elems(taken[f])
      PROVE  \E place : Scheduler!Places(t) = {place}
  <2>1. t \notin Elems(pending) /\ t \notin Elems(placed) /\ t \notin dropped
    BY <1>5 DEF Apart
  <2>2. ASSUME NEW g \in Flushers, g # f PROVE t \notin Elems(taken[g])
    <3>1. Elems(taken[g]) \intersect Elems(taken[f]) = {}
      BY <2>2 DEF Apart
    <3> QED
      BY <1>5, <3>1
  <2>3. PICK i : Scheduler!At(taken[f], t) = {i}
    BY <1>5, AtOnce DEF NoneTwice
  <2>4. /\ Scheduler!At(pending, t) = {} /\ Scheduler!At(placed, t) = {}
        /\ \A g \in Flushers : g # f => Scheduler!At(taken[g], t) = {}
    BY <2>1, <2>2, AtOnce
  <2>5. UNION {{g} \X Scheduler!At(taken[g], t) : g \in Flushers} = {<<f, i>>}
    BY <2>3, <2>4
  <2>6. Scheduler!Places(t) = {<<f, i>>}
    BY <2>1, <2>4, <2>5 DEF Scheduler!Places
  <2> QED
    BY <2>6
<1> QED
  BY <1>1, <1>2, <1>3, <1>4, <1>5

-----------------------------------------------------------------------------
(***************************************************************************)
(* Core                                                                    *)
(***************************************************************************)
Manager == [config : Configs, cancelled : BOOLEAN]

\* A Core that runs has a manager, cancelled only by the Stop that holds the lock.
Served ==
  /\ running => managers # <<>>
  /\ running /\ coreMu = "free" => ~managers[Len(managers)].cancelled
  /\ coreMu # "free" => running /\ managers[Len(managers)].cancelled

\* Every manager was cancelled, failed to start, or is the one that serves.
Ended == \A m \in DOMAIN managers :
  managers[m].cancelled \/ ~TheCore!Starts(managers[m].config) \/ (m = Len(managers) /\ (running \/ panicked))

\* A Start that panicked is the last thing that happened.
PanicLast == panicked => ~running /\ \A p \in Ports : bound[p] < Len(managers)

CoreInv ==
  /\ TheCore!TypeOK
  /\ panicked \in BOOLEAN /\ Len(managers) <= MaxStarts /\ background <= Len(managers)
  /\ \A p \in Ports : bound[p] <= Len(managers)
  /\ Served /\ Ended /\ PanicLast

LEMMA CoreInit == TheCore!Init => CoreInv
<1> SUFFICES ASSUME TheCore!Init PROVE CoreInv
  OBVIOUS
<1>0. FirstConfig \in Configs /\ MaxStarts \in Nat /\ "free" \notin Callers
  BY PartsAssumption DEF TheCore!CoreAssumption
<1>1. managers \in Seq(Manager) /\ Len(managers) = 0 /\ DOMAIN managers = {}
  BY DEF TheCore!Init
<1>2. TheCore!TypeOK
  <2>1. coreMu = "free" /\ corePc \in [Callers -> {"idle", "shutdown"}]
    BY DEF TheCore!Init, TheCore!Free
  <2>2. \A c \in Callers : coreMu # c /\ corePc[c] # "shutdown"
    BY <1>0 DEF TheCore!Init, TheCore!Free
  <2>3. bound \in [Ports -> 0 .. MaxStarts] /\ background \in 0 .. MaxStarts
    BY <1>0 DEF TheCore!Init
  <2>4. running \in BOOLEAN /\ ctxDone \in BOOLEAN /\ poolStopped \in BOOLEAN /\ config \in Configs
    BY <1>0 DEF TheCore!Init
  <2> QED
    BY <1>1, <2>1, <2>2, <2>3, <2>4 DEF TheCore!TypeOK, TheCore!Free, Manager
<1>3. Served /\ PanicLast /\ panicked \in BOOLEAN
  BY DEF TheCore!Init, TheCore!Free, Served, PanicLast
<1>4. Ended
  BY <1>1 DEF Ended
<1>5. background <= Len(managers) /\ Len(managers) <= MaxStarts /\ \A p \in Ports : bound[p] <= Len(managers)
  BY <1>0, <1>1 DEF TheCore!Init
<1> QED
  BY <1>2, <1>3, <1>4, <1>5 DEF CoreInv

\* Start, alone in the lock, appends a manager that serves, failed or panicked.
LEMMA StartKeeps ==
  ASSUME CoreInv, ~panicked, NEW c \in Callers, TheCore!Start(c)
  PROVE  CoreInv'
<1> USE DEF CoreInv
<1>0. MaxStarts \in Nat /\ managers \in Seq(Manager) /\ Len(managers) \in Nat /\ DOMAIN managers = 1 .. Len(managers)
  BY PartsAssumption, LenProperties DEF TheCore!CoreAssumption, TheCore!TypeOK, Manager
<1>1. PICK n \in Nat : n = Len(managers)
  BY <1>0
<1>2. /\ coreMu = "free" /\ ~running /\ n < MaxStarts
      /\ managers' = Append(managers, [config |-> config, cancelled |-> FALSE])
      /\ UNCHANGED <<coreMu, corePc, ctxDone, poolStopped, config, bound, task>>
  BY <1>1 DEF TheCore!Start, TheCore!Free
<1>3. /\ managers' \in Seq(Manager) /\ Len(managers') = n + 1 /\ DOMAIN managers' = 1 .. n + 1
      /\ \A m \in 1 .. n : managers'[m] = managers[m]
      /\ managers'[n + 1] = [config |-> config, cancelled |-> FALSE]
  <2>1. [config |-> config, cancelled |-> FALSE] \in Manager
    BY DEF TheCore!TypeOK, Manager
  <2> QED
    BY <1>0, <1>1, <1>2, <2>1, AppendProperties, LenProperties
<1>4. /\ panicked' \in BOOLEAN /\ running' \in BOOLEAN
      /\ panicked' => ~running'
      /\ TheCore!Starts(config) => running' \/ panicked'
      /\ background' \in {background, background + 1}
  <2>1. panicked' \in BOOLEAN /\ running' \in BOOLEAN
    BY DEF TheCore!Start
  <2> QED
    BY <2>1 DEF TheCore!Start
<1>5. TheCore!TypeOK' /\ background' <= Len(managers')
  BY <1>0, <1>1, <1>2, <1>3, <1>4 DEF TheCore!TypeOK, Manager
<1>6. Served'
  BY <1>2, <1>3 DEF Served
<1>7. Ended'
  <2>1. ASSUME NEW m \in 1 .. n PROVE managers'[m].cancelled \/ ~TheCore!Starts(managers'[m].config)
    BY <1>0, <1>1, <1>2, <1>3 DEF Ended
  <2>2. ~TheCore!Starts(managers'[n + 1].config) \/ running' \/ panicked'
    BY <1>3, <1>4
  <2> QED
    BY <1>3, <2>1, <2>2 DEF Ended
<1>8. \A p \in Ports : bound'[p] <= n /\ bound'[p] \in Nat
  BY <1>0, <1>1, <1>2 DEF TheCore!TypeOK
<1>9. PanicLast'
  BY <1>1, <1>3, <1>4, <1>8 DEF PanicLast
<1>10. Len(managers') <= MaxStarts /\ \A p \in Ports : bound'[p] <= Len(managers')
  BY <1>0, <1>1, <1>2, <1>3, <1>8
<1> QED
  BY <1>4, <1>5, <1>6, <1>7, <1>9, <1>10

\* Stop cancels the last manager when it takes the lock.
LEMMA StopCancelKeeps ==
  ASSUME CoreInv, ~panicked, NEW c \in Callers, TheCore!StopCancel(c)
  PROVE  CoreInv'
<1> USE DEF CoreInv
<1>0. managers \in Seq(Manager) /\ Len(managers) \in Nat /\ DOMAIN managers = 1 .. Len(managers)
  BY LenProperties DEF TheCore!TypeOK, Manager
<1>1. PICK n \in Nat : n = Len(managers)
  BY <1>0
<1>2. /\ coreMu = "free" /\ running /\ coreMu' = c /\ corePc' = [corePc EXCEPT ![c] = "shutdown"]
      /\ ctxDone' = TRUE /\ poolStopped' = TRUE
      /\ managers' = [managers EXCEPT ![n].cancelled = TRUE]
      /\ UNCHANGED <<running, config, panicked, bound, background>>
  BY <1>1 DEF TheCore!StopCancel, TheCore!Free, TheCore!inbounds
<1>3. n > 0
  BY <1>0, <1>1, <1>2, EmptySeq DEF Served
<1>4. /\ managers' \in Seq(Manager) /\ Len(managers') = n /\ DOMAIN managers' = 1 .. n
      /\ \A m \in 1 .. n : managers'[m].config = managers[m].config
      /\ \A m \in 1 .. n : managers[m].cancelled => managers'[m].cancelled
      /\ managers'[n].cancelled
  <2>0. PICK r \in Manager : r = managers[n]
    BY <1>0, <1>1, <1>3, ElementOfSeq
  <2>1. managers[n] \in Manager /\ [managers[n] EXCEPT !.cancelled = TRUE] \in Manager
    BY <2>0 DEF Manager
  <2>2. managers' = [managers EXCEPT ![n] = [managers[n] EXCEPT !.cancelled = TRUE]]
    BY <1>2
  <2>3. managers' \in Seq(Manager) /\ Len(managers') = n
    BY <1>0, <1>1, <1>3, <2>1, <2>2, ExceptSeq
  <2>4. \A m \in 1 .. n : managers'[m] = IF m = n THEN [managers[n] EXCEPT !.cancelled = TRUE] ELSE managers[m]
    BY <1>0, <1>1, <2>2
  <2> QED
    BY <1>3, <2>1, <2>3, <2>4, LenProperties DEF Manager
<1>5. "free" \notin Callers
  BY PartsAssumption DEF TheCore!CoreAssumption
<1>6. TheCore!TypeOK'
  <2>1. coreMu' \in Callers \union {"free"} /\ corePc' \in [Callers -> {"idle", "shutdown"}]
    BY <1>2 DEF TheCore!TypeOK
  <2>2. \A d \in Callers : coreMu' = d <=> corePc'[d] = "shutdown"
    BY <1>2, <1>5 DEF TheCore!TypeOK
  <2> QED
    BY <1>2, <1>4, <2>1, <2>2 DEF TheCore!TypeOK, TheCore!Free, Manager
<1>7. Served'
  BY <1>2, <1>3, <1>4, <1>5 DEF Served
<1>8. Ended'
  BY <1>0, <1>1, <1>2, <1>4 DEF Ended
<1> QED
  BY <1>1, <1>2, <1>4, <1>6, <1>7, <1>8 DEF PanicLast

LEMMA StopReturnKeeps ==
  ASSUME CoreInv, ~panicked, NEW c \in Callers, TheCore!StopReturn(c)
  PROVE  CoreInv'
<1> USE DEF CoreInv
<1>1. /\ corePc[c] = "shutdown" /\ running' = FALSE /\ coreMu' = "free" /\ corePc' = [corePc EXCEPT ![c] = "idle"]
      /\ UNCHANGED <<ctxDone, poolStopped, config, managers, panicked, bound, background>>
  BY DEF TheCore!StopReturn, TheCore!Free, TheCore!inbounds
<1>2. "free" \notin Callers /\ coreMu = c
  BY <1>1, PartsAssumption DEF TheCore!CoreAssumption, TheCore!TypeOK
<1>3. managers[Len(managers)].cancelled
  BY <1>2 DEF Served
<1>4. TheCore!TypeOK'
  <2>1. corePc' \in [Callers -> {"idle", "shutdown"}]
    BY <1>1 DEF TheCore!TypeOK
  <2>2. \A d \in Callers : coreMu' # d /\ corePc'[d] # "shutdown"
    BY <1>1, <1>2 DEF TheCore!TypeOK
  <2> QED
    BY <1>1, <2>1, <2>2 DEF TheCore!TypeOK, TheCore!Free
<1>5. Served' /\ PanicLast'
  BY <1>1 DEF Served, PanicLast
<1>6. Ended'
  BY <1>1, <1>3 DEF Ended
<1> QED
  BY <1>1, <1>4, <1>5, <1>6

\* The inbounds of any manager take ports, and those of cancelled ones give them up.
LEMMA PortsKeep ==
  ASSUME CoreInv, ~panicked, NEW p \in Ports,
         TheCore!Unlisten(p) \/ \E m \in DOMAIN managers : TheCore!Listen(m, p)
  PROVE  CoreInv'
<1> USE DEF CoreInv
<1>0. MaxStarts \in Nat /\ Len(managers) \in Nat /\ DOMAIN managers = 1 .. Len(managers)
  BY PartsAssumption, LenProperties DEF TheCore!CoreAssumption, TheCore!TypeOK
<1>1. UNCHANGED <<coreMu, corePc, running, ctxDone, poolStopped, config, managers, panicked, background>>
  BY DEF TheCore!Unlisten, TheCore!Listen, TheCore!core
<1>2. PICK q \in 0 .. Len(managers) : bound' = [bound EXCEPT ![p] = q] \/ bound' = bound
  <2>0. 0 \in 0 .. Len(managers)
    BY <1>0
  <2>1. CASE TheCore!Unlisten(p)
    BY <2>0, <2>1, Zenon DEF TheCore!Unlisten
  <2>2. ASSUME NEW m \in DOMAIN managers, TheCore!Listen(m, p)
        PROVE  m \in 0 .. Len(managers) /\ (bound' = [bound EXCEPT ![p] = m] \/ bound' = bound)
    BY <1>0, <2>2 DEF TheCore!Listen
  <2> QED
    BY <2>1, <2>2
<1>3. bound' \in [Ports -> 0 .. MaxStarts] /\ \A r \in Ports : bound'[r] <= Len(managers)
  <2>1. bound \in [Ports -> 0 .. MaxStarts] /\ \A r \in Ports : bound[r] <= Len(managers)
    BY DEF TheCore!TypeOK
  <2>2. q \in 0 .. MaxStarts /\ q <= Len(managers)
    BY <1>0
  <2> HIDE DEF CoreInv
  <2> QED
    BY <1>2, <2>1, <2>2
<1>4. TheCore!TypeOK'
  BY <1>1, <1>3 DEF TheCore!TypeOK
<1>5. Served' /\ Ended' /\ PanicLast'
  BY <1>1 DEF Served, Ended, PanicLast
<1> QED
  BY <1>1, <1>3, <1>4, <1>5

LEMMA CoreStep == CoreInv /\ [TheCore!Next]_coreVars => CoreInv'
<1> SUFFICES ASSUME CoreInv, [TheCore!Next]_coreVars PROVE CoreInv'
  OBVIOUS
<1>1. ASSUME NEW c \in Callers, NEW cfg \in Configs, TheCore!LoadConfig(c, cfg) PROVE CoreInv'
  BY <1>1 DEF CoreInv, Served, Ended, PanicLast, TheCore!TypeOK, TheCore!LoadConfig, TheCore!inbounds
<1>2. CASE TheCore!BackgroundEnds
  <2>1. /\ background' = background - 1 /\ background > 0
        /\ UNCHANGED <<coreMu, corePc, running, ctxDone, poolStopped, config, managers, panicked, bound>>
    BY <1>2 DEF TheCore!BackgroundEnds, TheCore!core, TheCore!inbounds
  <2>2. Len(managers) \in Nat /\ MaxStarts \in Nat
    BY PartsAssumption, LenProperties DEF CoreInv, TheCore!TypeOK, TheCore!CoreAssumption
  <2>3. background' \in 0 .. MaxStarts /\ background' <= Len(managers)
    BY <2>1, <2>2 DEF CoreInv, TheCore!TypeOK
  <2> QED
    BY <2>1, <2>3 DEF CoreInv, Served, Ended, PanicLast, TheCore!TypeOK
<1>3. ASSUME NEW t \in CoreTasks,
             \/ TheCore!TaskSubmitted(t) \/ TheCore!TaskStarts(t)
             \/ TheCore!TaskCalls(t) \/ TheCore!TaskEnds(t)
      PROVE  CoreInv'
  <2>1. UNCHANGED <<coreMu, corePc, running, ctxDone, poolStopped, config, managers, panicked, bound, background>>
    BY <1>3 DEF TheCore!TaskSubmitted, TheCore!TaskStarts, TheCore!TaskCalls, TheCore!TaskEnds,
                TheCore!core, TheCore!inbounds
  <2> QED
    BY <2>1 DEF CoreInv, Served, Ended, PanicLast, TheCore!TypeOK
<1>4. CASE UNCHANGED coreVars
  BY <1>4 DEF coreVars, CoreInv, Served, Ended, PanicLast, TheCore!TypeOK
<1> QED
  BY <1>1, <1>2, <1>3, <1>4, StartKeeps, StopCancelKeeps, StopReturnKeeps, PortsKeep DEF TheCore!Next

LEMMA CoreSafe == CoreInv => RunningServes /\ NoOldManager
<1> SUFFICES ASSUME CoreInv PROVE RunningServes /\ NoOldManager
  OBVIOUS
<1>1. RunningServes
  BY DEF CoreInv, Served, RunningServes, TheCore!RunningServes, TheCore!Free
<1>2. NoOldManager
  <2> SUFFICES ASSUME NEW p \in Ports, bound[p] # 0
               PROVE  \/ running /\ bound[p] = Len(managers)
                      \/ managers[bound[p]].cancelled
                      \/ ~TheCore!Starts(managers[bound[p]].config)
    BY DEF NoOldManager, TheCore!NoOldManager
  <2>1. bound[p] \in Nat /\ bound[p] <= Len(managers) /\ Len(managers) \in Nat /\ DOMAIN managers = 1 .. Len(managers)
    BY PartsAssumption, LenProperties DEF CoreInv, TheCore!TypeOK, TheCore!CoreAssumption
  <2>2. bound[p] \in DOMAIN managers /\ (panicked => bound[p] # Len(managers))
    BY <2>1 DEF CoreInv, PanicLast
  <2> QED
    BY <2>2 DEF CoreInv, Ended
<1> QED
  BY <1>1, <1>2

-----------------------------------------------------------------------------
(***************************************************************************)
(* CertificateManager                                                      *)
(***************************************************************************)
CertTypes ==
  /\ made \in 0 .. MaxKeys /\ certs \in [Names -> 0 .. made]
  /\ name \in [Certificates!Keys -> Names \union {NoName}]
  /\ certFile \in 0 .. made /\ keyFile \in 0 .. made
  /\ certPc \in [Callers -> {"idle", "generate", "renew", "renewing", "store", "restore", "saveCert",
                             "saveKey", "return", "returned", "failed", "loadKey"}]
  /\ want \in [Callers -> Names \union {NoName}]
  /\ key \in [Callers -> 0 .. made] /\ got \in [Callers -> 0 .. made]
  /\ age \in [Certificates!Keys -> 0 .. MaxAge]

\* Every pair made has a name, and the map keeps it under that name.
Named ==
  /\ \A k \in 1 .. made : name[k] \in Names
  /\ \A n \in Names : certs[n] # 0 => name[certs[n]] = n

\* What a call holds between two of its steps
CallHolds(c) ==
  /\ certPc[c] \in {"generate", "renew", "renewing"} => want[c] \in Names
  /\ certPc[c] \in {"store", "restore", "saveCert", "saveKey", "return"} =>
       key[c] # 0 /\ want[c] \in Names /\ name[key[c]] = want[c]
  /\ certPc[c] = "loadKey" => key[c] # 0
  /\ got[c] # 0 => certPc[c] = "returned" /\ name[got[c]] = want[c]

\* Only a renewal keeps the lock beyond a step.
RenewLocks == \A c \in Callers : certMu = c <=> certPc[c] \in {"renewing", "restore"}

CertInv == CertTypes /\ Named /\ (\A c \in Callers : CallHolds(c)) /\ RenewLocks

LEMMA CertInit == Certificates!Init => CertInv
<1> SUFFICES ASSUME Certificates!Init PROVE CertInv
  OBVIOUS
<1>0. MaxKeys \in Nat /\ MaxAge \in Nat /\ Unlocked \notin Callers
  BY PartsAssumption DEF Certificates!CertificateAssumption
<1>1. CertTypes
  BY <1>0 DEF Certificates!Init, CertTypes
<1>2. Named
  BY <1>0 DEF Certificates!Init, Named
<1>3. ASSUME NEW c \in Callers
      PROVE  certPc[c] = "idle" /\ certMu # c /\ got[c] = 0
  BY <1>0 DEF Certificates!Init
<1>4. \A c \in Callers : CallHolds(c)
  BY <1>3 DEF CallHolds
<1>5. RenewLocks
  BY <1>3 DEF RenewLocks
<1> QED
  BY <1>1, <1>2, <1>4, <1>5 DEF CertInv

\* A step of one call leaves the others what they hold.
StepOf(c) == \A d \in Callers \ {c} :
  certPc'[d] = certPc[d] /\ want'[d] = want[d] /\ key'[d] = key[d] /\ got'[d] = got[d]

LEMMA OthersHold ==
  ASSUME NEW c \in Callers, CertInv, StepOf(c), \A k \in 1 .. made : name'[k] = name[k], CallHolds(c)'
  PROVE  \A d \in Callers : CallHolds(d)'
<1> SUFFICES ASSUME NEW d \in Callers, d # c PROVE CallHolds(d)'
  OBVIOUS
<1>1. CallHolds(d) /\ key[d] \in 0 .. made /\ got[d] \in 0 .. made /\ made \in Nat
  BY PartsAssumption DEF CertInv, CertTypes, Certificates!CertificateAssumption
<1>2. certPc'[d] = certPc[d] /\ want'[d] = want[d] /\ key'[d] = key[d] /\ got'[d] = got[d]
  BY DEF StepOf
<1>3. (key[d] # 0 => name'[key[d]] = name[key[d]]) /\ (got[d] # 0 => name'[got[d]] = name[got[d]])
  BY <1>1
<1> QED
  BY <1>1, <1>2, <1>3 DEF CallHolds

\* GenerateCertificate names a pair that nobody has seen yet.
LEMMA GenerateKeeps ==
  ASSUME CertInv, NEW c \in Callers, Certificates!Generate(c)
  PROVE  CertInv'
<1> USE DEF CertInv
<1>0. MaxKeys \in Nat /\ made \in Nat
  BY PartsAssumption DEF CertTypes, Certificates!CertificateAssumption
<1>1. PICK n \in Nat : n = made + 1 /\ n <= MaxKeys
  BY <1>0 DEF Certificates!Generate
<1>2. /\ certPc[c] \in {"generate", "renewing"} /\ made' = n
      /\ key' = [key EXCEPT ![c] = n] /\ name' = [name EXCEPT ![n] = want[c]]
      /\ certPc' = [certPc EXCEPT ![c] = IF certPc[c] = "generate" THEN "store" ELSE "restore"]
      /\ UNCHANGED <<certMu, certs, age, certFile, keyFile, want, got>>
  BY <1>1 DEF Certificates!Generate, Certificates!files
<1>3. want[c] \in Names
  BY <1>2 DEF CallHolds
<1>4. n \in Certificates!Keys /\ \A k \in 1 .. made : k # n /\ k \in Certificates!Keys
  BY <1>0, <1>1 DEF Certificates!Keys
<1>5. name'[n] = want[c] /\ \A k \in 1 .. made : name'[k] = name[k]
  BY <1>2, <1>4 DEF CertTypes
<1>6. CertTypes'
  <2>1. 0 .. made \subseteq 0 .. n /\ n \in 0 .. n /\ n \in 0 .. MaxKeys
    BY <1>0, <1>1
  <2>2. certs' \in [Names -> 0 .. n] /\ got' \in [Callers -> 0 .. n] /\ key' \in [Callers -> 0 .. n]
    BY <1>2, <2>1 DEF CertTypes
  <2>3. name' \in [Certificates!Keys -> Names \union {NoName}]
    BY <1>2, <1>3 DEF CertTypes
  <2>4. certFile' \in 0 .. n /\ keyFile' \in 0 .. n
    BY <1>2, <2>1 DEF CertTypes
  <2> QED
    BY <1>2, <2>1, <2>2, <2>3, <2>4 DEF CertTypes
<1>7. Named'
  <2>1. \A k \in 1 .. n : k \in 1 .. made \/ k = n
    BY <1>0, <1>1
  <2>2. \A m \in Names : certs[m] # 0 => certs[m] \in 1 .. made
    BY <1>0 DEF CertTypes
  <2> QED
    BY <1>2, <1>3, <1>5, <2>1, <2>2 DEF Named
<1>8. CallHolds(c)'
  <2>1. certPc'[c] \in {"store", "restore"} /\ key'[c] = n /\ want'[c] = want[c] /\ got'[c] = 0
    BY <1>2 DEF CertTypes, CallHolds
  <2> QED
    BY <1>0, <1>1, <1>3, <1>5, <2>1 DEF CallHolds
<1>9. \A d \in Callers : CallHolds(d)'
  BY <1>2, <1>5, <1>8, OthersHold DEF CertTypes, StepOf
<1>10. RenewLocks'
  BY <1>2 DEF RenewLocks, CertTypes
<1> QED
  BY <1>6, <1>7, <1>9, <1>10

\* The other steps of a call make no pair: it is enough to look at the call
\* itself, at the entry of the map that it sets and at the lock.
LEMMA CallKeeps ==
  ASSUME CertInv, NEW c \in Callers, StepOf(c), UNCHANGED <<made, name>>, CertTypes', CallHolds(c)',
         \A n \in Names : certs'[n] \in {0, certs[n]} \/ name[certs'[n]] = n,
         \/ certMu' = certMu /\ (certPc'[c] \in {"renewing", "restore"} <=> certPc[c] \in {"renewing", "restore"})
         \/ certMu = Unlocked /\ certMu' = c /\ certPc'[c] = "renewing"
         \/ certMu = c /\ certMu' = Unlocked /\ certPc'[c] \notin {"renewing", "restore"}
  PROVE  CertInv'
<1>1. \A d \in Callers : CallHolds(d)'
  BY OthersHold
<1>2. Named'
  BY DEF CertInv, Named
<1>3. RenewLocks'
  BY PartsAssumption DEF CertInv, RenewLocks, StepOf, Certificates!CertificateAssumption
<1> QED
  BY <1>1, <1>2, <1>3 DEF CertInv

LEMMA CertCallStep ==
  ASSUME CertInv, NEW c \in Callers,
         \/ Certificates!Store(c) \/ Certificates!SaveCert(c) \/ Certificates!SaveKey(c)
         \/ Certificates!Return(c) \/ Certificates!Renew(c) \/ Certificates!LoadKey(c)
         \/ Certificates!GenerateFails(c) \/ Certificates!SaveCertFails(c) \/ Certificates!SaveKeyFails(c)
         \/ Certificates!LoadCert(c) \/ Certificates!Again(c)
         \/ \E n \in Names : Certificates!GetCertificate(c, n)
  PROVE  CertInv'
<1>1. made \in Nat /\ key[c] \in 0 .. made /\ 0 \in 0 .. made
  BY PartsAssumption DEF CertInv, CertTypes, Certificates!CertificateAssumption
<1>2. CallHolds(c) /\ (certMu = c <=> certPc[c] \in {"renewing", "restore"}) /\ Unlocked \notin Callers
  BY PartsAssumption DEF CertInv, RenewLocks, Certificates!CertificateAssumption
<1>3. \A k \in 0 .. made : k # 0 => name[k] \in Names
  BY <1>1 DEF CertInv, Named
<1>4. \A n \in Names : certs[n] \in 0 .. made /\ (certs[n] # 0 => name[certs[n]] = n)
  BY DEF CertInv, CertTypes, Named
<1>5. CertTypes
  BY DEF CertInv
<1> USE DEF Certificates!files, Certificates!Goto
<1>6. CASE Certificates!Store(c)
  <2>1. /\ certPc[c] = "store" /\ certs' = [certs EXCEPT ![want[c]] = key[c]]
        /\ \E at \in {"saveCert", "return"} : certPc' = [certPc EXCEPT ![c] = at]
        /\ UNCHANGED <<certMu, made, name, age, certFile, keyFile, want, key, got>>
    BY <1>2, <1>6 DEF Certificates!Store
  <2>2. key[c] # 0 /\ name[key[c]] = want[c] /\ want[c] \in Names /\ got[c] = 0
    BY <1>2, <2>1 DEF CallHolds
  <2>3. CertTypes'
    BY <1>1, <1>5, <2>1, <2>2 DEF CertTypes
  <2>4. StepOf(c) /\ CallHolds(c)'
    BY <1>2, <1>5, <2>1, <2>2 DEF StepOf, CertTypes, CallHolds
  <2>5. \A n \in Names : certs'[n] = certs[n] \/ name[certs'[n]] = n
    BY <1>5, <2>1, <2>2 DEF CertTypes
  <2>6. certPc'[c] \notin {"renewing", "restore"}
    BY <1>5, <2>1 DEF CertTypes
  <2> QED
    BY <2>1, <2>3, <2>4, <2>5, <2>6, CallKeeps
<1>7. CASE Certificates!SaveCert(c)
  <2>1. /\ certPc[c] = "saveCert" /\ certPc' = [certPc EXCEPT ![c] = "saveKey"] /\ certFile' = key[c]
        /\ UNCHANGED <<certMu, certs, made, name, age, keyFile, want, key, got>>
    BY <1>7 DEF Certificates!SaveCert
  <2>2. CertTypes'
    BY <1>1, <1>5, <2>1 DEF CertTypes
  <2>3. StepOf(c) /\ CallHolds(c)'
    BY <1>2, <1>5, <2>1 DEF StepOf, CertTypes, CallHolds
  <2>4. certPc'[c] \notin {"renewing", "restore"}
    BY <1>5, <2>1 DEF CertTypes
  <2> QED
    BY <2>1, <2>2, <2>3, <2>4, CallKeeps
<1>8. CASE Certificates!SaveKey(c)
  <2>1. /\ certPc[c] = "saveKey" /\ certPc' = [certPc EXCEPT ![c] = "return"] /\ keyFile' = key[c]
        /\ UNCHANGED <<certMu, certs, made, name, age, certFile, want, key, got>>
    BY <1>8 DEF Certificates!SaveKey
  <2>2. CertTypes'
    BY <1>1, <1>5, <2>1 DEF CertTypes
  <2>3. StepOf(c) /\ CallHolds(c)'
    BY <1>2, <1>5, <2>1 DEF StepOf, CertTypes, CallHolds
  <2>4. certPc'[c] \notin {"renewing", "restore"}
    BY <1>5, <2>1 DEF CertTypes
  <2> QED
    BY <2>1, <2>2, <2>3, <2>4, CallKeeps
<1>9. CASE Certificates!Return(c)
  <2>1. /\ certPc[c] = "return" /\ certPc' = [certPc EXCEPT ![c] = "returned"]
        /\ got' = [got EXCEPT ![c] = key[c]]
        /\ UNCHANGED <<certMu, certs, made, name, age, certFile, keyFile, want, key>>
    BY <1>9 DEF Certificates!Return
  <2>2. CertTypes'
    BY <1>1, <1>5, <2>1 DEF CertTypes
  <2>3. StepOf(c) /\ CallHolds(c)'
    BY <1>2, <1>5, <2>1 DEF StepOf, CertTypes, CallHolds
  <2>4. certPc'[c] \notin {"renewing", "restore"}
    BY <1>5, <2>1 DEF CertTypes
  <2> QED
    BY <2>1, <2>2, <2>3, <2>4, CallKeeps
<1>10. CASE Certificates!Renew(c)
  <2>1. /\ certPc[c] = "renew" /\ certPc' = [certPc EXCEPT ![c] = "renewing"]
        /\ certMu = Unlocked /\ certMu' = c
        /\ UNCHANGED <<certs, made, name, age, certFile, keyFile, want, key, got>>
    BY <1>10 DEF Certificates!Renew
  <2>2. CertTypes'
    BY <1>1, <1>5, <2>1 DEF CertTypes
  <2>3. StepOf(c) /\ CallHolds(c)'
    BY <1>2, <1>5, <2>1 DEF StepOf, CertTypes, CallHolds
  <2>4. certPc'[c] = "renewing"
    BY <1>5, <2>1 DEF CertTypes
  <2> QED
    BY <2>1, <2>2, <2>3, <2>4, CallKeeps
<1>11. CASE Certificates!LoadCert(c)
  <2>1. /\ certPc[c] = "idle" /\ certFile # 0 /\ certPc' = [certPc EXCEPT ![c] = "loadKey"]
        /\ key' = [key EXCEPT ![c] = certFile]
        /\ UNCHANGED <<certMu, certs, made, name, age, certFile, keyFile, want, got>>
    BY <1>11 DEF Certificates!LoadCert
  <2>2. CertTypes'
    BY <1>1, <1>5, <2>1 DEF CertTypes
  <2>3. StepOf(c) /\ CallHolds(c)'
    BY <1>2, <1>5, <2>1 DEF StepOf, CertTypes, CallHolds
  <2>4. certPc'[c] \notin {"renewing", "restore"}
    BY <1>5, <2>1 DEF CertTypes
  <2> QED
    BY <2>1, <2>2, <2>3, <2>4, CallKeeps
<1>12. CASE Certificates!Again(c)
  <2>1. /\ certPc[c] \in {"returned", "failed"} /\ certPc' = [certPc EXCEPT ![c] = "idle"]
        /\ got' = [got EXCEPT ![c] = 0] /\ key' = [key EXCEPT ![c] = 0] /\ want' = [want EXCEPT ![c] = NoName]
        /\ UNCHANGED <<certMu, certs, made, name, age, certFile, keyFile>>
    BY <1>12 DEF Certificates!Again
  <2>2. CertTypes'
    BY <1>1, <1>5, <2>1 DEF CertTypes
  <2>3. StepOf(c) /\ CallHolds(c)'
    BY <1>2, <1>5, <2>1 DEF StepOf, CertTypes, CallHolds
  <2>4. certPc'[c] \notin {"renewing", "restore"}
    BY <1>5, <2>1 DEF CertTypes
  <2> QED
    BY <2>1, <2>2, <2>3, <2>4, CallKeeps
<1>13. CASE Certificates!LoadKey(c)
  <2>1. certPc[c] = "loadKey" /\ UNCHANGED <<certMu, made, name, age, certFile, keyFile, key>>
    BY <1>13 DEF Certificates!LoadKey
  <2>2. key[c] # 0 /\ name[key[c]] \in Names /\ got[c] = 0
    BY <1>1, <1>2, <1>3, <2>1 DEF CallHolds
  <2>3. \/ /\ certs' = [certs EXCEPT ![name[key[c]]] = key[c]] /\ want' = [want EXCEPT ![c] = name[key[c]]]
           /\ got' = [got EXCEPT ![c] = key[c]] /\ certPc' = [certPc EXCEPT ![c] = "returned"]
        \/ certPc' = [certPc EXCEPT ![c] = "failed"] /\ UNCHANGED <<certs, want, got>>
    BY <1>13 DEF Certificates!LoadKey
  <2>4. CertTypes'
    BY <1>1, <1>5, <2>1, <2>2, <2>3 DEF CertTypes
  <2>5. StepOf(c) /\ CallHolds(c)'
    BY <1>5, <2>1, <2>2, <2>3 DEF StepOf, CertTypes, CallHolds
  <2>6. \A n \in Names : certs'[n] = certs[n] \/ name[certs'[n]] = n
    BY <1>5, <2>2, <2>3 DEF CertTypes
  <2>7. certPc'[c] \notin {"renewing", "restore"}
    BY <1>5, <2>3 DEF CertTypes
  <2> QED
    BY <2>1, <2>4, <2>5, <2>6, <2>7, CallKeeps
<1>14. ASSUME NEW n \in Names, Certificates!GetCertificate(c, n) PROVE CertInv'
  <2>1. PICK k \in 0 .. made : k = certs[n] /\ (k # 0 => name[k] = n)
    BY <1>4
  <2>2. /\ want' = [want EXCEPT ![c] = n] /\ UNCHANGED <<certMu, certs, made, name, age, certFile, keyFile, key>>
        /\ certPc[c] = "idle"
    BY <1>14 DEF Certificates!GetCertificate
  <2>3. \/ certPc' = [certPc EXCEPT ![c] = "returned"] /\ k # 0 /\ got' = [got EXCEPT ![c] = k]
        \/ \E at \in {"generate", "renew", "failed"} :
             certPc' = [certPc EXCEPT ![c] = at] /\ got' = [got EXCEPT ![c] = 0]
    BY <1>14, <2>1 DEF Certificates!GetCertificate
  <2>4. CertTypes'
    BY <1>1, <1>5, <2>2, <2>3 DEF CertTypes
  <2>5. StepOf(c) /\ CallHolds(c)'
    BY <1>5, <2>1, <2>2, <2>3 DEF StepOf, CertTypes, CallHolds
  <2>6. certPc'[c] \notin {"renewing", "restore"}
    BY <1>5, <2>3 DEF CertTypes
  <2> QED
    BY <2>2, <2>4, <2>5, <2>6, CallKeeps
<1>15. CASE Certificates!GenerateFails(c)
  <2>1. /\ certPc[c] \in {"generate", "renewing"} /\ certPc' = [certPc EXCEPT ![c] = "failed"]
        /\ UNCHANGED <<certs, made, name, age, certFile, keyFile, want, key, got>>
    BY <1>15 DEF Certificates!GenerateFails
  <2>2. CertTypes'
    BY <1>1, <1>5, <2>1 DEF CertTypes
  <2>3. StepOf(c) /\ CallHolds(c)'
    BY <1>2, <1>5, <2>1 DEF StepOf, CertTypes, CallHolds
  <2>4. certPc'[c] \notin {"renewing", "restore"}
    BY <1>5, <2>1 DEF CertTypes
  <2>5. \/ certPc[c] = "generate" /\ certMu' = certMu
        \/ certPc[c] = "renewing" /\ certMu = c /\ certMu' = Unlocked
    BY <1>2, <1>15 DEF Certificates!GenerateFails
  <2> QED
    BY <2>1, <2>2, <2>3, <2>4, <2>5, CallKeeps
<1>16. CASE Certificates!SaveCertFails(c)
  <2>1. /\ certPc[c] = "saveCert" /\ certPc' = [certPc EXCEPT ![c] = "return"] /\ certFile' \in {certFile, 0}
        /\ UNCHANGED <<certMu, certs, made, name, age, keyFile, want, key, got>>
    BY <1>16 DEF Certificates!SaveCertFails
  <2>2. CertTypes'
    BY <1>1, <1>5, <2>1 DEF CertTypes
  <2>3. StepOf(c) /\ CallHolds(c)'
    BY <1>2, <1>5, <2>1 DEF StepOf, CertTypes, CallHolds
  <2>4. certPc'[c] \notin {"renewing", "restore"}
    BY <1>5, <2>1 DEF CertTypes
  <2> QED
    BY <2>1, <2>2, <2>3, <2>4, CallKeeps
<1>17. CASE Certificates!SaveKeyFails(c)
  <2>1. /\ certPc[c] = "saveKey" /\ certPc' = [certPc EXCEPT ![c] = "return"] /\ keyFile' \in {keyFile, 0}
        /\ UNCHANGED <<certMu, certs, made, name, age, certFile, want, key, got>>
    BY <1>17 DEF Certificates!SaveKeyFails
  <2>2. CertTypes'
    BY <1>1, <1>5, <2>1 DEF CertTypes
  <2>3. StepOf(c) /\ CallHolds(c)'
    BY <1>2, <1>5, <2>1 DEF StepOf, CertTypes, CallHolds
  <2>4. certPc'[c] \notin {"renewing", "restore"}
    BY <1>5, <2>1 DEF CertTypes
  <2> QED
    BY <2>1, <2>2, <2>3, <2>4, CallKeeps
<1> QED
  BY <1>6, <1>7, <1>8, <1>9, <1>10, <1>11, <1>12, <1>13, <1>14, <1>15, <1>16, <1>17

LEMMA CertStep == CertInv /\ [Certificates!Next]_certVars => CertInv'
<1> SUFFICES ASSUME CertInv, [Certificates!Next]_certVars PROVE CertInv'
  OBVIOUS
<1>1. ASSUME NEW k \in Certificates!Keys, Certificates!Age(k) PROVE CertInv'
  <2>1. UNCHANGED <<certMu, certs, made, name, certFile, keyFile, certPc, want, key, got>>
    BY <1>1 DEF Certificates!Age, Certificates!files
  <2>2. age' \in [Certificates!Keys -> 0 .. MaxAge]
    <3>1. MaxAge \in Nat /\ age[k] \in 0 .. MaxAge /\ age[k] < MaxAge
      BY <1>1, PartsAssumption DEF Certificates!Age, CertInv, CertTypes, Certificates!CertificateAssumption
    <3> QED
      BY <1>1, <3>1 DEF Certificates!Age, CertInv, CertTypes
  <2> QED
    BY <2>1, <2>2 DEF CertInv, CertTypes, Named, CallHolds, RenewLocks
<1>2. CASE UNCHANGED certVars
  BY <1>2 DEF certVars, CertInv, CertTypes, Named, CallHolds, RenewLocks
<1> QED
  BY <1>1, <1>2, GenerateKeeps, CertCallStep DEF Certificates!Next, Certificates!CallStep

LEMMA CertSafe == CertInv => Certificates!TypeOK /\ NamesMatch
BY DEF CertInv, CertTypes, Named, CallHolds, RenewLocks, Certificates!TypeOK, NamesMatch, Certificates!NamesMatch

-----------------------------------------------------------------------------
PartsInv == SchedulerInv /\ CoreInv /\ CertInv

\* Each part keeps its invariant, whichever of them runs.
THEOREM PartsInvariant == MCSpec => []PartsInv
<1>1. MCInit => PartsInv
  BY SchedulerInit, CoreInit, CertInit DEF MCInit, PartsInv
<1>2. PartsInv /\ [MCNext]_allVars => PartsInv'
  <2>1. [MCNext]_allVars => /\ [Scheduler!Next]_schedulerVars
                            /\ [TheCore!Next]_coreVars /\ [Certificates!Next]_certVars
    BY DEF MCNext, allVars
  <2> QED
    BY <2>1, SchedulerStep, CoreStep, CertStep DEF PartsInv
<1> QED
  BY <1>1, <1>2, PTL DEF MCSpec

\* The state of the Core and that of the certificate manager keep their types: above
\* all each lock is held by the one Stop, or the one renewal, in progress.
THEOREM PartsTypeCorrect == MCSpec => [](TheCore!TypeOK /\ Certificates!TypeOK)
<1>1. PartsInv => TheCore!TypeOK /\ Certificates!TypeOK
  BY CertSafe DEF PartsInv, CoreInv
<1> QED
  BY <1>1, PartsInvariant, PTL

\* Schedule and Flush: any number of goroutines that schedule and flush divide the
\* tasks among themselves; none is lost, unless the pool is stopped, and none is
\* submitted twice.
THEOREM TasksDivided == MCSpec => []NoneLostOrDoubled
<1>1. PartsInv => NoneLostOrDoubled
  BY SchedulerSafe DEF PartsInv
<1> QED
  BY <1>1, PartsInvariant, PTL

\* Core.Start, Stop and LoadConfig in any order and from any goroutines: a Core that
\* is running has a manager whose context is alive.
THEOREM CoreServes == MCSpec => []RunningServes
<1>1. PartsInv => RunningServes
  BY CoreSafe DEF PartsInv
<1> QED
  BY <1>1, PartsInvariant, PTL

\* Core.Start after Stop, for any configurations: a port is held by the manager that
\* serves, by one that was cancelled or by one whose Start failed.
THEOREM OldManagersEnd == MCSpec => []NoOldManager
<1>1. PartsInv => NoOldManager
  BY CoreSafe DEF PartsInv
<1> QED
  BY <1>1, PartsInvariant, PTL

\* GetCertificate and LoadFromFile: whatever is generated, renewed, saved and loaded
\* at the same time, a name has a certificate for that name.
THEOREM CertificatesMatch == MCSpec => []NamesMatch
<1>1. PartsInv => NamesMatch
  BY CertSafe DEF PartsInv
<1> QED
  BY <1>1, PartsInvariant, PTL
=============================================================================
