----------------------------- MODULE MultiLine ------------------------------
(***************************************************************************)
(* common/net/dualstack.go: the MultiLineManager, its table of lines, the  *)
(* pool of its dialer with the lines' statistics, and the goroutine that   *)
(* probes them.                                                            *)
(*                                                                         *)
(* Goroutines (Callers) add and remove lines by tag; each call changes the *)
(* manager's table and then, with another lock, the pool.  The pool is a   *)
(* sequence of entries, in which a tag may occur again; an entry's id      *)
(* stands for its address, of which every call brings another.  The        *)
(* statistics of a tag are the failed probes in a row, up to three, or     *)
(* NoStats.  The prober takes a copy of the pool and dials the addresses   *)
(* of the copy one after the other, with no lock; what comes back it books *)
(* by the tag.  MaxCalls bounds the calls, MaxRounds the rounds.           *)
(*                                                                         *)
(* History: an entry counts the failed probes of its own address, up to    *)
(* three, and the probes for its tag that were under way when it was added *)
(* (late), and knows whether another entry ever had its tag (twin);        *)
(* overlapped are the tags of which two calls were under way at a time.    *)
(***************************************************************************)
EXTENDS Integers, Sequences, FiniteSets, SequencesExt

CONSTANTS Callers, Tags, MaxCalls, MaxRounds, NoStats

\* What is assumed of the constants.
LinesAssumption == Tags # {} /\ NoStats \notin Nat

VARIABLES lines,                        \* the manager's table
          addresses, stats, added,      \* the pool
          call, tag, calls, overlapped, \* the callers
          prober, todo, rounds, cancelled
callers == <<call, tag, calls, overlapped>>
probing == <<prober, todo, rounds, cancelled>>
vars == <<lines, addresses, stats, added, callers, probing>>

Init ==
  /\ lines = {} /\ addresses = <<>> /\ stats = [t \in Tags |-> NoStats] /\ added = 0
  /\ call = [c \in Callers |-> "idle"] /\ tag = [c \in Callers |-> CHOOSE t \in Tags : TRUE] /\ calls = 0 /\ overlapped = {}
  /\ prober = "none" /\ todo = <<>> /\ rounds = 0 /\ cancelled = FALSE

\* The first entry with the tag, or 0; it is the one that is changed or removed.
First(t) == IF \E i \in DOMAIN addresses : addresses[i].tag = t
            THEN CHOOSE i \in DOMAIN addresses :
                   addresses[i].tag = t /\ \A j \in 1 .. i - 1 : addresses[j].tag # t
            ELSE 0

-----------------------------------------------------------------------------
\* A call begins: what the manager does with its table, under its lock
Begin(c, what, t) ==
  /\ call[c] = "idle" /\ calls < MaxCalls
  /\ call' = [call EXCEPT ![c] = what] /\ tag' = [tag EXCEPT ![c] = t] /\ calls' = calls + 1
  /\ overlapped' = IF \E d \in Callers : call[d] # "idle" /\ tag[d] = t
                   THEN overlapped \union {t} ELSE overlapped

AddLine(c, t) ==
  /\ Begin(c, "add", t)
  /\ lines' = lines \union {t}
  /\ UNCHANGED <<addresses, stats, added, probing>>

RemoveLine(c, t) ==
  /\ Begin(c, "remove", t)
  /\ lines' = lines \ {t}
  /\ UNCHANGED <<addresses, stats, added, probing>>

\* The probes of the tag that are under way, or about to be.
UnderWay(t) == {k \in DOMAIN todo : todo[k].tag = t}

\* The pool with a new entry at its end.
WithLine(t) ==
  Append([i \in DOMAIN addresses |-> [addresses[i] EXCEPT !.twin = @ \/ addresses[i].tag = t]],
         [tag |-> t, id |-> added + 1, alive |-> TRUE, failed |-> 0,
          late |-> Cardinality(UnderWay(t)), twin |-> \E i \in DOMAIN addresses : addresses[i].tag = t])

\* Mutant: statistics that are there are kept.
AddAddress_KeepsStats(c) ==
  /\ call[c] = "add"
  /\ addresses' = WithLine(tag[c]) /\ added' = added + 1
  /\ stats' = [stats EXCEPT ![tag[c]] = IF @ = NoStats THEN 0 ELSE @]
  /\ call' = [call EXCEPT ![c] = "idle"]
  /\ UNCHANGED <<lines, tag, calls, overlapped, probing>>

\* Mutant: a tag that has statistics is taken to be in the pool.
AddAddress_IfNoStats(c) ==
  /\ call[c] = "add"
  /\ addresses' = IF stats[tag[c]] # NoStats THEN addresses ELSE WithLine(tag[c])
  /\ added' = added + 1
  /\ stats' = [stats EXCEPT ![tag[c]] = 0]
  /\ call' = [call EXCEPT ![c] = "idle"]
  /\ UNCHANGED <<lines, tag, calls, overlapped, probing>>

\* ... and then the dialer with its pool: an entry at the end, new statistics
AddAddress(c) ==
  /\ call[c] = "add"
  /\ addresses' = WithLine(tag[c]) /\ added' = added + 1
  /\ stats' = [stats EXCEPT ![tag[c]] = 0]
  /\ call' = [call EXCEPT ![c] = "idle"]
  /\ UNCHANGED <<lines, tag, calls, overlapped, probing>>

\* removeByTag takes out one entry; the statistics go
RemoveAddress(c) ==
  /\ call[c] = "remove"
  /\ addresses' = IF First(tag[c]) = 0 THEN addresses ELSE RemoveAt(addresses, First(tag[c]))
  /\ stats' = [stats EXCEPT ![tag[c]] = NoStats]
  /\ call' = [call EXCEPT ![c] = "idle"]
  /\ UNCHANGED <<lines, added, tag, calls, overlapped, probing>>

-----------------------------------------------------------------------------
StartProbing ==
  /\ prober = "none"
  /\ prober' = "snapshot"
  /\ UNCHANGED <<lines, added, addresses, stats, callers, todo, rounds, cancelled>>

\* ProbeAll: a copy of the pool
ProbeAll ==
  /\ prober = "snapshot"
  /\ todo' = [i \in DOMAIN addresses |-> [tag |-> addresses[i].tag, id |-> addresses[i].id]]
  /\ prober' = "probe" /\ rounds' = rounds + 1
  /\ UNCHANGED <<lines, added, addresses, stats, callers, cancelled>>

\* probeAddr, once the dial of the copy's address has come back: the statistics of
\* the tag are made if there are none, and the first entry with the tag is marked
ProbeSucceeds ==
  /\ prober = "probe" /\ todo # <<>>
  /\ LET t == Head(todo).tag
     IN /\ stats' = [stats EXCEPT ![t] = 0]
        /\ addresses' = [i \in DOMAIN addresses |->
             IF i = First(t) THEN [addresses[i] EXCEPT !.alive = TRUE] ELSE addresses[i]]
  /\ todo' = Tail(todo)
  /\ UNCHANGED <<lines, added, callers, prober, rounds, cancelled>>

Failures(t) == IF stats[t] = NoStats THEN 1 ELSE IF stats[t] < 3 THEN stats[t] + 1 ELSE 3

ProbeFails ==
  /\ prober = "probe" /\ todo # <<>>
  /\ LET t == Head(todo).tag
     IN /\ stats' = [stats EXCEPT ![t] = Failures(t)]
        /\ addresses' = [i \in DOMAIN addresses |->
             [addresses[i] EXCEPT
                !.alive = @ /\ ~(i = First(t) /\ Failures(t) >= 3),
                !.failed = IF addresses[i].id = Head(todo).id /\ @ < 3 THEN @ + 1 ELSE @]]
  /\ todo' = Tail(todo)
  /\ UNCHANGED <<lines, added, callers, prober, rounds, cancelled>>

ProbeAllReturns ==
  /\ prober = "probe" /\ todo = <<>>
  /\ prober' = "select"
  /\ UNCHANGED <<lines, added, addresses, stats, callers, todo, rounds, cancelled>>

\* the select: the ticker, or the context
Tick ==
  /\ prober = "select" /\ rounds < MaxRounds
  /\ prober' = "snapshot"
  /\ UNCHANGED <<lines, added, addresses, stats, callers, todo, rounds, cancelled>>

ProberEnds ==
  /\ prober = "select" /\ cancelled
  /\ prober' = "ended"
  /\ UNCHANGED <<lines, added, addresses, stats, callers, todo, rounds, cancelled>>

Stop ==
  /\ ~cancelled
  /\ cancelled' = TRUE
  /\ UNCHANGED <<lines, added, addresses, stats, callers, prober, todo, rounds>>

Probe == ProbeAll \/ ProbeSucceeds \/ ProbeFails \/ ProbeAllReturns

Next ==
  \/ \E c \in Callers : AddAddress(c) \/ RemoveAddress(c) \/ \E t \in Tags : AddLine(c, t) \/ RemoveLine(c, t)
  \/ StartProbing \/ Probe \/ Tick \/ ProberEnds \/ Stop

Spec == Init /\ [][Next]_vars

\* The prober moves when it can (a dial has a timeout), and a select that may
\* choose does not always choose the ticker.
Fairness == WF_vars(Probe) /\ SF_vars(ProberEnds)

-----------------------------------------------------------------------------
\* A line whose tag nobody shares is dead only after three failed probes of its own
\* address, less one for each probe of an earlier line of the tag that was still
\* under way when it was added.  Those the code books under the tag and so holds
\* against the new line; but nothing else is: not the statistics of the earlier
\* line, nor those that a probe makes for a line that is gone.
DeadAfterThree ==
  \A i \in DOMAIN addresses :
    ~addresses[i].alive /\ ~addresses[i].twin => addresses[i].failed + addresses[i].late >= 3

\* A line of the manager is in the pool, once the calls have returned, unless two
\* calls for its tag overlapped.
LinesDialled ==
  (\A c \in Callers : call[c] = "idle") =>
    \A t \in lines \ overlapped : First(t) # 0 /\ stats[t] # NoStats

\* Stop ends the probing.
ProbingEnds == <>[](cancelled => prober \in {"none", "ended"})
=============================================================================
