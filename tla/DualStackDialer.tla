--------------------------- MODULE DualStackDialer --------------------------
(***************************************************************************)
(* common/net/dualstack.go: a call of DialIPContext, and the lines that    *)
(* dialParallel dials with it.                                             *)
(*                                                                         *)
(* With a preference for a family the caller tries its addresses (IPv4,    *)
(* IPv6) one after the other, in the resolver's order, which is any; with  *)
(* none it dials all of them and all lines that are alive at once and      *)
(* keeps the first connection.  Meanwhile the program adds and removes     *)
(* lines, and probes make them dead or alive (MultiLine.tla says when).  A *)
(* line is its tag; no two lines have the same.  The two pools, one for    *)
(* each family, are one set here.                                          *)
(*                                                                         *)
(* steady is a history variable: no line was added, removed or dead until  *)
(* the dial had counted its results.                                       *)
(***************************************************************************)
EXTENDS Integers, Sequences, FiniteSets

CONSTANTS IPv4, IPv6, Tags, FirstLines, None

\* What is assumed of the constants.
DialerAssumption ==
  /\ IsFiniteSet(IPv4 \union IPv6) /\ IsFiniteSet(Tags) /\ (IPv4 \union IPv6) \intersect Tags = {}
  /\ FirstLines \subseteq Tags /\ None \notin IPv4 \union IPv6 \union Tags

VARIABLES preference, failover,                                          \* the configuration
          lines, alive, steady,                                          \* the pool
          pc, todo, capacity, resultCh, left, firstConn, firstErr, ctx,  \* the dial
          dial, conn                                                     \* its goroutines, their connections
config == <<preference, failover>>
pool == <<lines, alive, steady>>
caller == <<pc, todo, capacity, resultCh, left, firstConn, firstErr, ctx>>
vars == <<config, pool, caller, dial, conn>>

Resolved == IPv4 \union IPv6
Targets == Resolved \union Tags

Init ==
  /\ preference \in {"IPv4Only", "IPv6Only", "PreferIPv4", "PreferIPv6", "DualStack"} /\ failover \in BOOLEAN
  /\ lines = FirstLines /\ alive = [t \in Tags |-> TRUE] /\ steady = TRUE
  /\ pc = "start" /\ todo = <<>> /\ capacity = 0 /\ resultCh = <<>> /\ left = 0
  /\ firstConn = None /\ firstErr = FALSE /\ ctx = "live"
  /\ dial = [d \in Targets |-> "none"] /\ conn = [d \in Targets |-> "none"]

-----------------------------------------------------------------------------
\* Lines change: it matters until the dial has counted them.
Unsettle == steady' = (steady /\ pc \in {"collect", "returned"})

AddAddress(t) ==
  /\ t \notin lines
  /\ lines' = lines \union {t} /\ alive' = [alive EXCEPT ![t] = TRUE]
  /\ Unsettle /\ UNCHANGED <<config, caller, dial, conn>>

RemoveAddress(t) ==
  /\ t \in lines
  /\ lines' = lines \ {t}
  /\ Unsettle /\ UNCHANGED <<config, alive, caller, dial, conn>>

\* A probe finds the line dead, or alive again.
ProbeAddr(t) ==
  /\ t \in lines
  /\ alive' = [alive EXCEPT ![t] = ~@]
  /\ IF alive'[t] THEN UNCHANGED steady ELSE Unsettle
  /\ UNCHANGED <<config, lines, caller, dial, conn>>

-----------------------------------------------------------------------------
\* The families that a preference has dialled one after the other: the second if
\* the first has no addresses, or has failed and failover is set.
InTurn(first, second) == IF first = {} THEN <<second>> ELSE IF failover THEN <<first, second>> ELSE <<first>>

Families ==
  CASE preference = "IPv4Only" -> <<IPv4>>
    [] preference = "IPv6Only" -> <<IPv6>>
    [] preference = "PreferIPv4" -> InTurn(IPv4, IPv6)
    [] preference = "PreferIPv6" -> InTurn(IPv6, IPv4)
    [] preference = "DualStack" -> <<>>

\* DialIPContext with a preference
Prefer ==
  /\ pc = "start" /\ preference # "DualStack"
  /\ todo' = Families /\ pc' = "first"
  /\ UNCHANGED <<config, pool, capacity, resultCh, left, firstConn, firstErr, ctx, dial, conn>>

\* dialFirst: an address answers ...
TryConnects(d) ==
  /\ pc = "first" /\ todo # <<>> /\ d \in Head(todo) /\ ctx = "live"
  /\ firstConn' = d /\ conn' = [conn EXCEPT ![d] = "open"] /\ dial' = [dial EXCEPT ![d] = "done"]
  /\ pc' = "returned"
  /\ UNCHANGED <<config, pool, todo, capacity, resultCh, left, firstErr, ctx>>

\* ... or refuses, and the next is tried
TryRefused(d) ==
  /\ pc = "first" /\ todo # <<>> /\ d \in Head(todo)
  /\ todo' = [todo EXCEPT ![1] = @ \ {d}] /\ dial' = [dial EXCEPT ![d] = "done"]
  /\ UNCHANGED <<config, pool, pc, capacity, resultCh, left, firstConn, firstErr, ctx, conn>>

\* dialFirst returns an error: no address was there, or none answered
FamilyFails ==
  /\ pc = "first" /\ todo # <<>> /\ Head(todo) = {}
  /\ todo' = Tail(todo) /\ firstErr' = TRUE
  /\ pc' = IF Len(todo) = 1 THEN "returned" ELSE "first"
  /\ UNCHANGED <<config, pool, capacity, resultCh, left, firstConn, ctx, dial, conn>>

-----------------------------------------------------------------------------
\* Mutant: a channel with room for one result.
Open_OneResult ==
  /\ pc = "start" /\ preference = "DualStack"
  /\ capacity' = 1
  /\ IF Resolved = {} /\ lines = {}
     THEN pc' = "returned" /\ firstErr' = TRUE /\ UNCHANGED dial
     ELSE /\ pc' = "launch" /\ UNCHANGED firstErr
          /\ dial' = [d \in Targets |-> IF d \in Resolved THEN "dialing" ELSE dial[d]]
  /\ UNCHANGED <<config, pool, todo, resultCh, left, firstConn, ctx, conn>>

\* dialParallel: the channel, sized without the lock, and the Resolved addresses
Open ==
  /\ pc = "start" /\ preference = "DualStack"
  /\ capacity' = Cardinality(Resolved) + Cardinality(lines)
  /\ IF Resolved = {} /\ lines = {}
     THEN pc' = "returned" /\ firstErr' = TRUE /\ UNCHANGED dial
     ELSE /\ pc' = "launch" /\ UNCHANGED firstErr
          /\ dial' = [d \in Targets |-> IF d \in Resolved THEN "dialing" ELSE dial[d]]
  /\ UNCHANGED <<config, pool, todo, resultCh, left, firstConn, ctx, conn>>

\* dialParallel: the lines that are alive, under the read lock
Launch ==
  /\ pc = "launch"
  /\ pc' = "count"
  /\ dial' = [d \in Targets |-> IF d \in lines /\ alive[d] THEN "dialing" ELSE dial[d]]
  /\ UNCHANGED <<config, pool, todo, capacity, resultCh, left, firstConn, firstErr, ctx, conn>>

\* dialParallel: how many results to wait for, under the read lock again
Count ==
  /\ pc = "count"
  /\ left' = Cardinality(Resolved) + Cardinality(lines)
  /\ pc' = "collect"
  /\ UNCHANGED <<config, pool, todo, capacity, resultCh, firstConn, firstErr, ctx, dial, conn>>

\* DialContext returns; a context that is done does not undo a connection
Connect(d) ==
  /\ dial[d] = "dialing"
  /\ dial' = [dial EXCEPT ![d] = "send"] /\ conn' = [conn EXCEPT ![d] = "open"]
  /\ UNCHANGED <<config, pool, caller>>

Refuse(d) ==
  /\ dial[d] = "dialing"
  /\ dial' = [dial EXCEPT ![d] = "send"]
  /\ UNCHANGED <<config, pool, caller, conn>>

\* resultCh <- dialResult
Send(d) ==
  /\ dial[d] = "send" /\ Len(resultCh) < capacity
  /\ resultCh' = Append(resultCh, d)
  /\ dial' = [dial EXCEPT ![d] = "done"]
  /\ UNCHANGED <<config, pool, pc, todo, capacity, left, firstConn, firstErr, ctx, conn>>

\* cancel, which says nothing to a context that has ended
Cancel == IF ctx = "live" THEN "cancelled" ELSE ctx

\* Mutant: the later connection replaces the first, which is closed.
Receive_Replaces ==
  /\ pc = "collect" /\ left > 0 /\ resultCh # <<>>
  /\ resultCh' = Tail(resultCh) /\ left' = left - 1
  /\ LET d == Head(resultCh)
     IN IF conn[d] = "open"
        THEN /\ firstConn' = (IF firstConn = None THEN d ELSE firstConn) /\ ctx' = Cancel
             /\ conn' = [c \in Targets |-> IF c = firstConn THEN "closed" ELSE conn[c]]
             /\ UNCHANGED firstErr
        ELSE firstErr' = TRUE /\ UNCHANGED <<firstConn, ctx, conn>>
  /\ UNCHANGED <<config, pool, pc, todo, capacity, dial>>

\* the select: a result.  The first connection is kept and ends the other dials.
Receive ==
  /\ pc = "collect" /\ left > 0 /\ resultCh # <<>>
  /\ resultCh' = Tail(resultCh) /\ left' = left - 1
  /\ LET d == Head(resultCh)
     IN CASE conn[d] = "open" /\ firstConn = None ->
               firstConn' = d /\ ctx' = Cancel /\ UNCHANGED <<firstErr, conn>>
          [] conn[d] = "open" /\ firstConn # None ->
               conn' = [conn EXCEPT ![d] = "closed"] /\ UNCHANGED <<firstConn, firstErr, ctx>>
          [] OTHER -> firstErr' = TRUE /\ UNCHANGED <<firstConn, ctx, conn>>
  /\ UNCHANGED <<config, pool, pc, todo, capacity, dial>>

\* the select: the context; or all the results are in.  The context ends with the call.
Return ==
  /\ pc = "collect" /\ (left = 0 \/ ctx # "live")
  /\ pc' = "returned" /\ ctx' = Cancel
  /\ UNCHANGED <<config, pool, todo, capacity, resultCh, left, firstConn, firstErr, dial, conn>>

GiveUp ==
  /\ ctx = "live"
  /\ ctx' = "givenUp"
  /\ UNCHANGED <<config, pool, pc, todo, capacity, resultCh, left, firstConn, firstErr, dial, conn>>

DialStep(d) == Connect(d) \/ Refuse(d) \/ Send(d)
CallerStep ==
  \/ Open \/ Launch \/ Count \/ Receive \/ Return
  \/ Prefer \/ FamilyFails \/ \E d \in Resolved : TryConnects(d) \/ TryRefused(d)

Next ==
  \/ \E t \in Tags : AddAddress(t) \/ RemoveAddress(t) \/ ProbeAddr(t)
  \/ CallerStep \/ GiveUp \/ \E d \in Targets : DialStep(d)

Spec == Init /\ [][Next]_vars

\* Goroutines that can move do; every dial comes to an end (the system's limits).
Fairness == WF_vars(CallerStep) /\ \A d \in Targets : WF_vars(DialStep(d))

-----------------------------------------------------------------------------
\* The addresses that a call may use, and those that have been found to refuse.
Usable == IF preference = "DualStack" THEN Resolved ELSE UNION {Families[i] : i \in DOMAIN Families}
Refused == {d \in Targets : dial[d] = "done" /\ conn[d] = "none"}

\* A dial that the caller does not give up returns a connection that is open, or
\* an error when every address has refused that the preference and failover let it
\* use, whatever connects after the first; if the lines do not change under it.  If
\* they do, it still returns one of the two when there was an address to dial: with
\* none, and the last line removed before the count, it returns neither.
ConnOrError == (pc = "returned" /\ ctx # "givenUp") =>
  IF firstConn # None THEN conn[firstConn] = "open"
  ELSE (steady \/ Resolved # {} => firstErr) /\ (steady => Usable \subseteq Refused)

\* A dial returns, even if every address refuses: as many results come as were
\* counted, unless the lines changed.  And no dialling goroutine is left with a
\* result that nobody takes, also after the first connection or when the caller
\* has given up.
DialReturns ==
  <>[](steady => pc \in {"start", "returned"} /\ \A d \in Targets : dial[d] # "send")
=============================================================================
