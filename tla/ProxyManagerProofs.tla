------------------------- MODULE ProxyManagerProofs -------------------------
(***************************************************************************)
(* Proofs about ProxyManager, for any configurations, any number of        *)
(* clients, inbounds and ports and any limit; and about one request inside *)
(* Process of an outbound, which Relay and ProtocolOutbound model.         *)
(***************************************************************************)
EXTENDS MCProxy, FiniteSetTheorems, TLAPS

\* The inbounds of a configuration are among those that have a goroutine.
LEMMA ConfiguredIndex == TypeOK => Configured \subseteq Index
BY ProxyAssumption DEF TypeOK, Configured, Inbounds, Index

\* The initial states satisfy the invariant.
LEMMA ProxyInvInit == Init => ProxyInv
<1> SUFFICES ASSUME Init PROVE ProxyInv
  OBVIOUS
<1>1. TypeOK
  <2>1. cancelled \in BOOLEAN /\ panicked \in BOOLEAN
    BY Zenon DEF Init
  <2>2. inbounds \in [Tags -> Index \union {Nowhere}] /\ lpc \in [Index -> {"off"}]
    BY DEF Init
  <2>3. bound \in [Ports -> Index \union {Free, Other}] /\ sem \in [Index -> 0..MaxConns]
    BY ProxyAssumption DEF Init
  <2>4. conn \in [Conns -> {"idle"}] /\ at \in [Conns -> Index \union {Nowhere}]
    BY DEF Init
  <2> QED
    BY <2>1, <2>2, <2>3, <2>4 DEF Init, TypeOK
<1>2. Placed /\ AbandonedWrapped
  BY DEF Init, Placed, AbandonedWrapped
<1>3. \A i \in Index : InService(i) = {} /\ sem[i] = 0
  BY DEF Init, InService
<1>4. SlotsCounted
  BY <1>3, FS_EmptySet DEF SlotsCounted
<1> QED
  BY <1>1, <1>2, <1>4 DEF ProxyInv

\* A step that leaves alone who is in service where leaves the slots alone.
LEMMA SlotsKept ==
  ASSUME SlotsCounted, sem' = sem, \A i \in Index : InService(i)' = InService(i)
  PROVE  SlotsCounted'
BY DEF SlotsCounted

\* Types: the semaphore stays within its limit because it counts connections.
LEMMA ProxyTypeStep == ProxyInv /\ [Next]_vars => TypeOK'
<1> SUFFICES ASSUME ProxyInv, [Next]_vars PROVE TypeOK'
  OBVIOUS
<1>0. TypeOK /\ Placed /\ SlotsCounted /\ Configured \subseteq Index
  BY ConfiguredIndex DEF ProxyInv
<1> USE DEF TypeOK
<1>1. CASE StartInbound
  BY <1>0, <1>1 DEF StartInbound, Tags, Configured, Inbounds
<1>2. CASE StartReturn \/ Close
  <2>1. cancelled' \in BOOLEAN
    BY <1>0, <1>2, Zenon DEF StartReturn, Close
  <2>2. result' \in {"none", "nil", "ErrUnsupportedProxy"}
    BY <1>0, <1>2 DEF StartReturn, Close
  <2>3. UNCHANGED <<config, loop, panicked, inbounds, lpc, bound, sem, conn, at>>
    BY <1>2 DEF StartReturn, Close
  <2> QED
    BY <1>0, <2>1, <2>2, <2>3 DEF Tags, Configured, Inbounds
<1>3. ASSUME NEW i \in Index, Register(i) PROVE TypeOK'
  <2>1. i \in Configured
    BY <1>0, <1>3 DEF Register, Placed
  <2> QED
    BY <1>0, <1>3, <2>1 DEF Register, manager, Tags, Configured, Inbounds
<1>4. ASSUME NEW i \in Index, Listen(i) PROVE TypeOK'
  BY <1>0, <1>4 DEF Listen, manager, Tags, Configured, Inbounds
<1>5. ASSUME NEW i \in Index, CheckContext(i) PROVE TypeOK'
  BY <1>0, <1>5 DEF CheckContext, ResetBacklog, manager, Tags, Configured, Inbounds
<1>6. ASSUME NEW i \in Index, NEW c \in Conns, Accept(i, c) PROVE TypeOK'
  BY <1>0, <1>6 DEF Accept, manager, Tags, Configured, Inbounds
<1>7. ASSUME NEW i \in Index, NEW c \in Conns, Admit(i, c) PROVE TypeOK'
  BY <1>0, <1>7, ProxyAssumption DEF Admit, manager, Tags, Configured, Inbounds
<1>8. ASSUME NEW i \in Index, AcceptError(i) PROVE TypeOK'
  BY <1>0, <1>8 DEF AcceptError, manager, Tags, Configured, Inbounds
<1>9. ASSUME NEW i \in Index, NEW c \in Conns, Connect(c, i) PROVE TypeOK'
  BY <1>0, <1>9 DEF Connect, manager, Tags, Configured, Inbounds
<1>10. ASSUME NEW c \in Conns, Dispatch(c) \/ RelayEnds(c) \/ Collect(c) \/ ReadUnconnected(c)
       PROVE  TypeOK'
  <2>1. panicked' \in BOOLEAN
    BY <1>0, <1>10, Zenon DEF Dispatch, RelayEnds, Collect, ReadUnconnected, manager
  <2>2. conn' \in [Conns -> {"idle", "queued", "accepted", "serving", "relayed", "ended", "dropped",
                            "abandoned", "closed"}]
    BY <1>0, <1>10 DEF Dispatch, RelayEnds, Collect, ReadUnconnected
  <2>3. UNCHANGED <<config, loop, result, cancelled, inbounds, lpc, bound, sem, at>>
    BY <1>10 DEF Dispatch, RelayEnds, Collect, ReadUnconnected, manager
  <2> QED
    BY <1>0, <2>1, <2>2, <2>3 DEF Tags, Configured, Inbounds
<1>11. ASSUME NEW c \in Conns, Finish(c) PROVE TypeOK'
  <2>1. at[c] \in Index /\ c \in InService(at[c])
    BY <1>0, <1>11 DEF Finish, Placed, InService
  <2>2. sem[at[c]] # 0
    BY <1>0, <2>1, FS_EmptySet DEF SlotsCounted
  <2>3. sem' \in [Index -> 0..MaxConns]
    BY <1>0, <1>11, <2>1, <2>2, ProxyAssumption DEF Finish
  <2> QED
    BY <1>0, <1>11, <2>3 DEF Finish, manager, Tags, Configured, Inbounds
<1>12. CASE UNCHANGED vars
  BY <1>0, <1>12 DEF vars, manager, Tags, Configured, Inbounds
<1> QED
  BY <1>1, <1>2, <1>3, <1>4, <1>5, <1>6, <1>7, <1>8, <1>9, <1>10, <1>11, <1>12
  DEF Next, InboundStep, ConnStep

\* No connection and no goroutine belongs to an inbound that is not configured.
LEMMA PlacedStep == ProxyInv /\ [Next]_vars => Placed' /\ AbandonedWrapped'
<1> SUFFICES ASSUME ProxyInv, [Next]_vars PROVE Placed' /\ AbandonedWrapped'
  OBVIOUS
<1>0. TypeOK /\ Placed /\ AbandonedWrapped /\ Configured \subseteq Index
  BY ConfiguredIndex DEF ProxyInv
<1>00. config' = config
  BY DEF Next, InboundStep, ConnStep, StartInbound, StartReturn, Close, Register, Listen, CheckContext,
         Accept, Admit, AcceptError, Connect, Dispatch, RelayEnds, Collect, ReadUnconnected, Finish, manager, vars
<1> USE <1>0, <1>00 DEF TypeOK, Placed, AbandonedWrapped, Configured, Inbounds, Wraps, manager
<1>1. CASE StartInbound
  BY <1>1 DEF StartInbound
<1>2. CASE StartReturn \/ Close
  BY <1>2 DEF StartReturn, Close
<1>3. ASSUME NEW i \in Index, Register(i) \/ Listen(i) PROVE Placed' /\ AbandonedWrapped'
  BY <1>3 DEF Register, Listen
<1>4. ASSUME NEW i \in Index, CheckContext(i) PROVE Placed' /\ AbandonedWrapped'
  BY <1>4 DEF CheckContext, ResetBacklog
<1>5. ASSUME NEW i \in Index, NEW c \in Conns, Accept(i, c) PROVE Placed' /\ AbandonedWrapped'
  BY <1>5 DEF Accept
<1>6. ASSUME NEW i \in Index, NEW c \in Conns, Admit(i, c) PROVE Placed' /\ AbandonedWrapped'
  BY <1>6 DEF Admit
<1>7. ASSUME NEW i \in Index, AcceptError(i) PROVE Placed' /\ AbandonedWrapped'
  BY <1>7 DEF AcceptError
<1>8. ASSUME NEW i \in Index, NEW c \in Conns, Connect(c, i) PROVE Placed' /\ AbandonedWrapped'
  BY <1>8 DEF Connect
<1>9. ASSUME NEW c \in Conns, Dispatch(c) \/ RelayEnds(c) \/ Collect(c) \/ ReadUnconnected(c)
      PROVE  Placed' /\ AbandonedWrapped'
  BY <1>9 DEF Dispatch, RelayEnds, Collect, ReadUnconnected
<1>10. ASSUME NEW c \in Conns, Finish(c) PROVE Placed' /\ AbandonedWrapped'
  BY <1>10 DEF Finish
<1>11. CASE UNCHANGED vars
  BY <1>11 DEF vars
<1> QED
  BY <1>1, <1>2, <1>3, <1>4, <1>5, <1>6, <1>7, <1>8, <1>9, <1>10, <1>11 DEF Next, InboundStep, ConnStep

\* Who takes a slot comes into service, and who leaves gives one back.
LEMMA SlotsStep == ProxyInv /\ [Next]_vars => SlotsCounted'
<1> SUFFICES ASSUME ProxyInv, [Next]_vars PROVE SlotsCounted'
  OBVIOUS
<1>0. TypeOK /\ Placed /\ SlotsCounted /\ Configured \subseteq Index
  BY ConfiguredIndex DEF ProxyInv
<1>1. ASSUME sem' = sem, conn' = conn, at' = at PROVE SlotsCounted'
  BY <1>0, <1>1, SlotsKept DEF InService
<1>2. CASE StartInbound \/ StartReturn \/ Close
  BY <1>1, <1>2 DEF StartInbound, StartReturn, Close
<1>3. ASSUME NEW i \in Index, Register(i) \/ Listen(i) \/ AcceptError(i) PROVE SlotsCounted'
  BY <1>1, <1>3 DEF Register, Listen, AcceptError
<1>4. ASSUME NEW i \in Index, CheckContext(i) PROVE SlotsCounted'
  <2>1. \A j \in Index : InService(j)' = InService(j)
    BY <1>0, <1>4 DEF CheckContext, ResetBacklog, InService, TypeOK
  <2> QED
    BY <1>0, <1>4, <2>1, SlotsKept DEF CheckContext
<1>5. ASSUME NEW i \in Index, NEW c \in Conns, Accept(i, c) \/ Connect(c, i) PROVE SlotsCounted'
  <2>1. \A j \in Index : InService(j)' = InService(j)
    BY <1>0, <1>5 DEF Accept, Connect, InService, TypeOK
  <2> QED
    BY <1>0, <1>5, <2>1, SlotsKept DEF Accept, Connect
<1>6. ASSUME NEW i \in Index, NEW c \in Conns, Admit(i, c) PROVE SlotsCounted'
  <2>1. CASE sem[i] < MaxConns
    <3>1. InService(i)' = InService(i) \union {c} /\ c \notin InService(i)
      BY <1>0, <1>6, <2>1 DEF Admit, InService, TypeOK
    <3>2. \A j \in Index \ {i} : InService(j)' = InService(j)
      BY <1>0, <1>6, <2>1 DEF Admit, InService, TypeOK
    <3>3. IsFiniteSet(InService(i)') /\ Cardinality(InService(i)') = sem[i] + 1
      BY <1>0, <3>1, FS_AddElement DEF SlotsCounted
    <3>4. sem' = [sem EXCEPT ![i] = @ + 1]
      BY <1>6, <2>1 DEF Admit
    <3> QED
      BY <1>0, <3>2, <3>3, <3>4 DEF SlotsCounted, TypeOK
  <2>2. CASE ~(sem[i] < MaxConns)
    <3>1. \A j \in Index : InService(j)' = InService(j)
      BY <1>0, <1>6, <2>2 DEF Admit, InService, TypeOK
    <3> QED
      BY <1>0, <1>6, <2>2, <3>1, SlotsKept DEF Admit
  <2> QED
    BY <2>1, <2>2
<1>7. ASSUME NEW c \in Conns, Dispatch(c) \/ RelayEnds(c) \/ Collect(c) PROVE SlotsCounted'
  <2>1. \A j \in Index : InService(j)' = InService(j)
    BY <1>0, <1>7 DEF Dispatch, RelayEnds, Collect, InService, TypeOK
  <2> QED
    BY <1>0, <1>7, <2>1, SlotsKept DEF Dispatch, RelayEnds, Collect
<1>8. ASSUME NEW c \in Conns, ReadUnconnected(c) PROVE SlotsCounted'
  BY <1>1, <1>8 DEF ReadUnconnected
<1>9. ASSUME NEW c \in Conns, Finish(c) PROVE SlotsCounted'
  <2>1. PICK i \in Index : i = at[c] /\ c \in InService(i)
    BY <1>0, <1>9 DEF Finish, Placed, InService
  <2>2. InService(i)' = InService(i) \ {c} /\ \A j \in Index \ {i} : InService(j)' = InService(j)
    BY <1>0, <1>9, <2>1 DEF Finish, InService, TypeOK
  <2>3. IsFiniteSet(InService(i)') /\ Cardinality(InService(i)') = sem[i] - 1
    BY <1>0, <2>1, <2>2, FS_RemoveElement DEF SlotsCounted
  <2>4. sem' = [sem EXCEPT ![i] = @ - 1]
    BY <1>9, <2>1 DEF Finish
  <2> QED
    BY <1>0, <2>2, <2>3, <2>4 DEF SlotsCounted, TypeOK
<1>10. CASE UNCHANGED vars
  BY <1>1, <1>10 DEF vars
<1> QED
  BY <1>2, <1>3, <1>4, <1>5, <1>6, <1>7, <1>8, <1>9, <1>10 DEF Next, InboundStep, ConnStep

\* The inductive invariant of the manager holds in every reachable state.
THEOREM ProxyInvariant == Spec => []ProxyInv
<1>1. ProxyInv /\ [Next]_vars => ProxyInv'
  BY ProxyTypeStep, PlacedStep, SlotsStep DEF ProxyInv
<1> QED
  BY <1>1, ProxyInvInit, PTL DEF Spec

\* The manager's state keeps its type: above all the semaphore of an inbound
\* stays between zero and MaxConnsPerInbound.
THEOREM ProxyTypeCorrect == Spec => []TypeOK
<1>1. ProxyInv => TypeOK
  BY DEF ProxyInv
<1> QED
  BY <1>1, ProxyInvariant, PTL

\* startInbound: however clients, inbounds, outbounds and Close interleave, each
\* connection in service holds one slot, the limit holds, and a plain inbound
\* leaves no accepted connection open besides those in service.
THEOREM SlotsRespected == Spec => []OneSlotEach
<1>1. ProxyInv => OneSlotEach
  <2> SUFFICES ASSUME ProxyInv, NEW i \in Configured
               PROVE  /\ sem[i] = Cardinality(InService(i)) /\ sem[i] <= MaxConns
                      /\ ~Wraps(i) => Open(i) = InService(i)
    BY DEF OneSlotEach
  <2>1. i \in Index
    BY ConfiguredIndex DEF ProxyInv
  <2>2. sem[i] = Cardinality(InService(i)) /\ sem[i] <= MaxConns
    BY <2>1, ProxyAssumption DEF ProxyInv, SlotsCounted, TypeOK
  <2>3. ~Wraps(i) => Open(i) = InService(i)
    BY DEF ProxyInv, AbandonedWrapped, Open
  <2> QED
    BY <2>2, <2>3
<1> QED
  BY <1>1, ProxyInvariant, PTL

-----------------------------------------------------------------------------
(***************************************************************************)
(* Process of the outbounds                                                *)
(***************************************************************************)
CopyStates == {"none", "copying", "lock", "writing", "report", "done"}

\* How many of two goroutines have reported
Reported(c, a, b) == (IF c[a] = "done" THEN 1 ELSE 0) + (IF c[b] = "done" THEN 1 ELSE 0)

\* Relay: there are never more errors in the channel than goroutines that have
\* reported, and none before the goroutines are started.
RelayInv ==
  /\ copy \in [{"in", "out"} -> CopyStates] /\ open \in [{"in", "out"} -> BOOLEAN]
  /\ errCh \in Nat /\ errCh <= Reported(copy, "in", "out")
  /\ pc = "dial" => errCh = 0 /\ ~open["out"] /\ copy["in"] = "none" /\ copy["out"] = "none"
  /\ pc \in {"closeIn", "returned"} => ~open["out"]
  /\ pc = "returned" => ~open["in"]

LEMMA RelayInit == Request!Init => RelayInv
<1> SUFFICES ASSUME Request!Init PROVE RelayInv
  OBVIOUS
<1>1. /\ copy \in [{"in", "out"} -> CopyStates] /\ copy["in"] = "none" /\ copy["out"] = "none"
      /\ open \in [{"in", "out"} -> BOOLEAN] /\ ~open["out"]
  BY DEF Request!Init, CopyStates, Request!Sides
<1> QED
  BY <1>1 DEF Request!Init, RelayInv, Reported

LEMMA RelayStep == RelayInv /\ [Request!Next]_request => RelayInv'
<1> SUFFICES ASSUME RelayInv, [Request!Next]_request PROVE RelayInv'
  OBVIOUS
<1> USE DEF RelayInv, CopyStates, Reported, Request!Sides
<1>1. CASE Request!DialFails
  BY <1>1 DEF Request!DialFails
<1>2. CASE Request!DialSucceeds
  BY <1>2 DEF Request!DialSucceeds
<1>3. ASSUME NEW s \in {"in", "out"},
             \/ Request!CopyReads(s) \/ Request!WriteReturns(s)
             \/ Request!WriteFails(s) \/ Request!CopyEnds(s)
      PROVE  RelayInv'
  BY <1>3 DEF Request!CopyReads, Request!WriteReturns, Request!WriteFails, Request!CopyEnds
<1>4. ASSUME NEW s \in {"in", "out"}, Request!Report(s) PROVE RelayInv'
  <2>1. copy[s] = "report" /\ errCh' = errCh + 1 /\ pc' = pc /\ open' = open
    BY <1>4 DEF Request!Report
  <2>2. copy' = [copy EXCEPT ![s] = "done"]
    BY <1>4 DEF Request!Report
  <2>3. copy' \in [{"in", "out"} -> CopyStates]
    BY <2>2
  <2>4. Reported(copy, "in", "out")' = Reported(copy, "in", "out") + 1
    <3>1. CASE s = "in"
      BY <2>1, <2>2, <3>1
    <3>2. CASE s = "out"
      BY <2>1, <2>2, <3>2
    <3> QED
      BY <3>1, <3>2
  <2>5. Reported(copy, "in", "out") \in Nat
    BY DEF Reported
  <2> QED
    BY <2>1, <2>3, <2>4, <2>5
<1>5. CASE Request!SelectError \/ Request!SelectContext
  BY <1>5 DEF Request!SelectError, Request!SelectContext
<1>6. CASE Request!CloseOut \/ Request!CloseIn
  BY <1>6 DEF Request!CloseOut, Request!CloseIn
<1>7. ASSUME NEW s \in {"in", "out"}, Request!PeerEnds(s) PROVE RelayInv'
  BY <1>7 DEF Request!PeerEnds
<1>8. CASE Request!Cancel
  BY <1>8 DEF Request!Cancel
<1>9. CASE UNCHANGED request
  BY <1>9 DEF request
<1> QED
  BY <1>1, <1>2, <1>3, <1>4, <1>5, <1>6, <1>7, <1>8, <1>9 DEF Request!Next, Request!ProcessStep

\* ProtocolOutbound: the same, and what is open at which point of Process
OutboundInv ==
  /\ ocopy \in [{"up", "down"} -> CopyStates]
  /\ oerrCh \in Nat /\ oerrCh <= Reported(ocopy, "up", "down")
  /\ opc \in {"dial", "handshake", "request", "response", "start"} =>
       oerrCh = 0 /\ ocopy["up"] = "none" /\ ocopy["down"] = "none"
  /\ reading => ocopy["down"] = "copying"
  /\ opc = "dial" => tcp = "none"
  /\ opc \in {"dial", "handshake"} => ~handshook
  /\ Outbound!ClosedOnReturn

LEMMA OutboundInit == Outbound!Init => OutboundInv
<1> SUFFICES ASSUME Outbound!Init PROVE OutboundInv
  OBVIOUS
<1>1. ocopy \in [{"up", "down"} -> CopyStates] /\ ocopy["up"] = "none" /\ ocopy["down"] = "none"
  BY DEF Outbound!Init, CopyStates, Outbound!Directions
<1> QED
  BY <1>1 DEF Outbound!Init, OutboundInv, Reported, Outbound!ClosedOnReturn

LEMMA OutboundStep == OutboundInv /\ [Outbound!Next]_outboundVars => OutboundInv'
<1> SUFFICES ASSUME OutboundInv, [Outbound!Next]_outboundVars PROVE OutboundInv'
  OBVIOUS
<1> USE DEF OutboundInv, CopyStates, Reported, Outbound!Directions, Outbound!ClosedOnReturn,
        Outbound!handler, Outbound!environment
<1>1. CASE Outbound!DialFails \/ Outbound!Dial
  BY <1>1 DEF Outbound!DialFails, Outbound!Dial
<1>2. CASE Outbound!HandshakeDone \/ Outbound!HandshakeFails
  BY <1>2 DEF Outbound!HandshakeDone, Outbound!HandshakeFails
<1>3. CASE Outbound!WriteRequest \/ Outbound!WriteRequestFails \/ Outbound!ReadResponse
  BY <1>3 DEF Outbound!WriteRequest, Outbound!WriteRequestFails, Outbound!ReadResponse
<1>4. CASE Outbound!StartCopies
  BY <1>4 DEF Outbound!StartCopies
<1>5. CASE Outbound!SelectError \/ Outbound!SelectContext
  BY <1>5 DEF Outbound!SelectError, Outbound!SelectContext
<1>6. CASE Outbound!ClearDeadline \/ Outbound!Close
  BY <1>6 DEF Outbound!ClearDeadline, Outbound!Close
<1>7. CASE \/ Outbound!BeginRead \/ Outbound!CopyDown \/ Outbound!CopyDownEnds
           \/ Outbound!WriteDown \/ Outbound!WriteDownFails
  <2>1. CASE Outbound!BeginRead
    BY <2>1 DEF Outbound!BeginRead
  <2>2. CASE Outbound!CopyDown
    BY <2>2 DEF Outbound!CopyDown
  <2>3. CASE Outbound!CopyDownEnds
    BY <2>3 DEF Outbound!CopyDownEnds
  <2>4. CASE Outbound!WriteDown \/ Outbound!WriteDownFails
    BY <2>4 DEF Outbound!WriteDown, Outbound!WriteDownFails
  <2> QED
    BY <1>7, <2>1, <2>2, <2>3, <2>4
<1>8. CASE \/ Outbound!CopyUp \/ Outbound!CopyUpEnds \/ Outbound!BeginWrite
           \/ Outbound!WriteUp \/ Outbound!WriteUpFails
  <2>1. CASE Outbound!CopyUp \/ Outbound!CopyUpEnds
    BY <2>1 DEF Outbound!CopyUp, Outbound!CopyUpEnds
  <2>2. CASE Outbound!BeginWrite \/ Outbound!WriteUp \/ Outbound!WriteUpFails
    BY <2>2 DEF Outbound!BeginWrite, Outbound!WriteUp, Outbound!WriteUpFails
  <2> QED
    BY <1>8, <2>1, <2>2
<1>9. ASSUME NEW d \in {"up", "down"}, Outbound!Report(d) PROVE OutboundInv'
  <2>1. ocopy[d] = "report" /\ oerrCh' = oerrCh + 1 /\ reading' = reading /\ opc' = opc /\ tcp' = tcp /\ handshook' = handshook
    BY <1>9 DEF Outbound!Report
  <2>2. ocopy' = [ocopy EXCEPT ![d] = "done"] /\ protocol' = protocol
    BY <1>9 DEF Outbound!Report
  <2>3. ocopy' \in [{"up", "down"} -> CopyStates]
    BY <2>2
  <2>4. Reported(ocopy, "up", "down")' = Reported(ocopy, "up", "down") + 1
    <3>1. CASE d = "up"
      BY <2>1, <2>2, <3>1
    <3>2. CASE d = "down"
      BY <2>1, <2>2, <3>2
    <3> QED
      BY <3>1, <3>2
  <2>5. Reported(ocopy, "up", "down") \in Nat
    BY DEF Reported
  <2> QED
    BY <2>1, <2>2, <2>3, <2>4, <2>5
<1>10. CASE Outbound!DeadlinePasses \/ Outbound!PeerSends \/ Outbound!PeerEnds \/ Outbound!LinkEnds \/ Outbound!Cancel
  BY <1>10 DEF Outbound!DeadlinePasses, Outbound!PeerSends, Outbound!PeerEnds, Outbound!LinkEnds, Outbound!Cancel
<1>11. CASE UNCHANGED outboundVars
  BY <1>11 DEF outboundVars
<1> QED
  BY <1>1, <1>2, <1>3, <1>4, <1>5, <1>6, <1>7, <1>8, <1>9, <1>10, <1>11
  DEF Outbound!Next, Outbound!ProcessStep, Outbound!CopyDownStep, Outbound!CopyUpStep

\* Process of the DCCP, DNS, VMess, VLESS and Trojan outbounds: a goroutine never waits
\* for room to report, also when Process took the context or the other's error; and no
\* connection is open when Process has returned.
THEOREM OutboundsHoldNothing == MCSpec => []NothingHeld
<1>1. MCInit => RelayInv /\ OutboundInv
  BY RelayInit, OutboundInit DEF MCInit
<1>2. (RelayInv /\ OutboundInv) /\ [MCNext]_allVars => (RelayInv /\ OutboundInv)'
  <2>1. [MCNext]_allVars => [Request!Next]_request /\ [Outbound!Next]_outboundVars
    BY DEF MCNext, allVars
  <2> QED
    BY <2>1, RelayStep, OutboundStep
<1>3. RelayInv /\ OutboundInv => NothingHeld
  <2> SUFFICES ASSUME RelayInv, OutboundInv PROVE NothingHeld
    OBVIOUS
  <2>1. Request!ReportsFit
    BY DEF RelayInv, Reported, Request!ReportsFit, Request!Sides, Request!ErrChCap
  <2>2. Outbound!ReportsFit
    BY DEF OutboundInv, Reported, Outbound!ReportsFit, Outbound!Directions
  <2> QED
    BY <2>1, <2>2 DEF NothingHeld, RelayInv, OutboundInv
<1> QED
  BY <1>1, <1>2, <1>3, PTL DEF MCSpec
=============================================================================
