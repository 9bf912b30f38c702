---------------------------- MODULE ProxyManager ----------------------------
(***************************************************************************)
(* proxy/proxy.go: the proxy manager, with its registration by Core.       *)
(*                                                                         *)
(* Start walks over the configured inbounds and starts one goroutine for   *)
(* each, which registers its handler, listens, and then accepts in a loop; *)
(* an inbound whose protocol is unknown makes Start return in the middle.  *)
(* An accepted connection takes a slot of the inbound's semaphore or is    *)
(* closed; its own goroutine runs the handler, which dispatches it to an   *)
(* outbound, and then gives the slot back.  Accept blocks until there is a *)
(* connection, whatever happens to the context.                            *)
(*                                                                         *)
(* On a DCCP stream the handler dispatches a transport it has just made    *)
(* and that is connected to nothing.  An outbound that reads from it       *)
(* before dispatchRequest closes it reads from a nil connection, and the   *)
(* panic ends the program (panicked).                                      *)
(*                                                                         *)
(* A member of Configs has a sequence of inbounds, records of a tag, a     *)
(* port, a protocol and whether the stream settings name DCCP; a sequence  *)
(* of outbounds, records of a tag and a protocol; and the outbound tags of *)
(* the routing rules.  Clients connect to a port once each.                *)
(***************************************************************************)
EXTENDS Integers, Sequences, FiniteSets, FiniteSetsExt, SequencesExt

CONSTANTS Configs, MaxInbounds, Conns, Ports, MaxConns, Free, Other, Nowhere

ASSUME ProxyAssumption ==
  /\ MaxConns \in Nat \ {0} /\ MaxInbounds \in Nat
  /\ \A c \in Configs : /\ DOMAIN c.inbounds \subseteq 1..MaxInbounds
                        /\ \A i \in DOMAIN c.inbounds : c.inbounds[i].port \in Ports

VARIABLES config, loop, result, cancelled, panicked, inbounds, lpc, bound, sem, conn, at
manager == <<config, loop, result, cancelled, panicked>>
vars == <<manager, inbounds, lpc, bound, sem, conn, at>>

Index == 1..MaxInbounds
Inbounds == config.inbounds
Configured == DOMAIN Inbounds
Tags == {Inbounds[i].tag : i \in Configured}

-----------------------------------------------------------------------------
\* Process of the inbound handlers: these protocols make a transport of their own
\* when the stream is DCCP, which is not connected to anything, and hand that on
\* instead of the connection.
Wrapping == {"dccp", "vmess", "vless", "trojan", "shadowsocks"}
Wraps(i) == Inbounds[i].protocol \in Wrapping /\ Inbounds[i].dccp

\* ... and these hand on the connection whatever the stream is.
PassingOn == {"socks", "http", "dokodemo-door", "loopback"}

\* registerAllProtocols: the inbounds for which there is a factory
InboundProtocols == Wrapping \union PassingOn

\* GetInboundFactory
HasFactory(i) == Inbounds[i].protocol \in InboundProtocols

\* registerDefaultOutbounds: the tags under which handlers are found.  The
\* handlers made for these four protocols are empty and have the empty tag.
HandlerTag(outbound) ==
  IF outbound.protocol \in {"vmess", "vless", "trojan", "shadowsocks"} THEN "" ELSE outbound.tag

RegisteredOutbounds ==
  {"direct", "freedom", "blackhole", "dns"} \union {HandlerTag(config.outbounds[k]) : k \in DOMAIN config.outbounds}

\* Process of the outbounds: whose handler is found under a tag, and does it
\* read from the connection?  A later outbound replaces an earlier one, and all
\* replace the default handlers, which are named for what they are.
Protocol(tag) ==
  LET own == {k \in DOMAIN config.outbounds : HandlerTag(config.outbounds[k]) = tag}
  IN IF own = {} THEN tag ELSE config.outbounds[Max(own)].protocol

Reads(tag) == Protocol(tag) \in {"freedom", "blackhole", "dns", "dccp"}

\* ... and does it go on copying between the connection and another one?  All others
\* return at once.
Relays(tag) == Protocol(tag) \in {"dns", "dccp"}

\* dispatchRequest: the first rule that names an outbound, else the first
\* outbound, else "direct"
DispatchTag ==
  LET naming == SelectSeq(config.rules, LAMBDA tag : tag # "")
  IN IF naming # <<>> THEN naming[1]
     ELSE IF config.outbounds # <<>> THEN config.outbounds[1].tag ELSE "direct"

-----------------------------------------------------------------------------
\* Another program may hold a port from the start.
Init ==
  /\ config \in Configs
  /\ loop = 1 /\ result = "none"
  /\ cancelled = FALSE /\ panicked = FALSE
  /\ inbounds = [t \in Tags |-> Nowhere]
  /\ lpc = [i \in Index |-> "off"]
  /\ bound \in [Ports -> {Free, Other}]
  /\ sem = [i \in Index |-> 0]
  /\ conn = [c \in Conns |-> "idle"]
  /\ at = [c \in Conns |-> Nowhere]

\* Start, one round of its loop: create the handler, start the goroutine
StartInbound ==
  /\ result = "none" /\ loop \in Configured
  /\ IF HasFactory(loop)
     THEN /\ lpc' = [lpc EXCEPT ![loop] = "register"]
          /\ loop' = loop + 1
          /\ UNCHANGED result
     ELSE result' = "ErrUnsupportedProxy" /\ UNCHANGED <<loop, lpc>>
  /\ UNCHANGED <<config, cancelled, panicked, inbounds, bound, sem, conn, at>>

StartReturn ==
  /\ result = "none" /\ loop \notin Configured
  /\ result' = "nil"
  /\ UNCHANGED <<config, loop, cancelled, panicked, inbounds, lpc, bound, sem, conn, at>>

\* Close: cancels the context and nothing else
Close ==
  /\ result # "none" /\ ~cancelled
  /\ cancelled' = TRUE
  /\ UNCHANGED <<config, loop, result, panicked, inbounds, lpc, bound, sem, conn, at>>

-----------------------------------------------------------------------------
Port(i) == Inbounds[i].port

\* startInbound: RegisterInbound, before it is known whether it can listen
Register(i) ==
  /\ lpc[i] = "register"
  /\ inbounds' = [inbounds EXCEPT ![Inbounds[i].tag] = i]
  /\ lpc' = [lpc EXCEPT ![i] = "listen"]
  /\ UNCHANGED <<manager, bound, sem, conn, at>>

\* startInbound: net.ListenTCP; on an error just return
Listen(i) ==
  /\ lpc[i] = "listen"
  /\ IF bound[Port(i)] = Free
     THEN bound' = [bound EXCEPT ![Port(i)] = i] /\ lpc' = [lpc EXCEPT ![i] = "check"]
     ELSE lpc' = [lpc EXCEPT ![i] = "exited"] /\ UNCHANGED bound
  /\ UNCHANGED <<manager, inbounds, sem, conn, at>>

\* Connections that wait to be accepted are reset when the listener closes.
ResetBacklog(i) ==
  conn' = [c \in Conns |-> IF conn[c] = "queued" /\ at[c] = i THEN "closed" ELSE conn[c]]

\* startInbound: look at the context; if it is done, return and close
CheckContext(i) ==
  /\ lpc[i] = "check"
  /\ IF cancelled
     THEN /\ lpc' = [lpc EXCEPT ![i] = "exited"]
          /\ bound' = [bound EXCEPT ![Port(i)] = Free]
          /\ ResetBacklog(i)
     ELSE /\ lpc' = [lpc EXCEPT ![i] = "accept"]
          /\ UNCHANGED <<bound, conn>>
  /\ UNCHANGED <<manager, inbounds, sem, at>>

\* startInbound: Accept returns a connection
Accept(i, c) ==
  /\ lpc[i] = "accept"
  /\ conn[c] = "queued" /\ at[c] = i
  /\ lpc' = [lpc EXCEPT ![i] = "accepted"]
  /\ conn' = [conn EXCEPT ![c] = "accepted"]
  /\ UNCHANGED <<manager, inbounds, bound, sem, at>>

\* startInbound: Accept fails, continue
AcceptError(i) ==
  /\ lpc[i] = "accept"
  /\ lpc' = [lpc EXCEPT ![i] = "check"]
  /\ UNCHANGED <<manager, inbounds, bound, sem, conn, at>>

\* Mutant: off by one at the limit.
Admit_OneMore(i, c) ==
  /\ conn[c] = "accepted" /\ at[c] = i
  /\ IF sem[i] <= MaxConns
     THEN sem' = [sem EXCEPT ![i] = @ + 1] /\ conn' = [conn EXCEPT ![c] = "serving"]
     ELSE conn' = [conn EXCEPT ![c] = "closed"] /\ UNCHANGED sem
  /\ lpc' = [lpc EXCEPT ![i] = "check"]
  /\ UNCHANGED <<manager, inbounds, bound, at>>

\* Mutant: a connection beyond the limit is left open.
Admit_NoClose(i, c) ==
  /\ conn[c] = "accepted" /\ at[c] = i
  /\ IF sem[i] < MaxConns
     THEN sem' = [sem EXCEPT ![i] = @ + 1] /\ conn' = [conn EXCEPT ![c] = "serving"]
     ELSE conn' = [conn EXCEPT ![c] = "abandoned"] /\ UNCHANGED sem
  /\ lpc' = [lpc EXCEPT ![i] = "check"]
  /\ UNCHANGED <<manager, inbounds, bound, at>>

\* startInbound: take a slot and start a goroutine, or close the connection
Admit(i, c) ==
  /\ conn[c] = "accepted" /\ at[c] = i
  /\ IF sem[i] < MaxConns
     THEN sem' = [sem EXCEPT ![i] = @ + 1] /\ conn' = [conn EXCEPT ![c] = "serving"]
     ELSE conn' = [conn EXCEPT ![c] = "closed"] /\ UNCHANGED sem
  /\ lpc' = [lpc EXCEPT ![i] = "check"]
  /\ UNCHANGED <<manager, inbounds, bound, at>>

-----------------------------------------------------------------------------
\* dispatchRequest: find the outbound; without one the connection is closed
Dispatch(c) ==
  /\ conn[c] = "serving"
  /\ conn' = [conn EXCEPT ![c] = IF DispatchTag \in RegisteredOutbounds THEN "relayed" ELSE "dropped"]
  /\ UNCHANGED <<manager, inbounds, lpc, bound, sem, at>>

\* DCCPTransport.Read of a transport that was never dialled nor closed yet
ReadUnconnected(c) ==
  /\ conn[c] = "relayed" /\ Wraps(at[c]) /\ Reads(DispatchTag)
  /\ panicked' = TRUE
  /\ UNCHANGED <<config, loop, result, cancelled, inbounds, lpc, bound, sem, conn, at>>

\* An outbound that relays cannot dial, or one of its directions comes to an end
\* (Relay.tla): when the client or the other side says so.
RelayEnds(c) ==
  /\ conn[c] = "relayed" /\ Relays(DispatchTag)
  /\ conn' = [conn EXCEPT ![c] = "ended"]
  /\ UNCHANGED <<manager, inbounds, lpc, bound, sem, at>>

\* The outbound returns, by itself or because the context is done:
\* dispatchRequest closes the connection it was given and the goroutine gives the
\* slot back.  A handler on a DCCP transport gave it that transport, not the
\* connection.
Finish(c) ==
  /\ \/ conn[c] \in {"dropped", "ended"}
     \/ conn[c] = "relayed" /\ (cancelled \/ ~Relays(DispatchTag))
  /\ conn' = [conn EXCEPT ![c] = IF Wraps(at[c]) THEN "abandoned" ELSE "closed"]
  /\ sem' = [sem EXCEPT ![at[c]] = @ - 1]
  /\ UNCHANGED <<manager, inbounds, lpc, bound, at>>

\* A connection nobody refers to any more is closed by its finalizer.
Collect(c) ==
  /\ conn[c] = "abandoned"
  /\ conn' = [conn EXCEPT ![c] = "closed"]
  /\ UNCHANGED <<manager, inbounds, lpc, bound, sem, at>>

\* A client connects to a port that an inbound listens on.
Connect(c, i) ==
  /\ conn[c] = "idle" /\ i \in Configured /\ bound[Port(i)] = i
  /\ conn' = [conn EXCEPT ![c] = "queued"]
  /\ at' = [at EXCEPT ![c] = i]
  /\ UNCHANGED <<manager, inbounds, lpc, bound, sem>>

InboundStep(i) ==
  \/ Register(i) \/ Listen(i) \/ CheckContext(i)
  \/ \E c \in Conns : Accept(i, c) \/ Admit(i, c)

ConnStep(c) == Dispatch(c) \/ Finish(c)

Next ==
  /\ ~panicked
  /\ \/ StartInbound \/ StartReturn \/ Close
     \/ \E i \in Index : InboundStep(i) \/ AcceptError(i) \/ \E c \in Conns : Connect(c, i)
     \/ \E c \in Conns : ConnStep(c) \/ RelayEnds(c) \/ ReadUnconnected(c) \/ Collect(c)

Spec == Init /\ [][Next]_vars

\* Start runs to its end; the goroutine of an inbound moves whenever it can, and
\* that of a connection too.  Clients are not obliged to connect, a relay need not
\* end, Accept need not fail, and nothing is said of the finalizers.
Fairness ==
  /\ WF_vars(~panicked /\ (StartInbound \/ StartReturn))
  /\ \A i \in Index : WF_vars(~panicked /\ InboundStep(i))
  /\ \A c \in Conns : WF_vars(~panicked /\ ConnStep(c))
FairSpec == Spec /\ Fairness

-----------------------------------------------------------------------------
\* Type invariant of the proxy manager.
TypeOK ==
  /\ config \in Configs /\ loop \in Nat /\ result \in {"none", "nil", "ErrUnsupportedProxy"}
  /\ cancelled \in BOOLEAN /\ panicked \in BOOLEAN
  /\ lpc \in [Index -> {"off", "register", "listen", "check", "accept", "accepted", "exited"}]
  /\ inbounds \in [Tags -> Index \union {Nowhere}]
  /\ bound \in [Ports -> Index \union {Free, Other}]
  /\ sem \in [Index -> 0..MaxConns]
  /\ conn \in [Conns -> {"idle", "queued", "accepted", "serving", "relayed", "ended", "dropped",
                         "abandoned", "closed"}]
  /\ at \in [Conns -> Index \union {Nowhere}]

\* Connections of the inbound that have a goroutine, and those that were accepted
\* and are not closed, without the one that is about to be admitted or closed.
InService(i) == {c \in Conns : at[c] = i /\ conn[c] \in {"serving", "relayed", "ended", "dropped"}}
Open(i) == InService(i) \union {c \in Conns : at[c] = i /\ conn[c] = "abandoned"}

\* proxy.go: "MaxConnsPerInbound limits concurrent connections per inbound".
\* Every connection in service holds one slot of its inbound and gives it back
\* at its end, with or without an outbound and across Close, and besides them
\* none that was accepted stays open.  On an inbound over DCCP, whose handler
\* forgets the connection, the last does not hold.
OneSlotEach == \A i \in Configured :
  /\ sem[i] = Cardinality(InService(i)) /\ sem[i] <= MaxConns
  /\ ~Wraps(i) => Open(i) = InService(i)

\* What makes OneSlotEach inductive: goroutines and connections belong to inbounds
\* of the configuration, the semaphore counts the finitely many connections in
\* service, and only a handler on a DCCP transport leaves one open.
Placed ==
  /\ \A i \in Index : lpc[i] # "off" => i \in Configured
  /\ \A c \in Conns : conn[c] # "idle" => at[c] \in Configured
SlotsCounted == \A i \in Index : IsFiniteSet(InService(i)) /\ sem[i] = Cardinality(InService(i))
AbandonedWrapped == \A c \in Conns : conn[c] = "abandoned" => Wraps(at[c])
ProxyInv == TypeOK /\ Placed /\ SlotsCounted /\ AbandonedWrapped

\* Every connection of a plain inbound that is accepted is closed in the end,
\* served or rejected at the limit (or the program has ended), unless its outbound
\* relays and neither the relay nor the context comes to an end: a relay has no
\* timeout.  In particular Close ends them all.
ConnectionsEnd ==
  \A c \in Conns :
    (conn[c] \notin {"idle", "queued"} /\ ~Wraps(at[c])) ~>
      \/ conn[c] = "closed" \/ panicked
      \/ conn[c] = "relayed" /\ Relays(DispatchTag) /\ ~cancelled

\* After Close one connection more makes an inbound leave its loop and give up
\* its port, although Close does not wake it.
NextConnectionEnds ==
  \A i \in Index, c \in Conns : (cancelled /\ conn[c] = "queued" /\ at[c] = i) ~> (lpc[i] = "exited" \/ panicked)

\* proxy/README.md lists DCCP among the inbounds: a connection that arrives at
\* one does not end the program.  It may: the handler hands on a transport that
\* nobody connects.
KeepsRunning == ~panicked
=============================================================================
