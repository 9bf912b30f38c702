------------------------------ MODULE MCProxy -------------------------------
(***************************************************************************)
(* The life of proxied connections for TLC: the manager with its listeners *)
(* and slots; one request inside the Process of a relaying outbound, which *)
(* the manager sees as the span from Dispatch to Finish; one request of a  *)
(* VLESS, Trojan or VMess outbound; and the exchange of a VLESS outbound   *)
(* with a VLESS inbound.  A behaviour is one of a single part, chosen at   *)
(* the start, and each liveness property assumes the fairness of its part. *)
(***************************************************************************)
EXTENDS ProxyManager

Inbound(tag, port, protocol, dccp) == [tag |-> tag, port |-> port, protocol |-> protocol, dccp |-> dccp]

Freedom == <<[tag |-> "out", protocol |-> "freedom"]>>

\* two inbounds on DCCP streams that want the same port, of which only the second
\* makes a transport of its own, with rules of
\* which the first names no outbound and the second one that nobody registered
SharedPort == [inbounds |-> <<Inbound("a", 1, "socks", TRUE), Inbound("a", 1, "vless", TRUE)>>,
               outbounds |-> Freedom, rules |-> <<"", "gone">>]

\* a plain inbound before one whose protocol no factory knows, and an outbound that
\* relays
Unsupported == [inbounds |-> <<Inbound("a", 1, "http", FALSE), Inbound("b", 2, "wireguard", FALSE)>>,
                outbounds |-> <<[tag |-> "out", protocol |-> "dns"]>>, rules |-> <<>>]

\* an inbound on a DCCP transport, as in the default configuration
OverDCCP == [inbounds |-> <<Inbound("dccp-in", 1, "dccp", TRUE)>>,
             outbounds |-> <<[tag |-> "direct", protocol |-> "freedom"]>>, rules |-> <<>>]

MCConfigs == {SharedPort, Unsupported, OverDCCP}
DefaultConfigs == {OverDCCP}

VARIABLE part
-----------------------------------------------------------------------------
VARIABLES pc, copy, errCh, rcancelled, open, ended
Request == INSTANCE Relay WITH cancelled <- rcancelled
request == <<pc, copy, errCh, rcancelled, open, ended>>

VARIABLES protocol, network, sealed, opc, tcp, handshook, deadline, ctx, ocopy, oerrCh, reading, peer, inbound, link
Outbound == INSTANCE ProtocolOutbound WITH pc <- opc, copy <- ocopy, errCh <- oerrCh
outboundVars == <<protocol, network, sealed, opc, tcp, handshook, deadline, ctx, ocopy, oerrCh, reading, peer, inbound, link>>

\* Domains that end before, at and after the byte taken for the command.
VARIABLES kind, hostLen, out, outDeadline, closed, in, inDeadline, fields, vrequest, answered
Exchange == INSTANCE VLESSExchange WITH HostLens <- {3, 12, 13, 20}, request <- vrequest
exchangeVars == <<kind, hostLen, out, outDeadline, closed, in, inDeadline, fields, vrequest, answered>>
-----------------------------------------------------------------------------
allVars == <<part, vars, request, outboundVars, exchangeVars>>

\* The parts that do not run start in one state.
MCInit ==
  /\ part \in {"manager", "request", "outbound", "exchange"}
  /\ Init /\ (part = "manager" \/ (config = OverDCCP /\ \A p \in Ports : bound[p] = Free))
  /\ Request!Init
  /\ Outbound!Init /\ (part = "outbound" \/ (protocol = "trojan" /\ network = "tcp"))
  /\ Exchange!Init /\ (part = "exchange" \/ (kind = "IPv4" /\ hostLen = 3))
MCNext ==
  /\ UNCHANGED part
  /\ \/ part = "manager" /\ Next /\ UNCHANGED <<request, outboundVars, exchangeVars>>
     \/ part = "request" /\ Request!Next /\ UNCHANGED <<vars, outboundVars, exchangeVars>>
     \/ part = "outbound" /\ Outbound!Next /\ UNCHANGED <<vars, request, exchangeVars>>
     \/ part = "exchange" /\ Exchange!Next /\ UNCHANGED <<vars, request, outboundVars>>

MCSpec == MCInit /\ [][MCNext]_allVars

\* ProxyManager: every connection that a plain inbound accepts is closed in the
\* end, unless its relay goes on, and after Close one connection more ends an
\* inbound.
ManagerLetsGo == part = "manager" /\ Fairness => ConnectionsEnd /\ NextConnectionEnds

\* Relay and ProtocolOutbound: no goroutine and no connection outlives a request.
NoneLeftBehind ==
  /\ part = "request" /\ Request!Fairness => Request!NoneLeftBehind
  /\ part = "outbound" /\ Outbound!Fairness => Outbound!NothingLeft

\* Relay and ProtocolOutbound: whichever goroutine ends first, and whether Process takes
\* an error or the context, neither waits for room to report its own; and Process leaves
\* no connection open.
NothingHeld ==
  /\ Request!ReportsFit /\ (pc = "returned" => ~open["in"] /\ ~open["out"])
  /\ Outbound!ReportsFit /\ Outbound!ClosedOnReturn

\* Relay: a request ends when the context does, and with either side unless a Write to
\* the other one is not taken.  ProtocolOutbound: it ends with its deadline, unless the
\* link holds it up, or the peer over gRPC.  VLESSExchange: it ends with its deadline.
RequestEnds ==
  /\ part = "request" /\ Request!Fairness => Request!RequestEnds
  /\ part = "outbound" /\ Outbound!Fairness => Outbound!ProcessReturns
  /\ part = "exchange" /\ Exchange!Fairness => Exchange!BothReturn
=============================================================================
