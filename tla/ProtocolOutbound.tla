-------------------------- MODULE ProtocolOutbound --------------------------
(***************************************************************************)
(* proxy/vless/vless.go, proxy/trojan/trojan.go and proxy/vmess/vmess.go:  *)
(* Process of an outbound handler, between a link and a peer.              *)
(*                                                                         *)
(* Process dials, sets a deadline for everything it does with the          *)
(* connection, writes its request, with VLESS waits for two bytes of an    *)
(* answer, and then copies in both directions until one of the copying     *)
(* goroutines reports or the context is done.  On its way out it clears    *)
(* the deadline and then closes the connection.  The peer is any program:  *)
(* it sends and reads something, and ends its half of the connection, when *)
(* it likes, and what is written to it then is taken or refused.  So is    *)
(* the other end of the link, which when it ends takes nothing any more.   *)
(* Reads and writes of the connection have the deadline, those of the link *)
(* have none.                                                              *)
(*                                                                         *)
(* Over a WebSocket the connection is made of a TCP connection (tcp); over *)
(* QUIC it behaves as over TCP.                                            *)
(* Over gRPC, which only VLESS offers, Read keeps the lock of the          *)
(* connection while it waits, and so does Write; Close wants it too        *)
(* (GRPCConn).  reading says that down is in Read; up is "lock" when it    *)
(* has something to write and "writing" once it is in Write.               *)
(* A VMess body that is sealed cannot be opened: whatever comes ends the   *)
(* copying (with AES; ChaCha20, for which no cipher is made, is left out). *)
(***************************************************************************)
EXTENDS Integers

VARIABLES protocol, network, sealed,          \* the handler
          pc, tcp, handshook, deadline, ctx,  \* Process and its connection
          copy, errCh, reading,               \* its goroutines
          peer, inbound, link                 \* the peer, what it has sent, the other end of the link
handler == <<protocol, network, sealed>>
environment == <<peer, inbound, link, ctx>>
vars == <<handler, pc, tcp, handshook, deadline, copy, errCh, reading, environment>>

Directions == {"up", "down"}

Init ==
  /\ \/ protocol = "vless" /\ network \in {"tcp", "websocket", "grpc"} /\ sealed = FALSE
     \/ protocol = "trojan" /\ network \in {"tcp", "websocket"} /\ sealed = FALSE
     \/ protocol = "vmess" /\ network \in {"tcp", "websocket"} /\ sealed \in BOOLEAN
  /\ pc = "dial" /\ tcp = "none" /\ handshook = FALSE /\ deadline = "none" /\ ctx = "live"
  /\ copy = [d \in Directions |-> "none"] /\ errCh = 0 /\ reading = FALSE
  /\ peer = "open" /\ inbound = 0 /\ link = "open"

\* What makes a read or a write of the connection fail.
Broken == tcp = "closed" \/ deadline = "passed"

\* The lock of a gRPC connection; there is none otherwise.
LockFree == network = "grpc" => ~reading /\ copy["up"] # "writing"

-----------------------------------------------------------------------------
DialFails ==
  /\ pc = "dial"
  /\ pc' = "returned"
  /\ UNCHANGED <<handler, tcp, handshook, deadline, copy, errCh, reading, environment>>

Dial ==
  /\ pc = "dial"
  /\ tcp' = "open"
  /\ IF network = "websocket"
     THEN pc' = "handshake" /\ UNCHANGED <<handshook, deadline>>
     ELSE pc' = "request" /\ handshook' = TRUE /\ deadline' = "armed"
  /\ UNCHANGED <<handler, copy, errCh, reading, environment>>

\* Mutant: no deadline.
HandshakeDone_NoDeadline ==
  /\ pc = "handshake"
  /\ pc' = "request" /\ handshook' = TRUE
  /\ UNCHANGED <<deadline, handler, tcp, copy, errCh, reading, environment>>

\* NewWebSocketConn succeeds ...
HandshakeDone ==
  /\ pc = "handshake"
  /\ pc' = "request" /\ handshook' = TRUE /\ deadline' = "armed"
  /\ UNCHANGED <<handler, tcp, copy, errCh, reading, environment>>

\* ... or fails.  The library closes the connection if it got as far as using it;
\* Trojan and VMess close it too, VLESS does not
HandshakeFails ==
  /\ pc = "handshake"
  /\ pc' = "returned"
  /\ tcp' \in IF protocol = "vless" THEN {tcp, "closed"} ELSE {"closed"}
  /\ UNCHANGED <<handler, handshook, deadline, copy, errCh, reading, environment>>

WriteRequest ==
  /\ pc = "request" /\ ~Broken
  /\ pc' = IF protocol = "vless" THEN "response" ELSE "start"
  /\ UNCHANGED <<handler, tcp, handshook, deadline, copy, errCh, reading, environment>>

WriteRequestFails ==
  /\ pc = "request" /\ (Broken \/ peer = "ended")
  /\ pc' = "clear"
  /\ UNCHANGED <<handler, tcp, handshook, deadline, copy, errCh, reading, environment>>

\* VLESS: io.ReadFull of the answer, whose error nobody looks at; the context is not
\* looked at either
ReadResponse ==
  /\ pc = "response" /\ (inbound > 0 \/ peer = "ended" \/ Broken)
  /\ inbound' = IF inbound > 0 THEN inbound - 1 ELSE 0
  /\ pc' = "start"
  /\ UNCHANGED <<handler, tcp, handshook, deadline, copy, errCh, reading, peer, link, ctx>>

\* the two goroutines
StartCopies ==
  /\ pc = "start"
  /\ copy' = [d \in Directions |-> "copying"]
  /\ pc' = "select"
  /\ UNCHANGED <<handler, tcp, handshook, deadline, errCh, reading, environment>>

-----------------------------------------------------------------------------
\* down: a Read begins; over gRPC it takes the lock
BeginRead ==
  /\ copy["down"] = "copying" /\ ~reading /\ LockFree
  /\ reading' = TRUE
  /\ UNCHANGED <<handler, pc, tcp, handshook, deadline, copy, errCh, environment>>

\* down: something is read, and to be written to the link; a sealed body is an error
CopyDown ==
  /\ reading /\ inbound > 0 /\ ~Broken
  /\ inbound' = inbound - 1 /\ reading' = FALSE
  /\ copy' = [copy EXCEPT !["down"] = IF sealed THEN "report" ELSE "writing"]
  /\ UNCHANGED <<handler, pc, tcp, handshook, deadline, errCh, peer, link, ctx>>

\* down: the peer has ended, the deadline has passed, or the connection is closed
CopyDownEnds ==
  /\ reading /\ ((peer = "ended" /\ inbound = 0) \/ Broken)
  /\ copy' = [copy EXCEPT !["down"] = "report"] /\ reading' = FALSE
  /\ UNCHANGED <<handler, pc, tcp, handshook, deadline, errCh, environment>>

\* down: the link takes what is written, when it reads ...
WriteDown ==
  /\ copy["down"] = "writing" /\ link = "open"
  /\ copy' = [copy EXCEPT !["down"] = "copying"]
  /\ UNCHANGED <<handler, pc, tcp, handshook, deadline, errCh, reading, environment>>

\* ... and nothing any more at its end
WriteDownFails ==
  /\ copy["down"] = "writing" /\ link = "ended"
  /\ copy' = [copy EXCEPT !["down"] = "report"]
  /\ UNCHANGED <<handler, pc, tcp, handshook, deadline, errCh, reading, environment>>

\* up: the link is at its end
CopyUpEnds ==
  /\ copy["up"] = "copying" /\ link = "ended"
  /\ copy' = [copy EXCEPT !["up"] = "report"]
  /\ UNCHANGED <<handler, pc, tcp, handshook, deadline, errCh, reading, environment>>

\* up: something came from the link
CopyUp ==
  /\ copy["up"] = "copying" /\ link = "open"
  /\ copy' = [copy EXCEPT !["up"] = "lock"]
  /\ UNCHANGED <<handler, pc, tcp, handshook, deadline, errCh, reading, environment>>

\* up: Write begins; over gRPC it takes the lock
BeginWrite ==
  /\ copy["up"] = "lock" /\ LockFree
  /\ copy' = [copy EXCEPT !["up"] = "writing"]
  /\ UNCHANGED <<handler, pc, tcp, handshook, deadline, errCh, reading, environment>>

\* up: the peer takes what is written, when it reads ...
WriteUp ==
  /\ copy["up"] = "writing" /\ ~Broken
  /\ copy' = [copy EXCEPT !["up"] = "copying"]
  /\ UNCHANGED <<handler, pc, tcp, handshook, deadline, errCh, reading, environment>>

\* ... or it cannot be written
WriteUpFails ==
  /\ copy["up"] = "writing" /\ (Broken \/ peer = "ended")
  /\ copy' = [copy EXCEPT !["up"] = "report"]
  /\ UNCHANGED <<handler, pc, tcp, handshook, deadline, errCh, reading, environment>>

\* errCh has room for both
Report(d) ==
  /\ copy[d] = "report" /\ errCh < 2
  /\ errCh' = errCh + 1 /\ copy' = [copy EXCEPT ![d] = "done"]
  /\ UNCHANGED <<handler, pc, tcp, handshook, deadline, reading, environment>>

SelectError ==
  /\ pc = "select" /\ errCh > 0
  /\ errCh' = errCh - 1 /\ pc' = "clear"
  /\ UNCHANGED <<handler, tcp, handshook, deadline, copy, reading, environment>>

SelectContext ==
  /\ pc = "select" /\ ctx = "done"
  /\ pc' = "clear"
  /\ UNCHANGED <<handler, tcp, handshook, deadline, copy, errCh, reading, environment>>

\* the deferred calls: the deadline first ...
ClearDeadline ==
  /\ pc = "clear"
  /\ deadline' = "none" /\ pc' = "close"
  /\ UNCHANGED <<handler, tcp, handshook, copy, errCh, reading, environment>>

\* ... and then Close
Close ==
  /\ pc = "close" /\ LockFree
  /\ tcp' = "closed" /\ pc' = "returned"
  /\ UNCHANGED <<handler, handshook, deadline, copy, errCh, reading, environment>>

-----------------------------------------------------------------------------
DeadlinePasses ==
  /\ deadline = "armed"
  /\ deadline' = "passed"
  /\ UNCHANGED <<handler, pc, tcp, handshook, copy, errCh, reading, environment>>

PeerSends ==
  /\ peer = "open" /\ inbound < 2
  /\ inbound' = inbound + 1
  /\ UNCHANGED <<handler, pc, tcp, handshook, deadline, copy, errCh, reading, peer, link, ctx>>

PeerEnds ==
  /\ peer = "open"
  /\ peer' = "ended"
  /\ UNCHANGED <<handler, pc, tcp, handshook, deadline, copy, errCh, reading, inbound, link, ctx>>

LinkEnds ==
  /\ link = "open"
  /\ link' = "ended"
  /\ UNCHANGED <<handler, pc, tcp, handshook, deadline, copy, errCh, reading, peer, inbound, ctx>>

Cancel ==
  /\ ctx = "live"
  /\ ctx' = "done"
  /\ UNCHANGED <<handler, pc, tcp, handshook, deadline, copy, errCh, reading, peer, inbound, link>>

ProcessStep ==
  \/ DialFails \/ Dial \/ HandshakeDone \/ HandshakeFails \/ WriteRequest \/ WriteRequestFails \/ ReadResponse
  \/ StartCopies \/ SelectError \/ SelectContext \/ ClearDeadline \/ Close
CopyDownStep == BeginRead \/ CopyDown \/ CopyDownEnds \/ WriteDownFails
CopyUpStep == CopyUpEnds \/ BeginWrite \/ (Broken /\ WriteUpFails)

Next ==
  \/ ProcessStep \/ CopyDownStep \/ CopyUpStep
  \/ CopyUp \/ WriteUp \/ WriteUpFails \/ WriteDown \/ \E d \in Directions : Report(d)
  \/ DeadlinePasses \/ PeerSends \/ PeerEnds \/ LinkEnds \/ Cancel

Spec == Init /\ [][Next]_vars

\* Goroutines that can move do, whoever waits for a lock gets it if it keeps being
\* released, and time passes.  The peer and the link need not send, read nor end,
\* and the context need not end.
Fairness ==
  /\ WF_vars(ProcessStep) /\ SF_vars(Close) /\ WF_vars(CopyDownStep) /\ WF_vars(CopyUpStep)
  /\ \A d \in Directions : WF_vars(Report(d))
  /\ WF_vars(DeadlinePasses)

-----------------------------------------------------------------------------
\* Over gRPC, with the deadline cleared, Close waits for a Read that waits for the
\* peer, or for a Write that the peer does not take.
WaitsInClose ==
  /\ network = "grpc" /\ pc = "close"
  /\ (reading /\ peer = "open" /\ inbound = 0) \/ copy["up"] = "writing"

\* One goroutine is in a Write that the link does not take, the other in a Read to
\* which the link gives nothing: no deadline ends either of them.
HeldByLink ==
  /\ pc = "select" /\ ctx = "live" /\ link = "open"
  /\ copy["down"] = "writing" /\ copy["up"] = "copying"

\* Once its deadline has passed, Process returns whatever the peer does, except that
\* a link that neither reads, sends nor ends can hold it up until the context is done,
\* and the peer can over gRPC, by its silence.
ProcessReturns == <>[](pc = "returned" \/ WaitsInClose \/ HeldByLink)

\* Once Process has returned, both goroutines end with the link.
NothingLeft == (pc = "returned" /\ link = "ended") ~> (\A d \in Directions : copy[d] \in {"none", "done"})

\* Neither goroutine has to wait when it reports.
ReportsFit == \A d \in Directions : copy[d] = "report" => errCh < 2

\* The connection is closed on return, except the TCP connection of a WebSocket
\* handshake that VLESS saw fail.
ClosedOnReturn == pc = "returned" => tcp # "open" \/ (protocol = "vless" /\ ~handshook)
=============================================================================
