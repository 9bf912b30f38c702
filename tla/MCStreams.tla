----------------------------- MODULE MCStreams ------------------------------
(***************************************************************************)
(* What carries the bytes of a proxied connection, for TLC: the dual-stack *)
(* dialer and the lines it dials, the connections of gRPC, Shadowsocks,    *)
(* WebSocket and mKCP, the QUIC listener, and the pooled buffers.  They    *)
(* share no state: a behaviour is one of a single part, chosen at the      *)
(* start, and each liveness property assumes the fairness of its part.     *)
(***************************************************************************)
EXTENDS Integers, Sequences

CONSTANTS IPv4, IPv6, DialTags, FirstLines, None,                              \* the dialer
          Callers, Tags, MaxCalls, MaxRounds, NoStats,                         \* the lines
          Writers, Unlocked, MaxWrite, MaxRead,                                \* the connections
          MaxData, GrpcBytes, WireCap, Sizes, Overhead, LenMod, SealedBytes, SocketBytes, MaxEmpty,
          MaxSegment, MSS, KcpBytes,
          q1, q2, s1, s2, s3, Conns, StreamsOf, QueueSize,                     \* the QUIC listener
          AllBuffers, Cap, MaxArrays, BufferBytes                              \* the buffers

\* Two connections, of two streams and one, for a queue of one.
TwoAndOne == [c \in {q1, q2} |-> IF c = q1 THEN {s1, s2} ELSE {s3}]

VARIABLE part
-----------------------------------------------------------------------------
VARIABLES preference, failover, dialLines, alive, steady, dialPc, dialTodo, capacity, resultCh, left,
          firstConn, firstErr, ctx, dial, dialConn
Dialer == INSTANCE DualStackDialer WITH
  Tags <- DialTags, lines <- dialLines, pc <- dialPc, todo <- dialTodo, conn <- dialConn
dialerVars == <<preference, failover, dialLines, alive, steady, dialPc, dialTodo, capacity, resultCh, left,
                firstConn, firstErr, ctx, dial, dialConn>>

VARIABLES lines, addresses, stats, added, call, tag, calls, overlapped, prober, probeTodo, rounds, cancelled
Lines == INSTANCE MultiLine WITH todo <- probeTodo
linesVars == <<lines, addresses, stats, added, call, tag, calls, overlapped, prober, probeTodo, rounds, cancelled>>

VARIABLES gmu, gclosed, gopen, gwire, greadBuf, greader, gwriter, gtodo, gcloser, gwritten, greceived
Grpc == INSTANCE GRPCConn WITH
  MaxBytes <- GrpcBytes, mu <- gmu, closed <- gclosed, open <- gopen, wire <- gwire, readBuf <- greadBuf, reader <- greader,
  writer <- gwriter, todo <- gtodo, closer <- gcloser, written <- gwritten, received <- greceived
grpcVars == <<gmu, gclosed, gopen, gwire, greadBuf, greader, gwriter, gtodo, gcloser, gwritten, greceived>>

VARIABLES method, wmu, swriter, frame, swire, broken, sreader, length, sbuf, swritten, sreceived, overlong
Sealed == INSTANCE Shadowsocks WITH
  MaxBytes <- SealedBytes, Nobody <- Unlocked,
  writer <- swriter, wire <- swire, reader <- sreader, buf <- sbuf, written <- swritten, received <- sreceived
sealedVars == <<method, wmu, swriter, frame, swire, broken, sreader, length, sbuf, swritten, sreceived, overlong>>

VARIABLES mu, writer, message, empty, wire, closed, inMessage, reader, hasReader, written, received
WebSocket == INSTANCE WebSocketConn WITH MaxBytes <- SocketBytes, Nobody <- Unlocked
webSocketVars == <<mu, writer, message, empty, wire, closed, inMessage, reader, hasReader, written, received>>

VARIABLES done, listening, acceptLoop, acceptCh, conn, handler, stream, owner, accept
Quic == INSTANCE QUICListener
quicVars == <<done, listening, acceptLoop, acceptCh, conn, handler, stream, owner, accept>>

VARIABLES kinbox, arrived, kclosed, kdone, readLoop, updateLoop, sndQueue, sndBuf, rcvQueue,
          input, recv, send, kreader, kwriter, kcloser, ktodo, kwritten, kreceived
Kcp == INSTANCE KCPConn WITH
  MaxBytes <- KcpBytes, inbox <- kinbox, closed <- kclosed, done <- kdone, reader <- kreader, writer <- kwriter,
  closer <- kcloser, todo <- ktodo, written <- kwritten, received <- kreceived
kcpVars == <<kinbox, arrived, kclosed, kdone, readLoop, updateLoop, sndQueue, sndBuf, rcvQueue,
             input, recv, send, kreader, kwriter, kcloser, ktodo, kwritten, kreceived>>

VARIABLES arrays, pool, buf, start, end, pooled, data, source, used
Buffers == INSTANCE Buffer WITH Buffers <- AllBuffers, MaxBytes <- BufferBytes
bufferVars == <<arrays, pool, buf, start, end, pooled, data, source, used>>

ASSUME StreamsAssumption ==
  /\ Dialer!DialerAssumption /\ Lines!LinesAssumption /\ Quic!ListenerAssumption
  /\ Buffers!BufferAssumption /\ Grpc!GrpcAssumption /\ WebSocket!SocketAssumption /\ Sealed!SealedAssumption
-----------------------------------------------------------------------------
allVars == <<part, dialerVars, linesVars, grpcVars, sealedVars, webSocketVars, quicVars, kcpVars, bufferVars>>

\* The parts that do not run start in one state; failover is not looked at when
\* both families are dialled.
MCInit ==
  /\ part \in {"dialer", "lines", "gRPC", "shadowsocks", "websocket", "quic", "mkcp", "buffers"}
  /\ Dialer!Init /\ (preference = "DualStack" => ~failover) /\ (part = "dialer" \/ preference = "DualStack")
  /\ Sealed!Init /\ (part = "shadowsocks" \/ method = "aead")
  /\ Lines!Init /\ Grpc!Init /\ WebSocket!Init /\ Quic!Init /\ Kcp!Init /\ Buffers!Init

MCNext ==
  /\ UNCHANGED part
  /\ part # "dialer" => UNCHANGED dialerVars
  /\ part # "lines" => UNCHANGED linesVars
  /\ part # "gRPC" => UNCHANGED grpcVars
  /\ part # "shadowsocks" => UNCHANGED sealedVars
  /\ part # "websocket" => UNCHANGED webSocketVars
  /\ part # "quic" => UNCHANGED quicVars
  /\ part # "mkcp" => UNCHANGED kcpVars
  /\ part # "buffers" => UNCHANGED bufferVars
  /\ \/ part = "dialer" /\ Dialer!Next
     \/ part = "lines" /\ Lines!Next
     \/ part = "gRPC" /\ Grpc!Next
     \/ part = "shadowsocks" /\ Sealed!Next
     \/ part = "websocket" /\ WebSocket!Next
     \/ part = "quic" /\ Quic!Next
     \/ part = "mkcp" /\ Kcp!Next
     \/ part = "buffers" /\ Buffers!Next

MCSpec == MCInit /\ [][MCNext]_allVars

\* DualStackDialer: a dial returns an open connection or an error.
ConnOrError == Dialer!ConnOrError

\* MultiLine: a line is only dead after three failed probes of its own, less those
\* of an earlier line that were under way when it was added.
DeadAfterThree == Lines!DeadAfterThree

\* MultiLine: a line that was added is dialled.
LinesDialled == Lines!LinesDialled

\* QUICListener: no stream is left open with nobody to read it.
NoneForgotten == Quic!NoneForgotten

\* Buffer: a buffer holds what was written to it.
ContentKept == Buffers!ContentKept

\* gRPC, Shadowsocks and WebSocket connections implement ByteStream, Shadowsocks
\* with "none" until a Write is too long for its length.
IsByteStream == Grpc!IsByteStream /\ Sealed!IsByteStream /\ WebSocket!IsByteStream

\* DualStackDialer and MultiLine: a dial returns and leaves no goroutine behind,
\* and Stop ends the probing.
DialReturns ==
  /\ part = "dialer" /\ Dialer!Fairness => Dialer!DialReturns
  /\ part = "lines" /\ Lines!Fairness => Lines!ProbingEnds

\* gRPC, WebSocket, QUIC and mKCP: Close returns and ends the goroutines of what
\* is closed.
ClosesReturn ==
  /\ part = "gRPC" /\ Grpc!Fairness => Grpc!CloseReturns
  /\ part = "websocket" /\ WebSocket!Fairness => WebSocket!CloseReturns
  /\ part = "quic" /\ Quic!Fairness => Quic!CloseReturns
  /\ part = "mkcp" /\ Kcp!Fairness => Kcp!CloseReturns
=============================================================================
