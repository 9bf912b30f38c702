------------------------------- MODULE XHTTP --------------------------------
(***************************************************************************)
(* transport/xhttp.go: one XHTTPConnection with its read loop, and the     *)
(* XHTTPConnWrapper around it that the program reads, writes and closes.   *)
(*                                                                         *)
(* Three goroutines use the wrapper, one for each of its calls; its lock,  *)
(* wmu, is held for the whole of a call.  A stream's lock is held by the   *)
(* reader from its check to its wait ("gap"); elsewhere it guards single   *)
(* steps.  The peer sends frames and may close its end, in any order: a    *)
(* data frame is a pair of stream and number.  Writes do not block.        *)
(*                                                                         *)
(* arrived is history: what the read loop took for each stream.  MaxFrames *)
(* and MaxCalls bound the frames and the calls of each kind, AcceptCap is  *)
(* the capacity of acceptCh (16 in the code).                              *)
(***************************************************************************)
EXTENDS Integers, Sequences

CONSTANTS Streams, MaxFrames, MaxCalls, AcceptCap

VARIABLES inbox, frames, peerOpen,                                     \* the peer
          closed, cancelled, connOpen, streams, acceptCh, loop, frame, \* the connection
          readBuf, sclosed, arrived,                                   \* its streams
          wmu, stream, reader, writer, closer, reads, writes, got      \* the wrapper
peer == <<inbox, frames, peerOpen>>
connection == <<closed, cancelled, connOpen, streams, acceptCh, loop, frame>>
buffers == <<readBuf, sclosed, arrived>>
wrapper == <<wmu, stream, reader, writer, closer, reads, writes, got>>
vars == <<peer, connection, buffers, wrapper>>

None == 0
StreamFrames == [type : {"Data", "Close"}, id : Streams, n : 1..MaxFrames]
Frames == StreamFrames \union [type : {"Ping", "GoAway"}, id : {0}, n : 1..MaxFrames]

\* The wrapper that Dial and Accept make: its stream comes with its first call.
NewWrapper ==
  /\ wmu = "free" /\ stream = None /\ reader = "idle" /\ writer = "idle" /\ closer = "idle"
  /\ reads = 0 /\ writes = 0 /\ got = <<>>

\* NewXHTTPConnection, by Dial or Accept
Init ==
  /\ inbox = <<>> /\ frames = 0 /\ peerOpen = TRUE
  /\ closed = FALSE /\ cancelled = FALSE /\ connOpen = TRUE
  /\ streams = {} /\ acceptCh = <<>> /\ loop = "check" /\ frame = None
  /\ readBuf = [s \in Streams |-> <<>>] /\ sclosed = [s \in Streams |-> FALSE] /\ arrived = [s \in Streams |-> <<>>]
  /\ NewWrapper

PeerSend ==
  /\ peerOpen /\ frames < MaxFrames
  /\ \E f \in Frames : f.n = frames + 1 /\ inbox' = Append(inbox, f)
  /\ frames' = frames + 1
  /\ UNCHANGED <<peerOpen, connection, buffers, wrapper>>

PeerClose ==
  /\ peerOpen
  /\ peerOpen' = FALSE
  /\ UNCHANGED <<inbox, frames, connection, buffers, wrapper>>

-----------------------------------------------------------------------------
\* readLoop: the test of closed at the head of the loop
LoopCheck ==
  /\ loop = "check"
  /\ loop' = IF closed THEN "defer" ELSE "read"
  /\ UNCHANGED <<peer, closed, cancelled, connOpen, streams, acceptCh, frame, buffers, wrapper>>

\* readLoop: a frame
LoopRead ==
  /\ loop = "read" /\ inbox # <<>>
  /\ inbox' = Tail(inbox) /\ frame' = Head(inbox)
  /\ loop' = CASE Head(inbox).type = "Data" -> "lookUp"
               [] Head(inbox).type = "Close" -> "handleClose"
               [] Head(inbox).type = "GoAway" -> "defer"
               [] Head(inbox).type = "Ping" -> "check"
  /\ UNCHANGED <<frames, peerOpen, closed, cancelled, connOpen, streams, acceptCh, buffers, wrapper>>

\* readLoop: the end of the connection
LoopReadFails ==
  /\ loop = "read" /\ inbox = <<>> /\ ~peerOpen
  /\ loop' = "defer"
  /\ UNCHANGED <<peer, closed, cancelled, connOpen, streams, acceptCh, frame, buffers, wrapper>>

\* handleData: an unknown stream is made if its number is even; one that acceptCh
\* has no room for stays in the map
HandleData ==
  /\ loop = "lookUp"
  /\ LET known == frame.id \in streams
         make == ~known /\ frame.id % 2 = 0
     IN /\ streams' = IF make THEN streams \union {frame.id} ELSE streams
        /\ acceptCh' = IF make /\ Len(acceptCh) < AcceptCap THEN Append(acceptCh, frame.id) ELSE acceptCh
        /\ loop' = IF known \/ make THEN "deliver" ELSE "check"
  /\ UNCHANGED <<peer, closed, cancelled, connOpen, frame, buffers, wrapper>>

\* Signal wakes the reader if it waits for this stream
Signal(s) == reader' = IF reader = "waiting" /\ stream = s THEN "check" ELSE reader

\* Mutant: only the first data of a stream is signalled.
Deliver_SignalsFirst ==
  /\ loop = "deliver" /\ ~(reader = "gap" /\ stream = frame.id)
  /\ readBuf' = [readBuf EXCEPT ![frame.id] = Append(@, frame.n)]
  /\ arrived' = [arrived EXCEPT ![frame.id] = Append(@, frame.n)]
  /\ IF arrived[frame.id] = <<>> THEN Signal(frame.id) ELSE UNCHANGED reader
  /\ loop' = "check"
  /\ UNCHANGED <<peer, closed, cancelled, connOpen, streams, acceptCh, frame, sclosed, wmu, stream, writer, closer, reads, writes, got>>

\* handleData: into the buffer, under the stream's lock
Deliver ==
  /\ loop = "deliver" /\ ~(reader = "gap" /\ stream = frame.id)
  /\ readBuf' = [readBuf EXCEPT ![frame.id] = Append(@, frame.n)]
  /\ arrived' = [arrived EXCEPT ![frame.id] = Append(@, frame.n)]
  /\ Signal(frame.id)
  /\ loop' = "check"
  /\ UNCHANGED <<peer, closed, cancelled, connOpen, streams, acceptCh, frame, sclosed, wmu, stream, writer, closer, reads, writes, got>>

\* handleClose and handleReset, without the stream's lock: a reader in the gap
\* misses the signal
HandleClose ==
  /\ loop = "handleClose"
  /\ IF frame.id \in streams
     THEN sclosed' = [sclosed EXCEPT ![frame.id] = TRUE] /\ Signal(frame.id)
     ELSE UNCHANGED <<sclosed, reader>>
  /\ loop' = "check"
  /\ UNCHANGED <<peer, closed, cancelled, connOpen, streams, acceptCh, frame, readBuf, arrived,
                 wmu, stream, writer, closer, reads, writes, got>>

\* readLoop's deferred calls: Close, then wg.Done.  A Close that is the first one
\* waits for the wait group that it is counted in.
LoopDefer ==
  /\ loop = "defer"
  /\ closed' = TRUE /\ cancelled' = (cancelled \/ ~closed)
  /\ loop' = IF closed THEN "done" ELSE "waitsForItself"
  /\ UNCHANGED <<peer, connOpen, streams, acceptCh, frame, buffers, wrapper>>

-----------------------------------------------------------------------------
\* XHTTPConnWrapper.Read
Read ==
  /\ reader = "idle" /\ wmu = "free" /\ reads < MaxCalls
  /\ wmu' = "reader" /\ reads' = reads + 1
  /\ reader' = IF stream = None THEN "accept" ELSE "check"
  /\ UNCHANGED <<peer, connection, buffers, stream, writer, closer, writes, got>>

\* AcceptStream
AcceptStream ==
  /\ reader = "accept" /\ acceptCh # <<>>
  /\ stream' = Head(acceptCh) /\ acceptCh' = Tail(acceptCh) /\ reader' = "check"
  /\ UNCHANGED <<peer, closed, cancelled, connOpen, streams, loop, frame, buffers, wmu, writer, closer, reads, writes, got>>

AcceptFails ==
  /\ reader = "accept" /\ cancelled
  /\ reader' = "idle" /\ wmu' = "free"
  /\ UNCHANGED <<peer, connection, buffers, stream, writer, closer, reads, writes, got>>

\* XHTTPStream.Read, at the head of its loop: one number, or EOF
ReadCheck ==
  /\ reader = "check"
  /\ IF readBuf[stream] = <<>> /\ ~sclosed[stream]
     THEN reader' = "gap" /\ UNCHANGED <<readBuf, got, wmu>>
     ELSE /\ reader' = "idle" /\ wmu' = "free"
          /\ LET n == IF readBuf[stream] = <<>> THEN 0 ELSE 1
             IN /\ got' = got \o SubSeq(readBuf[stream], 1, n)
                /\ readBuf' = [readBuf EXCEPT ![stream] = SubSeq(@, n + 1, Len(@))]
  /\ UNCHANGED <<peer, connection, sclosed, arrived, stream, writer, closer, reads, writes>>

\* cond.Wait
Wait ==
  /\ reader = "gap"
  /\ reader' = "waiting"
  /\ UNCHANGED <<peer, connection, buffers, wmu, stream, writer, closer, reads, writes, got>>

\* OpenStream: the first number of its own; a wrapper opens no other
OpenStream ==
  /\ ~closed
  /\ stream' = 1 /\ streams' = streams \union {1}

\* XHTTPConnWrapper.Write takes the lock and, if it has none yet, opens a stream;
\* it returns at once when that fails
Write ==
  /\ writer = "idle" /\ wmu = "free" /\ writes < MaxCalls
  /\ writes' = writes + 1
  /\ IF stream = None /\ closed
     THEN UNCHANGED <<wmu, writer, stream, streams>>
     ELSE /\ wmu' = "writer" /\ writer' = "write"
          /\ IF stream = None THEN OpenStream ELSE UNCHANGED <<stream, streams>>
  /\ UNCHANGED <<peer, closed, cancelled, connOpen, acceptCh, loop, frame, buffers, reader, closer, reads, got>>

\* XHTTPStream.Write: a frame, or an error when stream or connection are closed
WriteFrame ==
  /\ writer = "write"
  /\ writer' = "idle" /\ wmu' = "free"
  /\ UNCHANGED <<peer, connection, buffers, stream, reader, closer, reads, writes, got>>

\* XHTTPConnWrapper.Close
Close ==
  /\ closer = "idle"
  /\ closer' = "called"
  /\ UNCHANGED <<peer, connection, buffers, wmu, stream, reader, writer, reads, writes, got>>

\* XHTTPStream.Close, which wakes nobody
StreamClose == sclosed' = [sclosed EXCEPT ![stream] = TRUE]

\* ... takes the lock and closes its stream, if it has one
CloseStream ==
  /\ closer = "called" /\ wmu = "free"
  /\ wmu' = "closer" /\ closer' = "swap"
  /\ IF stream = None THEN UNCHANGED sclosed ELSE StreamClose
  /\ UNCHANGED <<peer, connection, readBuf, arrived, stream, reader, writer, reads, writes, got>>

\* Mutant: a Close that is not the first waits too.
CloseSwap_AlwaysWaits ==
  /\ closer = "swap"
  /\ closed' = TRUE /\ cancelled' = TRUE
  /\ closer' = "wait" /\ UNCHANGED wmu
  /\ UNCHANGED <<peer, connOpen, streams, acceptCh, loop, frame, buffers, stream, reader, writer, reads, writes, got>>

\* XHTTPConnection.Close: the first one cancels and waits for the read loop
CloseSwap ==
  /\ closer = "swap"
  /\ closed' = TRUE /\ cancelled' = (cancelled \/ ~closed)
  /\ IF closed THEN closer' = "returned" /\ wmu' = "free" ELSE closer' = "wait" /\ UNCHANGED wmu
  /\ UNCHANGED <<peer, connOpen, streams, acceptCh, loop, frame, buffers, stream, reader, writer, reads, writes, got>>

\* ... and closes the network connection
CloseConn ==
  /\ closer = "wait" /\ loop = "done"
  /\ connOpen' = FALSE /\ closer' = "returned" /\ wmu' = "free"
  /\ UNCHANGED <<peer, closed, cancelled, streams, acceptCh, loop, frame, buffers, stream, reader, writer, reads, writes, got>>

LoopStep ==
  \/ LoopCheck \/ LoopRead \/ LoopReadFails \/ HandleData \/ Deliver \/ HandleClose \/ LoopDefer
ReaderStep == AcceptStream \/ AcceptFails \/ ReadCheck \/ Wait
CloserStep == CloseStream \/ CloseSwap \/ CloseConn

Next == PeerSend \/ PeerClose \/ LoopStep \/ Read \/ ReaderStep \/ Write \/ WriteFrame \/ Close \/ CloserStep

\* Goroutines that can move do; nobody has to call, and the peer owes nothing.
Fairness == WF_vars(LoopStep) /\ WF_vars(ReaderStep) /\ WF_vars(WriteFrame) /\ WF_vars(CloserStep)

-----------------------------------------------------------------------------
\* A reader never waits while its stream has data: every frame, the one that made
\* the stream too, wakes the reader that came first.
NoLostWakeup == reader = "waiting" => readBuf[stream] = <<>>

\* Close returns once the peer has gone, although the read loop may be closing the
\* connection itself, unless a Read waits for data: it keeps the wrapper's lock,
\* and nobody wakes it.
CloseReturns == (closer = "called" /\ ~peerOpen) ~> (closer = "returned" \/ reader = "waiting")
=============================================================================
