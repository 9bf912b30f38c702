------------------------------ MODULE GRPCConn ------------------------------
(***************************************************************************)
(* transport/grpc.go: two GRPCConn at the ends of a TCP connection, each   *)
(* with a goroutine that reads until it gets an error, as io.Copy does,    *)
(* one that writes until it gets one, and one that may close.              *)
(*                                                                         *)
(* Read, Write and Close take the same lock; a Read that finds no data     *)
(* left over from the last frame keeps it until the next frame is there.   *)
(* A Write cuts its data into frames of at most MaxData bytes; writeBuf    *)
(* has room for the largest of them, so that header and data are always    *)
(* one write to the socket.  A frame is the sequence of its bytes, and the *)
(* bytes of a direction are numbered in the order they are written.  The   *)
(* socket takes WireCap frames that the other end has not read.  MaxBytes  *)
(* bounds what an end writes, MaxWrite one Write, MaxRead the buffer of a  *)
(* Read.                                                                   *)
(***************************************************************************)
EXTENDS Integers, Sequences

CONSTANTS MaxData, MaxWrite, MaxRead, MaxBytes, WireCap

GrpcAssumption == MaxData \in Nat /\ MaxWrite \in Nat /\ MaxRead \in Nat

VARIABLES mu, closed, open, wire, readBuf,     \* the connections
          reader, writer, todo, closer,        \* their goroutines
          written, received                    \* bytes written to the socket, and read from the connection
state == <<mu, closed, open, wire, readBuf>>
vars == <<state, reader, writer, todo, closer, written, received>>

Ends == {"client", "server"}
Peer(e) == IF e = "client" THEN "server" ELSE "client"
Free == "free"
Least(m, n) == IF m < n THEN m ELSE n

\* NewGRPCConn at one end, Accept at the other
Init ==
  /\ mu = [e \in Ends |-> Free] /\ closed = [e \in Ends |-> FALSE] /\ open = [e \in Ends |-> TRUE]
  /\ wire = [e \in Ends |-> <<>>] /\ readBuf = [e \in Ends |-> <<>>]
  /\ reader = [e \in Ends |-> "check"] /\ writer = [e \in Ends |-> "idle"] /\ closer = [e \in Ends |-> "idle"]
  /\ todo = [e \in Ends |-> 0] /\ written = [e \in Ends |-> 0] /\ received = [e \in Ends |-> <<>>]

-----------------------------------------------------------------------------
\* Read: closed is looked at before the lock is taken
ReadCheck(e) ==
  /\ reader[e] = "check"
  /\ reader' = [reader EXCEPT ![e] = IF closed[e] THEN "done" ELSE "lock"]
  /\ UNCHANGED <<state, writer, todo, closer, written, received>>

\* Read copies what fits from the data it has; the rest stays in readBuf.
Deliver(e, data) ==
  \E size \in 1 .. MaxRead :
    LET n == Least(size, Len(data))
    IN /\ received' = [received EXCEPT ![e] = @ \o SubSeq(data, 1, n)]
       /\ readBuf' = [readBuf EXCEPT ![e] = SubSeq(data, n + 1, Len(data))]

\* Read with data left over from the last frame
ReadRest(e) ==
  /\ reader[e] = "lock" /\ mu[e] = Free /\ readBuf[e] # <<>>
  /\ Deliver(e, readBuf[e])
  /\ reader' = [reader EXCEPT ![e] = "check"]
  /\ UNCHANGED <<mu, closed, open, wire, writer, todo, closer, written>>

\* Read without: it goes on to the socket, lock in hand
ReadLock(e) ==
  /\ reader[e] = "lock" /\ mu[e] = Free /\ readBuf[e] = <<>>
  /\ mu' = [mu EXCEPT ![e] = "read"]
  /\ reader' = [reader EXCEPT ![e] = "frame"]
  /\ UNCHANGED <<closed, open, wire, readBuf, writer, todo, closer, written, received>>

ReadFrame(e) ==
  /\ reader[e] = "frame" /\ open[e] /\ wire[e] # <<>>
  /\ Deliver(e, Head(wire[e]))
  /\ wire' = [wire EXCEPT ![e] = Tail(@)]
  /\ mu' = [mu EXCEPT ![e] = Free] /\ reader' = [reader EXCEPT ![e] = "check"]
  /\ UNCHANGED <<closed, open, writer, todo, closer, written>>

\* io.ReadFull fails: the socket is closed, here or at the other end, and what was
\* on its way may be lost
ReadFails(e) ==
  /\ reader[e] = "frame" /\ ~(open[e] /\ open[Peer(e)])
  /\ mu' = [mu EXCEPT ![e] = Free] /\ reader' = [reader EXCEPT ![e] = "done"]
  /\ UNCHANGED <<closed, open, wire, readBuf, writer, todo, closer, written, received>>

-----------------------------------------------------------------------------
CallWrite(e) ==
  /\ writer[e] = "idle"
  /\ \E n \in 1 .. MaxWrite : written[e] + n <= MaxBytes /\ todo' = [todo EXCEPT ![e] = n]
  /\ writer' = [writer EXCEPT ![e] = "lock"]
  /\ UNCHANGED <<state, reader, closer, written, received>>

WriteLock(e) ==
  /\ writer[e] = "lock" /\ mu[e] = Free
  /\ IF closed[e]
     THEN writer' = [writer EXCEPT ![e] = "done"] /\ todo' = [todo EXCEPT ![e] = 0] /\ UNCHANGED mu
     ELSE writer' = [writer EXCEPT ![e] = "chunk"] /\ mu' = [mu EXCEPT ![e] = "write"] /\ UNCHANGED todo
  /\ UNCHANGED <<closed, open, wire, readBuf, reader, closer, written, received>>

\* one round of the loop; the last one returns and unlocks.  The socket may take
\* what the other end, being closed, will not read
WriteChunk(e) ==
  /\ writer[e] = "chunk" /\ Len(wire[Peer(e)]) < WireCap
  /\ LET n == Least(todo[e], MaxData)
     IN /\ wire' = [wire EXCEPT ![Peer(e)] = Append(@, [i \in 1 .. n |-> written[e] + i])]
        /\ written' = [written EXCEPT ![e] = @ + n]
        /\ todo' = [todo EXCEPT ![e] = @ - n]
        /\ IF n = todo[e]
           THEN writer' = [writer EXCEPT ![e] = "idle"] /\ mu' = [mu EXCEPT ![e] = Free]
           ELSE UNCHANGED <<writer, mu>>
  /\ UNCHANGED <<closed, open, readBuf, reader, closer, received>>

WriteFails(e) ==
  /\ writer[e] = "chunk" /\ ~open[Peer(e)]
  /\ writer' = [writer EXCEPT ![e] = "done"] /\ todo' = [todo EXCEPT ![e] = 0] /\ mu' = [mu EXCEPT ![e] = Free]
  /\ UNCHANGED <<closed, open, wire, readBuf, reader, closer, written, received>>

-----------------------------------------------------------------------------
CallClose(e) ==
  /\ closer[e] = "idle"
  /\ closer' = [closer EXCEPT ![e] = "lock"]
  /\ UNCHANGED <<state, reader, writer, todo, written, received>>

\* Mutant: Close does not close the socket.
Close_FlagOnly(e) ==
  /\ closer[e] = "lock" /\ mu[e] = Free
  /\ closed' = [closed EXCEPT ![e] = TRUE]
  /\ closer' = [closer EXCEPT ![e] = "done"]
  /\ UNCHANGED <<open, mu, wire, readBuf, reader, writer, todo, written, received>>

\* Close, with the lock
Close(e) ==
  /\ closer[e] = "lock" /\ mu[e] = Free
  /\ closed' = [closed EXCEPT ![e] = TRUE] /\ open' = [open EXCEPT ![e] = FALSE]
  /\ closer' = [closer EXCEPT ![e] = "done"]
  /\ UNCHANGED <<mu, wire, readBuf, reader, writer, todo, written, received>>

ReadStep(e) == ReadCheck(e) \/ ReadRest(e) \/ ReadLock(e) \/ ReadFrame(e) \/ ReadFails(e)
WriteStep(e) == WriteLock(e) \/ WriteChunk(e) \/ WriteFails(e)

Next == \E e \in Ends : ReadStep(e) \/ CallWrite(e) \/ WriteStep(e) \/ CallClose(e) \/ Close(e)

Spec == Init /\ [][Next]_vars

\* Goroutines that can move do; nobody has to call Write or Close.
Fairness == \A e \in Ends : WF_vars(ReadStep(e)) /\ WF_vars(WriteStep(e)) /\ WF_vars(Close(e))

-----------------------------------------------------------------------------
Upward == INSTANCE ByteStream WITH
  sent <- [i \in 1 .. written["client"] |-> i], received <- received["server"]
Downward == INSTANCE ByteStream WITH
  sent <- [i \in 1 .. written["server"] |-> i], received <- received["client"]

\* Both directions of a gRPC connection are byte streams, however Write cuts its
\* data into frames and whatever the sizes of the buffers Read is given.
IsByteStream == Upward!Spec /\ Downward!Spec

\* Once Close has returned at one end, the reader of the other end stops, and a
\* Close there, which waits for the lock that the reader holds, returns.
CloseReturns ==
  <>[](\A e \in Ends : closer[Peer(e)] = "done" => reader[e] = "done" /\ closer[e] \in {"idle", "done"})
=============================================================================
