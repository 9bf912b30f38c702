------------------------------ MODULE KCPConn -------------------------------
(***************************************************************************)
(* transport/mkcp.go: a KCPConn, its two loops, a goroutine that reads,    *)
(* one that writes and one that closes.                                    *)
(*                                                                         *)
(* They share the KCPState without a lock: an append to one of its queues  *)
(* is a load and a store here, a queue is emptied after it was gone        *)
(* through, and other goroutines come in between.  flush writes every      *)
(* segment into a buffer of its own and gives nothing to the socket, so    *)
(* that what is written stays in sndBuf.  Acknowledgements, windows and    *)
(* probes, which Input ignores or nobody reads, are left out.              *)
(*                                                                         *)
(* A segment is the sequence of its bytes, which the peer, and the writer, *)
(* number.  The peer's segments come one to a datagram and, unlike UDP's,  *)
(* all of them and in order.  MaxSegment bounds a segment of the peer,     *)
(* MSS one of this end, MaxRead the buffer of a Read, MaxBytes what either *)
(* end writes.                                                             *)
(***************************************************************************)
EXTENDS Integers, Sequences, SequencesExt

CONSTANTS MaxSegment, MSS, MaxRead, MaxBytes

VARIABLES inbox, arrived,                       \* datagrams, and the bytes in all of them
          closed, done, readLoop, updateLoop,   \* the connection
          sndQueue, sndBuf, rcvQueue,           \* KCPState
          input, recv, send,                    \* what Input, Recv and Send have loaded
          reader, writer, closer,
          todo, written, received
state == <<sndQueue, sndBuf, rcvQueue>>
loaded == <<input, recv, send>>
callers == <<reader, writer, closer>>
bytes == <<todo, written, received>>
vars == <<inbox, arrived, closed, done, readLoop, updateLoop, state, loaded, callers, bytes>>

Least(m, n) == IF m < n THEN m ELSE n

\* NewKCPConn
Init ==
  /\ inbox = <<>> /\ arrived = 0
  /\ closed = FALSE /\ done = FALSE /\ readLoop = "check" /\ updateLoop = "wait"
  /\ sndQueue = <<>> /\ sndBuf = <<>> /\ rcvQueue = <<>>
  /\ input = <<>> /\ recv = <<>> /\ send = <<>>
  /\ reader = "idle" /\ writer = "idle" /\ closer = "idle"
  /\ todo = 0 /\ written = 0 /\ received = <<>>

PeerSends ==
  \E n \in 1 .. MaxSegment :
    /\ arrived + n <= MaxBytes
    /\ inbox' = Append(inbox, [i \in 1 .. n |-> arrived + i])
    /\ arrived' = arrived + n
    /\ UNCHANGED <<closed, done, readLoop, updateLoop, state, loaded, callers, bytes>>

-----------------------------------------------------------------------------
\* readLoop: done is looked at between two datagrams
CheckDone ==
  /\ readLoop = "check"
  /\ readLoop' = IF done THEN "ended" ELSE "receive"
  /\ UNCHANGED <<inbox, arrived, closed, done, updateLoop, state, loaded, callers, bytes>>

\* readLoop: ReadFrom returns, and Input appends the segment to rcvQueue in two steps
InputLoad ==
  /\ readLoop = "receive" /\ inbox # <<>>
  /\ input' = Append(rcvQueue, Head(inbox))
  /\ inbox' = Tail(inbox) /\ readLoop' = "store"
  /\ UNCHANGED <<arrived, closed, done, updateLoop, state, recv, send, callers, bytes>>

InputStore ==
  /\ readLoop = "store"
  /\ rcvQueue' = input /\ input' = <<>> /\ readLoop' = "check"
  /\ UNCHANGED <<inbox, arrived, closed, done, updateLoop, sndQueue, sndBuf, recv, send, callers, bytes>>

\* updateLoop: a tick, and in Update it may be time to flush ...
FlushMove ==
  /\ updateLoop = "wait" /\ sndQueue # <<>>
  /\ sndBuf' = sndBuf \o sndQueue
  /\ updateLoop' = "reset"
  /\ UNCHANGED <<inbox, arrived, closed, done, readLoop, sndQueue, rcvQueue, loaded, callers, bytes>>

\* ... which ends with the queue empty
FlushReset ==
  /\ updateLoop = "reset"
  /\ sndQueue' = <<>> /\ updateLoop' = "wait"
  /\ UNCHANGED <<inbox, arrived, closed, done, readLoop, sndBuf, rcvQueue, loaded, callers, bytes>>

UpdateEnds ==
  /\ updateLoop = "wait" /\ done
  /\ updateLoop' = "ended"
  /\ UNCHANGED <<inbox, arrived, closed, done, readLoop, state, loaded, callers, bytes>>

-----------------------------------------------------------------------------
\* The segments at the front of queue that fit into a buffer of the size; Recv
\* stops at the first that does not.
Fitting(queue, size) ==
  CHOOSE k \in 0 .. Len(queue) :
    /\ Len(FlattenSeq(SubSeq(queue, 1, k))) <= size
    /\ k < Len(queue) => Len(FlattenSeq(SubSeq(queue, 1, k + 1))) > size

\* Read: an error if there is nothing or the connection is closed; or Recv copies ...
RecvCopy ==
  /\ reader = "idle" /\ ~closed /\ rcvQueue # <<>>
  /\ \E size \in 1 .. MaxRead : recv' = FlattenSeq(SubSeq(rcvQueue, 1, Fitting(rcvQueue, size)))
  /\ reader' = "reset"
  /\ UNCHANGED <<inbox, arrived, closed, done, readLoop, updateLoop, state, input, send, writer, closer, bytes>>

\* ... and empties the queue, with what did not fit
RecvReset ==
  /\ reader = "reset"
  /\ rcvQueue' = <<>>
  /\ received' = received \o recv /\ recv' = <<>>
  /\ reader' = "idle"
  /\ UNCHANGED <<inbox, arrived, closed, done, readLoop, updateLoop, sndQueue, sndBuf, input, send, writer, closer,
                 todo, written>>

\* Write: Send cuts the data into segments of at most MSS
CallWrite ==
  /\ writer = "idle" /\ ~closed
  /\ \E n \in 1 .. MaxBytes - written : todo' = n
  /\ writer' = "load"
  /\ UNCHANGED <<inbox, arrived, closed, done, readLoop, updateLoop, state, loaded, reader, closer, written, received>>

\* Send: each is appended to sndQueue in two steps
SendLoad ==
  /\ writer = "load"
  /\ LET n == Least(todo, MSS)
     IN /\ send' = Append(sndQueue, [i \in 1 .. n |-> written + i])
        /\ todo' = todo - n /\ written' = written + n
  /\ writer' = "store"
  /\ UNCHANGED <<inbox, arrived, closed, done, readLoop, updateLoop, state, input, recv, reader, closer, received>>

SendStore ==
  /\ writer = "store"
  /\ sndQueue' = send /\ send' = <<>>
  /\ writer' = IF todo = 0 THEN "idle" ELSE "load"
  /\ UNCHANGED <<inbox, arrived, closed, done, readLoop, updateLoop, sndBuf, rcvQueue, input, recv, reader, closer, bytes>>

-----------------------------------------------------------------------------
\* Close: the first one ends the loops; the socket stays open
Close ==
  /\ closer = "idle" /\ ~closed
  /\ closed' = TRUE /\ done' = TRUE /\ closer' = "wait"
  /\ UNCHANGED <<inbox, arrived, readLoop, updateLoop, state, loaded, reader, writer, bytes>>

\* wg.Wait returns
CloseReturn ==
  /\ closer = "wait" /\ readLoop = "ended" /\ updateLoop = "ended"
  /\ closer' = "done"
  /\ UNCHANGED <<inbox, arrived, closed, done, readLoop, updateLoop, state, loaded, reader, writer, bytes>>

ReadLoop == CheckDone \/ InputLoad \/ InputStore
UpdateLoop == FlushMove \/ FlushReset \/ UpdateEnds
Caller == RecvReset \/ SendLoad \/ SendStore \/ CloseReturn

Next == PeerSends \/ ReadLoop \/ UpdateLoop \/ Caller \/ RecvCopy \/ CallWrite \/ Close

Spec == Init /\ [][Next]_vars

\* Goroutines that can move do; a select that may choose does not always choose
\* the ticker.  Neither the peer nor the program has to do anything.
Fairness == WF_vars(ReadLoop) /\ WF_vars(Caller) /\ WF_vars(FlushReset) /\ SF_vars(UpdateEnds)

-----------------------------------------------------------------------------
Stream == INSTANCE ByteStream WITH sent <- [i \in 1 .. arrived |-> i], received <- received

\* What is read is what the peer wrote, in order and complete: the reliable
\* connection that the transport is documented to be.
Reliable == Stream!Spec

\* Close, which does not wake a readLoop that waits for a datagram, returns once
\* one more has arrived.
CloseReturns == (closer = "wait" /\ readLoop # "receive") ~> (closer = "done")
=============================================================================
