---------------------------- MODULE WebSocketConn ---------------------------
(***************************************************************************)
(* transport/websocket.go: one direction of a WebSocket connection.        *)
(* Several goroutines write to the WebSocketConn at one end, and at the    *)
(* other one reads until it gets an error, as io.Copy does.                *)
(*                                                                         *)
(* The library (external) sends a message in pieces, one write to the      *)
(* socket each, and hands one out through a reader, which reports its end  *)
(* with the last bytes or by itself; NextReader skips what is left of the  *)
(* message before.  On the wire a byte is its number, in the order in      *)
(* which Writes get the lock, and EOM is the end of a message.  MaxWrite   *)
(* bounds a Write, MaxRead the buffer of a Read, MaxBytes the sum of the   *)
(* Writes, MaxEmpty the Writes of nothing.  Either end may close the       *)
(* socket at any time.                                                     *)
(***************************************************************************)
EXTENDS Integers, Sequences

CONSTANTS Writers, MaxWrite, MaxRead, MaxBytes, MaxEmpty, Nobody

SocketAssumption == MaxWrite \in Nat /\ MaxRead \in Nat /\ Nobody \notin Writers

VARIABLES mu, writer, message, empty,      \* the lock, the writers and what is left of their messages
          wire, closed,                    \* the connection
          inMessage,                       \* the library's reader is within a message
          reader, hasReader,               \* Read, and whether c.reader is set
          written, received                \* bytes given to Write, and returned by Read
writing == <<mu, writer, message, empty, written>>
reading == <<inMessage, reader, hasReader, received>>
vars == <<writing, wire, closed, reading>>

EOM == 0

Init ==
  /\ mu = Nobody /\ writer = [w \in Writers |-> "idle"] /\ message = [w \in Writers |-> <<>>] /\ empty = 0
  /\ wire = <<>> /\ closed = FALSE
  /\ inMessage = FALSE /\ reader = "read" /\ hasReader = FALSE
  /\ written = 0 /\ received = <<>>

-----------------------------------------------------------------------------
\* Mutant: the lock is not taken.
WriteLock_None(w) ==
  /\ writer[w] = "idle"
  /\ \E n \in 0 .. MaxWrite :
       /\ written + n <= MaxBytes /\ (n = 0 => empty < MaxEmpty)
       /\ message' = [message EXCEPT ![w] = [i \in 1 .. n |-> written + i]]
       /\ written' = written + n /\ empty' = IF n = 0 THEN empty + 1 ELSE empty
  /\ writer' = [writer EXCEPT ![w] = "send"]
  /\ UNCHANGED <<mu, wire, closed, reading>>

\* Write takes the lock for the whole message.
WriteLock(w) ==
  /\ writer[w] = "idle" /\ mu = Nobody
  /\ \E n \in 0 .. MaxWrite :
       /\ written + n <= MaxBytes /\ (n = 0 => empty < MaxEmpty)
       /\ message' = [message EXCEPT ![w] = [i \in 1 .. n |-> written + i]]
       /\ written' = written + n /\ empty' = IF n = 0 THEN empty + 1 ELSE empty
  /\ mu' = w /\ writer' = [writer EXCEPT ![w] = "send"]
  /\ UNCHANGED <<wire, closed, reading>>

\* WriteMessage: a piece that is not the last
WritePiece(w) ==
  /\ writer[w] = "send" /\ ~closed
  /\ \E n \in 1 .. Len(message[w]) - 1 :
       /\ wire' = wire \o SubSeq(message[w], 1, n)
       /\ message' = [message EXCEPT ![w] = SubSeq(@, n + 1, Len(@))]
  /\ UNCHANGED <<mu, writer, empty, written, closed, reading>>

\* WriteMessage: the last piece; Write returns
WriteLast(w) ==
  /\ writer[w] = "send" /\ ~closed
  /\ wire' = Append(wire \o message[w], EOM)
  /\ message' = [message EXCEPT ![w] = <<>>]
  /\ mu' = Nobody /\ writer' = [writer EXCEPT ![w] = "idle"]
  /\ UNCHANGED <<empty, written, closed, reading>>

WriteFails(w) ==
  /\ writer[w] = "send" /\ closed
  /\ message' = [message EXCEPT ![w] = <<>>]
  /\ mu' = Nobody /\ writer' = [writer EXCEPT ![w] = "done"]
  /\ UNCHANGED <<empty, written, wire, closed, reading>>

-----------------------------------------------------------------------------
\* The bytes of the message at the front of s that have arrived.
Arrived(s) == CHOOSE n \in 0 .. Len(s) : (\A i \in 1 .. n : s[i] # EOM) /\ (n < Len(s) => s[n + 1] = EOM)

\* The library's reader returns the first n > 0 of the cells s, with the end of
\* the message if atEnd.
Take(s, n, atEnd) ==
  /\ n <= Arrived(s) /\ (atEnd => n = Arrived(s) /\ n < Len(s))
  /\ received' = received \o SubSeq(s, 1, n)
  /\ wire' = SubSeq(s, n + (IF atEnd THEN 2 ELSE 1), Len(s))
  /\ inMessage' = ~atEnd

\* NextReader skips the rest of the message before.
NextMessage == IF inMessage THEN SubSeq(wire, Arrived(wire) + 2, Len(wire)) ELSE wire

\* Read with a reader from the last call: more of its message
ReadMore ==
  /\ reader = "read" /\ hasReader
  /\ \E n \in 1 .. MaxRead, atEnd \in BOOLEAN : Take(wire, n, atEnd) /\ hasReader' = ~atEnd
  /\ UNCHANGED <<writing, closed, reader>>

\* Read with a reader that has nothing left: it goes on as a Read without one
ReadEnd ==
  /\ reader = "read" /\ hasReader /\ wire # <<>> /\ Head(wire) = EOM
  /\ wire' = Tail(wire) /\ inMessage' = FALSE /\ hasReader' = FALSE
  /\ UNCHANGED <<writing, closed, reader, received>>

\* Read without a reader waits for the next message and returns its first bytes;
\* of an empty message it returns none, and no error.
ReadNext ==
  /\ reader = "read" /\ ~hasReader /\ NextMessage # <<>>
  /\ \/ \E n \in 1 .. MaxRead, atEnd \in BOOLEAN : Take(NextMessage, n, atEnd) /\ hasReader' = ~atEnd
     \/ /\ Head(NextMessage) = EOM
        /\ wire' = Tail(NextMessage) /\ inMessage' = FALSE /\ UNCHANGED <<hasReader, received>>
  /\ UNCHANGED <<writing, closed, reader>>

\* The socket was closed, at either end, and nothing is left to read.
ReadFails ==
  /\ reader = "read" /\ closed /\ wire = <<>>
  /\ reader' = "done"
  /\ UNCHANGED <<writing, wire, closed, inMessage, hasReader, received>>

\* Close takes no lock.  What is on its way may be lost.
Close ==
  /\ ~closed
  /\ closed' = TRUE
  /\ \E n \in 0 .. Len(wire) : wire' = SubSeq(wire, 1, n)
  /\ UNCHANGED <<writing, reading>>

WriteStep(w) == WritePiece(w) \/ WriteLast(w) \/ WriteFails(w)
ReadStep == ReadMore \/ ReadEnd \/ ReadNext \/ ReadFails

Next == (\E w \in Writers : WriteLock(w) \/ WriteStep(w)) \/ ReadStep \/ Close

Spec == Init /\ [][Next]_vars

\* Goroutines that can move do; nobody has to write or to close.
Fairness == WF_vars(ReadStep) /\ \A w \in Writers : WF_vars(WriteStep(w))

-----------------------------------------------------------------------------
Stream == INSTANCE ByteStream WITH sent <- [i \in 1 .. written |-> i], received <- received

\* A WebSocket connection is a byte stream: neither the ends of messages nor
\* empty ones nor Writes of several goroutines show in what is read.
IsByteStream == Stream!Spec

\* Close, which takes no lock, ends the Read that waits and every Write.
CloseReturns == <>[](closed => reader = "done" /\ \A w \in Writers : writer[w] # "send")
=============================================================================
