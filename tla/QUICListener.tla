---------------------------- MODULE QUICListener ----------------------------
(***************************************************************************)
(* transport/quic.go: a QUICListener and the connections it hands out.     *)
(*                                                                         *)
(* Peers make connections (Conns) and open streams on them (StreamsOf[c]); *)
(* the library (external) hands them to acceptLoop and to the handleConn   *)
(* of the connection.  A stream becomes a QUICConn that waits in acceptCh, *)
(* which holds QueueSize, until a caller of Accept takes it.  Owners of a  *)
(* QUICConn may close it, which closes its whole connection; peers may     *)
(* close theirs.  The listener may be closed at any time, and as often as  *)
(* one likes.  Closing it leaves the connections that were accepted alone. *)
(***************************************************************************)
EXTENDS Integers, Sequences, SequencesExt

CONSTANTS Conns, StreamsOf, Callers, QueueSize

\* What is assumed of the constants.
ListenerAssumption == "nobody" \notin Callers

VARIABLES done, listening, acceptLoop,      \* the listener
          acceptCh,
          conn, handler,                    \* connections, and their handleConn
          stream, owner,                    \* streams, and the caller that has one
          accept                            \* the callers of Accept
vars == <<done, listening, acceptLoop, acceptCh, conn, handler, stream, owner, accept>>

Streams == UNION {StreamsOf[c] : c \in Conns}
ConnOf(s) == CHOOSE c \in Conns : s \in StreamsOf[c]
Nobody == "nobody"

\* NewQUICListener
Init ==
  /\ done = FALSE /\ listening = TRUE /\ acceptLoop = "run"
  /\ acceptCh = <<>>
  /\ conn = [c \in Conns |-> "none"] /\ handler = [c \in Conns |-> "none"]
  /\ stream = [s \in Streams |-> "none"] /\ owner = [s \in Streams |-> Nobody]
  /\ accept = [a \in Callers |-> "idle"]

-----------------------------------------------------------------------------
\* A peer connects; acceptLoop has a goroutine handle the connection.  (The library
\* hands out what is in its own queue also when the listener is closed.)
Connect(c) ==
  /\ acceptLoop = "run" /\ conn[c] = "none"
  /\ conn' = [conn EXCEPT ![c] = "open"] /\ handler' = [handler EXCEPT ![c] = "run"]
  /\ UNCHANGED <<done, listening, acceptLoop, acceptCh, stream, owner, accept>>

\* listener.Accept fails: acceptLoop returns if done is closed, and tries again if not
AcceptLoopEnds ==
  /\ acceptLoop = "run" /\ ~listening /\ done
  /\ acceptLoop' = "ended"
  /\ UNCHANGED <<done, listening, acceptCh, conn, handler, stream, owner, accept>>

OpenStream(s) ==
  /\ conn[ConnOf(s)] = "open" /\ stream[s] = "none"
  /\ stream' = [stream EXCEPT ![s] = "open"]
  /\ UNCHANGED <<done, listening, acceptLoop, acceptCh, conn, handler, owner, accept>>

\* Mutant: a stream that finds no room is forgotten.
HandleStream_Forgets(s) ==
  /\ handler[ConnOf(s)] = "run" /\ stream[s] = "open"
  /\ IF Len(acceptCh) < QueueSize
     THEN acceptCh' = Append(acceptCh, s) /\ stream' = [stream EXCEPT ![s] = "queued"]
     ELSE stream' = [stream EXCEPT ![s] = "handled"] /\ UNCHANGED acceptCh
  /\ UNCHANGED <<done, listening, acceptLoop, conn, handler, owner, accept>>

\* handleConn: a stream goes into the queue, or is closed if there is no room
HandleStream(s) ==
  /\ handler[ConnOf(s)] = "run" /\ stream[s] = "open"
  /\ IF Len(acceptCh) < QueueSize
     THEN acceptCh' = Append(acceptCh, s) /\ stream' = [stream EXCEPT ![s] = "queued"]
     ELSE stream' = [stream EXCEPT ![s] = "closed"] /\ UNCHANGED acceptCh
  /\ UNCHANGED <<done, listening, acceptLoop, conn, handler, owner, accept>>

\* handleConn: AcceptStream fails, the connection is closed
HandlerEnds(c) ==
  /\ handler[c] = "run" /\ conn[c] = "closed"
  /\ handler' = [handler EXCEPT ![c] = "ended"]
  /\ UNCHANGED <<done, listening, acceptLoop, acceptCh, conn, stream, owner, accept>>

-----------------------------------------------------------------------------
CallAccept(a) ==
  /\ accept[a] = "idle"
  /\ accept' = [accept EXCEPT ![a] = "wait"]
  /\ UNCHANGED <<done, listening, acceptLoop, acceptCh, conn, handler, stream, owner>>

\* Accept: the select takes a connection from the queue ...
Accept(a) ==
  /\ accept[a] = "wait" /\ acceptCh # <<>>
  /\ acceptCh' = Tail(acceptCh)
  /\ owner' = [owner EXCEPT ![Head(acceptCh)] = a]
  /\ stream' = [stream EXCEPT ![Head(acceptCh)] = IF @ = "queued" THEN "owned" ELSE @]
  /\ accept' = [accept EXCEPT ![a] = "idle"]
  /\ UNCHANGED <<done, listening, acceptLoop, conn, handler>>

\* ... or sees that the listener is closed
AcceptDone(a) ==
  /\ accept[a] = "wait" /\ done
  /\ accept' = [accept EXCEPT ![a] = "error"]
  /\ UNCHANGED <<done, listening, acceptLoop, acceptCh, conn, handler, stream, owner>>

\* QUICListener.Close, under its lock: done, unless it is closed, and then the listener
CloseDone ==
  /\ ~done
  /\ done' = TRUE
  /\ UNCHANGED <<listening, acceptLoop, acceptCh, conn, handler, stream, owner, accept>>

CloseListener ==
  /\ done /\ listening
  /\ listening' = FALSE
  /\ UNCHANGED <<done, acceptLoop, acceptCh, conn, handler, stream, owner, accept>>

\* The connection is closed with all its streams, also those in the queue.
CloseConn(c) ==
  /\ conn[c] = "open"
  /\ conn' = [conn EXCEPT ![c] = "closed"]
  /\ stream' = [s \in Streams |-> IF s \in StreamsOf[c] /\ stream[s] # "none" THEN "closed" ELSE stream[s]]
  /\ UNCHANGED <<done, listening, acceptLoop, acceptCh, handler, owner, accept>>

\* QUICConn.Close by its owner
Close(s) == owner[s] # Nobody /\ stream[s] # "closed" /\ CloseConn(ConnOf(s))

\* the peer closes, or the idle timeout passes
PeerCloses(c) == CloseConn(c)

Next ==
  \/ \E c \in Conns : Connect(c) \/ HandlerEnds(c) \/ PeerCloses(c)
  \/ \E s \in Streams : OpenStream(s) \/ HandleStream(s) \/ Close(s)
  \/ \E a \in Callers : CallAccept(a) \/ Accept(a) \/ AcceptDone(a)
  \/ AcceptLoopEnds \/ CloseDone \/ CloseListener

Spec == Init /\ [][Next]_vars

\* Goroutines that can move do; nobody has to connect, accept or close.
Fairness ==
  /\ WF_vars(AcceptLoopEnds) /\ WF_vars(CloseListener)
  /\ \A c \in Conns : WF_vars(HandlerEnds(c)) /\ \A s \in StreamsOf[c] : WF_vars(HandleStream(s))
  /\ \A a \in Callers : WF_vars(Accept(a) \/ AcceptDone(a))

-----------------------------------------------------------------------------
\* A stream that handleConn has taken from an open connection is in the queue,
\* or belongs to the one caller that accepted it, or is closed: none is left
\* open with nobody to read it, and none is handed out twice.
NoneForgotten ==
  /\ IsInjective(acceptCh)
  /\ \A s \in Streams :
       /\ s \in ToSet(acceptCh) => owner[s] = Nobody
       /\ stream[s] \in {"none", "open", "closed"} \/ s \in ToSet(acceptCh) \/ owner[s] # Nobody

\* Closing the listener ends acceptLoop and every Accept that waits, and closing a
\* connection its handleConn.
CloseReturns ==
  /\ <>[]((done => acceptLoop = "ended") /\ \A c \in Conns : conn[c] = "closed" => handler[c] = "ended")
  /\ \A a \in Callers : []<>~(done /\ accept[a] = "wait")
=============================================================================
