----------------------------- MODULE MuxSession -----------------------------
(***************************************************************************)
(* features/multiplex/mux.go: one end of a multiplexed connection.         *)
(*                                                                         *)
(* The read loop takes frames from inbox and hands them to the streams;    *)
(* goroutines of the program open streams, accept them, read, write, close *)
(* and reset them, and close the session; the keep-alive loop pings.  What *)
(* this end has written is in outbox, by type.  A frame is a record of a   *)
(* type, a stream id and a number that stands for its data.                *)
(*                                                                         *)
(* IDs bounds the stream ids; MaxWrites and MaxFrames bound how often the  *)
(* program with the keep-alive loop, and the peer, write.  BufCap is the   *)
(* size of a stream's buffer in data frames: its write position only ever  *)
(* advances (common/buf/buffer.go), so that a stream takes BufCap frames   *)
(* in all.                                                                 *)
(* arrived and delivered record the data handed to a stream and read from  *)
(* it.  Each stream has one reader, which reads in a loop.                 *)
(***************************************************************************)
EXTENDS Integers, Sequences, FiniteSets, SequencesExt

CONSTANTS IDs, MaxStreams, BufCap, AcceptCap, MaxWrites, MaxFrames, PeerIDs

ASSUME MuxAssumption ==
  /\ IDs \subseteq Nat \ {0} /\ MaxStreams \in Nat /\ BufCap \in Nat /\ AcceptCap \in Nat
  /\ MaxFrames \in Nat /\ PeerIDs \subseteq IDs

VARIABLES
  inbox, outbox, peerOpen, connOpen,               \* the connection
  closed, cancelled, streams, nextID, refused,     \* the session; streams is Gone after Close
  acceptCh, acceptOpen, held, panicked,            \* held: the streams the program was given
  sclosed, sreset, fin, buf, token, arrived, delivered,  \* the streams
  loop, frame, alive,                       \* the read loop and the keep-alive loop
  cpc, rpc, wpc, writes                            \* Close, Read and Write in progress

wire == <<inbox, outbox, peerOpen, connOpen>>
session == <<closed, cancelled, streams, nextID, refused, acceptCh, acceptOpen, held, panicked>>
stream == <<sclosed, sreset, fin, buf, token, arrived, delivered>>
loops == <<loop, frame, alive>>
callers == <<cpc, rpc, wpc, writes>>
vars == <<wire, session, stream, loops, callers>>

Gone == {0}
Closers == {"program", "readLoop"}
Frame(type, id, n) == [type |-> type, id |-> id, n |-> n]

Init ==
  /\ inbox = <<>> /\ outbox = {} /\ peerOpen = TRUE /\ connOpen = TRUE
  /\ closed = FALSE /\ cancelled = FALSE
  /\ streams = {} /\ nextID = 1 /\ refused = FALSE
  /\ acceptCh = <<>> /\ acceptOpen = TRUE /\ held = {} /\ panicked = FALSE
  /\ sclosed = [i \in IDs |-> FALSE] /\ sreset = [i \in IDs |-> FALSE] /\ fin = [i \in IDs |-> FALSE]
  /\ buf = [i \in IDs |-> <<>>] /\ token = [i \in IDs |-> 0]
  /\ arrived = [i \in IDs |-> <<>>] /\ delivered = [i \in IDs |-> <<>>]
  /\ loop = "read" /\ frame = Frame("none", 0, 0) /\ alive = TRUE
  /\ cpc = [c \in Closers |-> "idle"]
  /\ rpc = [i \in IDs |-> "idle"] /\ wpc = [i \in IDs |-> "idle"] /\ writes = 0

\* WriteFrame past its check of the flag: one frame at a time, under writeMu
Written(type) == outbox' = IF connOpen THEN outbox \union {type} ELSE outbox

-----------------------------------------------------------------------------
\* OpenStream
OpenStream ==
  /\ nextID \in IDs
  /\ ~closed
  /\ IF Cardinality(streams) >= MaxStreams
     THEN refused' = TRUE /\ UNCHANGED <<streams, held, nextID>>
     ELSE /\ streams' = streams \union {nextID} /\ held' = held \union {nextID}
          /\ nextID' = nextID + 2 /\ refused' = FALSE
  /\ UNCHANGED <<wire, closed, cancelled, acceptCh, acceptOpen, panicked, stream, loops, callers>>

\* AcceptStream takes a stream from the channel
AcceptStream ==
  /\ acceptCh # <<>>
  /\ acceptCh' = Tail(acceptCh)
  /\ held' = held \union {Head(acceptCh)}
  /\ UNCHANGED <<wire, closed, cancelled, streams, nextID, refused, acceptOpen, panicked, stream, loops, callers>>

\* MuxStream.Write: the flags of the stream and of the session ...
WriteStart(i) ==
  /\ wpc[i] = "idle" /\ i \in held /\ writes < MaxWrites
  /\ ~sclosed[i] /\ ~closed
  /\ wpc' = [wpc EXCEPT ![i] = "send"]
  /\ writes' = writes + 1
  /\ UNCHANGED <<wire, session, stream, loops, cpc, rpc>>

\* ... and the frame
WriteSend(i) ==
  /\ wpc[i] = "send"
  /\ Written("Data")
  /\ wpc' = [wpc EXCEPT ![i] = "idle"]
  /\ UNCHANGED <<inbox, peerOpen, connOpen, session, stream, loops, cpc, rpc, writes>>

\* MuxStream.Close: the flag and a Close frame; nobody who reads is woken
CloseStream(i) ==
  /\ i \in held /\ ~sclosed[i]
  /\ sclosed' = [sclosed EXCEPT ![i] = TRUE]
  /\ IF closed THEN UNCHANGED outbox ELSE Written("Close")
  /\ UNCHANGED <<inbox, peerOpen, connOpen, session, sreset, fin, buf, token, arrived, delivered, loops, callers>>

\* MuxStream.Reset
ResetStream(i) ==
  /\ i \in held /\ ~sreset[i]
  /\ sreset' = [sreset EXCEPT ![i] = TRUE]
  /\ IF closed THEN UNCHANGED outbox ELSE Written("Reset")
  /\ UNCHANGED <<inbox, peerOpen, connOpen, session, sclosed, fin, buf, token, arrived, delivered, loops, callers>>

-----------------------------------------------------------------------------
\* MuxStream.Read: the reset flag, before the lock
ReadStart(i) ==
  /\ rpc[i] = "idle" /\ i \in held
  /\ rpc' = [rpc EXCEPT ![i] = IF sreset[i] THEN "failed" ELSE "check"]
  /\ UNCHANGED <<wire, session, stream, loops, cpc, wpc, writes>>

\* Mutant: Read takes the newest data first.
ReadCheck_Newest(i) ==
  /\ rpc[i] = "check" /\ buf[i] # <<>>
  /\ delivered' = [delivered EXCEPT ![i] = Append(@, Last(buf[i]))]
  /\ buf' = [buf EXCEPT ![i] = Front(@)]
  /\ rpc' = [rpc EXCEPT ![i] = "idle"]
  /\ UNCHANGED <<wire, session, sclosed, sreset, fin, token, arrived, loops, cpc, wpc, writes>>

\* Read, with the stream's lock: return data, or the end, or go and wait
ReadCheck(i) ==
  /\ rpc[i] = "check"
  /\ IF buf[i] # <<>>
     THEN /\ delivered' = [delivered EXCEPT ![i] = Append(@, Head(buf[i]))]
          /\ buf' = [buf EXCEPT ![i] = Tail(@)]
          /\ rpc' = [rpc EXCEPT ![i] = "idle"]
     ELSE /\ rpc' = [rpc EXCEPT ![i] = IF sclosed[i] THEN "failed" ELSE "wait"]
          /\ UNCHANGED <<buf, delivered>>
  /\ UNCHANGED <<wire, session, sclosed, sreset, fin, token, arrived, loops, cpc, wpc, writes>>

\* Read, without the lock: a token in readCh, or the context
ReadWake(i) ==
  /\ rpc[i] = "wait" /\ token[i] = 1
  /\ token' = [token EXCEPT ![i] = 0]
  /\ rpc' = [rpc EXCEPT ![i] = "check"]
  /\ UNCHANGED <<wire, session, sclosed, sreset, fin, buf, arrived, delivered, loops, cpc, wpc, writes>>

ReadCancelled(i) ==
  /\ rpc[i] = "wait" /\ cancelled
  /\ rpc' = [rpc EXCEPT ![i] = "failed"]
  /\ UNCHANGED <<wire, session, stream, loops, cpc, wpc, writes>>

-----------------------------------------------------------------------------
\* readLoop: the next frame; at the end of the stream, on a closed connection
\* and on a GoAway it returns and its deferred Close runs
LoopRead ==
  /\ loop = "read"
  /\ IF connOpen /\ inbox # <<>>
     THEN /\ frame' = Head(inbox)
          /\ inbox' = Tail(inbox)
          /\ loop' = IF Head(inbox).type = "GoAway" THEN "close" ELSE "handle"
     ELSE /\ ~connOpen \/ ~peerOpen
          /\ loop' = "close"
          /\ UNCHANGED <<frame, inbox>>
  /\ UNCHANGED <<outbox, peerOpen, connOpen, session, stream, alive, callers>>

\* handleData: look the stream up, under the read lock
LookUp ==
  /\ loop = "handle" /\ frame.type = "Data"
  /\ loop' = IF frame.id \in streams THEN "buffer"
             ELSE IF frame.id % 2 = 0 THEN "create" ELSE "read"
  /\ UNCHANGED <<wire, session, stream, frame, alive, callers>>

\* handleData: an unknown even id is a new stream; a nil map panics
CreateStream ==
  /\ loop = "create"
  /\ IF streams = Gone THEN panicked' = TRUE /\ UNCHANGED streams
     ELSE streams' = streams \union {frame.id} /\ UNCHANGED panicked
  /\ loop' = IF streams = Gone THEN "dead" ELSE "offer"
  /\ UNCHANGED <<wire, closed, cancelled, nextID, refused, acceptCh, acceptOpen, held, stream, frame, alive, callers>>

\* handleData: offer it, without waiting; a closed channel panics
OfferStream ==
  /\ loop = "offer"
  /\ panicked' = ~acceptOpen
  /\ acceptCh' = IF acceptOpen /\ Len(acceptCh) < AcceptCap THEN Append(acceptCh, frame.id) ELSE acceptCh
  /\ loop' = IF acceptOpen THEN "buffer" ELSE "dead"
  /\ UNCHANGED <<wire, closed, cancelled, streams, nextID, refused, acceptOpen, held, stream, frame, alive, callers>>

\* handleData: into the stream's buffer, as far as it goes
Buffer ==
  /\ loop = "buffer"
  /\ buf' = IF Len(arrived[frame.id]) < BufCap
            THEN [buf EXCEPT ![frame.id] = Append(@, frame.n)] ELSE buf
  /\ arrived' = [arrived EXCEPT ![frame.id] = Append(@, frame.n)]
  /\ loop' = "signal"
  /\ UNCHANGED <<wire, session, sclosed, sreset, fin, token, delivered, frame, alive, callers>>

\* Mutant: nobody is told of the data.
Signal_Forgotten ==
  /\ loop = "signal"
  /\ loop' = "read"
  /\ UNCHANGED <<wire, session, stream, frame, alive, callers>>

\* handleData: leave a token, unless there is one
Signal ==
  /\ loop = "signal"
  /\ token' = [token EXCEPT ![frame.id] = 1]
  /\ loop' = "read"
  /\ UNCHANGED <<wire, session, sclosed, sreset, fin, buf, arrived, delivered, frame, alive, callers>>

\* Mutant: a Close frame sets the flag and wakes nobody.
HandleClose_NoToken ==
  /\ loop = "handle" /\ frame.type \in {"Close", "Reset"}
  /\ IF frame.id \in streams
     THEN /\ sclosed' = [sclosed EXCEPT ![frame.id] = TRUE]
          /\ sreset' = [sreset EXCEPT ![frame.id] = @ \/ frame.type = "Reset"]
          /\ fin' = [fin EXCEPT ![frame.id] = TRUE]
     ELSE UNCHANGED <<sclosed, sreset, fin>>
  /\ loop' = "read"
  /\ UNCHANGED <<wire, session, buf, token, arrived, delivered, frame, alive, callers>>

\* handleClose and handleReset
HandleClose ==
  /\ loop = "handle" /\ frame.type \in {"Close", "Reset"}
  /\ IF frame.id \in streams
     THEN /\ sclosed' = [sclosed EXCEPT ![frame.id] = TRUE]
          /\ sreset' = [sreset EXCEPT ![frame.id] = @ \/ frame.type = "Reset"]
          /\ fin' = [fin EXCEPT ![frame.id] = TRUE]
          /\ token' = [token EXCEPT ![frame.id] = 1]
     ELSE UNCHANGED <<sclosed, sreset, fin, token>>
  /\ loop' = "read"
  /\ UNCHANGED <<wire, session, buf, arrived, delivered, frame, alive, callers>>

\* readLoop: a Ping is answered, a Pong ignored
HandlePing ==
  /\ loop = "handle" /\ frame.type \in {"Ping", "Pong"}
  /\ IF frame.type = "Ping" /\ ~closed THEN Written("Pong") ELSE UNCHANGED outbox
  /\ loop' = "read"
  /\ UNCHANGED <<inbox, peerOpen, connOpen, session, stream, frame, alive, callers>>

\* keepAliveLoop
KeepAlive ==
  /\ alive /\ writes < MaxWrites
  /\ IF closed THEN UNCHANGED outbox ELSE Written("Ping")
  /\ writes' = writes + 1
  /\ UNCHANGED <<inbox, peerOpen, connOpen, session, stream, loops, cpc, rpc, wpc>>

KeepAliveEnds ==
  /\ alive /\ cancelled
  /\ alive' = FALSE
  /\ UNCHANGED <<wire, session, stream, loop, frame, callers>>

-----------------------------------------------------------------------------
\* Mutant: Close does not look at the flag, so that the read loop waits for itself.
CloseFlag_NoSwap(c) ==
  /\ cpc[c] = "idle"
  /\ c = "readLoop" => loop = "close"
  /\ closed' = TRUE
  /\ cpc' = [cpc EXCEPT ![c] = "goaway"]
  /\ UNCHANGED <<wire, cancelled, held, streams, nextID, refused, acceptCh, acceptOpen, panicked, stream, loops, rpc, wpc, writes>>

\* Close: the flag; whoever comes second returns at once.  The program calls it
\* when it likes, the read loop when it returns.
CloseFlag(c) ==
  /\ cpc[c] = "idle"
  /\ c = "readLoop" => loop = "close"
  /\ closed' = TRUE
  /\ cpc' = [cpc EXCEPT ![c] = IF closed THEN "returned" ELSE "goaway"]
  /\ UNCHANGED <<wire, cancelled, held, streams, nextID, refused, acceptCh, acceptOpen, panicked, stream, loops, rpc, wpc, writes>>

\* Close: WriteFrame(GoAway), which finds the flag set, and cancel
CloseCancel(c) ==
  /\ cpc[c] = "goaway"
  /\ IF closed THEN UNCHANGED outbox ELSE Written("GoAway")
  /\ cancelled' = TRUE
  /\ cpc' = [cpc EXCEPT ![c] = "streams"]
  /\ UNCHANGED <<inbox, peerOpen, connOpen, closed, streams, nextID, refused, acceptCh, acceptOpen, held, panicked,
                 stream, loops, rpc, wpc, writes>>

\* Mutant: Close leaves an empty map behind, over which nothing panics.
CloseStreams_EmptyMap(c) ==
  /\ cpc[c] = "streams"
  /\ sclosed' = [i \in IDs |-> sclosed[i] \/ i \in streams]
  /\ token' = [i \in IDs |-> IF i \in streams THEN 1 ELSE token[i]]
  /\ streams' = {}
  /\ cpc' = [cpc EXCEPT ![c] = "acceptCh"]
  /\ UNCHANGED <<wire, closed, cancelled, nextID, refused, acceptCh, acceptOpen, held, panicked,
                 sreset, fin, buf, arrived, delivered, loops, rpc, wpc, writes>>

\* Close: close and wake every stream, drop the map
CloseStreams(c) ==
  /\ cpc[c] = "streams"
  /\ sclosed' = [i \in IDs |-> sclosed[i] \/ i \in streams]
  /\ token' = [i \in IDs |-> IF i \in streams THEN 1 ELSE token[i]]
  /\ streams' = Gone
  /\ cpc' = [cpc EXCEPT ![c] = "acceptCh"]
  /\ UNCHANGED <<wire, closed, cancelled, nextID, refused, acceptCh, acceptOpen, held, panicked,
                 sreset, fin, buf, arrived, delivered, loops, rpc, wpc, writes>>

CloseAccept(c) ==
  /\ cpc[c] = "acceptCh"
  /\ acceptOpen' = FALSE
  /\ cpc' = [cpc EXCEPT ![c] = "wait"]
  /\ UNCHANGED <<wire, closed, cancelled, streams, nextID, refused, acceptCh, panicked, held, stream, loops, rpc, wpc, writes>>

\* Close: s.wg.Wait() for the two loops, then conn.Close()
CloseConn(c) ==
  /\ cpc[c] = "wait" /\ ~alive /\ loop = "done"
  /\ connOpen' = FALSE
  /\ cpc' = [cpc EXCEPT ![c] = "returned"]
  /\ UNCHANGED <<inbox, outbox, peerOpen, session, stream, loops, rpc, wpc, writes>>

\* readLoop: the deferred Close has returned, s.wg.Done()
LoopDone ==
  /\ loop = "close" /\ cpc["readLoop"] = "returned"
  /\ loop' = "done"
  /\ UNCHANGED <<wire, session, stream, frame, alive, callers>>

-----------------------------------------------------------------------------
LoopStep ==
  \/ LoopRead \/ LookUp \/ CreateStream \/ OfferStream \/ Buffer \/ Signal
  \/ HandleClose \/ HandlePing \/ LoopDone

CloseStep(c) == CloseFlag(c) \/ CloseCancel(c) \/ CloseStreams(c) \/ CloseAccept(c) \/ CloseConn(c)

ReadStep(i) == ReadStart(i) \/ ReadCheck(i) \/ ReadWake(i) \/ ReadCancelled(i)

\* Everything that happens at this end, until a panic ends the program.
Step ==
  /\ ~panicked
  /\ \/ OpenStream \/ AcceptStream \/ LoopStep \/ KeepAlive \/ KeepAliveEnds
     \/ \E i \in IDs : WriteStart(i) \/ WriteSend(i) \/ CloseStream(i) \/ ResetStream(i) \/ ReadStep(i)
     \/ \E c \in Closers : CloseStep(c)

-----------------------------------------------------------------------------
(***************************************************************************)
(* This end with a peer that sends what the read loop understands: data,   *)
(* Close and Reset for the streams it was told of and for streams of its   *)
(* own (PeerIDs: even to suit handleData, odd when the peer runs this very *)
(* code), pings and GoAway.  It numbers its frames, MaxFrames of them.      *)
(***************************************************************************)
VARIABLE sent

PeerSend ==
  /\ peerOpen /\ sent < MaxFrames
  /\ \E type \in {"Data", "Close", "Reset"}, i \in held \union PeerIDs :
        inbox' = Append(inbox, Frame(type, i, sent + 1))
  /\ sent' = sent + 1
  /\ UNCHANGED <<outbox, peerOpen, connOpen, session, stream, loops, callers>>

PeerControl ==
  /\ peerOpen /\ sent < MaxFrames
  /\ \E type \in {"Ping", "Pong", "GoAway"} : inbox' = Append(inbox, Frame(type, 0, 0))
  /\ sent' = sent + 1
  /\ UNCHANGED <<outbox, peerOpen, connOpen, session, stream, loops, callers>>

PeerEnds ==
  /\ peerOpen
  /\ peerOpen' = FALSE
  /\ UNCHANGED <<inbox, outbox, connOpen, session, stream, loops, callers, sent>>

Next == (Step /\ UNCHANGED sent) \/ PeerSend \/ PeerControl \/ PeerEnds

Spec == Init /\ sent = 0 /\ [][Next]_<<vars, sent>>

\* The goroutines that can run do.  The program need not call anything, calls
\* Close at its leisure, and the peer need not send anything nor ever end.
Fairness ==
  /\ WF_<<vars, sent>>(~panicked /\ LoopStep /\ UNCHANGED sent)
  /\ WF_<<vars, sent>>(~panicked /\ KeepAliveEnds /\ UNCHANGED sent)
  /\ \A i \in IDs : WF_<<vars, sent>>(~panicked /\ ReadStep(i) /\ UNCHANGED sent)
  /\ WF_<<vars, sent>>(~panicked /\ CloseStep("readLoop") /\ UNCHANGED sent)
  /\ WF_<<vars, sent>>(~panicked /\ cpc["program"] # "idle" /\ CloseStep("program") /\ UNCHANGED sent)

FairSpec == Spec /\ Fairness

-----------------------------------------------------------------------------
\* The type of the state: above all, neither the channel of accepted streams
\* nor a stream's buffer holds more than it was made for.
TypeOK ==
  /\ closed \in BOOLEAN /\ cancelled \in BOOLEAN /\ acceptOpen \in BOOLEAN
  /\ streams \subseteq IDs \union Gone /\ held \subseteq IDs
  /\ Len(acceptCh) <= AcceptCap /\ Range(acceptCh) \subseteq IDs
  /\ \A i \in IDs : Len(buf[i]) <= BufCap /\ token[i] \in {0, 1}
  /\ loop \in {"read", "handle", "create", "offer", "buffer", "signal", "close", "done", "dead"}

\* No wake-up is lost between handleData, which fills the buffer under the
\* stream's lock and signals outside it, and Read, which checks the buffer under
\* the lock and waits outside it: a reader that waits although there is data has
\* a token in readCh or is about to be given one.
NoLostWakeup == \A i \in IDs :
  (rpc[i] = "wait" /\ buf[i] # <<>>) => (token[i] = 1 \/ (loop = "signal" /\ frame.id = i))

\* A stream's reader gets the stream's data in the order of its frames, each
\* once, whatever the read loop, other readers and Close do in between; what
\* exceeds the buffer that never gets its space back is the only thing missing.
StreamInOrder == \A i \in IDs :
  delivered[i] \o buf[i] = SubSeq(arrived[i], 1, IF Len(arrived[i]) < BufCap THEN Len(arrived[i]) ELSE BufCap)

\* A reader that waits on a stream the peer has closed or reset wakes up
\* (handleClose and handleReset leave a token for it).
RemoteCloseWakes == \A i \in IDs : (fin[i] /\ rpc[i] = "wait") ~> (rpc[i] # "wait" \/ panicked)

\* A program that is the first to call Close gets to the end of it, the
\* connection closed, once the peer has ended the connection: the read loop's own
\* deferred Close finds the flag set and leaves the waiting to the program.
UserCloseReturns ==
  (cpc["program"] \notin {"idle", "returned"} /\ ~peerOpen) ~> ((cpc["program"] = "returned" /\ ~connOpen) \/ panicked)

\* Nobody waits for ever after a close: neither the reader of a stream that the
\* peer has closed or reset nor the program in Session.Close once the peer has
\* ended the connection.
CloseEndsWaits == RemoteCloseWakes /\ UserCloseReturns

\* Close leaves no stream open behind it: once it has gone over the map, every
\* stream that the program holds or may still accept is closed, although
\* OpenStream, AcceptStream and a read loop that has just looked a new stream up
\* run beside it.  (That read loop pays for it with a panic, if its id is even:
\* it then finds the map nil, or the accept channel closed.)
NoStreamOutlivesClose ==
  \A c \in Closers : cpc[c] \in {"acceptCh", "wait"} =>
    \A i \in held \union Range(acceptCh) : sclosed[i]

=============================================================================
