-------------------------- MODULE MuxSessionProofs --------------------------
(***************************************************************************)
(* Proofs about MuxSession, for any stream ids, any sizes of the buffers   *)
(* and of the accept channel and any number of frames and calls.           *)
(***************************************************************************)
EXTENDS MuxSession, SequenceTheorems, TLAPS

StreamFrames == [type : {"Data", "Close", "Reset"}, id : IDs, n : Nat]
ControlFrames == [type : {"Ping", "Pong", "GoAway", "none"}, id : {0}, n : Nat]
Frames == StreamFrames \union ControlFrames

\* Types in full, as the steps need them.
MuxTypes ==
  /\ inbox \in Seq(Frames) /\ frame \in Frames /\ sent \in Nat /\ nextID \in Nat
  /\ closed \in BOOLEAN /\ cancelled \in BOOLEAN /\ acceptOpen \in BOOLEAN
  /\ streams \subseteq IDs \union Gone /\ held \subseteq IDs
  /\ acceptCh \in Seq(IDs) /\ Len(acceptCh) <= AcceptCap
  /\ buf \in [IDs -> Seq(Nat)] /\ arrived \in [IDs -> Seq(Nat)] /\ delivered \in [IDs -> Seq(Nat)]
  /\ token \in [IDs -> {0, 1}]
  /\ rpc \in [IDs -> {"idle", "check", "wait", "failed"}]
  /\ loop \in {"read", "handle", "create", "offer", "buffer", "signal", "close", "done", "dead"}

\* Past its lookup the read loop holds a frame of data, and it creates and offers
\* streams of even ids only.
FrameInHand ==
  /\ loop \in {"create", "offer", "buffer", "signal"} => frame \in StreamFrames
  /\ loop \in {"create", "offer"} => frame.id % 2 = 0

\* The streams the program holds, may accept or is about to be offered.
Handed(i) ==
  \/ i \in held
  \/ \E k \in DOMAIN acceptCh : acceptCh[k] = i
  \/ loop = "offer" /\ frame.id = i

\* Why no stream outlives Close: a stream that is handed to somebody is in the
\* map, where Close finds it, or Close has been there; and the map is gone only
\* after the flag was set that keeps OpenStream from it.
MapGone ==
  /\ cpc \in [Closers -> {"idle", "goaway", "streams", "acceptCh", "wait", "returned"}]
  /\ DOMAIN sclosed = IDs
  /\ \A c \in Closers : cpc[c] \in {"goaway", "streams", "acceptCh", "wait"} => closed
  /\ \A c \in Closers : cpc[c] \in {"acceptCh", "wait"} => streams = Gone
  /\ streams = Gone => closed
  /\ \A i \in IDs : Handed(i) => i \in streams \/ (streams = Gone /\ sclosed[i])

\* StreamInOrder and NoLostWakeup are inductive with the first two, and
\* NoStreamOutlivesClose follows from the third.
MuxInv == MuxTypes /\ FrameInHand /\ MapGone /\ NoLostWakeup /\ StreamInOrder

allvars == <<vars, sent>>

-----------------------------------------------------------------------------
\* Taking the head of one sequence to the end of another keeps what they hold.
LEMMA MoveHead ==
  ASSUME NEW S, NEW d \in Seq(S), NEW b \in Seq(S), b # <<>>
  PROVE  Append(d, Head(b)) \o Tail(b) = d \o b
<1> DEFINE l == Append(d, Head(b)) \o Tail(b)
<1>1. Head(b) \in S /\ Tail(b) \in Seq(S) /\ Len(Tail(b)) = Len(b) - 1 /\ Len(b) \in Nat \ {0}
  BY EmptySeq, HeadTailProperties
<1>2. Append(d, Head(b)) \in Seq(S) /\ Len(Append(d, Head(b))) = Len(d) + 1
  BY <1>1, AppendProperties
<1>3. l \in Seq(S) /\ d \o b \in Seq(S) /\ Len(l) = Len(d \o b)
  BY <1>1, <1>2, ConcatProperties, LenProperties
<1>4. \A k \in 1..Len(l) : l[k] = (d \o b)[k]
  BY <1>1, <1>2, LenProperties
<1> QED
  BY <1>3, <1>4, SeqEqual

\* What is appended to the second part is appended to the whole.
LEMMA AppendBehind ==
  \A d, b \in Seq(Nat), e \in Nat : d \o Append(b, e) = Append(d \o b, e)
<1> SUFFICES ASSUME NEW d \in Seq(Nat), NEW b \in Seq(Nat), NEW e \in Nat
             PROVE  d \o Append(b, e) = Append(d \o b, e)
  OBVIOUS
<1> QED
  BY AppendIsConcat, ConcatAssociative, ConcatProperties

\* A prefix does not see what is appended behind it.
LEMMA PrefixKept ==
  ASSUME NEW S, NEW a \in Seq(S), NEW e \in S, NEW n \in Nat, n <= Len(a)
  PROVE  SubSeq(Append(a, e), 1, n) = SubSeq(a, 1, n)
<1>1. Len(a) \in Nat /\ Append(a, e) \in Seq(S) /\ Len(Append(a, e)) = Len(a) + 1
  BY LenProperties, AppendProperties
<1>2. \A k \in 1..n : Append(a, e)[k] = a[k] /\ a[k] \in S
  BY <1>1, AppendProperties, ElementOfSeq
<1>3. /\ SubSeq(a, 1, n) \in Seq(S) /\ SubSeq(Append(a, e), 1, n) \in Seq(S)
      /\ Len(SubSeq(a, 1, n)) = n /\ Len(SubSeq(Append(a, e), 1, n)) = n
  BY <1>2, SubSeqProperties
<1>4. \A k \in 1..n : SubSeq(Append(a, e), 1, n)[k] = SubSeq(a, 1, n)[k]
  BY <1>1, <1>2, SubSeqProperties
<1> QED
  BY <1>3, <1>4, SeqEqual

\* The second of two sequences that make up a prefix is no longer than it.
LEMMA WithinPrefix ==
  ASSUME NEW S, NEW d \in Seq(S), NEW b \in Seq(S), NEW a \in Seq(S), NEW n \in Nat, n <= Len(a),
         d \o b = SubSeq(a, 1, n)
  PROVE  Len(b) <= n
<1>1. \A k \in 1..n : a[k] \in S
  BY LenProperties, ElementOfSeq
<1>2. Len(SubSeq(a, 1, n)) = n
  BY <1>1, SubSeqProperties
<1>3. Len(d \o b) = Len(d) + Len(b) /\ Len(d) \in Nat /\ Len(b) \in Nat
  BY ConcatProperties, LenProperties
<1> QED
  BY <1>2, <1>3

-----------------------------------------------------------------------------
\* The initial states satisfy the invariant.
LEMMA MuxInvInit == Init /\ sent = 0 => MuxInv
<1> SUFFICES ASSUME Init, sent = 0 PROVE MuxInv
  OBVIOUS
<1>1. MuxTypes
  <2>1. closed \in BOOLEAN /\ cancelled \in BOOLEAN /\ acceptOpen \in BOOLEAN
    BY Zenon DEF Init
  <2>2. frame \in Frames
    BY DEF Init, Frame, Frames, ControlFrames
  <2> QED
    BY <2>1, <2>2, MuxAssumption DEF Init, MuxTypes
<1>2. FrameInHand /\ NoLostWakeup
  BY DEF Init, FrameInHand, NoLostWakeup
<1>4. MapGone
  BY MuxAssumption DEF Init, MapGone, Handed, Closers, Gone
<1>3. StreamInOrder
  BY MuxAssumption, SubSeqEmpty DEF Init, StreamInOrder
<1> QED
  BY <1>1, <1>2, <1>3, <1>4 DEF MuxInv

\* The steps that touch neither a stream nor the read loop nor a reader.
LEMMA MuxNextCases ==
  ASSUME [Next]_allvars
  PROVE  \/ /\ UNCHANGED <<stream, loop, frame, rpc, panicked>>
            /\ UNCHANGED allvars \/ OpenStream \/ AcceptStream \/ KeepAlive \/ KeepAliveEnds
               \/ PeerSend \/ PeerControl \/ PeerEnds
               \/ (\E i \in IDs : WriteStart(i) \/ WriteSend(i))
               \/ \E c \in Closers : CloseFlag(c) \/ CloseCancel(c) \/ CloseAccept(c) \/ CloseConn(c)
         \/ ~panicked /\ UNCHANGED sent /\ \E i \in IDs :
              CloseStream(i) \/ ResetStream(i) \/ ReadStart(i) \/ ReadCheck(i) \/ ReadWake(i) \/ ReadCancelled(i)
         \/ ~panicked /\ UNCHANGED sent /\ (LoopStep \/ \E c \in Closers : CloseStreams(c))
BY DEF Next, Step, ReadStep, CloseStep, OpenStream, AcceptStream, KeepAlive, KeepAliveEnds, PeerSend,
       PeerControl, PeerEnds, WriteStart, WriteSend, CloseFlag, CloseCancel, CloseAccept, CloseConn,
       allvars, vars, wire, session, stream, loops, callers

-----------------------------------------------------------------------------
\* Types: among the rest, OfferStream keeps the accept channel within its size.
LEMMA MuxTypesStep == MuxInv /\ [Next]_allvars => MuxTypes'
<1> SUFFICES ASSUME MuxInv, [Next]_allvars PROVE MuxTypes'
  OBVIOUS
<1>0. MuxTypes /\ FrameInHand
  BY DEF MuxInv
<1>1. IDs \subseteq Nat \ {0} /\ PeerIDs \subseteq IDs /\ AcceptCap \in Nat
  BY MuxAssumption
<1>b. closed' \in BOOLEAN /\ cancelled' \in BOOLEAN /\ acceptOpen' \in BOOLEAN
  BY <1>0, ZenonT(60) DEF MuxTypes, Next, Step, LoopStep, ReadStep, CloseStep, OpenStream, AcceptStream, KeepAlive,
     KeepAliveEnds, PeerSend, PeerControl, PeerEnds, WriteStart, WriteSend, CloseFlag, CloseCancel, CloseAccept,
     CloseConn, CloseStreams, CloseStream, ResetStream, ReadStart, ReadCheck, ReadWake, ReadCancelled,
     LoopRead, LookUp, CreateStream, OfferStream, Buffer, Signal, HandleClose, HandlePing, LoopDone,
     allvars, vars, session, stream, loops, callers
<1> USE <1>0, <1>1, <1>b DEF MuxTypes, wire, session, stream, loops, callers
<1>2. CASE UNCHANGED allvars
  BY <1>2 DEF allvars, vars
<1>3. CASE UNCHANGED sent /\ OpenStream
  <2>1. /\ \/ UNCHANGED <<streams, held, nextID>>
           \/ streams' = streams \union {nextID} /\ held' = held \union {nextID} /\ nextID' = nextID + 2
        /\ nextID \in IDs
    BY <1>3, Zenon DEF OpenStream
  <2>2. streams' \subseteq IDs \union Gone /\ held' \subseteq IDs
    BY <2>1, Zenon
  <2>3. nextID' \in Nat
    BY <2>1
  <2> QED
    BY <1>3, <2>2, <2>3 DEF OpenStream
<1>4. CASE UNCHANGED sent /\ AcceptStream
  <2>1. Head(acceptCh) \in IDs /\ acceptCh' \in Seq(IDs) /\ Len(acceptCh') <= AcceptCap
    BY <1>4, HeadTailProperties, LenProperties DEF AcceptStream
  <2> QED
    BY <1>4, <2>1 DEF AcceptStream
<1>5. CASE UNCHANGED sent /\ (KeepAlive \/ KeepAliveEnds)
  BY <1>5 DEF KeepAlive, KeepAliveEnds
<1>6. CASE PeerSend
  <2>1. PICK type \in {"Data", "Close", "Reset"}, i \in IDs : inbox' = Append(inbox, Frame(type, i, sent + 1))
    BY <1>6 DEF PeerSend
  <2>2. Frame(type, i, sent + 1) \in Frames
    BY DEF Frame, Frames, StreamFrames
  <2>3. inbox' \in Seq(Frames)
    <3>1. \A f \in Frames : Append(inbox, f) \in Seq(Frames)
      BY AppendProperties
    <3> QED
      BY <2>1, <2>2, <3>1, Zenon
  <2>4. UNCHANGED <<frame, nextID, closed, cancelled, acceptOpen, streams, held, acceptCh, buf, arrived, delivered,
                    token, rpc, loop>>
    BY <1>6, Zenon DEF PeerSend
  <2>5. sent' = sent + 1
    BY <1>6, Zenon DEF PeerSend
  <2> QED
    BY <2>3, <2>4, <2>5
<1>7. CASE PeerControl
  <2>1. PICK type \in {"Ping", "Pong", "GoAway"} : inbox' = Append(inbox, Frame(type, 0, 0))
    BY <1>7 DEF PeerControl
  <2>2. Frame(type, 0, 0) \in Frames
    BY DEF Frame, Frames, ControlFrames
  <2>3. inbox' \in Seq(Frames)
    BY <2>1, <2>2, AppendProperties
  <2> QED
    BY <1>7, <2>3 DEF PeerControl
<1>8. CASE PeerEnds
  BY <1>8 DEF PeerEnds
<1>9. ASSUME NEW i \in IDs, UNCHANGED sent, WriteStart(i) \/ WriteSend(i) \/ CloseStream(i) \/ ResetStream(i)
      PROVE  MuxTypes'
  BY <1>9 DEF WriteStart, WriteSend, CloseStream, ResetStream
<1>10. ASSUME NEW i \in IDs, UNCHANGED sent, ReadStart(i) \/ ReadWake(i) \/ ReadCancelled(i) PROVE MuxTypes'
  BY <1>10 DEF ReadStart, ReadWake, ReadCancelled
<1>11. ASSUME NEW i \in IDs, UNCHANGED sent, ReadCheck(i) PROVE MuxTypes'
  <2>1. buf' \in [IDs -> Seq(Nat)] /\ delivered' \in [IDs -> Seq(Nat)]
    <3>1. CASE buf[i] # <<>>
      <4>1. Head(buf[i]) \in Nat /\ Tail(buf[i]) \in Seq(Nat)
        BY <3>1, HeadTailProperties
      <4>2. Append(delivered[i], Head(buf[i])) \in Seq(Nat)
        BY <4>1, AppendProperties
      <4> QED
        BY <1>11, <3>1, <4>1, <4>2 DEF ReadCheck
    <3>2. CASE buf[i] = <<>>
      BY <1>11, <3>2 DEF ReadCheck
    <3> QED
      BY <3>1, <3>2
  <2> QED
    BY <1>11, <2>1 DEF ReadCheck
<1>12. CASE UNCHANGED sent /\ LoopRead
  <2>1. inbox' \in Seq(Frames) /\ frame' \in Frames
    <3>1. CASE connOpen /\ inbox # <<>>
      <4>1. Head(inbox) \in Frames /\ Tail(inbox) \in Seq(Frames)
        BY <3>1, HeadTailProperties
      <4>2. inbox' = Tail(inbox) /\ frame' = Head(inbox)
        BY <1>12, <3>1, Zenon DEF LoopRead
      <4> QED
        BY <4>1, <4>2
    <3>2. CASE ~(connOpen /\ inbox # <<>>)
      <4>1. inbox' = inbox /\ frame' = frame
        BY <1>12, <3>2, Zenon DEF LoopRead
      <4> QED
        BY <4>1
    <3> QED
      BY <3>1, <3>2
  <2>2. loop' \in {"close", "handle"}
    BY <1>12 DEF LoopRead
  <2>3. UNCHANGED <<session, stream, rpc, sent>>
    BY <1>12 DEF LoopRead
  <2> QED
    BY <2>1, <2>2, <2>3
<1>13. CASE UNCHANGED sent /\ (LookUp \/ HandlePing \/ LoopDone)
  BY <1>13 DEF LookUp, HandlePing, LoopDone
<1>14. CASE UNCHANGED sent /\ CreateStream
  BY <1>14 DEF CreateStream, FrameInHand, StreamFrames
<1>15. CASE UNCHANGED sent /\ OfferStream
  <2>1. frame.id \in IDs
    BY <1>15 DEF OfferStream, FrameInHand, StreamFrames
  <2>2. acceptCh' \in Seq(IDs) /\ Len(acceptCh') <= AcceptCap
    BY <1>15, <2>1, AppendProperties, LenProperties DEF OfferStream
  <2> QED
    BY <1>15, <2>2 DEF OfferStream
<1>16. CASE UNCHANGED sent /\ Buffer
  <2>1. frame.id \in IDs /\ frame.n \in Nat
    BY <1>16 DEF Buffer, FrameInHand, StreamFrames
  <2>2. buf' \in [IDs -> Seq(Nat)] /\ arrived' \in [IDs -> Seq(Nat)]
    BY <1>16, <2>1, AppendProperties DEF Buffer
  <2> QED
    BY <1>16, <2>2 DEF Buffer
<1>17. CASE UNCHANGED sent /\ (Signal \/ HandleClose)
  BY <1>17 DEF Signal, HandleClose
<1>18. ASSUME NEW c \in Closers, UNCHANGED sent, CloseFlag(c) \/ CloseCancel(c) \/ CloseAccept(c) \/ CloseConn(c)
       PROVE  MuxTypes'
  BY <1>18 DEF CloseFlag, CloseCancel, CloseAccept, CloseConn
<1>19. ASSUME NEW c \in Closers, UNCHANGED sent, CloseStreams(c) PROVE MuxTypes'
  BY <1>19 DEF CloseStreams
<1> QED
  BY <1>2, <1>3, <1>4, <1>5, <1>6, <1>7, <1>8, <1>9, <1>10, <1>11, <1>12, <1>13, <1>14, <1>15, <1>16,
     <1>17, <1>18, <1>19 DEF Next, Step, LoopStep, ReadStep, CloseStep

\* The read loop takes a stream on only after it has looked its frame up.
LEMMA FrameStep == MuxInv /\ [Next]_allvars => FrameInHand'
<1> SUFFICES ASSUME MuxInv, [Next]_allvars PROVE FrameInHand'
  OBVIOUS
<1>0. MuxTypes /\ FrameInHand
  BY DEF MuxInv
<1> USE DEF FrameInHand
<1>1. CASE UNCHANGED <<loop, frame, panicked>>
  BY <1>0, <1>1
<1>2. CASE LoopRead /\ ~panicked
  <2>1. loop' \in {"close", "handle"} /\ panicked' = panicked
    BY <1>2 DEF LoopRead, session
  <2> QED
    BY <1>2, <2>1
<1>3. CASE LookUp /\ ~panicked
  <2>1. loop' = "create" => frame.id % 2 = 0
    BY <1>3 DEF LookUp
  <2>2. frame \in StreamFrames
    BY <1>0, <1>3 DEF LookUp, MuxTypes, Frames, ControlFrames
  <2>3. loop' \in {"buffer", "create", "read"} /\ frame' = frame /\ panicked' = panicked
    BY <1>3 DEF LookUp, session
  <2> QED
    BY <1>3, <2>1, <2>2, <2>3
<1>4. CASE CreateStream
  BY <1>0, <1>4 DEF CreateStream
<1>5. CASE OfferStream
  BY <1>0, <1>5 DEF OfferStream
<1>6. CASE (Buffer \/ Signal \/ HandleClose \/ HandlePing \/ LoopDone) /\ ~panicked
  BY <1>0, <1>6 DEF Buffer, Signal, HandleClose, HandlePing, LoopDone, session
<1>7. ASSUME NEW i \in IDs, CloseStream(i) \/ ResetStream(i) \/ ReadStart(i) \/ ReadCheck(i) \/ ReadWake(i)
                            \/ ReadCancelled(i)
      PROVE  UNCHANGED <<loop, frame, panicked>>
  BY <1>7 DEF CloseStream, ResetStream, ReadStart, ReadCheck, ReadWake, ReadCancelled, loops, session
<1>8. ASSUME NEW c \in Closers, CloseStreams(c) PROVE UNCHANGED <<loop, frame, panicked>>
  BY <1>8 DEF CloseStreams, loops
<1> QED
  BY <1>1, <1>2, <1>3, <1>4, <1>5, <1>6, <1>7, <1>8, MuxNextCases DEF LoopStep

\* Nobody is handed a stream that Close does not find or has not closed.
LEMMA MapGoneStep == MuxInv /\ [Next]_allvars => MapGone'
<1> SUFFICES ASSUME MuxInv, [Next]_allvars PROVE MapGone'
  OBVIOUS
<1>0. MuxTypes /\ FrameInHand /\ MapGone /\ 0 \notin IDs
  BY MuxAssumption DEF MuxInv
<1>1. ASSUME UNCHANGED <<cpc, sclosed, closed, streams>>, \A i \in IDs : Handed(i)' => Handed(i)
      PROVE  MapGone'
  BY <1>0, <1>1 DEF MapGone
<1>2. ASSUME UNCHANGED <<held, acceptCh, loop, frame>> PROVE \A i \in IDs : Handed(i)' <=> Handed(i)
  BY <1>2 DEF Handed
<1>3. CASE OpenStream
  <2>1. CASE UNCHANGED <<held, streams>>
    <3>1. UNCHANGED <<cpc, sclosed, closed, acceptCh, loop, frame>>
      BY <1>3 DEF OpenStream, stream, loops, callers
    <3> QED
      BY <1>1, <1>2, <2>1, <3>1
  <2>2. CASE streams' = streams \union {nextID} /\ held' = held \union {nextID}
    <3>1. UNCHANGED <<cpc, sclosed, closed, acceptCh, loop, frame>> /\ ~closed /\ nextID \in IDs
      BY <1>3 DEF OpenStream, stream, loops, callers
    <3>2. streams # Gone /\ streams' # Gone
      BY <1>0, <2>2, <3>1 DEF MapGone, Gone
    <3>3. \A i \in IDs : Handed(i)' => Handed(i) \/ i = nextID
      BY <2>2, <3>1 DEF Handed
    <3> QED
      BY <1>0, <2>2, <3>1, <3>2, <3>3 DEF MapGone
  <2> QED
    BY <1>3, <2>1, <2>2 DEF OpenStream
<1>4. CASE AcceptStream
  <2>1. acceptCh \in Seq(IDs) /\ acceptCh # <<>> /\ acceptCh' = Tail(acceptCh) /\ held' = held \union {Head(acceptCh)}
    BY <1>0, <1>4 DEF AcceptStream, MuxTypes
  <2>2. UNCHANGED <<cpc, sclosed, closed, streams, loop, frame>>
    BY <1>4 DEF AcceptStream, stream, loops, callers
  <2>3. \A i \in IDs : Handed(i)' => Handed(i)
    BY <2>1, <2>2 DEF Handed
  <2> QED
    BY <1>1, <2>2, <2>3
<1>5. CASE CreateStream
  <2>1. UNCHANGED <<cpc, sclosed, closed, held, acceptCh, frame>>
    BY <1>5 DEF CreateStream, stream, callers
  <2>2. CASE streams = Gone
    <3>1. streams' = streams /\ loop' = "dead"
      BY <1>5, <2>2 DEF CreateStream
    <3>2. \A i \in IDs : Handed(i)' => Handed(i)
      BY <2>1, <3>1 DEF Handed
    <3> QED
      BY <1>1, <2>1, <3>1, <3>2
  <2>3. CASE streams # Gone
    <3>1. streams' = streams \union {frame.id} /\ loop' = "offer" /\ frame.id \in IDs
      BY <1>0, <1>5, <2>3 DEF CreateStream, FrameInHand, StreamFrames
    <3>2. streams' # Gone
      BY <1>0, <3>1 DEF Gone
    <3>3. \A i \in IDs : Handed(i)' => Handed(i) \/ i = frame.id
      BY <2>1 DEF Handed
    <3> QED
      BY <1>0, <2>1, <2>3, <3>1, <3>2, <3>3 DEF MapGone
  <2> QED
    BY <2>2, <2>3
<1>6. CASE OfferStream
  <2>1. UNCHANGED <<cpc, sclosed, closed, streams, held, frame>> /\ loop = "offer" /\ loop' # "offer"
    BY <1>6 DEF OfferStream, stream, callers
  <2>2. acceptCh' = acceptCh \/ (acceptCh \in Seq(IDs) /\ frame.id \in IDs /\ acceptCh' = Append(acceptCh, frame.id))
    BY <1>0, <1>6 DEF OfferStream, MuxTypes, FrameInHand, StreamFrames
  <2>3. \A i \in IDs : Handed(i)' => Handed(i)
    BY <2>1, <2>2 DEF Handed
  <2> QED
    BY <1>1, <2>1, <2>3
<1>7. CASE LoopRead \/ LookUp \/ Buffer \/ Signal \/ HandlePing \/ LoopDone
  <2>1. UNCHANGED <<cpc, sclosed, closed, streams, held, acceptCh>>
    BY <1>7 DEF LoopRead, LookUp, Buffer, Signal, HandlePing, LoopDone, session, stream, callers
  <2>2. loop' # "offer"
    BY <1>7 DEF LoopRead, LookUp, Buffer, Signal, HandlePing, LoopDone
  <2>3. \A i \in IDs : Handed(i)' => Handed(i)
    BY <2>1, <2>2 DEF Handed
  <2> QED
    BY <1>1, <2>1, <2>3
<1>8. CASE HandleClose
  <2>1. UNCHANGED <<cpc, closed, streams, held, acceptCh, frame>> /\ loop' # "offer"
    BY <1>8 DEF HandleClose, session, callers
  <2>2. DOMAIN sclosed' = IDs /\ \A i \in IDs : sclosed[i] => sclosed'[i]
    BY <1>0, <1>8 DEF HandleClose, MapGone
  <2>3. \A i \in IDs : Handed(i)' => Handed(i)
    BY <2>1 DEF Handed
  <2> QED
    BY <1>0, <2>1, <2>2, <2>3 DEF MapGone
<1>9. ASSUME NEW j \in IDs, CloseStream(j) PROVE MapGone'
  <2>1. UNCHANGED <<cpc, closed, streams, held, acceptCh, loop, frame>>
    BY <1>9 DEF CloseStream, session, loops, callers
  <2>2. DOMAIN sclosed' = IDs /\ \A i \in IDs : sclosed[i] => sclosed'[i]
    BY <1>0, <1>9 DEF CloseStream, MapGone
  <2> QED
    BY <1>0, <1>2, <2>1, <2>2 DEF MapGone
<1>10. ASSUME NEW j \in IDs, ResetStream(j) \/ ReadStart(j) \/ ReadCheck(j) \/ ReadWake(j) \/ ReadCancelled(j)
                            \/ WriteStart(j) \/ WriteSend(j)
       PROVE  MapGone'
  <2>1. UNCHANGED <<cpc, sclosed, closed, streams, held, acceptCh, loop, frame>>
    BY <1>10 DEF ResetStream, ReadStart, ReadCheck, ReadWake, ReadCancelled, WriteStart, WriteSend, session, stream,
                 loops, callers
  <2> QED
    BY <1>1, <1>2, <2>1
<1>11. CASE KeepAlive \/ KeepAliveEnds \/ PeerSend \/ PeerControl \/ PeerEnds \/ UNCHANGED allvars
  <2>1. UNCHANGED <<cpc, sclosed, closed, streams, held, acceptCh, loop, frame>>
    BY <1>11 DEF KeepAlive, KeepAliveEnds, PeerSend, PeerControl, PeerEnds, allvars, vars, session, stream, loops,
                 callers
  <2> QED
    BY <1>1, <1>2, <2>1
<1>12. ASSUME NEW c \in Closers, CloseFlag(c) \/ CloseCancel(c) \/ CloseStreams(c) \/ CloseAccept(c) \/ CloseConn(c)
       PROVE  MapGone'
  <2>1. UNCHANGED <<held, acceptCh, loop, frame>>
    BY <1>12 DEF CloseFlag, CloseCancel, CloseStreams, CloseAccept, CloseConn, session, loops
  <2>2. \A i \in IDs : Handed(i)' <=> Handed(i)
    BY <1>2, <2>1
  <2>3. CASE CloseFlag(c)
    BY <1>0, <2>2, <2>3 DEF CloseFlag, MapGone, stream
  <2>4. CASE CloseCancel(c)
    BY <1>0, <2>2, <2>4 DEF CloseCancel, MapGone, stream
  <2>5. CASE CloseStreams(c)
    BY <1>0, <2>2, <2>5 DEF CloseStreams, MapGone
  <2>6. CASE CloseAccept(c)
    BY <1>0, <2>2, <2>6 DEF CloseAccept, MapGone, stream
  <2>7. CASE CloseConn(c)
    BY <1>0, <2>2, <2>7 DEF CloseConn, MapGone, stream, session
  <2> QED
    BY <1>12, <2>3, <2>4, <2>5, <2>6, <2>7
<1> QED
  BY <1>3, <1>4, <1>5, <1>6, <1>7, <1>8, <1>9, <1>10, <1>11, <1>12
  DEF Next, Step, LoopStep, ReadStep, CloseStep, allvars

\* Between the check of an empty buffer and the wait a token cannot get lost.
LEMMA WakeupStep == MuxInv /\ [Next]_allvars => NoLostWakeup'
<1> SUFFICES ASSUME MuxInv, [Next]_allvars, NEW i \in IDs, rpc'[i] = "wait", buf'[i] # <<>>
             PROVE  token'[i] = 1 \/ (loop' = "signal" /\ frame'.id = i)
  BY DEF NoLostWakeup
<1>0. /\ MuxTypes /\ FrameInHand
      /\ (rpc[i] = "wait" /\ buf[i] # <<>>) => (token[i] = 1 \/ (loop = "signal" /\ frame.id = i))
  BY DEF MuxInv, NoLostWakeup
<1> USE DEF MuxTypes
<1>1. CASE UNCHANGED <<stream, loop, frame, rpc>>
  BY <1>0, <1>1 DEF stream
<1>2. ASSUME NEW j \in IDs, CloseStream(j) \/ ResetStream(j) \/ ReadStart(j) \/ ReadWake(j) \/ ReadCancelled(j)
      PROVE  token'[i] = 1 \/ (loop' = "signal" /\ frame'.id = i)
  BY <1>0, <1>2 DEF CloseStream, ResetStream, ReadStart, ReadWake, ReadCancelled, stream, loops, callers
<1>3. ASSUME NEW j \in IDs, ReadCheck(j) PROVE token'[i] = 1 \/ (loop' = "signal" /\ frame'.id = i)
  BY <1>0, <1>3 DEF ReadCheck, loops
<1>4. CASE LoopRead \/ LookUp \/ CreateStream \/ OfferStream \/ HandlePing \/ LoopDone
  <2>1. UNCHANGED <<stream, rpc>> /\ loop # "signal"
    BY <1>4 DEF LoopRead, LookUp, CreateStream, OfferStream, HandlePing, LoopDone, callers
  <2> QED
    BY <1>0, <2>1 DEF stream
<1>5. CASE Buffer
  <2>1. frame.id \in IDs
    BY <1>0, <1>5 DEF Buffer, FrameInHand, StreamFrames
  <2> QED
    BY <1>0, <1>5, <2>1 DEF Buffer, callers
<1>6. CASE Signal
  <2>1. frame.id \in IDs
    BY <1>0, <1>6 DEF Signal, FrameInHand, StreamFrames
  <2> QED
    BY <1>0, <1>6, <2>1 DEF Signal, callers
<1>7. CASE HandleClose
  BY <1>0, <1>7 DEF HandleClose, callers
<1>8. ASSUME NEW c \in Closers, CloseStreams(c) PROVE token'[i] = 1 \/ (loop' = "signal" /\ frame'.id = i)
  BY <1>0, <1>8 DEF CloseStreams, loops
<1> QED
  BY <1>1, <1>2, <1>3, <1>4, <1>5, <1>6, <1>7, <1>8, MuxNextCases DEF LoopStep

\* Read moves data from the buffer's front, handleData adds it at its end.
LEMMA OrderStep == MuxInv /\ [Next]_allvars => StreamInOrder'
<1> SUFFICES ASSUME MuxInv, [Next]_allvars PROVE StreamInOrder'
  OBVIOUS
<1>0. MuxTypes /\ FrameInHand /\ StreamInOrder /\ BufCap \in Nat
  BY MuxAssumption DEF MuxInv
<1>1. ASSUME UNCHANGED <<buf, arrived, delivered>> PROVE StreamInOrder'
  BY <1>0, <1>1 DEF StreamInOrder
<1>2. ASSUME NEW j \in IDs, ReadCheck(j) PROVE StreamInOrder'
  <2>1. CASE buf[j] = <<>>
    BY <1>1, <1>2, <2>1 DEF ReadCheck
  <2>2. CASE buf[j] # <<>>
    <3>1. delivered'[j] \o buf'[j] = delivered[j] \o buf[j]
      <4>1. delivered'[j] = Append(delivered[j], Head(buf[j])) /\ buf'[j] = Tail(buf[j])
        BY <1>0, <1>2, <2>2 DEF ReadCheck, MuxTypes
      <4>2. delivered[j] \in Seq(Nat) /\ buf[j] \in Seq(Nat)
        BY <1>0 DEF MuxTypes
      <4> QED
        BY <2>2, <4>1, <4>2, MoveHead
    <3>2. \A i \in IDs \ {j} : delivered'[i] = delivered[i] /\ buf'[i] = buf[i]
      BY <1>0, <1>2, <2>2 DEF ReadCheck, MuxTypes
    <3>3. arrived' = arrived
      BY <1>2 DEF ReadCheck
    <3> QED
      BY <1>0, <3>1, <3>2, <3>3 DEF StreamInOrder
  <2> QED
    BY <2>1, <2>2
<1>3. CASE Buffer
  <2>1. PICK j \in IDs : j = frame.id
    BY <1>0, <1>3 DEF Buffer, FrameInHand, StreamFrames
  <2>2. PICK e \in Nat : e = frame.n
    BY <1>0, <1>3 DEF Buffer, FrameInHand, StreamFrames
  <2>3. /\ arrived'[j] = Append(arrived[j], e) /\ delivered' = delivered
        /\ buf'[j] = IF Len(arrived[j]) < BufCap THEN Append(buf[j], e) ELSE buf[j]
        /\ \A i \in IDs \ {j} : arrived'[i] = arrived[i] /\ buf'[i] = buf[i]
    BY <1>0, <1>3, <2>1, <2>2 DEF Buffer, MuxTypes
  <2>4. /\ arrived[j] \in Seq(Nat) /\ buf[j] \in Seq(Nat) /\ delivered[j] \in Seq(Nat)
        /\ Len(arrived[j]) \in Nat /\ Len(arrived'[j]) = Len(arrived[j]) + 1 /\ arrived'[j] \in Seq(Nat)
    BY <1>0, <2>3, LenProperties, AppendProperties DEF MuxTypes
  <2>5. CASE Len(arrived[j]) < BufCap
    <3>1. delivered[j] \o buf[j] = arrived[j]
      <4>1. SubSeq(arrived[j], 1, Len(arrived[j])) = arrived[j]
        BY <2>4, SubSeqFull
      <4> QED
        BY <1>0, <2>5, <4>1 DEF StreamInOrder
    <3>2. delivered'[j] \o buf'[j] = arrived'[j]
      <4>1. delivered[j] \o Append(buf[j], e) = Append(delivered[j] \o buf[j], e)
        <5>1. buf[j] \in Seq(Nat) /\ delivered[j] \in Seq(Nat)
          BY <2>4
        <5> QED
          BY <5>1, AppendBehind, Zenon
      <4> QED
        BY <2>3, <2>5, <3>1, <4>1
    <3>3. arrived'[j] = SubSeq(arrived'[j], 1, IF Len(arrived'[j]) < BufCap THEN Len(arrived'[j]) ELSE BufCap)
      BY <1>0, <2>4, <2>5, SubSeqFull
    <3> QED
      BY <1>0, <2>3, <3>2, <3>3 DEF StreamInOrder
  <2>6. CASE ~(Len(arrived[j]) < BufCap)
    <3>1. delivered'[j] \o buf'[j] = SubSeq(arrived[j], 1, BufCap)
      BY <1>0, <2>3, <2>4, <2>6 DEF StreamInOrder
    <3>2. SubSeq(arrived'[j], 1, BufCap) = SubSeq(arrived[j], 1, BufCap)
      BY <1>0, <2>3, <2>4, <2>6, PrefixKept
    <3>3. ~(Len(arrived'[j]) < BufCap)
      BY <1>0, <2>4, <2>6
    <3> QED
      BY <1>0, <2>3, <3>1, <3>2, <3>3 DEF StreamInOrder
  <2> QED
    BY <2>5, <2>6
<1>4. CASE LoopStep /\ ~Buffer
  BY <1>1, <1>4 DEF LoopStep, LoopRead, LookUp, CreateStream, OfferStream, Signal, HandleClose, HandlePing,
                    LoopDone, stream
<1>5. ASSUME NEW i \in IDs, CloseStream(i) \/ ResetStream(i) \/ ReadStart(i) \/ ReadWake(i) \/ ReadCancelled(i)
      PROVE  StreamInOrder'
  BY <1>1, <1>5 DEF CloseStream, ResetStream, ReadStart, ReadWake, ReadCancelled, stream
<1>6. ASSUME NEW c \in Closers, CloseStreams(c) PROVE StreamInOrder'
  BY <1>1, <1>6 DEF CloseStreams
<1>7. CASE UNCHANGED stream
  BY <1>1, <1>7 DEF stream
<1> QED
  BY <1>2, <1>3, <1>4, <1>5, <1>6, <1>7, MuxNextCases

\* The inductive invariant of the session holds in every reachable state.
THEOREM MuxInvariant == Spec => []MuxInv
<1>1. MuxInv /\ [Next]_allvars => MuxInv'
  BY MuxTypesStep, FrameStep, MapGoneStep, WakeupStep, OrderStep DEF MuxInv
<1>2. MuxInv /\ [Next]_<<vars, sent>> => MuxInv'
  BY <1>1 DEF allvars
<1> QED
  BY <1>2, MuxInvInit, PTL DEF Spec

\* The session's state keeps its type: the accept channel and the buffers of the
\* streams never hold more than they were made for, although handleData neither
\* waits for room in them nor is told how much there is.
THEOREM MuxTypeCorrect == Spec => []TypeOK
<1>1. MuxInv => TypeOK
  <2> SUFFICES ASSUME MuxInv PROVE TypeOK
    OBVIOUS
  <2>0. MuxTypes /\ StreamInOrder /\ BufCap \in Nat
    BY MuxAssumption DEF MuxInv
  <2>1. Range(acceptCh) \subseteq IDs
    BY <2>0, RangeOfSeq DEF MuxTypes
  <2>2. ASSUME NEW i \in IDs PROVE Len(buf[i]) <= BufCap
    <3>1. buf[i] \in Seq(Nat) /\ delivered[i] \in Seq(Nat) /\ arrived[i] \in Seq(Nat)
      BY <2>0 DEF MuxTypes
    <3>2. Len(arrived[i]) \in Nat /\ Len(buf[i]) \in Nat
      BY <3>1, LenProperties
    <3>3. CASE Len(arrived[i]) < BufCap
      <4>1. delivered[i] \o buf[i] = SubSeq(arrived[i], 1, Len(arrived[i]))
        BY <2>0, <3>3 DEF StreamInOrder
      <4>2. Len(arrived[i]) <= Len(arrived[i])
        BY <3>2
      <4>3. Len(buf[i]) <= Len(arrived[i])
        BY <3>1, <3>2, <4>1, <4>2, WithinPrefix, Zenon
      <4> QED
        BY <2>0, <3>2, <3>3, <4>3
    <3>4. CASE ~(Len(arrived[i]) < BufCap)
      <4>1. delivered[i] \o buf[i] = SubSeq(arrived[i], 1, BufCap)
        BY <2>0, <3>4 DEF StreamInOrder
      <4>2. BufCap <= Len(arrived[i])
        BY <2>0, <3>2, <3>4
      <4> QED
        BY <2>0, <3>1, <4>1, <4>2, WithinPrefix
    <3> QED
      BY <3>3, <3>4
  <2> QED
    BY <2>0, <2>1, <2>2 DEF MuxTypes, TypeOK
<1> QED
  BY <1>1, MuxInvariant, PTL

\* handleData and Read: a reader that waits although its buffer holds data has a
\* token or is about to be given one, for every interleaving of the read loop,
\* the readers, Close and the peer.
THEOREM WakeupKept == Spec => []NoLostWakeup
<1>1. MuxInv => NoLostWakeup
  BY DEF MuxInv
<1> QED
  BY <1>1, MuxInvariant, PTL

\* handleData and Read: a stream delivers its data in order, each frame once, up
\* to what its buffer takes in all.
THEOREM DataInOrder == Spec => []StreamInOrder
<1>1. MuxInv => StreamInOrder
  BY DEF MuxInv
<1> QED
  BY <1>1, MuxInvariant, PTL

\* OpenStream, handleData and Close: once Close has been through the streams, each
\* one that the program holds or may accept is closed, whoever opened, created or
\* accepted it while Close ran.
THEOREM ClosedWithSession == Spec => []NoStreamOutlivesClose
<1>1. MuxInv => NoStreamOutlivesClose
  <2> SUFFICES ASSUME MuxInv, NEW c \in Closers, cpc[c] \in {"acceptCh", "wait"},
                      NEW i \in held \union Range(acceptCh)
               PROVE  sclosed[i]
    BY DEF NoStreamOutlivesClose
  <2>1. MuxTypes /\ MapGone /\ 0 \notin IDs
    BY MuxAssumption DEF MuxInv
  <2>2. i \in IDs /\ Handed(i)
    BY <2>1, RangeOfSeq DEF MuxTypes, Handed, Range
  <2>3. streams = Gone
    BY <2>1 DEF MapGone
  <2> QED
    BY <2>1, <2>2, <2>3 DEF MapGone, Gone
<1> QED
  BY <1>1, MuxInvariant, PTL

-----------------------------------------------------------------------------
\* Every stream this end knows or hears of has an odd id, as OpenStream gives
\* them out at both ends.
OddStreams ==
  /\ nextID % 2 = 1 /\ \A i \in held : i % 2 = 1
  /\ \A k \in DOMAIN acceptCh : acceptCh[k] % 2 = 1
  /\ \A k \in DOMAIN inbox : inbox[k] \in StreamFrames => inbox[k].id % 2 = 1
  /\ frame \in StreamFrames => frame.id % 2 = 1

\* OpenStream, handleData and Close: against a peer whose streams have odd ids,
\* as a peer that runs this code gives them, the read loop never panics,
\* whatever happens when.
THEOREM OddPeerNoPanic ==
  ASSUME \A i \in PeerIDs : i % 2 = 1
  PROVE  Spec => []~panicked
<1>1. Init /\ sent = 0 => OddStreams
  BY DEF Init, OddStreams, Frame, StreamFrames
<1>2. MuxInv /\ OddStreams /\ [Next]_<<vars, sent>> => OddStreams'
  <2> SUFFICES ASSUME MuxInv, OddStreams, [Next]_<<vars, sent>> PROVE OddStreams'
    OBVIOUS
  <2>0. MuxTypes /\ FrameInHand
    BY DEF MuxInv
  <2> USE DEF OddStreams
  <2>1. CASE UNCHANGED <<nextID, held, acceptCh, inbox, frame>>
    BY <2>1
  <2>2. CASE OpenStream
    <3>1. /\ \/ UNCHANGED <<held, nextID>>
             \/ held' = held \union {nextID} /\ nextID' = nextID + 2
          /\ UNCHANGED <<acceptCh, inbox, frame>>
      BY <2>2, Zenon DEF OpenStream, wire, loops
    <3>2. nextID \in Nat
      BY <2>0 DEF MuxTypes
    <3> QED
      BY <3>1, <3>2
  <2>3. CASE AcceptStream
    <3>1. acceptCh \in Seq(IDs) /\ acceptCh # <<>>
      BY <2>0, <2>3 DEF AcceptStream, MuxTypes
    <3>2. Head(acceptCh) % 2 = 1 /\ \A k \in DOMAIN Tail(acceptCh) : Tail(acceptCh)[k] % 2 = 1
      BY <3>1
    <3> QED
      BY <2>3, <3>2 DEF AcceptStream, wire, loops
  <2>4. CASE OfferStream
    BY <2>0, <2>4 DEF OfferStream, FrameInHand
  <2>5. CASE LoopRead
    <3>1. CASE inbox' = inbox /\ frame' = frame
      BY <2>5, <3>1 DEF LoopRead, session
    <3>2. CASE inbox # <<>> /\ inbox' = Tail(inbox) /\ frame' = Head(inbox)
      <4>1. inbox \in Seq(Frames)
        BY <2>0 DEF MuxTypes
      <4>2. /\ Head(inbox) \in StreamFrames => Head(inbox).id % 2 = 1
            /\ \A k \in DOMAIN Tail(inbox) : Tail(inbox)[k] \in StreamFrames => Tail(inbox)[k].id % 2 = 1
        BY <3>2, <4>1
      <4> QED
        BY <2>5, <3>2, <4>2 DEF LoopRead, session
    <3> QED
      BY <2>5, <3>1, <3>2 DEF LoopRead
  <2>6. CASE PeerSend
    <3>1. PICK type \in {"Data", "Close", "Reset"}, i \in held \union PeerIDs :
            inbox' = Append(inbox, Frame(type, i, sent + 1))
      BY <2>6 DEF PeerSend
    <3>2. i % 2 = 1 /\ inbox \in Seq(Frames)
      BY <2>0 DEF MuxTypes
    <3>3. \A k \in DOMAIN inbox' : inbox'[k] \in StreamFrames => inbox'[k].id % 2 = 1
      BY <3>1, <3>2 DEF Frame
    <3> QED
      BY <2>6, <3>3 DEF PeerSend, session, loops
  <2>7. CASE PeerControl
    <3>1. PICK type \in {"Ping", "Pong", "GoAway"} : inbox' = Append(inbox, Frame(type, 0, 0))
      BY <2>7 DEF PeerControl
    <3>2. Frame(type, 0, 0) \notin StreamFrames /\ inbox \in Seq(Frames)
      BY <2>0 DEF MuxTypes, Frame, StreamFrames
    <3>3. \A k \in DOMAIN inbox' : inbox'[k] \in StreamFrames => inbox'[k].id % 2 = 1
      BY <3>1, <3>2
    <3> QED
      BY <2>7, <3>3 DEF PeerControl, session, loops
  <2> QED
    BY <2>1, <2>2, <2>3, <2>4, <2>5, <2>6, <2>7
    DEF Next, Step, LoopStep, ReadStep, CloseStep, KeepAlive, KeepAliveEnds, PeerEnds, WriteStart, WriteSend,
        CloseFlag, CloseCancel, CloseAccept, CloseConn, CloseStreams, CloseStream, ResetStream, ReadStart,
        ReadCheck, ReadWake, ReadCancelled, LookUp, CreateStream, Buffer, Signal, HandleClose, HandlePing,
        LoopDone, vars, wire, session, stream, loops, callers
<1>3. Init => ~panicked
  BY DEF Init
<1>4. MuxInv /\ OddStreams /\ ~panicked /\ [Next]_<<vars, sent>> => ~panicked'
  <2> SUFFICES ASSUME MuxInv, OddStreams, ~panicked, [Next]_<<vars, sent>>, panicked' PROVE FALSE
    OBVIOUS
  <2>1. loop \in {"create", "offer"}
    BY DEF Next, Step, LoopStep, ReadStep, CloseStep, OpenStream, AcceptStream, KeepAlive, KeepAliveEnds, PeerSend,
       PeerControl, PeerEnds, WriteStart, WriteSend, CloseFlag, CloseCancel, CloseAccept, CloseConn, CloseStreams,
       CloseStream, ResetStream, ReadStart, ReadCheck, ReadWake, ReadCancelled, LoopRead, LookUp, CreateStream,
       OfferStream, Buffer, Signal, HandleClose, HandlePing, LoopDone, vars, session
  <2>2. frame \in StreamFrames /\ frame.id % 2 = 0 /\ frame.id % 2 = 1
    BY <2>1 DEF MuxInv, FrameInHand, OddStreams
  <2> QED
    BY <2>2
<1> QED
  BY <1>1, <1>2, <1>3, <1>4, MuxInvariant, PTL DEF Spec

=============================================================================
