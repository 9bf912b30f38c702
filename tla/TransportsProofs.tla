-------------------------- MODULE TransportsProofs --------------------------
(***************************************************************************)
(* Proofs about DCCPHandshake, Congestion, BBR and XHTTP as MCTransports   *)
(* puts them side by side, for any number of retries, packets, losses,     *)
(* streams and calls, any round trips and any bandwidth-delay products;    *)
(* what bounds the retransmission timeout is named where that is proved.   *)
(***************************************************************************)
EXTENDS MCTransports, SequenceTheorems, TLAPS

\* What Min and Max of two integers are, in the modules that use them.
LEMMA MinMax ==
  ASSUME NEW a \in Int, NEW b \in Int
  PROVE  /\ Control!Min({a, b}) = IF a <= b THEN a ELSE b
         /\ Bbr!Min({a, b}) = IF a <= b THEN a ELSE b
         /\ Bbr!Max({a, b}) = IF a <= b THEN b ELSE a
BY DEF Control!Min, Bbr!Min, Bbr!Max

-----------------------------------------------------------------------------
(***************************************************************************)
(* XHTTP                                                                   *)
(***************************************************************************)
\* Types, as far as the buffers of the streams and who reads them depend on them
XTypes ==
  /\ xinbox \in Seq(Xhttp!Frames)
  /\ acceptCh \in Seq(Streams) /\ DOMAIN readBuf = Streams
  /\ stream \in Streams \union {0}
  /\ reader \in {"idle", "accept", "check", "gap", "waiting"}
  /\ loop \in {"lookUp", "deliver", "handleClose"} => frame \in Xhttp!StreamFrames

\* Who holds the wrapper's lock; a reader keeps it while it waits.
LockHeld ==
  /\ reader # "idle" => wmu = "reader"
  /\ writer # "idle" => wmu = "writer"
  /\ closer \in {"swap", "wait"} => wmu = "closer"

\* A reader that waits or is about to has a stream, whose buffer it found empty.
FoundEmpty ==
  /\ reader \in {"check", "gap", "waiting"} => stream \in Streams
  /\ reader \in {"gap", "waiting"} => readBuf[stream] = <<>>

XHTTPInv == XTypes /\ LockHeld /\ FoundEmpty

LEMMA XHTTPInit == Xhttp!Init => XHTTPInv
BY DEF Xhttp!Init, Xhttp!NewWrapper, Xhttp!None, XHTTPInv, XTypes, LockHeld, FoundEmpty

\* The read loop appends to a buffer and wakes its reader in one step, which
\* cannot fall between the reader's check and its wait.
LEMMA XHTTPStep == XHTTPInv /\ [Xhttp!Next]_xhttpVars => XHTTPInv'
<1> SUFFICES ASSUME XHTTPInv, [Xhttp!Next]_xhttpVars PROVE XHTTPInv'
  OBVIOUS
<1> USE TransportAssumption DEF XHTTPInv, XTypes, LockHeld, FoundEmpty, Xhttp!peer, Xhttp!connection,
        Xhttp!buffers, Xhttp!wrapper, Xhttp!None
<1>1. CASE Xhttp!PeerSend
  <2>1. PICK f \in Xhttp!Frames : xinbox' = Append(xinbox, f)
    BY <1>1 DEF Xhttp!PeerSend
  <2>2. xinbox' \in Seq(Xhttp!Frames)
    BY <2>1, AppendProperties
  <2> QED
    BY <1>1, <2>2 DEF Xhttp!PeerSend
<1>2. CASE Xhttp!PeerClose \/ Xhttp!LoopCheck \/ Xhttp!LoopReadFails
  BY <1>2 DEF Xhttp!PeerClose, Xhttp!LoopCheck, Xhttp!LoopReadFails
<1>3. CASE Xhttp!LoopRead
  <2>1. Head(xinbox) \in Xhttp!Frames /\ Tail(xinbox) \in Seq(Xhttp!Frames)
    BY <1>3, HeadTailProperties DEF Xhttp!LoopRead
  <2>2. loop' \in {"lookUp", "deliver", "handleClose"} => frame' \in Xhttp!StreamFrames
    BY <1>3, <2>1 DEF Xhttp!LoopRead, Xhttp!Frames, Xhttp!StreamFrames
  <2> QED
    BY <1>3, <2>1, <2>2 DEF Xhttp!LoopRead
<1>4. CASE Xhttp!HandleData
  <2>1. frame \in Xhttp!StreamFrames /\ frame.id \in Streams
    BY <1>4 DEF Xhttp!HandleData, Xhttp!StreamFrames
  <2>2. acceptCh' \in Seq(Streams)
    BY <1>4, <2>1, AppendProperties DEF Xhttp!HandleData
  <2> QED
    BY <1>4, <2>1, <2>2 DEF Xhttp!HandleData
<1>5. CASE Xhttp!Deliver
  <2>1. frame.id \in Streams
    BY <1>5 DEF Xhttp!Deliver, Xhttp!StreamFrames
  <2>2. DOMAIN readBuf' = Streams
    BY <1>5, <2>1 DEF Xhttp!Deliver
  <2>3. reader' \in {"idle", "accept", "check", "gap", "waiting"} /\ LockHeld'
    BY <1>5 DEF Xhttp!Deliver, Xhttp!Signal
  <2>4. FoundEmpty'
    BY <1>5, <2>1 DEF Xhttp!Deliver, Xhttp!Signal
  <2> QED
    BY <1>5, <2>2, <2>3, <2>4 DEF Xhttp!Deliver
<1>6. CASE Xhttp!HandleClose
  BY <1>6 DEF Xhttp!HandleClose, Xhttp!Signal
<1>7. CASE Xhttp!LoopDefer
  BY <1>7 DEF Xhttp!LoopDefer
<1>8. CASE Xhttp!Read
  BY <1>8 DEF Xhttp!Read
<1>9. CASE Xhttp!AcceptStream
  BY <1>9, HeadTailProperties DEF Xhttp!AcceptStream
<1>10. CASE Xhttp!AcceptFails \/ Xhttp!Wait
  BY <1>10 DEF Xhttp!AcceptFails, Xhttp!Wait
<1>11. CASE Xhttp!ReadCheck
  BY <1>11 DEF Xhttp!ReadCheck
<1>12. CASE Xhttp!Write
  BY <1>12 DEF Xhttp!Write, Xhttp!OpenStream
<1>13. CASE Xhttp!WriteFrame \/ Xhttp!Close
  BY <1>13 DEF Xhttp!WriteFrame, Xhttp!Close
<1>14. CASE Xhttp!CloseStream
  BY <1>14 DEF Xhttp!CloseStream, Xhttp!StreamClose
<1>15. CASE Xhttp!CloseSwap \/ Xhttp!CloseConn
  BY <1>15 DEF Xhttp!CloseSwap, Xhttp!CloseConn
<1>16. CASE UNCHANGED xhttpVars
  BY <1>16 DEF xhttpVars
<1> QED
  BY <1>1, <1>2, <1>3, <1>4, <1>5, <1>6, <1>7, <1>8, <1>9, <1>10, <1>11, <1>12, <1>13, <1>14, <1>15, <1>16
  DEF Xhttp!Next, Xhttp!LoopStep, Xhttp!ReaderStep, Xhttp!CloserStep

-----------------------------------------------------------------------------
(***************************************************************************)
(* DCCPHandshake                                                           *)
(***************************************************************************)
\* How far the exchange of a server has come at each place of its handshake.
ServerProgress == role = "server" =>
  /\ pc \in {"read", "respond", "readAck", "returned"}
  /\ pc = "read" => taken = <<>> /\ out = <<>> /\ state = "Closed"
  /\ pc = "respond" => taken = <<"Request">> /\ out = <<>> /\ state = "Respond"
  /\ pc = "readAck" => taken = <<"Request">> /\ out = <<"Response">> /\ state = "Respond"

HandshakeInv == TypeOK /\ ServerProgress /\ OpenAfterExchange

LEMMA HandshakeInit == Init => HandshakeInv
BY HandshakeAssumption DEF Init, HandshakeInv, TypeOK, ServerProgress, OpenAfterExchange

LEMMA HandshakeTypeStep == TypeOK /\ [Next]_vars => TypeOK'
<1> SUFFICES ASSUME TypeOK, [Next]_vars PROVE TypeOK'
  OBVIOUS
<1> USE HandshakeAssumption DEF TypeOK, network, Returns, Retry
<1>1. ASSUME NEW p \in Packets, PeerSend(p) PROVE TypeOK'
  <2>1. inbox' \in Seq(Packets)
    BY <1>1, AppendProperties DEF PeerSend
  <2> QED
    BY <1>1, <2>1 DEF PeerSend
<1>2. CASE PeerClose \/ Expire \/ Close
  BY <1>2 DEF PeerClose, Expire, Close
<1>3. CASE ClientWrites \/ ClientFailsToWrite \/ ClientFailsToRead \/ ClientAcks
  BY <1>3 DEF ClientWrites, ClientFailsToWrite, ClientFailsToRead, ClientAcks
<1>4. CASE ClientReads
  <2>1. inbox' \in Seq(Packets)
    BY <1>4, HeadTailProperties DEF ClientReads, ReadTakes
  <2> QED
    BY <1>4, <2>1 DEF ClientReads
<1>5. CASE ServerFailsToRead \/ ServerResponds
  BY <1>5 DEF ServerFailsToRead, ServerResponds
<1>6. CASE ServerReads
  <2>1. inbox' \in Seq(Packets)
    BY <1>6, HeadTailProperties DEF ServerReads, ReadTakes
  <2> QED
    BY <1>6, <2>1 DEF ServerReads
<1>7. CASE ServerReadsAck
  <2>1. inbox' \in Seq(Packets)
    BY <1>7, HeadTailProperties DEF ServerReadsAck, ReadTakes
  <2> QED
    BY <1>7, <2>1 DEF ServerReadsAck
<1>8. CASE DecodePanics
  <2>1. inbox' \in Seq(Packets)
    BY <1>8, HeadTailProperties DEF DecodePanics
  <2> QED
    BY <1>8, <2>1 DEF DecodePanics
<1>9. CASE UNCHANGED vars
  BY <1>9 DEF vars
<1> QED
  BY <1>1, <1>2, <1>3, <1>4, <1>5, <1>6, <1>7, <1>8, <1>9 DEF Next, HandshakeStep

\* The server cannot be overtaken: each of its steps needs the one before it.
LEMMA HandshakeProgressStep == HandshakeInv /\ [Next]_vars => ServerProgress' /\ OpenAfterExchange'
<1> SUFFICES ASSUME HandshakeInv, [Next]_vars PROVE ServerProgress' /\ OpenAfterExchange'
  OBVIOUS
<1> USE DEF HandshakeInv, ServerProgress, OpenAfterExchange, Returns
<1>1. CASE UNCHANGED <<role, pc, taken, out, state>>
  BY <1>1
<1>2. CASE ClientWrites \/ ClientFailsToWrite \/ ClientFailsToRead \/ ClientReads \/ ClientAcks
  BY <1>2 DEF ClientWrites, ClientFailsToWrite, ClientFailsToRead, ClientReads, ClientAcks
<1>3. CASE ServerFailsToRead
  BY <1>3 DEF ServerFailsToRead
<1>4. CASE ServerReads
  <2>1. \/ pc' = "returned" /\ UNCHANGED <<role, taken, out, state>>
        \/ UNCHANGED <<role, pc, taken, out, state>>
        \/ pc' = "respond" /\ state' = "Respond" /\ taken' = Append(taken, "Request") /\ UNCHANGED <<role, out>>
    BY <1>4 DEF ServerReads
  <2> QED
    BY <1>4, <2>1 DEF ServerReads
<1>5. CASE ServerResponds
  <2>1. /\ \/ pc' = "readAck" /\ out' = Append(out, "Response")
           \/ pc' = "returned" /\ out' = out
        /\ UNCHANGED <<role, taken, state>> /\ role = "server" /\ pc = "respond"
    BY <1>5, Zenon DEF ServerResponds
  <2> QED
    BY <2>1
<1>6. CASE ServerReadsAck
  <2>1. /\ \/ state' = "Open" /\ taken' = Append(taken, "Ack")
           \/ UNCHANGED <<state, taken>>
        /\ UNCHANGED <<role, out>> /\ role = "server" /\ pc = "readAck" /\ pc' = "returned"
    BY <1>6, Zenon DEF ServerReadsAck
  <2>2. Append(<<"Request">>, "Ack") = <<"Request", "Ack">>
    <3> DEFINE S == {"Request", "Ack"}
               a == Append(<<"Request">>, "Ack")
               b == <<"Request", "Ack">>
    <3>1. a \in Seq(S) /\ b \in Seq(S) /\ Len(a) = 2 /\ Len(b) = 2
      OBVIOUS
    <3>2. \A k \in 1..Len(a) : a[k] = b[k]
      OBVIOUS
    <3>3. Len(a) = Len(b)
      BY <3>1
    <3> HIDE DEF S, a, b
    <3>4. a = b
      BY <3>1, <3>2, <3>3, SeqEqual, Zenon
    <3> QED
      BY <3>4 DEF a, b
  <2> QED
    BY <2>1, <2>2
<1>7. CASE Close
  BY <1>7 DEF Close
<1> QED
  BY <1>1, <1>2, <1>3, <1>4, <1>5, <1>6, <1>7
     DEF Next, HandshakeStep, DecodePanics, PeerSend, PeerClose, Expire, vars

-----------------------------------------------------------------------------
(***************************************************************************)
(* Congestion                                                              *)
(***************************************************************************)
\* No window counts more packets than are outstanding, and none closes entirely.
ControlInv ==
  /\ ccid \in 2..4 /\ inFlight \in Int /\ outstanding \in Nat
  /\ ccid # 3 => inFlight <= outstanding
  /\ ccid = 2 => cwnd \in Nat /\ cwnd >= 100
  /\ ccid = 4 => cwnd \in Nat /\ cwnd >= 200 /\ maxInFlight \in Nat /\ maxInFlight >= 2

LEMMA ControlInit == Control!Init => ControlInv
BY DEF Control!Init, ControlInv, Control!FirstWindow, Control!NewCCID2, Control!NewCCID3, Control!NewCCID4,
       Control!Packet, Control!MaxFloat

LEMMA ControlStep == ControlInv /\ [Control!Next]_controlVars => ControlInv'
<1> SUFFICES ASSUME ControlInv, [Control!Next]_controlVars PROVE ControlInv'
  OBVIOUS
<1> USE TransportAssumption DEF ControlInv, Control!Packet, Control!MaxFloat, Control!AtLeast, Control!window,
        Control!rates, Control!estimate
<1>1. CASE Control!OnPacketSent
  BY <1>1 DEF Control!OnPacketSent, Control!Sent2, Control!Sent3, Control!Sent4
<1>2. CASE Control!OnPacketLost /\ ccid = 2
  BY <1>2 DEF Control!OnPacketLost, Control!Lost2, Control!Reported
<1>3. CASE Control!OnPacketLost /\ ccid = 3
  BY <1>3 DEF Control!OnPacketLost, Control!Lost3, Control!Reported
<1>4. CASE Control!OnPacketLost /\ ccid = 4
  BY <1>4 DEF Control!OnPacketLost, Control!Lost4, Control!Reported
<1>5. ASSUME NEW rtt \in RTTs, Control!OnPacketAcked(rtt), ccid = 2 PROVE ControlInv'
  BY <1>5 DEF Control!OnPacketAcked, Control!Acked2, Control!Reported
<1>6. ASSUME NEW rtt \in RTTs, Control!OnPacketAcked(rtt), ccid = 3 PROVE ControlInv'
  BY <1>6 DEF Control!OnPacketAcked, Control!Acked3, Control!Reported
<1>7. ASSUME NEW rtt \in RTTs, Control!OnPacketAcked(rtt), ccid = 4 PROVE ControlInv'
  <2>1. ccid # 2 /\ ccid # 3
    BY <1>7
  <2>2. /\ ccid' = ccid /\ inFlight' = Control!AtLeast(inFlight - 1, 0) /\ Control!Reported
        /\ cwnd' = Control!Min({(cwnd * 3) \div 2, MaxWindow * 100}) /\ maxInFlight' = cwnd' \div 100
    BY <1>7, <2>1, Zenon DEF Control!OnPacketAcked, Control!Acked4
  <2>3. (cwnd * 3) \div 2 \in Nat /\ (cwnd * 3) \div 2 >= 200 /\ MaxWindow * 100 \in Nat /\ MaxWindow * 100 >= 200
    BY <1>7
  <2>4. cwnd' \in {(cwnd * 3) \div 2, MaxWindow * 100}
    BY <2>2, <2>3, MinMax
  <2>5. cwnd' \in Nat /\ cwnd' >= 200
    BY <2>3, <2>4
  <2> QED
    BY <1>7, <2>2, <2>5 DEF Control!Reported
<1>8. CASE Control!Reset
  BY <1>8 DEF Control!Reset, Control!Reset2, Control!Reset3, Control!Reset4, Control!FirstWindow,
              Control!NewCCID2, Control!NewCCID3, Control!NewCCID4
<1>9. CASE UNCHANGED controlVars
  BY <1>9 DEF controlVars
<1> QED
  BY <1>1, <1>2, <1>3, <1>4, <1>5, <1>6, <1>7, <1>8, <1>9 DEF Control!Next

-----------------------------------------------------------------------------
(***************************************************************************)
(* BBR                                                                     *)
(***************************************************************************)
\* The window never falls below its first size, and what inflight counts is
\* outstanding, in spite of the modulus.
BbrInv ==
  /\ mode \in {"Startup", "Drain", "ProbeRTT"} /\ cwndGain \in Nat
  /\ bcwnd \in Nat /\ bcwnd >= 1000
  /\ inflight \in Nat /\ boutstanding \in Nat /\ inflight <= boutstanding

LEMMA ModulusBelow ==
  ASSUME NEW a \in Nat, NEW w \in Nat \ {0}
  PROVE  a % w \in Nat /\ a % w <= a
<1>1. a % w \in 0..w - 1
  OBVIOUS
<1>2. CASE a < w
  <2>1. a % w = a
    BY <1>2
  <2> QED
    BY <2>1
<1>3. CASE ~(a < w)
  BY <1>1, <1>3
<1> QED
  BY <1>2, <1>3

LEMMA Clamped ==
  ASSUME NEW w \in Int
  PROVE  Bbr!Clamp(w) \in Nat /\ Bbr!Clamp(w) >= 1000
<1>1. Bbr!Max({w, 1000}) \in Int /\ Bbr!Max({w, 1000}) >= 1000
  <2>1. Bbr!Max({w, 1000}) = IF w <= 1000 THEN 1000 ELSE w
    <3>1. PICK k \in Int : k = 1000
      OBVIOUS
    <3>2. Bbr!Max({w, k}) = IF w <= k THEN k ELSE w
      BY MinMax, Zenon
    <3> QED
      BY <3>1, <3>2
  <2> QED
    BY <2>1
<1> DEFINE m == Bbr!Max({w, 1000})
<1>2. Bbr!Min({m, 60000}) \in Nat /\ Bbr!Min({m, 60000}) >= 1000
  <2> HIDE DEF m
  <2>1. m \in Int /\ m >= 1000
    BY <1>1 DEF m
  <2>2. m \in Int
    BY <2>1
  <2>3. PICK k \in Int : k = 60000
    OBVIOUS
  <2>4. Bbr!Min({m, k}) = IF m <= k THEN m ELSE k
    BY <2>2, MinMax, Zenon
  <2> QED
    BY <2>1, <2>3, <2>4
<1>3. Bbr!Clamp(w) = Bbr!Min({m, 60000})
  BY DEF Bbr!Clamp, Bbr!InitCWND, Bbr!MaxCWND, Bbr!Packet
<1> QED
  BY <1>2, <1>3

LEMMA BbrInit == Bbr!Init => BbrInv
BY DEF Bbr!Init, BbrInv, Bbr!InitCWND, Bbr!StartupGain, Bbr!Packet

LEMMA BbrStep == BbrInv /\ [Bbr!Next]_bbrVars => BbrInv'
<1> SUFFICES ASSUME BbrInv, [Bbr!Next]_bbrVars PROVE BbrInv'
  OBVIOUS
<1> USE DEF BbrInv, Bbr!Packet, Bbr!InitCWND, Bbr!StartupGain, Bbr!bandwidth, Bbr!startup, Bbr!calls
<1>0. Wrap \in Nat \ {0} /\ BDPs \subseteq Nat
  BY TransportAssumption
<1>1. CASE Bbr!OnPacketSent
  <2>1. (inflight + 1) % Wrap \in Nat /\ (inflight + 1) % Wrap <= inflight + 1
    BY <1>0, ModulusBelow
  <2> QED
    BY <1>1, <2>1 DEF Bbr!OnPacketSent
\* What a report does to the two counts
<1>2. ASSUME inflight' = Bbr!TakeOut(inflight), Bbr!Reported
      PROVE  inflight' \in Nat /\ boutstanding' \in Nat /\ inflight' <= boutstanding'
  <2>1. CASE inflight > 0
    <3>1. (inflight - 1) % Wrap \in Nat /\ (inflight - 1) % Wrap <= inflight - 1
      <4>1. inflight - 1 \in Nat
        BY <2>1
      <4> QED
        BY <1>0, <4>1, ModulusBelow
    <3>2. inflight' = (inflight - 1) % Wrap
      BY <1>2, <2>1 DEF Bbr!TakeOut
    <3> QED
      BY <1>2, <2>1, <3>1, <3>2 DEF Bbr!Reported
  <2>2. CASE ~(inflight > 0)
    BY <1>2, <2>2 DEF Bbr!TakeOut, Bbr!Reported
  <2> QED
    BY <2>1, <2>2
<1>3. ASSUME NEW ecn \in BOOLEAN, Bbr!OnPacketLost(ecn) PROVE BbrInv'
  <2>0. bcwnd' = Bbr!Max({(bcwnd * Bbr!LossFactor(ecn)) \div 100, 10 * 100})
    BY <1>3 DEF Bbr!OnPacketLost
  <2>1. Bbr!LossFactor(ecn) \in {70, 80, 85}
    BY ZenonT(60) DEF Bbr!LossFactor
  <2>2. bcwnd' \in Nat /\ bcwnd' >= 1000
    <3>0. PICK k \in Int : k = bcwnd * Bbr!LossFactor(ecn)
      BY <2>1
    <3>1. PICK w \in Int : w = (bcwnd * Bbr!LossFactor(ecn)) \div 100
      BY <3>0
    <3>2. bcwnd' = Bbr!Max({w, 1000})
      BY <2>0, <3>1
    <3>3. Bbr!Max({w, 1000}) = IF w <= 1000 THEN 1000 ELSE w
      BY MinMax
    <3> QED
      BY <3>2, <3>3
  <2> QED
    BY <1>2, <1>3, <2>2 DEF Bbr!OnPacketLost
<1>4. ASSUME NEW rate \in Rates, Bbr!OnPacketAcked(rate) PROVE BbrInv'
  <2>1. mode' \in {"Startup", "Drain", "ProbeRTT"} /\ cwndGain' \in Nat
    BY <1>4 DEF Bbr!OnPacketAcked, Bbr!AdvanceMode
  <2>2. PICK bdp \in Nat : Bbr!UpdateCWND(bdp)
    BY <1>0, <1>4 DEF Bbr!OnPacketAcked
  <2>3. \/ bcwnd' = Bbr!Min({bcwnd, 1000})
        \/ \E w \in Int : bcwnd' = Bbr!Clamp(w)
    <3>1. CASE mode' = "ProbeRTT"
      BY <2>2, <3>1 DEF Bbr!UpdateCWND
    <3>2. CASE mode' = "Startup"
      <4>1. PICK a \in Int, b \in Int : a = bcwnd + cwndGain' /\ b = bdp * cwndGain'
        <5>1. bcwnd + cwndGain' \in Int /\ bdp * cwndGain' \in Int
          BY <2>1
        <5> QED
          BY <5>1, Zenon
      <4>2. Bbr!Min({a, b}) \in Int
        BY MinMax
      <4>3. bcwnd' = Bbr!Clamp(Bbr!Min({a, b}))
        BY <2>2, <3>2, <4>1 DEF Bbr!UpdateCWND
      <4> QED
        BY <4>2, <4>3
    <3>3. CASE mode' = "Drain"
      BY <2>2, <3>3 DEF Bbr!UpdateCWND
    <3> QED
      BY <2>1, <3>1, <3>2, <3>3
  <2>4. bcwnd' \in Nat /\ bcwnd' >= 1000
    <3>1. CASE bcwnd' = Bbr!Min({bcwnd, 1000})
      <4>1. PICK c \in Nat : c = bcwnd /\ c >= 1000
        OBVIOUS
      <4>2. Bbr!Min({c, 1000}) = IF c <= 1000 THEN c ELSE 1000
        BY MinMax
      <4> QED
        BY <3>1, <4>1, <4>2
    <3>2. ASSUME NEW w \in Int, bcwnd' = Bbr!Clamp(w) PROVE bcwnd' \in Nat /\ bcwnd' >= 1000
      BY <3>2, Clamped
    <3> QED
      BY <2>3, <3>1, <3>2
  <2> QED
    BY <1>2, <1>4, <2>1, <2>4 DEF Bbr!OnPacketAcked
<1>5. CASE Bbr!OnRTTUpdate
  BY <1>5 DEF Bbr!OnRTTUpdate
<1>6. CASE Bbr!Reset
  BY <1>6 DEF Bbr!Reset
<1>7. CASE UNCHANGED bbrVars
  BY <1>7 DEF bbrVars
<1> QED
  BY <1>1, <1>3, <1>4, <1>5, <1>6, <1>7 DEF Bbr!Next

-----------------------------------------------------------------------------
TransportsInv == HandshakeInv /\ ControlInv /\ BbrInv /\ XHTTPInv

\* Each part keeps its invariant, whichever of them runs.
THEOREM TransportsInvariant == MCSpec => []TransportsInv
<1>1. MCInit => TransportsInv
  BY HandshakeInit, ControlInit, BbrInit, XHTTPInit DEF MCInit, TransportsInv
<1>2. TransportsInv /\ [MCNext]_allVars => TransportsInv'
  <2>1. [MCNext]_allVars => /\ [Next]_vars /\ [Control!Next]_controlVars
                            /\ [Bbr!Next]_bbrVars /\ [Xhttp!Next]_xhttpVars
    BY DEF MCNext, allVars
  <2> QED
    BY <2>1, HandshakeTypeStep, HandshakeProgressStep, ControlStep, BbrStep, XHTTPStep
    DEF TransportsInv, HandshakeInv
<1> QED
  BY <1>1, <1>2, PTL DEF MCSpec

\* The state of the handshake keeps its type; above all there are never more than
\* MaxRetries attempts after the first.
THEOREM HandshakeTypeCorrect == MCSpec => []TypeOK
<1>1. TransportsInv => TypeOK
  BY DEF TransportsInv, HandshakeInv
<1> QED
  BY <1>1, TransportsInvariant, PTL

\* ServerHandshake: whatever the peer sends and whenever the deadline passes, a
\* server that is Open has taken a Request, answered it and taken the Ack.
THEOREM HandshakeSound == MCSpec => []OpenAfterExchange
<1>1. TransportsInv => OpenAfterExchange
  BY DEF TransportsInv, HandshakeInv
<1> QED
  BY <1>1, TransportsInvariant, PTL

\* CanSend of CCID2, CCID4 and the BBR variants: a sender whose packets have all
\* been reported may send, for any order and repetition of the reports, any
\* losses and any Reset, and although inflight is unsigned.
THEOREM SendersNeverStall == MCSpec => []NeverStalled
<1>1. TransportsInv => NeverStalled
  <2> SUFFICES ASSUME ControlInv, BbrInv PROVE NeverStalled
    BY DEF TransportsInv
  <2>1. Control!NeverStalled
    <3> SUFFICES ASSUME outstanding = 0, ccid # 3 PROVE Control!CanSend
      BY DEF Control!NeverStalled
    <3>1. ccid = 2 \/ ccid = 4
      BY DEF ControlInv
    <3>2. CASE ccid = 2
      <4>1. Control!CanSend = Control!CanSend2
        BY <3>2 DEF Control!CanSend
      <4>2. Control!CanSend2
        BY <3>2 DEF ControlInv, Control!CanSend2, Control!Packet
      <4> QED
        BY <4>1, <4>2
    <3>3. CASE ccid = 4
      <4>1. Control!CanSend = Control!CanSend4
        BY <3>3 DEF Control!CanSend
      <4>2. Control!CanSend4
        BY <3>3 DEF ControlInv, Control!CanSend4, Control!Packet
      <4> QED
        BY <4>1, <4>2
    <3> QED
      BY <3>1, <3>2, <3>3
  <2>2. Bbr!NeverStalled
    BY DEF BbrInv, Bbr!NeverStalled, Bbr!CanSend, Bbr!Packet
  <2> QED
    BY <2>1, <2>2 DEF NeverStalled
<1> QED
  BY <1>1, TransportsInvariant, PTL

\* handleData and XHTTPStream.Read: no reader waits while its stream has data,
\* however the peer, the read loop, the wrapper's calls and Close interleave.
THEOREM XHTTPWakeupKept == MCSpec => []NoLostWakeup
<1>1. TransportsInv => NoLostWakeup
  BY DEF TransportsInv, XHTTPInv, FoundEmpty, NoLostWakeup, Xhttp!NoLostWakeup
<1> QED
  BY <1>1, TransportsInvariant, PTL

-----------------------------------------------------------------------------
(***************************************************************************)
(* The retransmission timeout                                              *)
(***************************************************************************)
\* How often the timeout can have been doubled after n losses without a Reset:
\* 1 + 2 + ... + n times, of which no term exceeds 6.
Doublings(n) == IF n <= 5 THEN (n * (n + 1)) \div 2 ELSE 6 * n - 15

\* What the timeout is doubled from, with round trips of up to r.
Longest(r) == IF r < 200 THEN 1000 ELSE 5 * r

\* OnRTO, after some losses and with round trips of up to r.
TimeoutWithin(r) ==
  /\ Control!OnRTO.base \in 0..Longest(r)
  /\ Control!OnRTO.doubled \in 0..(CASE ccid = 2 -> Doublings(losses) + 6 [] ccid = 3 -> 0 [] ccid = 4 -> 6)

\* The estimate stays within the round trips that were measured, and an
\* acknowledgement in between takes doublings away but never the backoff of CCID2.
TimeoutInv(r) ==
  /\ ccid \in 2..4 /\ losses \in Nat
  /\ srtt \in 0..r /\ rttvar \in 0..r
  /\ rto = [base |-> rto.base, doubled |-> rto.doubled] /\ rto.base \in 0..Longest(r)
  /\ backoff \in 0..losses /\ (ccid = 3 => backoff = 0)
  /\ rto.doubled \in 0..Doublings(losses) /\ (ccid # 2 => rto.doubled = 0)

LEMMA DoublingsIs ==
  /\ Doublings(0) = 0 /\ Doublings(1) = 1 /\ Doublings(2) = 3 /\ Doublings(3) = 6
  /\ Doublings(4) = 10 /\ Doublings(5) = 15 /\ \A n \in Nat : n > 5 => Doublings(n) = 6 * n - 15
BY DEF Doublings

\* One more loss doubles as often as Doublings says.
LEMMA OneMoreLoss ==
  ASSUME NEW n \in Nat, NEW b \in 0..n
  PROVE  /\ Doublings(n) \in Nat /\ Doublings(n + 1) \in Nat
         /\ Control!AtMost6(b + 1) \in Nat
         /\ Doublings(n) + Control!AtMost6(b + 1) <= Doublings(n + 1)
<1>1. n = 0 \/ n = 1 \/ n = 2 \/ n = 3 \/ n = 4 \/ n = 5 \/ n > 5
  OBVIOUS
<1>2. /\ Doublings(n) \in Nat /\ Doublings(n + 1) \in Nat
      /\ Doublings(n) + (IF n + 1 < 6 THEN n + 1 ELSE 6) <= Doublings(n + 1)
  <2>1. CASE n <= 4
    BY <1>1, <2>1, DoublingsIs
  <2>2. CASE n = 5
    <3>1. n + 1 = 6 /\ 6 \in Nat /\ 6 > 5
      BY <2>2
    <3>2. Doublings(6) = 21 /\ Doublings(5) = 15
      BY DoublingsIs
    <3> QED
      BY <2>2, <3>1, <3>2
  <2>3. CASE n > 5
    <3>1. n + 1 \in Nat /\ n + 1 > 5
      BY <2>3
    <3>2. Doublings(n) = 6 * n - 15 /\ Doublings(n + 1) = 6 * (n + 1) - 15
      BY <2>3, <3>1, DoublingsIs
    <3> QED
      BY <2>3, <3>2
  <2> QED
    BY <1>1, <2>1, <2>2, <2>3
<1>3. Control!AtMost6(b + 1) \in Nat /\ Control!AtMost6(b + 1) <= IF n + 1 < 6 THEN n + 1 ELSE 6
  BY DEF Control!AtMost6
<1> QED
  BY <1>2, <1>3

LEMMA TimeoutInit ==
  ASSUME NEW r \in Nat, Control!Init
  PROVE  TimeoutInv(r)
BY DoublingsIs DEF Control!Init, Control!Second, TimeoutInv, Longest

\* An average of round trips is none that is longer.
LEMMA Averages ==
  ASSUME NEW r \in Nat, NEW s \in 0..r, NEW v \in 0..r, NEW t \in 0..r
  PROVE  /\ (7 * s + t) \div 8 \in 0..r
         /\ (3 * v + (IF t < s THEN s - t ELSE t - s)) \div 4 \in 0..r
OBVIOUS

\* What the timeouts of CCID2 and CCID4 are doubled from.
LEMMA Bases ==
  ASSUME NEW r \in Nat, NEW s \in 0..r, NEW v \in 0..r
  PROVE  /\ s + 4 * v \in 0..Longest(r) /\ (s \div 2) + 4 * v \in 0..Longest(r)
         /\ 200 \in 0..Longest(r)
<1>1. s \div 2 \in 0..s
  OBVIOUS
<1> QED
  BY <1>1 DEF Longest

\* The estimate of the round trip is an average of round trips.
LEMMA EstimateBounded ==
  ASSUME NEW r \in Nat, TimeoutInv(r), NEW rtt \in 0..r, Control!Smooth(rtt)
  PROVE  srtt' \in 0..r /\ rttvar' \in 0..r
<1>1. srtt \in 0..r /\ rttvar \in 0..r
  BY DEF TimeoutInv
<1> QED
  BY <1>1, Averages DEF Control!Smooth

LEMMA TimeoutStep ==
  ASSUME NEW r \in Nat, RTTs \subseteq 0..r, TimeoutInv(r), [Control!Next]_controlVars
  PROVE  TimeoutInv(r)'
<1> USE DEF TimeoutInv, Control!window, Control!rates, Control!estimate
<1>1. CASE Control!OnPacketSent
  BY <1>1 DEF Control!OnPacketSent
<1>2. CASE Control!OnPacketLost
  <2>1. /\ losses \in Nat /\ losses' = losses + 1 /\ losses' \in Nat /\ ccid' = ccid
        /\ backoff + 1 \in 0..losses' /\ backoff \in 0..losses'
    BY <1>2 DEF Control!OnPacketLost
  <2>2. /\ Doublings(losses) \in Nat /\ Doublings(losses') \in Nat
        /\ Control!AtMost6(backoff + 1) \in Nat
        /\ Doublings(losses) + Control!AtMost6(backoff + 1) <= Doublings(losses')
    <3>1. losses \in Nat /\ backoff \in 0..losses
      BY <2>1
    <3> HIDE DEF TimeoutInv
    <3> QED
      BY <2>1, <3>1, OneMoreLoss
  <2>3. CASE ccid = 2
    <3>1. /\ UNCHANGED <<srtt, rttvar>> /\ backoff' = backoff + 1
          /\ rto' = [rto EXCEPT !.doubled = @ + Control!AtMost6(backoff + 1)]
      BY <1>2, <2>3 DEF Control!OnPacketLost, Control!Lost2
    <3> DEFINE more == rto.doubled + Control!AtMost6(backoff + 1)
    <3>2. more \in 0..Doublings(losses')
      BY <2>2
    <3>3. rto' = [base |-> rto.base, doubled |-> more]
      BY <3>1
    <3> HIDE DEF more
    <3>4. rto'.base = rto.base /\ rto'.doubled = more /\ rto' = [base |-> rto'.base, doubled |-> rto'.doubled]
      BY <3>3
    <3> QED
      BY <2>1, <2>3, <3>1, <3>2, <3>4
  <2>4. CASE ccid # 2
    <3>1. /\ UNCHANGED <<srtt, rttvar, rto>> /\ backoff' \in {backoff, backoff + 1}
          /\ ccid = 3 => backoff' = backoff
      BY <1>2, <2>4 DEF Control!OnPacketLost, Control!Lost3, Control!Lost4
    <3>2. rto.doubled = 0 /\ 0 \in 0..Doublings(losses')
      BY <2>2, <2>4
    <3>3. backoff' \in 0..losses' /\ (ccid' = 3 => backoff' = 0)
      BY <2>1, <3>1
    <3> QED
      BY <2>1, <2>4, <3>1, <3>2, <3>3
  <2> QED
    BY <2>3, <2>4
<1>3. ASSUME NEW rtt \in RTTs, Control!OnPacketAcked(rtt) PROVE TimeoutInv(r)'
  <2>1. ccid' = ccid /\ losses' = losses /\ rtt \in 0..r /\ Doublings(losses) \in Nat
    <3> HIDE DEF TimeoutInv
    <3>1. Doublings(losses) \in Nat
      <4>1. losses \in Nat /\ 0 \in 0..losses
        BY DEF TimeoutInv
      <4> QED
        BY <4>1, OneMoreLoss
    <3>2. ccid' = ccid /\ losses' = losses
      BY <1>3 DEF Control!OnPacketAcked
    <3> QED
      BY <3>1, <3>2
  <2>2. CASE ccid = 3
    <3>1. UNCHANGED <<rttvar, rto, backoff>> /\ srtt' = (7 * srtt + rtt) \div 8
      BY <1>3, <2>2 DEF Control!OnPacketAcked, Control!Acked3
    <3>2. srtt \in 0..r /\ rttvar \in 0..r
      OBVIOUS
    <3>3. (7 * srtt + rtt) \div 8 \in 0..r
      <4> HIDE DEF TimeoutInv
      <4> QED
        BY <2>1, <3>2, Averages
    <3> QED
      BY <2>1, <2>2, <3>1, <3>3
  <2>3. CASE ccid # 3
    <3>1. /\ Control!Smooth(rtt) /\ backoff' \in {backoff, 0}
          /\ rto' = [base |-> IF ccid = 2 THEN Control!AtLeast(srtt' + 4 * rttvar', 200)
                              ELSE (srtt' \div 2) + 4 * rttvar',
                     doubled |-> 0]
      <4> HIDE DEF TimeoutInv
      <4>1. CASE ccid = 2
        BY <1>3, <4>1 DEF Control!OnPacketAcked, Control!Acked2
      <4>2. CASE ccid = 4
        BY <1>3, <4>2 DEF Control!OnPacketAcked, Control!Acked4
      <4>3. ccid = 2 \/ ccid = 4
        BY <1>3, <2>3 DEF Control!OnPacketAcked
      <4> QED
        BY <4>1, <4>2, <4>3
    <3>2. srtt' \in 0..r /\ rttvar' \in 0..r
      <4> HIDE DEF TimeoutInv
      <4> QED
        BY <2>1, <3>1, EstimateBounded
    <3> DEFINE base == IF ccid = 2 THEN Control!AtLeast(srtt' + 4 * rttvar', 200)
                       ELSE (srtt' \div 2) + 4 * rttvar'
    <3>3. base \in 0..Longest(r)
      <4> HIDE DEF TimeoutInv
      <4>1. PICK s \in 0..r, v \in 0..r : s = srtt' /\ v = rttvar'
        BY <3>2
      <4>2. /\ s + 4 * v \in 0..Longest(r) /\ (s \div 2) + 4 * v \in 0..Longest(r)
            /\ 200 \in 0..Longest(r)
        BY Bases
      <4>3. Control!AtLeast(s + 4 * v, 200) \in 0..Longest(r)
        BY <4>2 DEF Control!AtLeast
      <4>4. base = IF ccid = 2 THEN Control!AtLeast(s + 4 * v, 200) ELSE (s \div 2) + 4 * v
        BY <4>1
      <4> QED
        BY <4>2, <4>3, <4>4
    <3>4. rto' = [base |-> base, doubled |-> 0]
      BY <3>1
    <3> HIDE DEF base
    <3>5. rto'.base = base /\ rto'.doubled = 0 /\ rto' = [base |-> rto'.base, doubled |-> rto'.doubled]
      BY <3>4
    <3> QED
      BY <2>1, <3>1, <3>2, <3>3, <3>5
  <2> QED
    BY <2>2, <2>3
<1>4. CASE Control!Reset
  <2>1. ccid' = ccid /\ losses' = 0 /\ UNCHANGED <<srtt, rttvar>>
    BY <1>4 DEF Control!Reset
  <2>2. losses' \in Nat /\ Doublings(losses') = 0
    BY <2>1, DoublingsIs
  <2>3. CASE ccid # 3
    <3>1. rto' = [base |-> 1000, doubled |-> 0] /\ backoff' = 0
      BY <1>4, <2>3 DEF Control!Reset, Control!Reset2, Control!Reset4, Control!Second
    <3>2. /\ rto'.base = 1000 /\ rto'.doubled = 0
          /\ rto' = [base |-> rto'.base, doubled |-> rto'.doubled]
      BY <3>1
    <3>3. 1000 \in 0..Longest(r)
      BY DEF Longest
    <3> QED
      BY <2>1, <2>2, <3>1, <3>2, <3>3
  <2>4. CASE ccid = 3
    <3>1. rto' = rto /\ backoff' = backoff
      BY <1>4, <2>4 DEF Control!Reset, Control!Reset3
    <3> QED
      BY <2>1, <2>2, <2>4, <3>1
  <2> QED
    BY <2>3, <2>4
<1>5. CASE UNCHANGED controlVars
  BY <1>5 DEF controlVars
<1> QED
  BY <1>1, <1>2, <1>3, <1>4, <1>5 DEF Control!Next

\* OnRTO of the three controllers: whatever the round trips and however many packets are lost
\* between two calls of Reset, the timeout is a base of at most a second or five times the
\* longest round trip, doubled six times at most in CCID4, not at all in CCID3 and after every
\* loss up to six times more in CCID2, where the number of doublings grows without limit.
THEOREM TimeoutBounded ==
  ASSUME NEW r \in Nat, RTTs \subseteq 0..r
  PROVE  MCSpec => []TimeoutWithin(r)
<1>1. MCInit => TimeoutInv(r)
  BY TimeoutInit DEF MCInit
<1>2. TimeoutInv(r) /\ [MCNext]_allVars => TimeoutInv(r)'
  <2>1. [MCNext]_allVars => [Control!Next]_controlVars
    BY DEF MCNext, allVars
  <2> QED
    BY <2>1, TimeoutStep
<1>3. TimeoutInv(r) => TimeoutWithin(r)
  <2> SUFFICES ASSUME TimeoutInv(r) PROVE TimeoutWithin(r)
    OBVIOUS
  <2>1. CASE ccid = 3
    <3> DEFINE base == IF srtt = 0 THEN 1000 ELSE 4 * srtt
    <3>1. base \in 0..Longest(r)
      BY DEF TimeoutInv, Longest
    <3>2. Control!OnRTO = [base |-> base, doubled |-> 0]
      <4>1. Control!OnRTO = Control!OnRTO3
        BY <2>1, SMT DEF Control!OnRTO
      <4> QED
        BY <4>1 DEF Control!OnRTO3
    <3> HIDE DEF base
    <3>3. Control!OnRTO.base \in 0..Longest(r) /\ Control!OnRTO.doubled = 0
      BY <3>1, <3>2
    <3> QED
      BY <2>1, <3>3 DEF TimeoutWithin
  <2>2. CASE ccid # 3
    <3> DEFINE more == Control!AtMost6(backoff)
               doubled == rto.doubled + more
    <3>1. more \in 0..6
      BY DEF TimeoutInv, Control!AtMost6
    <3>2. Control!OnRTO = [rto EXCEPT !.doubled = @ + more]
      <4>1. ccid = 2 \/ ccid = 4
        BY <2>2 DEF TimeoutInv
      <4>2. CASE ccid = 2
        <5>1. Control!OnRTO = Control!OnRTO2
          BY <4>2, SMT DEF Control!OnRTO
        <5> QED
          BY <5>1 DEF Control!OnRTO2
      <4>3. CASE ccid = 4
        <5>1. Control!OnRTO = Control!OnRTO4
          BY <4>3, SMT DEF Control!OnRTO
        <5> QED
          BY <5>1 DEF Control!OnRTO4
      <4> QED
        BY <4>1, <4>2, <4>3
    <3> HIDE DEF more
    <3>3. Control!OnRTO = [base |-> rto.base, doubled |-> doubled]
      <4>1. rto = [base |-> rto.base, doubled |-> rto.doubled]
        BY DEF TimeoutInv
      <4> QED
        BY <3>2, <4>1
    <3>4. Doublings(losses) \in Nat
      <4>1. losses \in Nat /\ 0 \in 0..losses
        BY DEF TimeoutInv
      <4> QED
        BY <4>1, OneMoreLoss
    <3>5. doubled \in 0..Doublings(losses) + 6 /\ (ccid = 4 => doubled \in 0..6)
      BY <3>1, <3>4 DEF TimeoutInv
    <3>6. rto.base \in 0..Longest(r)
      BY DEF TimeoutInv
    <3> HIDE DEF doubled
    <3>7. Control!OnRTO.base = rto.base /\ Control!OnRTO.doubled = doubled
      BY <3>3
    <3>8. ccid = 2 \/ ccid = 4
      BY <2>2 DEF TimeoutInv
    <3> QED
      BY <3>5, <3>6, <3>7, <3>8 DEF TimeoutWithin
  <2> QED
    BY <2>1, <2>2
<1> QED
  BY <1>1, <1>2, <1>3, PTL DEF MCSpec
=============================================================================
