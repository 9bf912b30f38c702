---------------------------- MODULE MCTransports ----------------------------
(* The parts of app/transport: the DCCP handshake, the congestion           *)
(* controllers, BBR and XHTTP.  They share no state: a behaviour is one of  *)
(* them, chosen at the start, and each liveness property assumes the        *)
(* fairness of the part that it is about.                                   *)
EXTENDS DCCPHandshake

CONSTANTS RTTs, MaxWindow, Rates, BDPs, FilterLen, Wrap, MaxSent, MaxAcked, MaxLost, MaxBBRLost,
          Streams, MaxFrames, MaxCalls, AcceptCap

ASSUME TransportAssumption ==
  /\ MaxWindow \in Nat /\ MaxWindow >= 2 /\ RTTs \subseteq Nat        \* Congestion
  /\ BDPs \subseteq Nat /\ Wrap \in Nat \ {0}                         \* BBR
  /\ Streams \subseteq Nat \ {0} /\ 1 \in Streams                     \* XHTTP

VARIABLES part,
          ccid, cwnd, ssthresh, inFlight, maxInFlight, srtt, rttvar, rto, backoff,
          sendRate, lossCount, totalCount, sent, acked, losses, outstanding,
          algorithm, mode, bcwnd, cwndGain, inflight, bwFilter, bwFilterIdx, bwMax, bw,
          fullBW, fullBWCount, packetsSent, ecnCount, bsent, backed, lost, boutstanding,
          xinbox, frames, xpeerOpen, closed, cancelled, connOpen, streams, acceptCh, loop, frame,
          readBuf, sclosed, arrived, wmu, stream, reader, writer, closer, reads, writes, got
Control == INSTANCE Congestion
Bbr == INSTANCE BBR WITH cwnd <- bcwnd, sent <- bsent, acked <- backed, outstanding <- boutstanding,
                         MaxLost <- MaxBBRLost
Xhttp == INSTANCE XHTTP WITH inbox <- xinbox, peerOpen <- xpeerOpen
controlVars ==
  <<ccid, cwnd, ssthresh, inFlight, maxInFlight, srtt, rttvar, rto, backoff,
    sendRate, lossCount, totalCount, sent, acked, losses, outstanding>>
bbrVars ==
  <<algorithm, mode, bcwnd, cwndGain, inflight, bwFilter, bwFilterIdx, bwMax, bw,
    fullBW, fullBWCount, packetsSent, ecnCount, bsent, backed, lost, boutstanding>>
xhttpVars ==
  <<xinbox, frames, xpeerOpen, closed, cancelled, connOpen, streams, acceptCh, loop, frame,
    readBuf, sclosed, arrived, wmu, stream, reader, writer, closer, reads, writes, got>>
allVars == <<part, vars, controlVars, bbrVars, xhttpVars>>

\* The parts that do not run start in one state.
MCInit ==
  /\ part \in {"handshake", "control", "bbr", "xhttp"}
  /\ Init /\ (part = "handshake" \/ role = "client")
  /\ Control!Init /\ (part = "control" \/ ccid = 4)
  /\ Bbr!Init /\ (part = "bbr" \/ algorithm = "bbr")
  /\ Xhttp!Init

MCNext ==
  \/ part = "handshake" /\ Next /\ UNCHANGED <<part, controlVars, bbrVars, xhttpVars>>
  \/ part = "control" /\ Control!Next /\ UNCHANGED <<part, vars, bbrVars, xhttpVars>>
  \/ part = "bbr" /\ Bbr!Next /\ UNCHANGED <<part, vars, controlVars, xhttpVars>>
  \/ part = "xhttp" /\ Xhttp!Next /\ UNCHANGED <<part, vars, controlVars, bbrVars>>

MCSpec == MCInit /\ [][MCNext]_allVars

\* DCCPHandshake: the handshake returns.
HandshakeReturns == part = "handshake" /\ Fairness => HandshakeEnds

\* Congestion, BBR: whatever the algorithm, a sender may send that has nothing
\* outstanding.
NeverStalled == Control!NeverStalled /\ Bbr!NeverStalled

\* Congestion: the retransmission timeout is positive and fits its type, for up to
\* seven losses between two calls of Reset.
RTOFits == Control!RTOFits

\* XHTTP: no reader waits while its stream has data.
NoLostWakeup == Xhttp!NoLostWakeup

\* XHTTP: Close returns once the peer has gone, unless a Read waits.
XHTTPCloseReturns == part = "xhttp" /\ Xhttp!Fairness => Xhttp!CloseReturns
=============================================================================
