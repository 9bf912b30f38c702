----------------------------- MODULE Congestion -----------------------------
(***************************************************************************)
(* transport/dccp/congestion.go: the windows of CCID2, CCID3 and CCID4.    *)
(*                                                                         *)
(* Every call holds the controller's lock, so a call is a step.  Packets   *)
(* are sent, acknowledged and reported lost in any order, and reports may  *)
(* be repeated: the controllers do not look at sequence numbers.           *)
(*                                                                         *)
(* cwnd and ssthresh count hundredths of a packet, rounded down; CCID3's   *)
(* window, a square root, is kept as its square, in packets.  Times are    *)
(* milliseconds.  rto is a record: a time and how often it was doubled.    *)
(* inFlight is pipe in CCID2.  Fields that nothing reads are left out.     *)
(*                                                                         *)
(* outstanding and losses are history: packets sent and not reported, and  *)
(* losses since the last Reset.  MaxWindow is the limit of CCID4, 1000 in  *)
(* the code.  MaxSent, MaxAcked and MaxLost bound the calls.               *)
(***************************************************************************)
EXTENDS Integers, FiniteSetsExt

CONSTANTS RTTs, MaxWindow, MaxSent, MaxAcked, MaxLost

VARIABLES ccid, cwnd, ssthresh, inFlight, maxInFlight, srtt, rttvar, rto, backoff,
          sendRate, lossCount, totalCount, sent, acked, losses, outstanding
estimate == <<srtt, rttvar, rto>>
window == <<cwnd, ssthresh, inFlight, maxInFlight>>
rates == <<sendRate, lossCount, totalCount>>
vars == <<ccid, window, estimate, backoff, rates, sent, acked, losses, outstanding>>

Packet == 100
MaxFloat == 1000000000
Second == [base |-> 1000, doubled |-> 0]
\* Mutant: the shift of the timeout is not limited.
AtMost6_NoLimit(n) == n

AtMost6(n) == IF n < 6 THEN n ELSE 6
AtLeast(a, b) == IF a < b THEN b ELSE a

\* newCCID2CC, newCCID3CC, newCCID4CC: the first window
NewCCID2 == 2 * Packet
NewCCID3 == 16
NewCCID4 == 10 * Packet
FirstWindow == CASE ccid = 2 -> NewCCID2 [] ccid = 3 -> NewCCID3 [] ccid = 4 -> NewCCID4

Init ==
  /\ ccid \in 2..4
  /\ cwnd = FirstWindow /\ ssthresh = MaxFloat /\ inFlight = 0 /\ maxInFlight = 10
  /\ srtt = 0 /\ rttvar = 0 /\ rto = Second /\ backoff = 0
  /\ sendRate = "zero" /\ lossCount = 0 /\ totalCount = 0
  /\ sent = 0 /\ acked = 0 /\ losses = 0 /\ outstanding = 0

-----------------------------------------------------------------------------
\* OnPacketSent of the three: CCID2 counts pipe, CCID3 what it sent
Sent2 == inFlight' = inFlight + 1 /\ UNCHANGED totalCount
Sent3 == totalCount' = totalCount + 1 /\ UNCHANGED inFlight
Sent4 == inFlight' = inFlight + 1 /\ UNCHANGED totalCount

OnPacketSent ==
  /\ sent < MaxSent
  /\ sent' = sent + 1 /\ outstanding' = outstanding + 1
  /\ (ccid = 2 /\ Sent2) \/ (ccid = 3 /\ Sent3) \/ (ccid = 4 /\ Sent4)
  /\ UNCHANGED <<ccid, cwnd, ssthresh, maxInFlight, estimate, backoff, sendRate, lossCount, acked, losses>>

\* A report for a packet, or one more for a packet reported before
Reported == outstanding' \in {outstanding, AtLeast(outstanding - 1, 0)}

\* ccid2CC.OnPacketLost
Lost2 ==
  /\ ssthresh' = AtLeast(cwnd \div 2, 2 * Packet)
  /\ cwnd' = AtLeast(cwnd \div 2, Packet)
  /\ backoff' = backoff + 1
  /\ rto' = [rto EXCEPT !.doubled = @ + AtMost6(backoff + 1)]
  /\ inFlight' = AtLeast(inFlight - 1, 0)
  /\ UNCHANGED <<maxInFlight, srtt, rttvar, rates>>

\* updateSendRate, for the counts of losses and of packets
UpdateSendRate(lost, total) ==
  CASE lost = 0 -> sendRate' = "max" /\ UNCHANGED cwnd
    [] lost > 0 /\ srtt' > 0 -> sendRate' = "finite" /\ cwnd' = AtLeast((2 * (total + 1)) \div (3 * lost), 16)
    [] OTHER -> UNCHANGED <<sendRate, cwnd>>

\* ccid3CC.OnPacketLost
Lost3 ==
  /\ UNCHANGED <<estimate, ssthresh, inFlight, maxInFlight, backoff, totalCount>>
  /\ lossCount' = lossCount + 1
  /\ UpdateSendRate(lossCount + 1, totalCount)

\* ccid4CC.OnPacketLost; inFlight may fall below zero
Lost4 ==
  /\ cwnd' = AtLeast((cwnd * 7) \div 10, 2 * Packet)
  /\ maxInFlight' = cwnd' \div Packet
  /\ backoff' = backoff + 1
  /\ inFlight' = inFlight - 1
  /\ UNCHANGED <<ssthresh, estimate, rates>>

OnPacketLost ==
  /\ losses < MaxLost
  /\ losses' = losses + 1 /\ Reported
  /\ (ccid = 2 /\ Lost2) \/ (ccid = 3 /\ Lost3) \/ (ccid = 4 /\ Lost4)
  /\ UNCHANGED <<ccid, sent, acked>>

-----------------------------------------------------------------------------
\* the smoothed round trip and its deviation, in CCID2 and CCID4
Smooth(rtt) ==
  IF srtt = 0
  THEN srtt' = rtt /\ rttvar' = rtt \div 2
  ELSE /\ rttvar' = (3 * rttvar + (IF rtt < srtt THEN srtt - rtt ELSE rtt - srtt)) \div 4
       /\ srtt' = (7 * srtt + rtt) \div 8

\* ccid2CC.OnPacketAcked; backoff stays as it is
Acked2(rtt) ==
  /\ inFlight' = AtLeast(inFlight - 1, 0)
  /\ Smooth(rtt)
  /\ rto' = [base |-> AtLeast(srtt' + 4 * rttvar', 200), doubled |-> 0]
  /\ cwnd' = cwnd + (IF cwnd < ssthresh THEN Packet ELSE (Packet * Packet) \div cwnd)
  /\ UNCHANGED <<ssthresh, maxInFlight, backoff, rates>>

\* ccid3CC.OnPacketAcked; the rate is computed if the last time was a second ago
Acked3(rtt) ==
  /\ srtt' = (7 * srtt + rtt) \div 8
  /\ UpdateSendRate(lossCount, totalCount) \/ UNCHANGED <<sendRate, cwnd>>
  /\ UNCHANGED <<ssthresh, inFlight, maxInFlight, rttvar, rto, backoff, lossCount, totalCount>>

\* ccid4CC.OnPacketAcked: ssthresh never comes down, so the window grows by half
Acked4(rtt) ==
  /\ inFlight' = AtLeast(inFlight - 1, 0)
  /\ Smooth(rtt)
  /\ cwnd' = Min({(cwnd * 3) \div 2, MaxWindow * Packet})
  /\ maxInFlight' = cwnd' \div Packet
  /\ rto' = [base |-> (srtt' \div 2) + 4 * rttvar', doubled |-> 0]
  /\ backoff' = 0
  /\ UNCHANGED <<ssthresh, rates>>

OnPacketAcked(rtt) ==
  /\ acked < MaxAcked
  /\ acked' = acked + 1 /\ Reported
  /\ (ccid = 2 /\ Acked2(rtt)) \/ (ccid = 3 /\ Acked3(rtt)) \/ (ccid = 4 /\ Acked4(rtt))
  /\ UNCHANGED <<ccid, sent, losses>>

\* Reset of the three; the estimate of the round trip survives it
Reset2 == inFlight' = 0 /\ rto' = Second /\ backoff' = 0 /\ UNCHANGED <<maxInFlight, rates>>
Reset3 == sendRate' = "zero" /\ lossCount' = 0 /\ totalCount' = 0 /\ UNCHANGED <<inFlight, maxInFlight, rto, backoff>>
Reset4 == inFlight' = 0 /\ maxInFlight' = 10 /\ rto' = Second /\ backoff' = 0 /\ UNCHANGED rates

Reset ==
  /\ cwnd' = FirstWindow /\ ssthresh' = MaxFloat
  /\ (ccid = 2 /\ Reset2) \/ (ccid = 3 /\ Reset3) \/ (ccid = 4 /\ Reset4)
  /\ losses' = 0
  /\ UNCHANGED <<ccid, srtt, rttvar, sent, acked, outstanding>>

Next == OnPacketSent \/ OnPacketLost \/ Reset \/ \E rtt \in RTTs : OnPacketAcked(rtt)

-----------------------------------------------------------------------------
CanSend2 == inFlight * Packet < cwnd
CanSend3 == sendRate # "zero"
CanSend4 == inFlight < maxInFlight
CanSend == CASE ccid = 2 -> CanSend2 [] ccid = 3 -> CanSend3 [] ccid = 4 -> CanSend4

\* OnRTO: rto, doubled for every loss up to six times; CCID3 takes 4 round trips
OnRTO2 == [rto EXCEPT !.doubled = @ + AtMost6(backoff)]
OnRTO3 == [base |-> IF srtt = 0 THEN 1000 ELSE 4 * srtt, doubled |-> 0]
OnRTO4 == [rto EXCEPT !.doubled = @ + AtMost6(backoff)]
OnRTO == CASE ccid = 2 -> OnRTO2 [] ccid = 3 -> OnRTO3 [] ccid = 4 -> OnRTO4

\* base * 2^doubled milliseconds are less than 2^63 nanoseconds, the limit of a
\* time.Duration: base * 2^(doubled - 20) are less than 2^43 / 10^6.
Fits(d) == d.base > 0 /\ (d.doubled <= 20 \/ d.base * 2^(d.doubled - 20) < 8796093)

\* A sender whose packets have all been reported may send, however often they
\* were reported and whether before or after a Reset.  CCID3 is left out: its
\* rate is zero until a report comes.
NeverStalled == (outstanding = 0 /\ ccid # 3) => CanSend

\* OnRTO gives a positive time that fits a time.Duration, for up to seven losses
\* since the last Reset: the eighth doubles the timeout of CCID2 past its limit,
\* which nothing in the code prevents.
RTOFits == losses <= 7 => Fits(OnRTO)
=============================================================================
