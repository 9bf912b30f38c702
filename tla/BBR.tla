-------------------------------- MODULE BBR ---------------------------------
(***************************************************************************)
(* transport/bbr/bbr.go: the window and the modes of the BBR variants.     *)
(*                                                                         *)
(* Every call holds the controller's lock, so a call is a step.  Reports   *)
(* of packets come in any order and may be repeated.  Round trips are      *)
(* positive.  A measured rate is one of Rates; the bandwidth-delay         *)
(* product in bytes, once a rate is known, is any of BDPs.  The window     *)
(* counts hundredths of a packet, rounded down.  The pacing rate, which    *)
(* nothing but its accessor reads, is left out.                            *)
(*                                                                         *)
(* ProbeBW is never reached: advanceMode is called in Startup only.        *)
(*                                                                         *)
(* outstanding, a history variable, counts packets sent and not reported.  *)
(* FilterLen is the length of the rate filter (10 in the code), Wrap the   *)
(* modulus of inflight (2^64); MaxSent, MaxAcked, MaxLost bound the calls. *)
(***************************************************************************)
EXTENDS Integers, FiniteSetsExt

CONSTANTS Rates, BDPs, FilterLen, Wrap, MaxSent, MaxAcked, MaxLost

VARIABLES algorithm, mode, cwnd, cwndGain, inflight, bwFilter, bwFilterIdx, bwMax, bw,
          fullBW, fullBWCount, packetsSent, ecnCount, sent, acked, lost, outstanding
startup == <<fullBW, fullBWCount>>
bandwidth == <<bwFilter, bwFilterIdx, bwMax, bw>>
calls == <<sent, acked, lost>>
vars == <<algorithm, mode, cwnd, cwndGain, inflight, bandwidth, startup, packetsSent, ecnCount, calls, outstanding>>

Algorithms == {"bbr", "bbrv2", "bbrv3", "bbr_adaptive"}
Packet == 100
InitCWND == 10 * Packet
MaxCWND == 600 * Packet
StartupGain == 2 * Packet

\* newBBRState by way of newBBR; the variants not listed differ in pacing only
Init ==
  /\ algorithm \in Algorithms
  /\ mode = "Startup" /\ cwnd = InitCWND
  /\ cwndGain = IF algorithm = "bbr_adaptive" THEN 3 * Packet ELSE StartupGain
  /\ inflight = 0
  /\ bwFilter = [i \in 1..FilterLen |-> 0] /\ bwFilterIdx = 1 /\ bwMax = 0 /\ bw = 0
  /\ fullBW = FALSE /\ fullBWCount = 0 /\ packetsSent = 0 /\ ecnCount = 0
  /\ sent = 0 /\ acked = 0 /\ lost = 0 /\ outstanding = 0

\* Mutant: one packet more than were sent may be taken out.
TakeOut_Wraps(n) == (n - 1) % Wrap

\* inflight-- where it is not zero
TakeOut(n) == IF n > 0 THEN (n - 1) % Wrap ELSE 0

Reported == outstanding' \in {outstanding, IF outstanding > 0 THEN outstanding - 1 ELSE 0}

-----------------------------------------------------------------------------
OnPacketSent ==
  /\ sent < MaxSent
  /\ sent' = sent + 1 /\ outstanding' = outstanding + 1
  /\ packetsSent' = packetsSent + 1 /\ inflight' = (inflight + 1) % Wrap
  /\ UNCHANGED <<algorithm, mode, cwnd, cwndGain, bandwidth, startup, ecnCount, acked, lost>>

\* the factor of a loss, in percent: ecnCount against a share of packetsSent
LossFactor(ecn) ==
  LET threshold == IF algorithm = "bbrv3" THEN 5 ELSE 8
  IN CASE algorithm \notin {"bbrv2", "bbrv3"} -> 80
       [] ecn /\ 100 * ecnCount' > threshold * packetsSent -> 85
       [] OTHER -> 70

OnPacketLost(ecn) ==
  /\ lost < MaxLost
  /\ lost' = lost + 1 /\ Reported
  /\ inflight' = TakeOut(inflight)
  /\ ecnCount' = ecnCount + (IF ecn THEN 1 ELSE 0)
  /\ cwnd' = Max({(cwnd * LossFactor(ecn)) \div 100, InitCWND})
  /\ UNCHANGED <<algorithm, mode, cwndGain, bandwidth, startup, packetsSent, sent, acked>>

\* updateBWFilter with the rate of an acknowledgement; 0 for a packet without size
UpdateBW(rate) ==
  IF rate = 0
  THEN UNCHANGED bandwidth
  ELSE /\ bwFilter' = [bwFilter EXCEPT ![bwFilterIdx] = rate]
       /\ bwFilterIdx' = (bwFilterIdx % FilterLen) + 1
       /\ bwMax' = Max({bwFilter'[i] : i \in 1..FilterLen})
       /\ bw' = Max({bw, rate})

\* bwLatest: the rate of this acknowledgement or of the last one that had a size
Latest(rate) ==
  IF rate # 0 THEN rate ELSE bwFilter[IF bwFilterIdx = 1 THEN FilterLen ELSE bwFilterIdx - 1]

\* advanceMode, called in Startup: the latest rate is the highest three times on end
AdvanceMode(rate) ==
  IF bwMax' = Latest(rate) /\ fullBW
  THEN /\ fullBWCount' = fullBWCount + 1
       /\ IF fullBWCount + 1 >= 3
          THEN mode' = "Drain" /\ cwndGain' = Packet /\ fullBW' = FALSE
          ELSE UNCHANGED <<mode, cwndGain, fullBW>>
  ELSE fullBW' = TRUE /\ fullBWCount' = 0 /\ UNCHANGED <<mode, cwndGain>>

Clamp(w) == Min({Max({w, InitCWND}), MaxCWND})

\* updateCWND, with the product in bytes, where the window counts packets
UpdateCWND(bdp) ==
  cwnd' = CASE mode' = "ProbeRTT" -> Min({cwnd, InitCWND})
            [] mode' = "Startup" -> Clamp(Min({cwnd + cwndGain', bdp * cwndGain'}))
            [] mode' = "Drain" -> Clamp(bdp * Packet)

OnPacketAcked(rate) ==
  /\ acked < MaxAcked
  /\ acked' = acked + 1 /\ Reported
  /\ inflight' = TakeOut(inflight)
  /\ UpdateBW(rate)
  /\ IF mode = "Startup" THEN AdvanceMode(rate) ELSE UNCHANGED <<mode, cwndGain, startup>>
  /\ \E bdp \in IF bw' = 0 THEN {0} ELSE BDPs : UpdateCWND(bdp)
  /\ UNCHANGED <<algorithm, packetsSent, ecnCount, sent, lost>>

\* probeRTTDoneAt is never set, so it is always longer ago than ten seconds
OnRTTUpdate ==
  /\ mode' = "ProbeRTT"
  /\ UNCHANGED <<algorithm, cwnd, cwndGain, inflight, bandwidth, startup, packetsSent, ecnCount, calls, outstanding>>

\* Reset; the filter, fullBW and ecnCount survive it
Reset ==
  /\ cwnd' = InitCWND /\ mode' = "Startup" /\ cwndGain' = StartupGain
  /\ bw' = 0 /\ bwMax' = 0 /\ packetsSent' = 0 /\ inflight' = 0
  /\ UNCHANGED <<algorithm, bwFilter, bwFilterIdx, startup, ecnCount, calls, outstanding>>

Next ==
  \/ OnPacketSent \/ OnRTTUpdate \/ Reset
  \/ \E ecn \in BOOLEAN : OnPacketLost(ecn)
  \/ \E rate \in Rates : OnPacketAcked(rate)

-----------------------------------------------------------------------------
CanSend == inflight * Packet < cwnd

\* A sender whose packets have all been reported may send, however often they
\* were reported: inflight never counts more packets than are outstanding.
NeverStalled == outstanding = 0 => CanSend
=============================================================================
