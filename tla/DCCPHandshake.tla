--------------------------- MODULE DCCPHandshake ----------------------------
(***************************************************************************)
(* transport/dccp/handshake.go with the packets of packet.go, and Dial of  *)
(* transport/transport.go: a handshake over a stream connection.           *)
(*                                                                         *)
(* The handler is a client, inside Dial, or a server.  Its peer is any     *)
(* program: it sends packets, in order, that decode or do not, and may     *)
(* close its end.  One deadline covers all attempts; once it has passed    *)
(* every read and write of the connection fails at once.  A panic ends     *)
(* the program.                                                            *)
(*                                                                         *)
(* Packets are modelled by their sizes, which decide what the codec does.  *)
(* A packet taken from the connection is a record: its type, how many      *)
(* bytes of data its InitCookie option has (0 for none), and whether it    *)
(* decodes at all; a Short one has a data offset of less than its header.  *)
(***************************************************************************)
EXTENDS Integers, Sequences, FiniteSetsExt

CONSTANTS MaxRetries, MaxPackets

ASSUME HandshakeAssumption == MaxRetries \in Nat /\ MaxPackets \in Nat

VARIABLES role, pc, attempt, state, expired, conn, inbox, peerSent, peerOpen, out, taken, result, panicked
network == <<inbox, peerSent, peerOpen>>
vars == <<role, pc, attempt, state, expired, conn, network, out, taken, result, panicked>>

-----------------------------------------------------------------------------
HeaderSize == 12

\* Len of the options that the Build functions use
OptionLen(name) ==
  CASE name \in {"InitCookie", "ConfirmL"} -> 6
    [] name = "Feature" -> 5
    [] name \in {"Timestamp", "TimestampEcho"} -> 10

OptionsSize(options) ==
  LET size == MapThenSumSet(OptionLen, options) IN size + ((4 - (size % 4)) % 4)

\* EncodeDCCPPacket writes the extended sequence number to bytes 8 to 15 of a
\* buffer that has HeaderSize bytes and those of options and payload.
EncodePanics(options, payload) == HeaderSize + OptionsSize(options) + payload < 16

\* ReadFullDCCPPacket takes header and options from the connection, and
\* DecodeDCCPPacket refuses an extended packet of less than 16 bytes.
Decodes(options) == HeaderSize + OptionsSize(options) >= 16

\* parseOptions: the data of an option is what Len leaves after two bytes
CookieData(options) == IF "InitCookie" \in options THEN OptionLen("InitCookie") - 2 ELSE 0

\* BuildRequestPacket, BuildResponsePacket; BuildAckPacket and BuildClosePacket
\* have neither options nor payload.
RequestOptions == {"InitCookie", "Feature", "Timestamp"}
ResponseOptions == {"InitCookie", "ConfirmL", "TimestampEcho"}
Bare == {}

Built(type, options) == [type |-> type, cookie |-> CookieData(options), decodes |-> Decodes(options)]

\* What a peer may send: the packets of this program, and some of others, with
\* longer cookies or with options where this program has none.
Packets ==
  {Built("Request", RequestOptions), Built("Response", ResponseOptions), Built("Ack", Bare)}
    \union [type : {"Request", "Response", "Ack"}, cookie : {0, 6}, decodes : {TRUE}]
    \union {[type |-> "Short", cookie |-> 0, decodes |-> FALSE]}

-----------------------------------------------------------------------------
\* ClientHandshake and ServerHandshake up to their first write or read
Init ==
  /\ role \in {"client", "server"}
  /\ pc = IF role = "client" THEN "write" ELSE "read"
  /\ attempt = 0
  /\ state = IF role = "client" THEN "Request" ELSE "Closed"
  /\ expired = FALSE /\ conn = "open"
  /\ inbox = <<>> /\ peerSent = 0 /\ peerOpen = TRUE
  /\ out = <<>> /\ taken = <<>> /\ result = "none" /\ panicked = FALSE

PeerSend(p) ==
  /\ peerOpen /\ peerSent < MaxPackets
  /\ inbox' = Append(inbox, p) /\ peerSent' = peerSent + 1
  /\ UNCHANGED <<role, pc, attempt, state, expired, conn, peerOpen, out, taken, result, panicked>>

PeerClose ==
  /\ peerOpen
  /\ peerOpen' = FALSE
  /\ UNCHANGED <<role, pc, attempt, state, expired, conn, inbox, peerSent, out, taken, result, panicked>>

\* the deadline that SetDeadline set passes
Expire ==
  /\ result = "none" /\ ~expired
  /\ expired' = TRUE
  /\ UNCHANGED <<role, pc, attempt, state, conn, network, out, taken, result, panicked>>

-----------------------------------------------------------------------------
\* The handshake returns; Dial closes the connection when it failed.
Returns(err) ==
  /\ result' = err
  /\ pc' = "returned"
  /\ conn' = IF role = "client" /\ err # "nil" THEN "closed" ELSE conn

\* ClientHandshake: the next attempt, unless this was the last
Retry(err) ==
  IF attempt = MaxRetries
  THEN Returns(err) /\ UNCHANGED attempt
  ELSE attempt' = attempt + 1 /\ pc' = "write" /\ UNCHANGED <<conn, result>>

\* conn.Write may fail when the peer has closed its end, and does after the deadline
MayWrite == ~expired
MayFailToWrite == expired \/ ~peerOpen

\* ClientHandshake: write the Request
ClientWrites ==
  /\ role = "client" /\ pc = "write" /\ MayWrite
  /\ out' = Append(out, "Request") /\ pc' = "read"
  /\ UNCHANGED <<role, attempt, state, expired, conn, network, taken, result, panicked>>

ClientFailsToWrite ==
  /\ role = "client" /\ pc = "write" /\ MayFailToWrite
  /\ Retry("write")
  /\ UNCHANGED <<role, state, expired, network, out, taken, panicked>>

\* Mutant: the deadline does not cover reads.
ReadFails_NoDeadline == inbox = <<>> /\ ~peerOpen

\* ReadFullDCCPPacket returns an error without a packet.
ReadFails == expired \/ (inbox = <<>> /\ ~peerOpen)

\* ... or it takes one from the connection
ReadTakes == ~expired /\ inbox # <<>> /\ Head(inbox).type # "Short"

\* DecodeDCCPPacket slices the options from behind the header to the data offset.
DecodePanics ==
  /\ pc \in {"read", "readAck"} /\ ~expired /\ inbox # <<>> /\ Head(inbox).type = "Short"
  /\ inbox' = Tail(inbox) /\ panicked' = TRUE
  /\ UNCHANGED <<role, pc, attempt, state, expired, conn, peerSent, peerOpen, out, taken, result>>

ClientFailsToRead ==
  /\ role = "client" /\ pc = "read" /\ ReadFails
  /\ Retry("ErrHandshakeFailed")
  /\ UNCHANGED <<role, state, expired, network, out, taken, panicked>>

\* ClientHandshake: a packet that does not decode or is no Response costs an
\* attempt, a Response without a cookie ends the handshake
ClientReads ==
  /\ role = "client" /\ pc = "read" /\ ReadTakes
  /\ inbox' = Tail(inbox)
  /\ LET p == Head(inbox)
     IN \/ /\ ~p.decodes \/ p.type # "Response"
           /\ Retry("ErrHandshakeFailed") /\ UNCHANGED <<state, taken>>
        \/ /\ p.decodes /\ p.type = "Response" /\ p.cookie < 4
           /\ Returns("ErrInvalidCookie") /\ UNCHANGED <<attempt, state, taken>>
        \/ /\ p.decodes /\ p.type = "Response" /\ p.cookie >= 4
           /\ state' = "ParTOPEN" /\ pc' = "ack" /\ taken' = Append(taken, "Response")
           /\ UNCHANGED <<attempt, conn, result>>
  /\ UNCHANGED <<role, expired, peerSent, peerOpen, out, panicked>>

\* ClientHandshake: BuildAckPacket.  What follows it, Open and the Ack on the
\* wire, is never reached.
ClientAcks ==
  /\ role = "client" /\ pc = "ack" /\ EncodePanics(Bare, 0)
  /\ panicked' = TRUE
  /\ UNCHANGED <<role, pc, attempt, state, expired, conn, network, out, taken, result>>

-----------------------------------------------------------------------------
\* ServerHandshake: both reads
ServerFailsToRead ==
  /\ role = "server" /\ pc \in {"read", "readAck"} /\ ReadFails
  /\ Returns("read")
  /\ UNCHANGED <<role, attempt, state, expired, network, out, taken, panicked>>

\* ServerHandshake: the Request; the service code is at bytes 2 to 5 of the
\* cookie's data, though only 4 bytes were asked for
ServerReads ==
  /\ role = "server" /\ pc = "read" /\ ReadTakes
  /\ inbox' = Tail(inbox)
  /\ LET p == Head(inbox)
     IN \/ /\ ~p.decodes \/ p.type # "Request"
           /\ Returns("ErrHandshakeFailed") /\ UNCHANGED <<state, taken, panicked>>
        \/ /\ p.decodes /\ p.type = "Request" /\ p.cookie < 4
           /\ Returns("ErrInvalidCookie") /\ UNCHANGED <<state, taken, panicked>>
        \/ /\ p.decodes /\ p.type = "Request" /\ p.cookie \in 4..5
           /\ panicked' = TRUE /\ UNCHANGED <<pc, state, conn, taken, result>>
        \/ /\ p.decodes /\ p.type = "Request" /\ p.cookie >= 6
           /\ state' = "Respond" /\ pc' = "respond" /\ taken' = Append(taken, "Request")
           /\ UNCHANGED <<conn, result, panicked>>
  /\ UNCHANGED <<role, attempt, expired, peerSent, peerOpen, out>>

\* ServerHandshake: write the Response, which is long enough to encode
ServerResponds ==
  /\ role = "server" /\ pc = "respond" /\ ~EncodePanics(ResponseOptions, 0)
  /\ \/ MayWrite /\ out' = Append(out, "Response") /\ pc' = "readAck" /\ UNCHANGED <<conn, result>>
     \/ MayFailToWrite /\ Returns("write") /\ UNCHANGED out
  /\ UNCHANGED <<role, attempt, state, expired, network, taken, panicked>>

\* Mutant: any packet that decodes is taken for the Ack.
ServerReadsAck_AnyType ==
  /\ role = "server" /\ pc = "readAck" /\ ReadTakes
  /\ inbox' = Tail(inbox)
  /\ IF Head(inbox).decodes
     THEN state' = "Open" /\ taken' = Append(taken, Head(inbox).type) /\ Returns("nil")
     ELSE Returns("ErrHandshakeFailed") /\ UNCHANGED <<state, taken>>
  /\ UNCHANGED <<role, attempt, expired, peerSent, peerOpen, out, panicked>>

\* ServerHandshake: the Ack
ServerReadsAck ==
  /\ role = "server" /\ pc = "readAck" /\ ReadTakes
  /\ inbox' = Tail(inbox)
  /\ IF Head(inbox).decodes /\ Head(inbox).type = "Ack"
     THEN state' = "Open" /\ taken' = Append(taken, "Ack") /\ Returns("nil")
     ELSE Returns("ErrHandshakeFailed") /\ UNCHANGED <<state, taken>>
  /\ UNCHANGED <<role, attempt, expired, peerSent, peerOpen, out, panicked>>

\* HandshakeHandler.Close: Closing, and BuildClosePacket
Close ==
  /\ result = "nil" /\ state = "Open" /\ EncodePanics(Bare, 0)
  /\ state' = "Closing" /\ panicked' = TRUE
  /\ UNCHANGED <<role, pc, attempt, expired, conn, network, out, taken, result>>

HandshakeStep ==
  \/ ClientWrites \/ ClientFailsToWrite \/ ClientFailsToRead \/ ClientReads \/ ClientAcks \/ DecodePanics
  \/ ServerFailsToRead \/ ServerReads \/ ServerResponds \/ ServerReadsAck

Next ==
  /\ ~panicked
  /\ \/ \E p \in Packets : PeerSend(p)
     \/ PeerClose \/ Expire \/ HandshakeStep \/ Close

\* The goroutine of the handshake moves when it can, and the deadline passes.
\* The peer need not do anything.
Fairness == WF_vars(~panicked /\ HandshakeStep) /\ WF_vars(~panicked /\ Expire)

Spec == Init /\ [][Next]_vars /\ Fairness

-----------------------------------------------------------------------------
\* Type invariant of the handshake.
TypeOK ==
  /\ role \in {"client", "server"}
  /\ pc \in {"write", "read", "ack", "respond", "readAck", "returned"}
  /\ attempt \in 0..MaxRetries
  /\ state \in {"Closed", "Request", "Respond", "ParTOPEN", "Open", "Closing"}
  /\ conn \in {"open", "closed"} /\ inbox \in Seq(Packets)

\* Whatever the peer sends, a server's handshake is Open only after the whole
\* exchange: its Response between a Request and an Ack.
OpenAfterExchange ==
  role = "server" => (state = "Open" => (taken = <<"Request", "Ack">> /\ out = <<"Response">>))

\* HandshakeConfig.Timeout: the handshake returns, even if the peer never says a
\* word, and however many attempts are left (or the program has ended).
HandshakeEnds == <>(result # "none" \/ panicked)
=============================================================================
