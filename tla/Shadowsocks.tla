----------------------------- MODULE Shadowsocks ----------------------------
(***************************************************************************)
(* proxy/shadowsocks/ss.go: an ssEncryptWriter that several goroutines     *)
(* share and, at the other end of a connection, an ssDecryptReader, which  *)
(* one goroutine reads until it gets an error, as io.Copy does.  (A reader *)
(* that went on after an error could take sealed bytes for a length, and   *)
(* get into step again behind a frame it has not delivered.)               *)
(*                                                                         *)
(* A Write is a frame, sent as a length of two bytes and then the sealed   *)
(* data, which are Overhead longer.  The length is taken modulo LenMod     *)
(* (2^16), so that that of a long Write is wrong.  On the wire a length is *)
(* one cell and every sealed byte one.  Sealed data can be opened if they  *)
(* are all of one frame and nothing else; the method "none" opens any, and *)
(* a Write that is too long for its length makes the reader take the rest  *)
(* of it for lengths and data: bytes of a payload give any length, and     *)
(* where it hands over bytes of a length they are written 0.  Bytes are    *)
(* numbered from 1, in the order in which Writes get the lock.  Sizes are  *)
(* those of the Writes, MaxRead of the buffers given to Read, MaxBytes     *)
(* bounds the sum.  The connection may break at any time.                  *)
(***************************************************************************)
EXTENDS Integers, Sequences

CONSTANTS Writers, Sizes, Overhead, LenMod, MaxRead, MaxBytes, Nobody

SealedAssumption ==
  /\ Sizes \subseteq Nat /\ Overhead \in Nat /\ LenMod \in Nat \ {0} /\ MaxRead \in Nat
  /\ Nobody \notin Writers

VARIABLES method, wmu, writer, frame,                \* the writer: its lock, its goroutines and their frames
          wire, broken,                              \* the connection
          reader, length, buf,                       \* the reader, and what it has left over
          written, received,                         \* bytes given to Write, and returned by Read
          overlong                                   \* "none" has sent a length cut short (history)
writing == <<wmu, writer, frame, written, overlong>>
reading == <<reader, length, buf, received>>
vars == <<method, writing, wire, broken, reading>>

Least(m, n) == IF m < n THEN m ELSE n

Init ==
  /\ method \in {"aead", "none"}
  /\ wmu = Nobody /\ writer = [w \in Writers |-> "idle"] /\ frame = [w \in Writers |-> <<>>]
  /\ wire = <<>> /\ broken = FALSE
  /\ reader = "idle" /\ length = 0 /\ buf = <<>>
  /\ written = 0 /\ received = <<>> /\ overlong = FALSE

-----------------------------------------------------------------------------
\* Encrypt: the data between a nonce and a tag, or the data
Encrypt(data) ==
  [i \in 1 .. Len(data) + (IF method = "none" THEN 0 ELSE Overhead) |-> [of |-> data, cell |-> i]]

\* the two bytes of a length
LengthOf(data) == [len |-> Len(data) % LenMod]
IsLength(cell) == "len" \in DOMAIN cell

\* Decrypt succeeds with what Encrypt made of some data
Opens(cells) == method = "none" \/ (cells # <<>> /\ cells = Encrypt(cells[1].of))
Decrypt(cells) ==
  IF method = "none"
  THEN [i \in DOMAIN cells |-> IF IsLength(cells[i]) THEN 0 ELSE cells[i].of[cells[i].cell]]
  ELSE cells[1].of

\* Write, with the lock: the length goes out ...
WriteLength(w) ==
  /\ writer[w] = "idle" /\ wmu = Nobody /\ ~broken
  /\ \E n \in Sizes :
       /\ written + n <= MaxBytes
       /\ frame' = [frame EXCEPT ![w] = Encrypt([i \in 1 .. n |-> written + i])]
       /\ written' = written + n
       /\ overlong' = (overlong \/ (method = "none" /\ n >= LenMod))
  /\ wire' = Append(wire, LengthOf(frame'[w]))
  /\ wmu' = w /\ writer' = [writer EXCEPT ![w] = "data"]
  /\ UNCHANGED <<method, broken, reading>>

\* ... and then the data
WriteData(w) ==
  /\ writer[w] = "data" /\ ~broken
  /\ wire' = wire \o frame[w]
  /\ wmu' = Nobody /\ writer' = [writer EXCEPT ![w] = "idle"] /\ frame' = [frame EXCEPT ![w] = <<>>]
  /\ UNCHANGED <<method, written, overlong, broken, reading>>

\* a write to the connection fails, at either place
WriteFails(w) ==
  /\ writer[w] = "data" /\ broken
  /\ wmu' = Nobody /\ writer' = [writer EXCEPT ![w] = "idle"] /\ frame' = [frame EXCEPT ![w] = <<>>]
  /\ UNCHANGED <<method, written, overlong, wire, broken, reading>>

-----------------------------------------------------------------------------
\* Read copies what fits; the rest stays in buf.
Deliver(data) ==
  \E size \in 1 .. MaxRead :
    LET n == Least(size, Len(data))
    IN received' = received \o SubSeq(data, 1, n) /\ buf' = SubSeq(data, n + 1, Len(data))

\* Read: data left over from the last frame ...
ReadRest ==
  /\ reader = "idle" /\ buf # <<>>
  /\ Deliver(buf)
  /\ UNCHANGED <<method, writing, wire, broken, reader, length>>

\* ... or the length of the next one, or what the reader takes for it
ReadLength ==
  /\ reader = "idle" /\ buf = <<>> /\ wire # <<>>
  /\ length' \in (IF IsLength(Head(wire)) THEN {Head(wire).len} ELSE 0 .. LenMod - 1)
  /\ wire' = Tail(wire)
  /\ reader' = "data"
  /\ UNCHANGED <<method, writing, broken, buf, received>>

ReadData ==
  /\ reader = "data" /\ length <= Len(wire)
  /\ LET cells == SubSeq(wire, 1, length)
     IN IF Opens(cells)
        THEN Deliver(Decrypt(cells)) /\ reader' = "idle"
        ELSE reader' = "done" /\ UNCHANGED <<received, buf>>
  /\ wire' = SubSeq(wire, length + 1, Len(wire))
  /\ UNCHANGED <<method, writing, broken, length>>

\* io.ReadFull fails, of the length or of the data
ReadFails ==
  /\ broken
  /\ \/ reader = "idle" /\ buf = <<>> /\ wire = <<>>
     \/ reader = "data" /\ length > Len(wire)
  /\ reader' = "done"
  /\ UNCHANGED <<method, writing, wire, broken, length, buf, received>>

Break ==
  /\ ~broken
  /\ broken' = TRUE
  /\ UNCHANGED <<method, writing, wire, reading>>

Next ==
  \/ \E w \in Writers : WriteLength(w) \/ WriteData(w) \/ WriteFails(w)
  \/ ReadRest \/ ReadLength \/ ReadData \/ ReadFails \/ Break

Spec == Init /\ [][Next]_vars

-----------------------------------------------------------------------------
Stream == INSTANCE ByteStream WITH sent <- [i \in 1 .. written |-> i]

\* What goes through the cipher is a byte stream: several goroutines may write,
\* buffers may be short, and a sealed Write that is too long for its length field
\* ends the stream without handing over anything wrong.  Nothing protects "none":
\* from the first Write on that is too long there, anything may be read.
IsByteStream == Stream!Init /\ [][overlong' \/ Stream!Next]_vars
=============================================================================
