-------------------------- MODULE ByteStreamProofs --------------------------
(***************************************************************************)
(* GRPCConn, WebSocketConn and Shadowsocks implement ByteStream, for all   *)
(* values of the constants that satisfy StreamsAssumption: every step of a *)
(* connection is a Write, a Read or a stutter of a stream of bytes; of     *)
(* Shadowsocks with "none", the steps before a length that is cut short.   *)
(***************************************************************************)
EXTENDS StreamsProofs

(***************************************************************************)
(* Sequences and streams of numbered bytes                                 *)
(***************************************************************************)
\* A function with one value changed.
LEMMA Changed ==
  ASSUME NEW S, NEW T, NEW f \in [S -> T], NEW e \in S, NEW x \in T
  PROVE  /\ [f EXCEPT ![e] = x] \in [S -> T] /\ [f EXCEPT ![e] = x][e] = x
         /\ \A g \in S \ {e} : [f EXCEPT ![e] = x][g] = f[g]
OBVIOUS

\* Of the bytes written those read are no more if they are not more with the ones left over.
LEMMA NotMore ==
  ASSUME NEW x \in Nat, NEW y \in Nat, NEW z \in Nat, x + y <= z
  PROVE  x <= z
OBVIOUS

\* Sending n of the y bytes that are left keeps the sum.
LEMMA PartOfSum ==
  ASSUME NEW x \in Nat, NEW y \in Nat, NEW z \in Nat, x + y = z, NEW n \in Nat, n <= y
  PROVE  x + n <= z /\ (x + n) + (y - n) = z
OBVIOUS

\* The first n members of a sequence.
LEMMA FirstPart ==
  ASSUME NEW S, NEW s \in Seq(S), NEW n \in Nat, n <= Len(s)
  PROVE  /\ SubSeq(s, 1, n) \in Seq(S) /\ Len(SubSeq(s, 1, n)) = n
         /\ \A i \in 1 .. n : SubSeq(s, 1, n)[i] = s[i]
<1>1. Len(s) \in Nat
  BY LenProperties
<1>2. \A i \in 1 .. n : i \in 1 .. Len(s)
  BY <1>1
<1>3. \A i \in 1 .. n : s[i] \in S
  BY <1>2, ElementOfSeq
<1> QED
  BY <1>3, SubSeqProperties

\* The members of a sequence from the m-th on.
LEMMA LastPart ==
  ASSUME NEW S, NEW s \in Seq(S), NEW m \in Nat \ {0}
  PROVE  SubSeq(s, m, Len(s)) \in Seq(S)
<1>1. Len(s) \in Nat
  BY LenProperties
<1>2. \A i \in m .. Len(s) : i \in 1 .. Len(s)
  BY <1>1
<1>3. \A i \in m .. Len(s) : s[i] \in S
  BY <1>2, ElementOfSeq
<1> QED
  BY <1>1, <1>3, SubSeqProperties

\* The bytes of s are those numbered from a + 1 on.
From(s, a) == s \in Seq(Nat) /\ \A i \in 1 .. Len(s) : s[i] = a + i

\* The frames of w, one behind the other, are the bytes from a + 1 to b: c says how
\* many bytes there are before each of them.
Framed(w, c, a, b) ==
  /\ c \in [1 .. Len(w) + 1 -> Nat] /\ c[1] = a /\ c[Len(w) + 1] = b
  /\ \A k \in 1 .. Len(w) : From(w[k], c[k]) /\ c[k + 1] = c[k] + Len(w[k]) /\ c[k + 1] <= b
Frames(w, a, b) == \E c : Framed(w, c, a, b)

\* t is s or continues it.
Begins(t, s) == Len(s) <= Len(t) /\ SubSeq(t, 1, Len(s)) = s

\* A reader that has the bytes up to some point takes part of those behind it.
LEMMA Taken ==
  ASSUME NEW r, From(r, 0), NEW d, From(d, Len(r)), NEW n \in 0 .. Len(d)
  PROVE  /\ From(r \o SubSeq(d, 1, n), 0) /\ Len(r \o SubSeq(d, 1, n)) = Len(r) + n
         /\ From(SubSeq(d, n + 1, Len(d)), Len(r) + n) /\ Len(SubSeq(d, n + 1, Len(d))) = Len(d) - n
         /\ Begins(r \o SubSeq(d, 1, n), r)
<1> DEFINE h == SubSeq(d, 1, n)
           t == SubSeq(d, n + 1, Len(d))
<1>1. r \in Seq(Nat) /\ d \in Seq(Nat) /\ Len(r) \in Nat /\ Len(d) \in Nat /\ n \in Nat /\ n <= Len(d)
  BY LenProperties DEF From
<1>2. h \in Seq(Nat) /\ Len(h) = n /\ \A i \in 1 .. n : h[i] = d[i]
  BY <1>1, SubSeqProperties
<1>3. t \in Seq(Nat) /\ Len(t) = Len(d) - n /\ \A i \in 1 .. Len(d) - n : t[i] = d[n + i]
  BY <1>1, SubSeqProperties
<1> HIDE DEF h, t
<1>4. /\ r \o h \in Seq(Nat) /\ Len(r \o h) = Len(r) + n
      /\ \A i \in 1 .. Len(r) + n : (r \o h)[i] = IF i <= Len(r) THEN r[i] ELSE h[i - Len(r)]
  BY <1>1, <1>2, ConcatProperties
<1>5. From(r \o h, 0)
  <2> SUFFICES ASSUME NEW i \in 1 .. Len(r) + n PROVE (r \o h)[i] = 0 + i
    BY <1>4 DEF From
  <2>1. CASE i <= Len(r)
    BY <2>1, <1>1, <1>4 DEF From
  <2>2. CASE ~(i <= Len(r))
    <3>1. i - Len(r) \in 1 .. n /\ i - Len(r) \in 1 .. Len(d)
      BY <2>2, <1>1
    <3>2. (r \o h)[i] = d[i - Len(r)]
      BY <2>2, <3>1, <1>2, <1>4
    <3> QED
      BY <3>1, <3>2, <1>1 DEF From
  <2> QED
    BY <2>1, <2>2
<1>6. From(t, Len(r) + n)
  <2> SUFFICES ASSUME NEW i \in 1 .. Len(d) - n PROVE t[i] = Len(r) + n + i
    BY <1>3 DEF From
  <2>1. n + i \in 1 .. Len(d)
    BY <1>1
  <2> QED
    BY <2>1, <1>1, <1>3 DEF From
<1>7. SubSeq(r \o h, 1, Len(r)) = r
  <2>1. /\ SubSeq(r \o h, 1, Len(r)) \in Seq(Nat) /\ Len(SubSeq(r \o h, 1, Len(r))) = Len(r)
        /\ \A i \in 1 .. Len(r) : SubSeq(r \o h, 1, Len(r))[i] = (r \o h)[i]
    BY <1>1, <1>4, SubSeqProperties
  <2>2. \A i \in 1 .. Len(r) : SubSeq(r \o h, 1, Len(r))[i] = r[i]
    BY <2>1, <1>1, <1>4
  <2> QED
    BY <2>1, <2>2, <1>1, SeqEqual
<1> QED
  BY <1>1, <1>3, <1>4, <1>5, <1>6, <1>7 DEF Begins, h, t

\* Two parts of the bytes behind the first m.
LEMMA PartsOf ==
  ASSUME NEW m \in Nat, NEW d, From(d, m), NEW n \in 0 .. Len(d)
  PROVE  /\ SubSeq(d, 1, n) \in Seq(Nat) /\ Len(SubSeq(d, 1, n)) = n /\ From(SubSeq(d, 1, n), m)
         /\ SubSeq(d, n + 1, Len(d)) \in Seq(Nat) /\ Len(SubSeq(d, n + 1, Len(d))) = Len(d) - n
         /\ From(SubSeq(d, n + 1, Len(d)), m + n)
<1> DEFINE h == SubSeq(d, 1, n)
           t == SubSeq(d, n + 1, Len(d))
<1>1. d \in Seq(Nat) /\ Len(d) \in Nat /\ n \in Nat /\ n <= Len(d)
  BY LenProperties DEF From
<1>2. h \in Seq(Nat) /\ Len(h) = n /\ \A i \in 1 .. n : h[i] = d[i]
  BY <1>1, SubSeqProperties
<1>3. t \in Seq(Nat) /\ Len(t) = Len(d) - n /\ \A i \in 1 .. Len(d) - n : t[i] = d[n + i]
  BY <1>1, SubSeqProperties
<1> HIDE DEF h, t
<1>4. ASSUME NEW i \in 1 .. n PROVE h[i] = m + i
  <2>1. i \in 1 .. Len(d)
    BY <1>1
  <2> QED
    BY <2>1, <1>2 DEF From
<1>5. ASSUME NEW i \in 1 .. Len(d) - n PROVE t[i] = (m + n) + i
  <2>1. n + i \in 1 .. Len(d)
    BY <1>1
  <2>2. t[i] = m + (n + i)
    BY <2>1, <1>3 DEF From
  <2> QED
    BY <2>2, <1>1
<1>6. From(h, m) /\ From(t, m + n)
  BY <1>2, <1>3, <1>4, <1>5 DEF From
<1> QED
  BY <1>2, <1>3, <1>6 DEF h, t

\* What was read begins what was written.
LEMMA WrittenBegins ==
  ASSUME NEW r, From(r, 0), NEW w \in Nat, Len(r) <= w
  PROVE  Begins([i \in 1 .. w |-> i], r)
<1> DEFINE s == [i \in 1 .. w |-> i]
<1>1. s \in Seq(Nat) /\ Len(s) = w /\ \A i \in 1 .. w : s[i] = i
  <2>1. s \in [1 .. w -> Nat]
    OBVIOUS
  <2> QED
    BY <2>1, SeqDef
<1> HIDE DEF s
<1>2. r \in Seq(Nat) /\ Len(r) \in Nat
  BY LenProperties DEF From
<1>3. SubSeq(s, 1, Len(r)) \in Seq(Nat) /\ Len(SubSeq(s, 1, Len(r))) = Len(r)
      /\ \A i \in 1 .. Len(r) : SubSeq(s, 1, Len(r))[i] = s[i]
  BY <1>1, <1>2, SubSeqProperties
<1>4. \A i \in 1 .. Len(r) : SubSeq(s, 1, Len(r))[i] = r[i]
  BY <1>1, <1>2, <1>3 DEF From
<1>5. SubSeq(s, 1, Len(r)) = r
  BY <1>2, <1>3, <1>4, SeqEqual
<1> QED
  BY <1>1, <1>5 DEF Begins, s

\* n bytes behind the first m.
LEMMA NextBytes ==
  ASSUME NEW m \in Nat, NEW n \in Nat
  PROVE  From([i \in 1 .. n |-> m + i], m) /\ Len([i \in 1 .. n |-> m + i]) = n
<1>1. [i \in 1 .. n |-> m + i] \in [1 .. n -> Nat]
  OBVIOUS
<1> QED
  BY <1>1, SeqDef DEF From

\* More is written.
LEMMA WrittenGrows ==
  ASSUME NEW w \in Nat, NEW v \in Nat, w <= v
  PROVE  Begins([i \in 1 .. v |-> i], [i \in 1 .. w |-> i])
<1>1. [i \in 1 .. w |-> i] = [i \in 1 .. w |-> 0 + i]
  OBVIOUS
<1>2. From([i \in 1 .. w |-> i], 0) /\ Len([i \in 1 .. w |-> i]) = w
  BY <1>1, NextBytes
<1> QED
  BY <1>2, WrittenBegins

\* A frame is added behind the others.
LEMMA FrameAdded ==
  ASSUME NEW w, w \in Seq(Seq(Nat)), NEW a \in Nat, NEW b \in Nat, Frames(w, a, b), NEW n \in Nat
  PROVE  Frames(Append(w, [i \in 1 .. n |-> b + i]), a, b + n)
<1>1. PICK c : Framed(w, c, a, b)
  BY DEF Frames
<1> DEFINE x == [i \in 1 .. n |-> b + i]
           z == Append(w, x)
           d == [k \in 1 .. Len(w) + 2 |-> IF k = Len(w) + 2 THEN b + n ELSE c[k]]
<1>2. From(x, b) /\ Len(x) = n /\ x \in Seq(Nat)
  BY NextBytes DEF From
<1> HIDE DEF x
<1>3. /\ Len(w) \in Nat /\ Len(z) = Len(w) + 1 /\ z[Len(w) + 1] = x
      /\ \A k \in 1 .. Len(w) : z[k] = w[k]
  BY <1>2, LenProperties, AppendProperties
<1> HIDE DEF z
<1>4. /\ c \in [1 .. Len(w) + 1 -> Nat] /\ c[1] = a /\ c[Len(w) + 1] = b
      /\ \A k \in 1 .. Len(w) : From(w[k], c[k]) /\ c[k + 1] = c[k] + Len(w[k]) /\ c[k + 1] <= b
  BY <1>1 DEF Framed
<1>5. /\ d \in [1 .. Len(z) + 1 -> Nat] /\ d[1] = a /\ d[Len(z) + 1] = b + n /\ d[Len(w) + 1] = b
      /\ \A k \in 1 .. Len(w) + 1 : d[k] = c[k]
  BY <1>3, <1>4
<1> HIDE DEF d
<1>6. ASSUME NEW k \in 1 .. Len(w) + 1 PROVE From(z[k], d[k]) /\ d[k + 1] = d[k] + Len(z[k]) /\ d[k + 1] <= b + n
  <2>1. CASE k = Len(w) + 1
    <3>1. z[k] = x /\ d[k] = b /\ d[k + 1] = b + n
      BY <2>1, <1>3, <1>5
    <3> QED
      BY <3>1, <1>2
  <2>2. CASE k \in 1 .. Len(w)
    <3>1. k \in 1 .. Len(w) + 1 /\ k + 1 \in 1 .. Len(w) + 1
      BY <2>2, <1>3
    <3>2. d[k] = c[k] /\ d[k + 1] = c[k + 1] /\ z[k] = w[k] /\ c[k + 1] \in Nat
      BY <3>1, <2>2, <1>3, <1>4, <1>5
    <3>3. From(w[k], c[k]) /\ c[k + 1] = c[k] + Len(w[k]) /\ c[k + 1] <= b
      BY <2>2, <1>4
    <3>4. c[k + 1] <= b + n
      BY <3>2, <3>3
    <3> QED
      BY <3>2, <3>3, <3>4
  <2>3. k = Len(w) + 1 \/ k \in 1 .. Len(w)
    BY LenProperties
  <2> QED
    BY <2>1, <2>2, <2>3
<1>7. Framed(z, d, a, b + n)
  BY <1>3, <1>5, <1>6 DEF Framed
<1> QED
  BY <1>7 DEF Frames, x, z

\* The first frame is taken away.
LEMMA FrameTaken ==
  ASSUME NEW w, w \in Seq(Seq(Nat)), NEW a \in Nat, NEW b \in Nat, Frames(w, a, b), w # <<>>
  PROVE  From(Head(w), a) /\ Frames(Tail(w), a + Len(Head(w)), b) /\ a + Len(Head(w)) <= b
<1>1. PICK c : Framed(w, c, a, b)
  BY DEF Frames
<1> DEFINE t == Tail(w)
           d == [k \in 1 .. Len(w) |-> c[k + 1]]
<1>2. /\ Len(w) \in Nat \ {0} /\ Head(w) = w[1] /\ Len(t) = Len(w) - 1
      /\ \A k \in 1 .. Len(w) - 1 : t[k] = w[k + 1]
  BY EmptySeq, LenProperties, HeadTailProperties
<1> HIDE DEF t
<1>4. /\ c \in [1 .. Len(w) + 1 -> Nat] /\ c[1] = a /\ c[Len(w) + 1] = b
      /\ \A k \in 1 .. Len(w) : From(w[k], c[k]) /\ c[k + 1] = c[k] + Len(w[k]) /\ c[k + 1] <= b
  BY <1>1 DEF Framed
<1>5. From(Head(w), a) /\ c[2] = a + Len(Head(w)) /\ c[2] <= b
  <2>1. 1 \in 1 .. Len(w) /\ 1 + 1 = 2
    BY <1>2
  <2>2. From(w[1], c[1]) /\ c[1 + 1] = c[1] + Len(w[1]) /\ c[1 + 1] <= b
    BY <2>1, <1>4
  <2> QED
    BY <2>1, <2>2, <1>2, <1>4
<1>6. d \in [1 .. Len(t) + 1 -> Nat] /\ d[1] = c[2] /\ d[Len(t) + 1] = b /\ \A k \in 1 .. Len(w) : d[k] = c[k + 1]
  <2>1. Len(t) + 1 = Len(w) /\ 1 \in 1 .. Len(w) /\ Len(w) \in 1 .. Len(w) /\ 1 + 1 = 2
    BY <1>2
  <2>2. \A k \in 1 .. Len(w) : c[k + 1] \in Nat
    <3> TAKE k \in 1 .. Len(w)
    <3>1. k + 1 \in 1 .. Len(w) + 1
      BY LenProperties
    <3> QED
      BY <3>1, <1>4
  <2>3. d \in [1 .. Len(w) -> Nat]
    BY <2>2
  <2> QED
    BY <2>1, <2>3, <1>4
<1> HIDE DEF d
<1>7. ASSUME NEW k \in 1 .. Len(t) PROVE From(t[k], d[k]) /\ d[k + 1] = d[k] + Len(t[k]) /\ d[k + 1] <= b
  <2>1. k \in 1 .. Len(w) /\ k + 1 \in 1 .. Len(w) /\ k \in 1 .. Len(w) - 1
    BY <1>2
  <2>2. t[k] = w[k + 1] /\ d[k] = c[k + 1] /\ d[k + 1] = c[(k + 1) + 1]
    BY <2>1, <1>2, <1>6
  <2>3. From(w[k + 1], c[k + 1]) /\ c[(k + 1) + 1] = c[k + 1] + Len(w[k + 1]) /\ c[(k + 1) + 1] <= b
    BY <2>1, <1>4
  <2> QED
    BY <2>2, <2>3
<1>8. Framed(t, d, c[2], b)
  BY <1>6, <1>7 DEF Framed
<1> QED
  BY <1>5, <1>8 DEF Frames, t

(***************************************************************************)
(* GRPCConn                                                                *)
(***************************************************************************)
\* The types of the variables.
GrpcTyped ==
  /\ gwire \in [Grpc!Ends -> Seq(Seq(Nat))]
  /\ greadBuf \in [Grpc!Ends -> Seq(Nat)] /\ greceived \in [Grpc!Ends -> Seq(Nat)]
  /\ gwritten \in [Grpc!Ends -> Nat] /\ gtodo \in [Grpc!Ends -> Nat]
  /\ greader \in [Grpc!Ends -> {"check", "lock", "frame", "done"}]

\* What end e has read, what it has left over, and the frames on their way to it are
\* the bytes that the other end wrote; it goes to the socket with nothing left over.
Arrives(e) ==
  /\ From(greceived[e], 0) /\ From(greadBuf[e], Len(greceived[e]))
  /\ Frames(gwire[e], Len(greceived[e]) + Len(greadBuf[e]), gwritten[Grpc!Peer(e)])
  /\ Len(greceived[e]) + Len(greadBuf[e]) <= gwritten[Grpc!Peer(e)]
  /\ greader[e] = "frame" => greadBuf[e] = <<>>

\* The inductive invariant
GrpcInv == GrpcTyped /\ \A e \in Grpc!Ends : Arrives(e)

\* The step of the stream that e reads.
Moves(e) ==
  \/ greceived'[e] = greceived[e] /\ gwritten[Grpc!Peer(e)] <= gwritten'[Grpc!Peer(e)]
  \/ Begins(greceived'[e], greceived[e]) /\ gwritten'[Grpc!Peer(e)] = gwritten[Grpc!Peer(e)]

\* The two ends of a gRPC connection are each other's peers.
LEMMA Peers ==
  ASSUME NEW e \in Grpc!Ends
  PROVE  Grpc!Peer(e) \in Grpc!Ends /\ Grpc!Peer(e) # e /\ Grpc!Peer(Grpc!Peer(e)) = e
BY DEF Grpc!Ends, Grpc!Peer

\* Deliver: the data continue what was read, and what does not fit is left over.
LEMMA GrpcDelivers ==
  ASSUME Grpc!GrpcAssumption, NEW e \in Grpc!Ends, GrpcTyped, From(greceived[e], 0),
         NEW d, From(d, Len(greceived[e])), Grpc!Deliver(e, d)
  PROVE  /\ greceived' \in [Grpc!Ends -> Seq(Nat)] /\ greadBuf' \in [Grpc!Ends -> Seq(Nat)]
         /\ \A f \in Grpc!Ends \ {e} : greceived'[f] = greceived[f] /\ greadBuf'[f] = greadBuf[f]
         /\ From(greceived'[e], 0) /\ From(greadBuf'[e], Len(greceived'[e]))
         /\ Len(greceived'[e]) + Len(greadBuf'[e]) = Len(greceived[e]) + Len(d)
         /\ Begins(greceived'[e], greceived[e])
<1> DEFINE r == greceived[e]
<1>1. PICK size \in 1 .. MaxRead :
        LET n == Grpc!Least(size, Len(d))
        IN /\ greceived' = [greceived EXCEPT ![e] = @ \o SubSeq(d, 1, n)]
           /\ greadBuf' = [greadBuf EXCEPT ![e] = SubSeq(d, n + 1, Len(d))]
  BY DEF Grpc!Deliver
<1> DEFINE n == Grpc!Least(size, Len(d))
<1>2. d \in Seq(Nat) /\ Len(d) \in Nat /\ size \in Nat /\ r \in Seq(Nat) /\ Len(r) \in Nat
  BY LenProperties DEF From, Grpc!GrpcAssumption
<1>3. n \in 0 .. Len(d)
  BY <1>2 DEF Grpc!Least
<1> HIDE DEF n
<1> DEFINE x == r \o SubSeq(d, 1, n)
           y == SubSeq(d, n + 1, Len(d))
<1>4. /\ From(x, 0) /\ Len(x) = Len(r) + n /\ From(y, Len(r) + n) /\ Len(y) = Len(d) - n
      /\ Begins(x, r)
  BY <1>3, Taken
<1>5. x \in Seq(Nat) /\ y \in Seq(Nat)
  BY <1>4 DEF From
<1>6. greceived' = [greceived EXCEPT ![e] = x] /\ greadBuf' = [greadBuf EXCEPT ![e] = y]
  BY <1>1 DEF n
<1> HIDE DEF x, y, r
<1>7. /\ greceived'[e] = x /\ greadBuf'[e] = y
      /\ greceived' \in [Grpc!Ends -> Seq(Nat)] /\ greadBuf' \in [Grpc!Ends -> Seq(Nat)]
      /\ \A f \in Grpc!Ends \ {e} : greceived'[f] = greceived[f] /\ greadBuf'[f] = greadBuf[f]
  BY <1>5, <1>6 DEF GrpcTyped
<1>8. n \in Int
  BY <1>3
<1>9. Len(x) + Len(y) = Len(r) + Len(d)
  BY <1>2, <1>4, <1>8
<1> QED
  BY <1>4, <1>7, <1>9 DEF r

\* A step that leaves alone what is read and written.
LEMMA GrpcRests ==
  ASSUME GrpcInv, UNCHANGED <<gwire, greadBuf, greceived, gwritten>>, gtodo' \in [Grpc!Ends -> Nat],
         greader' \in [Grpc!Ends -> {"check", "lock", "frame", "done"}],
         \A e \in Grpc!Ends : greader'[e] = "frame" => greader[e] = "frame" \/ greadBuf[e] = <<>>
  PROVE  GrpcInv' /\ \A e \in Grpc!Ends : Moves(e)
<1>1. GrpcTyped'
  BY DEF GrpcTyped, GrpcInv
<1>2. \A e \in Grpc!Ends : Arrives(e)'
  <2> TAKE e \in Grpc!Ends
  <2>1. Arrives(e)
    BY DEF GrpcInv
  <2>2. greader'[e] = "frame" => greadBuf[e] = <<>>
    BY <2>1 DEF Arrives
  <2> QED
    BY <2>1, <2>2 DEF Arrives
<1>3. \A e \in Grpc!Ends : Moves(e)
  <2> TAKE e \in Grpc!Ends
  <2>1. gwritten[Grpc!Peer(e)] \in Nat
    BY Peers DEF GrpcInv, GrpcTyped
  <2> QED
    BY <2>1 DEF Moves
<1> QED
  BY <1>1, <1>2, <1>3 DEF GrpcInv

\* What end e reads does not change the stream that the other end reads.
LEMMA GrpcApart ==
  ASSUME GrpcInv, NEW e \in Grpc!Ends, GrpcTyped', Arrives(e)', Moves(e),
         NEW f \in Grpc!Ends, f # e,
         greceived'[f] = greceived[f], greadBuf'[f] = greadBuf[f], gwire'[f] = gwire[f],
         gwritten'[Grpc!Peer(f)] = gwritten[Grpc!Peer(f)], greader'[f] = greader[f]
  PROVE  GrpcInv' /\ \A g \in Grpc!Ends : Moves(g)
<1>1. Arrives(f)
  BY DEF GrpcInv
<1>2. Arrives(f)'
  BY <1>1 DEF Arrives
<1>3. Moves(f)
  <2>1. gwritten[Grpc!Peer(f)] \in Nat
    BY Peers DEF GrpcInv, GrpcTyped
  <2> QED
    BY <2>1 DEF Moves
<1>4. \A g \in Grpc!Ends : g = e \/ g = f
  BY DEF Grpc!Ends
<1> QED
  BY <1>2, <1>3, <1>4 DEF GrpcInv

\* Read: what the last frame left over comes first.
LEMMA GrpcReadRest ==
  ASSUME Grpc!GrpcAssumption, GrpcInv, NEW e \in Grpc!Ends, Grpc!ReadRest(e)
  PROVE  GrpcInv' /\ \A f \in Grpc!Ends : Moves(f)
<1>1. Arrives(e) /\ GrpcTyped
  BY DEF GrpcInv
<1>2. /\ Grpc!Deliver(e, greadBuf[e]) /\ greader' = [greader EXCEPT ![e] = "check"]
      /\ gwire' = gwire /\ gwritten' = gwritten /\ gtodo' = gtodo
  BY DEF Grpc!ReadRest
<1>3. /\ greceived' \in [Grpc!Ends -> Seq(Nat)] /\ greadBuf' \in [Grpc!Ends -> Seq(Nat)]
      /\ \A f \in Grpc!Ends \ {e} : greceived'[f] = greceived[f] /\ greadBuf'[f] = greadBuf[f]
      /\ From(greceived'[e], 0) /\ From(greadBuf'[e], Len(greceived'[e]))
      /\ Len(greceived'[e]) + Len(greadBuf'[e]) = Len(greceived[e]) + Len(greadBuf[e])
      /\ Begins(greceived'[e], greceived[e])
  BY <1>1, <1>2, GrpcDelivers DEF Arrives
<1>4. /\ GrpcTyped' /\ greader'[e] = "check" /\ \A f \in Grpc!Ends \ {e} : greader'[f] = greader[f]
  BY <1>1, <1>2, <1>3 DEF GrpcTyped
<1>5. Arrives(e)'
  BY <1>1, <1>2, <1>3, <1>4 DEF Arrives
<1>6. Moves(e)
  BY <1>2, <1>3 DEF Moves
<1> QED
  BY <1>2, <1>3, <1>4, <1>5, <1>6, Peers, GrpcApart

\* Read: a frame of the peer is taken from the stream when nothing is left over.
LEMMA GrpcReadFrame ==
  ASSUME Grpc!GrpcAssumption, GrpcInv, NEW e \in Grpc!Ends, Grpc!ReadFrame(e)
  PROVE  GrpcInv' /\ \A f \in Grpc!Ends : Moves(f)
<1> DEFINE w == gwire[e]
           a == Len(greceived[e]) + Len(greadBuf[e])
           b == gwritten[Grpc!Peer(e)]
<1>1. Arrives(e) /\ GrpcTyped
  BY DEF GrpcInv
<1>2. /\ Grpc!Deliver(e, Head(gwire[e])) /\ greader' = [greader EXCEPT ![e] = "check"]
      /\ gwire' = [gwire EXCEPT ![e] = Tail(@)] /\ gwritten' = gwritten /\ gtodo' = gtodo
      /\ gwire[e] # <<>> /\ greader[e] = "frame"
  BY DEF Grpc!ReadFrame
<1>3. w \in Seq(Seq(Nat)) /\ b \in Nat /\ greceived[e] \in Seq(Nat) /\ Len(greceived[e]) \in Nat
  BY <1>1, Peers, LenProperties DEF GrpcTyped
<1>4. greadBuf[e] = <<>> /\ a = Len(greceived[e]) /\ Frames(w, a, b)
  <2>1. greadBuf[e] = <<>> /\ Frames(w, a, b)
    BY <1>1, <1>2 DEF Arrives
  <2>2. Len(greadBuf[e]) = 0
    BY <2>1, EmptySeq
  <2> QED
    BY <2>1, <2>2, <1>3
<1>5. From(Head(w), a) /\ Frames(Tail(w), a + Len(Head(w)), b) /\ a + Len(Head(w)) <= b
  BY <1>2, <1>3, <1>4, FrameTaken
<1>6. /\ greceived' \in [Grpc!Ends -> Seq(Nat)] /\ greadBuf' \in [Grpc!Ends -> Seq(Nat)]
      /\ \A f \in Grpc!Ends \ {e} : greceived'[f] = greceived[f] /\ greadBuf'[f] = greadBuf[f]
      /\ From(greceived'[e], 0) /\ From(greadBuf'[e], Len(greceived'[e]))
      /\ Len(greceived'[e]) + Len(greadBuf'[e]) = Len(greceived[e]) + Len(Head(w))
      /\ Begins(greceived'[e], greceived[e])
  <2>1. From(Head(w), Len(greceived[e])) /\ From(greceived[e], 0)
    BY <1>1, <1>4, <1>5 DEF Arrives
  <2> QED
    BY <2>1, <1>1, <1>2, GrpcDelivers
<1>7. Tail(w) \in Seq(Seq(Nat))
  BY <1>2, <1>3, HeadTailProperties
<1>8. /\ gwire' \in [Grpc!Ends -> Seq(Seq(Nat))] /\ gwire'[e] = Tail(w)
      /\ \A f \in Grpc!Ends \ {e} : gwire'[f] = gwire[f]
  BY <1>1, <1>2, <1>7 DEF GrpcTyped
<1>9. /\ GrpcTyped' /\ greader'[e] = "check" /\ \A f \in Grpc!Ends \ {e} : greader'[f] = greader[f]
  BY <1>1, <1>2, <1>6, <1>8 DEF GrpcTyped
<1>10. Arrives(e)'
  BY <1>2, <1>4, <1>5, <1>6, <1>8, <1>9 DEF Arrives
<1>11. Moves(e)
  BY <1>2, <1>6 DEF Moves
<1>12. /\ Grpc!Peer(e) \in Grpc!Ends /\ Grpc!Peer(e) # e
       /\ gwritten'[Grpc!Peer(Grpc!Peer(e))] = gwritten[Grpc!Peer(Grpc!Peer(e))]
  BY <1>2, Peers
<1> QED
  BY <1>6, <1>8, <1>9, <1>10, <1>11, <1>12, GrpcApart

\* Write: the next piece, of at most MaxData bytes, is the next frame of the peer.
LEMMA GrpcWriteChunk ==
  ASSUME Grpc!GrpcAssumption, GrpcInv, NEW e \in Grpc!Ends, Grpc!WriteChunk(e)
  PROVE  GrpcInv' /\ \A f \in Grpc!Ends : Moves(f)
<1> DEFINE p == Grpc!Peer(e)
           n == Grpc!Least(gtodo[e], MaxData)
           a == Len(greceived[p]) + Len(greadBuf[p])
           b == gwritten[e]
           x == [i \in 1 .. n |-> b + i]
<1>1. Arrives(p) /\ GrpcTyped /\ p \in Grpc!Ends /\ Grpc!Peer(p) = e /\ p # e
  BY Peers DEF GrpcInv
<1>2. /\ gwire' = [gwire EXCEPT ![p] = Append(@, x)] /\ gwritten' = [gwritten EXCEPT ![e] = @ + n]
      /\ gtodo' = [gtodo EXCEPT ![e] = @ - n]
      /\ greader' = greader /\ greadBuf' = greadBuf /\ greceived' = greceived
  BY DEF Grpc!WriteChunk
<1>3. n \in Nat /\ gtodo[e] - n \in Nat /\ b \in Nat
  BY <1>1 DEF GrpcTyped, Grpc!Least, Grpc!GrpcAssumption
<1>4. a \in Nat /\ gwire[p] \in Seq(Seq(Nat)) /\ Frames(gwire[p], a, b) /\ a <= b
  <2>1. Len(greceived[p]) \in Nat /\ Len(greadBuf[p]) \in Nat
    BY <1>1, LenProperties DEF GrpcTyped
  <2> QED
    BY <2>1, <1>1 DEF Arrives, GrpcTyped
<1> HIDE DEF n
<1>5. x \in Seq(Nat)
  BY <1>3, NextBytes DEF From
<1>6. Frames(Append(gwire[p], x), a, b + n)
  BY <1>3, <1>4, FrameAdded
<1> HIDE DEF x
<1>7. Append(gwire[p], x) \in Seq(Seq(Nat))
  BY <1>4, <1>5, AppendProperties
<1>8. /\ GrpcTyped' /\ gwire'[p] = Append(gwire[p], x) /\ gwritten'[e] = b + n
      /\ gwire'[e] = gwire[e] /\ gwritten'[p] = gwritten[p]
  <2>1. b + n \in Nat
    BY <1>3
  <2>2. /\ gwire' \in [Grpc!Ends -> Seq(Seq(Nat))] /\ gwire'[p] = Append(gwire[p], x) /\ gwire'[e] = gwire[e]
    BY <1>1, <1>2, <1>7, Changed DEF GrpcTyped
  <2>3. /\ gwritten' \in [Grpc!Ends -> Nat] /\ gwritten'[e] = b + n /\ gwritten'[p] = gwritten[p]
    BY <2>1, <1>1, <1>2, Changed DEF GrpcTyped
  <2>4. gtodo' \in [Grpc!Ends -> Nat]
    BY <1>1, <1>2, <1>3, Changed DEF GrpcTyped
  <2> QED
    BY <2>2, <2>3, <2>4, <1>1, <1>2 DEF GrpcTyped
<1> HIDE DEF a, b
<1>9. a <= b + n /\ b <= b + n
  BY <1>3, <1>4
<1> USE DEF a, b
<1>10. Arrives(p)'
  BY <1>1, <1>2, <1>6, <1>8, <1>9 DEF Arrives
<1>11. Moves(p)
  BY <1>1, <1>2, <1>8, <1>9 DEF Moves
<1> QED
  BY <1>1, <1>2, <1>8, <1>10, <1>11, GrpcApart

\* Every step of a gRPC connection, and every step of its environment, keeps GrpcInv.
LEMMA GrpcNext ==
  ASSUME Grpc!GrpcAssumption, GrpcInv, Grpc!Next \/ UNCHANGED grpcVars
  PROVE  GrpcInv' /\ \A f \in Grpc!Ends : Moves(f)
<1> USE DEF Grpc!state
<1>0. GrpcTyped
  BY DEF GrpcInv
<1>1. CASE UNCHANGED grpcVars
  BY <1>0, <1>1, GrpcRests DEF grpcVars, GrpcTyped
<1>2. ASSUME NEW e \in Grpc!Ends, Grpc!ReadStep(e) PROVE GrpcInv' /\ \A f \in Grpc!Ends : Moves(f)
  <2>1. CASE Grpc!ReadCheck(e)
    <3>1. /\ greader' \in [Grpc!Ends -> {"check", "lock", "frame", "done"}]
          /\ \A f \in Grpc!Ends : greader'[f] = "frame" => greader[f] = "frame"
      BY <2>1, <1>0 DEF Grpc!ReadCheck, GrpcTyped
    <3>2. UNCHANGED <<gwire, greadBuf, greceived, gwritten>> /\ gtodo' \in [Grpc!Ends -> Nat]
      BY <2>1, <1>0 DEF Grpc!ReadCheck, GrpcTyped
    <3> QED
      BY <3>1, <3>2, GrpcRests
  <2>2. CASE Grpc!ReadLock(e)
    <3>1. /\ greader' \in [Grpc!Ends -> {"check", "lock", "frame", "done"}]
          /\ \A f \in Grpc!Ends : greader'[f] = "frame" => greader[f] = "frame" \/ greadBuf[f] = <<>>
      BY <2>2, <1>0 DEF Grpc!ReadLock, GrpcTyped
    <3>2. UNCHANGED <<gwire, greadBuf, greceived, gwritten>> /\ gtodo' \in [Grpc!Ends -> Nat]
      BY <2>2, <1>0 DEF Grpc!ReadLock, GrpcTyped
    <3> QED
      BY <3>1, <3>2, GrpcRests
  <2>3. CASE Grpc!ReadFails(e)
    <3>1. /\ greader' \in [Grpc!Ends -> {"check", "lock", "frame", "done"}]
          /\ \A f \in Grpc!Ends : greader'[f] = "frame" => greader[f] = "frame"
      BY <2>3, <1>0 DEF Grpc!ReadFails, GrpcTyped
    <3>2. UNCHANGED <<gwire, greadBuf, greceived, gwritten>> /\ gtodo' \in [Grpc!Ends -> Nat]
      BY <2>3, <1>0 DEF Grpc!ReadFails, GrpcTyped
    <3> QED
      BY <3>1, <3>2, GrpcRests
  <2> QED
    BY <1>2, <2>1, <2>2, <2>3, GrpcReadRest, GrpcReadFrame DEF Grpc!ReadStep
<1>3. ASSUME NEW e \in Grpc!Ends, Grpc!CallWrite(e) \/ Grpc!WriteLock(e) \/ Grpc!WriteFails(e)
                                  \/ Grpc!CallClose(e) \/ Grpc!Close(e)
      PROVE  GrpcInv' /\ \A f \in Grpc!Ends : Moves(f)
  <2>1. UNCHANGED <<gwire, greadBuf, greceived, gwritten>> /\ greader' = greader
    BY <1>3 DEF Grpc!CallWrite, Grpc!WriteLock, Grpc!WriteFails, Grpc!CallClose, Grpc!Close
  <2>2. gtodo' \in [Grpc!Ends -> Nat]
    <3>1. CASE Grpc!CallWrite(e)
      <4>1. PICK n \in 1 .. MaxWrite : gtodo' = [gtodo EXCEPT ![e] = n]
        BY <3>1 DEF Grpc!CallWrite
      <4>2. n \in Nat
        BY DEF Grpc!GrpcAssumption
      <4> QED
        BY <4>1, <4>2, <1>0 DEF GrpcTyped
    <3>2. CASE Grpc!WriteLock(e) \/ Grpc!WriteFails(e) \/ Grpc!CallClose(e) \/ Grpc!Close(e)
      <4>1. gtodo' = gtodo \/ gtodo' = [gtodo EXCEPT ![e] = 0]
        BY <3>2 DEF Grpc!WriteLock, Grpc!WriteFails, Grpc!CallClose, Grpc!Close
      <4>2. gtodo \in [Grpc!Ends -> Nat]
        BY <1>0 DEF GrpcTyped
      <4>3. [gtodo EXCEPT ![e] = 0] \in [Grpc!Ends -> Nat]
        BY <4>2, Changed
      <4> QED
        BY <4>1, <4>2, <4>3
    <3> QED
      BY <1>3, <3>1, <3>2
  <2> QED
    BY <2>1, <2>2, <1>0, GrpcRests DEF GrpcTyped
<1> QED
  BY <1>1, <1>2, <1>3, GrpcWriteChunk DEF Grpc!Next, Grpc!WriteStep

\* A new gRPC connection: nothing written, read or left over.
LEMMA GrpcStart ==
  ASSUME Grpc!Init
  PROVE  GrpcInv
<1>1. <<>> \in Seq(Nat) /\ <<>> \in Seq(Seq(Nat)) /\ Len(<<>>) = 0
  OBVIOUS
<1>2. GrpcTyped
  BY <1>1 DEF Grpc!Init, GrpcTyped
<1>3. From(<<>>, 0) /\ Frames(<<>>, 0, 0)
  <2>1. From(<<>>, 0)
    BY DEF From
  <2>2. Framed(<<>>, [k \in 1 .. 1 |-> 0], 0, 0)
    BY <1>1 DEF Framed
  <2> QED
    BY <2>1, <2>2 DEF Frames
<1>4. ASSUME NEW e \in Grpc!Ends PROVE Arrives(e)
  <2>1. /\ greceived[e] = <<>> /\ greadBuf[e] = <<>> /\ gwire[e] = <<>> /\ gwritten[Grpc!Peer(e)] = 0
        /\ greader[e] = "check"
    BY Peers DEF Grpc!Init
  <2> QED
    BY <2>1, <1>1, <1>3 DEF Arrives
<1> QED
  BY <1>2, <1>4 DEF GrpcInv

\* A step of the connection is one of the stream that end e reads.
LEMMA GrpcStreams ==
  ASSUME GrpcInv', GrpcInv, NEW e \in Grpc!Ends, Moves(e)
  PROVE  LET sent == [i \in 1 .. gwritten[Grpc!Peer(e)] |-> i]
         IN \/ Begins(sent', sent) /\ greceived'[e] = greceived[e]
            \/ Begins(greceived'[e], greceived[e]) /\ Begins(sent, greceived'[e]) /\ sent' = sent
<1> DEFINE w == gwritten[Grpc!Peer(e)]
<1>1. w \in Nat /\ w' \in Nat
  BY Peers DEF GrpcInv, GrpcTyped
<1>2. CASE greceived'[e] = greceived[e] /\ w <= w'
  <2>1. Begins([i \in 1 .. w' |-> i], [i \in 1 .. w |-> i])
    BY <1>1, <1>2, WrittenGrows
  <2> QED
    BY <2>1, <1>2
<1>3. CASE Begins(greceived'[e], greceived[e]) /\ w' = w
  <2>1. From(greceived'[e], 0) /\ Len(greceived'[e]) + Len(greadBuf'[e]) <= w'
    BY DEF GrpcInv, Arrives
  <2>2. Len(greceived'[e]) \in Nat /\ Len(greadBuf'[e]) \in Nat
    <3>1. greceived'[e] \in Seq(Nat) /\ greadBuf'[e] \in Seq(Nat)
      BY DEF GrpcInv, GrpcTyped
    <3> QED
      BY <3>1, LenProperties
  <2>3. Len(greceived'[e]) <= w
    BY <2>1, <2>2, <1>1, <1>3, NotMore
  <2>4. Begins([i \in 1 .. w |-> i], greceived'[e])
    BY <2>1, <2>3, <1>1, WrittenBegins
  <2> QED
    BY <2>4, <1>3
<1> QED
  BY <1>2, <1>3 DEF Moves

\* gRPC: each end of a grpcConn reads, in order, the bytes that were given to the Writes of
\* the other, whatever the sizes of its Reads and Writes are.
THEOREM GrpcIsByteStream == MCSpec => Grpc!IsByteStream
<1>1. MCInit => GrpcInv /\ Grpc!Upward!Init /\ Grpc!Downward!Init
  <2> SUFFICES ASSUME MCInit PROVE GrpcInv /\ Grpc!Upward!Init /\ Grpc!Downward!Init
    OBVIOUS
  <2>1. Grpc!Init
    BY DEF MCInit
  <2>2. Grpc!Upward!Init /\ Grpc!Downward!Init
    BY <2>1 DEF Grpc!Init, Grpc!Upward!Init, Grpc!Downward!Init, Grpc!Ends
  <2> QED
    BY <2>1, <2>2, GrpcStart
<1>2. GrpcInv /\ [MCNext]_allVars =>
        GrpcInv' /\ [Grpc!Upward!Next]_Grpc!Upward!vars /\ [Grpc!Downward!Next]_Grpc!Downward!vars
  <2> SUFFICES ASSUME GrpcInv, [MCNext]_allVars
      PROVE GrpcInv' /\ [Grpc!Upward!Next]_Grpc!Upward!vars /\ [Grpc!Downward!Next]_Grpc!Downward!vars
    OBVIOUS
  <2>1. Grpc!Next \/ UNCHANGED grpcVars
    BY DEF MCNext, allVars
  <2>2. GrpcInv' /\ \A e \in Grpc!Ends : Moves(e)
    BY <2>1, GrpcNext, StreamsAssumption DEF StreamsAssumption
  <2>3. "client" \in Grpc!Ends /\ "server" \in Grpc!Ends
    BY DEF Grpc!Ends
  <2>4. Grpc!Upward!Next
    <3>1. Moves("server") /\ Grpc!Peer("server") = "client"
      BY <2>2, <2>3 DEF Grpc!Peer
    <3> QED
      BY <2>2, <2>3, <3>1, GrpcStreams
         DEF Begins, Grpc!Upward!Next, Grpc!Upward!Read, Grpc!Upward!Write, Grpc!Upward!StartsWith
  <2>5. Grpc!Downward!Next
    <3>1. Moves("client") /\ Grpc!Peer("client") = "server"
      BY <2>2, <2>3 DEF Grpc!Peer
    <3> QED
      BY <2>2, <2>3, <3>1, GrpcStreams
         DEF Begins, Grpc!Downward!Next, Grpc!Downward!Read, Grpc!Downward!Write, Grpc!Downward!StartsWith
  <2> QED
    BY <2>2, <2>4, <2>5
<1> QED
  BY <1>1, <1>2, PTL DEF MCSpec, Grpc!IsByteStream, Grpc!Upward!Spec, Grpc!Downward!Spec

(***************************************************************************)
(* WebSocketConn                                                           *)
(***************************************************************************)
\* The cells of w are the bytes from a + 1 to b with ends of messages among them: c
\* says how many bytes there are before each cell.
Counted(w, c, a, b) ==
  /\ c \in [1 .. Len(w) + 1 -> Nat] /\ c[1] = a /\ c[Len(w) + 1] = b
  /\ \A k \in 1 .. Len(w) : IF w[k] = 0 THEN c[k + 1] = c[k] ELSE w[k] = c[k] + 1
  /\ \A j, k \in 1 .. Len(w) + 1 :
       j <= k => c[j] <= c[k] /\ ((\A i \in j .. k - 1 : w[i] # 0) => c[k] = c[j] + (k - j))
Cells(w, a, b) == \E c : Counted(w, c, a, b)

\* Bytes are written behind the cells.
LEMMA BytesAdded ==
  ASSUME NEW w \in Seq(Nat), NEW a \in Nat, NEW b \in Nat, Cells(w, a, b), NEW x, From(x, b)
  PROVE  Cells(w \o x, a, b + Len(x))
<1>1. PICK c : Counted(w, c, a, b)
  BY DEF Cells
<1> DEFINE l == Len(w)
           m == Len(x)
           z == w \o x
           d == [k \in 1 .. l + m + 1 |-> IF k <= l + 1 THEN c[k] ELSE b + (k - (l + 1))]
<1>2. l \in Nat /\ m \in Nat /\ x \in Seq(Nat) /\ \A i \in 1 .. m : x[i] = b + i
  BY LenProperties DEF From
<1>3. /\ Len(z) = l + m
      /\ \A k \in 1 .. l + m : z[k] = IF k <= l THEN w[k] ELSE x[k - l]
  BY <1>2, ConcatProperties
<1>4. /\ c \in [1 .. l + 1 -> Nat] /\ c[1] = a /\ c[l + 1] = b
      /\ \A k \in 1 .. l : IF w[k] = 0 THEN c[k + 1] = c[k] ELSE w[k] = c[k] + 1
      /\ \A j, k \in 1 .. l + 1 :
           j <= k => c[j] <= c[k] /\ ((\A i \in j .. k - 1 : w[i] # 0) => c[k] = c[j] + (k - j))
  BY <1>1 DEF Counted
<1> HIDE DEF l, m, z
<1>5. /\ \A k \in 1 .. l + 1 : d[k] = c[k] /\ d[k] \in Nat
      /\ \A k \in l + 1 .. l + m + 1 : d[k] = b + (k - (l + 1)) /\ d[k] \in Nat
      /\ d = [k \in 1 .. l + m + 1 |-> d[k]]
  BY <1>2, <1>4
<1> HIDE DEF d
<1>6. d \in [1 .. l + m + 1 -> Nat] /\ d[1] = a /\ d[l + m + 1] = b + m
  <2>1. \A k \in 1 .. l + m + 1 : d[k] \in Nat
    <3> TAKE k \in 1 .. l + m + 1
    <3>1. k \in 1 .. l + 1 \/ k \in l + 1 .. l + m + 1
      BY <1>2
    <3> QED
      BY <3>1, <1>5
  <2>2. d \in [1 .. l + m + 1 -> Nat]
    BY <2>1, <1>5
  <2>3. 1 \in 1 .. l + 1 /\ l + m + 1 \in l + 1 .. l + m + 1 /\ (l + m + 1) - (l + 1) = m
    BY <1>2
  <2> QED
    BY <2>2, <2>3, <1>4, <1>5
<1>7. ASSUME NEW k \in 1 .. l + m PROVE IF z[k] = 0 THEN d[k + 1] = d[k] ELSE z[k] = d[k] + 1
  <2>1. CASE k <= l
    <3>1. k \in 1 .. l /\ k \in 1 .. l + 1 /\ k + 1 \in 1 .. l + 1
      BY <2>1, <1>2
    <3>2. z[k] = w[k] /\ d[k] = c[k] /\ d[k + 1] = c[k + 1]
      BY <2>1, <3>1, <1>3, <1>5
    <3> QED
      BY <3>1, <3>2, <1>4
  <2>2. CASE ~(k <= l)
    <3>1. k - l \in 1 .. m /\ k \in l + 1 .. l + m + 1
      BY <2>2, <1>2
    <3>2. z[k] = b + (k - l) /\ d[k] = b + (k - (l + 1))
      BY <2>2, <3>1, <1>2, <1>3, <1>5
    <3>3. z[k] # 0 /\ z[k] = d[k] + 1
      BY <3>1, <3>2, <1>2
    <3> QED
      BY <3>3
  <2> QED
    BY <2>1, <2>2
<1>8. ASSUME NEW j \in 1 .. l + m + 1, NEW k \in 1 .. l + m + 1, j <= k
      PROVE  d[j] <= d[k] /\ ((\A i \in j .. k - 1 : z[i] # 0) => d[k] = d[j] + (k - j))
  <2>1. CASE k <= l + 1
    <3>0. j \in 1 .. l + 1 /\ k \in 1 .. l + 1
      BY <2>1, <1>2, <1>8
    <3>1. j \in 1 .. l + 1 /\ k \in 1 .. l + 1 /\ d[j] = c[j] /\ d[k] = c[k]
      BY <3>0, <1>5
    <3>2. \A i \in j .. k - 1 : i \in 1 .. l + m /\ i <= l
      BY <3>1, <1>2
    <3>3. \A i \in j .. k - 1 : z[i] = w[i]
      BY <3>2, <1>3
    <3>4. c[j] <= c[k] /\ ((\A i \in j .. k - 1 : w[i] # 0) => c[k] = c[j] + (k - j))
      BY <3>1, <1>4, <1>8
    <3> QED
      BY <3>1, <3>3, <3>4
  <2>2. CASE ~(k <= l + 1) /\ j <= l + 1
    <3>1. j \in 1 .. l + 1 /\ l + 1 \in 1 .. l + 1 /\ k \in l + 1 .. l + m + 1
      BY <2>2, <1>2
    <3>2. d[j] = c[j] /\ c[j] \in Nat /\ d[k] = b + (k - (l + 1))
      BY <3>1, <1>5
    <3>3. c[j] <= b /\ ((\A i \in j .. (l + 1) - 1 : w[i] # 0) => b = c[j] + ((l + 1) - j))
      BY <3>1, <2>2, <1>4
    <3>4. ASSUME \A i \in j .. k - 1 : z[i] # 0 PROVE \A i \in j .. (l + 1) - 1 : w[i] # 0
      <4> TAKE i \in j .. (l + 1) - 1
      <4>1. i \in j .. k - 1 /\ i \in 1 .. l + m /\ i <= l
        BY <3>1, <2>2, <1>2
      <4> QED
        BY <4>1, <3>4, <1>3
    <3>5. d[j] <= d[k]
      BY <3>1, <3>2, <3>3, <1>2
    <3>6. ASSUME \A i \in j .. k - 1 : z[i] # 0 PROVE d[k] = d[j] + (k - j)
      <4>1. b = c[j] + ((l + 1) - j)
        BY <3>3, <3>4, <3>6
      <4> QED
        BY <4>1, <3>1, <3>2, <1>2
    <3> QED
      BY <3>5, <3>6
  <2>3. CASE ~(j <= l + 1)
    <3>1. j \in l + 1 .. l + m + 1 /\ k \in l + 1 .. l + m + 1
      BY <2>3, <1>2, <1>8
    <3>2. d[j] = b + (j - (l + 1)) /\ d[k] = b + (k - (l + 1))
      BY <3>1, <1>5
    <3> QED
      BY <3>1, <3>2, <1>2, <1>8
  <2> QED
    BY <2>1, <2>2, <2>3
<1>9. Counted(z, d, a, b + m)
  BY <1>3, <1>6, <1>7, <1>8 DEF Counted
<1> QED
  BY <1>9 DEF Cells, z, m

\* The end of a message is written behind the cells.
LEMMA EndAdded ==
  ASSUME NEW w \in Seq(Nat), NEW a \in Nat, NEW b \in Nat, Cells(w, a, b)
  PROVE  Cells(Append(w, 0), a, b)
<1>1. PICK c : Counted(w, c, a, b)
  BY DEF Cells
<1> DEFINE l == Len(w)
           z == Append(w, 0)
           d == [k \in 1 .. l + 2 |-> IF k = l + 2 THEN b ELSE c[k]]
<1>2. l \in Nat /\ Len(z) = l + 1 /\ z[l + 1] = 0 /\ \A k \in 1 .. l : z[k] = w[k]
  BY LenProperties, AppendProperties
<1>3. /\ c \in [1 .. l + 1 -> Nat] /\ c[1] = a /\ c[l + 1] = b
      /\ \A k \in 1 .. l : IF w[k] = 0 THEN c[k + 1] = c[k] ELSE w[k] = c[k] + 1
      /\ \A j, k \in 1 .. l + 1 :
           j <= k => c[j] <= c[k] /\ ((\A i \in j .. k - 1 : w[i] # 0) => c[k] = c[j] + (k - j))
  BY <1>1 DEF Counted
<1> HIDE DEF l, z
<1>4. /\ \A k \in 1 .. l + 1 : d[k] = c[k] /\ d[k] \in Nat
      /\ d[l + 2] = b /\ d = [k \in 1 .. l + 2 |-> d[k]]
  BY <1>2, <1>3
<1> HIDE DEF d
<1>5. d \in [1 .. l + 2 -> Nat] /\ d[1] = a
  <2>1. \A k \in 1 .. l + 2 : d[k] \in Nat
    <3> TAKE k \in 1 .. l + 2
    <3>1. k \in 1 .. l + 1 \/ k = l + 2
      BY <1>2
    <3> QED
      BY <3>1, <1>4
  <2>2. 1 \in 1 .. l + 1
    BY <1>2
  <2> QED
    BY <2>1, <2>2, <1>3, <1>4
<1>6. ASSUME NEW k \in 1 .. l + 1 PROVE IF z[k] = 0 THEN d[k + 1] = d[k] ELSE z[k] = d[k] + 1
  <2>1. CASE k = l + 1
    <3>0. l + 1 \in 1 .. l + 1 /\ (l + 1) + 1 = l + 2
      BY <1>2
    <3>1. z[k] = 0 /\ k + 1 = l + 2 /\ d[k] = b
      BY <2>1, <3>0, <1>2, <1>3, <1>4
    <3> QED
      BY <3>1, <1>4
  <2>2. CASE k # l + 1
    <3>1. k \in 1 .. l /\ k + 1 \in 1 .. l + 1
      BY <2>2, <1>2
    <3>2. z[k] = w[k] /\ d[k] = c[k] /\ d[k + 1] = c[k + 1]
      BY <3>1, <1>2, <1>4
    <3> QED
      BY <3>1, <3>2, <1>3
  <2> QED
    BY <2>1, <2>2
<1>7. ASSUME NEW j \in 1 .. l + 2, NEW k \in 1 .. l + 2, j <= k
      PROVE  d[j] <= d[k] /\ ((\A i \in j .. k - 1 : z[i] # 0) => d[k] = d[j] + (k - j))
  <2>1. CASE k # l + 2
    <3>1. j \in 1 .. l + 1 /\ k \in 1 .. l + 1
      BY <2>1, <1>2, <1>7
    <3>2. d[j] = c[j] /\ d[k] = c[k]
      BY <3>1, <1>4
    <3>3. \A i \in j .. k - 1 : i \in 1 .. l
      BY <3>1, <1>2
    <3>4. \A i \in j .. k - 1 : z[i] = w[i]
      BY <3>3, <1>2
    <3>5. c[j] <= c[k] /\ ((\A i \in j .. k - 1 : w[i] # 0) => c[k] = c[j] + (k - j))
      BY <3>1, <1>3, <1>7
    <3> QED
      BY <3>2, <3>4, <3>5
  <2>2. CASE k = l + 2 /\ j # k
    <3>1. j \in 1 .. l + 1 /\ l + 1 \in 1 .. l + 1 /\ l + 1 \in j .. k - 1 /\ j <= l + 1
      BY <2>2, <1>2
    <3>2. d[j] = c[j] /\ d[k] = c[l + 1] /\ c[j] <= c[l + 1]
      BY <3>1, <2>2, <1>3, <1>4
    <3>3. ~(\A i \in j .. k - 1 : z[i] # 0)
      BY <3>1, <1>2
    <3> QED
      BY <3>2, <3>3
  <2>3. CASE j = k
    <3>1. d[k] \in Nat
      BY <1>5
    <3> QED
      BY <2>3, <3>1, <1>2
  <2> QED
    BY <2>1, <2>2, <2>3
<1>8. Counted(z, d, a, b)
  <2>1. (l + 1) + 1 = l + 2
    BY <1>2
  <2> QED
    BY <2>1, <1>2, <1>4, <1>5, <1>6, <1>7 DEF Counted
<1> QED
  BY <1>8 DEF Cells, z

\* Cells that are taken away from the front.
LEMMA FrontTaken ==
  ASSUME NEW w \in Seq(Nat), NEW c, NEW a, NEW b, Counted(w, c, a, b), NEW n \in 0 .. Len(w)
  PROVE  Cells(SubSeq(w, n + 1, Len(w)), c[n + 1], b)
<1> DEFINE l == Len(w)
           z == SubSeq(w, n + 1, l)
           d == [k \in 1 .. (l - n) + 1 |-> c[n + k]]
<1>1. l \in Nat /\ n \in Nat /\ n <= l
  BY LenProperties
<1>2. Len(z) = l - n /\ \A k \in 1 .. l - n : z[k] = w[n + k]
  BY <1>1, SubSeqProperties
<1>3. /\ c \in [1 .. l + 1 -> Nat] /\ c[1] = a /\ c[l + 1] = b
      /\ \A k \in 1 .. l : IF w[k] = 0 THEN c[k + 1] = c[k] ELSE w[k] = c[k] + 1
      /\ \A j, k \in 1 .. l + 1 :
           j <= k => c[j] <= c[k] /\ ((\A i \in j .. k - 1 : w[i] # 0) => c[k] = c[j] + (k - j))
  BY DEF Counted
<1> HIDE DEF l, z
<1>4. \A k \in 1 .. (l - n) + 1 : d[k] = c[n + k] /\ n + k \in 1 .. l + 1
  BY <1>1
<1>5. d \in [1 .. (l - n) + 1 -> Nat] /\ d[1] = c[n + 1] /\ d[(l - n) + 1] = b
  <2>1. \A k \in 1 .. (l - n) + 1 : c[n + k] \in Nat
    BY <1>3, <1>4
  <2>2. 1 \in 1 .. (l - n) + 1 /\ (l - n) + 1 \in 1 .. (l - n) + 1 /\ n + ((l - n) + 1) = l + 1
    BY <1>1
  <2>3. d \in [1 .. (l - n) + 1 -> Nat]
    BY <2>1
  <2> QED
    BY <2>2, <2>3, <1>3, <1>4
<1> HIDE DEF d
<1>6. ASSUME NEW k \in 1 .. l - n PROVE IF z[k] = 0 THEN d[k + 1] = d[k] ELSE z[k] = d[k] + 1
  <2>1. k \in 1 .. (l - n) + 1 /\ k + 1 \in 1 .. (l - n) + 1 /\ n + k \in 1 .. l /\ n + (k + 1) = (n + k) + 1
    BY <1>1
  <2>2. z[k] = w[n + k] /\ d[k] = c[n + k] /\ d[k + 1] = c[(n + k) + 1]
    BY <2>1, <1>2, <1>4
  <2> QED
    BY <2>1, <2>2, <1>3
<1>7. ASSUME NEW j \in 1 .. (l - n) + 1, NEW k \in 1 .. (l - n) + 1, j <= k
      PROVE  d[j] <= d[k] /\ ((\A i \in j .. k - 1 : z[i] # 0) => d[k] = d[j] + (k - j))
  <2>1. n + j \in 1 .. l + 1 /\ n + k \in 1 .. l + 1 /\ n + j <= n + k /\ (n + k) - (n + j) = k - j
    BY <1>1, <1>7
  <2>2. d[j] = c[n + j] /\ d[k] = c[n + k]
    BY <1>4
  <2>3. /\ c[n + j] <= c[n + k]
        /\ (\A i \in n + j .. (n + k) - 1 : w[i] # 0) => c[n + k] = c[n + j] + ((n + k) - (n + j))
    BY <2>1, <1>3
  <2>4. ASSUME \A i \in j .. k - 1 : z[i] # 0 PROVE \A i \in n + j .. (n + k) - 1 : w[i] # 0
    <3> TAKE i \in n + j .. (n + k) - 1
    <3>1. i - n \in j .. k - 1 /\ i - n \in 1 .. l - n /\ n + (i - n) = i
      BY <1>1
    <3> QED
      BY <3>1, <2>4, <1>2
  <2> QED
    BY <2>1, <2>2, <2>3, <2>4
<1>8. Counted(z, d, c[n + 1], b)
  BY <1>2, <1>5, <1>6, <1>7 DEF Counted
<1> QED
  BY <1>8 DEF Cells, z, l

\* Cells of one message that are taken away from the front, with its end or without.
LEMMA BytesTaken ==
  ASSUME NEW w \in Seq(Nat), NEW a \in Nat, NEW b \in Nat, Cells(w, a, b),
         NEW n \in 0 .. Len(w), \A i \in 1 .. n : w[i] # 0
  PROVE  /\ From(SubSeq(w, 1, n), a) /\ a + n <= b
         /\ Cells(SubSeq(w, n + 1, Len(w)), a + n, b)
         /\ n < Len(w) /\ w[n + 1] = 0 => Cells(SubSeq(w, n + 2, Len(w)), a + n, b)
<1>1. PICK c : Counted(w, c, a, b)
  BY DEF Cells
<1> DEFINE l == Len(w)
<1>2. l \in Nat /\ n \in Nat /\ n <= l
  BY LenProperties
<1>3. /\ c \in [1 .. l + 1 -> Nat] /\ c[1] = a /\ c[l + 1] = b
      /\ \A k \in 1 .. l : IF w[k] = 0 THEN c[k + 1] = c[k] ELSE w[k] = c[k] + 1
      /\ \A j, k \in 1 .. l + 1 :
           j <= k => c[j] <= c[k] /\ ((\A i \in j .. k - 1 : w[i] # 0) => c[k] = c[j] + (k - j))
  BY <1>1 DEF Counted
<1> HIDE DEF l
<1>4. ASSUME NEW k \in 1 .. n + 1 PROVE c[k] = a + (k - 1)
  <2>1. 1 \in 1 .. l + 1 /\ k \in 1 .. l + 1 /\ 1 <= k
    BY <1>2
  <2>2. \A i \in 1 .. k - 1 : i \in 1 .. n
    BY <1>2
  <2>3. \A i \in 1 .. k - 1 : w[i] # 0
    BY <2>2
  <2> QED
    BY <2>1, <2>3, <1>3
<1>5. c[n + 1] = a + n
  <2>1. n + 1 \in 1 .. n + 1 /\ (n + 1) - 1 = n
    BY <1>2
  <2>2. c[n + 1] = a + ((n + 1) - 1)
    BY <2>1, <1>4
  <2> QED
    BY <2>1, <2>2
<1>6. a + n <= b
  <2>1. n + 1 \in 1 .. l + 1 /\ l + 1 \in 1 .. l + 1 /\ n + 1 <= l + 1
    BY <1>2
  <2>2. c[n + 1] <= c[l + 1]
    BY <2>1, <1>3
  <2> QED
    BY <2>2, <1>3, <1>5
<1>7. From(SubSeq(w, 1, n), a)
  <2>1. SubSeq(w, 1, n) \in Seq(Nat) /\ Len(SubSeq(w, 1, n)) = n /\ \A i \in 1 .. n : SubSeq(w, 1, n)[i] = w[i]
    BY <1>2, SubSeqProperties DEF l
  <2>2. ASSUME NEW i \in 1 .. n PROVE w[i] = a + i
    <3>1. i \in 1 .. l /\ i \in 1 .. n + 1 /\ (i - 1) + 1 = i
      BY <1>2
    <3>2. w[i] = c[i] + 1 /\ c[i] = a + (i - 1)
      BY <3>1, <1>3, <1>4
    <3> QED
      BY <3>1, <3>2
  <2> QED
    BY <2>1, <2>2 DEF From
<1>8. Cells(SubSeq(w, n + 1, Len(w)), a + n, b)
  BY <1>1, <1>5, FrontTaken
<1>9. ASSUME n < Len(w), w[n + 1] = 0 PROVE Cells(SubSeq(w, n + 2, Len(w)), a + n, b)
  <2>1. n + 1 \in 1 .. l /\ n + 1 \in 0 .. Len(w) /\ (n + 1) + 1 = n + 2
    BY <1>2, <1>9 DEF l
  <2>2. c[(n + 1) + 1] = a + n
    BY <2>1, <1>3, <1>5, <1>9
  <2>3. Cells(SubSeq(w, (n + 1) + 1, Len(w)), c[(n + 1) + 1], b)
    BY <2>1, <1>1, FrontTaken
  <2> QED
    BY <2>1, <2>2, <2>3
<1> QED
  BY <1>6, <1>7, <1>8, <1>9

\* Cells that are lost at the end.
LEMMA BackLost ==
  ASSUME NEW w \in Seq(Nat), NEW a \in Nat, NEW b \in Nat, Cells(w, a, b), NEW n \in 0 .. Len(w)
  PROVE  \E e \in a .. b : Cells(SubSeq(w, 1, n), a, e)
<1>1. PICK c : Counted(w, c, a, b)
  BY DEF Cells
<1> DEFINE l == Len(w)
           z == SubSeq(w, 1, n)
           d == [k \in 1 .. n + 1 |-> c[k]]
<1>2. l \in Nat /\ n \in Nat /\ n <= l
  BY LenProperties
<1>3. /\ c \in [1 .. l + 1 -> Nat] /\ c[1] = a /\ c[l + 1] = b
      /\ \A k \in 1 .. l : IF w[k] = 0 THEN c[k + 1] = c[k] ELSE w[k] = c[k] + 1
      /\ \A j, k \in 1 .. l + 1 :
           j <= k => c[j] <= c[k] /\ ((\A i \in j .. k - 1 : w[i] # 0) => c[k] = c[j] + (k - j))
  BY <1>1 DEF Counted
<1>4. Len(z) = n /\ \A k \in 1 .. n : z[k] = w[k]
  BY <1>2, SubSeqProperties
<1> HIDE DEF l, z
<1>5. \A k \in 1 .. n + 1 : k \in 1 .. l + 1
  BY <1>2
<1>6. d \in [1 .. n + 1 -> Nat] /\ \A k \in 1 .. n + 1 : d[k] = c[k]
  BY <1>3, <1>5
<1> HIDE DEF d
<1>7. d[1] = a /\ d[n + 1] = c[n + 1] /\ c[n + 1] \in a .. b
  <2>1. 1 \in 1 .. n + 1 /\ n + 1 \in 1 .. n + 1 /\ 1 <= n + 1 /\ n + 1 <= l + 1 /\ l + 1 \in 1 .. l + 1
    BY <1>2
  <2>2. c[1] <= c[n + 1] /\ c[n + 1] <= c[l + 1] /\ c[n + 1] \in Nat
    BY <2>1, <1>3, <1>5
  <2> QED
    BY <2>1, <2>2, <1>3, <1>6
<1>8. ASSUME NEW k \in 1 .. n PROVE IF z[k] = 0 THEN d[k + 1] = d[k] ELSE z[k] = d[k] + 1
  <2>1. k \in 1 .. l /\ k \in 1 .. n + 1 /\ k + 1 \in 1 .. n + 1
    BY <1>2
  <2>2. z[k] = w[k] /\ d[k] = c[k] /\ d[k + 1] = c[k + 1]
    BY <2>1, <1>4, <1>6
  <2> QED
    BY <2>1, <2>2, <1>3
<1>9. ASSUME NEW j \in 1 .. n + 1, NEW k \in 1 .. n + 1, j <= k
      PROVE  d[j] <= d[k] /\ ((\A i \in j .. k - 1 : z[i] # 0) => d[k] = d[j] + (k - j))
  <2>1. \A i \in j .. k - 1 : i \in 1 .. n
    BY <1>2
  <2>2. \A i \in j .. k - 1 : z[i] = w[i]
    BY <2>1, <1>4
  <2>3. c[j] <= c[k] /\ ((\A i \in j .. k - 1 : w[i] # 0) => c[k] = c[j] + (k - j))
    BY <1>3, <1>5, <1>9
  <2>4. d[j] = c[j] /\ d[k] = c[k]
    BY <1>6
  <2> QED
    BY <2>2, <2>3, <2>4
<1>10. Counted(z, d, a, c[n + 1])
  BY <1>4, <1>6, <1>7, <1>8, <1>9 DEF Counted
<1> QED
  BY <1>7, <1>10 DEF Cells, z

\* Arrived: the bytes in front of the first end of a message.
LEMMA ArrivedIs ==
  ASSUME NEW s \in Seq(Nat)
  PROVE  /\ WebSocket!Arrived(s) \in 0 .. Len(s) /\ \A i \in 1 .. WebSocket!Arrived(s) : s[i] # 0
         /\ WebSocket!Arrived(s) < Len(s) => s[WebSocket!Arrived(s) + 1] = 0
<1> DEFINE T == {i \in 1 .. Len(s) : s[i] = 0}
           P(n) == (\A i \in 1 .. n : s[i] # 0) /\ (n < Len(s) => s[n + 1] = 0)
<1>1. Len(s) \in Nat
  BY LenProperties
<1>2. \E n \in 0 .. Len(s) : P(n)
  <2>1. CASE T = {}
    <3>1. Len(s) \in 0 .. Len(s) /\ P(Len(s))
      BY <2>1, <1>1
    <3> QED
      BY <3>1
  <2>2. CASE T # {}
    <3>1. T \subseteq Nat
      BY <1>1
    <3>2. PICK m \in T : \A k \in T : m <= k
      BY <2>2, <3>1, SmallestOf
    <3>3. m \in 1 .. Len(s) /\ s[m] = 0
      BY <3>2
    <3>4. m - 1 \in 0 .. Len(s) /\ (m - 1) + 1 = m
      BY <3>3, <1>1
    <3>5. ASSUME NEW i \in 1 .. m - 1 PROVE s[i] # 0
      <4>1. i \in 1 .. Len(s) /\ ~(m <= i)
        BY <3>3, <1>1
      <4> QED
        BY <4>1, <3>2
    <3>6. P(m - 1)
      BY <3>3, <3>4, <3>5
    <3> QED
      BY <3>4, <3>6
  <2> QED
    BY <2>1, <2>2
<1>3. WebSocket!Arrived(s) = CHOOSE n \in 0 .. Len(s) : P(n)
  BY DEF WebSocket!Arrived, WebSocket!EOM
<1> HIDE DEF P
<1>4. WebSocket!Arrived(s) \in 0 .. Len(s) /\ P(WebSocket!Arrived(s))
  BY <1>2, <1>3
<1> QED
  BY <1>4 DEF P

SocketTyped ==
  /\ wire \in Seq(Nat) /\ written \in Nat /\ closed \in BOOLEAN
  /\ writer \in [Writers -> {"idle", "send", "done"}] /\ message \in [Writers -> Seq(Nat)]

\* Only the goroutine that has the lock sends.
SendLocked == \A w \in Writers : writer[w] = "send" => mu = w

\* The cells on their way are the bytes up to b; unless the socket is closed, what is
\* left of the message that is being sent is the rest of what was written.
UpTo(b) ==
  /\ Len(received) <= b /\ Cells(wire, Len(received), b)
  /\ ~closed => /\ mu = Unlocked => b = written
                /\ \A w \in Writers : writer[w] = "send" => From(message[w], b) /\ b + Len(message[w]) = written

\* c.reader is set within a message and not otherwise, so that nothing is skipped.
SocketInv ==
  /\ SocketTyped /\ SendLocked /\ hasReader \in BOOLEAN /\ inMessage = hasReader
  /\ From(received, 0) /\ \E b \in 0 .. written : UpTo(b)

\* The step of the stream.
SocketMoves ==
  \/ received' = received /\ written <= written'
  \/ Begins(received', received) /\ written' = written

\* Write takes c.mu: the message is the bytes that follow all those written.
LEMMA SocketLocks ==
  ASSUME WebSocket!SocketAssumption, SocketInv, NEW w \in Writers, WebSocket!WriteLock(w)
  PROVE  SocketInv' /\ SocketMoves
<1>1. /\ SocketTyped /\ SendLocked /\ hasReader \in BOOLEAN /\ inMessage = hasReader /\ From(received, 0)
  BY DEF SocketInv
<1>2. PICK b \in 0 .. written : UpTo(b)
  BY DEF SocketInv
<1>3. PICK n \in 0 .. MaxWrite :
        /\ message' = [message EXCEPT ![w] = [i \in 1 .. n |-> written + i]]
        /\ written' = written + n
  BY DEF WebSocket!WriteLock
<1>4. /\ mu = Unlocked /\ mu' = w /\ writer' = [writer EXCEPT ![w] = "send"]
      /\ wire' = wire /\ closed' = closed /\ inMessage' = inMessage /\ hasReader' = hasReader /\ received' = received
  BY DEF WebSocket!WriteLock, WebSocket!reading
<1>5. n \in Nat /\ written \in Nat /\ b \in Nat /\ b <= written
  BY <1>1 DEF SocketTyped, WebSocket!SocketAssumption
<1> DEFINE x == [i \in 1 .. n |-> written + i]
<1>6. From(x, written) /\ Len(x) = n
  BY <1>5, NextBytes
<1>7. x \in Seq(Nat)
  BY <1>6 DEF From
<1>8. message' = [message EXCEPT ![w] = x]
  BY <1>3
<1> HIDE DEF x
<1>9. message' \in [Writers -> Seq(Nat)] /\ message'[w] = x
  BY <1>1, <1>7, <1>8, Changed DEF SocketTyped
<1>10. \A v \in Writers : v # w => writer[v] # "send" /\ writer'[v] # "send"
  <2>1. \A v \in Writers : writer[v] # "send"
    BY <1>1, <1>4 DEF SendLocked, WebSocket!SocketAssumption
  <2> QED
    BY <2>1, <1>1, <1>4 DEF SocketTyped
<1>11. SocketTyped' /\ SendLocked'
  <2>1. written' \in Nat
    BY <1>3, <1>5
  <2>2. writer' \in [Writers -> {"idle", "send", "done"}]
    BY <1>1, <1>4 DEF SocketTyped
  <2> QED
    BY <2>1, <2>2, <1>1, <1>4, <1>9, <1>10 DEF SocketTyped, SendLocked
<1>12. b \in 0 .. written' /\ written <= written'
  BY <1>3, <1>5
<1>13. UpTo(b)'
  <2>1. mu' # Unlocked
    BY <1>4 DEF WebSocket!SocketAssumption
  <2>2. ~closed => b = written
    BY <1>2, <1>4 DEF UpTo
  <2>3. ASSUME ~closed, NEW v \in Writers, writer'[v] = "send"
        PROVE  From(message'[v], b) /\ b + Len(message'[v]) = written'
    BY <2>2, <2>3, <1>3, <1>6, <1>9, <1>10
  <2> QED
    BY <2>1, <2>3, <1>2, <1>4 DEF UpTo
<1> QED
  BY <1>1, <1>4, <1>11, <1>12, <1>13 DEF SocketInv, SocketMoves

\* Write: a part of the message goes to the wire while the lock is held.
LEMMA SocketSends ==
  ASSUME WebSocket!SocketAssumption, SocketInv, NEW w \in Writers, WebSocket!WritePiece(w)
  PROVE  SocketInv' /\ SocketMoves
<1>1. /\ SocketTyped /\ SendLocked /\ hasReader \in BOOLEAN /\ inMessage = hasReader /\ From(received, 0)
  BY DEF SocketInv
<1>2. PICK b \in 0 .. written : UpTo(b)
  BY DEF SocketInv
<1> DEFINE m == message[w]
<1>3. PICK n \in 1 .. Len(m) - 1 :
        /\ wire' = wire \o SubSeq(m, 1, n)
        /\ message' = [message EXCEPT ![w] = SubSeq(m, n + 1, Len(m))]
  BY DEF WebSocket!WritePiece
<1>4. /\ writer[w] = "send" /\ ~closed /\ mu' = mu /\ writer' = writer /\ written' = written
      /\ closed' = closed /\ inMessage' = inMessage /\ hasReader' = hasReader /\ received' = received
  BY DEF WebSocket!WritePiece, WebSocket!reading
<1>5. From(m, b) /\ b + Len(m) = written /\ Cells(wire, Len(received), b) /\ Len(received) <= b
  BY <1>2, <1>4 DEF UpTo
<1>6. /\ wire \in Seq(Nat) /\ m \in Seq(Nat) /\ Len(m) \in Nat /\ n \in Nat /\ n <= Len(m)
      /\ b \in Nat /\ written \in Nat /\ Len(received) \in Nat
  BY <1>1, <1>5, LenProperties DEF SocketTyped, From
<1> DEFINE x == SubSeq(m, 1, n)
           y == SubSeq(m, n + 1, Len(m))
<1> HIDE DEF m
<1>7. /\ x \in Seq(Nat) /\ Len(x) = n /\ From(x, b) /\ y \in Seq(Nat) /\ Len(y) = Len(m) - n /\ From(y, b + n)
  <2>1. n \in 0 .. Len(m)
    BY <1>6
  <2>2. From(m, b) /\ b \in Nat
    BY <1>5, <1>6
  <2> QED
    BY <2>1, <2>2, PartsOf
<1> HIDE DEF x, y
<1>8. Cells(wire \o x, Len(received), b + n)
  BY <1>5, <1>6, <1>7, BytesAdded
<1>9. wire \o x \in Seq(Nat)
  BY <1>6, <1>7, ConcatProperties
<1>10. wire' = wire \o x /\ message' = [message EXCEPT ![w] = y]
  BY <1>3 DEF x, y
<1>11. message' \in [Writers -> Seq(Nat)] /\ message'[w] = y
  BY <1>1, <1>7, <1>10, Changed DEF SocketTyped
<1>12. SocketTyped' /\ SendLocked'
  BY <1>1, <1>4, <1>9, <1>10, <1>11 DEF SocketTyped, SendLocked
<1>13. /\ b + n \in 0 .. written' /\ Len(received) <= b + n /\ (b + n) + Len(y) = written
       /\ written <= written'
  <2>1. b + n <= written /\ (b + n) + (Len(m) - n) = written
    BY <1>5, <1>6, PartOfSum
  <2>2. Len(received) <= b + n
    BY <1>5, <1>6
  <2> QED
    BY <2>1, <2>2, <1>4, <1>6, <1>7
<1>14. UpTo(b + n)'
  <2>2. mu # Unlocked
    BY <1>1, <1>4 DEF SendLocked, WebSocket!SocketAssumption
  <2>3. ASSUME NEW v \in Writers, writer'[v] = "send"
        PROVE  From(message'[v], b + n) /\ (b + n) + Len(message'[v]) = written'
    <3>1. v = w
      BY <2>3, <1>1, <1>4 DEF SendLocked
    <3> QED
      BY <3>1, <1>4, <1>7, <1>11, <1>13
  <2> QED
    BY <2>2, <2>3, <1>4, <1>8, <1>10, <1>13 DEF UpTo
<1> QED
  BY <1>1, <1>4, <1>12, <1>13, <1>14 DEF SocketInv, SocketMoves

\* Write: the rest of the message and its end go to the wire, and the lock is given back.
LEMMA SocketEnds ==
  ASSUME WebSocket!SocketAssumption, SocketInv, NEW w \in Writers, WebSocket!WriteLast(w)
  PROVE  SocketInv' /\ SocketMoves
<1>1. /\ SocketTyped /\ SendLocked /\ hasReader \in BOOLEAN /\ inMessage = hasReader /\ From(received, 0)
  BY DEF SocketInv
<1>2. PICK b \in 0 .. written : UpTo(b)
  BY DEF SocketInv
<1> DEFINE m == message[w]
<1>3. /\ writer[w] = "send" /\ ~closed /\ wire' = Append(wire \o m, 0) /\ message' = [message EXCEPT ![w] = <<>>]
      /\ mu' = Unlocked /\ writer' = [writer EXCEPT ![w] = "idle"] /\ written' = written
      /\ closed' = closed /\ inMessage' = inMessage /\ hasReader' = hasReader /\ received' = received
  BY DEF WebSocket!WriteLast, WebSocket!reading, WebSocket!EOM
<1>4. From(m, b) /\ b + Len(m) = written /\ Cells(wire, Len(received), b) /\ Len(received) <= b
  BY <1>2, <1>3 DEF UpTo
<1>5. /\ wire \in Seq(Nat) /\ m \in Seq(Nat) /\ b \in Nat /\ b <= written /\ written \in Nat /\ Len(received) \in Nat
  BY <1>1, <1>4, LenProperties DEF SocketTyped, From
<1> HIDE DEF m
<1>6. wire \o m \in Seq(Nat) /\ Append(wire \o m, 0) \in Seq(Nat)
  BY <1>5, ConcatProperties, AppendProperties
<1>7. Cells(wire \o m, Len(received), written)
  BY <1>4, <1>5, BytesAdded
<1>8. Cells(Append(wire \o m, 0), Len(received), written)
  BY <1>5, <1>6, <1>7, EndAdded
<1>9. <<>> \in Seq(Nat)
  OBVIOUS
<1>10. SocketTyped'
  <2>1. message' \in [Writers -> Seq(Nat)]
    BY <1>1, <1>3, <1>9, Changed DEF SocketTyped
  <2>2. writer' \in [Writers -> {"idle", "send", "done"}]
    BY <1>1, <1>3 DEF SocketTyped
  <2> QED
    BY <2>1, <2>2, <1>1, <1>3, <1>6 DEF SocketTyped
<1>11. \A v \in Writers : writer'[v] # "send"
  <2> TAKE v \in Writers
  <2>1. v # w => writer[v] # "send"
    BY <1>1, <1>3 DEF SendLocked
  <2> QED
    BY <2>1, <1>1, <1>3 DEF SocketTyped
<1>12. Len(received) <= written
  BY <1>4, <1>5
<1>13. UpTo(written)'
  BY <1>3, <1>8, <1>11, <1>12 DEF UpTo
<1>14. written' \in 0 .. written' /\ written <= written'
  BY <1>3, <1>5
<1> QED
  BY <1>1, <1>3, <1>10, <1>11, <1>13, <1>14 DEF SocketInv, SocketMoves, SendLocked

\* What is on its way when the socket is closed, or a Write fails after that, does not
\* have to be all that was written.
LEMMA SocketLoses ==
  ASSUME SocketInv, WebSocket!Close \/ (\E w \in Writers : WebSocket!WriteFails(w))
  PROVE  SocketInv' /\ SocketMoves
<1>1. /\ SocketTyped /\ SendLocked /\ hasReader \in BOOLEAN /\ inMessage = hasReader /\ From(received, 0)
  BY DEF SocketInv
<1>2. PICK b \in 0 .. written : UpTo(b)
  BY DEF SocketInv
<1>3. /\ wire \in Seq(Nat) /\ b \in Nat /\ b <= written /\ written \in Nat /\ Len(received) \in Nat
      /\ Cells(wire, Len(received), b) /\ Len(received) <= b
  BY <1>1, <1>2, LenProperties DEF SocketTyped, From, UpTo
<1>4. CASE WebSocket!Close
  <2>1. PICK n \in 0 .. Len(wire) : wire' = SubSeq(wire, 1, n)
    BY <1>4 DEF WebSocket!Close
  <2>2. /\ closed' = TRUE /\ mu' = mu /\ writer' = writer /\ message' = message /\ written' = written
        /\ inMessage' = inMessage /\ hasReader' = hasReader /\ received' = received
    BY <1>4 DEF WebSocket!Close, WebSocket!reading, WebSocket!writing
  <2>3. PICK e \in Len(received) .. b : Cells(SubSeq(wire, 1, n), Len(received), e)
    BY <1>3, BackLost
  <2>4. e \in 0 .. written' /\ Len(received) <= e /\ written <= written'
    BY <2>2, <1>3
  <2>5. wire' \in Seq(Nat)
    BY <2>1, <1>3, SubSeqProperties
  <2>6. SocketTyped' /\ SendLocked'
    BY <2>2, <2>5, <1>1 DEF SocketTyped, SendLocked
  <2>7. UpTo(e)'
    BY <2>1, <2>2, <2>3, <2>4 DEF UpTo
  <2> QED
    BY <2>2, <2>4, <2>6, <2>7, <1>1 DEF SocketInv, SocketMoves
<1>5. ASSUME NEW w \in Writers, WebSocket!WriteFails(w) PROVE SocketInv' /\ SocketMoves
  <2>1. /\ closed /\ closed' = closed /\ writer' = [writer EXCEPT ![w] = "done"] /\ writer[w] = "send"
        /\ message' = [message EXCEPT ![w] = <<>>] /\ written' = written /\ wire' = wire
        /\ inMessage' = inMessage /\ hasReader' = hasReader /\ received' = received
    BY <1>5 DEF WebSocket!WriteFails, WebSocket!reading
  <2>2. <<>> \in Seq(Nat)
    OBVIOUS
  <2>3. message' \in [Writers -> Seq(Nat)]
    BY <2>1, <2>2, <1>1, Changed DEF SocketTyped
  <2>4. writer' \in [Writers -> {"idle", "send", "done"}]
    BY <2>1, <1>1 DEF SocketTyped
  <2>5. \A v \in Writers : writer'[v] # "send"
    <3> TAKE v \in Writers
    <3>1. v # w => writer[v] # "send"
      BY <2>1, <1>1 DEF SendLocked
    <3> QED
      BY <3>1, <2>1, <1>1 DEF SocketTyped
  <2>6. SocketTyped' /\ SendLocked'
    BY <2>1, <2>3, <2>4, <2>5, <1>1 DEF SocketTyped, SendLocked
  <2>7. UpTo(b)'
    BY <2>1, <1>3 DEF UpTo
  <2>8. b \in 0 .. written' /\ written <= written'
    BY <2>1, <1>3
  <2> QED
    BY <2>1, <2>6, <2>7, <2>8, <1>1 DEF SocketInv, SocketMoves
<1> QED
  BY <1>4, <1>5

\* The library's reader hands out bytes of the message it is in.
LEMMA SocketTakes ==
  ASSUME WebSocket!SocketAssumption, SocketInv, NEW n \in 1 .. MaxRead, NEW atEnd \in BOOLEAN,
         WebSocket!Take(wire, n, atEnd), hasReader' = ~atEnd, UNCHANGED <<mu, writer, message, written, closed>>
  PROVE  SocketInv' /\ SocketMoves
<1>1. /\ SocketTyped /\ SendLocked /\ hasReader \in BOOLEAN /\ inMessage = hasReader /\ From(received, 0)
  BY DEF SocketInv
<1>2. PICK b \in 0 .. written : UpTo(b)
  BY DEF SocketInv
<1> DEFINE a == Len(received)
           l == Len(wire)
<1>3. /\ wire \in Seq(Nat) /\ b \in Nat /\ b <= written /\ written \in Nat /\ a \in Nat
      /\ Cells(wire, a, b) /\ a <= b /\ l \in Nat
  BY <1>1, <1>2, LenProperties DEF SocketTyped, From, UpTo
<1>4. /\ n <= WebSocket!Arrived(wire) /\ (atEnd => n = WebSocket!Arrived(wire) /\ n < l)
      /\ received' = received \o SubSeq(wire, 1, n)
      /\ wire' = SubSeq(wire, n + (IF atEnd THEN 2 ELSE 1), l)
      /\ inMessage' = ~atEnd
  BY DEF WebSocket!Take
<1> HIDE DEF a, l
<1>5. /\ WebSocket!Arrived(wire) \in 0 .. l /\ \A i \in 1 .. WebSocket!Arrived(wire) : wire[i] # 0
      /\ WebSocket!Arrived(wire) < l => wire[WebSocket!Arrived(wire) + 1] = 0
  BY <1>3, ArrivedIs DEF l
<1>6. n \in Nat /\ n <= l /\ n \in 0 .. l /\ \A i \in 1 .. n : i \in 1 .. WebSocket!Arrived(wire)
  BY <1>3, <1>4, <1>5 DEF WebSocket!SocketAssumption
<1>7. n \in 0 .. Len(wire) /\ (\A i \in 1 .. n : wire[i] # 0) /\ (atEnd => n < Len(wire) /\ wire[n + 1] = 0)
  BY <1>4, <1>5, <1>6 DEF l
<1>8. /\ From(SubSeq(wire, 1, n), a) /\ a + n <= b
      /\ Cells(SubSeq(wire, n + 1, Len(wire)), a + n, b)
      /\ n < Len(wire) /\ wire[n + 1] = 0 => Cells(SubSeq(wire, n + 2, Len(wire)), a + n, b)
  BY <1>3, <1>7, BytesTaken
<1>9. Cells(wire', a + n, b)
  BY <1>4, <1>7, <1>8 DEF l
<1> DEFINE x == SubSeq(wire, 1, n)
<1>10. x \in Seq(Nat) /\ Len(x) = n
  BY <1>3, <1>6, FirstPart DEF l
<1>11. x = SubSeq(x, 1, n) /\ From(x, Len(received)) /\ n \in 0 .. Len(x)
  <2>1. From(x, a) /\ n \in 0 .. Len(x)
    BY <1>6, <1>8, <1>10
  <2>2. x = SubSeq(x, 1, n)
    <3> HIDE DEF x
    <3> QED
      BY <1>6, <1>10, SubSeqFull
  <2> QED
    BY <2>1, <2>2 DEF a
<1>12. received' = received \o SubSeq(x, 1, n)
  BY <1>4, <1>11
<1> HIDE DEF x
<1>13. From(received', 0) /\ Len(received') = a + n /\ Begins(received', received)
  BY <1>1, <1>11, <1>12, Taken DEF a
<1>14. wire' \in Seq(Nat)
  <2>1. n + (IF atEnd THEN 2 ELSE 1) \in Nat \ {0}
    BY <1>6
  <2>2. SubSeq(wire, n + (IF atEnd THEN 2 ELSE 1), Len(wire)) \in Seq(Nat)
    BY <2>1, <1>3, LastPart
  <2> QED
    BY <2>2, <1>4 DEF l
<1>15. SocketTyped' /\ SendLocked' /\ hasReader' \in BOOLEAN /\ inMessage' = hasReader'
  BY <1>1, <1>4, <1>14 DEF SocketTyped, SendLocked
<1>16. UpTo(b)'
  BY <1>2, <1>8, <1>9, <1>13 DEF UpTo
<1> QED
  BY <1>13, <1>15, <1>16 DEF SocketInv, SocketMoves

\* The end of a message is read by itself.
LEMMA SocketSkipsEnd ==
  ASSUME SocketInv, wire # <<>>, Head(wire) = 0, wire' = Tail(wire),
         hasReader' = FALSE, inMessage' = FALSE, UNCHANGED <<mu, writer, message, written, closed, received>>
  PROVE  SocketInv' /\ SocketMoves
<1>1. /\ SocketTyped /\ SendLocked /\ hasReader \in BOOLEAN /\ inMessage = hasReader /\ From(received, 0)
  BY DEF SocketInv
<1>2. PICK b \in 0 .. written : UpTo(b)
  BY DEF SocketInv
<1> DEFINE a == Len(received)
<1>3. /\ wire \in Seq(Nat) /\ b \in Nat /\ b <= written /\ written \in Nat /\ a \in Nat
      /\ Cells(wire, a, b) /\ a <= b /\ Len(wire) \in Nat \ {0}
  BY <1>1, <1>2, LenProperties, EmptySeq DEF SocketTyped, From, UpTo
<1>4. Head(wire) = wire[1] /\ Tail(wire) \in Seq(Nat) /\ Tail(wire) = SubSeq(wire, 2, Len(wire))
  BY <1>3, HeadTailProperties, TailIsSubSeq
<1> HIDE DEF a
<1>5. 0 \in 0 .. Len(wire) /\ (\A i \in 1 .. 0 : wire[i] # 0) /\ 0 < Len(wire) /\ wire[0 + 1] = 0 /\ 0 + 2 = 2 /\ a + 0 = a
  BY <1>3, <1>4
<1>6. Cells(SubSeq(wire, 0 + 2, Len(wire)), a + 0, b)
  BY <1>3, <1>5, BytesTaken
<1>7. Cells(wire', a, b)
  BY <1>4, <1>5, <1>6
<1>8. SocketTyped' /\ SendLocked'
  BY <1>1, <1>4 DEF SocketTyped, SendLocked
<1>9. UpTo(b)'
  BY <1>2, <1>3, <1>7 DEF UpTo, a
<1>10. written <= written'
  BY <1>3
<1> QED
  BY <1>1, <1>8, <1>9, <1>10 DEF SocketInv, SocketMoves

\* Every step of a WebSocket connection keeps SocketInv.
LEMMA SocketNext ==
  ASSUME WebSocket!SocketAssumption, SocketInv, WebSocket!Next \/ UNCHANGED webSocketVars
  PROVE  SocketInv' /\ SocketMoves
<1>1. /\ SocketTyped /\ SendLocked /\ hasReader \in BOOLEAN /\ inMessage = hasReader /\ From(received, 0)
      /\ written \in Nat
  BY DEF SocketInv, SocketTyped
<1>2. ASSUME UNCHANGED <<mu, writer, message, written, wire, closed, inMessage, hasReader, received>>
      PROVE  SocketInv' /\ SocketMoves
  <2>1. SocketInv'
    BY <1>2 DEF SocketInv, SocketTyped, SendLocked, UpTo
  <2> QED
    BY <2>1, <1>1, <1>2 DEF SocketMoves
<1>3. CASE UNCHANGED webSocketVars \/ WebSocket!ReadFails
  BY <1>2, <1>3 DEF webSocketVars, WebSocket!ReadFails, WebSocket!writing
<1>4. CASE WebSocket!ReadMore
  BY <1>4, SocketTakes DEF WebSocket!ReadMore, WebSocket!writing
<1>5. CASE WebSocket!ReadEnd
  BY <1>5, SocketSkipsEnd DEF WebSocket!ReadEnd, WebSocket!writing, WebSocket!EOM
<1>6. CASE WebSocket!ReadNext
  <2>1. ~hasReader /\ WebSocket!NextMessage = wire
    BY <1>1, <1>6 DEF WebSocket!ReadNext, WebSocket!NextMessage
  <2>2. wire # <<>> /\ UNCHANGED <<mu, writer, message, written, closed>>
    BY <2>1, <1>6 DEF WebSocket!ReadNext, WebSocket!writing
  <2>3. CASE \E n \in 1 .. MaxRead, atEnd \in BOOLEAN : WebSocket!Take(wire, n, atEnd) /\ hasReader' = ~atEnd
    BY <2>2, <2>3, SocketTakes
  <2>4. CASE Head(wire) = 0 /\ wire' = Tail(wire) /\ inMessage' = FALSE /\ UNCHANGED <<hasReader, received>>
    <3>1. hasReader' = FALSE
      BY <2>1, <2>4, <1>1
    <3> QED
      BY <3>1, <2>2, <2>4, SocketSkipsEnd
  <2> QED
    BY <2>1, <2>3, <2>4, <1>6 DEF WebSocket!ReadNext, WebSocket!EOM
<1> QED
  BY <1>3, <1>4, <1>5, <1>6, SocketLocks, SocketSends, SocketEnds, SocketLoses
     DEF WebSocket!Next, WebSocket!WriteStep, WebSocket!ReadStep

\* A new WebSocket connection: nothing written, read or on its way.
LEMMA SocketStart ==
  ASSUME WebSocket!Init
  PROVE  SocketInv
<1>1. <<>> \in Seq(Nat) /\ Len(<<>>) = 0 /\ 0 \in 0 .. 0 /\ 0 <= 0
  OBVIOUS
<1>2. SocketTyped /\ SendLocked
  BY <1>1 DEF WebSocket!Init, SocketTyped, SendLocked
<1>3. From(<<>>, 0)
  BY DEF From
<1>4. Cells(<<>>, 0, 0)
  <2>1. Counted(<<>>, [k \in 1 .. 1 |-> 0], 0, 0)
    BY <1>1 DEF Counted
  <2> QED
    BY <2>1 DEF Cells
<1>5. UpTo(0)
  BY <1>1, <1>4 DEF WebSocket!Init, UpTo
<1> QED
  BY <1>1, <1>2, <1>3, <1>5 DEF WebSocket!Init, SocketInv

\* WebSocket: the Reads of a wsConn return, in order and without the limits of messages, the
\* bytes that were given to the Writes of any number of goroutines; a Close may cut them
\* short, never mix or skip them.
THEOREM WebSocketIsByteStream == MCSpec => WebSocket!IsByteStream
<1>1. MCInit => SocketInv /\ WebSocket!Stream!Init
  <2> SUFFICES ASSUME MCInit PROVE SocketInv /\ WebSocket!Stream!Init
    OBVIOUS
  <2>1. WebSocket!Init
    BY DEF MCInit
  <2>2. WebSocket!Stream!Init
    BY <2>1 DEF WebSocket!Init, WebSocket!Stream!Init
  <2> QED
    BY <2>1, <2>2, SocketStart
<1>2. SocketInv /\ [MCNext]_allVars => SocketInv' /\ [WebSocket!Stream!Next]_WebSocket!Stream!vars
  <2> SUFFICES ASSUME SocketInv, [MCNext]_allVars
      PROVE SocketInv' /\ [WebSocket!Stream!Next]_WebSocket!Stream!vars
    OBVIOUS
  <2>1. WebSocket!Next \/ UNCHANGED webSocketVars
    BY DEF MCNext, allVars
  <2>2. SocketInv' /\ SocketMoves
    BY <2>1, SocketNext, StreamsAssumption DEF StreamsAssumption
  <2>3. written \in Nat /\ written' \in Nat /\ From(received', 0)
    BY <2>2 DEF SocketInv, SocketTyped
  <2>4. WebSocket!Stream!Next
    <3>1. CASE received' = received /\ written <= written'
      <4>1. Begins([i \in 1 .. written' |-> i], [i \in 1 .. written |-> i])
        BY <2>3, <3>1, WrittenGrows
      <4>2. WebSocket!Stream!StartsWith([i \in 1 .. written' |-> i], [i \in 1 .. written |-> i])
        BY <4>1 DEF Begins, WebSocket!Stream!StartsWith
      <4> QED
        BY <4>2, <3>1 DEF WebSocket!Stream!Next, WebSocket!Stream!Write
    <3>2. CASE Begins(received', received) /\ written' = written
      <4>1. PICK b \in 0 .. written' : Len(received') <= b
        BY <2>2 DEF SocketInv, UpTo
      <4>2. Len(received') \in Nat
        BY <2>3, LenProperties DEF From
      <4>3. Len(received') <= written
        BY <4>1, <4>2, <2>3, <3>2
      <4>4. Begins([i \in 1 .. written |-> i], received')
        BY <4>3, <2>3, WrittenBegins
      <4>5. /\ WebSocket!Stream!StartsWith([i \in 1 .. written |-> i], received')
            /\ WebSocket!Stream!StartsWith(received', received)
        BY <4>4, <3>2 DEF Begins, WebSocket!Stream!StartsWith
      <4>6. [i \in 1 .. written' |-> i] = [i \in 1 .. written |-> i]
        BY <3>2
      <4> QED
        BY <4>5, <4>6 DEF WebSocket!Stream!Next, WebSocket!Stream!Read
    <3> QED
      BY <2>2, <3>1, <3>2 DEF SocketMoves
  <2> QED
    BY <2>2, <2>4
<1> QED
  BY <1>1, <1>2, PTL DEF MCSpec, WebSocket!IsByteStream, WebSocket!Stream!Spec

(***************************************************************************)
(* Shadowsocks                                                             *)
(***************************************************************************)
\* What can be on the wire: a length, or a sealed byte.
Cell == [len : Nat] \union [of : Seq(Nat), cell : Nat]

\* Data sealed with a method, their length, and the frame that carries them.
Seal(m, x) == [i \in 1 .. Len(x) + (IF m = "none" THEN 0 ELSE Overhead) |-> [of |-> x, cell |-> i]]
Announce(m, x) == [len |-> Len(Seal(m, x)) % LenMod]
Frame(m, x) == <<Announce(m, x)>> \o Seal(m, x)

\* The cells of w are the frames of the data d: what is left after k - 1 of them is s[k].
Chained(m, w, d, s) ==
  /\ s \in [1 .. Len(d) + 1 -> Seq(Cell)] /\ s[1] = w /\ s[Len(d) + 1] = <<>>
  /\ \A k \in 1 .. Len(d) : s[k] = Frame(m, d[k]) \o s[k + 1] /\ (m = "none" => Len(d[k]) < LenMod)
Sealing(m, w, a, b) == \E d \in Seq(Seq(Nat)) : Frames(d, a, b) /\ \E s : Chained(m, w, d, s)

\* The length field keeps a length modulo LenMod: the length itself if it is smaller.
LEMMA Remainder ==
  ASSUME NEW l \in Nat, NEW m \in Nat \ {0}
  PROVE  l % m \in Nat /\ l % m < m /\ (l < m => l % m = l)
<1>1. l % m \in 0 .. m - 1
  OBVIOUS
<1>2. ASSUME l < m PROVE l % m = l
  BY <1>2
<1> QED
  BY <1>1, <1>2

\* Write of ssEncryptWriter: what a frame consists of.
LEMMA SealIs ==
  ASSUME Sealed!SealedAssumption, NEW m, NEW x \in Seq(Nat)
  PROVE  /\ Seal(m, x) \in Seq(Cell) /\ Frame(m, x) \in Seq(Cell) /\ Len(Seal(m, x)) % LenMod \in Nat
         /\ Announce(m, x) \in Cell
         /\ Len(Seal(m, x)) = Len(x) + (IF m = "none" THEN 0 ELSE Overhead)
         /\ \A i \in 1 .. Len(Seal(m, x)) : Seal(m, x)[i] = [of |-> x, cell |-> i]
<1> DEFINE n == Len(x) + (IF m = "none" THEN 0 ELSE Overhead)
           e == Seal(m, x)
<1>1. n \in Nat
  BY LenProperties DEF Sealed!SealedAssumption
<1>2. e = [i \in 1 .. n |-> [of |-> x, cell |-> i]]
  BY DEF Seal
<1> HIDE DEF n, e
<1>3. \A i \in 1 .. n : [of |-> x, cell |-> i] \in Cell
  BY <1>1 DEF Cell
<1>4. e \in Seq(Cell) /\ Len(e) = n /\ \A i \in 1 .. n : e[i] = [of |-> x, cell |-> i]
  <2>1. e \in [1 .. n -> Cell]
    BY <1>2, <1>3
  <2> QED
    BY <2>1, <1>1, <1>2, SeqDef
<1>5. Len(e) % LenMod \in Nat
  BY <1>1, <1>4, Remainder DEF Sealed!SealedAssumption
<1>6. [len |-> Len(e) % LenMod] \in Cell /\ <<[len |-> Len(e) % LenMod]>> \in Seq(Cell)
  BY <1>5 DEF Cell
<1>7. <<[len |-> Len(e) % LenMod]>> \o e \in Seq(Cell)
  BY <1>4, <1>6, ConcatProperties
<1> QED
  BY <1>4, <1>5, <1>6, <1>7 DEF Frame, Announce, n, e

\* A cell in front of others is the first of them.
LEMMA FirstCell ==
  ASSUME NEW S, NEW l \in S, NEW t \in Seq(S)
  PROVE  <<l>> \o t \in Seq(S) /\ <<l>> \o t # <<>> /\ Head(<<l>> \o t) = l /\ Tail(<<l>> \o t) = t
<1> DEFINE z == <<l>> \o t
<1>1. <<l>> \in Seq(S) /\ Len(<<l>>) = 1 /\ <<l>>[1] = l
  OBVIOUS
<1>2. /\ z \in Seq(S) /\ Len(z) = 1 + Len(t) /\ Len(t) \in Nat
      /\ \A i \in 1 .. 1 + Len(t) : z[i] = IF i <= 1 THEN <<l>>[i] ELSE t[i - 1]
  BY <1>1, ConcatProperties, LenProperties
<1> HIDE DEF z
<1>3. z # <<>> /\ Head(z) = l
  <2>1. 1 \in 1 .. 1 + Len(t) /\ 1 <= 1
    BY <1>2
  <2>2. z[1] = l
    BY <2>1, <1>1, <1>2
  <2>3. z # <<>>
    BY <1>2, EmptySeq
  <2> QED
    BY <2>2, <2>3, <1>2
<1>4. /\ Tail(z) \in Seq(S) /\ Len(Tail(z)) = Len(t)
      /\ \A i \in 1 .. Len(t) : Tail(z)[i] = z[i + 1]
  <2>1. Tail(z) \in Seq(S) /\ Len(Tail(z)) = Len(z) - 1 /\ \A i \in 1 .. Len(Tail(z)) : Tail(z)[i] = z[i + 1]
    BY <1>2, <1>3, HeadTailProperties
  <2>2. Len(Tail(z)) = Len(t)
    BY <2>1, <1>2
  <2> QED
    BY <2>1, <2>2
<1>5. \A i \in 1 .. Len(t) : Tail(z)[i] = t[i]
  <2> TAKE i \in 1 .. Len(t)
  <2>1. i + 1 \in 1 .. 1 + Len(t) /\ ~(i + 1 <= 1) /\ (i + 1) - 1 = i
    BY <1>2
  <2>2. z[i + 1] = t[(i + 1) - 1]
    BY <2>1, <1>2
  <2> QED
    BY <2>1, <2>2, <1>4
<1>6. Tail(z) = t
  BY <1>4, <1>5, SeqEqual
<1> QED
  BY <1>2, <1>3, <1>6 DEF z

\* Appending to the second of two sequences appends to both.
LEMMA AppendBehind ==
  ASSUME NEW S, NEW s \in Seq(S), NEW t \in Seq(S), NEW l \in S
  PROVE  s \o t \in Seq(S) /\ s \o Append(t, l) = Append(s \o t, l)
<1>1. <<l>> \in Seq(S)
  OBVIOUS
<1>2. s \o t \in Seq(S)
  BY ConcatProperties
<1>3. Append(t, l) = t \o <<l>>
  BY AppendIsConcat
<1>4. Append(s \o t, l) = (s \o t) \o <<l>>
  BY <1>2, AppendIsConcat
<1>5. (s \o t) \o <<l>> = s \o (t \o <<l>>)
  BY <1>1, ConcatAssociative
<1> QED
  BY <1>2, <1>3, <1>4, <1>5

\* The two parts of a concatenation.
LEMMA ConcatParts ==
  ASSUME NEW S, NEW s \in Seq(S), NEW t \in Seq(S)
  PROVE  SubSeq(s \o t, 1, Len(s)) = s /\ SubSeq(s \o t, Len(s) + 1, Len(s \o t)) = t
<1> DEFINE z == s \o t
<1>1. /\ z \in Seq(S) /\ Len(z) = Len(s) + Len(t) /\ Len(s) \in Nat /\ Len(t) \in Nat
      /\ \A i \in 1 .. Len(s) + Len(t) : z[i] = IF i <= Len(s) THEN s[i] ELSE t[i - Len(s)]
  BY ConcatProperties, LenProperties
<1> HIDE DEF z
<1>2. SubSeq(z, 1, Len(s)) = s
  <2>1. /\ SubSeq(z, 1, Len(s)) \in Seq(S) /\ Len(SubSeq(z, 1, Len(s))) = Len(s)
        /\ \A i \in 1 .. Len(s) : SubSeq(z, 1, Len(s))[i] = z[i]
    BY <1>1, SubSeqProperties
  <2>2. \A i \in 1 .. Len(s) : z[i] = s[i]
    BY <1>1
  <2>3. \A i \in 1 .. Len(s) : SubSeq(z, 1, Len(s))[i] = s[i]
    BY <2>1, <2>2
  <2> QED
    BY <2>1, <2>3, SeqEqual
<1>3. SubSeq(z, Len(s) + 1, Len(z)) = t
  <2> DEFINE y == SubSeq(z, Len(s) + 1, Len(z))
  <2>1. y \in Seq(S) /\ Len(y) = Len(t) /\ \A i \in 1 .. Len(t) : y[i] = z[Len(s) + i]
    BY <1>1, SubSeqProperties
  <2> HIDE DEF y
  <2>2. \A i \in 1 .. Len(t) : z[Len(s) + i] = t[i]
    <3> TAKE i \in 1 .. Len(t)
    <3>1. Len(s) + i \in 1 .. Len(s) + Len(t) /\ ~(Len(s) + i <= Len(s)) /\ (Len(s) + i) - Len(s) = i
      BY <1>1
    <3>2. z[Len(s) + i] = t[(Len(s) + i) - Len(s)]
      BY <3>1, <1>1
    <3> QED
      BY <3>1, <3>2
  <2>3. y = t
    BY <2>1, <2>2, SeqEqual
  <2> QED
    BY <2>3 DEF y
<1> QED
  BY <1>2, <1>3 DEF z

\* The same of all cells: a length is written behind whole frames.
LEMMA CellsAppended ==
  \A s, t \in Seq(Cell), l \in Cell :
    s \o Append(t, l) = Append(s \o t, l) /\ Append(t, l) \in Seq(Cell)
  BY AppendBehind, AppendProperties

\* Frames that are written one behind the other can be taken in any grouping.
LEMMA CellsJoined == \A g, h, f \in Seq(Cell) : (g \o h) \o f = g \o (h \o f)
BY ConcatAssociative

\* A frame is written behind the others.
LEMMA SealedAdded ==
  ASSUME Sealed!SealedAssumption, NEW m, NEW w \in Seq(Cell), NEW a \in Nat, NEW b \in Nat, Sealing(m, w, a, b),
         NEW n \in Nat, m = "none" => n < LenMod
  PROVE  Sealing(m, w \o Frame(m, [i \in 1 .. n |-> b + i]), a, b + n)
<1> DEFINE x == [i \in 1 .. n |-> b + i]
           f == Frame(m, x)
<1>0. PICK d \in Seq(Seq(Nat)) : Frames(d, a, b) /\ \E s : Chained(m, w, d, s)
  BY DEF Sealing
<1>1. PICK s : Frames(d, a, b) /\ Chained(m, w, d, s)
  BY <1>0
<1>2. x \in Seq(Nat) /\ Len(x) = n
  BY NextBytes DEF From
<1>3. Frames(Append(d, x), a, b + n)
  BY <1>1, FrameAdded
<1> HIDE DEF x
<1>4. f \in Seq(Cell)
  BY <1>2, SealIs
<1> DEFINE l == Len(d)
           e == Append(d, x)
           t == [k \in 1 .. l + 2 |-> IF k = l + 2 THEN <<>> ELSE s[k] \o f]
<1>5. l \in Nat /\ e \in Seq(Seq(Nat)) /\ Len(e) = l + 1 /\ e[l + 1] = x /\ \A k \in 1 .. l : e[k] = d[k]
  <2>1. d \in Seq(Seq(Nat)) /\ x \in Seq(Nat)
    BY <1>1, <1>2
  <2> HIDE DEF x
  <2>2. Len(d) \in Nat /\ DOMAIN d = 1 .. Len(d)
    BY <2>1, LenProperties
  <2> QED
    BY <2>1, <2>2, AppendProperties
<1>6. /\ s \in [1 .. l + 1 -> Seq(Cell)] /\ s[1] = w /\ s[l + 1] = <<>>
      /\ \A k \in 1 .. l : s[k] = Frame(m, d[k]) \o s[k + 1] /\ (m = "none" => Len(d[k]) < LenMod)
  BY <1>1 DEF Chained
<1> HIDE DEF l, e, f
<1>7. /\ \A k \in 1 .. l + 1 : t[k] = s[k] \o f
      /\ t[l + 2] = <<>> /\ t = [k \in 1 .. l + 2 |-> t[k]]
  BY <1>5
<1> HIDE DEF t
<1>8. t \in [1 .. l + 2 -> Seq(Cell)]
  <2>1. ASSUME NEW k \in 1 .. l + 2 PROVE t[k] \in Seq(Cell)
    <3>1. CASE k = l + 2
      <4>1. <<>> \in Seq(Cell)
        OBVIOUS
      <4> QED
        BY <4>1, <3>1, <1>7
    <3>2. CASE k # l + 2
      <4>1. k \in 1 .. l + 1
        BY <3>2, <1>5
      <4>2. s[k] \in Seq(Cell) /\ t[k] = s[k] \o f
        BY <4>1, <1>6, <1>7
      <4> QED
        BY <4>2, <1>4, ConcatProperties
    <3> QED
      BY <3>1, <3>2
  <2> QED
    BY <2>1, <1>7
<1>9. t[1] = w \o f
  <2>1. 1 \in 1 .. l + 1
    BY <1>5
  <2> QED
    BY <2>1, <1>6, <1>7
<1>10. ASSUME NEW k \in 1 .. l + 1
       PROVE  t[k] = Frame(m, e[k]) \o t[k + 1] /\ (m = "none" => Len(e[k]) < LenMod)
  <2>1. CASE k = l + 1
    <3>1. k \in 1 .. l + 1 /\ k + 1 = l + 2 /\ e[k] = x
      BY <2>1, <1>5
    <3>2. t[k] = <<>> \o f /\ t[k + 1] = <<>>
      BY <2>1, <3>1, <1>6, <1>7
    <3>3. t[k] = f /\ f \o <<>> = f
      BY <3>2, <1>4, ConcatEmptySeq
    <3>4. t[k] = Frame(m, e[k]) \o t[k + 1]
      BY <3>1, <3>2, <3>3 DEF f
    <3> QED
      BY <3>1, <3>4, <1>2
  <2>2. CASE k # l + 1
    <3>1. k \in 1 .. l /\ k + 1 \in 1 .. l + 1 /\ k \in 1 .. l + 1
      BY <2>2, <1>5
    <3>2. /\ e[k] = d[k] /\ t[k] = s[k] \o f /\ t[k + 1] = s[k + 1] \o f /\ s[k + 1] \in Seq(Cell)
          /\ s[k] = Frame(m, d[k]) \o s[k + 1] /\ (m = "none" => Len(d[k]) < LenMod)
      BY <3>1, <1>5, <1>6, <1>7
    <3>3. d[k] \in Seq(Nat)
      BY <3>1, ElementOfSeq DEF l
    <3>4. Frame(m, d[k]) \in Seq(Cell)
      BY <3>3, SealIs
    <3> DEFINE g == Frame(m, d[k])
               h == s[k + 1]
    <3> HIDE DEF g, h
    <3>5. g \in Seq(Cell) /\ h \in Seq(Cell)
      BY <3>2, <3>4 DEF g, h
    <3>6. (g \o h) \o f = g \o (h \o f)
      BY <3>5, <1>4, CellsJoined
    <3>7. t[k] = (g \o h) \o f /\ t[k + 1] = h \o f
      BY <3>2 DEF g, h
    <3>8. t[k] = Frame(m, e[k]) \o t[k + 1]
      BY <3>2, <3>6, <3>7 DEF g
    <3> QED
      BY <3>2, <3>8
  <2> QED
    BY <2>1, <2>2
<1>11. Chained(m, w \o f, e, t)
  <2>1. (l + 1) + 1 = l + 2
    BY <1>5
  <2> QED
    BY <2>1, <1>5, <1>7, <1>8, <1>9, <1>10 DEF Chained
<1> QED
  BY <1>3, <1>5, <1>11 DEF Sealing, e, f, x

\* The first frame is read.
LEMMA SealedTaken ==
  ASSUME Sealed!SealedAssumption, NEW m, NEW w \in Seq(Cell), NEW a \in Nat, NEW b \in Nat, Sealing(m, w, a, b),
         w # <<>>
  PROVE  \E x \in Seq(Nat), v \in Seq(Cell) :
           /\ w = Frame(m, x) \o v /\ From(x, a) /\ a + Len(x) <= b /\ (m = "none" => Len(x) < LenMod)
           /\ Sealing(m, v, a + Len(x), b)
<1>0. PICK d \in Seq(Seq(Nat)) : Frames(d, a, b) /\ \E s : Chained(m, w, d, s)
  BY DEF Sealing
<1>1. PICK s : Frames(d, a, b) /\ Chained(m, w, d, s)
  BY <1>0
<1> DEFINE l == Len(d)
<1>2. /\ s \in [1 .. l + 1 -> Seq(Cell)] /\ s[1] = w /\ s[l + 1] = <<>>
      /\ \A k \in 1 .. l : s[k] = Frame(m, d[k]) \o s[k + 1] /\ (m = "none" => Len(d[k]) < LenMod)
  BY <1>1 DEF Chained
<1>3. l \in Nat \ {0} /\ d # <<>>
  <2>1. l \in Nat
    BY LenProperties
  <2>2. l # 0
    BY <1>2
  <2>3. d # <<>>
    BY <2>2, EmptySeq
  <2> QED
    BY <2>1, <2>2, <2>3
<1> DEFINE x == Head(d)
           e == Tail(d)
           t == [k \in 1 .. l |-> s[k + 1]]
<1>4. /\ x \in Seq(Nat) /\ x = d[1] /\ e \in Seq(Seq(Nat)) /\ Len(e) = l - 1
      /\ \A k \in 1 .. l - 1 : e[k] = d[k + 1]
  BY <1>3, HeadTailProperties
<1>5. From(x, a) /\ Frames(e, a + Len(x), b) /\ a + Len(x) <= b
  BY <1>1, <1>3, FrameTaken
<1> HIDE DEF l, x, e
<1>6. 1 \in 1 .. l /\ 1 + 1 = 2 /\ 2 \in 1 .. l + 1 /\ l \in 1 .. l
  BY <1>3
<1>7. w = Frame(m, x) \o s[2] /\ (m = "none" => Len(x) < LenMod) /\ s[2] \in Seq(Cell)
  BY <1>2, <1>4, <1>6
<1>8. ASSUME NEW k \in 1 .. l PROVE t[k] = s[k + 1] /\ s[k + 1] \in Seq(Cell)
  <2>1. k + 1 \in 1 .. l + 1
    BY <1>3
  <2> QED
    BY <2>1, <1>2
<1>9. t \in [1 .. l -> Seq(Cell)]
  BY <1>8
<1> HIDE DEF t
<1>10. t[1] = s[2] /\ t[l] = <<>>
  BY <1>2, <1>6, <1>8
<1>11. ASSUME NEW k \in 1 .. l - 1
       PROVE  t[k] = Frame(m, e[k]) \o t[k + 1] /\ (m = "none" => Len(e[k]) < LenMod)
  <2>1. k \in 1 .. l /\ k + 1 \in 1 .. l
    BY <1>3
  <2>2. t[k] = s[k + 1] /\ t[k + 1] = s[(k + 1) + 1] /\ e[k] = d[k + 1]
    BY <2>1, <1>4, <1>8
  <2>3. s[k + 1] = Frame(m, d[k + 1]) \o s[(k + 1) + 1] /\ (m = "none" => Len(d[k + 1]) < LenMod)
    BY <2>1, <1>2
  <2> QED
    BY <2>2, <2>3
<1>12. Chained(m, s[2], e, t)
  <2>1. Len(e) + 1 = l
    BY <1>3, <1>4
  <2> QED
    BY <2>1, <1>4, <1>9, <1>10, <1>11 DEF Chained
<1>13. Sealing(m, s[2], a + Len(x), b)
  BY <1>4, <1>5, <1>12 DEF Sealing
<1> QED
  BY <1>4, <1>5, <1>7, <1>13

\* Decrypt: what it opens is a whole frame, since a length that was cut short is that of
\* a part of one.
LEMMA OpensWhole ==
  ASSUME Sealed!SealedAssumption, method \in {"aead", "none"}, NEW x \in Seq(Nat), NEW v \in Seq(Cell),
         method = "none" => Len(x) < LenMod, swire = Seal(method, x) \o v,
         length = Len(Seal(method, x)) % LenMod, Sealed!Opens(SubSeq(swire, 1, length))
  PROVE  Sealed!Decrypt(SubSeq(swire, 1, length)) = x /\ SubSeq(swire, length + 1, Len(swire)) = v
<1> DEFINE e == Seal(method, x)
           l == Len(e)
           cells == SubSeq(swire, 1, length)
<1>1. /\ e \in Seq(Cell) /\ l = Len(x) + (IF method = "none" THEN 0 ELSE Overhead)
      /\ \A i \in 1 .. l : e[i] = [of |-> x, cell |-> i]
  BY SealIs
<1>2. l \in Nat /\ Len(x) \in Nat /\ LenMod \in Nat \ {0}
  BY <1>1, LenProperties DEF Sealed!SealedAssumption
<1>3. swire = e \o v /\ length = l % LenMod
  OBVIOUS
<1>4. length \in Nat /\ length < LenMod /\ (l < LenMod => length = l)
  BY <1>2, <1>3, Remainder
<1>5. Sealed!Encrypt(x) = e
  BY DEF Sealed!Encrypt, Seal
<1> HIDE DEF e, l
<1>8. ASSUME NEW i \in 1 .. l PROVE e[i].of = x /\ e[i].cell = i
  <2>1. e[i] = [of |-> x, cell |-> i]
    BY <1>1
  <2> QED
    BY <2>1
<1>6. CASE l < LenMod
  <2>1. length = l
    BY <1>4, <1>6
  <2>2. cells = e /\ SubSeq(swire, length + 1, Len(swire)) = v
    BY <2>1, <1>1, <1>3, ConcatParts DEF l
  <2>3. Sealed!Decrypt(e) = x
    <3>1. CASE method = "none"
      <4>1. l = Len(x) /\ DOMAIN e = 1 .. Len(x)
        BY <3>1, <1>1, <1>2, LenProperties DEF l
      <4>2. Sealed!Decrypt(e) = [i \in 1 .. Len(x) |->
                                   IF Sealed!IsLength(e[i]) THEN 0 ELSE e[i].of[e[i].cell]]
        BY <3>1, <4>1 DEF Sealed!Decrypt
      <4>3. \A i \in 1 .. Len(x) : (IF Sealed!IsLength(e[i]) THEN 0 ELSE e[i].of[e[i].cell]) = x[i]
        <5> TAKE i \in 1 .. Len(x)
        <5>1. e[i] = [of |-> x, cell |-> i]
          BY <4>1, <1>1
        <5>2. ~Sealed!IsLength([of |-> x, cell |-> i])
          BY DEF Sealed!IsLength
        <5> QED
          BY <5>1, <5>2, <4>1, <1>8
      <4>4. Sealed!Decrypt(e) = [i \in 1 .. Len(x) |-> x[i]]
        BY <4>2, <4>3
      <4>5. x = [i \in 1 .. Len(x) |-> x[i]]
        BY LenProperties
      <4> QED
        BY <4>4, <4>5
    <3>2. CASE method # "none"
      <4>1. e # <<>> /\ Sealed!Decrypt(e) = e[1].of
        BY <2>2, <3>2 DEF Sealed!Opens, Sealed!Decrypt
      <4>2. 1 \in 1 .. l
        BY <4>1, <1>1, <1>2, EmptySeq DEF l
      <4> QED
        BY <4>1, <4>2, <1>8
    <3> QED
      BY <3>1, <3>2
  <2> QED
    BY <2>2, <2>3
<1>7. CASE ~(l < LenMod)
  <2>1. method # "none" /\ length < l
    BY <1>1, <1>2, <1>4, <1>7
  <2>2. cells # <<>> /\ cells = Sealed!Encrypt(cells[1].of)
    BY <2>1 DEF Sealed!Opens
  <2>3. swire \in Seq(Cell) /\ Len(swire) = l + Len(v) /\ \A i \in 1 .. l : swire[i] = e[i]
    <3>1. /\ e \o v \in Seq(Cell) /\ Len(e \o v) = Len(e) + Len(v) /\ Len(v) \in Nat
          /\ \A i \in 1 .. Len(e) + Len(v) : (e \o v)[i] = IF i <= Len(e) THEN e[i] ELSE v[i - Len(e)]
      BY <1>1, ConcatProperties, LenProperties
    <3> QED
      BY <3>1, <1>2, <1>3 DEF l
  <2>4. cells \in Seq(Cell) /\ Len(cells) = length /\ \A i \in 1 .. length : cells[i] = e[i]
    <3>1. Len(v) \in Nat
      BY LenProperties
    <3>2. length <= Len(swire)
      BY <2>1, <2>3, <3>1, <1>2, <1>4
    <3>3. cells \in Seq(Cell) /\ Len(cells) = length /\ \A i \in 1 .. length : cells[i] = swire[i]
      BY <2>3, <3>2, <1>4, FirstPart
    <3>4. \A i \in 1 .. length : i \in 1 .. l
      BY <2>1, <1>2, <1>4
    <3> QED
      BY <2>3, <3>3, <3>4
  <2>5. 1 \in 1 .. length /\ 1 \in 1 .. l
    BY <2>1, <2>2, <2>4, <1>2, <1>4, EmptySeq
  <2>6. cells[1].of = x
    BY <2>4, <2>5, <1>8
  <2>7. cells = e
    BY <2>2, <2>6, <1>5
  <2> QED
    BY <2>1, <2>4, <2>7, <1>2, <1>4 DEF l
<1> QED
  BY <1>6, <1>7

\* What the reader still has to get through: the length that it is at, and the wire.
Coming == IF sreader = "data" THEN <<[len |-> length]>> \o swire ELSE swire

SealedTyped ==
  /\ method \in {"aead", "none"} /\ broken \in BOOLEAN /\ swritten \in Nat
  /\ swriter \in [Writers -> {"idle", "data"}] /\ frame \in [Writers -> Seq(Cell)]
  /\ swire \in Seq(Cell) /\ sreader \in {"idle", "data", "done"} /\ (sreader = "data" => length \in Nat)

\* Only the goroutine that has the lock is in the middle of a frame.
DataLocked == \A w \in Writers : swriter[w] = "data" => wmu = w

\* The cells z are whole frames, up to b; unless the connection is broken they are all
\* that was written.
WholeUpTo(z, a, b) ==
  /\ Sealing(method, z, a, b)
  /\ ~broken => b = swritten /\ \A w \in Writers : swriter[w] = "data" => frame[w] = <<>>

\* The cells z are whole frames, up to b, and a length; unless the connection is broken it
\* is that of the data that some goroutine is about to write.
LengthAfter(z, a, b) ==
  \E v \in Seq(Cell), l \in Nat :
    /\ z = Append(v, [len |-> l]) /\ Sealing(method, v, a, b)
    /\ ~broken => \E w \in Writers : LET x == [i \in 1 .. swritten - b |-> b + i]
                  IN /\ swriter[w] = "data" /\ frame[w] = Seal(method, x) /\ l = Len(Seal(method, x)) % LenMod
                     /\ method = "none" => Len(x) < LenMod

\* While the reader has met no error, what is coming continues what it has.
Continues ==
  LET a == Len(sreceived) + Len(sbuf)
  IN \E b \in 0 .. swritten : a <= b /\ (WholeUpTo(Coming, a, b) \/ LengthAfter(Coming, a, b))

\* The inductive invariant: a reader that opens a frame has nothing left over.
SealedInv ==
  /\ SealedTyped /\ DataLocked
  /\ From(sreceived, 0) /\ From(sbuf, Len(sreceived)) /\ Len(sreceived) + Len(sbuf) <= swritten
  /\ sreader = "data" => sbuf = <<>>
  /\ sreader # "done" => Continues

\* The step of the stream.
SealedMoves ==
  \/ sreceived' = sreceived /\ swritten <= swritten'
  \/ Begins(sreceived', sreceived) /\ swritten' = swritten

\* Write: the length of the sealed data goes first.
LEMMA SealedLength ==
  ASSUME Sealed!SealedAssumption, SealedInv, NEW w \in Writers, Sealed!WriteLength(w), ~overlong'
  PROVE  SealedInv' /\ SealedMoves
<1> DEFINE a == Len(sreceived) + Len(sbuf)
<1>1. /\ SealedTyped /\ DataLocked /\ From(sreceived, 0) /\ From(sbuf, Len(sreceived)) /\ a <= swritten
      /\ (sreader = "data" => sbuf = <<>>)
  BY DEF SealedInv
<1>2. PICK n \in Sizes :
        /\ ~(method = "none" /\ n >= LenMod)
        /\ frame' = [frame EXCEPT ![w] = Sealed!Encrypt([i \in 1 .. n |-> swritten + i])]
        /\ swritten' = swritten + n
  BY DEF Sealed!WriteLength
<1>3. /\ swriter[w] = "idle" /\ wmu = Unlocked /\ ~broken
      /\ swire' = Append(swire, [len |-> Len(frame'[w]) % LenMod])
      /\ wmu' = w /\ swriter' = [swriter EXCEPT ![w] = "data"]
      /\ method' = method /\ broken' = broken /\ sreader' = sreader /\ length' = length /\ sbuf' = sbuf
      /\ sreceived' = sreceived
  BY DEF Sealed!WriteLength, Sealed!LengthOf, Sealed!reading
<1>15. method = "none" => n < LenMod
  BY <1>2 DEF Sealed!SealedAssumption
<1>4. n \in Nat /\ swritten \in Nat /\ a \in Nat
  BY <1>1, LenProperties DEF SealedTyped, Sealed!SealedAssumption, From
<1> DEFINE x == [i \in 1 .. n |-> swritten + i]
           e == Seal(method, x)
           l == Len(e) % LenMod
           c == [len |-> l]
<1>5. x \in Seq(Nat) /\ Len(x) = n
  BY <1>4, NextBytes DEF From
<1>6. e \in Seq(Cell) /\ l \in Nat /\ c \in Cell
  BY <1>5, SealIs DEF Announce
<1>7. Sealed!Encrypt(x) = e
  BY DEF Sealed!Encrypt, Seal
<1>8. frame' = [frame EXCEPT ![w] = e]
  BY <1>2, <1>7
<1> HIDE DEF a, x, e, l, c
<1>9. frame' \in [Writers -> Seq(Cell)] /\ frame'[w] = e
  BY <1>1, <1>6, <1>8, Changed DEF SealedTyped
<1>10. swire' = Append(swire, c) /\ swire' \in Seq(Cell)
  <2>1. swire' = Append(swire, c)
    BY <1>3, <1>9 DEF l, c
  <2>2. c \in Cell /\ swire \in Seq(Cell)
    BY <1>1, <1>6 DEF SealedTyped
  <2> QED
    BY <2>1, <2>2, AppendProperties
<1>11. \A v \in Writers : swriter[v] # "data"
  BY <1>1, <1>3 DEF DataLocked, Sealed!SealedAssumption
<1>12. SealedTyped' /\ DataLocked'
  <2>1. swriter' \in [Writers -> {"idle", "data"}] /\ \A v \in Writers : v # w => swriter'[v] = swriter[v]
    BY <1>1, <1>3 DEF SealedTyped
  <2>2. swritten' \in Nat
    BY <1>2, <1>4
  <2>3. DataLocked'
    BY <2>1, <1>3, <1>11 DEF DataLocked
  <2> QED
    BY <2>1, <2>2, <2>3, <1>1, <1>3, <1>9, <1>10 DEF SealedTyped
<1>13. a <= swritten' /\ swritten <= swritten'
  BY <1>1, <1>2, <1>4 DEF a
<1>14. ASSUME sreader # "done" PROVE Continues'
  <2>1. PICK b \in 0 .. swritten : a <= b /\ (WholeUpTo(Coming, a, b) \/ LengthAfter(Coming, a, b))
    BY <1>14 DEF SealedInv, Continues, a
  <2>2. ~LengthAfter(Coming, a, b)
    BY <1>3, <1>11 DEF LengthAfter
  <2>3. b = swritten /\ Sealing(method, Coming, a, b)
    BY <2>1, <2>2, <1>3 DEF WholeUpTo
  <2>4. Coming \in Seq(Cell) /\ Coming' = Append(Coming, c)
    <3>1. swire \in Seq(Cell) /\ c \in Cell
      BY <1>1, <1>6 DEF SealedTyped
    <3>2. CASE sreader = "data"
      <4>1. /\ [len |-> length] \in Cell /\ Coming = <<[len |-> length]>> \o swire
            /\ Coming' = <<[len |-> length]>> \o Append(swire, c)
        BY <3>2, <1>1, <1>3, <1>10 DEF SealedTyped, Cell, Coming
      <4>2. <<[len |-> length]>> \in Seq(Cell)
        BY <4>1
      <4> QED
        BY <4>1, <4>2, <3>1, AppendBehind
    <3>3. CASE sreader # "data"
      BY <3>1, <3>3, <1>3, <1>10 DEF Coming
    <3> QED
      BY <3>2, <3>3
  <2>5. swritten' - b = n
    BY <2>3, <1>2, <1>4
  <2>6. x = [i \in 1 .. swritten' - b |-> b + i]
    BY <2>3, <2>5 DEF x
  <2>7. swriter'[w] = "data"
    BY <1>1, <1>3 DEF SealedTyped
  <2>8. LengthAfter(Coming, a, b)'
    <3>1. a' = a
      BY <1>3 DEF a
    <3> QED
      BY <2>3, <2>4, <2>6, <2>7, <3>1, <1>15, <1>3, <1>5, <1>6, <1>9 DEF LengthAfter, e, l, c
  <2>9. b \in 0 .. swritten'
    BY <1>2, <1>4
  <2> QED
    BY <2>1, <2>8, <2>9, <1>3 DEF Continues, a
<1> QED
  BY <1>1, <1>3, <1>12, <1>13, <1>14 DEF SealedInv, SealedMoves, a

\* Deliver: the data continue what was read, and what does not fit is left over.
LEMMA SealedDelivers ==
  ASSUME Sealed!SealedAssumption, From(sreceived, 0), NEW d, From(d, Len(sreceived)), Sealed!Deliver(d)
  PROVE  /\ From(sreceived', 0) /\ From(sbuf', Len(sreceived'))
         /\ Len(sreceived') + Len(sbuf') = Len(sreceived) + Len(d)
         /\ Begins(sreceived', sreceived)
<1> DEFINE r == sreceived
<1>1. PICK size \in 1 .. MaxRead :
        LET n == Sealed!Least(size, Len(d))
        IN sreceived' = sreceived \o SubSeq(d, 1, n) /\ sbuf' = SubSeq(d, n + 1, Len(d))
  BY DEF Sealed!Deliver
<1> DEFINE n == Sealed!Least(size, Len(d))
<1>2. d \in Seq(Nat) /\ Len(d) \in Nat /\ size \in Nat /\ r \in Seq(Nat) /\ Len(r) \in Nat
  BY LenProperties DEF From, Sealed!SealedAssumption
<1>3. n \in 0 .. Len(d)
  BY <1>2 DEF Sealed!Least
<1> HIDE DEF n
<1> DEFINE x == r \o SubSeq(d, 1, n)
           y == SubSeq(d, n + 1, Len(d))
<1>4. /\ From(x, 0) /\ Len(x) = Len(r) + n /\ From(y, Len(r) + n) /\ Len(y) = Len(d) - n
      /\ Begins(x, r)
  BY <1>3, Taken
<1>5. sreceived' = x /\ sbuf' = y
  BY <1>1 DEF n
<1> HIDE DEF x, y, r
<1>6. n \in Int
  BY <1>3
<1>7. Len(x) + Len(y) = Len(r) + Len(d)
  BY <1>2, <1>4, <1>6
<1> QED
  BY <1>4, <1>5, <1>7 DEF r

\* Write: the sealed data complete the frame whose length was written.
LEMMA SealedData ==
  ASSUME Sealed!SealedAssumption, SealedInv, NEW w \in Writers, Sealed!WriteData(w)
  PROVE  SealedInv' /\ SealedMoves
<1> DEFINE a == Len(sreceived) + Len(sbuf)
           e == frame[w]
<1>1. /\ SealedTyped /\ DataLocked /\ From(sreceived, 0) /\ From(sbuf, Len(sreceived)) /\ a <= swritten
      /\ (sreader = "data" => sbuf = <<>>)
  BY DEF SealedInv
<1>2. /\ swriter[w] = "data" /\ ~broken /\ swire' = swire \o e /\ frame' = [frame EXCEPT ![w] = <<>>]
      /\ swriter' = [swriter EXCEPT ![w] = "idle"] /\ swritten' = swritten
      /\ method' = method /\ broken' = broken /\ sreader' = sreader /\ length' = length /\ sbuf' = sbuf
      /\ sreceived' = sreceived
  BY DEF Sealed!WriteData, Sealed!reading
<1>3. swritten \in Nat /\ a \in Nat /\ e \in Seq(Cell) /\ swire \in Seq(Cell)
  BY <1>1, LenProperties DEF SealedTyped, From
<1> HIDE DEF a, e
<1>4. swire' \in Seq(Cell)
  BY <1>2, <1>3, ConcatProperties
<1>5. \A v \in Writers : v # w => swriter[v] # "data"
  BY <1>1, <1>2 DEF DataLocked
<1>6. swriter' \in [Writers -> {"idle", "data"}] /\ \A v \in Writers : swriter'[v] # "data"
  BY <1>1, <1>2, <1>5 DEF SealedTyped
<1>7. SealedTyped' /\ DataLocked'
  <2>1. <<>> \in Seq(Cell)
    OBVIOUS
  <2>2. frame' \in [Writers -> Seq(Cell)]
    BY <2>1, <1>1, <1>2, Changed DEF SealedTyped
  <2> QED
    BY <2>2, <1>1, <1>2, <1>4, <1>6 DEF SealedTyped, DataLocked
<1>8. ASSUME sreader # "done" PROVE Continues'
  <2>1. PICK b \in 0 .. swritten : a <= b /\ (WholeUpTo(Coming, a, b) \/ LengthAfter(Coming, a, b))
    BY <1>8 DEF SealedInv, Continues, a
  <2>2. Coming \in Seq(Cell) /\ Coming' = Coming \o e
    <3>1. CASE sreader = "data"
      <4> DEFINE c == [len |-> length]
      <4>1. c \in Cell /\ Coming = <<c>> \o swire /\ Coming' = <<c>> \o (swire \o e)
        BY <3>1, <1>1, <1>2 DEF SealedTyped, Cell, Coming
      <4> HIDE DEF c
      <4>2. <<c>> \in Seq(Cell)
        BY <4>1
      <4>3. <<c>> \o swire \in Seq(Cell) /\ (<<c>> \o swire) \o e = <<c>> \o (swire \o e)
        BY <4>2, <1>3, ConcatProperties, CellsJoined
      <4> QED
        BY <4>1, <4>3
    <3>2. CASE sreader # "data"
      BY <3>2, <1>2, <1>3 DEF Coming
    <3> QED
      BY <3>1, <3>2
  <2>3. Sealing(method, Coming', a, swritten)
    <3>1. CASE WholeUpTo(Coming, a, b)
      <4>1. b = swritten /\ e = <<>> /\ Sealing(method, Coming, a, b)
        BY <3>1, <1>2 DEF WholeUpTo, e
      <4>2. Coming' = Coming
        BY <2>2, <4>1, ConcatEmptySeq
      <4> QED
        BY <4>1, <4>2
    <3>2. CASE LengthAfter(Coming, a, b)
      <4> DEFINE n == swritten - b
                 x == [i \in 1 .. n |-> b + i]
      <4>1. PICK v \in Seq(Cell), l \in Nat, u \in Writers :
              /\ Coming = Append(v, [len |-> l]) /\ Sealing(method, v, a, b) /\ swriter[u] = "data"
              /\ frame[u] = Seal(method, x) /\ l = Len(Seal(method, x)) % LenMod
              /\ method = "none" => Len(x) < LenMod
        BY <3>2, <1>2 DEF LengthAfter
      <4>2. e = Seal(method, x)
        BY <4>1, <1>5 DEF e
      <4>3. b \in Nat /\ n \in Nat /\ b + n = swritten
        BY <2>1, <1>3
      <4>4. Len(x) = n
        BY <4>3, NextBytes
      <4>5. Sealing(method, v \o Frame(method, x), a, b + n)
        BY <4>1, <4>3, <4>4, <1>3, SealedAdded
      <4> HIDE DEF x
      <4> DEFINE c == [len |-> l]
      <4>6. c \in Cell /\ <<c>> \in Seq(Cell) /\ Coming = Append(v, c)
        BY <4>1 DEF Cell
      <4>9. <<c>> \o e = Frame(method, x)
        BY <4>1, <4>2 DEF Frame, Announce
      <4> HIDE DEF c
      <4>7. Coming = v \o <<c>>
        BY <4>6, AppendIsConcat
      <4>8. (v \o <<c>>) \o e = v \o (<<c>> \o e)
        BY <4>6, <1>3, CellsJoined
      <4> QED
        BY <2>2, <4>3, <4>5, <4>7, <4>8, <4>9
    <3> QED
      BY <2>1, <3>1, <3>2
  <2>4. WholeUpTo(Coming, a, swritten)'
    BY <2>3, <1>2, <1>6 DEF WholeUpTo, a
  <2>5. swritten' \in 0 .. swritten'
    BY <1>2, <1>3
  <2> QED
    BY <2>4, <2>5, <1>1, <1>2 DEF Continues, a
<1> QED
  BY <1>1, <1>2, <1>3, <1>7, <1>8 DEF SealedInv, SealedMoves, a

\* Once the connection is broken, nothing more is written.
LEMMA SealedBroken ==
  ASSUME SealedInv, Sealed!Break \/ (\E w \in Writers : Sealed!WriteFails(w))
  PROVE  SealedInv' /\ SealedMoves
<1>1. /\ SealedTyped /\ DataLocked /\ From(sreceived, 0) /\ From(sbuf, Len(sreceived))
      /\ Len(sreceived) + Len(sbuf) <= swritten /\ (sreader = "data" => sbuf = <<>>) /\ swritten \in Nat
  BY DEF SealedInv, SealedTyped
<1>2. /\ broken' = TRUE /\ swire' = swire /\ swritten' = swritten /\ method' = method /\ sreader' = sreader
      /\ length' = length /\ sbuf' = sbuf /\ sreceived' = sreceived
  BY <1>1 DEF Sealed!Break, Sealed!WriteFails, Sealed!reading, Sealed!writing, SealedTyped
<1>3. SealedTyped' /\ DataLocked'
  <2>1. CASE Sealed!Break
    BY <2>1, <1>1, <1>2 DEF Sealed!Break, Sealed!writing, SealedTyped, DataLocked
  <2>2. ASSUME NEW w \in Writers, Sealed!WriteFails(w) PROVE SealedTyped' /\ DataLocked'
    <3>1. /\ swriter[w] = "data" /\ swriter' = [swriter EXCEPT ![w] = "idle"] /\ frame' = [frame EXCEPT ![w] = <<>>]
      BY <2>2 DEF Sealed!WriteFails
    <3>2. <<>> \in Seq(Cell)
      OBVIOUS
    <3>3. frame' \in [Writers -> Seq(Cell)]
      BY <3>1, <3>2, <1>1, Changed DEF SealedTyped
    <3>4. swriter' \in [Writers -> {"idle", "data"}] /\ \A v \in Writers : swriter'[v] # "data"
      BY <3>1, <1>1 DEF SealedTyped, DataLocked
    <3> QED
      BY <3>3, <3>4, <1>1, <1>2 DEF SealedTyped, DataLocked
  <2> QED
    BY <2>1, <2>2
<1>4. Continues => Continues'
  BY <1>2 DEF Continues, WholeUpTo, LengthAfter, Coming
<1> QED
  BY <1>1, <1>2, <1>3, <1>4 DEF SealedInv, SealedMoves

\* Read of ssDecryptReader: the rest of the last frame comes first.
LEMMA SealedReadRest ==
  ASSUME Sealed!SealedAssumption, SealedInv, Sealed!ReadRest
  PROVE  SealedInv' /\ SealedMoves
<1>1. /\ SealedTyped /\ DataLocked /\ From(sreceived, 0) /\ From(sbuf, Len(sreceived))
      /\ Len(sreceived) + Len(sbuf) <= swritten
  BY DEF SealedInv
<1>2. /\ sreader = "idle" /\ Sealed!Deliver(sbuf) /\ method' = method /\ swire' = swire /\ broken' = broken
      /\ sreader' = sreader /\ length' = length
      /\ wmu' = wmu /\ swriter' = swriter /\ frame' = frame /\ swritten' = swritten
  BY DEF Sealed!ReadRest, Sealed!writing
<1>3. /\ From(sreceived', 0) /\ From(sbuf', Len(sreceived'))
      /\ Len(sreceived') + Len(sbuf') = Len(sreceived) + Len(sbuf) /\ Begins(sreceived', sreceived)
  BY <1>1, <1>2, SealedDelivers
<1>4. SealedTyped' /\ DataLocked'
  BY <1>1, <1>2 DEF SealedTyped, DataLocked
<1>5. Continues
  BY <1>2 DEF SealedInv
<1>6. Continues'
  BY <1>2, <1>3, <1>5 DEF Continues, WholeUpTo, LengthAfter, Coming
<1> QED
  BY <1>1, <1>2, <1>3, <1>4, <1>6 DEF SealedInv, SealedMoves

\* A frame begins with its length.
LEMMA LengthFirst ==
  ASSUME Sealed!SealedAssumption, NEW m, NEW x \in Seq(Nat), NEW v \in Seq(Cell)
  PROVE  /\ Head(Frame(m, x) \o v) = Announce(m, x) /\ Tail(Frame(m, x) \o v) = Seal(m, x) \o v
         /\ Frame(m, x) \o v # <<>> /\ Frame(m, x) \o v \in Seq(Cell)
<1> DEFINE l == Announce(m, x)
           e == Seal(m, x)
<1>1. l \in Cell /\ <<l>> \in Seq(Cell) /\ e \in Seq(Cell) /\ Frame(m, x) = <<l>> \o e
  BY SealIs DEF Frame
<1> HIDE DEF l, e
<1>2. (<<l>> \o e) \o v = <<l>> \o (e \o v) /\ e \o v \in Seq(Cell)
  BY <1>1, CellsJoined, ConcatProperties
<1>3. /\ Head(<<l>> \o (e \o v)) = l /\ Tail(<<l>> \o (e \o v)) = e \o v
      /\ <<l>> \o (e \o v) # <<>> /\ <<l>> \o (e \o v) \in Seq(Cell)
  BY <1>1, <1>2, FirstCell
<1> QED
  BY <1>1, <1>2, <1>3 DEF l, e

\* What is coming begins with a length.
LEMMA ComingFirst ==
  ASSUME Sealed!SealedAssumption, NEW z \in Seq(Cell), z # <<>>, NEW a \in Nat, NEW b \in Nat,
         WholeUpTo(z, a, b) \/ LengthAfter(z, a, b)
  PROVE  Head(z) \in [len : Nat]
<1>1. ASSUME NEW v \in Seq(Cell), v # <<>>, Sealing(method, v, a, b) PROVE Head(v) \in [len : Nat]
  <2>1. PICK x \in Seq(Nat), y \in Seq(Cell) :
          /\ v = Frame(method, x) \o y /\ From(x, a) /\ a + Len(x) <= b /\ (method = "none" => Len(x) < LenMod)
          /\ Sealing(method, y, a + Len(x), b)
    BY <1>1, SealedTaken
  <2>2. Head(v) = Announce(method, x)
    BY <2>1, LengthFirst
  <2>3. Len(Seal(method, x)) % LenMod \in Nat
    BY SealIs
  <2> HIDE DEF Seal
  <2> QED
    BY <2>2, <2>3 DEF Announce
<1>2. CASE WholeUpTo(z, a, b)
  BY <1>1, <1>2 DEF WholeUpTo
<1>3. CASE LengthAfter(z, a, b)
  <2>1. PICK v \in Seq(Cell), l \in [len : Nat] : z = Append(v, l) /\ Sealing(method, v, a, b)
    BY <1>3 DEF LengthAfter
  <2>2. Head(z) = IF v = <<>> THEN l ELSE Head(v)
    BY <2>1, HeadTailAppend
  <2> QED
    BY <2>1, <2>2, <1>1
<1> QED
  BY <1>2, <1>3

\* Read: the length of a frame.
LEMMA SealedReadLength ==
  ASSUME Sealed!SealedAssumption, SealedInv, Sealed!ReadLength
  PROVE  SealedInv' /\ SealedMoves
<1> DEFINE a == Len(sreceived) + Len(sbuf)
<1>1. /\ SealedTyped /\ DataLocked /\ From(sreceived, 0) /\ From(sbuf, Len(sreceived)) /\ a <= swritten
      /\ swritten \in Nat /\ swire \in Seq(Cell) /\ a \in Nat
  BY LenProperties DEF SealedInv, SealedTyped, From
<1>2. /\ sreader = "idle" /\ sbuf = <<>> /\ swire # <<>> /\ swire' = Tail(swire)
      /\ length' \in (IF Sealed!IsLength(Head(swire)) THEN {Head(swire).len} ELSE 0 .. LenMod - 1)
      /\ sreader' = "data" /\ method' = method /\ broken' = broken /\ sbuf' = sbuf /\ sreceived' = sreceived
      /\ wmu' = wmu /\ swriter' = swriter /\ frame' = frame /\ swritten' = swritten
  BY DEF Sealed!ReadLength, Sealed!writing
<1>3. Continues /\ Coming = swire
  BY <1>2 DEF SealedInv, Coming
<1>4. PICK b \in 0 .. swritten : a <= b /\ (WholeUpTo(Coming, a, b) \/ LengthAfter(Coming, a, b))
  BY <1>3 DEF Continues
<1>5. length' \in Nat /\ Head(swire) = [len |-> length']
  <2>1. Head(swire) \in [len : Nat]
    BY <1>1, <1>2, <1>3, <1>4, ComingFirst
  <2>2. Sealed!IsLength(Head(swire))
    BY <2>1 DEF Sealed!IsLength
  <2> QED
    BY <2>1, <2>2, <1>2
<1>6. swire' \in Seq(Cell) /\ Coming' = Coming
  <2>1. Len(swire) \in Nat \ {0} /\ Head(swire) = swire[1] /\ Tail(swire) \in Seq(Cell)
    BY <1>1, <1>2, EmptySeq, HeadTailProperties
  <2>2. Tail(swire) = SubSeq(swire, 2, Len(swire)) /\ SubSeq(swire, 1, Len(swire)) = swire
    BY <1>1, <1>2, TailIsSubSeq, SubSeqFull
  <2>3. 1 \in 1 .. Len(swire) /\ Len(swire) \in 1 .. Len(swire) /\ 1 + 1 = 2
    BY <2>1
  <2>4. SubSeq(swire, 1, Len(swire)) = <<swire[1]>> \o SubSeq(swire, 1 + 1, Len(swire))
    BY <2>3, <1>1, SubSeqRecursiveFirst
  <2> QED
    BY <2>1, <2>2, <2>3, <2>4, <1>2, <1>3, <1>5 DEF Coming
<1>7. SealedTyped' /\ DataLocked'
  BY <1>1, <1>2, <1>5, <1>6 DEF SealedTyped, DataLocked
<1>8. Continues'
  BY <1>2, <1>3, <1>6 DEF Continues, WholeUpTo, LengthAfter
<1> QED
  BY <1>1, <1>2, <1>7, <1>8 DEF SealedInv, SealedMoves

\* A Read that ends the stream leaves alone what was read.
LEMMA SealedStops ==
  ASSUME SealedInv, sreader' = "done", swire' \in Seq(Cell),
         UNCHANGED <<method, broken, sreceived, sbuf, wmu, swriter, frame, swritten>>
  PROVE  SealedInv' /\ SealedMoves
<1>1. SealedTyped' /\ DataLocked'
  BY DEF SealedInv, SealedTyped, DataLocked
<1>2. swritten \in Nat
  BY DEF SealedInv, SealedTyped
<1> QED
  BY <1>1, <1>2 DEF SealedInv, SealedMoves

\* ReadData with a whole frame in front.
LEMMA SealedOpensFrame ==
  ASSUME Sealed!SealedAssumption, SealedInv, Sealed!ReadData,
         NEW x \in Seq(Nat), NEW v \in Seq(Cell), NEW b \in 0 .. swritten,
         swire = Seal(method, x) \o v, length = Len(Seal(method, x)) % LenMod, method = "none" => Len(x) < LenMod,
         From(x, Len(sreceived)), Len(sreceived) + Len(x) <= b,
         WholeUpTo(v, Len(sreceived) + Len(x), b) \/ LengthAfter(v, Len(sreceived) + Len(x), b)
  PROVE  SealedInv' /\ SealedMoves
<1> DEFINE cells == SubSeq(swire, 1, length)
<1>1. /\ SealedTyped /\ DataLocked /\ From(sreceived, 0) /\ From(sbuf, Len(sreceived))
      /\ Len(sreceived) + Len(sbuf) <= swritten /\ swritten \in Nat /\ swire \in Seq(Cell)
      /\ method \in {"aead", "none"}
  BY DEF SealedInv, SealedTyped
<1>2. /\ sreader = "data" /\ length <= Len(swire) /\ swire' = SubSeq(swire, length + 1, Len(swire))
      /\ method' = method /\ broken' = broken /\ length' = length
      /\ wmu' = wmu /\ swriter' = swriter /\ frame' = frame /\ swritten' = swritten
      /\ IF Sealed!Opens(cells)
         THEN Sealed!Deliver(Sealed!Decrypt(cells)) /\ sreader' = "idle"
         ELSE sreader' = "done" /\ UNCHANGED <<sreceived, sbuf>>
  BY DEF Sealed!ReadData, Sealed!writing
<1> HIDE DEF cells
<1>3. CASE ~Sealed!Opens(cells)
  <2>1. length \in Nat /\ Len(swire) \in Nat
    BY <1>1, <1>2, LenProperties DEF SealedTyped
  <2>2. swire' \in Seq(Cell)
    <3>1. \A i \in length + 1 .. Len(swire) : i \in 1 .. Len(swire)
      BY <2>1
    <3>2. \A i \in length + 1 .. Len(swire) : swire[i] \in Cell
      BY <3>1, <1>1, ElementOfSeq
    <3>3. length + 1 \in Nat
      BY <2>1
    <3>4. SubSeq(swire, length + 1, Len(swire)) \in Seq(Cell)
      BY <2>1, <3>2, <3>3, SubSeqProperties
    <3> QED
      BY <3>4, <1>2
  <2> QED
    BY <2>2, <1>2, <1>3, SealedStops
<1>4. CASE Sealed!Opens(cells)
  <2>1. Sealed!Decrypt(cells) = x /\ swire' = v
    BY <1>1, <1>2, <1>4, OpensWhole DEF cells
  <2>2. Sealed!Deliver(x) /\ sreader' = "idle"
    BY <2>1, <1>2, <1>4
  <2>3. /\ From(sreceived', 0) /\ From(sbuf', Len(sreceived'))
        /\ Len(sreceived') + Len(sbuf') = Len(sreceived) + Len(x) /\ Begins(sreceived', sreceived)
    BY <2>2, <1>1, SealedDelivers
  <2>4. SealedTyped' /\ DataLocked'
    BY <2>1, <2>2, <1>1, <1>2 DEF SealedTyped, DataLocked
  <2>5. Coming' = v
    BY <2>1, <2>2 DEF Coming
  <2>6. Continues'
    <3>1. WholeUpTo(v, Len(sreceived) + Len(x), b) => WholeUpTo(Coming, Len(sreceived) + Len(sbuf), b)'
      BY <2>3, <2>5, <1>2 DEF WholeUpTo
    <3>2. LengthAfter(v, Len(sreceived) + Len(x), b) => LengthAfter(Coming, Len(sreceived) + Len(sbuf), b)'
      BY <2>3, <2>5, <1>2 DEF LengthAfter
    <3> QED
      BY <3>1, <3>2, <2>3, <1>2 DEF Continues
  <2>7. Len(sreceived') + Len(sbuf') <= swritten'
    <3>1. Len(sreceived) \in Nat /\ Len(x) \in Nat
      BY <1>1, LenProperties DEF From
    <3> QED
      BY <3>1, <2>3, <1>1, <1>2
  <2> QED
    BY <2>2, <2>3, <2>4, <2>6, <2>7, <1>2 DEF SealedInv, SealedMoves
<1> QED
  BY <1>3, <1>4

\* Read: as many cells as the length says, opened or refused.
LEMMA SealedReadData ==
  ASSUME Sealed!SealedAssumption, SealedInv, Sealed!ReadData
  PROVE  SealedInv' /\ SealedMoves
<1> DEFINE a == Len(sreceived) + Len(sbuf)
<1>1. /\ SealedTyped /\ DataLocked /\ From(sreceived, 0) /\ From(sbuf, Len(sreceived))
      /\ swritten \in Nat /\ swire \in Seq(Cell) /\ Len(sreceived) \in Nat
  BY LenProperties DEF SealedInv, SealedTyped, From
<1> DEFINE cell == [len |-> length]
<1>2. sreader = "data" /\ length \in Nat /\ cell \in Cell /\ length <= Len(swire) /\ sbuf = <<>>
  BY DEF Sealed!ReadData, SealedInv, SealedTyped, Cell
<1>3. a = Len(sreceived) /\ a \in Nat
  <2>1. Len(sbuf) = 0
    BY <1>2, EmptySeq
  <2> QED
    BY <2>1, <1>1
<1>4. Continues /\ Coming = <<cell>> \o swire
  BY <1>2 DEF SealedInv, Coming
<1>5. PICK b \in 0 .. swritten : a <= b /\ (WholeUpTo(Coming, a, b) \/ LengthAfter(Coming, a, b))
  BY <1>4 DEF Continues
<1>6. Coming \in Seq(Cell) /\ Coming # <<>> /\ Head(Coming) = cell /\ Tail(Coming) = swire
  BY <1>1, <1>2, <1>4, FirstCell
<1>7. b \in Nat
  BY <1>1
<1> HIDE DEF a
<1>8. CASE WholeUpTo(Coming, a, b)
  <2>1. PICK x \in Seq(Nat), v \in Seq(Cell) :
          /\ Coming = Frame(method, x) \o v /\ From(x, a) /\ a + Len(x) <= b /\ (method = "none" => Len(x) < LenMod)
          /\ Sealing(method, v, a + Len(x), b)
    BY <1>3, <1>6, <1>7, <1>8, SealedTaken DEF WholeUpTo
  <2>2. length = Len(Seal(method, x)) % LenMod /\ swire = Seal(method, x) \o v
    <3>1. cell = Announce(method, x) /\ swire = Seal(method, x) \o v
      BY <2>1, <1>6, LengthFirst
    <3> QED
      BY <3>1 DEF Announce
  <2>3. WholeUpTo(v, a + Len(x), b)
    BY <2>1, <1>8 DEF WholeUpTo
  <2> QED
    BY <2>1, <2>2, <2>3, <1>3, SealedOpensFrame
<1>9. CASE LengthAfter(Coming, a, b)
  <2>1. PICK v \in Seq(Cell), l \in Nat :
          /\ Coming = Append(v, [len |-> l]) /\ Sealing(method, v, a, b)
          /\ ~broken => \E w \in Writers : LET x == [i \in 1 .. swritten - b |-> b + i]
                        IN /\ swriter[w] = "data" /\ frame[w] = Seal(method, x) /\ l = Len(Seal(method, x)) % LenMod
                           /\ method = "none" => Len(x) < LenMod
    BY <1>9 DEF LengthAfter
  <2> DEFINE c == [len |-> l]
  <2>2. /\ Head(Append(v, c)) = (IF v = <<>> THEN c ELSE Head(v))
        /\ Tail(Append(v, c)) = (IF v = <<>> THEN <<>> ELSE Append(Tail(v), c))
        /\ c \in Cell /\ Coming = Append(v, c)
    <3>1. c \in Cell /\ Coming = Append(v, c)
      BY <2>1 DEF Cell
    <3> HIDE DEF c
    <3> QED
      BY <3>1, HeadTailAppend
  <2>3. CASE v # <<>>
    <3>1. PICK x \in Seq(Nat), y \in Seq(Cell) :
            /\ v = Frame(method, x) \o y /\ From(x, a) /\ a + Len(x) <= b /\ (method = "none" => Len(x) < LenMod)
            /\ Sealing(method, y, a + Len(x), b)
      BY <2>1, <2>3, <1>3, <1>7, SealedTaken
    <3>2. Head(v) = Announce(method, x) /\ Tail(v) = Seal(method, x) \o y
      BY <3>1, LengthFirst
    <3>3. c \in Cell /\ Seal(method, x) \in Seq(Cell)
      BY <2>2, SealIs
    <3>4. Append(Seal(method, x) \o y, c) = Seal(method, x) \o Append(y, c) /\ Append(y, c) \in Seq(Cell)
      <4> DEFINE e == Seal(method, x)
      <4>1. e \in Seq(Cell)
        BY <3>3
      <4> HIDE DEF e, c
      <4>2. Append(e \o y, c) = e \o Append(y, c)
        BY <4>1, <3>3, CellsAppended
      <4>3. Append(y, c) \in Seq(Cell)
        BY <3>3, CellsAppended
      <4> QED
        BY <4>2, <4>3 DEF e
    <3>5. length = Len(Seal(method, x)) % LenMod /\ swire = Seal(method, x) \o Append(y, c)
      <4>1. cell = Announce(method, x) /\ swire = Append(Seal(method, x) \o y, c)
        BY <2>2, <2>3, <3>2, <1>6
      <4> QED
        BY <4>1, <3>4 DEF Announce
    <3>6. LengthAfter(Append(y, c), a + Len(x), b)
      BY <2>1, <3>1 DEF LengthAfter
    <3> QED
      BY <3>1, <3>4, <3>5, <3>6, <1>3, SealedOpensFrame
  <2>4. CASE v = <<>>
    <3>1. swire = <<>> /\ length = l /\ Len(swire) = 0
      <4>1. swire = <<>> /\ cell = c
        BY <2>2, <2>4, <1>6
      <4> QED
        BY <4>1, EmptySeq
    <3>2. length = 0
      BY <3>1, <1>2
    <3>3. SubSeq(swire, 1, length) = <<>> /\ SubSeq(swire, length + 1, Len(swire)) = <<>>
      BY <3>1, <3>2, SubSeqEmpty
    <3>4. /\ swire' = <<>> /\ method' = method /\ broken' = broken /\ length' = length
          /\ wmu' = wmu /\ swriter' = swriter /\ frame' = frame /\ swritten' = swritten
          /\ IF Sealed!Opens(<<>>)
             THEN Sealed!Deliver(Sealed!Decrypt(<<>>)) /\ sreader' = "idle"
             ELSE sreader' = "done" /\ UNCHANGED <<sreceived, sbuf>>
      BY <3>3 DEF Sealed!ReadData, Sealed!writing
    <3>5. <<>> \in Seq(Cell)
      OBVIOUS
    <3>6. CASE ~Sealed!Opens(<<>>)
      BY <3>4, <3>5, <3>6, SealedStops
    <3>7. CASE Sealed!Opens(<<>>)
      <4>1. method = "none"
        BY <3>7 DEF Sealed!Opens
      <4>2. Sealed!Decrypt(<<>>) = <<>>
        BY <4>1 DEF Sealed!Decrypt
      <4>3. Sealed!Deliver(<<>>) /\ sreader' = "idle"
        BY <4>2, <3>4, <3>7
      <4>4. From(<<>>, Len(sreceived))
        BY DEF From
      <4>5. /\ From(sreceived', 0) /\ From(sbuf', Len(sreceived'))
            /\ Len(sreceived') + Len(sbuf') = Len(sreceived) + Len(<<>>) /\ Begins(sreceived', sreceived)
        BY <4>3, <4>4, <1>1, SealedDelivers
      <4>6. Len(sreceived') + Len(sbuf') = a
        BY <4>5, <1>1, <1>3, EmptySeq
      <4>7. SealedTyped' /\ DataLocked' /\ Coming' = <<>>
        BY <4>3, <3>4, <3>5, <1>1 DEF SealedTyped, DataLocked, Coming
      <4>8. WholeUpTo(<<>>, a, b)
        <5>1. Sealing(method, <<>>, a, b)
          BY <2>1, <2>4
        <5>2. ASSUME ~broken PROVE b = swritten /\ \A w \in Writers : swriter[w] = "data" => frame[w] = <<>>
          <6> DEFINE n == swritten - b
                     x == [i \in 1 .. n |-> b + i]
          <6>1. PICK w \in Writers : swriter[w] = "data" /\ frame[w] = Seal(method, x)
                                     /\ l = Len(Seal(method, x)) % LenMod /\ Len(x) < LenMod
            BY <2>1, <5>2, <4>1
          <6>2. n \in Nat /\ n + b = swritten
            BY <1>1
          <6>3. x \in Seq(Nat) /\ Len(x) = n
            BY <6>2, <1>7, NextBytes DEF From
          <6> HIDE DEF x, n
          <6>4. Seal(method, x) \in Seq(Cell) /\ Len(Seal(method, x)) = Len(x) + 0
            BY <6>3, <4>1, SealIs
          <6>5. n = 0
            <7>1. Len(Seal(method, x)) = n /\ n < LenMod
              BY <6>1, <6>2, <6>3, <6>4
            <7>2. n % LenMod = n
              BY <7>1, <6>2, Remainder DEF Sealed!SealedAssumption
            <7> QED
              BY <7>1, <7>2, <6>1, <3>1, <3>2
          <6>6. frame[w] = <<>>
            BY <6>1, <6>3, <6>4, <6>5, EmptySeq
          <6>7. \A u \in Writers : swriter[u] = "data" => u = w
            BY <6>1, <1>1 DEF DataLocked
          <6> QED
            BY <6>2, <6>5, <6>6, <6>7, <1>7
        <5> QED
          BY <5>1, <5>2 DEF WholeUpTo
      <4>9. WholeUpTo(Coming, Len(sreceived) + Len(sbuf), b)'
        BY <4>6, <4>7, <4>8, <3>4 DEF WholeUpTo
      <4>10. Continues'
        BY <4>6, <4>9, <3>4, <1>5 DEF Continues
      <4>11. Len(sreceived') + Len(sbuf') <= swritten'
        BY <4>6, <3>4, <1>1, <1>3, <1>5, <1>7
      <4> QED
        BY <4>3, <4>5, <4>7, <4>10, <4>11, <3>4 DEF SealedInv, SealedMoves
    <3> QED
      BY <3>6, <3>7
  <2> QED
    BY <2>3, <2>4
<1> QED
  BY <1>5, <1>8, <1>9

\* Every step of a Shadowsocks connection keeps SealedInv, except the one with which "none"
\* sends a length that is cut short.
LEMMA SealedNext ==
  ASSUME Sealed!SealedAssumption, SealedInv, Sealed!Next \/ UNCHANGED sealedVars, ~overlong'
  PROVE  SealedInv' /\ SealedMoves
<1>1. swritten \in Nat /\ swire \in Seq(Cell)
  BY DEF SealedInv, SealedTyped
<1>2. CASE UNCHANGED sealedVars
  <2>1. /\ method' = method /\ wmu' = wmu /\ swriter' = swriter /\ frame' = frame /\ swire' = swire
        /\ broken' = broken /\ sreader' = sreader /\ length' = length /\ sbuf' = sbuf /\ swritten' = swritten
        /\ sreceived' = sreceived
    BY <1>2 DEF sealedVars
  <2>2. Continues => Continues'
    BY <2>1 DEF Continues, WholeUpTo, LengthAfter, Coming
  <2>3. SealedTyped' /\ DataLocked'
    BY <2>1 DEF SealedInv, SealedTyped, DataLocked
  <2> QED
    BY <2>1, <2>2, <2>3, <1>1 DEF SealedInv, SealedMoves
<1>3. CASE Sealed!ReadFails
  <2>1. sreader' = "done" /\ swire' = swire /\ UNCHANGED <<method, broken, sreceived, sbuf, wmu, swriter, frame, swritten>>
    BY <1>3 DEF Sealed!ReadFails, Sealed!writing
  <2> QED
    BY <2>1, <1>1, SealedStops
<1> QED
  BY <1>2, <1>3, SealedLength, SealedData, SealedBroken, SealedReadRest, SealedReadLength, SealedReadData
     DEF Sealed!Next

\* A new Shadowsocks connection: nothing written, read or on its way.
LEMMA SealedStart ==
  ASSUME Sealed!Init
  PROVE  SealedInv
<1>1. <<>> \in Seq(Cell) /\ <<>> \in Seq(Nat) /\ Len(<<>>) = 0 /\ 0 + 0 = 0 /\ 0 <= 0 /\ 0 \in 0 .. 0
  OBVIOUS
<1>2. SealedTyped /\ DataLocked
  BY <1>1 DEF Sealed!Init, SealedTyped, DataLocked
<1>3. From(<<>>, 0)
  BY DEF From
<1>4. Sealing(method, <<>>, 0, 0)
  <2>1. <<>> \in Seq(Seq(Nat))
    OBVIOUS
  <2>2. Framed(<<>>, [k \in 1 .. 1 |-> 0], 0, 0)
    BY <1>1 DEF Framed
  <2>3. Chained(method, <<>>, <<>>, [k \in 1 .. 1 |-> <<>>])
    BY <1>1 DEF Chained
  <2> QED
    BY <2>1, <2>2, <2>3 DEF Sealing, Frames
<1>5. WholeUpTo(Coming, 0, 0)
  BY <1>4 DEF Sealed!Init, WholeUpTo, Coming
<1>6. Continues
  BY <1>1, <1>5 DEF Sealed!Init, Continues
<1> QED
  BY <1>1, <1>2, <1>3, <1>6 DEF Sealed!Init, SealedInv

\* What SealedMoves says is a step of the stream.
LEMMA SealedStreams ==
  ASSUME swritten \in Nat, SealedInv', SealedMoves
  PROVE  Sealed!Stream!Next
<1>3. /\ swritten' \in Nat /\ From(sreceived', 0) /\ From(sbuf', Len(sreceived'))
      /\ Len(sreceived') + Len(sbuf') <= swritten'
  BY DEF SealedInv, SealedTyped
<1>1. CASE sreceived' = sreceived /\ swritten <= swritten'
  <2>1. Begins([i \in 1 .. swritten' |-> i], [i \in 1 .. swritten |-> i])
    BY <1>3, <1>1, WrittenGrows
  <2>2. Sealed!Stream!StartsWith([i \in 1 .. swritten' |-> i], [i \in 1 .. swritten |-> i])
    BY <2>1 DEF Begins, Sealed!Stream!StartsWith
  <2> QED
    BY <2>2, <1>1 DEF Sealed!Stream!Next, Sealed!Stream!Write
<1>2. CASE Begins(sreceived', sreceived) /\ swritten' = swritten
  <2>1. Len(sreceived') \in Nat /\ Len(sbuf') \in Nat
    BY <1>3, LenProperties DEF From
  <2>2. Len(sreceived') <= swritten
    BY <2>1, <1>3, <1>2, NotMore
  <2>3. Begins([i \in 1 .. swritten |-> i], sreceived')
    BY <2>2, <1>3, WrittenBegins
  <2>4. /\ Sealed!Stream!StartsWith([i \in 1 .. swritten |-> i], sreceived')
        /\ Sealed!Stream!StartsWith(sreceived', sreceived)
    BY <2>3, <1>2 DEF Begins, Sealed!Stream!StartsWith
  <2>5. [i \in 1 .. swritten' |-> i] = [i \in 1 .. swritten |-> i]
    BY <1>2
  <2> QED
    BY <2>4, <2>5 DEF Sealed!Stream!Next, Sealed!Stream!Read
<1> QED
  BY <1>1, <1>2 DEF SealedMoves

\* Once "none" has sent a length that is cut short, it has.
LEMMA OverlongStays ==
  ASSUME overlong \in BOOLEAN, Sealed!Next \/ UNCHANGED sealedVars
  PROVE  overlong' \in BOOLEAN /\ (overlong => overlong')
<1>1. CASE UNCHANGED sealedVars
  BY <1>1 DEF sealedVars
<1>2. ASSUME NEW w \in Writers, Sealed!WriteLength(w) PROVE overlong' \in BOOLEAN /\ (overlong => overlong')
  <2>1. PICK n \in Sizes : overlong' = (overlong \/ (method = "none" /\ n >= LenMod))
    BY <1>2 DEF Sealed!WriteLength
  <2> QED
    BY <2>1
<1>3. CASE Sealed!Next /\ ~(\E w \in Writers : Sealed!WriteLength(w))
  BY <1>3 DEF Sealed!Next, Sealed!WriteData, Sealed!WriteFails, Sealed!ReadRest, Sealed!ReadLength,
              Sealed!ReadData, Sealed!ReadFails, Sealed!Break, Sealed!writing
<1> QED
  BY <1>1, <1>2, <1>3

\* The inductive invariant, which says nothing once "none" has sent a length cut short.
UpToOverlong == overlong \in BOOLEAN /\ (~overlong => SealedInv)

\* Shadowsocks: an ssDecryptReader returns the bytes that were given to the Writes of an
\* ssEncryptWriter, whatever the cipher, the sizes and the number of goroutines that write;
\* a sealed Write whose length is cut short ends the stream.  With "none" this holds up to
\* the first Write whose length is cut short, behind which the code misreads the stream.
THEOREM ShadowsocksIsByteStream == MCSpec => Sealed!IsByteStream
<1>1. MCInit => UpToOverlong /\ Sealed!Stream!Init
  <2> SUFFICES ASSUME MCInit PROVE UpToOverlong /\ Sealed!Stream!Init
    OBVIOUS
  <2>1. Sealed!Init
    BY DEF MCInit
  <2>2. Sealed!Stream!Init /\ overlong = FALSE
    BY <2>1 DEF Sealed!Init, Sealed!Stream!Init
  <2> QED
    BY <2>1, <2>2, SealedStart DEF UpToOverlong
<1>2. UpToOverlong /\ [MCNext]_allVars => UpToOverlong' /\ [overlong' \/ Sealed!Stream!Next]_Sealed!vars
  <2> SUFFICES ASSUME UpToOverlong, [MCNext]_allVars
      PROVE UpToOverlong' /\ (overlong' \/ Sealed!Stream!Next)
    OBVIOUS
  <2>1. Sealed!Next \/ UNCHANGED sealedVars
    BY DEF MCNext, allVars
  <2>5. overlong' \in BOOLEAN /\ (overlong => overlong')
    BY <2>1, OverlongStays DEF UpToOverlong
  <2>6. CASE overlong' = TRUE
    BY <2>5, <2>6 DEF UpToOverlong
  <2>7. CASE overlong' = FALSE
    <3>1. SealedInv /\ SealedInv' /\ SealedMoves
      BY <2>1, <2>5, <2>7, SealedNext, StreamsAssumption DEF StreamsAssumption, UpToOverlong
    <3>2. swritten \in Nat
      BY <3>1 DEF SealedInv, SealedTyped
    <3>3. Sealed!Stream!Next
      BY <3>1, <3>2, SealedStreams
    <3> QED
      BY <2>5, <3>1, <3>3 DEF UpToOverlong
  <2> QED
    BY <2>5, <2>6, <2>7
<1> QED
  BY <1>1, <1>2, PTL DEF MCSpec, Sealed!IsByteStream

\* gRPC, Shadowsocks and WebSocket connections implement ByteStream, Shadowsocks with "none"
\* until a Write is too long for its length: the property that the run checks, for any
\* bounds, any number of writers and any sizes.
THEOREM ConnectionsAreByteStreams == MCSpec => IsByteStream
BY GrpcIsByteStream, ShadowsocksIsByteStream, WebSocketIsByteStream DEF IsByteStream
====
