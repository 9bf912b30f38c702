--------------------------- MODULE StreamsProofs ----------------------------
(***************************************************************************)
(* Proofs about the parts that MCStreams composes: MultiLine,              *)
(* QUICListener, DualStackDialer and Buffer, for all values of the         *)
(* constants that satisfy StreamsAssumption.                               *)
(***************************************************************************)
EXTENDS MCStreams, FiniteSets, FiniteSetTheorems, FunctionTheorems, SequenceTheorems, WellFoundedInduction, TLAPS

(***************************************************************************)
(* MultiLine                                                               *)
(***************************************************************************)
\* The least-number principle: every set of numbers has a smallest one.
LEMMA SmallestOf ==
  ASSUME NEW T, T \subseteq Nat, T # {}
  PROVE  \E m \in T : \A k \in T : m <= k
<1>1. PICK x \in T : \A y \in T : ~(<<y, x>> \in OpToRel(<, Nat))
  BY WFMin, NatLessThanWellFounded, Zenon
<1>2. \A y \in T : ~(y < x)
  BY <1>1 DEF OpToRel
<1> QED
  BY <1>2

Entry == [tag : Tags, id : Nat, alive : BOOLEAN, failed : 0 .. 3, late : Nat, twin : BOOLEAN]
Probes == [tag : Tags, id : Nat]

\* removeByTag and setAlive find the first entry of a tag that has one.
LEMMA FirstFound ==
  ASSUME addresses \in Seq(Entry), NEW t
  PROVE  \/ Lines!First(t) = 0 /\ \A i \in DOMAIN addresses : addresses[i].tag # t
         \/ Lines!First(t) \in DOMAIN addresses /\ addresses[Lines!First(t)].tag = t
<1> DEFINE T == {i \in DOMAIN addresses : addresses[i].tag = t}
<1>0. Len(addresses) \in Nat /\ DOMAIN addresses = 1 .. Len(addresses)
  BY LenProperties
<1>1. CASE T = {}
  BY <1>1 DEF Lines!First
<1>2. CASE T # {}
  <2>1. T \subseteq Nat
    BY <1>0
  <2>2. PICK m \in T : \A k \in T : m <= k
    BY <1>2, <2>1, SmallestOf
  <2>3. m \in DOMAIN addresses /\ addresses[m].tag = t /\ \A j \in 1 .. m - 1 : addresses[j].tag # t
    <3>1. ASSUME NEW j \in 1 .. m - 1 PROVE addresses[j].tag # t
      <4>1. j \in DOMAIN addresses /\ ~(m <= j)
        BY <1>0, <2>1
      <4> QED
        BY <2>2, <4>1
    <3> QED
      BY <3>1
  <2>4. Lines!First(t) = CHOOSE i \in DOMAIN addresses :
                           addresses[i].tag = t /\ \A j \in 1 .. i - 1 : addresses[j].tag # t
    BY <2>3 DEF Lines!First
  <2> QED
    BY <2>3, <2>4
<1> QED
  BY <1>1, <1>2

\* removeByTag: the other entries stay.
LEMMA RemoveAtKeeps ==
  ASSUME NEW S, NEW s \in Seq(S), NEW i \in DOMAIN s
  PROVE  /\ Lines!RemoveAt(s, i) \in Seq(S)
         /\ \A k \in DOMAIN Lines!RemoveAt(s, i) :
              /\ k \in Int /\ (IF k < i THEN k ELSE k + 1) \in DOMAIN s
              /\ Lines!RemoveAt(s, i)[k] = s[IF k < i THEN k ELSE k + 1]
         /\ \A j \in DOMAIN s : j # i => \E k \in DOMAIN Lines!RemoveAt(s, i) : Lines!RemoveAt(s, i)[k] = s[j]
<1>1. PICK n \in Nat : n = Len(s)
  BY LenProperties
<1>2. DOMAIN s = 1 .. n /\ i \in 1 .. n /\ i \in Int /\ i - 1 \in Int /\ i + 1 \in Int /\ n \in Int
  BY <1>1, LenProperties
<1>3. \A j \in 1 .. n : s[j] \in S
  BY <1>1, LenProperties
<1> DEFINE a == SubSeq(s, 1, i - 1)
           b == SubSeq(s, i + 1, n)
<1>4. a \in Seq(S) /\ Len(a) = i - 1 /\ \A k \in 1 .. i - 1 : a[k] = s[k]
  <2>1. \A k \in 1 .. i - 1 : s[k] \in S
    BY <1>2, <1>3
  <2>2. PICK m \in Int : m = i - 1
    BY <1>2
  <2>3. /\ SubSeq(s, 1, m) \in Seq(S)
        /\ Len(SubSeq(s, 1, m)) = IF 1 <= m THEN m - 1 + 1 ELSE 0
        /\ \A k \in 1 .. m - 1 + 1 : SubSeq(s, 1, m)[k] = s[1 + k - 1]
    BY <2>1, <2>2, SubSeqProperties
  <2> QED
    BY <1>2, <2>2, <2>3
<1>5. b \in Seq(S) /\ Len(b) = n - i /\ \A k \in 1 .. n - i : b[k] = s[k + i]
  <2>1. \A k \in i + 1 .. n : s[k] \in S
    BY <1>2, <1>3
  <2>2. PICK m \in Int : m = i + 1
    BY <1>2
  <2>3. /\ SubSeq(s, m, n) \in Seq(S)
        /\ Len(SubSeq(s, m, n)) = IF m <= n THEN n - m + 1 ELSE 0
        /\ \A k \in 1 .. n - m + 1 : SubSeq(s, m, n)[k] = s[m + k - 1]
    BY <1>2, <2>1, <2>2, SubSeqProperties
  <2> QED
    BY <1>2, <2>2, <2>3
<1> HIDE DEF a, b
<1> DEFINE r == a \o b
<1>6. Lines!RemoveAt(s, i) = r
  BY <1>1 DEF Lines!RemoveAt, a, b
<1>7. r \in Seq(S) /\ DOMAIN r = 1 .. n - 1 /\ \A k \in 1 .. n - 1 : r[k] = IF k < i THEN s[k] ELSE s[k + 1]
  <2>1. /\ r \in Seq(S) /\ Len(r) = Len(a) + Len(b)
        /\ \A k \in 1 .. Len(a) + Len(b) : r[k] = IF k <= Len(a) THEN a[k] ELSE b[k - Len(a)]
    BY <1>4, <1>5, ConcatProperties, Zenon
  <2>2. Len(a) + Len(b) = n - 1 /\ Len(a) = i - 1
    BY <1>2, <1>4, <1>5
  <2>3. DOMAIN r = 1 .. n - 1
    BY <2>1, <2>2, LenProperties
  <2>4. ASSUME NEW k \in 1 .. n - 1 PROVE r[k] = IF k < i THEN s[k] ELSE s[k + 1]
    <3>1. r[k] = IF k <= i - 1 THEN a[k] ELSE b[k - (i - 1)]
      BY <2>1, <2>2
    <3>2. CASE k < i
      BY <1>2, <1>4, <3>1, <3>2
    <3>3. CASE ~(k < i)
      <4>1. k - (i - 1) \in 1 .. n - i /\ (k - (i - 1)) + i = k + 1 /\ ~(k <= i - 1)
        BY <1>2, <3>3
      <4> QED
        BY <1>5, <3>1, <3>3, <4>1
    <3> QED
      BY <3>2, <3>3
  <2> QED
    BY <2>1, <2>3, <2>4
<1> HIDE DEF r
<1>8. ASSUME NEW k \in 1 .. n - 1
      PROVE  k \in Int /\ (IF k < i THEN k ELSE k + 1) \in 1 .. n /\ r[k] = s[IF k < i THEN k ELSE k + 1]
  BY <1>2, <1>7
<1>9. ASSUME NEW j \in 1 .. n, j # i PROVE \E k \in 1 .. n - 1 : r[k] = s[j]
  <2>1. CASE j < i
    BY <1>2, <1>7, <2>1
  <2>2. CASE j > i
    <3>1. j - 1 \in 1 .. n - 1 /\ ~(j - 1 < i) /\ (j - 1) + 1 = j
      BY <1>2, <2>2
    <3>2. r[j - 1] = s[j]
      BY <1>7, <3>1
    <3> QED
      BY <3>1, <3>2
  <2> QED
    BY <1>2, <1>9, <2>1, <2>2
<1> QED
  BY <1>2, <1>6, <1>7, <1>8, <1>9

\* A function on 1 .. n is a sequence.
LEMMA SeqOf ==
  ASSUME NEW S, NEW n \in Nat, NEW f \in [1 .. n -> S]
  PROVE  f \in Seq(S) /\ DOMAIN f = 1 .. n
BY SeqDef

LinesTyped ==
  /\ lines \subseteq Tags /\ addresses \in Seq(Entry) /\ stats \in [Tags -> (0 .. 3) \union {NoStats}]
  /\ call \in [Callers -> {"idle", "add", "remove"}] /\ tag \in [Callers -> Tags] /\ probeTodo \in Seq(Probes)
  /\ added \in Nat

\* The probes of q for a tag that dial another address than n, and how many of
\* them an entry has still to fear.
Foreign(q, t, n) == {k \in DOMAIN q : q[k].tag = t /\ q[k].id # n}
Outstanding(q, a) == Cardinality(Foreign(q, a.tag, a.id))

\* What an entry of its own tag can be held to account for, when its statistics
\* are s and the probes q are still to come back: those that were under way when
\* it was added have come back, and may be in the statistics, or are to come.
Fair(a, q, s) ==
  /\ ~a.alive => a.failed + a.late >= 3
  /\ Outstanding(q, a) <= a.late
  /\ s # NoStats => s + Outstanding(q, a) <= a.failed + a.late

\* An entry that never shared its tag is the only one of it, and the statistics of
\* the tag, which say when it dies, count no more than they may.
CountedSince ==
  \A i \in DOMAIN addresses : ~addresses[i].twin =>
    /\ \A j \in DOMAIN addresses : addresses[j].tag = addresses[i].tag => j = i
    /\ Fair(addresses[i], probeTodo, stats[addresses[i].tag])

Busy(t) == {c \in Callers : call[c] # "idle" /\ tag[c] = t}
InPool(t) == (\E i \in DOMAIN addresses : addresses[i].tag = t) /\ stats[t] # NoStats

\* Of a tag whose calls did not overlap at most one call is under way, a removal
\* has taken the tag from the table, and a line in the table is in the pool when
\* no call is under way.
CallsAgree ==
  \A t \in Tags \ overlapped :
    /\ \A c, d \in Busy(t) : c = d
    /\ \A c \in Busy(t) : call[c] = "remove" => t \notin lines
    /\ t \in lines => Busy(t) # {} \/ InPool(t)

LinesInv == LinesTyped /\ CountedSince /\ CallsAgree

\* The probes of a sequence are finitely many, and those that a part of its
\* indices holds no more.
LEMMA OutstandingType ==
  ASSUME NEW q \in Seq(Probes), NEW t, NEW n
  PROVE  IsFiniteSet(Foreign(q, t, n)) /\ Cardinality(Foreign(q, t, n)) \in Nat
<1>1. PICK m \in Nat : m = Len(q) /\ DOMAIN q = 1 .. m
  BY LenProperties
<1>2. IsFiniteSet(1 .. m) /\ Foreign(q, t, n) \in SUBSET (1 .. m)
  BY <1>1, FS_Interval DEF Foreign
<1>3. IsFiniteSet(Foreign(q, t, n))
  BY <1>2, FS_Subset
<1> QED
  BY <1>3, FS_CardinalityType

\* A probe that comes back is outstanding no more, whoever was to fear it.
LEMMA OneLess ==
  ASSUME NEW q \in Seq(Probes), q # <<>>, NEW t, NEW n
  PROVE  Cardinality(Foreign(Tail(q), t, n)) =
           IF Head(q).tag = t /\ Head(q).id # n THEN Cardinality(Foreign(q, t, n)) - 1
           ELSE Cardinality(Foreign(q, t, n))
<1>1. PICK m \in Nat : m = Len(q) /\ DOMAIN q = 1 .. m /\ m > 0
  BY LenProperties, EmptySeq
<1>2. PICK r \in Seq(Probes) : r = Tail(q) /\ DOMAIN r = 1 .. m - 1 /\ \A k \in 1 .. m - 1 : r[k] = q[k + 1]
  <2>1. Tail(q) \in Seq(Probes) /\ Len(Tail(q)) = m - 1 /\ \A k \in 1 .. Len(Tail(q)) : Tail(q)[k] = q[k + 1]
    BY <1>1, HeadTailProperties
  <2> QED
    BY <2>1, LenProperties
<1> DEFINE A == Foreign(r, t, n)
           B == Foreign(q, t, n)
           f == [k \in A |-> k + 1]
<1>3. A \subseteq 1 .. m - 1 /\ B \subseteq 1 .. m
  BY <1>1, <1>2 DEF Foreign
<1>4. ASSUME NEW k \in 1 .. m - 1 PROVE k \in A <=> k + 1 \in B
  BY <1>1, <1>2 DEF Foreign
<1> HIDE DEF A, B
<1>5. f \in Bijection(A, B \ {1})
  <2>1. ASSUME NEW k \in A PROVE f[k] = k + 1 /\ k + 1 \in B \ {1} /\ k \in Int
    BY <1>1, <1>3, <1>4
  <2>2. f \in [A -> B \ {1}]
    BY <2>1
  <2>3. \A j, k \in A : f[j] = f[k] => j = k
    BY <2>1
  <2>4. ASSUME NEW l \in B \ {1} PROVE \E k \in A : f[k] = l
    <3>1. l \in 1 .. m /\ l # 1
      BY <1>3
    <3>2. PICK k \in 1 .. m - 1 : l = k + 1
      <4>1. l - 1 \in 1 .. m - 1 /\ l = (l - 1) + 1
        BY <1>1, <3>1
      <4> QED
        BY <4>1
    <3> QED
      BY <1>4, <2>1, <3>2
  <2> QED
    BY <2>2, <2>3, <2>4, Fun_IsBij, Zenon
<1>6. IsFiniteSet(A) /\ IsFiniteSet(B)
  BY OutstandingType DEF A, B
<1>7. ExistsBijection(A, B \ {1})
  BY <1>5, Fun_ExistsBij, Zenon
<1>8. Cardinality(B \ {1}) = Cardinality(A)
  BY <1>6, <1>7, FS_Bijection, Zenon
<1>9. Cardinality(B \ {1}) = IF 1 \in B THEN Cardinality(B) - 1 ELSE Cardinality(B)
  BY <1>6, FS_RemoveElement, Zenon
<1>10. 1 \in B <=> Head(q).tag = t /\ Head(q).id # n
  BY <1>1, HeadTailProperties DEF B, Foreign
<1> QED
  BY <1>2, <1>8, <1>9, <1>10 DEF A, B

\* A call that begins leaves the pool alone.
LEMMA LinesBegin ==
  ASSUME LinesInv, StreamsAssumption, NEW c \in Callers, NEW t \in Tags, NEW what \in {"add", "remove"},
         Lines!Begin(c, what, t), lines' = IF what = "add" THEN lines \union {t} ELSE lines \ {t},
         UNCHANGED <<addresses, stats, added, probeTodo>>
  PROVE  LinesInv'
<1>1. LinesTyped'
  BY DEF LinesInv, LinesTyped, Lines!Begin
<1>2. CountedSince'
  BY DEF LinesInv, CountedSince
<1>3. ASSUME NEW u \in Tags \ overlapped'
      PROVE  /\ \A d, e \in Busy(u)' : d = e
             /\ \A d \in Busy(u)' : call'[d] = "remove" => u \notin lines'
             /\ u \in lines' => Busy(u)' # {} \/ InPool(u)'
  <2>1. u \in Tags \ overlapped /\ (u = t => Busy(t) = {})
    BY <1>3 DEF Lines!Begin, Busy
  <2>2. Busy(u)' = IF u = t THEN {c} ELSE Busy(u)
    BY <2>1 DEF Lines!Begin, Busy, LinesInv, LinesTyped
  <2>3. CASE u = t
    BY <2>2, <2>3 DEF Lines!Begin, LinesInv, LinesTyped
  <2>4. CASE u # t
    <3>1. InPool(u)' = InPool(u) /\ (u \in lines' <=> u \in lines)
      BY <2>4 DEF InPool
    <3>2. \A d \in Busy(u) : call'[d] = call[d]
      BY DEF Busy, Lines!Begin, LinesInv, LinesTyped
    <3> QED
      BY <2>1, <2>2, <2>4, <3>1, <3>2 DEF LinesInv, CallsAgree
  <2> QED
    BY <2>3, <2>4
<1> QED
  BY <1>1, <1>2, <1>3 DEF LinesInv, CallsAgree

\* A call that ends: the tag's own entry and statistics are there or gone, those of
\* the other tags are what they were.
LEMMA LinesEnd ==
  ASSUME LinesInv, NEW c \in Callers, call[c] # "idle", call' = [call EXCEPT ![c] = "idle"],
         UNCHANGED <<lines, tag, overlapped, probeTodo>>, LinesTyped',
         call[c] = "add" => InPool(tag[c])',
         \A u \in Tags : u # tag[c] /\ InPool(u) => InPool(u)'
  PROVE  CallsAgree'
<1>1. ASSUME NEW u \in Tags \ overlapped
      PROVE  /\ \A d, e \in Busy(u)' : d = e
             /\ \A d \in Busy(u)' : call'[d] = "remove" => u \notin lines
             /\ u \in lines => Busy(u)' # {} \/ InPool(u)'
  <2>1. Busy(u)' = Busy(u) \ {c} /\ \A d \in Busy(u)' : call'[d] = call[d]
    BY DEF Busy, LinesInv, LinesTyped
  <2>2. /\ \A d, e \in Busy(u) : d = e
        /\ \A d \in Busy(u) : call[d] = "remove" => u \notin lines
        /\ u \in lines => Busy(u) # {} \/ InPool(u)
    BY <1>1 DEF LinesInv, CallsAgree
  <2>3. CASE u = tag[c]
    <3>1. c \in Busy(u) /\ call[c] \in {"add", "remove"}
      BY <2>3 DEF Busy, LinesInv, LinesTyped
    <3> QED
      BY <2>1, <2>2, <2>3, <3>1
  <2>4. CASE u # tag[c]
    <3>1. c \notin Busy(u)
      BY <2>4 DEF Busy
    <3> QED
      BY <1>1, <2>1, <2>2, <2>4, <3>1
  <2> QED
    BY <2>3, <2>4
<1> QED
  BY <1>1 DEF CallsAgree

LEMMA LinesAdd ==
  ASSUME LinesInv, StreamsAssumption, NEW c \in Callers, Lines!AddAddress(c)
  PROVE  LinesInv'
<1>0. PICK t \in Tags : t = tag[c]
  BY DEF LinesInv, LinesTyped
<1>2. PICK n \in Nat : n = Len(addresses) /\ DOMAIN addresses = 1 .. n
  BY LenProperties DEF LinesInv, LinesTyped
<1>4. \A i \in 1 .. n : addresses[i] \in Entry
  BY <1>2, LenProperties DEF LinesInv, LinesTyped
<1> DEFINE late == Cardinality(Lines!UnderWay(t))
           twin == \E i \in DOMAIN addresses : addresses[i].tag = t
           e == [tag |-> t, id |-> added + 1, alive |-> TRUE, failed |-> 0, late |-> late, twin |-> twin]
           old == [i \in DOMAIN addresses |-> [addresses[i] EXCEPT !.twin = @ \/ addresses[i].tag = t]]
<1>a. /\ IsFiniteSet(Lines!UnderWay(t)) /\ late \in Nat
      /\ Cardinality(Foreign(probeTodo, t, added + 1)) <= late
  <2>1. PICK m \in Nat : m = Len(probeTodo) /\ DOMAIN probeTodo = 1 .. m
    BY LenProperties DEF LinesInv, LinesTyped
  <2>2. IsFiniteSet(1 .. m) /\ Lines!UnderWay(t) \in SUBSET (1 .. m)
    BY <2>1, FS_Interval DEF Lines!UnderWay
  <2>3. IsFiniteSet(Lines!UnderWay(t))
    BY <2>2, FS_Subset
  <2>4. Foreign(probeTodo, t, added + 1) \in SUBSET Lines!UnderWay(t)
    BY DEF Foreign, Lines!UnderWay
  <2> QED
    BY <2>3, <2>4, FS_Subset, FS_CardinalityType, Zenon
<1> HIDE DEF late
<1>b. twin \in BOOLEAN
  OBVIOUS
<1>1. e \in Entry /\ NoStats \notin Nat
  <2>1. added + 1 \in Nat
    BY DEF LinesInv, LinesTyped
  <2> HIDE DEF twin
  <2> QED
    BY <1>a, <1>b, <2>1 DEF Entry, StreamsAssumption, Lines!LinesAssumption
<1>c. ASSUME NEW i \in 1 .. n
      PROVE  /\ old[i] \in Entry /\ old[i].tag = addresses[i].tag /\ old[i].id = addresses[i].id
             /\ old[i].alive = addresses[i].alive /\ old[i].failed = addresses[i].failed
             /\ old[i].late = addresses[i].late
             /\ ~old[i].twin => ~addresses[i].twin /\ addresses[i].tag # t
  <2>1. PICK b \in BOOLEAN : b = (addresses[i].twin \/ addresses[i].tag = t)
    BY Zenon
  <2>2. old[i] = [addresses[i] EXCEPT !.twin = b]
    BY <1>2, <2>1
  <2> HIDE DEF old
  <2> QED
    BY <1>4, <2>1, <2>2 DEF Entry
<1>d. old \in Seq(Entry) /\ Len(old) = n
  <2>1. old \in [1 .. n -> Entry]
    BY <1>2, <1>c
  <2> HIDE DEF old
  <2>2. old \in Seq(Entry) /\ DOMAIN old = 1 .. n
    BY <2>1, SeqOf
  <2> QED
    BY <2>2, LenProperties
<1>3. /\ addresses' \in Seq(Entry) /\ DOMAIN addresses' = 1 .. n + 1
      /\ \A i \in 1 .. n : addresses'[i] = old[i]
      /\ addresses'[n + 1] = e
  <2>1. addresses' = Append(old, e)
    <3>1. addresses' = Lines!WithLine(t)
      BY <1>0 DEF Lines!AddAddress
    <3>2. Lines!WithLine(t) = Append(old, e)
      <4>1. Lines!Cardinality(Lines!UnderWay(t)) = late
        BY Zenon DEF Lines!Cardinality, Cardinality, late
      <4> QED
        BY <4>1, Zenon DEF Lines!WithLine
    <3> QED
      BY <3>1, <3>2, Zenon
  <2> HIDE DEF old, e
  <2> QED
    BY <1>1, <1>d, <2>1, AppendProperties, LenProperties
<1> HIDE DEF old
<1>5. stats' = [stats EXCEPT ![tag[c]] = 0] /\ call' = [call EXCEPT ![c] = "idle"] /\ added' = added + 1
  BY DEF Lines!AddAddress
<1>6. LinesTyped'
  BY <1>1, <1>3, <1>5 DEF LinesInv, LinesTyped, Lines!AddAddress, Lines!probing
<1>7. CountedSince'
  <2>0. probeTodo' = probeTodo /\ probeTodo \in Seq(Probes)
    BY DEF Lines!AddAddress, Lines!probing, LinesInv, LinesTyped
  <2>1. ASSUME NEW i \in 1 .. n + 1, ~addresses'[i].twin
        PROVE  /\ \A j \in 1 .. n + 1 : addresses'[j].tag = addresses'[i].tag => j = i
               /\ Fair(addresses'[i], probeTodo, stats'[addresses'[i].tag])
    <3>1. CASE i = n + 1
      <4>1. addresses'[i] = e /\ ~twin
        BY <1>3, <2>1, <3>1
      <4>2. \A j \in 1 .. n : addresses'[j].tag # t
        BY <1>2, <1>3, <1>c, <4>1
      <4>3. stats'[t] = 0
        BY <1>0, <1>5 DEF LinesInv, LinesTyped
      <4>4. Fair(e, probeTodo, 0)
        <5>1. Outstanding(probeTodo, e) \in Nat /\ Outstanding(probeTodo, e) <= late
          BY <1>a, <2>0, OutstandingType DEF Outstanding
        <5>2. e.alive = TRUE /\ e.failed = 0 /\ e.late = late
          OBVIOUS
        <5> HIDE DEF e
        <5> QED
          BY <1>a, <5>1, <5>2 DEF Fair
      <4> QED
        BY <3>1, <4>1, <4>2, <4>3, <4>4
    <3>2. CASE i \in 1 .. n
      <4>1. /\ addresses'[i] = old[i] /\ ~addresses[i].twin /\ addresses[i].tag # t /\ addresses[i].tag \in Tags
            /\ old[i].tag = addresses[i].tag
        BY <1>3, <1>4, <1>c, <2>1, <3>2 DEF Entry
      <4>2. stats'[addresses[i].tag] = stats[addresses[i].tag]
        BY <1>0, <1>5, <4>1 DEF LinesInv, LinesTyped
      <4>3. /\ \A j \in 1 .. n : addresses[j].tag = addresses[i].tag => j = i
            /\ Fair(addresses[i], probeTodo, stats[addresses[i].tag])
        BY <1>2, <3>2, <4>1 DEF LinesInv, CountedSince
      <4>4. Fair(old[i], probeTodo, stats[addresses[i].tag])
        BY <1>c, <3>2, <4>3 DEF Fair, Outstanding
      <4>5. \A j \in 1 .. n + 1 : addresses'[j].tag = addresses'[i].tag => j = i
        <5>1. addresses'[n + 1].tag = t
          BY <1>3
        <5> QED
          BY <1>3, <1>c, <4>1, <4>3, <5>1
      <4> QED
        BY <4>1, <4>2, <4>4, <4>5
    <3> QED
      BY <3>1, <3>2
  <2> QED
    BY <1>3, <2>0, <2>1 DEF CountedSince
<1>8. InPool(tag[c])'
  <2>1. n + 1 \in DOMAIN addresses' /\ addresses'[n + 1].tag = tag[c] /\ stats'[tag[c]] # NoStats /\ tag' = tag
    BY <1>0, <1>1, <1>3, <1>5 DEF LinesInv, LinesTyped, Lines!AddAddress
  <2> QED
    BY <2>1 DEF InPool
<1>9. ASSUME NEW u \in Tags, u # tag[c], InPool(u) PROVE InPool(u)'
  <2>1. PICK i \in 1 .. n : addresses[i].tag = u
    BY <1>2, <1>9 DEF InPool
  <2>2. i \in DOMAIN addresses' /\ addresses'[i].tag = u
    BY <1>3, <1>c, <2>1
  <2>3. stats'[u] # NoStats
    BY <1>5, <1>9 DEF InPool, LinesInv, LinesTyped
  <2> QED
    BY <2>2, <2>3 DEF InPool
<1>10. CallsAgree'
  <2>1. call[c] = "add" /\ UNCHANGED <<lines, tag, overlapped, probeTodo>>
    BY DEF Lines!AddAddress, Lines!probing
  <2> QED
    BY <1>5, <1>6, <1>8, <1>9, <2>1, LinesEnd
<1> QED
  BY <1>6, <1>7, <1>10 DEF LinesInv

LEMMA LinesRemove ==
  ASSUME LinesInv, StreamsAssumption, NEW c \in Callers, Lines!RemoveAddress(c)
  PROVE  LinesInv'
<1>1. addresses \in Seq(Entry) /\ tag[c] \in Tags /\ NoStats \notin Nat
  BY DEF LinesInv, LinesTyped, StreamsAssumption, Lines!LinesAssumption
<1> DEFINE f == Lines!First(tag[c])
           Was(k) == IF f = 0 \/ k < f THEN k ELSE k + 1
<1>2. /\ addresses' \in Seq(Entry)
      /\ \A k \in DOMAIN addresses' : Was(k) \in DOMAIN addresses /\ addresses'[k] = addresses[Was(k)]
      /\ \A k, l \in DOMAIN addresses' : Was(k) = Was(l) => k = l
      /\ \A j \in DOMAIN addresses : addresses[j].tag # tag[c] =>
           \E k \in DOMAIN addresses' : addresses'[k] = addresses[j]
  <2>1. addresses' = IF Lines!First(tag[c]) = 0 THEN addresses ELSE Lines!RemoveAt(addresses, Lines!First(tag[c]))
    BY DEF Lines!RemoveAddress
  <2>2. CASE Lines!First(tag[c]) = 0
    <3>1. addresses' = addresses /\ \A k : Was(k) = k
      BY <2>1, <2>2
    <3> HIDE DEF Was
    <3> QED
      BY <1>1, <3>1
  <2>3. CASE Lines!First(tag[c]) # 0
    <3>1. PICK i \in DOMAIN addresses : i = Lines!First(tag[c]) /\ addresses[i].tag = tag[c]
      BY <1>1, <2>3, FirstFound
    <3>2. addresses' = Lines!RemoveAt(addresses, i)
      BY <2>1, <2>3, <3>1
    <3>3. /\ Lines!RemoveAt(addresses, i) \in Seq(Entry)
          /\ \A k \in DOMAIN Lines!RemoveAt(addresses, i) :
               /\ k \in Int /\ (IF k < i THEN k ELSE k + 1) \in DOMAIN addresses
               /\ Lines!RemoveAt(addresses, i)[k] = addresses[IF k < i THEN k ELSE k + 1]
          /\ \A j \in DOMAIN addresses : j # i =>
               \E k \in DOMAIN Lines!RemoveAt(addresses, i) : Lines!RemoveAt(addresses, i)[k] = addresses[j]
      BY <1>1, RemoveAtKeeps, Zenon
    <3>4. i \in Int /\ \A k : Was(k) = IF k < i THEN k ELSE k + 1
      BY <1>1, <2>3, <3>1, LenProperties
    <3> HIDE DEF Was, f
    <3>5. \A k, l \in Int : Was(k) = Was(l) => k = l
      BY <3>4
    <3> QED
      BY <3>1, <3>2, <3>3, <3>4, <3>5
  <2> QED
    BY <2>2, <2>3
<1> HIDE DEF Was, f
<1>3. stats' = [stats EXCEPT ![tag[c]] = NoStats] /\ call' = [call EXCEPT ![c] = "idle"]
  BY DEF Lines!RemoveAddress
<1>4. LinesTyped'
  BY <1>1, <1>2, <1>3 DEF LinesInv, LinesTyped, Lines!RemoveAddress, Lines!probing
<1>5. CountedSince'
  <2>0. probeTodo' = probeTodo
    BY DEF Lines!RemoveAddress, Lines!probing
  <2>1. ASSUME NEW k \in DOMAIN addresses', ~addresses'[k].twin
        PROVE  /\ \A l \in DOMAIN addresses' : addresses'[l].tag = addresses'[k].tag => l = k
               /\ Fair(addresses'[k], probeTodo, stats'[addresses'[k].tag])
    <3>1. PICK j \in DOMAIN addresses : j = Was(k) /\ addresses'[k] = addresses[j]
      BY <1>2
    <3>2. PICK u \in Tags : u = addresses[j].tag
      <4>1. addresses[j] \in Entry
        BY <1>1, LenProperties
      <4> QED
        BY <4>1 DEF Entry
    <3>3. stats'[u] = IF u = tag[c] THEN NoStats ELSE stats[u]
      BY <1>3 DEF LinesInv, LinesTyped
    <3>4. /\ \A l \in DOMAIN addresses : addresses[l].tag = u => l = j
          /\ Fair(addresses[j], probeTodo, stats[u])
      BY <2>1, <3>1, <3>2 DEF LinesInv, CountedSince
    <3>5. Fair(addresses[j], probeTodo, stats'[u])
      BY <3>3, <3>4 DEF Fair
    <3>6. \A l \in DOMAIN addresses' : addresses'[l].tag = u => l = k
      BY <1>2, <3>1, <3>4
    <3> QED
      BY <3>1, <3>2, <3>5, <3>6
  <2> QED
    BY <2>0, <2>1 DEF CountedSince
<1>6. ASSUME NEW u \in Tags, u # tag[c], InPool(u) PROVE InPool(u)'
  <2>1. PICK j \in DOMAIN addresses : addresses[j].tag = u
    BY <1>6 DEF InPool
  <2>2. PICK k \in DOMAIN addresses' : addresses'[k] = addresses[j]
    BY <1>2, <1>6, <2>1
  <2>3. stats'[u] # NoStats
    BY <1>3, <1>6 DEF InPool, LinesInv, LinesTyped
  <2> QED
    BY <2>1, <2>2, <2>3 DEF InPool
<1>7. CallsAgree'
  <2>1. call[c] = "remove" /\ UNCHANGED <<lines, tag, overlapped, probeTodo>>
    BY DEF Lines!RemoveAddress, Lines!probing
  <2> QED
    BY <1>3, <1>4, <1>6, <2>1, LinesEnd
<1> QED
  BY <1>4, <1>5, <1>7 DEF LinesInv

\* A probe that has come back changes the entries of one tag in place and leaves
\* the calls alone.
LEMMA LinesProbed ==
  ASSUME LinesInv, StreamsAssumption, NEW t \in Tags, NEW m \in 0 .. 3, stats' = [stats EXCEPT ![t] = m],
         addresses' \in Seq(Entry), DOMAIN addresses' = DOMAIN addresses,
         \A i \in DOMAIN addresses : addresses'[i].tag = addresses[i].tag,
         UNCHANGED <<lines, added, call, tag, overlapped>>, probeTodo' \in Seq(Probes)
  PROVE  LinesTyped' /\ CallsAgree'
<1>1. LinesTyped'
  BY DEF LinesInv, LinesTyped
<1>2. ASSUME NEW u \in Tags, InPool(u) PROVE InPool(u)'
  <2>1. stats'[u] # NoStats
    BY <1>2 DEF InPool, LinesInv, LinesTyped, StreamsAssumption, Lines!LinesAssumption
  <2> QED
    BY <1>2, <2>1 DEF InPool
<1>3. \A u \in Tags : Busy(u)' = Busy(u)
  BY DEF Busy
<1>4. CallsAgree'
  BY <1>2, <1>3 DEF LinesInv, CallsAgree
<1> QED
  BY <1>1, <1>4

\* The probe that has come back leaves what an entry can be held to account for
\* in order: b is the entry a after it, s and z are the statistics of its tag.
LEMMA FairAfter ==
  ASSUME NEW a \in Entry, NEW b \in Entry, NEW q \in Seq(Probes), q # <<>>, NEW s, NEW z,
         s \in (0 .. 3) \union {NoStats}, NoStats \notin Nat, Fair(a, q, s),
         b.tag = a.tag, b.id = a.id, b.late = a.late, b.failed >= a.failed,
         \/ z = s /\ (~b.alive => ~a.alive)
         \/ z = 0 /\ (~b.alive => ~a.alive)
         \/ /\ Head(q).tag = a.tag /\ z = IF s = NoStats THEN 1 ELSE IF s < 3 THEN s + 1 ELSE 3
            /\ b.failed = IF a.id = Head(q).id /\ a.failed < 3 THEN a.failed + 1 ELSE a.failed
            /\ ~b.alive => ~a.alive \/ z >= 3
  PROVE  Fair(b, Tail(q), z)
<1>1. PICK o \in Nat : o = Outstanding(q, a)
  BY OutstandingType DEF Outstanding
<1>2. Outstanding(Tail(q), b) = IF Head(q).tag = a.tag /\ Head(q).id # a.id THEN o - 1 ELSE o
  <2>1. Outstanding(Tail(q), b) = Cardinality(Foreign(Tail(q), a.tag, a.id))
    BY DEF Outstanding
  <2> QED
    BY <1>1, <2>1, OneLess DEF Outstanding
<1>3. PICK l \in Nat : l = a.late /\ l = b.late
  BY DEF Entry
<1>4. PICK m \in 0 .. 3 : m = a.failed
  BY DEF Entry
<1>5. PICK n \in 0 .. 3 : n = b.failed /\ n >= m
  BY <1>4 DEF Entry
<1>6. /\ ~a.alive => m + l >= 3
      /\ o <= l
      /\ s # NoStats => s + o <= m + l
  BY <1>1, <1>3, <1>4 DEF Fair
<1>7. PICK p \in Int : p = Outstanding(Tail(q), b) /\ p <= o
  BY <1>1, <1>2
<1>8. CASE z = s /\ (~b.alive => ~a.alive)
  BY <1>3, <1>5, <1>6, <1>7, <1>8 DEF Fair
<1>9. CASE z = 0 /\ (~b.alive => ~a.alive)
  BY <1>3, <1>5, <1>6, <1>7, <1>9 DEF Fair
<1>10. CASE /\ Head(q).tag = a.tag /\ z = IF s = NoStats THEN 1 ELSE IF s < 3 THEN s + 1 ELSE 3
            /\ b.failed = IF a.id = Head(q).id /\ a.failed < 3 THEN a.failed + 1 ELSE a.failed
            /\ ~b.alive => ~a.alive \/ z >= 3
  <2>1. z \in 1 .. 3 /\ z + p <= n + l
    <3>1. CASE a.id = Head(q).id
      <4>1. p = o /\ n = IF m < 3 THEN m + 1 ELSE m
        BY <1>2, <1>4, <1>5, <1>7, <1>10, <3>1
      <4> QED
        BY <1>6, <1>10, <4>1
    <3>2. CASE a.id # Head(q).id
      <4>1. p = o - 1 /\ n = m
        BY <1>2, <1>4, <1>5, <1>7, <1>10, <3>2
      <4> QED
        BY <1>6, <1>10, <4>1
    <3> QED
      BY <3>1, <3>2
  <2>2. p >= 0
    <3>1. PICK r \in Seq(Probes) : r = Tail(q)
      BY HeadTailProperties
    <3>2. Cardinality(Foreign(r, b.tag, b.id)) \in Nat
      BY OutstandingType
    <3> QED
      BY <1>7, <3>1, <3>2 DEF Outstanding
  <2>3. PICK y \in 1 .. 3 : y = z
    BY <2>1
  <2>5. p <= l /\ y + p <= n + l
    BY <1>6, <1>7, <2>1, <2>3
  <2>4. ~b.alive => n + l >= 3
    <3>1. ~b.alive => ~a.alive \/ y >= 3
      BY <1>10, <2>3
    <3>2. ~a.alive => n + l >= 3
      BY <1>5, <1>6
    <3>3. y >= 3 => n + l >= 3
      BY <2>2, <2>5
    <3> QED
      BY <3>1, <3>2, <3>3
  <2> QED
    BY <1>3, <1>5, <1>7, <2>3, <2>4, <2>5 DEF Fair
<1> QED
  BY <1>8, <1>9, <1>10

LEMMA LinesSucceeds ==
  ASSUME LinesInv, StreamsAssumption, Lines!ProbeSucceeds
  PROVE  LinesInv'
<1>1. PICK n \in Nat : n = Len(addresses) /\ DOMAIN addresses = 1 .. n /\ \A i \in 1 .. n : addresses[i] \in Entry
  BY LenProperties DEF LinesInv, LinesTyped
<1>2. PICK q \in Seq(Probes) : q = probeTodo /\ q # <<>> /\ probeTodo' = Tail(q) /\ Tail(q) \in Seq(Probes)
  BY HeadTailProperties DEF LinesInv, LinesTyped, Lines!ProbeSucceeds
<1>t. PICK t \in Tags : t = Head(q).tag
  <2>1. Head(q) \in Probes
    BY <1>2, HeadTailProperties
  <2> QED
    BY <2>1 DEF Probes
<1>3. stats' = [stats EXCEPT ![t] = 0]
  BY <1>2, <1>t DEF Lines!ProbeSucceeds
<1>4. /\ addresses' \in [1 .. n -> Entry]
      /\ \A i \in 1 .. n : /\ addresses'[i].tag = addresses[i].tag /\ addresses'[i].failed = addresses[i].failed
                           /\ addresses'[i].id = addresses[i].id /\ addresses'[i].late = addresses[i].late
                           /\ addresses'[i].twin = addresses[i].twin
                           /\ ~addresses'[i].alive => ~addresses[i].alive
  <2>1. addresses' = [i \in 1 .. n |->
             IF i = Lines!First(t) THEN [addresses[i] EXCEPT !.alive = TRUE] ELSE addresses[i]]
    BY <1>1, <1>2, <1>t DEF Lines!ProbeSucceeds
  <2> QED
    BY <1>1, <2>1 DEF Entry
<1>5. addresses' \in Seq(Entry) /\ DOMAIN addresses' = 1 .. n
  BY <1>4, SeqOf
<1>6. LinesTyped' /\ CallsAgree'
  <2>1. /\ DOMAIN addresses' = DOMAIN addresses
        /\ \A i \in DOMAIN addresses : addresses'[i].tag = addresses[i].tag
    BY <1>1, <1>4, <1>5
  <2>2. UNCHANGED <<lines, added, call, tag, overlapped>> /\ 0 \in 0 .. 3
    BY DEF Lines!ProbeSucceeds, Lines!callers
  <2> QED
    BY <1>2, <1>3, <1>5, <2>1, <2>2, LinesProbed, Zenon
<1>7. NoStats \notin Nat /\ stats \in [Tags -> (0 .. 3) \union {NoStats}]
  BY DEF StreamsAssumption, Lines!LinesAssumption, LinesInv, LinesTyped
<1>8. ASSUME NEW i \in 1 .. n, ~addresses'[i].twin
      PROVE  /\ \A j \in 1 .. n : addresses'[j].tag = addresses'[i].tag => j = i
             /\ Fair(addresses'[i], Tail(q), stats'[addresses'[i].tag])
  <2>1. PICK a \in Entry : a = addresses[i]
    BY <1>1
  <2>2. PICK b \in Entry : b = addresses'[i]
    BY <1>4
  <2>3. a.tag \in Tags /\ b.failed \in Int /\ b.tag = a.tag /\ b.failed >= a.failed
    BY <1>4, <2>1, <2>2 DEF Entry
  <2>4. PICK z : z = stats'[a.tag] /\ z = IF a.tag = t THEN 0 ELSE stats[a.tag]
    BY <1>3, <1>7, <2>3
  <2>5. PICK s \in (0 .. 3) \union {NoStats} : s = stats[a.tag]
    BY <1>7, <2>3
  <2>6. (\A j \in 1 .. n : addresses[j].tag = a.tag => j = i) /\ Fair(a, q, s)
    BY <1>1, <1>2, <1>4, <1>8, <2>1, <2>5 DEF LinesInv, CountedSince
  <2>7. b.id = a.id /\ b.late = a.late /\ (~b.alive => ~a.alive) /\ (z = s \/ z = 0)
    BY <1>4, <2>1, <2>2, <2>4, <2>5
  <2>8. Fair(b, Tail(q), z)
    BY <1>2, <1>7, <2>3, <2>6, <2>7, FairAfter
  <2> QED
    BY <1>4, <2>1, <2>2, <2>3, <2>4, <2>6, <2>8
<1>9. CountedSince'
  BY <1>2, <1>5, <1>8 DEF CountedSince
<1> QED
  BY <1>6, <1>9 DEF LinesInv

LEMMA LinesFails ==
  ASSUME LinesInv, StreamsAssumption, Lines!ProbeFails
  PROVE  LinesInv'
<1>1. PICK n \in Nat : n = Len(addresses) /\ DOMAIN addresses = 1 .. n /\ \A i \in 1 .. n : addresses[i] \in Entry
  BY LenProperties DEF LinesInv, LinesTyped
<1>2. PICK q \in Seq(Probes) : q = probeTodo /\ q # <<>> /\ probeTodo' = Tail(q) /\ Tail(q) \in Seq(Probes)
  BY HeadTailProperties DEF LinesInv, LinesTyped, Lines!ProbeFails
<1>t. PICK t \in Tags : t = Head(q).tag
  <2>1. Head(q) \in Probes
    BY <1>2, HeadTailProperties
  <2> QED
    BY <2>1 DEF Probes
<1>3. PICK m \in 1 .. 3 : m = Lines!Failures(t)
  BY DEF Lines!Failures, LinesInv, LinesTyped
<1>4. stats' = [stats EXCEPT ![t] = m]
  BY <1>2, <1>3, <1>t DEF Lines!ProbeFails
<1>5. addresses' = [i \in 1 .. n |->
             [addresses[i] EXCEPT !.alive = @ /\ ~(i = Lines!First(t) /\ m >= 3),
                                  !.failed = IF addresses[i].id = Head(q).id /\ @ < 3 THEN @ + 1 ELSE @]]
  BY <1>1, <1>2, <1>3, <1>t DEF Lines!ProbeFails
<1>6. ASSUME NEW i \in 1 .. n
      PROVE  /\ addresses'[i] \in Entry /\ addresses'[i].tag = addresses[i].tag
             /\ addresses'[i].id = addresses[i].id /\ addresses'[i].late = addresses[i].late
             /\ addresses'[i].twin = addresses[i].twin
             /\ addresses'[i].failed = IF addresses[i].id = Head(q).id /\ addresses[i].failed < 3
                                       THEN addresses[i].failed + 1 ELSE addresses[i].failed
             /\ addresses[i].tag # t => (~addresses'[i].alive => ~addresses[i].alive)
             /\ addresses[i].tag = t => (~addresses'[i].alive => ~addresses[i].alive \/ m >= 3)
  <2>1. PICK b \in BOOLEAN : b = (addresses[i].alive /\ ~(i = Lines!First(t) /\ m >= 3))
    BY Zenon
  <2>2. PICK f \in 0 .. 3 : f = IF addresses[i].id = Head(q).id /\ addresses[i].failed < 3
                                THEN addresses[i].failed + 1 ELSE addresses[i].failed
    <3>1. PICK k \in 0 .. 3 : k = addresses[i].failed
      BY <1>1 DEF Entry
    <3> QED
      BY <3>1
  <2>3. addresses'[i] = [addresses[i] EXCEPT !.alive = b, !.failed = f]
    BY <1>5, <2>1, <2>2
  <2>4. addresses[i].tag # t => i # Lines!First(t)
    <3>1. i \in DOMAIN addresses /\ 0 \notin DOMAIN addresses
      BY <1>1
    <3>2. \/ Lines!First(t) = 0
          \/ Lines!First(t) \in DOMAIN addresses /\ addresses[Lines!First(t)].tag = t
      BY FirstFound DEF LinesInv, LinesTyped
    <3> QED
      BY <3>1, <3>2
  <2> QED
    BY <1>1, <2>1, <2>2, <2>3, <2>4 DEF Entry
<1>7. addresses' \in Seq(Entry) /\ DOMAIN addresses' = 1 .. n
  <2>1. addresses' \in [1 .. n -> Entry]
    BY <1>5, <1>6
  <2> QED
    BY <2>1, SeqOf
<1>8. LinesTyped' /\ CallsAgree'
  <2>1. /\ DOMAIN addresses' = DOMAIN addresses
        /\ \A i \in DOMAIN addresses : addresses'[i].tag = addresses[i].tag
    BY <1>1, <1>6, <1>7
  <2>2. UNCHANGED <<lines, added, call, tag, overlapped>>
    BY Zenon DEF Lines!ProbeFails, Lines!callers
  <2>3. m \in 0 .. 3
    OBVIOUS
  <2> QED
    BY <1>2, <1>4, <1>7, <2>1, <2>2, <2>3, LinesProbed, Zenon
<1>9. NoStats \notin Nat /\ stats \in [Tags -> (0 .. 3) \union {NoStats}]
  BY DEF StreamsAssumption, Lines!LinesAssumption, LinesInv, LinesTyped
<1>10. ASSUME NEW i \in 1 .. n, ~addresses'[i].twin
       PROVE  /\ \A j \in 1 .. n : addresses'[j].tag = addresses'[i].tag => j = i
              /\ Fair(addresses'[i], Tail(q), stats'[addresses'[i].tag])
  <2>1. PICK a \in Entry : a = addresses[i]
    BY <1>1
  <2>2. PICK b \in Entry : b = addresses'[i]
    BY <1>6
  <2>3. a.tag \in Tags /\ a.failed \in 0 .. 3 /\ b.failed \in 0 .. 3 /\ b.tag = a.tag /\ b.id = a.id /\ b.late = a.late
    BY <1>6, <2>1, <2>2 DEF Entry
  <2>4. PICK z : z = stats'[a.tag] /\ z = IF a.tag = t THEN m ELSE stats[a.tag]
    BY <1>4, <1>9, <2>3
  <2>5. PICK s \in (0 .. 3) \union {NoStats} : s = stats[a.tag]
    BY <1>9, <2>3
  <2>6. (\A j \in 1 .. n : addresses[j].tag = a.tag => j = i) /\ Fair(a, q, s)
    BY <1>1, <1>2, <1>6, <1>10, <2>1, <2>5 DEF LinesInv, CountedSince
  <2>7. /\ b.failed = IF a.id = Head(q).id /\ a.failed < 3 THEN a.failed + 1 ELSE a.failed
        /\ a.tag # t => (~b.alive => ~a.alive)
        /\ a.tag = t => (~b.alive => ~a.alive \/ m >= 3)
    BY <1>6, <2>1, <2>2
  <2>8. b.failed >= a.failed
    BY <2>3, <2>7
  <2>9. Fair(b, Tail(q), z)
    <3>1. CASE a.tag = t
      <4>1. z = IF s = NoStats THEN 1 ELSE IF s < 3 THEN s + 1 ELSE 3
        BY <1>3, <2>4, <2>5, <3>1 DEF Lines!Failures
      <4>2. Head(q).tag = a.tag /\ (~b.alive => ~a.alive \/ z >= 3)
        BY <1>t, <2>4, <2>7, <3>1
      <4> QED
        BY <1>2, <1>9, <2>3, <2>6, <2>7, <2>8, <4>1, <4>2, FairAfter
    <3>2. CASE a.tag # t
      BY <1>2, <1>9, <2>3, <2>4, <2>5, <2>6, <2>7, <2>8, <3>2, FairAfter
    <3> QED
      BY <3>1, <3>2
  <2> QED
    BY <1>6, <2>1, <2>2, <2>3, <2>4, <2>6, <2>9
<1>11. CountedSince'
  BY <1>2, <1>7, <1>10 DEF CountedSince
<1> QED
  BY <1>8, <1>11 DEF LinesInv

LEMMA LinesNext ==
  ASSUME LinesInv, StreamsAssumption, Lines!Next
  PROVE  LinesInv'
<1>1. ASSUME NEW c \in Callers, NEW t \in Tags, Lines!AddLine(c, t) PROVE LinesInv'
  BY <1>1, LinesBegin DEF Lines!AddLine, Lines!probing
<1>2. ASSUME NEW c \in Callers, NEW t \in Tags, Lines!RemoveLine(c, t) PROVE LinesInv'
  BY <1>2, LinesBegin DEF Lines!RemoveLine, Lines!probing
<1>3. CASE Lines!ProbeAll
  <2>1. PICK n \in Nat : n = Len(addresses) /\ DOMAIN addresses = 1 .. n /\ \A i \in 1 .. n : addresses[i] \in Entry
    BY LenProperties DEF LinesInv, LinesTyped
  <2>2. probeTodo' = [i \in 1 .. n |-> [tag |-> addresses[i].tag, id |-> addresses[i].id]]
    BY <1>3, <2>1 DEF Lines!ProbeAll
  <2>3. probeTodo' \in [1 .. n -> Probes]
    BY <2>1, <2>2 DEF Entry, Probes
  <2>4. probeTodo' \in Seq(Probes) /\ DOMAIN probeTodo' = 1 .. n
    BY <2>3, SeqOf
  <2>5. UNCHANGED <<lines, added, addresses, stats, call, tag, overlapped>>
    BY <1>3 DEF Lines!ProbeAll, Lines!callers
  <2>6. LinesTyped' /\ CallsAgree'
    BY <2>4, <2>5 DEF LinesInv, LinesTyped, CallsAgree, Busy, InPool
  <2>7. ASSUME NEW i \in 1 .. n, ~addresses[i].twin
        PROVE  /\ \A j \in 1 .. n : addresses[j].tag = addresses[i].tag => j = i
               /\ Fair(addresses[i], probeTodo', stats[addresses[i].tag])
    <3>1. PICK a \in Entry : a = addresses[i]
      BY <2>1
    <3>2. /\ \A j \in 1 .. n : addresses[j].tag = a.tag => j = i
          /\ Fair(a, probeTodo, stats[a.tag])
      BY <2>1, <2>7, <3>1 DEF LinesInv, CountedSince
    <3>3. \A k \in 1 .. n : probeTodo'[k].tag = addresses[k].tag /\ probeTodo'[k].id = addresses[k].id
      BY <2>2
    <3>4. Foreign(probeTodo', a.tag, a.id) = {}
      BY <2>4, <3>1, <3>2, <3>3 DEF Foreign
    <3>5. Outstanding(probeTodo', a) = 0
      BY <3>4, FS_EmptySet DEF Outstanding
    <3>6. Outstanding(probeTodo, a) \in Nat
      BY OutstandingType DEF Outstanding, LinesInv, LinesTyped
    <3>7. stats[a.tag] # NoStats => stats[a.tag] \in Nat
      BY <3>1 DEF Entry, LinesInv, LinesTyped
    <3>8. a.failed \in Nat /\ a.late \in Nat
      BY DEF Entry
    <3>9. Fair(a, probeTodo', stats[a.tag])
      BY <3>2, <3>5, <3>6, <3>7, <3>8 DEF Fair
    <3> QED
      BY <3>1, <3>2, <3>9
  <2>8. CountedSince'
    BY <2>1, <2>5, <2>7 DEF CountedSince
  <2> QED
    BY <2>6, <2>8 DEF LinesInv
<1>4. CASE Lines!StartProbing \/ Lines!ProbeAllReturns \/ Lines!Tick \/ Lines!ProberEnds \/ Lines!Stop
  BY <1>4 DEF Lines!StartProbing, Lines!ProbeAllReturns, Lines!Tick, Lines!ProberEnds, Lines!Stop, Lines!callers,
              LinesInv, LinesTyped, CountedSince, CallsAgree, Busy, InPool
<1> QED
  BY <1>1, <1>2, <1>3, <1>4, LinesAdd, LinesRemove, LinesSucceeds, LinesFails DEF Lines!Next, Lines!Probe

\* LinesInv gives the properties.
LEMMA LinesHolds ==
  ASSUME LinesInv
  PROVE  DeadAfterThree /\ LinesDialled
<1>1. DeadAfterThree
  BY DEF DeadAfterThree, Lines!DeadAfterThree, LinesInv, CountedSince, Fair
<1>2. ASSUME \A c \in Callers : call[c] = "idle", NEW t \in lines \ overlapped
      PROVE  Lines!First(t) # 0 /\ stats[t] # NoStats
  <2>1. t \in Tags \ overlapped /\ Busy(t) = {}
    BY <1>2 DEF LinesInv, LinesTyped, Busy
  <2>2. InPool(t)
    BY <1>2, <2>1 DEF LinesInv, CallsAgree
  <2>3. \/ Lines!First(t) = 0 /\ \A i \in DOMAIN addresses : addresses[i].tag # t
        \/ Lines!First(t) \in DOMAIN addresses /\ addresses[Lines!First(t)].tag = t
    BY FirstFound DEF LinesInv, LinesTyped
  <2>4. 0 \notin DOMAIN addresses
    BY LenProperties DEF LinesInv, LinesTyped
  <2> QED
    BY <2>2, <2>3, <2>4 DEF InPool
<1> QED
  BY <1>1, <1>2 DEF LinesDialled, Lines!LinesDialled

(***************************************************************************)
(* Queues without duplicates                                               *)
(***************************************************************************)
Elements(q) == {q[i] : i \in DOMAIN q}
Distinct(q) == \A i, j \in DOMAIN q : q[i] = q[j] => i = j

\* What is sent into a channel that does not hold it is in it once.
LEMMA DistinctAppend ==
  ASSUME NEW S, NEW q \in Seq(S), NEW e \in S, Distinct(q), e \notin Elements(q)
  PROVE  /\ Append(q, e) \in Seq(S) /\ Distinct(Append(q, e))
         /\ Elements(Append(q, e)) = Elements(q) \union {e}
<1>1. PICK n \in Nat : n = Len(q) /\ DOMAIN q = 1 .. n
  BY LenProperties
<1>2. PICK r \in Seq(S) : r = Append(q, e)
  BY AppendProperties
<1>3. DOMAIN r = 1 .. n + 1 /\ (\A i \in 1 .. n : r[i] = q[i]) /\ r[n + 1] = e
  BY <1>1, <1>2, AppendProperties, LenProperties
<1>4. \A i \in 1 .. n : q[i] # e
  BY <1>1 DEF Elements
<1>5. ASSUME NEW i \in 1 .. n + 1, NEW j \in 1 .. n + 1, r[i] = r[j] PROVE i = j
  <2>1. CASE i \in 1 .. n /\ j \in 1 .. n
    BY <1>1, <1>3, <1>5, <2>1 DEF Distinct
  <2>2. CASE ~(i \in 1 .. n /\ j \in 1 .. n)
    BY <1>3, <1>4, <1>5, <2>2
  <2> QED
    BY <2>1, <2>2
<1>6. Elements(r) = Elements(q) \union {e}
  <2>1. ASSUME NEW x \in Elements(r) PROVE x \in Elements(q) \union {e}
    <3>1. PICK i \in 1 .. n + 1 : x = r[i]
      BY <1>3, <2>1 DEF Elements
    <3>2. i \in 1 .. n \/ i = n + 1
      OBVIOUS
    <3> QED
      BY <1>1, <1>3, <3>1, <3>2 DEF Elements
  <2>2. ASSUME NEW x \in Elements(q) PROVE x \in Elements(r)
    <3>1. PICK i \in 1 .. n : x = q[i]
      BY <1>1, <2>2 DEF Elements
    <3>2. i \in DOMAIN r /\ x = r[i]
      BY <1>3, <3>1
    <3> QED
      BY <3>2 DEF Elements
  <2>3. e \in Elements(r)
    <3>1. n + 1 \in DOMAIN r /\ e = r[n + 1]
      BY <1>3
    <3> QED
      BY <3>1 DEF Elements
  <2> QED
    BY <2>1, <2>2, <2>3
<1> QED
  BY <1>2, <1>3, <1>5, <1>6 DEF Distinct

\* What is received from a channel is not in it any more.
LEMMA DistinctTail ==
  ASSUME NEW S, NEW q \in Seq(S), q # <<>>, Distinct(q)
  PROVE  /\ Tail(q) \in Seq(S) /\ Distinct(Tail(q)) /\ Head(q) \in S
         /\ Head(q) \in Elements(q) /\ Elements(Tail(q)) = Elements(q) \ {Head(q)}
<1>1. PICK n \in Nat : n = Len(q) /\ DOMAIN q = 1 .. n /\ n > 0
  BY LenProperties, EmptySeq
<1>2. PICK r \in Seq(S) : r = Tail(q)
  BY HeadTailProperties
<1>3. DOMAIN r = 1 .. n - 1 /\ \A i \in 1 .. n - 1 : r[i] = q[i + 1]
  BY <1>1, <1>2, HeadTailProperties, LenProperties
<1>4. Head(q) = q[1] /\ Head(q) \in S /\ 1 \in 1 .. n
  BY <1>1, HeadTailProperties
<1>5. ASSUME NEW i \in 1 .. n - 1, NEW j \in 1 .. n - 1, r[i] = r[j] PROVE i = j
  <2>1. i + 1 \in 1 .. n /\ j + 1 \in 1 .. n /\ q[i + 1] = q[j + 1]
    BY <1>1, <1>3, <1>5
  <2>2. i + 1 = j + 1
    BY <1>1, <2>1 DEF Distinct
  <2> QED
    BY <2>2
<1>6. ASSUME NEW x \in Elements(r) PROVE x \in Elements(q) \ {q[1]}
  <2>1. PICK i \in 1 .. n - 1 : x = q[i + 1]
    BY <1>3, <1>6 DEF Elements
  <2>2. i + 1 \in 1 .. n /\ i + 1 # 1
    BY <1>1
  <2>3. q[i + 1] # q[1]
    BY <1>1, <1>4, <2>2 DEF Distinct
  <2> QED
    BY <1>1, <2>1, <2>2, <2>3 DEF Elements
<1>7. ASSUME NEW x \in Elements(q) \ {q[1]} PROVE x \in Elements(r)
  <2>1. PICK i \in 1 .. n : x = q[i] /\ i # 1
    BY <1>1, <1>7 DEF Elements
  <2>2. i - 1 \in 1 .. n - 1 /\ (i - 1) + 1 = i
    BY <1>1, <2>1
  <2>3. r[i - 1] = x
    BY <1>3, <2>1, <2>2
  <2> QED
    BY <1>3, <2>2, <2>3 DEF Elements
<1>8. q[1] \in Elements(q)
  BY <1>1, <1>4 DEF Elements
<1> QED
  BY <1>2, <1>3, <1>4, <1>5, <1>6, <1>7, <1>8 DEF Distinct

(***************************************************************************)
(* QUICListener                                                            *)
(***************************************************************************)
QuicTyped ==
  /\ acceptCh \in Seq(Quic!Streams)
  /\ stream \in [Quic!Streams -> {"none", "open", "queued", "owned", "closed"}]
  /\ owner \in [Quic!Streams -> Callers \union {Quic!Nobody}]

\* Where a stream is, by its state; only one that is closed may be anywhere.
StreamPlaced ==
  \A s \in Quic!Streams :
    /\ s \in Elements(acceptCh) => owner[s] = Quic!Nobody /\ stream[s] \in {"queued", "closed"}
    /\ stream[s] \in {"none", "open"} => owner[s] = Quic!Nobody
    /\ stream[s] = "queued" => s \in Elements(acceptCh)
    /\ stream[s] = "owned" => owner[s] # Quic!Nobody

QuicInv == QuicTyped /\ Distinct(acceptCh) /\ StreamPlaced

\* Closing a connection closes its streams where they are.
LEMMA QuicCloseConn ==
  ASSUME QuicInv, NEW c, Quic!CloseConn(c)
  PROVE  QuicInv'
<1>1. acceptCh' = acceptCh /\ owner' = owner
  BY DEF Quic!CloseConn
<1>2. stream' = [s \in Quic!Streams |-> IF s \in StreamsOf[c] /\ stream[s] # "none" THEN "closed" ELSE stream[s]]
  BY DEF Quic!CloseConn
<1> QED
  BY <1>1, <1>2 DEF QuicInv, QuicTyped, StreamPlaced, Elements, Distinct

LEMMA QuicHandle ==
  ASSUME QuicInv, NEW s \in Quic!Streams, Quic!HandleStream(s)
  PROVE  QuicInv'
<1>1. stream[s] = "open" /\ owner' = owner /\ owner[s] = Quic!Nobody /\ s \notin Elements(acceptCh)
  BY DEF Quic!HandleStream, QuicInv, StreamPlaced
<1>2. CASE Len(acceptCh) < QueueSize
  <2>1. acceptCh' = Append(acceptCh, s) /\ stream' = [stream EXCEPT ![s] = "queued"]
    BY <1>2 DEF Quic!HandleStream
  <2>2. acceptCh' \in Seq(Quic!Streams) /\ Distinct(acceptCh') /\ Elements(acceptCh') = Elements(acceptCh) \union {s}
    BY <1>1, <2>1, DistinctAppend DEF QuicInv, QuicTyped
  <2>3. Distinct(acceptCh)' /\ QuicTyped'
    BY <1>1, <2>1, <2>2 DEF QuicInv, QuicTyped, Distinct
  <2>4. Elements(acceptCh)' = Elements(acceptCh) \union {s}
    BY <2>2 DEF Elements
  <2> QED
    BY <1>1, <2>1, <2>3, <2>4 DEF QuicInv, QuicTyped, StreamPlaced
<1>3. CASE ~(Len(acceptCh) < QueueSize)
  BY <1>1, <1>3 DEF Quic!HandleStream, QuicInv, QuicTyped, StreamPlaced, Elements, Distinct
<1> QED
  BY <1>2, <1>3

LEMMA QuicAccept ==
  ASSUME QuicInv, StreamsAssumption, NEW a \in Callers, Quic!Accept(a)
  PROVE  QuicInv'
<1>1. PICK s \in Quic!Streams : s = Head(acceptCh) /\ s \in Elements(acceptCh)
  BY DistinctTail DEF Quic!Accept, QuicInv, QuicTyped
<1>2. acceptCh' \in Seq(Quic!Streams) /\ Distinct(acceptCh') /\ Elements(acceptCh') = Elements(acceptCh) \ {s}
  BY <1>1, DistinctTail DEF Quic!Accept, QuicInv, QuicTyped
<1>3. owner' = [owner EXCEPT ![s] = a] /\ stream' = [stream EXCEPT ![s] = IF @ = "queued" THEN "owned" ELSE @]
  BY <1>1 DEF Quic!Accept
<1>4. QuicTyped'
  BY <1>2, <1>3 DEF QuicInv, QuicTyped
<1>5. Distinct(acceptCh)' /\ Elements(acceptCh)' = Elements(acceptCh) \ {s}
  BY <1>2 DEF Distinct, Elements
<1>6. stream[s] \in {"queued", "closed"} /\ a # Quic!Nobody
  BY <1>1 DEF QuicInv, StreamPlaced, StreamsAssumption, Quic!ListenerAssumption, Quic!Nobody
<1>7. StreamPlaced'
  BY <1>3, <1>5, <1>6 DEF QuicInv, QuicTyped, StreamPlaced
<1> QED
  BY <1>4, <1>5, <1>7 DEF QuicInv

LEMMA QuicNext ==
  ASSUME QuicInv, StreamsAssumption, Quic!Next
  PROVE  QuicInv'
<1>1. ASSUME NEW s \in Quic!Streams, Quic!OpenStream(s) PROVE QuicInv'
  <2>1. acceptCh' = acceptCh /\ owner' = owner /\ stream[s] = "none" /\ stream' = [stream EXCEPT ![s] = "open"]
    BY <1>1 DEF Quic!OpenStream
  <2> QED
    BY <2>1 DEF QuicInv, QuicTyped, StreamPlaced, Elements, Distinct
<1>2. ASSUME UNCHANGED <<acceptCh, stream, owner>> PROVE QuicInv'
  BY <1>2 DEF QuicInv, QuicTyped, StreamPlaced, Elements, Distinct
<1>3. ASSUME NEW c \in Conns, Quic!Connect(c) \/ Quic!HandlerEnds(c) PROVE UNCHANGED <<acceptCh, stream, owner>>
  BY <1>3 DEF Quic!Connect, Quic!HandlerEnds
<1>4. ASSUME NEW a \in Callers, Quic!CallAccept(a) \/ Quic!AcceptDone(a) PROVE UNCHANGED <<acceptCh, stream, owner>>
  BY <1>4 DEF Quic!CallAccept, Quic!AcceptDone
<1>5. CASE Quic!AcceptLoopEnds \/ Quic!CloseDone \/ Quic!CloseListener
  BY <1>2, <1>5 DEF Quic!AcceptLoopEnds, Quic!CloseDone, Quic!CloseListener
<1>6. ASSUME NEW c \in Conns, Quic!PeerCloses(c) PROVE QuicInv'
  BY <1>6, QuicCloseConn DEF Quic!PeerCloses
<1>7. ASSUME NEW s \in Quic!Streams, Quic!Close(s) PROVE QuicInv'
  BY <1>7, QuicCloseConn DEF Quic!Close
<1> QED
  BY <1>1, <1>2, <1>3, <1>4, <1>5, <1>6, <1>7, QuicHandle, QuicAccept DEF Quic!Next

\* QuicInv gives the property.
LEMMA QuicHolds ==
  ASSUME QuicInv
  PROVE  NoneForgotten
<1>1. Quic!ToSet(acceptCh) = Elements(acceptCh) /\ Quic!IsInjective(acceptCh)
  BY DEF Quic!ToSet, Quic!IsInjective, Elements, Distinct, QuicInv
<1> QED
  BY <1>1 DEF NoneForgotten, Quic!NoneForgotten, QuicInv, QuicTyped, StreamPlaced

(***************************************************************************)
(* DualStackDialer                                                         *)
(***************************************************************************)
DialerTyped ==
  /\ preference \in {"IPv4Only", "IPv6Only", "PreferIPv4", "PreferIPv6", "DualStack"}
  /\ dialLines \subseteq DialTags /\ alive \in [DialTags -> BOOLEAN] /\ steady \in BOOLEAN
  /\ dialPc \in {"start", "first", "launch", "count", "collect", "returned"}
  /\ resultCh \in Seq(Dialer!Targets) /\ left \in Nat
  /\ firstConn \in Dialer!Targets \union {None} /\ firstErr \in BOOLEAN /\ ctx \in {"live", "givenUp", "cancelled"}
  /\ dial \in [Dialer!Targets -> {"none", "dialing", "send", "done"}]
  /\ dialConn \in [Dialer!Targets -> {"none", "open", "closed"}]

\* The dials of which a result is still to be received.
Pending == {d \in Dialer!Targets : dial[d] \in {"dialing", "send"} \/ d \in Elements(resultCh)}

\* A result is in the channel once, after its dial, and the connection that was
\* kept is open and not in the channel; no other was taken while none is kept.
ResultsKept ==
  /\ Distinct(resultCh) /\ \A d \in Elements(resultCh) : dial[d] = "done"
  /\ \A d \in Dialer!Targets : dial[d] \in {"none", "dialing"} => dialConn[d] = "none"
  /\ firstConn # None => dial[firstConn] = "done" /\ dialConn[firstConn] = "open" /\ firstConn \notin Elements(resultCh)
  /\ firstConn = None =>
       /\ ctx # "cancelled" \/ dialPc = "returned"
       /\ \A d \in Dialer!Targets : /\ dialConn[d] # "closed"
                                    /\ dial[d] = "done" => d \in Elements(resultCh) \/ dialConn[d] = "none"

\* A preference: every address that may be used is still to be tried or refused.
TriedInTurn ==
  dialPc = "first" =>
    /\ firstConn = None /\ resultCh = <<>> /\ dialTodo \in Seq(SUBSET Dialer!Resolved) /\ dialTodo # <<>>
    /\ \A d \in Dialer!Targets : dial[d] \in {"none", "done"}
    /\ preference # "DualStack"
    /\ \A d \in Dialer!Usable : d \in Dialer!Refused \/ \E i \in DOMAIN dialTodo : d \in dialTodo[i]

\* No preference: as many results are waited for as there are to come.
Waits ==
  /\ dialPc = "start" => firstConn = None /\ resultCh = <<>> /\ \A d \in Dialer!Targets : dial[d] = "none"
  /\ dialPc \in {"start", "launch", "count"} /\ steady => \A t \in dialLines : alive[t]
  /\ dialPc \in {"launch", "count"} => firstConn = None /\ (steady => Dialer!Resolved \union dialLines # {})
  /\ dialPc \in {"launch", "count", "collect"} =>
       preference = "DualStack" /\ \A d \in Dialer!Resolved : dial[d] # "none"
  /\ dialPc = "launch" => Pending = Dialer!Resolved
  /\ dialPc = "count" /\ steady => Pending = Dialer!Resolved \union dialLines
  /\ dialPc = "collect" /\ steady => IsFiniteSet(Pending) /\ left = Cardinality(Pending)
  /\ dialPc = "collect" /\ (steady \/ Dialer!Resolved # {}) /\ firstConn = None /\ ~firstErr => left > 0

DialerInv == DialerTyped /\ ResultsKept /\ TriedInTurn /\ Waits /\ ConnOrError

\* The lines change: only a dial that has counted them goes on being steady.
LEMMA DialerPool ==
  ASSUME DialerInv, NEW t \in DialTags, Dialer!AddAddress(t) \/ Dialer!RemoveAddress(t) \/ Dialer!ProbeAddr(t)
  PROVE  DialerInv'
<1>1. UNCHANGED <<preference, failover, dialPc, dialTodo, resultCh, left, firstConn, firstErr, ctx, dial, dialConn>>
  BY DEF Dialer!AddAddress, Dialer!RemoveAddress, Dialer!ProbeAddr, Dialer!config, Dialer!caller
<1>2. dialLines' \subseteq DialTags /\ alive' \in [DialTags -> BOOLEAN]
  <2>1. CASE Dialer!AddAddress(t)
    BY <2>1 DEF Dialer!AddAddress, DialerInv, DialerTyped
  <2>2. CASE Dialer!RemoveAddress(t)
    BY <2>2 DEF Dialer!RemoveAddress, DialerInv, DialerTyped
  <2>3. CASE Dialer!ProbeAddr(t)
    BY <2>3 DEF Dialer!ProbeAddr, DialerInv, DialerTyped
  <2> QED
    BY <2>1, <2>2, <2>3
<1>3. /\ steady' \in BOOLEAN
      /\ steady' => steady
      /\ steady' => \/ dialPc \in {"collect", "returned"}
                    \/ dialLines' = dialLines /\ \A l \in DialTags : alive[l] => alive'[l]
  <2>1. CASE Dialer!AddAddress(t)
    BY <2>1, Zenon DEF Dialer!AddAddress, Dialer!Unsettle
  <2>2. CASE Dialer!RemoveAddress(t)
    BY <2>2, Zenon DEF Dialer!RemoveAddress, Dialer!Unsettle
  <2>3. CASE Dialer!ProbeAddr(t)
    <3>1. CASE alive'[t]
      <4>1. steady' = steady /\ dialLines' = dialLines /\ alive' = [alive EXCEPT ![t] = ~@]
        BY <2>3, <3>1, Zenon DEF Dialer!ProbeAddr
      <4>2. \A l \in DialTags : alive[l] => alive'[l]
        BY <3>1, <4>1 DEF DialerInv, DialerTyped
      <4> QED
        BY <4>1, <4>2 DEF DialerInv, DialerTyped
    <3>2. CASE ~alive'[t]
      BY <2>3, <3>2, Zenon DEF Dialer!ProbeAddr, Dialer!Unsettle
    <3> QED
      BY <3>1, <3>2
  <2> QED
    BY <2>1, <2>2, <2>3
<1>4. DialerTyped'
  BY <1>1, <1>2, <1>3, Zenon DEF DialerInv, DialerTyped
<1>5. Pending' = Pending /\ Dialer!Usable' = Dialer!Usable /\ Dialer!Refused' = Dialer!Refused
  BY <1>1 DEF Pending, Elements, Dialer!Usable, Dialer!Families, Dialer!InTurn, Dialer!Refused
<1>6. ResultsKept'
  BY <1>1 DEF DialerInv, ResultsKept, Elements, Distinct
<1>7. TriedInTurn'
  BY <1>1, <1>5 DEF DialerInv, TriedInTurn
<1>8. Waits'
  BY <1>1, <1>2, <1>3, <1>5 DEF DialerInv, DialerTyped, Waits
<1>9. ConnOrError'
  BY <1>1, <1>3, <1>5 DEF DialerInv, ConnOrError, Dialer!ConnOrError
<1> QED
  BY <1>4, <1>6, <1>7, <1>8, <1>9 DEF DialerInv

\* A dial that comes back or sends its result stays pending.
LEMMA DialerStep ==
  ASSUME DialerInv, StreamsAssumption, NEW d \in Dialer!Targets, Dialer!DialStep(d)
  PROVE  DialerInv'
<1>1. UNCHANGED <<preference, failover, dialLines, alive, steady, dialPc, dialTodo, left, firstConn, firstErr, ctx>>
  BY DEF Dialer!DialStep, Dialer!Connect, Dialer!Refuse, Dialer!Send, Dialer!config, Dialer!pool, Dialer!caller
<1>2. dial[d] \in {"dialing", "send"} /\ d \notin Elements(resultCh) /\ firstConn # d
  <2>1. dial[d] \in {"dialing", "send"}
    BY DEF Dialer!DialStep, Dialer!Connect, Dialer!Refuse, Dialer!Send
  <2>2. d # None => firstConn # d
    BY <2>1 DEF DialerInv, ResultsKept
  <2>3. d \notin Elements(resultCh)
    BY <2>1 DEF DialerInv, ResultsKept
  <2>4. d # None
    BY DEF StreamsAssumption, Dialer!DialerAssumption, Dialer!Targets, Dialer!Resolved
  <2> QED
    BY <2>1, <2>2, <2>3, <2>4
<1>3. /\ dial' \in [Dialer!Targets -> {"none", "dialing", "send", "done"}]
      /\ dialConn' \in [Dialer!Targets -> {"none", "open", "closed"}]
      /\ \A e \in Dialer!Targets : e # d => dial'[e] = dial[e] /\ dialConn'[e] = dialConn[e]
  BY DEF Dialer!DialStep, Dialer!Connect, Dialer!Refuse, Dialer!Send, DialerInv, DialerTyped
<1>4. \/ /\ dial[d] = "dialing" /\ dial'[d] = "send" /\ dialConn'[d] \in {"open", dialConn[d]} /\ resultCh' = resultCh
      \/ /\ dial[d] = "send" /\ dial'[d] = "done" /\ dialConn'[d] = dialConn[d] /\ resultCh' = Append(resultCh, d)
  BY DEF Dialer!DialStep, Dialer!Connect, Dialer!Refuse, Dialer!Send, Dialer!caller, DialerInv, DialerTyped
<1>5. /\ resultCh' \in Seq(Dialer!Targets) /\ Distinct(resultCh')
      /\ Elements(resultCh') = IF dial'[d] = "done" THEN Elements(resultCh) \union {d} ELSE Elements(resultCh)
  <2>1. CASE resultCh' = resultCh /\ dial'[d] = "send"
    BY <2>1 DEF DialerInv, DialerTyped, ResultsKept
  <2>2. CASE resultCh' = Append(resultCh, d) /\ dial'[d] = "done"
    BY <1>2, <2>2, DistinctAppend DEF DialerInv, DialerTyped, ResultsKept
  <2> QED
    BY <1>4, <2>1, <2>2
<1>6. DialerTyped'
  BY <1>1, <1>3, <1>5 DEF DialerInv, DialerTyped
<1>7. Distinct(resultCh)' /\ Elements(resultCh)' = Elements(resultCh')
  BY <1>5 DEF Distinct, Elements
<1>8. Pending' = Pending
  BY <1>2, <1>3, <1>4, <1>5, <1>7 DEF Pending
<1>9. ResultsKept'
  <2>1. ASSUME NEW e \in Elements(resultCh') PROVE dial'[e] = "done"
    <3>1. e \in Elements(resultCh) => e \in Dialer!Targets /\ dial[e] = "done"
      BY DEF DialerInv, ResultsKept, DialerTyped, Elements
    <3> QED
      BY <1>2, <1>3, <1>4, <1>5, <3>1
  <2>2. \A e \in Dialer!Targets : dial'[e] \in {"none", "dialing"} => dialConn'[e] = "none"
    BY <1>3, <1>4 DEF DialerInv, ResultsKept
  <2>3. firstConn # None => dial'[firstConn] = "done" /\ dialConn'[firstConn] = "open" /\ firstConn \notin Elements(resultCh)'
    BY <1>2, <1>3, <1>5, <1>7 DEF DialerInv, ResultsKept, DialerTyped
  <2>4. ASSUME firstConn = None, NEW e \in Dialer!Targets
        PROVE  /\ dialConn'[e] # "closed"
               /\ dial'[e] = "done" => e \in Elements(resultCh)' \/ dialConn'[e] = "none"
    BY <1>3, <1>4, <1>5, <1>7, <2>4 DEF DialerInv, ResultsKept
  <2> QED
    BY <1>1, <1>7, <2>1, <2>2, <2>3, <2>4 DEF DialerInv, ResultsKept
<1>10. dialPc # "first" /\ dialPc # "start"
  BY <1>2 DEF DialerInv, TriedInTurn, Waits
<1>11. TriedInTurn'
  BY <1>1, <1>10 DEF TriedInTurn
<1>12. Waits'
  <2>1. \A e \in Dialer!Resolved : e \in Dialer!Targets /\ (dial[e] # "none" => dial'[e] # "none")
    BY <1>3, <1>4 DEF Dialer!Targets
  <2> QED
    BY <1>1, <1>8, <1>10, <2>1 DEF DialerInv, Waits
<1>13. ConnOrError'
  <2>1. Dialer!Usable' = Dialer!Usable /\ Dialer!Refused \subseteq Dialer!Refused'
    BY <1>1, <1>2, <1>3 DEF Dialer!Usable, Dialer!Families, Dialer!InTurn, Dialer!Refused
  <2>2. firstConn # None => dialConn'[firstConn] = "open"
    BY <1>9, <1>1 DEF ResultsKept
  <2> QED
    BY <1>1, <2>1, <2>2 DEF DialerInv, ConnOrError, Dialer!ConnOrError
<1> QED
  BY <1>6, <1>9, <1>11, <1>12, <1>13 DEF DialerInv

\* The families of a preference: at least one, of addresses that were resolved.
LEMMA FamiliesAre ==
  ASSUME preference \in {"IPv4Only", "IPv6Only", "PreferIPv4", "PreferIPv6"}
  PROVE  Dialer!Families \in Seq(SUBSET Dialer!Resolved) /\ Dialer!Families # <<>>
<1>1. IPv4 \in SUBSET Dialer!Resolved /\ IPv6 \in SUBSET Dialer!Resolved
  BY DEF Dialer!Resolved
<1>2. ASSUME NEW a \in SUBSET Dialer!Resolved, NEW b \in SUBSET Dialer!Resolved
      PROVE  Dialer!InTurn(a, b) \in Seq(SUBSET Dialer!Resolved) /\ Dialer!InTurn(a, b) # <<>>
  <2>1. \/ Dialer!InTurn(a, b) = <<b>> \/ Dialer!InTurn(a, b) = <<a, b>> \/ Dialer!InTurn(a, b) = <<a>>
    BY Zenon DEF Dialer!InTurn
  <2>2. <<a>> \in Seq(SUBSET Dialer!Resolved) /\ <<a>> # <<>> /\ <<b>> \in Seq(SUBSET Dialer!Resolved) /\ <<b>> # <<>>
    OBVIOUS
  <2>3. <<a, b>> \in Seq(SUBSET Dialer!Resolved) /\ <<a, b>> # <<>>
    OBVIOUS
  <2> QED
    BY <2>1, <2>2, <2>3, Zenon
<1>3. CASE preference = "IPv4Only"
  <2>1. Dialer!Families = <<IPv4>>
    BY <1>3 DEF Dialer!Families
  <2> QED
    BY <1>1, <2>1
<1>4. CASE preference = "IPv6Only"
  <2>1. Dialer!Families = <<IPv6>>
    BY <1>4 DEF Dialer!Families
  <2> QED
    BY <1>1, <2>1
<1>5. CASE preference = "PreferIPv4"
  <2>1. Dialer!Families = Dialer!InTurn(IPv4, IPv6)
    BY <1>5 DEF Dialer!Families
  <2> QED
    BY <1>1, <1>2, <2>1
<1>6. CASE preference = "PreferIPv6"
  <2>1. Dialer!Families = Dialer!InTurn(IPv6, IPv4)
    BY <1>6 DEF Dialer!Families
  <2> QED
    BY <1>1, <1>2, <2>1
<1> QED
  BY <1>3, <1>4, <1>5, <1>6

\* A preference: the families are set out, and their addresses tried.
LEMMA DialerPrefer ==
  ASSUME DialerInv, Dialer!Prefer
  PROVE  DialerInv'
<1>1. UNCHANGED <<preference, failover, dialLines, alive, steady, resultCh, left, firstConn, firstErr, ctx, dial, dialConn>>
  BY DEF Dialer!Prefer, Dialer!config, Dialer!pool
<1>2. dialPc = "start" /\ dialPc' = "first" /\ dialTodo' = Dialer!Families /\ preference # "DualStack"
  BY DEF Dialer!Prefer
<1>3. DialerTyped'
  BY <1>1, <1>2, Zenon DEF DialerInv, DialerTyped
<1>4. ResultsKept'
  BY <1>1, <1>2 DEF DialerInv, ResultsKept, Elements, Distinct
<1>5. Dialer!Usable' = Dialer!Usable /\ Dialer!Usable = UNION {Dialer!Families[i] : i \in DOMAIN Dialer!Families}
  BY <1>1, <1>2 DEF Dialer!Usable, Dialer!Families, Dialer!InTurn
<1>6. dialTodo' \in Seq(SUBSET Dialer!Resolved) /\ dialTodo' # <<>>
  BY <1>2, FamiliesAre DEF DialerInv, DialerTyped
<1>7. \A d \in Dialer!Usable' : \E i \in DOMAIN dialTodo' : d \in dialTodo'[i]
  BY <1>2, <1>5
<1>8. TriedInTurn'
  BY <1>1, <1>2, <1>6, <1>7 DEF DialerInv, Waits, TriedInTurn
<1>9. Waits' /\ ConnOrError'
  BY <1>2 DEF Waits, ConnOrError, Dialer!ConnOrError
<1> QED
  BY <1>3, <1>4, <1>8, <1>9 DEF DialerInv

LEMMA DialerTryConnects ==
  ASSUME DialerInv, StreamsAssumption, NEW d \in Dialer!Resolved, Dialer!TryConnects(d)
  PROVE  DialerInv'
<1>1. UNCHANGED <<preference, failover, dialLines, alive, steady, resultCh, left, firstErr, ctx>>
  BY DEF Dialer!TryConnects, Dialer!config, Dialer!pool
<1>2. /\ dialPc = "first" /\ dialPc' = "returned" /\ firstConn' = d
      /\ dialConn' = [dialConn EXCEPT ![d] = "open"] /\ dial' = [dial EXCEPT ![d] = "done"]
  BY DEF Dialer!TryConnects
<1>3. d \in Dialer!Targets /\ d # None /\ resultCh = <<>>
  BY <1>2 DEF DialerInv, TriedInTurn, StreamsAssumption, Dialer!DialerAssumption, Dialer!Targets, Dialer!Resolved
<1>4. DialerTyped'
  <2>1. /\ dial' \in [Dialer!Targets -> {"none", "dialing", "send", "done"}]
        /\ dialConn' \in [Dialer!Targets -> {"none", "open", "closed"}]
    BY <1>2, <1>3 DEF DialerInv, DialerTyped
  <2> QED
    BY <1>1, <1>2, <1>3, <2>1, Zenon DEF DialerInv, DialerTyped
<1>5. ResultsKept' /\ ConnOrError'
  <2>1. Elements(resultCh)' = {} /\ Distinct(resultCh)'
    BY <1>1, <1>3 DEF Elements, Distinct
  <2>2. dial'[d] = "done" /\ dialConn'[d] = "open"
    BY <1>2, <1>3 DEF DialerInv, DialerTyped
  <2>3. \A e \in Dialer!Targets : dial'[e] \in {"none", "dialing"} => dialConn'[e] = "none"
    BY <1>2, <1>3 DEF DialerInv, DialerTyped, ResultsKept
  <2> QED
    BY <1>2, <1>3, <2>1, <2>2, <2>3 DEF ResultsKept, ConnOrError, Dialer!ConnOrError
<1>6. TriedInTurn' /\ Waits'
  BY <1>2 DEF TriedInTurn, Waits
<1> QED
  BY <1>4, <1>5, <1>6 DEF DialerInv

\* An address that refuses is no longer to be tried, and refused.
LEMMA DialerTryRefused ==
  ASSUME DialerInv, NEW d \in Dialer!Resolved, Dialer!TryRefused(d)
  PROVE  DialerInv'
<1>1. UNCHANGED <<preference, failover, dialLines, alive, steady, dialPc, resultCh, left, firstConn, firstErr, ctx, dialConn>>
  BY DEF Dialer!TryRefused, Dialer!config, Dialer!pool
<1>2. /\ dialPc = "first" /\ dialTodo # <<>>
      /\ dialTodo' = [dialTodo EXCEPT ![1] = @ \ {d}] /\ dial' = [dial EXCEPT ![d] = "done"]
  BY DEF Dialer!TryRefused
<1>3. d \in Dialer!Targets /\ resultCh = <<>> /\ firstConn = None /\ Elements(resultCh) = {}
  BY <1>2 DEF DialerInv, TriedInTurn, Dialer!Targets, Elements
<1>4. \A e \in Dialer!Targets : dial'[e] \in {"none", "done"} /\ dialConn[e] = "none"
  BY <1>2, <1>3 DEF DialerInv, DialerTyped, TriedInTurn, ResultsKept
<1>5. DialerTyped'
  <2>1. dial' \in [Dialer!Targets -> {"none", "dialing", "send", "done"}]
    BY <1>2, <1>3 DEF DialerInv, DialerTyped
  <2> QED
    BY <1>1, <2>1, Zenon DEF DialerInv, DialerTyped
<1>6. ResultsKept'
  BY <1>1, <1>3, <1>4 DEF DialerInv, ResultsKept, Elements, Distinct
<1>7. TriedInTurn'
  <2>1. PICK n \in Nat : n = Len(dialTodo) /\ DOMAIN dialTodo = 1 .. n /\ n > 0
                         /\ dialTodo \in [1 .. n -> SUBSET Dialer!Resolved]
    BY <1>2, LenProperties, EmptySeq DEF DialerInv, TriedInTurn
  <2>2. /\ dialTodo' \in [1 .. n -> SUBSET Dialer!Resolved] /\ dialTodo'[1] = dialTodo[1] \ {d}
        /\ \A i \in 1 .. n : i # 1 => dialTodo'[i] = dialTodo[i]
    BY <1>2, <2>1
  <2>3. dialTodo' \in Seq(SUBSET Dialer!Resolved) /\ DOMAIN dialTodo' = 1 .. n /\ dialTodo' # <<>>
    <3>1. dialTodo' \in Seq(SUBSET Dialer!Resolved) /\ DOMAIN dialTodo' = 1 .. n
      BY <2>2, SeqOf
    <3>2. 1 \in DOMAIN dialTodo'
      BY <2>1, <3>1
    <3> QED
      BY <3>1, <3>2
  <2>4. Dialer!Usable' = Dialer!Usable
    BY <1>1 DEF Dialer!Usable, Dialer!Families, Dialer!InTurn
  <2>5. Dialer!Refused' = Dialer!Refused \union {d}
    BY <1>1, <1>2, <1>3, <1>4 DEF Dialer!Refused, DialerInv, DialerTyped
  <2>6. ASSUME NEW e \in Dialer!Usable PROVE e \in Dialer!Refused' \/ \E i \in DOMAIN dialTodo' : e \in dialTodo'[i]
    <3>1. CASE e \in Dialer!Refused
      BY <2>5, <3>1
    <3>2. CASE \E i \in DOMAIN dialTodo : e \in dialTodo[i]
      <4>1. PICK i \in 1 .. n : e \in dialTodo[i]
        BY <2>1, <3>2
      <4> QED
        BY <2>2, <2>3, <2>5, <4>1
    <3> QED
      BY <1>2, <3>1, <3>2 DEF DialerInv, TriedInTurn
  <2> QED
    BY <1>1, <1>2, <1>3, <1>4, <2>3, <2>4, <2>6 DEF DialerInv, TriedInTurn
<1>8. Waits' /\ ConnOrError'
  BY <1>1, <1>2 DEF Waits, ConnOrError, Dialer!ConnOrError
<1> QED
  BY <1>5, <1>6, <1>7, <1>8 DEF DialerInv

LEMMA DialerFamilyFails ==
  ASSUME DialerInv, Dialer!FamilyFails
  PROVE  DialerInv'
<1>1. UNCHANGED <<preference, failover, dialLines, alive, steady, resultCh, left, firstConn, ctx, dial, dialConn>>
  BY DEF Dialer!FamilyFails, Dialer!config, Dialer!pool
<1>2. /\ dialPc = "first" /\ dialTodo # <<>> /\ Head(dialTodo) = {} /\ dialTodo' = Tail(dialTodo) /\ firstErr' = TRUE
      /\ dialPc' = IF Len(dialTodo) = 1 THEN "returned" ELSE "first"
  BY DEF Dialer!FamilyFails
<1>3. DialerTyped'
  BY <1>1, <1>2, Zenon DEF DialerInv, DialerTyped
<1>4. ResultsKept'
  BY <1>1, <1>2 DEF DialerInv, ResultsKept, TriedInTurn, Elements, Distinct
<1>5. Dialer!Usable' = Dialer!Usable /\ Dialer!Refused' = Dialer!Refused
  BY <1>1 DEF Dialer!Usable, Dialer!Families, Dialer!InTurn, Dialer!Refused
<1>6. PICK n \in Nat : n = Len(dialTodo) /\ DOMAIN dialTodo = 1 .. n /\ n > 0 /\ dialTodo[1] = {}
                       /\ dialTodo \in [1 .. n -> SUBSET Dialer!Resolved]
  BY <1>2, LenProperties, EmptySeq DEF DialerInv, TriedInTurn
<1>7. /\ dialTodo' \in Seq(SUBSET Dialer!Resolved) /\ Len(dialTodo') = n - 1 /\ DOMAIN dialTodo' = 1 .. n - 1
      /\ \A i \in 1 .. n - 1 : dialTodo'[i] = dialTodo[i + 1]
  BY <1>2, <1>6, HeadTailProperties, LenProperties DEF DialerInv, TriedInTurn
<1>8. ASSUME NEW d \in Dialer!Usable PROVE d \in Dialer!Refused \/ \E i \in 1 .. n - 1 : d \in dialTodo'[i]
  <2>1. CASE \E i \in DOMAIN dialTodo : d \in dialTodo[i]
    <3>1. PICK i \in 1 .. n : d \in dialTodo[i]
      BY <1>6, <2>1
    <3>2. i - 1 \in 1 .. n - 1 /\ (i - 1) + 1 = i
      BY <1>6, <3>1
    <3> QED
      BY <1>7, <3>1, <3>2
  <2> QED
    BY <1>2, <2>1 DEF DialerInv, TriedInTurn
<1>9. CASE n = 1
  <2>1. dialPc' = "returned" /\ Dialer!Usable \subseteq Dialer!Refused
    BY <1>2, <1>6, <1>8, <1>9
  <2> QED
    BY <1>1, <1>2, <1>3, <1>4, <1>5, <2>1 DEF DialerInv, TriedInTurn, Waits, ConnOrError, Dialer!ConnOrError
<1>10. CASE n # 1
  <2>1. dialPc' = "first" /\ dialTodo' # <<>>
    BY <1>2, <1>6, <1>7, <1>10
  <2>2. TriedInTurn'
    BY <1>1, <1>2, <1>5, <1>7, <1>8, <2>1 DEF DialerInv, TriedInTurn
  <2> QED
    BY <1>3, <1>4, <2>1, <2>2 DEF DialerInv, Waits, ConnOrError, Dialer!ConnOrError
<1> QED
  BY <1>9, <1>10

\* No preference: the addresses are dialled.
LEMMA DialerOpen ==
  ASSUME DialerInv, Dialer!Open
  PROVE  DialerInv'
<1>1. UNCHANGED <<preference, failover, dialLines, alive, steady, dialTodo, resultCh, left, firstConn, ctx, dialConn>>
  BY DEF Dialer!Open, Dialer!config, Dialer!pool
<1>2. /\ dialPc = "start" /\ preference = "DualStack" /\ firstConn = None /\ resultCh = <<>>
      /\ \A d \in Dialer!Targets : dial[d] = "none" /\ dialConn[d] = "none"
  BY DEF Dialer!Open, DialerInv, Waits, ResultsKept
<1>3. Elements(resultCh)' = {} /\ Distinct(resultCh)'
  BY <1>1, <1>2 DEF Elements, Distinct
<1>4. CASE Dialer!Resolved = {} /\ dialLines = {}
  <2>1. dialPc' = "returned" /\ firstErr' = TRUE /\ dial' = dial
    BY <1>4 DEF Dialer!Open
  <2>2. DialerTyped'
    BY <1>1, <2>1, Zenon DEF DialerInv, DialerTyped
  <2>3. ResultsKept'
    BY <1>1, <1>2, <1>3, <2>1 DEF ResultsKept
  <2>4. Dialer!Usable' = {}
    BY <1>1, <1>2, <1>4 DEF Dialer!Usable
  <2> QED
    BY <1>1, <1>2, <2>1, <2>2, <2>3, <2>4 DEF DialerInv, TriedInTurn, Waits, ConnOrError, Dialer!ConnOrError
<1>5. CASE ~(Dialer!Resolved = {} /\ dialLines = {})
  <2>1. /\ dialPc' = "launch" /\ firstErr' = firstErr
        /\ dial' = [d \in Dialer!Targets |-> IF d \in Dialer!Resolved THEN "dialing" ELSE dial[d]]
    BY <1>5 DEF Dialer!Open
  <2>2. \A d \in Dialer!Targets : dial'[d] = IF d \in Dialer!Resolved THEN "dialing" ELSE "none"
    BY <1>2, <2>1
  <2>3. DialerTyped'
    <3>1. dial' \in [Dialer!Targets -> {"none", "dialing", "send", "done"}]
      BY <1>2, <2>1
    <3> QED
      BY <1>1, <2>1, <3>1, Zenon DEF DialerInv, DialerTyped
  <2>4. ResultsKept'
    BY <1>1, <1>2, <1>3, <2>2 DEF DialerInv, ResultsKept
  <2>5. Pending' = Dialer!Resolved
    BY <1>3, <2>2 DEF Pending, Dialer!Targets
  <2>6. \A d \in Dialer!Resolved : dial'[d] # "none"
    BY <2>2 DEF Dialer!Targets
  <2>7. Waits'
    BY <1>1, <1>2, <1>5, <2>1, <2>5, <2>6 DEF DialerInv, Waits
  <2> QED
    BY <2>1, <2>3, <2>4, <2>7 DEF DialerInv, TriedInTurn, ConnOrError, Dialer!ConnOrError
<1> QED
  BY <1>4, <1>5

\* ... and the lines, all of them if the pool was steady.
LEMMA DialerLaunch ==
  ASSUME DialerInv, StreamsAssumption, Dialer!Launch
  PROVE  DialerInv'
<1>1. UNCHANGED <<preference, failover, dialLines, alive, steady, dialTodo, resultCh, left, firstConn, firstErr, ctx, dialConn>>
  BY DEF Dialer!Launch, Dialer!config, Dialer!pool
<1>2. /\ dialPc = "launch" /\ dialPc' = "count" /\ firstConn = None /\ Pending = Dialer!Resolved
      /\ dial' = [d \in Dialer!Targets |-> IF d \in dialLines /\ alive[d] THEN "dialing" ELSE dial[d]]
  BY DEF Dialer!Launch, DialerInv, Waits
<1>3. ASSUME NEW d \in dialLines
      PROVE  d \in Dialer!Targets /\ d \notin Elements(resultCh) /\ dialConn[d] = "none"
  <2>1. d \in Dialer!Targets /\ d \notin Dialer!Resolved
    BY <1>3 DEF DialerInv, DialerTyped, StreamsAssumption, Dialer!DialerAssumption, Dialer!Targets, Dialer!Resolved
  <2>2. d \notin Elements(resultCh) /\ dial[d] \notin {"dialing", "send"}
    BY <1>2, <2>1 DEF Pending
  <2> QED
    BY <1>2, <2>1, <2>2 DEF DialerInv, DialerTyped, ResultsKept
<1>4. /\ dial' \in [Dialer!Targets -> {"none", "dialing", "send", "done"}]
      /\ \A d \in Dialer!Targets : dial'[d] = IF d \in dialLines /\ alive[d] THEN "dialing" ELSE dial[d]
  BY <1>2 DEF DialerInv, DialerTyped
<1>5. DialerTyped'
  BY <1>1, <1>2, <1>4, Zenon DEF DialerInv, DialerTyped
<1>6. Elements(resultCh)' = Elements(resultCh) /\ Distinct(resultCh)' = Distinct(resultCh)
  BY <1>1 DEF Elements, Distinct
<1>7. ResultsKept'
  <2>1. \A d \in Elements(resultCh) : d \in Dialer!Targets
    BY LenProperties DEF Elements, DialerInv, DialerTyped
  <2>2. \A d \in Elements(resultCh) : dial'[d] = "done"
    BY <1>3, <1>4, <2>1 DEF DialerInv, ResultsKept
  <2>3. \A d \in Dialer!Targets : dial'[d] \in {"none", "dialing"} => dialConn[d] = "none"
    BY <1>3, <1>4 DEF DialerInv, ResultsKept
  <2>4. \A d \in Dialer!Targets : dial'[d] = "done" => dial[d] = "done"
    BY <1>4
  <2>5. Distinct(resultCh) /\ ctx # "cancelled"
    BY <1>2 DEF DialerInv, ResultsKept
  <2> QED
    BY <1>1, <1>2, <1>6, <2>2, <2>3, <2>4, <2>5 DEF DialerInv, ResultsKept
<1>8. ASSUME steady PROVE Pending' = Dialer!Resolved \union dialLines
  <2>1. \A d \in dialLines : d \in Dialer!Targets /\ alive[d]
    BY <1>2, <1>3, <1>8 DEF DialerInv, Waits
  <2>2. \A d \in Dialer!Targets : dial'[d] = IF d \in dialLines THEN "dialing" ELSE dial[d]
    BY <1>4, <2>1
  <2>3. Pending' = Pending \union dialLines
    BY <1>6, <2>1, <2>2 DEF Pending
  <2> QED
    BY <1>2, <2>3
<1>9. \A d \in Dialer!Resolved : dial'[d] # "none"
  BY <1>2, <1>4 DEF DialerInv, Waits, Dialer!Targets
<1>10. Waits'
  BY <1>1, <1>2, <1>8, <1>9 DEF DialerInv, Waits
<1> QED
  BY <1>2, <1>5, <1>7, <1>10 DEF DialerInv, TriedInTurn, ConnOrError, Dialer!ConnOrError

\* The dialer counts with the operators of FiniteSets.
LEMMA DialerCounts ==
  ASSUME NEW S
  PROVE  (Dialer!IsFiniteSet(S) <=> IsFiniteSet(S)) /\ Dialer!Cardinality(S) = Cardinality(S)
<1>1. Dialer!IsFiniteSet(S) <=> IsFiniteSet(S)
  BY Zenon DEF Dialer!IsFiniteSet, IsFiniteSet
<1>2. Dialer!Cardinality(S) = Cardinality(S)
  BY Zenon DEF Dialer!Cardinality, Cardinality
<1> QED
  BY <1>1, <1>2

\* A pool that was steady has as many lines as were dialled.
LEMMA DialerCount ==
  ASSUME DialerInv, StreamsAssumption, Dialer!Count
  PROVE  DialerInv'
<1>1. UNCHANGED <<preference, failover, dialLines, alive, steady, dialTodo, resultCh, firstConn, firstErr, ctx, dial, dialConn>>
  BY DEF Dialer!Count, Dialer!config, Dialer!pool
<1>2. /\ dialPc = "count" /\ dialPc' = "collect" /\ firstConn = None
      /\ left' = Cardinality(Dialer!Resolved) + Cardinality(dialLines)
  BY DialerCounts DEF Dialer!Count, DialerInv, Waits
<1>3. IsFiniteSet(Dialer!Resolved) /\ IsFiniteSet(dialLines) /\ Dialer!Resolved \intersect dialLines = {}
  <2>1. IsFiniteSet(DialTags) /\ dialLines \subseteq DialTags
    BY DialerCounts DEF StreamsAssumption, Dialer!DialerAssumption, DialerInv, DialerTyped
  <2> QED
    BY <2>1, FS_Subset, DialerCounts DEF StreamsAssumption, Dialer!DialerAssumption, Dialer!Resolved
<1>4. PICK u : u = Dialer!Resolved \union dialLines
  OBVIOUS
<1>5. IsFiniteSet(u) /\ Cardinality(u) = left' /\ left' \in Nat /\ (u # {} => left' > 0)
  <2>1. Cardinality(Dialer!Resolved) \in Nat /\ Cardinality(dialLines) \in Nat
    BY <1>3, FS_CardinalityType
  <2>2. /\ IsFiniteSet(u)
        /\ Cardinality(u) = Cardinality(Dialer!Resolved) + Cardinality(dialLines) - Cardinality(Dialer!Resolved \intersect dialLines)
    BY <1>3, <1>4, FS_Union
  <2>3. Cardinality(Dialer!Resolved \intersect dialLines) = 0
    BY <1>3, FS_EmptySet
  <2>4. Cardinality(u) = left' /\ left' \in Nat
    BY <1>2, <2>1, <2>2, <2>3
  <2>5. u # {} => Cardinality(u) # 0
    BY <2>2, FS_EmptySet
  <2> QED
    BY <2>2, <2>4, <2>5
<1>6. DialerTyped'
  BY <1>1, <1>2, <1>5, Zenon DEF DialerInv, DialerTyped
<1>7. ResultsKept'
  BY <1>1, <1>2 DEF DialerInv, ResultsKept, Elements, Distinct
<1>8. Pending' = Pending
  BY <1>1 DEF Pending, Elements
<1>9. Waits'
  <2>1. steady => IsFiniteSet(Pending)' /\ left' = Cardinality(Pending)'
    BY <1>2, <1>4, <1>5, <1>8 DEF DialerInv, Waits
  <2>2. steady \/ Dialer!Resolved # {} => left' > 0
    BY <1>2, <1>4, <1>5 DEF DialerInv, Waits
  <2> QED
    BY <1>1, <1>2, <2>1, <2>2 DEF DialerInv, Waits
<1> QED
  BY <1>2, <1>6, <1>7, <1>9 DEF DialerInv, TriedInTurn, ConnOrError, Dialer!ConnOrError

\* One result less is to come, and one less is waited for.
LEMMA DialerReceive ==
  ASSUME DialerInv, StreamsAssumption, Dialer!Receive
  PROVE  DialerInv'
<1>1. UNCHANGED <<preference, failover, dialLines, alive, steady, dialPc, dialTodo, dial>>
  BY DEF Dialer!Receive, Dialer!config, Dialer!pool
<1>2. dialPc = "collect" /\ left > 0 /\ resultCh # <<>> /\ resultCh' = Tail(resultCh) /\ left' = left - 1
  BY DEF Dialer!Receive
<1>3. PICK d \in Dialer!Targets : d = Head(resultCh) /\ d \in Elements(resultCh)
  BY <1>2, DistinctTail DEF DialerInv, DialerTyped, ResultsKept
<1>4. resultCh' \in Seq(Dialer!Targets) /\ Distinct(resultCh') /\ Elements(resultCh') = Elements(resultCh) \ {d}
  BY <1>2, <1>3, DistinctTail DEF DialerInv, DialerTyped, ResultsKept
<1>5. Distinct(resultCh)' /\ Elements(resultCh)' = Elements(resultCh) \ {d}
  BY <1>4 DEF Distinct, Elements
<1>6. dial[d] = "done" /\ firstConn # d /\ d # None
  <2>1. d # None
    BY DEF StreamsAssumption, Dialer!DialerAssumption, Dialer!Targets, Dialer!Resolved
  <2> QED
    BY <1>3, <2>1 DEF DialerInv, ResultsKept
<1>7. \/ /\ dialConn[d] = "open" /\ firstConn = None
         /\ firstConn' = d /\ ctx' = Dialer!Cancel /\ UNCHANGED <<firstErr, dialConn>>
      \/ /\ dialConn[d] = "open" /\ firstConn # None
         /\ dialConn' = [dialConn EXCEPT ![d] = "closed"] /\ UNCHANGED <<firstConn, firstErr, ctx>>
      \/ dialConn[d] # "open" /\ firstErr' = TRUE /\ UNCHANGED <<firstConn, ctx, dialConn>>
  BY <1>3 DEF Dialer!Receive
<1>8. /\ firstConn' \in Dialer!Targets \union {None} /\ dialConn' \in [Dialer!Targets -> {"none", "open", "closed"}]
      /\ ctx' \in {"live", "givenUp", "cancelled"} /\ left' \in Nat
  BY <1>2, <1>7 DEF DialerInv, DialerTyped, Dialer!Cancel
<1>9. DialerTyped'
  <2>1. firstErr' \in BOOLEAN
    BY <1>7, Zenon DEF DialerInv, DialerTyped
  <2> QED
    BY <1>1, <1>4, <1>8, <2>1, Zenon DEF DialerInv, DialerTyped
<1>10. ResultsKept'
  <2>1. \A e \in Elements(resultCh)' : dial'[e] = "done"
    BY <1>1, <1>5 DEF DialerInv, ResultsKept
  <2>2. \A e \in Dialer!Targets : dial'[e] \in {"none", "dialing"} => dialConn'[e] = "none"
    BY <1>1, <1>6, <1>7 DEF DialerInv, DialerTyped, ResultsKept
  <2>3. firstConn' # None => /\ dial'[firstConn'] = "done" /\ dialConn'[firstConn'] = "open"
                             /\ firstConn' \notin Elements(resultCh)'
    BY <1>1, <1>5, <1>6, <1>7 DEF DialerInv, DialerTyped, ResultsKept
  <2>4. ASSUME firstConn' = None
        PROVE  /\ ctx' # "cancelled"
               /\ \A e \in Dialer!Targets : /\ dialConn'[e] # "closed"
                                            /\ dial'[e] = "done" => e \in Elements(resultCh)' \/ dialConn'[e] = "none"
    <3>1. firstConn = None /\ ctx' = ctx /\ dialConn' = dialConn /\ dialConn[d] # "open"
      BY <1>6, <1>7, <2>4
    <3>2. ctx # "cancelled" /\ dialConn[d] = "none"
      BY <1>2, <3>1 DEF DialerInv, DialerTyped, ResultsKept
    <3> QED
      BY <1>1, <1>5, <3>1, <3>2 DEF DialerInv, ResultsKept
  <2> QED
    BY <1>5, <2>1, <2>2, <2>3, <2>4 DEF ResultsKept
<1>11. Pending' = Pending \ {d} /\ d \in Pending
  BY <1>1, <1>3, <1>5, <1>6 DEF Pending
<1>12. Waits'
  <2>1. ASSUME steady PROVE IsFiniteSet(Pending)' /\ left' = Cardinality(Pending)'
    <3>1. IsFiniteSet(Pending) /\ left = Cardinality(Pending)
      BY <1>2, <2>1 DEF DialerInv, Waits
    <3>2. IsFiniteSet(Pending \ {d}) /\ Cardinality(Pending \ {d}) = Cardinality(Pending) - 1
      BY <1>11, <3>1, FS_RemoveElement
    <3> QED
      BY <1>2, <1>11, <3>1, <3>2
  <2>2. ~(firstConn' = None /\ ~firstErr')
    BY <1>6, <1>7
  <2> QED
    BY <1>1, <1>2, <2>1, <2>2 DEF DialerInv, Waits
<1>13. TriedInTurn' /\ ConnOrError'
  BY <1>1, <1>2 DEF TriedInTurn, ConnOrError, Dialer!ConnOrError
<1> QED
  BY <1>9, <1>10, <1>12, <1>13 DEF DialerInv

\* When nothing is waited for, every address has answered.
LEMMA DialerReturn ==
  ASSUME DialerInv, Dialer!Return
  PROVE  DialerInv'
<1>1. UNCHANGED <<preference, failover, dialLines, alive, steady, dialTodo, resultCh, left, firstConn, firstErr, dial, dialConn>>
  BY DEF Dialer!Return, Dialer!config, Dialer!pool
<1>2. dialPc = "collect" /\ (left = 0 \/ ctx # "live") /\ dialPc' = "returned" /\ ctx' = Dialer!Cancel
  BY DEF Dialer!Return
<1>3. DialerTyped'
  <2>1. ctx' \in {"live", "givenUp", "cancelled"}
    BY <1>2 DEF Dialer!Cancel, DialerInv, DialerTyped
  <2> QED
    BY <1>1, <1>2, <2>1, Zenon DEF DialerInv, DialerTyped
<1>4. ResultsKept'
  BY <1>1, <1>2 DEF DialerInv, ResultsKept, Elements, Distinct
<1>5. Dialer!Usable' = Dialer!Resolved /\ Dialer!Refused' = Dialer!Refused
  BY <1>1, <1>2 DEF DialerInv, Waits, Dialer!Usable, Dialer!Refused
<1>6. ASSUME ctx' # "givenUp", firstConn = None
      PROVE  (steady \/ Dialer!Resolved # {} => firstErr) /\ (steady => Dialer!Resolved \subseteq Dialer!Refused)
  <2>1. left = 0
    BY <1>2, <1>6 DEF Dialer!Cancel, DialerInv, DialerTyped, ResultsKept
  <2>2. steady \/ Dialer!Resolved # {} => firstErr
    BY <1>2, <1>6, <2>1 DEF DialerInv, Waits
  <2>3. ASSUME steady, NEW d \in Dialer!Resolved PROVE d \in Dialer!Refused
    <3>1. IsFiniteSet(Pending) /\ Cardinality(Pending) = 0
      BY <1>2, <2>1, <2>3 DEF DialerInv, Waits
    <3>2. Pending = {}
      BY <3>1, FS_EmptySet
    <3>3. d \in Dialer!Targets /\ dial[d] # "none"
      BY <1>2 DEF DialerInv, Waits, Dialer!Targets
    <3>4. dial[d] = "done" /\ d \notin Elements(resultCh)
      BY <3>2, <3>3 DEF Pending, DialerInv, DialerTyped
    <3> QED
      BY <1>6, <3>3, <3>4 DEF DialerInv, ResultsKept, Dialer!Refused
  <2> QED
    BY <2>2, <2>3
<1>7. ConnOrError'
  BY <1>1, <1>5, <1>6 DEF DialerInv, ResultsKept, ConnOrError, Dialer!ConnOrError
<1>8. TriedInTurn' /\ Waits'
  BY <1>2 DEF TriedInTurn, Waits
<1> QED
  BY <1>3, <1>4, <1>7, <1>8 DEF DialerInv

\* The caller's context, and steps of the other parts.
LEMMA DialerElse ==
  ASSUME DialerInv, Dialer!GiveUp \/ UNCHANGED dialerVars
  PROVE  DialerInv'
<1>1. UNCHANGED <<preference, failover, dialLines, alive, steady, dialPc, dialTodo, resultCh, left, firstConn, firstErr, dial, dialConn>>
  BY DEF Dialer!GiveUp, dialerVars, Dialer!config, Dialer!pool
<1>2. ctx' \in {"givenUp", ctx}
  BY DEF Dialer!GiveUp, dialerVars
<1>3. DialerTyped'
  <2>1. ctx' \in {"live", "givenUp", "cancelled"}
    BY <1>2 DEF DialerInv, DialerTyped
  <2> QED
    BY <1>1, <2>1, Zenon DEF DialerInv, DialerTyped
<1>4. ResultsKept'
  BY <1>1, <1>2 DEF DialerInv, ResultsKept, Elements, Distinct
<1>5. Pending' = Pending /\ Dialer!Usable' = Dialer!Usable /\ Dialer!Refused' = Dialer!Refused
  BY <1>1 DEF Pending, Elements, Dialer!Usable, Dialer!Families, Dialer!InTurn, Dialer!Refused
<1>6. TriedInTurn' /\ Waits'
  BY <1>1, <1>5 DEF DialerInv, TriedInTurn, Waits
<1>7. ConnOrError'
  BY <1>1, <1>2, <1>5 DEF DialerInv, ConnOrError, Dialer!ConnOrError
<1> QED
  BY <1>3, <1>4, <1>6, <1>7 DEF DialerInv

LEMMA DialerNext ==
  ASSUME DialerInv, StreamsAssumption, Dialer!Next
  PROVE  DialerInv'
BY DialerPool, DialerStep, DialerPrefer, DialerTryConnects, DialerTryRefused, DialerFamilyFails, DialerOpen,
   DialerLaunch, DialerCount, DialerReceive, DialerReturn, DialerElse DEF Dialer!Next, Dialer!CallerStep

(***************************************************************************)
(* Buffer                                                                  *)
(***************************************************************************)
Content == Seq(Nat)

\* d is what array a holds between the positions s and e.
Shows(a, s, e, d) ==
  /\ a \in Content /\ d \in Content /\ s \in Nat /\ e \in Nat
  /\ s <= e /\ e <= Len(a) /\ Len(d) = e - s
  /\ \A i \in 1 .. e - s : d[i] = a[s + i]

\* A part of a sequence, by its positions.
LEMMA PartOf ==
  ASSUME NEW a \in Content, NEW s \in Nat, NEW e \in Nat, s <= e, e <= Len(a)
  PROVE  /\ SubSeq(a, s + 1, e) \in Content /\ Len(SubSeq(a, s + 1, e)) = e - s
         /\ \A i \in 1 .. e - s : SubSeq(a, s + 1, e)[i] = a[s + i]
<1>1. a \in Seq(Nat) /\ Len(a) \in Nat /\ \A i \in 1 .. Len(a) : a[i] \in Nat
  BY LenProperties, ElementOfSeq DEF Content
<1>2. \A i \in s + 1 .. e : a[i] \in Nat
  BY <1>1
<1>3. s + 1 \in Int /\ e \in Int
  OBVIOUS
<1>4. /\ Len(SubSeq(a, s + 1, e)) = IF s + 1 <= e THEN e - (s + 1) + 1 ELSE 0
      /\ \A i \in 1 .. (e - (s + 1) + 1) : SubSeq(a, s + 1, e)[i] = a[s + 1 + i - 1]
      /\ SubSeq(a, s + 1, e) \in Seq(Nat)
  BY <1>2, <1>3, SubSeqProperties
<1>5. ASSUME NEW i \in 1 .. e - s PROVE SubSeq(a, s + 1, e)[i] = a[s + i]
  <2>1. i \in 1 .. (e - (s + 1) + 1) /\ s + 1 + i - 1 = s + i
    OBVIOUS
  <2> QED
    BY <1>4, <2>1
<1> QED
  BY <1>4, <1>5 DEF Content

\* Bytes of a buffer is what it shows.
LEMMA ShowsBytes ==
  ASSUME NEW a, NEW s, NEW e, NEW d, Shows(a, s, e, d)
  PROVE  SubSeq(a, s + 1, e) = d
<1>1. SubSeq(a, s + 1, e) \in Seq(Nat) /\ d \in Seq(Nat) /\ Len(SubSeq(a, s + 1, e)) = Len(d)
  BY PartOf DEF Shows, Content
<1>2. \A i \in 1 .. Len(d) : SubSeq(a, s + 1, e)[i] = d[i]
  BY PartOf DEF Shows
<1> QED
  BY <1>1, <1>2, SeqEqual

\* Read moves the start.
LEMMA ShowsRead ==
  ASSUME NEW a, NEW s, NEW e, NEW d, Shows(a, s, e, d), NEW n \in 1 .. e - s
  PROVE  Shows(a, s + n, e, SubSeq(d, n + 1, Len(d)))
<1>1. s \in Nat /\ e \in Nat /\ n \in Nat /\ Len(d) = e - s /\ n <= Len(d) /\ s <= e /\ Len(d) \in Nat /\ d \in Content
  BY DEF Shows
<1>2. /\ SubSeq(d, n + 1, Len(d)) \in Content /\ Len(SubSeq(d, n + 1, Len(d))) = e - (s + n)
      /\ \A i \in 1 .. e - (s + n) : SubSeq(d, n + 1, Len(d))[i] = d[n + i]
  BY <1>1, PartOf
<1>3. \A i \in 1 .. e - (s + n) : d[n + i] = a[s + n + i]
  BY <1>1 DEF Shows
<1> QED
  BY <1>1, <1>2, <1>3 DEF Shows

\* A slice shows a part.
LEMMA ShowsSlice ==
  ASSUME NEW a, NEW s, NEW e, NEW d, Shows(a, s, e, d), NEW f \in Nat, NEW t \in Nat, f <= t, t <= e - s
  PROVE  Shows(a, s + f, s + t, SubSeq(d, f + 1, t))
<1>1. s \in Nat /\ e \in Nat /\ Len(d) = e - s /\ t <= Len(d) /\ s <= e /\ Len(d) \in Nat /\ d \in Content
  BY DEF Shows
<1>2. /\ SubSeq(d, f + 1, t) \in Content /\ Len(SubSeq(d, f + 1, t)) = (s + t) - (s + f)
      /\ \A i \in 1 .. (s + t) - (s + f) : SubSeq(d, f + 1, t)[i] = d[f + i]
  BY <1>1, PartOf
<1>3. \A i \in 1 .. (s + t) - (s + f) : d[f + i] = a[s + f + i]
  BY <1>1 DEF Shows
<1> QED
  BY <1>1, <1>2, <1>3 DEF Shows

\* Put keeps the length of an array, and what it does not write over.
LEMMA PutIs ==
  ASSUME NEW a \in Content, NEW n \in Nat, NEW bytes \in Content
  PROVE  /\ Buffers!Put(a, n, bytes) \in Content /\ Len(Buffers!Put(a, n, bytes)) = Len(a)
         /\ \A i \in 1 .. Len(a) : Buffers!Put(a, n, bytes)[i] =
              IF i \in n + 1 .. n + Len(bytes) THEN bytes[i - n] ELSE a[i]
<1>1. Len(a) \in Nat /\ DOMAIN a = 1 .. Len(a) /\ \A i \in 1 .. Len(a) : a[i] \in Nat
  BY LenProperties, ElementOfSeq DEF Content
<1>2. Len(bytes) \in Nat /\ \A i \in 1 .. Len(bytes) : bytes[i] \in Nat
  BY LenProperties, ElementOfSeq DEF Content
<1> DEFINE p == Buffers!Put(a, n, bytes)
<1>3. /\ DOMAIN p = 1 .. Len(a)
      /\ \A i \in 1 .. Len(a) : p[i] = IF i \in n + 1 .. n + Len(bytes) THEN bytes[i - n] ELSE a[i]
  BY <1>1 DEF Buffers!Put
<1>4. ASSUME NEW i \in 1 .. Len(a) PROVE p[i] \in Nat
  <2>1. CASE i \in n + 1 .. n + Len(bytes)
    <3>1. i - n \in 1 .. Len(bytes)
      BY <1>1, <1>2, <2>1
    <3> QED
      BY <1>2, <1>3, <2>1, <3>1
  <2>2. CASE i \notin n + 1 .. n + Len(bytes)
    BY <1>1, <1>3, <2>2
  <2> QED
    BY <2>1, <2>2
<1>5. p \in [1 .. Len(a) -> Nat]
  BY <1>1, <1>3, <1>4 DEF Buffers!Put
<1> HIDE DEF p
<1>6. p \in Seq(Nat) /\ Len(p) = Len(a)
  BY <1>1, <1>5, SeqOf, LenProperties
<1> QED
  BY <1>3, <1>6 DEF p, Content

\* Write appends.
LEMMA ShowsWrite ==
  ASSUME NEW a, NEW s, NEW e, NEW d, Shows(a, s, e, d), NEW bytes \in Content, e + Len(bytes) <= Len(a)
  PROVE  Shows(Buffers!Put(a, e, bytes), s, e + Len(bytes), d \o bytes)
<1>1. /\ a \in Content /\ d \in Content /\ s \in Nat /\ e \in Nat /\ s <= e /\ Len(d) = e - s
      /\ Len(bytes) \in Nat /\ Len(a) \in Nat /\ \A i \in 1 .. e - s : d[i] = a[s + i]
  BY LenProperties DEF Shows, Content
<1>2. /\ d \o bytes \in Content /\ Len(d \o bytes) = (e - s) + Len(bytes)
      /\ \A i \in 1 .. (e - s) + Len(bytes) : (d \o bytes)[i] = IF i <= e - s THEN d[i] ELSE bytes[i - (e - s)]
  <2>1. /\ d \o bytes \in Seq(Nat) /\ Len(d \o bytes) = Len(d) + Len(bytes)
        /\ \A i \in 1 .. Len(d) + Len(bytes) : (d \o bytes)[i] = IF i <= Len(d) THEN d[i] ELSE bytes[i - Len(d)]
    BY <1>1, ConcatProperties, Zenon DEF Content
  <2> QED
    BY <1>1, <2>1, Zenon DEF Content
<1> DEFINE p == Buffers!Put(a, e, bytes)
           q == d \o bytes
           m == Len(bytes)
<1>3. /\ p \in Content /\ Len(p) = Len(a)
      /\ \A i \in 1 .. Len(a) : p[i] = IF i \in e + 1 .. e + m THEN bytes[i - e] ELSE a[i]
  BY <1>1, PutIs
<1>4. e + m <= Len(a) /\ m \in Nat
  BY <1>1
<1> HIDE DEF p, q, m
<1>5. ASSUME NEW i \in 1 .. (e + m) - s PROVE q[i] = p[s + i]
  <2>1. i \in 1 .. (e - s) + m /\ s + i \in 1 .. Len(a)
    BY <1>1, <1>4
  <2>2. q[i] = IF i <= e - s THEN d[i] ELSE bytes[i - (e - s)]
    BY <1>2, <2>1 DEF q, m
  <2>3. p[s + i] = IF s + i \in e + 1 .. e + m THEN bytes[(s + i) - e] ELSE a[s + i]
    BY <1>3, <2>1
  <2>4. CASE i <= e - s
    BY <1>1, <2>2, <2>3, <2>4
  <2>5. CASE ~(i <= e - s)
    <3>1. s + i \in e + 1 .. e + m /\ (s + i) - e = i - (e - s)
      BY <1>1, <1>4, <2>5
    <3> QED
      BY <2>2, <2>3, <2>5, <3>1
  <2> QED
    BY <2>4, <2>5
<1>6. q \in Content /\ Len(q) = (e + m) - s
  BY <1>1, <1>2 DEF q, m
<1>7. e + m \in Nat /\ s <= e + m /\ e + m <= Len(p)
  BY <1>1, <1>3, <1>4
<1>8. Shows(p, s, e + m, q)
  BY <1>1, <1>3, <1>5, <1>6, <1>7 DEF Shows
<1> QED
  BY <1>8 DEF p, q, m

\* An array that was got holds the bytes that it is given.
LEMMA ShowsFresh ==
  ASSUME NEW a \in Content, NEW bytes \in Content, Len(bytes) <= Len(a)
  PROVE  Shows(Buffers!Put(a, 0, bytes), 0, Len(bytes), bytes)
<1>1. Len(bytes) \in Nat /\ Len(a) \in Nat
  BY LenProperties DEF Content
<1>2. \A i \in 1 .. Len(bytes) : Buffers!Put(a, 0, bytes)[i] = bytes[i]
  BY <1>1, PutIs
<1>3. Buffers!Put(a, 0, bytes) \in Content /\ Len(Buffers!Put(a, 0, bytes)) = Len(a)
  BY PutIs
<1> QED
  BY <1>1, <1>2, <1>3 DEF Shows

\* The content of a new array.
LEMMA ZerosAre ==
  ASSUME NEW n \in Nat
  PROVE  /\ Buffers!Zeros(n) \in Content /\ Len(Buffers!Zeros(n)) = n
         /\ \A i \in 1 .. n : Buffers!Zeros(n)[i] = 0
<1>1. Buffers!Zeros(n) \in [1 .. n -> Nat] /\ \A i \in 1 .. n : Buffers!Zeros(n)[i] = 0
  BY DEF Buffers!Zeros
<1>2. Buffers!Zeros(n) \in Seq(Nat) /\ DOMAIN Buffers!Zeros(n) = 1 .. n
  BY <1>1, SeqOf
<1> QED
  BY <1>1, <1>2, LenProperties DEF Content

\* ReadFullFrom, to a longer array: the start is 0, the end stays, zeros between.
LEMMA ShowsGrown ==
  ASSUME NEW a, NEW s, NEW e, NEW d, Shows(a, s, e, d), NEW bytes \in Content, NEW size \in Nat, Len(bytes) <= size
  PROVE  Shows(Buffers!Put(Buffers!Put(Buffers!Zeros(e + size), 0, d), e, bytes), 0, e + Len(bytes),
               d \o Buffers!Zeros(s) \o bytes)
<1>1. /\ d \in Content /\ s \in Nat /\ e \in Nat /\ s <= e /\ Len(d) = e - s /\ Len(bytes) \in Nat
  BY LenProperties DEF Shows, Content
<1> DEFINE z == Buffers!Zeros(e + size)
           p == Buffers!Put(z, 0, d)
           q == d \o Buffers!Zeros(s)
<1>2. z \in Content /\ Len(z) = e + size /\ \A i \in 1 .. e + size : z[i] = 0
  BY <1>1, ZerosAre
<1>3. /\ p \in Content /\ Len(p) = e + size
      /\ \A i \in 1 .. e + size : p[i] = IF i \in 1 .. e - s THEN d[i] ELSE 0
  <2>1. /\ p \in Content /\ Len(p) = Len(z)
        /\ \A i \in 1 .. Len(z) : p[i] = IF i \in 0 + 1 .. 0 + Len(d) THEN d[i - 0] ELSE z[i]
    <3> HIDE DEF z
    <3> QED
      BY <1>1, <1>2, PutIs
  <2> HIDE DEF p, z
  <2> QED
    BY <1>1, <1>2, <2>1
<1>4. Buffers!Zeros(s) \in Content /\ Len(Buffers!Zeros(s)) = s /\ \A i \in 1 .. s : Buffers!Zeros(s)[i] = 0
  BY <1>1, ZerosAre
<1>5. /\ q \in Content /\ Len(q) = e
      /\ \A i \in 1 .. e : q[i] = IF i <= e - s THEN d[i] ELSE 0
  <2>1. /\ q \in Seq(Nat) /\ Len(q) = (e - s) + s
        /\ \A i \in 1 .. (e - s) + s : q[i] = IF i <= e - s THEN d[i] ELSE Buffers!Zeros(s)[i - (e - s)]
    <3>1. /\ q \in Seq(Nat) /\ Len(q) = Len(d) + Len(Buffers!Zeros(s))
          /\ \A i \in 1 .. Len(d) + Len(Buffers!Zeros(s)) :
               q[i] = IF i <= Len(d) THEN d[i] ELSE Buffers!Zeros(s)[i - Len(d)]
      BY <1>1, <1>4, ConcatProperties, Zenon DEF Content
    <3> QED
      BY <1>1, <1>4, <3>1, Zenon
  <2> HIDE DEF q
  <2> QED
    BY <1>1, <1>4, <2>1 DEF Content
<1> HIDE DEF p, q
<1>6. Shows(p, 0, e, q)
  BY <1>1, <1>3, <1>5 DEF Shows
<1>7. e + Len(bytes) <= Len(p)
  BY <1>1, <1>3
<1>8. Shows(Buffers!Put(p, e, bytes), 0, e + Len(bytes), q \o bytes)
  BY <1>6, <1>7, ShowsWrite
<1> QED
  BY <1>8 DEF p, q

-----------------------------------------------------------------------------
\* An array that is taken out of the pool is not in it any more.
LEMMA TakenOut ==
  ASSUME NEW q \in Seq(Nat), Distinct(q), NEW k \in DOMAIN q
  PROVE  LET r == SubSeq(q, 1, k - 1) \o SubSeq(q, k + 1, Len(q))
         IN r \in Seq(Nat) /\ Distinct(r) /\ Elements(r) = Elements(q) \ {q[k]}
<1>1. PICK n \in Nat : n = Len(q) /\ DOMAIN q = 1 .. n
  BY LenProperties
<1>2. k \in 1 .. n /\ k - 1 \in Nat /\ k \in Nat /\ 0 \in Nat /\ q \in Content
  BY <1>1 DEF Content
<1> DEFINE a == SubSeq(q, 0 + 1, k - 1)
           z == SubSeq(q, k + 1, n)
           r == a \o z
<1>3. a \in Content /\ Len(a) = k - 1 /\ \A i \in 1 .. k - 1 : a[i] = q[i]
  <2>1. /\ a \in Content /\ Len(a) = k - 1 - 0
        /\ \A i \in 1 .. k - 1 - 0 : a[i] = q[0 + i]
    BY <1>1, <1>2, PartOf
  <2> HIDE DEF a
  <2> QED
    BY <1>2, <2>1
<1>4. z \in Content /\ Len(z) = n - k /\ \A i \in 1 .. n - k : z[i] = q[k + i]
  <2>1. k <= n /\ n <= Len(q)
    BY <1>1, <1>2
  <2> QED
    BY <1>2, <2>1, PartOf, Zenon
<1>5. /\ r \in Seq(Nat) /\ Len(r) = Len(a) + Len(z)
      /\ \A i \in 1 .. Len(a) + Len(z) : r[i] = IF i <= Len(a) THEN a[i] ELSE z[i - Len(a)]
  BY <1>3, <1>4, ConcatProperties, Zenon DEF Content
<1> HIDE DEF a, z, r
<1>6. Len(r) = n - 1 /\ DOMAIN r = 1 .. n - 1
  BY <1>2, <1>3, <1>4, <1>5, LenProperties
<1>7. ASSUME NEW i \in 1 .. n - 1 PROVE r[i] = IF i < k THEN q[i] ELSE q[i + 1]
  <2>1. r[i] = IF i <= Len(a) THEN a[i] ELSE z[i - Len(a)]
    BY <1>5, <1>6
  <2>2. CASE i < k
    BY <1>2, <1>3, <2>1, <2>2
  <2>3. CASE ~(i < k)
    <3>1. i - (k - 1) \in 1 .. n - k /\ k + (i - (k - 1)) = i + 1
      BY <1>2, <2>3
    <3>2. r[i] = z[i - (k - 1)]
      BY <1>2, <1>3, <2>1, <2>3
    <3> QED
      BY <1>4, <2>3, <3>1, <3>2
  <2> QED
    BY <2>2, <2>3
<1>8. Distinct(r)
  <2> SUFFICES ASSUME NEW i \in 1 .. n - 1, NEW j \in 1 .. n - 1, r[i] = r[j]
               PROVE  i = j
    BY <1>6 DEF Distinct
  <2> DEFINE at(m) == IF m < k THEN m ELSE m + 1
  <2>1. at(i) \in 1 .. n /\ at(j) \in 1 .. n /\ r[i] = q[at(i)] /\ r[j] = q[at(j)]
    BY <1>7
  <2>2. at(i) = at(j)
    BY <1>1, <2>1 DEF Distinct
  <2> QED
    BY <1>2, <2>2
<1>9. ASSUME NEW i \in 1 .. n - 1 PROVE r[i] \in Elements(q) \ {q[k]}
  <2> DEFINE at == IF i < k THEN i ELSE i + 1
  <2>1. at \in 1 .. n /\ at # k /\ r[i] = q[at]
    BY <1>2, <1>7
  <2> HIDE DEF at
  <2> QED
    BY <1>1, <1>2, <2>1 DEF Distinct, Elements
<1>10. ASSUME NEW m \in 1 .. n, q[m] # q[k] PROVE q[m] \in Elements(r)
  <2>1. m # k
    BY <1>10
  <2> DEFINE i == IF m < k THEN m ELSE m - 1
  <2>2. i \in 1 .. n - 1 /\ (i < k <=> m < k) /\ (m > k => i + 1 = m) /\ (m < k => i = m)
    BY <1>2, <2>1
  <2> HIDE DEF i
  <2>3. r[i] = q[m]
    BY <1>2, <1>7, <2>1, <2>2
  <2> QED
    BY <1>6, <2>2, <2>3 DEF Elements
<1>11. Elements(r) = Elements(q) \ {q[k]}
  <2>1. Elements(r) \subseteq Elements(q) \ {q[k]}
    BY <1>6, <1>9, Zenon DEF Elements
  <2>2. Elements(q) \ {q[k]} \subseteq Elements(r)
    <3> SUFFICES ASSUME NEW x \in Elements(q), x # q[k] PROVE x \in Elements(r)
      OBVIOUS
    <3>1. PICK m \in 1 .. n : x = q[m]
      BY <1>1, Zenon DEF Elements
    <3> QED
      BY <1>10, <3>1
  <2> QED
    BY <2>1, <2>2
<1>12. SubSeq(q, 1, k - 1) \o SubSeq(q, k + 1, Len(q)) = r
  BY <1>1 DEF r, a, z
<1> QED
  BY <1>5, <1>8, <1>11, <1>12

-----------------------------------------------------------------------------
BufferTyped ==
  /\ arrays \in Seq(Content) /\ pool \in Seq(Nat) /\ used \in Nat
  /\ buf \in [AllBuffers -> Nat \union {None}] /\ pooled \in [AllBuffers -> BOOLEAN]
  /\ start \in [AllBuffers -> Nat] /\ end \in [AllBuffers -> Nat]
  /\ data \in [AllBuffers -> Content \union {None}] /\ source \in [AllBuffers -> AllBuffers \union {None}]

\* The pool has an array once, and arrays of one size.
PoolKept ==
  Distinct(pool) /\ \A x \in Elements(pool) : x \in DOMAIN arrays /\ Len(arrays[x]) = Cap

\* A buffer that will give its array back is in use and no slice; a buffer in use
\* shows its content in an array that is not in the pool, and a slice shows part of
\* the array of a buffer in use.
Kept(b) ==
  /\ buf[b] # None => buf[b] \in DOMAIN arrays
  /\ pooled[b] => Buffers!InUse(b) /\ source[b] = None
  /\ Buffers!InUse(b) =>
       /\ Shows(arrays[buf[b]], start[b], end[b], data[b]) /\ buf[b] \notin Elements(pool)
       /\ source[b] # None => Buffers!InUse(source[b]) /\ source[source[b]] = None /\ buf[source[b]] = buf[b]

\* Two buffers in use share an array only if one of them is a slice.
OneOwner ==
  \A b, c \in AllBuffers :
    Buffers!InUse(b) /\ Buffers!InUse(c) /\ source[b] = None /\ source[c] = None /\ buf[b] = buf[c] => b = c

BufferInv == BufferTyped /\ PoolKept /\ (\A b \in AllBuffers : Kept(b)) /\ OneOwner

\* Arrays are added and written to, but not where a buffer other than b shows them.
ArraysFor(b) ==
  /\ arrays' \in Seq(Content) /\ DOMAIN arrays \subseteq DOMAIN arrays'
  /\ \A y \in DOMAIN arrays : Len(arrays'[y]) = Len(arrays[y])
  /\ \A c \in AllBuffers \ {b} : Buffers!InUse(c) => arrays'[buf[c]] = arrays[buf[c]]

\* Buffer b comes to show d, between s and e of array x, with source o; the array is
\* its own, or that of o.
Becomes(b, x, s, e, d, p, o) ==
  /\ buf' = [buf EXCEPT ![b] = x] /\ start' = [start EXCEPT ![b] = s] /\ end' = [end EXCEPT ![b] = e]
  /\ data' = [data EXCEPT ![b] = d] /\ pooled' = [pooled EXCEPT ![b] = p] /\ source' = [source EXCEPT ![b] = o]
  /\ x \in DOMAIN arrays' /\ x \notin Elements(pool') /\ Shows(arrays'[x], s, e, d)
  /\ p => o = None
  /\ o = None => \A c \in AllBuffers \ {b} : Buffers!InUse(c) /\ source[c] = None => buf[c] # x
  /\ o # None => o # b /\ Buffers!InUse(o) /\ source[o] = None /\ buf[o] = x
  /\ \A c \in AllBuffers \ {b} : Buffers!InUse(c) /\ source[c] = b => o = None /\ buf[c] = x

\* What New, Clone, Write, Read, ReadFullFrom and Slice have in common: they change
\* one buffer, and no array that another one shows.
LEMMA OneChanges ==
  ASSUME BufferInv, StreamsAssumption, NEW b \in AllBuffers, NEW x, NEW s, NEW e, NEW d, NEW p \in BOOLEAN,
         NEW o \in AllBuffers \union {None}, used' \in Nat, ArraysFor(b), Becomes(b, x, s, e, d, p, o),
         pool' \in Seq(Nat), Distinct(pool'), Elements(pool') \subseteq Elements(pool)
  PROVE  BufferInv'
<1> USE DEF ArraysFor, Becomes
<1>0. d \in Content /\ s \in Nat /\ e \in Nat /\ x \in Nat /\ d # None /\ x # None
  <2>1. DOMAIN arrays' \subseteq Nat
    BY LenProperties
  <2>2. None \notin Nat /\ None \notin Content
    BY DEF StreamsAssumption, Buffers!BufferAssumption, Content
  <2> QED
    BY <2>1, <2>2 DEF Shows
<1>1. BufferTyped'
  BY <1>0 DEF BufferInv, BufferTyped
<1>2. /\ buf'[b] = x /\ start'[b] = s /\ end'[b] = e /\ data'[b] = d /\ pooled'[b] = p /\ source'[b] = o
      /\ \A c \in AllBuffers \ {b} : /\ buf'[c] = buf[c] /\ start'[c] = start[c] /\ end'[c] = end[c]
                                     /\ data'[c] = data[c] /\ pooled'[c] = pooled[c] /\ source'[c] = source[c]
  BY DEF BufferInv, BufferTyped
<1>3. Buffers!InUse(b)' /\ \A c \in AllBuffers \ {b} : Buffers!InUse(c)' <=> Buffers!InUse(c)
  BY <1>0, <1>2 DEF Buffers!InUse
<1>4. PoolKept'
  BY DEF BufferInv, PoolKept, Distinct, Elements
<1>5. Elements(pool)' = Elements(pool')
  BY DEF Elements
<1>6. Kept(b)'
  <2>1. o # None => o \in AllBuffers \ {b}
    OBVIOUS
  <2> QED
    BY <1>2, <1>3, <1>5, <2>1 DEF Kept
<1>7. ASSUME NEW c \in AllBuffers \ {b} PROVE Kept(c)'
  <2>1. Kept(c)
    BY DEF BufferInv
  <2>2. source[c] \in AllBuffers \union {None}
    BY DEF BufferInv, BufferTyped
  <2>3. buf'[c] # None => buf'[c] \in DOMAIN arrays'
    BY <1>2, <2>1 DEF Kept
  <2>4. pooled'[c] => Buffers!InUse(c)' /\ source'[c] = None
    BY <1>2, <1>3, <2>1 DEF Kept
  <2>5. ASSUME Buffers!InUse(c)
        PROVE  Shows(arrays'[buf'[c]], start'[c], end'[c], data'[c]) /\ buf'[c] \notin Elements(pool')
    BY <1>2, <2>1, <2>5 DEF Kept
  <2>6. ASSUME NEW r \in AllBuffers, r = source[c], Buffers!InUse(c), source[c] # None
        PROVE  Buffers!InUse(r)' /\ source'[r] = None /\ buf'[r] = buf'[c]
    <3>1. Buffers!InUse(r) /\ source[r] = None /\ buf[r] = buf[c]
      BY <2>1, <2>6 DEF Kept
    <3>2. CASE r = b
      BY <1>2, <1>3, <2>6, <3>2
    <3>3. CASE r # b
      BY <1>2, <1>3, <3>1, <3>3
    <3> QED
      BY <3>2, <3>3
  <2>7. (source[c] # None => Buffers!InUse(source[c]) /\ source[source[c]] = None /\ buf[source[c]] = buf[c])'
        <=> (source'[c] # None => /\ buf'[source'[c]] # None /\ data'[source'[c]] # None
                                  /\ source'[source'[c]] = None /\ buf'[source'[c]] = buf'[c])
    BY DEF Buffers!InUse
  <2>8. Buffers!InUse(c)' /\ source'[c] # None =>
          /\ buf'[source'[c]] # None /\ data'[source'[c]] # None
          /\ source'[source'[c]] = None /\ buf'[source'[c]] = buf'[c]
    BY <1>2, <1>3, <2>2, <2>6 DEF Buffers!InUse
  <2>9. (buf[c] \notin Elements(pool))' <=> buf'[c] \notin Elements(pool')
    BY <1>5
  <2> QED
    BY <1>2, <1>3, <2>3, <2>4, <2>5, <2>7, <2>8, <2>9 DEF Kept
<1>8. OneOwner'
  BY <1>2, <1>3 DEF BufferInv, OneOwner
<1> QED
  BY <1>1, <1>4, <1>6, <1>7, <1>8 DEF BufferInv

\* A buffer that is not in use has no slice in use.
LEMMA NoSlices ==
  ASSUME BufferInv, StreamsAssumption, NEW b \in AllBuffers, ~Buffers!InUse(b), NEW c \in AllBuffers, Buffers!InUse(c)
  PROVE  source[c] # b
<1>1. b # None
  BY DEF StreamsAssumption, Buffers!BufferAssumption
<1> QED
  BY <1>1 DEF BufferInv, Kept

\* New and Clone: an array of the pool, or a new one, that nobody shows.
LEMMA GetKeeps ==
  ASSUME BufferInv, StreamsAssumption, NEW b \in AllBuffers, ~Buffers!InUse(b),
         NEW bytes \in Content, Len(bytes) <= Cap, Buffers!Get(b, bytes), used' = used
  PROVE  BufferInv'
<1>1. Cap \in Nat /\ arrays \in Seq(Content) /\ pool \in Seq(Nat) /\ Distinct(pool) /\ used' \in Nat
  BY DEF StreamsAssumption, Buffers!BufferAssumption, BufferInv, BufferTyped, PoolKept
<1>2. Len(arrays) \in Nat /\ DOMAIN arrays = 1 .. Len(arrays)
  BY <1>1, LenProperties
<1>3. ASSUME NEW c \in AllBuffers, Buffers!InUse(c)
      PROVE  c # b /\ source[c] # b /\ buf[c] \in DOMAIN arrays /\ buf[c] \notin Elements(pool)
  BY <1>3, NoSlices DEF BufferInv, Kept, Buffers!InUse
<1>4. \A y \in Elements(pool) : y \in DOMAIN arrays /\ Len(arrays[y]) = Cap
  BY DEF BufferInv, PoolKept
<1>5. ASSUME NEW x, x \in DOMAIN arrays', x \notin Elements(pool'), buf' = [buf EXCEPT ![b] = x],
             Shows(arrays'[x], 0, Len(bytes), bytes), ArraysFor(b),
             pool' \in Seq(Nat), Distinct(pool'), Elements(pool') \subseteq Elements(pool),
             \A c \in AllBuffers : Buffers!InUse(c) => buf[c] # x
      PROVE  BufferInv'
  <2>1. Becomes(b, x, 0, Len(bytes), bytes, TRUE, None)
    BY <1>3, <1>5 DEF Becomes, Buffers!Get
  <2> QED
    BY <1>1, <1>5, <2>1, OneChanges
<1>6. ASSUME NEW k \in DOMAIN pool, buf' = [buf EXCEPT ![b] = pool[k]],
             pool' = SubSeq(pool, 1, k - 1) \o SubSeq(pool, k + 1, Len(pool)),
             arrays' = [arrays EXCEPT ![pool[k]] = Buffers!Put(@, 0, bytes)]
      PROVE  BufferInv'
  <2>1. PICK x : x = pool[k] /\ x \in Elements(pool)
    BY DEF Elements
  <2>2. x \in 1 .. Len(arrays) /\ arrays[x] \in Content /\ Len(arrays[x]) = Cap
    BY <1>1, <1>2, <1>4, <2>1, ElementOfSeq
  <2>3. /\ Buffers!Put(arrays[x], 0, bytes) \in Content /\ Len(Buffers!Put(arrays[x], 0, bytes)) = Cap
        /\ Shows(Buffers!Put(arrays[x], 0, bytes), 0, Len(bytes), bytes)
    BY <2>2, PutIs, ShowsFresh
  <2>4. /\ arrays' = [arrays EXCEPT ![x] = Buffers!Put(arrays[x], 0, bytes)]
        /\ arrays' \in Seq(Content) /\ DOMAIN arrays' = DOMAIN arrays
    BY <1>1, <1>6, <2>1, <2>2, <2>3, ExceptSeq
  <2>5. ArraysFor(b)
    BY <1>2, <1>3, <2>1, <2>2, <2>3, <2>4 DEF ArraysFor
  <2>6. pool' \in Seq(Nat) /\ Distinct(pool') /\ Elements(pool') = Elements(pool) \ {x}
    BY <1>1, <1>6, <2>1, TakenOut
  <2> QED
    BY <1>2, <1>3, <1>5, <1>6, <2>1, <2>2, <2>3, <2>4, <2>5, <2>6
<1>7. ASSUME buf' = [buf EXCEPT ![b] = Len(arrays) + 1], pool' = pool,
             arrays' = Append(arrays, Buffers!Put(Buffers!Zeros(Cap), 0, bytes))
      PROVE  BufferInv'
  <2>1. PICK a \in Content : a = Buffers!Put(Buffers!Zeros(Cap), 0, bytes) /\ Shows(a, 0, Len(bytes), bytes)
    BY <1>1, ZerosAre, PutIs, ShowsFresh
  <2>2. PICK x \in Nat : x = Len(arrays) + 1
    BY <1>2
  <2>3. /\ arrays' \in Seq(Content) /\ DOMAIN arrays' = 1 .. Len(arrays) + 1 /\ arrays'[x] = a
        /\ \A y \in 1 .. Len(arrays) : arrays'[y] = arrays[y]
    <3>1. arrays' = Append(arrays, a)
      BY <1>7, <2>1
    <3>2. /\ Append(arrays, a) \in Seq(Content) /\ Len(Append(arrays, a)) = Len(arrays) + 1
          /\ Append(arrays, a)[Len(arrays) + 1] = a /\ \A y \in 1 .. Len(arrays) : Append(arrays, a)[y] = arrays[y]
      BY <1>1, AppendProperties
    <3> QED
      BY <2>2, <3>1, <3>2, LenProperties
  <2>4. x \in DOMAIN arrays' /\ x \notin DOMAIN arrays
    BY <1>2, <2>2, <2>3
  <2>5. ArraysFor(b)
    BY <1>2, <1>3, <2>3 DEF ArraysFor
  <2>6. pool' \in Seq(Nat) /\ Distinct(pool') /\ Elements(pool') = Elements(pool) /\ x \notin Elements(pool')
    BY <1>1, <1>4, <1>7, <2>4
  <2>7. \A c \in AllBuffers : Buffers!InUse(c) => buf[c] # x
    BY <1>3, <2>4
  <2>8. buf' = [buf EXCEPT ![b] = x] /\ Shows(arrays'[x], 0, Len(bytes), bytes)
    BY <1>7, <2>1, <2>2, <2>3
  <2> QED
    BY <1>5, <2>4, <2>5, <2>6, <2>7, <2>8
<1> QED
  BY <1>6, <1>7 DEF Buffers!Get

\* What is known of a buffer in use.
LEMMA UsedBuffer ==
  ASSUME BufferInv, NEW b \in AllBuffers, Buffers!InUse(b)
  PROVE  /\ Shows(arrays[buf[b]], start[b], end[b], data[b]) /\ buf[b] \notin Elements(pool)
         /\ buf[b] \in 1 .. Len(arrays) /\ DOMAIN arrays = 1 .. Len(arrays) /\ arrays[buf[b]] \in Content
         /\ Buffers!Bytes(b) = data[b] /\ data[b] \in Content
         /\ source[b] # None => Buffers!InUse(source[b]) /\ source[source[b]] = None /\ buf[source[b]] = buf[b]
<1>1. Kept(b) /\ arrays \in Seq(Content)
  BY DEF BufferInv, BufferTyped
<1>2. DOMAIN arrays = 1 .. Len(arrays)
  BY <1>1, LenProperties
<1>3. buf[b] \in 1 .. Len(arrays) /\ Shows(arrays[buf[b]], start[b], end[b], data[b])
  BY <1>1, <1>2 DEF Kept, Buffers!InUse
<1>4. Buffers!Bytes(b) = data[b]
  BY <1>3, ShowsBytes DEF Buffers!Bytes
<1> QED
  BY <1>1, <1>2, <1>3, <1>4 DEF Kept, Shows

\* Clone: what fits is a content for a new array.
LEMMA CloneKeeps ==
  ASSUME BufferInv, StreamsAssumption, NEW b \in AllBuffers, NEW of \in AllBuffers, Buffers!Clone(b, of)
  PROVE  BufferInv'
<1>1. Buffers!InUse(of) /\ ~Buffers!InUse(b) /\ used' = used
  BY DEF Buffers!Clone
<1>2. data[of] \in Content /\ Buffers!Bytes(of) = data[of] /\ Len(data[of]) \in Nat /\ Cap \in Nat
  BY <1>1, UsedBuffer, LenProperties DEF Content, StreamsAssumption, Buffers!BufferAssumption
<1> DEFINE n == Buffers!Least(Cap, Len(data[of]))
<1>3. n \in Nat /\ n <= Cap /\ n <= Len(data[of])
  BY <1>2 DEF Buffers!Least
<1> HIDE DEF n
<1>4. SubSeq(data[of], 0 + 1, n) \in Content /\ Len(SubSeq(data[of], 0 + 1, n)) = n - 0
  <2>1. 0 <= n /\ 0 \in Nat
    BY <1>3
  <2> QED
    BY <1>2, <1>3, <2>1, PartOf, Zenon
<1>5. SubSeq(data[of], 1, n) \in Content /\ Len(SubSeq(data[of], 1, n)) <= Cap
  BY <1>3, <1>4
<1>6. Buffers!Get(b, SubSeq(data[of], 1, n))
  BY <1>2 DEF Buffers!Clone, n
<1> QED
  BY <1>1, <1>5, <1>6, GetKeeps

\* Write, and ReadFullFrom where there is room: bytes are put behind the end.
LEMMA AppendKeeps ==
  ASSUME BufferInv, StreamsAssumption, NEW b \in AllBuffers, Buffers!InUse(b), source[b] = None,
         \A c \in AllBuffers : ~(Buffers!InUse(c) /\ source[c] = b),
         NEW bytes \in Content, end[b] + Len(bytes) <= Buffers!Size(b), used' \in Nat,
         arrays' = [arrays EXCEPT ![buf[b]] = Buffers!Put(@, end[b], bytes)],
         end' = [end EXCEPT ![b] = @ + Len(bytes)], data' = [data EXCEPT ![b] = @ \o bytes],
         UNCHANGED <<pool, buf, start, pooled, source>>
  PROVE  BufferInv'
<1>1. BufferTyped /\ Distinct(pool)
  BY DEF BufferInv, PoolKept
<1>2. PICK x : x = buf[b]
  OBVIOUS
<1>3. /\ x \in 1 .. Len(arrays) /\ DOMAIN arrays = 1 .. Len(arrays) /\ arrays[x] \in Content /\ x \notin Elements(pool)
      /\ Shows(arrays[x], start[b], end[b], data[b]) /\ end[b] \in Nat
  BY <1>1, <1>2, UsedBuffer DEF BufferTyped
<1>4. /\ Buffers!Put(arrays[x], end[b], bytes) \in Content
      /\ Len(Buffers!Put(arrays[x], end[b], bytes)) = Len(arrays[x])
      /\ Shows(Buffers!Put(arrays[x], end[b], bytes), start[b], end[b] + Len(bytes), data[b] \o bytes)
  BY <1>2, <1>3, PutIs, ShowsWrite DEF Buffers!Size
<1>5. /\ arrays' = [arrays EXCEPT ![x] = Buffers!Put(arrays[x], end[b], bytes)]
      /\ arrays' \in Seq(Content) /\ DOMAIN arrays' = DOMAIN arrays
  BY <1>1, <1>2, <1>3, <1>4, ExceptSeq DEF BufferTyped
<1>6. ASSUME NEW c \in AllBuffers \ {b}, Buffers!InUse(c) PROVE buf[c] # x
  <2>1. CASE source[c] = None
    BY <1>2, <1>6, <2>1 DEF BufferInv, OneOwner
  <2>2. CASE source[c] # None
    <3>1. PICK r \in AllBuffers : r = source[c]
      BY <1>1, <2>2 DEF BufferTyped
    <3>2. r # b /\ Buffers!InUse(r) /\ source[r] = None /\ buf[r] = buf[c]
      BY <1>6, <2>2, <3>1, UsedBuffer
    <3> QED
      BY <1>2, <3>2 DEF BufferInv, OneOwner
  <2> QED
    BY <2>1, <2>2
<1>7. ArraysFor(b)
  <2>1. ASSUME NEW y \in DOMAIN arrays PROVE Len(arrays'[y]) = Len(arrays[y])
    <3>1. CASE y = x
      BY <3>1, <1>4, <1>5
    <3>2. CASE y # x
      BY <3>2, <1>5
    <3> QED
      BY <3>1, <3>2
  <2>2. ASSUME NEW c \in AllBuffers \ {b}, Buffers!InUse(c) PROVE arrays'[buf[c]] = arrays[buf[c]]
    <3>1. buf[c] # x
      BY <2>2, <1>6
    <3>2. buf[c] \in DOMAIN arrays
      BY <2>2, UsedBuffer
    <3> QED
      BY <3>1, <3>2, <1>5
  <2> QED
    BY <2>1, <2>2, <1>5 DEF ArraysFor
<1>8. Shows(arrays'[x], start[b], end[b] + Len(bytes), data[b] \o bytes) /\ x \in DOMAIN arrays'
  BY <1>3, <1>4, <1>5
<1>9. Becomes(b, x, start[b], end[b] + Len(bytes), data[b] \o bytes, pooled[b], None)
  BY <1>1, <1>2, <1>3, <1>6, <1>8 DEF Becomes, BufferTyped
<1> QED
  <2>1. pooled[b] \in BOOLEAN /\ pool' \in Seq(Nat) /\ Distinct(pool') /\ Elements(pool') \subseteq Elements(pool)
    BY <1>1 DEF BufferTyped
  <2> QED
    BY <1>7, <1>9, <2>1, OneChanges

\* The bytes of one Write, numbered.
LEMMA NumberedBytes ==
  ASSUME NEW n \in Nat, NEW u \in Nat
  PROVE  [i \in 1 .. n |-> u + i] \in Content /\ Len([i \in 1 .. n |-> u + i]) = n
<1> DEFINE f == [i \in 1 .. n |-> u + i]
<1>1. f \in [1 .. n -> Nat]
  OBVIOUS
<1>2. f \in Seq(Nat) /\ DOMAIN f = 1 .. n
  BY <1>1, SeqOf
<1> HIDE DEF f
<1>3. f \in Content /\ Len(f) = n
  BY <1>2, LenProperties DEF Content
<1> QED
  BY <1>3 DEF f

\* Write: what fits is put behind the end.
LEMMA WriteKeeps ==
  ASSUME BufferInv, StreamsAssumption, NEW b \in AllBuffers, Buffers!Write(b)
  PROVE  BufferInv'
<1>1. /\ Buffers!InUse(b) /\ source[b] = None /\ \A c \in AllBuffers : ~(Buffers!InUse(c) /\ source[c] = b)
      /\ UNCHANGED <<pool, buf, start, pooled, source>>
  BY DEF Buffers!Write
<1>2. used \in Nat /\ BufferBytes \in Nat
  BY DEF BufferInv, BufferTyped, StreamsAssumption, Buffers!BufferAssumption
<1>3. end[b] \in Nat /\ Buffers!Size(b) \in Nat /\ end[b] <= Buffers!Size(b)
  BY <1>1, UsedBuffer, LenProperties DEF Shows, Buffers!Size, Content
<1>4. PICK n \in 1 .. BufferBytes - used :
        LET bytes == [i \in 1 .. Buffers!Least(n, Buffers!Size(b) - end[b]) |-> used + i]
        IN /\ arrays' = [arrays EXCEPT ![buf[b]] = Buffers!Put(@, end[b], bytes)]
           /\ end' = [end EXCEPT ![b] = @ + Len(bytes)]
           /\ data' = [data EXCEPT ![b] = @ \o bytes]
           /\ used' = used + n
  BY DEF Buffers!Write
<1> DEFINE m == Buffers!Least(n, Buffers!Size(b) - end[b])
           bytes == [i \in 1 .. m |-> used + i]
<1>5. m \in Nat /\ end[b] + m <= Buffers!Size(b) /\ used' \in Nat
  BY <1>2, <1>3, <1>4 DEF Buffers!Least
<1>6. bytes \in Content /\ Len(bytes) = m
  <2> HIDE DEF m
  <2> QED
    BY <1>2, <1>5, NumberedBytes
<1>7. /\ arrays' = [arrays EXCEPT ![buf[b]] = Buffers!Put(@, end[b], bytes)]
      /\ end' = [end EXCEPT ![b] = @ + Len(bytes)] /\ data' = [data EXCEPT ![b] = @ \o bytes]
  BY <1>4
<1> HIDE DEF m, bytes
<1>8. end[b] + Len(bytes) <= Buffers!Size(b)
  BY <1>5, <1>6
<1> QED
  BY <1>1, <1>5, <1>6, <1>7, <1>8, AppendKeeps

\* Read of any buffer in use, a slice or one that has slices too.
LEMMA ReadKeeps ==
  ASSUME BufferInv, StreamsAssumption, NEW b \in AllBuffers, Buffers!Read(b)
  PROVE  BufferInv'
<1>1. Buffers!InUse(b) /\ UNCHANGED <<arrays, pool, buf, end, pooled, source, used>>
  BY DEF Buffers!Read
<1>2. PICK n \in 1 .. end[b] - start[b] :
        /\ start' = [start EXCEPT ![b] = @ + n]
        /\ data' = [data EXCEPT ![b] = SubSeq(@, n + 1, Len(@))]
  BY DEF Buffers!Read
<1>3. BufferTyped /\ Distinct(pool)
  BY DEF BufferInv, PoolKept
<1> DEFINE d == SubSeq(data[b], n + 1, Len(data[b]))
<1>4. Shows(arrays[buf[b]], start[b] + n, end[b], d) /\ buf[b] \notin Elements(pool) /\ buf[b] \in DOMAIN arrays
  BY <1>1, UsedBuffer, ShowsRead
<1>5. data' = [data EXCEPT ![b] = d] /\ start' = [start EXCEPT ![b] = start[b] + n]
  BY <1>2, <1>3 DEF BufferTyped
<1> HIDE DEF d
<1>6. source[b] # None => Buffers!InUse(source[b]) /\ source[source[b]] = None /\ buf[source[b]] = buf[b]
  BY <1>1, UsedBuffer
<1>7. ASSUME NEW c \in AllBuffers \ {b}, Buffers!InUse(c), source[c] = b PROVE source[b] = None /\ buf[c] = buf[b]
  <2>1. b # None
    BY DEF StreamsAssumption, Buffers!BufferAssumption
  <2> QED
    BY <1>7, <2>1, UsedBuffer
<1>8. pooled[b] => source[b] = None
  BY DEF BufferInv, Kept
<1>9. source[b] = None => \A c \in AllBuffers \ {b} : Buffers!InUse(c) /\ source[c] = None => buf[c] # buf[b]
  BY <1>1 DEF BufferInv, OneOwner
<1>10. Becomes(b, buf[b], start[b] + n, end[b], d, pooled[b], source[b])
  BY <1>1, <1>3, <1>4, <1>5, <1>6, <1>7, <1>8, <1>9 DEF Becomes, BufferTyped
<1>11. ArraysFor(b)
  BY <1>1, <1>3 DEF ArraysFor, BufferTyped
<1> QED
  <2>1. /\ pooled[b] \in BOOLEAN /\ pool' \in Seq(Nat) /\ Distinct(pool') /\ Elements(pool') \subseteq Elements(pool)
        /\ source[b] \in AllBuffers \union {None} /\ used' \in Nat
    BY <1>1, <1>3 DEF BufferTyped
  <2> QED
    BY <1>10, <1>11, <2>1, OneChanges

\* Slice, also of a slice, whose source is then that of both.
LEMMA SliceKeeps ==
  ASSUME BufferInv, StreamsAssumption, NEW b \in AllBuffers, NEW of \in AllBuffers, Buffers!Slice(b, of)
  PROVE  BufferInv'
<1>1. /\ ~Buffers!InUse(b) /\ Buffers!InUse(of) /\ UNCHANGED <<arrays, pool, used>>
      /\ buf' = [buf EXCEPT ![b] = buf[of]] /\ pooled' = [pooled EXCEPT ![b] = FALSE]
  BY DEF Buffers!Slice
<1>2. Buffers!Bytes(of) = data[of] /\ Shows(arrays[buf[of]], start[of], end[of], data[of])
  BY <1>1, UsedBuffer
<1>3. PICK f \in 0 .. Len(data[of]), t \in 0 .. Len(data[of]) :
        /\ f <= t
        /\ start' = [start EXCEPT ![b] = start[of] + f] /\ end' = [end EXCEPT ![b] = start[of] + t]
        /\ data' = [data EXCEPT ![b] = SubSeq(data[of], f + 1, t)]
  BY <1>2 DEF Buffers!Slice
<1>4. PICK o : o = IF source[of] = None THEN of ELSE source[of]
  OBVIOUS
<1>5. source' = [source EXCEPT ![b] = o]
  BY <1>4 DEF Buffers!Slice
<1>6. BufferTyped /\ Distinct(pool)
  BY DEF BufferInv, PoolKept
<1>7. o \in AllBuffers /\ Buffers!InUse(o) /\ source[o] = None /\ buf[o] = buf[of] /\ o # b /\ o # None
  <2>1. source[of] \in AllBuffers \union {None} /\ None \notin AllBuffers
    BY <1>6 DEF BufferTyped, StreamsAssumption, Buffers!BufferAssumption
  <2>2. CASE source[of] = None
    BY <1>1, <1>4, <2>1, <2>2
  <2>3. CASE source[of] # None
    BY <1>1, <1>4, <2>1, <2>3, UsedBuffer
  <2> QED
    BY <2>2, <2>3
<1>8. /\ Shows(arrays[buf[of]], start[of] + f, start[of] + t, SubSeq(data[of], f + 1, t))
      /\ buf[of] \notin Elements(pool) /\ buf[of] \in DOMAIN arrays
  <2>1. f \in Nat /\ t \in Nat /\ f <= t /\ t <= end[of] - start[of]
    BY <1>2, <1>3 DEF Shows
  <2> QED
    BY <1>1, <1>2, <2>1, UsedBuffer, ShowsSlice
<1>9. \A c \in AllBuffers : Buffers!InUse(c) => source[c] # b
  BY <1>1, NoSlices
<1>10. Becomes(b, buf[of], start[of] + f, start[of] + t, SubSeq(data[of], f + 1, t), FALSE, o)
  BY <1>1, <1>3, <1>5, <1>7, <1>8, <1>9 DEF Becomes
<1>11. ArraysFor(b)
  BY <1>1, <1>6 DEF ArraysFor, BufferTyped
<1> QED
  <2>1. pool' \in Seq(Nat) /\ Distinct(pool') /\ Elements(pool') \subseteq Elements(pool) /\ used' \in Nat
    BY <1>1, <1>6 DEF BufferTyped
  <2> QED
    BY <1>7, <1>10, <1>11, <2>1, OneChanges

\* ReadFullFrom, to a new array: the old one is shown by nobody.
LEMMA GrowKeeps ==
  ASSUME BufferInv, StreamsAssumption, NEW b \in AllBuffers, Buffers!InUse(b), source[b] = None,
         \A c \in AllBuffers : ~(Buffers!InUse(c) /\ source[c] = b),
         NEW bytes \in Content, NEW size \in Nat, Len(bytes) <= size, used' \in Nat,
         arrays' = Append(arrays, Buffers!Put(Buffers!Put(Buffers!Zeros(end[b] + size), 0, data[b]), end[b], bytes)),
         buf' = [buf EXCEPT ![b] = Len(arrays) + 1], start' = [start EXCEPT ![b] = 0],
         pooled' = [pooled EXCEPT ![b] = FALSE], end' = [end EXCEPT ![b] = @ + Len(bytes)],
         data' = [data EXCEPT ![b] = @ \o Buffers!Zeros(start[b]) \o bytes],
         UNCHANGED <<pool, source>>
  PROVE  BufferInv'
<1>1. BufferTyped /\ PoolKept /\ arrays \in Seq(Content) /\ Len(arrays) \in Nat
  BY LenProperties DEF BufferInv, BufferTyped
<1> DEFINE a == Buffers!Put(Buffers!Put(Buffers!Zeros(end[b] + size), 0, data[b]), end[b], bytes)
           d == data[b] \o Buffers!Zeros(start[b]) \o bytes
<1>2. Shows(a, 0, end[b] + Len(bytes), d)
  BY UsedBuffer, ShowsGrown
<1>3. data' = [data EXCEPT ![b] = d] /\ end' = [end EXCEPT ![b] = end[b] + Len(bytes)]
  BY <1>1 DEF BufferTyped
<1>4. arrays' = Append(arrays, a)
  OBVIOUS
<1> HIDE DEF a, d
<1>5. PICK x \in Nat : x = Len(arrays) + 1
  BY <1>1
<1>6. /\ arrays' \in Seq(Content) /\ DOMAIN arrays' = 1 .. x /\ DOMAIN arrays = 1 .. Len(arrays)
      /\ arrays'[x] = a /\ \A y \in 1 .. Len(arrays) : arrays'[y] = arrays[y]
  <2>1. a \in Content
    BY <1>2 DEF Shows
  <2>2. /\ Append(arrays, a) \in Seq(Content) /\ Len(Append(arrays, a)) = Len(arrays) + 1
        /\ Append(arrays, a)[Len(arrays) + 1] = a /\ \A y \in 1 .. Len(arrays) : Append(arrays, a)[y] = arrays[y]
    BY <1>1, <2>1, AppendProperties
  <2> QED
    BY <1>1, <1>4, <1>5, <2>2, LenProperties
<1>7. x \in DOMAIN arrays' /\ x \notin DOMAIN arrays
  BY <1>1, <1>5, <1>6
<1>8. \A c \in AllBuffers : Buffers!InUse(c) => buf[c] \in DOMAIN arrays
  BY UsedBuffer
<1>9. ArraysFor(b)
  BY <1>1, <1>5, <1>6, <1>8 DEF ArraysFor
<1>10. /\ pool' \in Seq(Nat) /\ Distinct(pool') /\ Elements(pool') \subseteq Elements(pool) /\ x \notin Elements(pool')
  BY <1>1, <1>7 DEF BufferTyped, PoolKept
<1>11. Becomes(b, x, 0, end[b] + Len(bytes), d, FALSE, None)
  <2>1. buf' = [buf EXCEPT ![b] = x] /\ source' = [source EXCEPT ![b] = None]
    BY <1>1, <1>5 DEF BufferTyped
  <2>2. Shows(arrays'[x], 0, end[b] + Len(bytes), d)
    BY <1>2, <1>6
  <2>3. \A c \in AllBuffers : Buffers!InUse(c) => buf[c] # x
    BY <1>7, <1>8
  <2> QED
    BY <1>3, <1>7, <1>10, <2>1, <2>2, <2>3 DEF Becomes
<1> QED
  BY <1>9, <1>10, <1>11, OneChanges

\* ReadFullFrom, with and without a new array.
LEMMA ReadFullKeeps ==
  ASSUME BufferInv, StreamsAssumption, NEW b \in AllBuffers, Buffers!ReadFullFrom(b)
  PROVE  BufferInv'
<1>1. /\ Buffers!InUse(b) /\ source[b] = None /\ \A c \in AllBuffers : ~(Buffers!InUse(c) /\ source[c] = b)
      /\ UNCHANGED <<pool, source>>
  BY DEF Buffers!ReadFullFrom
<1>2. used \in Nat /\ BufferBytes \in Nat
  BY DEF BufferInv, BufferTyped, StreamsAssumption, Buffers!BufferAssumption
<1>3. /\ Buffers!Bytes(b) = data[b] /\ data[b] \in Content /\ end[b] \in Nat /\ start[b] \in Nat
      /\ Buffers!Size(b) \in Nat /\ end[b] <= Buffers!Size(b)
  BY <1>1, UsedBuffer, LenProperties DEF Shows, Buffers!Size, Content
<1>4. PICK size \in 1 .. BufferBytes - used, n \in 0 .. BufferBytes - used :
        /\ n <= size
        /\ LET bytes == [i \in 1 .. n |-> used + i]
               grows == end[b] + size > Buffers!Size(b)
           IN /\ IF grows
                 THEN /\ arrays' = Append(arrays, Buffers!Put(Buffers!Put(Buffers!Zeros(end[b] + size), 0,
                                                                         Buffers!Bytes(b)), end[b], bytes))
                      /\ buf' = [buf EXCEPT ![b] = Len(arrays) + 1] /\ start' = [start EXCEPT ![b] = 0]
                      /\ pooled' = [pooled EXCEPT ![b] = FALSE]
                 ELSE /\ arrays' = [arrays EXCEPT ![buf[b]] = Buffers!Put(@, end[b], bytes)]
                      /\ UNCHANGED <<buf, start, pooled>>
              /\ end' = [end EXCEPT ![b] = @ + n] /\ used' = used + n
              /\ data' = [data EXCEPT ![b] = @ \o (IF grows THEN Buffers!Zeros(start[b]) ELSE <<>>) \o bytes]
  BY DEF Buffers!ReadFullFrom
<1> DEFINE bytes == [i \in 1 .. n |-> used + i]
<1>5. size \in Nat /\ n \in Nat /\ used' \in Nat
  BY <1>2, <1>4
<1>6. bytes \in Content /\ Len(bytes) = n
  BY <1>2, <1>5, NumberedBytes
<1>7. CASE end[b] + size > Buffers!Size(b)
  <2>1. /\ arrays' = Append(arrays, Buffers!Put(Buffers!Put(Buffers!Zeros(end[b] + size), 0, data[b]), end[b], bytes))
        /\ buf' = [buf EXCEPT ![b] = Len(arrays) + 1] /\ start' = [start EXCEPT ![b] = 0]
        /\ pooled' = [pooled EXCEPT ![b] = FALSE] /\ end' = [end EXCEPT ![b] = @ + n]
        /\ data' = [data EXCEPT ![b] = @ \o Buffers!Zeros(start[b]) \o bytes]
    BY <1>3, <1>4, <1>7
  <2> HIDE DEF bytes
  <2>2. end' = [end EXCEPT ![b] = @ + Len(bytes)] /\ Len(bytes) <= size
    BY <1>4, <1>6, <2>1
  <2> QED
    BY <1>1, <1>5, <1>6, <2>1, <2>2, GrowKeeps
<1>8. CASE ~(end[b] + size > Buffers!Size(b))
  <2>1. /\ arrays' = [arrays EXCEPT ![buf[b]] = Buffers!Put(@, end[b], bytes)] /\ UNCHANGED <<buf, start, pooled>>
        /\ end' = [end EXCEPT ![b] = @ + n] /\ data' = [data EXCEPT ![b] = @ \o <<>> \o bytes]
    BY <1>4, <1>8
  <2> HIDE DEF bytes
  <2>2. data[b] \o <<>> = data[b]
    BY <1>3, ConcatEmptySeq DEF Content
  <2>3. end' = [end EXCEPT ![b] = @ + Len(bytes)] /\ data' = [data EXCEPT ![b] = @ \o bytes]
    BY <1>6, <2>1, <2>2
  <2>4. end[b] + Len(bytes) <= Buffers!Size(b)
    BY <1>3, <1>4, <1>5, <1>6, <1>8
  <2> QED
    BY <1>1, <1>5, <1>6, <2>1, <2>3, <2>4, AppendKeeps
<1> QED
  BY <1>7, <1>8

\* Release: the array goes to the pool if the buffer is the one to give it back, and
\* then nobody shows it any more.
LEMMA ReleaseKeeps ==
  ASSUME BufferInv, StreamsAssumption, NEW b \in AllBuffers, Buffers!Release(b)
  PROVE  BufferInv'
<1>1. BufferTyped /\ PoolKept /\ Kept(b)
  BY DEF BufferInv
<1>2. /\ buf[b] # None /\ UNCHANGED <<arrays, buf, source, used>>
      /\ pooled' = [pooled EXCEPT ![b] = FALSE]
      /\ data' = [c \in AllBuffers |-> IF c = b \/ source[c] = b THEN None ELSE data[c]]
      /\ \A c \in AllBuffers \ {b} : start'[c] = start[c] /\ end'[c] = end[c]
      /\ start' \in [AllBuffers -> Nat] /\ end' \in [AllBuffers -> Nat]
  BY <1>1 DEF Buffers!Release, BufferTyped
<1>3. /\ \A c \in AllBuffers : Buffers!InUse(c)' <=> Buffers!InUse(c) /\ c # b /\ source[c] # b
      /\ \A c \in AllBuffers : Buffers!InUse(c)' => data'[c] = data[c]
  BY <1>2 DEF Buffers!InUse
<1>4. /\ pool' \in Seq(Nat) /\ Distinct(pool')
      /\ \A x \in Elements(pool') : x \in DOMAIN arrays /\ Len(arrays[x]) = Cap
      /\ \A c \in AllBuffers : Buffers!InUse(c)' => buf[c] \notin Elements(pool')
  <2>1. ASSUME NEW c \in AllBuffers, Buffers!InUse(c)' PROVE buf[c] \notin Elements(pool)
    BY <1>3, <2>1, UsedBuffer
  <2>2. CASE pool' = pool
    BY <1>1, <2>1, <2>2 DEF BufferTyped, PoolKept
  <2>3. CASE pooled[b] /\ Buffers!Size(b) = Cap /\ pool' = Append(pool, buf[b])
    <3>1. /\ Buffers!InUse(b) /\ source[b] = None /\ buf[b] \in DOMAIN arrays /\ buf[b] \notin Elements(pool)
          /\ buf[b] \in Nat /\ Len(arrays[buf[b]]) = Cap
      <4>1. Buffers!InUse(b) /\ source[b] = None
        BY <1>1, <2>3 DEF Kept
      <4>2. buf[b] \in 1 .. Len(arrays) /\ DOMAIN arrays = 1 .. Len(arrays) /\ buf[b] \notin Elements(pool)
        BY <4>1, UsedBuffer
      <4> QED
        BY <2>3, <4>1, <4>2 DEF Buffers!Size
    <3>2. pool' \in Seq(Nat) /\ Distinct(pool') /\ Elements(pool') = Elements(pool) \union {buf[b]}
      BY <1>1, <2>3, <3>1, DistinctAppend DEF BufferTyped, PoolKept
    <3>3. ASSUME NEW c \in AllBuffers, Buffers!InUse(c)' PROVE buf[c] # buf[b]
      <4>1. Buffers!InUse(c) /\ c # b /\ source[c] # b
        BY <1>3, <3>3
      <4>2. CASE source[c] = None
        BY <3>1, <4>1, <4>2 DEF BufferInv, OneOwner
      <4>3. CASE source[c] # None
        <5>1. PICK r \in AllBuffers : r = source[c]
          BY <1>1, <4>3 DEF BufferTyped
        <5>2. r # b /\ Buffers!InUse(r) /\ source[r] = None /\ buf[r] = buf[c]
          BY <4>1, <4>3, <5>1, UsedBuffer
        <5> QED
          BY <3>1, <5>2 DEF BufferInv, OneOwner
      <4> QED
        BY <4>2, <4>3
    <3> QED
      BY <1>1, <2>1, <3>1, <3>2, <3>3 DEF PoolKept
  <2> QED
    BY <2>2, <2>3 DEF Buffers!Release
<1>5. Elements(pool)' = Elements(pool') /\ (Distinct(pool))' = Distinct(pool')
  BY DEF Elements, Distinct
<1>6. BufferTyped' /\ PoolKept' /\ OneOwner'
  <2>1. BufferTyped'
    BY <1>1, <1>2, <1>4 DEF BufferTyped
  <2>2. PoolKept'
    BY <1>2, <1>4, <1>5 DEF PoolKept
  <2>3. OneOwner'
    BY <1>2, <1>3 DEF BufferInv, OneOwner
  <2> QED
    BY <2>1, <2>2, <2>3
<1>7. ASSUME NEW c \in AllBuffers PROVE Kept(c)'
  <2>1. Kept(c) /\ source[c] \in AllBuffers \union {None} /\ b # None
    BY <1>1 DEF BufferInv, BufferTyped, StreamsAssumption, Buffers!BufferAssumption
  <2>2. pooled'[c] => Buffers!InUse(c)' /\ source'[c] = None
    BY <1>1, <1>2, <1>3, <2>1 DEF Kept, BufferTyped
  <2>3. ASSUME Buffers!InUse(c)'
        PROVE  Shows(arrays'[buf'[c]], start'[c], end'[c], data'[c]) /\ buf'[c] \notin Elements(pool')
    BY <1>2, <1>3, <1>4, <2>1, <2>3 DEF Kept
  <2>4. ASSUME NEW r \in AllBuffers, r = source[c], Buffers!InUse(c)', source[c] # None
        PROVE  Buffers!InUse(r)' /\ source'[r] = None /\ buf'[r] = buf'[c]
    <3>1. Buffers!InUse(r) /\ source[r] = None /\ buf[r] = buf[c] /\ r # b
      BY <1>3, <2>1, <2>4 DEF Kept
    <3> QED
      BY <1>2, <1>3, <2>1, <3>1
  <2>5. Buffers!InUse(c)' /\ source'[c] # None =>
          /\ buf'[source'[c]] # None /\ data'[source'[c]] # None
          /\ source'[source'[c]] = None /\ buf'[source'[c]] = buf'[c]
    BY <1>2, <2>1, <2>4 DEF Buffers!InUse
  <2>6. (source[c] # None => Buffers!InUse(source[c]) /\ source[source[c]] = None /\ buf[source[c]] = buf[c])'
        <=> (source'[c] # None => /\ buf'[source'[c]] # None /\ data'[source'[c]] # None
                                  /\ source'[source'[c]] = None /\ buf'[source'[c]] = buf'[c])
    BY DEF Buffers!InUse
  <2>7. buf'[c] # None => buf'[c] \in DOMAIN arrays'
    BY <1>2, <2>1 DEF Kept
  <2> QED
    BY <1>5, <2>2, <2>3, <2>5, <2>6, <2>7 DEF Kept
<1> QED
  BY <1>6, <1>7 DEF BufferInv

\* Every operation on buffers keeps the invariant ...
LEMMA BufferNext ==
  ASSUME BufferInv, StreamsAssumption, Buffers!Next \/ UNCHANGED bufferVars
  PROVE  BufferInv'
<1>1. ASSUME NEW b \in AllBuffers, Buffers!New(b) PROVE BufferInv'
  <2>1. <<>> \in Content /\ Len(<<>>) = 0 /\ Cap \in Nat
    BY DEF Content, StreamsAssumption, Buffers!BufferAssumption
  <2>2. <<>> \in Content /\ Len(<<>>) <= Cap
    BY <2>1
  <2> QED
    BY <1>1, <2>2, GetKeeps DEF Buffers!New
<1>2. ASSUME UNCHANGED bufferVars PROVE BufferInv'
  BY <1>2 DEF bufferVars, BufferInv, BufferTyped, PoolKept, Kept, OneOwner, Elements, Distinct, Buffers!InUse
<1> QED
  BY <1>1, <1>2, WriteKeeps, ReadKeeps, ReadFullKeeps, ReleaseKeeps, CloneKeeps, SliceKeeps DEF Buffers!Next

\* ... which holds when there are none.
LEMMA BufferStart ==
  ASSUME Buffers!Init, StreamsAssumption
  PROVE  BufferInv
<1>1. BufferTyped
  BY DEF Buffers!Init, BufferTyped, Content
<1>2. PoolKept
  BY DEF Buffers!Init, PoolKept, Elements, Distinct
<1>3. \A b \in AllBuffers : ~Buffers!InUse(b) /\ ~pooled[b] /\ buf[b] = None
  BY DEF Buffers!Init, Buffers!InUse
<1> QED
  BY <1>1, <1>2, <1>3 DEF BufferInv, Kept, OneOwner

(***************************************************************************)
(* The theorems                                                            *)
(***************************************************************************)
StreamsInv == LinesInv /\ QuicInv /\ DialerInv /\ BufferInv

\* The start of the four parts.
LEMMA StreamsStart ==
  ASSUME StreamsAssumption, MCInit
  PROVE  StreamsInv
<1>1. LinesInv
  <2>1. (CHOOSE t \in Tags : TRUE) \in Tags
    BY DEF StreamsAssumption, Lines!LinesAssumption
  <2>2. LinesTyped
    BY <2>1 DEF MCInit, Lines!Init, LinesTyped
  <2>3. lines = {} /\ addresses = <<>> /\ \A c \in Callers : call[c] = "idle"
    BY DEF MCInit, Lines!Init
  <2>4. CountedSince
    BY <2>3 DEF CountedSince
  <2>5. \A t \in Tags : Busy(t) = {}
    BY <2>3 DEF Busy
  <2>6. CallsAgree
    BY <2>3, <2>5 DEF CallsAgree
  <2> QED
    BY <2>2, <2>4, <2>6 DEF LinesInv
<1>2. QuicInv
  BY DEF MCInit, Quic!Init, QuicInv, QuicTyped, StreamPlaced, Distinct, Elements
<1>3. DialerInv
  <2>1. DialerTyped
    <3>1. alive \in [DialTags -> BOOLEAN] /\ dialLines \subseteq DialTags
      BY DEF MCInit, Dialer!Init, StreamsAssumption, Dialer!DialerAssumption
    <3>2. /\ resultCh \in Seq(Dialer!Targets) /\ left \in Nat
          /\ dial \in [Dialer!Targets -> {"none", "dialing", "send", "done"}]
          /\ dialConn \in [Dialer!Targets -> {"none", "open", "closed"}]
      BY DEF MCInit, Dialer!Init
    <3>3. /\ steady \in BOOLEAN /\ firstErr \in BOOLEAN /\ ctx = "live" /\ dialPc = "start" /\ firstConn = None
          /\ preference \in {"IPv4Only", "IPv6Only", "PreferIPv4", "PreferIPv6", "DualStack"}
      BY Zenon DEF MCInit, Dialer!Init
    <3> QED
      BY <3>1, <3>2, <3>3, Zenon DEF DialerTyped
  <2>2. ResultsKept /\ TriedInTurn /\ Waits /\ ConnOrError
    BY DEF MCInit, Dialer!Init, ResultsKept, TriedInTurn, Waits, ConnOrError, Dialer!ConnOrError, Distinct, Elements,
           StreamsAssumption, Dialer!DialerAssumption
  <2> QED
    BY <2>1, <2>2 DEF DialerInv
<1>4. BufferInv
  BY BufferStart DEF MCInit
<1> QED
  BY <1>1, <1>2, <1>3, <1>4 DEF StreamsInv

\* The invariant of the four parts holds in every state.
THEOREM StreamsInvariant == MCSpec => []StreamsInv
<1>1. MCInit => StreamsInv
  BY StreamsStart, StreamsAssumption
<1>2. StreamsInv /\ [MCNext]_allVars => StreamsInv'
  <2> SUFFICES ASSUME StreamsInv, [MCNext]_allVars PROVE StreamsInv'
    OBVIOUS
  <2>1. Lines!Next \/ UNCHANGED linesVars
    BY DEF MCNext, allVars
  <2>2. Quic!Next \/ UNCHANGED quicVars
    BY DEF MCNext, allVars
  <2>3. Dialer!Next \/ UNCHANGED dialerVars
    BY DEF MCNext, allVars
  <2>4. LinesInv'
    <3>1. CASE UNCHANGED linesVars
      BY <3>1 DEF linesVars, StreamsInv, LinesInv, LinesTyped, CountedSince, Fair, CallsAgree, Busy, InPool
    <3> QED
      BY <2>1, <3>1, LinesNext, StreamsAssumption DEF StreamsInv
  <2>5. QuicInv'
    <3>1. CASE UNCHANGED quicVars
      BY <3>1 DEF quicVars, StreamsInv, QuicInv, QuicTyped, StreamPlaced, Elements, Distinct
    <3> QED
      BY <2>2, <3>1, QuicNext, StreamsAssumption DEF StreamsInv
  <2>6. DialerInv'
    BY <2>3, DialerNext, DialerElse, StreamsAssumption DEF StreamsInv
  <2>7. BufferInv'
    <3>1. Buffers!Next \/ UNCHANGED bufferVars
      BY DEF MCNext, allVars
    <3> QED
      BY <3>1, BufferNext, StreamsAssumption DEF StreamsInv
  <2> QED
    BY <2>4, <2>5, <2>6, <2>7 DEF StreamsInv
<1> QED
  BY <1>1, <1>2, PTL DEF MCSpec

\* MultiLineManager: a line that never shared its tag is dead only after three
\* failed probes of its own address, less one for each probe of an earlier line of
\* the tag that was under way when it was added, whatever removals and additions
\* the prober runs into.
THEOREM LinesDieOfThree == MCSpec => []DeadAfterThree
<1>1. StreamsInv => DeadAfterThree
  BY LinesHolds DEF StreamsInv
<1> QED
  BY <1>1, StreamsInvariant, PTL

\* MultiLineManager: once the calls have returned, a line of the table is in the
\* dialer's pool with statistics, unless calls for its tag overlapped.
THEOREM LinesInPool == MCSpec => []LinesDialled
<1>1. StreamsInv => LinesDialled
  BY LinesHolds DEF StreamsInv
<1> QED
  BY <1>1, StreamsInvariant, PTL

\* QUICListener: a stream that handleConn took is queued once, or owned by the one
\* caller that accepted it, or closed.
THEOREM StreamsFound == MCSpec => []NoneForgotten
<1>1. StreamsInv => NoneForgotten
  BY QuicHolds DEF StreamsInv
<1> QED
  BY <1>1, StreamsInvariant, PTL

\* DialIPContext: a dial that is not given up returns the connection it kept, which
\* is open, or an error, and then every address it may use has refused if the lines
\* did not change under it.
THEOREM DialAnswers == MCSpec => []ConnOrError
<1>1. StreamsInv => ConnOrError
  BY DEF StreamsInv, DialerInv
<1> QED
  BY <1>1, StreamsInvariant, PTL

\* Buffer: whoever gets, slices, clones, releases and releases again, a buffer in use
\* holds what was written to it and not yet read.
THEOREM BuffersHold == MCSpec => []ContentKept
<1>1. StreamsInv => ContentKept
  BY UsedBuffer DEF StreamsInv, ContentKept, Buffers!ContentKept
<1> QED
  BY <1>1, StreamsInvariant, PTL
=============================================================================
