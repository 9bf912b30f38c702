------------------------------- MODULE Buffer -------------------------------
(***************************************************************************)
(* common/buf/buffer.go: buffers over arrays that come from a pool and go  *)
(* back to it.                                                             *)
(*                                                                         *)
(* An array is the sequence of its bytes; those of the pool have Cap of    *)
(* them, one size class here, and a Get takes one of the pool or a new     *)
(* one.  A buffer is in use from New, Slice or Clone until its Release,    *)
(* after which its users leave it alone, but may release it again; so are  *)
(* the slices of it.  Nobody writes to a slice, or to what it shows.       *)
(* Bytes are numbers that no two Writes share; 0 is the byte of a new      *)
(* array.  MaxArrays bounds the arrays, MaxBytes the bytes written.        *)
(*                                                                         *)
(* History: data is what a buffer should hold, source of whom it is a      *)
(* slice.                                                                  *)
(***************************************************************************)
EXTENDS Integers, Sequences

CONSTANTS Buffers, Cap, MaxArrays, MaxBytes, None

\* What is assumed of the constants: None is no buffer, no array and no content.
BufferAssumption ==
  Cap \in Nat /\ MaxBytes \in Nat /\ None \notin Buffers /\ None \notin Nat /\ None \notin Seq(Nat)

VARIABLES arrays, pool,                        \* the arrays, and the pool as a sequence of them
          buf, start, end, pooled,             \* the buffers
          data, source, used
positions == <<start, end>>
history == <<data, source>>
vars == <<arrays, pool, buf, positions, pooled, history, used>>

Init ==
  /\ arrays = <<>> /\ pool = <<>>
  /\ buf = [b \in Buffers |-> None] /\ pooled = [b \in Buffers |-> FALSE]
  /\ start = [b \in Buffers |-> 0] /\ end = [b \in Buffers |-> 0]
  /\ data = [b \in Buffers |-> <<>>] /\ source = [b \in Buffers |-> None]
  /\ used = 0

Zeros(n) == [i \in 1 .. n |-> 0]
\* bytes written over those of array behind the first n
Put(array, n, bytes) ==
  [i \in DOMAIN array |-> IF i \in n + 1 .. n + Len(bytes) THEN bytes[i - n] ELSE array[i]]
Bytes(b) == SubSeq(arrays[buf[b]], start[b] + 1, end[b])
Size(b) == Len(arrays[buf[b]])
InUse(b) == buf[b] # None /\ data[b] # None
Least(m, n) == IF m < n THEN m ELSE n

\* getBuffer: an array of the pool, or a new one; b holds the bytes from then on
Get(b, bytes) ==
  /\ \/ \E k \in DOMAIN pool :
          /\ buf' = [buf EXCEPT ![b] = pool[k]]
          /\ pool' = SubSeq(pool, 1, k - 1) \o SubSeq(pool, k + 1, Len(pool))
          /\ arrays' = [arrays EXCEPT ![pool[k]] = Put(@, 0, bytes)]
     \/ /\ Len(arrays) < MaxArrays
        /\ buf' = [buf EXCEPT ![b] = Len(arrays) + 1]
        /\ arrays' = Append(arrays, Put(Zeros(Cap), 0, bytes))
        /\ UNCHANGED pool
  /\ start' = [start EXCEPT ![b] = 0] /\ end' = [end EXCEPT ![b] = Len(bytes)]
  /\ pooled' = [pooled EXCEPT ![b] = TRUE]
  /\ data' = [data EXCEPT ![b] = bytes] /\ source' = [source EXCEPT ![b] = None]

-----------------------------------------------------------------------------
\* New, and NewWithSize of no more than a pooled array has
New(b) == ~InUse(b) /\ Get(b, <<>>) /\ UNCHANGED used

\* Clone, of what fits
Clone(b, of) ==
  /\ ~InUse(b) /\ InUse(of)
  /\ Get(b, SubSeq(Bytes(of), 1, Least(Cap, Len(Bytes(of))))) /\ UNCHANGED used

\* Write: what fits is copied
Write(b) ==
  /\ InUse(b) /\ source[b] = None /\ \A c \in Buffers : ~(InUse(c) /\ source[c] = b)
  /\ \E n \in 1 .. MaxBytes - used :
       LET bytes == [i \in 1 .. Least(n, Size(b) - end[b]) |-> used + i]
       IN /\ arrays' = [arrays EXCEPT ![buf[b]] = Put(@, end[b], bytes)]
          /\ end' = [end EXCEPT ![b] = @ + Len(bytes)]
          /\ data' = [data EXCEPT ![b] = @ \o bytes]
          /\ used' = used + n
  /\ UNCHANGED <<pool, buf, start, pooled, source>>

\* Read, Advance
Read(b) ==
  /\ InUse(b) /\ start[b] < end[b]
  /\ \E n \in 1 .. end[b] - start[b] :
       /\ start' = [start EXCEPT ![b] = @ + n]
       /\ data' = [data EXCEPT ![b] = SubSeq(@, n + 1, Len(@))]
  /\ UNCHANGED <<arrays, pool, buf, end, pooled, source, used>>

\* ReadFullFrom: an array that is too short is left for a longer one, not of the
\* pool, and the buffer keeps its end, as if nothing of it had been read; the reader
\* gives some or all of the bytes
ReadFullFrom(b) ==
  /\ InUse(b) /\ source[b] = None /\ \A c \in Buffers : ~(InUse(c) /\ source[c] = b)
  /\ \E size \in 1 .. MaxBytes - used, n \in 0 .. MaxBytes - used :
       /\ n <= size
       /\ LET bytes == [i \in 1 .. n |-> used + i]
              grows == end[b] + size > Size(b)
          IN /\ IF grows
                THEN /\ Len(arrays) < MaxArrays
                     /\ arrays' = Append(arrays, Put(Put(Zeros(end[b] + size), 0, Bytes(b)), end[b], bytes))
                     /\ buf' = [buf EXCEPT ![b] = Len(arrays) + 1] /\ start' = [start EXCEPT ![b] = 0]
                     /\ pooled' = [pooled EXCEPT ![b] = FALSE]
                ELSE /\ arrays' = [arrays EXCEPT ![buf[b]] = Put(@, end[b], bytes)]
                     /\ UNCHANGED <<buf, start, pooled>>
             /\ end' = [end EXCEPT ![b] = @ + n] /\ used' = used + n
             /\ data' = [data EXCEPT ![b] = @ \o (IF grows THEN Zeros(start[b]) ELSE <<>>) \o bytes]
  /\ UNCHANGED <<pool, source>>

\* Slice: another buffer over the same array, which is not pooled
Slice(b, of) ==
  /\ ~InUse(b) /\ InUse(of)
  /\ \E from \in 0 .. Len(Bytes(of)), to \in 0 .. Len(Bytes(of)) :
       /\ from <= to
       /\ start' = [start EXCEPT ![b] = start[of] + from] /\ end' = [end EXCEPT ![b] = start[of] + to]
       /\ data' = [data EXCEPT ![b] = SubSeq(data[of], from + 1, to)]
  /\ buf' = [buf EXCEPT ![b] = buf[of]] /\ pooled' = [pooled EXCEPT ![b] = FALSE]
  /\ source' = [source EXCEPT ![b] = IF source[of] = None THEN of ELSE source[of]]
  /\ UNCHANGED <<arrays, pool, used>>

\* Mutant: a second Release puts the array into the pool again.
Release_Again(b) ==
  /\ buf[b] # None
  /\ IF buf[b] # None /\ source[b] = None
     THEN /\ start' = [start EXCEPT ![b] = 0] /\ end' = [end EXCEPT ![b] = 0]
          /\ pool' = IF Size(b) = Cap THEN Append(pool, buf[b]) ELSE pool
     ELSE UNCHANGED <<start, end, pool>>
  /\ pooled' = [pooled EXCEPT ![b] = FALSE]
  /\ data' = [c \in Buffers |-> IF c = b \/ source[c] = b THEN None ELSE data[c]]
  /\ UNCHANGED <<arrays, buf, source, used>>

\* Release, also of a buffer that was released; the array goes back, b keeps it too
Release(b) ==
  /\ buf[b] # None
  /\ IF pooled[b]
     THEN /\ start' = [start EXCEPT ![b] = 0] /\ end' = [end EXCEPT ![b] = 0]
          /\ pool' = IF Size(b) = Cap THEN Append(pool, buf[b]) ELSE pool
     ELSE UNCHANGED <<start, end, pool>>
  /\ pooled' = [pooled EXCEPT ![b] = FALSE]
  /\ data' = [c \in Buffers |-> IF c = b \/ source[c] = b THEN None ELSE data[c]]
  /\ UNCHANGED <<arrays, buf, source, used>>

Next ==
  \E b \in Buffers :
    \/ New(b) \/ Write(b) \/ Read(b) \/ ReadFullFrom(b) \/ Release(b)
    \/ \E of \in Buffers : Clone(b, of) \/ Slice(b, of)

Spec == Init /\ [][Next]_vars

-----------------------------------------------------------------------------
\* A buffer in use holds what was written to it and not yet read, whoever gets,
\* releases and releases again arrays of the pool meanwhile.  (When ReadFullFrom
\* moves a buffer it leaves as many zero bytes in it as had been read.)
ContentKept == \A b \in Buffers : InUse(b) => Bytes(b) = data[b]
=============================================================================
