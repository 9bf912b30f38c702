----------------------------- MODULE ByteStream -----------------------------
(***************************************************************************)
(* What io.Copy and the relays of app/proxy rely on a net.Conn for: one    *)
(* direction of a connection hands over the bytes that were written, in    *)
(* their order, none of them twice and none left out.  It may stop at any  *)
(* point.                                                                  *)
(***************************************************************************)
EXTENDS Integers, Sequences

VARIABLES sent, received
vars == <<sent, received>>

StartsWith(t, s) == Len(s) <= Len(t) /\ SubSeq(t, 1, Len(s)) = s

Init == sent = <<>> /\ received = <<>>

\* A Write puts bytes behind those that were written before.
Write == StartsWith(sent', sent) /\ UNCHANGED received

\* A Read returns the next bytes that were written.
Read == StartsWith(received', received) /\ StartsWith(sent, received') /\ UNCHANGED sent

Next == Write \/ Read

Spec == Init /\ [][Next]_vars
=============================================================================
