------------------------------- MODULE Relay --------------------------------
(***************************************************************************)
(* proxy/proxy.go and proxy/registry.go: Process of the DCCP and the DNS   *)
(* outbound, inside dispatchRequest.                                       *)
(*                                                                         *)
(* Process dials, starts a goroutine for each direction, and waits for the *)
(* first of them to report its error or for the context.  On its way out   *)
(* it closes the outbound connection, and dispatchRequest then closes the  *)
(* inbound one.  A copying goroutine is in a Read of its source, which     *)
(* ends when the source is at its end or closed here, or in a Write to its *)
(* destination, which a side that does not read may hold up for as long as *)
(* it likes and which only the closing of the destination ends for sure:   *)
(* nothing has a deadline.  A side that has ended sends nothing more (what *)
(* it sent before counts as read); it may still take what is written to    *)
(* it, refuse it, or neither.  With DCCP settings Dial never succeeds (DCCPHandshake.tla), so *)
(* that only DialFails is left of this.                                    *)
(***************************************************************************)
EXTENDS Integers

VARIABLES pc, copy, errCh, cancelled, open, ended
vars == <<pc, copy, errCh, cancelled, open, ended>>

Sides == {"in", "out"}

\* A direction is named by the connection it reads from.
Opposite(side) == IF side = "in" THEN "out" ELSE "in"

\* Mutant: room for one error.
ErrChCap_One == 1

\* errCh := make(chan error, 2)
ErrChCap == 2

Init ==
  /\ pc = "dial"
  /\ copy = [s \in Sides |-> "none"]
  /\ errCh = 0
  /\ cancelled = FALSE
  /\ open = [s \in Sides |-> s = "in"]
  /\ ended = [s \in Sides |-> FALSE]

DialFails ==
  /\ pc = "dial"
  /\ pc' = "closeIn"
  /\ UNCHANGED <<copy, errCh, cancelled, open, ended>>

DialSucceeds ==
  /\ pc = "dial"
  /\ open' = [open EXCEPT !["out"] = TRUE]
  /\ copy' = [s \in Sides |-> "copying"]
  /\ pc' = "select"
  /\ UNCHANGED <<errCh, cancelled, ended>>

\* io.Copy: its Read returns something ...
CopyReads(s) ==
  /\ copy[s] = "copying" /\ open[s] /\ ~ended[s]
  /\ copy' = [copy EXCEPT ![s] = "writing"]
  /\ UNCHANGED <<pc, errCh, cancelled, open, ended>>

\* ... which the destination takes, if it reads ...
WriteReturns(s) ==
  /\ copy[s] = "writing" /\ open[Opposite(s)]
  /\ copy' = [copy EXCEPT ![s] = "copying"]
  /\ UNCHANGED <<pc, errCh, cancelled, open, ended>>

\* ... or refuses;
WriteFails(s) ==
  /\ copy[s] = "writing" /\ (~open[Opposite(s)] \/ ended[Opposite(s)])
  /\ copy' = [copy EXCEPT ![s] = "report"]
  /\ UNCHANGED <<pc, errCh, cancelled, open, ended>>

\* or the source gives it nothing more
CopyEnds(s) ==
  /\ copy[s] = "copying" /\ (ended[s] \/ ~open[s])
  /\ copy' = [copy EXCEPT ![s] = "report"]
  /\ UNCHANGED <<pc, errCh, cancelled, open, ended>>

\* errCh <- err
Report(s) ==
  /\ copy[s] = "report" /\ errCh < ErrChCap
  /\ errCh' = errCh + 1
  /\ copy' = [copy EXCEPT ![s] = "done"]
  /\ UNCHANGED <<pc, cancelled, open, ended>>

\* the select: case err := <-errCh
SelectError ==
  /\ pc = "select" /\ errCh > 0
  /\ errCh' = errCh - 1
  /\ pc' = "closeOut"
  /\ UNCHANGED <<copy, cancelled, open, ended>>

\* the select: case <-ctx.Done()
SelectContext ==
  /\ pc = "select" /\ cancelled
  /\ pc' = "closeOut"
  /\ UNCHANGED <<copy, errCh, cancelled, open, ended>>

\* the deferred Close of the outbound connection
CloseOut ==
  /\ pc = "closeOut"
  /\ open' = [open EXCEPT !["out"] = FALSE]
  /\ pc' = "closeIn"
  /\ UNCHANGED <<copy, errCh, cancelled, ended>>

\* dispatchRequest: the deferred conn.Close()
CloseIn ==
  /\ pc = "closeIn"
  /\ open' = [open EXCEPT !["in"] = FALSE]
  /\ pc' = "returned"
  /\ UNCHANGED <<copy, errCh, cancelled, ended>>

\* The peer of a connection ends it.
PeerEnds(s) ==
  /\ ~ended[s]
  /\ ended' = [ended EXCEPT ![s] = TRUE]
  /\ UNCHANGED <<pc, copy, errCh, cancelled, open>>

\* ProxyManager.Close
Cancel ==
  /\ ~cancelled
  /\ cancelled' = TRUE
  /\ UNCHANGED <<pc, copy, errCh, open, ended>>

ProcessStep == DialFails \/ DialSucceeds \/ SelectError \/ SelectContext \/ CloseOut \/ CloseIn

Next ==
  \/ ProcessStep \/ Cancel
  \/ \E s \in Sides :
       CopyReads(s) \/ WriteReturns(s) \/ WriteFails(s) \/ CopyEnds(s) \/ Report(s) \/ PeerEnds(s)

Spec == Init /\ [][Next]_vars

\* Goroutines that can move do, and a Write to a connection closed here fails.  The
\* peers need not send, read nor end.
Fairness ==
  /\ WF_vars(ProcessStep)
  /\ \A s \in Sides : /\ WF_vars(CopyEnds(s)) /\ WF_vars(Report(s))
                      /\ WF_vars(~open[Opposite(s)] /\ WriteFails(s))

-----------------------------------------------------------------------------
\* No goroutine outlives the request: both directions come to an end once
\* dispatchRequest has returned, also when nobody takes their errors any more.
NoneLeftBehind == (pc = "returned") ~> (\A s \in Sides : copy[s] \in {"none", "done"})

\* Neither goroutine has to wait when it reports.
ReportsFit == \A s \in Sides : copy[s] = "report" => errCh < ErrChCap

\* The request ends, and both connections are closed, when the context does, and
\* when either side ends, unless what that side sent last stays in a Write to the
\* other side, which does not read: nothing ends that but the context.
Closed == pc = "returned" /\ ~open["in"] /\ ~open["out"]
RequestEnds ==
  /\ cancelled ~> Closed
  /\ \A s \in Sides : <>[](ended[s] => Closed \/ copy[s] = "writing")
=============================================================================
