--------------------------- MODULE VLESSExchange ----------------------------
(***************************************************************************)
(* proxy/vless/vless.go: Process of a VLESS outbound at one end of a       *)
(* connection and of a VLESS inbound at the other, until the inbound       *)
(* dispatches the request.                                                 *)
(*                                                                         *)
(* A byte of the request is named by the field it belongs to; the user is  *)
(* one that the inbound knows.  The target is an IPv4 or IPv6 address, or  *)
(* a domain whose length is in HostLens.  Bytes of an address or a port    *)
(* can have any value where they are taken for something else; those of a  *)
(* domain are letters.  Both ends have set a deadline.  Whoever has called *)
(* the inbound's Process need not close the connection when it fails.      *)
(***************************************************************************)
EXTENDS Integers, Sequences

CONSTANT HostLens

VARIABLES kind, hostLen,                   \* the target
          out, outDeadline, closed,        \* the outbound
          in, inDeadline, fields,          \* the inbound, and what it makes of the address
          request, answered                \* the connection: what is on its way to the inbound and back
target == <<kind, hostLen>>
outbound == <<out, outDeadline, closed>>
inboundVars == <<in, inDeadline, fields>>
vars == <<target, outbound, inboundVars, request, answered>>

Times(n, field) == [i \in 1 .. n |-> field]

\* buildRequest: version, user, no addons, type and address, port, and at the end
\* the command
Address ==
  CASE kind = "IPv4" -> <<"type">> \o Times(4, "address")
    [] kind = "IPv6" -> <<"type">> \o Times(16, "address")
    [] kind = "domain" -> <<"type", "length">> \o Times(hostLen, "host")
BuildRequest ==
  <<"version">> \o Times(16, "user") \o <<"addons">> \o Address \o Times(2, "port") \o <<"command">>

Init ==
  /\ kind \in {"IPv4", "IPv6", "domain"} /\ hostLen \in HostLens
  /\ out = "write" /\ outDeadline = "armed" /\ closed = FALSE
  /\ in = "version" /\ inDeadline = "armed" /\ fields = <<>>
  /\ request = <<>> /\ answered = FALSE

-----------------------------------------------------------------------------
WriteRequest ==
  /\ out = "write"
  /\ request' = BuildRequest /\ out' = "response"
  /\ UNCHANGED <<target, outDeadline, closed, inboundVars, answered>>

\* The answer, or the deadline, which is not looked at.
ReadResponse ==
  /\ out = "response" /\ (answered \/ outDeadline = "passed")
  /\ out' = "relay"
  /\ UNCHANGED <<target, outDeadline, closed, inboundVars, request, answered>>

\* The relay ends at the latest with the deadline, and closes the connection.
Relay ==
  /\ out = "relay" /\ outDeadline = "passed"
  /\ out' = "returned" /\ closed' = TRUE
  /\ UNCHANGED <<target, outDeadline, inboundVars, request, answered>>

-----------------------------------------------------------------------------
\* io.ReadFull of n bytes, and what is not enough for it
Take(n) == Len(request) >= n /\ request' = SubSeq(request, n + 1, Len(request))
Starved(n) == Len(request) < n /\ (inDeadline = "passed" \/ closed)

\* Whether a byte passes for a field: one of an address or a port may or may not,
\* and the numbers of commands are numbers of address types.
Passes(byte, field) ==
  CASE byte = field \/ (byte = "command" /\ field = "type") -> {TRUE}
    [] byte \in {"address", "port"} -> BOOLEAN
    [] OTHER -> {FALSE}

\* Handshake: n bytes, of which the last is checked for the field
Step(from, n, field, to) ==
  /\ in = from
  /\ \/ Take(n) /\ \E ok \in Passes(request[n], field) : in' = IF ok THEN to ELSE "failed"
     \/ Starved(n) /\ in' = "failed" /\ request' = <<>>
  /\ UNCHANGED <<target, outbound, inDeadline, fields, answered>>

ReadVersion == Step("version", 1, "version", "user")
ReadUser == Step("user", 16, "user", "options")
ReadOptions == Step("options", 17, "command", "target")

\* parseTarget ignores the errors of its reads; a type that it could not read is 0
ParseTarget ==
  /\ in = "target"
  /\ \/ /\ request # <<>>
        /\ \E ok \in Passes(request[1], "type") : in' = IF ok THEN "address" ELSE "failed"
        /\ fields' = <<request[1]>> /\ request' = Tail(request)
     \/ /\ Starved(1)
        /\ in' = "failed" /\ UNCHANGED <<fields, request>>
  /\ UNCHANGED <<target, outbound, inDeadline, answered>>

\* and takes what is there for the address and the port, which are three bytes or
\* more, when the time is over; the answer goes out
ParseAddress ==
  /\ in = "address" /\ (Len(request) >= 3 \/ inDeadline = "passed" \/ closed)
  /\ in' = "dispatched" /\ fields' = fields \o request /\ request' = <<>>
  /\ answered' = TRUE
  /\ UNCHANGED <<target, outbound, inDeadline>>

OutDeadline ==
  /\ outDeadline = "armed" /\ outDeadline' = "passed"
  /\ UNCHANGED <<target, out, closed, inboundVars, request, answered>>
InDeadline ==
  /\ inDeadline = "armed" /\ inDeadline' = "passed"
  /\ UNCHANGED <<target, outbound, in, fields, request, answered>>

OutStep == WriteRequest \/ ReadResponse \/ Relay
InStep == ReadVersion \/ ReadUser \/ ReadOptions \/ ParseTarget \/ ParseAddress

Next == OutStep \/ InStep \/ OutDeadline \/ InDeadline

Spec == Init /\ [][Next]_vars

\* Both goroutines move when they can, and time passes.
Fairness == WF_vars(OutStep) /\ WF_vars(InStep) /\ WF_vars(OutDeadline) /\ WF_vars(InDeadline)

-----------------------------------------------------------------------------
\* The two ends speak the same protocol: the inbound refuses a request, whose user
\* it knows, only if the bytes did not come in time.
Served == in = "failed" => (inDeadline = "passed" \/ closed)

\* Both ends return, if only because of their deadlines, when each waits for the other.
BothReturn == <>(out = "returned" /\ in \in {"failed", "dispatched"})
=============================================================================
