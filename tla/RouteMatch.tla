----------------------------- MODULE RouteMatch -----------------------------
(***************************************************************************)
(* route/router.go: whether a compiled rule matches a routing context.     *)
(*                                                                         *)
(* What a rule's domain patterns and IP networks accept (regular           *)
(* expressions and CIDR arithmetic of the standard library) is given as    *)
(* the set of accepted values; a pattern that does not compile accepts     *)
(* nothing but still counts as a condition.  A rule is a record            *)
(*   tags                   the accepted values of each tag field, {} when *)
(*                          the field is not set                           *)
(*   port, sourcePort       port patterns, <<>> when not set               *)
(*   hasSource, sources     hasDomain, domains     hasIP, ips              *)
(*   out, bal               outboundTag and balancerTag, "" when not set   *)
(* and a context gives one value for each; "" and Nil are missing values.  *)
(* A port pattern is the sequence of its "-"-separated parts, a part the   *)
(* sequence of its characters: digits as numbers, white space as Space,    *)
(* any other as -1.                                                        *)
(***************************************************************************)
EXTENDS Integers, Sequences, SequencesExt

CONSTANT Nil

TagFields == {"inboundTag", "network", "protocol", "user"}

PortModulus == 65536  \* uint16

Space == -2

\* strings.TrimSpace leaves nothing
Blank(pattern) == Len(pattern) = 1 /\ \A j \in DOMAIN pattern[1] : pattern[1][j] = Space

\* parsePort: the digits as a number of 16 bits, everything else skipped
ParsePort(chars) ==
  LET port[n \in 0 .. Len(chars)] ==
        IF n = 0 THEN 0
        ELSE IF chars[n] \in 0..9 THEN (port[n - 1] * 10 + chars[n]) % PortModulus ELSE port[n - 1]
  IN port[Len(chars)]

\* Mutant: the upper end of a range is excluded.
MatchPort_OpenEnd(pattern, port) ==
  IF Len(pattern) = 2
  THEN ParsePort(pattern[1]) <= port /\ port < ParsePort(pattern[2])
  ELSE Blank(pattern) \/ port = ParsePort(FlattenSeq(pattern))

\* matchPort: two parts are a range, a blank pattern is any port, anything else
\* is one number
MatchPort(pattern, port) ==
  IF Len(pattern) = 2
  THEN ParsePort(pattern[1]) <= port /\ port <= ParsePort(pattern[2])
  ELSE Blank(pattern) \/ port = ParsePort(FlattenSeq(pattern))

PortsMatch(rule, rc) ==
  /\ rule.port # <<>> => MatchPort(rule.port, rc.port)
  /\ rule.sourcePort # <<>> => MatchPort(rule.sourcePort, rc.sourcePort)

TagsMatch(rule, rc) ==
  \A f \in TagFields : rule.tags[f] # {} => rc.tags[f] \in rule.tags[f]

\* an unknown source address passes a source condition
SourceMatches(rule, rc) ==
  rule.hasSource /\ rc.sourceIP # Nil => rc.sourceIP \in rule.sources

DomainMatched(rule, rc) == rule.hasDomain /\ rc.domain # "" /\ rc.domain \in rule.domains
IPMatched(rule, rc) == rule.hasIP /\ rc.ip # Nil /\ rc.ip \in rule.ips

\* Mutant: one matching target condition is enough.
TargetMatches_Either(rule, rc) ==
  rule.hasDomain \/ rule.hasIP => DomainMatched(rule, rc) \/ IPMatched(rule, rc)

\* a target condition the context can answer must hold, and one must hold
TargetMatches(rule, rc) ==
  /\ rule.hasDomain /\ rc.domain # "" => DomainMatched(rule, rc)
  /\ rule.hasIP /\ rc.ip # Nil => IPMatched(rule, rc)
  /\ rule.hasDomain \/ rule.hasIP => DomainMatched(rule, rc) \/ IPMatched(rule, rc)

\* matchRule
MatchRule(rule, rc) ==
  TagsMatch(rule, rc) /\ PortsMatch(rule, rc) /\ SourceMatches(rule, rc) /\ TargetMatches(rule, rc)
=============================================================================
