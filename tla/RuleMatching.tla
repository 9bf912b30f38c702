---------------------------- MODULE RuleMatching ----------------------------
(***************************************************************************)
(* matchRule on every rule of Rules and every context of Requests.  A      *)
(* request without an address is matched again when DNS has told one of    *)
(* Addresses: the single step.  The properties compare matchRule with      *)
(* declarative readings of it.                                             *)
(***************************************************************************)
EXTENDS RouteMatch

CONSTANTS Rules, Requests, Addresses

\* Rules and contexts are records with the fields of RouteMatch, port patterns
\* sequences of numerals, ports numbers.
ASSUME MatchAssumption ==
  /\ \A r \in Rules : r.port \in Seq(Seq(Int))
  /\ \A c \in Requests :
       c.port \in Nat
       /\ c = [tags |-> c.tags, port |-> c.port, sourcePort |-> c.sourcePort,
               sourceIP |-> c.sourceIP, domain |-> c.domain, ip |-> c.ip]

VARIABLES rule, rc
matchVars == <<rule, rc>>

MatchInit == rule \in Rules /\ rc \in Requests

\* DNS resolves the domain of a request that had no address yet
Learn ==
  /\ rc.ip = Nil
  /\ \E a \in Addresses : rc' = [rc EXCEPT !.ip = a]
  /\ UNCHANGED rule

MatchSpec == MatchInit /\ [][Learn]_matchVars

Numeral(chars) ==
  LET value[n \in 0 .. Len(chars)] == IF n = 0 THEN 0 ELSE value[n - 1] * 10 + chars[n]
  IN value[Len(chars)]

WellFormed(pattern) ==
  /\ Len(pattern) \in 1..2 /\ (Len(pattern) = 1 => pattern[1] # <<>>)
  /\ \A i \in 1..Len(pattern) : (\A j \in 1..Len(pattern[i]) : pattern[i][j] \in 0..9)
                                 /\ Numeral(pattern[i]) < PortModulus

\* route/README.md: a port condition is "Exact/Range": for every pattern made
\* of one or two numbers of 16 bits, matchPort accepts exactly the ports from
\* the first number to the last one, both included, the ends of the 16-bit
\* range too.
PortRange ==
  WellFormed(rule.port) =>
    (MatchPort(rule.port, rc.port) <=>
      Numeral(rule.port[1]) <= rc.port /\ rc.port <= Numeral(rule.port[Len(rule.port)]))

\* Learning the address of a request never turns a refusal by a rule with a
\* domain condition into a match: only an address the rule accepts, of a rule
\* whose domain condition holds or cannot be answered, can do so.
LearningKeepsRefusal ==
  [][~MatchRule(rule, rc) /\ MatchRule(rule, rc)' =>
       IPMatched(rule, rc') /\ (rule.hasDomain => rc.domain = "")]_matchVars
=============================================================================
