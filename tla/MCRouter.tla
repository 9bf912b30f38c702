------------------------------ MODULE MCRouter ------------------------------
(***************************************************************************)
(* Instances of Router and RuleMatching for TLC.  A behaviour is one of    *)
(* either: three configurations over two contexts are reloaded and         *)
(* consulted, or one rule is matched with one request.                     *)
(***************************************************************************)
EXTENDS Router, RuleMatching

Tags(nets) == [inboundTag |-> {}, network |-> nets, protocol |-> {}, user |-> {}]
Rule(nets, out, bal) ==
  [tags |-> Tags(nets), port |-> <<>>, sourcePort |-> <<>>,
   hasSource |-> FALSE, sources |-> {}, hasDomain |-> FALSE, domains |-> {},
   hasIP |-> FALSE, ips |-> {}, out |-> out, bal |-> bal]

Context(net) ==
  [tags |-> [inboundTag |-> "", network |-> net, protocol |-> "", user |-> ""], port |-> 80,
   sourcePort |-> 1024, sourceIP |-> Nil, domain |-> "", ip |-> Nil]

B1 == << [tag |-> "b1", selector |-> <<"p1", "p2">>] >>
B2 == << [tag |-> "b1", selector |-> <<>>], [tag |-> "b1", selector |-> <<"p3">>] >>

\* by balancer, by outbound after a rule that names neither, by default
ByBalancer(b) == [rules |-> <<Rule({"tcp"}, "", b[1].tag), Rule({}, "a", "")>>, balancers |-> b]
ByOutbound(b) == [rules |-> <<Rule({}, "", ""), Rule({"udp"}, "b", b[1].tag)>>, balancers |-> b]
ToFixed(b) == [rules |-> <<Rule({}, "a", "")>>, balancers |-> b]
ByDefault(b) == [rules |-> <<>>, balancers |-> b]

MCContexts == {Context("tcp"), Context("udp")}

\* reloads that keep the balancers, and reloads that change what a balancer's tag
\* stands for: no configuration of these sends anything to p3
SameBalancers == {ByBalancer(B1), ByOutbound(B1), ByDefault(B1)}
OtherBalancers == {ByBalancer(B1), ToFixed(B2)}
-----------------------------------------------------------------------------
\* "80", "80-90", "90-80", "65535", "443-65535", " 80 ", " ", "8-0-1" and none
Patterns == { <<>>, << <<8, 0>> >>, << <<8, 0>>, <<9, 0>> >>, << <<9, 0>>, <<8, 0>> >>,
              << <<6, 5, 5, 3, 5>> >>, << <<4, 4, 3>>, <<6, 5, 5, 3, 5>> >>,
              << <<Space, 8, 0, Space>> >>, << <<Space>> >>, << <<8>>, <<0>>, <<1>> >> }
Ports == {0, 79, 80, 85, 90, 91, 443, 801, 65535}

MatchRules ==
  { [tags |-> [inboundTag |-> {}, network |-> n, protocol |-> {}, user |-> {}],
     port |-> p, sourcePort |-> <<>>,
     hasSource |-> s # {"unset"}, sources |-> s \ {"unset"},
     hasDomain |-> d # {"unset"}, domains |-> d \ {"unset"},
     hasIP |-> i # {"unset"}, ips |-> i \ {"unset"},
     out |-> "a", bal |-> ""] :
      n \in {{}, {"tcp"}}, p \in Patterns,
      s \in {{"unset"}, {"10.0.0.1"}}, d \in {{"unset"}, {}, {"a.test"}}, i \in {{"unset"}, {}, {"1.1.1.1"}} }

MatchContexts ==
  [tags : [inboundTag : {""}, network : {"tcp", "udp"}, protocol : {""}, user : {""}],
   port : Ports, sourcePort : {1024}, sourceIP : {Nil, "10.0.0.1", "10.0.0.2"},
   domain : {"", "a.test", "b.test"}, ip : {Nil, "1.1.1.1"}]
-----------------------------------------------------------------------------
VARIABLE part
allVars == <<vars, matchVars, part>>

\* The part that does not run starts in one state.
MCInit ==
  /\ part \in {"reload", "match"}
  /\ Init /\ (part = "reload" \/ config = CHOOSE cfg \in Configs : TRUE)
  /\ IF part = "match" THEN MatchInit
     ELSE rule = (CHOOSE r \in Rules : TRUE) /\ rc = (CHOOSE c \in Requests : TRUE)
MCNext ==
  \/ part = "reload" /\ Next /\ UNCHANGED <<matchVars, part>>
  \/ part = "match" /\ Learn /\ UNCHANGED <<vars, part>>

MCSpec == MCInit /\ [][MCNext]_allVars /\ Fairness
=============================================================================
