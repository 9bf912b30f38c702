------------------------------- MODULE Router -------------------------------
(***************************************************************************)
(* route/router.go: routing and hot reload.                                *)
(*                                                                         *)
(* The router keeps the configuration and the rules compiled from one.     *)
(* Route reads both under the read lock, in one step.  ReloadConfig stores *)
(* the configuration under the lock, releases it, and compiles the rules   *)
(* of whatever configuration is stored by then under the lock again: two   *)
(* steps, between which requests are routed.  compiled is the              *)
(* configuration the rules were compiled from.  Each member of Reloaders   *)
(* is a goroutine that calls ReloadConfig, again and again; each member of *)
(* Callers one that calls Route.                                           *)
(***************************************************************************)
EXTENDS RouteMatch

CONSTANTS Configs, Contexts, Reloaders, Callers, NoAnswer

VARIABLES config, compiled, rlpc, answer
vars == <<config, compiled, rlpc, answer>>

\* selectBalancer: the first selector of the first balancer with the tag that
\* has one, "direct" if there is none
SelectBalancer(balancers, tag) ==
  LET usable == {i \in 1..Len(balancers) : balancers[i].tag = tag /\ balancers[i].selector # <<>>}
  IN IF usable = {} THEN "direct"
     ELSE balancers[CHOOSE i \in usable : \A j \in usable : i <= j].selector[1]

Decides(rule, rc) == MatchRule(rule, rc) /\ (rule.out # "" \/ rule.bal # "")

\* Route on given rules and balancers: the first matching rule that names an
\* outbound or a balancer decides, then the first balancer, else ErrNoRoute
Lookup(rules, balancers, rc) ==
  LET deciding == {i \in 1..Len(rules) : Decides(rules[i], rc)}
      rule == rules[CHOOSE i \in deciding : \A j \in deciding : i <= j]
  IN IF deciding # {}
     THEN IF rule.out # "" THEN rule.out ELSE SelectBalancer(balancers, rule.bal)
     ELSE IF balancers # <<>> THEN SelectBalancer(balancers, balancers[1].tag)
     ELSE "ErrNoRoute"

\* NewRouter
Init ==
  /\ config \in Configs
  /\ compiled = config
  /\ rlpc = [r \in Reloaders |-> "idle"]
  /\ answer = [c \in Callers |-> NoAnswer]

\* Mutant: the rules are tried from the last to the first.
Route_FromLast(c, rc) ==
  /\ answer' = [answer EXCEPT ![c] = [request |-> rc, out |-> Lookup(Reverse(compiled.rules), config.balancers, rc)]]
  /\ UNCHANGED <<config, compiled, rlpc>>

\* Route: one step under the read lock
Route(c, rc) ==
  /\ answer' = [answer EXCEPT ![c] = [request |-> rc, out |-> Lookup(compiled.rules, config.balancers, rc)]]
  /\ UNCHANGED <<config, compiled, rlpc>>

\* ReloadConfig: r.config = cfg under the lock
StoreConfig(r, cfg) ==
  /\ rlpc[r] = "idle"
  /\ config' = cfg
  /\ rlpc' = [rlpc EXCEPT ![r] = "stored"]
  /\ UNCHANGED <<compiled, answer>>

\* Mutant: rules that are already compiled are kept.
CompileRules_KeepsOld(r) ==
  /\ rlpc[r] = "stored"
  /\ compiled' = IF compiled.rules = <<>> THEN config ELSE compiled
  /\ rlpc' = [rlpc EXCEPT ![r] = "idle"]
  /\ UNCHANGED <<config, answer>>

\* ReloadConfig: compileRules, from the stored configuration
CompileRules(r) ==
  /\ rlpc[r] = "stored"
  /\ compiled' = config
  /\ rlpc' = [rlpc EXCEPT ![r] = "idle"]
  /\ UNCHANGED <<config, answer>>

Next ==
  \/ \E c \in Callers, rc \in Contexts : Route(c, rc)
  \/ \E r \in Reloaders : CompileRules(r) \/ \E cfg \in Configs : StoreConfig(r, cfg)

Spec == Init /\ [][Next]_vars

\* A goroutine inside ReloadConfig is scheduled again.
Fairness == \A r \in Reloaders : WF_vars(CompileRules(r))

-----------------------------------------------------------------------------
\* Type invariant of the router.
TypeOK ==
  /\ config \in Configs /\ compiled \in Configs
  /\ rlpc \in [Reloaders -> {"idle", "stored"}]

\* The rules and the balancers belong to the same configuration whenever no
\* ReloadConfig is under way, in whatever order concurrent reloads finish.
SettledConsistent ==
  (\A r \in Reloaders : rlpc[r] = "idle") => compiled = config

\* The router seen as an atomic one, the rules in force being the compiled
\* ones; a reload takes effect in compileRules.
AnswerOf(cfg, rc) == Lookup(cfg.rules, cfg.balancers, rc)
Atomic == INSTANCE AtomicRouter WITH current <- compiled, Answer <- AnswerOf

\* Reloads that keep the balancers take effect in one step: every request is
\* answered by the one configuration in force.
ReloadsAtomically == Atomic!Spec

\* Every answer is the one that some configuration, old or new, gives to the
\* request: route/README.md calls ReloadConfig "Thread-safe config reload".
AnsweredByOne ==
  \A c \in Callers : answer[c] # NoAnswer =>
    \E cfg \in Configs : answer[c].out = AnswerOf(cfg, answer[c].request)
=============================================================================
