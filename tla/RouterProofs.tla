---------------------------- MODULE RouterProofs ----------------------------
(***************************************************************************)
(* Proofs about Router, for any set of configurations and any number of    *)
(* goroutines that route and reload; and about matchRule and matchPort,    *)
(* for any rules and requests.                                             *)
(***************************************************************************)
EXTENDS Router, RuleMatching, WellFoundedInduction, TLAPS

\* Compiled rules differ from the stored configuration only while a reload is
\* between its two critical sections.
RouterInv == TypeOK /\ (compiled = config \/ \E r \in Reloaders : rlpc[r] = "stored")

LEMMA RouterInvInit == Init => RouterInv
BY DEF Init, RouterInv, TypeOK

\* Every step preserves the invariant: the goroutine that compiles last
\* compiles what is stored then, whoever stored it.
LEMMA RouterInvStep == RouterInv /\ [Next]_vars => RouterInv'
<1> SUFFICES ASSUME RouterInv, [Next]_vars PROVE RouterInv'
  OBVIOUS
<1> USE DEF RouterInv, TypeOK
<1>1. ASSUME NEW c \in Callers, NEW ctx \in Contexts, Route(c, ctx) PROVE RouterInv'
  BY <1>1 DEF Route
<1>2. ASSUME NEW r \in Reloaders, NEW cfg \in Configs, StoreConfig(r, cfg) PROVE RouterInv'
  BY <1>2 DEF StoreConfig
<1>3. ASSUME NEW r \in Reloaders, CompileRules(r) PROVE RouterInv'
  BY <1>3 DEF CompileRules
<1>4. CASE UNCHANGED vars
  BY <1>4 DEF vars
<1> QED
  BY <1>1, <1>2, <1>3, <1>4 DEF Next

\* The invariant holds in every reachable state.
THEOREM RouterInvariant == Spec => []RouterInv
BY RouterInvInit, RouterInvStep, PTL DEF Spec

\* Type correctness of the router.
THEOREM RouterTypeCorrect == Spec => []TypeOK
<1>1. RouterInv => TypeOK
  BY DEF RouterInv
<1> QED
  BY <1>1, RouterInvariant, PTL

\* Whatever the order in which concurrent calls of ReloadConfig store and
\* compile, rules and balancers belong together once all of them returned.
THEOREM ReloadsSettle == Spec => []SettledConsistent
<1>1. RouterInv => SettledConsistent
  BY DEF RouterInv, TypeOK, SettledConsistent
<1> QED
  BY <1>1, RouterInvariant, PTL

\* Where reloads leave the balancers alone, the router implements the atomic
\* one: the two critical sections of ReloadConfig cannot be told from one.
THEOREM AtomicWithFixedBalancers ==
  ASSUME \A c, d \in Configs : c.balancers = d.balancers
  PROVE  Spec => ReloadsAtomically
<1>1. Init => Atomic!Init
  BY DEF Init, Atomic!Init
<1>2. TypeOK /\ [Next]_vars => [Atomic!Next]_(Atomic!vars)
  <2> SUFFICES ASSUME TypeOK, [Next]_vars PROVE [Atomic!Next]_(Atomic!vars)
    OBVIOUS
  <2>1. ASSUME NEW c \in Callers, NEW ctx \in Contexts, Route(c, ctx) PROVE Atomic!Next
    <3>1. compiled.balancers = config.balancers
      BY DEF TypeOK
    <3>2. Atomic!Route(c, ctx)
      BY <2>1, <3>1 DEF Route, Atomic!Route, AnswerOf
    <3> QED
      BY <3>2 DEF Atomic!Next
  <2>2. ASSUME NEW r \in Reloaders, NEW cfg \in Configs, StoreConfig(r, cfg)
        PROVE  UNCHANGED Atomic!vars
    BY <2>2 DEF StoreConfig, Atomic!vars
  <2>3. ASSUME NEW r \in Reloaders, CompileRules(r) PROVE Atomic!Next
    BY <2>3 DEF CompileRules, Atomic!Next, Atomic!Reload, TypeOK
  <2>4. CASE UNCHANGED vars
    BY <2>4 DEF vars, Atomic!vars
  <2> QED
    BY <2>1, <2>2, <2>3, <2>4 DEF Next
<1> QED
  BY <1>1, <1>2, RouterTypeCorrect, PTL DEF Spec, ReloadsAtomically, Atomic!Spec

\* matchRule, for any rule, context and address: when a request that was refused is
\* matched with an address it did not have, the address made the difference.
LEMMA RefusalStands ==
  ASSUME NEW rl, NEW ctx, NEW ctx2, ctx.ip = Nil,
         ctx2.tags = ctx.tags, ctx2.port = ctx.port, ctx2.sourcePort = ctx.sourcePort,
         ctx2.sourceIP = ctx.sourceIP, ctx2.domain = ctx.domain,
         ~MatchRule(rl, ctx), MatchRule(rl, ctx2)
  PROVE  IPMatched(rl, ctx2) /\ (rl.hasDomain => ctx2.domain = "")
<1>1. TagsMatch(rl, ctx) /\ SourceMatches(rl, ctx)
  BY DEF MatchRule, TagsMatch, SourceMatches
<1>2. PortsMatch(rl, ctx)
  <2>1. PortsMatch(rl, ctx2)
    BY DEF MatchRule
  <2> QED
    BY <2>1 DEF PortsMatch
<1>3. ~TargetMatches(rl, ctx) /\ TargetMatches(rl, ctx2)
  BY <1>1, <1>2 DEF MatchRule
<1>4. ~IPMatched(rl, ctx) /\ (DomainMatched(rl, ctx2) <=> DomainMatched(rl, ctx))
  BY DEF IPMatched, DomainMatched
<1> QED
  BY <1>3, <1>4 DEF TargetMatches, DomainMatched

\* The context that is matched has the fields of a routing context.
Matched ==
  rc = [tags |-> rc.tags, port |-> rc.port, sourcePort |-> rc.sourcePort,
        sourceIP |-> rc.sourceIP, domain |-> rc.domain, ip |-> rc.ip]

\* The rule and the context stay rules and contexts.
MatchInv == Matched /\ rule \in Rules /\ rc.port \in Nat

LEMMA MatchInvInit == MatchInit => MatchInv
BY MatchAssumption DEF MatchInit, MatchInv, Matched

\* Learning an address changes nothing else.
LEMMA OnlyAddress ==
  ASSUME MatchInv, Learn
  PROVE  /\ MatchInv' /\ rc.ip = Nil /\ rule' = rule
         /\ rc'.tags = rc.tags /\ rc'.port = rc.port /\ rc'.sourcePort = rc.sourcePort
         /\ rc'.sourceIP = rc.sourceIP /\ rc'.domain = rc.domain
<1> DEFINE a == rc.tags
           b == rc.port
           c == rc.sourcePort
           d == rc.sourceIP
           e == rc.domain
<1>1. rc = [tags |-> a, port |-> b, sourcePort |-> c, sourceIP |-> d, domain |-> e, ip |-> rc.ip]
  BY DEF MatchInv, Matched
<1>2. PICK new \in Addresses : rc' = [rc EXCEPT !.ip = new]
  BY DEF Learn
<1> HIDE DEF a, b, c, d, e
<1>3. rc' = [tags |-> a, port |-> b, sourcePort |-> c, sourceIP |-> d, domain |-> e, ip |-> new]
  BY <1>1, <1>2
<1>4. /\ rc'.tags = a /\ rc'.port = b /\ rc'.sourcePort = c
      /\ rc'.sourceIP = d /\ rc'.domain = e /\ rc'.ip = new
  BY <1>3
<1>5. Matched'
  BY <1>3, <1>4 DEF Matched
<1>6. MatchInv'
  BY <1>4, <1>5 DEF MatchInv, Learn, b
<1> QED
  BY <1>4, <1>6 DEF Learn, a, b, c, d, e

LEMMA MatchInvStep == MatchInv /\ [Learn]_matchVars => MatchInv'
<1>1. ASSUME MatchInv, UNCHANGED matchVars PROVE MatchInv'
  BY <1>1 DEF matchVars, MatchInv, Matched
<1> QED
  BY <1>1, OnlyAddress

\* The property of the run: a refusal by a rule that has a domain condition stays one
\* when DNS tells the address, unless the context has no domain and the address matches.
THEOREM RefusalKept == MatchSpec => LearningKeepsRefusal
<1>1. MatchInv /\ [Learn]_matchVars =>
        [~MatchRule(rule, rc) /\ MatchRule(rule, rc)' =>
           IPMatched(rule, rc') /\ (rule.hasDomain => rc.domain = "")]_matchVars
  <2> SUFFICES ASSUME MatchInv, Learn, ~MatchRule(rule, rc), MatchRule(rule, rc)'
      PROVE IPMatched(rule, rc') /\ (rule.hasDomain => rc.domain = "")
    OBVIOUS
  <2>1. rule' = rule
    BY DEF Learn
  <2>2. MatchRule(rule, rc')
    BY <2>1
  <2> QED
    BY <2>2, OnlyAddress, RefusalStands
<1> QED
  BY <1>1, MatchInvInit, MatchInvStep, PTL DEF MatchSpec, LearningKeepsRefusal

-----------------------------------------------------------------------------
\* Induction on the naturals for a property given as a set.
LEMMA SetInduction ==
  ASSUME NEW S, 0 \in S, \A n \in S : n + 1 \in S
  PROVE  Nat \subseteq S
<1> SUFFICES ASSUME Nat \ S # {} PROVE FALSE
  OBVIOUS
<1> DEFINE T == Nat \ S
           R == OpToRel(<, Nat)
<1>1. \A m, n \in Nat : n < m => <<n, m>> \in R
  BY DEF OpToRel
<1>2. IsWellFoundedOn(R, Nat)
  BY NatLessThanWellFounded
<1> HIDE DEF R
<1>3. PICK m \in T : \A n \in T : ~(<<n, m>> \in R)
  <2> T \subseteq Nat /\ T # {}
    OBVIOUS
  <2> HIDE DEF T
  <2> QED
    BY <1>2, WFMin
<1>4. m \in Nat /\ m \notin S /\ m # 0
  OBVIOUS
<1>5. m - 1 \in Nat /\ (m - 1) + 1 = m /\ <<m - 1, m>> \in R
  BY <1>1, <1>4
<1>6. m - 1 \in S
  BY <1>3, <1>5
<1> QED
  BY <1>4, <1>5, <1>6

\* v[n] is the number that the first n of the digits make.
PrefixNumbers(digits, v) ==
  /\ v \in [0 .. Len(digits) -> Nat]
  /\ v[0] = 0
  /\ \A n \in 1 .. Len(digits) : v[n] = v[n - 1] * 10 + digits[n]

Digits(chars) == Len(chars) \in Nat /\ \A n \in 1 .. Len(chars) : chars[n] \in 0..9

\* The numbers of the prefixes exist, so that the recursion of Numeral defines them.
LEMMA PrefixesExist ==
  ASSUME NEW chars, Digits(chars)
  PROVE  \E v : PrefixNumbers(chars, v)
<1> DEFINE Upto(n, v) == /\ v \in [0 .. n -> Nat] /\ v[0] = 0
                         /\ \A i \in 1 .. n : v[i] = v[i - 1] * 10 + chars[i]
           S == {n \in Nat : n <= Len(chars) => \E v : Upto(n, v)}
<1>1. 0 \in S
  <2> DEFINE v == [i \in 0..0 |-> 0]
  <2>1. v \in [0..0 -> Nat] /\ v[0] = 0
    OBVIOUS
  <2> HIDE DEF v
  <2>2. Upto(0, v)
    BY <2>1
  <2> QED
    BY <2>2
<1>2. ASSUME NEW n \in S PROVE n + 1 \in S
  <2> SUFFICES ASSUME n + 1 <= Len(chars) PROVE \E v : Upto(n + 1, v)
    <3> HIDE DEF Upto
    <3> QED
      OBVIOUS
  <2>1. n \in Nat /\ n <= Len(chars)
    BY DEF Digits
  <2>2. PICK v : Upto(n, v)
    BY <2>1
  <2> DEFINE next == v[n] * 10 + chars[n + 1]
             w == [i \in 0 .. n + 1 |-> IF i <= n THEN v[i] ELSE next]
  <2>3. next \in Nat
    <3>1. chars[n + 1] \in 0..9 /\ v[n] \in Nat
      BY <2>1, <2>2 DEF Digits
    <3>2. \A x \in Nat, d \in 0..9 : x * 10 + d \in Nat
      OBVIOUS
    <3> QED
      BY <3>1, <3>2
  <2>4. w \in [0 .. n + 1 -> Nat] /\ w[0] = 0
    <3> HIDE DEF next
    <3> QED
      BY <2>1, <2>2, <2>3
  <2>5. ASSUME NEW i \in 1 .. n + 1 PROVE w[i] = w[i - 1] * 10 + chars[i]
    <3>1. CASE i = n + 1
      BY <3>1, <2>1
    <3>2. CASE i # n + 1
      <4>1. i \in 1 .. n /\ i - 1 \in 0 .. n
        BY <3>2, <2>1
      <4> QED
        BY <4>1, <2>1, <2>2
    <3> QED
      BY <3>1, <3>2
  <2> QED
    BY <2>4, <2>5
<1> HIDE DEF S
<1>3. Len(chars) \in S
  BY <1>1, <1>2, SetInduction DEF Digits
<1> QED
  BY <1>3 DEF S, PrefixNumbers, Digits

\* Two functions with the same recursion are one: the number is that of the last prefix.
LEMMA NumeralOfPrefixes ==
  ASSUME NEW chars, Digits(chars), NEW v, PrefixNumbers(chars, v)
  PROVE  Numeral(chars) = v[Len(chars)]
<1> DEFINE f[n \in 0 .. Len(chars)] == IF n = 0 THEN 0 ELSE f[n - 1] * 10 + chars[n]
           S == {n \in Nat : n <= Len(chars) => f[n] = v[n]}
<1>1. Numeral(chars) = f[Len(chars)]
  BY DEF Numeral
<1>2. f = [n \in 0 .. Len(chars) |-> IF n = 0 THEN 0 ELSE f[n - 1] * 10 + chars[n]]
  <2> DEFINE Def(g) == [n \in 0 .. Len(chars) |-> IF n = 0 THEN 0 ELSE g[n - 1] * 10 + chars[n]]
  <2>1. v = Def(v)
    BY DEF PrefixNumbers, Digits
  <2>2. f = CHOOSE g : g = Def(g)
    OBVIOUS
  <2> HIDE DEF f, Def
  <2>3. f = Def(f)
    BY <2>1, <2>2
  <2> QED
    BY <2>3 DEF Def
<1> HIDE DEF f
<1>3. 0 \in S
  BY <1>2 DEF PrefixNumbers, Digits
<1>4. ASSUME NEW n \in S PROVE n + 1 \in S
  <2> SUFFICES ASSUME n + 1 <= Len(chars) PROVE f[n + 1] = v[n + 1]
    OBVIOUS
  <2>1. n \in Nat /\ n + 1 \in 1 .. Len(chars) /\ (n + 1) - 1 = n /\ f[n] = v[n]
    BY DEF Digits
  <2>2. f[n + 1] = f[n] * 10 + chars[n + 1]
    BY <1>2, <2>1
  <2> QED
    BY <2>1, <2>2 DEF PrefixNumbers
<1> HIDE DEF S
<1>5. Len(chars) \in S
  BY <1>3, <1>4, SetInduction DEF Digits
<1> QED
  BY <1>1, <1>5 DEF S, Digits

\* parsePort computes modulo 2^16, which makes no difference where the number has 16 bits.
LEMMA ParseOfPrefixes ==
  ASSUME NEW chars, Digits(chars), NEW v, PrefixNumbers(chars, v), v[Len(chars)] < PortModulus
  PROVE  ParsePort(chars) = v[Len(chars)]
<1> DEFINE N == Len(chars)
           Body(g, n) == IF n = 0 THEN 0
                         ELSE IF chars[n] \in 0..9 THEN (g[n - 1] * 10 + chars[n]) % PortModulus ELSE g[n - 1]
           f[n \in 0 .. N] == IF n = 0 THEN 0
                              ELSE IF chars[n] \in 0..9 THEN (f[n - 1] * 10 + chars[n]) % PortModulus
                                                        ELSE f[n - 1]
           D == {k \in Nat : k <= N => v[N - k] < PortModulus}
           S == {n \in Nat : n <= N => f[n] = v[n]}
<1>1. ParsePort(chars) = f[N]
  BY DEF ParsePort
<1>2. /\ N \in Nat /\ v \in [0 .. N -> Nat] /\ v[0] = 0
      /\ \A n \in 1 .. N : chars[n] \in 0..9 /\ v[n] = v[n - 1] * 10 + chars[n]
  BY DEF Digits, PrefixNumbers
<1>3. \A n \in 0 .. N : v[n] < PortModulus
  <2>1. 0 \in D
    BY <1>2
  <2>2. ASSUME NEW k \in D PROVE k + 1 \in D
    <3> SUFFICES ASSUME k + 1 <= N PROVE v[N - (k + 1)] < PortModulus
      OBVIOUS
    <3> DEFINE n == N - k
    <3>1. n \in 1 .. N /\ n - 1 = N - (k + 1) /\ n - 1 \in 0 .. N /\ v[n] < PortModulus
      BY <1>2
    <3>2. v[n] = v[n - 1] * 10 + chars[n] /\ chars[n] \in 0..9 /\ v[n - 1] \in Nat
      BY <1>2, <3>1
    <3>3. \A x \in Nat, d \in 0..9 : x * 10 + d < PortModulus => x < PortModulus
      BY DEF PortModulus
    <3> HIDE DEF n
    <3> DEFINE last == v[n - 1]
               d == chars[n]
    <3>4. last \in Nat /\ d \in 0..9 /\ last * 10 + d < PortModulus
      BY <3>1, <3>2
    <3> HIDE DEF last, d
    <3>5. last < PortModulus
      BY <3>3, <3>4
    <3> QED
      BY <3>1, <3>5 DEF last
  <2> HIDE DEF D
  <2>3. Nat \subseteq D
    BY <2>1, <2>2, SetInduction
  <2> SUFFICES ASSUME NEW n \in 0 .. N PROVE v[n] < PortModulus
    OBVIOUS
  <2>4. N - n \in D /\ N - n <= N /\ N - (N - n) = n
    BY <1>2, <2>3
  <2> QED
    BY <2>4 DEF D
<1>4. ASSUME NEW n \in 0 .. N PROVE v[n] = Body(v, n)
  <2>1. CASE n = 0
    BY <2>1, <1>2
  <2>2. CASE n # 0
    <3>1. n \in 1 .. N /\ n - 1 \in 0 .. N
      BY <2>2, <1>2
    <3>2. v[n] = v[n - 1] * 10 + chars[n] /\ chars[n] \in 0..9 /\ v[n] \in Nat /\ v[n] < PortModulus
      BY <1>2, <1>3, <3>1
    <3>3. v[n] % PortModulus = v[n]
      BY <3>2 DEF PortModulus
    <3> QED
      BY <2>2, <3>2, <3>3
  <2> QED
    BY <2>1, <2>2
<1>5. \A n \in 0 .. N : f[n] = Body(f, n)
  <2> DEFINE Def(g) == [n \in 0 .. N |-> Body(g, n)]
  <2>1. v = Def(v)
    <3> HIDE DEF Body
    <3> QED
      BY <1>2, <1>4
  <2>2. f = CHOOSE g : g = Def(g)
    OBVIOUS
  <2> HIDE DEF f, Def
  <2>3. f = Def(f)
    BY <2>1, <2>2
  <2> HIDE DEF Body
  <2> QED
    BY <2>3 DEF Def
<1> HIDE DEF f
<1>6. 0 \in S
  BY <1>2, <1>5
<1>7. ASSUME NEW n \in S PROVE n + 1 \in S
  <2> SUFFICES ASSUME n + 1 <= N PROVE f[n + 1] = v[n + 1]
    OBVIOUS
  <2>1. n \in Nat /\ n + 1 \in 0 .. N /\ n + 1 # 0 /\ (n + 1) - 1 = n /\ f[n] = v[n]
    BY <1>2
  <2>2. Body(f, n + 1) = Body(v, n + 1)
    BY <2>1
  <2> HIDE DEF Body
  <2> QED
    BY <1>4, <1>5, <2>1, <2>2
<1> HIDE DEF S
<1>8. N \in S
  BY <1>2, <1>6, <1>7, SetInduction
<1> QED
  BY <1>1, <1>2, <1>8 DEF S

\* On digits that make a number of 16 bits, parsePort returns this number.
LEMMA ParsesNumerals ==
  ASSUME NEW chars \in Seq(Int), \A n \in 1 .. Len(chars) : chars[n] \in 0..9, Numeral(chars) < PortModulus
  PROVE  ParsePort(chars) = Numeral(chars) /\ Numeral(chars) \in Nat
<1>1. Digits(chars)
  BY DEF Digits
<1>2. PICK v : PrefixNumbers(chars, v)
  BY <1>1, PrefixesExist
<1>3. Numeral(chars) = v[Len(chars)]
  BY <1>1, <1>2, NumeralOfPrefixes
<1>4. v[Len(chars)] \in Nat
  BY <1>1, <1>2 DEF Digits, PrefixNumbers
<1> QED
  BY <1>1, <1>2, <1>3, <1>4, ParseOfPrefixes

\* A pattern without "-" is one number.
LEMMA FlattenOne ==
  ASSUME NEW seqs, Len(seqs) = 1
  PROVE  FlattenSeq(seqs) = seqs[1]
<1> DEFINE flatten[i \in 1 .. Len(seqs)] == IF i = 1 THEN seqs[i] ELSE flatten[i - 1] \o seqs[i]
           Def(g) == [i \in 1 .. Len(seqs) |-> IF i = 1 THEN seqs[i] ELSE g[i - 1] \o seqs[i]]
           one == [i \in 1 .. Len(seqs) |-> seqs[1]]
<1>1. FlattenSeq(seqs) = flatten[1]
  BY DEF FlattenSeq
<1>2. one = Def(one)
  OBVIOUS
<1>3. flatten = CHOOSE g : g = Def(g)
  OBVIOUS
<1> HIDE DEF flatten, Def
<1>4. flatten = Def(flatten)
  BY <1>2, <1>3
<1> QED
  BY <1>1, <1>4 DEF Def

\* matchPort, for any pattern of one or two numbers of 16 bits and any port.
LEMMA MatchesRange ==
  ASSUME NEW pattern \in Seq(Seq(Int)), WellFormed(pattern), NEW port \in Nat
  PROVE  MatchPort(pattern, port) <=>
           Numeral(pattern[1]) <= port /\ port <= Numeral(pattern[Len(pattern)])
<1>1. ASSUME NEW i \in 1 .. Len(pattern)
      PROVE ParsePort(pattern[i]) = Numeral(pattern[i]) /\ Numeral(pattern[i]) \in Nat
  <2>1. pattern[i] \in Seq(Int)
    OBVIOUS
  <2>2. (\A j \in 1 .. Len(pattern[i]) : pattern[i][j] \in 0..9) /\ Numeral(pattern[i]) < PortModulus
    BY DEF WellFormed
  <2> QED
    BY <2>1, <2>2, ParsesNumerals
<1>2. CASE Len(pattern) = 2
  BY <1>1, <1>2 DEF MatchPort
<1>3. CASE Len(pattern) = 1
  <2>1. FlattenSeq(pattern) = pattern[1]
    BY <1>3, FlattenOne
  <2>2. ParsePort(pattern[1]) = Numeral(pattern[1]) /\ Numeral(pattern[1]) \in Nat
    BY <1>1, <1>3
  <2>3. ~Blank(pattern)
    <3>1. pattern[1] \in Seq(Int)
      BY <1>3
    <3>2. pattern[1] # <<>>
      BY <1>3 DEF WellFormed
    <3>3. 1 \in DOMAIN pattern[1] /\ 1 \in 1 .. Len(pattern[1])
      BY <3>1, <3>2
    <3>4. pattern[1][1] \in 0..9
      BY <1>3, <3>3 DEF WellFormed
    <3> QED
      BY <3>3, <3>4 DEF Blank, Space
  <2> QED
    BY <1>3, <2>1, <2>2, <2>3 DEF MatchPort
<1> QED
  BY <1>2, <1>3 DEF WellFormed

\* The property of the run, for every set of rules and requests: a port condition made of
\* one or two numbers of 16 bits accepts the ports between them and no others.
THEOREM PortRangeHolds == MatchSpec => []PortRange
<1>1. MatchInv => PortRange
  <2> SUFFICES ASSUME MatchInv, WellFormed(rule.port)
      PROVE MatchPort(rule.port, rc.port) <=>
              Numeral(rule.port[1]) <= rc.port /\ rc.port <= Numeral(rule.port[Len(rule.port)])
    BY DEF PortRange
  <2>1. rule.port \in Seq(Seq(Int)) /\ rc.port \in Nat
    BY MatchAssumption DEF MatchInv
  <2> QED
    BY <2>1, MatchesRange
<1> QED
  BY <1>1, MatchInvInit, MatchInvStep, PTL DEF MatchSpec
=============================================================================
