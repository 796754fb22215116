-------------------------- MODULE PlanBuildProofs --------------------------
(***************************************************************************)
(* What holds of the planner for every set of options and every resolver:  *)
(* type correctness, that unknown services are refused, that the plan is   *)
(* the matrix asked for, and that its variants are comparable.             *)
(***************************************************************************)
EXTENDS PlanBuild, TLAPS

-----------------------------------------------------------------------------
\* The template table.

LEMMA TableLength == Len(ServiceTemplates) = 12 /\ DOMAIN ServiceTemplates = 1..12
  BY DEF ServiceTemplates

\* What the planner relies on in an entry of the table.
TemplateFields ==
    [key: ServiceKeys, alpns: SUBSET Proto, sni: {"public", "cluster", "kube"},
     upgrade: BOOLEAN, informational: BOOLEAN, trust: Trust, clientCert: BOOLEAN]

LEMMA TableEntries ==
    ASSUME NEW n \in 1..12
    PROVE  /\ ServiceTemplates[n].upgrade \in BOOLEAN
           /\ ServiceTemplates[n].informational \in BOOLEAN
           /\ ServiceTemplates[n].clientCert \in BOOLEAN
           /\ ServiceTemplates[n].sni \in {"public", "cluster", "kube"}
           /\ ServiceTemplates[n].trust \in {"system", "host_ca"}
           /\ ServiceTemplates[n].clientCert <=>
                 ServiceTemplates[n].key \in {"proxy_ssh_grpc", "auth_via_proxy"}
<1> USE DEF ServiceTemplates, Template, DbTemplate
<1>1. CASE n = 1   BY <1>1
<1>2. CASE n = 2   BY <1>2
<1>3. CASE n = 3   BY <1>3
<1>4. CASE n = 4   BY <1>4
<1>5. CASE n = 5   BY <1>5
<1>6. CASE n = 6   BY <1>6
<1>7. CASE n = 7   BY <1>7
<1>8. CASE n = 8   BY <1>8
<1>9. CASE n = 9   BY <1>9
<1>10. CASE n = 10   BY <1>10
<1>11. CASE n = 11   BY <1>11
<1>12. CASE n = 12   BY <1>12
<1>13. n \in {1, 2, 3, 4, 5, 6, 7, 8, 9, 10, 11, 12}
  OBVIOUS
<1> HIDE DEF ServiceTemplates, Template, DbTemplate
<1> QED
  BY <1>1, <1>2, <1>3, <1>4, <1>5, <1>6, <1>7, <1>8, <1>9, <1>10, <1>11, <1>12, <1>13

LEMMA TableType ==
    ASSUME NEW n \in 1..12
    PROVE  ServiceTemplates[n] \in TemplateFields
<1> DEFINE t == ServiceTemplates[n]
<1>1. n \in {1, 2, 3, 4, 5, 6, 7, 8, 9, 10, 11, 12}
  OBVIOUS
<1>2. t = [key |-> t.key, alpns |-> t.alpns, sni |-> t.sni, upgrade |-> t.upgrade,
           informational |-> t.informational, trust |-> t.trust,
           clientCert |-> t.clientCert]
  BY <1>1 DEF ServiceTemplates, Template, DbTemplate
<1>3. t.key \in ServiceKeys
  BY TableLength DEF ServiceKeys
<1>4. t.alpns \subseteq Proto
  BY TableLength, NamesAssumption
<1>5. /\ t.upgrade \in BOOLEAN /\ t.informational \in BOOLEAN
      /\ t.clientCert \in BOOLEAN /\ t.trust \in Trust
      /\ t.sni \in {"public", "cluster", "kube"}
  BY TableEntries DEF Trust
<1> HIDE DEF t
<1> QED
  BY <1>2, <1>3, <1>4, <1>5 DEF TemplateFields, t

\* No two templates share a key.
LEMMA KeysDistinct ==
    ASSUME NEW m \in 1..12, NEW n \in 1..12,
           ServiceTemplates[m].key = ServiceTemplates[n].key
    PROVE  m = n
<1>1. /\ m \in {1, 2, 3, 4, 5, 6, 7, 8, 9, 10, 11, 12}
      /\ n \in {1, 2, 3, 4, 5, 6, 7, 8, 9, 10, 11, 12}
  OBVIOUS
<1> QED
  BY <1>1 DEF ServiceTemplates, Template, DbTemplate

-----------------------------------------------------------------------------
\* The targets a template gives, and what the doublings make of a target.

LEMMA OptionsType ==
    ASSUME TypeOK
    PROVE  opts \in Options
  BY OptionsAssumption DEF TypeOK

LEMMA BaseTargetType ==
    ASSUME TypeOK, NEW tmpl \in TemplateFields, NEW choice \in CertChoice
    PROVE  BaseTarget(tmpl, choice) \in Target
<1>1. tmpl.key \in Service
  BY NamesAssumption DEF TemplateFields
<1>2. opts.publicAddr \in Address /\ opts.ipAddresses \in Seq(Address)
  BY OptionsType DEF Options
<1>3. (IF opts.webProxyPort <= 0 THEN 443 ELSE opts.webProxyPort) \in Nat
  BY OptionsType DEF Options
<1>4. Sni(tmpl) \in ServerName
  BY NamesAssumption DEF TemplateFields, Sni
<1>5. Alpns(tmpl) \in SUBSET Proto
  BY DEF TemplateFields, Alpns
<1>6. (IF tmpl.upgrade THEN DetermineUpgradeSequence(opts.version) ELSE {}) \in SUBSET Upgrade
  BY NamesAssumption DEF DetermineUpgradeSequence
<1>7. (tmpl.informational /\ ~opts.tlsRouting) \in BOOLEAN
  OBVIOUS
<1>8. opts.repeat \in Int /\ tmpl.trust \in Trust
  BY OptionsType DEF Options, TemplateFields
<1>9. <<>> \in Seq(Address)
  OBVIOUS
<1> QED
  BY <1>1, <1>2, <1>3, <1>4, <1>5, <1>6, <1>7, <1>8, <1>9 DEF BaseTarget, Target

LEMMA BaseTargetFields ==
    ASSUME NEW tmpl, NEW choice
    PROVE  LET t == BaseTarget(tmpl, choice) IN
           /\ t.service = tmpl.key /\ t.useClientCert = choice
           /\ ~t.useProxy /\ t.proxyURL = NoURL /\ ~t.extraHeaders
  BY DEF BaseTarget

\* A template gives one target for each choice it leaves, in a type-correct
\* sequence.
LEMMA InstantiateShape ==
    ASSUME TypeOK, NEW tmpl \in TemplateFields
    PROVE  /\ Instantiate(tmpl) \in Seq(Target)
           /\ Len(Instantiate(tmpl)) = Len(CertChoices(tmpl))
           /\ CertChoices(tmpl) \in Seq(CertChoice)
           /\ \A i \in 1..Len(CertChoices(tmpl)) :
                 Instantiate(tmpl)[i] = BaseTarget(tmpl, CertChoices(tmpl)[i])
<1>1. CertChoices(tmpl) \in Seq(CertChoice)
  <2>1. /\ <<"unset">> \in Seq(CertChoice) /\ <<"without">> \in Seq(CertChoice)
        /\ <<"with", "without">> \in Seq(CertChoice)
    BY DEF CertChoice
  <2> QED
    BY <2>1 DEF CertChoices
<1>2. \A i \in 1..Len(CertChoices(tmpl)) :
         BaseTarget(tmpl, CertChoices(tmpl)[i]) \in Target
  BY <1>1, BaseTargetType
<1>3. Len(CertChoices(tmpl)) \in Nat
  BY <1>1
<1> QED
  BY <1>1, <1>2, <1>3 DEF Instantiate

\* The client certificate choice c is among those the template is given.
Offered(tmpl, c) ==
    \E i \in 1..Len(CertChoices(tmpl)) : CertChoices(tmpl)[i] = c

\* The choices of a template are the distinct ones its service has.
LEMMA ChoicesOfTemplate ==
    ASSUME TypeOK, NEW tmpl,
           tmpl.clientCert <=> tmpl.key \in {"proxy_ssh_grpc", "auth_via_proxy"}
    PROVE  /\ \A i \in 1..Len(CertChoices(tmpl)) :
                 CertChoices(tmpl)[i] \in CertChoicesOf(opts, tmpl.key)
           /\ \A c \in CertChoicesOf(opts, tmpl.key) : Offered(tmpl, c)
           /\ \A i, j \in 1..Len(CertChoices(tmpl)) :
                 CertChoices(tmpl)[i] = CertChoices(tmpl)[j] => i = j
<1>1. tmpl.clientCert <=> tmpl.key \in {"proxy_ssh_grpc", "auth_via_proxy"}
  OBVIOUS
<1>2. CASE ~opts.clientCert
  <2>1. CertChoices(tmpl) = <<"unset">> /\ CertChoicesOf(opts, tmpl.key) = {"unset"}
    BY <1>2 DEF CertChoices, CertChoicesOf
  <2> QED  BY <2>1 DEF Offered
<1>3. CASE opts.clientCert /\ tmpl.clientCert
  <2>1. /\ CertChoices(tmpl) = <<"with", "without">>
        /\ CertChoicesOf(opts, tmpl.key) = {"with", "without"}
    BY <1>1, <1>3 DEF CertChoices, CertChoicesOf
  <2> QED  BY <2>1 DEF Offered
<1>4. CASE opts.clientCert /\ ~tmpl.clientCert
  <2>1. CertChoices(tmpl) = <<"without">> /\ CertChoicesOf(opts, tmpl.key) = {"without"}
    BY <1>1, <1>4 DEF CertChoices, CertChoicesOf
  <2> QED  BY <2>1 DEF Offered
<1> QED
  BY <1>2, <1>3, <1>4

\* The variants of a target are targets and differ from it only where they say.
LEMMA VariantType ==
    ASSUME TypeOK, NEW t \in Target
    PROVE  WithProxy(t) \in Target /\ WithoutProxy(t) \in Target /\ WithHeaders(t) \in Target
<1>1. ProxyFor(opts) \in ProxyURL \cup {NoURL}
  BY OptionsType DEF ProxyFor, Options
<1>2. WithProxy(t) \in Target
  BY <1>1 DEF WithProxy, Target
<1>3. WithoutProxy(t) \in Target
  BY DEF WithoutProxy, Target
<1>4. WithHeaders(t) \in Target
  BY DEF WithHeaders, Target
<1> QED
  BY <1>2, <1>3, <1>4

\* Applying a variant to every target of a sequence gives a sequence of targets.
LEMMA MapType ==
    ASSUME NEW ts \in Seq(Target), NEW xs, xs = [n \in DOMAIN ts |-> xs[n]],
           \A n \in DOMAIN ts : xs[n] \in Target
    PROVE  xs \in Seq(Target) /\ Len(xs) = Len(ts)
<1>1. DOMAIN ts = 1..Len(ts) /\ Len(ts) \in Nat
  OBVIOUS
<1>2. xs \in [1..Len(ts) -> Target]
  BY <1>1
<1> QED
  BY <1>1, <1>2

\* Interleaving keeps every element of both sequences: ts alternates between the
\* elements of xs and those of ys.
Interleaved(ts, xs, ys, L) ==
    /\ ts \in Seq(Target) /\ DOMAIN ts = 1..(2 * L)
    /\ \A n \in 1..(2 * L) : \E k \in 1..L :
          \/ n = 2 * k - 1 /\ ts[n] = xs[k]
          \/ n = 2 * k /\ ts[n] = ys[k]
    /\ \A k \in 1..L :
          /\ 2 * k - 1 \in 1..(2 * L) /\ ts[2 * k - 1] = xs[k]
          /\ 2 * k \in 1..(2 * L) /\ ts[2 * k] = ys[k]

LEMMA InterleaveShape ==
    ASSUME NEW xs \in Seq(Target), NEW ys \in Seq(Target), NEW L \in Nat,
           Len(xs) = L, Len(ys) = L
    PROVE  Interleaved(Interleave(xs, ys), xs, ys, L)
<1> DEFINE I == [n \in 1..(2 * L) |->
                   IF n % 2 = 1 THEN xs[(n + 1) \div 2] ELSE ys[n \div 2]]
<1>1. Interleave(xs, ys) = I
  BY DEF Interleave
<1>2. L \in Nat
  OBVIOUS
<1>3. \A n \in 1..(2 * L) : \E k \in 1..L :
         \/ n = 2 * k - 1 /\ I[n] = xs[k]
         \/ n = 2 * k /\ I[n] = ys[k]
  <2>1. TAKE n \in 1..(2 * L)
  <2>2. CASE n % 2 = 1
    <3>1. (n + 1) \div 2 \in 1..L /\ n = 2 * ((n + 1) \div 2) - 1
      BY <1>2, <2>2
    <3> QED  BY <3>1, <2>2
  <2>3. CASE n % 2 # 1
    <3>1. n \div 2 \in 1..L /\ n = 2 * (n \div 2)
      BY <1>2, <2>3
    <3> QED  BY <3>1, <2>3
  <2> QED  BY <2>2, <2>3
<1>4. \A k \in 1..L :
         /\ 2 * k - 1 \in 1..(2 * L) /\ I[2 * k - 1] = xs[k]
         /\ 2 * k \in 1..(2 * L) /\ I[2 * k] = ys[k]
  <2>1. TAKE k \in 1..L
  <2>2. 2 * k - 1 \in 1..(2 * L) /\ 2 * k \in 1..(2 * L)
    BY <1>2
  <2>3. (2 * k - 1) % 2 = 1 /\ ((2 * k - 1) + 1) \div 2 = k
    BY <1>2
  <2>4. (2 * k) % 2 # 1 /\ (2 * k) \div 2 = k
    BY <1>2
  <2> QED  BY <2>2, <2>3, <2>4
<1>5. I = [n \in 1..(2 * L) |-> I[n]]
  OBVIOUS
<1> HIDE DEF I
<1>6. \A n \in 1..(2 * L) : I[n] \in Target
  <2>1. \A k \in 1..L : xs[k] \in Target /\ ys[k] \in Target
    OBVIOUS
  <2>2. TAKE n \in 1..(2 * L)
  <2>3. PICK k \in 1..L : I[n] = xs[k] \/ I[n] = ys[k]
    BY <1>3, <2>2
  <2> QED  BY <2>1, <2>3
<1>7. 2 * L \in Nat
  BY <1>2
<1>8. I \in Seq(Target)
  <2> DEFINE M == 2 * L
  <2>1. M \in Nat /\ I = [n \in 1..M |-> I[n]] /\ \A n \in 1..M : I[n] \in Target
    BY <1>5, <1>6, <1>7
  <2> HIDE DEF M
  <2> QED
    BY <2>1
<1>9. DOMAIN I = 1..(2 * L)
  BY <1>5
<1>10. Interleaved(I, xs, ys, L)
  BY <1>3, <1>4, <1>8, <1>9 DEF Interleaved
<1> QED
  BY <1>1, <1>10

LEMMA InterleaveType ==
    ASSUME NEW xs \in Seq(Target), NEW ys \in Seq(Target), Len(xs) = Len(ys)
    PROVE  Interleave(xs, ys) \in Seq(Target)
<1>1. Len(xs) \in Nat
  OBVIOUS
<1> QED
  BY <1>1, InterleaveShape DEF Interleaved

-----------------------------------------------------------------------------
\* Type correctness.

\* Whatever the options and the resolver's answers, the planner's state is
\* well typed and what it builds are targets the engine can take.
THEOREM TypeCorrect == Spec => []TypeOK
<1>1. Init => TypeOK
  <2> SUFFICES ASSUME Init PROVE TypeOK
    OBVIOUS
  <2>1. <<>> \in Seq(Target) /\ Len(ServiceTemplates) = 12
    BY TableLength
  <2> QED
    BY <2>1 DEF Init, TypeOK
<1>2. TypeOK /\ [Next]_vars => TypeOK'
  <2> SUFFICES ASSUME TypeOK, [Next]_vars PROVE TypeOK'
    OBVIOUS
  <2> USE DEF TypeOK
  <2>1. /\ targets \in Seq(Target) /\ Len(targets) \in Nat
        /\ next \in Nat \ {0} /\ Len(ServiceTemplates) = 12
    BY TableLength
  <2>2. CASE TakeTemplate
    <3>1. next \in 1..12
      BY <2>1, <2>2 DEF TakeTemplate
    <3>2. Instantiate(ServiceTemplates[next]) \in Seq(Target)
      BY <3>1, TableType, InstantiateShape
    <3>3. targets \o Instantiate(ServiceTemplates[next]) \in Seq(Target)
      BY <2>1, <3>2
    <3>4. targets' \in {targets, targets \o Instantiate(ServiceTemplates[next])}
      BY <2>2 DEF TakeTemplate
    <3>5. targets' \in Seq(Target)
      BY <2>1, <3>3, <3>4
    <3> QED  BY <2>1, <2>2, <3>1, <3>5 DEF TakeTemplate
  <2>3. CASE CheckFilter
    <3>1. targets' \in Seq(Target)
      BY <2>1, <2>3 DEF CheckFilter
    <3> QED  BY <2>1, <2>3, <3>1 DEF CheckFilter
  <2>4. ASSUME NEW answer \in DNSAnswers, ResolveDNS(answer) PROVE TypeOK'
    <3>1. answer \in Seq(Address)
      BY AnswersAssumption
    <3>2. next \in 1..Len(targets) /\ targets[next] \in Target
      BY <2>1, <2>4 DEF ResolveDNS
    <3>3. [targets[next] EXCEPT !.dnsIPs = answer] \in Target
      BY <3>1, <3>2 DEF Target
    <3>4. targets' \in Seq(Target) /\ Len(targets') = Len(targets)
      BY <2>1, <2>4, <3>2, <3>3 DEF ResolveDNS
    <3> QED  BY <2>1, <2>4, <3>4 DEF ResolveDNS
  <2>5. CASE ExpandForProxy
    <3> DEFINE xs == [n \in DOMAIN targets |-> WithProxy(targets[n])]
               ys == [n \in DOMAIN targets |-> WithoutProxy(targets[n])]
    <3>1. \A n \in DOMAIN targets : targets[n] \in Target
      BY <2>1
    <3>2. \A n \in DOMAIN targets :
             WithProxy(targets[n]) \in Target /\ WithoutProxy(targets[n]) \in Target
      BY <3>1, VariantType
    <3>3. xs \in Seq(Target) /\ ys \in Seq(Target) /\ Len(xs) = Len(ys)
      <4>1. /\ xs = [n \in DOMAIN targets |-> xs[n]]
            /\ ys = [n \in DOMAIN targets |-> ys[n]]
            /\ \A n \in DOMAIN targets : xs[n] \in Target /\ ys[n] \in Target
        BY <3>2
      <4> HIDE DEF xs, ys
      <4> QED  BY <2>1, <4>1, MapType
    <3>4. Interleave(xs, ys) \in Seq(Target)
      BY <3>3, InterleaveType
    <3>5. targets' \in Seq(Target)
      BY <2>1, <2>5, <3>4 DEF ExpandForProxy
    <3> QED  BY <2>1, <2>5, <3>5 DEF ExpandForProxy
  <2>6. CASE ExpandForHeaders
    <3> DEFINE ys == [n \in DOMAIN targets |-> WithHeaders(targets[n])]
    <3>1. \A n \in DOMAIN targets : targets[n] \in Target
      BY <2>1
    <3>2. ys \in Seq(Target) /\ Len(targets) = Len(ys)
      <4>1. /\ ys = [n \in DOMAIN targets |-> ys[n]]
            /\ \A n \in DOMAIN targets : ys[n] \in Target
        BY <3>1, VariantType
      <4> HIDE DEF ys
      <4> QED  BY <2>1, <4>1, MapType
    <3>3. Interleave(targets, ys) \in Seq(Target)
      BY <2>1, <3>2, InterleaveType
    <3>4. targets' \in Seq(Target)
      BY <2>1, <2>6, <3>3 DEF ExpandForHeaders
    <3> QED  BY <2>1, <2>6, <3>4 DEF ExpandForHeaders
  <2>7. CASE UNCHANGED vars
    BY <2>7 DEF vars
  <2>8. CASE Stopped
    BY <2>7, <2>8 DEF Stopped
  <2> QED
    BY <2>2, <2>3, <2>4, <2>5, <2>6, <2>7, <2>8 DEF Next
<1> QED
  BY <1>1, <1>2, PTL DEF Spec

-----------------------------------------------------------------------------
\* The filter.

\* While templates are taken, the pending keys are the wanted ones that no
\* template so far has.
FilterInv ==
    /\ pc = "templates" =>
          pending = opts.filter \ {ServiceTemplates[n].key : n \in 1..(next - 1)}
    /\ UnknownServicesRefused

LEMMA FilterInit == Init => FilterInv
<1> SUFFICES ASSUME Init PROVE FilterInv
  OBVIOUS
<1>1. 1..(1 - 1) = {}
  OBVIOUS
<1> QED
  BY <1>1 DEF Init, FilterInv, UnknownServicesRefused

\* A template whose key is not pending is not wanted, since no other has its key.
LEMMA PendingKey ==
    ASSUME TypeOK, FilterInv, pc = "templates", next <= 12
    PROVE  ServiceTemplates[next].key \in pending
              <=> ServiceTemplates[next].key \in opts.filter
<1>1. next \in 1..12
  BY DEF TypeOK
<1>2. \A n \in 1..(next - 1) : ServiceTemplates[n].key # ServiceTemplates[next].key
  <2>1. TAKE n \in 1..(next - 1)
  <2>2. n \in 1..12 /\ n # next
    BY <1>1, <2>1
  <2> QED  BY <1>1, <2>2, KeysDistinct
<1> QED
  BY <1>2 DEF FilterInv

LEMMA FilterStep == TypeOK /\ FilterInv /\ [Next]_vars => FilterInv'
<1> SUFFICES ASSUME TypeOK, FilterInv, [Next]_vars PROVE FilterInv'
  OBVIOUS
<1>1. CASE TakeTemplate
  <2>1. next \in 1..12 /\ pc' = pc /\ pc = "templates" /\ next' = next + 1 /\ opts' = opts
    BY <1>1, TableLength DEF TakeTemplate, TypeOK
  <2>2. pending' = pending \ {ServiceTemplates[next].key}
    BY <1>1 DEF TakeTemplate
  <2>3. 1..(next' - 1) = (1..(next - 1)) \cup {next}
    BY <2>1
  <2>4. pending = opts.filter \ {ServiceTemplates[n].key : n \in 1..(next - 1)}
    BY <2>1 DEF FilterInv
  <2>5. pending' = opts.filter \ {ServiceTemplates[n].key : n \in 1..(next' - 1)}
    BY <2>2, <2>3, <2>4
  <2> QED
    BY <2>1, <2>5 DEF FilterInv, UnknownServicesRefused
<1>2. CASE CheckFilter
  <2>1. pc = "templates" /\ next = 13 /\ opts' = opts
    BY <1>2, TableLength DEF CheckFilter, TypeOK
  <2>2. 1..(next - 1) = DOMAIN ServiceTemplates
    BY <2>1, TableLength
  <2>3. pending = opts.filter \ ServiceKeys
    BY <2>1, <2>2 DEF FilterInv, ServiceKeys
  <2> QED
    BY <1>2, <2>1, <2>3 DEF CheckFilter, FilterInv, UnknownServicesRefused
<1>3. ASSUME NEW answer \in DNSAnswers, ResolveDNS(answer) PROVE FilterInv'
  BY <1>3 DEF ResolveDNS, FilterInv, UnknownServicesRefused
<1>4. CASE ExpandForProxy
  BY <1>4 DEF ExpandForProxy, FilterInv, UnknownServicesRefused
<1>5. CASE ExpandForHeaders
  BY <1>5 DEF ExpandForHeaders, FilterInv, UnknownServicesRefused
<1>6. CASE UNCHANGED vars
  BY <1>6 DEF vars, FilterInv, UnknownServicesRefused
<1>7. CASE Stopped
  BY <1>6, <1>7 DEF Stopped
<1> QED
  BY <1>1, <1>2, <1>3, <1>4, <1>5, <1>6, <1>7 DEF Next

LEMMA FilterIsKept == Spec => [](TypeOK /\ FilterInv)
<1>1. Init => FilterInv
  BY FilterInit
<1>2. TypeOK /\ FilterInv /\ [Next]_vars => FilterInv'
  BY FilterStep
<1> QED
  BY <1>1, <1>2, TypeCorrect, PTL DEF Spec

\* A filter with an unknown key gives no plan, and only such a filter gives none
\* (plan.go:102-108).
THEOREM OnlyUnknownServicesAreRefused == Spec => []UnknownServicesRefused
<1>1. FilterInv => UnknownServicesRefused
  BY DEF FilterInv
<1> QED
  BY <1>1, FilterIsKept, PTL

-----------------------------------------------------------------------------
\* The matrix, as it grows.

\* The wanted services among the first k templates.
Claimed(o, k) == Wanted(o) \cap {ServiceTemplates[n].key : n \in 1..k}

SameRow(a, b) == a.service = b.service /\ a.useClientCert = b.useClientCert

\* Before the doublings: one plain target for each service of W and each of its
\* client certificate choices.
BaseRows(o, ts, W) ==
    /\ \A n \in DOMAIN ts :
          /\ ts[n].service \in W
          /\ ts[n].useClientCert \in CertChoicesOf(o, ts[n].service)
          /\ ~ts[n].useProxy /\ ts[n].proxyURL = NoURL /\ ~ts[n].extraHeaders
    /\ \A key \in W : \A c \in CertChoicesOf(o, key) : \E n \in DOMAIN ts :
          ts[n].service = key /\ ts[n].useClientCert = c
    /\ \A m, n \in DOMAIN ts : SameRow(ts[m], ts[n]) => m = n

LEMMA BaseRowsExtend ==
    ASSUME TypeOK, next \in 1..12, NEW tmpl, tmpl = ServiceTemplates[next],
           tmpl.key \in Wanted(opts),
           BaseRows(opts, targets, Claimed(opts, next - 1))
    PROVE  BaseRows(opts, targets \o Instantiate(tmpl), Claimed(opts, next))
<1> DEFINE L == Len(targets)
           K == Len(CertChoices(tmpl))
           ts == targets \o Instantiate(tmpl)
           V == Claimed(opts, next - 1)
           W == Claimed(opts, next)
<1>1. tmpl \in TemplateFields
  BY TableType
<1>2. /\ targets \in Seq(Target) /\ L \in Nat /\ DOMAIN targets = 1..L
      /\ Instantiate(tmpl) \in Seq(Target) /\ Len(Instantiate(tmpl)) = K /\ K \in Nat
  BY <1>1, InstantiateShape DEF TypeOK
<1>3. DOMAIN ts = 1..(L + K)
  BY <1>2
<1>4. \A n \in 1..L : n \in DOMAIN ts /\ ts[n] = targets[n]
  BY <1>2, <1>3
<1>5. \A i \in 1..K :
         L + i \in DOMAIN ts /\ ts[L + i] = BaseTarget(tmpl, CertChoices(tmpl)[i])
  BY <1>1, <1>2, <1>3, InstantiateShape
<1>6. \A n \in DOMAIN ts : n \in 1..L \/ \E i \in 1..K : n = L + i
  <2>1. TAKE n \in DOMAIN ts
  <2>2. CASE n > L
    <3>1. n - L \in 1..K /\ n = L + (n - L)
      BY <1>2, <1>3, <2>1, <2>2
    <3> QED  BY <3>1
  <2> QED  BY <1>2, <1>3, <2>1, <2>2
<1>7. W = V \cup {tmpl.key} /\ tmpl.key \notin V
  <2>1. 1..next = (1..(next - 1)) \cup {next}
    OBVIOUS
  <2>2. \A n \in 1..(next - 1) : ServiceTemplates[n].key # tmpl.key
    <3>1. TAKE n \in 1..(next - 1)
    <3>2. n \in 1..12 /\ n # next
      BY <3>1
    <3> QED  BY <3>2, KeysDistinct
  <2> QED
    BY <2>1, <2>2 DEF Claimed
<1>8. \A i \in 1..K :
         LET t == ts[L + i] IN
         /\ t.service = tmpl.key /\ t.useClientCert = CertChoices(tmpl)[i]
         /\ ~t.useProxy /\ t.proxyURL = NoURL /\ ~t.extraHeaders
  BY <1>5, BaseTargetFields
<1> HIDE DEF ts, V, W, K, L
<1>9. /\ \A i \in 1..K : CertChoices(tmpl)[i] \in CertChoicesOf(opts, tmpl.key)
      /\ \A i, j \in 1..K : CertChoices(tmpl)[i] = CertChoices(tmpl)[j] => i = j
  <2>1. tmpl.clientCert <=> tmpl.key \in {"proxy_ssh_grpc", "auth_via_proxy"}
    BY TableEntries
  <2> QED
    BY <2>1, ChoicesOfTemplate DEF K
<1>10. ASSUME NEW c \in CertChoicesOf(opts, tmpl.key)
       PROVE  \E i \in 1..K : CertChoices(tmpl)[i] = c
  <2>1. tmpl.clientCert <=> tmpl.key \in {"proxy_ssh_grpc", "auth_via_proxy"}
    BY TableEntries
  <2>2. Offered(tmpl, c)
    BY <1>10, <2>1, ChoicesOfTemplate
  <2> QED
    BY <2>2 DEF K, Offered
<1>11. \A n \in DOMAIN ts :
          /\ ts[n].service \in W
          /\ ts[n].useClientCert \in CertChoicesOf(opts, ts[n].service)
          /\ ~ts[n].useProxy /\ ts[n].proxyURL = NoURL /\ ~ts[n].extraHeaders
  <2>1. ASSUME NEW n \in 1..L
        PROVE  /\ ts[n].service \in W
               /\ ts[n].useClientCert \in CertChoicesOf(opts, ts[n].service)
               /\ ~ts[n].useProxy /\ ts[n].proxyURL = NoURL /\ ~ts[n].extraHeaders
    <3>1. n \in DOMAIN targets /\ ts[n] = targets[n]
      BY <1>2, <1>4, <2>1
    <3>2. /\ targets[n].service \in V
          /\ targets[n].useClientCert \in CertChoicesOf(opts, targets[n].service)
          /\ ~targets[n].useProxy /\ targets[n].proxyURL = NoURL /\ ~targets[n].extraHeaders
      BY <3>1 DEF BaseRows, V
    <3> QED
      BY <1>7, <3>1, <3>2
  <2>2. ASSUME NEW i \in 1..K
        PROVE  /\ ts[L + i].service \in W
               /\ ts[L + i].useClientCert \in CertChoicesOf(opts, ts[L + i].service)
               /\ ~ts[L + i].useProxy /\ ts[L + i].proxyURL = NoURL
               /\ ~ts[L + i].extraHeaders
    BY <1>7, <1>8, <1>9, <2>2
  <2> QED
    BY <1>6, <2>1, <2>2
<1>12. ASSUME NEW key \in W, NEW c \in CertChoicesOf(opts, key)
       PROVE  \E n \in DOMAIN ts : ts[n].service = key /\ ts[n].useClientCert = c
  <2>1. CASE key \in V
    <3>1. PICK n \in DOMAIN targets :
             targets[n].service = key /\ targets[n].useClientCert = c
      BY <2>1, <1>12 DEF BaseRows, V
    <3> QED  BY <3>1, <1>2, <1>4
  <2>2. CASE key = tmpl.key
    <3>1. PICK i \in 1..K : CertChoices(tmpl)[i] = c
      BY <2>2, <1>12, <1>10
    <3> QED  BY <3>1, <2>2, <1>5, <1>8
  <2> QED
    BY <1>7, <1>12, <2>1, <2>2
<1>13. ASSUME NEW m \in DOMAIN ts, NEW n \in DOMAIN ts, SameRow(ts[m], ts[n])
       PROVE  m = n
  <2>1. ts[m].service = ts[n].service /\ ts[m].useClientCert = ts[n].useClientCert
    BY <1>13 DEF SameRow
  <2>2. \A k \in 1..L : ts[k].service \in V
    BY <1>2, <1>4 DEF BaseRows, V
  <2>3. CASE m \in 1..L /\ n \in 1..L
    BY <2>3, <1>2, <1>4, <1>13 DEF BaseRows, V
  <2>4. ASSUME NEW i \in 1..K, NEW j \in 1..K, m = L + i, n = L + j
        PROVE  m = n
    <3>1. CertChoices(tmpl)[i] = CertChoices(tmpl)[j]
      BY <1>8, <2>1, <2>4
    <3>2. i = j
      BY <1>9, <3>1
    <3> QED  BY <2>4, <3>2
  <2>5. ASSUME NEW i \in 1..K, NEW k \in 1..L
        PROVE  ts[L + i].service # ts[k].service
    BY <1>7, <1>8, <2>2, <2>5
  <2> QED
    BY <1>6, <2>1, <2>3, <2>4, <2>5
<1>14. BaseRows(opts, ts, W)
  BY <1>11, <1>12, <1>13 DEF BaseRows
<1> QED
  BY <1>14 DEF ts, W

LEMMA BaseRowsResolve ==
    ASSUME TypeOK, NEW W, BaseRows(opts, targets, W),
           NEW k \in DOMAIN targets, NEW answer
    PROVE  BaseRows(opts, [targets EXCEPT ![k].dnsIPs = answer], W)
<1> DEFINE ts == [targets EXCEPT ![k].dnsIPs = answer]
<1>1. targets \in Seq(Target)
  BY DEF TypeOK
<1>2. DOMAIN ts = DOMAIN targets
  OBVIOUS
<1>3. \A n \in DOMAIN targets :
         /\ ts[n].service = targets[n].service
         /\ ts[n].useClientCert = targets[n].useClientCert
         /\ ts[n].useProxy = targets[n].useProxy
         /\ ts[n].proxyURL = targets[n].proxyURL
         /\ ts[n].extraHeaders = targets[n].extraHeaders
  <2>1. TAKE n \in DOMAIN targets
  <2>2. targets[n] \in Target
    BY <1>1
  <2>3. ts[n] = IF n = k THEN [targets[n] EXCEPT !.dnsIPs = answer] ELSE targets[n]
    OBVIOUS
  <2> HIDE DEF ts
  <2> QED
    BY <2>2, <2>3 DEF Target
<1> HIDE DEF ts
<1>4. BaseRows(opts, ts, W)
  BY <1>2, <1>3 DEF BaseRows, SameRow
<1> QED
  BY <1>4 DEF ts

\* b is a variant of a.
Variant(a, b) ==
    b = [a EXCEPT !.useProxy = b.useProxy, !.proxyURL = b.proxyURL,
                  !.extraHeaders = b.extraHeaders]

\* After the first doubling: each row once directly and, if there is a proxy,
\* once through it; the two are variants of each other.
ProxyRows(o, ts, W) ==
    /\ \A n \in DOMAIN ts :
          /\ ts[n].service \in W
          /\ ts[n].useClientCert \in CertChoicesOf(o, ts[n].service)
          /\ Proxied(ts[n]) => ProxyFor(o) # NoURL
          /\ ~ts[n].extraHeaders
    /\ \A key \in W : \A c \in CertChoicesOf(o, key) :
          /\ \E n \in DOMAIN ts :
                ts[n].service = key /\ ts[n].useClientCert = c /\ ~Proxied(ts[n])
          /\ ProxyFor(o) # NoURL => \E n \in DOMAIN ts :
                ts[n].service = key /\ ts[n].useClientCert = c /\ Proxied(ts[n])
    /\ \A m, n \in DOMAIN ts :
          SameRow(ts[m], ts[n]) =>
             /\ (Proxied(ts[m]) <=> Proxied(ts[n])) => m = n
             /\ Variant(ts[m], ts[n])

LEMMA VariantOfSelf ==
    ASSUME NEW t \in Target
    PROVE  Variant(t, t)
  BY DEF Variant, Target

LEMMA ProxyVariants ==
    ASSUME TypeOK, NEW t \in Target, ~t.extraHeaders, ProxyFor(opts) # NoURL
    PROVE  /\ Proxied(WithProxy(t)) /\ ~Proxied(WithoutProxy(t))
           /\ SameRow(WithProxy(t), t) /\ SameRow(WithoutProxy(t), t)
           /\ ~WithProxy(t).extraHeaders /\ ~WithoutProxy(t).extraHeaders
           /\ Variant(WithProxy(t), WithoutProxy(t))
           /\ Variant(WithoutProxy(t), WithProxy(t))
<1>1. /\ Proxied(WithProxy(t)) /\ ~Proxied(WithoutProxy(t))
      /\ SameRow(WithProxy(t), t) /\ SameRow(WithoutProxy(t), t)
      /\ ~WithProxy(t).extraHeaders /\ ~WithoutProxy(t).extraHeaders
  BY DEF Proxied, WithProxy, WithoutProxy, SameRow, Target
<1>2. Variant(WithProxy(t), WithoutProxy(t))
  BY DEF WithProxy, WithoutProxy, Variant, Target
<1>3. Variant(WithoutProxy(t), WithProxy(t))
  BY DEF WithProxy, WithoutProxy, Variant, Target
<1> QED
  BY <1>1, <1>2, <1>3

LEMMA ProxyRowsOf ==
    ASSUME TypeOK, NEW W, BaseRows(opts, targets, W), ProxyFor(opts) # NoURL,
           NEW L \in Nat, DOMAIN targets = 1..L,
           NEW xs, NEW ys,
           \A n \in 1..L :
              xs[n] = WithProxy(targets[n]) /\ ys[n] = WithoutProxy(targets[n]),
           NEW ts, Interleaved(ts, xs, ys, L)
    PROVE  ProxyRows(opts, ts, W)
<1>1. DOMAIN targets = 1..L /\ \A n \in DOMAIN targets : targets[n] \in Target
  BY DEF TypeOK
<1>2. \A n \in DOMAIN targets :
         /\ xs[n] = WithProxy(targets[n]) /\ ys[n] = WithoutProxy(targets[n])
         /\ xs[n] \in Target /\ ys[n] \in Target
  BY <1>1, VariantType
<1>4. /\ \A n \in 1..(2 * L) : \E k \in 1..L :
            \/ n = 2 * k - 1 /\ ts[n] = xs[k]
            \/ n = 2 * k /\ ts[n] = ys[k]
      /\ \A k \in 1..L :
            /\ 2 * k - 1 \in 1..(2 * L) /\ ts[2 * k - 1] = xs[k]
            /\ 2 * k \in 1..(2 * L) /\ ts[2 * k] = ys[k]
  BY DEF Interleaved
<1>5. DOMAIN ts = 1..(2 * L)
  BY DEF Interleaved
<1>6. \A k \in 1..L :
         /\ Proxied(xs[k]) /\ ~Proxied(ys[k])
         /\ SameRow(xs[k], targets[k]) /\ SameRow(ys[k], targets[k])
         /\ ~xs[k].extraHeaders /\ ~ys[k].extraHeaders
         /\ Variant(xs[k], ys[k]) /\ Variant(ys[k], xs[k])
         /\ Variant(xs[k], xs[k]) /\ Variant(ys[k], ys[k])
  <2>1. TAKE k \in 1..L
  <2>2. k \in DOMAIN targets /\ targets[k] \in Target /\ ~targets[k].extraHeaders
    BY <1>1, <2>1 DEF BaseRows
  <2>3. xs[k] = WithProxy(targets[k]) /\ ys[k] = WithoutProxy(targets[k])
    BY <1>2, <2>2
  <2>4. Variant(xs[k], xs[k]) /\ Variant(ys[k], ys[k])
    BY <1>2, <2>2, VariantOfSelf
  <2> QED
    BY <2>2, <2>3, <2>4, ProxyVariants
<1>7. \A n \in DOMAIN ts :
         /\ ts[n].service \in W
         /\ ts[n].useClientCert \in CertChoicesOf(opts, ts[n].service)
         /\ ~ts[n].extraHeaders
  <2>1. TAKE n \in DOMAIN ts
  <2>2. PICK k \in 1..L : ts[n] = xs[k] \/ ts[n] = ys[k]
    BY <1>4, <1>5
  <2>3. k \in DOMAIN targets
    BY <1>1
  <2>4. SameRow(ts[n], targets[k]) /\ ~ts[n].extraHeaders
    BY <1>6, <2>2
  <2> QED
    BY <2>3, <2>4 DEF SameRow, BaseRows
<1>8. ASSUME NEW key \in W, NEW c \in CertChoicesOf(opts, key)
      PROVE  /\ \E n \in DOMAIN ts :
                   ts[n].service = key /\ ts[n].useClientCert = c /\ ~Proxied(ts[n])
             /\ \E n \in DOMAIN ts :
                   ts[n].service = key /\ ts[n].useClientCert = c /\ Proxied(ts[n])
  <2>1. PICK k \in DOMAIN targets :
           targets[k].service = key /\ targets[k].useClientCert = c
    BY <1>8 DEF BaseRows
  <2>2. k \in 1..L
    BY <1>1
  <2>3. /\ xs[k].service = key /\ xs[k].useClientCert = c /\ Proxied(xs[k])
        /\ ys[k].service = key /\ ys[k].useClientCert = c /\ ~Proxied(ys[k])
    BY <1>6, <2>1, <2>2 DEF SameRow
  <2>4. /\ 2 * k - 1 \in DOMAIN ts /\ ts[2 * k - 1] = xs[k]
        /\ 2 * k \in DOMAIN ts /\ ts[2 * k] = ys[k]
    BY <1>4, <1>5, <2>2
  <2> QED
    BY <2>3, <2>4
<1>9. ASSUME NEW m \in DOMAIN ts, NEW n \in DOMAIN ts, SameRow(ts[m], ts[n])
      PROVE  /\ (Proxied(ts[m]) <=> Proxied(ts[n])) => m = n
             /\ Variant(ts[m], ts[n])
  <2>1. PICK j \in 1..L : \/ m = 2 * j - 1 /\ ts[m] = xs[j]
                          \/ m = 2 * j /\ ts[m] = ys[j]
    BY <1>4, <1>5
  <2>2. PICK k \in 1..L : \/ n = 2 * k - 1 /\ ts[n] = xs[k]
                          \/ n = 2 * k /\ ts[n] = ys[k]
    BY <1>4, <1>5
  <2>3. SameRow(targets[j], targets[k])
    BY <1>6, <1>9, <2>1, <2>2 DEF SameRow
  <2>4. j = k
    BY <1>1, <2>3 DEF BaseRows
  <2>5. (Proxied(ts[m]) <=> Proxied(ts[n])) => m = n
    BY <1>6, <2>1, <2>2, <2>4
  <2>6. Variant(ts[m], ts[n])
    BY <1>6, <2>1, <2>2, <2>4
  <2> QED
    BY <2>5, <2>6
<1> QED
  BY <1>7, <1>8, <1>9 DEF ProxyRows

LEMMA ProxyStep ==
    ASSUME TypeOK, NEW W, BaseRows(opts, targets, W), ExpandForProxy
    PROVE  ProxyRows(opts, targets', W)
<1> DEFINE xs == [n \in DOMAIN targets |-> WithProxy(targets[n])]
           ys == [n \in DOMAIN targets |-> WithoutProxy(targets[n])]
<1>1. /\ targets \in Seq(Target) /\ DOMAIN targets = 1..Len(targets)
      /\ Len(targets) \in Nat /\ \A n \in DOMAIN targets : targets[n] \in Target
  BY DEF TypeOK
<1>2. CASE ProxyFor(opts) = NoURL
  <2>1. targets' = targets
    BY <1>2 DEF ExpandForProxy
  <2>2. \A n \in DOMAIN targets : ~Proxied(targets[n])
    BY DEF BaseRows, Proxied
  <2>3. \A n \in DOMAIN targets : Variant(targets[n], targets[n])
    BY <1>1, VariantOfSelf
  <2> QED
    BY <1>2, <2>1, <2>2, <2>3 DEF BaseRows, ProxyRows
<1>3. CASE ProxyFor(opts) # NoURL
  <2>1. targets' = Interleave(xs, ys)
    BY <1>3 DEF ExpandForProxy
  <2>2. /\ xs = [n \in DOMAIN targets |-> xs[n]] /\ ys = [n \in DOMAIN targets |-> ys[n]]
        /\ \A n \in DOMAIN targets :
              /\ xs[n] = WithProxy(targets[n]) /\ ys[n] = WithoutProxy(targets[n])
              /\ xs[n] \in Target /\ ys[n] \in Target
    BY <1>1, VariantType
  <2> HIDE DEF xs, ys
  <2>3. /\ xs \in Seq(Target) /\ ys \in Seq(Target)
        /\ Len(xs) = Len(targets) /\ Len(ys) = Len(targets)
    BY <1>1, <2>2, MapType
  <2> DEFINE L == Len(targets)
  <2>4. L \in Nat /\ Len(xs) = L /\ Len(ys) = L /\ DOMAIN targets = 1..L
    BY <1>1, <2>3
  <2> HIDE DEF L
  <2>5. Interleaved(targets', xs, ys, L)
    BY <2>1, <2>3, <2>4, InterleaveShape
  <2> QED
    BY <1>3, <2>2, <2>4, <2>5, ProxyRowsOf
<1> QED
  BY <1>2, <1>3

\* The second doubling.
LEMMA HeaderVariants ==
    ASSUME TypeOK, NEW a \in Target, NEW b \in Target, Variant(a, b),
           NEW x \in {a, WithHeaders(a)}, NEW y \in {b, WithHeaders(b)}
    PROVE  Variant(x, y)
<1>1. CASE x = a /\ y = b
  BY <1>1
<1>2. CASE x = WithHeaders(a) /\ y = b
  BY <1>2 DEF Variant, WithHeaders, Target
<1>3. CASE x = a /\ y = WithHeaders(b)
  BY <1>3 DEF Variant, WithHeaders, Target
<1>4. CASE x = WithHeaders(a) /\ y = WithHeaders(b)
  BY <1>4 DEF Variant, WithHeaders, Target
<1> QED
  BY <1>1, <1>2, <1>3, <1>4

LEMMA HeaderCell ==
    ASSUME NEW t \in Target, ~t.extraHeaders
    PROVE  /\ SameRow(WithHeaders(t), t)
           /\ Proxied(WithHeaders(t)) <=> Proxied(t)
           /\ WithHeaders(t).extraHeaders
  BY DEF WithHeaders, SameRow, Proxied, Target

\* After the second doubling: as before, and each row once without the extra
\* headers and, if there are any, once with them.
PlanRows(o, ts, W) ==
    /\ \A n \in DOMAIN ts :
          /\ ts[n].service \in W
          /\ ts[n].useClientCert \in CertChoicesOf(o, ts[n].service)
          /\ Proxied(ts[n]) => ProxyFor(o) # NoURL
          /\ ts[n].extraHeaders => o.extraHeaders
    /\ \A key \in W : \A c \in CertChoicesOf(o, key) :
       \A p, h \in BOOLEAN :
          (p => ProxyFor(o) # NoURL) /\ (h => o.extraHeaders) =>
             \E n \in DOMAIN ts :
                /\ ts[n].service = key /\ ts[n].useClientCert = c
                /\ Proxied(ts[n]) <=> p
                /\ ts[n].extraHeaders <=> h
    /\ \A m, n \in DOMAIN ts :
          SameRow(ts[m], ts[n]) =>
             /\ /\ Proxied(ts[m]) <=> Proxied(ts[n])
                /\ ts[m].extraHeaders <=> ts[n].extraHeaders
                => m = n
             /\ Variant(ts[m], ts[n])

LEMMA HeaderRowsOf ==
    ASSUME TypeOK, NEW W, ProxyRows(opts, targets, W), opts.extraHeaders,
           NEW L \in Nat, DOMAIN targets = 1..L, NEW ys,
           \A n \in 1..L : ys[n] = WithHeaders(targets[n]),
           NEW ts, Interleaved(ts, targets, ys, L)
    PROVE  PlanRows(opts, ts, W)
<1>1. \A n \in 1..L : targets[n] \in Target
  BY DEF TypeOK
<1>2. /\ \A n \in 1..(2 * L) : \E k \in 1..L :
            \/ n = 2 * k - 1 /\ ts[n] = targets[k]
            \/ n = 2 * k /\ ts[n] = ys[k]
      /\ \A k \in 1..L :
            /\ 2 * k - 1 \in 1..(2 * L) /\ ts[2 * k - 1] = targets[k]
            /\ 2 * k \in 1..(2 * L) /\ ts[2 * k] = ys[k]
  BY DEF Interleaved
<1>3. DOMAIN ts = 1..(2 * L)
  BY DEF Interleaved
<1>4. \A k \in 1..L :
         /\ ~targets[k].extraHeaders
         /\ SameRow(targets[k], targets[k]) /\ SameRow(ys[k], targets[k])
         /\ Proxied(ys[k]) <=> Proxied(targets[k])
         /\ ys[k].extraHeaders
  <2>1. TAKE k \in 1..L
  <2>2. targets[k] \in Target /\ ~targets[k].extraHeaders /\ ys[k] = WithHeaders(targets[k])
    BY <1>1 DEF ProxyRows
  <2>3. SameRow(targets[k], targets[k])
    BY DEF SameRow
  <2> QED
    BY <2>2, <2>3, HeaderCell
<1>5. \A n \in DOMAIN ts :
         /\ ts[n].service \in W
         /\ ts[n].useClientCert \in CertChoicesOf(opts, ts[n].service)
         /\ Proxied(ts[n]) => ProxyFor(opts) # NoURL
  <2>1. TAKE n \in DOMAIN ts
  <2>2. PICK k \in 1..L : ts[n] = targets[k] \/ ts[n] = ys[k]
    BY <1>2, <1>3
  <2>3. SameRow(ts[n], targets[k]) /\ (Proxied(ts[n]) <=> Proxied(targets[k]))
    BY <1>4, <2>2
  <2> QED
    BY <2>3 DEF SameRow, ProxyRows
<1>6. ASSUME NEW key \in W, NEW c \in CertChoicesOf(opts, key),
             NEW p \in BOOLEAN, NEW h \in BOOLEAN, p => ProxyFor(opts) # NoURL
      PROVE  \E n \in DOMAIN ts :
                /\ ts[n].service = key /\ ts[n].useClientCert = c
                /\ Proxied(ts[n]) <=> p
                /\ ts[n].extraHeaders <=> h
  <2>1. PICK k \in DOMAIN targets :
           /\ targets[k].service = key /\ targets[k].useClientCert = c
           /\ Proxied(targets[k]) <=> p
    <3>1. CASE p
      BY <1>6, <3>1 DEF ProxyRows
    <3>2. CASE ~p
      BY <1>6, <3>2 DEF ProxyRows
    <3> QED
      BY <3>1, <3>2
  <2>2. k \in 1..L
    OBVIOUS
  <2>3. CASE h
    <3>1. 2 * k \in DOMAIN ts /\ ts[2 * k] = ys[k]
      BY <1>2, <1>3, <2>2
    <3>2. /\ ys[k].service = key /\ ys[k].useClientCert = c
          /\ Proxied(ys[k]) <=> p
          /\ ys[k].extraHeaders
      BY <1>4, <2>1, <2>2 DEF SameRow
    <3> QED
      BY <2>3, <3>1, <3>2
  <2>4. CASE ~h
    <3>1. 2 * k - 1 \in DOMAIN ts /\ ts[2 * k - 1] = targets[k]
      BY <1>2, <1>3, <2>2
    <3>2. ~targets[k].extraHeaders
      BY <1>4, <2>2
    <3> QED
      BY <2>1, <2>4, <3>1, <3>2
  <2> QED
    BY <2>3, <2>4
<1>7. ASSUME NEW m \in DOMAIN ts, NEW n \in DOMAIN ts, SameRow(ts[m], ts[n])
      PROVE  /\ /\ Proxied(ts[m]) <=> Proxied(ts[n])
                /\ ts[m].extraHeaders <=> ts[n].extraHeaders
                => m = n
             /\ Variant(ts[m], ts[n])
  <2>1. PICK j \in 1..L : \/ m = 2 * j - 1 /\ ts[m] = targets[j]
                          \/ m = 2 * j /\ ts[m] = ys[j]
    BY <1>2, <1>3
  <2>2. PICK k \in 1..L : \/ n = 2 * k - 1 /\ ts[n] = targets[k]
                          \/ n = 2 * k /\ ts[n] = ys[k]
    BY <1>2, <1>3
  <2>3. SameRow(targets[j], targets[k])
    BY <1>4, <1>7, <2>1, <2>2 DEF SameRow
  <2>4. /\ (Proxied(targets[j]) <=> Proxied(targets[k])) => j = k
        /\ Variant(targets[j], targets[k])
    BY <2>3 DEF ProxyRows
  <2>5. ASSUME Proxied(ts[m]) <=> Proxied(ts[n]),
               ts[m].extraHeaders <=> ts[n].extraHeaders
        PROVE  m = n
    <3>1. j = k
      BY <1>4, <2>1, <2>2, <2>4, <2>5
    <3> QED
      BY <1>4, <2>1, <2>2, <2>5, <3>1
  <2>6. Variant(ts[m], ts[n])
    <3>1. targets[j] \in Target /\ targets[k] \in Target
      BY <1>1
    <3>2. ts[m] \in {targets[j], WithHeaders(targets[j])}
      BY <2>1
    <3>3. ts[n] \in {targets[k], WithHeaders(targets[k])}
      BY <2>2
    <3> QED
      BY <2>4, <3>1, <3>2, <3>3, HeaderVariants
  <2> QED
    BY <2>5, <2>6
<1> QED
  BY <1>5, <1>6, <1>7 DEF PlanRows

LEMMA HeaderStep ==
    ASSUME TypeOK, NEW W, ProxyRows(opts, targets, W), ExpandForHeaders
    PROVE  PlanRows(opts, targets', W)
<1> DEFINE ys == [n \in DOMAIN targets |-> WithHeaders(targets[n])]
           L == Len(targets)
<1>1. /\ targets \in Seq(Target) /\ DOMAIN targets = 1..L
      /\ L \in Nat /\ \A n \in DOMAIN targets : targets[n] \in Target
  BY DEF TypeOK
<1>2. CASE ~opts.extraHeaders
  <2>1. targets' = targets
    BY <1>2 DEF ExpandForHeaders
  <2>2. ASSUME NEW key \in W, NEW c \in CertChoicesOf(opts, key),
               NEW p \in BOOLEAN, NEW h \in BOOLEAN,
               p => ProxyFor(opts) # NoURL, h => opts.extraHeaders
        PROVE  \E n \in DOMAIN targets :
                  /\ targets[n].service = key /\ targets[n].useClientCert = c
                  /\ Proxied(targets[n]) <=> p
                  /\ targets[n].extraHeaders <=> h
    <3>1. ~h
      BY <1>2, <2>2
    <3>2. CASE p
      BY <2>2, <3>1, <3>2 DEF ProxyRows
    <3>3. CASE ~p
      BY <2>2, <3>1, <3>3 DEF ProxyRows
    <3> QED
      BY <3>2, <3>3
  <2> QED
    BY <1>2, <2>1, <2>2 DEF ProxyRows, PlanRows
<1>3. CASE opts.extraHeaders
  <2>1. targets' = Interleave(targets, ys)
    BY <1>3 DEF ExpandForHeaders
  <2>2. /\ ys = [n \in DOMAIN targets |-> ys[n]]
        /\ \A n \in DOMAIN targets : ys[n] = WithHeaders(targets[n]) /\ ys[n] \in Target
    BY <1>1, VariantType
  <2> HIDE DEF ys
  <2>3. ys \in Seq(Target) /\ Len(ys) = Len(targets)
    BY <1>1, <2>2, MapType
  <2>4. L \in Nat /\ Len(targets) = L /\ Len(ys) = L /\ DOMAIN targets = 1..L
    BY <1>1, <2>3
  <2> HIDE DEF L
  <2>5. Interleaved(targets', targets, ys, L)
    BY <1>1, <2>1, <2>3, <2>4, InterleaveShape
  <2> QED
    BY <1>3, <2>2, <2>4, <2>5, HeaderRowsOf
<1> QED
  BY <1>2, <1>3

-----------------------------------------------------------------------------
\* The matrix, at every stage.

MatrixInv ==
    /\ pc = "templates" => BaseRows(opts, targets, Claimed(opts, next - 1))
    /\ pc = "dns" => BaseRows(opts, targets, Wanted(opts))
    /\ pc = "proxy" => ProxyRows(opts, targets, Wanted(opts))
    /\ pc = "built" => PlanRows(opts, targets, Wanted(opts))

LEMMA ClaimedSkip ==
    ASSUME NEW o, NEW n \in 1..12, ServiceTemplates[n].key \notin Wanted(o)
    PROVE  Claimed(o, n) = Claimed(o, n - 1)
<1>1. 1..n = (1..(n - 1)) \cup {n}
  OBVIOUS
<1> QED
  BY <1>1 DEF Claimed

LEMMA ClaimedAll ==
    ASSUME NEW o, o.filter \subseteq ServiceKeys
    PROVE  Claimed(o, 12) = Wanted(o)
<1>1. ServiceKeys = {ServiceTemplates[n].key : n \in 1..12}
  BY TableLength DEF ServiceKeys
<1>2. Wanted(o) \subseteq ServiceKeys
  BY DEF Wanted
<1> QED
  BY <1>1, <1>2 DEF Claimed

LEMMA MatrixInit == Init => MatrixInv
<1> SUFFICES ASSUME Init PROVE MatrixInv
  OBVIOUS
<1>1. pc = "templates" /\ next = 1 /\ targets = <<>>
  BY DEF Init
<1>2. 1..(next - 1) = {}
  BY <1>1
<1>3. Claimed(opts, next - 1) = {}
  BY <1>2 DEF Claimed
<1>4. DOMAIN targets = {}
  BY <1>1
<1>5. BaseRows(opts, targets, {})
  BY <1>4 DEF BaseRows
<1> QED
  BY <1>1, <1>3, <1>5 DEF MatrixInv

LEMMA MatrixStep == TypeOK /\ FilterInv /\ MatrixInv /\ [Next]_vars => MatrixInv'
<1> SUFFICES ASSUME TypeOK, FilterInv, MatrixInv, [Next]_vars PROVE MatrixInv'
  OBVIOUS
<1>1. CASE TakeTemplate
  <2> DEFINE tmpl == ServiceTemplates[next]
  <2>1. /\ pc = "templates" /\ next \in 1..12 /\ next' - 1 = next
        /\ pc' = pc /\ opts' = opts
    BY <1>1, TableLength DEF TakeTemplate, TypeOK
  <2>2. BaseRows(opts, targets, Claimed(opts, next - 1))
    BY <2>1 DEF MatrixInv
  <2>3. tmpl.key \in pending <=> tmpl.key \in opts.filter
    BY <2>1, PendingKey
  <2>4. CASE opts.filter # {} /\ tmpl.key \notin pending
    <3>1. targets' = targets
      BY <1>1, <2>4 DEF TakeTemplate
    <3>2. tmpl.key \notin Wanted(opts)
      BY <2>3, <2>4 DEF Wanted
    <3>3. Claimed(opts, next) = Claimed(opts, next - 1)
      BY <2>1, <3>2, ClaimedSkip
    <3>4. BaseRows(opts', targets', Claimed(opts', next' - 1))
      BY <2>1, <2>2, <3>1, <3>3
    <3> QED
      BY <2>1, <3>4 DEF MatrixInv
  <2>5. CASE ~(opts.filter # {} /\ tmpl.key \notin pending)
    <3>1. targets' = targets \o Instantiate(tmpl)
      BY <1>1, <2>5 DEF TakeTemplate
    <3>2. tmpl.key \in Wanted(opts)
      <4>1. tmpl.key \in ServiceKeys
        BY <2>1, TableLength DEF ServiceKeys
      <4> QED
        BY <2>3, <2>5, <4>1 DEF Wanted
    <3>3. BaseRows(opts, targets \o Instantiate(tmpl), Claimed(opts, next))
      BY <2>1, <2>2, <3>2, BaseRowsExtend
    <3>4. BaseRows(opts', targets', Claimed(opts', next' - 1))
      BY <2>1, <3>1, <3>3
    <3> QED
      BY <2>1, <3>4 DEF MatrixInv
  <2> QED
    BY <2>4, <2>5
<1>2. CASE CheckFilter
  <2>1. pc = "templates" /\ next = 13 /\ opts' = opts /\ pc' \in {"dns", "refused"}
    BY <1>2, TableLength DEF CheckFilter, TypeOK
  <2>2. CASE pc' = "dns"
    <3>1. targets' = targets
      BY <1>2, <2>2 DEF CheckFilter
    <3>2. opts.filter \subseteq ServiceKeys
      BY <2>1, <2>2, FilterStep DEF FilterInv, UnknownServicesRefused
    <3>3. next - 1 = 12
      BY <2>1
    <3>4. BaseRows(opts, targets, Wanted(opts))
      BY <2>1, <3>2, <3>3, ClaimedAll DEF MatrixInv
    <3> QED
      BY <2>1, <2>2, <3>1, <3>4 DEF MatrixInv
  <2>3. CASE pc' = "refused"
    BY <2>3 DEF MatrixInv
  <2> QED
    BY <2>1, <2>2, <2>3
<1>3. ASSUME NEW answer \in DNSAnswers, ResolveDNS(answer) PROVE MatrixInv'
  <2>1. pc = "dns" /\ pc' = pc /\ opts' = opts /\ next \in DOMAIN targets
    BY <1>3 DEF ResolveDNS, TypeOK
  <2>2. BaseRows(opts, targets, Wanted(opts))
    BY <2>1 DEF MatrixInv
  <2>3. \/ targets' = targets
        \/ targets' = [targets EXCEPT ![next].dnsIPs = answer]
    BY <1>3 DEF ResolveDNS
  <2>4. BaseRows(opts, [targets EXCEPT ![next].dnsIPs = answer], Wanted(opts))
    BY <2>1, <2>2, BaseRowsResolve
  <2>5. BaseRows(opts, targets', Wanted(opts))
    BY <2>2, <2>3, <2>4
  <2> QED
    BY <2>1, <2>5 DEF MatrixInv
<1>4. CASE ExpandForProxy
  <2>1. pc = "dns" /\ pc' = "proxy" /\ opts' = opts
    BY <1>4 DEF ExpandForProxy
  <2>2. ProxyRows(opts, targets', Wanted(opts))
    BY <1>4, <2>1, ProxyStep DEF MatrixInv
  <2> QED
    BY <2>1, <2>2 DEF MatrixInv
<1>5. CASE ExpandForHeaders
  <2>1. pc = "proxy" /\ pc' = "built" /\ opts' = opts
    BY <1>5 DEF ExpandForHeaders
  <2>2. PlanRows(opts, targets', Wanted(opts))
    BY <1>5, <2>1, HeaderStep DEF MatrixInv
  <2> QED
    BY <2>1, <2>2 DEF MatrixInv
<1>6. CASE UNCHANGED vars
  BY <1>6 DEF vars, MatrixInv
<1>7. CASE Stopped
  BY <1>6, <1>7 DEF Stopped
<1> QED
  BY <1>1, <1>2, <1>3, <1>4, <1>5, <1>6, <1>7 DEF Next

LEMMA MatrixIsKept == Spec => [](TypeOK /\ MatrixInv)
<1>1. Init => MatrixInv
  BY MatrixInit
<1>2. TypeOK /\ FilterInv /\ MatrixInv /\ [Next]_vars => MatrixInv'
  BY MatrixStep
<1> QED
  BY <1>1, <1>2, FilterIsKept, PTL DEF Spec

\* The cells of one service.
ServiceCells(o, key) ==
    [service: {key}, cert: CertChoicesOf(o, key),
     proxied: IF {o.httpsProxy, o.httpProxy} = {NoURL} THEN {FALSE} ELSE BOOLEAN,
     headers: IF o.extraHeaders THEN BOOLEAN ELSE {FALSE}]

LEMMA CellsByService ==
    ASSUME NEW o
    PROVE  /\ \A key \in Wanted(o) : ServiceCells(o, key) \subseteq Cells(o)
           /\ \A cell \in Cells(o) : \E key \in Wanted(o) : cell \in ServiceCells(o, key)
<1>1. Cells(o) = UNION {ServiceCells(o, key) : key \in Wanted(o)}
  BY DEF Cells, ServiceCells
<1> QED
  BY <1>1

\* The rows of the finished plan are the cells asked for.
LEMMA RowsAreCells ==
    ASSUME TypeOK, PlanRows(opts, targets, Wanted(opts))
    PROVE  {Cell(targets[n]) : n \in DOMAIN targets} = Cells(opts)
<1>1. \A n \in DOMAIN targets : targets[n] \in Target
  BY DEF TypeOK
<1>2. {opts.httpsProxy, opts.httpProxy} = {NoURL} <=> ProxyFor(opts) = NoURL
  BY DEF ProxyFor
<1>3. ASSUME NEW n \in DOMAIN targets
      PROVE  Cell(targets[n]) \in Cells(opts)
  <2> DEFINE t == targets[n]
             key == t.service
  <2>1. /\ key \in Wanted(opts) /\ t.useClientCert \in CertChoicesOf(opts, key)
        /\ Proxied(t) => ProxyFor(opts) # NoURL
        /\ t.extraHeaders => opts.extraHeaders
    BY DEF PlanRows
  <2>2. Proxied(t) \in BOOLEAN /\ t.extraHeaders \in BOOLEAN
    BY <1>1 DEF Proxied, Target
  <2>3. Proxied(t) \in (IF {opts.httpsProxy, opts.httpProxy} = {NoURL} THEN {FALSE} ELSE BOOLEAN)
    BY <1>2, <2>1, <2>2
  <2>4. t.extraHeaders \in (IF opts.extraHeaders THEN BOOLEAN ELSE {FALSE})
    BY <2>1, <2>2
  <2>5. key \in {key}
    OBVIOUS
  <2> HIDE DEF t, key
  <2>6. [service |-> key, cert |-> t.useClientCert, proxied |-> Proxied(t),
         headers |-> t.extraHeaders] \in ServiceCells(opts, key)
    BY <2>1, <2>3, <2>4, <2>5 DEF ServiceCells
  <2>7. Cell(t) \in ServiceCells(opts, key)
    BY <2>6 DEF Cell, key
  <2>8. Cell(t) \in Cells(opts)
    BY <2>1, <2>7, CellsByService
  <2> QED
    BY <2>8 DEF t
<1>4. ASSUME NEW cell \in Cells(opts)
      PROVE  \E n \in DOMAIN targets : Cell(targets[n]) = cell
  <2>1. PICK key \in Wanted(opts), c \in CertChoice, p \in BOOLEAN, h \in BOOLEAN :
           /\ c \in CertChoicesOf(opts, key)
           /\ cell = [service |-> key, cert |-> c, proxied |-> p, headers |-> h]
           /\ p => ProxyFor(opts) # NoURL
           /\ h => opts.extraHeaders
    <3>1. PICK key \in Wanted(opts) : cell \in ServiceCells(opts, key)
      BY <1>4, CellsByService
    <3>2. /\ cell = [service |-> key, cert |-> cell.cert, proxied |-> cell.proxied,
                     headers |-> cell.headers]
          /\ cell.cert \in CertChoicesOf(opts, key)
          /\ cell.proxied \in
                IF {opts.httpsProxy, opts.httpProxy} = {NoURL} THEN {FALSE} ELSE BOOLEAN
          /\ cell.headers \in IF opts.extraHeaders THEN BOOLEAN ELSE {FALSE}
      BY <3>1 DEF ServiceCells
    <3>3. cell.cert \in CertChoice
      BY <3>2 DEF CertChoice, CertChoicesOf
    <3>4. /\ cell.proxied \in BOOLEAN /\ (cell.proxied => ProxyFor(opts) # NoURL)
          /\ cell.headers \in BOOLEAN /\ (cell.headers => opts.extraHeaders)
      BY <1>2, <3>2
    <3> QED
      BY <3>2, <3>3, <3>4
  <2>2. PICK n \in DOMAIN targets :
           /\ targets[n].service = key /\ targets[n].useClientCert = c
           /\ Proxied(targets[n]) <=> p
           /\ targets[n].extraHeaders <=> h
    BY <2>1 DEF PlanRows
  <2>3. Proxied(targets[n]) = p /\ targets[n].extraHeaders = h
    BY <1>1, <2>2 DEF Proxied, Target
  <2> QED
    BY <2>1, <2>2, <2>3 DEF Cell
<1> QED
  BY <1>3, <1>4

LEMMA CellsDiffer ==
    ASSUME TypeOK, PlanRows(opts, targets, Wanted(opts)),
           NEW m \in DOMAIN targets, NEW n \in DOMAIN targets,
           Cell(targets[m]) = Cell(targets[n])
    PROVE  m = n
<1>1. /\ targets[m].service = targets[n].service
      /\ targets[m].useClientCert = targets[n].useClientCert
      /\ Proxied(targets[m]) = Proxied(targets[n])
      /\ targets[m].extraHeaders = targets[n].extraHeaders
  BY DEF Cell
<1> QED
  BY <1>1 DEF PlanRows, SameRow

\* The planner probes every combination asked for, and none of them twice,
\* whatever the options and whatever the resolver answers (plan.go:90-161).
THEOREM PlanCoversTheMatrix == Spec => []PlanIsTheMatrix
<1>1. TypeOK /\ MatrixInv => PlanIsTheMatrix
  BY RowsAreCells, CellsDiffer DEF MatrixInv, PlanIsTheMatrix
<1> QED
  BY <1>1, MatrixIsKept, PTL

\* Targets of one service and certificate choice differ in nothing but the
\* proxy and the headers (plan.go:110-159).
THEOREM VariantsStayComparable == Spec => []VariantsAreComparable
<1>1. ASSUME MatrixInv, pc = "built",
             NEW m \in DOMAIN targets, NEW n \in DOMAIN targets,
             SameRow(targets[m], targets[n])
      PROVE  Variant(targets[m], targets[n])
  BY <1>1 DEF MatrixInv, PlanRows
<1>2. MatrixInv => VariantsAreComparable
  BY <1>1 DEF VariantsAreComparable, SameRow, Variant
<1> QED
  BY <1>2, MatrixIsKept, PTL

-----------------------------------------------------------------------------
\* How often a target is probed.

\* Every target is probed as often as the options say.
Repeated(ts, r) == \A n \in DOMAIN ts : ts[n].repeat = r

RepeatInv == Repeated(targets, opts.repeat)

\* What f makes of a target is probed as often as the target.
LEMMA RepeatOfVariants ==
    ASSUME NEW t \in Target
    PROVE  /\ WithProxy(t).repeat = t.repeat /\ WithoutProxy(t).repeat = t.repeat
           /\ WithHeaders(t).repeat = t.repeat
  BY DEF WithProxy, WithoutProxy, WithHeaders, Target

LEMMA RepeatOfInterleaved ==
    ASSUME NEW L \in Nat, NEW xs, NEW ys, NEW ts, Interleaved(ts, xs, ys, L),
           DOMAIN xs = 1..L, DOMAIN ys = 1..L,
           NEW r, Repeated(xs, r), Repeated(ys, r)
    PROVE  Repeated(ts, r)
<1>1. ASSUME NEW n \in DOMAIN ts
      PROVE  ts[n].repeat = r
  <2>1. n \in 1..(2 * L)
    BY DEF Interleaved
  <2>2. PICK k \in 1..L : ts[n] = xs[k] \/ ts[n] = ys[k]
    BY <2>1 DEF Interleaved
  <2> QED
    BY <2>2 DEF Repeated
<1> QED
  BY <1>1 DEF Repeated

LEMMA RepeatStep == TypeOK /\ RepeatInv /\ [Next]_vars => RepeatInv'
<1> SUFFICES ASSUME TypeOK, RepeatInv, [Next]_vars PROVE RepeatInv'
  OBVIOUS
<1> DEFINE L == Len(targets)
<1>0. /\ targets \in Seq(Target) /\ L \in Nat /\ DOMAIN targets = 1..L
      /\ \A n \in DOMAIN targets : targets[n] \in Target
  BY DEF TypeOK
<1>1. CASE TakeTemplate
  <2> DEFINE tmpl == ServiceTemplates[next]
             new == Instantiate(tmpl)
  <2>1. next \in 1..12 /\ opts' = opts
    BY <1>1, TableLength DEF TakeTemplate, TypeOK
  <2>2. targets' \in {targets, targets \o new}
    BY <1>1 DEF TakeTemplate
  <2>3. /\ new \in Seq(Target) /\ Len(new) \in Nat
        /\ \A i \in 1..Len(new) : new[i].repeat = opts.repeat
    <3>1. tmpl \in TemplateFields
      BY <2>1, TableType
    <3>2. \A choice : BaseTarget(tmpl, choice).repeat = opts.repeat
      BY DEF BaseTarget
    <3> HIDE DEF tmpl
    <3>3. /\ new \in Seq(Target) /\ Len(new) = Len(CertChoices(tmpl))
          /\ \A i \in 1..Len(new) : new[i] = BaseTarget(tmpl, CertChoices(tmpl)[i])
      BY <3>1, InstantiateShape
    <3> QED
      BY <3>2, <3>3
  <2> HIDE DEF new, tmpl
  <2>4. \A n \in DOMAIN (targets \o new) : (targets \o new)[n].repeat = opts.repeat
    BY <1>0, <2>3 DEF RepeatInv, Repeated
  <2> QED
    BY <2>1, <2>2, <2>4 DEF RepeatInv, Repeated
<1>2. CASE CheckFilter
  <2>1. targets' \in {<<>>, targets} /\ opts' = opts
    BY <1>2 DEF CheckFilter
  <2> QED
    BY <2>1 DEF RepeatInv, Repeated
<1>3. ASSUME NEW answer \in DNSAnswers, ResolveDNS(answer) PROVE RepeatInv'
  <2>1. /\ opts' = opts /\ DOMAIN targets' = DOMAIN targets
        /\ targets' \in {targets, [targets EXCEPT ![next].dnsIPs = answer]}
    BY <1>3 DEF ResolveDNS
  <2>2. ASSUME NEW n \in DOMAIN targets
        PROVE  [targets EXCEPT ![next].dnsIPs = answer][n].repeat = targets[n].repeat
    <3>1. [targets EXCEPT ![next].dnsIPs = answer][n] \in
             {targets[n], [targets[n] EXCEPT !.dnsIPs = answer]}
      OBVIOUS
    <3> QED
      BY <1>0, <3>1 DEF Target
  <2> QED
    BY <2>1, <2>2 DEF RepeatInv, Repeated
<1>4. CASE ExpandForProxy
  <2> DEFINE xs == [n \in DOMAIN targets |-> WithProxy(targets[n])]
             ys == [n \in DOMAIN targets |-> WithoutProxy(targets[n])]
  <2>1. targets' \in {targets, Interleave(xs, ys)} /\ opts' = opts
    BY <1>4 DEF ExpandForProxy
  <2>2. /\ xs = [n \in DOMAIN targets |-> xs[n]] /\ ys = [n \in DOMAIN targets |-> ys[n]]
        /\ \A n \in DOMAIN targets : xs[n] \in Target /\ ys[n] \in Target
        /\ \A n \in 1..L : xs[n].repeat = opts.repeat /\ ys[n].repeat = opts.repeat
    BY <1>0, VariantType, RepeatOfVariants DEF RepeatInv, Repeated
  <2> HIDE DEF xs, ys
  <2>3. xs \in Seq(Target) /\ ys \in Seq(Target) /\ Len(xs) = L /\ Len(ys) = L
    BY <1>0, <2>2, MapType
  <2> HIDE DEF L
  <2>4. Repeated(Interleave(xs, ys), opts.repeat)
    <3>1. Interleaved(Interleave(xs, ys), xs, ys, L)
      BY <1>0, <2>3, InterleaveShape
    <3>2. /\ DOMAIN xs = 1..L /\ DOMAIN ys = 1..L
          /\ Repeated(xs, opts.repeat) /\ Repeated(ys, opts.repeat)
      BY <1>0, <2>2 DEF Repeated
    <3> QED
      BY <1>0, <3>1, <3>2, RepeatOfInterleaved
  <2> QED
    BY <2>1, <2>4 DEF RepeatInv, Repeated
<1>5. CASE ExpandForHeaders
  <2> DEFINE ys == [n \in DOMAIN targets |-> WithHeaders(targets[n])]
  <2>1. targets' \in {targets, Interleave(targets, ys)} /\ opts' = opts
    BY <1>5 DEF ExpandForHeaders
  <2>2. /\ ys = [n \in DOMAIN targets |-> ys[n]]
        /\ \A n \in DOMAIN targets : ys[n] \in Target
        /\ \A n \in 1..L : targets[n].repeat = opts.repeat /\ ys[n].repeat = opts.repeat
    BY <1>0, VariantType, RepeatOfVariants DEF RepeatInv, Repeated
  <2> HIDE DEF ys
  <2>3. ys \in Seq(Target) /\ Len(ys) = L /\ Len(targets) = L
    BY <1>0, <2>2, MapType
  <2> HIDE DEF L
  <2>4. Repeated(Interleave(targets, ys), opts.repeat)
    <3>1. Interleaved(Interleave(targets, ys), targets, ys, L)
      BY <1>0, <2>3, InterleaveShape
    <3>2. DOMAIN ys = 1..L /\ Repeated(ys, opts.repeat)
      BY <1>0, <2>2 DEF Repeated
    <3> QED
      BY <1>0, <3>1, <3>2, RepeatOfInterleaved DEF RepeatInv
  <2> QED
    BY <2>1, <2>4 DEF RepeatInv, Repeated
<1>6. CASE UNCHANGED vars
  BY <1>6 DEF vars, RepeatInv, Repeated
<1>7. CASE Stopped
  BY <1>6, <1>7 DEF Stopped
<1> QED
  BY <1>1, <1>2, <1>3, <1>4, <1>5, <1>6, <1>7 DEF Next

LEMMA RepeatIsKept == Spec => []RepeatInv
<1>1. Init => RepeatInv
  BY DEF Init, RepeatInv, Repeated
<1> QED
  BY <1>1, RepeatStep, TypeCorrect, PTL DEF Spec

=============================================================================
