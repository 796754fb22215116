----------------------------- MODULE PlanBuild -----------------------------
(***************************************************************************)
(* The planner: Build takes the service templates in order, instantiates   *)
(* the wanted ones, asks the resolver about every target, and then doubles *)
(* the list for the proxy and for the extra headers.                       *)
(* internal/plan/plan.go.                                                  *)
(*                                                                         *)
(* The resolver is the environment: each target is looked up on its own    *)
(* and each lookup may answer differently, or fail.                        *)
(***************************************************************************)
EXTENDS Targets

CONSTANTS
    OptionSets,   \* the options Build may be given
    DNSAnswers    \* what a lookup may return; <<>> is a failed one

\* A Teleport version, as parseVersion reads it.
Version == [major: Nat, minor: Nat]

\* config.Options, the fields Build reads.  filter: the service keys asked for,
\* trimmed and lower-cased, as a set; the empty set asks for all.
Options ==
    [publicAddr: Address, clusterNamed: BOOLEAN, version: Version,
     webProxyPort: Nat, tlsRouting: BOOLEAN, repeat: Int,
     filter: SUBSET STRING, ipAddresses: Seq(Address), clientCert: BOOLEAN,
     httpsProxy: ProxyURL \cup {NoURL}, httpProxy: ProxyURL \cup {NoURL},
     extraHeaders: BOOLEAN]

ASSUME OptionsAssumption == OptionSets \subseteq Options
ASSUME AnswersAssumption == DNSAnswers \subseteq Seq(Address)

-----------------------------------------------------------------------------
\* The service templates.

\* sni and alpns name what the template's functions return: "public" is the
\* public address, "cluster" the base16 host name of the cluster, "kube" the
\* Kubernetes name derived from it.
Template(key, alpns, sni, upgrade, informational, trust, clientCert) ==
    [key |-> key, alpns |-> alpns, sni |-> sni, upgrade |-> upgrade,
     informational |-> informational, trust |-> trust, clientCert |-> clientCert]

DbTemplate(key) == Template(key, {}, "public", FALSE, TRUE, "system", FALSE)

ServiceTemplates ==
    <<Template("proxy_web", {"h2", "http/1.1"}, "public", TRUE, FALSE, "system", FALSE),
      Template("reverse_tunnel", {"teleport-reversetunnel"}, "public", FALSE, TRUE, "system", FALSE),
      Template("proxy_ssh", {"teleport-proxy-ssh"}, "public", FALSE, TRUE, "host_ca", FALSE),
      Template("proxy_ssh_grpc", {"teleport-proxy-ssh-grpc"}, "public", FALSE, TRUE, "host_ca", TRUE),
      Template("auth_via_proxy", {"teleport-auth", "h2"}, "cluster", FALSE, TRUE, "host_ca", TRUE),
      Template("kubernetes", {"h2", "http/1.1"}, "kube", FALSE, TRUE, "host_ca", FALSE),
      DbTemplate("db_postgres"), DbTemplate("db_mysql"),
      DbTemplate("db_mongodb"), DbTemplate("db_redis"),
      Template("app_access", {"h2", "http/1.1"}, "public", FALSE, TRUE, "system", FALSE),
      Template("desktop_access", {"h2", "http/1.1"}, "public", FALSE, TRUE, "system", FALSE)>>

ServiceKeys == {ServiceTemplates[n].key : n \in DOMAIN ServiceTemplates}

ASSUME NamesAssumption ==
    /\ ServiceKeys \subseteq Service
    /\ {"public", "cluster", "kube"} \subseteq ServerName
    /\ UNION {ServiceTemplates[n].alpns : n \in DOMAIN ServiceTemplates} \subseteq Proto
    /\ {"websocket", "alpn", "alpn-ping"} \subseteq Upgrade

-----------------------------------------------------------------------------
VARIABLES
    opts,      \* the options
    pc,        \* the part of Build that is running
    next,      \* the template or the target it is at
    pending,   \* tmplFilter: the wanted keys no template has claimed yet
    targets    \* plan.Targets

vars == <<opts, pc, next, pending, targets>>

TypeOK ==
    /\ opts \in OptionSets
    /\ pc \in {"templates", "dns", "proxy", "built", "refused"}
    /\ next \in Nat \ {0}
    /\ pc = "templates" => next <= Len(ServiceTemplates) + 1
    /\ pc = "dns" => next <= Len(targets) + 1
    /\ pending \in SUBSET opts.filter
    /\ targets \in Seq(Target)

-----------------------------------------------------------------------------
\* Versions.

DetermineUpgradeSequence(v) ==
    CASE v.major >= 18 -> {"websocket"}
      [] v.major \in {16, 17} \/ (v.major = 15 /\ v.minor >= 1) ->
            {"websocket", "alpn", "alpn-ping"}
      [] OTHER -> {"alpn", "alpn-ping"}

DescribeVersionBand(v) ==
    CASE v.major >= 18 -> "v18+"
      [] v.major \in 15..17 -> "v15-v17"
      [] OTHER -> "pre-v15"

-----------------------------------------------------------------------------
\* serviceTemplate.instantiate: every service listens on the web port.

Alpns(tmpl) == IF opts.clusterNamed THEN tmpl.alpns ELSE tmpl.alpns \ {"teleport-auth"}

Sni(tmpl) ==
    IF tmpl.sni = "cluster" /\ ~opts.clusterNamed THEN "public" ELSE tmpl.sni

\* Without a client certificate the choice is left open; with one, services
\* that support it are probed both ways.
CertChoices(tmpl) ==
    CASE ~opts.clientCert -> <<"unset">>
      [] opts.clientCert /\ tmpl.clientCert -> <<"with", "without">>
      [] OTHER -> <<"without">>

BaseTarget(tmpl, choice) ==
    [service |-> tmpl.key,
     address |-> opts.publicAddr,
     port |-> IF opts.webProxyPort <= 0 THEN 443 ELSE opts.webProxyPort,
     overrideIPs |-> opts.ipAddresses,
     dnsIPs |-> <<>>,
     sni |-> Sni(tmpl),
     alpns |-> Alpns(tmpl),
     upgrade |-> IF tmpl.upgrade THEN DetermineUpgradeSequence(opts.version) ELSE {},
     trust |-> tmpl.trust,
     informational |-> tmpl.informational /\ ~opts.tlsRouting,
     repeat |-> opts.repeat,
     useClientCert |-> choice,
     useProxy |-> FALSE,
     proxyURL |-> NoURL,
     extraHeaders |-> FALSE]

Instantiate(tmpl) ==
    [n \in 1..Len(CertChoices(tmpl)) |-> BaseTarget(tmpl, CertChoices(tmpl)[n])]

-----------------------------------------------------------------------------
\* The doublings.  Each target is replaced by two variants of itself.

Interleave(xs, ys) ==
    [n \in 1..(2 * Len(xs)) |->
        IF n % 2 = 1 THEN xs[(n + 1) \div 2] ELSE ys[n \div 2]]

\* HTTPS_PROXY is preferred, HTTP_PROXY the fallback.
ProxyFor(o) == IF o.httpsProxy # NoURL THEN o.httpsProxy ELSE o.httpProxy

WithProxy(t) == [t EXCEPT !.useProxy = TRUE, !.proxyURL = ProxyFor(opts)]

\* Faulty: the copy for the direct connection forgets what was resolved.
WithoutProxyFault(t) == [t EXCEPT !.useProxy = FALSE, !.dnsIPs = <<>>]

WithoutProxy(t) == [t EXCEPT !.useProxy = FALSE]

WithHeaders(t) == [t EXCEPT !.extraHeaders = TRUE]

-----------------------------------------------------------------------------
Init ==
    /\ opts \in OptionSets
    /\ pc = "templates"
    /\ next = 1
    /\ pending = opts.filter
    /\ targets = <<>>

\* Faulty: once every key of the filter is claimed, nothing is filtered any more.
TakeTemplateFault ==
    /\ pc = "templates" /\ next <= Len(ServiceTemplates)
    /\ LET tmpl == ServiceTemplates[next] IN
       IF pending # {} /\ tmpl.key \notin pending
       THEN UNCHANGED <<pending, targets>>
       ELSE /\ pending' = pending \ {tmpl.key}
            /\ targets' = targets \o Instantiate(tmpl)
    /\ next' = next + 1
    /\ UNCHANGED <<opts, pc>>

TakeTemplate ==
    /\ pc = "templates" /\ next <= Len(ServiceTemplates)
    /\ LET tmpl == ServiceTemplates[next] IN
       IF opts.filter # {} /\ tmpl.key \notin pending
       THEN UNCHANGED <<pending, targets>>
       ELSE /\ pending' = pending \ {tmpl.key}
            /\ targets' = targets \o Instantiate(tmpl)
    /\ next' = next + 1
    /\ UNCHANGED <<opts, pc>>

\* Faulty: the counter of the first loop goes on into the second.
CheckFilterNoResetFault ==
    /\ pc = "templates" /\ next > Len(ServiceTemplates)
    /\ pc' = IF pending # {} THEN "refused" ELSE "dns"
    /\ targets' = IF pending # {} THEN <<>> ELSE targets
    /\ UNCHANGED <<opts, next, pending>>

\* Faulty: unknown keys are let pass as long as some known service is wanted.
CheckFilterFault ==
    /\ pc = "templates" /\ next > Len(ServiceTemplates)
    /\ pc' = IF targets = <<>> THEN "refused" ELSE "dns"
    /\ next' = 1
    /\ UNCHANGED <<opts, pending, targets>>

\* A wanted key that no template claimed is an error, and there is no plan.
CheckFilter ==
    /\ pc = "templates" /\ next > Len(ServiceTemplates)
    /\ pc' = IF pending # {} THEN "refused" ELSE "dns"
    /\ targets' = IF pending # {} THEN <<>> ELSE targets
    /\ next' = 1
    /\ UNCHANGED <<opts, pending>>

\* resolveDNSForTarget
ResolveDNS(answer) ==
    /\ pc = "dns" /\ next <= Len(targets)
    /\ targets' = IF targets[next].overrideIPs # <<>> THEN targets
                  ELSE [targets EXCEPT ![next].dnsIPs = answer]
    /\ next' = next + 1
    /\ UNCHANGED <<opts, pc, pending>>

ExpandForProxy ==
    /\ pc = "dns" /\ next > Len(targets)
    /\ pc' = "proxy"
    /\ targets' = IF ProxyFor(opts) = NoURL THEN targets
                  ELSE Interleave([n \in DOMAIN targets |-> WithProxy(targets[n])],
                                  [n \in DOMAIN targets |-> WithoutProxy(targets[n])])
    /\ UNCHANGED <<opts, next, pending>>

ExpandForHeaders ==
    /\ pc = "proxy"
    /\ pc' = "built"
    /\ targets' = IF ~opts.extraHeaders THEN targets
                  ELSE Interleave(targets,
                                  [n \in DOMAIN targets |-> WithHeaders(targets[n])])
    /\ UNCHANGED <<opts, next, pending>>

Stopped == pc \in {"built", "refused"} /\ UNCHANGED vars

Next ==
    \/ TakeTemplate
    \/ CheckFilter
    \/ \E answer \in DNSAnswers : ResolveDNS(answer)
    \/ ExpandForProxy
    \/ ExpandForHeaders
    \/ Stopped

Spec == Init /\ [][Next]_vars

-----------------------------------------------------------------------------
\* What a target is a probe of: a service, with or without a client
\* certificate, through the proxy or not, with the extra headers or not.
Cell(t) ==
    [service |-> t.service, cert |-> t.useClientCert,
     proxied |-> Proxied(t), headers |-> t.extraHeaders]

Wanted(o) == IF o.filter = {} THEN ServiceKeys ELSE o.filter

CertChoicesOf(o, key) ==
    CASE ~o.clientCert -> {"unset"}
      [] o.clientCert /\ key \in {"proxy_ssh_grpc", "auth_via_proxy"} -> {"with", "without"}
      [] OTHER -> {"without"}

Cells(o) ==
    UNION {[service: {key}, cert: CertChoicesOf(o, key),
            proxied: IF {o.httpsProxy, o.httpProxy} = {NoURL} THEN {FALSE} ELSE BOOLEAN,
            headers: IF o.extraHeaders THEN BOOLEAN ELSE {FALSE}] : key \in Wanted(o)}

\* The plan is the whole matrix of wanted services, client certificate, proxy
\* and header variants, each cell once: filtering and the three doublings
\* neither lose nor repeat one, nor undo one another.
PlanIsTheMatrix ==
    pc = "built" =>
        /\ {Cell(targets[n]) : n \in DOMAIN targets} = Cells(opts)
        /\ \A m, n \in DOMAIN targets : Cell(targets[m]) = Cell(targets[n]) => m = n

\* Two targets that differ in the proxy or the headers differ in nothing else,
\* least of all in the addresses they probe: the resolver is asked before the
\* doublings, so the two outcomes can be compared (README.md:112-116).
VariantsAreComparable ==
    pc = "built" =>
        \A m, n \in DOMAIN targets :
            LET a == targets[m]
                b == targets[n]
            IN  a.service = b.service /\ a.useClientCert = b.useClientCert =>
                    b = [a EXCEPT !.useProxy = b.useProxy, !.proxyURL = b.proxyURL,
                                  !.extraHeaders = b.extraHeaders]

\* A filter with a key no service has is refused whatever else it asks for, and
\* a filter of services only is not.
UnknownServicesRefused ==
    /\ pc = "refused" => targets = <<>> /\ ~(opts.filter \subseteq ServiceKeys)
    /\ pc \in {"dns", "proxy", "built"} => opts.filter \subseteq ServiceKeys

=============================================================================
