------------------------------ MODULE Targets ------------------------------
(***************************************************************************)
(* The data the planner hands to the probe engine: a probe target, the     *)
(* addresses it is probed on and the attempts it stands for.               *)
(* internal/plan/plan.go declares the type, internal/probe/engine.go walks *)
(* it.                                                                     *)
(***************************************************************************)
EXTENDS Integers, Sequences, FiniteSets

CONSTANTS
    Address,     \* host names and IP addresses, numbered in string order
    Service,     \* service keys ("proxy_web", "proxy_ssh", ...)
    Proto,       \* ALPN protocol names
    ServerName,  \* names a target can send as SNI
    Upgrade,     \* upgrade tokens the planner lists for a target
    ProxyURL,    \* values HTTPS_PROXY / HTTP_PROXY may hold
    HttpURL,     \* the members of ProxyURL whose scheme is http or https
    NoURL        \* no proxy configured (the empty string)

ASSUME AddressAssumption == Address \subseteq Nat
ASSUME URLAssumption == HttpURL \subseteq ProxyURL /\ NoURL \notin ProxyURL

\* plan.TrustStrategy: the operating system's store or the cluster's host CA.
Trust == {"system", "host_ca"}

\* ProbeTarget.UseClientCert is a *bool: nil, false or true.
CertChoice == {"unset", "without", "with"}

\* One (service, port, SNI, ALPN) combination of the plan.  alpns and upgrade
\* are kept as sets, extraHeaders as whether the target carries the headers.
Target ==
    [service: Service, address: Address, port: Nat,
     overrideIPs: Seq(Address), dnsIPs: Seq(Address),
     sni: ServerName, alpns: SUBSET Proto, upgrade: SUBSET Upgrade,
     trust: Trust, informational: BOOLEAN, repeat: Int,
     useClientCert: CertChoice,
     useProxy: BOOLEAN, proxyURL: ProxyURL \cup {NoURL},
     extraHeaders: BOOLEAN]

\* The addresses a target is probed on: the override, else what DNS returned,
\* else the address as it was given.
Ips(t) ==
    CASE t.overrideIPs # <<>> -> t.overrideIPs
      [] t.overrideIPs = <<>> /\ t.dnsIPs # <<>> -> t.dnsIPs
      [] OTHER -> <<t.address>>

\* Attempts per address; a repeat count that is not positive means one.
Attempts(t) == IF t.repeat <= 0 THEN 1 ELSE t.repeat

\* The target as one result reports it: one address, no DNS answer.
IpTarget(t, ip) == [t EXCEPT !.address = Ips(t)[ip], !.dnsIPs = <<>>]

\* A connection through the proxy is asked for only when both fields are set.
Proxied(t) == t.useProxy /\ t.proxyURL # NoURL

\* Every attempt the plan p stands for: a target, one of its addresses and the
\* number of the attempt on it.
SlotsOf(p) ==
    UNION {[target: {n}, ip: 1..Len(Ips(p[n])), attempt: 1..Attempts(p[n])] :
             n \in 1..Len(p)}

\* The outcomes of an attempt: success, or the failure kinds of Failure.Kind.
FailureKind ==
    {"proxy_config_error", "proxy_connect_failed", "timeout",
     "handshake_failed", "alpn_mismatch", "untrusted_cert",
     "host_ca_unavailable"}

Success == "success"
Verdict == FailureKind \cup {Success}
=============================================================================
