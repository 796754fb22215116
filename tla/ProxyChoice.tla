---------------------------- MODULE ProxyChoice ----------------------------
(***************************************************************************)
(* Which HTTP proxy is used, by whom: the requests of runtime resolution   *)
(* (discovery/ping.go), the proxied probes (plan/plan.go), and what the    *)
(* report says of the proxy variables (config/options.go,                  *)
(* discovery/network.go).  Each part reads or parses the same variables on *)
(* its own; what the dialer refuses is in ProbeEngine (RejectProxyURL).    *)
(***************************************************************************)

CONSTANTS
    ProxyHost,  \* the hosts of proxies
    NoURL,      \* an unset or blank variable, or no proxy
    Unparsable  \* a value net/url rejects

\* The scheme is empty where the user has written host:port.
Scheme == {"", "http", "https", "socks4", "socks5"}
URL == [scheme: Scheme, host: ProxyHost]
Value == URL \cup {NoURL, Unparsable}

ASSUME ProxyChoiceAssumption == {NoURL, Unparsable} \cap URL = {} /\ NoURL # Unparsable

\* The variables, each in upper and in lower case, and the hosts NO_PROXY exempts.
Environment(hosts) ==
    [https: Value \X Value, http: Value \X Value, all: Value \X Value,
     exempt: SUBSET hosts]

FirstNonEmpty(values) == IF values[1] # NoURL THEN values[1] ELSE values[2]

DetectProxySettings(env) ==
    [https |-> FirstNonEmpty(env.https), http |-> FirstNonEmpty(env.http),
     exempt |-> env.exempt]

-----------------------------------------------------------------------------
\* The requests.

\* A value without scheme gets one.
ParseProxyURL(value) ==
    CASE value \in {NoURL, Unparsable} -> NoURL
      [] value \in URL /\ value.scheme = "" -> [value EXCEPT !.scheme = "http"]
      [] OTHER -> value

\* Faulty: HTTP_PROXY goes first.
ProxyFuncFault(settings, scheme) ==
    IF scheme = "https" /\ ParseProxyURL(settings.http) = NoURL
    THEN ParseProxyURL(settings.https)
    ELSE ParseProxyURL(settings.http)

\* The proxy of a request for a URL of the scheme: HTTPS_PROXY is for https only,
\* HTTP_PROXY for both.  Nobody looks at settings.exempt.
ProxyFunc(settings, scheme) ==
    IF scheme = "https" /\ ParseProxyURL(settings.https) # NoURL
    THEN ParseProxyURL(settings.https)
    ELSE ParseProxyURL(settings.http)

\* The proxies net/http can talk to.
Supported(proxy) == proxy # NoURL => proxy.scheme \in {"http", "https", "socks5"}

-----------------------------------------------------------------------------
\* The probes.

DetermineProxyURL(settings) ==
    IF settings.https # NoURL THEN settings.https ELSE settings.http

-----------------------------------------------------------------------------
\* The report.

\* A value without scheme has no host as net/url reads it.
HostsIn(value) == IF value \in URL /\ value.scheme # "" THEN {value.host} ELSE {}

\* detectEnvironmentProxies: the hosts named; the order they are listed in is
\* left out.
ParsedHosts(env) ==
    UNION {HostsIn(FirstNonEmpty(env.https)), HostsIn(FirstNonEmpty(env.http)),
           HostsIn(FirstNonEmpty(env.all))}
=============================================================================
