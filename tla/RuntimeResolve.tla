--------------------------- MODULE RuntimeResolve ---------------------------
(***************************************************************************)
(* ResolveRuntime: from the command line and the Teleport home directory   *)
(* to the proxy's address, then over the network to the cluster's metadata *)
(* (/webapi/ping) and its host CA bundle (/webapi/auth/export).            *)
(* internal/config/runtime.go, internal/discovery/ping.go, hostca.go.      *)
(*                                                                         *)
(* The network is the environment: any request may be answered, refused    *)
(* for its certificate, or fail otherwise (the client's 10 s limit         *)
(* included).  So is tsh, which may renew the credentials while they are   *)
(* read.                                                                   *)
(***************************************************************************)
EXTENDS TeleportHome, ProxyChoice, FiniteSets

CONSTANTS
    Homes,        \* the home directories there may be
    CommandLines, \* the options the user may give
    Pings,        \* what a proxy may answer to /webapi/ping
    Blank, NoColon, \* see HeaderFlags
    NewLogin,     \* what a tsh login writes into the key files
    Bundle,       \* bodies of host CA answers
    NoBundle

Flags == INSTANCE HeaderFlags

\* What ParseArgs makes config.Options of, where ResolveRuntime reads it.
CommandLine ==
    [publicAddr: MaybeAddr, useProfileCredentials: BOOLEAN, headerArgs: Seq(Flags!HeaderArg),
     env: Environment(Host)]

\* A usable answer to /webapi/ping: fetchClusterInfo refuses one without
\* cluster name or version.
Ping == [webAddr: MaybeAddr, tlsRouting: BOOLEAN]

ASSUME EnvironmentAssumption ==
    /\ Homes \subseteq Home
    /\ CommandLines \subseteq CommandLine
    /\ Pings \subseteq Ping
    /\ NoBundle \notin Bundle /\ NewLogin \in PEM

VARIABLES
    home,      \* the home directory, before any renewal
    renewed,   \* which of the key files tsh has rewritten
    opts,      \* the command line and the environment variables
    pc,        \* the part of ResolveRuntime that is running
    profile,   \* LoadActiveProfile's result
    public,    \* resolved.PublicAddr
    webPort,   \* resolved.WebProxyPort
    headers,   \* resolved.ExtraHeaders
    pair,      \* resolved.ClientCertPEM and ClientKeyPEM, or what has been read
    info,      \* the answer to the ping
    endpoint,  \* where in the host CA endpoints the loop is
    bundle,    \* resolved.HostCAPEM
    requests   \* auxiliary: the requests made, in order, with their outcomes

vars == <<home, renewed, opts, pc, profile, public, webPort, headers, pair, info,
          endpoint, bundle, requests>>

Request ==
    [to: Addr, for: {"ping", "ca"}, secure: BOOLEAN, via: URL \cup {NoURL},
     outcome: {"ok", "cert_error", "error"}]

TypeOK ==
    /\ home \in Homes /\ renewed \subseteq {"cert", "key"} /\ opts \in CommandLines
    /\ pc \in {"profile", "modern_cert", "modern_key", "legacy_cert", "legacy_key",
               "headers", "ping", "ping_insecure", "ca", "ca_insecure",
               "resolved", "bad_args", "proxy_required", "bad_profile", "no_ping",
               "no_bundle"}
    /\ profile \in Profile \cup Unread
    /\ public \in MaybeAddr
    /\ pc \notin {"profile", "bad_args", "proxy_required", "bad_profile"} => public \in Addr
    /\ webPort \in Nat
    /\ DOMAIN headers \subseteq HeaderName
    /\ headers \in [DOMAIN headers -> HeaderValue]
    /\ pair \in [cert: PEM \cup {Empty, Absent}, key: PEM \cup {Empty}]
    /\ info \in Ping
    /\ endpoint \in 1..3
    /\ bundle \in Bundle \cup {NoBundle}
    /\ requests \in Seq(Request)

NoHeaders == [h \in {} |-> 0]
NoPing == [webAddr |-> NoAddr, tlsRouting |-> FALSE]

\* ParseArgs comes first, and refuses header flags it cannot read.
Init ==
    /\ home \in Homes /\ opts \in CommandLines
    /\ renewed = {}
    /\ pc = IF Flags!Accepted(opts.headerArgs) THEN "profile" ELSE "bad_args"
    /\ profile = Absent
    /\ public = opts.publicAddr
    /\ webPort = 0
    /\ headers = IF pc = "bad_args" THEN NoHeaders ELSE Flags!HeadersOf(opts.headerArgs)
    /\ pair = NoPair
    /\ info = NoPing
    /\ endpoint = 1
    /\ bundle = NoBundle
    /\ requests = <<>>

-----------------------------------------------------------------------------
\* The local part: profile, client certificate, headers, address.

HasProfile == profile \notin Unread

\* Faulty: only a missing profile is noticed, not one that cannot be read.
LoadProfileFault ==
    /\ pc = "profile"
    /\ profile' = LoadActiveProfile(home)
    /\ public' = IF HasProfile' /\ public = NoAddr THEN profile'.public ELSE public
    /\ pc' = CASE HasProfile' /\ opts.useProfileCredentials -> "modern_cert"
               [] public' = NoAddr /\ profile' = Absent -> "proxy_required"
               [] OTHER -> "headers"
    /\ UNCHANGED <<home, renewed, opts, webPort, headers, pair, info, endpoint, bundle, requests>>

\* Without an active profile, or with one that cannot be read, the address must
\* have been given.
LoadProfile ==
    /\ pc = "profile"
    /\ profile' = LoadActiveProfile(home)
    /\ public' = IF HasProfile' /\ public = NoAddr THEN profile'.public ELSE public
    /\ pc' = CASE HasProfile' /\ opts.useProfileCredentials -> "modern_cert"
               [] ~(HasProfile' /\ opts.useProfileCredentials) /\ public' # NoAddr -> "headers"
               [] public' = NoAddr /\ profile' = Absent -> "proxy_required"
               [] OTHER -> "bad_profile"
    /\ UNCHANGED <<home, renewed, opts, webPort, headers, pair, info, endpoint, bundle, requests>>

\* A tsh login rewrites the key files one after the other, in the modern format.
TshWrites(file) ==
    /\ pc \in {"profile", "modern_cert", "modern_key"} /\ file \notin renewed
    /\ renewed' = renewed \cup {file}
    /\ UNCHANGED <<home, opts, pc, profile, public, webPort, headers, pair, info,
                   endpoint, bundle, requests>>

Content(format, file) ==
    CASE format = "legacy" -> home.legacy[file]
      [] format = "modern" /\ file \in renewed -> NewLogin
      [] OTHER -> home.modern[file]

Format == IF pc \in {"modern_cert", "modern_key"} THEN "modern" ELSE "legacy"

\* LoadClientCert reads the certificate and then the key.
ReadCert ==
    /\ pc \in {"modern_cert", "legacy_cert"}
    /\ pair' = [cert |-> Content(Format, "cert"), key |-> Empty]
    /\ pc' = IF pc = "modern_cert" THEN "modern_key" ELSE "legacy_key"
    /\ UNCHANGED <<home, renewed, opts, profile, public, webPort, headers, info,
                   endpoint, bundle, requests>>

\* Faulty: the fallback is made for each file on its own.
ReadKeyFault ==
    /\ pc \in {"modern_key", "legacy_key"}
    /\ LET key == Content(Format, "key")
           read == [cert |-> IF pair.cert # Absent THEN pair.cert ELSE home.legacy.cert,
                    key |-> IF key # Absent THEN key ELSE home.legacy.key]
       IN  pc' = "headers"
           /\ pair' = IF {Absent, Empty} \cap {read.cert, read.key} = {} THEN read ELSE NoPair
    /\ UNCHANGED <<home, renewed, opts, profile, public, webPort, headers, info,
                   endpoint, bundle, requests>>

\* Faulty: the fallback reads the files it has read before.
ReadKeyLoopFault ==
    /\ pc \in {"modern_key", "legacy_key"}
    /\ LET read == [pair EXCEPT !.key = Content(Format, "key")] IN
       IF Absent \in {read.cert, read.key}
       THEN pc' = "modern_cert" /\ pair' = NoPair
       ELSE pc' = "headers"
            /\ pair' = IF Empty \in {read.cert, read.key} THEN NoPair ELSE read
    /\ UNCHANGED <<home, renewed, opts, profile, public, webPort, headers, info,
                   endpoint, bundle, requests>>

\* The modern pair if both files can be read, else the legacy pair.  An empty
\* file that can be read still decides, and means no certificate.
ReadKey ==
    /\ pc \in {"modern_key", "legacy_key"}
    /\ LET read == [pair EXCEPT !.key = Content(Format, "key")] IN
       IF pc = "modern_key" /\ Absent \in {read.cert, read.key}
       THEN pc' = "legacy_cert" /\ pair' = NoPair
       ELSE pc' = "headers"
            /\ pair' = IF {Absent, Empty} \cap {read.cert, read.key} = {} THEN read ELSE NoPair
    /\ UNCHANGED <<home, renewed, opts, profile, public, webPort, headers, info,
                   endpoint, bundle, requests>>

\* Faulty: config.yaml has the last word.
MergedFault(given, added) ==
    [h \in DOMAIN given \cup DOMAIN added |->
        IF h \in DOMAIN added THEN added[h] ELSE given[h]]

\* Headers given on the command line take precedence.
Merged(given, added) ==
    [h \in DOMAIN given \cup DOMAIN added |->
        IF h \in DOMAIN given THEN given[h] ELSE added[h]]

PortOr(a, otherwise) == IF a # NoAddr /\ a.port > 0 THEN a.port ELSE otherwise

\* Faulty: the profile's web address wins.
PingAddrFault == IF HasProfile THEN profile.web ELSE opts.publicAddr

\* Where the ping goes: the given address, else the profile's web address.
PingAddr == IF opts.publicAddr # NoAddr THEN opts.publicAddr ELSE profile.web

\* The ports of the address, of the profile's web address and of the address
\* given, a later one replacing an earlier one.
AddHeadersAndSplit ==
    /\ pc = "headers"
    /\ headers' = Merged(headers, ConfigHeaders(home, public.host))
    /\ public' = HostOnly(public)
    /\ webPort' = PortOr(opts.publicAddr,
                         PortOr(IF HasProfile THEN profile.web ELSE NoAddr,
                                PortOr(public, webPort)))
    /\ pc' = "ping"
    /\ UNCHANGED <<home, renewed, opts, profile, pair, info, endpoint, bundle, requests>>

-----------------------------------------------------------------------------
\* The network part.  FetchClusterInfo and FetchHostCAs ask with verification
\* first, and once more without it if the certificate was what failed.

\* buildPingURL, buildExportURL: the URL of an address written without a scheme is
\* an https URL.
SchemeOf(a) == IF a.scheme = "" THEN "https" ELSE a.scheme

Via(a) == ProxyFunc(DetectProxySettings(opts.env), SchemeOf(a))

\* Through a proxy net/http cannot talk to, every request fails.  A redirect, or a
\* proxy reached by TLS, can make even an http request fail for a certificate.
Asked(addr, what, secure, outcome) ==
    /\ outcome # "error" => Supported(Via(addr))
    /\ requests' = Append(requests,
          [to |-> addr, for |-> what, secure |-> secure, via |-> Via(addr),
           outcome |-> outcome])

\* The proxy's own idea of its address replaces the one it was asked by.
PingAnswered(p) ==
    /\ pc \in {"ping", "ping_insecure"}
    /\ Asked(PingAddr, "ping", pc = "ping", "ok")
    /\ info' = p
    /\ public' = IF p.webAddr # NoAddr THEN HostOnly(p.webAddr) ELSE public
    /\ webPort' = PortOr(p.webAddr, IF webPort = 0 THEN 443 ELSE webPort)
    /\ pc' = "ca"
    /\ UNCHANGED <<home, renewed, opts, profile, headers, pair, endpoint, bundle>>

PingRefused ==
    /\ pc = "ping"
    /\ Asked(PingAddr, "ping", TRUE, "cert_error")
    /\ pc' = "ping_insecure"
    /\ UNCHANGED <<home, renewed, opts, profile, public, webPort, headers, pair, info,
                   endpoint, bundle>>

\* Faulty: whatever goes wrong, the certificate is held responsible.
PingFailsFault ==
    /\ pc \in {"ping", "ping_insecure"}
    /\ Asked(PingAddr, "ping", pc = "ping", "error")
    /\ pc' = IF pc = "ping" THEN "ping_insecure" ELSE "no_ping"
    /\ UNCHANGED <<home, renewed, opts, profile, public, webPort, headers, pair, info,
                   endpoint, bundle>>

PingFails ==
    /\ pc \in {"ping", "ping_insecure"}
    /\ Asked(PingAddr, "ping", pc = "ping", "error")
    /\ pc' = "no_ping"
    /\ UNCHANGED <<home, renewed, opts, profile, public, webPort, headers, pair, info,
                   endpoint, bundle>>

\* hostCAEndpoints: the address the proxy gave, the one resolved from it (joined of
\* host and port, without a scheme), and the one that was pinged.
Endpoints ==
    (IF info.webAddr # NoAddr THEN <<info.webAddr>> ELSE <<>>)
        \o <<[public EXCEPT !.port = webPort], PingAddr>>

\* Faulty: endpoints that come up twice are asked twice.
LaterFault == (endpoint + 1)..Len(Endpoints)

\* The endpoints after the current one that have not been tried: tried compares
\* them as they are written.
Later ==
    {n \in (endpoint + 1)..Len(Endpoints) :
        \A m \in 1..(n - 1) : Endpoints[m] # Endpoints[n]}

HostCAAnswered(body) ==
    /\ pc \in {"ca", "ca_insecure"}
    /\ Asked(Endpoints[endpoint], "ca", pc = "ca", "ok")
    /\ bundle' = body
    /\ pc' = "resolved"
    /\ UNCHANGED <<home, renewed, opts, profile, public, webPort, headers, pair, info, endpoint>>

HostCARefused ==
    /\ pc = "ca"
    /\ Asked(Endpoints[endpoint], "ca", TRUE, "cert_error")
    /\ pc' = "ca_insecure"
    /\ UNCHANGED <<home, renewed, opts, profile, public, webPort, headers, pair, info,
                   endpoint, bundle>>

\* Faulty: an endpoint that fails without verification ends the search.
HostCAFailsFault ==
    /\ pc \in {"ca", "ca_insecure"}
    /\ Asked(Endpoints[endpoint], "ca", pc = "ca", "error")
    /\ IF Later = {} \/ pc = "ca_insecure" THEN pc' = "no_bundle" /\ UNCHANGED endpoint
       ELSE /\ pc' = "ca"
            /\ endpoint' \in Later /\ \A n \in Later : endpoint' <= n
    /\ UNCHANGED <<home, renewed, opts, profile, public, webPort, headers, pair, info, bundle>>

HostCAFails ==
    /\ pc \in {"ca", "ca_insecure"}
    /\ Asked(Endpoints[endpoint], "ca", pc = "ca", "error")
    /\ IF Later = {} THEN pc' = "no_bundle" /\ UNCHANGED endpoint
       ELSE /\ pc' = "ca"
            /\ endpoint' \in Later /\ \A n \in Later : endpoint' <= n
    /\ UNCHANGED <<home, renewed, opts, profile, public, webPort, headers, pair, info, bundle>>

Ended == pc \in {"resolved", "bad_args", "proxy_required", "bad_profile", "no_ping", "no_bundle"}
Stopped == Ended /\ UNCHANGED vars

Local == LoadProfile \/ ReadCert \/ ReadKey \/ AddHeadersAndSplit

Requests ==
    \/ (\E p \in Pings : PingAnswered(p)) \/ PingRefused \/ PingFails
    \/ (\E body \in Bundle : HostCAAnswered(body)) \/ HostCARefused \/ HostCAFails

Next ==
    \/ (\E file \in {"cert", "key"} : TshWrites(file))
    \/ Local \/ Requests
    \/ Stopped

Spec == Init /\ [][Next]_vars

\* Files are read; requests end, with the client's limit of 10 s at the latest.
FairSpec == Spec /\ WF_vars(Local \/ Requests)

-----------------------------------------------------------------------------
\* What Resolution's state is: a refused request is repeated in the same turn.

StateBar ==
    CASE pc \in {"ping", "ping_insecure"} -> "asking"
      [] pc \in {"ca", "ca_insecure"} -> "collecting"
      [] pc = "resolved" -> "resolved"
      [] Ended /\ pc # "resolved" -> "failed"
      [] OTHER -> "locating"

\* The endpoint that is asked and those that come after it, of three at most.
LeftBar ==
    LET turn(n) == IF n \in {endpoint} \cup Later THEN <<Endpoints[n]>> ELSE <<>>
    IN  CASE StateBar = "asking" -> <<PingAddr>>
          [] StateBar \in {"collecting", "resolved"} -> turn(1) \o turn(2) \o turn(3)
          [] OTHER -> <<>>

Promised == INSTANCE Resolution WITH Endpoint <- Addr, state <- StateBar, left <- LeftBar

\* The resolution implements Resolution: every endpoint, as it is written, has one
\* turn, whatever was refused, repeated or passed over, and however the address
\* given, the profile's and the proxy's own coincide; a place written in several
\* ways has as many turns (runtime.go:179-224).
ImplementsResolution == Promised!Spec

\* It comes to an end, with a bundle or without (runtime.go:21-224).
ResolutionEnds == Promised!Ends

-----------------------------------------------------------------------------
\* The host CA bundle is the best to be had: the endpoints before the one that
\* gave it were asked and failed, and the search is given up only when every
\* endpoint has failed.
BundleFromFirstThatAnswers ==
    LET failed(m) == \E n \in DOMAIN requests :
            /\ requests[n].for = "ca" /\ requests[n].to = Endpoints[m]
            /\ requests[n].outcome = "error"
    IN  /\ pc = "resolved" =>
              LET last == requests[Len(requests)] IN
              /\ last.for = "ca" /\ last.outcome = "ok" /\ bundle # NoBundle
              /\ \E n \in DOMAIN Endpoints :
                    last.to = Endpoints[n] /\ \A m \in 1..(n - 1) : failed(m)
        /\ pc = "no_bundle" => \A m \in DOMAIN Endpoints : failed(m)

\* The same request, whatever became of it and however it was verified.
SameRequest(a, b) == a.to = b.to /\ a.for = b.for /\ a.via = b.via

\* Verification is given up for one request, right after that same request was
\* refused for the certificate, and it is given up then (ping.go:62-64).
InsecureOnlyAfterCertError ==
    \A n \in DOMAIN requests :
        /\ ~requests[n].secure =>
              /\ n > 1 /\ SameRequest(requests[n - 1], requests[n])
              /\ requests[n - 1].secure /\ requests[n - 1].outcome = "cert_error"
        /\ requests[n].outcome = "cert_error" /\ n < Len(requests) =>
              ~requests[n + 1].secure /\ SameRequest(requests[n], requests[n + 1])

\* Where an address leads, however it is written.
Place(a) ==
    [scheme |-> SchemeOf(a), host |-> a.host,
     port |-> CASE a.port > 0 -> a.port
                [] a.port = 0 /\ SchemeOf(a) = "http" -> 80
                [] OTHER -> 443]

\* The address the user gave, the profile's and the proxy's own may coincide in any
\* combination and be written in several ways.  A place is asked the same thing in
\* the same way again only by another spelling of its address, which the code does
\* not recognise, and only after it has failed to answer; so every resolution
\* comes to an end.
AskedAgainOnlyRespelled ==
    \A m, n \in DOMAIN requests :
        LET a == requests[m]
            b == requests[n]
        IN  m < n /\ a.for = b.for /\ a.secure = b.secure /\ Place(a.to) = Place(b.to)
                => a.to # b.to /\ a.outcome # "ok"

\* With --proxy-server, nothing is asked of the profile's proxy: every request
\* goes to the host given or to the one that host names.
GivenProxyIsAsked ==
    opts.publicAddr # NoAddr =>
        \A n \in DOMAIN requests :
            requests[n].to.host \in {opts.publicAddr.host} \cup
                (IF info.webAddr = NoAddr THEN {} ELSE {info.webAddr.host})

\* A header of the command line is never overridden or lost, and the last mention
\* of it counts, in a flag or in a file; every other one comes from the last rule
\* of config.yaml that has it for the host the address was first resolved to
\* (options.go:100-103, tshconfig.go:52-53).
CommandLineHeadersWin ==
    LET host == IF opts.publicAddr # NoAddr THEN opts.publicAddr.host
                                            ELSE profile.public.host
        rules == {n \in DOMAIN home.config : host \in home.config[n].hosts}
        source(h) == {n \in rules :
            /\ h \in DOMAIN home.config[n].headers
            /\ \A m \in rules : h \in DOMAIN home.config[m].headers => m <= n}
        given(i, j) == opts.headerArgs[i].lines[j]
        flags == DOMAIN opts.headerArgs
        names(i) == {given(i, j).name : j \in {j \in DOMAIN opts.headerArgs[i].lines :
                                                    given(i, j) # Blank}}
    IN  pc # "bad_args" =>
        /\ \A i \in flags : names(i) \subseteq DOMAIN headers
        /\ \A h \in DOMAIN headers :
              LET mentioned == {i \in flags : h \in names(i)} IN
              IF mentioned = {}
              THEN \E n \in source(h) : headers[h] = home.config[n].headers[h]
              ELSE \E i \in mentioned : \E j \in DOMAIN opts.headerArgs[i].lines :
                    /\ \A k \in mentioned : k <= i
                    /\ given(i, j) = [name |-> h, value |-> headers[h]]
                    /\ \A k \in (j + 1)..Len(opts.headerArgs[i].lines) :
                          given(i, k) = Blank \/ given(i, k).name # h

\* A client certificate is taken only on request, and with a key of the same
\* format: files of the two key directory formats are never mixed, whatever tsh
\* writes meanwhile, and of a new login only what had been written is used.
PairFromOneFormat ==
    pc \notin {"profile", "modern_cert", "modern_key", "legacy_cert", "legacy_key"}
        /\ pair # NoPair =>
        /\ opts.useProfileCredentials /\ HasProfile
        /\ \/ pair = home.legacy
           \/ \A file \in {"cert", "key"} :
                 \/ pair[file] = home.modern[file]
                 \/ pair[file] = NewLogin /\ file \in renewed

\* The requests and the probes choose their proxy each on their own, and agree on
\* it: a request for an https URL, every retry included, goes the way the planner
\* chooses for the probes, a missing scheme taken for http; and the report names
\* the host of every proxy chosen, unless its variable has no scheme.  A request
\* for an http URL is no part of this: it never goes by HTTPS_PROXY (plan.go:558-566,
\* ping.go:187-228, network.go:287-299).
ProbesFollowRequests ==
    LET settings == DetectProxySettings(opts.env)
        planned == DetermineProxyURL(settings)
    IN  /\ planned # Unparsable =>
              \A n \in DOMAIN requests :
                  Place(requests[n].to).scheme = "https" =>
                      requests[n].via = ParseProxyURL(planned)
        /\ \A url \in {planned} \cup {requests[n].via : n \in DOMAIN requests} :
              url \in URL /\ url.scheme # "" /\ url \in {settings.https, settings.http}
                  => url.host \in ParsedHosts(opts.env)

-----------------------------------------------------------------------------
\* What the repository says of the resolution and the code does not keep.

\* "The command respects `HTTPS_PROXY`, `HTTP_PROXY`, and `NO_PROXY`"
\* (README.md:112): hosts the user has exempted are asked directly.
NoProxyIsRespected ==
    \A n \in DOMAIN requests :
        requests[n].to.host \in opts.env.exempt => requests[n].via = NoURL
=============================================================================
