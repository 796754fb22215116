---------------------------- MODULE MCPlanBuild ----------------------------
(***************************************************************************)
(* Small instances of PlanBuild.  Address 3 is the proxy's public name, 1  *)
(* and 2 are what the resolver or the user gives for it.                   *)
(***************************************************************************)
EXTENDS PlanBuild, TLC

MCAddress == 1..3
MCService == ServiceKeys
MCProto == {"h2", "http/1.1", "teleport-reversetunnel", "teleport-proxy-ssh",
            "teleport-proxy-ssh-grpc", "teleport-auth"}
MCServerName == {"public", "cluster", "kube"}
MCUpgrade == {"websocket", "alpn", "alpn-ping"}
MCProxyURL == {"http://proxy", "http://other"}
MCDNSAnswers == {<<>>, <<1, 2>>, <<2, 1>>}

Plain ==
    [publicAddr |-> 3, clusterNamed |-> TRUE, version |-> [major |-> 18, minor |-> 0],
     webProxyPort |-> 3080, tlsRouting |-> TRUE, repeat |-> 1,
     filter |-> {"proxy_web"}, ipAddresses |-> <<>>, clientCert |-> FALSE,
     httpsProxy |-> NoURL, httpProxy |-> NoURL,
     extraHeaders |-> FALSE]

Filters ==
    {{"proxy_web"}, {"proxy_ssh_grpc", "db_redis"}, {"auth_via_proxy", "nosuch"},
     {"nosuch"}}

\* Some services, with every lookup of every target free to differ.
Filtered ==
    {[Plain EXCEPT !.filter = f, !.clientCert = c, !.httpsProxy = s,
                   !.httpProxy = h, !.extraHeaders = x] :
        f \in Filters, c \in BOOLEAN, s \in {NoURL, "http://proxy"},
        h \in {NoURL, "http://other"}, x \in BOOLEAN}

\* Every service, on addresses the user gave; old clusters without TLS routing.
Unfiltered ==
    {[Plain EXCEPT !.filter = {}, !.ipAddresses = <<2>>, !.clientCert = c,
                   !.httpProxy = h, !.extraHeaders = x, !.tlsRouting = r,
                   !.clusterNamed = r,
                   !.version = [major |-> m, minor |-> 1], !.webProxyPort = p] :
        c \in BOOLEAN, h \in {NoURL, "http://other"}, x \in BOOLEAN,
        r \in BOOLEAN, m \in {14, 15, 16, 18}, p \in {0, 443}}

MCOptionSets == Filtered \cup Unfiltered
=============================================================================
