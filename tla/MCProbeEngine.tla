--------------------------- MODULE MCProbeEngine ---------------------------
(***************************************************************************)
(* Small instances of ProbeEngine.  Addresses 1 and 2 are IP addresses, 3  *)
(* is the proxy's public name.  The certificates are those of a public CA  *)
(* (an ISRG-like root and an intermediate), of a middlebox whose root took *)
(* that root's name and key identifier, and of a cluster's host CA, which  *)
(* carries no key identifiers.                                             *)
(***************************************************************************)
EXTENDS ProbeEngine, TLC

MCAddress == 1..3
MCService == {"proxy_web", "proxy_ssh", "proxy_ssh_grpc"}
MCProto == {"h2", "ssh"}
MCServerName == {"public"}
MCUpgrade == {"websocket"}
MCProxyURL == {"http://proxy", "proxy:3128"}
MCHttpURL == {"http://proxy"}

MCCert == {"leaf", "R3", "X1", "boxleaf", "boxroot", "hostleaf", "hostca"}
MCKey == {"kleaf", "kR3", "kX1", "kbox", "khost"}
MCKeyId == {"idR3", "idX1"}
MCCommonName == {"ISRG Root X1", "R3", "host"}

Certificate(key, signer, ski, aki, cn, names) ==
    [key |-> key, signer |-> signer, ski |-> ski, aki |-> aki,
     issuerCN |-> cn, names |-> names]

MCX509 ==
    [c \in MCCert |->
       CASE c = "leaf" ->
              Certificate("kleaf", "kR3", NoKeyId, "idR3", "R3", {"public"})
         [] c = "R3" -> Certificate("kR3", "kX1", "idR3", "idX1", "ISRG Root X1", {})
         [] c = "X1" -> Certificate("kX1", "kX1", "idX1", "idX1", "ISRG Root X1", {})
         [] c = "boxleaf" ->
              Certificate("kleaf", "kbox", NoKeyId, "idX1", "ISRG Root X1", {"public"})
         [] c = "boxroot" ->
              Certificate("kbox", "kbox", "idX1", "idX1", "ISRG Root X1", {})
         [] c = "hostleaf" ->
              Certificate("kleaf", "khost", NoKeyId, NoKeyId, "host", {"public"})
         [] c = "hostca" ->
              Certificate("khost", "khost", NoKeyId, NoKeyId, "host", {})]

MCReferenceCA == "ISRG Root X1" :> "X1"

\* Two keys under one identifier: the middlebox's root, alone and before the root
\* it imitates, where the map keeps the latter; and the public chain with the
\* middlebox's root at its end, which the map gives R3 for its issuer.
MCChains ==
    {<<"leaf", "R3">>, <<"leaf", "R3", "X1", "boxroot">>, <<"boxleaf", "boxroot">>,
     <<"boxleaf", "boxroot", "X1">>, <<"hostleaf">>}

MCSystemRoots == {"X1"}
MCHostCAPools == {{"hostca"}}
\* One that can be used, one whose file starts with another PEM block, one whose
\* halves do not match.
MCClientPairs ==
    {[cert |-> "hostleaf", usable |-> TRUE, certFirst |-> TRUE],
     [cert |-> "hostleaf", usable |-> TRUE, certFirst |-> FALSE],
     [cert |-> "hostleaf", usable |-> FALSE, certFirst |-> TRUE]}

Web ==
    [service |-> "proxy_web", address |-> 3, port |-> 443,
     overrideIPs |-> <<>>, dnsIPs |-> <<>>,
     sni |-> "public", alpns |-> {"h2"}, upgrade |-> {"websocket"},
     trust |-> "system", informational |-> FALSE, repeat |-> 1,
     useClientCert |-> "without", useProxy |-> FALSE, proxyURL |-> NoURL,
     extraHeaders |-> FALSE]

Ssh == [Web EXCEPT !.service = "proxy_ssh", !.alpns = {"ssh"},
                   !.upgrade = {}, !.trust = "host_ca"]
Grpc == [Ssh EXCEPT !.service = "proxy_ssh_grpc", !.useClientCert = "with"]

ViaProxy(t, url) == [t EXCEPT !.useProxy = TRUE, !.proxyURL = url]

\* The runner takes any PlanBuilder, so the engine may be given plans the planner
\* itself would not build.  Nested loops: two addresses out of order, two
\* attempts, two services.
DirectPlans ==
    {<<[Web EXCEPT !.dnsIPs = <<2, 1>>], Grpc>>,
     <<[Web EXCEPT !.repeat = 2], [Ssh EXCEPT !.repeat = 0]>>,
     <<[Ssh EXCEPT !.overrideIPs = <<1>>, !.dnsIPs = <<2>>], [Web EXCEPT !.alpns = {}]>>,
     <<>>}

\* A target probed through the proxy and directly, and one whose proxy URL the
\* engine cannot use.
ProxyPlans ==
    {<<ViaProxy(Web, "http://proxy"), Web, Grpc>>,
     <<ViaProxy(Grpc, "proxy:3128"), Grpc>>,
     <<ViaProxy(Web, "http://proxy"), [Web EXCEPT !.repeat = -1]>>}

\* Two addresses with two attempts each, and a service that comes back.
LoopPlans ==
    {<<[Web EXCEPT !.dnsIPs = <<2, 1>>, !.repeat = 2]>>,
     <<Web, [Ssh EXCEPT !.repeat = 2], [Web EXCEPT !.address = 1]>>}

OneChain == {<<"leaf", "R3">>}

MCPlans == DirectPlans \cup ProxyPlans

OneWeb == {<<Web>>}
TwoWeb == {<<[Web EXCEPT !.dnsIPs = <<1, 2>>]>>}
OneProxied == {<<ViaProxy(Web, "http://proxy")>>}
=============================================================================
