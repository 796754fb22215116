---------------------------- MODULE MCExecution ----------------------------
(***************************************************************************)
(* Small instances of Execution: one or two services, at most four         *)
(* attempts; a server may present the host CA's own certificate.           *)
(***************************************************************************)
EXTENDS Execution, TLC

MCAddress == 1..3
MCService == ServiceKeys
MCProto == {"h2", "http/1.1", "teleport-reversetunnel", "teleport-proxy-ssh",
            "teleport-proxy-ssh-grpc", "teleport-auth"}
MCServerName == {"public", "cluster", "kube"}
MCUpgrade == {"websocket", "alpn", "alpn-ping"}
MCProxyURL == {"http://proxy"}
MCDNSAnswers == {<<>>, <<1, 2>>}
MCServerCert == {"leaf", "hostca"}
MCCert == MCServerCert \cup {"hostca2", "client", "userca"}

\* Files that lead with the certificate, with a key, with another's certificate;
\* bundles with and without a certificate.
Certificate(c) == [certificate |-> TRUE, holds |-> c]
Key == [certificate |-> FALSE, holds |-> Malformed]
MCClientPairs ==
    {[pem |-> <<Certificate("client"), Certificate("userca")>>, keyOf |-> "client"],
     [pem |-> <<Key, Certificate("client"), Certificate(Malformed)>>, keyOf |-> "client"],
     [pem |-> <<Certificate("userca"), Certificate("client")>>, keyOf |-> "client"],
     [pem |-> <<Certificate(Malformed), Certificate("hostca")>>, keyOf |-> "hostca"]}
MCBundles ==
    {<<Certificate("hostca"), Certificate(Malformed), Certificate("hostca2")>>,
     <<Key, Certificate(Malformed)>>}
MCVerdicts == {Success, "handshake_failed", "timeout"}

Plain ==
    [publicAddr |-> 3, clusterNamed |-> TRUE, version |-> [major |-> 18, minor |-> 0],
     webProxyPort |-> 443, tlsRouting |-> TRUE, repeat |-> 1,
     filter |-> {"proxy_ssh_grpc"}, ipAddresses |-> <<>>, clientCert |-> FALSE,
     httpsProxy |-> NoURL, httpProxy |-> NoURL,
     extraHeaders |-> FALSE]

MCOptionSets ==
    {[Plain EXCEPT !.clientCert = TRUE],
     [Plain EXCEPT !.clientCert = TRUE, !.extraHeaders = TRUE, !.ipAddresses = <<1>>],
     [Plain EXCEPT !.filter = {"proxy_web"}, !.httpsProxy = "http://proxy",
                   !.extraHeaders = TRUE, !.ipAddresses = <<2>>],
     [Plain EXCEPT !.filter = {"proxy_web"}, !.repeat = 2],
     [Plain EXCEPT !.filter = {"nosuch"}]}

OneWithHeaders == {[Plain EXCEPT !.extraHeaders = TRUE, !.ipAddresses = <<1>>]}
=============================================================================
