------------------------- MODULE MCNetworkDiscovery -------------------------
(***************************************************************************)
(* Small instances of NetworkDiscovery: a LAN interface and a VPN's.       *)
(***************************************************************************)
EXTENDS NetworkDiscovery, TLC

MCNet == {"any", "ten", "lan", "peer"}
MCGateway == {"router", "vpngw"}
MCLink == {"eth0", "utun0"}
MCAddressOf == "eth0" :> "192.168.1.10" @@ "utun0" :> "10.8.0.6"
MCContained == "eth0" :> {} @@ "utun0" :> {"utun", "tun"}
MCServer == {"wifi:8080", "eth:8080", "socks:1080"}
MCService == {"Wi-Fi", "Ethernet", "Registry"}
MCPACURL == {"http://wpad/wifi", "http://wpad/eth"}
MCPACLength == "http://wpad/wifi" :> 1 @@ "http://wpad/eth" :> 3

Over(net, len, hops) ==
    [type |-> "unicast", net |-> net, len |-> len, hops |-> hops, noted |-> TRUE]
Curtly(route) == [route EXCEPT !.noted = FALSE]
Through(gw, dev) == [gateway |-> gw, dev |-> dev]
To(net, len, gw, dev) == Over(net, len, <<Through(gw, dev)>>)
Reject(type, net, len) == [Over(net, len, <<>>) EXCEPT !.type = type]

\* A VPN that has claimed everything with two halves of the address space, as
\* the kernel lists it: longer prefixes first.
Claimed ==
    <<To("any", 1, "vpngw", "utun0"), To("any", 0, "router", "eth0"),
      To("ten", 8, NoGateway, "utun0"), To("ten", 9, "vpngw", "utun0"),
      To("lan", 17, NoGateway, "eth0"), To("lan", 24, NoGateway, "eth0"),
      To("peer", 32, "router", "eth0")>>

\* Two default routes, and one that needs no gateway.
TwoWays ==
    <<To("any", 0, NoGateway, "utun0"), To("any", 0, "router", "eth0"),
      To("any", 0, "vpngw", "eth0"), To("lan", 24, NoGateway, "eth0")>>

\* A default over two hops, and networks that are sent nothing.
Balanced ==
    <<Over("any", 0, <<Through("router", "eth0"), Through("vpngw", "utun0")>>),
      Reject("unreachable", "any", 0), To("any", 0, "vpngw", "utun0"),
      Reject("blackhole", "ten", 8), Reject("blackhole", "lan", 24),
      Curtly(Over("peer", 32, <<Through("vpngw", "utun0"), Through("router", "eth0")>>))>>

\* Defaults that are passed over: one without a line of its own, and a reject route.
PassedOver ==
    <<Curtly(Over("any", 0, <<Through("router", "eth0"), Through("router", "eth0")>>)),
      Reject("unreachable", "any", 0), To("any", 0, "vpngw", "utun0")>>

WiFi == [NoSettings EXCEPT !.http = "wifi:8080", !.https = "wifi:8080",
                           !.socks = "socks:1080", !.socksEnabled = TRUE,
                           !.pac = "http://wpad/wifi", !.pacEnabled = TRUE, !.bypass = TRUE]
Ethernet == [NoSettings EXCEPT !.enabled = TRUE, !.http = "eth:8080",
                               !.socks = "socks:1080", !.pac = "http://wpad/eth"]
Registry == [NoSettings EXCEPT !.enabled = TRUE, !.http = "wifi:8080", !.ftp = "eth:8080",
                               !.pac = "http://wpad/eth", !.pacEnabled = TRUE]

None == [s \in MCService |-> Nothing]

Linux ==
    [os |-> "linux", table |-> Claimed, release |-> "nameless", settings |-> None,
     processes |-> {"wireguard", "wg-quick", "tunnelblick"}, configured |-> {"office"}]
Darwin ==
    [Linux EXCEPT !.os = "darwin", !.release = "absent",
                  !.settings = [None EXCEPT !["Wi-Fi"] = WiFi, !["Ethernet"] = Ethernet]]

MCMachines ==
    {Linux, [Linux EXCEPT !.table = TwoWays, !.release = "named", !.configured = {}],
     [Linux EXCEPT !.table = Balanced, !.configured = {}],
     [Linux EXCEPT !.table = PassedOver, !.configured = {}],
     Darwin,
     [Darwin EXCEPT !.table = TwoWays, !.settings["Wi-Fi"] = Nothing],
     [Darwin EXCEPT !.settings["Wi-Fi"].pacEnabled = FALSE],
     [Linux EXCEPT !.os = "windows", !.settings["Registry"] = Registry],
     [Linux EXCEPT !.os = "windows", !.table = TwoWays,
                   !.settings["Registry"] = [Registry EXCEPT !.pac = NoURL, !.pacEnabled = FALSE]],
     [Linux EXCEPT !.os = "freebsd"]}
=============================================================================
