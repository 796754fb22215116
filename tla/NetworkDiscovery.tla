-------------------------- MODULE NetworkDiscovery --------------------------
(***************************************************************************)
(* DiscoverNetwork: one collector after the other asks the system for its  *)
(* interfaces and routes, its version, its proxy settings and the PAC file *)
(* they name, its VPN interfaces and applications.  Whatever fails, the    *)
(* rest is reported.  internal/discovery/network.go.                       *)
(*                                                                         *)
(* The environment decides how each command ends, and whether it does;     *)
(* interfaces come and go meanwhile, and their routes with them.           *)
(***************************************************************************)
EXTENDS RouteTable

CONSTANTS
    Machines,   \* the machines there may be
    Contained,  \* which of the VPN patterns an interface's name contains
    NoType,
    Server,     \* addresses of proxies in the system's settings
    NoServer,
    Service,    \* network services with settings, the Registry being one
    PACURL,     \* URLs of PAC files
    NoURL,
    PACLength,  \* the length of each PAC file, and of the buffer it is read
    PACBuffer,  \* into
    Nothing,    \* a part of the report that is left out
    MaxChanges  \* how often interfaces come and go

OS == {"linux", "darwin", "windows", "freebsd"}

Release == {"named", "nameless", "absent"}
Process ==
    {"openvpn", "wireguard", "wg-quick", "strongswan", "tailscaled", "zerotier-one",
     "cisco anyconnect", "globalprotect", "tunnelblick", "viscosity"}

\* The settings of one network service of macOS, or of the Windows registry.
Settings ==
    [enabled: BOOLEAN, http: Server \cup {NoServer}, https: Server \cup {NoServer},
     ftp: Server \cup {NoServer}, socks: Server \cup {NoServer}, socksEnabled: BOOLEAN,
     pacEnabled: BOOLEAN, pac: PACURL \cup {NoURL}, bypass: BOOLEAN]

\* release: what /etc/os-release holds; configured: VPNs known to the system's
\* network manager, or VPN adapters.
Machine ==
    [os: OS, table: Seq(KernelRoute), release: Release,
     settings: [Service -> Settings \cup {Nothing}],
     processes: SUBSET Process, configured: SUBSET STRING]

PACFile == [url: PACURL, read: Nat, error: BOOLEAN, retrieved: BOOLEAN]

\* The registry has no switch for the PAC file: its URL is there or it is not.  Reject
\* and multipath routes are Linux's: elsewhere every route has one hop.
ASSUME DiscoveryAssumption ==
    /\ Machines \subseteq Machine
    /\ \A m \in Machines : m.os # "linux" =>
          \A k \in DOMAIN m.table : m.table[k].type = "unicast" /\ ~Multipath(m.table[k])
    /\ \A m \in Machines : m.os = "windows" /\ m.settings["Registry"] # Nothing =>
          (m.settings["Registry"].pacEnabled <=> m.settings["Registry"].pac # NoURL)
    /\ Contained \in [Link -> SUBSET STRING]
    /\ NoServer \notin Server /\ NoURL \notin PACURL
    /\ {"Wi-Fi", "Ethernet", "Registry"} \subseteq Service
    /\ PACLength \in [PACURL -> Nat] /\ PACBuffer \in Nat /\ MaxChanges \in Nat
    /\ Nothing \notin Settings \cup PACFile

VARIABLES
    machine,
    links,      \* the interfaces there are now
    changes,    \* auxiliary: how often they have changed
    pc,         \* the collector that is running
    n,          \* which of its commands is next
    failed,     \* auxiliary: the commands that failed
    interfaces, \* info.Routes.Interfaces
    routes,     \* the rest of info.Routes
    shown,      \* auxiliary: the source of the routes, and the kernel's table
                \* at the time
    version,    \* info.System.OSVersion
    system,     \* info.ProxyConfig.SystemProxy
    pac,        \* info.ProxyConfig.PACFile
    vpn         \* info.VPN

vars == <<machine, links, changes, pc, n, failed, interfaces, routes, shown,
          version, system, pac, vpn>>

os == machine.os

-----------------------------------------------------------------------------
\* What is asked of each system, in order.

RouteSources ==
    CASE os = "linux" -> <<"ip-route", "route-n", "/proc/net/route">>
      [] os = "darwin" -> <<"netstat">>
      [] os = "windows" -> <<"route-print">>
      [] OTHER -> <<>>

\* The first query, or on macOS the first two, decide whether there are
\* settings to be read.
ProxyQueries ==
    CASE os = "darwin" ->
            <<[of |-> "web", service |-> "Wi-Fi"], [of |-> "web", service |-> "Ethernet"],
              [of |-> "secure", service |-> "Wi-Fi"], [of |-> "socks", service |-> "Wi-Fi"],
              [of |-> "auto", service |-> "Wi-Fi"], [of |-> "bypass", service |-> "Wi-Fi"]>>
      [] os = "windows" ->
            <<[of |-> "enable", service |-> "Registry"],
              [of |-> "server", service |-> "Registry"],
              [of |-> "override", service |-> "Registry"],
              [of |-> "autoconfig", service |-> "Registry"]>>
      [] OTHER -> <<>>

Deciding == IF os = "darwin" THEN 1..2 ELSE 1..1

VPNListings ==
    CASE os = "darwin" -> <<"ps", "scutil">>
      [] os = "linux" -> <<"ps", "nmcli">>
      [] os = "windows" -> <<"netsh">>
      [] OTHER -> <<>>

\* vpnProcesses of each system.
Known ==
    CASE os = "darwin" ->
            {"openvpn", "wireguard", "cisco anyconnect", "globalprotect", "tunnelblick",
             "viscosity", "tailscaled", "zerotier-one"}
      [] os = "linux" ->
            {"openvpn", "wireguard", "wg-quick", "strongswan", "tailscaled", "zerotier-one"}
      [] OTHER -> {}

\* The rows an answered listing adds.  Go's maps have no order: a set.
Listed(listing) ==
    IF listing = "ps" THEN {[by |-> "ps", name |-> p] : p \in machine.processes \cap Known}
    ELSE {[by |-> listing, name |-> c] : c \in machine.configured}

VPNPatterns ==
    <<"tun", "tap", "ppp", "utun", "ipsec", "wg", "vpn", "wireguard", "openvpn",
      "tailscale", "zerotier">>

\* The first pattern that the name contains.
VPNType(l) ==
    LET matching == {k \in DOMAIN VPNPatterns : VPNPatterns[k] \in Contained[l]}
    IN  IF matching = {} THEN NoType ELSE VPNPatterns[First(matching)]

Devices(r) == {r.hops[i].dev : i \in DOMAIN r.hops}

\* The routes of the interfaces there are, at their places.  A multipath route goes
\* with the first of its interfaces that goes.
KernelTable ==
    [k \in {j \in DOMAIN machine.table : Devices(machine.table[j]) \subseteq links} |->
        machine.table[k]]

NoSettings ==
    [enabled |-> FALSE, http |-> NoServer, https |-> NoServer, ftp |-> NoServer,
     socks |-> NoServer, socksEnabled |-> FALSE, pacEnabled |-> FALSE, pac |-> NoURL,
     bypass |-> FALSE]

-----------------------------------------------------------------------------
NoRoutes == [available |-> FALSE, error |-> FALSE, gateway |-> NoGateway, list |-> <<>>]
NoVPN == [detected |-> FALSE, tunnels |-> {}, apps |-> {}, routes |-> <<>>]

TypeOK ==
    /\ machine \in Machines
    /\ links \subseteq Link /\ changes \in 0..MaxChanges
    /\ pc \in {"interfaces", "routes", "release", "version", "proxy", "pac", "pac_body",
               "tunnels", "apps", "filter", "done"}
    /\ n \in 1..6
    /\ failed \subseteq {"routes", "version", "proxy", "apps"} \X (1..6)
    /\ interfaces \subseteq Link
    /\ routes \in [available: BOOLEAN, error: BOOLEAN,
                   gateway: Gateway \cup {NoGateway, OnLink}, list: {routes.list}]
    /\ Listing(routes.list)
    /\ shown.source \in {Nothing} \cup {RouteSources[k] : k \in DOMAIN RouteSources}
    /\ Table(shown.table)
    /\ version \in {"unknown", "release", "kernel", "product"}
    /\ system \in Settings \cup {Nothing}
    /\ \/ pac = Nothing
       \/ pac \in PACFile /\ pac.read <= PACLength[pac.url]
    /\ vpn \in [detected: BOOLEAN,
                tunnels: SUBSET [name: Link,
                                 type: {VPNPatterns[k] : k \in DOMAIN VPNPatterns}],
                apps: SUBSET UNION {Listed(VPNListings[k]) : k \in DOMAIN VPNListings},
                routes: {vpn.routes}]
    /\ Listing(vpn.routes)

Init ==
    /\ machine \in Machines
    /\ links \in SUBSET Link
    /\ changes = 0
    /\ pc = "interfaces" /\ n = 1
    /\ failed = {}
    /\ interfaces = {}
    /\ routes = NoRoutes
    /\ shown = [source |-> Nothing, table |-> <<>>]
    /\ version = "unknown"
    /\ system = Nothing
    /\ pac = Nothing
    /\ vpn = NoVPN

\* The environment: an interface comes or goes.  After "tunnels" nothing reads them.
LinkChanges ==
    /\ pc \notin {"apps", "filter", "done"} /\ changes < MaxChanges
    /\ \E l \in Link : links' = (links \ {l}) \cup ({l} \ links)
    /\ changes' = changes + 1
    /\ UNCHANGED <<machine, pc, n, failed, interfaces, routes, shown, version, system, pac, vpn>>

\* The next command of the collector, or the next collector.
GoOn(list, next, collector) ==
    IF next \in DOMAIN list THEN n' = next /\ UNCHANGED pc ELSE n' = 1 /\ pc' = collector

Fails == failed' = failed \cup {<<pc, n>>}

-----------------------------------------------------------------------------
\* discoverRoutes.

\* net.Interfaces may fail, and then there are none.
DiscoverInterfaces ==
    /\ pc = "interfaces"
    /\ interfaces' \in {links, {}}
    /\ pc' = "routes"
    /\ UNCHANGED <<machine, links, changes, n, failed, routes, shown, version, system, pac, vpn>>

RoutesNotImplemented ==
    /\ pc = "routes" /\ RouteSources = <<>>
    /\ routes' = [NoRoutes EXCEPT !.error = TRUE]
    /\ pc' = "release"
    /\ UNCHANGED <<machine, links, changes, n, failed, interfaces, shown, version, system,
                   pac, vpn>>

RouteSourceAnswers ==
    /\ pc = "routes" /\ n \in DOMAIN RouteSources
    /\ LET list == Parsed(RouteSources[n], KernelTable) IN
       routes' = [available |-> TRUE, error |-> FALSE, list |-> list,
                  gateway |-> DefaultGateway(os, list)]
    /\ shown' = [source |-> RouteSources[n], table |-> KernelTable]
    /\ pc' = "release" /\ n' = 1
    /\ UNCHANGED <<machine, links, changes, failed, interfaces, version, system, pac, vpn>>

RouteSourceFails ==
    /\ pc = "routes" /\ n \in DOMAIN RouteSources
    /\ Fails
    /\ GoOn(RouteSources, n + 1, "release")
    /\ routes' = IF n = Len(RouteSources) THEN [NoRoutes EXCEPT !.error = TRUE] ELSE routes
    /\ UNCHANGED <<machine, links, changes, interfaces, shown, version, system, pac, vpn>>

-----------------------------------------------------------------------------
\* discoverSystemInfo: on Linux /etc/os-release if it has a name, else the kernel.

ReadRelease ==
    /\ pc = "release"
    /\ IF os = "linux" /\ machine.release = "named"
       THEN version' = "release" /\ pc' = "proxy"
       ELSE UNCHANGED version /\ pc' = IF os = "freebsd" THEN "proxy" ELSE "version"
    /\ UNCHANGED <<machine, links, changes, n, failed, interfaces, routes, shown, system,
                   pac, vpn>>

VersionAnswers ==
    /\ pc = "version"
    /\ version' = IF os = "linux" THEN "kernel" ELSE "product"
    /\ pc' = "proxy"
    /\ UNCHANGED <<machine, links, changes, n, failed, interfaces, routes, shown, system,
                   pac, vpn>>

VersionFails ==
    /\ pc = "version"
    /\ Fails
    /\ pc' = "proxy"
    /\ UNCHANGED <<machine, links, changes, n, interfaces, routes, shown, version, system,
                   pac, vpn>>

-----------------------------------------------------------------------------
\* detectSystemProxy and fetchPACFile.  (What comes from environment variables is
\* in ProxyChoice.)

\* What the answer to a query adds to the settings reported.
Answered(query, s, so_far) ==
    CASE query = "web" -> [so_far EXCEPT !.enabled = s.enabled, !.http = s.http]
      [] query = "secure" -> [so_far EXCEPT !.https = s.https]
      [] query = "socks" ->
            [so_far EXCEPT !.socks = IF s.socksEnabled THEN s.socks ELSE NoServer]
      [] query = "auto" -> [so_far EXCEPT !.pacEnabled = s.pacEnabled, !.pac = s.pac]
      [] query = "enable" -> [so_far EXCEPT !.enabled = s.enabled]
      [] query = "server" ->
            [so_far EXCEPT !.http = s.http, !.https = s.https, !.ftp = s.ftp, !.socks = s.socks]
      [] query = "autoconfig" ->
            [so_far EXCEPT !.pacEnabled = s.pac # NoURL, !.pac = s.pac]
      [] query \in {"bypass", "override"} -> [so_far EXCEPT !.bypass = s.bypass]

NoSystemProxy ==
    /\ pc = "proxy" /\ ProxyQueries = <<>>
    /\ pc' = "pac"
    /\ UNCHANGED <<machine, links, changes, n, failed, interfaces, routes, shown, version,
                   system, pac, vpn>>

\* A service that does not exist has no settings to answer with.
QueryAnswers ==
    /\ pc = "proxy" /\ n \in DOMAIN ProxyQueries
    /\ LET q == ProxyQueries[n]
           s == machine.settings[q.service]
       IN  /\ s # Nothing
           /\ system' = Answered(q.of, s, IF system = Nothing THEN NoSettings ELSE system)
    /\ GoOn(ProxyQueries, IF n \in Deciding THEN Cardinality(Deciding) + 1 ELSE n + 1, "pac")
    /\ UNCHANGED <<machine, links, changes, failed, interfaces, routes, shown, version, pac, vpn>>

\* Faulty: a query that fails ends the collection.
QueryFailsFault ==
    /\ pc = "proxy" /\ n \in DOMAIN ProxyQueries
    /\ Fails
    /\ IF n \in Deciding /\ n + 1 \in Deciding THEN n' = n + 1 /\ UNCHANGED pc
       ELSE n' = 1 /\ pc' = "pac"
    /\ UNCHANGED <<machine, links, changes, interfaces, routes, shown, version, system, pac, vpn>>

\* The last of the deciding queries ends the collection; any other failure
\* costs what it asked for.
QueryFails ==
    /\ pc = "proxy" /\ n \in DOMAIN ProxyQueries
    /\ Fails
    /\ IF n \in Deciding /\ n + 1 \notin Deciding THEN n' = 1 /\ pc' = "pac"
       ELSE GoOn(ProxyQueries, n + 1, "pac")
    /\ UNCHANGED <<machine, links, changes, interfaces, routes, shown, version, system, pac, vpn>>

\* Faulty: a URL that is set is fetched, in use or not.
PACWantedFault == system # Nothing /\ system.pac # NoURL

PACWanted == system # Nothing /\ system.pacEnabled /\ system.pac # NoURL

SkipPAC ==
    /\ pc = "pac" /\ ~PACWanted
    /\ pc' = "tunnels"
    /\ UNCHANGED <<machine, links, changes, n, failed, interfaces, routes, shown, version,
                   system, pac, vpn>>

\* The request fails, or its status is not 200.
PACFails ==
    /\ pc = "pac" /\ PACWanted
    /\ pac' = [url |-> system.pac, read |-> 0, error |-> TRUE, retrieved |-> FALSE]
    /\ pc' = "tunnels"
    /\ UNCHANGED <<machine, links, changes, n, failed, interfaces, routes, shown, version,
                   system, vpn>>

PACAnswers ==
    /\ pc = "pac" /\ PACWanted
    /\ pc' = "pac_body"
    /\ UNCHANGED <<machine, links, changes, n, failed, interfaces, routes, shown, version,
                   system, pac, vpn>>

\* The body is read once, and no error of the read is looked at.
PACBodyRead(k) ==
    /\ pc = "pac_body"
    /\ pac' = [url |-> system.pac, read |-> k, error |-> FALSE, retrieved |-> TRUE]
    /\ pc' = "tunnels"
    /\ UNCHANGED <<machine, links, changes, n, failed, interfaces, routes, shown, version,
                   system, vpn>>

\* Faulty: the whole buffer is taken for the body.
PACBodyArrivesFault == PACBodyRead(PACBuffer)

PACBodyArrives ==
    /\ pc = "pac_body"
    /\ \E k \in 0..PACLength[system.pac] : k <= PACBuffer /\ PACBodyRead(k)

\* Faulty: the time limit is that of the request alone.
PACTimesOutFault == PACFails

\* The client's limit of 5 s is for request and body together.
PACTimesOut == PACFails \/ PACBodyRead(0)

-----------------------------------------------------------------------------
\* discoverVPN.

\* The interfaces are read anew, which may fail.
DetectVPNInterfaces ==
    /\ pc = "tunnels"
    /\ \E now \in {links, {}} :
          LET found == {l \in now : VPNType(l) # NoType} IN
          vpn' = [vpn EXCEPT !.detected = found # {},
                             !.tunnels = {[name |-> l, type |-> VPNType(l)] : l \in found}]
    /\ pc' = "apps"
    /\ UNCHANGED <<machine, links, changes, n, failed, interfaces, routes, shown, version,
                   system, pac>>

NoVPNListings ==
    /\ pc = "apps" /\ VPNListings = <<>>
    /\ pc' = "filter"
    /\ UNCHANGED <<machine, links, changes, n, failed, interfaces, routes, shown, version,
                   system, pac, vpn>>

ListingAnswers ==
    /\ pc = "apps" /\ n \in DOMAIN VPNListings
    /\ vpn' = [vpn EXCEPT !.apps = @ \cup Listed(VPNListings[n]),
                          !.detected = @ \/ Listed(VPNListings[n]) # {}]
    /\ GoOn(VPNListings, n + 1, "filter")
    /\ UNCHANGED <<machine, links, changes, failed, interfaces, routes, shown, version,
                   system, pac>>

ListingFails ==
    /\ pc = "apps" /\ n \in DOMAIN VPNListings
    /\ Fails
    /\ GoOn(VPNListings, n + 1, "filter")
    /\ UNCHANGED <<machine, links, changes, interfaces, routes, shown, version, system, pac, vpn>>

TunnelNames == {t.name : t \in vpn.tunnels}

\* filterVPNRoutes looks for the names of VPN interfaces in the routes captured
\* at the beginning.
FilterVPNRoutes ==
    /\ pc = "filter"
    /\ vpn' = [vpn EXCEPT !.routes =
                  [p \in {q \in DOMAIN routes.list : routes.list[q].interface \in TunnelNames} |->
                      routes.list[p]]]
    /\ pc' = "done"
    /\ UNCHANGED <<machine, links, changes, n, failed, interfaces, routes, shown, version,
                   system, pac>>

Done == pc = "done" /\ UNCHANGED vars

Command ==
    \/ RouteSourceAnswers \/ RouteSourceFails
    \/ VersionAnswers \/ VersionFails
    \/ QueryAnswers \/ QueryFails
    \/ ListingAnswers \/ ListingFails

Local ==
    \/ DiscoverInterfaces \/ RoutesNotImplemented \/ ReadRelease \/ NoSystemProxy \/ SkipPAC
    \/ DetectVPNInterfaces \/ NoVPNListings \/ FilterVPNRoutes

PAC == PACFails \/ PACAnswers \/ PACBodyArrives \/ PACTimesOut

Next == LinkChanges \/ Command \/ Local \/ PAC \/ Done

Spec == Init /\ [][Next]_vars

AtFile == pc = "routes" /\ n \in DOMAIN RouteSources /\ RouteSources[n] = "/proc/net/route"

AtCommand == pc \in {"routes", "version", "proxy", "apps"} /\ ~AtFile

\* The program takes its own steps; the PAC client's limit passes.  Commands run
\* under context.Background() or no context: nothing makes them end.  Reading
\* /proc/net/route is no command.
FairSpec ==
    /\ Spec
    /\ WF_vars(Local)
    /\ WF_vars(PACTimesOut)
    /\ WF_vars(AtFile /\ Command)

-----------------------------------------------------------------------------
\* The table that was captured and the table that is reported.

\* route -n is not understood; the other sources name destinations and, but for
\* route print, the interface.
Understood == shown.source \notin {Nothing, "route-n"}

\* The routes that are reported with a line of their own: ip route's multipath routes
\* may not be, and then only their hops are (network.go:753-755).
Headed ==
    {k \in DOMAIN shown.table : ~(shown.source = "ip-route" /\ Curt(shown.table[k]))}

\* ip route's lines do not name the network of a reject route.
Unnamed(r) == shown.source = "ip-route" /\ r.type # "unicast"

\* Two routes that are reported with their line are reported as going to one
\* destination exactly if in the kernel's table they do, whatever the length of their
\* masks and the notation they are converted to, except that ip route's reject routes
\* are told apart by their type alone (network.go:759-763), and that
\* /proc/net/route's 0.0.0.0 is always the default (network.go:824-836).
NetworksStayDistinct ==
    Understood =>
        \A j, k \in Headed :
            LET a == shown.table[j]
                b == shown.table[k]
                x == routes.list[<<j, 0>>]
                y == routes.list[<<k, 0>>]
            IN  <<x.net, x.len, x.netmask>> = <<y.net, y.len, y.netmask>> <=>
                    IF Unnamed(a) \/ Unnamed(b) THEN a.type = b.type
                    ELSE /\ a.net = b.net
                         /\ \/ a.len = b.len
                            \/ a.net = AnyNet /\ shown.source = "/proc/net/route"

\* What passes for a default route besides those that are: half of the address space
\* that a VPN has claimed, where no length is shown or looked at, and a host route
\* to 0.0.0.0 itself, where none is printed.
PassesForDefault(r) ==
    /\ r.net = AnyNet
    /\ \/ r.len = 0
       \/ shown.source \in {"/proc/net/route", "route-print"}
       \/ shown.source = "ip-route" /\ r.len = 32

Defaults ==
    {k \in Headed :
        PassesForDefault(shown.table[k]) /\ ~Unnamed(shown.table[k])}

\* The default gateway reported is that of the first route with a line that is or
\* passes for a default, and of no later one: of its only hop, or of the first one
\* where the kernel shows no other; none where it needs none, where it is a reject
\* route of /proc/net/route, and where ip route gives each hop its line, so that a
\* default over several hops leaves the report without a gateway
\* (network.go:727-732, 759-786, 923-928).
DefaultGatewayIsTheTables ==
    Understood =>
        IF Defaults = {} THEN routes.gateway = NoGateway
        ELSE LET r == shown.table[First(Defaults)] IN
             IF \/ r.hops = <<>> \/ r.hops[1].gateway = NoGateway
                \/ Multipath(r) /\ shown.source = "ip-route"
             THEN routes.gateway \in {NoGateway, OnLink}
             ELSE routes.gateway = r.hops[1].gateway

\* The lines that say by which interface a route goes: those of its hops, or its
\* own, which has the first hop.
HopLines(k) ==
    LET hops == shown.table[k].hops IN
    IF hops = <<>> THEN {}
    ELSE IF Len(hops) > 1 /\ shown.source = "ip-route" THEN {<<k, i>> : i \in DOMAIN hops}
    ELSE {<<k, 0>>}

HopShown(p) ==
    LET hops == shown.table[p[1]].hops IN IF p[2] = 0 THEN hops[1] ELSE hops[p[2]]

\* Where routes are shown with their interface, every captured route through an
\* interface that is now reported as a VPN is among the VPN's routes, hop by hop
\* where there are several and the source shows them, and no other is, although the
\* interfaces are read long after the routes and may have come or gone
\* (network.go:1088-1091).
TunnelRoutesAreFound ==
    pc = "done" /\ Understood /\ shown.source # "route-print" =>
        vpn.routes =
            [p \in {q \in UNION {HopLines(k) : k \in DOMAIN shown.table} :
                       HopShown(q).dev \in TunnelNames} |->
                routes.list[p]]

\* What the answer to the k-th query would add is in the settings reported.
IsReported(k) ==
    system = Answered(ProxyQueries[k].of, machine.settings[ProxyQueries[k].service], system)

\* Every part the report lacks has its failure, and costs no other part: the routes
\* are lost when all their sources have failed, a listing when it failed, a setting
\* when its query failed.  The exception are the queries that decide whether there
\* are settings: when they fail, all the settings are lost, and the PAC file with
\* them, for nothing else is asked; when one of them is answered, it is reported
\* (network.go:319-326, 464-467).
NothingElseIsLost ==
    pc = "done" =>
        /\ routes.available # routes.error
        /\ ~routes.available => \A k \in DOMAIN RouteSources : <<"routes", k>> \in failed
        /\ version = "unknown" => os = "freebsd" \/ <<"version", 1>> \in failed
        /\ IF \A k \in DOMAIN ProxyQueries \cap Deciding : <<"proxy", k>> \in failed
           THEN system = Nothing /\ pac = Nothing
           ELSE /\ system # Nothing
                /\ \E k \in DOMAIN ProxyQueries \cap Deciding :
                      <<"proxy", k>> \notin failed /\ IsReported(k)
                /\ \A k \in DOMAIN ProxyQueries \ Deciding :
                      <<"proxy", k>> \in failed \/ IsReported(k)
                /\ PACWanted <=> pac # Nothing
        /\ \A k \in DOMAIN VPNListings :
              <<"apps", k>> \in failed \/ Listed(VPNListings[k]) \subseteq vpn.apps

\* A PAC file is asked for only where the system uses it, and what is reported of
\* it is either an error or the beginning of the file (network.go:264-266).
PACIsInUse ==
    pac # Nothing =>
        /\ pac.retrieved # pac.error
        /\ \E s \in Service :
              /\ machine.settings[s] # Nothing /\ machine.settings[s].pac = pac.url
              /\ machine.settings[s].pacEnabled

\* The masks the kernel prints keep their length, and no other sequence of
\* octets is taken for a mask of that length (network.go:856-909).
MaskLengths ==
    pc = "interfaces" /\ os = "linux" => \A mask \in [1..4 -> {0, 1, 128, 252, 255}] :
        LET lengths == {len \in 0..32 : Octets(len) = mask} IN
        /\ HexToIP(ProcHex(mask)) = mask
        /\ IF lengths = {} THEN MaskToCIDR(mask) = 0 ELSE MaskToCIDR(mask) \in lengths

-----------------------------------------------------------------------------
\* Liveness.

\* Discovery ends, or a system command never does: a PAC server that is silent,
\* before or after its headers, does not hold it up (network.go:607-609).
OnlyCommandsWait == <>(pc = "done") \/ <>[]AtCommand

-----------------------------------------------------------------------------
\* What the repository says of the report and the code does not keep.

\* "Extracts routing table entries associated with detected VPN interfaces to show
\* which networks are routed through VPN tunnels" (README.md:166-167).
TunnelRoutesAreReported ==
    pc = "done" =>
        \A k \in DOMAIN shown.table :
            Devices(shown.table[k]) \cap TunnelNames # {} =>
                \E p \in DOMAIN vpn.routes : vpn.routes[p].net = shown.table[k].net
=============================================================================
