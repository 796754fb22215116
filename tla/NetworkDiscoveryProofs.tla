----------------------- MODULE NetworkDiscoveryProofs -----------------------
(***************************************************************************)
(* What holds of the network report on every machine, whatever its         *)
(* commands answer and however its interfaces come and go: the report is   *)
(* well typed, says of routes, masks and gateways what the kernel's table  *)
(* says, and lacks only what was asked for in vain.                        *)
(***************************************************************************)
EXTENDS NetworkDiscovery, RouteTableProofs

-----------------------------------------------------------------------------
\* Where discovery is.

\* A collector starts at its first command and goes on within its commands; the
\* body of a PAC file is read only of a file that is in use.
PlaceInv ==
    /\ pc = "routes" => n \in {1} \cup DOMAIN RouteSources
    /\ pc = "proxy" => n \in {1} \cup DOMAIN ProxyQueries
    /\ pc = "apps" => n \in {1} \cup DOMAIN VPNListings
    /\ pc \notin {"routes", "proxy", "apps"} => n = 1
    /\ pc = "pac_body" => PACWanted

ToRoutes == {"interfaces", "routes"}
ToVersion == ToRoutes \cup {"release", "version"}
ToProxy == ToVersion \cup {"proxy"}
ToPAC == ToProxy \cup {"pac", "pac_body"}

\* What is reported of the routes is what was parsed, or every source failed.
RoutesInv ==
    /\ pc = "routes" => \A k \in DOMAIN RouteSources : k < n => <<"routes", k>> \in failed
    /\ pc \notin ToRoutes => routes.available # routes.error
    /\ pc \notin ToRoutes /\ ~routes.available =>
          \A k \in DOMAIN RouteSources : <<"routes", k>> \in failed
    /\ pc \in ToRoutes => shown.source = Nothing
    /\ shown.source # Nothing =>
          /\ routes.list = Parsed(shown.source, shown.table)
          /\ routes.gateway = DefaultGateway(os, routes.list)

VersionInv ==
    pc \notin ToVersion /\ version = "unknown" =>
        os = "freebsd" \/ <<"version", 1>> \in failed

\* The answer to query k is in the settings reported, or it failed.
Said(k) ==
    LET s == machine.settings[ProxyQueries[k].service] IN
    \/ <<"proxy", k>> \in failed
    \/ s # Nothing /\ system = Answered(ProxyQueries[k].of, s, system)

\* No proxy query has failed that has not been asked.
FailuresInv ==
    /\ pc \in ToVersion => \A k : <<"proxy", k>> \notin failed
    /\ pc = "proxy" => \A k \in DOMAIN ProxyQueries : k >= n => <<"proxy", k>> \notin failed

\* One of the deciding queries has been answered.
Decided ==
    \E k \in DOMAIN ProxyQueries \cap Deciding :
        <<"proxy", k>> \notin failed /\ Said(k)

\* Settings are reported exactly if one of the deciding queries was answered.
SettingsInv ==
    /\ pc \in ToVersion => system = Nothing
    /\ pc = "proxy" =>
          IF system = Nothing
          THEN /\ n \in Deciding
               /\ \A k \in DOMAIN ProxyQueries \cap Deciding :
                     k < n => <<"proxy", k>> \in failed
          ELSE /\ n \notin Deciding /\ Decided
               /\ \A k \in DOMAIN ProxyQueries \ Deciding : k < n => Said(k)
    /\ pc \notin ToProxy =>
          IF system = Nothing
          THEN \A k \in DOMAIN ProxyQueries \cap Deciding : <<"proxy", k>> \in failed
          ELSE Decided /\ \A k \in DOMAIN ProxyQueries \ Deciding : Said(k)

\* Some service of the machine has the PAC file u in use.
UsesPAC(u) ==
    \E s \in Service :
        machine.settings[s] # Nothing /\ machine.settings[s].pac = u
            /\ machine.settings[s].pacEnabled

\* The PAC file reported is the one the settings name.
PACInv ==
    /\ PACWanted => UsesPAC(system.pac)
    /\ pc \in ToPAC => pac = Nothing
    /\ pc \notin ToPAC => (PACWanted <=> pac # Nothing)
    /\ pac # Nothing => pac.retrieved # pac.error /\ pac.url = system.pac

\* A listing of VPN applications was answered and is in the report, or it failed.
ListingsInv ==
    LET Told(k) == <<"apps", k>> \in failed \/ Listed(VPNListings[k]) \subseteq vpn.apps IN
    /\ pc = "apps" => \A k \in DOMAIN VPNListings : k < n => Told(k)
    /\ pc \in {"filter", "done"} => \A k \in DOMAIN VPNListings : Told(k)

TunnelsInv ==
    pc = "done" =>
        vpn.routes =
            [p \in {q \in DOMAIN routes.list : routes.list[q].interface \in TunnelNames} |->
                routes.list[p]]

-----------------------------------------------------------------------------
\* The lists of commands.

LEMMA SourceList ==
    /\ os = "linux" => RouteSources = <<"ip-route", "route-n", "/proc/net/route">>
    /\ os = "darwin" => RouteSources = <<"netstat">>
    /\ os = "windows" => RouteSources = <<"route-print">>
    /\ os \notin {"linux", "darwin", "windows"} => RouteSources = <<>>
  BY DEF RouteSources

LEMMA Singleton ==
    ASSUME NEW L, NEW a, L = <<a>>
    PROVE  DOMAIN L = 1..1 /\ Len(L) = 1 /\ \A k \in DOMAIN L : L[k] \in {a}
  OBVIOUS

LEMMA Triple ==
    ASSUME NEW L, NEW a, NEW b, NEW c, L = <<a, b, c>>
    PROVE  DOMAIN L = 1..3 /\ Len(L) = 3 /\ \A k \in DOMAIN L : L[k] \in {a, b, c}
  OBVIOUS

LEMMA SourceTypes ==
    /\ DOMAIN RouteSources = 1..Len(RouteSources) /\ Len(RouteSources) \in 0..3
    /\ \A k \in DOMAIN RouteSources : SourceOf(RouteSources[k], os)
<1>1. CASE os = "linux"
  <2>1. /\ DOMAIN RouteSources = 1..3 /\ Len(RouteSources) = 3
        /\ \A k \in DOMAIN RouteSources :
              RouteSources[k] \in {"ip-route", "route-n", "/proc/net/route"}
    BY <1>1, SourceList, Triple
  <2>2. \A s \in {"ip-route", "route-n", "/proc/net/route"} : SourceOf(s, os)
    BY <1>1 DEF SourceOf
  <2> QED  BY <2>1, <2>2
<1>2. CASE os = "darwin"
  <2>1. /\ DOMAIN RouteSources = 1..1 /\ Len(RouteSources) = 1
        /\ \A k \in DOMAIN RouteSources : RouteSources[k] \in {"netstat"}
    BY <1>2, SourceList, Singleton
  <2>2. \A s \in {"netstat"} : SourceOf(s, os)
    BY <1>2 DEF SourceOf
  <2> QED  BY <2>1, <2>2
<1>3. CASE os = "windows"
  <2>1. /\ DOMAIN RouteSources = 1..1 /\ Len(RouteSources) = 1
        /\ \A k \in DOMAIN RouteSources : RouteSources[k] \in {"route-print"}
    BY <1>3, SourceList, Singleton
  <2>2. \A s \in {"route-print"} : SourceOf(s, os)
    BY <1>3 DEF SourceOf
  <2> QED  BY <2>1, <2>2
<1>4. CASE os \notin {"linux", "darwin", "windows"}
  <2>1. RouteSources = <<>>
    BY <1>4, SourceList
  <2>2. DOMAIN RouteSources = {} /\ Len(RouteSources) = 0
    BY <2>1
  <2> QED  BY <2>2
<1> QED
  BY <1>1, <1>2, <1>3, <1>4

LEMMA DecidingQueries ==
    /\ os = "darwin" => Deciding = {1, 2} /\ Cardinality(Deciding) = 2
    /\ os # "darwin" => Deciding = {1} /\ Cardinality(Deciding) = 1
<1>1. Cardinality(1..2) = 2 /\ Cardinality(1..1) = 1
  BY CountTo
<1>2. 1..2 = {1, 2} /\ 1..1 = {1}
  OBVIOUS
<1> QED
  BY <1>1, <1>2 DEF Deciding

\* On Darwin six queries of two services, two of which decide; on Windows four of
\* the registry; elsewhere none.
LEMMA QueryList ==
    /\ os = "darwin" =>
          /\ DOMAIN ProxyQueries = 1..6 /\ Len(ProxyQueries) = 6
          /\ ProxyQueries[1] = [of |-> "web", service |-> "Wi-Fi"]
          /\ ProxyQueries[2] = [of |-> "web", service |-> "Ethernet"]
          /\ ProxyQueries[3] = [of |-> "secure", service |-> "Wi-Fi"]
          /\ ProxyQueries[4] = [of |-> "socks", service |-> "Wi-Fi"]
          /\ ProxyQueries[5] = [of |-> "auto", service |-> "Wi-Fi"]
          /\ ProxyQueries[6] = [of |-> "bypass", service |-> "Wi-Fi"]
    /\ os = "windows" =>
          /\ DOMAIN ProxyQueries = 1..4 /\ Len(ProxyQueries) = 4
          /\ ProxyQueries[1] = [of |-> "enable", service |-> "Registry"]
          /\ ProxyQueries[2] = [of |-> "server", service |-> "Registry"]
          /\ ProxyQueries[3] = [of |-> "override", service |-> "Registry"]
          /\ ProxyQueries[4] = [of |-> "autoconfig", service |-> "Registry"]
    /\ os \notin {"darwin", "windows"} => ProxyQueries = <<>>
<1>1. CASE os = "darwin"
  BY <1>1 DEF ProxyQueries
<1>2. CASE os = "windows"
  BY <1>2 DEF ProxyQueries
<1>3. CASE os \notin {"darwin", "windows"}
  BY <1>3 DEF ProxyQueries
<1> QED
  BY <1>1, <1>2, <1>3

LEMMA QueryTypes ==
    /\ DOMAIN ProxyQueries \subseteq 1..6
    /\ \A k \in DOMAIN ProxyQueries :
          /\ ProxyQueries[k].service \in Service
          /\ ProxyQueries[k].of \in
                {"web", "secure", "socks", "auto", "bypass", "enable", "server", "override",
                 "autoconfig"}
<1>0. {"Wi-Fi", "Ethernet", "Registry"} \subseteq Service
  BY DiscoveryAssumption
<1>1. CASE os = "darwin"
  <2>1. \A k \in 1..6 : k \in {1, 2, 3, 4, 5, 6}
    OBVIOUS
  <2> QED
    BY <1>0, <1>1, <2>1, QueryList
<1>2. CASE os = "windows"
  <2>1. \A k \in 1..4 : k \in {1, 2, 3, 4} /\ k \in 1..6
    OBVIOUS
  <2> QED
    BY <1>0, <1>2, <2>1, QueryList
<1>3. CASE os \notin {"darwin", "windows"}
  <2>1. ProxyQueries = <<>>
    BY <1>3, QueryList
  <2>2. DOMAIN ProxyQueries = {}
    BY <2>1
  <2> QED
    BY <2>2
<1> QED
  BY <1>1, <1>2, <1>3

LEMMA ListingList ==
    /\ DOMAIN VPNListings \subseteq 1..2 /\ DOMAIN VPNListings = 1..Len(VPNListings)
<1>1. CASE os = "darwin"
  <2>1. VPNListings = <<"ps", "scutil">>
    BY <1>1 DEF VPNListings
  <2> QED  BY <2>1
<1>2. CASE os = "linux"
  <2>1. VPNListings = <<"ps", "nmcli">>
    BY <1>2 DEF VPNListings
  <2> QED  BY <2>1
<1>3. CASE os = "windows"
  <2>1. VPNListings = <<"netsh">>
    BY <1>3 DEF VPNListings
  <2> QED  BY <2>1
<1>4. CASE os \notin {"darwin", "linux", "windows"}
  <2>1. VPNListings = <<>>
    BY <1>4 DEF VPNListings
  <2> QED  BY <2>1
<1> QED
  BY <1>1, <1>2, <1>3, <1>4

-----------------------------------------------------------------------------
\* What VPNType and Answered return.

LEMMA VPNTypeOf ==
    \A l \in Link : VPNType(l) \in {NoType} \cup {VPNPatterns[k] : k \in DOMAIN VPNPatterns}
<1>1. DOMAIN VPNPatterns \in SUBSET Nat
  BY DEF VPNPatterns
<1>2. ASSUME NEW l \in Link
      PROVE  VPNType(l) \in {NoType} \cup {VPNPatterns[k] : k \in DOMAIN VPNPatterns}
  <2> DEFINE M == {k \in DOMAIN VPNPatterns : VPNPatterns[k] \in Contained[l]}
  <2>1. VPNType(l) = IF M = {} THEN NoType ELSE VPNPatterns[First(M)]
    BY DEF VPNType
  <2>2. M \subseteq DOMAIN VPNPatterns /\ M \in SUBSET ({-1} \cup Nat)
    BY <1>1
  <2> HIDE DEF M
  <2> QED  BY <2>1, <2>2, FirstIs
<1> QED
  BY <1>2

LEMMA AnsweredType ==
    ASSUME NEW s \in Settings, NEW so_far \in Settings,
           NEW query \in {"web", "secure", "socks", "auto", "bypass", "enable", "server",
                          "override", "autoconfig"}
    PROVE  Answered(query, s, so_far) \in Settings
<1>1. /\ s.enabled \in BOOLEAN /\ s.http \in Server \cup {NoServer}
      /\ s.https \in Server \cup {NoServer} /\ s.ftp \in Server \cup {NoServer}
      /\ s.socks \in Server \cup {NoServer} /\ s.socksEnabled \in BOOLEAN
      /\ s.pacEnabled \in BOOLEAN /\ s.pac \in PACURL \cup {NoURL} /\ s.bypass \in BOOLEAN
  BY DEF Settings
<1>2. CASE query = "web"
  BY <1>1, <1>2 DEF Answered, Settings
<1>3. CASE query = "secure"
  BY <1>1, <1>3 DEF Answered, Settings
<1>4. CASE query = "socks"
  BY <1>1, <1>4 DEF Answered, Settings
<1>5. CASE query = "auto"
  BY <1>1, <1>5 DEF Answered, Settings
<1>6. CASE query \in {"bypass", "override"}
  BY <1>1, <1>6 DEF Answered, Settings
<1>7. CASE query = "enable"
  BY <1>1, <1>7 DEF Answered, Settings
<1>8. CASE query = "server"
  BY <1>1, <1>8 DEF Answered, Settings
<1>9. CASE query = "autoconfig"
  <2>1. (s.pac # NoURL) \in BOOLEAN
    OBVIOUS
  <2> QED  BY <1>1, <1>9, <2>1 DEF Answered, Settings
<1> QED
  BY <1>2, <1>3, <1>4, <1>5, <1>6, <1>7, <1>8, <1>9

-----------------------------------------------------------------------------
\* The report is well typed.

\* The rows a listing may add.
AppRows == UNION {Listed(VPNListings[k]) : k \in DOMAIN VPNListings}

\* What may be asked of a machine is always the same.
LEMMA SameMachine ==
    machine' = machine =>
        /\ os' = os /\ RouteSources' = RouteSources /\ ProxyQueries' = ProxyQueries
        /\ Deciding' = Deciding /\ VPNListings' = VPNListings /\ AppRows' = AppRows
        /\ \A k : Listed(VPNListings[k])' = Listed(VPNListings[k])
<1> SUFFICES ASSUME machine' = machine
             PROVE  /\ os' = os /\ RouteSources' = RouteSources
                    /\ ProxyQueries' = ProxyQueries
                    /\ Deciding' = Deciding /\ VPNListings' = VPNListings
                    /\ AppRows' = AppRows
                    /\ \A k : Listed(VPNListings[k])' = Listed(VPNListings[k])
  OBVIOUS
<1>1. os' = os
  BY DEF os
<1>2. RouteSources' = RouteSources /\ ProxyQueries' = ProxyQueries /\ Deciding' = Deciding
  BY <1>1, Zenon DEF RouteSources, ProxyQueries, Deciding
<1>3. VPNListings' = VPNListings
  BY <1>1, Zenon DEF VPNListings
<1>4. \A k : Listed(VPNListings[k])' = Listed(VPNListings[k])
  BY <1>1, <1>3, Zenon DEF Listed, Known
<1>5. AppRows' = AppRows
  BY <1>3, <1>4, Zenon DEF AppRows
<1> QED
  BY <1>1, <1>2, <1>3, <1>4, <1>5

LEMMA EmptyListing == Listing(<<>>) /\ Table(<<>>)
<1>1. DOMAIN <<>> = {}
  OBVIOUS
<1>2. \A S : <<>> \in [{} -> S]
  OBVIOUS
<1> QED
  BY <1>1, <1>2 DEF Listing, Table

LEMMA NoRoutesType ==
    /\ NoRoutes.list = <<>>
    /\ \A e \in BOOLEAN :
          [NoRoutes EXCEPT !.error = e] \in
              [available: BOOLEAN, error: BOOLEAN, gateway: Gateway \cup {NoGateway, OnLink},
               list: {<<>>}]
    /\ \A e \in BOOLEAN :
          /\ [NoRoutes EXCEPT !.error = e].list = <<>>
          /\ [NoRoutes EXCEPT !.error = e].error = e
          /\ [NoRoutes EXCEPT !.error = e].available = FALSE
<1> DEFINE T == [available: BOOLEAN, error: BOOLEAN, gateway: Gateway \cup {NoGateway, OnLink},
                 list: {<<>>}]
<1>1. NoRoutes \in T
  BY DEF NoRoutes
<1>2. NoRoutes.available = FALSE /\ NoRoutes.list = <<>>
  BY DEF NoRoutes
<1> QED
  BY <1>1, <1>2

LEMMA TypeInit == Init => TypeOK /\ PlaceInv
<1> SUFFICES ASSUME Init PROVE TypeOK /\ PlaceInv
  OBVIOUS
<1>1. Listing(<<>>) /\ Table(<<>>)
  BY EmptyListing
<1>2. /\ routes \in [available: BOOLEAN, error: BOOLEAN,
                     gateway: Gateway \cup {NoGateway, OnLink}, list: {routes.list}]
      /\ routes.list = <<>>
  BY DEF Init, NoRoutes
<1>3. /\ vpn \in [detected: BOOLEAN,
                  tunnels: SUBSET [name: Link,
                                   type: {VPNPatterns[k] : k \in DOMAIN VPNPatterns}],
                  apps: SUBSET UNION {Listed(VPNListings[k]) : k \in DOMAIN VPNListings},
                  routes: {vpn.routes}]
      /\ vpn.routes = <<>>
  BY DEF Init, NoVPN
<1>4. shown.source = Nothing /\ shown.table = <<>>
  BY DEF Init
<1>5. 0 \in 0..MaxChanges /\ 1 \in 1..6
  BY DiscoveryAssumption
<1>6. /\ machine \in Machines /\ links \subseteq Link /\ changes \in 0..MaxChanges
      /\ pc = "interfaces" /\ n = 1 /\ failed = {} /\ interfaces = {}
      /\ version = "unknown" /\ system = Nothing /\ pac = Nothing
  BY <1>5 DEF Init
<1>7. TypeOK
  BY <1>1, <1>2, <1>3, <1>4, <1>5, <1>6 DEF TypeOK
<1>8. PlaceInv
  BY <1>6 DEF PlaceInv
<1> QED
  BY <1>7, <1>8

\* The next command is one of the list, or the first of the next collector.
LEMMA GoOnEffect ==
    ASSUME NEW list, NEW next, NEW collector, GoOn(list, next, collector)
    PROVE  \/ next \in DOMAIN list /\ n' = next /\ pc' = pc
           \/ next \notin DOMAIN list /\ n' = 1 /\ pc' = collector
  BY DEF GoOn

LEMMA KernelTableType ==
    ASSUME TypeOK
    PROVE  Table(KernelTable) /\ (os # "linux" => OneHop(KernelTable))
<1>1. machine.table \in Seq(KernelRoute)
  BY DiscoveryAssumption DEF TypeOK, Machine
<1>2. /\ DOMAIN machine.table \subseteq Nat
      /\ \A k \in DOMAIN machine.table : machine.table[k] \in KernelRoute
  BY <1>1
<1> DEFINE P == {j \in DOMAIN machine.table : Devices(machine.table[j]) \subseteq links}
<1>3. P \subseteq Nat /\ \A k \in P : machine.table[k] \in KernelRoute
  BY <1>2
<1>4. KernelTable = [k \in P |-> machine.table[k]]
  BY DEF KernelTable
<1>5. os # "linux" => \A k \in P : machine.table[k].hops # <<>>
  <2>1. os # "linux" => \A k \in DOMAIN machine.table : machine.table[k].type = "unicast"
    BY DiscoveryAssumption DEF TypeOK, os
  <2> QED  BY <1>2, <2>1, KernelRouteType
<1> HIDE DEF P
<1>6. Table(KernelTable)
  BY <1>3, <1>4 DEF Table
<1> QED
  BY <1>4, <1>5, <1>6 DEF OneHop

\* TypeOK, variable by variable.

PlaceType ==
    /\ machine \in Machines /\ links \subseteq Link /\ changes \in 0..MaxChanges
    /\ pc \in {"interfaces", "routes", "release", "version", "proxy", "pac", "pac_body",
               "tunnels", "apps", "filter", "done"}
    /\ n \in 1..6
    /\ failed \subseteq {"routes", "version", "proxy", "apps"} \X (1..6)

RoutesType ==
    /\ interfaces \subseteq Link
    /\ routes \in [available: BOOLEAN, error: BOOLEAN,
                   gateway: Gateway \cup {NoGateway, OnLink}, list: {routes.list}]
    /\ Listing(routes.list)

ShownType ==
    /\ shown.source \in {Nothing} \cup {RouteSources[k] : k \in DOMAIN RouteSources}
    /\ Table(shown.table)

SettingsType ==
    /\ version \in {"unknown", "release", "kernel", "product"}
    /\ system \in Settings \cup {Nothing}

PACType ==
    \/ pac = Nothing
    \/ pac \in PACFile /\ pac.read <= PACLength[pac.url]

TunnelTypes == {VPNPatterns[k] : k \in DOMAIN VPNPatterns}

VPNRecord ==
    /\ vpn \in [detected: BOOLEAN, tunnels: SUBSET [name: Link, type: TunnelTypes],
                apps: SUBSET AppRows, routes: {vpn.routes}]
    /\ Listing(vpn.routes)

LEMMA TypeParts ==
    TypeOK <=> PlaceType /\ RoutesType /\ ShownType /\ SettingsType /\ PACType /\ VPNRecord
  BY DEF TypeOK, PlaceType, RoutesType, ShownType, SettingsType, PACType, VPNRecord, AppRows,
         TunnelTypes

LEMMA TypePartsNext ==
    PlaceType' /\ RoutesType' /\ ShownType' /\ SettingsType' /\ PACType' /\ VPNRecord'
    => TypeOK'
  BY DEF TypeOK, PlaceType, RoutesType, ShownType, SettingsType, PACType, VPNRecord, AppRows,
         TunnelTypes

LEMMA SameTypes ==
    ASSUME TypeOK, machine' = machine
    PROVE  /\ UNCHANGED <<interfaces, routes>> => RoutesType'
           /\ UNCHANGED shown => ShownType'
           /\ UNCHANGED <<version, system>> => SettingsType'
           /\ UNCHANGED pac => PACType'
           /\ UNCHANGED vpn => VPNRecord'
<1>1. RoutesType /\ ShownType /\ SettingsType /\ PACType /\ VPNRecord
  BY TypeParts
<1>2. UNCHANGED <<interfaces, routes>> => RoutesType'
  BY <1>1 DEF RoutesType
<1>3. UNCHANGED shown => ShownType'
  BY <1>1, SameMachine DEF ShownType
<1>4. UNCHANGED <<version, system>> => SettingsType'
  BY <1>1 DEF SettingsType
<1>5. UNCHANGED pac => PACType'
  BY <1>1 DEF PACType
<1>6. UNCHANGED vpn => VPNRecord'
  BY <1>1, SameMachine DEF VPNRecord, TunnelTypes
<1> QED
  BY <1>2, <1>3, <1>4, <1>5, <1>6

\* A command that fails leaves a trace at its own place.
LEMMA FailsType ==
    ASSUME TypeOK, Fails, pc \in {"routes", "version", "proxy", "apps"}
    PROVE  failed' \subseteq {"routes", "version", "proxy", "apps"} \X (1..6)
  BY DEF TypeOK, Fails

LEMMA ListDomains ==
    /\ DOMAIN RouteSources \subseteq 1..6 /\ DOMAIN ProxyQueries \subseteq 1..6
    /\ DOMAIN VPNListings \subseteq 1..6
<1>1. DOMAIN RouteSources \subseteq 1..6
  BY SourceTypes
<1>2. DOMAIN VPNListings \subseteq 1..6
  BY ListingList
<1> QED
  BY <1>1, <1>2, QueryTypes

\* Collectors that change nothing but their own part of the report.
LEMMA RoutesStep ==
    ASSUME TypeOK, PlaceInv,
           DiscoverInterfaces \/ RoutesNotImplemented \/ RouteSourceAnswers \/ RouteSourceFails
    PROVE  TypeOK' /\ PlaceInv'
<1>0. PlaceType /\ RoutesType /\ ShownType
  BY TypeParts
<1>1. CASE DiscoverInterfaces
  <2>1. machine' = machine /\ UNCHANGED <<shown, version, system, pac, vpn>>
    BY <1>1 DEF DiscoverInterfaces
  <2>2. PlaceType'
    BY <1>0, <1>1 DEF DiscoverInterfaces, PlaceType
  <2>3. RoutesType'
    BY <1>0, <1>1 DEF DiscoverInterfaces, PlaceType, RoutesType
  <2>4. PlaceInv'
    BY <1>1 DEF DiscoverInterfaces, PlaceInv
  <2> QED  BY <2>1, <2>2, <2>3, <2>4, SameTypes, TypePartsNext
<1>2. CASE RoutesNotImplemented
  <2>1. machine' = machine /\ UNCHANGED <<shown, version, system, pac, vpn>>
    BY <1>2 DEF RoutesNotImplemented
  <2>2. PlaceType'
    BY <1>0, <1>2 DEF RoutesNotImplemented, PlaceType
  <2>3. /\ routes' = [NoRoutes EXCEPT !.error = TRUE] /\ interfaces' = interfaces
        /\ pc = "routes" /\ pc' = "release" /\ n' = n /\ RouteSources = <<>>
    BY <1>2 DEF RoutesNotImplemented
  <2>4. RoutesType'
    BY <1>0, <2>3, NoRoutesType, EmptyListing DEF RoutesType
  <2>5. DOMAIN RouteSources = {}
    BY <2>3
  <2>6. PlaceInv'
    BY <2>3, <2>5 DEF PlaceInv
  <2> QED  BY <2>1, <2>2, <2>4, <2>6, SameTypes, TypePartsNext
<1>3. CASE RouteSourceAnswers
  <2> DEFINE list == Parsed(RouteSources[n], KernelTable)
  <2>1. machine' = machine /\ UNCHANGED <<version, system, pac, vpn>>
    BY <1>3 DEF RouteSourceAnswers
  <2>2. /\ n \in DOMAIN RouteSources /\ pc' = "release" /\ n' = 1
        /\ routes' = [available |-> TRUE, error |-> FALSE, list |-> list,
                      gateway |-> DefaultGateway(os, list)]
        /\ shown' = [source |-> RouteSources[n], table |-> KernelTable]
        /\ UNCHANGED <<interfaces, links, changes, failed>>
    BY <1>3 DEF RouteSourceAnswers
  <2>3. Table(KernelTable) /\ (os # "linux" => OneHop(KernelTable))
    BY KernelTableType
  <2>4. Listing(list)
    BY <2>2, <2>3, SourceTypes, ParsedType
  <2>5. DefaultGateway(os, list) \in Gateway \cup {NoGateway, OnLink}
    BY <2>4, GatewayType
  <2> HIDE DEF list
  <2>6. RoutesType'
    BY <1>0, <2>2, <2>4, <2>5 DEF RoutesType
  <2>7. ShownType'
    <3>1. shown'.source = RouteSources[n] /\ shown'.table = KernelTable
      BY <2>2
    <3>2. RouteSources' = RouteSources
      BY <2>1, SameMachine
    <3> QED  BY <2>2, <2>3, <3>1, <3>2 DEF ShownType
  <2>8. PlaceType'
    BY <1>0, <2>1, <2>2 DEF PlaceType
  <2>9. PlaceInv'
    BY <2>2 DEF PlaceInv
  <2> QED  BY <2>1, <2>6, <2>7, <2>8, <2>9, SameTypes, TypePartsNext
<1>4. CASE RouteSourceFails
  <2>1. machine' = machine /\ UNCHANGED <<shown, version, system, pac, vpn>>
    BY <1>4 DEF RouteSourceFails
  <2>2. /\ pc = "routes" /\ Fails /\ GoOn(RouteSources, n + 1, "release")
        /\ routes' = IF n = Len(RouteSources) THEN [NoRoutes EXCEPT !.error = TRUE] ELSE routes
        /\ UNCHANGED <<links, changes, interfaces>>
    BY <1>4 DEF RouteSourceFails
  <2>3. failed' \subseteq {"routes", "version", "proxy", "apps"} \X (1..6)
    BY <2>2, FailsType
  <2>4. \/ n' \in DOMAIN RouteSources /\ pc' = "routes"
        \/ n' = 1 /\ pc' = "release"
    BY <2>2, GoOnEffect
  <2>5. PlaceType'
    BY <1>0, <2>1, <2>2, <2>3, <2>4, ListDomains DEF PlaceType
  <2>6. RoutesType'
    BY <1>0, <2>2, NoRoutesType, EmptyListing DEF RoutesType
  <2>7. RouteSources' = RouteSources
    BY <2>1, SameMachine
  <2>8. PlaceInv'
    BY <2>4, <2>7 DEF PlaceInv
  <2> QED  BY <2>1, <2>5, <2>6, <2>8, SameTypes, TypePartsNext
<1> QED
  BY <1>1, <1>2, <1>3, <1>4

LEMMA VersionStep ==
    ASSUME TypeOK, PlaceInv, ReadRelease \/ VersionAnswers \/ VersionFails
    PROVE  TypeOK' /\ PlaceInv'
<1>0. PlaceType /\ SettingsType
  BY TypeParts
<1>1. /\ machine' = machine /\ UNCHANGED <<interfaces, routes, shown, system, pac, vpn>>
      /\ UNCHANGED <<links, changes, n>> /\ pc' \in {"version", "proxy"}
      /\ version' \in {version, "release", "kernel", "product"}
  BY DEF ReadRelease, VersionAnswers, VersionFails
<1>2. pc \in {"release", "version"} /\ n = 1
  BY DEF ReadRelease, VersionAnswers, VersionFails, PlaceInv
<1>3. failed' \subseteq {"routes", "version", "proxy", "apps"} \X (1..6)
  <2>1. failed' = failed \/ (Fails /\ pc = "version")
    BY DEF ReadRelease, VersionAnswers, VersionFails
  <2> QED  BY <1>0, <2>1, FailsType DEF PlaceType
<1>4. PlaceType'
  BY <1>0, <1>1, <1>3 DEF PlaceType
<1>5. SettingsType'
  BY <1>0, <1>1 DEF SettingsType
<1>6. PlaceInv'
  BY <1>1, <1>2 DEF PlaceInv
<1> QED
  BY <1>1, <1>4, <1>5, <1>6, SameTypes, TypePartsNext

LEMMA NoSettingsType == NoSettings \in Settings
  BY DEF NoSettings, Settings

\* The service that is asked.
LEMMA ServiceSettings ==
    ASSUME TypeOK, NEW k \in DOMAIN ProxyQueries
    PROVE  machine.settings[ProxyQueries[k].service] \in Settings \cup {Nothing}
<1>1. machine.settings \in [Service -> Settings \cup {Nothing}]
  BY DiscoveryAssumption DEF TypeOK, Machine
<1> QED
  BY <1>1, QueryTypes

LEMMA SettingsStep ==
    ASSUME TypeOK, PlaceInv, NoSystemProxy \/ QueryAnswers \/ QueryFails
    PROVE  TypeOK' /\ PlaceInv'
<1>0. PlaceType /\ SettingsType
  BY TypeParts
<1>1. /\ machine' = machine /\ UNCHANGED <<interfaces, routes, shown, version, pac, vpn>>
      /\ UNCHANGED <<links, changes>> /\ pc = "proxy"
  BY DEF NoSystemProxy, QueryAnswers, QueryFails
<1>2. \/ n' \in DOMAIN ProxyQueries /\ pc' = "proxy"
      \/ n' = 1 /\ pc' = "pac"
  <2>1. CASE NoSystemProxy
    <3>1. DOMAIN ProxyQueries = {}
      BY <2>1 DEF NoSystemProxy
    <3> QED  BY <2>1, <3>1 DEF NoSystemProxy, PlaceInv
  <2>2. CASE QueryAnswers
    BY <1>1, <2>2, GoOnEffect DEF QueryAnswers
  <2>3. CASE QueryFails
    <3>1. \/ n' = 1 /\ pc' = "pac"
          \/ n + 1 \in Deciding /\ n' = n + 1 /\ pc' = pc
          \/ GoOn(ProxyQueries, n + 1, "pac")
      BY <2>3 DEF QueryFails
    <3>2. n + 1 \in Deciding /\ n \in DOMAIN ProxyQueries => n + 1 \in DOMAIN ProxyQueries
      <4>1. CASE os = "darwin"
        BY <4>1, QueryList DEF Deciding
      <4>2. CASE os # "darwin"
        BY <1>0, <4>2 DEF Deciding, PlaceType
      <4> QED  BY <4>1, <4>2
    <3>3. n \in DOMAIN ProxyQueries
      BY <2>3 DEF QueryFails
    <3> QED  BY <1>1, <3>1, <3>2, <3>3, GoOnEffect
  <2> QED  BY <2>1, <2>2, <2>3
<1>3. failed' \subseteq {"routes", "version", "proxy", "apps"} \X (1..6)
  <2>1. failed' = failed \/ Fails
    BY DEF NoSystemProxy, QueryAnswers, QueryFails
  <2> QED  BY <1>0, <1>1, <2>1, FailsType DEF PlaceType
<1>4. PlaceType'
  <2>1. n' \in 1..6
    BY <1>2, ListDomains
  <2>2. pc' \in {"proxy", "pac"}
    BY <1>2
  <2> QED  BY <1>0, <1>1, <1>3, <2>1, <2>2 DEF PlaceType
<1>5. system' \in Settings \cup {Nothing}
  <2>1. CASE QueryAnswers
    <3> DEFINE q == ProxyQueries[n]
               now == machine.settings[q.service]
               so_far == IF system = Nothing THEN NoSettings ELSE system
    <3>1. /\ n \in DOMAIN ProxyQueries /\ now # Nothing
          /\ system' = Answered(q.of, now, so_far)
      BY <2>1 DEF QueryAnswers
    <3>2. now \in Settings
      BY <3>1, ServiceSettings
    <3>3. so_far \in Settings
      BY <1>0, NoSettingsType DEF SettingsType
    <3>4. q.of \in {"web", "secure", "socks", "auto", "bypass", "enable", "server",
                    "override", "autoconfig"}
      BY <3>1, QueryTypes
    <3> HIDE DEF q, now, so_far
    <3> QED  BY <3>1, <3>2, <3>3, <3>4, AnsweredType
  <2>2. CASE NoSystemProxy \/ QueryFails
    BY <1>0, <2>2 DEF NoSystemProxy, QueryFails, SettingsType
  <2> QED  BY <2>1, <2>2
<1>6. SettingsType'
  BY <1>0, <1>1, <1>5 DEF SettingsType
<1>7. PlaceInv'
  <2>1. ProxyQueries' = ProxyQueries
    BY <1>1, SameMachine
  <2> QED  BY <1>2, <2>1 DEF PlaceInv
<1> QED
  BY <1>1, <1>4, <1>6, <1>7, SameTypes, TypePartsNext

LEMMA PACStep ==
    ASSUME TypeOK, PlaceInv, SkipPAC \/ PAC
    PROVE  TypeOK' /\ PlaceInv'
<1>0. PlaceType /\ PACType /\ SettingsType
  BY TypeParts
<1>1. /\ machine' = machine
      /\ UNCHANGED <<interfaces, routes, shown, version, system, vpn>>
      /\ UNCHANGED <<links, changes, n, failed>> /\ pc \in {"pac", "pac_body"}
      /\ pc' = "pac_body" \/ (pc' = "tunnels" /\ n' = 1)
      /\ pc' = "pac_body" => PACWanted /\ n' = 1
  <2>1. CASE SkipPAC
    BY <2>1 DEF SkipPAC, PlaceInv
  <2>2. CASE PACFails
    BY <2>2 DEF PACFails, PlaceInv
  <2>3. CASE PACAnswers
    BY <2>3 DEF PACAnswers, PlaceInv
  <2>4. ASSUME NEW k, PACBodyRead(k)
        PROVE  /\ machine' = machine
               /\ UNCHANGED <<interfaces, routes, shown, version, system, vpn>>
               /\ UNCHANGED <<links, changes, n, failed>> /\ pc = "pac_body"
               /\ pc' = "tunnels" /\ n' = 1
    BY <2>4 DEF PACBodyRead, PlaceInv
  <2>5. CASE PACBodyArrives
    BY <2>4, <2>5 DEF PACBodyArrives
  <2>6. CASE PACBodyRead(0)
    BY <2>4, <2>6
  <2> QED  BY <2>1, <2>2, <2>3, <2>5, <2>6 DEF PAC, PACTimesOut
<1>2. PlaceType'
  BY <1>0, <1>1 DEF PlaceType
<1>3. PlaceInv'
  <2>1. PACWanted' <=> PACWanted
    BY <1>1 DEF PACWanted
  <2> QED  BY <1>1, <2>1 DEF PlaceInv
<1>4. PACType'
  <2>1. PACWanted => system.pac \in PACURL /\ PACLength[system.pac] \in Nat
    BY <1>0, DiscoveryAssumption DEF PACWanted, SettingsType, Settings
  <2> DEFINE Body(k) ==
               [url |-> system.pac, read |-> k, error |-> FALSE, retrieved |-> TRUE]
             Error == [url |-> system.pac, read |-> 0, error |-> TRUE, retrieved |-> FALSE]
  <2>2. ASSUME NEW k \in Nat, PACWanted, k <= PACLength[system.pac]
        PROVE  /\ Body(k) \in PACFile /\ Body(k).read <= PACLength[Body(k).url]
               /\ Error \in PACFile /\ Error.read <= PACLength[Error.url]
    BY <2>1, <2>2 DEF PACFile
  <2>3. CASE SkipPAC \/ PACAnswers
    BY <1>0, <2>3 DEF SkipPAC, PACAnswers, PACType
  <2>4. CASE PACFails
    <3>1. pac' = Error /\ PACWanted
      BY <2>4 DEF PACFails
    <3>2. 0 \in Nat /\ 0 <= PACLength[system.pac]
      BY <2>1, <3>1
    <3>3. Error \in PACFile /\ Error.read <= PACLength[Error.url]
      BY <2>2, <3>1, <3>2
    <3> HIDE DEF Error
    <3> QED  BY <3>1, <3>3 DEF PACType
  <2>5. ASSUME NEW k \in 0..PACLength[system.pac], PACBodyRead(k) PROVE PACType'
    <3>1. PACWanted /\ pac' = Body(k)
      BY <2>5 DEF PACBodyRead, PlaceInv
    <3>2. k \in Nat /\ k <= PACLength[system.pac]
      BY <2>1, <3>1
    <3>3. Body(k) \in PACFile /\ Body(k).read <= PACLength[Body(k).url]
      BY <2>2, <3>1, <3>2
    <3> HIDE DEF Body
    <3> QED  BY <3>1, <3>3 DEF PACType
  <2>6. CASE PACBodyArrives
    BY <2>5, <2>6 DEF PACBodyArrives
  <2>7. CASE PACBodyRead(0)
    <3>1. PACWanted
      BY <2>7 DEF PACBodyRead, PlaceInv
    <3>2. 0 \in 0..PACLength[system.pac]
      BY <2>1, <3>1
    <3> QED  BY <2>5, <2>7, <3>2
  <2> QED  BY <2>3, <2>4, <2>6, <2>7 DEF PAC, PACTimesOut
<1> QED
  BY <1>1, <1>2, <1>3, <1>4, SameTypes, TypePartsNext

LEMMA VPNStep ==
    ASSUME TypeOK, PlaceInv,
           DetectVPNInterfaces \/ NoVPNListings \/ ListingAnswers \/ ListingFails
               \/ FilterVPNRoutes
    PROVE  TypeOK' /\ PlaceInv'
<1>0. PlaceType /\ VPNRecord /\ RoutesType
  BY TypeParts
<1>1. /\ machine' = machine
      /\ UNCHANGED <<interfaces, routes, shown, version, system, pac>>
      /\ UNCHANGED <<links, changes>>
  BY DEF DetectVPNInterfaces, NoVPNListings, ListingAnswers, ListingFails, FilterVPNRoutes
<1>2. \/ n' \in {1} \cup DOMAIN VPNListings /\ pc' = "apps"
      \/ n' = 1 /\ pc' \in {"filter", "done"}
  <2>1. CASE DetectVPNInterfaces \/ FilterVPNRoutes
    BY <2>1 DEF DetectVPNInterfaces, FilterVPNRoutes, PlaceInv
  <2>2. CASE NoVPNListings
    <3>1. DOMAIN VPNListings = {}
      BY <2>2 DEF NoVPNListings
    <3> QED  BY <2>2, <3>1 DEF NoVPNListings, PlaceInv
  <2>3. CASE ListingAnswers \/ ListingFails
    BY <2>3, GoOnEffect DEF ListingAnswers, ListingFails
  <2> QED  BY <2>1, <2>2, <2>3
<1>3. failed' \subseteq {"routes", "version", "proxy", "apps"} \X (1..6)
  <2>1. failed' = failed \/ (Fails /\ pc = "apps")
    BY DEF DetectVPNInterfaces, NoVPNListings, ListingAnswers, ListingFails, FilterVPNRoutes
  <2> QED  BY <1>0, <2>1, FailsType DEF PlaceType
<1>4. PlaceType'
  <2>1. n' \in 1..6 /\ pc' \in {"apps", "filter", "done"}
    BY <1>2, ListDomains
  <2> QED  BY <1>0, <1>1, <1>3, <2>1 DEF PlaceType
<1>5. PlaceInv'
  <2>1. VPNListings' = VPNListings
    BY <1>1, SameMachine
  <2> QED  BY <1>2, <2>1 DEF PlaceInv
<1>6. VPNRecord'
  <2>1. AppRows' = AppRows
    BY <1>1, SameMachine
  <2>2. CASE DetectVPNInterfaces
    <3>1. PICK now \in {links, {}} :
             LET found == {l \in now : VPNType(l) # NoType} IN
             vpn' = [vpn EXCEPT !.detected = found # {},
                                !.tunnels = {[name |-> l, type |-> VPNType(l)] : l \in found}]
      BY <2>2 DEF DetectVPNInterfaces
    <3> DEFINE found == {l \in now : VPNType(l) # NoType}
               rows == {[name |-> l, type |-> VPNType(l)] : l \in found}
    <3>2. found \subseteq Link /\ \A l \in found : VPNType(l) \in TunnelTypes
      BY <1>0, VPNTypeOf DEF PlaceType, TunnelTypes
    <3>3. rows \subseteq [name: Link, type: TunnelTypes]
      BY <3>2
    <3>4. PICK d \in BOOLEAN : d = (found # {})
      OBVIOUS
    <3>5. vpn' = [vpn EXCEPT !.detected = d, !.tunnels = rows]
      BY <3>1, <3>4
    <3> HIDE DEF rows
    <3>6. /\ vpn' \in [detected: BOOLEAN, tunnels: SUBSET [name: Link, type: TunnelTypes],
                       apps: SUBSET AppRows, routes: {vpn.routes}]
          /\ vpn'.routes = vpn.routes
      BY <1>0, <3>3, <3>5 DEF VPNRecord
    <3> QED  BY <1>0, <2>1, <3>6 DEF VPNRecord, TunnelTypes
  <2>3. CASE ListingAnswers
    <3>1. /\ n \in DOMAIN VPNListings
          /\ vpn' = [vpn EXCEPT !.apps = @ \cup Listed(VPNListings[n]),
                                !.detected = @ \/ Listed(VPNListings[n]) # {}]
      BY <2>3 DEF ListingAnswers
    <3>2. Listed(VPNListings[n]) \subseteq AppRows
      BY <3>1 DEF AppRows
    <3>3. PICK d \in BOOLEAN : d = (vpn.detected \/ Listed(VPNListings[n]) # {})
      OBVIOUS
    <3>4. vpn' = [vpn EXCEPT !.apps = vpn.apps \cup Listed(VPNListings[n]), !.detected = d]
      BY <3>1, <3>3
    <3>5. /\ vpn' \in [detected: BOOLEAN, tunnels: SUBSET [name: Link, type: TunnelTypes],
                       apps: SUBSET AppRows, routes: {vpn.routes}]
          /\ vpn'.routes = vpn.routes
      BY <1>0, <3>2, <3>4 DEF VPNRecord
    <3> QED  BY <1>0, <2>1, <3>5 DEF VPNRecord, TunnelTypes
  <2>4. CASE FilterVPNRoutes
    <3> DEFINE P == {q \in DOMAIN routes.list : routes.list[q].interface \in TunnelNames}
               kept == [p \in P |-> routes.list[p]]
    <3>1. vpn' = [vpn EXCEPT !.routes = kept]
      BY <2>4 DEF FilterVPNRoutes
    <3>2. Listing(kept)
      <4>1. P \subseteq ({-1} \cup Nat) \X Nat /\ \A p \in P : routes.list[p] \in Route
        BY <1>0 DEF RoutesType, Listing
      <4> HIDE DEF P
      <4> QED  BY <4>1 DEF Listing
    <3> HIDE DEF P, kept
    <3>3. /\ vpn' \in [detected: BOOLEAN, tunnels: SUBSET [name: Link, type: TunnelTypes],
                       apps: SUBSET AppRows, routes: {kept}]
          /\ vpn'.routes = kept
      BY <1>0, <3>1 DEF VPNRecord
    <3> QED  BY <2>1, <3>2, <3>3 DEF VPNRecord, TunnelTypes
  <2>5. CASE NoVPNListings \/ ListingFails
    BY <1>0, <2>1, <2>5 DEF NoVPNListings, ListingFails, VPNRecord, TunnelTypes
  <2> QED  BY <2>2, <2>3, <2>4, <2>5
<1> QED
  BY <1>1, <1>4, <1>5, <1>6, SameTypes, TypePartsNext

LEMMA TypeStep == TypeOK /\ PlaceInv /\ [Next]_vars => TypeOK' /\ PlaceInv'
<1> SUFFICES ASSUME TypeOK, PlaceInv, [Next]_vars PROVE TypeOK' /\ PlaceInv'
  OBVIOUS
<1>0. PlaceType
  BY TypeParts
<1>1. CASE LinkChanges
  <2>1. /\ machine' = machine
        /\ UNCHANGED <<interfaces, routes, shown, version, system, pac, vpn, pc, n, failed>>
        /\ links' \subseteq Link
    BY <1>0, <1>1 DEF LinkChanges, PlaceType
  <2>2. changes' \in 0..MaxChanges
    BY <1>0, <1>1, DiscoveryAssumption DEF LinkChanges, PlaceType
  <2>3. PlaceType'
    BY <1>0, <2>1, <2>2 DEF PlaceType
  <2>4. PlaceInv'
    <3>1. PACWanted' <=> PACWanted
      BY <2>1 DEF PACWanted
    <3> QED  BY <2>1, <3>1, SameMachine DEF PlaceInv
  <2> QED  BY <2>1, <2>3, <2>4, SameTypes, TypePartsNext
<1>2. CASE UNCHANGED vars
  <2>1. /\ machine' = machine
        /\ UNCHANGED <<interfaces, routes, shown, version, system, pac, vpn, pc, n, failed,
                       links, changes>>
    BY <1>2 DEF vars
  <2>2. PlaceType'
    BY <1>0, <2>1 DEF PlaceType
  <2>3. PACWanted' <=> PACWanted
    BY <2>1 DEF PACWanted
  <2>4. PlaceInv'
    BY <2>1, <2>3, SameMachine DEF PlaceInv
  <2> QED  BY <2>1, <2>2, <2>4, SameTypes, TypePartsNext
<1> QED
  BY <1>1, <1>2, RoutesStep, VersionStep, SettingsStep, PACStep, VPNStep
     DEF Next, Command, Local, Done

\* TypeOK on every machine, however its commands end and its interfaces change.
THEOREM TypeCorrect == Spec => []TypeOK
<1>1. Init => TypeOK /\ PlaceInv
  BY TypeInit
<1>2. TypeOK /\ PlaceInv /\ [Next]_vars => TypeOK' /\ PlaceInv'
  BY TypeStep
<1> QED  BY <1>1, <1>2, PTL DEF Spec

LEMMA PlaceInvariant == Spec => [](TypeOK /\ PlaceInv)
  BY TypeInit, TypeStep, PTL DEF Spec

-----------------------------------------------------------------------------
\* One collector after the other: what each of them changes, and where it leads.

InRoutes ==
    /\ DiscoverInterfaces \/ RoutesNotImplemented \/ RouteSourceAnswers \/ RouteSourceFails
    /\ pc \in {"interfaces", "routes"} /\ pc' \in {"routes", "release"}
    /\ UNCHANGED <<version, system, pac, vpn>>

InVersion ==
    /\ ReadRelease \/ VersionAnswers \/ VersionFails
    /\ pc \in {"release", "version"} /\ pc' \in {"version", "proxy"} /\ n' = 1
    /\ UNCHANGED <<routes, shown, system, pac, vpn>>

InSettings ==
    /\ NoSystemProxy \/ QueryAnswers \/ QueryFails
    /\ pc = "proxy" /\ pc' \in {"proxy", "pac"}
    /\ UNCHANGED <<routes, shown, version, pac, vpn>>

InPAC ==
    /\ SkipPAC \/ PAC
    /\ pc \in {"pac", "pac_body"} /\ pc' \in {"pac_body", "tunnels"} /\ n' = 1
    /\ UNCHANGED <<routes, shown, version, system, vpn>>

InVPN ==
    /\ DetectVPNInterfaces \/ NoVPNListings \/ ListingAnswers \/ ListingFails \/ FilterVPNRoutes
    /\ pc \in {"tunnels", "apps", "filter"} /\ pc' \in {"apps", "filter", "done"}
    /\ UNCHANGED <<routes, shown, version, system, pac>>

Quiet == UNCHANGED <<pc, n, failed, routes, shown, version, system, pac, vpn>>

LEMMA Collectors ==
    ASSUME TypeOK, PlaceInv, [Next]_vars
    PROVE  /\ machine' = machine /\ failed \subseteq failed'
           /\ InRoutes \/ InVersion \/ InSettings \/ InPAC \/ InVPN \/ Quiet
<1>1. CASE LinkChanges
  BY <1>1 DEF LinkChanges, Quiet
<1>2. CASE Done \/ UNCHANGED vars
  BY <1>2 DEF Done, vars, Quiet
<1>3. CASE DiscoverInterfaces
  BY <1>3 DEF DiscoverInterfaces, InRoutes
<1>4. CASE RoutesNotImplemented
  BY <1>4 DEF RoutesNotImplemented, InRoutes
<1>5. CASE RouteSourceAnswers
  BY <1>5 DEF RouteSourceAnswers, InRoutes
<1>6. CASE RouteSourceFails
  BY <1>6 DEF RouteSourceFails, Fails, GoOn, InRoutes
<1>7. CASE ReadRelease
  BY <1>7 DEF ReadRelease, PlaceInv, InVersion
<1>8. CASE VersionAnswers
  BY <1>8 DEF VersionAnswers, PlaceInv, InVersion
<1>9. CASE VersionFails
  BY <1>9 DEF VersionFails, Fails, PlaceInv, InVersion
<1>10. CASE NoSystemProxy
  BY <1>10 DEF NoSystemProxy, InSettings
<1>11. CASE QueryAnswers
  BY <1>11 DEF QueryAnswers, GoOn, InSettings
<1>12. CASE QueryFails
  BY <1>12 DEF QueryFails, Fails, GoOn, InSettings
<1>13. CASE SkipPAC
  BY <1>13 DEF SkipPAC, PlaceInv, InPAC
<1>14. CASE PACFails
  BY <1>14 DEF PACFails, PAC, PlaceInv, InPAC
<1>15. CASE PACAnswers
  BY <1>15 DEF PACAnswers, PAC, PlaceInv, InPAC
<1>16. ASSUME NEW k, PACBodyRead(k), PAC
       PROVE  machine' = machine /\ failed \subseteq failed' /\ InPAC
  BY <1>16 DEF PACBodyRead, PlaceInv, InPAC
<1>17. CASE PACBodyArrives
  BY <1>16, <1>17 DEF PACBodyArrives, PAC
<1>18. CASE PACBodyRead(0)
  BY <1>16, <1>18 DEF PACTimesOut, PAC
<1>19. CASE DetectVPNInterfaces
  BY <1>19 DEF DetectVPNInterfaces, InVPN
<1>20. CASE NoVPNListings
  BY <1>20 DEF NoVPNListings, InVPN
<1>21. CASE ListingAnswers
  BY <1>21 DEF ListingAnswers, GoOn, InVPN
<1>22. CASE ListingFails
  BY <1>22 DEF ListingFails, Fails, GoOn, InVPN
<1>23. CASE FilterVPNRoutes
  BY <1>23 DEF FilterVPNRoutes, InVPN
<1> QED
  BY <1>1, <1>2, <1>3, <1>4, <1>5, <1>6, <1>7, <1>8, <1>9, <1>10, <1>11, <1>12, <1>13, <1>14,
     <1>15, <1>17, <1>18, <1>19, <1>20, <1>21, <1>22, <1>23
     DEF Next, Command, Local, PAC, PACTimesOut

-----------------------------------------------------------------------------
\* The routes and the version.

LEMMA RoutesInvStep == TypeOK /\ PlaceInv /\ RoutesInv /\ [Next]_vars => RoutesInv'
<1> SUFFICES ASSUME TypeOK, PlaceInv, RoutesInv, [Next]_vars PROVE RoutesInv'
  OBVIOUS
<1>0. /\ machine' = machine /\ failed \subseteq failed'
      /\ os' = os /\ RouteSources' = RouteSources
  BY Collectors, SameMachine
<1>1. DOMAIN RouteSources = 1..Len(RouteSources) /\ Len(RouteSources) \in Nat /\ n \in 1..6
  BY SourceTypes DEF TypeOK
<1>2. CASE DiscoverInterfaces
  <2>1. pc = "interfaces" /\ pc' = "routes" /\ n' = n /\ UNCHANGED <<routes, shown>>
    BY <1>2 DEF DiscoverInterfaces
  <2>2. n' = 1
    BY <2>1 DEF PlaceInv
  <2>3. \A k \in DOMAIN RouteSources : ~(k < 1)
    BY <1>1
  <2>4. shown.source = Nothing
    BY <2>1 DEF RoutesInv, ToRoutes
  <2> QED  BY <1>0, <2>1, <2>2, <2>3, <2>4 DEF RoutesInv, ToRoutes
<1>3. CASE RoutesNotImplemented
  <2>1. /\ pc = "routes" /\ pc' = "release" /\ RouteSources = <<>> /\ shown' = shown
        /\ routes' = [NoRoutes EXCEPT !.error = TRUE]
    BY <1>3 DEF RoutesNotImplemented
  <2>2. DOMAIN RouteSources = {}
    BY <2>1
  <2>3. routes'.available = FALSE /\ routes'.error = TRUE
    BY <2>1, NoRoutesType
  <2>4. shown.source = Nothing
    BY <2>1 DEF RoutesInv, ToRoutes
  <2> QED  BY <1>0, <2>1, <2>2, <2>3, <2>4 DEF RoutesInv, ToRoutes
<1>4. CASE RouteSourceAnswers
  <2> DEFINE list == Parsed(RouteSources[n], KernelTable)
  <2>1. /\ pc' = "release"
        /\ routes' = [available |-> TRUE, error |-> FALSE, list |-> list,
                      gateway |-> DefaultGateway(os, list)]
        /\ shown' = [source |-> RouteSources[n], table |-> KernelTable]
    BY <1>4 DEF RouteSourceAnswers
  <2>2. /\ routes'.available = TRUE /\ routes'.error = FALSE
        /\ routes'.list = Parsed(shown'.source, shown'.table)
        /\ routes'.gateway = DefaultGateway(os, routes'.list)
    BY <2>1
  <2> QED  BY <1>0, <2>1, <2>2 DEF RoutesInv, ToRoutes
<1>5. CASE RouteSourceFails
  <2>1. /\ pc = "routes" /\ n \in DOMAIN RouteSources /\ Fails
        /\ GoOn(RouteSources, n + 1, "release") /\ shown' = shown
        /\ routes' = IF n = Len(RouteSources) THEN [NoRoutes EXCEPT !.error = TRUE] ELSE routes
    BY <1>5 DEF RouteSourceFails
  <2>2. shown.source = Nothing
    BY <2>1 DEF RoutesInv, ToRoutes
  <2>3. \A k \in DOMAIN RouteSources : k < n + 1 => <<"routes", k>> \in failed'
    <3>1. <<"routes", n>> \in failed'
      BY <2>1 DEF Fails
    <3>2. \A k \in DOMAIN RouteSources : k < n => <<"routes", k>> \in failed'
      BY <1>0, <2>1 DEF RoutesInv
    <3>3. \A k \in DOMAIN RouteSources : k < n + 1 => k < n \/ k = n
      BY <1>1
    <3> QED  BY <3>1, <3>2, <3>3
  <2>4. CASE n + 1 \in DOMAIN RouteSources
    <3>1. n' = n + 1 /\ pc' = "routes"
      BY <2>1, <2>4, GoOnEffect
    <3> QED  BY <1>0, <2>1, <2>2, <2>3, <3>1 DEF RoutesInv, ToRoutes
  <2>5. CASE n + 1 \notin DOMAIN RouteSources
    <3>1. pc' = "release"
      BY <2>1, <2>5, GoOnEffect
    <3>2. n = Len(RouteSources) /\ \A k \in DOMAIN RouteSources : k < n + 1
      BY <1>1, <2>1, <2>5
    <3>3. routes'.available = FALSE /\ routes'.error = TRUE
      BY <2>1, <3>2, NoRoutesType
    <3> QED  BY <1>0, <2>1, <2>2, <2>3, <3>1, <3>2, <3>3 DEF RoutesInv, ToRoutes
  <2> QED  BY <2>4, <2>5
<1>6. CASE Quiet
  BY <1>0, <1>6 DEF Quiet, RoutesInv, ToRoutes
<1>7. CASE InVersion \/ InSettings \/ InPAC \/ InVPN
  <2>1. pc \notin ToRoutes /\ pc' \notin ToRoutes /\ UNCHANGED <<routes, shown>>
    BY <1>7 DEF InVersion, InSettings, InPAC, InVPN, ToRoutes
  <2> QED  BY <1>0, <2>1 DEF RoutesInv, ToRoutes
<1> QED
  BY <1>2, <1>3, <1>4, <1>5, <1>6, <1>7, Collectors DEF InRoutes

LEMMA VersionInvStep == TypeOK /\ PlaceInv /\ VersionInv /\ [Next]_vars => VersionInv'
<1> SUFFICES ASSUME TypeOK, PlaceInv, VersionInv, [Next]_vars PROVE VersionInv'
  OBVIOUS
<1>0. machine' = machine /\ failed \subseteq failed' /\ os' = os
  BY Collectors, SameMachine
<1>1. CASE ReadRelease
  BY <1>0, <1>1 DEF ReadRelease, VersionInv, ToVersion, ToRoutes
<1>2. CASE VersionAnswers
  BY <1>0, <1>2 DEF VersionAnswers, VersionInv, ToVersion, ToRoutes
<1>3. CASE VersionFails
  <2>1. pc = "version" /\ n = 1 /\ Fails
    BY <1>3 DEF VersionFails, PlaceInv
  <2>2. <<"version", 1>> \in failed'
    BY <2>1 DEF Fails
  <2> QED  BY <2>2 DEF VersionInv
<1>4. CASE Quiet
  BY <1>0, <1>4 DEF Quiet, VersionInv, ToVersion, ToRoutes
<1>5. CASE InRoutes
  BY <1>5 DEF InRoutes, VersionInv, ToVersion, ToRoutes
<1>6. CASE InSettings \/ InPAC \/ InVPN
  <2>1. pc \notin ToVersion /\ version' = version
    BY <1>6 DEF InSettings, InPAC, InVPN, ToVersion, ToRoutes
  <2> QED  BY <1>0, <2>1 DEF VersionInv
<1> QED
  BY <1>1, <1>2, <1>3, <1>4, <1>5, <1>6, Collectors DEF InVersion

-----------------------------------------------------------------------------
\* The settings: the answers of different queries do not overwrite each other.

LEMMA QueryOrder ==
    /\ DOMAIN ProxyQueries = 1..Len(ProxyQueries) /\ Len(ProxyQueries) \in Nat
    /\ Deciding = 1..Cardinality(Deciding) /\ Cardinality(Deciding) \in {1, 2}
    /\ DOMAIN ProxyQueries # {} => Cardinality(Deciding) <= Len(ProxyQueries)
<1>1. CASE os = "darwin"
  <2>1. DOMAIN ProxyQueries = 1..6 /\ Len(ProxyQueries) = 6
    BY <1>1, QueryList
  <2>2. Deciding = 1..2 /\ Cardinality(Deciding) = 2
    BY <1>1, DecidingQueries DEF Deciding
  <2> QED  BY <2>1, <2>2
<1>2. CASE os = "windows"
  <2>1. DOMAIN ProxyQueries = 1..4 /\ Len(ProxyQueries) = 4
    BY <1>2, QueryList
  <2>2. Deciding = 1..1 /\ Cardinality(Deciding) = 1
    BY <1>2, DecidingQueries DEF Deciding
  <2> QED  BY <2>1, <2>2
<1>3. CASE os \notin {"darwin", "windows"}
  <2>1. ProxyQueries = <<>>
    BY <1>3, QueryList
  <2>2. DOMAIN ProxyQueries = {} /\ Len(ProxyQueries) = 0
    BY <2>1
  <2> QED  BY <1>3, <2>2, DecidingQueries DEF Deciding
<1> QED
  BY <1>1, <1>2, <1>3

OfDarwin == {"web", "secure", "socks", "auto", "bypass"}
OfWindows == {"enable", "server", "override", "autoconfig"}

\* Queries of one system that ask for different things.
Apart(q, r) == q # r /\ ({q, r} \subseteq OfDarwin \/ {q, r} \subseteq OfWindows)

LEMMA QueriesApart ==
    ASSUME NEW j \in DOMAIN ProxyQueries, NEW k \in DOMAIN ProxyQueries
    PROVE  /\ ProxyQueries[k].of \in OfDarwin \cup OfWindows
           /\ j # k /\ k \notin Deciding => Apart(ProxyQueries[j].of, ProxyQueries[k].of)
<1>1. CASE os = "darwin"
  <2>1. j \in {1, 2, 3, 4, 5, 6} /\ k \in {1, 2, 3, 4, 5, 6}
    BY <1>1, QueryList
  <2>2. k \notin Deciding => k \in {3, 4, 5, 6}
    BY <1>1, <2>1, DecidingQueries
  <2> QED  BY <1>1, <2>1, <2>2, QueryList DEF Apart, OfDarwin
<1>2. CASE os = "windows"
  <2>1. j \in {1, 2, 3, 4} /\ k \in {1, 2, 3, 4}
    BY <1>2, QueryList
  <2> QED  BY <1>2, <2>1, QueryList DEF Apart, OfWindows
<1>3. CASE os \notin {"darwin", "windows"}
  <2>1. ProxyQueries = <<>>
    BY <1>3, QueryList
  <2>2. DOMAIN ProxyQueries = {}
    BY <2>1
  <2> QED  BY <2>2
<1> QED
  BY <1>1, <1>2, <1>3

\* The settings x have what the query q is answered by the service s.
Has(q, s, x) ==
    /\ q = "web" => x.enabled = s.enabled /\ x.http = s.http
    /\ q = "enable" => x.enabled = s.enabled
    /\ q = "secure" => x.https = s.https
    /\ q = "socks" => x.socks = IF s.socksEnabled THEN s.socks ELSE NoServer
    /\ q = "auto" => x.pacEnabled = s.pacEnabled /\ x.pac = s.pac
    /\ q \in {"bypass", "override"} => x.bypass = s.bypass
    /\ q = "server" =>
          x.http = s.http /\ x.https = s.https /\ x.ftp = s.ftp /\ x.socks = s.socks
    /\ q = "autoconfig" => x.pacEnabled = (s.pac # NoURL) /\ x.pac = s.pac

LEMMA AnsweredHas ==
    ASSUME NEW s \in Settings, NEW x \in Settings, NEW q \in OfDarwin \cup OfWindows
    PROVE  /\ Has(q, s, Answered(q, s, x))
           /\ Has(q, s, x) => Answered(q, s, x) = x
           /\ Answered(q, s, x) = x => Has(q, s, x)
<1>1. Has(q, s, Answered(q, s, x))
  <2>7. CASE q \in {"web", "enable"}
    BY <2>7 DEF Answered, Has, Settings
  <2>1. CASE q = "secure"
    BY <2>1 DEF Answered, Has, Settings
  <2>2. CASE q = "socks"
    BY <2>2 DEF Answered, Has, Settings
  <2>3. CASE q = "auto"
    BY <2>3 DEF Answered, Has, Settings
  <2>4. CASE q \in {"bypass", "override"}
    BY <2>4 DEF Answered, Has, Settings
  <2>5. CASE q = "server"
    BY <2>5 DEF Answered, Has, Settings
  <2>6. CASE q = "autoconfig"
    BY <2>6 DEF Answered, Has, Settings
  <2> QED  BY <2>1, <2>2, <2>3, <2>4, <2>5, <2>6, <2>7 DEF OfDarwin, OfWindows
<1>2. ASSUME Has(q, s, x) PROVE Answered(q, s, x) = x
  <2>7. CASE q \in {"web", "enable"}
    BY <1>2, <2>7 DEF Answered, Has, Settings
  <2>1. CASE q = "secure"
    BY <1>2, <2>1 DEF Answered, Has, Settings
  <2>2. CASE q = "socks"
    BY <1>2, <2>2 DEF Answered, Has, Settings
  <2>3. CASE q = "auto"
    BY <1>2, <2>3 DEF Answered, Has, Settings
  <2>4. CASE q \in {"bypass", "override"}
    BY <1>2, <2>4 DEF Answered, Has, Settings
  <2>5. CASE q = "server"
    BY <1>2, <2>5 DEF Answered, Has, Settings
  <2>6. CASE q = "autoconfig"
    BY <1>2, <2>6 DEF Answered, Has, Settings
  <2> QED  BY <2>1, <2>2, <2>3, <2>4, <2>5, <2>6, <2>7 DEF OfDarwin, OfWindows
<1> QED
  BY <1>1, <1>2

\* What one query told is still there when another has been answered.
LEMMA AnswersStay ==
    ASSUME NEW s \in Settings, NEW t \in Settings, NEW x \in Settings, NEW q, NEW r,
           Apart(q, r), Has(q, s, x)
    PROVE  Has(q, s, Answered(r, t, x))
<1>1. CASE r = "secure"
  BY <1>1 DEF Answered, Has, Settings, Apart, OfDarwin, OfWindows
<1>2. CASE r = "socks"
  BY <1>2 DEF Answered, Has, Settings, Apart, OfDarwin, OfWindows
<1>3. CASE r = "auto"
  BY <1>3 DEF Answered, Has, Settings, Apart, OfDarwin, OfWindows
<1>4. CASE r \in {"bypass", "override"}
  BY <1>4 DEF Answered, Has, Settings, Apart, OfDarwin, OfWindows
<1>5. CASE r = "server"
  BY <1>5 DEF Answered, Has, Settings, Apart, OfDarwin, OfWindows
<1>6. CASE r = "autoconfig"
  BY <1>6 DEF Answered, Has, Settings, Apart, OfDarwin, OfWindows
<1>7. CASE r \in {"web", "enable"}
  BY <1>7 DEF Answered, Has, Settings, Apart, OfDarwin, OfWindows
<1> QED
  BY <1>1, <1>2, <1>3, <1>4, <1>5, <1>6, <1>7 DEF Apart, OfDarwin, OfWindows

\* Only a query that fails fails.
LEMMA ProxyFailures ==
    ASSUME TypeOK, PlaceInv, [Next]_vars, ~QueryFails
    PROVE  \A k : <<"proxy", k>> \in failed' <=> <<"proxy", k>> \in failed
<1>1. CASE failed' = failed
  BY <1>1
<1>2. CASE Fails /\ pc # "proxy"
  BY <1>2 DEF Fails
<1>3. CASE RouteSourceFails
  BY <1>2, <1>3 DEF RouteSourceFails
<1>4. CASE VersionFails
  BY <1>2, <1>4 DEF VersionFails
<1>5. CASE ListingFails
  BY <1>2, <1>5 DEF ListingFails
<1>6. CASE LinkChanges \/ Local \/ Done \/ UNCHANGED vars
  BY <1>1, <1>6
     DEF LinkChanges, Local, Done, vars, DiscoverInterfaces, RoutesNotImplemented, ReadRelease,
         NoSystemProxy, SkipPAC, DetectVPNInterfaces, NoVPNListings, FilterVPNRoutes
<1>7. CASE PAC
  BY <1>1, <1>7
     DEF PAC, PACFails, PACAnswers, PACBodyArrives, PACTimesOut, PACBodyRead
<1>8. CASE RouteSourceAnswers \/ VersionAnswers \/ QueryAnswers \/ ListingAnswers
  BY <1>1, <1>8 DEF RouteSourceAnswers, VersionAnswers, QueryAnswers, ListingAnswers
<1> QED
  BY <1>3, <1>4, <1>5, <1>6, <1>7, <1>8 DEF Next, Command

LEMMA FailuresInvStep == TypeOK /\ PlaceInv /\ FailuresInv /\ [Next]_vars => FailuresInv'
<1> SUFFICES ASSUME TypeOK, PlaceInv, FailuresInv, [Next]_vars PROVE FailuresInv'
  OBVIOUS
<1>1. machine' = machine
  BY Collectors
<1>2. ProxyQueries' = ProxyQueries /\ Deciding' = Deciding
  BY <1>1, SameMachine
<1>3. /\ DOMAIN ProxyQueries = 1..Len(ProxyQueries) /\ Len(ProxyQueries) \in Nat
      /\ \A k \in Deciding : k <= Cardinality(Deciding) /\ k \in Nat
      /\ Cardinality(Deciding) \in {1, 2}
  BY QueryOrder
<1>4. CASE QueryFails
  <2>1. /\ pc = "proxy" /\ n \in DOMAIN ProxyQueries /\ failed' = failed \cup {<<"proxy", n>>}
        /\ \/ n' = 1 /\ pc' = "pac"
           \/ GoOn(ProxyQueries, n + 1, "pac")
    BY <1>4 DEF QueryFails, Fails
  <2>2. (n' = n + 1 /\ pc' = "proxy") \/ pc' = "pac"
    BY <2>1, GoOnEffect
  <2>3. \A k \in DOMAIN ProxyQueries : k >= n + 1 => <<"proxy", k>> \notin failed'
    BY <1>3, <2>1 DEF FailuresInv
  <2> QED  BY <1>2, <2>2, <2>3 DEF FailuresInv, ToVersion, ToRoutes
<1>5. CASE ~QueryFails
  <2>1. \A k : <<"proxy", k>> \in failed' <=> <<"proxy", k>> \in failed
    BY <1>5, ProxyFailures
  <2>2. CASE Quiet
    BY <1>2, <2>1, <2>2 DEF Quiet, FailuresInv
  <2>3. CASE InRoutes \/ InVersion
    BY <1>2, <2>1, <2>3 DEF InRoutes, InVersion, FailuresInv, ToVersion, ToRoutes
  <2>4. CASE InSettings
    <3>1. CASE NoSystemProxy
      BY <3>1 DEF NoSystemProxy, FailuresInv, ToVersion, ToRoutes
    <3>2. CASE QueryAnswers
      <4> DEFINE next == IF n \in Deciding THEN Cardinality(Deciding) + 1 ELSE n + 1
      <4>1. pc = "proxy" /\ n \in DOMAIN ProxyQueries /\ GoOn(ProxyQueries, next, "pac")
        BY <3>2 DEF QueryAnswers
      <4>2. (n' = next /\ pc' = "proxy") \/ pc' = "pac"
        BY <4>1, GoOnEffect
      <4>3. n \in Nat /\ next >= n /\ next \in Nat
        BY <1>3, <4>1
      <4> HIDE DEF next
      <4>4. \A k \in DOMAIN ProxyQueries : k >= next => k >= n
        BY <1>3, <4>3
      <4> QED  BY <1>2, <2>1, <4>1, <4>2, <4>4 DEF FailuresInv, ToVersion, ToRoutes
    <3> QED  BY <1>5, <2>4, <3>1, <3>2 DEF InSettings
  <2>5. CASE InPAC \/ InVPN
    BY <2>5 DEF InPAC, InVPN, FailuresInv, ToVersion, ToRoutes
  <2> QED  BY <2>2, <2>3, <2>4, <2>5, Collectors
<1> QED
  BY <1>4, <1>5

LEMMA SettingsQueries ==
    ASSUME TypeOK, PlaceInv, FailuresInv, SettingsInv, QueryAnswers
    PROVE  SettingsInv'
<1> DEFINE d == Cardinality(Deciding)
           q == ProxyQueries[n]
           now == machine.settings[q.service]
           so_far == IF system = Nothing THEN NoSettings ELSE system
<1>1. /\ machine' = machine /\ failed' = failed /\ pc = "proxy" /\ n \in DOMAIN ProxyQueries
      /\ now # Nothing /\ system' = Answered(q.of, now, so_far)
      /\ GoOn(ProxyQueries, IF n \in Deciding THEN d + 1 ELSE n + 1, "pac")
  BY DEF QueryAnswers
<1>2. ProxyQueries' = ProxyQueries /\ Deciding' = Deciding
  BY <1>1, SameMachine
<1>3. /\ DOMAIN ProxyQueries = 1..Len(ProxyQueries) /\ Len(ProxyQueries) \in Nat
      /\ Deciding = 1..d /\ d \in {1, 2} /\ d <= Len(ProxyQueries)
      /\ n \in 1..Len(ProxyQueries)
  BY <1>1, QueryOrder
<1>4. system \in Settings \cup {Nothing} /\ so_far \in Settings /\ now \in Settings
  BY <1>1, ServiceSettings, NoSettingsType DEF TypeOK
<1>5. system' \in Settings /\ system' # Nothing
  BY <1>1, <1>4, QueryTypes, AnsweredType, DiscoveryAssumption
<1>6. pc' = "proxy" \/ pc' = "pac"
  BY <1>1, GoOnEffect
<1>7. CASE n \in Deciding
  <2>0. Decided'
    <3>1. q.of \in OfDarwin \cup OfWindows
      BY <1>1, QueriesApart
    <3>2. Has(q.of, now, system')
      BY <1>1, <1>4, <3>1, AnsweredHas
    <3>3. Answered(q.of, now, system') = system'
      BY <1>4, <1>5, <3>1, <3>2, AnsweredHas
    <3>4. PICK k \in DOMAIN ProxyQueries : k = n
      BY <1>1
    <3>5. <<"proxy", k>> \notin failed'
      <4>1. n >= n
        BY <1>3
      <4> QED  BY <1>1, <3>4, <4>1 DEF FailuresInv
    <3>6. Said(k)'
      BY <1>1, <1>2, <3>3, <3>4 DEF Said
    <3>7. k \in DOMAIN ProxyQueries' \cap Deciding'
      BY <1>2, <1>7, <3>4
    <3> QED  BY <3>5, <3>6, <3>7 DEF Decided
  <2>1. \/ n' = d + 1 /\ pc' = "proxy"
        \/ pc' = "pac" /\ d + 1 \notin DOMAIN ProxyQueries
    BY <1>1, <1>7, GoOnEffect
  <2>2. CASE n' = d + 1 /\ pc' = "proxy"
    <3>1. n' \notin Deciding
      BY <1>3, <2>2
    <3>2. \A k \in DOMAIN ProxyQueries \ Deciding : ~(k < n')
      BY <1>3, <2>2
    <3> QED  BY <1>2, <1>5, <2>0, <2>2, <3>1, <3>2 DEF SettingsInv, ToVersion, ToRoutes, ToProxy
  <2>3. CASE pc' = "pac" /\ d + 1 \notin DOMAIN ProxyQueries
    <3>1. \A k \in DOMAIN ProxyQueries : k \in Deciding
      BY <1>3, <2>3
    <3> QED  BY <1>2, <1>5, <2>0, <2>3, <3>1 DEF SettingsInv, ToVersion, ToRoutes, ToProxy
  <2> QED  BY <2>1, <2>2, <2>3
<1>8. CASE n \notin Deciding
  <2>1. system # Nothing /\ so_far = system
    BY <1>1, <1>8 DEF SettingsInv
  <2>2. q.of \in OfDarwin \cup OfWindows
    BY <1>1, <1>8, QueriesApart
  <2>3. Has(q.of, now, system')
    BY <1>1, <1>4, <2>2, AnsweredHas
  <2>4. ASSUME NEW k \in DOMAIN ProxyQueries, k = n \/ Said(k)
        PROVE  Said(k)'
    <3> DEFINE qk == ProxyQueries[k]
               then == machine.settings[qk.service]
    <3>1. Said(k)' <=> \/ <<"proxy", k>> \in failed
                       \/ then # Nothing /\ system' = Answered(qk.of, then, system')
      BY <1>1, <1>2 DEF Said
    <3>2. qk.of \in OfDarwin \cup OfWindows
      BY QueriesApart
    <3>3. CASE k = n
      <4>1. Answered(q.of, now, system') = system'
        BY <1>4, <1>5, <2>2, <2>3, AnsweredHas
      <4> QED  BY <1>1, <3>1, <3>3, <4>1
    <3>4. CASE k # n /\ <<"proxy", k>> \notin failed
      <4>2. then # Nothing /\ system = Answered(qk.of, then, system)
        BY <2>4, <3>4 DEF Said
      <4>3. then \in Settings \cup {Nothing}
        BY ServiceSettings
      <4>4. then \in Settings
        BY <4>2, <4>3
      <4>5. Has(qk.of, then, system)
        BY <1>4, <2>1, <3>2, <4>2, <4>4, AnsweredHas
      <4>6. Apart(qk.of, q.of)
        BY <1>1, <1>8, <3>4, QueriesApart
      <4>7. Has(qk.of, then, system')
        BY <1>1, <1>4, <2>1, <4>4, <4>5, <4>6, AnswersStay
      <4>8. Answered(qk.of, then, system') = system'
        BY <1>5, <3>2, <4>4, <4>7, AnsweredHas
      <4> QED  BY <3>1, <4>2, <4>8
    <3> QED  BY <3>1, <3>3, <3>4
  <2>8. \A k \in DOMAIN ProxyQueries \ Deciding : k < n + 1 => Said(k)'
    <3>1. \A k \in DOMAIN ProxyQueries \ Deciding : k < n => Said(k)
      BY <1>1, <2>1 DEF SettingsInv
    <3>2. \A k \in DOMAIN ProxyQueries : k < n + 1 => k < n \/ k = n
      BY <1>3
    <3> QED  BY <2>4, <3>1, <3>2
  <2>9. Decided'
    <3>1. PICK k \in DOMAIN ProxyQueries \cap Deciding :
             <<"proxy", k>> \notin failed /\ Said(k)
      BY <1>1, <2>1 DEF SettingsInv, Decided
    <3>2. Said(k)'
      BY <2>4, <3>1
    <3> QED  BY <1>1, <1>2, <3>1, <3>2 DEF Decided
  <2>5. \/ n' = n + 1 /\ pc' = "proxy"
        \/ pc' = "pac" /\ n + 1 \notin DOMAIN ProxyQueries
    BY <1>1, <1>8, GoOnEffect
  <2>6. CASE n' = n + 1 /\ pc' = "proxy"
    <3>1. n' \notin Deciding
      BY <1>3, <1>8, <2>6
    <3>2. \A k \in DOMAIN ProxyQueries \ Deciding : k < n' => Said(k)'
      BY <2>6, <2>8
    <3> QED  BY <1>2, <1>5, <2>6, <2>9, <3>1, <3>2 DEF SettingsInv, ToVersion, ToRoutes, ToProxy
  <2>7. CASE pc' = "pac" /\ n + 1 \notin DOMAIN ProxyQueries
    <3>1. \A k \in DOMAIN ProxyQueries : k < n + 1
      BY <1>3, <2>7
    <3>2. \A k \in DOMAIN ProxyQueries \ Deciding : Said(k)'
      BY <2>8, <3>1
    <3> QED  BY <1>2, <1>5, <2>7, <2>9, <3>2 DEF SettingsInv, ToVersion, ToRoutes, ToProxy
  <2> QED  BY <2>5, <2>6, <2>7
<1> QED
  BY <1>7, <1>8

LEMMA SettingsFailures ==
    ASSUME TypeOK, PlaceInv, SettingsInv, QueryFails
    PROVE  SettingsInv'
<1> DEFINE d == Cardinality(Deciding)
<1>1. /\ machine' = machine /\ pc = "proxy" /\ n \in DOMAIN ProxyQueries /\ system' = system
      /\ failed' = failed \cup {<<"proxy", n>>}
      /\ IF n \in Deciding /\ n + 1 \notin Deciding THEN n' = 1 /\ pc' = "pac"
         ELSE GoOn(ProxyQueries, n + 1, "pac")
  BY DEF QueryFails, Fails
<1>2. ProxyQueries' = ProxyQueries /\ Deciding' = Deciding
  BY <1>1, SameMachine
<1>3. /\ DOMAIN ProxyQueries = 1..Len(ProxyQueries) /\ Len(ProxyQueries) \in Nat
      /\ Deciding = 1..d /\ d \in {1, 2} /\ d <= Len(ProxyQueries)
      /\ n \in 1..Len(ProxyQueries)
  BY <1>1, QueryOrder
<1>4. \A k \in DOMAIN ProxyQueries : k < n + 1 => k < n \/ k = n
  BY <1>3
<1>5. CASE n \in Deciding
  <2>1. system = Nothing
    BY <1>1, <1>5 DEF SettingsInv
  <2>2. \A k \in DOMAIN ProxyQueries \cap Deciding : k < n + 1 => <<"proxy", k>> \in failed'
    BY <1>1, <1>4, <2>1 DEF SettingsInv
  <2>3. CASE n + 1 \notin Deciding
    <3>1. \A k \in DOMAIN ProxyQueries \cap Deciding : k < n + 1
      BY <1>3, <1>5, <2>3
    <3>2. pc' = "pac"
      BY <1>1, <1>5, <2>3
    <3> QED  BY <1>1, <1>2, <2>1, <2>2, <3>1, <3>2 DEF SettingsInv, ToVersion, ToRoutes, ToProxy
  <2>4. CASE n + 1 \in Deciding
    <3>1. n + 1 \in DOMAIN ProxyQueries
      BY <1>3, <2>4
    <3>2. n' = n + 1 /\ pc' = "proxy"
      BY <1>1, <2>4, <3>1, GoOnEffect
    <3> QED  BY <1>1, <1>2, <2>1, <2>2, <2>4, <3>2 DEF SettingsInv, ToVersion, ToRoutes, ToProxy
  <2> QED  BY <2>3, <2>4
<1>6. CASE n \notin Deciding
  <2>1. system # Nothing
    BY <1>1, <1>6 DEF SettingsInv
  <2>2. ASSUME NEW k \in DOMAIN ProxyQueries \ Deciding, k < n + 1 PROVE Said(k)'
    <3>1. Said(k) => Said(k)'
      BY <1>1, <1>2 DEF Said
    <3>2. k < n => Said(k)
      BY <1>1, <2>1 DEF SettingsInv
    <3>3. k = n => Said(k)'
      BY <1>1 DEF Said
    <3> QED  BY <1>4, <2>2, <3>1, <3>2, <3>3
  <2>6. Decided'
    <3>1. PICK k \in DOMAIN ProxyQueries \cap Deciding :
             <<"proxy", k>> \notin failed /\ Said(k)
      BY <1>1, <2>1 DEF SettingsInv, Decided
    <3>2. Said(k)' /\ <<"proxy", k>> \notin failed'
      BY <1>1, <1>2, <1>6, <3>1 DEF Said
    <3> QED  BY <1>2, <3>1, <3>2 DEF Decided
  <2>3. \/ n' = n + 1 /\ pc' = "proxy"
        \/ pc' = "pac" /\ n + 1 \notin DOMAIN ProxyQueries
    BY <1>1, <1>6, GoOnEffect
  <2>4. CASE n' = n + 1 /\ pc' = "proxy"
    <3>1. n' \notin Deciding
      BY <1>3, <1>6, <2>4
    <3>2. \A k \in DOMAIN ProxyQueries \ Deciding : k < n' => Said(k)'
      BY <2>2, <2>4
    <3> QED  BY <1>1, <1>2, <2>1, <2>4, <2>6, <3>1, <3>2 DEF SettingsInv, ToVersion, ToRoutes, ToProxy
  <2>5. CASE pc' = "pac" /\ n + 1 \notin DOMAIN ProxyQueries
    <3>1. \A k \in DOMAIN ProxyQueries : k < n + 1
      BY <1>3, <2>5
    <3>2. \A k \in DOMAIN ProxyQueries \ Deciding : Said(k)'
      BY <2>2, <3>1
    <3> QED  BY <1>1, <1>2, <2>1, <2>5, <2>6, <3>2 DEF SettingsInv, ToVersion, ToRoutes, ToProxy
  <2> QED  BY <2>3, <2>4, <2>5
<1> QED
  BY <1>5, <1>6

LEMMA SettingsInvStep ==
    TypeOK /\ PlaceInv /\ FailuresInv /\ SettingsInv /\ [Next]_vars => SettingsInv'
<1> SUFFICES ASSUME TypeOK, PlaceInv, FailuresInv, SettingsInv, [Next]_vars
             PROVE  SettingsInv'
  OBVIOUS
<1>1. machine' = machine /\ failed \subseteq failed'
  BY Collectors
<1>2. ProxyQueries' = ProxyQueries /\ Deciding' = Deciding
  BY <1>1, SameMachine
<1>3. system' = system => \A k : Said(k) => Said(k)'
  BY <1>1, <1>2 DEF Said
<1>9. system' = system /\ ~QueryFails /\ Decided => Decided'
  <2> SUFFICES ASSUME system' = system, ~QueryFails, Decided PROVE Decided'
    OBVIOUS
  <2>1. PICK k \in DOMAIN ProxyQueries \cap Deciding :
           <<"proxy", k>> \notin failed /\ Said(k)
    BY DEF Decided
  <2>2. Said(k)' /\ <<"proxy", k>> \notin failed'
    BY <1>3, <2>1, ProxyFailures
  <2> QED  BY <1>2, <2>1, <2>2 DEF Decided
<1>10. QueryFails => pc = "proxy" /\ (pc' # pc \/ n' # n)
  <2> SUFFICES ASSUME QueryFails PROVE pc = "proxy" /\ (pc' # pc \/ n' # n)
    OBVIOUS
  <2>1. /\ pc = "proxy"
        /\ (n' = 1 /\ pc' = "pac") \/ GoOn(ProxyQueries, n + 1, "pac")
    BY DEF QueryFails
  <2>2. n \in Nat
    BY DEF TypeOK
  <2> QED  BY <2>1, <2>2, GoOnEffect
<1>4. CASE Quiet
  <2>1. ~QueryFails
    BY <1>4, <1>10 DEF Quiet
  <2> QED  BY <1>1, <1>2, <1>3, <1>4, <1>9, <2>1 DEF Quiet, SettingsInv
<1>5. CASE InRoutes
  BY <1>5 DEF InRoutes, SettingsInv, ToVersion, ToRoutes, ToProxy
<1>6. CASE InVersion
  <2>1. system' = Nothing /\ pc' \in {"version", "proxy"} /\ n' = 1
    BY <1>6 DEF InVersion, SettingsInv, ToVersion, ToRoutes
  <2>2. 1 \in Deciding /\ \A k \in DOMAIN ProxyQueries : ~(k < 1)
    BY QueryOrder
  <2> QED  BY <1>2, <2>1, <2>2 DEF SettingsInv, ToVersion, ToRoutes, ToProxy
<1>7. CASE NoSystemProxy
  <2>1. pc' = "pac" /\ ProxyQueries = <<>>
    BY <1>7 DEF NoSystemProxy
  <2>2. DOMAIN ProxyQueries = {}
    BY <2>1
  <2>3. pc = "proxy" /\ system' = system
    BY <1>7 DEF NoSystemProxy
  <2>4. system = Nothing
    BY <2>2, <2>3 DEF SettingsInv, Decided
  <2> QED  BY <1>2, <2>1, <2>2, <2>3, <2>4 DEF SettingsInv, ToVersion, ToRoutes, ToProxy
<1>8. CASE InPAC \/ InVPN
  <2>1. pc \notin ToProxy /\ pc' \notin ToProxy /\ pc' \notin ToVersion /\ pc' # "proxy"
        /\ system' = system /\ pc # "proxy"
    BY <1>8 DEF InPAC, InVPN, ToVersion, ToRoutes, ToProxy
  <2> QED  BY <1>1, <1>2, <1>3, <1>9, <1>10, <2>1 DEF SettingsInv
<1> QED
  BY <1>4, <1>5, <1>6, <1>7, <1>8, Collectors, SettingsQueries, SettingsFailures DEF InSettings

-----------------------------------------------------------------------------
\* The PAC file, the applications, the tunnels.

\* The PAC file that is in use once a query has been answered is one that the
\* service asked has in use.
LEMMA PACAnswered ==
    ASSUME TypeOK, NEW so_far \in Settings, NEW k \in DOMAIN ProxyQueries,
           machine.settings[ProxyQueries[k].service] # Nothing,
           so_far.pacEnabled /\ so_far.pac # NoURL => UsesPAC(so_far.pac),
           NEW x,
           x = Answered(ProxyQueries[k].of, machine.settings[ProxyQueries[k].service],
                        so_far),
           x.pacEnabled, x.pac # NoURL
    PROVE  UsesPAC(x.pac)
<1> DEFINE q == ProxyQueries[k].of
           service == ProxyQueries[k].service
           s == machine.settings[service]
<1>1. s \in Settings /\ service \in Service
  BY ServiceSettings, QueryTypes
<1>2. CASE q \in {"web", "secure", "socks", "bypass", "enable", "server", "override"}
  <2>1. x = Answered(q, s, so_far)
    OBVIOUS
  <2> HIDE DEF q, s
  <2>2. x.pacEnabled = so_far.pacEnabled /\ x.pac = so_far.pac
    BY <1>1, <1>2, <2>1 DEF Answered, Settings
  <2> QED  BY <2>2
<1>3. CASE q = "auto"
  <2>1. x.pacEnabled = s.pacEnabled /\ x.pac = s.pac
    BY <1>3 DEF Answered, Settings
  <2> QED  BY <1>1, <2>1 DEF UsesPAC
<1>4. CASE q = "autoconfig"
  <2>1. x.pac = s.pac
    BY <1>4 DEF Answered, Settings
  <2>2. service = "Registry" /\ os = "windows"
    <3>1. CASE os = "darwin"
      <4>1. \A j \in 1..6 : j \in {1, 2, 3, 4, 5, 6}
        OBVIOUS
      <4> QED  BY <1>4, <3>1, <4>1, QueryList
    <3>2. CASE os = "windows"
      <4>1. \A j \in 1..4 : j \in {1, 2, 3, 4}
        OBVIOUS
      <4> QED  BY <1>4, <3>2, <4>1, QueryList
    <3>3. CASE os \notin {"darwin", "windows"}
      <4>1. ProxyQueries = <<>>
        BY <3>3, QueryList
      <4>2. DOMAIN ProxyQueries = {}
        BY <4>1
      <4> QED  BY <4>2
    <3> QED  BY <3>1, <3>2, <3>3
  <2>3. s.pacEnabled <=> s.pac # NoURL
    <3>1. machine \in Machines /\ machine.os = "windows" /\ s = machine.settings["Registry"]
      BY <2>2 DEF TypeOK, os
    <3>2. s # Nothing
      OBVIOUS
    <3> QED  BY <3>1, <3>2, DiscoveryAssumption
  <2> QED  BY <1>1, <2>1, <2>3 DEF UsesPAC
<1> QED
  BY <1>2, <1>3, <1>4, QueryTypes

LEMMA PACInvStep == TypeOK /\ PlaceInv /\ PACInv /\ [Next]_vars => PACInv'
<1> SUFFICES ASSUME TypeOK, PlaceInv, PACInv, [Next]_vars PROVE PACInv'
  OBVIOUS
<1>1. machine' = machine
  BY Collectors
<1>2. /\ system' = system => (PACWanted' <=> PACWanted)
      /\ \A u : UsesPAC(u)' <=> UsesPAC(u)
  BY <1>1 DEF PACWanted, UsesPAC
<1>3. CASE Quiet \/ InRoutes \/ InVersion \/ InVPN
  <2>1. system' = system /\ pac' = pac /\ (pc' \in ToPAC <=> pc \in ToPAC)
    BY <1>3 DEF Quiet, InRoutes, InVersion, InVPN, ToPAC, ToProxy, ToVersion, ToRoutes
  <2> QED  BY <1>2, <2>1 DEF PACInv
<1>4. CASE InSettings
  <2>1. pac' = pac /\ pc \in ToPAC /\ pc' \in ToPAC
    BY <1>4 DEF InSettings, ToPAC, ToProxy, ToVersion, ToRoutes
  <2>2. pac' = Nothing
    BY <2>1 DEF PACInv
  <2>3. PACWanted' => UsesPAC(system.pac)'
    <3>1. CASE system' = system
      BY <1>2, <3>1 DEF PACInv
    <3>2. CASE QueryAnswers
      <4> DEFINE so_far == IF system = Nothing THEN NoSettings ELSE system
      <4>1. /\ n \in DOMAIN ProxyQueries
            /\ machine.settings[ProxyQueries[n].service] # Nothing
            /\ system' = Answered(ProxyQueries[n].of,
                                  machine.settings[ProxyQueries[n].service], so_far)
        BY <3>2 DEF QueryAnswers
      <4>2. so_far \in Settings
        BY NoSettingsType DEF TypeOK
      <4>3. so_far.pacEnabled /\ so_far.pac # NoURL => UsesPAC(so_far.pac)
        BY DEF NoSettings, PACInv, PACWanted
      <4> HIDE DEF so_far
      <4>4. system'.pacEnabled /\ system'.pac # NoURL => UsesPAC(system'.pac)
        BY <4>1, <4>2, <4>3, PACAnswered
      <4>5. PACWanted' => system'.pacEnabled /\ system'.pac # NoURL
        BY DEF PACWanted
      <4>6. UsesPAC(system'.pac) <=> UsesPAC(system.pac)'
        BY <1>1 DEF UsesPAC
      <4> QED  BY <4>4, <4>5, <4>6
    <3> QED  BY <1>4, <3>1, <3>2 DEF InSettings, NoSystemProxy, QueryFails
  <2> QED  BY <2>1, <2>2, <2>3 DEF PACInv
<1>5. CASE InPAC
  <2>1. system' = system
    BY <1>5 DEF InPAC
  <2>2. (PACWanted' <=> PACWanted) /\ (PACWanted => UsesPAC(system.pac)')
    BY <1>1, <2>1 DEF PACWanted, PACInv, UsesPAC
  <2>3. CASE SkipPAC
    <3>1. ~PACWanted /\ pc = "pac" /\ pc' = "tunnels" /\ pac' = pac
      BY <2>3 DEF SkipPAC
    <3>2. pac = Nothing
      BY <3>1 DEF PACInv, ToPAC
    <3> QED  BY <2>2, <3>1, <3>2 DEF PACInv, ToPAC, ToProxy, ToVersion, ToRoutes
  <2>4. CASE PACAnswers
    <3>1. pc = "pac" /\ pc' = "pac_body" /\ pac' = pac
      BY <2>4 DEF PACAnswers
    <3> QED  BY <2>1, <2>2, <3>1 DEF PACInv, ToPAC
  <2>5. ASSUME PACWanted, pc' = "tunnels", pac'.retrieved # pac'.error, pac'.url = system.pac,
               pac' # Nothing
        PROVE  PACInv'
    BY <2>1, <2>2, <2>5 DEF PACInv, ToPAC, ToProxy, ToVersion, ToRoutes
  <2>6. CASE PACFails
    <3>1. PACWanted /\ pc' = "tunnels"
          /\ pac' = [url |-> system.pac, read |-> 0, error |-> TRUE, retrieved |-> FALSE]
      BY <2>6 DEF PACFails
    <3>2. pac'.retrieved = FALSE /\ pac'.error = TRUE /\ pac'.url = system.pac
      BY <3>1
    <3>3. pac' \in PACFile
      <4>1. system.pac \in PACURL
        BY <3>1 DEF PACWanted, TypeOK, Settings
      <4> QED  BY <3>1, <4>1 DEF PACFile
    <3> QED  BY <2>5, <3>1, <3>2, <3>3, DiscoveryAssumption
  <2>7. ASSUME NEW k \in Nat, PACBodyRead(k) PROVE PACInv'
    <3>1. PACWanted /\ pc' = "tunnels"
          /\ pac' = [url |-> system.pac, read |-> k, error |-> FALSE, retrieved |-> TRUE]
      BY <2>7 DEF PACBodyRead, PlaceInv
    <3>2. pac'.retrieved = TRUE /\ pac'.error = FALSE /\ pac'.url = system.pac
      BY <3>1
    <3>3. pac' \in PACFile
      <4>1. system.pac \in PACURL
        BY <3>1 DEF PACWanted, TypeOK, Settings
      <4> QED  BY <3>1, <4>1 DEF PACFile
    <3> QED  BY <2>5, <3>1, <3>2, <3>3, DiscoveryAssumption
  <2>8. CASE PACBodyArrives
    <3>1. pc = "pac_body"
      BY <2>8 DEF PACBodyArrives
    <3>2. PACLength[system.pac] \in Nat
      BY <3>1, DiscoveryAssumption DEF PlaceInv, PACWanted, TypeOK, Settings
    <3>3. PICK k \in 0..PACLength[system.pac] : PACBodyRead(k)
      BY <2>8 DEF PACBodyArrives
    <3> QED  BY <2>7, <3>2, <3>3
  <2>9. CASE PACBodyRead(0)
    BY <2>7, <2>9
  <2> QED  BY <1>5, <2>3, <2>4, <2>6, <2>8, <2>9 DEF InPAC, PAC, PACTimesOut
<1> QED
  BY <1>3, <1>4, <1>5, Collectors

LEMMA ListingsInvStep == TypeOK /\ PlaceInv /\ ListingsInv /\ [Next]_vars => ListingsInv'
<1> SUFFICES ASSUME TypeOK, PlaceInv, ListingsInv, [Next]_vars PROVE ListingsInv'
  OBVIOUS
<1> DEFINE Told(k) == <<"apps", k>> \in failed \/ Listed(VPNListings[k]) \subseteq vpn.apps
           ToldNext(k) ==
               <<"apps", k>> \in failed' \/ Listed(VPNListings[k]) \subseteq vpn'.apps
<1>1. /\ machine' = machine /\ failed \subseteq failed' /\ VPNListings' = VPNListings
      /\ \A k : Listed(VPNListings[k])' = Listed(VPNListings[k])
  BY Collectors, SameMachine
<1>3. vpn.apps \subseteq vpn'.apps => \A k : Told(k) => ToldNext(k)
  BY <1>1
<1>4. /\ pc = "apps" => \A k \in DOMAIN VPNListings : k < n => Told(k)
      /\ pc \in {"filter", "done"} => \A k \in DOMAIN VPNListings : Told(k)
  BY DEF ListingsInv
<1>5. SUFFICES /\ pc' = "apps" => \A k \in DOMAIN VPNListings : k < n' => ToldNext(k)
               /\ pc' \in {"filter", "done"} => \A k \in DOMAIN VPNListings : ToldNext(k)
  BY <1>1 DEF ListingsInv
<1>6. vpn \in [detected: BOOLEAN, tunnels: SUBSET [name: Link, type: TunnelTypes],
               apps: SUBSET AppRows, routes: {vpn.routes}]
  BY TypeParts DEF VPNRecord
<1>7. /\ DOMAIN VPNListings = 1..Len(VPNListings) /\ DOMAIN VPNListings \subseteq 1..2
      /\ n \in 1..6
  BY ListingList DEF TypeOK
<1> HIDE DEF Told, ToldNext
<1>8. CASE Quiet
  BY <1>3, <1>4, <1>8 DEF Quiet
<1>9. CASE InRoutes \/ InVersion \/ InSettings \/ InPAC
  BY <1>9 DEF InRoutes, InVersion, InSettings, InPAC
<1>10. CASE DetectVPNInterfaces
  <2>1. pc' = "apps" /\ n' = 1
    BY <1>10 DEF DetectVPNInterfaces, PlaceInv
  <2>2. \A k \in DOMAIN VPNListings : ~(k < 1)
    BY <1>7
  <2> QED  BY <2>1, <2>2
<1>11. CASE NoVPNListings
  <2>1. DOMAIN VPNListings = {}
    BY <1>11 DEF NoVPNListings
  <2> QED  BY <2>1
<1>12. CASE ListingAnswers \/ ListingFails
  <2>1. pc = "apps" /\ n \in DOMAIN VPNListings /\ GoOn(VPNListings, n + 1, "filter")
    BY <1>12 DEF ListingAnswers, ListingFails
  <2>2. vpn.apps \subseteq vpn'.apps /\ ToldNext(n)
    <3>1. CASE ListingFails
      <4>1. vpn' = vpn /\ <<"apps", n>> \in failed'
        BY <3>1 DEF ListingFails, Fails
      <4> QED  BY <4>1 DEF ToldNext
    <3>2. CASE ListingAnswers
      <4>1. vpn'.apps = vpn.apps \cup Listed(VPNListings[n])
        BY <1>6, <3>2 DEF ListingAnswers
      <4> QED  BY <4>1 DEF ToldNext
    <3> QED  BY <1>12, <3>1, <3>2
  <2>3. \A k \in DOMAIN VPNListings : k < n + 1 => ToldNext(k)
    <3>1. \A k \in DOMAIN VPNListings : k < n + 1 => k < n \/ k = n
      BY <1>7
    <3> QED  BY <1>3, <1>4, <2>1, <2>2, <3>1
  <2>4. \/ n' = n + 1 /\ pc' = "apps"
        \/ pc' = "filter" /\ n + 1 \notin DOMAIN VPNListings
    BY <2>1, GoOnEffect
  <2>5. n + 1 \notin DOMAIN VPNListings => \A k \in DOMAIN VPNListings : k < n + 1
    BY <1>7, <2>1, ListingList
  <2> QED  BY <2>3, <2>4, <2>5
<1>13. CASE FilterVPNRoutes
  <2>1. pc = "filter" /\ pc' = "done"
    BY <1>13 DEF FilterVPNRoutes
  <2>2. vpn'.apps = vpn.apps
    BY <1>6, <1>13 DEF FilterVPNRoutes
  <2> QED  BY <1>3, <1>4, <2>1, <2>2
<1> QED
  BY <1>8, <1>9, <1>10, <1>11, <1>12, <1>13, Collectors DEF InVPN

LEMMA TunnelsInvStep == TypeOK /\ PlaceInv /\ TunnelsInv /\ [Next]_vars => TunnelsInv'
<1> SUFFICES ASSUME TypeOK, PlaceInv, TunnelsInv, [Next]_vars PROVE TunnelsInv'
  OBVIOUS
<1>1. CASE Quiet
  <2>1. TunnelNames' = TunnelNames
    BY <1>1 DEF Quiet, TunnelNames
  <2> QED  BY <1>1, <2>1 DEF Quiet, TunnelsInv
<1>2. CASE FilterVPNRoutes
  <2> DEFINE kept ==
        [p \in {q \in DOMAIN routes.list : routes.list[q].interface \in TunnelNames} |->
           routes.list[p]]
  <2>1. vpn' = [vpn EXCEPT !.routes = kept] /\ routes' = routes
    BY <1>2 DEF FilterVPNRoutes
  <2>2. vpn'.routes = kept /\ vpn'.tunnels = vpn.tunnels
    <3>1. vpn \in [detected: BOOLEAN, tunnels: SUBSET [name: Link, type: TunnelTypes],
                   apps: SUBSET AppRows, routes: {vpn.routes}]
      BY TypeParts DEF VPNRecord
    <3> HIDE DEF kept
    <3> QED  BY <2>1, <3>1
  <2>3. TunnelNames' = TunnelNames
    BY <2>2 DEF TunnelNames
  <2> QED  BY <2>1, <2>2, <2>3 DEF TunnelsInv
<1>3. CASE pc' # "done"
  BY <1>3 DEF TunnelsInv
<1> QED
  BY <1>1, <1>2, <1>3, Collectors
     DEF InRoutes, InVersion, InSettings, InPAC, InVPN, DetectVPNInterfaces, NoVPNListings,
         ListingAnswers, ListingFails, GoOn

-----------------------------------------------------------------------------
\* What the report says, and what it lacks.

LEMMA ReportInit ==
    Init => /\ RoutesInv /\ VersionInv /\ FailuresInv /\ SettingsInv
            /\ PACInv /\ ListingsInv /\ TunnelsInv
<1> SUFFICES ASSUME Init
             PROVE  /\ RoutesInv /\ VersionInv /\ FailuresInv /\ SettingsInv
                    /\ PACInv /\ ListingsInv /\ TunnelsInv
  OBVIOUS
<1>1. pc = "interfaces" /\ system = Nothing /\ pac = Nothing /\ shown.source = Nothing
  BY DEF Init
<1>2. RoutesInv
  BY <1>1 DEF RoutesInv, ToRoutes
<1>3. VersionInv
  BY <1>1 DEF VersionInv, ToVersion, ToRoutes
<1>4. SettingsInv
  BY <1>1 DEF SettingsInv, ToVersion, ToProxy, ToRoutes
<1>7. FailuresInv
  BY <1>1 DEF FailuresInv, Init
<1>5. PACInv
  BY <1>1 DEF PACInv, ToPAC, ToProxy, ToVersion, ToRoutes, PACWanted
<1>6. ListingsInv /\ TunnelsInv
  BY <1>1 DEF ListingsInv, TunnelsInv
<1> QED
  BY <1>2, <1>3, <1>4, <1>5, <1>6, <1>7

LEMMA RoutesInvariant == Spec => []RoutesInv
  BY ReportInit, PlaceInvariant, RoutesInvStep, PTL DEF Spec

LEMMA VersionInvariant == Spec => []VersionInv
  BY ReportInit, PlaceInvariant, VersionInvStep, PTL DEF Spec

LEMMA FailuresInvariant == Spec => []FailuresInv
  BY ReportInit, PlaceInvariant, FailuresInvStep, PTL DEF Spec

LEMMA SettingsInvariant == Spec => []SettingsInv
  BY ReportInit, PlaceInvariant, FailuresInvariant, SettingsInvStep, PTL DEF Spec

LEMMA PACInvariant == Spec => []PACInv
  BY ReportInit, PlaceInvariant, PACInvStep, PTL DEF Spec

LEMMA ListingsInvariant == Spec => []ListingsInv
  BY ReportInit, PlaceInvariant, ListingsInvStep, PTL DEF Spec

LEMMA TunnelsInvariant == Spec => []TunnelsInv
  BY ReportInit, PlaceInvariant, TunnelsInvStep, PTL DEF Spec

\* The PAC file reported is in use, and is an error or the beginning of a body.
THEOREM PACInUse == Spec => []PACIsInUse
<1>1. PACInv /\ TypeOK => PACIsInUse
  <2> SUFFICES ASSUME PACInv, pac # Nothing PROVE PACIsInUse
    BY DEF PACIsInUse
  <2>1. pac.retrieved # pac.error /\ pac.url = system.pac /\ PACWanted
    BY DEF PACInv
  <2>2. UsesPAC(system.pac)
    BY <2>1 DEF PACInv
  <2> QED  BY <2>1, <2>2 DEF PACIsInUse, UsesPAC
<1> QED
  BY <1>1, PACInvariant, TypeCorrect, PTL

\* At the end of discovery every part the report lacks has its failure: of the
\* routes all sources, of a listing or a setting its own command, and of all the
\* settings together, with the PAC file, all the queries that decide whether there
\* are any.  Where one of these is answered, it and all the others that are answered
\* are reported.
THEOREM OnlyFailuresCost == Spec => []NothingElseIsLost
<1>1. RoutesInv /\ VersionInv /\ SettingsInv /\ PACInv /\ ListingsInv => NothingElseIsLost
  <2> SUFFICES ASSUME RoutesInv, VersionInv, SettingsInv, PACInv, ListingsInv, pc = "done"
               PROVE  NothingElseIsLost
    BY DEF NothingElseIsLost
  <2>1. /\ pc \notin ToRoutes /\ pc \notin ToVersion /\ pc \notin ToProxy /\ pc \notin ToPAC
    BY DEF ToRoutes, ToVersion, ToProxy, ToPAC
  <2>2. /\ routes.available # routes.error
        /\ ~routes.available => \A k \in DOMAIN RouteSources : <<"routes", k>> \in failed
    BY <2>1 DEF RoutesInv
  <2>3. version = "unknown" => os = "freebsd" \/ <<"version", 1>> \in failed
    BY <2>1 DEF VersionInv
  <2>7. PACWanted <=> pac # Nothing
    BY <2>1 DEF PACInv
  <2>8. \A k : Said(k) => <<"proxy", k>> \in failed \/ IsReported(k)
    BY DEF Said, IsReported
  <2>6. \A k \in DOMAIN VPNListings :
           <<"apps", k>> \in failed \/ Listed(VPNListings[k]) \subseteq vpn.apps
    BY DEF ListingsInv
  <2>4. CASE system = Nothing
    <3>1. \A k \in DOMAIN ProxyQueries \cap Deciding : <<"proxy", k>> \in failed
      BY <2>1, <2>4 DEF SettingsInv
    <3>2. pac = Nothing
      BY <2>4, <2>7 DEF PACWanted
    <3> QED  BY <2>2, <2>3, <2>4, <2>6, <3>1, <3>2 DEF NothingElseIsLost
  <2>5. CASE system # Nothing
    <3>1. /\ Decided
          /\ \A k \in DOMAIN ProxyQueries \ Deciding : Said(k)
      BY <2>1, <2>5 DEF SettingsInv
    <3>2. \E k \in DOMAIN ProxyQueries \cap Deciding :
             <<"proxy", k>> \notin failed /\ IsReported(k)
      BY <2>8, <3>1 DEF Decided
    <3>3. \A k \in DOMAIN ProxyQueries \ Deciding :
             <<"proxy", k>> \in failed \/ IsReported(k)
      BY <2>8, <3>1
    <3> QED  BY <2>2, <2>3, <2>5, <2>6, <2>7, <3>2, <3>3 DEF NothingElseIsLost
  <2> QED  BY <2>4, <2>5
<1> QED
  BY <1>1, RoutesInvariant, VersionInvariant, SettingsInvariant, PACInvariant,
     ListingsInvariant, PTL

-----------------------------------------------------------------------------
\* The table that was captured and the table that is reported.

\* The source of the routes is one of the system's.
LEMMA SourceKnown ==
    ASSUME TypeOK, Understood
    PROVE  shown.source \in Readable /\ SourceOf(shown.source, os)
<1>1. PICK k \in DOMAIN RouteSources : shown.source = RouteSources[k]
  BY DEF TypeOK, Understood
<1>2. SourceOf(shown.source, os)
  BY <1>1, SourceTypes
<1>3. shown.source # "route-n"
  BY DEF Understood
<1> QED
  BY <1>2, <1>3 DEF SourceOf, Readable

\* The lines reported are those of the table, at their places.
LEMMA LinesShown ==
    ASSUME TypeOK, RoutesInv, Understood
    PROVE  /\ routes.list = Parsed(shown.source, shown.table)
           /\ Table(shown.table)
           /\ Headed = WithLine(shown.source, shown.table)
           /\ \A k \in Headed :
                 /\ k \in Nat /\ shown.table[k] \in KernelRoute
                 /\ routes.list[<<k, 0>>] = Line(shown.source, shown.table[k])
<1>1. routes.list = Parsed(shown.source, shown.table)
  BY DEF RoutesInv, Understood
<1>2. Table(shown.table)
  BY DEF TypeOK
<1>3. Headed = WithLine(shown.source, shown.table)
  BY DEF Headed, WithLine
<1>4. \A k \in Headed : k \in Nat /\ shown.table[k] \in KernelRoute
  BY <1>2 DEF Headed, Table
<1> QED
  BY <1>1, <1>2, <1>3, <1>4, SourceKnown, ParsedLines

\* Two routes with a line are reported as going to one destination exactly if they
\* do, but for ip route's reject routes and /proc/net/route's defaults.
THEOREM NetworksAreDistinct == Spec => []NetworksStayDistinct
<1>1. TypeOK /\ RoutesInv => NetworksStayDistinct
  <2> SUFFICES ASSUME TypeOK, RoutesInv, Understood, NEW j \in Headed, NEW k \in Headed
               PROVE  LET a == shown.table[j]
                          b == shown.table[k]
                          x == routes.list[<<j, 0>>]
                          y == routes.list[<<k, 0>>]
                      IN  <<x.net, x.len, x.netmask>> = <<y.net, y.len, y.netmask>> <=>
                              IF Unnamed(a) \/ Unnamed(b) THEN a.type = b.type
                              ELSE /\ a.net = b.net
                                   /\ \/ a.len = b.len
                                      \/ a.net = AnyNet /\ shown.source = "/proc/net/route"
    BY DEF NetworksStayDistinct
  <2> DEFINE a == shown.table[j]
             b == shown.table[k]
             x == routes.list[<<j, 0>>]
             y == routes.list[<<k, 0>>]
  <2>1. SameDestination(x, y) <=> OneDestination(shown.source, a, b)
    BY SourceKnown, LinesShown, DestinationsMatch
  <2>2. SameDestination(x, y) <=>
            <<x.net, x.len, x.netmask>> = <<y.net, y.len, y.netmask>>
    BY DEF SameDestination
  <2>3. OneDestination(shown.source, a, b) <=>
            IF Unnamed(a) \/ Unnamed(b) THEN a.type = b.type
            ELSE /\ a.net = b.net
                 /\ \/ a.len = b.len
                    \/ a.net = AnyNet /\ shown.source = "/proc/net/route"
    BY DEF OneDestination, Unnamed
  <2> QED  BY <2>1, <2>2, <2>3
<1> QED
  BY <1>1, TypeCorrect, RoutesInvariant, PTL

\* The gateway reported is that of the first route with a line that is or passes for
\* a default.
THEOREM GatewayIsTheTables == Spec => []DefaultGatewayIsTheTables
<1>1. TypeOK /\ RoutesInv => DefaultGatewayIsTheTables
  <2> SUFFICES ASSUME TypeOK, RoutesInv, Understood
               PROVE  DefaultGatewayIsTheTables
    BY DEF DefaultGatewayIsTheTables
  <2>1. Defaults = {k \in WithLine(shown.source, shown.table) :
                       TakenForDefault(shown.source, shown.table[k])}
    BY LinesShown DEF Defaults, PassesForDefault, Unnamed, TakenForDefault
  <2>2. DefaultRoutes(os, routes.list) = Defaults \X {0}
    BY <2>1, SourceKnown, LinesShown, DefaultsFound
  <2>3. routes.gateway = DefaultGateway(os, routes.list)
    BY DEF RoutesInv, Understood
  <2>4. CASE Defaults = {}
    <3>1. DefaultRoutes(os, routes.list) = {}
      BY <2>2, <2>4
    <3> QED  BY <2>3, <2>4, <3>1 DEF DefaultGateway, DefaultGatewayIsTheTables
  <2>5. CASE Defaults # {}
    <3> DEFINE f == First(Defaults)
               r == shown.table[f]
    <3>1. f \in Defaults /\ FirstLine(Defaults \X {0}) = <<f, 0>>
      <4>1. Defaults \in SUBSET Nat
        BY LinesShown DEF Defaults
      <4> QED  BY <2>5, <4>1, FirstLineIs
    <3>2. f \in Headed
      BY <3>1 DEF Defaults
    <3>3. DefaultRoutes(os, routes.list) # {}
      BY <2>2, <3>1
    <3>4. routes.gateway = Line(shown.source, r).gateway
      BY <2>2, <2>3, <3>1, <3>2, <3>3, LinesShown DEF DefaultGateway
    <3>5. r \in KernelRoute /\ shown.source \in Readable
      BY <3>2, LinesShown, SourceKnown
    <3> HIDE DEF f
    <3>6. IF GivesNoGateway(shown.source, r) THEN routes.gateway \in {NoGateway, OnLink}
          ELSE routes.gateway = r.hops[1].gateway
      BY <3>4, <3>5, LineGateway
    <3> QED  BY <2>5, <3>6 DEF f, GivesNoGateway, DefaultGatewayIsTheTables
  <2> QED  BY <2>4, <2>5
<1> QED
  BY <1>1, TypeCorrect, RoutesInvariant, PTL

\* The VPN's routes are the captured routes through its interfaces, hop by hop.
THEOREM TunnelRoutesFound == Spec => []TunnelRoutesAreFound
<1>1. TypeOK /\ RoutesInv /\ TunnelsInv => TunnelRoutesAreFound
  <2> DEFINE P == {q \in DOMAIN routes.list : routes.list[q].interface \in TunnelNames}
             H == UNION {HopLines(k) : k \in DOMAIN shown.table}
             Q == {q \in H : HopShown(q).dev \in TunnelNames}
  <2> SUFFICES ASSUME TypeOK, RoutesInv, TunnelsInv, pc = "done", Understood,
                      shown.source # "route-print"
               PROVE  vpn.routes = [p \in Q |-> routes.list[p]]
    BY DEF TunnelRoutesAreFound
  <2>1. TunnelNames \in SUBSET Link
    BY TypeParts DEF VPNRecord, TunnelNames
  <2>2. shown.source \in Readable \ {"route-print"}
    BY SourceKnown
  <2>3. P = {q \in LinesOfHops(shown.source, shown.table) :
                HopAt(shown.table, q).dev \in TunnelNames}
    <3>1. routes.list = Parsed(shown.source, shown.table) /\ Table(shown.table)
      BY LinesShown
    <3> QED  BY <2>1, <2>2, <3>1, LinesThrough
  <2>4. H = LinesOfHops(shown.source, shown.table)
    BY DEF HopLines, LinesOfHops
  <2>5. \A q : HopShown(q) = HopAt(shown.table, q)
    BY DEF HopShown, HopAt
  <2>6. P = Q
    BY <2>3, <2>4, <2>5
  <2>7. vpn.routes = [p \in P |-> routes.list[p]]
    BY DEF TunnelsInv
  <2> HIDE DEF P, Q
  <2> QED  BY <2>6, <2>7
<1> QED
  BY <1>1, TypeCorrect, RoutesInvariant, TunnelsInvariant, PTL

\* Whatever four bytes are read as a mask, they count as their length, or as none;
\* TLC looks at those made of five of the octets there are
\* (network.go:856-909).
THEOREM MasksKeepTheirLength == Spec => []MaskLengths
<1>1. [1..4 -> {0, 1, 128, 252, 255}] \subseteq [1..4 -> 0..255]
  OBVIOUS
<1>2. MaskLengths
  BY <1>1, EveryMaskKeepsItsLength DEF MaskLengths
<1> QED
  BY <1>2, PTL

=============================================================================
