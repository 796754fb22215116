----------------------------- MODULE RouteTable -----------------------------
(***************************************************************************)
(* The kernel's IPv4 routing table, and what tlscheck makes of the ways    *)
(* the systems show it: ip route, route -n, /proc/net/route, netstat -rn,  *)
(* route print.  internal/discovery/network.go, 704-1052.                  *)
(*                                                                         *)
(* A line's metric and flags are left out, and IPv6 gateways of IPv4       *)
(* routes.  What the tools print is theirs to choose; what is modelled is  *)
(* which of it the parsers keep, and as what.                              *)
(***************************************************************************)
EXTENDS Integers, Sequences, FiniteSets

CONSTANTS
    Net,        \* network addresses
    AnyNet,     \* 0.0.0.0
    HeaderWord, \* the first word of a line that is no route
    Gateway,    \* addresses of gateways
    NoGateway,
    OnLink,     \* what netstat and route print show for no gateway
    Link,       \* names of interfaces
    NoLink,
    AddressOf   \* the address of each interface

\* Types of Linux routes that send nothing.
RejectTypes == {"blackhole", "unreachable", "prohibit", "throw"}

\* What the parsers take for a destination besides networks.
Word == {HeaderWord, "nexthop"} \cup RejectTypes

ASSUME RouteTableAssumption ==
    /\ AnyNet \in Net /\ Word \cap Net = {}
    /\ {NoGateway, OnLink} \cap Gateway = {} /\ NoGateway # OnLink
    /\ NoLink \notin Link
    /\ \A l \in Link : AddressOf[l] \notin Link

Hop == [gateway: Gateway \cup {NoGateway}, dev: Link]

\* The kernel takes no route whose address has bits beyond its length.  A multipath
\* route has several hops, a reject route none.  noted: ip route has a protocol or a
\* metric to show for it, which it omits where they are what they are by default.
KernelRoute ==
    {r \in [type: {"unicast"} \cup RejectTypes, net: Net, len: 0..32, hops: Seq(Hop),
            noted: BOOLEAN] :
        /\ r.len = 0 => r.net = AnyNet
        /\ r.type = "unicast" <=> r.hops # <<>>}

Multipath(r) == Len(r.hops) > 1

\* A destination written without its length, as a host route is.
Bare == -1

\* Route.  "default" is [net |-> AnyNet, len |-> 0], "0.0.0.0" is the bare AnyNet.
Route ==
    [net: Net \cup Word, len: 0..32 \cup {Bare}, netmask: 0..32 \cup {Bare},
     gateway: Gateway \cup {NoGateway, OnLink},
     interface: Link \cup {NoLink} \cup {AddressOf[l] : l \in Link}]

\* The kernel's table: routes at some of the places, in their order.
Table(table) == DOMAIN table \subseteq Nat /\ table \in [DOMAIN table -> KernelRoute]

\* A listing: <<k, 0>> is the line of the route at place k, <<k, i>> that of its
\* i-th hop where it has one of its own.
Listing(list) ==
    DOMAIN list \subseteq ({-1} \cup Nat) \X Nat /\ list \in [DOMAIN list -> Route]

First(places) == CHOOSE n \in places : \A m \in places : n <= m

Before(p, q) == p[1] < q[1] \/ (p[1] = q[1] /\ p[2] < q[2])

FirstLine(lines) == CHOOSE p \in lines : \A q \in lines : p = q \/ Before(p, q)

-----------------------------------------------------------------------------
\* Netmasks, as four octets.

\* The mask of a length.
Octets(len) ==
    [k \in 1..4 |->
        LET ones == IF len >= 8 * k THEN 8 ELSE IF len < 8 * (k - 1) THEN 0 ELSE len % 8
        IN  256 - 2^(8 - ones)]

\* The kernel prints the 32-bit word in the machine's byte order, little-endian
\* on the systems the program is built for.
ProcHex(octets) == [k \in 1..4 |-> octets[5 - k]]

\* Faulty: the bytes are read in the order they are printed in.
HexToIPFault(hex) == hex

HexToIP(hex) == [k \in 1..4 |-> hex[5 - k]]

\* The 32 bits, the first one of the first octet leading.
Bits(mask) ==
    [k \in 1..32 |-> (mask[(k - 1) \div 8 + 1] \div 2^(7 - ((k - 1) % 8))) % 2]

\* Faulty: a one after a zero is counted like any other.
MaskToCIDRFault(mask) == Cardinality({k \in 1..32 : Bits(mask)[k] = 1})

\* The ones are counted; one after a zero makes the mask invalid, which is given
\* as 0.
MaskToCIDR(mask) ==
    LET ones == {k \in 1..32 : Bits(mask)[k] = 1}
    IN  IF \E j \in 1..32 \ ones, k \in ones : j < k THEN 0 ELSE Cardinality(ones)

-----------------------------------------------------------------------------
\* How a route comes out of each source.

\* Host routes are printed without length.
Printed(r) == IF r.len = 32 THEN Bare ELSE r.len

NoHop == [gateway |-> NoGateway, dev |-> NoLink]

FirstHop(r) == IF r.hops = <<>> THEN NoHop ELSE r.hops[1]

\* ip route show: "default via ... dev ..." or "10.0.0.0/8 dev ...".  A reject
\* route's line begins with its type, and a multipath route's has neither "via" nor
\* "dev".
IpRoute(r) ==
    LET hop == IF Multipath(r) THEN NoHop ELSE FirstHop(r) IN
    [net |-> IF r.type = "unicast" THEN r.net ELSE r.type,
     len |-> IF r.type = "unicast" THEN Printed(r) ELSE Bare,
     netmask |-> Bare, gateway |-> hop.gateway, interface |-> hop.dev]

\* Each hop of a multipath route has a line: "nexthop via ... dev ...".
NextHop(hop) ==
    [net |-> "nexthop", len |-> Bare, netmask |-> Bare, gateway |-> hop.gateway,
     interface |-> hop.dev]

\* Nothing follows the destination, and the parser wants two words.
Curt(r) == Multipath(r) /\ ~r.noted

IpRouteLines(r) ==
    IF Curt(r) THEN 1..Len(r.hops) ELSE IF Multipath(r) THEN 0..Len(r.hops) ELSE {0}

\* route -n goes through the same parser, which looks for the words "via" and
\* "dev" and finds neither.
RouteN(r) ==
    [net |-> r.net, len |-> Bare, netmask |-> Bare, gateway |-> NoGateway,
     interface |-> NoLink]

\* /proc/net/route: a destination of zeroes is the default, whatever its mask.  The
\* kernel shows the first hop alone, and "*" for none, which names no interface.
ProcNetRoute(r) ==
    LET cidr == MaskToCIDR(HexToIP(ProcHex(Octets(r.len))))
    IN  [net |-> r.net,
         len |-> CASE r.net = AnyNet -> 0
                   [] r.net # AnyNet /\ cidr \in 1..31 -> cidr
                   [] OTHER -> Bare,
         netmask |-> Bare, gateway |-> FirstHop(r).gateway, interface |-> FirstHop(r).dev]

\* On macOS and Windows every route has its one hop.
Via(r) == IF FirstHop(r).gateway = NoGateway THEN OnLink ELSE FirstHop(r).gateway

\* Faulty: the interface is taken from the column of the flags.
NetstatFault(r) ==
    [net |-> r.net, len |-> Printed(r), netmask |-> Bare, gateway |-> Via(r),
     interface |-> NoLink]

\* netstat -rn, the IPv4 section.
Netstat(r) ==
    [net |-> r.net, len |-> Printed(r), netmask |-> Bare, gateway |-> Via(r),
     interface |-> FirstHop(r).dev]

\* route print -4: the interface column has the interface's address.
RoutePrint(r) ==
    [net |-> r.net, len |-> Bare, netmask |-> r.len, gateway |-> Via(r),
     interface |-> AddressOf[FirstHop(r).dev]]

HeaderLine ==
    [net |-> HeaderWord, len |-> Bare, netmask |-> Bare, gateway |-> NoGateway,
     interface |-> NoLink]

\* The headers of route -n have words enough to pass for two routes.
Parsed(source, table) ==
    LET Routes == (DOMAIN table) \X {0} IN
    CASE source = "ip-route" ->
            [p \in UNION {{k} \X IpRouteLines(table[k]) : k \in DOMAIN table} |->
                IF p[2] = 0 THEN IpRoute(table[p[1]]) ELSE NextHop(table[p[1]].hops[p[2]])]
      [] source = "route-n" ->
            [p \in Routes \cup {<<-1, 0>>, <<0, 0>>} |->
                IF p[1] < 1 THEN HeaderLine ELSE RouteN(table[p[1]])]
      [] source = "/proc/net/route" -> [p \in Routes |-> ProcNetRoute(table[p[1]])]
      [] source = "netstat" -> [p \in Routes |-> Netstat(table[p[1]])]
      [] source = "route-print" -> [p \in Routes |-> RoutePrint(table[p[1]])]

\* What counts as the default destination on each system.
IsDefault(os, r) ==
    /\ r.net = AnyNet
    /\ CASE os = "linux" -> r.len \in {0, Bare}
         [] os = "darwin" -> r.len = 0
         [] os = "windows" -> r.len = Bare

DefaultRoutes(os, routes) == {p \in DOMAIN routes : IsDefault(os, routes[p])}

\* Faulty: the loop goes on after the default route, and the last one wins.
DefaultGatewayFault(os, routes) ==
    IF DefaultRoutes(os, routes) = {} THEN NoGateway
    ELSE routes[CHOOSE p \in DefaultRoutes(os, routes) :
                   \A q \in DefaultRoutes(os, routes) : ~Before(p, q)].gateway

\* The gateway of the first default route, which may have none.
DefaultGateway(os, routes) ==
    IF DefaultRoutes(os, routes) = {} THEN NoGateway
    ELSE routes[FirstLine(DefaultRoutes(os, routes))].gateway
=============================================================================
