-------------------------- MODULE RouteTableProofs --------------------------
(***************************************************************************)
(* What the parsers of routing tables return for every table: lines that   *)
(* are well typed, masks of their length, the gateway of the first default *)
(* route.                                                                  *)
(***************************************************************************)
EXTENDS RouteTable, NaturalOrder

LEMMA CountTo ==
    \A b \in Nat : IsFiniteSet(1..b) /\ Cardinality(1..b) = b
<1>1. ASSUME NEW b \in Nat PROVE IsFiniteSet(1..b) /\ Cardinality(1..b) = b
  <2>1. Cardinality(1..b) = IF 1 > b THEN 0 ELSE b - 1 + 1
    BY FS_Interval
  <2>2. IsFiniteSet(1..b)
    BY FS_Interval
  <2> QED  BY <2>1, <2>2
<1> QED
  BY <1>1

\* The first of several places.
LEMMA FirstIs ==
    ASSUME NEW S \in SUBSET ({-1} \cup Nat), S # {}
    PROVE  First(S) \in S /\ \A m \in S : First(S) <= m
<1>1. \E x \in S : \A y \in S : x <= y
  <2>1. CASE -1 \in S
    BY <2>1
  <2>2. CASE -1 \notin S
    <3>1. S \in SUBSET Nat
      BY <2>2
    <3> QED  BY <3>1, LeastNatural
  <2> QED  BY <2>1, <2>2
<1> QED
  BY <1>1 DEF First

\* The first of several lines of one place each.
LEMMA FirstLineIs ==
    ASSUME NEW S \in SUBSET Nat, S # {}
    PROVE  /\ First(S) \in S
           /\ FirstLine(S \X {0}) = <<First(S), 0>>
<1>1. First(S) \in S /\ \A m \in S : First(S) <= m
  BY FirstIs
<1> DEFINE p == <<First(S), 0>>
           L == S \X {0}
<1>2. p \in L /\ \A q \in L : p = q \/ Before(p, q)
  <2>1. ASSUME NEW q \in L PROVE p = q \/ Before(p, q)
    <3>1. q[1] \in S /\ q[2] = 0 /\ q = <<q[1], 0>>
      OBVIOUS
    <3>2. First(S) <= q[1] /\ First(S) \in Nat /\ q[1] \in Nat
      BY <1>1, <3>1
    <3>3. CASE q[1] = First(S)
      BY <3>1, <3>3
    <3>4. CASE First(S) < q[1]
      BY <3>4 DEF Before
    <3> QED  BY <3>2, <3>3, <3>4
  <2> QED  BY <1>1, <2>1
<1>3. ASSUME NEW x \in L, \A q \in L : x = q \/ Before(x, q) PROVE x = p
  <2>1. x = p \/ Before(x, p)
    BY <1>2, <1>3
  <2>2. p = x \/ Before(p, x)
    BY <1>2
  <2>3. x[1] \in Nat /\ x[2] = 0 /\ First(S) \in Nat
    BY <1>1
  <2>4. ~(Before(x, p) /\ Before(p, x))
    BY <2>3 DEF Before
  <2> QED  BY <2>1, <2>2, <2>4
<1>4. FirstLine(L) = p
  <2> HIDE DEF p, L
  <2> QED  BY <1>2, <1>3 DEF FirstLine
<1> QED
  BY <1>1, <1>4

LEMMA KernelRouteType ==
    ASSUME NEW r \in KernelRoute
    PROVE  /\ r.type \in {"unicast"} \cup RejectTypes
           /\ r.net \in Net /\ r.len \in 0..32 /\ (r.len = 0 => r.net = AnyNet)
           /\ r.hops \in Seq(Hop) /\ (r.type = "unicast" <=> r.hops # <<>>)
  BY DEF KernelRoute

LEMMA HopTypes ==
    ASSUME NEW r \in KernelRoute
    PROVE  /\ \A i \in DOMAIN r.hops : r.hops[i] \in Hop
           /\ r.hops # <<>> => r.hops[1] \in Hop
           /\ FirstHop(r).gateway \in Gateway \cup {NoGateway}
           /\ FirstHop(r).dev \in Link \cup {NoLink}
           /\ r.hops # <<>> => FirstHop(r).dev \in Link
<1>1. r.hops \in Seq(Hop)
  BY KernelRouteType
<1>2. r.hops # <<>> => r.hops[1] \in Hop
  BY <1>1
<1>3. \A i \in DOMAIN r.hops : r.hops[i] \in Hop
  BY <1>1
<1> QED
  BY <1>2, <1>3 DEF FirstHop, NoHop, Hop

LEMMA LineTypes ==
    ASSUME NEW r \in KernelRoute
    PROVE  /\ IpRoute(r) \in Route /\ RouteN(r) \in Route /\ ProcNetRoute(r) \in Route
           /\ Netstat(r) \in Route
           /\ r.hops # <<>> => RoutePrint(r) \in Route
           /\ \A i \in DOMAIN r.hops : NextHop(r.hops[i]) \in Route
<1>1. r.net \in Net /\ r.len \in 0..32 /\ r.type \in {"unicast"} \cup RejectTypes
  BY KernelRouteType
<1>2. /\ FirstHop(r).gateway \in Gateway \cup {NoGateway}
      /\ FirstHop(r).dev \in Link \cup {NoLink}
  BY HopTypes
<1>3. Printed(r) \in 0..32 \cup {Bare} /\ Via(r) \in Gateway \cup {NoGateway, OnLink}
  BY <1>1, <1>2 DEF Printed, Via
<1>4. RouteN(r) \in Route /\ Netstat(r) \in Route
  BY <1>1, <1>2, <1>3 DEF RouteN, Netstat, Route
<1>5. IpRoute(r) \in Route
  <2> DEFINE hop == IF Multipath(r) THEN NoHop ELSE FirstHop(r)
             net == IF r.type = "unicast" THEN r.net ELSE r.type
             len == IF r.type = "unicast" THEN Printed(r) ELSE Bare
  <2>1. hop.gateway \in Gateway \cup {NoGateway} /\ hop.dev \in Link \cup {NoLink}
    BY <1>2 DEF NoHop
  <2>2. net \in Net \cup Word /\ len \in 0..32 \cup {Bare}
    BY <1>1, <1>3 DEF Word
  <2>3. IpRoute(r) = [net |-> net, len |-> len, netmask |-> Bare,
                      gateway |-> hop.gateway, interface |-> hop.dev]
    BY DEF IpRoute
  <2> HIDE DEF hop, net, len
  <2> QED  BY <2>1, <2>2, <2>3 DEF Route
<1>6. r.hops # <<>> => RoutePrint(r) \in Route
  BY <1>1, <1>3, HopTypes DEF RoutePrint, Route
<1>7. ASSUME NEW i \in DOMAIN r.hops PROVE NextHop(r.hops[i]) \in Route
  <2>1. r.hops[i] \in Hop
    BY HopTypes
  <2> QED  BY <2>1 DEF NextHop, Route, Hop, Word
<1>8. ProcNetRoute(r) \in Route
  <2> DEFINE cidr == MaskToCIDR(HexToIP(ProcHex(Octets(r.len))))
             len == CASE r.net = AnyNet -> 0
                      [] r.net # AnyNet /\ cidr \in 1..31 -> cidr
                      [] OTHER -> Bare
  <2>1. len \in 0..32 \cup {Bare}
    <3> HIDE DEF cidr
    <3> QED  OBVIOUS
  <2>2. ProcNetRoute(r) = [net |-> r.net, len |-> len, netmask |-> Bare,
                           gateway |-> FirstHop(r).gateway,
                           interface |-> FirstHop(r).dev]
    BY DEF ProcNetRoute
  <2> HIDE DEF len
  <2> QED  BY <1>1, <1>2, <2>1, <2>2 DEF Route
<1> QED
  BY <1>4, <1>5, <1>6, <1>7, <1>8

\* A source the parsers know, and the system it is found on.
SourceOf(source, system_) ==
    \/ source \in {"ip-route", "route-n", "/proc/net/route"} /\ system_ = "linux"
    \/ source = "netstat" /\ system_ = "darwin"
    \/ source = "route-print" /\ system_ = "windows"

\* What is parsed of a table, source by source.
Lines(table) == UNION {{k} \X IpRouteLines(table[k]) : k \in DOMAIN table}

LEMMA ParsedIs ==
    ASSUME NEW table
    PROVE  /\ Parsed("ip-route", table) =
                [p \in Lines(table) |->
                    IF p[2] = 0 THEN IpRoute(table[p[1]])
                    ELSE NextHop(table[p[1]].hops[p[2]])]
           /\ Parsed("route-n", table) =
                [p \in ((DOMAIN table) \X {0}) \cup {<<-1, 0>>, <<0, 0>>} |->
                    IF p[1] < 1 THEN HeaderLine ELSE RouteN(table[p[1]])]
           /\ Parsed("/proc/net/route", table) =
                [p \in (DOMAIN table) \X {0} |-> ProcNetRoute(table[p[1]])]
           /\ Parsed("netstat", table) =
                [p \in (DOMAIN table) \X {0} |-> Netstat(table[p[1]])]
           /\ Parsed("route-print", table) =
                [p \in (DOMAIN table) \X {0} |-> RoutePrint(table[p[1]])]
  BY DEF Parsed, Lines

\* The places of ip route's lines.
LEMMA LinesAre ==
    ASSUME NEW table, Table(table), NEW p \in Lines(table)
    PROVE  /\ p = <<p[1], p[2]>>
           /\ p[1] \in DOMAIN table /\ p[1] \in Nat /\ p[2] \in Nat
           /\ table[p[1]] \in KernelRoute
           /\ p[2] # 0 => p[2] \in DOMAIN table[p[1]].hops /\ Multipath(table[p[1]])
           /\ p[2] = 0 => ~Curt(table[p[1]])
<1>1. PICK k \in DOMAIN table : p \in {k} \X IpRouteLines(table[k])
  BY DEF Lines
<1>2. p = <<p[1], p[2]>> /\ p[1] = k /\ p[2] \in IpRouteLines(table[k])
  BY <1>1
<1>3. table[k] \in KernelRoute /\ k \in Nat
  BY DEF Table
<1>4. table[k].hops \in Seq(Hop)
  BY <1>3, KernelRouteType
<1>5. CASE Curt(table[k])
  <2>1. p[2] \in 1..Len(table[k].hops)
    BY <1>2, <1>5 DEF IpRouteLines
  <2> QED  BY <1>2, <1>3, <1>4, <1>5, <2>1 DEF Curt
<1>6. CASE ~Curt(table[k])
  <2>1. p[2] \in IF Multipath(table[k]) THEN 0..Len(table[k].hops) ELSE {0}
    BY <1>2, <1>6 DEF IpRouteLines
  <2> QED  BY <1>2, <1>3, <1>4, <1>6, <2>1
<1> QED
  BY <1>5, <1>6

\* Outside Linux every route has its hop.
OneHop(table) == \A k \in DOMAIN table : table[k].hops # <<>>

LEMMA ParsedType ==
    ASSUME NEW source, NEW system_, SourceOf(source, system_),
           NEW table, Table(table), system_ # "linux" => OneHop(table)
    PROVE  Listing(Parsed(source, table))
<1> DEFINE P == (DOMAIN table) \X {0}
<1>1. /\ DOMAIN table \subseteq Nat
      /\ \A k \in DOMAIN table : table[k] \in KernelRoute
  BY DEF Table
<1>2. HeaderLine \in Route
  BY DEF HeaderLine, Route, Word
<1>0. P \subseteq ({-1} \cup Nat) \X Nat /\ \A p \in P : p[1] \in DOMAIN table /\ table[p[1]] \in KernelRoute
  BY <1>1
<1>3. CASE source = "ip-route"
  <2> DEFINE list == [p \in Lines(table) |->
                         IF p[2] = 0 THEN IpRoute(table[p[1]])
                         ELSE NextHop(table[p[1]].hops[p[2]])]
  <2>1. Parsed(source, table) = list
    BY <1>3, ParsedIs
  <2>2. Lines(table) \subseteq ({-1} \cup Nat) \X Nat
    <3>1. ASSUME NEW p \in Lines(table) PROVE p \in ({-1} \cup Nat) \X Nat
      <4>1. p = <<p[1], p[2]>> /\ p[1] \in Nat /\ p[2] \in Nat
        BY LinesAre
      <4> QED  BY <4>1
    <3> QED  BY <3>1
  <2>3. ASSUME NEW p \in Lines(table) PROVE list[p] \in Route
    <3>1. /\ table[p[1]] \in KernelRoute
          /\ p[2] # 0 => p[2] \in DOMAIN table[p[1]].hops
      BY LinesAre
    <3> QED  BY <3>1, LineTypes
  <2> HIDE DEF list
  <2>4. DOMAIN list = Lines(table) /\ list = [p \in Lines(table) |-> list[p]]
    BY DEF list
  <2> QED  BY <2>1, <2>2, <2>3, <2>4 DEF Listing
<1>4. CASE source = "route-n"
  <2> DEFINE places == P \cup {<<-1, 0>>, <<0, 0>>}
             list == [p \in places |->
                         IF p[1] < 1 THEN HeaderLine ELSE RouteN(table[p[1]])]
  <2>1. Parsed(source, table) = list
    BY <1>4, ParsedIs
  <2>2. places \subseteq ({-1} \cup Nat) \X Nat /\ DOMAIN list = places
    BY <1>0
  <2>3. ASSUME NEW p \in places PROVE list[p] \in Route
    <3>1. CASE p[1] < 1
      BY <1>2, <3>1
    <3>2. CASE ~(p[1] < 1)
      <4>1. p \in P
        BY <3>2
      <4> QED  BY <1>0, <3>2, <4>1, LineTypes
    <3> QED  BY <3>1, <3>2
  <2> QED  BY <2>1, <2>2, <2>3 DEF Listing
<1>5. CASE source = "/proc/net/route"
  <2> DEFINE list == [p \in P |-> ProcNetRoute(table[p[1]])]
  <2>1. Parsed(source, table) = list
    BY <1>5, ParsedIs
  <2>2. \A p \in P : list[p] \in Route
    BY <1>0, LineTypes
  <2> QED  BY <1>0, <2>1, <2>2 DEF Listing
<1>6. CASE source = "netstat"
  <2> DEFINE list == [p \in P |-> Netstat(table[p[1]])]
  <2>1. Parsed(source, table) = list
    BY <1>6, ParsedIs
  <2>2. \A p \in P : list[p] \in Route
    BY <1>0, LineTypes
  <2> QED  BY <1>0, <2>1, <2>2 DEF Listing
<1>7. CASE source = "route-print"
  <2> DEFINE list == [p \in P |-> RoutePrint(table[p[1]])]
  <2>1. Parsed(source, table) = list
    BY <1>7, ParsedIs
  <2>2. \A p \in P : list[p] \in Route
    BY <1>0, <1>7, LineTypes DEF SourceOf, OneHop
  <2> QED  BY <1>0, <2>1, <2>2 DEF Listing
<1> QED
  BY <1>3, <1>4, <1>5, <1>6, <1>7 DEF SourceOf

\* The first line there is.
LEMMA SomeFirstLine ==
    ASSUME NEW S \in SUBSET (({-1} \cup Nat) \X Nat), S # {}
    PROVE  FirstLine(S) \in S
<1> DEFINE K == {p[1] : p \in S}
           k == First(K)
           I == {i \in Nat : <<k, i>> \in S}
           p == <<k, First(I)>>
<1>1. K \in SUBSET ({-1} \cup Nat) /\ K # {}
  OBVIOUS
<1>2. k \in K /\ \A m \in K : k <= m
  <2> HIDE DEF K
  <2> QED  BY <1>1, FirstIs
<1>3. I \in SUBSET ({-1} \cup Nat) /\ I # {}
  <2>1. PICK q \in S : q[1] = k
    BY <1>2
  <2>2. q = <<k, q[2]>> /\ q[2] \in Nat
    BY <2>1
  <2> QED  BY <2>2
<1>4. First(I) \in I /\ \A m \in I : First(I) <= m
  <2> HIDE DEF I
  <2> QED  BY <1>3, FirstIs
<1>5. p \in S
  BY <1>4
<1>6. ASSUME NEW q \in S PROVE p = q \/ Before(p, q)
  <2>1. q = <<q[1], q[2]>> /\ q[1] \in K /\ q[1] \in Int /\ q[2] \in Nat
    OBVIOUS
  <2>2. k <= q[1] /\ k \in Int
    BY <1>1, <1>2, <2>1
  <2>3. CASE k = q[1]
    <3>1. q[2] \in I
      BY <2>1, <2>3
    <3>2. First(I) <= q[2] /\ First(I) \in Nat
      BY <1>3, <1>4, <3>1
    <3>3. First(I) = q[2] \/ First(I) < q[2]
      BY <2>1, <3>2
    <3> HIDE DEF I, k
    <3> QED  BY <2>1, <2>3, <3>3 DEF Before
  <2>4. CASE k < q[1]
    <3> HIDE DEF I, k
    <3> QED  BY <2>4 DEF Before
  <2> QED  BY <2>1, <2>2, <2>3, <2>4
<1> HIDE DEF p
<1> QED
  BY <1>5, <1>6 DEF FirstLine

LEMMA GatewayType ==
    ASSUME NEW system_, NEW list, Listing(list)
    PROVE  DefaultGateway(system_, list) \in Gateway \cup {NoGateway, OnLink}
<1> DEFINE D == DefaultRoutes(system_, list)
<1>1. D \subseteq DOMAIN list /\ D \in SUBSET (({-1} \cup Nat) \X Nat)
  BY DEF DefaultRoutes, Listing
<1>2. CASE D = {}
  BY <1>2 DEF DefaultGateway
<1>3. CASE D # {}
  <2>1. FirstLine(D) \in DOMAIN list
    <3> HIDE DEF D
    <3> QED  BY <1>1, <1>3, SomeFirstLine
  <2>2. list[FirstLine(D)] \in Route
    BY <2>1 DEF Listing
  <2>3. DefaultGateway(system_, list) = list[FirstLine(D)].gateway
    BY <1>3 DEF DefaultGateway
  <2> QED  BY <2>2, <2>3 DEF Route
<1> QED
  BY <1>2, <1>3

-----------------------------------------------------------------------------
\* Masks: octets, their bits, their lengths.

LEMMA Powers ==
    /\ 2^0 = 1 /\ 2^1 = 2 /\ 2^2 = 4 /\ 2^3 = 8 /\ 2^4 = 16 /\ 2^5 = 32 /\ 2^6 = 64
    /\ 2^7 = 128 /\ 2^8 = 256
  OBVIOUS

\* Bit i of an octet, the first one leading.
OctetBit(v, i) == (v \div 2^(7 - i)) % 2

\* An octet that begins with so many ones.
Leading(ones) == 256 - 2^(8 - ones)

LEMMA OctetBits ==
    ASSUME NEW v \in 0..255
    PROVE  /\ OctetBit(v, 0) = (v \div 128) % 2
           /\ OctetBit(v, 1) = (v \div 64) % 2
           /\ OctetBit(v, 2) = (v \div 32) % 2
           /\ OctetBit(v, 3) = (v \div 16) % 2
           /\ OctetBit(v, 4) = (v \div 8) % 2
           /\ OctetBit(v, 5) = (v \div 4) % 2
           /\ OctetBit(v, 6) = (v \div 2) % 2
           /\ OctetBit(v, 7) = v % 2
<1>1. /\ 7 - 0 = 7 /\ 7 - 1 = 6 /\ 7 - 2 = 5 /\ 7 - 3 = 4
      /\ 7 - 4 = 3 /\ 7 - 5 = 2 /\ 7 - 6 = 1 /\ 7 - 7 = 0
  OBVIOUS
<1>2. v \div 1 = v
  OBVIOUS
<1> QED
  BY <1>1, <1>2, Powers DEF OctetBit

LEMMA LeadingValues ==
    /\ Leading(0) = 0 /\ Leading(1) = 128 /\ Leading(2) = 192 /\ Leading(3) = 224
    /\ Leading(4) = 240 /\ Leading(5) = 248 /\ Leading(6) = 252 /\ Leading(7) = 254
    /\ Leading(8) = 255
<1>1. /\ 8 - 0 = 8 /\ 8 - 1 = 7 /\ 8 - 2 = 6 /\ 8 - 3 = 5 /\ 8 - 4 = 4
      /\ 8 - 5 = 3 /\ 8 - 6 = 2 /\ 8 - 7 = 1 /\ 8 - 8 = 0
  OBVIOUS
<1> QED
  BY <1>1, Powers DEF Leading

LEMMA OctetSum ==
    ASSUME NEW v \in 0..255
    PROVE  v = 128 * OctetBit(v, 0) + 64 * OctetBit(v, 1) + 32 * OctetBit(v, 2)
                 + 16 * OctetBit(v, 3) + 8 * OctetBit(v, 4) + 4 * OctetBit(v, 5)
                 + 2 * OctetBit(v, 6) + OctetBit(v, 7)
<1>1. v \div 128 = (v \div 128) % 2
  OBVIOUS
<1>2. v \div 64 = 2 * (v \div 128) + ((v \div 64) % 2)
  OBVIOUS
<1>3. v \div 32 = 2 * (v \div 64) + ((v \div 32) % 2)
  OBVIOUS
<1>4. v \div 16 = 2 * (v \div 32) + ((v \div 16) % 2)
  OBVIOUS
<1>5. v \div 8 = 2 * (v \div 16) + ((v \div 8) % 2)
  OBVIOUS
<1>6. v \div 4 = 2 * (v \div 8) + ((v \div 4) % 2)
  OBVIOUS
<1>7. v \div 2 = 2 * (v \div 4) + ((v \div 2) % 2)
  OBVIOUS
<1>8. v = 2 * (v \div 2) + (v % 2)
  OBVIOUS
<1>9. v = 128 * ((v \div 128) % 2) + 64 * ((v \div 64) % 2) + 32 * ((v \div 32) % 2)
           + 16 * ((v \div 16) % 2) + 8 * ((v \div 8) % 2) + 4 * ((v \div 4) % 2)
           + 2 * ((v \div 2) % 2) + (v % 2)
  BY <1>1, <1>2, <1>3, <1>4, <1>5, <1>6, <1>7, <1>8
<1> QED
  BY <1>9, OctetBits

LEMMA SameBits ==
    ASSUME NEW v \in 0..255, NEW w \in 0..255,
           \A i \in 0..7 : OctetBit(v, i) = OctetBit(w, i)
    PROVE  v = w
<1>1. /\ OctetBit(v, 0) = OctetBit(w, 0) /\ OctetBit(v, 1) = OctetBit(w, 1)
      /\ OctetBit(v, 2) = OctetBit(w, 2) /\ OctetBit(v, 3) = OctetBit(w, 3)
      /\ OctetBit(v, 4) = OctetBit(w, 4) /\ OctetBit(v, 5) = OctetBit(w, 5)
      /\ OctetBit(v, 6) = OctetBit(w, 6) /\ OctetBit(v, 7) = OctetBit(w, 7)
  OBVIOUS
<1> DEFINE Sum(u) == 128 * OctetBit(u, 0) + 64 * OctetBit(u, 1) + 32 * OctetBit(u, 2)
                 + 16 * OctetBit(u, 3) + 8 * OctetBit(u, 4) + 4 * OctetBit(u, 5)
                 + 2 * OctetBit(u, 6) + OctetBit(u, 7)
<1>2. v = Sum(v) /\ w = Sum(w)
  BY OctetSum
<1>3. Sum(v) = Sum(w)
  BY <1>1
<1> QED
  BY <1>2, <1>3

LEMMA EightBits == \A i \in 0..7 : i \in {0, 1, 2, 3, 4, 5, 6, 7}
  OBVIOUS

\* Bit i is set exactly if it is one of the leading ones.
LEMMA LeadingBits ==
    ASSUME NEW ones \in 0..8
    PROVE  Leading(ones) \in 0..255 /\
           \A i \in 0..7 : OctetBit(Leading(ones), i) = IF i < ones THEN 1 ELSE 0
<1> DEFINE B(i) == OctetBit(Leading(ones), i)
<1>0. Leading(ones) \in 0..255 /\ ones \in {0, 1, 2, 3, 4, 5, 6, 7, 8}
  BY LeadingValues
<1>1. CASE ones = 0
  <2>1. /\ B(0) = 0 /\ B(1) = 0 /\ B(2) = 0 /\ B(3) = 0
        /\ B(4) = 0 /\ B(5) = 0 /\ B(6) = 0 /\ B(7) = 0
    BY <1>0, <1>1, OctetBits, LeadingValues
  <2> QED  BY <1>0, <1>1, <2>1, EightBits
<1>2. CASE ones = 1
  <2>1. /\ B(0) = 1 /\ B(1) = 0 /\ B(2) = 0 /\ B(3) = 0
        /\ B(4) = 0 /\ B(5) = 0 /\ B(6) = 0 /\ B(7) = 0
    BY <1>0, <1>2, OctetBits, LeadingValues
  <2> QED  BY <1>0, <1>2, <2>1, EightBits
<1>3. CASE ones = 2
  <2>1. /\ B(0) = 1 /\ B(1) = 1 /\ B(2) = 0 /\ B(3) = 0
        /\ B(4) = 0 /\ B(5) = 0 /\ B(6) = 0 /\ B(7) = 0
    BY <1>0, <1>3, OctetBits, LeadingValues
  <2> QED  BY <1>0, <1>3, <2>1, EightBits
<1>4. CASE ones = 3
  <2>1. /\ B(0) = 1 /\ B(1) = 1 /\ B(2) = 1 /\ B(3) = 0
        /\ B(4) = 0 /\ B(5) = 0 /\ B(6) = 0 /\ B(7) = 0
    BY <1>0, <1>4, OctetBits, LeadingValues
  <2> QED  BY <1>0, <1>4, <2>1, EightBits
<1>5. CASE ones = 4
  <2>1. /\ B(0) = 1 /\ B(1) = 1 /\ B(2) = 1 /\ B(3) = 1
        /\ B(4) = 0 /\ B(5) = 0 /\ B(6) = 0 /\ B(7) = 0
    BY <1>0, <1>5, OctetBits, LeadingValues
  <2> QED  BY <1>0, <1>5, <2>1, EightBits
<1>6. CASE ones = 5
  <2>1. /\ B(0) = 1 /\ B(1) = 1 /\ B(2) = 1 /\ B(3) = 1
        /\ B(4) = 1 /\ B(5) = 0 /\ B(6) = 0 /\ B(7) = 0
    BY <1>0, <1>6, OctetBits, LeadingValues
  <2> QED  BY <1>0, <1>6, <2>1, EightBits
<1>7. CASE ones = 6
  <2>1. /\ B(0) = 1 /\ B(1) = 1 /\ B(2) = 1 /\ B(3) = 1
        /\ B(4) = 1 /\ B(5) = 1 /\ B(6) = 0 /\ B(7) = 0
    BY <1>0, <1>7, OctetBits, LeadingValues
  <2> QED  BY <1>0, <1>7, <2>1, EightBits
<1>8. CASE ones = 7
  <2>1. /\ B(0) = 1 /\ B(1) = 1 /\ B(2) = 1 /\ B(3) = 1
        /\ B(4) = 1 /\ B(5) = 1 /\ B(6) = 1 /\ B(7) = 0
    BY <1>0, <1>8, OctetBits, LeadingValues
  <2> QED  BY <1>0, <1>8, <2>1, EightBits
<1>9. CASE ones = 8
  <2>1. /\ B(0) = 1 /\ B(1) = 1 /\ B(2) = 1 /\ B(3) = 1
        /\ B(4) = 1 /\ B(5) = 1 /\ B(6) = 1 /\ B(7) = 1
    BY <1>0, <1>9, OctetBits, LeadingValues
  <2> QED  BY <1>0, <1>9, <2>1, EightBits
<1> QED
  BY <1>0, <1>1, <1>2, <1>3, <1>4, <1>5, <1>6, <1>7, <1>8, <1>9

\* Where bit k of a mask is.
LEMMA Position ==
    ASSUME NEW k \in 1..32
    PROVE  /\ (k - 1) \div 8 + 1 \in 1..4 /\ (k - 1) % 8 \in 0..7
           /\ k = 8 * ((k - 1) \div 8) + ((k - 1) % 8) + 1
  OBVIOUS

LEMMA PositionOf ==
    ASSUME NEW j \in 1..4, NEW i \in 0..7
    PROVE  /\ 8 * (j - 1) + i + 1 \in 1..32
           /\ (8 * (j - 1) + i) \div 8 + 1 = j /\ (8 * (j - 1) + i) % 8 = i
  OBVIOUS

LEMMA BitsAt ==
    ASSUME NEW mask
    PROVE  /\ \A k \in 1..32 :
                 Bits(mask)[k] = OctetBit(mask[(k - 1) \div 8 + 1], (k - 1) % 8)
           /\ \A j \in 1..4, i \in 0..7 :
                 Bits(mask)[8 * (j - 1) + i + 1] = OctetBit(mask[j], i)
<1>1. \A k \in 1..32 : Bits(mask)[k] = OctetBit(mask[(k - 1) \div 8 + 1], (k - 1) % 8)
  BY DEF Bits, OctetBit
<1>2. ASSUME NEW j \in 1..4, NEW i \in 0..7
      PROVE  Bits(mask)[8 * (j - 1) + i + 1] = OctetBit(mask[j], i)
  <2> DEFINE k == 8 * (j - 1) + i + 1
  <2>1. k \in 1..32 /\ (k - 1) \div 8 + 1 = j /\ (k - 1) % 8 = i
    <3>1. k - 1 = 8 * (j - 1) + i
      OBVIOUS
    <3> QED  BY <3>1, PositionOf
  <2> HIDE DEF k
  <2>2. Bits(mask)[k] = OctetBit(mask[j], i)
    BY <1>1, <2>1
  <2> QED  BY <2>2 DEF k
<1> QED
  BY <1>1, <1>2

LEMMA OctetsAre ==
    ASSUME NEW len \in 0..32, NEW j \in 1..4
    PROVE  \E ones \in 0..8 :
              /\ Octets(len)[j] = Leading(ones)
              /\ \A i \in 0..7 : i < ones <=> 8 * (j - 1) + i + 1 <= len
<1> DEFINE ones == IF len >= 8 * j THEN 8 ELSE IF len < 8 * (j - 1) THEN 0 ELSE len % 8
<1>1. Octets(len)[j] = Leading(ones)
  BY DEF Octets, Leading
<1>2. len >= 8 * (j - 1) /\ len < 8 * j => len % 8 = len - 8 * (j - 1)
  <2>1. j = 1 \/ j = 2 \/ j = 3 \/ j = 4
    OBVIOUS
  <2> QED  BY <2>1
<1>3. ones \in 0..8 /\ \A i \in 0..7 : i < ones <=> 8 * (j - 1) + i + 1 <= len
  BY <1>2
<1> HIDE DEF ones
<1> QED
  BY <1>1, <1>3

\* The bits of a mask are ones up to its length.
LEMMA OctetsBits ==
    ASSUME NEW len \in 0..32
    PROVE  /\ Octets(len) \in [1..4 -> 0..255]
           /\ \A k \in 1..32 : Bits(Octets(len))[k] = IF k <= len THEN 1 ELSE 0
<1>1. \A j \in 1..4 : Octets(len)[j] \in 0..255
  BY OctetsAre, LeadingBits
<1>2. Octets(len) \in [1..4 -> 0..255]
  BY <1>1 DEF Octets
<1>3. ASSUME NEW k \in 1..32 PROVE Bits(Octets(len))[k] = IF k <= len THEN 1 ELSE 0
  <2> DEFINE j == (k - 1) \div 8 + 1
             i == (k - 1) % 8
  <2>1. j \in 1..4 /\ i \in 0..7 /\ k = 8 * (j - 1) + i + 1
    BY Position
  <2>2. Bits(Octets(len))[k] = OctetBit(Octets(len)[j], i)
    BY BitsAt
  <2> HIDE DEF j, i
  <2>3. PICK ones \in 0..8 : /\ Octets(len)[j] = Leading(ones)
                             /\ i < ones <=> k <= len
    BY <2>1, OctetsAre
  <2> QED  BY <2>1, <2>2, <2>3, LeadingBits
<1> QED
  BY <1>2, <1>3

\* A mask of bytes without a one after a zero is the mask of its length.
LEMMA MaskIs ==
    ASSUME NEW mask \in [1..4 -> 0..255], NEW len \in 0..32,
           \A k \in 1..32 : Bits(mask)[k] = IF k <= len THEN 1 ELSE 0
    PROVE  mask = Octets(len)
<1>1. Octets(len) \in [1..4 -> 0..255]
  BY OctetsBits
<1>2. ASSUME NEW j \in 1..4 PROVE mask[j] = Octets(len)[j]
  <2>1. ASSUME NEW i \in 0..7 PROVE OctetBit(mask[j], i) = OctetBit(Octets(len)[j], i)
    <3>1. 8 * (j - 1) + i + 1 \in 1..32
      BY PositionOf
    <3>2. Bits(mask)[8 * (j - 1) + i + 1] = Bits(Octets(len))[8 * (j - 1) + i + 1]
      BY <3>1, OctetsBits
    <3> QED  BY <3>2, BitsAt
  <2> QED  BY <1>1, <2>1, SameBits
<1> QED
  BY <1>1, <1>2

LEMMA CIDROfLength ==
    ASSUME NEW len \in 0..32
    PROVE  MaskToCIDR(Octets(len)) = len
<1> DEFINE ones == {k \in 1..32 : Bits(Octets(len))[k] = 1}
<1>1. ones = 1..len
  <2>1. \A k \in 1..32 : k \in ones <=> k <= len
    <3>1. \A k \in 1..32 : Bits(Octets(len))[k] = IF k <= len THEN 1 ELSE 0
      BY OctetsBits
    <3> QED  BY <3>1
  <2>2. ones \subseteq 1..32
    OBVIOUS
  <2> HIDE DEF ones
  <2>3. \A k : k \in 1..len <=> k \in 1..32 /\ k <= len
    OBVIOUS
  <2> QED  BY <2>1, <2>2, <2>3
<1>2. ~(\E j \in 1..32 \ ones, k \in ones : j < k)
  BY <1>1
<1>3. Cardinality(ones) = len
  <2>1. len \in Nat
    OBVIOUS
  <2> HIDE DEF ones
  <2> QED  BY <1>1, <2>1, CountTo
<1>4. MaskToCIDR(Octets(len)) =
         IF \E j \in 1..32 \ ones, k \in ones : j < k THEN 0 ELSE Cardinality(ones)
  BY DEF MaskToCIDR
<1> HIDE DEF ones
<1> QED
  BY <1>2, <1>3, <1>4

LEMMA BitValues ==
    ASSUME NEW mask \in [1..4 -> 0..255], NEW k \in 1..32
    PROVE  Bits(mask)[k] \in {0, 1}
<1>1. ASSUME NEW v \in 0..255, NEW i \in 0..7 PROVE OctetBit(v, i) \in {0, 1}
  BY OctetBits, EightBits
<1> DEFINE j == (k - 1) \div 8 + 1
           i == (k - 1) % 8
<1>2. j \in 1..4 /\ i \in 0..7
  BY Position
<1>3. Bits(mask)[k] = OctetBit(mask[j], i)
  BY BitsAt
<1> HIDE DEF j, i
<1> QED
  BY <1>1, <1>2, <1>3

\* What is no mask of any length counts as one of length 0.
LEMMA NoMask ==
    ASSUME NEW mask \in [1..4 -> 0..255], \A len \in 0..32 : mask # Octets(len)
    PROVE  MaskToCIDR(mask) = 0
<1> DEFINE ones == {k \in 1..32 : Bits(mask)[k] = 1}
<1>1. SUFFICES ASSUME \A j \in 1..32 \ ones, k \in ones : ~(j < k) PROVE FALSE
  BY DEF MaskToCIDR
<1>2. ASSUME NEW len \in 0..32, ones = 1..len PROVE FALSE
  <2>1. \A k \in 1..32 : Bits(mask)[k] = IF k <= len THEN 1 ELSE 0
    BY <1>2, BitValues
  <2> QED  BY <2>1, MaskIs
<1>3. CASE ones = {}
  <2>1. ones = 1..0
    BY <1>3
  <2> QED  BY <1>2, <2>1
<1>4. CASE ones # {}
  <2>1. ones \in SUBSET Nat /\ \A k \in ones : k <= 32
    OBVIOUS
  <2>2. PICK m \in ones : \A k \in ones : k <= m
    <3> HIDE DEF ones
    <3> QED  BY <1>4, <2>1, GreatestNatural
  <2>3. m \in 1..32
    OBVIOUS
  <2>4. ones = 1..m
    <3>1. \A k \in 1..m : k \in ones
      BY <1>1, <2>2, <2>3
    <3>2. ones \subseteq 1..32
      OBVIOUS
    <3>3. \A k \in ones : k \in 1..m
      BY <2>2, <2>3, <3>2
    <3> HIDE DEF ones
    <3>4. ones \subseteq 1..m /\ 1..m \subseteq ones
      BY <3>1, <3>3
    <3> QED  BY <3>4, Zenon
  <2>5. m \in 0..32
    BY <2>3
  <2> HIDE DEF ones
  <2> QED  BY <1>2, <2>4, <2>5
<1> QED
  BY <1>3, <1>4

LEMMA RoundTrip ==
    ASSUME NEW S, NEW mask \in [1..4 -> S]
    PROVE  HexToIP(ProcHex(mask)) = mask
<1>1. \A k \in 1..4 : 5 - k \in 1..4 /\ 5 - (5 - k) = k
  OBVIOUS
<1>2. \A k \in 1..4 : ProcHex(mask)[5 - k] = mask[k]
  BY <1>1 DEF ProcHex
<1> QED
  BY <1>2 DEF HexToIP

\* Any four bytes that arrive as a little-endian word are read back in their
\* order, and count as their length if they are a mask and as 0 if they are not
\* (network.go:856-909).
THEOREM EveryMaskKeepsItsLength ==
    \A mask \in [1..4 -> 0..255] :
        LET lengths == {len \in 0..32 : Octets(len) = mask} IN
        /\ HexToIP(ProcHex(mask)) = mask
        /\ IF lengths = {} THEN MaskToCIDR(mask) = 0 ELSE MaskToCIDR(mask) \in lengths
<1> TAKE mask \in [1..4 -> 0..255]
<1> DEFINE lengths == {len \in 0..32 : Octets(len) = mask}
<1>1. HexToIP(ProcHex(mask)) = mask
  BY RoundTrip
<1>2. CASE lengths = {}
  <2>1. MaskToCIDR(mask) = 0
    BY <1>2, NoMask
  <2> QED  BY <1>1, <1>2, <2>1
<1>3. CASE lengths # {}
  <2>1. PICK len \in 0..32 : Octets(len) = mask
    BY <1>3
  <2>2. MaskToCIDR(mask) = len
    BY <2>1, CIDROfLength
  <2> QED  BY <1>1, <1>3, <2>1, <2>2
<1> QED
  BY <1>2, <1>3

\* The length that /proc/net/route's line has.
LEMMA ProcNetLength ==
    ASSUME NEW r \in KernelRoute
    PROVE  ProcNetRoute(r).len =
               IF r.net = AnyNet THEN 0 ELSE Printed(r)
<1>1. r.len \in 0..32 /\ (r.len = 0 => r.net = AnyNet)
  BY KernelRouteType
<1>2. MaskToCIDR(HexToIP(ProcHex(Octets(r.len)))) = r.len
  <2>1. Octets(r.len) \in [1..4 -> 0..255]
    BY <1>1, OctetsBits
  <2>2. HexToIP(ProcHex(Octets(r.len))) = Octets(r.len)
    BY <2>1, RoundTrip
  <2> QED  BY <1>1, <2>2, CIDROfLength
<1> DEFINE cidr == MaskToCIDR(HexToIP(ProcHex(Octets(r.len))))
           len == CASE r.net = AnyNet -> 0
                    [] r.net # AnyNet /\ cidr \in 1..31 -> cidr
                    [] OTHER -> Bare
<1>3. ProcNetRoute(r).len = len
  <2>1. ProcNetRoute(r) = [net |-> r.net, len |-> len, netmask |-> Bare,
                           gateway |-> FirstHop(r).gateway,
                           interface |-> FirstHop(r).dev]
    BY DEF ProcNetRoute
  <2> HIDE DEF len
  <2> QED  BY <2>1
<1> HIDE DEF cidr
<1>4. CASE r.net = AnyNet
  BY <1>3, <1>4
<1>5. CASE r.net # AnyNet /\ r.len \in 1..31
  BY <1>2, <1>3, <1>5 DEF Printed, cidr
<1>6. CASE r.net # AnyNet /\ r.len \notin 1..31
  <2>1. r.len = 32
    BY <1>1, <1>6
  <2> QED  BY <1>2, <1>3, <1>6, <2>1 DEF Printed, cidr
<1> QED
  BY <1>4, <1>5, <1>6

-----------------------------------------------------------------------------
\* What the lines of each source have in common with the routes they come from.

\* The line that a source prints for a route.
Line(source, r) ==
    CASE source = "ip-route" -> IpRoute(r)
      [] source = "route-n" -> RouteN(r)
      [] source = "/proc/net/route" -> ProcNetRoute(r)
      [] source = "netstat" -> Netstat(r)
      [] source = "route-print" -> RoutePrint(r)

LEMMA LineFields ==
    ASSUME NEW r \in KernelRoute
    PROVE  /\ IpRoute(r).net = IF r.type = "unicast" THEN r.net ELSE r.type
           /\ IpRoute(r).len = IF r.type = "unicast" THEN Printed(r) ELSE Bare
           /\ IpRoute(r).netmask = Bare
           /\ ProcNetRoute(r).net = r.net /\ ProcNetRoute(r).netmask = Bare
           /\ Netstat(r).net = r.net /\ RoutePrint(r).net = r.net
           /\ Netstat(r).len = Printed(r) /\ Netstat(r).netmask = Bare
           /\ RoutePrint(r).len = Bare /\ RoutePrint(r).netmask = r.len
           /\ ~Multipath(r) => /\ IpRoute(r).interface = FirstHop(r).dev
                               /\ IpRoute(r).gateway = FirstHop(r).gateway
           /\ Multipath(r) => /\ IpRoute(r).interface = NoLink
                              /\ IpRoute(r).gateway = NoGateway
           /\ ProcNetRoute(r).interface = FirstHop(r).dev
           /\ Netstat(r).interface = FirstHop(r).dev
           /\ ProcNetRoute(r).gateway = FirstHop(r).gateway
           /\ Netstat(r).gateway = Via(r) /\ RoutePrint(r).gateway = Via(r)
  BY DEF IpRoute, ProcNetRoute, Netstat, RoutePrint, NoHop

\* Sources that the parsers understand.
Readable == {"ip-route", "/proc/net/route", "netstat", "route-print"}

\* The places of the routes that have a line.
WithLine(source, table) ==
    {k \in DOMAIN table : ~(source = "ip-route" /\ Curt(table[k]))}

LEMMA ZeroLine ==
    ASSUME NEW table, NEW k
    PROVE  <<k, 0>> \in Lines(table) <=> k \in DOMAIN table /\ 0 \in IpRouteLines(table[k])
  BY DEF Lines

LEMMA ParsedLines ==
    ASSUME NEW table, Table(table), NEW source \in Readable
    PROVE  /\ \A k \in DOMAIN table :
                 <<k, 0>> \in DOMAIN Parsed(source, table) <=> k \in WithLine(source, table)
           /\ \A k \in WithLine(source, table) :
                 Parsed(source, table)[<<k, 0>>] = Line(source, table[k])
           /\ \A p \in DOMAIN Parsed(source, table) :
                 /\ p = <<p[1], p[2]>> /\ p[1] \in DOMAIN table /\ p[2] \in Nat
                 /\ p[2] # 0 => Parsed(source, table)[p].net = "nexthop"
<1> DEFINE P == (DOMAIN table) \X {0}
<1>1. CASE source = "ip-route"
  <2>1. Parsed(source, table) = [p \in Lines(table) |->
                                    IF p[2] = 0 THEN IpRoute(table[p[1]])
                                    ELSE NextHop(table[p[1]].hops[p[2]])]
    BY <1>1, ParsedIs
  <2>2. \A r : Line(source, r) = IpRoute(r)
    BY <1>1 DEF Line
  <2>3. ASSUME NEW k \in DOMAIN table
        PROVE  <<k, 0>> \in Lines(table) <=> k \in WithLine(source, table)
    <3>1. table[k].hops \in Seq(Hop)
      BY KernelRouteType DEF Table
    <3>2. Len(table[k].hops) \in Nat
      BY <3>1
    <3>3. 0 \in IpRouteLines(table[k]) <=> ~Curt(table[k])
      BY <3>2 DEF IpRouteLines
    <3> QED  BY <1>1, <3>3, ZeroLine DEF WithLine
  <2>4. \A k \in WithLine(source, table) :
           Parsed(source, table)[<<k, 0>>] = IpRoute(table[k])
    BY <2>1, <2>3 DEF WithLine
  <2>5. ASSUME NEW p \in Lines(table)
        PROVE  /\ p = <<p[1], p[2]>> /\ p[1] \in DOMAIN table /\ p[2] \in Nat
               /\ p[2] # 0 => Parsed(source, table)[p].net = "nexthop"
    <3>1. p = <<p[1], p[2]>> /\ p[1] \in DOMAIN table /\ p[2] \in Nat
      BY LinesAre
    <3>2. p[2] # 0 => Parsed(source, table)[p] = NextHop(table[p[1]].hops[p[2]])
      BY <2>1
    <3> QED  BY <3>1, <3>2 DEF NextHop
  <2>6. DOMAIN Parsed(source, table) = Lines(table)
    BY <2>1
  <2> QED  BY <2>2, <2>3, <2>4, <2>5, <2>6
<1>2. ASSUME NEW list, Parsed(source, table) = list, source # "ip-route",
             DOMAIN list = P,
             \A k \in DOMAIN table : list[<<k, 0>>] = Line(source, table[k])
      PROVE  /\ \A k \in DOMAIN table :
                   <<k, 0>> \in DOMAIN Parsed(source, table) <=> k \in WithLine(source, table)
             /\ \A k \in WithLine(source, table) :
                   Parsed(source, table)[<<k, 0>>] = Line(source, table[k])
             /\ \A p \in DOMAIN Parsed(source, table) :
                   /\ p = <<p[1], p[2]>> /\ p[1] \in DOMAIN table /\ p[2] \in Nat
                   /\ p[2] # 0 => Parsed(source, table)[p].net = "nexthop"
  BY <1>2 DEF WithLine
<1>3. CASE source = "/proc/net/route"
  <2>1. Parsed(source, table) = [p \in P |-> ProcNetRoute(table[p[1]])]
    BY <1>3, ParsedIs
  <2>2. \A r : Line(source, r) = ProcNetRoute(r)
    BY <1>3 DEF Line
  <2> QED  BY <1>2, <1>3, <2>1, <2>2
<1>4. CASE source = "netstat"
  <2>1. Parsed(source, table) = [p \in P |-> Netstat(table[p[1]])]
    BY <1>4, ParsedIs
  <2>2. \A r : Line(source, r) = Netstat(r)
    BY <1>4 DEF Line
  <2> QED  BY <1>2, <1>4, <2>1, <2>2
<1>5. CASE source = "route-print"
  <2>1. Parsed(source, table) = [p \in P |-> RoutePrint(table[p[1]])]
    BY <1>5, ParsedIs
  <2>2. \A r : Line(source, r) = RoutePrint(r)
    BY <1>5 DEF Line
  <2> QED  BY <1>2, <1>5, <2>1, <2>2
<1> QED
  BY <1>1, <1>3, <1>4, <1>5 DEF Readable

\* What two routes have in common when their lines name one destination.
OneDestination(source, a, b) ==
    IF source = "ip-route" /\ (a.type # "unicast" \/ b.type # "unicast") THEN a.type = b.type
    ELSE /\ a.net = b.net
         /\ \/ a.len = b.len
            \/ a.net = AnyNet /\ source = "/proc/net/route"

SameDestination(x, y) == x.net = y.net /\ x.len = y.len /\ x.netmask = y.netmask

LEMMA DestinationsMatch ==
    ASSUME NEW source \in Readable, NEW a \in KernelRoute, NEW b \in KernelRoute
    PROVE  SameDestination(Line(source, a), Line(source, b)) <=> OneDestination(source, a, b)
<1>0. /\ a.len \in 0..32 /\ b.len \in 0..32 /\ a.net \in Net /\ b.net \in Net
      /\ a.type \in {"unicast"} \cup RejectTypes /\ b.type \in {"unicast"} \cup RejectTypes
  BY KernelRouteType
<1>1. Printed(a) = Printed(b) <=> a.len = b.len
  BY <1>0 DEF Printed, Bare
<1>2. CASE source = "ip-route"
  <2>1. /\ Line(source, a) = IpRoute(a) /\ Line(source, b) = IpRoute(b)
        /\ source # "/proc/net/route"
    BY <1>2 DEF Line
  <2>2. \A t \in RejectTypes, n \in Net : t # n
    BY RouteTableAssumption DEF Word
  <2>3. CASE a.type = "unicast" /\ b.type = "unicast"
    BY <1>1, <1>2, <2>1, <2>3, LineFields DEF SameDestination, OneDestination
  <2>4. CASE a.type # "unicast" /\ b.type # "unicast"
    BY <1>2, <2>1, <2>4, LineFields DEF SameDestination, OneDestination
  <2>5. CASE a.type # "unicast" /\ b.type = "unicast"
    <3>1. IpRoute(a).net # IpRoute(b).net
      BY <1>0, <2>2, <2>5, LineFields
    <3> QED  BY <1>2, <2>1, <2>5, <3>1 DEF SameDestination, OneDestination
  <2>6. CASE a.type = "unicast" /\ b.type # "unicast"
    <3>1. IpRoute(a).net # IpRoute(b).net
      BY <1>0, <2>2, <2>6, LineFields
    <3> QED  BY <1>2, <2>1, <2>6, <3>1 DEF SameDestination, OneDestination
  <2> QED  BY <2>3, <2>4, <2>5, <2>6
<1>3. CASE source = "/proc/net/route"
  <2>1. Line(source, a) = ProcNetRoute(a) /\ Line(source, b) = ProcNetRoute(b)
    BY <1>3 DEF Line
  <2>2. /\ ProcNetRoute(a).len = IF a.net = AnyNet THEN 0 ELSE Printed(a)
        /\ ProcNetRoute(b).len = IF b.net = AnyNet THEN 0 ELSE Printed(b)
    BY ProcNetLength
  <2> QED  BY <1>1, <1>3, <2>1, <2>2, LineFields DEF SameDestination, OneDestination
<1>4. CASE source = "netstat"
  <2>1. Line(source, a) = Netstat(a) /\ Line(source, b) = Netstat(b)
    BY <1>4 DEF Line
  <2> QED  BY <1>1, <1>4, <2>1, LineFields DEF SameDestination, OneDestination
<1>5. CASE source = "route-print"
  <2>1. Line(source, a) = RoutePrint(a) /\ Line(source, b) = RoutePrint(b)
    BY <1>5 DEF Line
  <2> QED  BY <1>5, <2>1, LineFields DEF SameDestination, OneDestination
<1> QED
  BY <1>2, <1>3, <1>4, <1>5 DEF Readable

LEMMA DefaultIs ==
    /\ \A x : IsDefault("linux", x) <=> x.net = AnyNet /\ x.len \in {0, Bare}
    /\ \A x : IsDefault("darwin", x) <=> x.net = AnyNet /\ x.len = 0
    /\ \A x : IsDefault("windows", x) <=> x.net = AnyNet /\ x.len = Bare
  BY DEF IsDefault

\* A route that is or passes for a default, and whose line names its network.
TakenForDefault(source, r) ==
    /\ r.net = AnyNet
    /\ \/ r.len = 0
       \/ source \in {"/proc/net/route", "route-print"}
       \/ source = "ip-route" /\ r.len = 32
    /\ ~(source = "ip-route" /\ r.type # "unicast")

LEMMA LineDefault ==
    ASSUME NEW source \in Readable, NEW system_, SourceOf(source, system_),
           NEW r \in KernelRoute
    PROVE  IsDefault(system_, Line(source, r)) <=> TakenForDefault(source, r)
<1>1. r.len \in 0..32 /\ r.type \in {"unicast"} \cup RejectTypes
  BY KernelRouteType
<1>2. CASE source = "ip-route"
  <2>1. system_ = "linux" /\ Line(source, r) = IpRoute(r)
    BY <1>2 DEF SourceOf, Line
  <2>2. CASE r.type = "unicast"
    <3>1. IpRoute(r).net = r.net /\ IpRoute(r).len = Printed(r)
      BY <2>2, LineFields
    <3>2. Printed(r) \in {0, Bare} <=> r.len = 0 \/ r.len = 32
      BY <1>1 DEF Printed, Bare
    <3> QED  BY <1>2, <2>1, <2>2, <3>1, <3>2, DefaultIs DEF TakenForDefault
  <2>3. CASE r.type # "unicast"
    <3>1. IpRoute(r).net = r.type
      BY <2>3, LineFields
    <3>2. r.type # AnyNet
      BY <1>1, <2>3, RouteTableAssumption DEF Word
    <3> QED  BY <1>2, <2>1, <2>3, <3>1, <3>2, DefaultIs DEF TakenForDefault
  <2> QED  BY <2>2, <2>3
<1>3. CASE source = "/proc/net/route"
  <2>1. system_ = "linux" /\ Line(source, r) = ProcNetRoute(r)
    BY <1>3 DEF SourceOf, Line
  <2>2. ProcNetRoute(r).net = r.net /\ (r.net = AnyNet => ProcNetRoute(r).len = 0)
    BY LineFields, ProcNetLength
  <2> QED  BY <1>3, <2>1, <2>2, DefaultIs DEF TakenForDefault
<1>4. CASE source = "netstat"
  <2>1. system_ = "darwin" /\ Line(source, r) = Netstat(r)
    BY <1>4 DEF SourceOf, Line
  <2>2. Netstat(r).net = r.net /\ Netstat(r).len = Printed(r)
    BY LineFields
  <2>3. Printed(r) = 0 <=> r.len = 0
    BY <1>1 DEF Printed, Bare
  <2> QED  BY <1>4, <2>1, <2>2, <2>3, DefaultIs DEF TakenForDefault
<1>5. CASE source = "route-print"
  <2>1. system_ = "windows" /\ Line(source, r) = RoutePrint(r)
    BY <1>5 DEF SourceOf, Line
  <2>2. RoutePrint(r).net = r.net /\ RoutePrint(r).len = Bare
    BY LineFields
  <2> QED  BY <1>5, <2>1, <2>2, DefaultIs DEF TakenForDefault
<1> QED
  BY <1>2, <1>3, <1>4, <1>5 DEF Readable

\* The lines found to be defaults are those of such routes, and no hop's line is one.
LEMMA DefaultsFound ==
    ASSUME NEW source \in Readable, NEW system_, SourceOf(source, system_),
           NEW table, Table(table)
    PROVE  DefaultRoutes(system_, Parsed(source, table)) =
               {k \in WithLine(source, table) : TakenForDefault(source, table[k])} \X {0}
<1> DEFINE list == Parsed(source, table)
           D == DefaultRoutes(system_, list)
           K == {k \in WithLine(source, table) : TakenForDefault(source, table[k])}
<1>1. ASSUME NEW k \in WithLine(source, table)
      PROVE  IsDefault(system_, list[<<k, 0>>]) <=> TakenForDefault(source, table[k])
  <2>1. table[k] \in KernelRoute
    BY DEF Table, WithLine
  <2>2. list[<<k, 0>>] = Line(source, table[k])
    BY ParsedLines
  <2> HIDE DEF list
  <2> QED  BY <2>1, <2>2, LineDefault
<1>2. ASSUME NEW p \in D PROVE p \in K \X {0}
  <2>1. p \in DOMAIN list /\ IsDefault(system_, list[p])
    BY DEF DefaultRoutes
  <2>2. /\ p = <<p[1], p[2]>> /\ p[1] \in DOMAIN table
        /\ p[2] # 0 => list[p].net = "nexthop"
    BY <2>1, ParsedLines
  <2>3. list[p].net = AnyNet
    BY <2>1 DEF IsDefault
  <2>4. p[2] = 0
    BY <2>2, <2>3, RouteTableAssumption DEF Word
  <2>5. p = <<p[1], 0>> /\ <<p[1], 0>> \in DOMAIN list
    BY <2>1, <2>2, <2>4
  <2>6. p[1] \in WithLine(source, table)
    BY <2>2, <2>5, ParsedLines
  <2>7. TakenForDefault(source, table[p[1]])
    BY <1>1, <2>1, <2>5, <2>6
  <2> QED  BY <2>5, <2>6, <2>7
<1>3. ASSUME NEW k \in K PROVE <<k, 0>> \in D
  <2>1. <<k, 0>> \in DOMAIN list
    BY ParsedLines DEF WithLine
  <2>2. IsDefault(system_, list[<<k, 0>>])
    BY <1>1
  <2> QED  BY <2>1, <2>2 DEF DefaultRoutes
<1> HIDE DEF D, K
<1> QED
  BY <1>2, <1>3 DEF D, K, list

\* A line's gateway is that of the route's only hop, or of its first where the
\* source has no line for each, or what stands for none.
GivesNoGateway(source, r) ==
    \/ r.hops = <<>> \/ r.hops[1].gateway = NoGateway
    \/ Multipath(r) /\ source = "ip-route"

LEMMA LineGateway ==
    ASSUME NEW source \in Readable, NEW r \in KernelRoute
    PROVE  IF GivesNoGateway(source, r)
           THEN Line(source, r).gateway \in {NoGateway, OnLink}
           ELSE Line(source, r).gateway = r.hops[1].gateway
<1>1. FirstHop(r).gateway = IF r.hops = <<>> THEN NoGateway ELSE r.hops[1].gateway
  BY DEF FirstHop, NoHop
<1>2. CASE source = "ip-route"
  <2>1. Line(source, r) = IpRoute(r)
    BY <1>2 DEF Line
  <2> QED  BY <1>1, <1>2, <2>1, LineFields DEF GivesNoGateway
<1>3. CASE source = "/proc/net/route"
  <2>1. Line(source, r) = ProcNetRoute(r)
    BY <1>3 DEF Line
  <2> QED  BY <1>1, <1>3, <2>1, LineFields DEF GivesNoGateway
<1>4. CASE source \in {"netstat", "route-print"}
  <2>1. Line(source, r).gateway = Via(r)
    BY <1>4, LineFields DEF Line
  <2> QED  BY <1>1, <1>4, <2>1 DEF GivesNoGateway, Via
<1> QED
  BY <1>2, <1>3, <1>4 DEF Readable
-----------------------------------------------------------------------------
\* Which lines name the interface of a hop.

LinesOfHops(source, table) ==
    UNION {IF table[k].hops = <<>> THEN {}
           ELSE IF Len(table[k].hops) > 1 /\ source = "ip-route"
                THEN {<<k, i>> : i \in DOMAIN table[k].hops}
           ELSE {<<k, 0>>} : k \in DOMAIN table}

HopAt(table, p) ==
    LET hops == table[p[1]].hops IN IF p[2] = 0 THEN hops[1] ELSE hops[p[2]]

LEMMA IpRouteParsed ==
    ASSUME NEW table
    PROVE  /\ DOMAIN Parsed("ip-route", table) = Lines(table)
           /\ \A p \in Lines(table) :
                 p[2] # 0 => Parsed("ip-route", table)[p] = NextHop(table[p[1]].hops[p[2]])
<1>1. Parsed("ip-route", table) = [p \in Lines(table) |->
                                      IF p[2] = 0 THEN IpRoute(table[p[1]])
                                      ELSE NextHop(table[p[1]].hops[p[2]])]
  BY ParsedIs
<1> QED
  BY <1>1

LEMMA HopLine ==
    ASSUME NEW table, Table(table), NEW k \in DOMAIN table, NEW i \in DOMAIN table[k].hops,
           Multipath(table[k])
    PROVE  /\ <<k, i>> \in DOMAIN Parsed("ip-route", table)
           /\ i # 0
           /\ Parsed("ip-route", table)[<<k, i>>].interface = table[k].hops[i].dev
<1>1. table[k].hops \in Seq(Hop)
  BY KernelRouteType DEF Table
<1>2. i \in 1..Len(table[k].hops) /\ i # 0 /\ Len(table[k].hops) \in Nat
  BY <1>1
<1>3. i \in IpRouteLines(table[k])
  BY <1>2 DEF IpRouteLines
<1>4. <<k, i>> \in Lines(table)
  BY <1>3 DEF Lines
<1>5. Parsed("ip-route", table)[<<k, i>>] = NextHop(table[k].hops[i])
  BY <1>2, <1>4, IpRouteParsed
<1>6. DOMAIN Parsed("ip-route", table) = Lines(table)
  BY IpRouteParsed
<1> QED
  BY <1>2, <1>4, <1>5, <1>6 DEF NextHop

LEMMA OwnLine ==
    ASSUME NEW source \in Readable \ {"route-print"}, NEW r \in KernelRoute
    PROVE  Line(source, r).interface =
               IF source = "ip-route" /\ Multipath(r) THEN NoLink ELSE FirstHop(r).dev
<1>1. CASE source = "ip-route"
  BY <1>1, LineFields DEF Line
<1>2. CASE source = "/proc/net/route"
  BY <1>2, LineFields DEF Line
<1>3. CASE source = "netstat"
  BY <1>3, LineFields DEF Line
<1> QED
  BY <1>1, <1>2, <1>3 DEF Readable

\* The lines by which some interfaces are found are those of the hops through them.
LEMMA LinesThrough ==
    ASSUME NEW source \in Readable \ {"route-print"}, NEW table, Table(table),
           NEW T \in SUBSET Link
    PROVE  {p \in DOMAIN Parsed(source, table) : Parsed(source, table)[p].interface \in T} =
           {p \in LinesOfHops(source, table) : HopAt(table, p).dev \in T}
<1> DEFINE list == Parsed(source, table)
           L == {p \in DOMAIN list : list[p].interface \in T}
           R == {p \in LinesOfHops(source, table) : HopAt(table, p).dev \in T}
<1>0. NoLink \notin T
  BY RouteTableAssumption
<1>1. ASSUME NEW p \in L PROVE p \in R
  <2>1. p \in DOMAIN list /\ list[p].interface \in T /\ source \in Readable
    OBVIOUS
  <2>2. p = <<p[1], p[2]>> /\ p[1] \in DOMAIN table /\ p[2] \in Nat
    BY <2>1, ParsedLines
  <2> DEFINE k == p[1]
             r == table[k]
  <2>3. r \in KernelRoute
    BY <2>2 DEF Table
  <2>4. CASE p[2] = 0
    <3>1. k \in WithLine(source, table)
      BY <2>1, <2>2, <2>4, ParsedLines
    <3>2. list[p] = Line(source, r)
      BY <2>1, <2>2, <2>4, <3>1, ParsedLines
    <3>3. ~(source = "ip-route" /\ Multipath(r)) /\ FirstHop(r).dev \in T
      BY <1>0, <2>1, <2>3, <3>2, OwnLine
    <3>4. r.hops # <<>> /\ FirstHop(r) = r.hops[1]
      BY <1>0, <3>3 DEF FirstHop, NoHop
    <3>5. <<k, 0>> \in LinesOfHops(source, table)
      BY <2>2, <3>3, <3>4 DEF LinesOfHops, Multipath
    <3>6. HopAt(table, p) = r.hops[1]
      BY <2>4 DEF HopAt
    <3> QED  BY <2>2, <2>4, <3>3, <3>4, <3>5, <3>6
  <2>5. CASE p[2] # 0
    <3>1. source = "ip-route"
      <4>1. CASE source = "/proc/net/route"
        <5>1. list = [q \in (DOMAIN table) \X {0} |-> ProcNetRoute(table[q[1]])]
          BY <4>1, ParsedIs
        <5>2. p \in (DOMAIN table) \X {0}
          BY <2>1, <5>1
        <5> QED  BY <2>5, <5>2
      <4>2. CASE source = "netstat"
        <5>1. list = [q \in (DOMAIN table) \X {0} |-> Netstat(table[q[1]])]
          BY <4>2, ParsedIs
        <5>2. p \in (DOMAIN table) \X {0}
          BY <2>1, <5>1
        <5> QED  BY <2>5, <5>2
      <4> QED  BY <4>1, <4>2 DEF Readable
    <3>2. p \in Lines(table)
      BY <2>1, <3>1, IpRouteParsed
    <3>3. p[2] \in DOMAIN r.hops /\ Multipath(r)
      BY <2>5, <3>2, LinesAre
    <3>4. list[p].interface = r.hops[p[2]].dev
      BY <2>2, <3>1, <3>3, HopLine
    <3>5. r.hops # <<>>
      BY <3>3 DEF Multipath
    <3>6. <<k, p[2]>> \in LinesOfHops(source, table)
      BY <2>2, <3>1, <3>3, <3>5 DEF LinesOfHops, Multipath
    <3>7. HopAt(table, p) = r.hops[p[2]]
      BY <2>5 DEF HopAt
    <3> QED  BY <2>1, <2>2, <3>4, <3>6, <3>7
  <2> QED  BY <2>4, <2>5
<1>2. ASSUME NEW p \in R PROVE p \in L
  <2>1. PICK k \in DOMAIN table :
           p \in IF table[k].hops = <<>> THEN {}
                 ELSE IF Len(table[k].hops) > 1 /\ source = "ip-route"
                      THEN {<<k, i>> : i \in DOMAIN table[k].hops}
                 ELSE {<<k, 0>>}
    BY DEF LinesOfHops
  <2> DEFINE r == table[k]
  <2>2. r \in KernelRoute /\ r.hops # <<>>
    BY <2>1 DEF Table
  <2>3. CASE Multipath(r) /\ source = "ip-route"
    <3>1. PICK i \in DOMAIN r.hops : p = <<k, i>>
      BY <2>1, <2>2, <2>3 DEF Multipath
    <3>2. p \in DOMAIN list /\ i # 0 /\ list[p].interface = r.hops[i].dev
      BY <2>3, <3>1, HopLine
    <3>3. HopAt(table, p) = r.hops[i]
      BY <3>1, <3>2 DEF HopAt
    <3> QED  BY <3>2, <3>3
  <2>4. CASE ~(Multipath(r) /\ source = "ip-route")
    <3>1. p = <<k, 0>>
      BY <2>1, <2>2, <2>4 DEF Multipath
    <3>2. k \in WithLine(source, table) /\ source \in Readable
      BY <2>4 DEF WithLine, Curt
    <3>3. p \in DOMAIN list /\ list[p] = Line(source, r)
      BY <3>1, <3>2, ParsedLines
    <3>4. list[p].interface = FirstHop(r).dev
      BY <2>2, <2>4, <3>3, OwnLine
    <3>5. FirstHop(r) = r.hops[1] /\ HopAt(table, p) = r.hops[1]
      BY <2>2, <3>1 DEF FirstHop, HopAt
    <3> QED  BY <3>3, <3>4, <3>5
  <2> QED  BY <2>3, <2>4
<1> HIDE DEF L, R
<1> QED
  BY <1>1, <1>2 DEF L, R
=============================================================================
