------------------------ MODULE RuntimeResolveProofs ------------------------
(***************************************************************************)
(* Theorems about RuntimeResolve, for every home directory, command line,  *)
(* environment and answer of the network: what is asked, of whom, through  *)
(* which proxy and how often, and where the results come from.             *)
(***************************************************************************)
EXTENDS RuntimeResolve, NaturalOrder, SequenceTheorems

-----------------------------------------------------------------------------
\* The home directory.

LEMMA FirstOfType ==
    ASSUME NEW a \in MaybeAddr, NEW b \in MaybeAddr, NEW c \in MaybeAddr,
           FirstOf(a, b, c) # NoAddr
    PROVE  FirstOf(a, b, c) \in Addr /\ FirstOf(c, b, a) \in Addr
BY NoAddrAssumption DEF FirstOf, MaybeAddr

LEMMA ProfileFromType ==
    ASSUME NEW name \in ProfileName, NEW f \in ProfileFields
    PROVE  ProfileFrom(name, f) \in Profile \cup {Broken}
<1>1. f.public \in MaybeAddr /\ f.ssh \in MaybeAddr /\ f.web \in MaybeAddr
  BY DEF ProfileFields
<1>2. CASE FirstOf(f.public, f.ssh, f.web) # NoAddr
  <2>1. FirstOf(f.public, f.ssh, f.web) \in Addr /\ FirstOf(f.web, f.ssh, f.public) \in Addr
    BY <1>1, <1>2, FirstOfType
  <2>2. HostOnly(FirstOf(f.public, f.ssh, f.web)) \in Addr
    BY <2>1 DEF HostOnly, Addr
  <2> QED  BY <1>2, <2>1, <2>2 DEF ProfileFrom, Profile
<1>3. CASE FirstOf(f.public, f.ssh, f.web) = NoAddr
  BY <1>3 DEF ProfileFrom
<1> QED  BY <1>2, <1>3

LEMMA ActiveProfileType ==
    ASSUME NEW h \in Home
    PROVE  LoadActiveProfile(h) \in Profile \cup Unread
<1>1. /\ h.current \in ProfileName \cup {NoName} \cup Unread
      /\ h.files \in [ProfileName -> ProfileFields \cup Unread]
      /\ h.index \in [current: ProfileName \cup {NoName}, entries: Seq(Entry)] \cup Unread
  BY DEF Home
<1>2. ASSUME h.current \in ProfileName
      PROVE  LoadProfileFile(h, h.current) \in Profile \cup Unread
  BY <1>1, <1>2, ProfileFromType DEF LoadProfileFile, Unread
<1>3. LoadFromProfilesYAML(h) \in Profile \cup Unread
  <2>1. CASE h.index \in Unread
    BY <2>1 DEF LoadFromProfilesYAML
  <2>2. CASE h.index \notin Unread
    <3> DEFINE N == ByName(h.index, IndexedName(h.index))
    <3>1. CASE IndexedName(h.index) = NoName
      BY <2>2, <3>1 DEF LoadFromProfilesYAML, Unread
    <3>2. CASE IndexedName(h.index) # NoName /\ N = {}
      BY <2>2, <3>2 DEF LoadFromProfilesYAML, Unread
    <3>3. CASE IndexedName(h.index) # NoName /\ N # {}
      <4>1. PICK n \in N : LoadFromProfilesYAML(h)
                             = ProfileFrom(h.index.entries[n].name, h.index.entries[n].fields)
        BY <2>2, <3>3 DEF LoadFromProfilesYAML
      <4>2. h.index.entries[n] \in Entry
        BY <1>1, <2>2 DEF ByName
      <4> QED  BY <4>1, <4>2, ProfileFromType DEF Entry, Unread
    <3> QED  BY <3>1, <3>2, <3>3
  <2> QED  BY <2>1, <2>2
<1>4. CASE h.current = Broken
  BY <1>4, UnreadAssumption DEF LoadActiveProfile, Unread
<1>5. CASE h.current \in {Absent, NoName}
  BY <1>3, <1>5, UnreadAssumption DEF LoadActiveProfile, Unread
<1>6. CASE h.current \in ProfileName
  BY <1>2, <1>6, NoNameAssumption, UnreadAssumption DEF LoadActiveProfile
<1> QED  BY <1>1, <1>4, <1>5, <1>6 DEF Unread

\* config.yaml gives each header the value of the last rule that has it.
LEMMA MatchingHeadersValue ==
    ASSUME NEW rules \in Seq(HeaderRule), NEW host
    PROVE  /\ DOMAIN MatchingHeaders(rules, host)
                = {h \in HeaderName : Sources(rules, host, h) # {}}
           /\ \A h \in DOMAIN MatchingHeaders(rules, host) :
                 \E n \in Sources(rules, host, h) :
                    /\ \A m \in Sources(rules, host, h) : m <= n
                    /\ MatchingHeaders(rules, host)[h] = rules[n].headers[h]
                    /\ rules[n].headers[h] \in HeaderValue
<1> DEFINE M == MatchingHeaders(rules, host)
<1>1. DOMAIN M = {h \in HeaderName : Sources(rules, host, h) # {}}
  BY DEF MatchingHeaders
<1>2. ASSUME NEW h \in HeaderName, Sources(rules, host, h) # {}
      PROVE  \E n \in Sources(rules, host, h) :
                /\ \A m \in Sources(rules, host, h) : m <= n
                /\ M[h] = rules[n].headers[h]
                /\ rules[n].headers[h] \in HeaderValue
  <2> DEFINE S == Sources(rules, host, h)
             n == CHOOSE n \in S : \A m \in S : m <= n
  <2>1. S \in SUBSET Nat /\ Len(rules) \in Nat /\ \A m \in S : m <= Len(rules)
    BY DEF Sources
  <2>2. \E k \in S : \A m \in S : m <= k
    <3> HIDE DEF S
    <3> QED  BY <1>2, <2>1, GreatestNatural DEF S
  <2>3. n \in S /\ \A m \in S : m <= n
    BY <2>2
  <2>4. M[h] = rules[n].headers[h]
    BY <1>2 DEF MatchingHeaders
  <2>5. rules[n] \in HeaderRule /\ h \in DOMAIN rules[n].headers
    BY <2>3 DEF Sources
  <2>6. rules[n].headers[h] \in HeaderValue
    BY <2>5 DEF HeaderRule, Headers
  <2> QED  BY <2>3, <2>4, <2>6
<1> QED  BY <1>1, <1>2

\* A config.yaml that is not there, or cannot be read, has no rules.
Rules(h) == IF h.config \in Unread THEN <<>> ELSE h.config

LEMMA RulesType ==
    ASSUME NEW h \in Home
    PROVE  Rules(h) \in Seq(HeaderRule)
<1>1. h.config \in Seq(HeaderRule) \cup Unread /\ <<>> \in Seq(HeaderRule)
  BY DEF Home
<1> QED  BY <1>1 DEF Rules

LEMMA ConfigHeadersType ==
    ASSUME NEW h \in Home, NEW host
    PROVE  /\ DOMAIN ConfigHeaders(h, host) \subseteq HeaderName
           /\ \A n \in DOMAIN ConfigHeaders(h, host) : ConfigHeaders(h, host)[n] \in HeaderValue
<1>1. ConfigHeaders(h, host) = MatchingHeaders(Rules(h), host)
  BY DEF ConfigHeaders, Rules
<1>2. Rules(h) \in Seq(HeaderRule)
  BY RulesType
<1> DEFINE M == MatchingHeaders(Rules(h), host)
<1>3. DOMAIN M \subseteq HeaderName
  BY <1>2, MatchingHeadersValue
<1>4. \A n \in DOMAIN M : \E v \in HeaderValue : M[n] = v
  BY <1>2, MatchingHeadersValue
<1> QED  BY <1>1, <1>3, <1>4

-----------------------------------------------------------------------------
\* The command line's headers.

LEMMA AcceptedLines ==
    ASSUME NEW args \in Seq(Flags!HeaderArg), Flags!Accepted(args), NEW i \in DOMAIN args
    PROVE  /\ args[i].lines \in Seq(Flags!Line)
           /\ \A j \in DOMAIN args[i].lines :
                 args[i].lines[j] # Blank =>
                     args[i].lines[j] \in [name: HeaderName, value: HeaderValue]
<1>1. args[i] \in Flags!HeaderArg /\ args[i].lines # Absent
  BY DEF Flags!Accepted
<1>2. args[i].lines \in Seq(Flags!Line)
  <2>1. CASE args[i] \in [file: {TRUE}, lines: Seq(Flags!Line) \cup {Absent}]
    BY <1>1, <2>1
  <2>2. CASE args[i] \in [file: {FALSE}, lines: {<<line>> : line \in Flags!Header \cup {NoColon}}]
    <3>1. PICK line \in Flags!Header \cup {NoColon} : args[i].lines = <<line>>
      BY <2>2
    <3>2. line \in Flags!Line
      BY DEF Flags!Line
    <3> QED  BY <3>1, <3>2
  <2> QED  BY <1>1, <2>1, <2>2 DEF Flags!HeaderArg
<1>3. ASSUME NEW j \in DOMAIN args[i].lines, args[i].lines[j] # Blank
      PROVE  args[i].lines[j] \in [name: HeaderName, value: HeaderValue]
  <2>1. args[i].lines[j] \in Flags!Line
    BY <1>2
  <2>2. args[i].lines[j] # NoColon /\ args[i].lines[j].name # NoName
    BY <1>3 DEF Flags!Accepted, Flags!Usable
  <2> QED  BY <1>3, <2>1, <2>2 DEF Flags!Line, Flags!Header
<1> QED  BY <1>2, <1>3

LEMMA HeadersOfIsFunction ==
    ASSUME NEW args
    PROVE  LET H == Flags!HeadersOf(args) IN H = [h \in DOMAIN H |-> H[h]]
<1> DEFINE H == Flags!HeadersOf(args)
           S == {h \in HeaderName : Flags!Mentions(args, h) # {}}
           Last(h) == CHOOSE m \in Flags!Mentions(args, h) :
                         \A k \in Flags!Mentions(args, h) :
                             k[1] < m[1] \/ (m[1] = k[1] /\ k[2] <= m[2])
           V(h) == args[Last(h)[1]].lines[Last(h)[2]].value
<1>1. H = [h \in S |-> V(h)]
  BY Zenon DEF Flags!HeadersOf
<1>2. H = [h \in DOMAIN H |-> H[h]]
  <2> HIDE DEF S, V, H
  <2> QED  BY <1>1
<1> QED  BY <1>2

\* m is the last of the mentions of h.
LastMention(args, h, m) ==
    /\ m \in Flags!Mentions(args, h)
    /\ \A k \in Flags!Mentions(args, h) : k[1] < m[1] \/ (m[1] = k[1] /\ k[2] <= m[2])

LEMMA MentionShape ==
    ASSUME NEW args \in Seq(Flags!HeaderArg), Flags!Accepted(args), NEW h, NEW m
    PROVE  m \in Flags!Mentions(args, h) <=>
              /\ m = <<m[1], m[2]>>
              /\ m[1] \in 1..Len(args) /\ m[2] \in 1..Len(args[m[1]].lines)
              /\ args[m[1]].lines[m[2]] # Blank
              /\ args[m[1]].lines[m[2]].name = h
<1>1. DOMAIN args = 1..Len(args)
  OBVIOUS
<1>2. \A i \in DOMAIN args : DOMAIN args[i].lines = 1..Len(args[i].lines)
  BY AcceptedLines
<1>3. m \in UNION {{i} \X DOMAIN args[i].lines : i \in DOMAIN args}
        <=> \E i \in DOMAIN args : m \in {i} \X DOMAIN args[i].lines
  OBVIOUS
<1>4. \A i \in DOMAIN args : m \in {i} \X DOMAIN args[i].lines
        <=> m = <<m[1], m[2]>> /\ m[1] = i /\ m[2] \in DOMAIN args[i].lines
  OBVIOUS
<1> QED  BY <1>1, <1>2, <1>3, <1>4 DEF Flags!Mentions

LEMMA HeadersOfValue ==
    ASSUME NEW args \in Seq(Flags!HeaderArg), Flags!Accepted(args)
    PROVE  /\ DOMAIN Flags!HeadersOf(args)
                = {h \in HeaderName : Flags!Mentions(args, h) # {}}
           /\ \A h \in DOMAIN Flags!HeadersOf(args) :
                 \E m : /\ LastMention(args, h, m)
                        /\ args[m[1]].lines[m[2]]
                              = [name |-> h, value |-> Flags!HeadersOf(args)[h]]
                        /\ Flags!HeadersOf(args)[h] \in HeaderValue
<1>1. DOMAIN Flags!HeadersOf(args) = {h \in HeaderName : Flags!Mentions(args, h) # {}}
  BY DEF Flags!HeadersOf
<1>2. ASSUME NEW h \in HeaderName, Flags!Mentions(args, h) # {}
      PROVE  \E m : /\ LastMention(args, h, m)
                    /\ args[m[1]].lines[m[2]]
                          = [name |-> h, value |-> Flags!HeadersOf(args)[h]]
                    /\ Flags!HeadersOf(args)[h] \in HeaderValue
  <2> DEFINE M == Flags!Mentions(args, h)
             m == CHOOSE m \in M : \A k \in M : k[1] < m[1] \/ (m[1] = k[1] /\ k[2] <= m[2])
  <2>1. \A k \in M : /\ k = <<k[1], k[2]>>
                     /\ k[1] \in 1..Len(args) /\ k[2] \in 1..Len(args[k[1]].lines)
                     /\ args[k[1]].lines[k[2]] # Blank
                     /\ args[k[1]].lines[k[2]].name = h
    BY MentionShape
  <2>2. Len(args) \in Nat /\ \A i \in 1..Len(args) : Len(args[i].lines) \in Nat
    BY AcceptedLines
  <2>3. M \in SUBSET (Nat \X Nat) /\ \A k \in M : k[1] <= Len(args)
    BY <2>1, <2>2
  <2>4. ASSUME NEW i \in Nat
        PROVE  \E c \in Nat : \A k \in M : k[1] = i => k[2] <= c
    <3>1. CASE i \in 1..Len(args)
      <4>1. Len(args[i].lines) \in Nat /\ \A k \in M : k[1] = i => k[2] <= Len(args[i].lines)
        BY <2>1, <2>2, <3>1
      <4> QED  BY <4>1
    <3>2. CASE i \notin 1..Len(args)
      BY <2>1, <3>2
    <3> QED  BY <3>1, <3>2
  <2>5. \E k \in M : \A l \in M : l[1] < k[1] \/ (k[1] = l[1] /\ l[2] <= k[2])
    <3> HIDE DEF M
    <3> QED  BY <1>2, <2>2, <2>3, <2>4, GreatestPair DEF M
  <2>6. LastMention(args, h, m)
    BY <2>5 DEF LastMention
  <2>7. Flags!HeadersOf(args)[h] = args[m[1]].lines[m[2]].value
    BY <1>2 DEF Flags!HeadersOf
  <2>8. m \in M
    BY <2>6 DEF LastMention
  <2> HIDE DEF m
  <2>9. args[m[1]].lines[m[2]] \in [name: HeaderName, value: HeaderValue]
        /\ args[m[1]].lines[m[2]].name = h
    BY <2>1, <2>8, AcceptedLines
  <2> QED  BY <2>6, <2>7, <2>9
<1> QED  BY <1>1, <1>2

-----------------------------------------------------------------------------
\* The proxies.

LEMMA ParsedType ==
    ASSUME NEW v \in Value
    PROVE  ParseProxyURL(v) \in URL \cup {NoURL}
<1>1. CASE v \in {NoURL, Unparsable}
  BY <1>1, ProxyChoiceAssumption DEF ParseProxyURL
<1>2. CASE v \in URL /\ v.scheme = ""
  BY <1>2, ProxyChoiceAssumption DEF ParseProxyURL, URL, Scheme
<1>3. CASE v \in URL /\ v.scheme # ""
  BY <1>3, ProxyChoiceAssumption DEF ParseProxyURL
<1> QED  BY <1>1, <1>2, <1>3 DEF Value

LEMMA SettingsType ==
    ASSUME NEW env \in Environment(Host)
    PROVE  /\ DetectProxySettings(env).https \in Value
           /\ DetectProxySettings(env).http \in Value
BY DEF Environment, DetectProxySettings, FirstNonEmpty

LEMMA ViaType ==
    ASSUME opts \in CommandLine, NEW a \in Addr
    PROVE  Via(a) \in URL \cup {NoURL}
<1>1. opts.env \in Environment(Host)
  BY DEF CommandLine
<1> QED  BY <1>1, SettingsType, ParsedType DEF Via, ProxyFunc

-----------------------------------------------------------------------------
\* Types.

Located ==
    {"modern_cert", "modern_key", "legacy_cert", "legacy_key", "headers", "ping",
     "ping_insecure", "ca", "ca_insecure", "resolved", "no_ping", "no_bundle"}

Reading == {"modern_cert", "modern_key", "legacy_cert", "legacy_key"}

Collecting == {"ca", "ca_insecure", "resolved", "no_bundle"}

\* Once the proxy has been located there is an address to ask: the one given or
\* the profile's.  The endpoints only settle when the ping has been answered.
PlaceInv ==
    /\ pc \in Located /\ opts.publicAddr = NoAddr => HasProfile
    /\ pc = "profile" => public = opts.publicAddr
    /\ pc \in Reading \cup {"headers"} =>
          public = IF opts.publicAddr # NoAddr THEN opts.publicAddr ELSE profile.public
    /\ pc \notin Collecting => endpoint = 1
    /\ pc \in Collecting => endpoint \in DOMAIN Endpoints

LEMMA OptsType ==
    ASSUME TypeOK
    PROVE  /\ opts \in CommandLine /\ home \in Home
           /\ opts.publicAddr \in Addr \cup {NoAddr}
           /\ opts.headerArgs \in Seq(Flags!HeaderArg)
BY EnvironmentAssumption DEF TypeOK, CommandLine, MaybeAddr

LEMMA PingAddrType ==
    ASSUME TypeOK, PlaceInv, pc \in Located
    PROVE  PingAddr \in Addr
<1>1. HasProfile => profile.web \in Addr
  BY DEF TypeOK, HasProfile, Profile
<1> QED  BY <1>1, OptsType DEF PingAddr, PlaceInv

LEMMA ThreeInARow ==
    ASSUME NEW S, NEW x \in S, NEW y \in S, NEW z \in S
    PROVE  <<x>> \o <<y, z>> = <<x, y, z>>
<1>1. <<x>> \in Seq(S) /\ <<y, z>> \in Seq(S) /\ <<x, y, z>> \in Seq(S)
  OBVIOUS
<1>2. Len(<<x>> \o <<y, z>>) = 3
  BY <1>1, ConcatProperties
<1>3. \A i \in 1..3 : (<<x>> \o <<y, z>>)[i] = <<x, y, z>>[i]
  BY <1>1, ConcatProperties
<1> QED  BY <1>1, <1>2, <1>3, SeqEqual, ConcatProperties

\* Two or three endpoints, the last of them the one that was pinged.
LEMMA EndpointsOf ==
    ASSUME NEW web \in MaybeAddr, NEW own \in Addr, NEW asked \in Addr
    PROVE  LET E == (IF web # NoAddr THEN <<web>> ELSE <<>>) \o <<own, asked>>
           IN  /\ E \in Seq(Addr)
               /\ Len(E) \in 2..3 /\ DOMAIN E = 1..Len(E)
               /\ \A n \in DOMAIN E :
                     E[n] \in Addr /\ (E[n] \in {own, asked} \/ (web # NoAddr /\ E[n] = web))
<1> DEFINE E == (IF web # NoAddr THEN <<web>> ELSE <<>>) \o <<own, asked>>
<1>1. CASE web # NoAddr
  <2>1. web \in Addr
    BY <1>1 DEF MaybeAddr
  <2>2. E = <<web, own, asked>>
    BY <1>1, <2>1, ThreeInARow
  <2> HIDE DEF E
  <2>3. /\ E \in Seq(Addr) /\ Len(E) = 3 /\ DOMAIN E = 1..3
        /\ E[1] = web /\ E[2] = own /\ E[3] = asked
    BY <2>1, <2>2
  <2>4. \A n \in 1..3 : n = 1 \/ n = 2 \/ n = 3
    OBVIOUS
  <2>5. ASSUME NEW n \in DOMAIN E
        PROVE  E[n] \in Addr /\ (E[n] \in {own, asked} \/ (web # NoAddr /\ E[n] = web))
    BY <1>1, <2>1, <2>3, <2>4
  <2> QED  BY <2>3, <2>5 DEF E
<1>2. CASE web = NoAddr
  <2>1. E = <<own, asked>>
    BY <1>2
  <2> HIDE DEF E
  <2>2. /\ E \in Seq(Addr) /\ Len(E) = 2 /\ DOMAIN E = 1..2
        /\ E[1] = own /\ E[2] = asked
    BY <2>1
  <2>3. \A n \in 1..2 : n = 1 \/ n = 2
    OBVIOUS
  <2>4. ASSUME NEW n \in DOMAIN E
        PROVE  E[n] \in Addr /\ (E[n] \in {own, asked} \/ (web # NoAddr /\ E[n] = web))
    BY <2>2, <2>3
  <2> QED  BY <2>2, <2>4 DEF E
<1> QED  BY <1>1, <1>2

LEMMA EndpointsShape ==
    PingAddr \in Addr /\ public \in Addr /\ info \in Ping /\ webPort \in Nat =>
        /\ Endpoints \in Seq(Addr)
        /\ Len(Endpoints) \in 2..3 /\ DOMAIN Endpoints = 1..Len(Endpoints)
        /\ \A n \in DOMAIN Endpoints : Endpoints[n] \in Addr
<1> SUFFICES ASSUME PingAddr \in Addr, public \in Addr, info \in Ping, webPort \in Nat
             PROVE  /\ Endpoints \in Seq(Addr)
                    /\ Len(Endpoints) \in 2..3 /\ DOMAIN Endpoints = 1..Len(Endpoints)
                    /\ \A n \in DOMAIN Endpoints : Endpoints[n] \in Addr
  OBVIOUS
<1>1. [public EXCEPT !.port = webPort] \in Addr /\ info.webAddr \in MaybeAddr
  BY DEF Addr, Ping
<1> QED  BY <1>1, EndpointsOf DEF Endpoints

\* The same once the ping has been answered.
LEMMA EndpointsWillBe ==
    PingAddr' \in Addr /\ public' \in Addr /\ info' \in Ping /\ webPort' \in Nat =>
        Len(Endpoints') \in 2..3 /\ DOMAIN Endpoints' = 1..Len(Endpoints')
<1> SUFFICES ASSUME PingAddr' \in Addr, public' \in Addr, info' \in Ping, webPort' \in Nat
             PROVE  Len(Endpoints') \in 2..3 /\ DOMAIN Endpoints' = 1..Len(Endpoints')
  OBVIOUS
<1>1. [public' EXCEPT !.port = webPort'] \in Addr /\ info'.webAddr \in MaybeAddr
  BY DEF Addr, Ping
<1> QED  BY <1>1, EndpointsOf DEF Endpoints

\* What a request adds to the record of requests.
LEMMA AskedEffect ==
    ASSUME TypeOK, NEW addr \in Addr, NEW what \in {"ping", "ca"}, NEW secure \in BOOLEAN,
           NEW outcome \in {"ok", "cert_error", "error"},
           Asked(addr, what, secure, outcome)
    PROVE  /\ requests' \in Seq(Request)
           /\ Len(requests) \in Nat /\ Len(requests') = Len(requests) + 1
           /\ \A n \in 1..Len(requests) : requests'[n] = requests[n]
           /\ requests'[Len(requests')]
                = [to |-> addr, for |-> what, secure |-> secure, via |-> Via(addr),
                   outcome |-> outcome]
<1> DEFINE r == [to |-> addr, for |-> what, secure |-> secure, via |-> Via(addr),
                 outcome |-> outcome]
<1>1. Via(addr) \in URL \cup {NoURL}
  BY OptsType, ViaType
<1>2. r \in Request
  BY <1>1 DEF Request
<1>3. requests \in Seq(Request) /\ requests' = Append(requests, r)
  BY DEF TypeOK, Asked
<1> HIDE DEF r
<1>4. /\ requests' \in Seq(Request) /\ Len(requests) \in Nat
      /\ Len(requests') = Len(requests) + 1
      /\ \A n \in 1..Len(requests) : requests'[n] = requests[n]
      /\ requests'[Len(requests')] = r
  BY <1>2, <1>3
<1> QED  BY <1>4 DEF r

\* The request of a step of the network part.
Target == IF pc \in {"ping", "ping_insecure"} THEN PingAddr ELSE Endpoints[endpoint]

Purpose == IF pc \in {"ping", "ping_insecure"} THEN "ping" ELSE "ca"

NetworkRequest(outcome) ==
    [to |-> Target, for |-> Purpose, secure |-> pc \in {"ping", "ca"},
     via |-> Via(Target), outcome |-> outcome]

Requested(outcome) ==
    /\ requests' \in Seq(Request)
    /\ Len(requests) \in Nat /\ Len(requests') = Len(requests) + 1
    /\ \A n \in 1..Len(requests) : requests'[n] = requests[n]
    /\ requests'[Len(requests')] = NetworkRequest(outcome)

LEMMA NetworkStep ==
    ASSUME TypeOK, PlaceInv, Requests
    PROVE  /\ pc \in {"ping", "ping_insecure", "ca", "ca_insecure"}
           /\ UNCHANGED <<home, renewed, opts, profile, headers, pair>>
           /\ \/ (\E p \in Pings : PingAnswered(p)) /\ Requested("ok")
              \/ PingRefused /\ Requested("cert_error")
              \/ PingFails /\ Requested("error")
              \/ (\E body \in Bundle : HostCAAnswered(body)) /\ Requested("ok")
              \/ HostCARefused /\ Requested("cert_error")
              \/ HostCAFails /\ Requested("error")
<1>0. /\ pc \in {"ping", "ping_insecure", "ca", "ca_insecure"}
      /\ UNCHANGED <<home, renewed, opts, profile, headers, pair>>
  BY DEF Requests, PingAnswered, PingRefused, PingFails, HostCAAnswered, HostCARefused,
         HostCAFails
<1>1. PingAddr \in Addr
  BY <1>0, PingAddrType DEF Located
<1>2. pc \in {"ca", "ca_insecure"} => Endpoints[endpoint] \in Addr
  BY <1>1, EndpointsShape DEF TypeOK, PlaceInv, Collecting
<1>3. ASSUME NEW outcome \in {"ok", "cert_error", "error"}, pc \in {"ping", "ping_insecure"},
             NEW secure \in BOOLEAN, secure = (pc = "ping"),
             Asked(PingAddr, "ping", secure, outcome)
      PROVE  Requested(outcome)
  <2>1. NetworkRequest(outcome) = [to |-> PingAddr, for |-> "ping", secure |-> secure,
                                   via |-> Via(PingAddr), outcome |-> outcome]
    BY <1>3 DEF NetworkRequest, Target, Purpose
  <2> QED  BY <1>1, <1>3, <2>1, AskedEffect DEF Requested
<1>4. ASSUME NEW outcome \in {"ok", "cert_error", "error"}, pc \in {"ca", "ca_insecure"},
             NEW secure \in BOOLEAN, secure = (pc = "ca"),
             Asked(Endpoints[endpoint], "ca", secure, outcome)
      PROVE  Requested(outcome)
  <2>1. NetworkRequest(outcome) = [to |-> Endpoints[endpoint], for |-> "ca",
                                   secure |-> secure, via |-> Via(Endpoints[endpoint]),
                                   outcome |-> outcome]
    BY <1>4 DEF NetworkRequest, Target, Purpose
  <2> QED  BY <1>2, <1>4, <2>1, AskedEffect DEF Requested
<1>5. ASSUME NEW p \in Pings, PingAnswered(p) PROVE Requested("ok")
  BY <1>3, <1>5 DEF PingAnswered
<1>6. CASE PingRefused
  BY <1>0, <1>3, <1>6 DEF PingRefused
<1>7. CASE PingFails
  BY <1>0, <1>3, <1>7 DEF PingFails
<1>8. ASSUME NEW body \in Bundle, HostCAAnswered(body) PROVE Requested("ok")
  BY <1>4, <1>8 DEF HostCAAnswered
<1>9. CASE HostCARefused
  BY <1>0, <1>4, <1>9 DEF HostCARefused
<1>10. CASE HostCAFails
  BY <1>0, <1>4, <1>10 DEF HostCAFails
<1> QED  BY <1>0, <1>5, <1>6, <1>7, <1>8, <1>9, <1>10 DEF Requests

\* The steps: requests, the four local ones, and those that leave the resolution
\* where it is (tsh writing a file among them).
LEMMA Steps ==
    ASSUME [Next]_vars
    PROVE  \/ Requests
           \/ LoadProfile
           \/ ReadCert
           \/ ReadKey
           \/ AddHeadersAndSplit
           \/ /\ UNCHANGED <<home, opts, pc, profile, public, webPort, headers, pair, info,
                             endpoint, bundle, requests>>
              /\ renewed \subseteq renewed'
              /\ renewed \subseteq {"cert", "key"} => renewed' \subseteq {"cert", "key"}
<1>1. ASSUME NEW file \in {"cert", "key"}, TshWrites(file)
      PROVE  /\ UNCHANGED <<home, opts, pc, profile, public, webPort, headers, pair, info,
                            endpoint, bundle, requests>>
             /\ renewed \subseteq renewed'
             /\ renewed \subseteq {"cert", "key"} => renewed' \subseteq {"cert", "key"}
  BY <1>1 DEF TshWrites
<1>2. CASE UNCHANGED vars
  BY <1>2 DEF vars
<1> QED  BY <1>1, <1>2 DEF Next, Local, Stopped

LEMMA PlaceInit == Init => TypeOK /\ PlaceInv
<1> SUFFICES ASSUME Init PROVE TypeOK /\ PlaceInv
  OBVIOUS
<1>1. home \in Homes /\ opts \in CommandLines /\ opts \in CommandLine
      /\ opts.publicAddr \in MaybeAddr /\ opts.headerArgs \in Seq(Flags!HeaderArg)
  BY EnvironmentAssumption DEF Init, CommandLine
<1>2. DOMAIN headers \subseteq HeaderName /\ headers \in [DOMAIN headers -> HeaderValue]
  <2>1. CASE pc = "bad_args"
    BY <2>1 DEF Init, NoHeaders
  <2>2. CASE pc # "bad_args"
    <3>1. headers = Flags!HeadersOf(opts.headerArgs) /\ Flags!Accepted(opts.headerArgs)
      BY <2>2 DEF Init
    <3>2. DOMAIN headers \subseteq HeaderName /\ \A h \in DOMAIN headers : headers[h] \in HeaderValue
      <4> DEFINE H == Flags!HeadersOf(opts.headerArgs)
      <4>1. DOMAIN H \subseteq HeaderName
        BY <1>1, <3>1, HeadersOfValue
      <4>2. \A h \in DOMAIN H : H[h] \in HeaderValue
        BY <1>1, <3>1, HeadersOfValue
      <4> QED  BY <3>1, <4>1, <4>2
    <3>3. headers = [h \in DOMAIN headers |-> headers[h]]
      BY <3>1, HeadersOfIsFunction
    <3> QED  BY <3>2, <3>3
  <2> QED  BY <2>1, <2>2
<1>3. /\ pc \in {"profile", "bad_args"} /\ renewed = {} /\ profile = Absent
      /\ public = opts.publicAddr /\ webPort = 0 /\ pair = NoPair /\ info = NoPing
      /\ endpoint = 1 /\ bundle = NoBundle /\ requests = <<>>
  BY DEF Init
<1>4. pair \in [cert: PEM \cup {Empty, Absent}, key: PEM \cup {Empty}] /\ info \in Ping
  BY <1>3 DEF NoPair, NoPing, Ping, MaybeAddr
<1>5. TypeOK
  BY <1>1, <1>2, <1>3, <1>4 DEF TypeOK, Unread
<1>6. PlaceInv
  BY <1>3 DEF PlaceInv, Located, Reading, Collecting
<1> QED  BY <1>5, <1>6

\* The contents of a key file are as typed; an absent one is not used.
LEMMA ContentType ==
    ASSUME TypeOK, NEW format, NEW file \in {"cert", "key"}
    PROVE  Content(format, file) \in PEM \cup {Absent, Empty}
<1>1. /\ home.legacy[file] \in PEM \cup {Absent, Empty}
      /\ home.modern[file] \in PEM \cup {Absent, Empty}
  BY OptsType DEF Home, KeyFiles
<1> QED  BY <1>1, EnvironmentAssumption DEF Content

LEMMA PortType ==
    ASSUME NEW a \in MaybeAddr, NEW n \in Nat
    PROVE  PortOr(a, n) \in Nat
BY DEF PortOr, MaybeAddr, Addr

LEMMA HostOnlyType ==
    ASSUME NEW a \in Addr
    PROVE  HostOnly(a) \in Addr /\ HostOnly(a).host = a.host
BY DEF HostOnly, Addr

LEMMA PlaceStepLocal ==
    ASSUME TypeOK, PlaceInv, Local
    PROVE  TypeOK' /\ PlaceInv'
<1>0. /\ home \in Home /\ opts \in CommandLine /\ opts.publicAddr \in MaybeAddr
  BY OptsType DEF MaybeAddr
<1>1. CASE LoadProfile
  <2>1. /\ pc = "profile" /\ profile' = LoadActiveProfile(home)
        /\ public' = IF HasProfile' /\ public = NoAddr THEN profile'.public ELSE public
        /\ pc' = CASE HasProfile' /\ opts.useProfileCredentials -> "modern_cert"
                   [] ~(HasProfile' /\ opts.useProfileCredentials) /\ public' # NoAddr -> "headers"
                   [] public' = NoAddr /\ profile' = Absent -> "proxy_required"
                   [] OTHER -> "bad_profile"
        /\ UNCHANGED <<home, renewed, opts, webPort, headers, pair, info, endpoint, bundle, requests>>
    BY <1>1 DEF LoadProfile
  <2>2. profile' \in Profile \cup Unread
    BY <1>0, <2>1, ActiveProfileType
  <2>3. HasProfile' => profile' \in Profile /\ profile'.public \in Addr
    BY <2>2 DEF HasProfile, Profile
  <2>4. public = opts.publicAddr
    BY <2>1 DEF PlaceInv
  <2>5. public' \in MaybeAddr
    BY <1>0, <2>1, <2>3, <2>4 DEF MaybeAddr
  <2>6. /\ pc' \in {"modern_cert", "headers", "proxy_required", "bad_profile"}
        /\ pc' = "modern_cert" => HasProfile'
        /\ pc' = "headers" => public' # NoAddr
    BY <2>1
  <2>7. pc' \in {"modern_cert", "headers"} =>
           /\ public' \in Addr
           /\ opts.publicAddr = NoAddr => HasProfile'
           /\ public' = IF opts.publicAddr # NoAddr THEN opts.publicAddr ELSE profile'.public
    BY <1>0, <2>1, <2>3, <2>4, <2>5, <2>6 DEF MaybeAddr
  <2>8. TypeOK'
    BY <2>1, <2>2, <2>5, <2>6, <2>7 DEF TypeOK
  <2>9. PlaceInv'
    BY <2>1, <2>6, <2>7 DEF PlaceInv, Located, Reading, Collecting
  <2> QED  BY <2>8, <2>9
<1>2. CASE ReadCert
  <2>1. /\ pc \in {"modern_cert", "legacy_cert"} /\ pc' \in {"modern_key", "legacy_key"}
        /\ pair' = [cert |-> Content(Format, "cert"), key |-> Empty]
        /\ UNCHANGED <<home, renewed, opts, profile, public, webPort, headers, info,
                       endpoint, bundle, requests>>
    BY <1>2 DEF ReadCert
  <2>2. pair' \in [cert: PEM \cup {Empty, Absent}, key: PEM \cup {Empty}]
    BY <2>1, ContentType
  <2>3. TypeOK'
    BY <2>1, <2>2 DEF TypeOK
  <2>4. PlaceInv'
    BY <2>1 DEF PlaceInv, Located, Reading, Collecting, HasProfile
  <2> QED  BY <2>3, <2>4
<1>3. CASE ReadKey
  <2> DEFINE read == [pair EXCEPT !.key = Content(Format, "key")]
  <2>1. /\ pc \in {"modern_key", "legacy_key"} /\ pc' \in {"legacy_cert", "headers"}
        /\ pair' = NoPair \/ (pair' = read /\ {Absent, Empty} \cap {read.cert, read.key} = {})
        /\ UNCHANGED <<home, renewed, opts, profile, public, webPort, headers, info,
                       endpoint, bundle, requests>>
    BY <1>3 DEF ReadKey
  <2>2. read \in [cert: PEM \cup {Empty, Absent}, key: PEM \cup {Empty, Absent}]
    BY ContentType DEF TypeOK
  <2>3. pair' \in [cert: PEM \cup {Empty, Absent}, key: PEM \cup {Empty}]
    <3>1. NoPair \in [cert: PEM \cup {Empty, Absent}, key: PEM \cup {Empty}]
      BY DEF NoPair
    <3>2. {Absent, Empty} \cap {read.cert, read.key} = {} =>
             read \in [cert: PEM \cup {Empty, Absent}, key: PEM \cup {Empty}]
      <4> HIDE DEF read
      <4> QED  BY <2>2
    <3> QED  BY <2>1, <3>1, <3>2
  <2>4. TypeOK'
    BY <2>1, <2>3 DEF TypeOK
  <2>5. PlaceInv'
    BY <2>1 DEF PlaceInv, Located, Reading, Collecting, HasProfile
  <2> QED  BY <2>4, <2>5
<1>4. CASE AddHeadersAndSplit
  <2>1. /\ pc = "headers" /\ pc' = "ping"
        /\ headers' = Merged(headers, ConfigHeaders(home, public.host))
        /\ public' = HostOnly(public)
        /\ webPort' = PortOr(opts.publicAddr,
                             PortOr(IF HasProfile THEN profile.web ELSE NoAddr,
                                    PortOr(public, webPort)))
        /\ UNCHANGED <<home, renewed, opts, profile, pair, info, endpoint, bundle, requests>>
    BY <1>4 DEF AddHeadersAndSplit
  <2>2. public \in Addr /\ public' \in Addr
    BY <2>1, HostOnlyType DEF TypeOK
  <2>3. webPort' \in Nat
    <3>1. (IF HasProfile THEN profile.web ELSE NoAddr) \in MaybeAddr
      BY DEF TypeOK, HasProfile, Profile, MaybeAddr
    <3> QED  BY <1>0, <2>1, <2>2, <3>1, PortType DEF TypeOK, MaybeAddr
  <2>4. DOMAIN headers' \subseteq HeaderName /\ headers' \in [DOMAIN headers' -> HeaderValue]
    <3> DEFINE added == ConfigHeaders(home, public.host)
    <3>1. /\ DOMAIN added \subseteq HeaderName
          /\ \A n \in DOMAIN added : added[n] \in HeaderValue
      BY <1>0, ConfigHeadersType
    <3> HIDE DEF added
    <3>2. headers' = Merged(headers, added)
      BY <2>1 DEF added
    <3> QED  BY <3>1, <3>2 DEF Merged, TypeOK
  <2>5. TypeOK'
    BY <2>1, <2>2, <2>3, <2>4 DEF TypeOK, MaybeAddr
  <2>6. PlaceInv'
    BY <2>1 DEF PlaceInv, Located, Reading, Collecting, HasProfile
  <2> QED  BY <2>5, <2>6
<1> QED  BY <1>1, <1>2, <1>3, <1>4 DEF Local

LEMMA PlaceStepNetwork ==
    ASSUME TypeOK, PlaceInv, Requests
    PROVE  TypeOK' /\ PlaceInv'
<1>0. /\ pc \in {"ping", "ping_insecure", "ca", "ca_insecure"}
      /\ UNCHANGED <<home, renewed, opts, profile, headers, pair>>
      /\ requests' \in Seq(Request)
  BY NetworkStep DEF Requested
<1>1. PingAddr \in Addr /\ PingAddr' \in Addr /\ PingAddr' = PingAddr
  <2>1. PingAddr' = PingAddr
    BY <1>0 DEF PingAddr
  <2> QED  BY <1>0, <2>1, PingAddrType DEF Located
<1>2. ASSUME NEW p \in Pings, PingAnswered(p) PROVE TypeOK' /\ PlaceInv'
  <2>1. /\ info' = p /\ p \in Ping /\ p.webAddr \in MaybeAddr
        /\ public' = IF p.webAddr # NoAddr THEN HostOnly(p.webAddr) ELSE public
        /\ webPort' = PortOr(p.webAddr, IF webPort = 0 THEN 443 ELSE webPort)
        /\ pc' = "ca" /\ pc \in {"ping", "ping_insecure"}
        /\ UNCHANGED <<endpoint, bundle>>
    BY <1>2, EnvironmentAssumption DEF PingAnswered, Ping
  <2>2. public' \in Addr
    BY <2>1, HostOnlyType DEF TypeOK, MaybeAddr
  <2>3. webPort' \in Nat
    <3>1. (IF webPort = 0 THEN 443 ELSE webPort) \in Nat
      BY DEF TypeOK
    <3> QED  BY <2>1, <3>1, PortType
  <2>4. TypeOK'
    BY <1>0, <2>1, <2>2, <2>3 DEF TypeOK, MaybeAddr
  <2>5. endpoint' \in DOMAIN Endpoints'
    <3>1. endpoint' = 1
      BY <2>1 DEF PlaceInv, Collecting
    <3>2. 1 \in DOMAIN Endpoints'
      BY <1>1, <2>1, <2>2, <2>3, EndpointsWillBe
    <3> QED  BY <3>1, <3>2
  <2>6. PlaceInv'
    BY <1>0, <2>1, <2>5 DEF PlaceInv, Located, Reading, Collecting, HasProfile
  <2> QED  BY <2>4, <2>6
<1>3. CASE UNCHANGED <<public, webPort, info>>
  <2>1. Endpoints' = Endpoints
    BY <1>0, <1>1, <1>3 DEF Endpoints
  <2>2. /\ endpoint' \in DOMAIN Endpoints' \/ pc' \notin Collecting
        /\ pc' \notin Collecting => endpoint' = 1
        /\ pc' \in {"ping_insecure", "ca_insecure", "ca", "no_ping", "no_bundle", "resolved"}
        /\ bundle' \in Bundle \cup {NoBundle}
        /\ endpoint' \in 1..3
    <3>1. CASE PingRefused \/ PingFails
      BY <3>1 DEF PingRefused, PingFails, PlaceInv, TypeOK, Collecting
    <3>2. CASE HostCARefused
      BY <2>1, <3>2 DEF HostCARefused, PlaceInv, TypeOK, Collecting
    <3>3. ASSUME NEW body \in Bundle, HostCAAnswered(body)
          PROVE  /\ endpoint' \in DOMAIN Endpoints' /\ pc' = "resolved"
                 /\ bundle' \in Bundle /\ endpoint' \in 1..3
      BY <2>1, <3>3 DEF HostCAAnswered, PlaceInv, TypeOK, Collecting
    <3>4. CASE HostCAFails
      <4>1. /\ pc \in Collecting /\ endpoint \in DOMAIN Endpoints
            /\ DOMAIN Endpoints = 1..Len(Endpoints) /\ Len(Endpoints) \in 2..3
        BY <1>0, <1>1, <3>4, EndpointsShape DEF HostCAFails, PlaceInv, TypeOK, Collecting
      <4>2. endpoint' = endpoint \/ endpoint' \in Later
        BY <3>4 DEF HostCAFails
      <4>3. Later \subseteq DOMAIN Endpoints
        BY <4>1 DEF Later
      <4> QED  BY <2>1, <3>4, <4>1, <4>2, <4>3 DEF HostCAFails, TypeOK, Collecting
    <3>5. ASSUME NEW p \in Pings, PingAnswered(p)
          PROVE  /\ endpoint' \in DOMAIN Endpoints' \/ pc' \notin Collecting
                 /\ pc' = "ca" /\ bundle' \in Bundle \cup {NoBundle} /\ endpoint' \in 1..3
      BY <1>2, <3>5 DEF PingAnswered, TypeOK, PlaceInv, Collecting
    <3> QED  BY <3>1, <3>2, <3>3, <3>4, <3>5 DEF Requests, Collecting
  <2>3. TypeOK'
    BY <1>0, <1>3, <2>2 DEF TypeOK
  <2>4. PlaceInv'
    BY <1>0, <1>3, <2>2 DEF PlaceInv, Located, Reading, Collecting, HasProfile
  <2> QED  BY <2>3, <2>4
<1>4. Requests => (\E p \in Pings : PingAnswered(p)) \/ UNCHANGED <<public, webPort, info>>
  BY DEF Requests, PingRefused, PingFails, HostCAAnswered, HostCARefused, HostCAFails
<1> QED  BY <1>2, <1>3, <1>4

LEMMA PlaceStep == TypeOK /\ PlaceInv /\ [Next]_vars => TypeOK' /\ PlaceInv'
<1> SUFFICES ASSUME TypeOK, PlaceInv, [Next]_vars PROVE TypeOK' /\ PlaceInv'
  OBVIOUS
<1>1. CASE /\ UNCHANGED <<home, opts, pc, profile, public, webPort, headers, pair, info,
                          endpoint, bundle, requests>>
           /\ renewed \subseteq {"cert", "key"} => renewed' \subseteq {"cert", "key"}
  <2>1. TypeOK'
    BY <1>1 DEF TypeOK
  <2>2. Endpoints' = Endpoints
    BY <1>1 DEF Endpoints, PingAddr
  <2>3. PlaceInv'
    BY <1>1, <2>2 DEF PlaceInv, HasProfile
  <2> QED  BY <2>1, <2>3
<1> QED  BY <1>1, Steps, PlaceStepLocal, PlaceStepNetwork DEF Local

\* The types are kept, whatever the home directory holds, the command line says
\* and the network answers; in particular requests are only made to addresses.
THEOREM TypeCorrect == Spec => []TypeOK
<1>1. Init => TypeOK /\ PlaceInv
  BY PlaceInit
<1>2. TypeOK /\ PlaceInv /\ [Next]_vars => TypeOK' /\ PlaceInv'
  BY PlaceStep
<1> QED  BY <1>1, <1>2, PTL DEF Spec

LEMMA PlaceInvariant == Spec => [](TypeOK /\ PlaceInv)
<1>1. Init => TypeOK /\ PlaceInv
  BY PlaceInit
<1>2. TypeOK /\ PlaceInv /\ [Next]_vars => TypeOK' /\ PlaceInv'
  BY PlaceStep
<1> QED  BY <1>1, <1>2, PTL DEF Spec

-----------------------------------------------------------------------------
\* The record of requests.

Before == {"profile", "bad_args", "proxy_required", "bad_profile", "headers"} \cup Reading

\* The steps that make no request come before the first, or change nothing that
\* requests depend on.
LEMMA QuietStep ==
    ASSUME [Next]_vars, ~Requests
    PROVE  /\ UNCHANGED <<home, opts, info, endpoint, bundle, requests>>
           /\ \/ UNCHANGED <<pc, profile, public, webPort, headers, pair>>
              \/ pc \in Before /\ pc' \in Before \cup {"ping"}
<1>1. CASE LoadProfile
  <2>1. /\ pc = "profile" /\ UNCHANGED <<home, opts, info, endpoint, bundle, requests>>
        /\ pc' \in {"modern_cert", "headers", "proxy_required", "bad_profile"}
    BY <1>1 DEF LoadProfile
  <2> QED  BY <2>1 DEF Before, Reading
<1>2. CASE ReadCert
  <2>1. /\ pc \in Reading /\ UNCHANGED <<home, opts, info, endpoint, bundle, requests>>
        /\ pc' \in Reading
    BY <1>2 DEF ReadCert, Reading
  <2> QED  BY <2>1 DEF Before
<1>3. CASE ReadKey
  <2>1. /\ pc \in Reading /\ UNCHANGED <<home, opts, info, endpoint, bundle, requests>>
        /\ pc' \in Reading \cup {"headers"}
    BY <1>3 DEF ReadKey, Reading
  <2> QED  BY <2>1 DEF Before
<1>4. CASE AddHeadersAndSplit
  BY <1>4 DEF AddHeadersAndSplit, Before
<1> QED  BY <1>1, <1>2, <1>3, <1>4, Steps

\* The local part ends with the step that settles headers and address.
LEMMA LocalEnds ==
    ASSUME [Next]_vars, ~Requests, pc \in Before, pc' = "ping"
    PROVE  AddHeadersAndSplit
<1>1. pc # "ping"
  BY DEF Before, Reading
<1>2. ~LoadProfile
  BY DEF LoadProfile
<1>3. ~ReadCert /\ ~ReadKey
  BY DEF ReadCert, ReadKey
<1> QED  BY <1>1, <1>2, <1>3, Steps

\* Where a network step leads.
LEMMA NetworkMoves ==
    ASSUME TypeOK, PlaceInv, Requests
    PROVE  /\ PingAddr' = PingAddr /\ opts' = opts
           /\ \/ \E p \in Pings : PingAnswered(p)
              \/ UNCHANGED <<public, webPort, info>> /\ Endpoints' = Endpoints
           /\ pc' = "ping_insecure" <=> PingRefused
           /\ pc' = "ca_insecure" <=> HostCARefused
<1>1. UNCHANGED <<home, renewed, opts, profile, headers, pair>>
  BY NetworkStep
<1>2. PingAddr' = PingAddr /\ opts' = opts
  BY <1>1 DEF PingAddr
<1>3. UNCHANGED <<public, webPort, info>> => Endpoints' = Endpoints
  BY <1>2 DEF Endpoints
<1>4. /\ PingRefused => pc' = "ping_insecure"
      /\ HostCARefused => pc' = "ca_insecure"
      /\ (\E p \in Pings : PingAnswered(p)) => pc' = "ca"
      /\ PingFails => pc' = "no_ping"
      /\ (\E body \in Bundle : HostCAAnswered(body)) => pc' = "resolved"
      /\ HostCAFails => pc' \in {"ca", "no_bundle"}
  BY DEF PingAnswered, PingRefused, PingFails, HostCAAnswered, HostCARefused, HostCAFails
<1>5. (\E p \in Pings : PingAnswered(p)) \/ UNCHANGED <<public, webPort, info>>
  BY DEF Requests, PingRefused, PingFails, HostCAAnswered, HostCARefused, HostCAFails
<1> QED  BY <1>2, <1>3, <1>4, <1>5 DEF Requests

\* Before the first request nothing has been asked; until the ping is answered
\* only the ping has, and every request has taken the way of its address.
RecordInv ==
    /\ pc \in Before \cup {"ping"} => requests = <<>>
    /\ pc \notin Collecting =>
          /\ info = NoPing
          /\ \A n \in 1..Len(requests) : requests[n].for = "ping" /\ requests[n].to = PingAddr
    /\ \A n \in 1..Len(requests) : requests[n].via = Via(requests[n].to)

LEMMA RecordStep == TypeOK /\ PlaceInv /\ RecordInv /\ [Next]_vars => RecordInv'
<1> SUFFICES ASSUME TypeOK, PlaceInv, RecordInv, [Next]_vars PROVE RecordInv'
  OBVIOUS
<1>1. CASE ~Requests
  <2>1. /\ UNCHANGED <<home, opts, info, endpoint, bundle, requests>>
        /\ \/ UNCHANGED <<pc, profile, public, webPort>>
           \/ pc \in Before /\ pc' \in Before \cup {"ping"}
    BY <1>1, QuietStep
  <2>2. opts' = opts
    BY <2>1
  <2>3. CASE UNCHANGED <<pc, profile, public, webPort>>
    <3>1. PingAddr' = PingAddr
      BY <2>1, <2>3 DEF PingAddr
    <3> QED  BY <2>1, <2>2, <2>3, <3>1 DEF RecordInv, Via
  <2>4. CASE pc \in Before /\ pc' \in Before \cup {"ping"}
    <3>1. requests = <<>> /\ info = NoPing
      BY <2>4 DEF RecordInv, Before, Reading, Collecting
    <3> QED  BY <2>1, <2>4, <3>1 DEF RecordInv
  <2> QED  BY <2>1, <2>3, <2>4
<1>2. CASE Requests
  <2>0. pc \in {"ping", "ping_insecure", "ca", "ca_insecure"}
    BY <1>2, NetworkStep
  <2>1. PICK outcome \in {"ok", "cert_error", "error"} : Requested(outcome)
    BY <1>2, NetworkStep
  <2>2. PingAddr' = PingAddr /\ opts' = opts
    BY <1>2, NetworkMoves
  <2>3. /\ Len(requests) \in Nat /\ Len(requests') = Len(requests) + 1
        /\ \A n \in 1..Len(requests) : requests'[n] = requests[n]
        /\ requests'[Len(requests')] = NetworkRequest(outcome)
    BY <2>1 DEF Requested
  <2>4. /\ pc' \notin Before \cup {"ping"}
        /\ pc' \notin Collecting => info' = info /\ pc \notin Collecting
    BY <1>2, <2>0
       DEF Requests, PingAnswered, PingRefused, PingFails, HostCAAnswered, HostCARefused,
           HostCAFails, Before, Reading, Collecting
  <2>5. ASSUME NEW n \in 1..Len(requests')
        PROVE  /\ requests'[n].via = Via(requests[n].to)'
               /\ pc' \notin Collecting =>
                     requests'[n].for = "ping" /\ requests'[n].to = PingAddr'
    <3>1. CASE n \in 1..Len(requests)
      BY <2>2, <2>3, <2>4, <3>1 DEF RecordInv, Via
    <3>2. CASE n = Len(requests')
      BY <2>0, <2>2, <2>3, <2>4, <3>2
         DEF NetworkRequest, Target, Purpose, Collecting, Via
    <3> QED  BY <2>3, <3>1, <3>2
  <2> QED  BY <2>4, <2>5 DEF RecordInv
<1> QED  BY <1>1, <1>2

LEMMA RecordInvariant == Spec => []RecordInv
<1>1. Init => RecordInv
  BY DEF Init, RecordInv, Collecting
<1>2. TypeOK /\ PlaceInv /\ RecordInv /\ [Next]_vars => RecordInv'
  BY RecordStep
<1> QED  BY <1>1, <1>2, PlaceInvariant, PTL DEF Spec

\* The planner's choice and the one made for https URLs are the same.
LEMMA SameChoice ==
    ASSUME NEW settings,
           DetermineProxyURL(settings) # Unparsable
    PROVE  ProxyFunc(settings, "https") = ParseProxyURL(DetermineProxyURL(settings))
<1>1. ASSUME NEW v, v \notin {NoURL, Unparsable}
      PROVE  ParseProxyURL(v) # NoURL
  <2>1. CASE v \in URL /\ v.scheme = ""
    <3>1. ParseProxyURL(v) = [v EXCEPT !.scheme = "http"]
      BY <1>1, <2>1 DEF ParseProxyURL
    <3>2. [v EXCEPT !.scheme = "http"] \in URL
      BY <2>1 DEF URL, Scheme
    <3> QED  BY <3>1, <3>2, ProxyChoiceAssumption
  <2>2. CASE ~(v \in URL /\ v.scheme = "")
    BY <1>1, <2>2 DEF ParseProxyURL
  <2> QED  BY <2>1, <2>2
<1>2. CASE settings.https # NoURL
  <2>1. DetermineProxyURL(settings) = settings.https /\ settings.https # Unparsable
    BY <1>2 DEF DetermineProxyURL
  <2>2. ParseProxyURL(settings.https) # NoURL
    BY <1>1, <1>2, <2>1
  <2> QED  BY <2>1, <2>2 DEF ProxyFunc
<1>3. CASE settings.https = NoURL
  <2>1. DetermineProxyURL(settings) = settings.http /\ ParseProxyURL(settings.https) = NoURL
    BY <1>3, ProxyChoiceAssumption DEF DetermineProxyURL, ParseProxyURL
  <2> QED  BY <2>1 DEF ProxyFunc
<1> QED  BY <1>2, <1>3

\* The report names the host of a variable that has a scheme.
LEMMA SettingsAreNamed ==
    ASSUME NEW env, NEW url \in URL, url.scheme # "",
           url \in {DetectProxySettings(env).https, DetectProxySettings(env).http}
    PROVE  url.host \in ParsedHosts(env)
<1>1. HostsIn(url) = {url.host}
  BY DEF HostsIn
<1>2. url \in {FirstNonEmpty(env.https), FirstNonEmpty(env.http)}
  BY DEF DetectProxySettings
<1> QED  BY <1>1, <1>2 DEF ParsedHosts

\* Over https the cluster is asked, and then probed, through one and the same
\* proxy, and the report names every proxy that is used and has a scheme.
THEOREM ProbesFollow == Spec => []ProbesFollowRequests
<1>1. TypeOK /\ RecordInv => ProbesFollowRequests
  <2> SUFFICES ASSUME TypeOK, RecordInv PROVE ProbesFollowRequests
    OBVIOUS
  <2> DEFINE settings == DetectProxySettings(opts.env)
             planned == DetermineProxyURL(settings)
  <2>1. DOMAIN requests = 1..Len(requests)
    BY DEF TypeOK
  <2>2. ASSUME planned # Unparsable, NEW n \in DOMAIN requests,
               Place(requests[n].to).scheme = "https"
        PROVE  requests[n].via = ParseProxyURL(planned)
    <3>1. SchemeOf(requests[n].to) = "https"
      BY <2>2 DEF Place
    <3>2. requests[n].via = ProxyFunc(settings, "https")
      BY <2>1, <3>1 DEF RecordInv, Via
    <3> QED  BY <2>2, <3>2, SameChoice
  <2>3. ASSUME NEW url, url \in URL, url.scheme # "",
               url \in {settings.https, settings.http}
        PROVE  url.host \in ParsedHosts(opts.env)
    BY <2>3, SettingsAreNamed
  <2> QED  BY <2>2, <2>3 DEF ProbesFollowRequests
<1> QED  BY <1>1, TypeCorrect, RecordInvariant, PTL

-----------------------------------------------------------------------------
\* Verification given up.

\* r is the request of this step, refused for its certificate.
Refused(r) ==
    /\ r.to = Target /\ r.for = Purpose /\ r.via = Via(Target)
    /\ r.secure /\ r.outcome = "cert_error"

\* A refusal for the certificate is the last request exactly while the same
\* request is about to be repeated.
RetryInv ==
    /\ pc \in {"ping_insecure", "ca_insecure"} =>
          Len(requests) > 0 /\ Refused(requests[Len(requests)])
    /\ pc \notin {"ping_insecure", "ca_insecure"} /\ Len(requests) > 0 =>
          requests[Len(requests)].outcome # "cert_error"
    /\ InsecureOnlyAfterCertError

LEMMA RetryQuiet ==
    ASSUME TypeOK, PlaceInv, RecordInv, RetryInv, [Next]_vars, ~Requests
    PROVE  RetryInv'
<1>1. /\ UNCHANGED <<home, opts, info, endpoint, bundle, requests>>
      /\ \/ UNCHANGED <<pc, profile, public, webPort, headers, pair>>
         \/ pc \in Before /\ pc' \in Before \cup {"ping"}
  BY QuietStep
<1>2. CASE UNCHANGED <<pc, profile, public, webPort, headers, pair>>
  <2>1. Target' = Target /\ Purpose' = Purpose /\ Via(Target)' = Via(Target)
    BY <1>1, <1>2 DEF Target, Purpose, Endpoints, PingAddr, Via
  <2> QED  BY <1>1, <1>2, <2>1
           DEF RetryInv, InsecureOnlyAfterCertError, Refused, SameRequest
<1>3. CASE pc \in Before /\ pc' \in Before \cup {"ping"}
  <2>1. requests = <<>> /\ requests' = <<>>
    BY <1>1, <1>3 DEF RecordInv
  <2>2. pc' \notin {"ping_insecure", "ca_insecure"}
    BY <1>3 DEF Before, Reading
  <2> QED  BY <2>1, <2>2 DEF RetryInv, InsecureOnlyAfterCertError
<1> QED  BY <1>1, <1>2, <1>3

LEMMA RetryRequest ==
    ASSUME TypeOK, PlaceInv, RetryInv, Requests
    PROVE  RetryInv'
<1>1. PICK outcome \in {"ok", "cert_error", "error"} :
         Requested(outcome) /\ (outcome = "cert_error" <=> PingRefused \/ HostCARefused)
  BY NetworkStep, NetworkMoves
     DEF PingAnswered, PingFails, HostCAAnswered, HostCAFails, PingRefused, HostCARefused
<1>2. /\ pc \in {"ping", "ping_insecure", "ca", "ca_insecure"}
      /\ pc' \in {"ping_insecure", "ca_insecure"} <=> outcome = "cert_error"
  BY <1>1, NetworkStep, NetworkMoves
<1> DEFINE L == Len(requests)
           new == NetworkRequest(outcome)
<1>3. /\ L \in Nat /\ Len(requests') = L + 1 /\ requests'[L + 1] = new
      /\ \A n \in 1..L : requests'[n] = requests[n]
      /\ DOMAIN requests = 1..L /\ DOMAIN requests' = 1..(L + 1)
  BY <1>1 DEF Requested, TypeOK
<1>4. /\ new.to = Target /\ new.for = Purpose /\ new.via = Via(Target) /\ new.outcome = outcome
      /\ new.secure <=> pc \in {"ping", "ca"}
  BY DEF NetworkRequest
<1>5. outcome = "cert_error" =>
         /\ Target' = Target /\ Purpose' = Purpose /\ Via(Target)' = Via(Target)
         /\ new.secure /\ pc' \in {"ping_insecure", "ca_insecure"}
  <2> SUFFICES ASSUME outcome = "cert_error"
               PROVE  /\ Target' = Target /\ Purpose' = Purpose /\ Via(Target)' = Via(Target)
                      /\ new.secure /\ pc' \in {"ping_insecure", "ca_insecure"}
    OBVIOUS
  <2>1. /\ PingAddr' = PingAddr /\ opts' = opts
        /\ UNCHANGED <<public, webPort, info, endpoint>> /\ Endpoints' = Endpoints
        /\ \/ pc = "ping" /\ pc' = "ping_insecure"
           \/ pc = "ca" /\ pc' = "ca_insecure"
    BY <1>1, NetworkMoves DEF PingRefused, HostCARefused, Endpoints
  <2>2. Target' = Target /\ Purpose' = Purpose /\ Via(Target)' = Via(Target)
    BY <2>1 DEF Target, Purpose, Via
  <2> QED  BY <1>4, <2>1, <2>2
<1> HIDE DEF new
<1>6. /\ pc' \in {"ping_insecure", "ca_insecure"} =>
            Len(requests') > 0 /\ Refused(requests[Len(requests)])'
      /\ pc' \notin {"ping_insecure", "ca_insecure"} =>
            requests'[Len(requests')].outcome # "cert_error"
  BY <1>2, <1>3, <1>4, <1>5 DEF Refused
<1>7. ASSUME NEW n \in 1..(L + 1), ~requests'[n].secure
      PROVE  /\ n > 1 /\ SameRequest(requests'[n - 1], requests'[n])
             /\ requests'[n - 1].secure /\ requests'[n - 1].outcome = "cert_error"
  <2>1. CASE n \in 1..L
    <3>1. requests'[n] = requests[n]
      BY <1>3, <2>1
    <3>2. /\ n > 1 /\ SameRequest(requests[n - 1], requests[n])
          /\ requests[n - 1].secure /\ requests[n - 1].outcome = "cert_error"
      BY <1>3, <1>7, <2>1, <3>1 DEF RetryInv, InsecureOnlyAfterCertError
    <3>3. requests'[n - 1] = requests[n - 1]
      BY <1>3, <2>1, <3>2
    <3> QED  BY <3>1, <3>2, <3>3
  <2>2. CASE n = L + 1
    <3>1. pc \in {"ping_insecure", "ca_insecure"} /\ requests'[n] = new
      BY <1>2, <1>3, <1>4, <1>7, <2>2
    <3>2. L > 0 /\ Refused(requests[L])
      BY <3>1 DEF RetryInv
    <3>3. requests'[n - 1] = requests[L]
      BY <1>3, <2>2, <3>2
    <3> QED  BY <1>3, <1>4, <2>2, <3>1, <3>2, <3>3 DEF Refused, SameRequest
  <2> QED  BY <1>3, <2>1, <2>2
<1>8. ASSUME NEW n \in 1..L, requests'[n].outcome = "cert_error"
      PROVE  ~requests'[n + 1].secure /\ SameRequest(requests'[n], requests'[n + 1])
  <2>1. CASE n < L
    <3>1. requests'[n] = requests[n] /\ requests'[n + 1] = requests[n + 1]
      BY <1>3, <2>1
    <3> QED  BY <1>3, <1>8, <2>1, <3>1 DEF RetryInv, InsecureOnlyAfterCertError
  <2>2. CASE n = L
    <3>1. requests'[n] = requests[L] /\ requests'[n + 1] = new /\ L > 0
      BY <1>3, <2>2
    <3>2. pc \in {"ping_insecure", "ca_insecure"} /\ Refused(requests[L])
      BY <1>8, <3>1 DEF RetryInv
    <3> QED  BY <1>4, <3>1, <3>2 DEF Refused, SameRequest
  <2>3. L \in Nat
    BY <1>3
  <2>4. n < L \/ n = L
    BY <2>3
  <2> QED  BY <2>1, <2>2, <2>4
<1>9. InsecureOnlyAfterCertError'
  <2> SUFFICES ASSUME NEW n \in 1..(L + 1)
               PROVE  /\ ~requests'[n].secure =>
                            /\ n > 1 /\ SameRequest(requests'[n - 1], requests'[n])
                            /\ requests'[n - 1].secure
                            /\ requests'[n - 1].outcome = "cert_error"
                      /\ requests'[n].outcome = "cert_error" /\ n < L + 1 =>
                            /\ ~requests'[n + 1].secure
                            /\ SameRequest(requests'[n], requests'[n + 1])
    BY <1>3 DEF InsecureOnlyAfterCertError, SameRequest
  <2>1. n < L + 1 => n \in 1..L
    BY <1>3
  <2> QED  BY <1>7, <1>8, <2>1
<1> QED  BY <1>6, <1>9 DEF RetryInv

\* Verification is only given up to repeat, at once and once, the request that
\* was refused for the certificate.
THEOREM VerificationKept == Spec => []InsecureOnlyAfterCertError
<1>1. Init => RetryInv
  BY DEF Init, RetryInv, InsecureOnlyAfterCertError
<1>2. TypeOK /\ PlaceInv /\ RecordInv /\ RetryInv /\ [Next]_vars => RetryInv'
  BY RetryQuiet, RetryRequest
<1>3. RetryInv => InsecureOnlyAfterCertError
  BY DEF RetryInv
<1> QED  BY <1>1, <1>2, <1>3, PlaceInvariant, RecordInvariant, PTL DEF Spec

-----------------------------------------------------------------------------
\* The turns of the endpoints.

\* An endpoint whose turn has come has an address that had none before as it is
\* written, a request that has been made is not due again, and an answer ends what
\* it answers.
TurnsInv ==
    /\ pc \in Collecting =>
          /\ \A m \in 1..(endpoint - 1) : Endpoints[m] # Endpoints[endpoint]
          /\ \A n \in 1..Len(requests) : requests[n].for = "ca" =>
                \E m \in 1..endpoint :
                    /\ requests[n].to = Endpoints[m]
                    /\ m = endpoint => pc # "ca"
                    /\ m = endpoint /\ pc = "ca_insecure" => requests[n].secure
    /\ pc = "ping_insecure" => \A n \in 1..Len(requests) : requests[n].secure
    /\ \A n \in 1..Len(requests) : requests[n].outcome = "ok" =>
          pc \in Collecting /\ (requests[n].for = "ca" => pc = "resolved")
    /\ AskedAgainOnlyRespelled

\* A request is added, to the address and for the purpose of the state.
LEMMA NewRequest ==
    ASSUME TypeOK, PlaceInv, Requests
    PROVE  /\ Len(requests) \in Nat /\ Len(requests') = Len(requests) + 1
           /\ DOMAIN requests = 1..Len(requests) /\ DOMAIN requests' = 1..(Len(requests) + 1)
           /\ \A n \in 1..Len(requests) : requests'[n] = requests[n]
           /\ requests'[Len(requests) + 1].to = Target
           /\ requests'[Len(requests) + 1].for = Purpose
           /\ requests'[Len(requests) + 1].secure <=> pc \in {"ping", "ca"}
<1>1. PICK outcome \in {"ok", "cert_error", "error"} : Requested(outcome)
  BY NetworkStep
<1>2. /\ Len(requests) \in Nat /\ Len(requests') = Len(requests) + 1
      /\ DOMAIN requests = 1..Len(requests) /\ DOMAIN requests' = 1..(Len(requests) + 1)
      /\ \A n \in 1..Len(requests) : requests'[n] = requests[n]
      /\ requests'[Len(requests) + 1] = NetworkRequest(outcome)
  BY <1>1 DEF Requested, TypeOK
<1>3. /\ NetworkRequest(outcome).to = Target /\ NetworkRequest(outcome).for = Purpose
      /\ NetworkRequest(outcome).secure <=> pc \in {"ping", "ca"}
  BY DEF NetworkRequest
<1> QED  BY <1>2, <1>3

\* The endpoints while they are being asked.
LEMMA CollectingShape ==
    ASSUME TypeOK, PlaceInv, pc \in Collecting
    PROVE  /\ Len(Endpoints) \in 2..3 /\ DOMAIN Endpoints = 1..Len(Endpoints)
           /\ endpoint \in 1..Len(Endpoints)
           /\ \A n \in 1..Len(Endpoints) : Endpoints[n] \in Addr
<1>1. PingAddr \in Addr
  BY PingAddrType DEF Located, Collecting
<1>2. public \in Addr /\ info \in Ping /\ webPort \in Nat
  BY DEF TypeOK, Collecting
<1>3. endpoint \in DOMAIN Endpoints
  BY DEF PlaceInv
<1> QED  BY <1>1, <1>2, <1>3, EndpointsShape

LEMMA LaterShape ==
    ASSUME TypeOK, PlaceInv, pc \in Collecting, NEW n \in Later
    PROVE  /\ n \in Int /\ endpoint < n /\ n <= Len(Endpoints)
           /\ \A m \in 1..(n - 1) : Endpoints[m] # Endpoints[n]
<1>1. endpoint \in Int /\ Len(Endpoints) \in Int
  BY CollectingShape
<1>2. n \in (endpoint + 1)..Len(Endpoints) /\ \A m \in 1..(n - 1) : Endpoints[m] # Endpoints[n]
  BY DEF Later
<1>3. n \in Int /\ endpoint < n /\ n <= Len(Endpoints)
  BY <1>1, <1>2
<1> QED  BY <1>2, <1>3

\* The endpoints are settled by the answer to the ping, and asked from then on.
LEMMA NetworkSplit ==
    ASSUME TypeOK, PlaceInv, Requests, pc' \in Collecting
    PROVE  \/ \E p \in Pings : PingAnswered(p)
           \/ pc \in {"ca", "ca_insecure"} /\ Endpoints' = Endpoints
<1>1. (\E p \in Pings : PingAnswered(p)) \/ Endpoints' = Endpoints
  BY NetworkMoves
<1>2. PingRefused \/ PingFails => pc' \notin Collecting
  BY DEF PingRefused, PingFails, Collecting
<1>3. HostCARefused \/ HostCAFails \/ (\E body \in Bundle : HostCAAnswered(body))
        => pc \in {"ca", "ca_insecure"}
  BY DEF HostCARefused, HostCAFails, HostCAAnswered
<1> QED  BY <1>1, <1>2, <1>3 DEF Requests

LEMMA TurnsQuiet ==
    ASSUME TypeOK, PlaceInv, RecordInv, TurnsInv, [Next]_vars, ~Requests
    PROVE  TurnsInv'
<1>1. /\ UNCHANGED <<home, opts, info, endpoint, bundle, requests>>
      /\ \/ UNCHANGED <<pc, profile, public, webPort, headers, pair>>
         \/ pc \in Before /\ pc' \in Before \cup {"ping"}
  BY QuietStep
<1>2. CASE UNCHANGED <<pc, profile, public, webPort, headers, pair>>
  <2>1. Endpoints' = Endpoints
    BY <1>1, <1>2 DEF Endpoints, PingAddr
  <2> QED  BY <1>1, <1>2, <2>1 DEF TurnsInv, AskedAgainOnlyRespelled, Place
<1>3. CASE pc \in Before /\ pc' \in Before \cup {"ping"}
  <2>1. requests' = <<>>
    BY <1>1, <1>3 DEF RecordInv
  <2>2. pc' \notin Collecting \cup {"ping_insecure"}
    BY <1>3 DEF Before, Reading, Collecting
  <2> QED  BY <2>1, <2>2 DEF TurnsInv, AskedAgainOnlyRespelled
<1> QED  BY <1>1, <1>2, <1>3

\* The request about to be made has not been made.
LEMMA NotAskedYet ==
    ASSUME TypeOK, PlaceInv, RecordInv, TurnsInv, Requests, NEW n \in 1..Len(requests)
    PROVE  \/ requests[n].to # Target \/ requests[n].for # Purpose
           \/ requests[n].secure /\ pc \notin {"ping", "ca"}
<1>1. pc \in {"ping", "ping_insecure", "ca", "ca_insecure"}
  BY NetworkStep
<1>2. CASE pc = "ping"
  <2>1. requests = <<>>
    BY <1>2 DEF RecordInv
  <2> QED  BY <2>1
<1>3. CASE pc = "ping_insecure"
  BY <1>3 DEF TurnsInv
<1>4. CASE pc \in {"ca", "ca_insecure"}
  <2>1. Target = Endpoints[endpoint] /\ Purpose = "ca"
    BY <1>4 DEF Target, Purpose
  <2>2. SUFFICES ASSUME requests[n].for = "ca", requests[n].to = Endpoints[endpoint]
                 PROVE  requests[n].secure /\ pc = "ca_insecure"
    BY <2>1
  <2>3. PICK m \in 1..endpoint :
           /\ requests[n].to = Endpoints[m]
           /\ m = endpoint => pc # "ca"
           /\ m = endpoint /\ pc = "ca_insecure" => requests[n].secure
    BY <1>4, <2>2 DEF TurnsInv, Collecting
  <2>4. m \notin 1..(endpoint - 1)
    BY <1>4, <2>2, <2>3 DEF TurnsInv, Collecting
  <2>5. m = endpoint
    BY <2>4 DEF TypeOK
  <2> QED  BY <1>4, <2>3, <2>5
<1> QED  BY <1>1, <1>2, <1>3, <1>4

LEMMA TurnsRequest ==
    ASSUME TypeOK, PlaceInv, RecordInv, TurnsInv, Requests
    PROVE  TurnsInv'
<1> DEFINE L == Len(requests)
           new == requests'[L + 1]
<1>1. /\ L \in Nat /\ Len(requests') = L + 1
      /\ DOMAIN requests = 1..L /\ DOMAIN requests' = 1..(L + 1)
      /\ \A n \in 1..L : requests'[n] = requests[n]
      /\ new.to = Target /\ new.for = Purpose
      /\ new.secure <=> pc \in {"ping", "ca"}
  BY NewRequest
<1> HIDE DEF new
<1>2. AskedAgainOnlyRespelled'
  <2>1. ASSUME NEW n \in 1..L, requests[n].for = new.for, requests[n].secure = new.secure
        PROVE  requests[n].to # new.to /\ requests[n].outcome # "ok"
    <3>1. requests[n].to # new.to
      BY <1>1, <2>1, NotAskedYet
    <3>2. \/ pc \in {"ping", "ping_insecure"}
          \/ pc \in {"ca", "ca_insecure"} /\ new.for = "ca"
      BY <1>1, NetworkStep DEF Purpose
    <3> QED  BY <2>1, <3>1, <3>2 DEF TurnsInv, Collecting
  <2>2. SUFFICES ASSUME NEW m \in 1..(L + 1), NEW n \in 1..(L + 1), m < n,
                        requests'[m].for = requests'[n].for,
                        requests'[m].secure = requests'[n].secure,
                        Place(requests'[m].to) = Place(requests'[n].to)
                 PROVE  requests'[m].to # requests'[n].to /\ requests'[m].outcome # "ok"
    BY <1>1 DEF AskedAgainOnlyRespelled, Place, SchemeOf
  <2>3. CASE n \in 1..L
    <3>1. m \in 1..L /\ requests'[m] = requests[m] /\ requests'[n] = requests[n]
      BY <1>1, <2>2, <2>3
    <3> QED  BY <1>1, <2>2, <2>3, <3>1 DEF TurnsInv, AskedAgainOnlyRespelled
  <2>4. CASE n = L + 1
    <3>1. m \in 1..L /\ requests'[m] = requests[m]
      BY <1>1, <2>2, <2>4
    <3> QED  BY <1>1, <2>1, <2>2, <2>4, <3>1 DEF new
  <2> QED  BY <1>1, <2>3, <2>4
<1>3. pc' = "ping_insecure" => \A n \in 1..Len(requests') : requests'[n].secure
  <2> SUFFICES ASSUME pc' = "ping_insecure" PROVE \A n \in 1..(L + 1) : requests'[n].secure
    BY <1>1
  <2>1. pc = "ping" /\ requests = <<>>
    BY NetworkMoves DEF PingRefused, RecordInv
  <2> QED  BY <1>1, <2>1 DEF new
<1>4. ASSUME pc' \in Collecting
      PROVE  /\ \A m \in 1..(endpoint' - 1) : Endpoints'[m] # Endpoints'[endpoint']
             /\ \A n \in 1..(L + 1) : requests'[n].for = "ca" =>
                   \E m \in 1..endpoint' :
                      /\ requests'[n].to = Endpoints'[m]
                      /\ m = endpoint' => pc' # "ca"
                      /\ m = endpoint' /\ pc' = "ca_insecure" => requests'[n].secure
  <2>1. CASE \E p \in Pings : PingAnswered(p)
    <3>1. endpoint' = 1 /\ pc \in {"ping", "ping_insecure"}
      BY <2>1 DEF PingAnswered, PlaceInv, Collecting
    <3>2. \A n \in 1..L : requests[n].for = "ping"
      BY <3>1 DEF RecordInv, Collecting
    <3>3. \A n \in 1..(L + 1) : requests'[n].for = "ping"
      BY <1>1, <3>1, <3>2 DEF new, Purpose
    <3> QED  BY <3>1, <3>3
  <2>2. CASE pc \in {"ca", "ca_insecure"} /\ Endpoints' = Endpoints
    <3>1. /\ endpoint \in 1..3 /\ Target = Endpoints[endpoint]
          /\ \A m \in 1..(endpoint - 1) : Endpoints[m] # Endpoints[endpoint]
      BY <2>2 DEF TypeOK, Target, TurnsInv, Collecting
    <3>2. ASSUME NEW n \in 1..L, requests[n].for = "ca"
          PROVE  \E m \in 1..endpoint :
                    /\ requests[n].to = Endpoints[m]
                    /\ m = endpoint => pc = "ca_insecure" /\ requests[n].secure
      BY <2>2, <3>2 DEF TurnsInv, Collecting
    <3>3. CASE HostCAFails /\ Later # {}
      <4>1. pc' = "ca" /\ endpoint' \in Later
        BY <3>3 DEF HostCAFails
      <4>2. /\ endpoint' \in Int /\ endpoint < endpoint'
            /\ \A m \in 1..(endpoint' - 1) : Endpoints[m] # Endpoints[endpoint']
        BY <2>2, <4>1, LaterShape DEF Collecting
      <4>3. ASSUME NEW n \in 1..(L + 1), requests'[n].for = "ca"
            PROVE  \E m \in 1..endpoint : requests'[n].to = Endpoints[m]
        <5>1. CASE n \in 1..L
          BY <1>1, <3>2, <4>3, <5>1
        <5>2. CASE n = L + 1
          BY <1>1, <3>1, <5>2 DEF new
        <5> QED  BY <1>1, <5>1, <5>2
      <4>4. \A m \in 1..endpoint : m \in 1..endpoint' /\ m # endpoint'
        BY <3>1, <4>2
      <4> QED  BY <2>2, <4>2, <4>3, <4>4
    <3>4. CASE endpoint' = endpoint /\ pc' # "ca" /\ (pc' = "ca_insecure" => pc = "ca")
      <4>1. ASSUME NEW n \in 1..(L + 1), requests'[n].for = "ca"
            PROVE  \E m \in 1..endpoint :
                      /\ requests'[n].to = Endpoints[m]
                      /\ m = endpoint /\ pc' = "ca_insecure" => requests'[n].secure
        <5>1. CASE n \in 1..L
          BY <1>1, <3>2, <4>1, <5>1
        <5>2. CASE n = L + 1
          BY <1>1, <3>1, <3>4, <5>2 DEF new
        <5> QED  BY <1>1, <5>1, <5>2
      <4> QED  BY <2>2, <3>1, <3>4, <4>1
    <3>5. \/ HostCAFails /\ Later # {}
          \/ endpoint' = endpoint /\ pc' # "ca" /\ (pc' = "ca_insecure" => pc = "ca")
      BY <2>2 DEF Requests, PingAnswered, PingRefused, PingFails, HostCAAnswered,
                  HostCARefused, HostCAFails
    <3> QED  BY <3>3, <3>4, <3>5
  <2> QED  BY <1>4, <2>1, <2>2, NetworkSplit
<1>5. ASSUME NEW n \in 1..(L + 1), requests'[n].outcome = "ok"
      PROVE  pc' \in Collecting /\ (requests'[n].for = "ca" => pc' = "resolved")
  <2>1. CASE n \in 1..L
    <3>1. requests'[n] = requests[n]
      BY <1>1, <2>1
    <3>2. pc \in Collecting /\ (requests[n].for = "ca" => pc = "resolved")
      BY <1>5, <2>1, <3>1 DEF TurnsInv
    <3>3. pc # "resolved"
      BY NetworkStep
    <3>4. pc' \in Collecting
      BY <3>2, <3>3
         DEF Requests, PingAnswered, PingRefused, PingFails, HostCAAnswered, HostCARefused,
             HostCAFails, Collecting
    <3> QED  BY <3>1, <3>2, <3>3, <3>4
  <2>2. CASE n = L + 1
    <3>1. \/ \E p \in Pings : PingAnswered(p)
          \/ \E body \in Bundle : HostCAAnswered(body)
      BY <1>1, <1>5, <2>2, NetworkStep DEF Requested, NetworkRequest
    <3>2. requests'[n].for = Purpose
      BY <1>1, <2>2 DEF new
    <3> QED  BY <3>1, <3>2 DEF PingAnswered, HostCAAnswered, Purpose, Collecting
  <2> QED  BY <1>1, <2>1, <2>2
<1> QED  BY <1>1, <1>2, <1>3, <1>4, <1>5 DEF TurnsInv

\* A place is asked again only by another spelling, and only after it failed: an
\* endpoint that has come up before, as it is written, is passed over, a repetition
\* is told from the original by its verification, and an answer ends the search.
THEOREM NothingAskedTwiceAsWritten == Spec => []AskedAgainOnlyRespelled
<1>1. Init => TurnsInv
  BY DEF Init, TurnsInv, AskedAgainOnlyRespelled, Collecting
<1>2. TypeOK /\ PlaceInv /\ RecordInv /\ TurnsInv /\ [Next]_vars => TurnsInv'
  BY TurnsQuiet, TurnsRequest
<1>3. TurnsInv => AskedAgainOnlyRespelled
  BY DEF TurnsInv
<1> QED  BY <1>1, <1>2, <1>3, PlaceInvariant, RecordInvariant, PTL DEF Spec
-----------------------------------------------------------------------------
\* The search for a bundle.

Failed(m) ==
    \E n \in 1..Len(requests) :
        /\ requests[n].for = "ca" /\ requests[n].to = Endpoints[m]
        /\ requests[n].outcome = "error"

\* The endpoints before the current one have failed, those passed over included:
\* their addresses had come up, and failed, before.
SearchInv ==
    /\ pc \in {"ca", "ca_insecure", "resolved"} => \A m \in 1..(endpoint - 1) : Failed(m)
    /\ pc = "no_bundle" => \A m \in DOMAIN Endpoints : Failed(m)
    /\ pc = "resolved" =>
          /\ Len(requests) > 0 /\ bundle # NoBundle
          /\ requests[Len(requests)].for = "ca" /\ requests[Len(requests)].outcome = "ok"
          /\ requests[Len(requests)].to = Endpoints[endpoint]

LEMMA SearchQuiet ==
    ASSUME TypeOK, PlaceInv, SearchInv, [Next]_vars, ~Requests
    PROVE  SearchInv'
<1>1. /\ UNCHANGED <<home, opts, info, endpoint, bundle, requests>>
      /\ \/ UNCHANGED <<pc, profile, public, webPort, headers, pair>>
         \/ pc \in Before /\ pc' \in Before \cup {"ping"}
  BY QuietStep
<1>2. CASE UNCHANGED <<pc, profile, public, webPort, headers, pair>>
  <2>1. Endpoints' = Endpoints
    BY <1>1, <1>2 DEF Endpoints, PingAddr
  <2> QED  BY <1>1, <1>2, <2>1 DEF SearchInv, Failed
<1>3. CASE pc \in Before /\ pc' \in Before \cup {"ping"}
  <2>1. pc' \notin Collecting
    BY <1>3 DEF Before, Reading, Collecting
  <2> QED  BY <2>1 DEF SearchInv, Collecting
<1> QED  BY <1>1, <1>2, <1>3

\* A failure stays on record as long as the endpoints stay.
LEMMA FailedStays ==
    ASSUME TypeOK, PlaceInv, Requests, Endpoints' = Endpoints, NEW m, Failed(m)
    PROVE  Failed(m)'
<1>1. PICK n \in 1..Len(requests) :
        /\ requests[n].for = "ca" /\ requests[n].to = Endpoints[m]
        /\ requests[n].outcome = "error"
  BY DEF Failed
<1>2. n \in 1..Len(requests') /\ requests'[n] = requests[n]
  BY NewRequest
<1> QED  BY <1>1, <1>2 DEF Failed

\* What a failure without a later turn says of the endpoints passed over: each
\* repeats an earlier address, the first occurrence of which had its turn.
LEMMA PassedOver ==
    ASSUME TypeOK, PlaceInv, pc \in Collecting, NEW k \in 1..Len(Endpoints),
           \A n \in Later : ~(n <= k)
    PROVE  \E m \in 1..endpoint : Endpoints[m] = Endpoints[k]
<1> DEFINE T == {m \in 1..k : Endpoints[m] = Endpoints[k]}
<1>1. /\ Len(Endpoints) \in Nat /\ endpoint \in 1..Len(Endpoints)
  BY CollectingShape
<1>2. k \in Nat /\ T \in SUBSET Nat /\ k \in T
  BY <1>1
<1>3. PICK m \in T : \A y \in T : m <= y
  <2> HIDE DEF T
  <2> QED  BY <1>2, LeastNatural
<1>4. m \in 1..k /\ Endpoints[m] = Endpoints[k]
  OBVIOUS
<1>5. \A y \in 1..(m - 1) : Endpoints[y] # Endpoints[m]
  <2> SUFFICES ASSUME NEW y \in 1..(m - 1), Endpoints[y] = Endpoints[m] PROVE FALSE
    OBVIOUS
  <2>1. y \in 1..k /\ ~(m <= y)
    BY <1>2, <1>4
  <2>2. y \in T
    BY <1>4, <2>1
  <2> QED  BY <1>3, <2>1, <2>2
<1>6. m \notin Later
  BY <1>4, <1>2
<1>7. m \in 1..Len(Endpoints) /\ m \notin (endpoint + 1)..Len(Endpoints)
  <2>1. m \in 1..Len(Endpoints)
    BY <1>1, <1>2, <1>4
  <2> QED  BY <1>5, <1>6, <2>1 DEF Later
<1>8. m \in 1..endpoint
  BY <1>1, <1>7
<1> QED  BY <1>4, <1>8

LEMMA SearchRequest ==
    ASSUME TypeOK, PlaceInv, SearchInv, Requests
    PROVE  SearchInv'
<1> DEFINE L == Len(requests)
           new == requests'[L + 1]
<1>1. /\ L \in Nat /\ Len(requests') = L + 1
      /\ new.to = Target /\ new.for = Purpose
  BY NewRequest
<1> HIDE DEF new
<1>2. CASE pc' \notin Collecting
  BY <1>2 DEF SearchInv, Collecting
<1>3. CASE \E p \in Pings : PingAnswered(p)
  <2>1. endpoint' = 1 /\ pc' = "ca"
    BY <1>3 DEF PingAnswered, PlaceInv, Collecting
  <2> QED  BY <2>1 DEF SearchInv
<1>4. CASE pc \in {"ca", "ca_insecure"} /\ Endpoints' = Endpoints
  <2>1. /\ new.to = Endpoints[endpoint] /\ new.for = "ca"
        /\ endpoint \in 1..Len(Endpoints) /\ Len(Endpoints) \in 2..3
        /\ DOMAIN Endpoints = 1..Len(Endpoints)
    BY <1>1, <1>4, CollectingShape DEF Target, Purpose, Collecting
  <2>2. \A m \in 1..(endpoint - 1) : Failed(m) /\ Failed(m)'
    BY <1>4, FailedStays DEF SearchInv
  <2>3. CASE HostCARefused
    <3>1. pc' = "ca_insecure" /\ endpoint' = endpoint
      BY <2>3 DEF HostCARefused
    <3> QED  BY <2>2, <3>1 DEF SearchInv
  <2>4. ASSUME NEW body \in Bundle, HostCAAnswered(body) PROVE SearchInv'
    <3>1. /\ pc' = "resolved" /\ endpoint' = endpoint /\ bundle' = body
          /\ requests'[Len(requests')] = [to |-> Endpoints[endpoint], for |-> "ca",
                 secure |-> pc = "ca", via |-> Via(Endpoints[endpoint]), outcome |-> "ok"]
      BY <1>1, <2>4 DEF HostCAAnswered, Asked, TypeOK
    <3>2. bundle' # NoBundle
      BY <3>1, EnvironmentAssumption
    <3> QED  BY <1>1, <1>4, <2>1, <2>2, <3>1, <3>2 DEF SearchInv
  <2>5. CASE HostCAFails
    <3>1. new.outcome = "error"
      BY <1>1, <2>5 DEF HostCAFails, Asked, TypeOK, new
    <3>2. ASSUME NEW m \in 1..endpoint PROVE Failed(m)'
      <4>1. CASE m \in 1..(endpoint - 1)
        BY <2>2, <4>1
      <4>2. CASE m = endpoint
        <5>1. L + 1 \in 1..Len(requests')
          BY <1>1
        <5> QED  BY <1>4, <2>1, <3>1, <4>2, <5>1 DEF Failed, new
      <4> QED  BY <2>1, <4>1, <4>2
    <3>3. ASSUME NEW k \in 1..Len(Endpoints), \A n \in Later : ~(n <= k)
          PROVE  Failed(k)'
      <4>1. PICK m \in 1..endpoint : Endpoints[m] = Endpoints[k]
        BY <1>4, <3>3, PassedOver DEF Collecting
      <4> QED  BY <1>4, <3>2, <4>1 DEF Failed
    <3>4. CASE Later = {}
      <4>1. pc' = "no_bundle"
        BY <2>5, <3>4 DEF HostCAFails
      <4>2. \A k \in DOMAIN Endpoints : Failed(k)'
        BY <2>1, <3>3, <3>4
      <4> QED  BY <1>4, <4>1, <4>2 DEF SearchInv
    <3>5. CASE Later # {}
      <4>1. /\ pc' = "ca" /\ endpoint' \in Later
            /\ \A n \in Later : endpoint' <= n
        BY <2>5, <3>5 DEF HostCAFails
      <4>2. /\ endpoint' \in Int /\ endpoint' <= Len(Endpoints) /\ Len(Endpoints) \in Int
            /\ \A n \in Later : n \in Int
        BY <1>4, <2>1, <4>1, LaterShape DEF Collecting
      <4>3. PICK e \in Int : e = endpoint'
        BY <4>2
      <4>4. ASSUME NEW k \in 1..(e - 1) PROVE Failed(k)'
        <5>1. e <= Len(Endpoints) /\ Len(Endpoints) \in Int
          BY <4>2, <4>3
        <5>2. k \in 1..Len(Endpoints)
          BY <5>1
        <5>3. ASSUME NEW n \in Later PROVE ~(n <= k)
          <6>1. n \in Int /\ e <= n
            BY <4>1, <4>2, <4>3
          <6> QED  BY <6>1
        <5> QED  BY <3>3, <5>2, <5>3
      <4> QED  BY <4>1, <4>3, <4>4 DEF SearchInv
    <3> QED  BY <3>4, <3>5
  <2>6. HostCARefused \/ HostCAFails \/ (\E body \in Bundle : HostCAAnswered(body))
    BY <1>4 DEF Requests, PingAnswered, PingRefused, PingFails
  <2> QED  BY <2>3, <2>4, <2>5, <2>6
<1> QED  BY <1>2, <1>3, <1>4, NetworkSplit

\* The bundle comes from the first endpoint that gives one, and the search is only
\* given up when every endpoint has failed, its address repeated or not.
THEOREM BestBundle == Spec => []BundleFromFirstThatAnswers
<1>1. Init => SearchInv
  BY DEF Init, SearchInv
<1>2. TypeOK /\ PlaceInv /\ SearchInv /\ [Next]_vars => SearchInv'
  BY SearchQuiet, SearchRequest
<1>3. TypeOK /\ PlaceInv /\ SearchInv => BundleFromFirstThatAnswers
  <2> SUFFICES ASSUME TypeOK, PlaceInv, SearchInv PROVE BundleFromFirstThatAnswers
    OBVIOUS
  <2>1. DOMAIN requests = 1..Len(requests)
    BY DEF TypeOK
  <2>2. pc = "resolved" => endpoint \in DOMAIN Endpoints
    BY DEF PlaceInv, Collecting
  <2> QED  BY <2>1, <2>2 DEF BundleFromFirstThatAnswers, SearchInv, Failed
<1> QED  BY <1>1, <1>2, <1>3, PlaceInvariant, PTL DEF Spec

-----------------------------------------------------------------------------
\* The hosts.

\* The hosts that may be asked when the user has given one.
GivenHosts ==
    {opts.publicAddr.host} \cup (IF info.webAddr = NoAddr THEN {} ELSE {info.webAddr.host})

GivenInv ==
    opts.publicAddr # NoAddr /\ pc \notin Before =>
        /\ public.host \in GivenHosts
        /\ \A n \in 1..Len(requests) : requests[n].to.host \in GivenHosts

LEMMA GivenQuiet ==
    ASSUME TypeOK, PlaceInv, RecordInv, GivenInv, [Next]_vars, ~Requests
    PROVE  GivenInv'
<1>1. /\ UNCHANGED <<home, opts, info, endpoint, bundle, requests>>
      /\ \/ UNCHANGED <<pc, profile, public, webPort, headers, pair>>
         \/ pc \in Before /\ pc' \in Before \cup {"ping"}
  BY QuietStep
<1>2. GivenHosts' = GivenHosts
  BY <1>1 DEF GivenHosts
<1>3. CASE UNCHANGED <<pc, profile, public, webPort, headers, pair>>
  BY <1>1, <1>2, <1>3 DEF GivenInv
<1>4. CASE pc \in Before /\ pc' \in Before
  BY <1>4 DEF GivenInv
<1>5. CASE pc \in Before /\ pc' = "ping"
  <2>1. pc = "headers" /\ public' = HostOnly(public)
    BY <1>5, LocalEnds DEF AddHeadersAndSplit
  <2>2. requests' = <<>>
    BY <1>1, <1>5 DEF RecordInv
  <2>3. opts.publicAddr # NoAddr => public' = HostOnly(opts.publicAddr)
    BY <2>1 DEF PlaceInv
  <2>4. opts.publicAddr # NoAddr => public'.host = opts.publicAddr.host
    <3>1. HostOnly(opts.publicAddr).host = opts.publicAddr.host
      BY DEF HostOnly
    <3> QED  BY <2>3, <3>1
  <2> QED  BY <1>1, <1>2, <2>2, <2>4 DEF GivenInv, GivenHosts
<1> QED  BY <1>1, <1>3, <1>4, <1>5

\* An endpoint is the address asked, the one resolved or the proxy's own.
LEMMA EndpointHosts ==
    ASSUME TypeOK, PlaceInv, pc \in Collecting, NEW n \in DOMAIN Endpoints
    PROVE  \/ Endpoints[n].host \in {public.host, PingAddr.host}
           \/ info.webAddr # NoAddr /\ Endpoints[n].host = info.webAddr.host
<1> DEFINE own == [public EXCEPT !.port = webPort]
<1>1. PingAddr \in Addr
  BY PingAddrType DEF Located, Collecting
<1>2. public \in Addr /\ info \in Ping /\ webPort \in Nat
  BY DEF TypeOK, Collecting
<1>3. own \in Addr /\ own.host = public.host /\ info.webAddr \in MaybeAddr
  BY <1>2 DEF Addr, Ping
<1>4. Endpoints = (IF info.webAddr # NoAddr THEN <<info.webAddr>> ELSE <<>>) \o <<own, PingAddr>>
  BY DEF Endpoints
<1> HIDE DEF own
<1>5. Endpoints[n] \in {own, PingAddr} \/ (info.webAddr # NoAddr /\ Endpoints[n] = info.webAddr)
  BY <1>1, <1>3, <1>4, EndpointsOf
<1> QED  BY <1>3, <1>5

LEMMA GivenRequest ==
    ASSUME TypeOK, PlaceInv, RecordInv, GivenInv, Requests
    PROVE  GivenInv'
<1> DEFINE L == Len(requests)
           new == requests'[L + 1]
<1>0. UNCHANGED <<home, renewed, opts, profile, headers, pair>>
  BY NetworkStep
<1>1. /\ L \in Nat /\ Len(requests') = L + 1 /\ new.to = Target
      /\ \A n \in 1..L : requests'[n] = requests[n]
  BY NewRequest
<1> HIDE DEF new
<1>2. pc \in {"ping", "ping_insecure", "ca", "ca_insecure"} /\ pc \notin Before
  BY NetworkStep DEF Before, Reading
<1>3. SUFFICES ASSUME opts.publicAddr # NoAddr
               PROVE  /\ public'.host \in GivenHosts'
                      /\ \A n \in 1..(L + 1) : requests'[n].to.host \in GivenHosts'
  BY <1>0, <1>1 DEF GivenInv
<1>4. PingAddr = opts.publicAddr /\ opts.publicAddr.host \in GivenHosts
  BY <1>3 DEF PingAddr, GivenHosts
<1>5. /\ public.host \in GivenHosts
      /\ \A n \in 1..L : requests[n].to.host \in GivenHosts
  BY <1>2, <1>3 DEF GivenInv
<1>6. new.to.host \in GivenHosts
  <2>1. CASE pc \in {"ping", "ping_insecure"}
    BY <1>1, <1>4, <2>1 DEF Target
  <2>2. CASE pc \in {"ca", "ca_insecure"}
    <3>1. endpoint \in DOMAIN Endpoints
      BY <2>2 DEF PlaceInv, Collecting
    <3>2. \/ Endpoints[endpoint].host \in {public.host, PingAddr.host}
          \/ info.webAddr # NoAddr /\ Endpoints[endpoint].host = info.webAddr.host
      BY <2>2, <3>1, EndpointHosts DEF Collecting
    <3>3. info.webAddr # NoAddr => info.webAddr.host \in GivenHosts
      BY DEF GivenHosts
    <3> QED  BY <1>1, <1>4, <1>5, <2>2, <3>2, <3>3 DEF Target
  <2> QED  BY <1>2, <2>1, <2>2
<1>7. GivenHosts \subseteq GivenHosts' /\ public'.host \in GivenHosts'
  <2>1. CASE UNCHANGED <<public, webPort, info>>
    BY <1>0, <1>5, <2>1 DEF GivenHosts
  <2>2. ASSUME NEW p \in Pings, PingAnswered(p)
        PROVE  GivenHosts \subseteq GivenHosts' /\ public'.host \in GivenHosts'
    <3>1. /\ info' = p /\ info = NoPing
          /\ public' = IF p.webAddr # NoAddr THEN HostOnly(p.webAddr) ELSE public
      BY <2>2 DEF PingAnswered, RecordInv, Collecting
    <3>2. GivenHosts = {opts.publicAddr.host}
      BY <3>1 DEF GivenHosts, NoPing
    <3>3. GivenHosts' = {opts.publicAddr.host} \cup
                           (IF p.webAddr = NoAddr THEN {} ELSE {p.webAddr.host})
      BY <1>0, <3>1 DEF GivenHosts
    <3>4. p.webAddr # NoAddr => public'.host = p.webAddr.host
      BY <3>1 DEF HostOnly
    <3> QED  BY <1>5, <3>1, <3>2, <3>3, <3>4
  <2> QED  BY <2>1, <2>2, NetworkMoves
<1>8. ASSUME NEW n \in 1..(L + 1) PROVE requests'[n].to.host \in GivenHosts'
  <2>1. CASE n \in 1..L
    BY <1>1, <1>5, <1>7, <2>1
  <2>2. CASE n = L + 1
    BY <1>6, <1>7, <2>2 DEF new
  <2> QED  BY <1>1, <2>1, <2>2
<1> QED  BY <1>7, <1>8

\* With an address on the command line, only that host is asked and the one it
\* names as its own; the profile's proxy is not.
THEOREM NobodyElseIsAsked == Spec => []GivenProxyIsAsked
<1>1. Init => GivenInv
  BY DEF Init, GivenInv, Before
<1>2. TypeOK /\ PlaceInv /\ RecordInv /\ GivenInv /\ [Next]_vars => GivenInv'
  BY GivenQuiet, GivenRequest
<1>3. TypeOK /\ RecordInv /\ GivenInv => GivenProxyIsAsked
  <2> SUFFICES ASSUME TypeOK, RecordInv, GivenInv PROVE GivenProxyIsAsked
    OBVIOUS
  <2>1. DOMAIN requests = 1..Len(requests) /\ (pc \in Before => requests = <<>>)
    BY DEF TypeOK, RecordInv
  <2> QED  BY <2>1 DEF GivenProxyIsAsked, GivenInv, GivenHosts
<1> QED  BY <1>1, <1>2, <1>3, PlaceInvariant, RecordInvariant, PTL DEF Spec

-----------------------------------------------------------------------------
\* The headers.

\* The host config.yaml is asked about.
ConfigHost ==
    IF opts.publicAddr # NoAddr THEN opts.publicAddr.host ELSE profile.public.host

\* config.yaml is only consulted on leaving the local part.
HeadersInv ==
    pc # "bad_args" =>
        /\ Flags!Accepted(opts.headerArgs)
        /\ pc \in Before => headers = Flags!HeadersOf(opts.headerArgs)
        /\ pc \notin Before =>
              headers = Merged(Flags!HeadersOf(opts.headerArgs),
                               ConfigHeaders(home, ConfigHost))

LEMMA HeadersStep ==
    ASSUME TypeOK, PlaceInv, HeadersInv, [Next]_vars
    PROVE  HeadersInv'
<1>1. CASE LoadProfile
  <2>1. /\ pc = "profile" /\ UNCHANGED <<home, opts, headers>>
        /\ pc' \in {"modern_cert", "headers", "proxy_required", "bad_profile"}
    BY <1>1 DEF LoadProfile
  <2> QED  BY <2>1 DEF HeadersInv, Before, Reading
<1>2. CASE ReadCert \/ ReadKey
  <2>1. /\ pc \in Reading /\ UNCHANGED <<home, opts, headers>>
        /\ pc' \in Reading \cup {"headers"}
    BY <1>2 DEF ReadCert, ReadKey, Reading
  <2> QED  BY <2>1 DEF HeadersInv, Before, Reading
<1>3. CASE AddHeadersAndSplit
  <2>1. /\ pc = "headers" /\ pc' = "ping" /\ UNCHANGED <<home, opts, profile>>
        /\ headers' = Merged(headers, ConfigHeaders(home, public.host))
    BY <1>3 DEF AddHeadersAndSplit
  <2>2. public.host = ConfigHost
    BY <2>1 DEF PlaceInv, ConfigHost
  <2>3. ConfigHost' = ConfigHost
    BY <2>1 DEF ConfigHost
  <2>4. Flags!Accepted(opts.headerArgs) /\ headers = Flags!HeadersOf(opts.headerArgs)
    BY <2>1 DEF HeadersInv, Before
  <2>5. pc' \notin Before
    BY <2>1 DEF Before, Reading
  <2> QED  BY <2>1, <2>2, <2>3, <2>4, <2>5 DEF HeadersInv
<1>4. CASE Requests
  <2>1. /\ pc \in {"ping", "ping_insecure", "ca", "ca_insecure"}
        /\ UNCHANGED <<home, opts, profile, headers>>
    BY <1>4, NetworkStep
  <2>2. pc' \in {"ping_insecure", "ca", "ca_insecure", "no_ping", "resolved", "no_bundle"}
    BY <1>4 DEF Requests, PingAnswered, PingRefused, PingFails, HostCAAnswered,
                HostCARefused, HostCAFails
  <2>3. ConfigHost' = ConfigHost
    BY <2>1 DEF ConfigHost
  <2>4. pc \notin Before /\ pc' \notin Before
    BY <2>1, <2>2 DEF Before, Reading
  <2> QED  BY <2>1, <2>2, <2>3, <2>4 DEF HeadersInv
<1>5. CASE UNCHANGED <<home, opts, pc, profile, headers>>
  BY <1>5 DEF HeadersInv, ConfigHost
<1> QED  BY <1>1, <1>2, <1>3, <1>4, <1>5, Steps

\* H gives h what the last rule of config.yaml that has it says, or the last
\* mention of it on the command line.
ComesFrom(args, rules, host, H, h) ==
    \/ /\ Flags!Mentions(args, h) = {}
       /\ \E n \in Sources(rules, host, h) :
             /\ \A m \in Sources(rules, host, h) : m <= n
             /\ H[h] = rules[n].headers[h]
    \/ \E m : /\ LastMention(args, h, m)
              /\ args[m[1]].lines[m[2]] = [name |-> h, value |-> H[h]]

LEMMA WhereHeadersComeFrom ==
    ASSUME NEW args \in Seq(Flags!HeaderArg), Flags!Accepted(args),
           NEW rules \in Seq(HeaderRule), NEW host, NEW H,
           \/ H = Flags!HeadersOf(args)
           \/ H = Merged(Flags!HeadersOf(args), MatchingHeaders(rules, host)),
           NEW h \in DOMAIN H
    PROVE  ComesFrom(args, rules, host, H, h)
<1> DEFINE G == Flags!HeadersOf(args)
           A == MatchingHeaders(rules, host)
<1>1. DOMAIN G = {x \in HeaderName : Flags!Mentions(args, x) # {}}
  BY HeadersOfValue
<1>2. \A x \in DOMAIN G : \E m : /\ LastMention(args, x, m)
                                /\ args[m[1]].lines[m[2]] = [name |-> x, value |-> G[x]]
  BY HeadersOfValue
<1>3. DOMAIN A = {x \in HeaderName : Sources(rules, host, x) # {}}
  BY MatchingHeadersValue
<1>4. ASSUME NEW x \in DOMAIN A
      PROVE  \E n \in Sources(rules, host, x) :
                /\ \A m \in Sources(rules, host, x) : m <= n
                /\ A[x] = rules[n].headers[x]
  <2>1. PICK n \in Sources(rules, host, x) :
           /\ \A m \in Sources(rules, host, x) : m <= n
           /\ A[x] = rules[n].headers[x]
           /\ rules[n].headers[x] \in HeaderValue
    BY MatchingHeadersValue
  <2> QED  BY <2>1
<1>5. H = G \/ H = Merged(G, A)
  OBVIOUS
<1> HIDE DEF G, A
<1>6. CASE h \in DOMAIN G
  <2>1. H[h] = G[h]
    BY <1>5, <1>6 DEF Merged
  <2> QED  BY <1>2, <1>6, <2>1 DEF ComesFrom
<1>7. CASE h \notin DOMAIN G
  <2>1. h \in DOMAIN A /\ H[h] = A[h]
    BY <1>5, <1>7 DEF Merged
  <2>2. Flags!Mentions(args, h) = {}
    BY <1>1, <1>3, <1>7, <2>1
  <2> QED  BY <1>4, <2>1, <2>2 DEF ComesFrom
<1> QED  BY <1>6, <1>7

\* What the command line says of a header is never lost, and its last word counts;
\* config.yaml only adds, by its last matching rule.
THEOREM CommandLineDecides == Spec => []CommandLineHeadersWin
<1>1. Init => HeadersInv
  BY DEF Init, HeadersInv, Before
<1>2. TypeOK /\ PlaceInv /\ HeadersInv /\ [Next]_vars => HeadersInv'
  BY HeadersStep
<1>3. TypeOK /\ HeadersInv => CommandLineHeadersWin
  <2> SUFFICES ASSUME TypeOK, HeadersInv, pc # "bad_args" PROVE CommandLineHeadersWin
    BY Zenon DEF CommandLineHeadersWin
  <2> DEFINE args == opts.headerArgs
             host == ConfigHost
             rules == {n \in DOMAIN home.config : host \in home.config[n].hosts}
             source(h) == {n \in rules :
                 /\ h \in DOMAIN home.config[n].headers
                 /\ \A m \in rules : h \in DOMAIN home.config[m].headers => m <= n}
             names(i) == {args[i].lines[j].name : j \in {j \in DOMAIN args[i].lines :
                                                             args[i].lines[j] # Blank}}
             mentioned(h) == {i \in DOMAIN args : h \in names(i)}
  <2>1. args \in Seq(Flags!HeaderArg) /\ Flags!Accepted(args) /\ Rules(home) \in Seq(HeaderRule)
    BY OptsType, RulesType DEF HeadersInv
  <2>2. \/ headers = Flags!HeadersOf(args)
        \/ headers = Merged(Flags!HeadersOf(args), MatchingHeaders(Rules(home), host))
    BY DEF HeadersInv, ConfigHeaders, Rules
  <2> HIDE DEF args
  <2>3. \A i \in DOMAIN args : \A j \in DOMAIN args[i].lines :
           DOMAIN args = 1..Len(args) /\ DOMAIN args[i].lines = 1..Len(args[i].lines)
    BY <2>1, AcceptedLines
  <2>4. ASSUME NEW i \in DOMAIN args, NEW h \in names(i)
        PROVE  h \in DOMAIN headers /\ Flags!Mentions(args, h) # {}
    <3>1. PICK j \in DOMAIN args[i].lines : args[i].lines[j] # Blank /\ h = args[i].lines[j].name
      OBVIOUS
    <3>2. h \in HeaderName
      BY <2>1, <3>1, AcceptedLines
    <3>3. <<i, j>> \in Flags!Mentions(args, h)
      BY <2>1, <2>3, <3>1, MentionShape
    <3>4. h \in DOMAIN Flags!HeadersOf(args)
      BY <2>1, <3>2, <3>3, HeadersOfValue
    <3> QED  BY <2>2, <3>3, <3>4 DEF Merged
  <2>5. ASSUME NEW h \in DOMAIN headers
        PROVE  ComesFrom(args, Rules(home), host, headers, h)
    <3> HIDE DEF host
    <3> QED  BY <2>1, <2>2, WhereHeadersComeFrom
  <2>6. ASSUME NEW h \in DOMAIN headers, mentioned(h) = {}
        PROVE  \E n \in source(h) : headers[h] = home.config[n].headers[h]
    <3>1. Flags!Mentions(args, h) = {}
      <4> SUFFICES ASSUME NEW m \in Flags!Mentions(args, h) PROVE FALSE
        OBVIOUS
      <4>1. /\ m[1] \in DOMAIN args /\ m[2] \in DOMAIN args[m[1]].lines
            /\ args[m[1]].lines[m[2]] # Blank /\ args[m[1]].lines[m[2]].name = h
        BY <2>1, MentionShape, AcceptedLines
      <4>2. m[1] \in mentioned(h)
        BY <4>1
      <4> QED  BY <2>6, <4>2
    <3>2. PICK n \in Sources(Rules(home), host, h) :
             /\ \A m \in Sources(Rules(home), host, h) : m <= n
             /\ headers[h] = Rules(home)[n].headers[h]
      BY <2>5, <3>1 DEF LastMention, ComesFrom
    <3>3. Rules(home) = home.config
      BY <3>2 DEF Rules, Sources
    <3>4. n \in source(h)
      BY <3>2, <3>3 DEF Sources
    <3> QED  BY <3>2, <3>3, <3>4
  <2>7. ASSUME NEW h \in DOMAIN headers, mentioned(h) # {}
        PROVE  \E i \in mentioned(h) : \E j \in DOMAIN args[i].lines :
                  /\ \A k \in mentioned(h) : k <= i
                  /\ args[i].lines[j] = [name |-> h, value |-> headers[h]]
                  /\ \A k \in (j + 1)..Len(args[i].lines) :
                        args[i].lines[k] = Blank \/ args[i].lines[k].name # h
    <3>1. Flags!Mentions(args, h) # {}
      BY <2>4, <2>7
    <3>2. PICK m : /\ LastMention(args, h, m)
                   /\ args[m[1]].lines[m[2]] = [name |-> h, value |-> headers[h]]
      BY <2>5, <3>1 DEF ComesFrom
    <3> DEFINE i == m[1]
               j == m[2]
    <3>3. m \in Flags!Mentions(args, h)
      BY <3>2 DEF LastMention
    <3>4. /\ i \in 1..Len(args) /\ j \in 1..Len(args[i].lines)
          /\ args[i].lines[j] # Blank /\ args[i].lines[j].name = h
      BY <2>1, <3>3, MentionShape
    <3>5. /\ Len(args) \in Nat /\ DOMAIN args = 1..Len(args)
          /\ \A k \in DOMAIN args : Len(args[k].lines) \in Nat
                /\ DOMAIN args[k].lines = 1..Len(args[k].lines)
      BY <2>1, AcceptedLines
    <3>6. i \in mentioned(h) /\ j \in DOMAIN args[i].lines
      BY <3>4, <3>5
    <3>7. ASSUME NEW k \in mentioned(h) PROVE k <= i
      <4>1. PICK l \in DOMAIN args[k].lines :
               args[k].lines[l] # Blank /\ h = args[k].lines[l].name
        OBVIOUS
      <4>2. <<k, l>> \in Flags!Mentions(args, h)
        BY <2>1, <3>5, <4>1, MentionShape
      <4>3. k < i \/ (i = k /\ l <= j)
        BY <3>2, <4>2 DEF LastMention
      <4> QED  BY <3>4, <3>5, <4>3
    <3>8. ASSUME NEW k \in (j + 1)..Len(args[i].lines),
                 args[i].lines[k] # Blank, args[i].lines[k].name = h
          PROVE  FALSE
      <4>1. k \in 1..Len(args[i].lines) /\ j < k
        BY <3>4, <3>5
      <4>2. <<i, k>> \in Flags!Mentions(args, h)
        BY <2>1, <3>4, <3>8, <4>1, MentionShape
      <4>3. i < i \/ k <= j
        BY <3>2, <4>2 DEF LastMention
      <4> QED  BY <3>4, <3>5, <4>1, <4>3
    <3> HIDE DEF i, j, mentioned
    <3> QED  BY <3>2, <3>6, <3>7, <3>8 DEF i, j
  <2>8. /\ \A i \in DOMAIN args : names(i) \subseteq DOMAIN headers
        /\ \A h \in DOMAIN headers :
              IF mentioned(h) = {}
              THEN \E n \in source(h) : headers[h] = home.config[n].headers[h]
              ELSE \E i \in mentioned(h) : \E j \in DOMAIN args[i].lines :
                      /\ \A k \in mentioned(h) : k <= i
                      /\ args[i].lines[j] = [name |-> h, value |-> headers[h]]
                      /\ \A k \in (j + 1)..Len(args[i].lines) :
                            args[i].lines[k] = Blank \/ args[i].lines[k].name # h
    <3> HIDE DEF names, mentioned, source
    <3> QED  BY <2>4, <2>6, <2>7
  <2> QED  BY Zenon, <2>8 DEF CommandLineHeadersWin, args, ConfigHost
<1> QED  BY <1>1, <1>2, <1>3, TypeCorrect, PlaceInvariant, PTL DEF Spec

-----------------------------------------------------------------------------
\* The client certificate.

\* f comes from the modern file, or from a login that had written it.
FromModern(f, file) == f = home.modern[file] \/ (f = NewLogin /\ file \in renewed)

\* What has been read so far is of one format.
PairInv ==
    /\ pc \in {"profile", "bad_args", "proxy_required", "bad_profile", "modern_cert",
               "legacy_cert"} => pair = NoPair
    /\ pc \in Reading => opts.useProfileCredentials /\ HasProfile
    /\ pc = "modern_key" => FromModern(pair.cert, "cert")
    /\ pc = "legacy_key" => pair.cert = home.legacy.cert
    /\ PairFromOneFormat

LEMMA PairStep ==
    ASSUME TypeOK, PlaceInv, PairInv, [Next]_vars
    PROVE  PairInv'
<1>1. CASE LoadProfile
  <2>1. /\ pc = "profile" /\ pair' = pair /\ opts' = opts
        /\ pc' \in {"modern_cert", "headers", "proxy_required", "bad_profile"}
        /\ pc' = "modern_cert" => HasProfile' /\ opts.useProfileCredentials
    BY <1>1 DEF LoadProfile
  <2>2. pair' = NoPair /\ NoPair' = NoPair
    BY <2>1 DEF PairInv, NoPair
  <2> QED  BY <2>1, <2>2 DEF PairInv, PairFromOneFormat, Reading
<1>2. CASE ReadCert
  <2>1. /\ UNCHANGED <<home, renewed, opts, profile>> /\ pair'.cert = Content(Format, "cert")
        /\ \/ pc = "modern_cert" /\ pc' = "modern_key" /\ Format = "modern"
           \/ pc = "legacy_cert" /\ pc' = "legacy_key" /\ Format = "legacy"
    BY <1>2 DEF ReadCert, Format
  <2>2. opts'.useProfileCredentials /\ HasProfile'
    BY <2>1 DEF PairInv, Reading, HasProfile
  <2>3. pc' = "modern_key" => FromModern(pair.cert, "cert")'
    BY <2>1 DEF Content, FromModern
  <2>4. pc' = "legacy_key" => pair'.cert = home'.legacy.cert
    BY <2>1 DEF Content
  <2> QED  BY <2>1, <2>2, <2>3, <2>4 DEF PairInv, PairFromOneFormat, Reading
<1>3. CASE ReadKey
  <2> DEFINE read == [pair EXCEPT !.key = Content(Format, "key")]
  <2>1. /\ UNCHANGED <<home, renewed, opts, profile>> /\ pc \in {"modern_key", "legacy_key"}
        /\ \/ pc' = "legacy_cert" /\ pair' = NoPair
           \/ pc' = "headers" /\ (pair' = NoPair \/ pair' = read)
    BY <1>3 DEF ReadKey
  <2>2. opts'.useProfileCredentials /\ HasProfile'
    BY <2>1 DEF PairInv, Reading, HasProfile
  <2>3. /\ pair \in [cert: PEM \cup {Empty, Absent}, key: PEM \cup {Empty}]
        /\ home.legacy \in KeyFiles
    BY OptsType DEF TypeOK, Home
  <2>4. read = [cert |-> pair.cert, key |-> Content(Format, "key")]
    BY <2>3
  <2> HIDE DEF read
  <2>5. \/ read = home.legacy
        \/ FromModern(read.cert, "cert") /\ FromModern(read.key, "key")
    <3>1. CASE pc = "legacy_key"
      <4>1. read = [cert |-> home.legacy.cert, key |-> home.legacy.key]
        BY <2>4, <3>1 DEF Format, Content, PairInv
      <4> QED  BY <2>3, <4>1 DEF KeyFiles
    <3>2. CASE pc = "modern_key"
      <4>1. FromModern(read.cert, "cert")
        BY <2>4, <3>2 DEF PairInv
      <4>2. read.key = Content("modern", "key")
        BY <2>4, <3>2 DEF Format
      <4> QED  BY <4>1, <4>2 DEF Content, FromModern
    <3> QED  BY <2>1, <3>1, <3>2
  <2>6. pair' # NoPair =>
           \/ pair' = home'.legacy
           \/ \A file \in {"cert", "key"} :
                 \/ pair'[file] = home'.modern[file]
                 \/ pair'[file] = NewLogin /\ file \in renewed'
    BY <2>1, <2>5 DEF FromModern
  <2>7. pc' = "legacy_cert" => pair' = NoPair
    BY <2>1
  <2> QED  BY <2>1, <2>2, <2>6, <2>7 DEF PairInv, PairFromOneFormat, Reading, NoPair
<1>4. CASE /\ UNCHANGED <<home, opts, profile, pair>> /\ renewed \subseteq renewed'
           /\ pc' = pc \/ (pc \notin Reading \cup {"profile"}
                          /\ pc' \notin Reading \cup {"profile", "bad_args", "proxy_required",
                                                     "bad_profile"})
  <2>1. NoPair' = NoPair /\ HasProfile' = HasProfile
    BY <1>4 DEF NoPair, HasProfile
  <2>2. \A f, file : FromModern(f, file) => f = home'.modern[file] \/ (f = NewLogin /\ file \in renewed')
    BY <1>4 DEF FromModern
  <2>3. PairFromOneFormat'
    BY <1>4, <2>1 DEF PairInv, PairFromOneFormat, Reading
  <2> QED  BY <1>4, <2>1, <2>2, <2>3 DEF PairInv, FromModern, Reading
<1>5. AddHeadersAndSplit =>
        /\ UNCHANGED <<home, renewed, opts, profile, pair>> /\ pc = "headers" /\ pc' = "ping"
  BY DEF AddHeadersAndSplit
<1>6. Requests =>
        /\ UNCHANGED <<home, renewed, opts, profile, pair>>
        /\ pc \in {"ping", "ping_insecure", "ca", "ca_insecure"}
        /\ pc' \in {"ping_insecure", "ca", "ca_insecure", "no_ping", "resolved", "no_bundle"}
  BY DEF Requests, PingAnswered, PingRefused, PingFails, HostCAAnswered, HostCARefused,
         HostCAFails
<1>7. AddHeadersAndSplit \/ Requests
        => /\ UNCHANGED <<home, opts, profile, pair>> /\ renewed \subseteq renewed'
           /\ pc \notin Reading \cup {"profile"}
           /\ pc' \notin Reading \cup {"profile", "bad_args", "proxy_required", "bad_profile"}
  BY <1>5, <1>6 DEF Reading
<1> QED  BY <1>1, <1>2, <1>3, <1>4, <1>7, Steps

\* A client certificate is used only on request and comes from key files of one
\* format, whatever tsh writes while they are read.
THEOREM OneFormat == Spec => []PairFromOneFormat
<1>1. Init => PairInv
  BY DEF Init, PairInv, PairFromOneFormat, Reading
<1>2. TypeOK /\ PlaceInv /\ PairInv /\ [Next]_vars => PairInv'
  BY PairStep
<1>3. PairInv => PairFromOneFormat
  BY DEF PairInv
<1> QED  BY <1>1, <1>2, <1>3, PlaceInvariant, PTL DEF Spec

-----------------------------------------------------------------------------
\* The steps of Resolution.

\* The endpoints of a list that come after the e-th and nowhere before.
LaterIn(E, e) == {n \in (e + 1)..Len(E) : \A m \in 1..(n - 1) : E[m] # E[n]}

\* A list is what its members and its length say.
LEMMA Rows ==
    ASSUME NEW S, NEW a \in S, NEW b \in S, NEW c \in S
    PROVE  /\ <<a>> \o <<b>> \o <<c>> = <<a, b, c>>
           /\ <<a>> \o <<b>> \o <<>> = <<a, b>>
           /\ <<a>> \o <<>> \o <<c>> = <<a, c>>
           /\ <<a>> \o <<>> \o <<>> = <<a>>
           /\ <<>> \o <<b>> \o <<c>> = <<b, c>>
           /\ <<>> \o <<b>> \o <<>> = <<b>>
           /\ <<>> \o <<>> \o <<c>> = <<c>>
<1>1. \A s \in Seq(S) : <<>> \o s = s /\ s \o <<>> = s
  BY ConcatEmptySeq
<1>2. \A x, y \in S : <<x>> \o <<y>> = <<x, y>>
  <2>1. SUFFICES ASSUME NEW x \in S, NEW y \in S PROVE <<x>> \o <<y>> = <<x, y>>
    OBVIOUS
  <2>2. <<x>> \in Seq(S) /\ <<y>> \in Seq(S) /\ <<x, y>> \in Seq(S)
    OBVIOUS
  <2>3. Len(<<x>> \o <<y>>) = 2 /\ \A i \in 1..2 : (<<x>> \o <<y>>)[i] = <<x, y>>[i]
    BY <2>2, ConcatProperties
  <2> QED  BY <2>2, <2>3, SeqEqual, ConcatProperties
<1>3. <<a, b>> \o <<c>> = <<a, b, c>>
  <2>1. <<a, b>> \in Seq(S) /\ <<c>> \in Seq(S) /\ <<a, b, c>> \in Seq(S)
    OBVIOUS
  <2>2. Len(<<a, b>> \o <<c>>) = 3 /\ \A i \in 1..3 : (<<a, b>> \o <<c>>)[i] = <<a, b, c>>[i]
    BY <2>1, ConcatProperties
  <2> QED  BY <2>1, <2>2, SeqEqual, ConcatProperties
<1>4. /\ <<a>> \in Seq(S) /\ <<b>> \in Seq(S) /\ <<c>> \in Seq(S)
      /\ <<a, b>> \in Seq(S) /\ <<>> \in Seq(S)
  OBVIOUS
<1> QED  BY <1>1, <1>2, <1>3, <1>4

\* The rest of the list of endpoints, without repetitions, from the e-th on.
Turn(E, e, n) == IF n \in {e} \cup LaterIn(E, e) THEN <<E[n]>> ELSE <<>>

Turns(E, e) == Turn(E, e, 1) \o Turn(E, e, 2) \o Turn(E, e, 3)

LEMMA LaterPlaces ==
    ASSUME NEW E, NEW L \in 2..3, Len(E) = L, NEW e \in 1..L
    PROVE  /\ e \in 1..3
           /\ \A n \in LaterIn(E, e) : n \in 1..L /\ e < n /\ (n = 2 \/ n = 3)
<1>1. LaterIn(E, e) \subseteq (e + 1)..L
  BY DEF LaterIn
<1> QED  BY <1>1

\* What lists there can be.
LEMMA TurnsAre ==
    ASSUME NEW E \in Seq(Addr), NEW L \in 2..3, Len(E) = L, NEW e \in 1..L,
           NEW later, later = LaterIn(E, e)
    PROVE  /\ e = 1 /\ 2 \notin later /\ 3 \notin later => Turns(E, e) = <<E[1]>>
           /\ e = 1 /\ 2 \in later /\ 3 \notin later => Turns(E, e) = <<E[1], E[2]>>
           /\ e = 1 /\ 2 \notin later /\ 3 \in later => Turns(E, e) = <<E[1], E[3]>>
           /\ e = 1 /\ 2 \in later /\ 3 \in later => Turns(E, e) = <<E[1], E[2], E[3]>>
           /\ e = 2 /\ 3 \notin later => Turns(E, e) = <<E[2]>>
           /\ e = 2 /\ 3 \in later => Turns(E, e) = <<E[2], E[3]>>
           /\ e = 3 => Turns(E, e) = <<E[3]>>
<1>1. e \in 1..3 /\ \A n \in later : n \in 1..L /\ e < n /\ (n = 2 \/ n = 3)
  BY LaterPlaces
<1>2. \A n \in 1..L : E[n] \in Addr
  OBVIOUS
<1>3. E[1] \in Addr /\ E[2] \in Addr /\ (3 \in {e} \cup later => E[3] \in Addr)
  BY <1>1, <1>2
<1>4. /\ Turn(E, e, 1) = IF 1 \in {e} \cup later THEN <<E[1]>> ELSE <<>>
      /\ Turn(E, e, 2) = IF 2 \in {e} \cup later THEN <<E[2]>> ELSE <<>>
      /\ Turn(E, e, 3) = IF 3 \in {e} \cup later THEN <<E[3]>> ELSE <<>>
  BY DEF Turn
<1>5. Turns(E, e) = Turn(E, e, 1) \o Turn(E, e, 2) \o Turn(E, e, 3)
  BY DEF Turns
<1>6. PICK third \in Addr : 3 \in {e} \cup later => third = E[3]
  BY <1>3
<1>7. /\ <<E[1]>> \o <<E[2]>> \o <<third>> = <<E[1], E[2], third>>
      /\ <<E[1]>> \o <<E[2]>> \o <<>> = <<E[1], E[2]>>
      /\ <<E[1]>> \o <<>> \o <<third>> = <<E[1], third>>
      /\ <<E[1]>> \o <<>> \o <<>> = <<E[1]>>
      /\ <<>> \o <<E[2]>> \o <<third>> = <<E[2], third>>
      /\ <<>> \o <<E[2]>> \o <<>> = <<E[2]>>
      /\ <<>> \o <<>> \o <<third>> = <<third>>
  BY <1>3, Rows
<1>8. ASSUME e = 1, 2 \notin later, 3 \notin later PROVE Turns(E, e) = <<E[1]>>
  <2>1. /\ Turn(E, e, 1) = <<E[1]>> /\ Turn(E, e, 2) = <<>>
        /\ Turn(E, e, 3) = <<>>
    BY <1>4, <1>8
  <2> QED  BY <1>5, <1>7, <2>1, Zenon
<1>9. ASSUME e = 1, 2 \in later, 3 \notin later PROVE Turns(E, e) = <<E[1], E[2]>>
  <2>1. /\ Turn(E, e, 1) = <<E[1]>> /\ Turn(E, e, 2) = <<E[2]>>
        /\ Turn(E, e, 3) = <<>>
    BY <1>4, <1>9
  <2> QED  BY <1>5, <1>7, <2>1, Zenon
<1>10. ASSUME e = 1, 2 \notin later, 3 \in later PROVE Turns(E, e) = <<E[1], E[3]>>
  <2>1. /\ Turn(E, e, 1) = <<E[1]>> /\ Turn(E, e, 2) = <<>>
        /\ Turn(E, e, 3) = <<E[3]>>
    BY <1>4, <1>10
  <2>2. third = E[3]
    BY <1>6, <1>10
  <2> QED  BY <1>5, <1>7, <2>1, <2>2, Zenon
<1>11. ASSUME e = 1, 2 \in later, 3 \in later PROVE Turns(E, e) = <<E[1], E[2], E[3]>>
  <2>1. /\ Turn(E, e, 1) = <<E[1]>> /\ Turn(E, e, 2) = <<E[2]>>
        /\ Turn(E, e, 3) = <<E[3]>>
    BY <1>4, <1>11
  <2>2. third = E[3]
    BY <1>6, <1>11
  <2> QED  BY <1>5, <1>7, <2>1, <2>2, Zenon
<1>12. 1 \notin later /\ (e >= 2 => 2 \notin later) /\ (e = 3 => 3 \notin later)
  BY <1>1
<1>13. ASSUME e = 2, 3 \notin later PROVE Turns(E, e) = <<E[2]>>
  <2>1. /\ Turn(E, e, 1) = <<>> /\ Turn(E, e, 2) = <<E[2]>>
        /\ Turn(E, e, 3) = <<>>
    BY <1>4, <1>12, <1>13
  <2> QED  BY <1>5, <1>7, <2>1, Zenon
<1>14. ASSUME e = 2, 3 \in later PROVE Turns(E, e) = <<E[2], E[3]>>
  <2>1. /\ Turn(E, e, 1) = <<>> /\ Turn(E, e, 2) = <<E[2]>>
        /\ Turn(E, e, 3) = <<E[3]>>
    BY <1>4, <1>12, <1>14
  <2>2. third = E[3]
    BY <1>6, <1>14
  <2> QED  BY <1>5, <1>7, <2>1, <2>2, Zenon
<1>15. ASSUME e = 3 PROVE Turns(E, e) = <<E[3]>>
  <2>1. /\ Turn(E, e, 1) = <<>> /\ Turn(E, e, 2) = <<>>
        /\ Turn(E, e, 3) = <<E[3]>>
    BY <1>4, <1>12, <1>15
  <2>2. third = E[3]
    BY <1>6, <1>15
  <2> QED  BY <1>5, <1>7, <2>1, <2>2, Zenon
<1> QED  BY <1>8, <1>9, <1>10, <1>11, <1>13, <1>14, <1>15

LEMMA OneRow ==
    ASSUME NEW S, NEW a \in S, NEW T, T = <<a>>
    PROVE  T \in Seq(S) /\ T # <<>> /\ DOMAIN T = 1..1 /\ T[1] = a /\ Tail(T) = <<>>
OBVIOUS

LEMMA TwoRows ==
    ASSUME NEW S, NEW a \in S, NEW b \in S, NEW T, T = <<a, b>>
    PROVE  /\ T \in Seq(S) /\ T # <<>> /\ DOMAIN T = 1..2
           /\ T[1] = a /\ T[2] = b /\ Tail(T) = <<b>>
OBVIOUS

LEMMA ThreeRows ==
    ASSUME NEW S, NEW a \in S, NEW b \in S, NEW c \in S, NEW T, T = <<a, b, c>>
    PROVE  /\ T \in Seq(S) /\ T # <<>> /\ DOMAIN T = 1..3
           /\ T[1] = a /\ T[2] = b /\ T[3] = c /\ Tail(T) = <<b, c>>
OBVIOUS

\* A list of turns begins somewhere and has none twice; from the first endpoint
\* on, every one has its turn.
Rightful(T, E, L, e) ==
    /\ T \in Seq(Addr) /\ T # <<>>
    /\ \A m, n \in DOMAIN T : m # n => T[m] # T[n]
    /\ e = 1 => \A k \in 1..L : \E n \in DOMAIN T : T[n] = E[k]

LEMMA TurnsShape ==
    ASSUME NEW E \in Seq(Addr), NEW L \in 2..3, Len(E) = L, NEW e \in 1..L,
           NEW T, T = Turns(E, e)
    PROVE  Rightful(T, E, L, e)
<1> SUFFICES /\ T \in Seq(Addr) /\ T # <<>>
             /\ \A m, n \in DOMAIN T : m # n => T[m] # T[n]
             /\ e = 1 => \A k \in 1..L : \E n \in DOMAIN T : T[n] = E[k]
  BY DEF Rightful
<1> DEFINE later == LaterIn(E, e)
<1>1. \A n \in 1..L : E[n] \in Addr
  OBVIOUS
<1>2. e \in 1..3 /\ \A n \in later : n \in 1..L /\ e < n /\ (n = 2 \/ n = 3)
  BY LaterPlaces
<1>3. \A n \in later : \A m \in 1..(n - 1) : E[m] # E[n]
  BY DEF LaterIn
<1>4. \A k \in 1..L : k > e /\ k \notin later => \E m \in 1..(k - 1) : E[m] = E[k]
  BY DEF LaterIn
<1>5. /\ \A m \in 1..(2 - 1) : m = 1
      /\ \A m \in 1..(3 - 1) : m = 1 \/ m = 2
      /\ \A k \in 1..L : k = 1 \/ k = 2 \/ (k = 3 /\ L = 3)
      /\ 1 \in 1..(2 - 1) /\ 1 \in 1..(3 - 1) /\ 2 \in 1..(3 - 1)
      /\ 1 \in 1..L /\ 2 \in 1..L
  OBVIOUS
<1> HIDE DEF later
<1>6. CASE e = 1 /\ 2 \in later /\ 3 \in later /\ T = <<E[1], E[2], E[3]>>
  <2>0. E[1] \in Addr /\ E[2] \in Addr
    BY <1>1, <1>5
  <2>1. E[1] # E[2] /\ E[1] # E[3] /\ E[2] # E[3] /\ E[3] \in Addr
    BY <1>1, <1>2, <1>3, <1>5, <1>6
  <2>2. T \in Seq(Addr) /\ T # <<>> /\ DOMAIN T = 1..3
    BY <1>6, <2>0, <2>1, ThreeRows
  <2>3. T[1] = E[1] /\ T[2] = E[2] /\ T[3] = E[3]
    BY <1>6, <2>0, <2>1, ThreeRows
  <2> QED  BY <1>5, <2>1, <2>2, <2>3
<1>7. CASE e = 1 /\ 2 \in later /\ 3 \notin later /\ T = <<E[1], E[2]>>
  <2>0. E[1] \in Addr /\ E[2] \in Addr
    BY <1>1, <1>5
  <2>1. E[1] # E[2] /\ (L = 3 => E[3] \in {E[1], E[2]})
    BY <1>3, <1>4, <1>5, <1>7
  <2>2. T \in Seq(Addr) /\ T # <<>> /\ DOMAIN T = 1..2 /\ T[1] = E[1] /\ T[2] = E[2]
    BY <1>7, <2>0, TwoRows
  <2>3. \A k \in 1..L : E[k] \in {E[1], E[2]}
    BY <1>5, <2>1
  <2> QED  BY <2>1, <2>2, <2>3
<1>8. CASE e = 1 /\ 2 \notin later /\ 3 \in later /\ T = <<E[1], E[3]>>
  <2>0. E[1] \in Addr /\ E[2] \in Addr
    BY <1>1, <1>5
  <2>1. E[1] # E[3] /\ E[2] = E[1] /\ E[3] \in Addr
    BY <1>1, <1>2, <1>3, <1>4, <1>5, <1>8
  <2>2. T \in Seq(Addr) /\ T # <<>> /\ DOMAIN T = 1..2 /\ T[1] = E[1] /\ T[2] = E[3]
    BY <1>8, <2>0, <2>1, TwoRows
  <2>3. \A k \in 1..L : E[k] \in {E[1], E[3]}
    BY <1>5, <2>1
  <2> QED  BY <2>1, <2>2, <2>3
<1>9. CASE e = 1 /\ 2 \notin later /\ 3 \notin later /\ T = <<E[1]>>
  <2>0. E[1] \in Addr /\ E[2] \in Addr
    BY <1>1, <1>5
  <2>1. E[2] = E[1] /\ (L = 3 => E[3] = E[1])
    BY <1>4, <1>5, <1>9
  <2>2. T \in Seq(Addr) /\ T # <<>> /\ DOMAIN T = 1..1 /\ T[1] = E[1]
    BY <1>9, <2>0, OneRow
  <2>3. \A k \in 1..L : E[k] = E[1]
    BY <1>5, <2>1
  <2> QED  BY <2>2, <2>3
<1>10. CASE e = 2 /\ 3 \in later /\ T = <<E[2], E[3]>>
  <2>0. E[1] \in Addr /\ E[2] \in Addr
    BY <1>1, <1>5
  <2>1. E[2] # E[3] /\ E[3] \in Addr
    BY <1>1, <1>2, <1>3, <1>5, <1>10
  <2>2. T \in Seq(Addr) /\ T # <<>> /\ DOMAIN T = 1..2 /\ T[1] = E[2] /\ T[2] = E[3]
    BY <1>10, <2>0, <2>1, TwoRows
  <2> QED  BY <1>10, <2>1, <2>2
<1>11. CASE e # 1 /\ T = <<E[e]>>
  <2>1. T \in Seq(Addr) /\ T # <<>> /\ DOMAIN T = 1..1
    BY <1>1, <1>11, OneRow
  <2> QED  BY <1>11, <2>1
<1>12. /\ e = 1 /\ 2 \notin later /\ 3 \notin later => T = <<E[1]>>
       /\ e = 1 /\ 2 \in later /\ 3 \notin later => T = <<E[1], E[2]>>
       /\ e = 1 /\ 2 \notin later /\ 3 \in later => T = <<E[1], E[3]>>
       /\ e = 1 /\ 2 \in later /\ 3 \in later => T = <<E[1], E[2], E[3]>>
       /\ e = 2 /\ 3 \notin later => T = <<E[2]>>
       /\ e = 2 /\ 3 \in later => T = <<E[2], E[3]>>
       /\ e = 3 => T = <<E[3]>>
  BY TurnsAre DEF later
<1>13. e = 1 \/ e = 2 \/ e = 3
  BY <1>2
<1> QED
  BY <1>6, <1>7, <1>8, <1>9, <1>10, <1>11, <1>12, <1>13

\* When the current endpoint has had its turn, those that remain are the turns
\* from the next one on.
LEMMA TurnsGoOn ==
    ASSUME NEW E \in Seq(Addr), NEW L \in 2..3, Len(E) = L, NEW e \in 1..L
    PROVE  /\ LaterIn(E, e) = {} => Tail(Turns(E, e)) = <<>>
           /\ \A k \in LaterIn(E, e) :
                 (\A n \in LaterIn(E, e) : k <= n) => Tail(Turns(E, e)) = Turns(E, k)
<1> DEFINE later == LaterIn(E, e)
<1>1. e \in 1..3 /\ \A n \in later : n \in 1..L /\ e < n /\ (n = 2 \/ n = 3)
  BY LaterPlaces
<1>2. /\ e = 1 /\ 2 \notin later /\ 3 \notin later => Turns(E, e) = <<E[1]>>
      /\ e = 1 /\ 2 \in later /\ 3 \notin later => Turns(E, e) = <<E[1], E[2]>>
      /\ e = 1 /\ 2 \notin later /\ 3 \in later => Turns(E, e) = <<E[1], E[3]>>
      /\ e = 1 /\ 2 \in later /\ 3 \in later => Turns(E, e) = <<E[1], E[2], E[3]>>
      /\ e = 2 /\ 3 \notin later => Turns(E, e) = <<E[2]>>
      /\ e = 2 /\ 3 \in later => Turns(E, e) = <<E[2], E[3]>>
      /\ e = 3 => Turns(E, e) = <<E[3]>>
  BY TurnsAre
<1>3. e = 1 \/ e = 2 \/ e = 3
  BY <1>1
<1>4. /\ \A a : Tail(<<a>>) = <<>>
      /\ \A a, b : Tail(<<a, b>>) = <<b>>
      /\ \A a, b, c : Tail(<<a, b, c>>) = <<b, c>>
  OBVIOUS
<1>5. \A k \in later : 3 \in LaterIn(E, k) <=> 3 \in later /\ k = 2
  <2> SUFFICES ASSUME NEW k \in later PROVE 3 \in LaterIn(E, k) <=> 3 \in later /\ k = 2
    OBVIOUS
  <2>1. k = 2 \/ k = 3
    BY <1>1
  <2>2. 3 \in LaterIn(E, k) <=> k < 3 /\ L = 3 /\ \A m \in 1..(3 - 1) : E[m] # E[3]
    BY <2>1 DEF LaterIn
  <2>3. 3 \in later <=> e < 3 /\ L = 3 /\ \A m \in 1..(3 - 1) : E[m] # E[3]
    BY DEF LaterIn
  <2>4. e < k
    BY <1>1
  <2> QED  BY <2>1, <2>2, <2>3, <2>4
<1>6. ASSUME NEW k \in later
      PROVE  /\ k = 2 /\ 3 \notin later => Turns(E, k) = <<E[2]>>
             /\ k = 2 /\ 3 \in later => Turns(E, k) = <<E[2], E[3]>>
             /\ k = 3 => Turns(E, k) = <<E[3]>>
  <2>1. k \in 1..L
    BY <1>1
  <2>2. 3 \in LaterIn(E, k) <=> 3 \in later /\ k = 2
    BY <1>5
  <2> HIDE DEF later
  <2> QED  BY <2>1, <2>2, TurnsAre
<1> HIDE DEF later
<1>7. ASSUME later = {} PROVE Tail(Turns(E, e)) = <<>>
  BY <1>2, <1>3, <1>4, <1>7
<1>8. ASSUME NEW k \in later, \A n \in later : k <= n
      PROVE  Tail(Turns(E, e)) = Turns(E, k)
  <2>1. CASE k = 2
    <3>1. e = 1
      BY <1>1, <1>8, <2>1
    <3>2. CASE 3 \in later
      <4>1. Turns(E, e) = <<E[1], E[2], E[3]>> /\ Turns(E, k) = <<E[2], E[3]>>
        BY <1>2, <1>6, <2>1, <3>1, <3>2
      <4>2. Tail(<<E[1], E[2], E[3]>>) = <<E[2], E[3]>>
        BY <1>4
      <4> QED  BY <4>1, <4>2, Zenon
    <3>3. CASE 3 \notin later
      <4>1. Turns(E, e) = <<E[1], E[2]>> /\ Turns(E, k) = <<E[2]>>
        BY <1>2, <1>6, <1>8, <2>1, <3>1, <3>3
      <4> QED  BY <1>4, <4>1, Zenon
    <3> QED  BY <3>2, <3>3
  <2>2. CASE k = 3
    <3>1. 2 \notin later /\ (e = 1 \/ e = 2)
      BY <1>1, <1>8, <2>2
    <3>2. CASE e = 1
      <4>1. Turns(E, e) = <<E[1], E[3]>> /\ Turns(E, k) = <<E[3]>>
        BY <1>2, <1>6, <1>8, <2>2, <3>1, <3>2
      <4> QED  BY <1>4, <4>1, Zenon
    <3>3. CASE e = 2
      <4>1. Turns(E, e) = <<E[2], E[3]>> /\ Turns(E, k) = <<E[3]>>
        BY <1>2, <1>6, <1>8, <2>2, <3>1, <3>3
      <4> QED  BY <1>4, <4>1, Zenon
    <3> QED  BY <3>1, <3>2, <3>3
  <2> QED  BY <1>1, <2>1, <2>2
<1> QED  BY <1>7, <1>8 DEF later

\* What the abstract state is, for each place of the code.
GivenUp == {"bad_args", "proxy_required", "bad_profile", "no_ping", "no_bundle"}

Locating == {"profile", "headers"} \cup Reading

LEMMA BarsAre ==
    /\ pc \in Locating => StateBar = "locating" /\ LeftBar = <<>>
    /\ pc \in {"ping", "ping_insecure"} => StateBar = "asking" /\ LeftBar = <<PingAddr>>
    /\ pc \in {"ca", "ca_insecure"} =>
          StateBar = "collecting" /\ LeftBar = Turns(Endpoints, endpoint)
    /\ pc = "resolved" => StateBar = "resolved" /\ LeftBar = Turns(Endpoints, endpoint)
    /\ pc \in GivenUp => StateBar = "failed" /\ LeftBar = <<>>
<1>1. /\ pc \in Locating => StateBar = "locating"
      /\ pc \in {"ping", "ping_insecure"} => StateBar = "asking"
      /\ pc \in {"ca", "ca_insecure"} => StateBar = "collecting"
      /\ pc = "resolved" => StateBar = "resolved"
      /\ pc \in GivenUp => StateBar = "failed"
  BY DEF StateBar, Ended, GivenUp, Locating, Reading
<1>2. /\ StateBar = "asking" => LeftBar = <<PingAddr>>
      /\ StateBar \in {"locating", "failed"} => LeftBar = <<>>
  BY DEF LeftBar
<1>3. StateBar \in {"collecting", "resolved"} => LeftBar = Turns(Endpoints, endpoint)
  BY DEF LeftBar, Turns, Turn, LaterIn, Later
<1> QED  BY <1>1, <1>2, <1>3

LEMMA BarsWillBe ==
    /\ pc' \in Locating => StateBar' = "locating" /\ LeftBar' = <<>>
    /\ pc' \in {"ping", "ping_insecure"} => StateBar' = "asking" /\ LeftBar' = <<PingAddr'>>
    /\ pc' \in {"ca", "ca_insecure"} =>
          StateBar' = "collecting" /\ LeftBar' = Turns(Endpoints', endpoint')
    /\ pc' = "resolved" => StateBar' = "resolved" /\ LeftBar' = Turns(Endpoints', endpoint')
    /\ pc' \in GivenUp => StateBar' = "failed" /\ LeftBar' = <<>>
<1>1. /\ pc' \in Locating => StateBar' = "locating"
      /\ pc' \in {"ping", "ping_insecure"} => StateBar' = "asking"
      /\ pc' \in {"ca", "ca_insecure"} => StateBar' = "collecting"
      /\ pc' = "resolved" => StateBar' = "resolved"
      /\ pc' \in GivenUp => StateBar' = "failed"
  BY DEF StateBar, Ended, GivenUp, Locating, Reading
<1>2. /\ StateBar' = "asking" => LeftBar' = <<PingAddr'>>
      /\ StateBar' \in {"locating", "failed"} => LeftBar' = <<>>
  BY DEF LeftBar
<1>3. StateBar' \in {"collecting", "resolved"} => LeftBar' = Turns(Endpoints', endpoint')
  BY DEF LeftBar, Turns, Turn, LaterIn, Later
<1> QED  BY <1>1, <1>2, <1>3

LEMMA CollectingList ==
    ASSUME TypeOK, PlaceInv, pc \in Collecting
    PROVE  \E L \in 2..3 : Endpoints \in Seq(Addr) /\ Len(Endpoints) = L /\ endpoint \in 1..L
<1>1. PingAddr \in Addr /\ public \in Addr /\ info \in Ping /\ webPort \in Nat
  BY PingAddrType DEF TypeOK, Located, Collecting
<1>2. Endpoints \in Seq(Addr)
  BY <1>1, EndpointsShape
<1> QED  BY <1>2, CollectingShape

\* The list the answer to the ping makes.
LEMMA EndpointsEnd ==
    ASSUME TypeOK, TypeOK', PlaceInv, pc \in Located, pc' \in Located, PingAddr' = PingAddr
    PROVE  \E L \in 2..3 :
              Endpoints' \in Seq(Addr) /\ Len(Endpoints') = L /\ Endpoints'[L] = PingAddr
<1>1. PingAddr \in Addr
  BY PingAddrType
<1>2. public' \in Addr /\ info' \in Ping /\ webPort' \in Nat
  BY DEF TypeOK, Located
<1>3. [public' EXCEPT !.port = webPort'] \in Addr /\ info'.webAddr \in MaybeAddr
  BY <1>2 DEF Addr, Ping
<1> SUFFICES ASSUME NEW E, E = Endpoints',
                    NEW web \in MaybeAddr, web = info'.webAddr,
                    NEW own \in Addr, own = [public' EXCEPT !.port = webPort'],
                    NEW asked \in Addr, asked = PingAddr
             PROVE  \E L \in 2..3 : E \in Seq(Addr) /\ Len(E) = L /\ E[L] = asked
  BY <1>1, <1>3
<1>4. E = (IF web # NoAddr THEN <<web>> ELSE <<>>) \o <<own, asked>>
  BY DEF Endpoints
<1>5. CASE web # NoAddr
  <2>1. web \in Addr
    BY <1>5 DEF MaybeAddr
  <2>2. E = <<web, own, asked>>
    BY <1>4, <1>5, <2>1, ThreeInARow
  <2> QED  BY <2>1, <2>2
<1>6. CASE web = NoAddr
  <2>1. E = <<own, asked>>
    BY <1>4, <1>6
  <2> QED  BY <2>1
<1> QED  BY <1>5, <1>6

\* Ways the state of Resolution does not change.
LEMMA Stutters ==
    ASSUME UNCHANGED <<opts, profile, public, webPort, info, endpoint, bundle>>,
           \/ pc \in Locating /\ pc' \in Locating
           \/ pc \in {"ping", "ping_insecure"} /\ pc' \in {"ping", "ping_insecure"}
           \/ pc \in {"ca", "ca_insecure"} /\ pc' \in {"ca", "ca_insecure"}
           \/ pc' = pc
    PROVE  UNCHANGED <<StateBar, LeftBar, bundle>>
<1>1. PingAddr' = PingAddr /\ Endpoints' = Endpoints
  <2>1. PingAddr' = PingAddr
    BY DEF PingAddr
  <2> QED  BY <2>1 DEF Endpoints
<1>2. CASE pc \in Locating /\ pc' \in Locating
  BY <1>2, BarsAre, BarsWillBe
<1>3. CASE pc \in {"ping", "ping_insecure"} /\ pc' \in {"ping", "ping_insecure"}
  BY <1>1, <1>3, BarsAre, BarsWillBe
<1>4. CASE pc \in {"ca", "ca_insecure"} /\ pc' \in {"ca", "ca_insecure"}
  BY <1>1, <1>4, BarsAre, BarsWillBe
<1>5. CASE pc' = pc
  <2>1. Later' = Later
    BY <1>1 DEF Later
  <2>2. StateBar' = StateBar
    BY <1>5 DEF StateBar, Ended
  <2> QED  BY <1>1, <2>1, <2>2 DEF LeftBar
<1> QED  BY <1>2, <1>3, <1>4, <1>5

LEMMA LocalResolves ==
    ASSUME TypeOK, TypeOK', PlaceInv, PlaceInv', Local
    PROVE  Promised!Next \/ UNCHANGED <<StateBar, LeftBar, bundle>>
<1>1. CASE LoadProfile
  <2>1. /\ pc = "profile" /\ bundle' = bundle
        /\ pc' \in {"modern_cert", "headers", "proxy_required", "bad_profile"}
    BY <1>1 DEF LoadProfile
  <2>2. CASE pc' \in {"modern_cert", "headers"}
    <3>1. pc \in Locating /\ pc' \in Locating
      BY <2>1, <2>2 DEF Locating, Reading
    <3> QED  BY <2>1, <3>1, BarsAre, BarsWillBe
  <2>3. CASE pc' \in {"proxy_required", "bad_profile"}
    <3>1. pc \in Locating /\ pc' \in GivenUp
      BY <2>1, <2>3 DEF Locating, GivenUp
    <3>2. Promised!GiveUp
      BY <2>1, <3>1, BarsAre, BarsWillBe DEF Promised!GiveUp
    <3> QED  BY <3>2 DEF Promised!Next
  <2> QED  BY <2>1, <2>2, <2>3
<1>2. CASE ReadCert \/ ReadKey
  <2>1. /\ UNCHANGED <<opts, profile, public, webPort, info, endpoint, bundle>>
        /\ pc \in Locating /\ pc' \in Locating
    BY <1>2 DEF ReadCert, ReadKey, Locating, Reading
  <2> QED  BY <2>1, Stutters
<1>3. CASE AddHeadersAndSplit
  <2>1. pc = "headers" /\ pc' = "ping" /\ bundle' = bundle
    BY <1>3 DEF AddHeadersAndSplit
  <2>2. StateBar = "locating" /\ StateBar' = "asking" /\ LeftBar' = <<PingAddr'>>
    BY <2>1, BarsAre, BarsWillBe DEF Locating
  <2>3. PingAddr' = PingAddr /\ PingAddr \in Addr
    <3>1. PingAddr' = PingAddr
      BY <1>3 DEF AddHeadersAndSplit, PingAddr
    <3> QED  BY <2>1, <3>1, PingAddrType DEF Located
  <2>4. LeftBar' \in Seq(Addr) /\ Len(LeftBar') = 1
    BY <2>2, <2>3
  <2>5. Promised!Locate
    BY <2>1, <2>2, <2>4 DEF Promised!Locate
  <2> QED  BY <2>5 DEF Promised!Next
<1> QED  BY <1>1, <1>2, <1>3 DEF Local

LEMMA RequestsResolve ==
    ASSUME TypeOK, TypeOK', PlaceInv, PlaceInv', Requests
    PROVE  Promised!Next \/ UNCHANGED <<StateBar, LeftBar, bundle>>
<1>0. UNCHANGED <<home, opts, profile>> /\ PingAddr' = PingAddr
  BY NetworkStep, NetworkMoves
<1>1. ASSUME NEW p \in Pings, PingAnswered(p)
      PROVE  Promised!Next
  <2>1. pc \in {"ping", "ping_insecure"} /\ pc' = "ca" /\ UNCHANGED <<endpoint, bundle>>
    BY <1>1 DEF PingAnswered
  <2>2. /\ StateBar = "asking" /\ LeftBar = <<PingAddr>>
        /\ StateBar' = "collecting" /\ LeftBar' = Turns(Endpoints', endpoint')
    BY <2>1, BarsAre, BarsWillBe
  <2>3. endpoint' = 1
    BY <2>1 DEF PlaceInv, Collecting
  <2>4. PICK L \in 2..3 : /\ Endpoints' \in Seq(Addr) /\ Len(Endpoints') = L
                          /\ Endpoints'[L] = PingAddr
    BY <1>0, <2>1, EndpointsEnd DEF Located, Collecting
  <2>5. /\ LeftBar' \in Seq(Addr)
        /\ \A m, n \in DOMAIN LeftBar' : m # n => LeftBar'[m] # LeftBar'[n]
        /\ \E n \in DOMAIN LeftBar' : LeftBar'[n] = Endpoints'[L]
    <3>1. 1 \in 1..L /\ L \in 1..L
      OBVIOUS
    <3>2. Rightful(LeftBar', Endpoints', L, endpoint')
      BY <2>2, <2>3, <2>4, <3>1, TurnsShape
    <3> QED  BY <2>3, <3>1, <3>2 DEF Rightful
  <2>6. Head(LeftBar) = PingAddr
    BY <2>2
  <2>7. Promised!Learn
    BY <2>1, <2>2, <2>4, <2>5, <2>6 DEF Promised!Learn
  <2> QED  BY <2>7 DEF Promised!Next
<1>2. CASE PingRefused
  <2>1. /\ pc \in {"ping", "ping_insecure"} /\ pc' \in {"ping", "ping_insecure"}
        /\ UNCHANGED <<opts, profile, public, webPort, info, endpoint, bundle>>
    BY <1>2 DEF PingRefused
  <2> QED  BY <2>1, Stutters
<1>3. CASE PingFails
  <2>1. pc \in {"ping", "ping_insecure"} /\ pc' \in GivenUp /\ bundle' = bundle
    BY <1>3 DEF PingFails, GivenUp
  <2>2. Promised!GiveUp
    BY <2>1, BarsAre, BarsWillBe DEF Promised!GiveUp
  <2> QED  BY <2>2 DEF Promised!Next
<1>4. ASSUME NEW body \in Bundle, HostCAAnswered(body)
      PROVE  Promised!Next
  <2>1. /\ pc \in {"ca", "ca_insecure"} /\ pc' = "resolved" /\ bundle' \in Bundle
        /\ UNCHANGED <<public, webPort, info, endpoint>>
    BY <1>4 DEF HostCAAnswered
  <2>2. Endpoints' = Endpoints
    BY <1>0, <2>1 DEF Endpoints
  <2>3. StateBar = "collecting" /\ StateBar' = "resolved" /\ LeftBar' = LeftBar
    BY <2>1, <2>2, BarsAre, BarsWillBe
  <2>4. Promised!Collect
    BY <2>1, <2>3 DEF Promised!Collect
  <2> QED  BY <2>4 DEF Promised!Next
<1>5. CASE HostCARefused
  <2>1. /\ pc \in {"ca", "ca_insecure"} /\ pc' \in {"ca", "ca_insecure"}
        /\ UNCHANGED <<opts, profile, public, webPort, info, endpoint, bundle>>
    BY <1>5 DEF HostCARefused
  <2> QED  BY <2>1, Stutters
<1>6. CASE HostCAFails
  <2>1. /\ pc \in {"ca", "ca_insecure"} /\ UNCHANGED <<public, webPort, info, bundle>>
        /\ Later = {} => pc' = "no_bundle"
        /\ Later # {} => /\ pc' = "ca" /\ endpoint' \in Later
                         /\ \A n \in Later : endpoint' <= n
    BY <1>6 DEF HostCAFails
  <2>2. Endpoints' = Endpoints /\ Later = LaterIn(Endpoints, endpoint)
    BY <1>0, <2>1 DEF Endpoints, Later, LaterIn
  <2>3. PICK L \in 2..3 : Endpoints \in Seq(Addr) /\ Len(Endpoints) = L /\ endpoint \in 1..L
    BY <2>1, CollectingList DEF Collecting
  <2>4. StateBar = "collecting" /\ LeftBar = Turns(Endpoints, endpoint)
    BY <2>1, BarsAre
  <2>5. CASE Later = {}
    <3>1. pc' \in GivenUp /\ Tail(LeftBar) = <<>>
      BY <2>1, <2>2, <2>3, <2>4, <2>5, TurnsGoOn DEF GivenUp
    <3>2. StateBar' = "failed" /\ LeftBar' = <<>>
      BY <3>1, BarsWillBe
    <3> QED  BY <2>1, <2>4, <3>1, <3>2 DEF Promised!PassOver, Promised!Next
  <2>6. CASE Later # {}
    <3>1. /\ pc' = "ca" /\ endpoint' \in LaterIn(Endpoints, endpoint)
          /\ \A n \in LaterIn(Endpoints, endpoint) : endpoint' <= n
      BY <2>1, <2>2, <2>6
    <3>2. Tail(LeftBar) = Turns(Endpoints, endpoint')
      BY <2>3, <2>4, <3>1, TurnsGoOn
    <3>3. StateBar' = "collecting" /\ LeftBar' = Turns(Endpoints, endpoint')
      BY <2>2, <3>1, BarsWillBe
    <3>4. LeftBar' # <<>>
      <4>1. endpoint' \in 1..L
        BY <2>3, <3>1, LaterPlaces
      <4>2. Rightful(LeftBar', Endpoints, L, endpoint')
        BY <2>3, <3>3, <4>1, TurnsShape
      <4> QED  BY <4>2 DEF Rightful
    <3> QED  BY <2>1, <2>4, <3>2, <3>3, <3>4 DEF Promised!PassOver, Promised!Next
  <2> QED  BY <2>5, <2>6
<1> QED  BY <1>1, <1>2, <1>3, <1>4, <1>5, <1>6 DEF Requests

\* Every step of the resolution is one of Resolution or none: each endpoint, as it
\* is written, has one turn, in the order of the list, and a place spelled in several
\* ways has as many; the search stops at the first bundle or when no turn is left
\* (runtime.go:193-214).
THEOREM EveryEndpointHasItsTurn == Spec => ImplementsResolution
<1>1. Init => Promised!Init
  <2> SUFFICES ASSUME Init PROVE Promised!Init
    OBVIOUS
  <2>1. pc = "profile" \/ pc = "bad_args"
    BY DEF Init
  <2>2. pc \in Locating \/ pc \in GivenUp
    BY <2>1 DEF Locating, GivenUp
  <2>3. bundle = NoBundle
    BY DEF Init
  <2> QED  BY <2>2, <2>3, BarsAre DEF Promised!Init
<1>2. TypeOK /\ TypeOK' /\ PlaceInv /\ PlaceInv' /\ [Next]_vars
        => [Promised!Next]_(Promised!vars)
  <2> SUFFICES ASSUME TypeOK, TypeOK', PlaceInv, PlaceInv', [Next]_vars
               PROVE  Promised!Next \/ UNCHANGED <<StateBar, LeftBar, bundle>>
    BY DEF Promised!vars
  <2>1. CASE UNCHANGED <<home, opts, pc, profile, public, webPort, headers, pair, info,
                         endpoint, bundle, requests>>
    BY <2>1, Stutters
  <2> QED  BY <2>1, Steps, LocalResolves, RequestsResolve DEF Local
<1> QED  BY <1>1, <1>2, PlaceInvariant, PTL
         DEF Spec, ImplementsResolution, Promised!Spec

=============================================================================
