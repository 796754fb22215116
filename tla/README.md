# tlscheck: a verification project

tlscheck is a command-line program that probes the TLS surface of a Teleport
proxy. It finds out which proxy is meant and what it says of itself, plans a
matrix of probes (services, addresses, client certificate, HTTP proxy, extra
headers), makes them one after the other, and writes one report. This directory
holds TLA+ models of that pipeline, what TLC checks of them, and what TLAPS
proves: every safety property a passing run checks, and that the engine and the
resolution of the runtime implement their abstract specifications.

    tlc -config MCProbeEngine.cfg MCProbeEngine.tla     # a run
    tlapm ProbeEngineProofs.tla                         # proofs, one call a module:
    tlapm ProbeEngineMatrixProofs.tla                   #   ...Proofs, NaturalOrder

## 1. Inventory

The program is sequential: `main` calls one part after the other, in one
goroutine, and parts hand each other values. What makes it hard is everything
outside: name servers, HTTP proxies, the Teleport proxy, servers and
middleboxes, the clock, the user's home directory, any of which may answer
differently each time, late, or not at all; and the number of combinations the
options span.

| part | state | operations | hard because |
|---|---|---|---|
| command line (`config/options.go`) | `Options` | `ParseArgs`, `headerFlag.Set`, `RedactHeaders` | several ways out; headers given as often as the user likes, in flags and files |
| Teleport home (`discovery/profile.go`, `tshconfig.go`) | files of `~/.tsh`, which `tsh` writes | `LoadActiveProfile`, `LoadClientCert`, `MatchingHeaders` | two generations of two formats, files missing one by one, a login that renews them meanwhile |
| runtime resolution (`config/runtime.go`, `discovery/ping.go`, `hostca.go`) | the resolved options | ping, host CA requests, choice of their proxy | three sources for one address, retries, several endpoints; the same proxy variables read by four parts, each in its own way |
| planner (`plan/plan.go`) | `Plan.Targets` | `Build` | filter and three doublings in a row, lookups in between |
| probe engine (`probe/engine.go`, `proxydialer.go`, `refcerts.go`) | pools, client pair, certificate map, results | `SetRootCAs`, `SetClientCert`, `Run` | deadlines, CONNECT, verdict order, state that survives from probe to probe |
| certificate records (`probe/certinfo.go`) | none | reading PEM files, metadata | several readers of one file, each with its own idea of it |
| network discovery (`discovery/network.go`) | `NetworkInfo` | `discoverRoutes`, `discoverSystemInfo`, `discoverProxyConfig`, `discoverVPN` | best effort: commands fail or hang one by one, each system shows its routing table in another notation, interfaces change meanwhile |
| invocation and report (`cmd/tlscheck/main.go`, `runner/runner.go`) | `Execution`, output file | `run`, `Execute` | failure at any stage, four sources of certificates |
| HTML report (`htmlexport/export.go`) | its own display | rendering, a script in the browser | a view of the finished execution |
| schemas, logging, helpers | none | formatting | not hard |

Interaction: `run` calls `ParseArgs`, then `ResolveRuntime` (which reads the
Teleport home and asks the proxy), gives the host CA pool and the client pair to
the engine, and calls `Execute`, which discovers the network, has the planner
`Build` the plan and the engine `Run` it, and collects the certificates the
engine filed. `run` then redacts and writes.

What makes each part correct:

* engine: every attempt of the plan gets one result about that attempt; verdicts
  rest on the right trust; the certificate inventory is closed and what it says
  is stable; a run ends.
* planner: the plan is exactly the matrix asked for, and variants that are meant
  to be compared differ only in what they vary.
* resolution: the right hosts are asked, in the right order, no more often than
  needed, without verification only where the code means it; what is given
  overrides what is found.
* network discovery: what it reports is what the system said, and a command that
  fails costs only what it was asked for, unless others depend on its answer.
* invocation: exit code, output file and report agree, whatever failed.

## 2. Modules

| module | models | refines / composes |
|---|---|---|
| `Targets` | `plan.ProbeTarget` and how `Run` walks it: addresses, attempts, slots, verdicts | |
| `ProbeMatrix` | abstract: what probing a plan promises | |
| `ProbeEngine` | `Engine`, the CONNECT dialer, the reference CAs | implements `ProbeMatrix` |
| `ProbeEngineProofs` | theorems about the engine's verdicts and certificates | |
| `ProbeEngineMatrixProofs` | theorems about its loops and its report's order | that it implements `ProbeMatrix` |
| `PlanBuild` | `Builder.Build` | produces `Targets` |
| `PlanBuildProofs` | theorems about `PlanBuild` | |
| `TeleportHome` | the files of `~/.tsh` and what is made of them | |
| `ProxyChoice` | which HTTP proxy each part uses, and names | |
| `HeaderFlags` | `-H` and `--header`, with headers and files of headers | |
| `Resolution` | abstract: what resolving the runtime promises | |
| `RuntimeResolve` | `ResolveRuntime`, `FetchClusterInfo`, `FetchHostCAs` | uses `TeleportHome`, `ProxyChoice`, `HeaderFlags`; implements `Resolution` |
| `RuntimeResolveProofs` | theorems about the resolution | that it implements `Resolution` |
| `RouteTable` | routing tables as five sources show them, and what the parsers keep | |
| `RouteTableProofs` | lemmas about the parsers | |
| `NetworkDiscovery` | `DiscoverNetwork` | uses `RouteTable` |
| `NetworkDiscoveryProofs` | theorems about network discovery | |
| `PEMFiles` | PEM files as their readers see them | |
| `Execution` | `run` and `runner.Execute` | composes `PlanBuild`, `PEMFiles` and `ProbeMatrix` as the engine |
| `ExecutionProofs` | theorems about the invocation | that it runs the planner |
| `NaturalOrder` | lemmas: the least and the greatest of a set of numbers | |
| `MC...` | small instances for TLC | |

### ProbeEngine

`slot` is the position of the three nested loops of `Run` (target, address,
attempt), `pc` the step of the attempt inside `probeOnce`:

    idle -> attempt -> dial -> [connect ->] handshake -> attempt ... -> sort -> done

`Configure` is what `main` calls before `Run`; `RejectProxyURL`, `StartDial`,
`DialFails`, `DialSucceeds`, `ConnectAccepted`, `ConnectRefused`,
`HandshakeSucceeds`, `HandshakeFails` and `HandshakeRefusesALPN` are the places
`probeOnce` calls out and what may come back; each way an attempt ends reports a
result and moves the loops on in the same step, as the code does without a call
in between. `Expire` is the deadline of the attempt's context. The environment
picks the outcome of each call; what the code does with it is determined.

Certificates are names with the fields the code looks at: the two key identifiers
(their own and their issuer's), issuer name, DNS names; and with the key they hold
and the one that signed them, which the identifiers need not agree with. Issuers are
recorded by identifier, as `captureCertificateDetails` does; only `X509Verify`, which
stands for `x509.Certificate.Verify`, looks at keys: a set of certificates closed
under "signed by" starting at the leaf reaches a root. `certs` is the engine's
fingerprint map, reduced to the issuer link and the trust status, the two fields that
depend on *other* certificates and hence on when a certificate was first seen.

`SortResults` takes any permutation `sort.Slice`, which is not stable, may give.

`Target.upgrade` and `Target.extraHeaders` are planned and reported, and the
engine never reads them: it performs no HTTP upgrade and sends no header other
than its CONNECT request. The model says so by not using the fields either.

### PlanBuild

`Build` step by step: `TakeTemplate` once per service template in the order of
the table, `CheckFilter`, `ResolveDNS` once per target with an answer of its own,
`ExpandForProxy`, `ExpandForHeaders`. The template table is translated as it
stands. Sets stand for lists where the order shows only in the report (ALPN
names, upgrade steps).

### TeleportHome, ProxyChoice, HeaderFlags and RuntimeResolve

`TeleportHome` has one operator per reading function, over a record of files each
of which may be absent or unreadable. The user's key files are those of the active
profile; a `current-profile` that names a profile decides alone. Addresses are kept
as they are written, with or without scheme and port, because the code compares them
as strings: `https://a:443`, `a:443` and `a` are three endpoints and one
place (`Place`). `ProxyChoice` keeps three readings of the proxy variables apart:
`ProxyFunc` (requests; by the scheme of the URL asked for), `DetermineProxyURL`
(planner), `ParsedHosts` (report). What the engine makes of the planner's choice is
`ProbeEngine`'s. `HeaderFlags` says which command lines are accepted, and which mention of a
header counts.

`RuntimeResolve` has one action per local part and one per outcome of a request.
Certificate and key are two reads (`ReadCert`, `ReadKey`), first of the modern,
then of the legacy files, and `TshWrites` is a `tsh login` that renews the modern
files one after the other, at any time until they have been read. `requests` is
auxiliary: the requests made, for the properties that speak of their order.
Patterns of `config.yaml` are given by the hosts they match.

`Resolution` is what a user needs to know of it: a proxy is located, asked about
itself, then it and the places it named are asked for the host CA bundle, each
address as it is written once, until one gives it (`Spec`); and this ends (`Ends`).
`RuntimeResolve` implements both (`ImplementsResolution`, `ResolutionEnds`) under the
mapping `StateBar`, which takes a request and its repetition without verification
for one turn and the ways of failing for one another, and `LeftBar`: the endpoint
being asked and those after it that are not written like an earlier one. The code
has no such list of distinct spellings (`runtime.go:178-192` builds one with
repetitions and keeps a set of those tried); the mapping is the argument that it
behaves as if it had.

### RouteTable and NetworkDiscovery

`RouteTable` starts from the kernel's table and says what each parser makes of it
in the notation of its source: `ip route`, `route -n`, `/proc/net/route` (its
hexadecimal words octet by octet), `netstat -rn`, `route print`. A route of Linux has
a type and any number of hops. A listing has its lines by the place of their route and
the number of the hop, because `ip route` begins the line of a reject route with its
type and gives each hop of a multipath route a line of its own (`NextHop`), and
`parseLinuxRoutes` takes a line's first word for the destination and skips a line of
one word (`Curt`).
`NetworkDiscovery` has one action per collector and per way a command ends;
`RouteSources`, `ProxyQueries` and `VPNListings` are the commands of each system
in order, of which `n` is the current one. `LinkChanges` is the environment: an
interface, and the routes through it, may come or go between any two collectors,
which matters because routes are captured first and VPN interfaces looked for
last. `failed` and `shown` are auxiliary.

### PEMFiles and Execution

`PEMFiles` distinguishes the readers of one file: `ParseCertBundleFromPEM` (the
report) takes every certificate it can parse, `ParseCertFromPEM` (the client
fingerprint) looks at the first block only, `IsKeyPair` (`tls.X509KeyPair`) wants
the first certificate to go with the key, `AppendCertsFromPEM` (the pool) fails on
nothing.

`Execution` is the whole invocation. Planning is `PlanBuild`'s own `Next`, one
step at a time. Probing is `ProbeMatrix`, which `ProbeEngine` is shown to
implement, together with `shown`, the certificates its results name; that those
are on the engine's file is `CertificatesOnFile`, proved of the engine. Resolution
and network discovery are one step each, a choice of the ways they end: the
invocation uses the first one's outcome, and nothing of what the second finds.
`cleared` names the places of the report that still hold headers as given. The
options a plan is built from include those resolution gives.

## 3. Runs

All bounds are values of constants in the `MC` modules and `.cfg` files. Two of
them cap something the world does not: `MaxChanges`, how often interfaces come and
go during discovery, and `PACBuffer`, the 64 KB of `network.go:630`, which stands
at 2 for PAC files of length 1 and 3. Deadlock is checked everywhere: the ends of
a run stutter explicitly (`Stopped`, `Over`, `Done`).

| run | question | instance | states |
|---|---|---|---|
| `engine` | verdicts and certificate inventory over all outcomes; what ends under which fairness | 7 plans of up to 3 attempts, 5 server chains, host CA pool set or not, three client pairs | 326,328 |
| `engine_loops` | loops and sort; refinement of `ProbeMatrix` | two plans of 4 attempts, one chain | 81,660 |
| `plan` | the matrix | 192 option sets: 4 filters with independent lookups, and all 12 services under 4 versions | 5,736 |
| `resolve` | precedence and order of requests; refinement of `Resolution` | 17 homes, renewed while they are read or not, x 32 command lines (addresses with and without scheme and port; 10 for proxy variables, 8 for header flags and files) x 4 ping answers, every outcome of every request | 275,072 |
| `execution` | the composition, and what ends | 5 option sets of up to 4 attempts, 4 client pairs, 2 bundles | 61,394 |
| `network` | what the report keeps of what the system said; what ends | 10 machines (4 Linux, 3 macOS, 2 Windows, 1 FreeBSD), every end of every command, one change of an interface | 260,974 |

Why these are enough. The engine carries one thing from one attempt to the next:
`certs`, the only state beside the results that a probe changes. Two attempts
show every effect of what an earlier probe left behind; the plans have three
where a proxied and a direct variant precede a host CA probe. The loops need two
of each nesting (two addresses out of order, two attempts, two targets, a
service that comes back), and `engine_loops` has them. Five certificate lists
cover a chain without its root, a middlebox that took a reference root's name and
key identifier, that root beside the one it imitates in either order, so that the
issuer by identifier is not the one that signed, and a host certificate alone, which
has no identifiers. In `plan` every pair of options that touches the
same field occurs together. In `resolve` the given, the profile's and the
reported address coincide and differ in host, in port and in spelling only, and lead
to `http` places too; header flags are
checked with the sets of profiles that have `config.yaml` rules of their own for
the same headers. In `network` the routing tables hold two prefixes of one
network, masks that end inside an octet, a host route, a route without gateway,
two defaults, the two halves of the address space a VPN claims, and on Linux reject
routes of two types, two of one type to different networks, and multipath routes, the
default among them, with and without more on their first line. Properties
relate two readings of the interfaces, with the routes and at the end, and speak
of one interface at a time: one change makes the two readings differ, and
`links` is arbitrary to begin with. `MaskLengths` is checked for all 625 masks
over the octets 0, 1, 128, 252, 255, and it is proved for all others too
(`EveryMaskKeepsItsLength`). In `execution` the client's file leads with its
certificate, with a key, with another's certificate, with a block that cannot be
parsed.

Runs that are expected to be violated check one sentence of the documentation, of
a comment or of a declaration each, and show where the code does otherwise:

| run | sentence | what happens |
|---|---|---|
| `proxy_stall` | an attempt that cannot complete is annotated and the plan still emitted | a proxy that accepts and stays silent blocks the run for ever: `proxydialer.go:90` reads without deadline |
| `stale_issuer` | the issuer's fingerprint is given if present in the chain | not if the certificate was first seen without it |
| `execution_results_redacted` | sensitive headers are redacted before rendering | not in the targets inside results |
| `no_proxy` | `NO_PROXY` is respected | it exempts no host: `ping.go:192` and `plan.go:558` read the other two variables only |
| `network_vpn_routes` | the routes of detected VPN interfaces are extracted | not where the source of the routes shows interfaces by address (`route print`) or is not understood (`route -n`; the first line of a multipath route) |

### Observations

Places where the code and what is written about it part, or where it does
something a reader would not expect, seen while modelling and not stated as
properties; the models follow the code.

Planner, engine, resolution:

* v15.0 gets the legacy upgrade only (`plan.go:485`); `docs/design.md:23` has both
  for v15 to v17.
* `timeout` (`docs/design.md:65`) is given to a direct dial that runs out of time;
  a handshake or a proxied dial cut off by the same deadline gets the kind of its
  stage (`engine.go:311`).
* Without a host CA bundle the invocation ends (`runtime.go:216`, and
  `runtime_test.go:384` wants it so), where `README.md:121-122` has only the host
  CA probes fail. `HostCAOutageContained` still matters: other callers of
  `runner.Execute` may use an engine without a pool.
* Trust is compared by certificate and by identifier: any other root of a reference
  root's name is marked as suspect, a cross-signed one of the same key included, as
  `docs/design.md:41-44` describes. The issuer it is compared with is the last
  certificate of the chain with the identifier asked for (`engine.go:402`), which
  may not have signed anything.
* One place is asked up to three times, each time with a retry and 10 s, if its
  address is given, in the profile and reported in different spellings: endpoints are
  compared as strings (`runtime.go:201`).
* An address given as `http://...` is asked by `HTTP_PROXY` only (`ping.go:207`),
  while host CA requests to the same host's other spellings, and the probes, use
  `HTTPS_PROXY`.
* Where an address replaces another's host and has no port, the other's port stays
  (`runtime.go:164-169`): with `--proxy-server` given and a profile present, the
  profile's web port may be joined with the host given.
* A host CA answer with status 200 that is no certificate ends the search
  (`runtime.go:208`), although the next endpoint might have had the bundle.
* A proxy without a scheme (`proxy:3128`) serves the requests of resolution, which
  add `http://`, and is refused by the engine for every proxied probe. A SOCKS
  proxy in `HTTPS_PROXY` likewise; and requests pass over an `HTTPS_PROXY` that
  cannot be parsed and use `HTTP_PROXY`, while probes do not. `ProbesFollowRequests`
  says which proxy is chosen, whether it can be used or not.
* A client certificate file that leads with a block of another kind is used
  (`tls.X509KeyPair` skips such blocks) and its certificate is in the report, but
  results carry no client fingerprint: `ParseCertFromPEM` looks at one block.
* Headers of `config.yaml` are matched against the address as given, before the
  ping may replace it.
* A target's note says that a client certificate is used even if the engine could
  not load the pair.

Network discovery:

* A PAC file is read with one `Read` into 64 KB, whose error is ignored
  (`network.go:629-633`): it is reported as retrieved with whatever came first,
  nothing included.
* `ip route` (`parseLinuxRoutes`) is read as if each line were a route to its first
  word: all blackhole routes are routes to `blackhole`, the hops of a multipath route
  are routes to `nexthop`, and a default over several hops has no gateway in the
  report, even where a later default has one. The first line of a multipath route
  that has nothing after its destination is dropped (`network.go:753-755`).
* When `networksetup -getwebproxy` fails, for `Wi-Fi` and for `Ethernet`, or the
  query of `ProxyEnable` on Windows, the other settings are not asked for
  (`network.go:319-326`, `464-467`): PAC file, SOCKS proxy and exceptions are
  missing from the report, whatever the system has.
* `/proc/net/route` and `route print` take every destination of zeroes for a
  default route, the `0.0.0.0/1` of a VPN too.
* `route -n` goes through the parser of `ip route`: its header lines become
  routes, and no route has a gateway or an interface.
* The VPN patterns `utun` and `openvpn` are never reached: `tun` and `vpn` come
  first and are parts of them, so an interface of macOS is reported as `tun`.
* On macOS the fallback to the service `Ethernet` is for the first query only; the
  others ask `Wi-Fi` and fail where it does not exist; where both exist, the PAC file
  of `Wi-Fi` may be shown beside the proxy of `Ethernet`.
* On Linux `wireguard` and `wg-quick` running are two equal rows, and a VPN that
  NetworkManager knows counts as detected, connected or not.

The HTML report (`export.go`, not modelled):

* It reads `proxy_config.https_proxy`, which the execution has under
  `proxy_config.environment`: proxy variables are never shown.
* `copyCert` reads `event.target` after the clipboard's promise has resolved, when
  there is no event any more; `fallbackCopy` says "Copied!" without looking at
  what `execCommand` returned.
* Where the browser denies `localStorage`, `initTheme` throws before the page's
  listener is installed, and nothing is rendered.
* Timers of highlights and of "Copied!" are not cancelled: a second click within
  the time has its effect cut short by the first one's timer.

### Fairness

`FairSpec` of `ProbeEngine` assumes that the engine's own steps are taken, that
time passes (`Expire`), and that a dial and a handshake end *once the deadline has
passed* (`expired /\ Dial`, `expired /\ Handshake`): both are made with the
attempt's context, and Go's dialer and TLS handshake return when it is done. There
is no fairness for `Connect`: the read of the CONNECT answer has no deadline and
does not watch the context. `OnlyConnectWaits` says that this is the only place a
run can stay; `EveryRunEnds` is violated there. Nothing is assumed of the network.

`FairSpec` of `RuntimeResolve` assumes that files are read and that a request ends:
the client that makes it has a limit of 10 s (`ping.go:126`, `hostca.go:90`).

`FairSpec` of `NetworkDiscovery` assumes the same of its own steps and of the PAC
client with its limit of 5 s for request and body together, and that a file under
`/proc` is read. It assumes nothing of commands: they run under
`context.Background()` (`main.go`), or under no context at all, and nothing ends
one that hangs. `OnlyCommandsWait` says that this is all discovery can wait for.

`FairExecutionSpec` assumes that the program's own steps are taken and that a
direct attempt ends, which is what `DirectRunEnds` shows of the engine. Neither
discovery nor a proxied attempt need end; `InvocationEnds` says that nothing else
can hold the invocation up.

### Mutation

Each property is also checked against a plausible mistake: an operator
`<Definition>Fault` stands before the definition it varies, is used nowhere, and is
the definition the property has to reject when it takes the original's place (a
dropped reset, a fallback to the wrong pool, an entry rewritten, an endpoint asked
again, a copy forgotten, octets in the wrong order). `PROJECT.json` lists the pairs.

## 4. Proofs

The theorems hold for every value of the constants that meets the assumptions
stated where they are declared: addresses are numbers (the code orders them as
strings; only the order matters), plans are sequences of well-formed targets,
certificates carry the fields the code reads, option sets and name server answers
are well formed, and the names in the template table belong to the sets they are
names of. Nothing is assumed of how many there are, nor that sets are finite.

**The probe engine** (`ProbeEngineProofs`), for every plan, every behaviour of the
network, every certificate chain:

* `TypeCorrect`: while an attempt is in progress `slot` names an attempt of the
  plan. `AfterIsSlot` carries it: stepping the three loops from an attempt of the
  plan yields another one or the end.
* `FirstSightingIsKept`: an entry of the certificate inventory is never rewritten
  or dropped. It needs no invariant but the type: only the handshake's outcomes
  file certificates, and `CaptureEffect` says that filing touches no existing entry.
* `CertificatesAreOnFile`: the fingerprints in results, and the issuers entries
  name, all have entries. Inductive as it stands, given `FirstSightingIsKept`'s
  step and that an issuer is looked for in the chain being filed (`IssuerInChain`).
* `SuccessesAreAnchored` and `HostCAOutageIsContained`: what a success rests on and
  what a missing host CA bundle fails. Neither is inductive, since they speak of
  the pool the engine holds *now*; `VerdictInv` adds that there are no results
  until the run has begun, and hence that the pool no longer changes once there
  are. `EndingSteps` lists the ways an attempt can end, and `JudgedSoundly` shows of
  each that the verdict it reports is sound at that moment.
* `SuspicionsHaveEvidence`: a certificate marked as suspect is in the chain of some
  result together with the one held against it, the last with the identifier asked
  for. It promises no signature, because none is looked at. Inductive: filing a chain
  marks only certificates of that chain (`SuspectFindsIssuerInChain`), the result with the
  chain is added in the same step, and the sort loses none.

**The engine as `ProbeMatrix`** (`ProbeEngineMatrixProofs`):

* `AnsweredExactlyOnce` and `EngineImplementsMatrix`: every attempt gets one result,
  and each step of the engine is a step of `ProbeMatrix` or leaves its state alone.
  Both need to know *which* attempts are answered, which `ExactlyOnce` does not
  say before the end: `LoopInv` has that the answered ones are those `Before` the
  current `slot`, in the order of the loops. `Before` is a total order of the slots,
  and moving on skips none (a target without addresses is tried by its name).
* `ReportIsInPlanOrder`: `OrderInv` says that until the sort the results are in the
  loops' order, and hence that the first result of a service stands where the plan
  first names it, which is where `sortResults` takes the service's rank from.
  Nothing is used of `sort.Slice` but that it returns some ordered permutation.

**The planner** (`PlanBuildProofs`), for every set of options, every resolver:

* `TypeCorrect`: the planner hands the engine well-formed targets.
* `OnlyUnknownServicesAreRefused`: a filter is refused exactly for a key no
  service has. `FilterInv` says what is pending: the wanted keys no template so far
  has. It relies on the table's keys being distinct (`KeysDistinct`), which is
  proved of the table as it stands.
* `PlanCoversTheMatrix`: the finished plan has every combination asked for, once.
* `VariantsStayComparable`: targets of one service and one certificate choice differ
  in nothing but the proxy and the headers, above all not in the addresses.

The last two come from one invariant, `MatrixInv`, that says what the list is at
each stage: `BaseRows` for the services claimed so far, and while names are looked
up; `ProxyRows` after the first doubling; `PlanRows` after the second. Its strength
is in the uniqueness it carries: rows that agree in service and certificate are one
and the same before the doublings, and that is why what a lookup wrote cannot tell
two variants apart later. Each doubling is one lemma about interleaving two lists
of variants (`InterleaveShape`, `ProxyRowsOf`, `HeaderRowsOf`).

**Resolution** (`RuntimeResolveProofs`), for every home, login, command line,
environment, and every answer to every request. Each theorem has an invariant of its
own over `PlaceInv` (once a proxy is located there is an address to ask, and
`endpoint` is one of the list) and `RecordInv` (until the ping is answered only the
ping was asked, and each request went the way its URL's scheme calls for):

* `ProbesFollow`: `RecordInv` and the comparison of `ProxyFunc` for an `https` URL with
  the planner's and the report's reading of the same variables.
* `VerificationKept`: `RetryInv`: a refusal over the certificate is the last
  request exactly while its repetition is due.
* `NothingAskedTwiceAsWritten`: `TurnsInv`: an endpoint whose turn has come is written
  like none that had one, and what was asked belongs to the turns so far, which have
  failed.
* `BestBundle`: `SearchInv`: everything before the current endpoint has failed. The
  endpoints passed over are the point: they had come up as written, and failed,
  before, which takes the least place of a spelling (`NaturalOrder`).
* `NobodyElseIsAsked` (`GivenInv`), `CommandLineDecides` (`HeadersInv`).
* `OneFormat`: `PairInv` follows the two reads past a login that rewrites the files
  in between: a certificate of the old login and a key of the new one are still of
  one format, and that is what the property promises.
* `EveryEndpointHasItsTurn`: the safety half of the refinement. `Turns` is the
  mapped list of endpoints still to come; `TurnsGoOn` shows that moving to the next
  endpoint whose spelling is new takes exactly its head away, `TurnsShape` that it
  has no repetitions and, at the start, every endpoint. The proof uses that there
  are at most three endpoints, which the code's three appends guarantee.

**The invocation** (`ExecutionProofs`), for every option set, resolver, client
pair and bundle:

* `RunsThePlanner`: the invocation's specification implies the planner's, so that
  the planner's theorems carry over without being proved again. This is what the
  composition is for.
* `EarlierReportSurvives`, `ExitCodesTell`, `PlanStaysRedacted`: one invariant,
  `RunInv`, that lists for each stage what cannot have happened yet: nothing
  answered before the plan is built, nothing reported before all is answered,
  nothing written before arguments, options and targets are cleared.
* `FingerprintsExplained`: `FilesInv` ties pool, client pair and certificate list
  to the files they came from.
* `WholeMatrixIsReported`: `PlanCoversTheMatrix` of the planner, `RunInv`, and
  `RepeatInv`, which says that the targets keep the number of attempts asked for.

**Network discovery** (`NetworkDiscoveryProofs` over `RouteTableProofs`), for every
machine and routing table, every end of every command, every change of interfaces:

* `OnlyFailuresCost`: one invariant per collector, each of the form "what was asked
  so far is in the report or failed" (`RoutesInv`, `VersionInv`, `SettingsInv`,
  `PACInv`, `ListingsInv`). `SettingsInv` rests on answers to different queries
  being independent (`Apart`): a later answer does not overwrite an earlier one's
  part of the settings. The exact cost of the deciding queries takes two facts
  more: what is noted as failed was asked (`FailuresInv`), and past them one was
  answered exactly if there are settings (`Decided`).
* `PACInUse`: `PACInv`; the file's address is one that a service of the machine has
  switched on, although the service asked for it may not be the one whose proxy is
  reported.
* `GatewayIsTheTables` and `NetworksAreDistinct`: lemmas about each source's lines
  (`LineFields`, `LineDefault`, `LineGateway`, `OwnLine`), lifted to whole tables by
  the first place at which a table has a line that passes for a default. Both say what becomes of every route with a line of its
  own, in every notation: where the code confuses two, the property names the case.
* `TunnelRoutesFound` (`TunnelsInv`).
* `MasksKeepTheirLength` is `EveryMaskKeepsItsLength` for the five octet values TLC
  looks at. The theorem is about any four bytes, by the bits of an octet.

Invariants were checked by TLC on the runs' instances before they were proved. What
the proofs made explicit, and the models and properties now state:

* `ip route` prints a host route to `0.0.0.0` without its length, as the parser
  expects of a default route; it passes for one in `DefaultGatewayIsTheTables`;
* the kernel has no route of length 0 but to `0.0.0.0` (`KernelRoute`): without that
  two prefixes the parsers cannot tell apart would be different networks;
* Windows has no switch for the PAC file, the presence of an address is one
  (`DiscoveryAssumption`); on macOS address and switch are one query's answer about
  one service, which is why `Said` speaks of a service that exists;
* a login between the two reads leaves a certificate and a key of one format that
  are not a pair; `PairFromOneFormat` says what the code does guarantee;
* the mapped list of endpoints needs no selection from a sequence of any length:
  with three endpoints at most it is three optional turns in a row.

Model-checked only: liveness. `DirectRunEnds`, `OnlyConnectWaits`, `ResolutionEnds`,
`OnlyCommandsWait` and `InvocationEnds` rest on fairness, which the prover does
not handle.

## 5. What is not modelled

* The HTML report: one rendering of the finished execution, whose script keeps
  only its own display; nothing flows back.
* Encodings: PEM, YAML, JSON, HTML, URLs, version strings. Their results appear as
  members of small sets; where a failure to decode has an effect, it is a choice.
* What system commands print, word by word: `RouteTable` says what is kept of it
  and as what. Metrics, flags and addresses are left out (whether `ip route` shows any
  is kept, `noted`), IPv6 and IPv6 gateways of IPv4 routes too, and so are machines with
  another byte order than little-endian, where `/proc/net/route` is printed the
  other way round.
* The SOCKS entry of the report's proxy settings, a copy of `ALL_PROXY`.
* Flags other than headers: `ParseArgs` ends in one of its ways, and the options
  it leaves are inputs of the models.
* Letter case, paths and user information in addresses, which make further spellings
  of one place, and schemes other than `http` and `https`. Redirects of a request,
  which choose their proxy again.
* Profiles and `config.yaml` that change while they are read: they are one read
  each. The key files are two, and do change.
* Metadata of results and certificates: names, dates, key usage, timings.
* The TLS protocol itself. In TLS 1.3 a server may refuse a client certificate
  after the client's handshake has returned; the engine counts that as a success,
  and cannot know better without reading.
* The report's layout, the schemas, logging.

## 6. Plan

Done: every component that has state is modelled, the engine as a refinement of
`ProbeMatrix` and the resolution as one of `Resolution`, the invocation as their
composition with the planner; every safety property of the passing runs is a
theorem, the two refinements included.

Next, in this order:

1. `Execution` over `Resolution` in place of a choice of its ends, and with it the
   theorem that an invocation probes only after a resolution that succeeded.
2. Lemmas that state for every input what runs show for a few: the bands of
   versions, the readings of the proxy variables against one another.
