----------------------------- MODULE Execution -----------------------------
(***************************************************************************)
(* One invocation of tlscheck: main's run resolves the options, configures *)
(* the engine, has runner.Execute build the plan and probe it, merges the  *)
(* certificates, redacts, and writes the report.  Execute first has the    *)
(* network discovered.                                                     *)
(* cmd/tlscheck/main.go, internal/runner/runner.go.                        *)
(*                                                                         *)
(* The planner is PlanBuild itself; the engine is ProbeMatrix, which       *)
(* ProbeEngine implements, together with what CertificatesOnFile says of   *)
(* the certificates it files.  The resolution, RuntimeResolve, and the     *)
(* discovery, NetworkDiscovery, are each one step: their ends.             *)
(***************************************************************************)
EXTENDS PlanBuild, PEMFiles

CONSTANTS
    ServerCert,  \* certificates servers and middleboxes present
    ClientPairs, \* the client pairs resolution may give
    Bundles,     \* the host CA bundles it may give
    Verdicts     \* the verdicts attempts are given

\* ClientCertPEM, and the certificate that ClientKeyPEM is the key of.
ClientPair == [pem: File, keyOf: Cert \cup {NoCert}]
NoPair == [pem |-> <<>>, keyOf |-> NoCert]

ASSUME ExecutionAssumption ==
    /\ Verdicts \subseteq Verdict /\ ServerCert \subseteq Cert
    /\ ClientPairs \subseteq ClientPair \ {NoPair} /\ Bundles \subseteq File

VARIABLES
    stage,    \* where the invocation is
    pair,     \* opts.ClientCertPEM and ClientKeyPEM
    bundle,   \* opts.HostCAPEM
    rootCAs,  \* the engine's pool
    clientPEM,\* the engine's client certificate file
    clientFP, \* the engine's client fingerprint
    answer,   \* the engine's answers, by slot
    phase,    \* the engine's phase
    shown,    \* the certificates the results name
    certs,    \* exec.Certs: fingerprint -> source
    cleared,  \* the parts of the report that hold extra headers, one of them
              \* sensitive, in the clear
    file,     \* the output file: "none" without --output, "kept", "truncated"
    report,   \* what has been written: "unwritten", "partial", "complete"
    exit      \* the exit code, Running before there is one

Builder == <<opts, pc, next, pending, targets>>
engine == <<rootCAs, clientPEM, clientFP>>
main == <<stage, pair, bundle, engine, answer, phase, shown, certs, cleared, file,
          report, exit>>

BuiltPlans == Seq(Target)

Engine == INSTANCE ProbeMatrix WITH plan <- targets, Plans <- BuiltPlans

Parts == {"arguments", "options", "targets", "results"}
Sources == {"server", "client", "host_ca"}
Running == 3

ExecutionTypeOK ==
    /\ TypeOK
    /\ stage \in {"parse", "resolve", "configure", "discover", "build", "probe",
                  "collect", "redact", "create", "render", "over"}
    /\ pair \in ClientPairs \cup {NoPair} /\ bundle \in Bundles \cup {<<>>}
    /\ rootCAs \subseteq Cert /\ clientPEM \in {pair.pem, <<>>}
    /\ clientFP \in Cert \cup {NoCert}
    /\ DOMAIN answer \subseteq SlotsOf(targets)
    /\ answer \in [DOMAIN answer -> Verdict]
    /\ phase \in {"open", "closed", "refused"}
    /\ shown \subseteq ServerCert
    /\ certs \in [DOMAIN certs -> Sources]
    /\ cleared \subseteq Parts
    /\ file \in {"none", "kept", "truncated"}
    /\ report \in {"unwritten", "partial", "complete"}
    /\ exit \in 0..3
    /\ exit # Running <=> stage = "over"

ExecutionInit ==
    /\ Init
    /\ stage = "parse"
    /\ pair = NoPair /\ bundle = <<>>
    /\ rootCAs = {} /\ clientPEM = <<>> /\ clientFP = NoCert
    /\ answer = [s \in {} |-> Success]
    /\ phase = "open"
    /\ shown = {}
    /\ certs = [c \in {} |-> "server"]
    /\ cleared = {}
    /\ file \in {"none", "kept"}
    /\ report = "unwritten"
    /\ exit = Running

\* Faulty: an error is reported and the invocation goes on.
ExitFault(code) == exit' = code /\ UNCHANGED stage

Exit(code) == stage' = "over" /\ exit' = code

GoOn(s) == stage' = s /\ UNCHANGED exit

-----------------------------------------------------------------------------
\* main.run up to the execution.

\* Faulty: the output file is opened as soon as its name is known.
ParseArgsFault ==
    /\ stage = "parse"
    /\ Exit(0) \/ Exit(2) \/ GoOn("resolve")
    /\ file' = IF file = "kept" THEN "truncated" ELSE file
    /\ UNCHANGED <<Builder, pair, bundle, engine, answer, phase, shown, certs, cleared, report>>

ParseArgs ==
    /\ stage = "parse"
    /\ Exit(0) \/ Exit(2) \/ GoOn("resolve")   \* -help or -version, error, run
    /\ UNCHANGED <<Builder, pair, bundle, engine, answer, phase, shown, certs, cleared, file, report>>

\* RuntimeResolve's "proxy_required", its other failures, or "resolved".
Resolve ==
    /\ stage = "resolve"
    /\ \/ (Exit(2) \/ Exit(1)) /\ UNCHANGED <<pair, bundle>>
       \/ /\ GoOn("configure")
          /\ pair' \in (IF opts.clientCert THEN ClientPairs ELSE {NoPair})
          /\ bundle' \in Bundles
    /\ UNCHANGED <<Builder, engine, answer, phase, shown, certs, cleared, file, report>>

\* A pair the engine cannot use is passed over.
SetClientCert ==
    IF IsKeyPair(pair.pem, pair.keyOf)
    THEN clientPEM' = pair.pem /\ clientFP' = ParseCertFromPEM(pair.pem)
    ELSE UNCHANGED <<clientPEM, clientFP>>

\* A host CA bundle without a certificate ends the invocation; a client pair
\* the engine cannot use does not.
ConfigureEngine ==
    /\ stage = "configure"
    /\ rootCAs' = AppendCertsFromPEM(bundle)
    /\ IF rootCAs' = {} THEN Exit(1) /\ UNCHANGED <<clientPEM, clientFP>>
       ELSE GoOn("discover") /\ SetClientCert
    /\ UNCHANGED <<Builder, pair, bundle, answer, phase, shown, certs, cleared, file, report>>

-----------------------------------------------------------------------------
\* runner.Execute.

\* DiscoverNetwork returns, if it does: only a system command can hold it up
\* (NetworkDiscovery!OnlyCommandsWait).  Nothing of what it finds is used.
DiscoverNetwork ==
    /\ stage = "discover"
    /\ GoOn("build")
    /\ UNCHANGED <<Builder, pair, bundle, engine, answer, phase, shown, certs, cleared,
                   file, report>>

Build ==
    /\ stage = "build"
    /\ pc \notin {"built", "refused"}
    /\ Next
    /\ UNCHANGED main

\* Faulty: the plan is taken before the headers have been seen to.
BuildEndsFault ==
    /\ stage = "build"
    /\ \/ pc = "refused" /\ Exit(1)
       \/ pc \in {"proxy", "built"} /\ GoOn("probe")
    /\ UNCHANGED <<Builder, pair, bundle, engine, answer, phase, shown, certs, cleared, file, report>>

BuildEnds ==
    /\ stage = "build"
    /\ \/ pc = "refused" /\ Exit(1)
       \/ pc = "built" /\ GoOn("probe")
    /\ UNCHANGED <<Builder, pair, bundle, engine, answer, phase, shown, certs, cleared, file, report>>

\* The attempts are made in order.
Current ==
    CHOOSE s \in SlotsOf(targets) \ DOMAIN answer :
        \A r \in SlotsOf(targets) \ DOMAIN answer :
            \/ s.target < r.target
            \/ s.target = r.target /\ s.ip < r.ip
            \/ s.target = r.target /\ s.ip = r.ip /\ s.attempt <= r.attempt

Unanswered == SlotsOf(targets) \ DOMAIN answer # {}

\* An attempt is answered; what its server presented is on the engine's file.
Probe ==
    /\ stage = "probe" /\ Unanswered
    /\ \E v \in Verdicts :
          /\ Engine!Answer(Current, v)
          /\ \E seen \in SUBSET ServerCert :
                /\ v \in {Success, "untrusted_cert", "host_ca_unavailable"} => seen # {}
                /\ v \in {"timeout", "proxy_connect_failed", "proxy_config_error"} => seen = {}
                /\ shown' = shown \cup seen
    /\ UNCHANGED <<opts, pc, next, pending, stage, pair, bundle, engine, certs, cleared,
                   file, report, exit>>

\* The engine closes its report; an engine without a dialer, or none at all,
\* has refused before it asked anything.
ProbingEnds ==
    /\ stage = "probe"
    /\ \/ Engine!Close /\ GoOn("collect")
       \/ Engine!Refuse /\ Exit(1)
    /\ UNCHANGED <<opts, pc, next, pending, pair, bundle, engine, shown, certs, cleared, file, report>>

\* GetClientCertificates
ClientCertificates == IF clientPEM = <<>> \/ clientFP = NoCert THEN {} ELSE {clientFP}

\* Faulty: the client's certificates are the map's first entries.
MergedCertsFault ==
    LET client == ClientCertificates \cup ParseCertBundleFromPEM(pair.pem)
        hostCA == ParseCertBundleFromPEM(bundle)
    IN  [c \in shown \cup client \cup hostCA |->
            CASE c \in hostCA -> "host_ca"
              [] c \in client \ hostCA -> "client"
              [] OTHER -> "server"]

\* The engine's certificates, its client certificate, which replaces what is
\* there, then the rest of the client file and the bundle, which do not.
MergedCerts ==
    LET client == ParseCertBundleFromPEM(pair.pem) IN
    [c \in shown \cup ClientCertificates \cup client \cup ParseCertBundleFromPEM(bundle) |->
        CASE c \in ClientCertificates -> "client"
          [] c \in shown \ ClientCertificates -> "server"
          [] c \in client \ (shown \cup ClientCertificates) -> "client"
          [] OTHER -> "host_ca"]

\* Arguments and Plan.Options share one map of headers; the targets have copies,
\* and a result holds its target's.
CollectCerts ==
    /\ stage = "collect"
    /\ certs' = MergedCerts
    /\ cleared' = IF opts.extraHeaders
                  THEN {"arguments", "options"} \cup
                       (IF targets # <<>> THEN {"targets", "results"} ELSE {})
                  ELSE {}
    /\ GoOn("redact")
    /\ UNCHANGED <<Builder, pair, bundle, engine, answer, phase, shown, file, report>>

-----------------------------------------------------------------------------
\* The report.

\* Faulty: the options' copy of the headers is taken for the arguments'.
RedactFault ==
    /\ stage = "redact"
    /\ cleared' = cleared \ {"arguments", "targets"}
    /\ GoOn("create")
    /\ UNCHANGED <<Builder, pair, bundle, engine, answer, phase, shown, certs, file, report>>

\* RedactHeaders returns a copy, so each place is redacted on its own.
Redact ==
    /\ stage = "redact"
    /\ cleared' = cleared \ {"arguments", "options", "targets"}
    /\ GoOn("create")
    /\ UNCHANGED <<Builder, pair, bundle, engine, answer, phase, shown, certs, file, report>>

CreateOutput ==
    /\ stage = "create"
    /\ \/ GoOn("render") /\ file' = IF file = "kept" THEN "truncated" ELSE file
       \/ file = "kept" /\ Exit(1) /\ UNCHANGED file
    /\ UNCHANGED <<Builder, pair, bundle, engine, answer, phase, shown, certs, cleared, report>>

\* Faulty: a write error goes unnoticed.
RenderFault ==
    /\ stage = "render"
    /\ report' \in {"partial", "complete"} /\ Exit(0)
    /\ UNCHANGED <<Builder, pair, bundle, engine, answer, phase, shown, certs, cleared, file>>

Render ==
    /\ stage = "render"
    /\ \/ report' = "complete" /\ Exit(0)
       \/ report' \in {"unwritten", "partial"} /\ Exit(1)
    /\ UNCHANGED <<Builder, pair, bundle, engine, answer, phase, shown, certs, cleared, file>>

Over == stage = "over" /\ UNCHANGED <<Builder, main>>

ExecutionNext ==
    \/ ParseArgs \/ Resolve \/ ConfigureEngine
    \/ DiscoverNetwork
    \/ Build \/ BuildEnds
    \/ Probe \/ ProbingEnds
    \/ CollectCerts \/ Redact
    \/ CreateOutput \/ Render
    \/ Over

ExecutionSpec == ExecutionInit /\ [][ExecutionNext]_<<Builder, main>>

\* Everything the program does by itself, requests with their 10 s limit and
\* lookups with the resolver's included.
Step ==
    \/ ParseArgs \/ Resolve \/ ConfigureEngine
    \/ Build \/ BuildEnds \/ ProbingEnds
    \/ CollectCerts \/ Redact \/ CreateOutput \/ Render

\* A direct attempt ends (ProbeEngine!DirectRunEnds); one through a proxy need
\* not, nor need DiscoverNetwork.
FairExecutionSpec ==
    /\ ExecutionSpec
    /\ WF_<<Builder, main>>(Step)
    /\ WF_<<Builder, main>>(Unanswered /\ ~Proxied(targets[Current.target]) /\ Probe)

-----------------------------------------------------------------------------
\* A finished report answers the whole matrix the user asked for: every wanted
\* service in every variant, on each of its addresses, as often as asked.
MatrixIsReported ==
    report = "complete" =>
        \A cell \in Cells(opts) : \E n \in DOMAIN targets :
            /\ Cell(targets[n]) = cell
            /\ {n} \X (1..Len(Ips(targets[n]))) \X (1..opts.repeat) \subseteq
                  {<<s.target, s.ip, s.attempt>> : s \in DOMAIN answer}

\* A reader of the exit code knows what there is to read: 0 with a report that
\* is whole or nothing started, otherwise no whole report, and 2 only before
\* anything was probed.
ExitCodeTells ==
    /\ exit = 0 => report = "complete" \/ (report = "unwritten" /\ targets = <<>>)
    /\ exit \in {1, 2} => report # "complete"
    /\ exit = 2 => DOMAIN answer = {} /\ targets = <<>>

\* An earlier report in the output file is given up only once there is a new one
\* to write: an invocation that fails before leaves it alone.
EarlierReportKept == file = "truncated" => phase = "closed"

\* Every certificate a reader of the report may ask about has its entry: those
\* the results name, those the verdicts rest on, those the client presents, the
\* fingerprint the results give for it first of all, which is that of the
\* certificate the client's key goes with (engine.go:57-60).  What was learnt from
\* a handshake is not replaced by a bare entry (runner.go:96-121).
EveryFingerprintExplained ==
    stage \in {"redact", "create", "render"} \/ report = "complete" =>
        /\ shown \cup rootCAs \cup ParseCertBundleFromPEM(clientPEM) \subseteq DOMAIN certs
        /\ clientFP # NoCert => clientFP \in DOMAIN certs /\ certs[clientFP] = "client" /\ clientFP = pair.keyOf
        /\ \A c \in shown \ {clientFP} : certs[c] = "server"
        /\ \A c \in DOMAIN certs : certs[c] = "host_ca" => c \in rootCAs

\* No sensitive header is left in the clear in the arguments or the plan.
PlanIsRedacted ==
    report # "unwritten" => cleared \cap {"arguments", "options", "targets"} = {}

-----------------------------------------------------------------------------
\* Liveness.

\* The invocation comes to its end, with an exit code, whatever fails on the way,
\* or it waits for ever in one of two places: for a system command of network
\* discovery, before anything has been planned, or for a proxied attempt.
InvocationEnds ==
    \/ <>(stage = "over")
    \/ <>[](stage = "discover")
    \/ <>[](stage = "probe" /\ Unanswered /\ Proxied(targets[Current.target]))

-----------------------------------------------------------------------------
\* What the repository says of the report and the code does not keep.

\* "Redact sensitive headers before rendering output" (main.go:132): all of the
\* output, the results' targets too.
ReportIsRedacted == report # "unwritten" => cleared = {}
=============================================================================
