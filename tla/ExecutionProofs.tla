-------------------------- MODULE ExecutionProofs --------------------------
(***************************************************************************)
(* What holds of an invocation for every set of options, every resolver,   *)
(* every server and every client pair and bundle: it runs the planner and  *)
(* nothing but the planner, so that all that is proved of PlanBuild holds  *)
(* of it; its report is the whole matrix; its exit code, its output file   *)
(* and its redaction tell the truth about it; and no fingerprint in the    *)
(* report goes unexplained.                                                *)
(***************************************************************************)
EXTENDS Execution, PlanBuildProofs

-----------------------------------------------------------------------------
\* The planner inside the invocation.

\* Only Build moves the planner, and Build makes one of its steps.
LEMMA PlannerSteps == [ExecutionNext]_<<Builder, main>> => [Next]_vars
<1> SUFFICES ASSUME [ExecutionNext]_<<Builder, main>> PROVE [Next]_vars
  OBVIOUS
<1>1. UNCHANGED Builder => UNCHANGED vars
  BY DEF Builder, vars
<1>2. CASE Build
  BY <1>2 DEF Build
<1>3. CASE Probe
  <2>1. UNCHANGED <<opts, pc, next, pending, targets>>
    BY <1>3 DEF Probe, Engine!Answer
  <2> QED
    BY <2>1 DEF vars
<1>4. CASE ProbingEnds
  <2>1. UNCHANGED <<opts, pc, next, pending, targets>>
    BY <1>4 DEF ProbingEnds, Engine!Close, Engine!Refuse
  <2> QED
    BY <2>1 DEF vars
<1>5. CASE \/ ParseArgs \/ Resolve \/ ConfigureEngine \/ DiscoverNetwork \/ BuildEnds
           \/ CollectCerts \/ Redact \/ CreateOutput \/ Render \/ Over
  BY <1>1, <1>5 DEF ParseArgs, Resolve, ConfigureEngine, DiscoverNetwork, BuildEnds,
                    CollectCerts, Redact, CreateOutput, Render, Over
<1>6. CASE UNCHANGED <<Builder, main>>
  BY <1>1, <1>6
<1> QED
  BY <1>2, <1>3, <1>4, <1>5, <1>6 DEF ExecutionNext

\* An invocation is, seen from the planner, a run of the planner that may pause
\* or stop (runner.go:61-72 builds the plan and passes it on unchanged).
THEOREM RunsThePlanner == ExecutionSpec => Spec
<1>1. ExecutionInit => Init
  BY DEF ExecutionInit
<1> QED
  BY <1>1, PlannerSteps, PTL DEF ExecutionSpec, Spec

-----------------------------------------------------------------------------
\* Where an invocation is, and what it has by then.

BeforeDiscovery == {"parse", "resolve", "configure"}
BeforeProbe == BeforeDiscovery \cup {"discover", "build"}
AfterProbe == {"collect", "redact", "create", "render"}
Collected == stage \in AfterProbe \ {"collect"} \/ report = "complete"

\* Nothing is answered before the plan is built, nothing is reported before
\* everything is answered, and what is written or truncated is so only then.
RunInv ==
    /\ stage \in BeforeDiscovery \cup {"discover"} => targets = <<>> /\ pc = "templates"
    /\ stage \in BeforeProbe => DOMAIN answer = {}
    /\ stage \in BeforeProbe \cup {"probe"} => phase = "open"
    /\ stage = "probe" => pc = "built"
    /\ stage \in AfterProbe => phase = "closed"
    /\ phase = "closed" => pc = "built" /\ SlotsOf(targets) \subseteq DOMAIN answer
    /\ stage # "over" => report = "unwritten" /\ exit = Running
    /\ stage \in {"create", "render"} =>
          cleared \cap {"arguments", "options", "targets"} = {}
    /\ report = "complete" => exit = 0 /\ phase = "closed"
    /\ ExitCodeTells /\ EarlierReportKept /\ PlanIsRedacted

\* The engine's pool is the bundle's certificates, its client fingerprint that
\* of the certificate the key goes with, and what was merged stays as merged.
FilesInv ==
    /\ stage \in BeforeDiscovery => rootCAs = {} /\ clientPEM = <<>> /\ clientFP = NoCert
    /\ clientFP # NoCert => clientPEM = pair.pem /\ pair.pem # <<>> /\ clientFP = pair.keyOf
    /\ stage \in {"discover", "build", "probe"} \cup AfterProbe \/ report = "complete" =>
          rootCAs = ParseCertBundleFromPEM(bundle)
    /\ Collected => certs = MergedCerts

-----------------------------------------------------------------------------
\* The course of an invocation.

\* The operators of ProbeMatrix are the planner's own.
LEMMA SameSlots == \A p : Engine!SlotsOf(p) = SlotsOf(p)
<1>1. \A t : Engine!Ips(t) = Ips(t) /\ Engine!Attempts(t) = Attempts(t)
  BY DEF Engine!Ips, Ips, Engine!Attempts, Attempts
<1> QED
  BY <1>1 DEF Engine!SlotsOf, SlotsOf

LEMMA RunInit == ExecutionInit => RunInv
  BY DEF ExecutionInit, Init, RunInv, ExitCodeTells, EarlierReportKept, PlanIsRedacted,
         Running, BeforeDiscovery, BeforeProbe, AfterProbe

LEMMA RunStep == RunInv /\ [ExecutionNext]_<<Builder, main>> => RunInv'
<1> SUFFICES ASSUME RunInv, [ExecutionNext]_<<Builder, main>> PROVE RunInv'
  OBVIOUS
<1> USE DEF RunInv, ExitCodeTells, EarlierReportKept, PlanIsRedacted, Running,
            BeforeDiscovery, BeforeProbe, AfterProbe, Builder, engine
<1>1. CASE ParseArgs
  BY <1>1 DEF ParseArgs, Exit, GoOn
<1>2. CASE Resolve
  BY <1>2 DEF Resolve, Exit, GoOn
<1>3. CASE ConfigureEngine
  BY <1>3 DEF ConfigureEngine, Exit, GoOn
<1>4. CASE DiscoverNetwork
  BY <1>4 DEF DiscoverNetwork, GoOn
<1>5. CASE Build
  BY <1>5 DEF Build, main
<1>6. CASE BuildEnds
  BY <1>6 DEF BuildEnds, Exit, GoOn
<1>7. CASE Probe
  BY <1>7 DEF Probe, Engine!Answer
<1>8. CASE ProbingEnds
  <2>1. CASE Engine!Close /\ GoOn("collect")
    BY <1>8, <2>1, SameSlots DEF ProbingEnds, Engine!Close, GoOn
  <2>2. CASE Engine!Refuse /\ Exit(1)
    BY <1>8, <2>2 DEF ProbingEnds, Engine!Refuse, Exit
  <2> QED
    BY <1>8, <2>1, <2>2 DEF ProbingEnds
<1>9. CASE CollectCerts
  BY <1>9 DEF CollectCerts, GoOn
<1>10. CASE Redact
  BY <1>10 DEF Redact, GoOn
<1>11. CASE CreateOutput
  BY <1>11 DEF CreateOutput, Exit, GoOn
<1>12. CASE Render
  BY <1>12 DEF Render, Exit
<1>13. CASE UNCHANGED <<Builder, main>>
  BY <1>13 DEF main
<1>14. CASE Over
  BY <1>13, <1>14 DEF Over
<1> QED
  BY <1>1, <1>2, <1>3, <1>4, <1>5, <1>6, <1>7, <1>8, <1>9, <1>10, <1>11, <1>12, <1>13,
     <1>14 DEF ExecutionNext

LEMMA RunIsKept == ExecutionSpec => []RunInv
  BY RunInit, RunStep, PTL DEF ExecutionSpec

-----------------------------------------------------------------------------
\* What the readers of a PEM file make of it.

LEMMA BundleCerts ==
    ASSUME NEW f \in File
    PROVE  ParseCertBundleFromPEM(f) \subseteq Cert
<1>1. \A n \in DOMAIN f : f[n] \in Block
  BY DEF File
<1>2. \A n \in DOMAIN f : f[n].holds \in Cert \cup {Malformed}
  BY <1>1 DEF Block
<1> QED
  BY <1>2 DEF ParseCertBundleFromPEM, CertBlocks

\* The certificate whose fingerprint is given out is one of the file's and, if
\* crypto/tls accepts the pair, the one the key goes with.
LEMMA FirstCert ==
    ASSUME NEW f \in File, ParseCertFromPEM(f) # NoCert
    PROVE  /\ f # <<>> /\ ParseCertFromPEM(f) \in Cert
           /\ ParseCertFromPEM(f) \in ParseCertBundleFromPEM(f)
           /\ \A keyOf : IsKeyPair(f, keyOf) => ParseCertFromPEM(f) = keyOf
<1>1. /\ f # <<>> /\ f[1].certificate /\ f[1].holds # Malformed
      /\ ParseCertFromPEM(f) = f[1].holds
  BY DEF ParseCertFromPEM
<1>2. 1 \in CertBlocks(f)
  BY <1>1 DEF CertBlocks, File
<1>3. f[1].holds \in ParseCertBundleFromPEM(f)
  BY <1>1, <1>2 DEF ParseCertBundleFromPEM
<1>4. ASSUME NEW keyOf, IsKeyPair(f, keyOf)
      PROVE  f[1].holds = keyOf
  <2>1. PICK n \in CertBlocks(f) :
           (\A m \in CertBlocks(f) : n <= m) /\ f[n].holds = keyOf
    BY <1>4 DEF IsKeyPair
  <2>2. n \in Nat \ {0} /\ n <= 1
    BY <1>2, <2>1 DEF CertBlocks, File
  <2> QED
    BY <2>1, <2>2
<1> QED
  BY <1>1, <1>3, <1>4, BundleCerts

LEMMA PairFiles ==
    ASSUME NEW p \in ClientPairs \cup {NoPair}
    PROVE  p.pem \in File
<1>1. ClientPairs \subseteq ClientPair
  BY ExecutionAssumption
<1>2. <<>> \in File
  BY DEF File
<1> QED
  BY <1>1, <1>2 DEF ClientPair, NoPair

LEMMA BundleFiles ==
    ASSUME NEW b \in Bundles \cup {<<>>}
    PROVE  b \in File
<1>1. <<>> \in File
  BY DEF File
<1> QED
  BY <1>1, ExecutionAssumption

LEMMA FilesInit == ExecutionInit => FilesInv
  BY DEF ExecutionInit, FilesInv, BeforeDiscovery, AfterProbe, Collected

LEMMA FilesStep ==
    ASSUME ExecutionTypeOK, RunInv, FilesInv, [ExecutionNext]_<<Builder, main>>
    PROVE  FilesInv'
<1> USE DEF FilesInv, BeforeDiscovery, AfterProbe, Collected
<1>0. stage # "over" => report = "unwritten"
  BY DEF RunInv
<1>1. CASE ParseArgs
  BY <1>0, <1>1 DEF ParseArgs, Exit, GoOn, engine
<1>2. CASE Resolve
  BY <1>0, <1>2 DEF Resolve, Exit, GoOn, engine
<1>3. CASE ConfigureEngine
  <2>1. stage = "configure" /\ UNCHANGED <<pair, bundle, report>>
        /\ rootCAs' = ParseCertBundleFromPEM(bundle)
    BY <1>3 DEF ConfigureEngine, AppendCertsFromPEM
  <2>2. clientFP = NoCert /\ clientPEM = <<>> /\ report = "unwritten"
    BY <1>0, <2>1
  <2>3. CASE rootCAs' = {}
    BY <1>3, <2>1, <2>2, <2>3 DEF ConfigureEngine, Exit
  <2>4. CASE rootCAs' # {}
    <3>1. stage' = "discover" /\ SetClientCert
      BY <1>3, <2>4 DEF ConfigureEngine, GoOn
    <3>2. pair.pem \in File
      BY PairFiles DEF ExecutionTypeOK
    <3>3. clientFP' # NoCert =>
             clientPEM' = pair.pem /\ pair.pem # <<>> /\ clientFP' = pair.keyOf
      BY <2>2, <3>1, <3>2, FirstCert DEF SetClientCert
    <3> QED
      BY <2>1, <2>2, <3>1, <3>3
  <2> QED
    BY <2>3, <2>4
<1>4. CASE DiscoverNetwork
  BY <1>0, <1>4 DEF DiscoverNetwork, GoOn, engine
<1>5. CASE Build
  BY <1>0, <1>5 DEF Build, main, engine
<1>6. CASE BuildEnds
  BY <1>0, <1>6 DEF BuildEnds, Exit, GoOn, engine
<1>7. CASE Probe
  BY <1>0, <1>7 DEF Probe, Engine!Answer, engine
<1>8. CASE ProbingEnds
  BY <1>0, <1>8 DEF ProbingEnds, Exit, GoOn, engine
<1>9. CASE CollectCerts
  <2>1. MergedCerts' = MergedCerts
    BY <1>9 DEF CollectCerts, engine, MergedCerts, ClientCertificates
  <2> QED
    BY <1>0, <1>9, <2>1 DEF CollectCerts, GoOn, engine
<1>10. UNCHANGED <<pair, bundle, engine, shown>> => MergedCerts' = MergedCerts
  BY DEF engine, MergedCerts, ClientCertificates
<1>11. CASE Redact
  BY <1>0, <1>10, <1>11 DEF Redact, GoOn, engine
<1>12. CASE CreateOutput
  BY <1>0, <1>10, <1>12 DEF CreateOutput, Exit, GoOn, engine
<1>13. CASE Render
  BY <1>0, <1>10, <1>13 DEF Render, Exit, engine
<1>14. CASE UNCHANGED <<Builder, main>>
  BY <1>10, <1>14 DEF main, engine
<1>15. CASE Over
  BY <1>14, <1>15 DEF Over
<1> QED
  BY <1>1, <1>2, <1>3, <1>4, <1>5, <1>6, <1>7, <1>8, <1>9, <1>11, <1>12, <1>13, <1>14,
     <1>15 DEF ExecutionNext

-----------------------------------------------------------------------------
\* Type correctness.

LEMMA MergedCertsType == MergedCerts \in [DOMAIN MergedCerts -> Sources]
<1> DEFINE client == ParseCertBundleFromPEM(pair.pem)
           S == shown \cup ClientCertificates \cup client \cup ParseCertBundleFromPEM(bundle)
           F(c) == CASE c \in ClientCertificates -> "client"
                     [] c \in shown \ ClientCertificates -> "server"
                     [] c \in client \ (shown \cup ClientCertificates) -> "client"
                     [] OTHER -> "host_ca"
<1>1. \A c : F(c) \in Sources
  BY DEF Sources
<1>2. MergedCerts = [c \in S |-> F(c)]
  BY DEF MergedCerts
<1> HIDE DEF F, S
<1> QED
  BY <1>1, <1>2

LEMMA ExecutionTypeInit == ExecutionInit /\ TypeOK => ExecutionTypeOK
<1> SUFFICES ASSUME ExecutionInit, TypeOK PROVE ExecutionTypeOK
  OBVIOUS
<1>1. /\ DOMAIN answer = {} /\ answer \in [{} -> Verdict]
      /\ DOMAIN certs = {} /\ certs \in [{} -> Sources]
  BY DEF ExecutionInit
<1> QED
  BY <1>1 DEF ExecutionInit, ExecutionTypeOK, Running, NoPair

LEMMA ExecutionTypeStep ==
    ASSUME ExecutionTypeOK, RunInv, FilesInv, TypeOK', [ExecutionNext]_<<Builder, main>>
    PROVE  ExecutionTypeOK'
<1> USE DEF ExecutionTypeOK, Running
<1>1. CASE ParseArgs
  BY <1>1 DEF ParseArgs, Exit, GoOn, Builder, engine
<1>2. CASE Resolve
  <2>1. clientPEM' = <<>>
    BY <1>2 DEF Resolve, engine, FilesInv, BeforeDiscovery
  <2>2. /\ pair' \in ClientPairs \cup {NoPair} /\ bundle' \in Bundles \cup {<<>>}
        /\ clientPEM' \in {pair'.pem, <<>>}
    BY <1>2, <2>1 DEF Resolve
  <2> QED
    BY <1>2, <2>2 DEF Resolve, Exit, GoOn, Builder, engine
<1>3. CASE ConfigureEngine
  <2>1. pair.pem \in File /\ bundle \in File
    BY PairFiles, BundleFiles
  <2>2. rootCAs' \subseteq Cert
    BY <1>3, <2>1, BundleCerts DEF ConfigureEngine, AppendCertsFromPEM
  <2>3. clientPEM' \in {pair'.pem, <<>>} /\ clientFP' \in Cert \cup {NoCert}
    BY <1>3, <2>1, FirstCert DEF ConfigureEngine, SetClientCert
  <2> QED
    BY <1>3, <2>2, <2>3 DEF ConfigureEngine, Exit, GoOn, Builder
<1>4. CASE DiscoverNetwork
  BY <1>4 DEF DiscoverNetwork, GoOn, Builder, engine
<1>5. CASE Build
  <2>1. DOMAIN answer = {}
    BY <1>5 DEF Build, RunInv, BeforeProbe
  <2> QED
    BY <1>5, <2>1 DEF Build, main, engine
<1>6. CASE BuildEnds
  BY <1>6 DEF BuildEnds, Exit, GoOn, Builder, engine
<1>7. CASE Probe
  <2>1. PICK v \in Verdicts :
           /\ Engine!Answer(Current, v)
           /\ \E seen \in SUBSET ServerCert : shown' = shown \cup seen
    BY <1>7 DEF Probe
  <2>2. /\ Current \in SlotsOf(targets)
        /\ answer' = [r \in DOMAIN answer \cup {Current} |->
                         IF r = Current THEN v ELSE answer[r]]
        /\ UNCHANGED <<targets, phase>>
    BY <2>1, SameSlots DEF Engine!Answer
  <2>3. v \in Verdict
    BY ExecutionAssumption
  <2> DEFINE s == Current
  <2> HIDE DEF s
  <2>4. /\ DOMAIN answer' = DOMAIN answer \cup {s} /\ s \in SlotsOf(targets)
        /\ answer' \in [DOMAIN answer' -> Verdict]
    BY <2>2, <2>3 DEF s
  <2>5. DOMAIN answer' \subseteq SlotsOf(targets')
    BY <2>2, <2>4
  <2>6. shown' \subseteq ServerCert
    BY <2>1
  <2> QED
    BY <1>7, <2>2, <2>4, <2>5, <2>6 DEF Probe, engine
<1>8. CASE ProbingEnds
  <2>1. UNCHANGED <<targets, answer>> /\ phase' \in {"closed", "refused"}
    BY <1>8 DEF ProbingEnds, Engine!Close, Engine!Refuse
  <2> QED
    BY <1>8, <2>1 DEF ProbingEnds, Exit, GoOn, engine
<1>9. CASE CollectCerts
  <2>1. certs' \in [DOMAIN certs' -> Sources]
    BY <1>9, MergedCertsType DEF CollectCerts
  <2>2. cleared' \subseteq Parts
    BY <1>9 DEF CollectCerts, Parts
  <2> QED
    BY <1>9, <2>1, <2>2 DEF CollectCerts, GoOn, Builder, engine
<1>10. CASE Redact
  BY <1>10 DEF Redact, GoOn, Builder, engine
<1>11. CASE CreateOutput
  BY <1>11 DEF CreateOutput, Exit, GoOn, Builder, engine
<1>12. CASE Render
  BY <1>12 DEF Render, Exit, Builder, engine
<1>13. CASE UNCHANGED <<Builder, main>>
  BY <1>13 DEF main, Builder, engine
<1>14. CASE Over
  BY <1>13, <1>14 DEF Over
<1> QED
  BY <1>1, <1>2, <1>3, <1>4, <1>5, <1>6, <1>7, <1>8, <1>9, <1>10, <1>11, <1>12, <1>13,
     <1>14 DEF ExecutionNext

LEMMA FilesAreKept == ExecutionSpec => [](ExecutionTypeOK /\ RunInv /\ FilesInv)
<1>1. ExecutionSpec => []TypeOK
  BY RunsThePlanner, TypeCorrect, PTL
<1>2. /\ ExecutionInit /\ TypeOK => ExecutionTypeOK
      /\ ExecutionInit => FilesInv
  BY ExecutionTypeInit, FilesInit
<1>3. ExecutionTypeOK /\ RunInv /\ FilesInv /\ TypeOK' /\ [ExecutionNext]_<<Builder, main>>
         => ExecutionTypeOK' /\ FilesInv'
  BY ExecutionTypeStep, FilesStep
<1> QED
  BY <1>1, <1>2, <1>3, RunIsKept, PTL DEF ExecutionSpec

\* Whatever an invocation is asked for and meets, its state is well typed: the
\* answers are those of the plan's attempts, and it is over exactly when it has
\* an exit code (main.go, runner.go).
THEOREM ExecutionTypeCorrect == ExecutionSpec => []ExecutionTypeOK
  BY FilesAreKept, PTL

-----------------------------------------------------------------------------
\* What an invocation leaves behind.

\* An output file that was there is given up only for a report that can be
\* written (main.go:141-152).
THEOREM EarlierReportSurvives == ExecutionSpec => []EarlierReportKept
<1>1. RunInv => EarlierReportKept
  BY DEF RunInv
<1> QED
  BY <1>1, RunIsKept, PTL

\* The exit code says what there is to read (main.go:59-178).
THEOREM ExitCodesTell == ExecutionSpec => []ExitCodeTells
<1>1. RunInv => ExitCodeTells
  BY DEF RunInv
<1> QED
  BY <1>1, RunIsKept, PTL

\* Arguments and plan are written without their sensitive headers
\* (main.go:132-139).
THEOREM PlanStaysRedacted == ExecutionSpec => []PlanIsRedacted
<1>1. RunInv => PlanIsRedacted
  BY DEF RunInv
<1> QED
  BY <1>1, RunIsKept, PTL

LEMMA FilesExplain == ExecutionTypeOK /\ FilesInv => EveryFingerprintExplained
<1> SUFFICES ASSUME ExecutionTypeOK, FilesInv, Collected
             PROVE  /\ shown \cup rootCAs \cup ParseCertBundleFromPEM(clientPEM)
                          \subseteq DOMAIN certs
                    /\ clientFP # NoCert =>
                          /\ clientFP \in DOMAIN certs /\ certs[clientFP] = "client"
                          /\ clientFP = pair.keyOf
                    /\ \A c \in shown \ {clientFP} : certs[c] = "server"
                    /\ \A c \in DOMAIN certs : certs[c] = "host_ca" => c \in rootCAs
  BY DEF EveryFingerprintExplained, Collected, AfterProbe
<1> DEFINE client == ParseCertBundleFromPEM(pair.pem)
           hostCA == ParseCertBundleFromPEM(bundle)
<1>1. /\ certs = MergedCerts /\ rootCAs = hostCA
      /\ clientFP # NoCert => clientPEM = pair.pem /\ pair.pem # <<>> /\ clientFP = pair.keyOf
  BY DEF FilesInv, Collected
<1>2. ClientCertificates \subseteq {clientFP}
      /\ (clientFP # NoCert => ClientCertificates = {clientFP})
  BY <1>1 DEF ClientCertificates
<1>3. ParseCertBundleFromPEM(clientPEM) \subseteq client
  <2>1. clientPEM \in {pair.pem, <<>>}
    BY DEF ExecutionTypeOK
  <2>2. ParseCertBundleFromPEM(<<>>) = {}
    BY DEF ParseCertBundleFromPEM, CertBlocks
  <2> QED
    BY <2>1, <2>2
<1> HIDE DEF client, hostCA
<1>4. /\ DOMAIN certs = shown \cup ClientCertificates \cup client \cup hostCA
      /\ \A c \in DOMAIN certs : certs[c] =
            CASE c \in ClientCertificates -> "client"
              [] c \in shown \ ClientCertificates -> "server"
              [] c \in client \ (shown \cup ClientCertificates) -> "client"
              [] OTHER -> "host_ca"
  BY <1>1 DEF MergedCerts, client, hostCA
<1>5. \A c \in ClientCertificates : c \in DOMAIN certs /\ certs[c] = "client"
  BY <1>4
<1>6. \A c \in shown \ ClientCertificates : c \in DOMAIN certs /\ certs[c] = "server"
  BY <1>4
<1>7. \A c \in DOMAIN certs : certs[c] = "host_ca" => c \in hostCA
  BY <1>4
<1> QED
  BY <1>1, <1>2, <1>3, <1>4, <1>5, <1>6, <1>7

\* Every certificate the report points to has its entry, under what it is
\* (runner.go:81-123, engine.go:57-60).
THEOREM FingerprintsExplained == ExecutionSpec => []EveryFingerprintExplained
  BY FilesExplain, FilesAreKept, PTL

-----------------------------------------------------------------------------
\* The report and the matrix.

LEMMA ClosedReportIsWhole ==
    ASSUME ExecutionTypeOK, RunInv, PlanIsTheMatrix, RepeatInv
    PROVE  MatrixIsReported
<1> SUFFICES ASSUME report = "complete", NEW cell \in Cells(opts)
             PROVE  \E n \in DOMAIN targets :
                       /\ Cell(targets[n]) = cell
                       /\ {n} \X (1..Len(Ips(targets[n]))) \X (1..opts.repeat) \subseteq
                             {<<s.target, s.ip, s.attempt>> : s \in DOMAIN answer}
  BY DEF MatrixIsReported
<1>1. pc = "built" /\ SlotsOf(targets) \subseteq DOMAIN answer
  BY DEF RunInv
<1>2. {Cell(targets[n]) : n \in DOMAIN targets} = Cells(opts)
  BY <1>1 DEF PlanIsTheMatrix
<1>3. PICK n \in DOMAIN targets : Cell(targets[n]) = cell
  BY <1>2
<1>4. targets[n].repeat = opts.repeat /\ opts.repeat \in Int /\ n \in 1..Len(targets)
  BY OptionsAssumption DEF RepeatInv, Repeated, ExecutionTypeOK, TypeOK, Options
<1>5. 1..opts.repeat \subseteq 1..Attempts(targets[n])
  BY <1>4 DEF Attempts
<1>6. ASSUME NEW i \in 1..Len(Ips(targets[n])), NEW a \in 1..opts.repeat
      PROVE  <<n, i, a>> \in {<<s.target, s.ip, s.attempt>> : s \in DOMAIN answer}
  <2> DEFINE slot == [target |-> n, ip |-> i, attempt |-> a]
  <2>1. slot \in SlotsOf(targets)
    BY <1>4, <1>5 DEF SlotsOf
  <2>2. <<slot.target, slot.ip, slot.attempt>> = <<n, i, a>>
    OBVIOUS
  <2> HIDE DEF slot
  <2> QED
    BY <1>1, <2>1, <2>2
<1>7. {n} \X (1..Len(Ips(targets[n]))) \X (1..opts.repeat) \subseteq
         {<<s.target, s.ip, s.attempt>> : s \in DOMAIN answer}
  BY <1>6
<1> QED
  BY <1>3, <1>7

\* A report that was written to its end answers the whole matrix the user asked
\* for (plan.go:90-161, engine.go:100-138, runner.go:52-130).
THEOREM WholeMatrixIsReported == ExecutionSpec => []MatrixIsReported
<1>1. ExecutionSpec => []PlanIsTheMatrix
  BY RunsThePlanner, PlanCoversTheMatrix, PTL
<1>2. ExecutionSpec => []RepeatInv
  BY RunsThePlanner, RepeatIsKept, PTL
<1> QED
  BY <1>1, <1>2, FilesAreKept, ClosedReportIsWhole, PTL

=============================================================================
