---------------------------- MODULE ProbeEngine ----------------------------
(***************************************************************************)
(* The probe engine: Run walks the plan one attempt at a time; an attempt  *)
(* dials (through an HTTP CONNECT proxy or directly), handshakes, files    *)
(* the certificates it saw and gives its verdict.                          *)
(* internal/probe/engine.go, proxydialer.go, refcerts.go.                  *)
(*                                                                         *)
(* The network, the proxy, the server and the clock are the environment:   *)
(* every dial, CONNECT and handshake may end in any of the ways the code   *)
(* tells apart, and the attempt's deadline may pass at any moment.         *)
(***************************************************************************)
EXTENDS Targets

CONSTANTS
    Plans,         \* the plans Run may be given
    Cert, NoCert,  \* certificates, each standing for its SHA-256 fingerprint
    Key,           \* key pairs
    KeyId, NoKeyId,\* what key identifier extensions carry; NoKeyId when absent
    CommonName,    \* issuer common names
    X509,          \* the fields of each certificate
    Chains,        \* certificate lists a server may present, leaf first
    SystemRoots,   \* the operating system's root certificates
    HostCAPools,   \* host CA bundles SetRootCAs may be given
    ClientPairs,   \* certificate/key pairs SetClientCert may be given
    NoPair,        \* no client pair configured
    ReferenceCA,   \* fingerprints of the reference CAs, by common name
    NoProto        \* no protocol negotiated

\* signer: the key that signed the certificate.  ski, aki: the bytes of its
\* SubjectKeyId and AuthorityKeyId extensions, which whoever made it chose: two
\* keys may carry one identifier, and aki need not be that of the signer.
CertFields ==
    [key: Key, signer: Key, ski: KeyId \cup {NoKeyId}, aki: KeyId \cup {NoKeyId},
     issuerCN: CommonName, names: SUBSET ServerName]

\* usable: the certificate and the key form a pair (tls.X509KeyPair).
\* certFirst: the first PEM block of the certificate file is a CERTIFICATE.
PairFields == [cert: Cert, usable: BOOLEAN, certFirst: BOOLEAN]

RangeOf(s) == {s[n] : n \in 1..Len(s)}

ASSUME PlansAssumption == Plans \subseteq Seq(Target)
ASSUME CertAssumption ==
    /\ NoCert \notin Cert /\ NoKeyId \notin KeyId
    /\ X509 \in [Cert -> CertFields]
    /\ Chains \subseteq Seq(Cert) \ {<<>>}
    /\ SystemRoots \subseteq Cert
    /\ HostCAPools \subseteq SUBSET Cert
    /\ DOMAIN ReferenceCA \subseteq CommonName
    /\ \A cn \in DOMAIN ReferenceCA : ReferenceCA[cn] \in Cert
ASSUME PairAssumption == ClientPairs \subseteq PairFields /\ NoPair \notin ClientPairs
ASSUME ProtoAssumption == NoProto \notin Proto

VARIABLES
    plan,        \* the plan being executed
    hasDialer,   \* whether Engine.Dialer is set
    rootCAs,     \* Engine.RootCAs; {} stands for nil and for an empty pool
    clientPair,  \* Engine.ClientCertPEM and ClientKeyPEM
    clientFP,    \* Engine.clientCertFingerprint
    certs,       \* Engine.certs: fingerprint -> what is recorded of it
    pc,          \* where Run is
    slot,        \* the attempt Run is at
    expired,     \* whether the deadline of the attempt's context has passed
    results      \* the results collected by Run

config == <<plan, hasDialer, rootCAs, clientPair, clientFP>>
vars == <<plan, hasDialer, rootCAs, clientPair, clientFP,
          certs, pc, slot, expired, results>>

\* Where the loops of Run are: target, address, attempt.
At(n, i, a) == [target |-> n, ip |-> i, attempt |-> a]

First == At(1, 1, 1)

CertInfo ==
    [issuer: Cert \cup {NoCert},
     trust: {"none", "mitm_suspected", "matches_reference"}]

\* A Result.  slot is auxiliary: it names the attempt the result answers.
Result ==
    [slot: SlotsOf(plan), target: Target, attempt: Nat \ {0},
     peer: {"none", "target", "proxy"}, clientFP: Cert \cup {NoCert},
     chain: Seq(Cert), proto: Proto \cup {NoProto}, verdict: Verdict]

TypeOK ==
    /\ plan \in Plans
    /\ hasDialer \in BOOLEAN
    /\ rootCAs \in SUBSET Cert
    /\ clientPair \in ClientPairs \cup {NoPair}
    /\ clientFP \in Cert \cup {NoCert}
    /\ DOMAIN certs \subseteq Cert
    /\ certs \in [DOMAIN certs -> CertInfo]
    /\ pc \in {"idle", "attempt", "dial", "connect", "handshake", "sort",
               "done", "refused"}
    /\ pc = "idle" => slot = First
    /\ pc \in {"attempt", "dial", "connect", "handshake"} => slot \in SlotsOf(plan)
    /\ expired \in BOOLEAN
    /\ results \in Seq(Result)

-----------------------------------------------------------------------------
\* The loops of Run.

CurrentTarget == plan[slot.target]

\* Faulty variants of definitions stand before the definition they vary, named
\* "...Fault".  They model plausible mistakes; nothing here uses them, and the
\* runs are required to notice each of them (README, "Mutation").

\* Faulty: the address loop runs one address too far.
AfterOverrunFault(s) ==
    CASE s.attempt < Attempts(plan[s.target]) ->
            At(s.target, s.ip, s.attempt + 1)
      [] s.attempt >= Attempts(plan[s.target]) /\ s.ip <= Len(Ips(plan[s.target])) ->
            At(s.target, s.ip + 1, 1)
      [] OTHER -> At(s.target + 1, 1, 1)

\* Faulty: the attempt counter is not reset for the next address.
AfterNoResetFault(s) ==
    CASE s.attempt < Attempts(plan[s.target]) ->
            At(s.target, s.ip, s.attempt + 1)
      [] s.attempt >= Attempts(plan[s.target]) /\ s.ip < Len(Ips(plan[s.target])) ->
            At(s.target, s.ip + 1, s.attempt)
      [] OTHER -> At(s.target + 1, 1, 1)

\* The attempt after s: the next one on the address, else the first on the
\* target's next address, else the first of the next target.
After(s) ==
    CASE s.attempt < Attempts(plan[s.target]) ->
            At(s.target, s.ip, s.attempt + 1)
      [] s.attempt >= Attempts(plan[s.target]) /\ s.ip < Len(Ips(plan[s.target])) ->
            At(s.target, s.ip + 1, 1)
      [] OTHER -> At(s.target + 1, 1, 1)

\* What every result starts from: probeOnce records the client fingerprint
\* before it dials.
Blank ==
    [slot |-> slot,
     target |-> IpTarget(CurrentTarget, slot.ip),
     attempt |-> slot.attempt,
     peer |-> "none",
     clientFP |-> IF CurrentTarget.useClientCert = "with" THEN clientFP ELSE NoCert,
     chain |-> <<>>,
     proto |-> NoProto,
     verdict |-> Success]

Connected ==
    [Blank EXCEPT !.peer = IF Proxied(CurrentTarget) THEN "proxy" ELSE "target"]

\* probeOnce returns r and the loops of Run move on.
Report(r) ==
    /\ results' = Append(results, r)
    /\ slot' = After(slot)
    /\ pc' = IF After(slot).target <= Len(plan) THEN "attempt" ELSE "sort"
    /\ expired' = FALSE

-----------------------------------------------------------------------------
\* Certificates.

\* fingerprintMap: where in the chain the subject key identifier k is found.  Of
\* several certificates with the same identifier the map keeps the last.
Holder(k, chain) ==
    {n \in 1..Len(chain) :
        /\ k # NoKeyId /\ X509[chain[n]].ski = k
        /\ \A m \in (n + 1)..Len(chain) : X509[chain[m]].ski # k}

\* Identifiers are compared, no signature is.
IssuerIn(c, chain) ==
    IF Holder(X509[c].aki, chain) = {} THEN NoCert
    ELSE chain[CHOOSE n \in Holder(X509[c].aki, chain) : TRUE]

\* Faulty: an issuer that is not in the chain counts as a different one.
CheckMITMSuspicionFault(cn, issuer) ==
    CASE cn \notin DOMAIN ReferenceCA -> "none"
      [] cn \in DOMAIN ReferenceCA /\ issuer # ReferenceCA[cn] -> "mitm_suspected"
      [] OTHER -> "matches_reference"

\* The issuer's name is compared with the reference CAs, then its fingerprint,
\* if there is one.
CheckMITMSuspicion(cn, issuer) ==
    CASE cn \notin DOMAIN ReferenceCA \/ issuer = NoCert -> "none"
      [] cn \in DOMAIN ReferenceCA /\ issuer \notin {NoCert, ReferenceCA[cn]} ->
            "mitm_suspected"
      [] OTHER -> "matches_reference"

ParseCertInfo(c, chain) ==
    [issuer |-> IssuerIn(c, chain),
     trust |-> CheckMITMSuspicion(X509[c].issuerCN, IssuerIn(c, chain))]

\* Faulty: the entry is written anew at every sighting.
CaptureCertificateDetailsFault(chain) ==
    certs' = [c \in DOMAIN certs \cup RangeOf(chain) |->
                 IF c \in RangeOf(chain) THEN ParseCertInfo(c, chain) ELSE certs[c]]

\* A certificate is filed the first time it is seen and left alone after that.
CaptureCertificateDetails(chain) ==
    certs' = [c \in DOMAIN certs \cup RangeOf(chain) |->
                 IF c \in DOMAIN certs THEN certs[c] ELSE ParseCertInfo(c, chain)]

\* x509.Certificate.Verify: the leaf names the server, and signatures lead from
\* it, through the other certificates presented, to a root of the pool.
LedToFromLeaf(chain, S) ==
    /\ chain[1] \in S
    /\ \A c \in S, d \in RangeOf(Tail(chain)) :
          X509[c].signer = X509[d].key => d \in S

X509Verify(chain, roots, sni) ==
    /\ sni \in X509[chain[1]].names
    /\ \A S \in SUBSET RangeOf(chain) :
          LedToFromLeaf(chain, S) =>
             \E c \in S, root \in roots : c = root \/ X509[c].signer = X509[root].key

\* Faulty: without a host CA pool the system store is used.
VerifyPeerCertificateFallbackFault(chain, t) ==
    LET roots == IF t.trust = "host_ca" /\ rootCAs # {} THEN rootCAs ELSE SystemRoots
    IN  IF X509Verify(chain, roots, t.sni) THEN Success ELSE "untrusted_cert"

\* Faulty: a missing host CA pool fails every target.
VerifyPeerCertificateOutageFault(chain, t) ==
    CASE rootCAs = {} -> "host_ca_unavailable"
      [] rootCAs # {} /\ t.trust = "host_ca" ->
            IF X509Verify(chain, rootCAs, t.sni) THEN Success ELSE "untrusted_cert"
      [] OTHER ->
            IF X509Verify(chain, SystemRoots, t.sni) THEN Success ELSE "untrusted_cert"

VerifyPeerCertificate(chain, t) ==
    CASE t.trust = "host_ca" /\ rootCAs = {} -> "host_ca_unavailable"
      [] t.trust = "host_ca" /\ rootCAs # {} ->
            IF X509Verify(chain, rootCAs, t.sni) THEN Success ELSE "untrusted_cert"
      [] OTHER ->
            IF X509Verify(chain, SystemRoots, t.sni) THEN Success ELSE "untrusted_cert"

\* The verdict on a completed handshake: ALPN first, then the certificate.
HandshakeVerdict(chain, proto, t) ==
    IF t.alpns # {} /\ proto \notin t.alpns THEN "alpn_mismatch"
                                            ELSE VerifyPeerCertificate(chain, t)

\* classifyDialError looks at the error itself, never at what it wraps.
ClassifyDialError(timedOut, wrapped) ==
    IF timedOut /\ ~wrapped THEN "timeout" ELSE "proxy_connect_failed"

-----------------------------------------------------------------------------
\* Configuration: main sets the host CA pool, then the client pair, then runs.

Init ==
    /\ plan \in Plans
    /\ hasDialer \in BOOLEAN
    /\ rootCAs = {}
    /\ clientPair = NoPair
    /\ clientFP = NoCert
    /\ certs = [c \in {} |-> 0]
    /\ pc = "idle"
    /\ slot = First
    /\ expired = FALSE
    /\ results = <<>>

SetRootCAs(pool) ==
    /\ pc = "idle" /\ rootCAs = {} /\ clientPair = NoPair
    /\ rootCAs' = pool
    /\ UNCHANGED <<plan, hasDialer, clientPair, clientFP, certs, pc, slot,
                   expired, results>>

\* A pair that is not usable leaves the engine as it was.
SetClientCert(pair) ==
    /\ pc = "idle" /\ clientPair = NoPair
    /\ clientPair' = IF pair.usable THEN pair ELSE clientPair
    /\ clientFP' = IF pair.usable /\ pair.certFirst THEN pair.cert ELSE clientFP
    /\ UNCHANGED <<plan, hasDialer, rootCAs, certs, pc, slot, expired, results>>

Run ==
    /\ pc = "idle"
    /\ pc' = CASE ~hasDialer -> "refused"
               [] hasDialer /\ plan = <<>> -> "sort"
               [] OTHER -> "attempt"
    /\ UNCHANGED <<config, certs, slot, expired, results>>

-----------------------------------------------------------------------------
\* One attempt.

RejectProxyURL ==
    /\ pc = "attempt"
    /\ Proxied(CurrentTarget) /\ CurrentTarget.proxyURL \notin HttpURL
    /\ Report([Blank EXCEPT !.verdict = "proxy_config_error"])
    /\ UNCHANGED <<config, certs>>

StartDial ==
    /\ pc = "attempt"
    /\ Proxied(CurrentTarget) => CurrentTarget.proxyURL \in HttpURL
    /\ pc' = "dial"
    /\ UNCHANGED <<config, certs, slot, expired, results>>

\* Faulty: the dial is made without the attempt's context.
ExpireDialFault ==
    /\ pc \in {"connect", "handshake"}
    /\ ~expired
    /\ expired' = TRUE
    /\ UNCHANGED <<config, certs, pc, slot, results>>

\* Faulty: the handshake is made without the attempt's context.
ExpireHandshakeFault ==
    /\ pc \in {"dial", "connect"}
    /\ ~expired
    /\ expired' = TRUE
    /\ UNCHANGED <<config, certs, pc, slot, results>>

\* The deadline of the attempt's context passes.
Expire ==
    /\ pc \in {"dial", "connect", "handshake"}
    /\ ~expired
    /\ expired' = TRUE
    /\ UNCHANGED <<config, certs, pc, slot, results>>

DialFails(timedOut) ==
    /\ pc = "dial"
    /\ expired => timedOut
    /\ Report([Blank EXCEPT
                 !.verdict = ClassifyDialError(timedOut, Proxied(CurrentTarget))])
    /\ UNCHANGED <<config, certs>>

\* The proxy dialer goes on to write its CONNECT request and wait for the
\* answer.
DialSucceeds ==
    /\ pc = "dial"
    /\ ~expired
    /\ pc' = IF Proxied(CurrentTarget) THEN "connect" ELSE "handshake"
    /\ UNCHANGED <<config, certs, slot, expired, results>>

\* The proxy answers, or closes the connection; the read waits for either
\* whether or not the deadline has passed.
ConnectAccepted ==
    /\ pc = "connect"
    /\ pc' = "handshake"
    /\ UNCHANGED <<config, certs, slot, expired, results>>

ConnectRefused ==
    /\ pc = "connect"
    /\ Report([Blank EXCEPT !.verdict = ClassifyDialError(FALSE, TRUE)])
    /\ UNCHANGED <<config, certs>>

HandshakeSucceeds(chain, proto) ==
    /\ pc = "handshake"
    /\ ~expired
    /\ proto \in CurrentTarget.alpns \cup {NoProto}
    /\ CaptureCertificateDetails(chain)
    /\ Report([Connected EXCEPT
                 !.chain = chain, !.proto = proto,
                 !.verdict = HandshakeVerdict(chain, proto, CurrentTarget)])
    /\ UNCHANGED config

\* Faulty: the certificates of a failed handshake are not filed.
HandshakeFailsFault(chain) ==
    /\ pc = "handshake"
    /\ Report([Connected EXCEPT !.chain = chain, !.verdict = "handshake_failed"])
    /\ UNCHANGED <<config, certs>>

\* The handshake fails, or is cut off, before or after the server's
\* certificates arrive.
HandshakeFails(chain) ==
    /\ pc = "handshake"
    /\ CaptureCertificateDetails(chain)
    /\ Report([Connected EXCEPT !.chain = chain, !.verdict = "handshake_failed"])
    /\ UNCHANGED config

\* The server's no_application_protocol alert comes before its certificates; it
\* is taken for a mismatch whether or not any protocol was offered.
HandshakeRefusesALPN ==
    /\ pc = "handshake"
    /\ ~expired
    /\ Report([Connected EXCEPT !.verdict = "alpn_mismatch"])
    /\ UNCHANGED <<config, certs>>

-----------------------------------------------------------------------------
\* Sorting the results.

\* serviceOrder: services rank as they first appear in the results.
ServiceRank(rs, r) ==
    CHOOSE n \in 1..Len(rs) :
        /\ rs[n].target.service = r.target.service
        /\ \A m \in 1..(n - 1) : rs[m].target.service # r.target.service

\* Faulty: addresses are not compared.
PrecedesFault(rs, a, b) ==
    \/ ServiceRank(rs, a) < ServiceRank(rs, b)
    \/ ServiceRank(rs, a) = ServiceRank(rs, b) /\ a.attempt < b.attempt

Precedes(rs, a, b) ==
    \/ ServiceRank(rs, a) < ServiceRank(rs, b)
    \/ /\ ServiceRank(rs, a) = ServiceRank(rs, b)
       /\ \/ a.target.address < b.target.address
          \/ a.target.address = b.target.address /\ a.attempt < b.attempt

\* Faulty: a result may overwrite another while results are moved.
ReorderingsFault(n) == [1..n -> 1..n]

Reorderings(n) ==
    {p \in [1..n -> 1..n] : \A k \in 1..n : \E i \in 1..n :
                               p[i] = k /\ \A j \in 1..n : p[j] = k => j = i}

\* sort.Slice is not stable: results that compare equal come out in any order.
SortResults ==
    /\ pc = "sort"
    /\ \E p \in Reorderings(Len(results)) :
          /\ results' = [n \in 1..Len(results) |-> results[p[n]]]
          /\ \A i, j \in 1..Len(results) :
                i < j => ~Precedes(results, results'[j], results'[i])
    /\ pc' = "done"
    /\ UNCHANGED <<config, certs, slot, expired>>

Stopped == pc \in {"done", "refused"} /\ UNCHANGED vars

-----------------------------------------------------------------------------
Dial == DialSucceeds \/ \E timedOut \in BOOLEAN : DialFails(timedOut)

Handshake ==
    \/ \E chain \in Chains, proto \in Proto \cup {NoProto} :
          HandshakeSucceeds(chain, proto)
    \/ \E chain \in Chains \cup {<<>>} : HandshakeFails(chain)
    \/ HandshakeRefusesALPN

Connect == ConnectAccepted \/ ConnectRefused

Configure ==
    \/ \E pool \in HostCAPools : SetRootCAs(pool)
    \/ \E pair \in ClientPairs : SetClientCert(pair)

Next ==
    \/ Configure
    \/ Run
    \/ RejectProxyURL \/ StartDial
    \/ Expire
    \/ Dial
    \/ Connect
    \/ Handshake
    \/ SortResults
    \/ Stopped

Spec == Init /\ [][Next]_vars

\* The engine's own goroutine keeps running and time passes, so a dial and a
\* handshake end at the deadline at the latest.  Nothing makes a proxy answer.
Fairness ==
    /\ WF_vars(Run)
    /\ WF_vars(RejectProxyURL) /\ WF_vars(StartDial) /\ WF_vars(SortResults)
    /\ WF_vars(Expire)
    /\ WF_vars(expired /\ Dial)
    /\ WF_vars(expired /\ Handshake)

FairSpec == Spec /\ Fairness

-----------------------------------------------------------------------------
\* The abstract matrix the engine implements: a slot is answered once a result
\* for it has been collected, wherever sorting puts that result.
Answered == {results[n].slot : n \in 1..Len(results)}

ResultOf(s) == results[CHOOSE n \in 1..Len(results) : results[n].slot = s]

AnswerBar == [s \in Answered |-> ResultOf(s).verdict]

PhaseBar ==
    CASE pc = "done" -> "closed"
      [] pc = "refused" -> "refused"
      [] OTHER -> "open"

Matrix == INSTANCE ProbeMatrix WITH answer <- AnswerBar, phase <- PhaseBar

-----------------------------------------------------------------------------
\* The engine implements the abstract matrix: the nested loops of Run over
\* targets, addresses and attempts, and the sort after them, neither skip nor
\* repeat nor lose an attempt, whatever order the verdicts come in.
ImplementsMatrix == Matrix!Spec

\* No attempt is reported twice, a result speaks of the target, the address and
\* the attempt it was made for, and a finished run has answered all of them.
ExactlyOnce ==
    /\ \A m, n \in 1..Len(results) :
          results[m].slot = results[n].slot => m = n
    /\ \A n \in 1..Len(results) :
          LET s == results[n].slot IN
          /\ results[n].attempt = s.attempt
          /\ results[n].target = IpTarget(plan[s.target], s.ip)
    /\ pc = "done" => Answered = SlotsOf(plan)

\* Every fingerprint a reader can follow, from a result's chain or from another
\* certificate's issuer, is on file: the report has no dangling reference,
\* although filing stops at the first sighting and results only name
\* fingerprints.
CertificatesOnFile ==
    /\ \A n \in 1..Len(results) : RangeOf(results[n].chain) \subseteq DOMAIN certs
    /\ \A c \in DOMAIN certs : certs[c].issuer \in DOMAIN certs \cup {NoCert}

\* Later probes never rewrite what is on file for a certificate, nor drop it:
\* results already collected keep meaning what they meant.
FirstSightingKept ==
    [][\A c \in DOMAIN certs : c \in DOMAIN certs' /\ certs'[c] = certs[c]]_vars

\* A success rests on the authority its target names and on no other: the leaf
\* is good for the SNI sent, leads to the pool of that authority, and ALPN was
\* agreed if it was offered.  A host CA probe never passes on system trust.
SuccessIsAnchored ==
    \A n \in 1..Len(results) :
        LET r == results[n]
            pool == IF r.target.trust = "host_ca" THEN rootCAs ELSE SystemRoots
        IN  r.verdict = Success =>
                /\ r.chain # <<>>
                /\ X509Verify(r.chain, pool, r.target.sni)
                /\ r.target.alpns # {} => r.proto \in r.target.alpns
                /\ r.peer # "none"

\* Without a host CA bundle only the host CA probes fail for it, all of those
\* that get as far as a certificate do, and each of them still reports the
\* certificates presented (README.md:121-124).
HostCAOutageContained ==
    \A n \in 1..Len(results) :
        LET r == results[n] IN
        /\ r.verdict = "host_ca_unavailable" =>
              r.target.trust = "host_ca" /\ rootCAs = {} /\ r.chain # <<>>
        /\ rootCAs = {} /\ r.target.trust = "host_ca" =>
              r.verdict \notin {Success, "untrusted_cert"}
        /\ r.verdict = "untrusted_cert" => r.chain # <<>>

\* A certificate marked as suspect came in a chain some result lists, together
\* with the certificate recorded as its issuer: the one of that chain, the last
\* if there are several, that carries the key identifier the suspect asks for.
\* It is not the reference CA of that issuer name.  So a reader can follow each
\* suspicion to what it was made of, although the identifiers are all that was
\* compared: nothing says the recorded issuer signed the suspect.
SuspicionHasEvidence ==
    \A c \in DOMAIN certs :
        certs[c].trust = "mitm_suspected" =>
            /\ X509[c].issuerCN \in DOMAIN ReferenceCA
            /\ certs[c].issuer # ReferenceCA[X509[c].issuerCN]
            /\ \E n \in 1..Len(results) :
                  /\ c \in RangeOf(results[n].chain)
                  /\ \E k \in Holder(X509[c].aki, results[n].chain) :
                        certs[c].issuer = results[n].chain[k]

\* The finished report lists services in the order the plan introduced them,
\* each service's results together, by address and then by attempt.
ReportKeepsPlanOrder ==
    pc = "done" =>
        \A i, j \in 1..Len(results) : i < j =>
            LET a == results[i]
                b == results[j]
                sooner(s, t) == \E m \in 1..Len(plan) :
                    /\ plan[m].service = s
                    /\ \A k \in 1..m : plan[k].service # t
            IN  \/ sooner(a.target.service, b.target.service)
                \/ /\ a.target.service = b.target.service
                   /\ \/ a.target.address < b.target.address
                      \/ /\ a.target.address = b.target.address
                         /\ a.attempt <= b.attempt

\* Without a proxy in the plan the deadline of each attempt ends it, so a run
\* that starts finishes.
NoProxy == \A n \in 1..Len(plan) : ~Proxied(plan[n])
DirectRunEnds == (pc = "attempt" /\ NoProxy) ~> (pc = "done")

\* Through a proxy too, as long as the run is not waiting for a CONNECT answer.
OnlyConnectWaits == (pc # "idle") ~> (pc \in {"done", "refused", "connect"})

-----------------------------------------------------------------------------
\* What the repository says of the engine and the code does not keep.

\* "When the probe engine cannot complete an attempt ... the CLI still emits the
\* plan and annotates each failure" (README.md:107-110): every run ends.
EveryRunEnds == (pc = "attempt") ~> (pc = "done")

\* "issuer_fingerprint - fingerprint of the issuer certificate if present in
\* the chain" (README.md:60): of every chain the certificate came in.
IssuerRecordedIfPresent ==
    \A n \in 1..Len(results) : \A c \in RangeOf(results[n].chain) :
        Holder(X509[c].aki, results[n].chain) # {} => certs[c].issuer # NoCert
=============================================================================
