------------------------- MODULE ProbeEngineProofs -------------------------
(***************************************************************************)
(* Theorems about ProbeEngine, for every plan, certificate set, server     *)
(* behaviour and configuration its assumptions admit.                      *)
(***************************************************************************)
EXTENDS ProbeEngine, TLAPS

-----------------------------------------------------------------------------
\* The attempts of a plan.

\* A target always has an address to probe and an attempt to make there.
LEMMA TargetShape ==
    ASSUME NEW t \in Target
    PROVE  /\ Ips(t) \in Seq(Address) \ {<<>>}
           /\ Len(Ips(t)) \in Nat \ {0}
           /\ Attempts(t) \in Nat \ {0}
           /\ \A i \in 1..Len(Ips(t)) : IpTarget(t, i) \in Target
<1>1. Ips(t) \in Seq(Address) \ {<<>>}
  <2>1. t.overrideIPs \in Seq(Address) /\ t.dnsIPs \in Seq(Address) /\ t.address \in Address
    BY DEF Target
  <2> QED  BY <2>1 DEF Ips
<1>2. Len(Ips(t)) \in Nat \ {0}
  BY <1>1
<1>3. Attempts(t) \in Nat \ {0}
  BY DEF Attempts, Target
<1>4. ASSUME NEW i \in 1..Len(Ips(t)) PROVE IpTarget(t, i) \in Target
  <2>1. Ips(t)[i] \in Address
    BY <1>1
  <2>2. <<>> \in Seq(Address)
    OBVIOUS
  <2> QED  BY <2>1, <2>2 DEF IpTarget, Target
<1> QED  BY <1>1, <1>2, <1>3, <1>4

LEMMA PlanShape ==
    ASSUME NEW p \in Plans
    PROVE  /\ p \in Seq(Target)
           /\ Len(p) \in Nat
           /\ \A n \in 1..Len(p) : p[n] \in Target
BY PlansAssumption

LEMMA SlotShape ==
    ASSUME NEW p \in Plans, NEW s \in SlotsOf(p)
    PROVE  /\ s.target \in 1..Len(p)
           /\ s.ip \in 1..Len(Ips(p[s.target]))
           /\ s.attempt \in 1..Attempts(p[s.target])
           /\ s = [target |-> s.target, ip |-> s.ip, attempt |-> s.attempt]
           /\ s \in [target: Nat, ip: Nat, attempt: Nat]
           /\ s.target \in Nat \ {0} /\ s.ip \in Nat \ {0} /\ s.attempt \in Nat \ {0}
           /\ p[s.target] \in Target
<1>1. PICK n \in 1..Len(p) :
         s \in [target: {n}, ip: 1..Len(Ips(p[n])), attempt: 1..Attempts(p[n])]
  BY DEF SlotsOf
<1>2. s.target = n /\ s.ip \in 1..Len(Ips(p[n])) /\ s.attempt \in 1..Attempts(p[n])
  BY <1>1
<1>3. p[n] \in Target
  BY PlanShape
<1>4. n \in Nat \ {0} /\ Len(Ips(p[n])) \in Nat /\ Attempts(p[n]) \in Nat
  BY PlanShape, TargetShape, <1>3
<1> QED  BY <1>1, <1>2, <1>3, <1>4

LEMMA SlotIntro ==
    ASSUME NEW p \in Plans, NEW n \in 1..Len(p),
           NEW i \in 1..Len(Ips(p[n])), NEW a \in 1..Attempts(p[n])
    PROVE  [target |-> n, ip |-> i, attempt |-> a] \in SlotsOf(p)
<1>1. [target |-> n, ip |-> i, attempt |-> a]
         \in [target: {n}, ip: 1..Len(Ips(p[n])), attempt: 1..Attempts(p[n])]
  OBVIOUS
<1> QED  BY <1>1 DEF SlotsOf

\* The loops start at an attempt of the plan and, until they run off its end,
\* go from one attempt of the plan to another.
LEMMA FirstIsSlot ==
    ASSUME NEW p \in Plans, p # <<>>
    PROVE  First \in SlotsOf(p)
<1>1. 1 \in 1..Len(p)
  BY PlanShape
<1>2. p[1] \in Target
  BY <1>1, PlanShape
<1>3. 1 \in 1..Len(Ips(p[1])) /\ 1 \in 1..Attempts(p[1])
  BY <1>2, TargetShape
<1> QED  BY <1>1, <1>3, SlotIntro DEF First, At

LEMMA AfterIsSlot ==
    ASSUME plan \in Plans, NEW s \in SlotsOf(plan)
    PROVE  /\ After(s).target \in Nat \ {0}
           /\ After(s).target <= Len(plan) => After(s) \in SlotsOf(plan)
<1> DEFINE t == plan[s.target]
<1>1. /\ s.target \in 1..Len(plan) /\ s.ip \in 1..Len(Ips(t))
      /\ s.attempt \in 1..Attempts(t) /\ t \in Target
      /\ s \in [target: Nat, ip: Nat, attempt: Nat]
  BY SlotShape
<1>2. Len(Ips(t)) \in Nat \ {0} /\ Attempts(t) \in Nat \ {0} /\ Len(plan) \in Nat
  BY <1>1, TargetShape, PlanShape
<1>3. CASE s.attempt < Attempts(t)
  <2>1. After(s) = [target |-> s.target, ip |-> s.ip, attempt |-> s.attempt + 1]
    BY <1>1, <1>2, <1>3 DEF After, At
  <2>2. s.attempt + 1 \in 1..Attempts(t)
    BY <1>1, <1>2, <1>3
  <2> QED  BY <2>1, <2>2, <1>1, <1>2, SlotIntro
<1>4. CASE s.attempt >= Attempts(t) /\ s.ip < Len(Ips(t))
  <2>1. After(s) = [target |-> s.target, ip |-> s.ip + 1, attempt |-> 1]
    BY <1>1, <1>2, <1>4 DEF After, At
  <2>2. s.ip + 1 \in 1..Len(Ips(t)) /\ 1 \in 1..Attempts(t)
    BY <1>1, <1>2, <1>4
  <2> QED  BY <2>1, <2>2, <1>1, <1>2, SlotIntro
<1>5. CASE s.attempt >= Attempts(t) /\ s.ip >= Len(Ips(t))
  <2>1. After(s) = [target |-> s.target + 1, ip |-> 1, attempt |-> 1]
    BY <1>1, <1>2, <1>5 DEF After, At
  <2>2. s.target + 1 \in Nat \ {0}
    BY <1>1
  <2>3. ASSUME s.target + 1 <= Len(plan)
        PROVE  After(s) \in SlotsOf(plan)
    <3>1. s.target + 1 \in 1..Len(plan) /\ plan[s.target + 1] \in Target
      BY <1>1, <1>2, <2>3, PlanShape
    <3>2. 1 \in 1..Len(Ips(plan[s.target + 1])) /\ 1 \in 1..Attempts(plan[s.target + 1])
      BY <3>1, TargetShape
    <3> QED  BY <3>1, <3>2, <2>1, SlotIntro
  <2> QED  BY <2>1, <2>2, <2>3
<1> QED  BY <1>1, <1>2, <1>3, <1>4, <1>5

-----------------------------------------------------------------------------
\* What one attempt files and reports.

LEMMA RangeType ==
    ASSUME NEW S, NEW q \in Seq(S)
    PROVE  RangeOf(q) \subseteq S
BY DEF RangeOf

\* An issuer is looked up among the certificates of the same chain.
LEMMA IssuerInChain ==
    ASSUME NEW chain \in Seq(Cert), NEW c \in Cert
    PROVE  IssuerIn(c, chain) \in RangeOf(chain) \cup {NoCert}
<1>1. CASE Holder(X509[c].aki, chain) = {}
  BY <1>1 DEF IssuerIn
<1>2. CASE Holder(X509[c].aki, chain) # {}
  <2>1. PICK n \in Holder(X509[c].aki, chain) : IssuerIn(c, chain) = chain[n]
    BY <1>2 DEF IssuerIn
  <2>2. n \in 1..Len(chain)
    BY <2>1 DEF Holder
  <2> QED  BY <2>1, <2>2 DEF RangeOf
<1> QED  BY <1>1, <1>2

LEMMA CertInfoType ==
    ASSUME NEW chain \in Seq(Cert), NEW c \in Cert
    PROVE  ParseCertInfo(c, chain) \in CertInfo
<1>1. IssuerIn(c, chain) \in Cert \cup {NoCert}
  BY IssuerInChain, RangeType
<1>2. CheckMITMSuspicion(X509[c].issuerCN, IssuerIn(c, chain))
        \in {"none", "mitm_suspected", "matches_reference"}
  BY DEF CheckMITMSuspicion
<1> QED  BY <1>1, <1>2 DEF ParseCertInfo, CertInfo

\* Filing a chain adds entries for the certificates that had none and touches no
\* other.
LEMMA CaptureEffect ==
    ASSUME DOMAIN certs \subseteq Cert, certs \in [DOMAIN certs -> CertInfo],
           NEW chain \in Seq(Cert), CaptureCertificateDetails(chain)
    PROVE  /\ DOMAIN certs' = DOMAIN certs \cup RangeOf(chain)
           /\ DOMAIN certs' \subseteq Cert
           /\ certs' \in [DOMAIN certs' -> CertInfo]
           /\ \A c \in DOMAIN certs : certs'[c] = certs[c]
           /\ \A c \in RangeOf(chain) \ DOMAIN certs :
                 certs'[c] = ParseCertInfo(c, chain)
<1>1. DOMAIN certs' = DOMAIN certs \cup RangeOf(chain)
  BY DEF CaptureCertificateDetails
<1>2. RangeOf(chain) \subseteq Cert
  BY RangeType
<1>3. \A c \in DOMAIN certs : certs'[c] = certs[c]
  BY DEF CaptureCertificateDetails
<1>4. \A c \in RangeOf(chain) \ DOMAIN certs : certs'[c] = ParseCertInfo(c, chain)
  BY DEF CaptureCertificateDetails
<1>5. \A c \in DOMAIN certs' : certs'[c] \in CertInfo
  BY <1>1, <1>2, <1>3, <1>4, CertInfoType
<1>6. certs' = [c \in DOMAIN certs' |-> certs'[c]]
  BY <1>1 DEF CaptureCertificateDetails
<1>7. certs' \in [DOMAIN certs' -> CertInfo]
  BY <1>5, <1>6
<1> QED  BY <1>1, <1>2, <1>3, <1>4, <1>7

LEMMA BlankType ==
    ASSUME TypeOK, slot \in SlotsOf(plan)
    PROVE  Blank \in Result /\ Connected \in Result
<1>1. /\ slot.target \in 1..Len(plan) /\ slot.ip \in 1..Len(Ips(CurrentTarget))
      /\ slot.attempt \in Nat \ {0} /\ CurrentTarget \in Target
  BY SlotShape DEF TypeOK, CurrentTarget
<1>2. IpTarget(CurrentTarget, slot.ip) \in Target
  BY <1>1, TargetShape
<1>3. (IF CurrentTarget.useClientCert = "with" THEN clientFP ELSE NoCert)
        \in Cert \cup {NoCert}
  BY DEF TypeOK
<1>4. <<>> \in Seq(Cert)
  OBVIOUS
<1>5. Success \in Verdict
  BY DEF Verdict
<1>6. Blank \in Result
  BY <1>1, <1>2, <1>3, <1>4, <1>5 DEF Blank, Result
<1>7. Connected \in Result
  BY <1>6 DEF Connected, Result
<1> QED  BY <1>6, <1>7

LEMMA VerdictType ==
    ASSUME NEW chain, NEW proto, NEW t
    PROVE  HandshakeVerdict(chain, proto, t)
             \in {Success, "alpn_mismatch", "untrusted_cert", "host_ca_unavailable"}
<1>1. VerifyPeerCertificate(chain, t) \in {Success, "untrusted_cert", "host_ca_unavailable"}
  <2>1. CASE t.trust = "host_ca" /\ rootCAs = {}
    BY <2>1 DEF VerifyPeerCertificate
  <2>2. CASE t.trust = "host_ca" /\ rootCAs # {}
    BY <2>2 DEF VerifyPeerCertificate
  <2>3. CASE t.trust # "host_ca"
    BY <2>3 DEF VerifyPeerCertificate
  <2> QED  BY <2>1, <2>2, <2>3
<1> QED  BY <1>1 DEF HandshakeVerdict

\* Reporting a result keeps the loop variables within their types.
LEMMA ReportType ==
    ASSUME TypeOK, slot \in SlotsOf(plan), plan' = plan,
           NEW r \in Result, Report(r)
    PROVE  /\ results' \in Seq(Result')
           /\ pc' \in {"attempt", "sort"}
           /\ pc' = "attempt" => slot' \in SlotsOf(plan')
           /\ expired' \in BOOLEAN
           /\ Len(results') = Len(results) + 1
           /\ results'[Len(results')] = r
           /\ \A n \in 1..Len(results) : results'[n] = results[n]
<1>1. results \in Seq(Result) /\ results' = Append(results, r)
  BY DEF TypeOK, Report
<1>2. results' \in Seq(Result)
  BY <1>1
<1>3. Result' = Result
  BY DEF Result
<1>4. pc' \in {"attempt", "sort"} /\ expired' \in BOOLEAN
  BY DEF Report
<1>5. pc' = "attempt" => slot' \in SlotsOf(plan')
  BY AfterIsSlot DEF Report, TypeOK
<1>6. /\ Len(results') = Len(results) + 1
      /\ results'[Len(results')] = r
      /\ \A n \in 1..Len(results) : results'[n] = results[n]
  BY <1>1
<1> QED  BY <1>2, <1>3, <1>4, <1>5, <1>6

-----------------------------------------------------------------------------
\* The steps, by what they do to the results.

\* The attempt in progress ends with result r; the certificates of r's chain,
\* if it has one, are filed.
Ends(r) ==
    /\ pc \in {"attempt", "dial", "connect", "handshake"}
    /\ r \in Result
    /\ r.slot = slot
    /\ r.target = IpTarget(CurrentTarget, slot.ip)
    /\ r.attempt = slot.attempt
    /\ Report(r)
    /\ \/ r.chain = <<>> /\ certs' = certs
       \/ CaptureCertificateDetails(r.chain)
    /\ UNCHANGED config

\* r's verdict is a failure, or the one a completed handshake of this target
\* deserves; before the dial it can only be that the proxy's URL is refused.
Judged(r) ==
    \/ /\ r.verdict \in {"proxy_connect_failed", "timeout", "handshake_failed"}
       /\ pc # "attempt"
    \/ /\ r.verdict = "proxy_config_error"
       /\ Proxied(CurrentTarget) /\ CurrentTarget.proxyURL \notin HttpURL
    \/ r.verdict = "alpn_mismatch" /\ pc # "attempt"
    \/ /\ r.verdict = HandshakeVerdict(r.chain, r.proto, CurrentTarget)
       /\ pc # "attempt"
       /\ r.chain \in Chains
       /\ r.peer # "none"

LEMMA EndingSteps ==
    ASSUME TypeOK, RejectProxyURL \/ Dial \/ Connect \/ Handshake
    PROVE  \/ /\ UNCHANGED <<config, certs, slot, expired, results>>
              /\ pc \in {"dial", "connect"} /\ pc' \in {"connect", "handshake"}
           \/ \E r \in Result : Ends(r) /\ Judged(r)
<1> DEFINE Live == pc \in {"attempt", "dial", "connect", "handshake"}
<1>1. ASSUME Live PROVE Blank \in Result /\ Connected \in Result
  BY <1>1, BlankType DEF TypeOK
<1>2. /\ Blank.slot = slot /\ Blank.attempt = slot.attempt /\ Blank.chain = <<>>
      /\ Blank.target = IpTarget(CurrentTarget, slot.ip)
  BY DEF Blank
<1>3. ASSUME Live
      PROVE  /\ Connected.slot = slot /\ Connected.attempt = slot.attempt
             /\ Connected.target = IpTarget(CurrentTarget, slot.ip)
             /\ Connected.peer # "none" /\ Connected.chain = <<>>
  BY <1>1, <1>2, <1>3 DEF Connected, Result
<1>4. CASE RejectProxyURL
  <2> DEFINE r == [Blank EXCEPT !.verdict = "proxy_config_error"]
  <2>1. Live /\ Report(r) /\ UNCHANGED <<config, certs>>
    BY <1>4 DEF RejectProxyURL
  <2>2. r \in Result /\ r.verdict = "proxy_config_error"
    BY <1>1, <2>1 DEF Result, Verdict, FailureKind
  <2>3. r.slot = slot /\ r.attempt = slot.attempt /\ r.chain = <<>>
        /\ r.target = IpTarget(CurrentTarget, slot.ip)
    BY <1>1, <1>2, <2>1 DEF Result
  <2>4. Ends(r)
    BY <2>1, <2>2, <2>3 DEF Ends
  <2>5. Judged(r)
    BY <1>4, <2>2 DEF Judged, RejectProxyURL
  <2> QED  BY <2>2, <2>4, <2>5
<1>5. CASE DialSucceeds \/ ConnectAccepted
  BY <1>5 DEF DialSucceeds, ConnectAccepted
<1>6. ASSUME NEW timedOut \in BOOLEAN, DialFails(timedOut)
      PROVE  \E r \in Result : Ends(r) /\ Judged(r)
  <2> DEFINE v == ClassifyDialError(timedOut, Proxied(CurrentTarget))
             r == [Blank EXCEPT !.verdict = v]
  <2>1. Live /\ pc # "attempt" /\ Report(r) /\ UNCHANGED <<config, certs>>
    BY <1>6 DEF DialFails
  <2>2. v \in {"proxy_connect_failed", "timeout"}
    BY DEF ClassifyDialError
  <2> HIDE DEF v
  <2>3. r \in Result /\ r.verdict = v
    BY <1>1, <2>1, <2>2 DEF Result, Verdict, FailureKind
  <2>4. r.slot = slot /\ r.attempt = slot.attempt /\ r.chain = <<>>
        /\ r.target = IpTarget(CurrentTarget, slot.ip)
    BY <1>1, <1>2, <2>1 DEF Result
  <2>5. Ends(r) /\ Judged(r)
    BY <2>1, <2>2, <2>3, <2>4 DEF Ends, Judged
  <2> QED  BY <2>3, <2>5
<1>7. CASE ConnectRefused
  <2> DEFINE v == ClassifyDialError(FALSE, TRUE)
             r == [Blank EXCEPT !.verdict = v]
  <2>1. Live /\ pc # "attempt" /\ Report(r) /\ UNCHANGED <<config, certs>>
    BY <1>7 DEF ConnectRefused
  <2>2. v = "proxy_connect_failed"
    BY DEF ClassifyDialError
  <2> HIDE DEF v
  <2>3. r \in Result /\ r.verdict = v
    BY <1>1, <2>1, <2>2 DEF Result, Verdict, FailureKind
  <2>4. r.slot = slot /\ r.attempt = slot.attempt /\ r.chain = <<>>
        /\ r.target = IpTarget(CurrentTarget, slot.ip)
    BY <1>1, <1>2, <2>1 DEF Result
  <2>5. Ends(r) /\ Judged(r)
    BY <2>1, <2>2, <2>3, <2>4 DEF Ends, Judged
  <2> QED  BY <2>3, <2>5
<1>8. ASSUME NEW chain \in Chains, NEW proto \in Proto \cup {NoProto},
             HandshakeSucceeds(chain, proto)
      PROVE  \E r \in Result : Ends(r) /\ Judged(r)
  <2> DEFINE v == HandshakeVerdict(chain, proto, CurrentTarget)
             r == [Connected EXCEPT !.chain = chain, !.proto = proto, !.verdict = v]
  <2>1. Live /\ pc # "attempt" /\ Report(r) /\ UNCHANGED config /\ CaptureCertificateDetails(chain)
    BY <1>8 DEF HandshakeSucceeds
  <2>2. v \in Verdict
    BY VerdictType DEF Verdict, FailureKind
  <2>3. chain \in Seq(Cert)
    BY CertAssumption
  <2> HIDE DEF v
  <2>4. r \in Result /\ r.verdict = v /\ r.chain = chain /\ r.proto = proto
    BY <1>1, <2>1, <2>2, <2>3 DEF Result
  <2>5. r.slot = slot /\ r.attempt = slot.attempt /\ r.peer # "none"
        /\ r.target = IpTarget(CurrentTarget, slot.ip)
    BY <1>1, <1>3, <2>1 DEF Result
  <2>6. Ends(r)
    BY <2>1, <2>4, <2>5 DEF Ends
  <2>7. Judged(r)
    BY <2>1, <2>4, <2>5 DEF Judged, v
  <2> QED  BY <2>4, <2>6, <2>7
<1>9. ASSUME NEW chain \in Chains \cup {<<>>}, HandshakeFails(chain)
      PROVE  \E r \in Result : Ends(r) /\ Judged(r)
  <2> DEFINE r == [Connected EXCEPT !.chain = chain, !.verdict = "handshake_failed"]
  <2>1. Live /\ pc # "attempt" /\ Report(r) /\ UNCHANGED config /\ CaptureCertificateDetails(chain)
    BY <1>9 DEF HandshakeFails
  <2>2. chain \in Seq(Cert)
    <3>1. <<>> \in Seq(Cert)
      OBVIOUS
    <3> QED  BY <3>1, CertAssumption
  <2>3. r \in Result /\ r.verdict = "handshake_failed" /\ r.chain = chain
    BY <1>1, <2>1, <2>2 DEF Result, Verdict, FailureKind
  <2>4. r.slot = slot /\ r.attempt = slot.attempt
        /\ r.target = IpTarget(CurrentTarget, slot.ip)
    BY <1>1, <1>3, <2>1 DEF Result
  <2>5. Ends(r) /\ Judged(r)
    BY <2>1, <2>3, <2>4 DEF Ends, Judged
  <2> QED  BY <2>3, <2>5
<1>10. CASE HandshakeRefusesALPN
  <2> DEFINE r == [Connected EXCEPT !.verdict = "alpn_mismatch"]
  <2>1. Live /\ pc # "attempt" /\ Report(r) /\ UNCHANGED <<config, certs>>
    BY <1>10 DEF HandshakeRefusesALPN
  <2>2. r \in Result /\ r.verdict = "alpn_mismatch"
    BY <1>1, <2>1 DEF Result, Verdict, FailureKind
  <2>3. r.slot = slot /\ r.attempt = slot.attempt /\ r.chain = <<>>
        /\ r.target = IpTarget(CurrentTarget, slot.ip)
    BY <1>1, <1>3, <2>1 DEF Result
  <2>4. Ends(r) /\ Judged(r)
    BY <2>1, <2>2, <2>3 DEF Ends, Judged
  <2> QED  BY <2>2, <2>4
<1> QED  BY <1>4, <1>5, <1>6, <1>7, <1>8, <1>9, <1>10 DEF Dial, Connect, Handshake

-----------------------------------------------------------------------------
\* Type correctness.

\* What the sort may do: reorder.
LEMMA SortEffect ==
    ASSUME TypeOK, SortResults
    PROVE  /\ results' \in Seq(Result)
           /\ Len(results') = Len(results)
           /\ \E p \in Reorderings(Len(results)) :
                 \A n \in 1..Len(results) : results'[n] = results[p[n]]
<1>1. PICK p \in Reorderings(Len(results)) :
         results' = [n \in 1..Len(results) |-> results[p[n]]]
  BY DEF SortResults
<1>2. results \in Seq(Result) /\ Len(results) \in Nat
  BY DEF TypeOK
<1>3. p \in [1..Len(results) -> 1..Len(results)]
  BY DEF Reorderings
<1>4. \A n \in 1..Len(results) : results[p[n]] \in Result
  BY <1>2, <1>3
<1>5. results' \in [1..Len(results) -> Result]
  BY <1>1, <1>4
<1>6. results' \in Seq(Result)
  BY <1>2, <1>5
<1>7. Len(results') = Len(results)
  BY <1>2, <1>5, <1>6
<1>8. \A n \in 1..Len(results) : results'[n] = results[p[n]]
  BY <1>1
<1> QED  BY <1>6, <1>7, <1>8

LEMMA TypeInit == Init => TypeOK
<1> SUFFICES ASSUME Init PROVE TypeOK
  OBVIOUS
<1>1. results \in Seq(Result)
  BY DEF Init
<1>2. DOMAIN certs \subseteq Cert /\ certs \in [DOMAIN certs -> CertInfo]
  BY DEF Init
<1> QED  BY <1>1, <1>2 DEF Init, TypeOK

LEMMA TypeStep == TypeOK /\ [Next]_vars => TypeOK'
<1> SUFFICES ASSUME TypeOK, [Next]_vars PROVE TypeOK'
  OBVIOUS
<1>1. plan' = plan => Result' = Result
  BY DEF Result
<1>2. ASSUME NEW pool \in HostCAPools, SetRootCAs(pool) PROVE TypeOK'
  <2>1. pool \in SUBSET Cert
    BY CertAssumption
  <2> QED  BY <1>1, <1>2, <2>1 DEF SetRootCAs, TypeOK
<1>3. ASSUME NEW pair \in ClientPairs, SetClientCert(pair) PROVE TypeOK'
  <2>1. pair.cert \in Cert
    BY PairAssumption DEF PairFields
  <2>2. clientPair' \in ClientPairs \cup {NoPair} /\ clientFP' \in Cert \cup {NoCert}
    BY <1>3, <2>1 DEF SetClientCert, TypeOK
  <2>3. pc' = "idle"
    BY <1>3 DEF SetClientCert
  <2> QED  BY <1>1, <1>3, <2>2, <2>3 DEF SetClientCert, TypeOK
<1>4. CASE Run
  <2>1. pc' \in {"refused", "sort", "attempt"} /\ (pc' = "attempt" => plan # <<>>)
    BY <1>4 DEF Run
  <2>2. UNCHANGED <<config, certs, slot, expired, results>>
    BY <1>4 DEF Run
  <2>3. pc' = "attempt" => slot' \in SlotsOf(plan')
    <3>1. slot = First
      BY <1>4 DEF TypeOK, Run
    <3> QED  BY <2>1, <2>2, <3>1, FirstIsSlot DEF TypeOK, config
  <2> QED  BY <1>1, <2>1, <2>2, <2>3 DEF TypeOK, config
<1>5. CASE RejectProxyURL \/ Dial \/ Connect \/ Handshake
  <2>1. ASSUME UNCHANGED <<config, certs, slot, expired, results>>,
               pc \in {"dial", "connect"}, pc' \in {"connect", "handshake"}
        PROVE  TypeOK'
    BY <1>1, <2>1 DEF TypeOK, config
  <2>2. ASSUME NEW r \in Result, Ends(r) PROVE TypeOK'
    <3>1. UNCHANGED config /\ Report(r) /\ slot \in SlotsOf(plan) /\ r.chain \in Seq(Cert)
      BY <2>2 DEF Ends, TypeOK, Result
    <3>2. /\ results' \in Seq(Result') /\ pc' \in {"attempt", "sort"}
          /\ pc' = "attempt" => slot' \in SlotsOf(plan')
          /\ expired' \in BOOLEAN
      BY <3>1, ReportType DEF config
    <3>3. DOMAIN certs' \subseteq Cert /\ certs' \in [DOMAIN certs' -> CertInfo]
      BY <2>2, <3>1, CaptureEffect DEF Ends, TypeOK
    <3> QED  BY <3>1, <3>2, <3>3 DEF TypeOK, config
  <2> QED  BY <1>5, <2>1, <2>2, EndingSteps
<1>6. CASE StartDial
  BY <1>1, <1>6 DEF StartDial, TypeOK, config
<1>7. CASE Expire
  BY <1>1, <1>7 DEF Expire, TypeOK, config
<1>8. CASE SortResults
  <2>1. results' \in Seq(Result)
    BY <1>8, SortEffect
  <2> QED  BY <1>1, <1>8, <2>1 DEF SortResults, TypeOK, config
<1>9. CASE UNCHANGED vars
  BY <1>1, <1>9 DEF vars, TypeOK
<1> QED  BY <1>2, <1>3, <1>4, <1>5, <1>6, <1>7, <1>8, <1>9
         DEF Next, Configure, Stopped

\* Every variable keeps to its type; in particular the loop variables always
\* name an attempt of the plan while an attempt is in progress.
THEOREM TypeCorrect == Spec => []TypeOK
<1>1. Init => TypeOK
  BY TypeInit
<1>2. TypeOK /\ [Next]_vars => TypeOK'
  BY TypeStep
<1> QED  BY <1>1, <1>2, PTL DEF Spec

-----------------------------------------------------------------------------
\* The certificates on file.

\* Results and certificates change only when an attempt ends or when the results
\* are sorted, and the configuration only before the run.
LEMMA StepShape ==
    ASSUME TypeOK, [Next]_vars
    PROVE  \/ /\ UNCHANGED <<results, certs>>
              /\ pc = "idle" \/ UNCHANGED config
              /\ pc' = "idle" => pc = "idle"
           \/ \E r \in Result : Ends(r) /\ Judged(r)
           \/ SortResults
<1>1. ASSUME NEW pool \in HostCAPools, SetRootCAs(pool)
      PROVE  UNCHANGED <<results, certs>> /\ pc = "idle"
  BY <1>1 DEF SetRootCAs
<1>2. ASSUME NEW pair \in ClientPairs, SetClientCert(pair)
      PROVE  UNCHANGED <<results, certs>> /\ pc = "idle"
  BY <1>2 DEF SetClientCert
<1>3. CASE Run \/ StartDial \/ Expire
  BY <1>3 DEF Run, StartDial, Expire, config
<1>4. CASE RejectProxyURL \/ Dial \/ Connect \/ Handshake
  <2>1. ASSUME UNCHANGED <<config, certs, slot, expired, results>>,
               pc \in {"dial", "connect"}, pc' \in {"connect", "handshake"}
        PROVE  UNCHANGED <<results, certs>> /\ UNCHANGED config /\ pc' # "idle"
    BY <2>1
  <2> QED  BY <1>4, <2>1, EndingSteps
<1>5. CASE UNCHANGED vars
  BY <1>5 DEF vars, config
<1> QED  BY <1>1, <1>2, <1>3, <1>4, <1>5 DEF Next, Configure, Stopped

\* Once filed, an entry stays as it is.
LEMMA FrozenStep ==
    ASSUME TypeOK, [Next]_vars
    PROVE  \A c \in DOMAIN certs : c \in DOMAIN certs' /\ certs'[c] = certs[c]
<1>1. CASE certs' = certs
  BY <1>1
<1>2. ASSUME NEW r \in Result, Ends(r), certs' # certs
      PROVE  \A c \in DOMAIN certs : c \in DOMAIN certs' /\ certs'[c] = certs[c]
  <2>1. r.chain \in Seq(Cert) /\ CaptureCertificateDetails(r.chain)
    BY <1>2 DEF Ends, Result
  <2> QED  BY <2>1, CaptureEffect DEF TypeOK
<1>3. CASE SortResults
  BY <1>3 DEF SortResults
<1> QED  BY <1>1, <1>2, <1>3, StepShape

\* What the report says of a certificate never changes once it has said it.
THEOREM FirstSightingIsKept == Spec => FirstSightingKept
<1>1. TypeOK /\ [Next]_vars =>
        [\A c \in DOMAIN certs : c \in DOMAIN certs' /\ certs'[c] = certs[c]]_vars
  BY FrozenStep
<1> QED  BY <1>1, TypeCorrect, PTL DEF Spec, FirstSightingKept

LEMMA OnFileInit == Init => CertificatesOnFile
BY DEF Init, CertificatesOnFile

LEMMA OnFileStep == TypeOK /\ CertificatesOnFile /\ [Next]_vars => CertificatesOnFile'
<1> SUFFICES ASSUME TypeOK, CertificatesOnFile, [Next]_vars
             PROVE  CertificatesOnFile'
  OBVIOUS
<1>0. results \in Seq(Result) /\ Len(results) \in Nat
  BY DEF TypeOK
<1>1. CASE UNCHANGED <<results, certs>>
  BY <1>1 DEF CertificatesOnFile
<1>2. ASSUME NEW r \in Result, Ends(r) PROVE CertificatesOnFile'
  <2>1. slot \in SlotsOf(plan) /\ Report(r) /\ UNCHANGED config /\ r.chain \in Seq(Cert)
    BY <1>2 DEF Ends, TypeOK, Result
  <2>2. /\ Len(results') = Len(results) + 1
        /\ results'[Len(results')] = r
        /\ \A n \in 1..Len(results) : results'[n] = results[n]
    BY <2>1, ReportType DEF config
  <2>3. /\ DOMAIN certs' = DOMAIN certs \cup RangeOf(r.chain)
        /\ \A c \in DOMAIN certs : certs'[c] = certs[c]
        /\ \A c \in RangeOf(r.chain) \ DOMAIN certs :
              certs'[c] = ParseCertInfo(c, r.chain)
    <3>1. CASE r.chain = <<>> /\ certs' = certs
      <4>1. RangeOf(<<>>) = {}
        BY DEF RangeOf
      <4> QED  BY <3>1, <4>1
    <3>2. CASE CaptureCertificateDetails(r.chain)
      BY <2>1, <3>2, CaptureEffect DEF TypeOK
    <3> QED  BY <1>2, <3>1, <3>2 DEF Ends
  <2>4. ASSUME NEW n \in 1..Len(results')
        PROVE  RangeOf(results'[n].chain) \subseteq DOMAIN certs'
    <3>1. CASE n \in 1..Len(results)
      BY <2>2, <2>3, <3>1 DEF CertificatesOnFile
    <3>2. CASE n = Len(results')
      BY <2>2, <2>3, <3>2
    <3> QED  BY <1>0, <2>2, <3>1, <3>2
  <2>5. ASSUME NEW c \in DOMAIN certs'
        PROVE  certs'[c].issuer \in DOMAIN certs' \cup {NoCert}
    <3>1. CASE c \in DOMAIN certs
      BY <2>3, <3>1 DEF CertificatesOnFile
    <3>2. CASE c \in RangeOf(r.chain) \ DOMAIN certs
      <4>1. c \in Cert
        BY <2>1, <3>2, RangeType
      <4>2. certs'[c].issuer = IssuerIn(c, r.chain)
        BY <2>3, <3>2 DEF ParseCertInfo
      <4> QED  BY <2>1, <2>3, <4>1, <4>2, IssuerInChain
    <3> QED  BY <2>3, <3>1, <3>2
  <2> QED  BY <2>4, <2>5 DEF CertificatesOnFile
<1>3. CASE SortResults
  <2>1. PICK p \in Reorderings(Len(results)) :
           \A n \in 1..Len(results) : results'[n] = results[p[n]]
    BY <1>3, SortEffect
  <2>2. Len(results') = Len(results) /\ certs' = certs
    BY <1>3, SortEffect DEF SortResults
  <2>3. \A n \in 1..Len(results) : p[n] \in 1..Len(results)
    BY DEF Reorderings
  <2> QED  BY <2>1, <2>2, <2>3 DEF CertificatesOnFile
<1> QED  BY <1>1, <1>2, <1>3, StepShape

\* No reference in the report dangles: the fingerprints in the chains and the
\* issuers named by the certificates all have an entry.
THEOREM CertificatesAreOnFile == Spec => []CertificatesOnFile
<1>1. Init => CertificatesOnFile
  BY OnFileInit
<1>2. TypeOK /\ CertificatesOnFile /\ [Next]_vars => CertificatesOnFile'
  BY OnFileStep
<1> QED  BY <1>1, <1>2, TypeCorrect, PTL DEF Spec

-----------------------------------------------------------------------------
\* Suspicions.

\* A certificate marked as suspect while chain is filed asks for a key identifier
\* that a certificate of chain carries; that one is recorded as its issuer, and is
\* not the reference CA of the issuer's name.
LEMMA SuspectFindsIssuerInChain ==
    ASSUME NEW chain \in Seq(Cert), NEW c \in RangeOf(chain),
           ParseCertInfo(c, chain).trust = "mitm_suspected"
    PROVE  LET d == ParseCertInfo(c, chain).issuer IN
           /\ X509[c].issuerCN \in DOMAIN ReferenceCA
           /\ d # ReferenceCA[X509[c].issuerCN]
           /\ \E k \in Holder(X509[c].aki, chain) : d = chain[k]
<1> DEFINE d == IssuerIn(c, chain)
<1>1. /\ X509[c].issuerCN \in DOMAIN ReferenceCA
      /\ d \notin {NoCert, ReferenceCA[X509[c].issuerCN]}
  BY DEF ParseCertInfo, CheckMITMSuspicion
<1>2. PICK k \in Holder(X509[c].aki, chain) : d = chain[k]
  BY <1>1 DEF IssuerIn
<1> QED  BY <1>1, <1>2 DEF ParseCertInfo

LEMMA EvidenceStep ==
    TypeOK /\ SuspicionHasEvidence /\ [Next]_vars => SuspicionHasEvidence'
<1> SUFFICES ASSUME TypeOK, SuspicionHasEvidence, [Next]_vars
             PROVE  SuspicionHasEvidence'
  OBVIOUS
<1> DEFINE Shows(r, c, d) ==
             /\ X509[c].issuerCN \in DOMAIN ReferenceCA
             /\ d # ReferenceCA[X509[c].issuerCN]
             /\ c \in RangeOf(r.chain)
             /\ \E k \in Holder(X509[c].aki, r.chain) : d = r.chain[k]
<1>0. Len(results) \in Nat
  BY DEF TypeOK
<1>1. CASE UNCHANGED <<results, certs>>
  BY <1>1 DEF SuspicionHasEvidence
<1>2. ASSUME NEW r \in Result, Ends(r) PROVE SuspicionHasEvidence'
  <2>1. slot \in SlotsOf(plan) /\ Report(r) /\ UNCHANGED config /\ r.chain \in Seq(Cert)
    BY <1>2 DEF Ends, TypeOK, Result
  <2>2. /\ Len(results') = Len(results) + 1
        /\ results'[Len(results')] = r
        /\ \A n \in 1..Len(results) : results'[n] = results[n]
    BY <2>1, ReportType DEF config
  <2>3. ASSUME NEW c \in DOMAIN certs', certs'[c].trust = "mitm_suspected"
        PROVE  \E n \in 1..Len(results') : Shows(results'[n], c, certs'[c].issuer)
    <3>1. CASE c \in DOMAIN certs /\ certs'[c] = certs[c]
      <4>1. PICK n \in 1..Len(results) : Shows(results[n], c, certs[c].issuer)
        BY <2>3, <3>1 DEF SuspicionHasEvidence
      <4>2. n \in 1..Len(results') /\ results'[n] = results[n]
        BY <1>0, <2>2
      <4> QED  BY <3>1, <4>1, <4>2
    <3>2. CASE /\ CaptureCertificateDetails(r.chain)
               /\ c \in RangeOf(r.chain) \ DOMAIN certs
      <4>1. certs'[c] = ParseCertInfo(c, r.chain)
        BY <2>1, <3>2, CaptureEffect DEF TypeOK
      <4>2. Shows(r, c, certs'[c].issuer)
        BY <2>1, <2>3, <3>2, <4>1, SuspectFindsIssuerInChain
      <4>3. Len(results') \in 1..Len(results')
        BY <1>0, <2>2
      <4> QED  BY <2>2, <4>2, <4>3
    <3>3. CASE certs' = certs
      BY <3>1, <3>3
    <3>4. CASE CaptureCertificateDetails(r.chain)
      <4>1. /\ DOMAIN certs' = DOMAIN certs \cup RangeOf(r.chain)
            /\ \A e \in DOMAIN certs : certs'[e] = certs[e]
        BY <2>1, <3>4, CaptureEffect DEF TypeOK
      <4> QED  BY <3>1, <3>2, <3>4, <4>1
    <3> QED  BY <1>2, <3>3, <3>4 DEF Ends
  <2> QED  BY <2>3 DEF SuspicionHasEvidence
<1>3. CASE SortResults
  <2>1. PICK p \in Reorderings(Len(results)) :
           \A n \in 1..Len(results) : results'[n] = results[p[n]]
    BY <1>3, SortEffect
  <2>2. Len(results') = Len(results) /\ certs' = certs
    BY <1>3, SortEffect DEF SortResults
  <2>3. \A m \in 1..Len(results) : \E n \in 1..Len(results) : results'[n] = results[m]
    BY <2>1 DEF Reorderings
  <2>4. ASSUME NEW c \in DOMAIN certs', certs'[c].trust = "mitm_suspected"
        PROVE  \E n \in 1..Len(results') : Shows(results'[n], c, certs'[c].issuer)
    <3>1. PICK m \in 1..Len(results) : Shows(results[m], c, certs[c].issuer)
      BY <2>2, <2>4 DEF SuspicionHasEvidence
    <3>2. PICK n \in 1..Len(results) : results'[n] = results[m]
      BY <2>3
    <3> QED  BY <2>2, <3>1, <3>2
  <2> QED  BY <2>4 DEF SuspicionHasEvidence
<1> QED  BY <1>1, <1>2, <1>3, StepShape

\* A certificate reported as suspect came, in a chain that some result shows,
\* with the certificate held against it: the last one there that carries the key
\* identifier the suspect asks for, and not the reference CA of its issuer's name.
THEOREM SuspicionsHaveEvidence == Spec => []SuspicionHasEvidence
<1>1. Init => SuspicionHasEvidence
  BY DEF Init, SuspicionHasEvidence
<1>2. TypeOK /\ SuspicionHasEvidence /\ [Next]_vars => SuspicionHasEvidence'
  BY EvidenceStep
<1> QED  BY <1>1, <1>2, TypeCorrect, PTL DEF Spec

-----------------------------------------------------------------------------
\* Verdicts.

\* The conditions of SuccessIsAnchored and HostCAOutageContained on one result.
SoundSuccess(r, pool) ==
    r.verdict = Success =>
        /\ r.chain # <<>>
        /\ X509Verify(r.chain, IF r.target.trust = "host_ca" THEN pool ELSE SystemRoots,
                      r.target.sni)
        /\ r.target.alpns # {} => r.proto \in r.target.alpns
        /\ r.peer # "none"

SoundOutage(r, pool) ==
    /\ r.verdict = "host_ca_unavailable" =>
          r.target.trust = "host_ca" /\ pool = {} /\ r.chain # <<>>
    /\ pool = {} /\ r.target.trust = "host_ca" =>
          r.verdict \notin {Success, "untrusted_cert"}
    /\ r.verdict = "untrusted_cert" => r.chain # <<>>

\* The configuration is settled before the first result.
VerdictInv ==
    /\ pc = "idle" => results = <<>>
    /\ \A n \in 1..Len(results) : SoundSuccess(results[n], rootCAs) /\ SoundOutage(results[n], rootCAs)

LEMMA VerdictInvMeaning ==
    VerdictInv => SuccessIsAnchored /\ HostCAOutageContained
BY DEF VerdictInv, SoundSuccess, SoundOutage, SuccessIsAnchored, HostCAOutageContained

LEMMA IpTargetKeeps ==
    ASSUME NEW t \in Target, NEW i \in 1..Len(Ips(t))
    PROVE  /\ IpTarget(t, i).trust = t.trust
           /\ IpTarget(t, i).sni = t.sni
           /\ IpTarget(t, i).alpns = t.alpns
BY DEF IpTarget, Target

\* What probeOnce concludes is sound when it concludes it.
LEMMA JudgedSoundly ==
    ASSUME TypeOK, NEW r \in Result, Ends(r), Judged(r)
    PROVE  SoundSuccess(r, rootCAs) /\ SoundOutage(r, rootCAs)
<1> DEFINE t == CurrentTarget
<1>1. t \in Target /\ slot.ip \in 1..Len(Ips(t))
  BY SlotShape DEF Ends, TypeOK, CurrentTarget
<1>2. r.target.trust = t.trust /\ r.target.sni = t.sni /\ r.target.alpns = t.alpns
  BY <1>1, IpTargetKeeps DEF Ends
<1>3. CASE r.verdict \in {"proxy_connect_failed", "timeout", "handshake_failed",
                          "proxy_config_error", "alpn_mismatch"}
  BY <1>3 DEF SoundSuccess, SoundOutage, Success
<1>4. CASE /\ r.verdict = HandshakeVerdict(r.chain, r.proto, t)
           /\ r.chain \in Chains
           /\ r.peer # "none"
           /\ r.verdict # "alpn_mismatch"
  <2>1. r.chain # <<>>
    BY <1>4, CertAssumption
  <2>2. /\ r.verdict = VerifyPeerCertificate(r.chain, t)
        /\ t.alpns # {} => r.proto \in t.alpns
    BY <1>4 DEF HandshakeVerdict
  <2>3. CASE t.trust = "host_ca" /\ rootCAs = {}
    <3>1. r.verdict = "host_ca_unavailable"
      BY <2>2, <2>3 DEF VerifyPeerCertificate
    <3> QED  BY <1>2, <2>1, <2>3, <3>1 DEF SoundSuccess, SoundOutage, Success
  <2>4. CASE t.trust = "host_ca" /\ rootCAs # {}
    <3>1. r.verdict = IF X509Verify(r.chain, rootCAs, t.sni) THEN Success
                                                             ELSE "untrusted_cert"
      BY <2>2, <2>4 DEF VerifyPeerCertificate
    <3> QED  BY <1>2, <1>4, <2>1, <2>2, <2>4, <3>1 DEF SoundSuccess, SoundOutage, Success
  <2>5. CASE t.trust # "host_ca"
    <3>1. r.verdict = IF X509Verify(r.chain, SystemRoots, t.sni) THEN Success
                                                                 ELSE "untrusted_cert"
      BY <2>2, <2>5 DEF VerifyPeerCertificate
    <3> QED  BY <1>2, <1>4, <2>1, <2>2, <2>5, <3>1 DEF SoundSuccess, SoundOutage, Success
  <2> QED  BY <2>3, <2>4, <2>5
<1> QED  BY <1>3, <1>4 DEF Judged

LEMMA VerdictStep == TypeOK /\ VerdictInv /\ [Next]_vars => VerdictInv'
<1> SUFFICES ASSUME TypeOK, VerdictInv, [Next]_vars PROVE VerdictInv'
  OBVIOUS
<1>0. results \in Seq(Result) /\ Len(results) \in Nat
  BY DEF TypeOK
<1>1. CASE /\ UNCHANGED <<results, certs>>
           /\ pc = "idle" \/ UNCHANGED config
           /\ pc' = "idle" => pc = "idle"
  <2>1. CASE pc = "idle"
    BY <1>1, <2>1 DEF VerdictInv
  <2>2. CASE pc # "idle" /\ UNCHANGED config
    BY <1>1, <2>2 DEF VerdictInv, config
  <2> QED  BY <1>1, <2>1, <2>2
<1>2. ASSUME NEW r \in Result, Ends(r), Judged(r) PROVE VerdictInv'
  <2>1. slot \in SlotsOf(plan) /\ Report(r) /\ UNCHANGED config
    BY <1>2 DEF Ends, TypeOK
  <2>2. /\ Len(results') = Len(results) + 1
        /\ results'[Len(results')] = r
        /\ \A n \in 1..Len(results) : results'[n] = results[n]
        /\ pc' \in {"attempt", "sort"}
    BY <2>1, ReportType DEF config
  <2>3. SoundSuccess(r, rootCAs) /\ SoundOutage(r, rootCAs)
    BY <1>2, JudgedSoundly
  <2>4. rootCAs' = rootCAs
    BY <2>1 DEF config
  <2>5. ASSUME NEW n \in 1..Len(results')
        PROVE  SoundSuccess(results'[n], rootCAs) /\ SoundOutage(results'[n], rootCAs)
    BY <1>0, <2>2, <2>3 DEF VerdictInv
  <2> QED  BY <2>2, <2>4, <2>5 DEF VerdictInv
<1>3. CASE SortResults
  <2>1. PICK p \in Reorderings(Len(results)) :
           \A n \in 1..Len(results) : results'[n] = results[p[n]]
    BY <1>3, SortEffect
  <2>2. Len(results') = Len(results) /\ UNCHANGED config /\ pc' # "idle"
    BY <1>3, SortEffect DEF SortResults
  <2>3. \A n \in 1..Len(results) : p[n] \in 1..Len(results)
    BY DEF Reorderings
  <2>4. rootCAs' = rootCAs
    BY <2>2 DEF config
  <2>5. ASSUME NEW n \in 1..Len(results')
        PROVE  SoundSuccess(results'[n], rootCAs) /\ SoundOutage(results'[n], rootCAs)
    BY <2>1, <2>2, <2>3 DEF VerdictInv
  <2> QED  BY <2>2, <2>4, <2>5 DEF VerdictInv
<1> QED  BY <1>1, <1>2, <1>3, StepShape

LEMMA VerdictsAreSound == Spec => []VerdictInv
<1>1. Init => VerdictInv
  BY DEF Init, VerdictInv
<1>2. TypeOK /\ VerdictInv /\ [Next]_vars => VerdictInv'
  BY VerdictStep
<1> QED  BY <1>1, <1>2, TypeCorrect, PTL DEF Spec

\* A success is backed by the authority its target names.
THEOREM SuccessesAreAnchored == Spec => []SuccessIsAnchored
<1>1. VerdictInv => SuccessIsAnchored
  BY VerdictInvMeaning
<1> QED  BY <1>1, VerdictsAreSound, PTL

\* A missing host CA bundle costs the host CA probes and nothing else.
THEOREM HostCAOutageIsContained == Spec => []HostCAOutageContained
<1>1. VerdictInv => HostCAOutageContained
  BY VerdictInvMeaning
<1> QED  BY <1>1, VerdictsAreSound, PTL
=============================================================================
