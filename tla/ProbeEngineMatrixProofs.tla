----------------------- MODULE ProbeEngineMatrixProofs -----------------------
(***************************************************************************)
(* ProbeEngine implements ProbeMatrix: theorems about which attempts have  *)
(* been answered, by what, and in which order the report lists them, for   *)
(* every plan, server behaviour and configuration.                         *)
(***************************************************************************)
EXTENDS ProbeEngineProofs

-----------------------------------------------------------------------------
\* The order in which the loops of Run visit the attempts.

Before(r, s) ==
    \/ r.target < s.target
    \/ r.target = s.target /\ r.ip < s.ip
    \/ r.target = s.target /\ r.ip = s.ip /\ r.attempt < s.attempt

LEMMA NoneBeforeFirst ==
    ASSUME NEW p \in Plans, NEW r \in SlotsOf(p)
    PROVE  ~Before(r, First)
<1>1. r.target \in Nat \ {0} /\ r.ip \in Nat \ {0} /\ r.attempt \in Nat \ {0}
  BY SlotShape
<1> QED  BY <1>1 DEF Before, First, At

LEMMA SlotEqual ==
    ASSUME NEW p \in Plans, NEW r \in SlotsOf(p), NEW s \in SlotsOf(p),
           r.target = s.target, r.ip = s.ip, r.attempt = s.attempt
    PROVE  r = s
<1>1. /\ r = [target |-> r.target, ip |-> r.ip, attempt |-> r.attempt]
      /\ s = [target |-> s.target, ip |-> s.ip, attempt |-> s.attempt]
  BY SlotShape
<1> QED  BY <1>1

\* The loops skip no attempt: nothing lies between one and the next, nor after
\* the last.
LEMMA AfterIsNext ==
    ASSUME plan \in Plans, NEW s \in SlotsOf(plan), NEW r \in SlotsOf(plan)
    PROVE  /\ After(s).target <= Len(plan) =>
                 (Before(r, After(s)) <=> Before(r, s) \/ r = s)
           /\ ~(After(s).target <= Len(plan)) => Before(r, s) \/ r = s
<1> DEFINE t == plan[s.target]
<1>1. /\ s.target \in 1..Len(plan) /\ s.ip \in 1..Len(Ips(t))
      /\ s.attempt \in 1..Attempts(t) /\ t \in Target
      /\ s \in [target: Nat, ip: Nat, attempt: Nat]
  BY SlotShape
<1>2. /\ r.target \in 1..Len(plan) /\ r.ip \in 1..Len(Ips(plan[r.target]))
      /\ r.attempt \in 1..Attempts(plan[r.target])
      /\ r.target \in Nat \ {0} /\ r.ip \in Nat \ {0} /\ r.attempt \in Nat \ {0}
  BY SlotShape
<1>3. Len(Ips(t)) \in Nat \ {0} /\ Attempts(t) \in Nat \ {0} /\ Len(plan) \in Nat
  BY <1>1, TargetShape, PlanShape
<1>4. (r.target = s.target /\ r.ip = s.ip /\ r.attempt = s.attempt) <=> r = s
  BY SlotEqual
<1>5. r.target = s.target => r.ip \in 1..Len(Ips(t)) /\ r.attempt \in 1..Attempts(t)
  BY <1>2
<1> DEFINE I == Len(Ips(t))
           A == Attempts(t)
<1>6. I \in Nat \ {0} /\ A \in Nat \ {0} /\ s.ip \in 1..I /\ s.attempt \in 1..A
      /\ (r.target = s.target => r.ip \in 1..I /\ r.attempt \in 1..A)
  BY <1>1, <1>3, <1>5
<1>7. CASE s.attempt < A
  <2>1. After(s) = [target |-> s.target, ip |-> s.ip, attempt |-> s.attempt + 1]
    BY <1>1, <1>3, <1>7 DEF After, At
  <2> HIDE DEF t, I, A
  <2> QED  BY <2>1, <1>1, <1>2, <1>3, <1>4, <1>6, <1>7 DEF Before
<1>8. CASE s.attempt >= A /\ s.ip < I
  <2>1. After(s) = [target |-> s.target, ip |-> s.ip + 1, attempt |-> 1]
    BY <1>1, <1>3, <1>8 DEF After, At
  <2> HIDE DEF t, I, A
  <2> QED  BY <2>1, <1>1, <1>2, <1>3, <1>4, <1>6, <1>8 DEF Before
<1>9. CASE s.attempt >= A /\ s.ip >= I
  <2>1. After(s) = [target |-> s.target + 1, ip |-> 1, attempt |-> 1]
    BY <1>1, <1>3, <1>9 DEF After, At
  <2> HIDE DEF t, I, A
  <2> QED  BY <2>1, <1>1, <1>2, <1>3, <1>4, <1>6, <1>9 DEF Before
<1> QED  BY <1>6, <1>7, <1>8, <1>9

-----------------------------------------------------------------------------
\* The steps, by what they do to the loops.

LEMMA LoopSteps ==
    ASSUME TypeOK, [Next]_vars
    PROVE  /\ plan' = plan
           /\ \/ UNCHANGED <<pc, slot, results>>
              \/ Run
              \/ StartDial
              \/ /\ UNCHANGED <<slot, results>>
                 /\ pc \in {"dial", "connect"} /\ pc' \in {"connect", "handshake"}
              \/ \E r \in Result : Ends(r) /\ Judged(r)
              \/ SortResults
<1>1. ASSUME NEW pool \in HostCAPools, SetRootCAs(pool)
      PROVE  plan' = plan /\ UNCHANGED <<pc, slot, results>>
  BY <1>1 DEF SetRootCAs
<1>2. ASSUME NEW pair \in ClientPairs, SetClientCert(pair)
      PROVE  plan' = plan /\ UNCHANGED <<pc, slot, results>>
  BY <1>2 DEF SetClientCert
<1>3. CASE Run \/ StartDial \/ SortResults
  BY <1>3 DEF Run, StartDial, SortResults, config
<1>4. CASE Expire
  BY <1>4 DEF Expire, config
<1>5. CASE RejectProxyURL \/ Dial \/ Connect \/ Handshake
  BY <1>5, EndingSteps DEF Ends, config
<1>6. CASE UNCHANGED vars
  BY <1>6 DEF vars
<1> QED  BY <1>1, <1>2, <1>3, <1>4, <1>5, <1>6 DEF Next, Configure, Stopped

-----------------------------------------------------------------------------
\* What has been answered.

Running == {"attempt", "dial", "connect", "handshake"}

OneResultPerSlot ==
    \A m, n \in 1..Len(results) : results[m].slot = results[n].slot => m = n

ResultsDescribe ==
    \A n \in 1..Len(results) :
        LET s == results[n].slot IN
        /\ results[n].attempt = s.attempt
        /\ results[n].target = IpTarget(plan[s.target], s.ip)

\* Answered is what lies before slot, all of the plan once the loops have run
\* off its end.  After the dial has begun the proxy's URL is one that can be
\* dialled.
LoopInv ==
    /\ pc \in {"idle", "refused"} => results = <<>>
    /\ pc \in Running => \A r \in SlotsOf(plan) : r \in Answered <=> Before(r, slot)
    /\ pc \in {"sort", "done"} => SlotsOf(plan) \subseteq Answered
    /\ OneResultPerSlot
    /\ ResultsDescribe
    /\ pc \in Running \ {"attempt"} /\ Proxied(CurrentTarget) =>
          CurrentTarget.proxyURL \in HttpURL

LEMMA AnsweredType ==
    ASSUME TypeOK
    PROVE  /\ Answered \subseteq SlotsOf(plan)
           /\ \A n \in 1..Len(results) : results[n].slot \in SlotsOf(plan)
<1>1. \A n \in 1..Len(results) : results[n] \in Result
  BY DEF TypeOK
<1> QED  BY <1>1 DEF Answered, Result

\* What the end of an attempt adds.
LEMMA EndsEffect ==
    ASSUME TypeOK, LoopInv, NEW r \in Result, Ends(r)
    PROVE  /\ pc \in Running /\ slot \in SlotsOf(plan) /\ plan' = plan
           /\ slot \notin Answered /\ r.slot = slot
           /\ Len(results) \in Nat /\ Len(results') = Len(results) + 1
           /\ results'[Len(results')] = r
           /\ \A n \in 1..Len(results) : results'[n] = results[n]
           /\ Answered' = Answered \cup {slot}
           /\ slot' = After(slot)
           /\ pc' = IF After(slot).target <= Len(plan) THEN "attempt" ELSE "sort"
<1>1. /\ pc \in Running /\ slot \in SlotsOf(plan) /\ plan' = plan
      /\ Report(r) /\ r.slot = slot
  BY DEF Ends, Running, TypeOK, config
<1>2. slot \notin Answered
  <2>1. slot.target \in Nat /\ slot.ip \in Nat /\ slot.attempt \in Nat
    BY <1>1, SlotShape DEF TypeOK
  <2>2. ~Before(slot, slot)
    BY <2>1 DEF Before
  <2> QED  BY <1>1, <2>2 DEF LoopInv
<1>3. /\ Len(results) \in Nat /\ Len(results') = Len(results) + 1
      /\ results'[Len(results')] = r
      /\ \A n \in 1..Len(results) : results'[n] = results[n]
  BY <1>1, ReportType DEF TypeOK
<1>4. Answered' = Answered \cup {slot}
  <2>1. ASSUME NEW n \in 1..Len(results') PROVE results'[n].slot \in Answered \cup {slot}
    BY <1>1, <1>3, <2>1 DEF Answered
  <2>2. \A n \in 1..Len(results) : n \in 1..Len(results') /\ results'[n].slot = results[n].slot
    BY <1>3
  <2>3. Len(results') \in 1..Len(results') /\ results'[Len(results')].slot = slot
    BY <1>1, <1>3
  <2> QED  BY <2>1, <2>2, <2>3 DEF Answered
<1> QED  BY <1>1, <1>2, <1>3, <1>4 DEF Report

\* Sorting moves results and changes none.
LEMMA SortKeeps ==
    ASSUME TypeOK, OneResultPerSlot, SortResults
    PROVE  /\ Len(results') = Len(results)
           /\ \A n \in 1..Len(results) : \E m \in 1..Len(results) : results'[n] = results[m]
           /\ \A n \in 1..Len(results) : \E m \in 1..Len(results) : results[n] = results'[m]
           /\ OneResultPerSlot'
           /\ Answered' = Answered
<1>1. PICK p \in Reorderings(Len(results)) :
         \A n \in 1..Len(results) : results'[n] = results[p[n]]
  BY SortEffect
<1>2. Len(results') = Len(results) /\ Len(results) \in Nat
  BY SortEffect DEF TypeOK
<1>3. p \in [1..Len(results) -> 1..Len(results)]
      /\ \A k \in 1..Len(results) : \E i \in 1..Len(results) :
            p[i] = k /\ \A j \in 1..Len(results) : p[j] = k => j = i
  BY DEF Reorderings
<1>4. \A n \in 1..Len(results) : \E m \in 1..Len(results) : results'[n] = results[m]
  BY <1>1, <1>3
<1>5. \A n \in 1..Len(results) : \E m \in 1..Len(results) : results[n] = results'[m]
  BY <1>1, <1>3
<1>6. ASSUME NEW m \in 1..Len(results), NEW n \in 1..Len(results),
             results'[m].slot = results'[n].slot
      PROVE  m = n
  <2>1. p[m] \in 1..Len(results) /\ p[n] \in 1..Len(results)
    BY <1>3
  <2>2. p[m] = p[n]
    BY <1>1, <1>6, <2>1 DEF OneResultPerSlot
  <2> QED  BY <1>3, <2>1, <2>2
<1>7. Answered' = Answered
  <2>1. Answered' = {results'[n].slot : n \in 1..Len(results)}
    BY <1>2 DEF Answered
  <2>2. ASSUME NEW a \in Answered PROVE a \in Answered'
    <3>1. PICK n \in 1..Len(results) : a = results[n].slot
      BY <2>2 DEF Answered
    <3>2. PICK m \in 1..Len(results) : results[n] = results'[m]
      BY <1>5
    <3> QED  BY <2>1, <3>1, <3>2
  <2>3. ASSUME NEW a \in Answered' PROVE a \in Answered
    <3>1. PICK n \in 1..Len(results) : a = results'[n].slot
      BY <2>1, <2>3
    <3>2. PICK m \in 1..Len(results) : results'[n] = results[m]
      BY <1>4
    <3> QED  BY <3>1, <3>2 DEF Answered
  <2> QED  BY <2>2, <2>3
<1> QED  BY <1>2, <1>4, <1>5, <1>6, <1>7 DEF OneResultPerSlot

LEMMA LoopStep == TypeOK /\ TypeOK' /\ LoopInv /\ [Next]_vars => LoopInv'
<1> SUFFICES ASSUME TypeOK, TypeOK', LoopInv, [Next]_vars PROVE LoopInv'
  OBVIOUS
<1>0. plan' = plan /\ plan \in Plans
  BY LoopSteps DEF TypeOK
<1>1. CASE UNCHANGED <<pc, slot, results>>
  BY <1>0, <1>1 DEF LoopInv, Answered, OneResultPerSlot, ResultsDescribe, CurrentTarget
<1>2. CASE Run
  <2>1. results = <<>> /\ results' = results /\ slot = First /\ slot' = slot
    BY <1>2 DEF Run, LoopInv, TypeOK
  <2>2. Answered' = {} /\ OneResultPerSlot' /\ ResultsDescribe'
    BY <2>1 DEF Answered, OneResultPerSlot, ResultsDescribe
  <2>3. /\ pc' \in {"refused", "sort", "attempt"}
        /\ pc' = "sort" => plan = <<>>
    BY <1>2 DEF Run
  <2>4. plan = <<>> => SlotsOf(plan) = {}
    BY DEF SlotsOf
  <2>5. \A r \in SlotsOf(plan) : ~Before(r, slot')
    BY <1>0, <2>1, NoneBeforeFirst
  <2> QED  BY <1>0, <2>1, <2>2, <2>3, <2>4, <2>5 DEF LoopInv, Running
<1>3. CASE StartDial
  <2>1. /\ pc = "attempt" /\ pc' = "dial" /\ UNCHANGED <<slot, results>>
        /\ Proxied(CurrentTarget) => CurrentTarget.proxyURL \in HttpURL
    BY <1>3 DEF StartDial, config
  <2> QED  BY <1>0, <2>1
           DEF LoopInv, Running, Answered, OneResultPerSlot, ResultsDescribe, CurrentTarget
<1>4. CASE /\ UNCHANGED <<slot, results>>
           /\ pc \in {"dial", "connect"} /\ pc' \in {"connect", "handshake"}
  BY <1>0, <1>4
     DEF LoopInv, Running, Answered, OneResultPerSlot, ResultsDescribe, CurrentTarget
<1>5. ASSUME NEW r \in Result, Ends(r) PROVE LoopInv'
  <2>1. /\ pc \in Running /\ slot \in SlotsOf(plan)
        /\ slot \notin Answered /\ r.slot = slot
        /\ Len(results) \in Nat /\ Len(results') = Len(results) + 1
        /\ results'[Len(results')] = r
        /\ \A n \in 1..Len(results) : results'[n] = results[n]
        /\ Answered' = Answered \cup {slot}
        /\ slot' = After(slot)
        /\ pc' = IF After(slot).target <= Len(plan) THEN "attempt" ELSE "sort"
    BY <1>5, EndsEffect
  <2>2. \A s \in SlotsOf(plan) : s \in Answered <=> Before(s, slot)
    BY <2>1 DEF LoopInv
  <2>3. \A s \in SlotsOf(plan) :
           /\ After(slot).target <= Len(plan) =>
                 (Before(s, After(slot)) <=> Before(s, slot) \/ s = slot)
           /\ ~(After(slot).target <= Len(plan)) => Before(s, slot) \/ s = slot
    BY <1>0, <2>1, AfterIsNext
  <2>4. pc' \in Running => \A s \in SlotsOf(plan') : s \in Answered' <=> Before(s, slot')
    BY <1>0, <2>1, <2>2, <2>3 DEF Running
  <2>5. pc' \in {"sort", "done"} => SlotsOf(plan') \subseteq Answered'
    BY <1>0, <2>1, <2>2, <2>3
  <2>6. OneResultPerSlot'
    <3>1. \A n \in 1..Len(results) : results'[n].slot # slot
      BY <2>1 DEF Answered
    <3> SUFFICES ASSUME NEW m \in 1..Len(results'), NEW n \in 1..Len(results'),
                        results'[m].slot = results'[n].slot
                 PROVE  m = n
      BY DEF OneResultPerSlot
    <3>2. CASE m \in 1..Len(results) /\ n \in 1..Len(results)
      BY <2>1, <3>2 DEF LoopInv, OneResultPerSlot
    <3>3. CASE m = Len(results') \/ n = Len(results')
      BY <2>1, <3>1, <3>3
    <3> QED  BY <2>1, <3>2, <3>3
  <2>7. ResultsDescribe'
    <3>1. /\ r.attempt = slot.attempt
          /\ r.target = IpTarget(plan[slot.target], slot.ip)
      BY <1>5 DEF Ends, CurrentTarget
    <3> SUFFICES ASSUME NEW n \in 1..Len(results')
                 PROVE  /\ results'[n].attempt = results'[n].slot.attempt
                        /\ results'[n].target = IpTarget(plan[results'[n].slot.target],
                                                         results'[n].slot.ip)
      BY <1>0 DEF ResultsDescribe
    <3>2. CASE n \in 1..Len(results)
      BY <2>1, <3>2 DEF LoopInv, ResultsDescribe
    <3>3. CASE n = Len(results')
      BY <2>1, <3>1, <3>3
    <3> QED  BY <2>1, <3>2, <3>3
  <2>8. pc' \in {"attempt", "sort"}
    BY <2>1
  <2> QED  BY <2>4, <2>5, <2>6, <2>7, <2>8 DEF LoopInv, Running
<1>6. CASE SortResults
  <2>1. /\ Len(results') = Len(results)
        /\ \A n \in 1..Len(results) : \E m \in 1..Len(results) : results'[n] = results[m]
        /\ OneResultPerSlot'
        /\ Answered' = Answered
    BY <1>6, SortKeeps DEF LoopInv
  <2>2. pc = "sort" /\ pc' = "done"
    BY <1>6 DEF SortResults
  <2>3. ResultsDescribe'
    BY <1>0, <2>1 DEF LoopInv, ResultsDescribe
  <2> QED  BY <1>0, <2>1, <2>2, <2>3 DEF LoopInv, Running
<1> QED  BY <1>1, <1>2, <1>3, <1>4, <1>5, <1>6, LoopSteps

LEMMA LoopInit == Init => LoopInv
<1> SUFFICES ASSUME Init PROVE LoopInv
  OBVIOUS
<1>1. results = <<>> /\ pc = "idle"
  BY DEF Init
<1> QED  BY <1>1 DEF LoopInv, Running, OneResultPerSlot, ResultsDescribe

LEMMA LoopInvariant == Spec => []LoopInv
<1>1. Init => LoopInv
  BY LoopInit
<1>2. TypeOK /\ TypeOK' /\ LoopInv /\ [Next]_vars => LoopInv'
  BY LoopStep
<1> QED  BY <1>1, <1>2, TypeCorrect, PTL DEF Spec

\* Every attempt of the plan is reported once, by a result that says which it
\* was, and none is missing when the run has ended.
THEOREM AnsweredExactlyOnce == Spec => []ExactlyOnce
<1>1. TypeOK /\ LoopInv => ExactlyOnce
  BY AnsweredType DEF LoopInv, OneResultPerSlot, ResultsDescribe, ExactlyOnce
<1> QED  BY <1>1, TypeCorrect, LoopInvariant, PTL

-----------------------------------------------------------------------------
\* The refinement.

\* The operators of ProbeMatrix are the engine's own.
LEMMA MatrixOperators ==
    /\ Matrix!Verdict = Verdict /\ Matrix!Success = Success
    /\ \A t : Matrix!Proxied(t) <=> Proxied(t)
    /\ \A p : Matrix!SlotsOf(p) = SlotsOf(p)
<1>1. Matrix!Verdict = Verdict /\ Matrix!Success = Success
  BY DEF Matrix!Verdict, Matrix!FailureKind, Matrix!Success, Verdict, FailureKind, Success
<1>2. \A t : Matrix!Proxied(t) <=> Proxied(t)
  BY DEF Matrix!Proxied, Proxied
<1>3. \A t : Matrix!Ips(t) = Ips(t) /\ Matrix!Attempts(t) = Attempts(t)
  BY DEF Matrix!Ips, Ips, Matrix!Attempts, Attempts
<1>4. \A p : Matrix!SlotsOf(p) = SlotsOf(p)
  BY <1>3 DEF Matrix!SlotsOf, SlotsOf
<1> QED  BY <1>1, <1>2, <1>4

LEMMA TheOneWithItsSlot ==
    ASSUME NEW rs,
           \A i, j \in 1..Len(rs) : rs[i].slot = rs[j].slot => i = j,
           NEW n \in 1..Len(rs)
    PROVE  rs[CHOOSE m \in 1..Len(rs) : rs[m].slot = rs[n].slot] = rs[n]
OBVIOUS

\* The answer to an attempt is the verdict of the result that names it.
LEMMA AnswerIs ==
    /\ DOMAIN AnswerBar = Answered
    /\ AnswerBar = [s \in Answered |-> AnswerBar[s]]
    /\ OneResultPerSlot =>
          \A n \in 1..Len(results) : AnswerBar[results[n].slot] = results[n].verdict
<1>1. ASSUME OneResultPerSlot, NEW n \in 1..Len(results)
      PROVE  AnswerBar[results[n].slot] = results[n].verdict
  <2>1. results[n].slot \in Answered
    BY DEF Answered
  <2>2. ResultOf(results[n].slot) = results[n]
    BY <1>1, TheOneWithItsSlot DEF OneResultPerSlot, ResultOf
  <2> QED  BY <2>1, <2>2 DEF AnswerBar
<1> QED  BY <1>1 DEF AnswerBar

\* The same of the next state.
LEMMA AnswerWillBe ==
    /\ AnswerBar' = [s \in Answered' |-> AnswerBar'[s]]
    /\ OneResultPerSlot' =>
          \A n \in 1..Len(results') : AnswerBar'[results'[n].slot] = results'[n].verdict
<1>1. ASSUME OneResultPerSlot', NEW n \in 1..Len(results')
      PROVE  AnswerBar'[results'[n].slot] = results'[n].verdict
  <2>1. results'[n].slot \in Answered'
    BY DEF Answered
  <2>2. results'[CHOOSE m \in 1..Len(results') : results'[m].slot = results'[n].slot]
          = results'[n]
    BY <1>1, TheOneWithItsSlot DEF OneResultPerSlot
  <2> QED  BY <2>1, <2>2 DEF AnswerBar, ResultOf
<1> QED  BY <1>1 DEF AnswerBar

\* The verdict of an attempt is one its target can have.
LEMMA VerdictPossible ==
    ASSUME TypeOK, LoopInv, NEW r \in Result, Ends(r), Judged(r)
    PROVE  r.verdict \in Matrix!VerdictsFor(plan[slot.target])
<1> DEFINE t == CurrentTarget
<1>1. r.verdict \in Verdict
  BY DEF Result
<1>2. pc # "attempt" => (Proxied(t) => t.proxyURL \in HttpURL)
  BY DEF LoopInv, Ends, Running
<1>3. r.verdict = "proxy_config_error" <=> Proxied(t) /\ t.proxyURL \notin HttpURL
  BY <1>2, VerdictType DEF Judged, Success
<1>4. r.verdict = "host_ca_unavailable" => t.trust = "host_ca"
  <2>1. ASSUME r.verdict = HandshakeVerdict(r.chain, r.proto, t),
               r.verdict = "host_ca_unavailable", t.trust # "host_ca"
        PROVE  FALSE
    <3>1. r.verdict = VerifyPeerCertificate(r.chain, t)
      BY <2>1 DEF HandshakeVerdict
    <3> QED  BY <2>1, <3>1 DEF VerifyPeerCertificate, Success
  <2> QED  BY <2>1 DEF Judged
<1> QED  BY <1>1, <1>3, <1>4, MatrixOperators
         DEF Matrix!VerdictsFor, CurrentTarget

LEMMA MatrixInit == Init => Matrix!Init
<1> SUFFICES ASSUME Init PROVE Matrix!Init
  OBVIOUS
<1>1. results = <<>> /\ pc = "idle" /\ plan \in Plans
  BY DEF Init
<1>2. Answered = {}
  BY <1>1 DEF Answered
<1>3. AnswerBar = [s \in {} |-> Success]
  BY <1>2 DEF AnswerBar
<1>4. PhaseBar = "open"
  BY <1>1 DEF PhaseBar
<1> QED  BY <1>1, <1>3, <1>4 DEF Matrix!Init

\* Each attempt that ends is one answer; starting a run with no dialer and
\* sorting the results are the matrix's refusal and close; the rest is invisible.
LEMMA MatrixStep ==
    TypeOK /\ TypeOK' /\ LoopInv /\ LoopInv' /\ [Next]_vars => [Matrix!Next]_(Matrix!vars)
<1> SUFFICES ASSUME TypeOK, TypeOK', LoopInv, LoopInv', [Next]_vars
             PROVE  Matrix!Next \/ UNCHANGED <<plan, AnswerBar, PhaseBar>>
  BY DEF Matrix!vars
<1>0. plan' = plan
  BY LoopSteps
<1>1. ASSUME UNCHANGED results PROVE AnswerBar' = AnswerBar
  BY <1>1 DEF AnswerBar, Answered, ResultOf
<1>2. CASE UNCHANGED <<pc, slot, results>>
  BY <1>0, <1>1, <1>2 DEF PhaseBar
<1>3. CASE Run
  <2>1. /\ pc = "idle" /\ pc' \in {"refused", "sort", "attempt"}
        /\ UNCHANGED results /\ results = <<>>
    BY <1>3 DEF Run, LoopInv
  <2>2. PhaseBar = "open" /\ PhaseBar' \in {"open", "refused"}
    BY <2>1 DEF PhaseBar
  <2>3. DOMAIN AnswerBar = {}
    BY <2>1 DEF AnswerBar, Answered
  <2>4. PhaseBar' = "refused" => Matrix!Refuse
    BY <1>0, <1>1, <2>1, <2>2, <2>3 DEF Matrix!Refuse
  <2> QED  BY <1>0, <1>1, <2>1, <2>2, <2>4 DEF Matrix!Next
<1>4. CASE StartDial
  <2>1. pc = "attempt" /\ pc' = "dial" /\ UNCHANGED results
    BY <1>4 DEF StartDial
  <2> QED  BY <1>0, <1>1, <2>1 DEF PhaseBar
<1>5. CASE /\ UNCHANGED <<slot, results>>
           /\ pc \in {"dial", "connect"} /\ pc' \in {"connect", "handshake"}
  BY <1>0, <1>1, <1>5 DEF PhaseBar
<1>6. ASSUME NEW r \in Result, Ends(r), Judged(r) PROVE Matrix!Next
  <2>1. /\ pc \in Running /\ slot \in SlotsOf(plan)
        /\ slot \notin Answered /\ r.slot = slot
        /\ Len(results) \in Nat /\ Len(results') = Len(results) + 1
        /\ results'[Len(results')] = r
        /\ \A n \in 1..Len(results) : results'[n] = results[n]
        /\ Answered' = Answered \cup {slot}
        /\ pc' = IF After(slot).target <= Len(plan) THEN "attempt" ELSE "sort"
    BY <1>6, EndsEffect
  <2>2. PhaseBar = "open" /\ PhaseBar' = "open"
    BY <2>1 DEF PhaseBar, Running
  <2>3. /\ DOMAIN AnswerBar = Answered
        /\ \A n \in 1..Len(results) : AnswerBar[results[n].slot] = results[n].verdict
    BY AnswerIs DEF LoopInv
  <2>4. /\ AnswerBar' = [s \in Answered' |-> AnswerBar'[s]]
        /\ \A n \in 1..Len(results') : AnswerBar'[results'[n].slot] = results'[n].verdict
    BY AnswerWillBe DEF LoopInv
  <2>5. ASSUME NEW s \in Answered PROVE AnswerBar'[s] = AnswerBar[s]
    <3>1. PICK n \in 1..Len(results) : s = results[n].slot
      BY DEF Answered
    <3>2. n \in 1..Len(results') /\ results'[n] = results[n]
      BY <2>1
    <3>3. AnswerBar'[results'[n].slot] = results'[n].verdict
      BY <2>4, <3>2
    <3>4. AnswerBar[results[n].slot] = results[n].verdict
      BY <2>3
    <3> QED  BY <3>1, <3>2, <3>3, <3>4
  <2>6. AnswerBar'[slot] = r.verdict
    <3>1. Len(results') \in 1..Len(results')
      BY <2>1
    <3> QED  BY <2>1, <2>4, <3>1
  <2>7. AnswerBar' = [s \in DOMAIN AnswerBar \cup {slot} |->
                         IF s = slot THEN r.verdict ELSE AnswerBar[s]]
    BY <2>1, <2>3, <2>4, <2>5, <2>6
  <2>8. r.verdict \in Verdict /\ r.verdict \in Matrix!VerdictsFor(plan[slot.target])
    BY <1>6, VerdictPossible DEF Result
  <2>9. Matrix!Answer(slot, r.verdict)
    BY <1>0, <2>1, <2>2, <2>3, <2>7, <2>8, MatrixOperators DEF Matrix!Answer
  <2> QED  BY <2>1, <2>8, <2>9, MatrixOperators DEF Matrix!Next
<1>7. CASE SortResults
  <2>1. /\ Len(results') = Len(results)
        /\ \A n \in 1..Len(results) : \E m \in 1..Len(results) : results[n] = results'[m]
        /\ Answered' = Answered
    BY <1>7, SortKeeps DEF LoopInv
  <2>2. pc = "sort" /\ pc' = "done"
    BY <1>7 DEF SortResults
  <2>3. PhaseBar = "open" /\ PhaseBar' = "closed"
    BY <2>2 DEF PhaseBar
  <2>4. /\ DOMAIN AnswerBar = Answered
        /\ AnswerBar = [s \in Answered |-> AnswerBar[s]]
        /\ \A n \in 1..Len(results) : AnswerBar[results[n].slot] = results[n].verdict
    BY AnswerIs DEF LoopInv
  <2>5. /\ AnswerBar' = [s \in Answered' |-> AnswerBar'[s]]
        /\ \A n \in 1..Len(results') : AnswerBar'[results'[n].slot] = results'[n].verdict
    BY AnswerWillBe DEF LoopInv
  <2>6. ASSUME NEW s \in Answered PROVE AnswerBar'[s] = AnswerBar[s]
    <3>1. PICK n \in 1..Len(results) : s = results[n].slot
      BY DEF Answered
    <3>2. PICK m \in 1..Len(results) : results[n] = results'[m]
      BY <2>1
    <3>3. AnswerBar'[results'[m].slot] = results'[m].verdict
      BY <2>1, <2>5
    <3>4. AnswerBar[results[n].slot] = results[n].verdict
      BY <2>4
    <3> QED  BY <3>1, <3>2, <3>3, <3>4
  <2>7. AnswerBar' = AnswerBar
    BY <2>1, <2>4, <2>5, <2>6
  <2>8. SlotsOf(plan) \subseteq DOMAIN AnswerBar
    BY <2>2, <2>4 DEF LoopInv
  <2>9. Matrix!Close
    BY <1>0, <2>3, <2>7, <2>8, MatrixOperators DEF Matrix!Close
  <2> QED  BY <2>9 DEF Matrix!Next
<1> QED  BY <1>2, <1>3, <1>4, <1>5, <1>6, <1>7, LoopSteps

\* The engine keeps the promise of ProbeMatrix: an answer for every attempt, one
\* its target can have, given once, and a report closed when all are in.
THEOREM EngineImplementsMatrix == Spec => ImplementsMatrix
<1>1. Init => Matrix!Init
  BY MatrixInit
<1>2. TypeOK /\ TypeOK' /\ LoopInv /\ LoopInv' /\ [Next]_vars
        => [Matrix!Next]_(Matrix!vars)
  BY MatrixStep
<1> QED  BY <1>1, <1>2, TypeCorrect, LoopInvariant, PTL
         DEF Spec, ImplementsMatrix, Matrix!Spec

-----------------------------------------------------------------------------
\* The order of the report.

\* The n-th result is the first of its service.
FirstOfService(rs, n) ==
    \A k \in 1..(n - 1) : rs[k].target.service # rs[n].target.service

\* Until they are sorted the results are in the order of the loops, so that a
\* service's rank is that of the first target that introduces it.
OrderInv ==
    pc # "done" =>
        /\ \A m, n \in 1..Len(results) :
              m < n => Before(results[m].slot, results[n].slot)
        /\ \A n \in 1..Len(results) :
              \E m \in 1..n : /\ results[m].target.service = results[n].target.service
                              /\ FirstOfService(results, m)

LEMMA OrderStep == TypeOK /\ LoopInv /\ OrderInv /\ [Next]_vars => OrderInv'
<1> SUFFICES ASSUME TypeOK, LoopInv, OrderInv, [Next]_vars, pc' # "done"
             PROVE  OrderInv'
  BY DEF OrderInv
<1>0. Len(results) \in Nat
  BY DEF TypeOK
<1>1. CASE UNCHANGED results /\ pc # "done"
  BY <1>1 DEF OrderInv, FirstOfService
<1>2. ASSUME NEW r \in Result, Ends(r) PROVE OrderInv'
  <2>1. /\ pc \in Running /\ slot \in SlotsOf(plan) /\ r.slot = slot
        /\ Len(results') = Len(results) + 1
        /\ results'[Len(results')] = r
        /\ \A n \in 1..Len(results) : results'[n] = results[n]
    BY <1>2, EndsEffect
  <2>2. /\ \A m, n \in 1..Len(results) :
              m < n => Before(results[m].slot, results[n].slot)
        /\ \A n \in 1..Len(results) :
              \E m \in 1..n : /\ results[m].target.service = results[n].target.service
                              /\ FirstOfService(results, m)
    BY <2>1 DEF OrderInv, Running
  <2>3. ASSUME NEW m \in 1..Len(results'), NEW n \in 1..Len(results'), m < n
        PROVE  Before(results'[m].slot, results'[n].slot)
    <3>1. m \in 1..Len(results)
      BY <1>0, <2>1, <2>3
    <3>2. CASE n \in 1..Len(results)
      BY <2>1, <2>2, <2>3, <3>1, <3>2
    <3>3. CASE n = Len(results')
      <4>1. results[m].slot \in Answered /\ results[m].slot \in SlotsOf(plan)
        BY <3>1, AnsweredType DEF Answered
      <4>2. Before(results[m].slot, slot)
        BY <2>1, <4>1 DEF LoopInv
      <4> QED  BY <2>1, <3>1, <3>3, <4>2
    <3> QED  BY <1>0, <2>1, <3>2, <3>3
  <2>4. ASSUME NEW n \in 1..Len(results), FirstOfService(results, n)
        PROVE  FirstOfService(results', n)
    BY <1>0, <2>1, <2>4 DEF FirstOfService
  <2>5. ASSUME NEW n \in 1..Len(results')
        PROVE  \E m \in 1..n : /\ results'[m].target.service = results'[n].target.service
                               /\ FirstOfService(results', m)
    <3>1. ASSUME NEW k \in 1..Len(results), k <= n,
                 results'[k].target.service = results'[n].target.service
          PROVE  \E m \in 1..n : /\ results'[m].target.service = results'[n].target.service
                                 /\ FirstOfService(results', m)
      <4>1. PICK m \in 1..k : /\ results[m].target.service = results[k].target.service
                              /\ FirstOfService(results, m)
        BY <2>2
      <4>2. m \in 1..Len(results) /\ m \in 1..n
        BY <1>0, <2>1, <3>1
      <4> QED  BY <2>1, <2>4, <3>1, <4>1, <4>2
    <3>2. CASE n \in 1..Len(results)
      BY <3>1, <3>2
    <3>3. CASE n = Len(results')
      <4>1. CASE FirstOfService(results', n)
        BY <1>0, <2>1, <3>3, <4>1
      <4>2. CASE ~FirstOfService(results', n)
        <5>1. PICK k \in 1..(n - 1) :
                 results'[k].target.service = results'[n].target.service
          BY <4>2 DEF FirstOfService
        <5>2. k \in 1..Len(results) /\ k <= n
          BY <1>0, <2>1, <3>3
        <5> QED  BY <3>1, <5>1, <5>2
      <4> QED  BY <4>1, <4>2
    <3> QED  BY <1>0, <2>1, <3>2, <3>3
  <2> QED  BY <2>3, <2>5 DEF OrderInv
<1>3. CASE SortResults
  BY <1>3 DEF SortResults
<1>4. CASE pc = "done" /\ UNCHANGED <<pc, slot, results>>
  BY <1>4
<1> QED  BY <1>1, <1>2, <1>3, <1>4, LoopSteps DEF Run, StartDial

LEMMA OrderInvariant == Spec => []OrderInv
<1>1. Init => OrderInv
  BY DEF Init, OrderInv
<1>2. TypeOK /\ LoopInv /\ OrderInv /\ [Next]_vars => OrderInv'
  BY OrderStep
<1> QED  BY <1>1, <1>2, TypeCorrect, LoopInvariant, PTL DEF Spec

\* serviceOrder ranks a service by its first result.
LEMMA RankIsFirst ==
    ASSUME NEW rs, NEW r, Len(rs) \in Nat,
           NEW m \in 1..Len(rs), rs[m].target.service = r.target.service,
           FirstOfService(rs, m)
    PROVE  ServiceRank(rs, r) = m
<1> DEFINE First1(n) == /\ rs[n].target.service = r.target.service
                        /\ \A k \in 1..(n - 1) : rs[k].target.service # r.target.service
<1>1. First1(m)
  BY DEF FirstOfService
<1>2. ASSUME NEW n \in 1..Len(rs), First1(n) PROVE n = m
  <2>1. ~(n < m) /\ ~(m < n)
    BY <1>1, <1>2
  <2> QED  BY <2>1
<1> QED  BY <1>1, <1>2 DEF ServiceRank

\* A result has the service of the target it was made for, and addresses and
\* attempts are numbers.
LEMMA ResultShape ==
    ASSUME TypeOK, ResultsDescribe, NEW n \in 1..Len(results)
    PROVE  /\ results[n].slot.target \in 1..Len(plan)
           /\ results[n].target.service = plan[results[n].slot.target].service
           /\ results[n].target.address \in Nat /\ results[n].attempt \in Nat
<1>1. results[n] \in Result /\ results[n].slot \in SlotsOf(plan)
  BY AnsweredType DEF TypeOK
<1>2. results[n].slot.target \in 1..Len(plan) /\ plan[results[n].slot.target] \in Target
  BY <1>1, SlotShape, PlanShape DEF TypeOK
<1>3. results[n].target.service = plan[results[n].slot.target].service
  BY <1>2 DEF ResultsDescribe, IpTarget, Target
<1> QED  BY <1>1, <1>2, <1>3, AddressAssumption DEF Result, Target

\* The plan has introduced the service of one result before that of another if
\* the first ranks before it.
LEMMA RankFollowsPlan ==
    ASSUME TypeOK, LoopInv, OrderInv, pc = "sort",
           NEW x \in 1..Len(results), NEW y \in 1..Len(results), x < y,
           FirstOfService(results, y)
    PROVE  \E m \in 1..Len(plan) :
              /\ plan[m].service = results[x].target.service
              /\ \A k \in 1..m : plan[k].service # results[y].target.service
<1> DEFINE m == results[x].slot.target
           svc == results[y].target.service
<1>0. /\ Len(results) \in Nat /\ m \in 1..Len(plan) /\ Len(plan) \in Nat
      /\ plan[m].service = results[x].target.service
  BY ResultShape, PlanShape DEF LoopInv, TypeOK
<1>1. \A n \in 1..(y - 1) : results[n].target.service # svc
  BY DEF FirstOfService
<1>2. ASSUME NEW k \in 1..m, plan[k].service = svc PROVE FALSE
  <2>1. k \in 1..Len(plan)
    BY <1>0
  <2>2. At(k, 1, 1) \in SlotsOf(plan)
    <3>1. 1 \in 1..Len(Ips(plan[k])) /\ 1 \in 1..Attempts(plan[k])
      BY <2>1, PlanShape, TargetShape DEF TypeOK
    <3> QED  BY <2>1, <3>1, SlotIntro DEF At, TypeOK
  <2>3. PICK n \in 1..Len(results) : results[n].slot = At(k, 1, 1)
    BY <2>2 DEF LoopInv, Answered
  <2>4. results[n].slot.target = k
    BY <2>3 DEF At
  <2>5. results[n].target.service = svc
    BY <1>2, <2>4, ResultShape DEF LoopInv
  <2>6. ~(x < n) \/ m <= k
    <3>1. x < n => Before(results[x].slot, results[n].slot)
      BY DEF OrderInv
    <3>2. m \in Int /\ k \in Int
      BY <1>0, <2>1
    <3> QED  BY <2>4, <3>1, <3>2 DEF Before
  <2>7. CASE k = m
    <3>1. x \in 1..(y - 1)
      BY <1>0
    <3> QED  BY <1>0, <1>1, <1>2, <2>7, <3>1
  <2>8. CASE k < m
    <3>1. n \in 1..(y - 1)
      BY <1>0, <2>4, <2>6, <2>8
    <3> QED  BY <1>1, <2>5, <3>1
  <2> QED  BY <1>0, <2>7, <2>8
<1> QED  BY <1>0, <1>2

LEMMA SortOrders ==
    ASSUME TypeOK, LoopInv, OrderInv, SortResults
    PROVE  ReportKeepsPlanOrder'
<1> DEFINE Sooner(s, t) == \E m \in 1..Len(plan) :
                               /\ plan[m].service = s
                               /\ \A k \in 1..m : plan[k].service # t
<1>0. Len(results) \in Nat /\ pc = "sort" /\ plan' = plan
  BY DEF TypeOK, SortResults, config
<1>1. /\ Len(results') = Len(results)
      /\ \A n \in 1..Len(results) : \E m \in 1..Len(results) : results'[n] = results[m]
  BY SortKeeps DEF LoopInv
<1>2. \A i, j \in 1..Len(results) :
         i < j => ~Precedes(results, results'[j], results'[i])
  BY DEF SortResults
<1>3. ASSUME NEW i \in 1..Len(results), NEW j \in 1..Len(results), i < j
      PROVE  LET a == results'[i]
                 b == results'[j]
             IN  \/ Sooner(a.target.service, b.target.service)
                 \/ /\ a.target.service = b.target.service
                    /\ \/ a.target.address < b.target.address
                       \/ /\ a.target.address = b.target.address
                          /\ a.attempt <= b.attempt
  <2> DEFINE a == results'[i]
             b == results'[j]
  <2>1. PICK p \in 1..Len(results) : a = results[p]
    BY <1>1
  <2>2. PICK q \in 1..Len(results) : b = results[q]
    BY <1>1
  <2>3. PICK x \in 1..p : /\ results[x].target.service = a.target.service
                          /\ FirstOfService(results, x)
    BY <1>0, <2>1 DEF OrderInv
  <2>4. PICK y \in 1..q : /\ results[y].target.service = b.target.service
                          /\ FirstOfService(results, y)
    BY <1>0, <2>2 DEF OrderInv
  <2>5. x \in 1..Len(results) /\ y \in 1..Len(results)
    BY <1>0
  <2>6. ServiceRank(results, a) = x /\ ServiceRank(results, b) = y
    BY <1>0, <2>3, <2>4, <2>5, RankIsFirst
  <2>7. /\ a.target.address \in Nat /\ a.attempt \in Nat
        /\ b.target.address \in Nat /\ b.attempt \in Nat
    BY <2>1, <2>2, ResultShape DEF LoopInv
  <2>8. ~Precedes(results, b, a)
    BY <1>2, <1>3
  <2>9. ~(y < x)
    BY <2>6, <2>8 DEF Precedes
  <2>10. CASE x = y
    <3>1. /\ ~(b.target.address < a.target.address)
          /\ ~(b.target.address = a.target.address /\ b.attempt < a.attempt)
      BY <2>6, <2>8, <2>10 DEF Precedes
    <3> QED  BY <2>3, <2>4, <2>7, <2>10, <3>1
  <2>11. CASE x < y
    <3>1. Sooner(a.target.service, b.target.service)
      BY <1>0, <2>3, <2>4, <2>5, <2>11, RankFollowsPlan
    <3> QED  BY <3>1
  <2> QED  BY <2>5, <2>9, <2>10, <2>11
<1> QED  BY <1>0, <1>1, <1>3 DEF ReportKeepsPlanOrder

LEMMA ReportStep ==
    TypeOK /\ LoopInv /\ OrderInv /\ ReportKeepsPlanOrder /\ [Next]_vars
        => ReportKeepsPlanOrder'
<1> SUFFICES ASSUME TypeOK, LoopInv, OrderInv, ReportKeepsPlanOrder, [Next]_vars,
                    pc' = "done"
             PROVE  ReportKeepsPlanOrder'
  BY DEF ReportKeepsPlanOrder
<1>1. CASE UNCHANGED <<pc, slot, results>>
  <2>1. plan' = plan
    BY LoopSteps
  <2> QED  BY <1>1, <2>1 DEF ReportKeepsPlanOrder
<1>2. ASSUME NEW r \in Result, Ends(r) PROVE FALSE
  BY <1>2 DEF Ends, Report
<1> QED  BY <1>1, <1>2, SortOrders, LoopSteps DEF Run, StartDial

\* Whatever order equal results come out of the sort in, the report lists the
\* services as the plan introduces them.
THEOREM ReportIsInPlanOrder == Spec => []ReportKeepsPlanOrder
<1>1. Init => ReportKeepsPlanOrder
  BY DEF Init, ReportKeepsPlanOrder
<1>2. TypeOK /\ LoopInv /\ OrderInv /\ ReportKeepsPlanOrder /\ [Next]_vars
        => ReportKeepsPlanOrder'
  BY ReportStep
<1> QED  BY <1>1, <1>2, TypeCorrect, LoopInvariant, OrderInvariant, PTL DEF Spec
=============================================================================
