---------------------------- MODULE ProbeMatrix ----------------------------
(***************************************************************************)
(* What the probe engine promises, without how: every attempt of the plan  *)
(* is answered exactly once, with a verdict the target can have, and the   *)
(* report is closed only when nothing is left unanswered.  README.md:41    *)
(* ("an entry per probe attempt") and :95 (attempts per (SNI, ALPN, IP)).  *)
(***************************************************************************)
EXTENDS Targets

CONSTANT Plans   \* the plans that may be executed

VARIABLES
    plan,     \* the plan being executed
    answer,   \* the verdicts given so far, by slot
    phase     \* "open", "closed", or "refused" when it never started

vars == <<plan, answer, phase>>

\* The verdicts a probe of t can end with.
VerdictsFor(t) ==
    {v \in Verdict :
        /\ v = "proxy_config_error" <=> Proxied(t) /\ t.proxyURL \notin HttpURL
        /\ v = "host_ca_unavailable" => t.trust = "host_ca"}

Init ==
    /\ plan \in Plans
    /\ answer = [s \in {} |-> Success]
    /\ phase = "open"

Answer(s, v) ==
    /\ phase = "open"
    /\ s \in SlotsOf(plan) \ DOMAIN answer
    /\ v \in VerdictsFor(plan[s.target])
    /\ answer' = [r \in DOMAIN answer \cup {s} |->
                     IF r = s THEN v ELSE answer[r]]
    /\ UNCHANGED <<plan, phase>>

Close ==
    /\ phase = "open"
    /\ SlotsOf(plan) \subseteq DOMAIN answer
    /\ phase' = "closed"
    /\ UNCHANGED <<plan, answer>>

Refuse ==
    /\ phase = "open"
    /\ DOMAIN answer = {}
    /\ phase' = "refused"
    /\ UNCHANGED <<plan, answer>>

Next ==
    \/ \E s \in SlotsOf(plan), v \in Verdict : Answer(s, v)
    \/ Close
    \/ Refuse

Spec == Init /\ [][Next]_vars
=============================================================================
