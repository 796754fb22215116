----------------------------- MODULE Resolution -----------------------------
(***************************************************************************)
(* What resolving the runtime promises, without profiles, ports, retries   *)
(* and certificates: a proxy is located and asked about itself; then it    *)
(* and the endpoints it named are asked for the host CA bundle, each once  *)
(* as it is written, until one of them gives it; and this comes to an end. *)
(* README.md:119-122, config/runtime.go.                                   *)
(***************************************************************************)
EXTENDS Naturals, Sequences

CONSTANTS
    Endpoint,   \* where requests are sent, as written
    Bundle,     \* host CA bundles
    NoBundle

VARIABLES
    state,      \* "locating", "asking", "collecting", "resolved" or "failed"
    left,       \* the endpoints that are still to be asked, the next one first
    bundle

vars == <<state, left, bundle>>

\* A command line that is not understood has failed before it began.
Init ==
    /\ state \in {"locating", "failed"}
    /\ left = <<>>
    /\ bundle = NoBundle

Locate ==
    /\ state = "locating"
    /\ state' = "asking"
    /\ left' \in Seq(Endpoint) /\ Len(left') = 1
    /\ UNCHANGED bundle

GiveUp ==
    /\ state \in {"locating", "asking"}
    /\ state' = "failed"
    /\ left' = <<>>
    /\ UNCHANGED bundle

\* The proxy's answer: the endpoint it was reached by stays among them.
Learn ==
    /\ state = "asking"
    /\ state' = "collecting"
    /\ left' \in Seq(Endpoint)
    /\ \A m, n \in DOMAIN left' : m # n => left'[m] # left'[n]
    /\ \E n \in DOMAIN left' : left'[n] = Head(left)
    /\ UNCHANGED bundle

PassOver ==
    /\ state = "collecting"
    /\ left' = Tail(left)
    /\ state' = IF left' = <<>> THEN "failed" ELSE "collecting"
    /\ UNCHANGED bundle

Collect ==
    /\ state = "collecting"
    /\ state' = "resolved"
    /\ bundle' \in Bundle
    /\ UNCHANGED left

Next == Locate \/ GiveUp \/ Learn \/ PassOver \/ Collect

Spec == Init /\ [][Next]_vars

Ends == <>(state \in {"resolved", "failed"})
=============================================================================
