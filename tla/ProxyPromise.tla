---------------------------- MODULE ProxyPromise ----------------------------
(***************************************************************************)
(* What clients and `hostai replace` may rely on in the local proxy, with  *)
(* its threads, sockets and probes left out: there is one machine it is    *)
(* bound to, one machine its open forward leads to, and a gate.            *)
(* ProxyUpstream implements it; Deployment is composed with it.            *)
(***************************************************************************)
CONSTANTS Machines, First, None

VARIABLES
    tracked,       \* the instance id in state.json
    bound,         \* the instance id /_hostai/backend reports
    ready,         \* the gate: FALSE answers 503
    leads          \* the machine the open forward leads to, or None

promiseVars == <<tracked, bound, ready, leads>>

Init ==
    /\ tracked = First /\ bound = First
    /\ ready = FALSE
    /\ leads = None

\* `hostai replace` rewrites state.json, or `hostai down` removes it.
Flipped(m) ==
    tracked' = m /\ UNCHANGED <<bound, ready, leads>>

\* The proxy writes its own copy of the state back.
SavedBack == tracked' = bound /\ UNCHANGED <<bound, ready, leads>>

\* The only step that changes the machine closes the gate with it.
Rebound ==
    /\ tracked \notin {bound, None} /\ bound' = tracked
    /\ ready' = FALSE
    /\ UNCHANGED <<tracked, leads>>

\* A forward opens to the bound machine only.
Forwarded == leads' = bound /\ UNCHANGED <<tracked, bound, ready>>

Unforwarded == leads' = None /\ UNCHANGED <<tracked, bound, ready>>

\* The gate opens only when no forward leads anywhere else.
Opened == leads \in {None, bound} /\ ready' = TRUE /\ UNCHANGED <<tracked, bound, leads>>

Closed == ready' = FALSE /\ leads' \in {None, leads} /\ UNCHANGED <<tracked, bound>>

Next ==
    \/ \E m \in Machines \cup {None} : Flipped(m)
    \/ SavedBack \/ Rebound \/ Forwarded \/ Unforwarded \/ Opened \/ Closed

Spec == Init /\ [][Next]_promiseVars
============================================================================
