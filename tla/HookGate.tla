------------------------------ MODULE HookGate ------------------------------
(***************************************************************************)
(* What a gating hook promises its host: the host waits, the harness may   *)
(* record decisions, and the host goes ahead only on Allow.  A host that   *)
(* waits no longer than the hook may take is promised less: it may abandon *)
(* the hook, and go ahead on nothing.                                      *)
(***************************************************************************)
EXTENDS HookEvents

CONSTANTS Requests, Gating(_)
VARIABLES input,
          patient,    \* whether the host outwaits the hook
          recorded, verdict
vars == <<input, patient, recorded, verdict>>

Init ==
    /\ input \in Requests
    /\ patient \in BOOLEAN
    /\ recorded = {}
    /\ verdict = "pending"

\* A decision made after the hook answered cannot concern a host that went on.
Record(d) ==
    /\ ~(Gating(input) /\ verdict = "proceed")
    /\ recorded' = recorded \cup {d}
    /\ UNCHANGED <<input, patient, verdict>>

Conclude(v) ==
    /\ verdict = "pending"
    /\ Gating(input) /\ v = "proceed" => recorded = {"Allow"}
    /\ Gating(input) /\ v = "asked" =>
            "Escalate" \in recorded /\ "Deny" \notin recorded
    /\ verdict' = v
    /\ UNCHANGED <<input, patient, recorded>>

\* The host gives the hook up.
Abandon ==
    /\ verdict = "pending"
    /\ ~(Gating(input) /\ patient)
    /\ verdict' = "abandoned"
    /\ UNCHANGED <<input, patient, recorded>>

Next ==
    \/ \E d \in Decisions : Record(d)
    \/ \E v \in {"proceed", "refused", "asked"} : Conclude(v)
    \/ Abandon

Spec == Init /\ [][Next]_vars
=============================================================================
