------------------------------- MODULE FreeSide -------------------------------
(***************************************************************************)
(* What MAINAGER does without spending: a plan is estimated, the history   *)
(* is compared with today's prices, the claims about the provider are      *)
(* measured again, the drift is logged.  Each is a process of its own, for *)
(* itself; they share the router, the registry and the reconciliation.     *)
(***************************************************************************)
EXTENDS Planner, Overspend, DriftLog, Verification

VARIABLE job            \* what this process was started for

allVars == <<vars, reportVars, driftVars, verifyVars, job>>

FreeInit ==
    /\ Init
    /\ ReportInit
    /\ DriftInit
    /\ VerifyInit
    /\ job \in {"plan", "overspend", "drift", "verify"}
    \* What the job does not look at has one value.
    /\ job # "plan" => account = CHOOSE a \in Accounts : TRUE
    /\ job # "drift" => /\ Live = CHOOSE m \in Markets : TRUE
                        /\ remote = <<ReadingOf[Live.catalog][Live.sent]>>

Planning ==
    /\ job = "plan"
    /\ Next
    /\ UNCHANGED <<reportVars, driftVars, verifyVars, job>>

Reporting ==
    /\ job = "overspend"
    /\ Report \/ \E raw \in Histories : ReadHistory(raw)
    /\ UNCHANGED <<planVars, driftVars, verifyVars, job>>

Drifting ==
    /\ job = "drift"
    /\ DriftNext
    /\ UNCHANGED <<vars, reportVars, verifyVars, job>>

VerifyingClaims ==
    /\ job = "verify"
    /\ VerifyNext
    /\ UNCHANGED <<vars, reportVars, driftVars, job>>

FreeNext == Planning \/ Reporting \/ Drifting \/ VerifyingClaims

FreeSpec ==
    /\ FreeInit
    /\ [][FreeNext]_allVars
    /\ WF_vars(Proceed)
    /\ job = "drift" => DriftFairness
=============================================================================
