----------------------------- MODULE VMLifecycle -----------------------------
(***************************************************************************)
(* What the operator promises about one VirtualMachine, without informers,  *)
(* patches, crashes or SSH: a request for remediation stays open until the  *)
(* guest is repaired, it is never opened again by the operator itself, and  *)
(* no VM becomes ready while its request is open.                           *)
(***************************************************************************)
CONSTANT Phase    \* the values of the status annotation

VARIABLES
    phase,     \* the status reported for the VM
    open,      \* is a request for remediation outstanding?
    repaired   \* has the install script or the guest's own bootstrap succeeded?

vars == <<phase, open, repaired>>

Init ==
    /\ phase \in Phase \ {"ready"}
    /\ open \in BOOLEAN
    /\ repaired = FALSE

\* The install script or the guest's own bootstrap succeeds.
Repair ==
    /\ repaired' = TRUE
    /\ UNCHANGED <<phase, open>>

\* One write to the VM may close the request and change the status together.
Report ==
    /\ phase' \in Phase
    /\ open' \in {open, FALSE}
    /\ open /\ ~open' => repaired
    /\ phase # "ready" /\ phase' = "ready" => ~open'
    /\ UNCHANGED repaired

Next == Repair \/ Report

Spec == Init /\ [][Next]_vars
=============================================================================
