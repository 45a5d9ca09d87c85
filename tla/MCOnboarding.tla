---------------------------- MODULE MCOnboarding ----------------------------
(***************************************************************************)
(* An instance of Onboarding for TLC: VMs that existed before the operator  *)
(* was deployed, and VMs that the webhook admitted without a known OS.      *)
(***************************************************************************)
EXTENDS Onboarding, TLC

Unmanaged(os) == [Blank EXCEPT !["os"] = os]

AdmittedUnknown(os) ==
    [Blank EXCEPT !["os"] = os,
                  !["bootstrap-managed"] = "true",
                  !["logging-enabled"] = "true",
                  !["bootstrap-os"] = "unknown",
                  !["exporter"] = "unknown"]

NoSource == [sysprep |-> "none", cloudinit |-> "none"]

ExistingVMs ==
    { [vm |-> o, source |-> NoSource] :
        o \in {Unmanaged(os) : os \in {"", "linux", "windows", "oracle"}}
              \cup {AdmittedUnknown(os) : os \in {"", "oracle"}} }
=============================================================================
