--------------------------- MODULE MCVMReconciler ---------------------------
(***************************************************************************)
(* Instances of VMReconciler for TLC: VMs as the admission webhook leaves   *)
(* them, each with the boot sources that go with its markers.              *)
(***************************************************************************)
EXTENDS VMReconciler, TLC

Admitted(os) ==
    [Blank EXCEPT !["os"] = os,
                  !["bootstrap-managed"] = "true",
                  !["logging-enabled"] = "true",
                  !["bootstrap-os"] =
                      IF os \in {"linux", "windows"} THEN os ELSE "unknown",
                  !["exporter"] =
                      CASE os = "linux" -> "node_exporter"
                        [] os = "windows" -> "windows_exporter"
                        [] OTHER -> "unknown"]

NoSource == [sysprep |-> "none", cloudinit |-> "none"]

Plain(o) == [vm |-> o, source |-> NoSource]

\* The inline user data did not take the bootstrap: repair over SSH.
ToRemediate(os) ==
    Plain([Admitted(os) EXCEPT !["remediation-required"] = "true"])

ToMergeSysprep ==
    { [vm |-> [Admitted("windows") EXCEPT !["sysprep-merge-required"] = "true"],
       source |-> [NoSource EXCEPT !.sysprep = s]] : s \in {"plain", "opaque"} }

ToMergeCloudInit(os) ==
    { [vm |-> [Admitted(os) EXCEPT !["cloudinit-secret-merge-required"] = "true"],
       source |-> [NoSource EXCEPT !.cloudinit = s]] : s \in {"missing", "plain"} }

\* A VM that opted out, one without an OS label, one for each OS and marker.
AllVMs ==
    {Plain(Blank), Plain(Admitted("")), Plain(Admitted("linux")),
     Plain(Admitted("windows")), ToRemediate("linux"), ToRemediate("windows")}
    \cup ToMergeSysprep \cup ToMergeCloudInit("linux") \cup ToMergeCloudInit("windows")
=============================================================================
