---------------------------- MODULE VMReconciler ----------------------------
(***************************************************************************)
(* The reconcile loop of one VirtualMachine (controllers/vm_controller.go). *)
(*                                                                         *)
(* The operator reads the VM from an informer cache that lags the API      *)
(* server, works for seconds to minutes on a private copy (SSH into the     *)
(* guest, TCP probes) and writes back merge patches without optimistic      *)
(* locking.  One step of the model is one read-and-decide block of the      *)
(* code, one run of a script in the guest or one API write; everything else *)
(* (the guest, the VMI, kvoctl's secrets, crashes, failing requests) may    *)
(* move between two steps.                                                  *)
(***************************************************************************)
EXTENDS Naturals

CONSTANTS
    Token,            \* versions of the Loki writer token
    InitialVMs,       \* VMs as they leave admission, with their boot sources
    MaxDisturbances   \* bound: environment changes and faults in a behaviour

VARIABLES
    api,          \* the VM's metadata on the API server
    cache,        \* the informer's copy of it
    watch,        \* is a watch event under way from one to the other?
    queued,       \* is the VM in the work queue?
    delayed,      \* is a RequeueAfter or a rate-limited retry pending?
    pc,           \* where the worker is in Reconcile ("idle": not in it)
    vm,           \* the worker's copy of the VM
    draft,        \* the modified copy that the pending patch carries
    resume,       \* where Reconcile goes on once that patch has succeeded
    seen,         \* what the worker read in the guest and of the token
    vmi,          \* "absent", "noIP" or "running"
    guest,        \* the guest OS: reachability, exporter, marker file, Alloy
    keys,         \* SSH secrets of kubevirt-observability-system
    token,        \* the Loki writer token, Absent before kvoctl deploy
    issued,       \* the tokens there have been
    source,       \* sysprep and cloud-init sources the VM boots from
    disturbances  \* environment changes and faults still allowed

worker  == <<pc, vm, draft, resume, seen>>
queue   == <<queued, delayed>>
cluster == <<vmi, keys, token, issued>>
vars == <<api, cache, watch, queue, worker, cluster, guest, source, disturbances>>

Status == {"pending", "ready", "skipped"}

Reason ==
    {"missing-os-label", "monitoring-secret-error", "waiting-for-vmi",
     "waiting-for-ip", "waiting-for-vmi-for-remediation",
     "waiting-for-ip-for-remediation", "waiting-for-ssh-for-remediation",
     "linux-ssh-user-missing", "waiting-for-bootstrap-state",
     "bootstrap-in-progress", "alloy-install-failed", "verified"}

Key ==
    {"os",  \* the label kubevirt.io/os; the others are annotations
     "bootstrap-managed", "bootstrap-os", "exporter", "status", "reason",
     "logging-enabled", "ssh-bootstrap-complete",
     "remediation-required", "remediation-completed", "remediation-error",
     "bootstrap-started-at", "bootstrap-ready",
     "sysprep-merge-required", "sysprep-merged", "sysprep-merge-error",
     "cloudinit-secret-merge-required", "cloudinit-secret-merged",
     "cloudinit-secret-merge-error", "alloy-config-hash", "alloy-error"}

\* A timestamp is "recent" or, 10 minutes on, "expired".  alloy-installed is
\* written with alloy-config-hash and only with it: the hash stands for both,
\* and the token stands for the hash of the rendered configuration.
Val ==
    {"", "true", "false", "error", "recent", "expired"}
    \cup {"linux", "windows", "oracle", "unknown"}
    \cup {"node_exporter", "windows_exporter"}
    \cup Status \cup Reason \cup Token

INSTANCE KubeObject

Source   == {"none", "missing", "opaque", "plain", "merged"}
BootSource == [sysprep : Source, cloudinit : Source]
Seen     == [exporter : BOOLEAN, marker : {"unknown", "success", "failed"},
             token : Token \cup {Absent}]
Guest    == [ssh : BOOLEAN, exporter : BOOLEAN, remedied : BOOLEAN,
             marker : {"unknown", "success", "failed"},
             alloy : Token \cup {Absent}]
Keys     == {"none", "public", "noUser", "complete"}

\* Where Reconcile can be between two steps.
Location ==
    {"idle", "entry", "remediation", "connect", "script", "sysprep",
     "cloudinit", "vmi", "probe", "alloy", "install", "record",
     "alloyFailed", "finish", "verified", "patch"}
Returns == {"done", "requeue"}

NothingSeen == [exporter |-> FALSE, marker |-> "unknown", token |-> Absent]

\* What a VM carries before the operator has reconciled it for the first time.
OperatorOwned ==
    {"status", "reason", "remediation-completed", "remediation-error",
     "bootstrap-started-at", "bootstrap-ready", "sysprep-merged",
     "sysprep-merge-error", "cloudinit-secret-merged",
     "cloudinit-secret-merge-error", "alloy-config-hash", "alloy-error"}

ASSUME TokenAssumption == Token \cap {"", "true", "false"} = {}
ASSUME InitialVMsAssumption ==
    \A i \in InitialVMs :
        /\ i.vm \in Metadata
        /\ \A k \in OperatorOwned : i.vm[k] = Absent
        /\ i.source \in [sysprep : Source \ {"merged"},
                         cloudinit : Source \ {"merged"}]
ASSUME DisturbancesAssumption == MaxDisturbances \in Nat

(***************************************************************************)
(* The VM as the code reads it.                                            *)
(***************************************************************************)

\* osdetect.Detect: "oracle" stands for the labels it does not know.
DetectOS(o) == IF o["os"] \in {"linux", "windows"} THEN o["os"] ELSE "unknown"

Managed(o) == o["bootstrap-managed"] = "true"

MarkedUnknown(o) == "unknown" \in {o["bootstrap-os"], o["exporter"]}

MutantTimedOut(o) == FALSE

\* bootstrapTimedOut: only a stamp that is there and 10 minutes old counts.
TimedOut(o) == o["bootstrap-started-at"] = "expired"

SSHUp == vmi = "running" /\ guest.ssh
ExporterUp == vmi = "running" /\ guest.exporter

HasPrivateKey == keys \in {"noUser", "complete"}

Init ==
    /\ \E i \in InitialVMs : api = i.vm /\ source = i.source
    /\ cache = api
    /\ watch = FALSE
    /\ queued = TRUE
    /\ delayed = FALSE
    /\ pc = "idle"
    /\ vm = Blank
    /\ draft = Blank
    /\ resume = "done"
    /\ seen = NothingSeen
    /\ vmi \in {"absent", "running"}
    /\ \E ssh, exporter \in BOOLEAN :
         guest = [ssh |-> ssh, exporter |-> exporter, remedied |-> FALSE,
                  marker |-> "unknown", alloy |-> Absent]
    /\ keys = "complete"
    /\ token \in Token \cup {Absent}
    /\ issued = {token} \ {Absent}
    /\ disturbances = MaxDisturbances

(***************************************************************************)
(* How a step of Reconcile ends.                                           *)
(***************************************************************************)

\* A fault, or a change the operator does not make: each uses up one.
Disturbed == disturbances > 0 /\ disturbances' = disturbances - 1

KeepSeen == seen' = IF pc' = "idle" THEN NothingSeen ELSE seen

\* The worker goes on at `at`, or returns ("done"), or returns asking to be
\* called again ("requeue": RequeueAfter, or an error that is retried).
Continue(at, o) ==
    /\ pc' = IF at \in Returns THEN "idle" ELSE at
    /\ vm' = IF at \in Returns THEN Blank ELSE o
    /\ delayed' = (delayed \/ at = "requeue")
    /\ draft' = Blank
    /\ resume' = "done"

\* The worker has prepared the copy `mod` and calls Patch with it.
Write(mod, at) ==
    /\ pc' = "patch"
    /\ draft' = mod
    /\ resume' = at
    /\ UNCHANGED <<vm, delayed>>

MutantMark(status, reason) ==
    LET return == IF status \in {"ready", "skipped"} THEN "done" ELSE "requeue"
    IN  IF vm["reason"] = reason
        THEN Continue(return, vm)
        ELSE Write([vm EXCEPT !["status"] = status, !["reason"] = reason],
                   return)

MutantMarkDone(status, reason) ==
    IF vm["status"] = status /\ vm["reason"] = reason
    THEN Continue("done", vm)
    ELSE Write([vm EXCEPT !["status"] = status, !["reason"] = reason], "requeue")

\* mark: no request when the pair is already there.
Mark(status, reason) ==
    LET return == IF status \in {"ready", "skipped"} THEN "done" ELSE "requeue"
    IN  IF vm["status"] = status /\ vm["reason"] = reason
        THEN Continue(return, vm)
        ELSE Write([vm EXCEPT !["status"] = status, !["reason"] = reason],
                   return)

\* The API server stores the object and, if it differs, notifies its watchers.
Store(obj) == api' = obj /\ watch' = (watch \/ obj # api)

\* A step that reads, decides and changes nothing outside the worker.
Thinks == KeepSeen /\ UNCHANGED <<api, cache, watch, queued, cluster, guest, source>>

(***************************************************************************)
(* Reconcile, from the top to the end of the namespace's resources.        *)
(***************************************************************************)

\* The controller takes the VM from the queue and reads it from the cache.
StartReconcile ==
    /\ pc = "idle"
    /\ queued
    /\ queued' = FALSE
    /\ pc' = "entry"
    /\ vm' = cache
    /\ UNCHANGED <<api, cache, watch, delayed, draft, resume, seen, cluster, guest,
                   source, disturbances>>

IgnoreUnmanaged ==
    /\ pc = "entry"
    /\ ~Managed(vm)
    /\ Continue("done", vm)
    /\ Thinks
    /\ UNCHANGED disturbances

\* The webhook saw no OS label; there is one by now.
ForgetUnknownOS ==
    /\ pc = "entry"
    /\ Managed(vm)
    /\ DetectOS(vm) # "unknown"
    /\ MarkedUnknown(vm)
    /\ Write(Without(vm, {"bootstrap-os", "exporter", "reason", "status"}),
             "requeue")
    /\ Thinks
    /\ UNCHANGED disturbances

SkipUnknownOS ==
    /\ pc = "entry"
    /\ Managed(vm)
    /\ DetectOS(vm) = "unknown"
    /\ Mark("skipped", "missing-os-label")
    /\ Thinks
    /\ UNCHANGED disturbances

\* Namespace label, alerting, monitoring secret and Loki RBAC (the module
\* NamespaceResources has the detail): all there, a request fails, or the
\* source secret is missing, which Windows VMs report as an error.
EnsureNamespace ==
    /\ pc = "entry"
    /\ Managed(vm)
    /\ DetectOS(vm) # "unknown"
    /\ ~MarkedUnknown(vm)
    /\ \/ /\ keys # "none"
          /\ Continue("remediation", vm)
          /\ UNCHANGED disturbances
       \/ /\ keys = "none"
          /\ IF DetectOS(vm) = "windows"
             THEN Continue("requeue", vm)
             ELSE Mark("pending", "monitoring-secret-error")
          /\ UNCHANGED disturbances
       \/ /\ Disturbed
          /\ \/ Continue("requeue", vm)
             \/ Mark("pending", "monitoring-secret-error")
    /\ Thinks

(***************************************************************************)
(* The remediation branch: repair the guest over SSH.                      *)
(***************************************************************************)

MutantRemediationNotRequired ==
    /\ pc = "remediation"
    /\ vm["remediation-required"] # "true" \/ vmi # "running"
    /\ Continue("sysprep", vm)
    /\ Thinks
    /\ UNCHANGED disturbances

RemediationNotRequired ==
    /\ pc = "remediation"
    /\ vm["remediation-required"] # "true"
    /\ Continue("sysprep", vm)
    /\ Thinks
    /\ UNCHANGED disturbances

MutantUnstamped(o) == TRUE

Unstamped(o) == o["bootstrap-started-at"] = Absent

\* No VMI, no address, or the first attempt: stamp the start of the bootstrap.
PrepareRemediation ==
    /\ pc = "remediation"
    /\ vm["remediation-required"] = "true"
    /\ \/ /\ vmi = "absent"
          /\ Mark("pending", "waiting-for-vmi-for-remediation")
       \/ /\ vmi = "noIP"
          /\ Mark("pending", "waiting-for-ip-for-remediation")
       \/ /\ vmi = "running"
          /\ Unstamped(vm)
          /\ Write([vm EXCEPT !["bootstrap-started-at"] = "recent"], "connect")
       \/ /\ vmi = "running"
          /\ ~Unstamped(vm)
          /\ Continue("connect", vm)
    /\ Thinks
    /\ UNCHANGED disturbances

MutantRemediationError ==
    Write([Without(vm, {"remediation-required"}) EXCEPT
               !["remediation-completed"] = "true"], "requeue")

\* markRemediation(false, err) and a retry in 30 seconds.
RemediationError == Write([vm EXCEPT !["remediation-error"] = "error"], "requeue")

ConnectLinux ==
    /\ pc = "connect"
    /\ DetectOS(vm) = "linux"
    /\ \/ /\ ~SSHUp
          /\ Mark("pending", "waiting-for-ssh-for-remediation")
       \/ /\ SSHUp
          /\ ~HasPrivateKey
          /\ RemediationError
       \/ /\ SSHUp
          /\ keys = "noUser"
          /\ Mark("pending", "linux-ssh-user-missing")
       \/ /\ SSHUp
          /\ keys = "complete"
          /\ Continue("script", vm)
    /\ Thinks
    /\ UNCHANGED disturbances

MutantBootstrapMayStillRun(o) ==
    guest.marker = "unknown" /\ o["ssh-bootstrap-complete"] # "true" /\ Unstamped(o)

\* Marker "unknown": the guest's own bootstrap may be running.  It is left
\* alone for 10 minutes, unless kvoctl has set up SSH in an existing guest.
BootstrapMayStillRun(o) ==
    guest.marker = "unknown" /\ o["ssh-bootstrap-complete"] # "true" /\ ~TimedOut(o)

ConnectWindows ==
    /\ pc = "connect"
    /\ DetectOS(vm) = "windows"
    /\ \/ /\ ~HasPrivateKey
          /\ RemediationError
       \/ /\ HasPrivateKey
          /\ ~SSHUp
          /\ Mark("pending", "waiting-for-bootstrap-state")
       \/ /\ HasPrivateKey
          /\ SSHUp
          /\ guest.marker = "success"
          /\ Write([Without(vm, {"alloy-error"}) EXCEPT
                        !["remediation-required"] = "false"], "requeue")
       \/ /\ HasPrivateKey
          /\ SSHUp
          /\ BootstrapMayStillRun(vm)
          /\ Mark("pending", "bootstrap-in-progress")
       \/ /\ HasPrivateKey
          /\ SSHUp
          /\ guest.marker # "success"
          /\ ~BootstrapMayStillRun(vm)
          /\ Continue("script", vm)
    /\ Thinks
    /\ UNCHANGED disturbances

\* RunLinuxBootstrap and RunWindowsSSHBootstrap with the exporter's install
\* script, to the end; then markRemediation(true).
RunScript ==
    /\ pc = "script"
    /\ SSHUp
    /\ guest' = [guest EXCEPT !.exporter = TRUE, !.remedied = TRUE]
    /\ Write([Without(vm, {"remediation-error", "remediation-required"}) EXCEPT
                  !["remediation-completed"] = "true"], "requeue")
    /\ KeepSeen
    /\ UNCHANGED <<api, cache, watch, queued, cluster, source, disturbances>>

\* The guest is gone, or the script or the connection fails on the way: the
\* exporter may be running by then.
ScriptFails ==
    /\ pc = "script"
    /\ \/ /\ ~SSHUp
          /\ UNCHANGED <<guest, disturbances>>
       \/ /\ Disturbed
          /\ \E up \in {guest.exporter, TRUE} : guest' = [guest EXCEPT !.exporter = up]
    /\ RemediationError
    /\ KeepSeen
    /\ UNCHANGED <<api, cache, watch, queued, cluster, source>>

(***************************************************************************)
(* The boot sources: Sysprep ConfigMap or Secret, cloud-init Secret.       *)
(***************************************************************************)

MergePending(o, required, merged) == o[required] = "true" /\ o[merged] # "true"

NoSysprepMerge ==
    /\ pc = "sysprep"
    /\ ~MergePending(vm, "sysprep-merge-required", "sysprep-merged")
    /\ Continue("cloudinit", vm)
    /\ Thinks
    /\ UNCHANGED disturbances

MutantMergeSysprep ==
    /\ pc = "sysprep"
    /\ MergePending(vm, "sysprep-merge-required", "sysprep-merged")
    /\ source.sysprep \in {"plain", "merged"}
    /\ Write([vm EXCEPT !["sysprep-merged"] = "true"], "requeue")
    /\ Thinks
    /\ UNCHANGED disturbances

\* reconcileSysprepSource and markSysprep(true).
MergeSysprep ==
    /\ pc = "sysprep"
    /\ MergePending(vm, "sysprep-merge-required", "sysprep-merged")
    /\ source.sysprep \in {"plain", "merged"}
    /\ source' = [source EXCEPT !.sysprep = "merged"]
    /\ Write([Without(vm, {"sysprep-merge-error"}) EXCEPT
                  !["sysprep-merged"] = "true"], "requeue")
    /\ KeepSeen
    /\ UNCHANGED <<api, cache, watch, queued, cluster, guest, disturbances>>

\* No volume, no source object, no unattend.xml in it, or a failing request.
SysprepFails ==
    /\ pc = "sysprep"
    /\ MergePending(vm, "sysprep-merge-required", "sysprep-merged")
    /\ \/ /\ source.sysprep \in {"none", "missing", "opaque"}
          /\ UNCHANGED disturbances
       \/ Disturbed
    /\ Write([vm EXCEPT !["sysprep-merge-error"] = "error"], "requeue")
    /\ Thinks

MutantNoCloudInitMerge ==
    /\ pc = "cloudinit"
    /\ \/ ~MergePending(vm, "cloudinit-secret-merge-required", "cloudinit-secret-merged")
       \/ vm["cloudinit-secret-merge-error"] # Absent
    /\ Continue("vmi", vm)
    /\ Thinks
    /\ UNCHANGED disturbances

NoCloudInitMerge ==
    /\ pc = "cloudinit"
    /\ ~MergePending(vm, "cloudinit-secret-merge-required", "cloudinit-secret-merged")
    /\ Continue("vmi", vm)
    /\ Thinks
    /\ UNCHANGED disturbances

\* The VM refers to a Secret nobody made: reconcileCloudInitSecret makes it,
\* with an empty cloud-config, and goes on.
CreateCloudInitSecret ==
    /\ pc = "cloudinit"
    /\ MergePending(vm, "cloudinit-secret-merge-required", "cloudinit-secret-merged")
    /\ source.cloudinit = "missing"
    /\ source' = [source EXCEPT !.cloudinit = "plain"]
    /\ UNCHANGED <<api, cache, watch, queue, worker, cluster, guest, disturbances>>

\* Linux needs the SSH user, which is read with the private key.
MergeKeys(o) ==
    IF DetectOS(o) = "linux" THEN keys = "complete" ELSE keys # "none"

\* reconcileCloudInitSecret and markCloudInitSecret(true).
MergeCloudInit ==
    /\ pc = "cloudinit"
    /\ MergePending(vm, "cloudinit-secret-merge-required", "cloudinit-secret-merged")
    /\ source.cloudinit \in {"plain", "merged"}
    /\ MergeKeys(vm)
    /\ source' = [source EXCEPT !.cloudinit = "merged"]
    /\ Write([Without(vm, {"cloudinit-secret-merge-error"}) EXCEPT
                  !["cloudinit-secret-merged"] = "true"], "requeue")
    /\ KeepSeen
    /\ UNCHANGED <<api, cache, watch, queued, cluster, guest, disturbances>>

CloudInitFails ==
    /\ pc = "cloudinit"
    /\ MergePending(vm, "cloudinit-secret-merge-required", "cloudinit-secret-merged")
    /\ \/ /\ \/ source.cloudinit \in {"none", "opaque"}
             \/ source.cloudinit # "missing" /\ ~MergeKeys(vm)
          /\ UNCHANGED disturbances
       \/ Disturbed
    /\ Write([vm EXCEPT !["cloudinit-secret-merge-error"] = "error"], "requeue")
    /\ Thinks

(***************************************************************************)
(* syncMetricsScrapeResources: verification and status.                    *)
(***************************************************************************)

\* No VMI or no address, Service, Endpoints and ServiceMonitor fail, or go on.
SyncScrapeResources ==
    /\ pc = "vmi"
    /\ \/ /\ vmi = "absent"
          /\ Mark("pending", "waiting-for-vmi")
          /\ UNCHANGED disturbances
       \/ /\ vmi = "noIP"
          /\ Mark("pending", "waiting-for-ip")
          /\ UNCHANGED disturbances
       \/ /\ vmi = "running"
          /\ Disturbed
          /\ Continue("requeue", vm)
       \/ /\ vmi = "running"
          /\ Continue("probe", vm)
          /\ UNCHANGED disturbances
    /\ Thinks

MutantBootstrapState ==
    IF DetectOS(vm) = "windows" /\ ~(HasPrivateKey /\ SSHUp)
    THEN "error"
    ELSE guest.marker

\* The marker in a Windows guest; "unknown" when it cannot be read and on Linux.
BootstrapState ==
    IF DetectOS(vm) = "windows" /\ HasPrivateKey /\ SSHUp
    THEN guest.marker
    ELSE "unknown"

\* The bootstrap state and the TCP probe of the exporter's port.
Probe ==
    /\ pc = "probe"
    /\ IF ~ExporterUp /\ BootstrapState = "unknown" /\ ~TimedOut(vm)
       THEN /\ Mark("pending", "bootstrap-in-progress")
            /\ KeepSeen
       ELSE /\ IF BootstrapState = "success"
               THEN Write([Without(vm, {"alloy-error", "reason"}) EXCEPT
                              !["remediation-required"] = "false",
                              !["bootstrap-ready"] = "true"], "alloy")
               ELSE Continue("alloy", vm)
            /\ seen' = [seen EXCEPT !.exporter = ExporterUp,
                                    !.marker = BootstrapState]
    /\ UNCHANGED <<api, cache, watch, queued, cluster, guest, source, disturbances>>

(***************************************************************************)
(* reconcileAlloyIfEnabled.                                                *)
(***************************************************************************)

\* Linux reads the private key and the user before anything else, Windows
\* reads the key only when there is something to install.
AlloyKeysFirst(o) == DetectOS(o) = "linux" => keys = "complete"

AlloyCurrent(o) ==
    AlloyKeysFirst(o) /\ token # Absent /\ o["alloy-config-hash"] = token

\* A Windows guest must have finished its own bootstrap, or a remediation.
AlloyInstallable(o) ==
    /\ AlloyKeysFirst(o)
    /\ token # Absent
    /\ HasPrivateKey
    /\ SSHUp
    /\ DetectOS(o) = "windows" =>
          guest.marker = "success" \/ o["remediation-completed"] = "true"

AlloyError(o) == Write([o EXCEPT !["alloy-error"] = "error"], "alloyFailed")

CheckAlloy ==
    /\ pc = "alloy"
    /\ IF vm["logging-enabled"] # "true" \/ AlloyCurrent(vm)
       THEN Continue("finish", vm) /\ KeepSeen
       ELSE IF AlloyInstallable(vm)
       THEN Continue("install", vm) /\ seen' = [seen EXCEPT !.token = token]
       ELSE AlloyError(vm) /\ KeepSeen
    /\ UNCHANGED <<api, cache, watch, queued, cluster, guest, source, disturbances>>

\* The script with the configuration and the token that were read before.
InstallAlloy ==
    /\ pc = "install"
    /\ SSHUp
    /\ guest' = [guest EXCEPT !.alloy = seen.token]
    /\ pc' = "record"
    /\ UNCHANGED <<api, cache, watch, queue, vm, draft, resume, seen, cluster, source,
                   disturbances>>

MutantInstallAlloyFails ==
    /\ pc = "install"
    /\ ~SSHUp
    /\ pc' = "record"
    /\ UNCHANGED <<api, cache, watch, queue, vm, draft, resume, seen, cluster,
                   guest, source, disturbances>>

InstallAlloyFails ==
    /\ pc = "install"
    /\ \/ ~SSHUp /\ UNCHANGED <<guest, disturbances>>
       \/ /\ Disturbed
          /\ \E cfg \in {guest.alloy, seen.token} : guest' = [guest EXCEPT !.alloy = cfg]
    /\ AlloyError(vm)
    /\ KeepSeen
    /\ UNCHANGED <<api, cache, watch, queued, cluster, source>>

\* The patch that records the installation.  When it fails the reconcile does
\* not return: the failure counts as one of the installation.
RecordAlloy ==
    /\ pc = "record"
    /\ \/ LET mod == [Without(vm, {"alloy-error"}) EXCEPT
                          !["alloy-config-hash"] = seen.token]
          IN  /\ Store(MergePatch(vm, mod, api))
              /\ Continue("finish", api')
              /\ UNCHANGED disturbances
       \/ /\ Disturbed
          /\ AlloyError(vm)
          /\ UNCHANGED <<api, watch>>
    /\ KeepSeen
    /\ UNCHANGED <<cache, queued, cluster, guest, source>>

MarkAlloyFailed ==
    /\ pc = "alloyFailed"
    /\ Mark("pending", "alloy-install-failed")
    /\ Thinks
    /\ UNCHANGED disturbances

MutantClearErrors ==
    /\ pc = "finish"
    /\ Write([Without(vm, {"alloy-error"}) EXCEPT
                  !["remediation-required"] = "false"], "verified")
    /\ Thinks
    /\ UNCHANGED disturbances

ClearErrors ==
    /\ pc = "finish"
    /\ Write([Without(vm, {"alloy-error", "reason"}) EXCEPT
                  !["remediation-required"] = "false"], "verified")
    /\ Thinks
    /\ UNCHANGED disturbances

MarkReady ==
    /\ pc = "verified"
    /\ Mark("ready", "verified")
    /\ Thinks
    /\ UNCHANGED disturbances

(***************************************************************************)
(* The pending patch, and what reports it back.                            *)
(***************************************************************************)

\* The server applies the difference to what it holds and answers with the
\* result, which becomes the worker's copy.
PatchVM ==
    /\ pc = "patch"
    /\ Store(MergePatch(vm, draft, api))
    /\ Continue(resume, api')
    /\ KeepSeen
    /\ UNCHANGED <<cache, queued, cluster, guest, source, disturbances>>

\* Reconcile returns the error; the controller retries after a backoff.
PatchFails ==
    /\ pc = "patch"
    /\ Disturbed
    /\ Continue("requeue", vm)
    /\ Thinks

MutantDeliver ==
    /\ watch
    /\ watch' = FALSE
    /\ cache' = api
    /\ UNCHANGED <<api, queue, worker, cluster, guest, source, disturbances>>

\* The watch brings the cache up to date and queues the VM.
Deliver ==
    /\ watch
    /\ watch' = FALSE
    /\ cache' = api
    /\ queued' = TRUE
    /\ UNCHANGED <<api, delayed, worker, cluster, guest, source, disturbances>>

TimerFires ==
    /\ delayed
    /\ delayed' = FALSE
    /\ queued' = TRUE
    /\ UNCHANGED <<api, cache, watch, worker, cluster, guest, source, disturbances>>

(***************************************************************************)
(* The world around the operator.                                          *)
(***************************************************************************)

Older(o) ==
    IF o["bootstrap-started-at"] = "recent"
    THEN [o EXCEPT !["bootstrap-started-at"] = "expired"]
    ELSE o

\* Ten minutes pass for a timestamp, in whatever copy it is.  Neither the
\* informer's lag nor the work on a copy from before the stamp takes that long:
\* the stamp is in every copy by then.
TimePasses ==
    /\ api["bootstrap-started-at"] = "recent"
    /\ cache["bootstrap-started-at"] = "recent"
    /\ pc # "idle" => vm["bootstrap-started-at"] = "recent"
    /\ api' = Older(api)
    /\ cache' = Older(cache)
    /\ vm' = Older(vm)
    /\ draft' = Older(draft)
    /\ UNCHANGED <<watch, queue, pc, resume, seen, cluster, guest, source, disturbances>>

\* The operator dies in the middle of whatever it does, or loses its lease.
\* The next one lists every VM; timers and the worker's copies are gone.
Restart ==
    /\ Disturbed
    /\ cache' = api
    /\ watch' = FALSE
    /\ queued' = TRUE
    /\ delayed' = FALSE
    /\ pc' = "idle"
    /\ vm' = Blank
    /\ draft' = Blank
    /\ resume' = "done"
    /\ seen' = NothingSeen
    /\ UNCHANGED <<api, cluster, guest, source>>

\* The VM is started, stopped or gets its address; the controller owns VMIs.
ChangeVMI ==
    /\ Disturbed
    /\ \E v \in {"absent", "noIP", "running"} \ {vmi} : vmi' = v
    /\ queued' = TRUE
    /\ UNCHANGED <<api, cache, watch, delayed, worker, keys, token, issued, guest, source>>

\* sshd or the exporter comes up or goes down in the guest.
ChangeGuest ==
    /\ Disturbed
    /\ \/ guest' = [guest EXCEPT !.ssh = ~@]
       \/ guest' = [guest EXCEPT !.exporter = ~@]
    /\ UNCHANGED <<api, cache, watch, queue, worker, cluster, source>>

\* The bootstrap that a Windows guest runs by itself ends.
GuestBootstrapEnds ==
    /\ Disturbed
    /\ api["os"] = "windows"
    /\ vmi = "running"
    /\ guest.marker = "unknown"
    /\ \/ guest' = [guest EXCEPT !.marker = "failed"]
       \/ guest' = [guest EXCEPT !.marker = "success", !.exporter = TRUE]
    /\ UNCHANGED <<api, cache, watch, queue, worker, cluster, source>>

ChangeKeys ==
    /\ Disturbed
    /\ \E k \in Keys \ {keys} : keys' = k
    /\ UNCHANGED <<api, cache, watch, queue, worker, vmi, token, issued, guest, source>>

\* kvoctl deploy replaces the Loki writer token.
RotateToken ==
    /\ Disturbed
    /\ \E t \in Token \ issued : token' = t /\ issued' = issued \cup {t}
    /\ UNCHANGED <<api, cache, watch, queue, worker, vmi, keys, guest, source>>

\* The user labels a VM whose OS was unknown.
LabelOS ==
    /\ Disturbed
    /\ DetectOS(api) = "unknown"
    /\ \E os \in {"linux", "windows"} : Store([api EXCEPT !["os"] = os])
    /\ UNCHANGED <<cache, queue, worker, cluster, guest, source>>

\* From some point on nothing disturbs the operator any more.
Settle ==
    /\ disturbances > 0
    /\ disturbances' = 0
    /\ UNCHANGED <<api, cache, watch, queue, worker, cluster, guest, source>>

Reconcile ==
    \/ StartReconcile \/ IgnoreUnmanaged \/ ForgetUnknownOS \/ SkipUnknownOS
    \/ EnsureNamespace \/ RemediationNotRequired \/ PrepareRemediation
    \/ ConnectLinux \/ ConnectWindows \/ RunScript \/ ScriptFails
    \/ NoSysprepMerge \/ MergeSysprep \/ SysprepFails
    \/ NoCloudInitMerge \/ CreateCloudInitSecret \/ MergeCloudInit \/ CloudInitFails
    \/ SyncScrapeResources \/ Probe
    \/ CheckAlloy \/ InstallAlloy \/ InstallAlloyFails \/ RecordAlloy
    \/ MarkAlloyFailed \/ ClearErrors \/ MarkReady
    \/ PatchVM \/ PatchFails

Controller == Reconcile \/ Deliver \/ TimerFires

Environment ==
    \/ TimePasses \/ Restart \/ ChangeVMI \/ ChangeGuest \/ GuestBootstrapEnds
    \/ ChangeKeys \/ RotateToken \/ LabelOS \/ Settle

Next == Controller \/ Environment

\* The worker, the informer, the work queue and the clock never stop, and the
\* environment settles.  Nothing is assumed of a fault or of the guest.
Fairness ==
    /\ WF_vars(Reconcile)
    /\ WF_vars(Deliver)
    /\ WF_vars(TimerFires)
    /\ WF_vars(TimePasses)
    /\ WF_vars(Settle)

Spec == Init /\ [][Next]_vars /\ Fairness

(***************************************************************************)
(* Safety.                                                                 *)
(***************************************************************************)

TypeOK ==
    /\ api \in Metadata
    /\ cache \in Metadata
    /\ watch \in BOOLEAN
    /\ queued \in BOOLEAN
    /\ delayed \in BOOLEAN
    /\ pc \in Location
    /\ vm \in Metadata
    /\ draft \in Metadata
    /\ resume \in Location \cup Returns
    /\ seen \in Seen
    /\ vmi \in {"absent", "noIP", "running"}
    /\ guest \in Guest
    /\ keys \in Keys
    /\ token \in Token \cup {Absent}
    /\ issued \in SUBSET Token
    /\ source \in BootSource
    /\ disturbances \in 0 .. MaxDisturbances

\* A VM that says "remediation-completed" has had the install script run in its
\* guest to the end, whatever copy of the VM the operator was working from and
\* wherever it was interrupted (markRemediation).
CompletedMeansRepaired ==
    api["remediation-completed"] = "true" => guest.remedied

\* A "merged" marker is never ahead of the source it is about: a crash between
\* the two writes leaves the source merged and the marker missing, never the
\* reverse (markSysprep, markCloudInitSecret).
MergedMarkersTruthful ==
    /\ api["sysprep-merged"] = "true" => source.sysprep = "merged"
    /\ api["cloudinit-secret-merged"] = "true" => source.cloudinit = "merged"

\* When the recorded hash says there is nothing to install, the guest does run
\* that configuration: an installation that was interrupted, not recorded or
\* overtaken by a new token is always seen as drift by the next reconcile.
AlloyDriftSeen ==
    token # Absent /\ api["alloy-config-hash"] = token
        => guest.alloy = token

ManagedVM == Managed(api) /\ DetectOS(api) # "unknown"

BootSourcesDone ==
    /\ ~MergePending(api, "sysprep-merge-required", "sysprep-merged")
    /\ ~MergePending(api, "cloudinit-secret-merge-required", "cloudinit-secret-merged")

\* No reconcile is running, and nothing that would start one is under way.
AtRest == pc = "idle" /\ ~queued /\ ~delayed /\ ~watch

Outstanding ==
    \/ api["status"] # "ready"
    \/ api["remediation-required"] = "true"
    \/ ~BootSourcesDone

\* No VM is forgotten: whatever the worker's copy was when it returned without
\* asking to be called again, a VM that is not ready, or has a remediation or a
\* merge outstanding, is in the worker's hands or something is under way that
\* brings it back (the returns of Reconcile, mark's skipped requests, the event
\* that every change causes).
NothingForgotten == ManagedVM /\ Outstanding => ~AtRest

\* The install script, or the bootstrap a Windows guest runs by itself, has
\* succeeded.
Repaired == guest.remedied \/ guest.marker = "success"

\* The promise of VMLifecycle: a request for remediation is dropped only when
\* the guest is repaired, is never reopened by the operator, and no VM becomes
\* ready while it is outstanding, from whatever stale copy the operator works.
Lifecycle ==
    INSTANCE VMLifecycle WITH Phase <- Status \cup {Absent},
                              phase <- api["status"],
                              open <- api["remediation-required"] = "true",
                              repaired <- Repaired
ImplementsLifecycle == Lifecycle!Spec

\* The install script is never started in a Windows guest whose own bootstrap
\* may still be running, unless 10 minutes have passed since the start was
\* stamped on the VM or kvoctl vouched for the guest.
BootstrapNotInterrupted ==
    [][ pc = "connect" /\ pc' = "script" /\ api["os"] = "windows"
            /\ guest.marker = "unknown"
        => TimedOut(api) \/ api["ssh-bootstrap-complete"] = "true" ]_vars

\* The stamp that the 10 minutes count from stays once it has been made.
StampKept ==
    [][ api["bootstrap-started-at"] = "expired"
        => api'["bootstrap-started-at"] = "expired" ]_vars

(***************************************************************************)
(* Liveness: what holds for ever once the environment has settled.         *)
(***************************************************************************)

RemediationReachable == vmi = "running" /\ guest.ssh /\ keys = "complete"

\* A request for remediation of a guest that can be reached is carried out.
RequestsAreServed ==
    <>[](ManagedVM /\ RemediationReachable => api["remediation-required"] # "true")

\* A VM whose OS label has been set does not stay skipped.
SkippedIsRecovered == <>[](ManagedVM => api["status"] # "skipped")

\* Sources that can be merged are.
MergeDone(required, merged, src) ==
    MergePending(api, required, merged) => src \notin {"missing", "plain", "merged"}
SourcesAreMerged ==
    <>[](ManagedVM /\ RemediationReachable =>
            /\ MergeDone("sysprep-merge-required", "sysprep-merged",
                         source.sysprep)
            /\ MergeDone("cloudinit-secret-merge-required",
                         "cloudinit-secret-merged", source.cloudinit))

LoggingPossible ==
    \/ api["logging-enabled"] # "true"
    \/ /\ token # Absent
       /\ DetectOS(api) = "windows" =>
             guest.marker = "success" \/ api["remediation-completed"] = "true"

\* A VM that can be monitored ends up, and stays, ready, with the collector
\* configured for the current token.
HealthyBecomesReady ==
    <>[](ManagedVM /\ RemediationReachable /\ BootSourcesDone
            /\ guest.exporter /\ LoggingPossible
         => /\ api["status"] = "ready"
            /\ api["reason"] \in {"verified", Absent}
            /\ api["logging-enabled"] = "true" => guest.alloy = token)

\* mark patches only the key that differs from the worker's copy, so a stale
\* copy can leave the status of one reconcile with the reason of another; such a
\* torn pair does not last.
StatusAgreesWithReason ==
    <>[](/\ api["status"] = "ready" => api["reason"] \in {"verified", Absent}
         /\ api["status"] = "skipped" => api["reason"] = "missing-os-label"
         /\ api["status"] = "pending" =>
               api["reason"] \notin {"verified", "missing-os-label"})

(***************************************************************************)
(* What comments and events of the code say, and the code does not do.     *)
(***************************************************************************)

\* "Avoid unnecessary API patches when status/reason already match" (mark): once
\* the environment has settled, the operator stops writing to the VM.
WritesCease == <>[][api' = api]_api

\* "Monitoring verified" (the MonitoringReady event and the reason "verified"):
\* a VM becomes ready only after its exporter has answered the probe.
ReadyIsVerified ==
    [][ api["status"] # "ready" /\ api'["status"] = "ready" => seen.exporter ]_vars
=============================================================================
