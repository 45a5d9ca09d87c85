---------------------------- MODULE BootSources -----------------------------
(***************************************************************************)
(* The way of the monitoring bootstrap into the guests.  The webhook        *)
(* (webhook/vm_mutator.go, internal/patch) rewrites a VM when it is created *)
(* or leaves a marker for the reconciler, which merges the bootstrap into   *)
(* the Secret or ConfigMap that the VM boots from.  VMs may share such a    *)
(* source, and up to five workers merge at the same time, each from an      *)
(* informer's copy and with patches that replace the whole document.        *)
(***************************************************************************)
EXTENDS BootData, Naturals

CONSTANTS
    VM,
    Specs,           \* the VMs that users may create, one for each name
    Source,          \* Secrets and ConfigMaps of the namespace
    OwnSource,       \* <vm>-cloudinit, the source that the webhook invents
    Documents,       \* what users have put into the sources to begin with
    MaxDisturbances  \* bound: edits by users, faults and crashes

VARIABLES
    spec,         \* what the user submitted for each VM
    vm,           \* the VM as admitted: its volume, inline data and markers
    source,       \* the sources on the API server
    view,         \* the informers' copies of them
    edited,       \* sources that a user has changed since
    worker,       \* the reconcile of each VM
    disturbances

bootVars == <<spec, vm, source, view, edited, worker, disturbances>>

\* The document of a source that does not exist.
Missing == [EmptyDoc EXCEPT !.form = "missing"]

NoSource == "no source"

Kind == {"nocloud", "configdrive", "sysprep", "none"}
Marks == SUBSET {"managed", "remediation", "merge", "sysprep", "merged", "merge-error"}

Submitted == [os : {"linux", "windows", "unknown"}, annotated : BOOLEAN, kind : Kind,
          ref : Source \cup {NoSource}, data : Doc, user : User]

VMRecord == [stage : {"new", "admitted", "denied"}, kind : Kind,
             ref : Source \cup {NoSource}, data : Doc, marks : Marks]

Worker == [at : {"idle", "create", "merge", "mark", "fail"}, base : Doc]

Idle == [at |-> "idle", base |-> EmptyDoc]

SourceDocs == [Source -> Doc \cup {Missing}]

\* What KubeVirt accepts: no inline data beside a secretRef, and nothing of a
\* volume that is not there.
WellFormed(s) ==
    /\ s.kind = "nocloud" /\ s.ref # NoSource => s.data = EmptyDoc
    /\ s.kind = "none" => s.ref = NoSource

ASSUME BootAssumption ==
    /\ Specs \subseteq [VM -> Submitted]
    /\ \A s \in Specs, v \in VM : WellFormed(s[v])
    /\ OwnSource \in [VM -> Source]
    /\ Documents \subseteq SourceDocs
    /\ MaxDisturbances \in Nat

BootInit ==
    /\ spec \in Specs
    /\ vm = [v \in VM |-> [stage |-> "new", kind |-> spec[v].kind, ref |-> spec[v].ref,
                           data |-> spec[v].data, marks |-> {}]]
    /\ source \in Documents
    /\ view = source
    /\ edited = {}
    /\ worker = [v \in VM |-> Idle]
    /\ disturbances = MaxDisturbances

(***************************************************************************)
(* Admission: what EnsureMonitoringBootstrap makes of a VM.                *)
(***************************************************************************)

\* The VM with its inline data replaced, and the one with a marker set.  A VM
\* without any annotations gets a map of its own for the marker, which the map of
\* EnsureMonitoringBootstrap then replaces.
Inline(s, doc) == [stage |-> "admitted", kind |-> s.kind, ref |-> s.ref,
                   data |-> doc, marks |-> {"managed"}]

Marked(s, mark) == [Inline(s, s.data) EXCEPT
                        !.marks = IF s.annotated THEN @ \cup {mark} ELSE @]

Denied(s) == [stage |-> "denied", kind |-> s.kind, ref |-> s.ref,
              data |-> s.data, marks |-> {}]

Merged(s) == MergeCloudInit(s.data, s.os, {})

MutantLinuxNoCloud(s) ==
    IF s.ref # NoSource THEN Marked(s, "merge")
    ELSE IF s.data.form = "opaque" THEN Denied(s)
    ELSE IF ~Fits(Merged(s)) THEN Inline(s, s.data)
    ELSE Inline(s, Merged(s))

LinuxNoCloud(s) ==
    IF s.ref # NoSource THEN Marked(s, "merge")
    ELSE IF s.data.form = "opaque" THEN Denied(s)
    ELSE IF ~Fits(Merged(s)) THEN Marked(s, "remediation")
    ELSE Inline(s, Merged(s))

MutantWindowsNoCloud(s, own) ==
    IF s.ref # NoSource THEN Marked(s, "merge")
    ELSE IF s.data.form = "ps1" THEN Marked(s, "remediation")
    ELSE IF s.data.form = "opaque" THEN Denied(s)
    ELSE IF ~Fits(Merged(s)) THEN Marked([s EXCEPT !.ref = own], "merge")
    ELSE Inline(s, Merged(s))

\* What does not fit makes way for a reference to a Secret that nobody has made.
WindowsNoCloud(s, own) ==
    IF s.ref # NoSource THEN Marked(s, "merge")
    ELSE IF s.data.form = "ps1" THEN Marked(s, "remediation")
    ELSE IF s.data.form = "opaque" THEN Denied(s)
    ELSE IF ~Fits(Merged(s)) THEN Marked([s EXCEPT !.ref = own, !.data = EmptyDoc], "merge")
    ELSE Inline(s, Merged(s))

\* A secretRef is not looked at in a ConfigDrive volume.
ConfigDrive(s) ==
    IF s.data.form = "opaque" THEN Denied(s)
    ELSE IF s.os = "windows" /\ ~Fits(Merged(s)) THEN Marked(s, "merge")
    ELSE Inline(s, Merged(s))

Inject(s) == Inline([s EXCEPT !.kind = "nocloud"], MergeCloudInit(EmptyDoc, s.os, {}))

UnknownOS(s) ==
    [Inline(s, s.data) EXCEPT !.marks = IF s.annotated THEN {"managed"} ELSE {}]

EnsureMonitoringBootstrap(s, own) ==
    IF s.os = "unknown" THEN UnknownOS(s)
    ELSE CASE s.kind = "none" -> Inject(s)
           [] s.kind = "configdrive" -> ConfigDrive(s)
           [] s.kind = "sysprep" ->
                  IF s.os = "linux" THEN Denied(s) ELSE Marked(s, "sysprep")
           [] s.kind = "nocloud" ->
                  IF s.os = "linux" THEN LinuxNoCloud(s) ELSE WindowsNoCloud(s, own)

Admit(v) ==
    /\ vm[v].stage = "new"
    /\ vm' = [vm EXCEPT ![v] = EnsureMonitoringBootstrap(spec[v], OwnSource[v])]
    /\ UNCHANGED <<spec, source, view, edited, worker, disturbances>>

(***************************************************************************)
(* The reconciler: reconcileSysprepSource and reconcileCloudInitSecret.    *)
(***************************************************************************)

Requested(v) == vm[v].marks \cap {"merge", "sysprep"} # {}

MergePending(v) == Requested(v) /\ "merged" \notin vm[v].marks

\* The source that the reconciler looks for: a Sysprep volume or a NoCloud volume
\* with a secretRef.
Findable(v) == vm[v].kind \in {"sysprep", "nocloud"} /\ vm[v].ref # NoSource

MutantReadSource(v) ==
    /\ worker[v].at = "idle"
    /\ MergePending(v)
    /\ worker' = [worker EXCEPT ![v] =
           IF ~Findable(v) THEN [Idle EXCEPT !.at = "fail"]
           ELSE IF view[vm[v].ref] # Missing
           THEN [at |-> "merge", base |-> view[vm[v].ref]]
           ELSE [Idle EXCEPT !.at = IF vm[v].kind = "sysprep" THEN "fail" ELSE "mark"]]
    /\ UNCHANGED <<spec, vm, source, view, edited, disturbances>>

\* The reconcile reads the source; a Secret that is missing will be created, a
\* missing answer file is an error.
ReadSource(v) ==
    /\ worker[v].at = "idle"
    /\ MergePending(v)
    /\ worker' = [worker EXCEPT ![v] =
           IF ~Findable(v) THEN [Idle EXCEPT !.at = "fail"]
           ELSE IF view[vm[v].ref] # Missing
           THEN [at |-> "merge", base |-> view[vm[v].ref]]
           ELSE [Idle EXCEPT !.at = IF vm[v].kind = "sysprep" THEN "fail" ELSE "create"]]
    /\ UNCHANGED <<spec, vm, source, view, edited, disturbances>>

MutantCreateSecret(v) ==
    /\ worker[v].at = "create"
    /\ source' = [source EXCEPT ![vm[v].ref] = EmptyDoc]
    /\ worker' = [worker EXCEPT ![v].at = "merge"]
    /\ UNCHANGED <<spec, vm, view, edited, disturbances>>

\* Somebody else may have created the Secret since: that is an error too.
CreateSecret(v) ==
    /\ worker[v].at = "create"
    /\ IF source[vm[v].ref] = Missing
       THEN /\ source' = [source EXCEPT ![vm[v].ref] = EmptyDoc]
            /\ worker' = [worker EXCEPT ![v].at = "merge"]
       ELSE /\ worker' = [worker EXCEPT ![v].at = "fail"]
            /\ UNCHANGED source
    /\ UNCHANGED <<spec, vm, view, edited, disturbances>>

\* The merge itself; in a Secret the SSH hints need a cloud-config.
SourceMergeable(v) ==
    worker[v].base.form = IF vm[v].kind = "sysprep" THEN "xml" ELSE "yaml"

MergeSource(v) ==
    IF vm[v].kind = "sysprep"
    THEN MergeSysprep(worker[v].base)
    ELSE MergeCloudInit(worker[v].base, spec[v].os, {spec[v].user})

\* A merge that changes nothing needs no patch; a patch needs a source.  The
\* patch carries the whole document, whatever the source holds by now.
PatchSource(v) ==
    /\ worker[v].at = "merge"
    /\ \/ /\ ~SourceMergeable(v)
          /\ worker' = [worker EXCEPT ![v].at = "fail"]
          /\ UNCHANGED source
       \/ /\ SourceMergeable(v)
          /\ MergeSource(v) = worker[v].base
          /\ worker' = [worker EXCEPT ![v].at = "mark"]
          /\ UNCHANGED source
       \/ /\ SourceMergeable(v)
          /\ MergeSource(v) # worker[v].base
          /\ source[vm[v].ref] = Missing
          /\ worker' = [worker EXCEPT ![v].at = "fail"]
          /\ UNCHANGED source
       \/ /\ SourceMergeable(v)
          /\ MergeSource(v) # worker[v].base
          /\ source[vm[v].ref] # Missing
          /\ worker' = [worker EXCEPT ![v].at = "mark"]
          /\ source' = [source EXCEPT ![vm[v].ref] = MergeSource(v)]
    /\ UNCHANGED <<spec, vm, view, edited, disturbances>>

\* markCloudInitSecret and markSysprep, with and without success.
MarkMerge(v) ==
    /\ worker[v].at \in {"mark", "fail"}
    /\ vm' = [vm EXCEPT ![v].marks = IF worker[v].at = "mark"
                                     THEN (@ \ {"merge-error"}) \cup {"merged"}
                                     ELSE @ \cup {"merge-error"}]
    /\ worker' = [worker EXCEPT ![v] = Idle]
    /\ UNCHANGED <<spec, source, view, edited, disturbances>>

(***************************************************************************)
(* The environment.                                                        *)
(***************************************************************************)

\* The informer catches up with a source.
Sync(n) ==
    /\ view' = [view EXCEPT ![n] = source[n]]
    /\ UNCHANGED <<spec, vm, source, edited, worker, disturbances>>

\* A user replaces or deletes a source.
EditSource(n) ==
    /\ disturbances > 0
    /\ disturbances' = disturbances - 1
    /\ \E docs \in Documents : source' = [source EXCEPT ![n] = docs[n]]
    /\ edited' = edited \cup {n}
    /\ UNCHANGED <<spec, vm, view, worker>>

\* The operator stops, or a request of the reconcile fails and the VM is queued
\* again.
Interrupt(v) ==
    /\ disturbances > 0
    /\ disturbances' = disturbances - 1
    /\ worker[v].at # "idle"
    /\ worker' = [worker EXCEPT ![v] = Idle]
    /\ UNCHANGED <<spec, vm, source, view, edited>>

ReconcileSource(v) == ReadSource(v) \/ CreateSecret(v) \/ PatchSource(v) \/ MarkMerge(v)

BootNext ==
    \/ \E v \in VM : Admit(v) \/ ReconcileSource(v) \/ Interrupt(v)
    \/ \E n \in Source : Sync(n) \/ EditSource(n)

\* Errors are retried for ever and informers catch up; users need not do anything.
BootFairness ==
    /\ \A v \in VM : WF_bootVars(ReconcileSource(v))
    /\ \A n \in Source : WF_bootVars(Sync(n))

BootSpec == BootInit /\ [][BootNext]_bootVars /\ BootFairness

\* Types; and no NoCloud volume has inline data beside a secretRef, which KubeVirt
\* would reject (mergeWindowsNoCloud clears the one when it sets the other).
BootTypeOK ==
    /\ \A v \in VM :
         vm[v].kind = "nocloud" /\ vm[v].ref # NoSource => vm[v].data = EmptyDoc
    /\ spec \in [VM -> Submitted]
    /\ vm \in [VM -> VMRecord]
    /\ source \in SourceDocs
    /\ view \in SourceDocs
    /\ edited \subseteq Source
    /\ worker \in [VM -> Worker]
    /\ disturbances \in 0 .. MaxDisturbances

(***************************************************************************)
(* Properties.                                                             *)
(***************************************************************************)

Sharing(n) == {v \in VM : vm[v].ref = n /\ Requested(v)}

\* VMs that share a source run the same OS.
Homogeneous(n) == \A v, w \in Sharing(n) : spec[v].os = spec[w].os

\* A marker cloudinit-secret-merged or sysprep-merged is true of the source, also
\* when several workers merge into it from stale copies: each of them writes what
\* the others would have written, as long as the VMs run the same OS.
MergedMeansBootstrapped ==
    \A v \in VM :
        "merged" \in vm[v].marks /\ vm[v].ref \notin edited /\ Homogeneous(vm[v].ref)
        => /\ source[vm[v].ref] # Missing
           /\ Bootstrapped(source[vm[v].ref], spec[v].os)

\* No reconcile, from whatever copy, loses what the user has put into a
\* cloud-init Secret, unless the user has changed it in the meantime.
SecretContentKept ==
    [][ \A n \in Source :
          source[n] # Missing /\ n \notin edited' /\ source[n].form # "xml"
          => source'[n] # Missing /\ Keeps(source'[n], source[n]) ]_bootVars

\* The promise of SharedSource: whatever copies the workers merge into and write
\* back whole, each source is as if one worker at a time had merged into it as it
\* is.  A worker with an old copy undoes neither another's merge nor what users
\* have put there, and no marker is ahead of the merge.
Waiting(n) == {spec[v].os : v \in Sharing(n)}

Shared ==
    INSTANCE SharedSource WITH
        OS      <- {"linux", "windows"},
        Part    <- [form : Form \cup {"missing"}, file : BOOLEAN, cmds : SUBSET Nat,
                    own : SUBSET User],
        Nothing <- UserPart(Missing),
        Empty   <- UserPart(EmptyDoc),
        part    <- [n \in Source |-> UserPart(source[n])],
        booted  <- [n \in Source |-> {x \in Waiting(n) : Bootstrapped(source[n], x)}],
        done    <- [n \in Source |->
                      {spec[v].os : v \in {w \in Sharing(n) : "merged" \in vm[w].marks}}],
        mixed   <- {n \in Source : ~Homogeneous(n)}

ImplementsSharedSource == Shared!Spec

\* What the guest boots from, Missing if its source is not there.
BootDoc(v) ==
    IF vm[v].ref = NoSource \/ vm[v].kind = "configdrive" THEN vm[v].data
                                                         ELSE source[vm[v].ref]

Covered(v) ==
    \/ vm[v].marks \cap {"remediation", "merge-error"} # {}
    \/ BootDoc(v) # Missing /\ Bootstrapped(BootDoc(v), spec[v].os)

\* Every VM that the operator manages gets the bootstrap into what it boots from,
\* or a request for remediation, or an error that a user can see.  The
\* exceptions: a VM without annotations, whose markers are lost, and one with
\* PowerShell that does not begin with "#ps1", which admission takes for merged.
ManagedIsCovered ==
    <>[](\A v \in VM :
           \/ "managed" \notin vm[v].marks
           \/ spec[v].os = "unknown"
           \/ ~spec[v].annotated
           \/ Raw(vm[v].data)
           \/ vm[v].ref \in edited
           \/ ~Homogeneous(vm[v].ref)
           \/ Covered(v))

(***************************************************************************)
(* What comments and tests of the code say, and the code does not do.      *)
(***************************************************************************)

\* "Secret-backed cloud-init is handled later by controller-side Secret patching"
\* (mergeLinuxNoCloud).
SecretBackedIsHandled ==
    <>[](\A v \in VM :
           /\ vm[v].stage = "admitted" /\ spec[v].os = "linux"
           /\ spec[v].kind = "nocloud" /\ spec[v].ref \in Source \ edited
           /\ Homogeneous(spec[v].ref)
           => Covered(v))

\* "expected original content preserved" (vm_patch_test.go): a VM still boots with
\* the user data it was submitted with.
InlineDataKept ==
    \A v \in VM :
        vm[v].stage = "admitted" /\ spec[v].ref = NoSource /\ spec[v].kind = "nocloud"
            /\ vm[v].ref \notin edited /\ BootDoc(v) # Missing
        => Keeps(BootDoc(v), spec[v].data)
=============================================================================
