------------------------ MODULE VMReconcilerProofs ------------------------
(***************************************************************************)
(* Proofs about VMReconciler, for any set of tokens, any VMs and any number *)
(* of disturbances.                                                        *)
(***************************************************************************)
EXTENDS VMReconciler, TLAPS

(***************************************************************************)
(* Facts about metadata.                                                   *)
(***************************************************************************)

\* The values the operator writes are values.
LEMMA ValueTypes ==
    /\ {"", "true", "false", "error", "recent", "expired"} \subseteq Val
    /\ {"linux", "windows"} \subseteq Val
    /\ Status \subseteq Val
    /\ Reason \subseteq Val
    /\ Token \subseteq Val
    /\ Absent \in Val
BY DEF Val, Absent

\* Deleting keys, setting one to a value and merging give metadata again.
LEMMA BlankType == Blank \in Metadata
BY ValueTypes DEF Blank, Metadata

\* Deleting keys from a VM's metadata leaves metadata.
LEMMA WithoutType ==
    ASSUME NEW o \in Metadata, NEW gone
    PROVE  Without(o, gone) \in Metadata
BY ValueTypes DEF Without, Metadata

\* Setting one key to a value leaves metadata.
LEMMA ExceptType ==
    ASSUME NEW o \in Metadata, NEW k, NEW v \in Val
    PROVE  [o EXCEPT ![k] = v] \in Metadata
BY DEF Metadata

\* A merge patch of metadata on metadata leaves metadata.
LEMMA MergeType ==
    ASSUME NEW base, NEW mod \in Metadata, NEW cur \in Metadata
    PROVE  MergePatch(base, mod, cur) \in Metadata
BY DEF MergePatch, Metadata

\* So does the passing of time.
LEMMA OlderType ==
    ASSUME NEW o \in Metadata
    PROVE  Older(o) \in Metadata
BY ExceptType, ValueTypes DEF Older

(***************************************************************************)
(* How a step of Reconcile ends: the worker's variables keep their types.   *)
(***************************************************************************)

WorkerTypeOK ==
    /\ delayed \in BOOLEAN
    /\ pc \in Location
    /\ vm \in Metadata
    /\ draft \in Metadata
    /\ resume \in Location \cup Returns

\* A step that goes on or returns keeps the types of the worker's variables.
LEMMA ContinueType ==
    ASSUME WorkerTypeOK, NEW at \in Location \cup Returns, NEW o \in Metadata,
           Continue(at, o)
    PROVE  WorkerTypeOK'
BY BlankType DEF Continue, WorkerTypeOK, Location, Returns

\* A step that prepares a patch keeps the types of the worker's variables.
LEMMA WriteType ==
    ASSUME WorkerTypeOK, NEW mod \in Metadata, NEW at \in Location \cup Returns,
           Write(mod, at)
    PROVE  WorkerTypeOK'
BY DEF Write, WorkerTypeOK, Location, Returns

\* mark, whether it prepares a patch or not, keeps the types of the worker's
\* variables.
LEMMA MarkType ==
    ASSUME WorkerTypeOK, NEW status \in Status, NEW reason \in Reason,
           Mark(status, reason)
    PROVE  WorkerTypeOK'
<1> DEFINE return == IF status \in {"ready", "skipped"} THEN "done" ELSE "requeue"
           mod == [vm EXCEPT !["status"] = status, !["reason"] = reason]
<1>1. return \in Location \cup Returns
  BY DEF Returns
<1>2. vm \in Metadata
  BY DEF WorkerTypeOK
<1>3. mod \in Metadata
  BY <1>2, ValueTypes DEF Metadata
<1>4. Continue(return, vm) \/ Write(mod, return)
  BY DEF Mark
<1> QED
  BY <1>1, <1>2, <1>3, <1>4, ContinueType, WriteType

\* Using up a disturbance stays within their bound.
LEMMA DisturbedType ==
    ASSUME disturbances \in 0 .. MaxDisturbances,
           disturbances' = disturbances \/ Disturbed
    PROVE  disturbances' \in 0 .. MaxDisturbances
BY DisturbancesAssumption DEF Disturbed

\* What the worker has read keeps its type when it is kept or forgotten.
LEMMA SeenType ==
    ASSUME seen \in Seen, KeepSeen
    PROVE  seen' \in Seen
BY DEF KeepSeen, NothingSeen, Seen

(***************************************************************************)
(* Type correctness.                                                       *)
(***************************************************************************)

\* A VM that admission has produced has the type.
LEMMA TypeInit == Init => TypeOK
<1> SUFFICES ASSUME Init PROVE TypeOK
  OBVIOUS
<1>1. PICK i \in InitialVMs : api = i.vm /\ source = i.source
  BY DEF Init
<1>2. api \in Metadata /\ source \in BootSource
  BY <1>1, InitialVMsAssumption DEF BootSource
<1>3. cache \in Metadata /\ vm \in Metadata /\ draft \in Metadata
  BY <1>2, BlankType DEF Init
<1>4. seen \in Seen
  BY DEF Init, Seen, NothingSeen
<1>5. guest \in Guest
  BY DEF Init, Guest
<1>6. disturbances \in 0 .. MaxDisturbances
  BY DisturbancesAssumption DEF Init
<1> QED
  BY <1>2, <1>3, <1>4, <1>5, <1>6 DEF Init, TypeOK, Location, Returns, Keys

\* The worker's part of a reconcile step, given where it goes on or what it
\* writes; the rest of the state is dealt with action by action.
LEMMA TypeReconcile == TypeOK /\ Reconcile => TypeOK'
<1> SUFFICES ASSUME TypeOK, Reconcile PROVE TypeOK'
  OBVIOUS
<1> USE ValueTypes, DisturbancesAssumption
<1>t. WorkerTypeOK /\ vm \in Metadata /\ api \in Metadata
  BY DEF TypeOK, WorkerTypeOK
<1>w. ASSUME WorkerTypeOK', seen' \in Seen, api' \in Metadata, watch' \in BOOLEAN,
             UNCHANGED cache, queued' \in BOOLEAN, UNCHANGED cluster,
             guest' \in Guest, source' \in BootSource,
             disturbances' = disturbances \/ Disturbed
      PROVE  TypeOK'
  <2>1. disturbances' \in 0 .. MaxDisturbances
    BY <1>w, DisturbedType DEF TypeOK
  <2> QED
    BY <1>w, <2>1 DEF TypeOK, WorkerTypeOK, cluster
<1>h. ASSUME WorkerTypeOK', Thinks, disturbances' = disturbances \/ Disturbed
      PROVE  TypeOK'
  BY <1>h, <1>w, SeenType DEF TypeOK, Thinks, cluster
<1>1. CASE StartReconcile
  BY <1>1 DEF StartReconcile, TypeOK, Location, cluster
<1>2. CASE IgnoreUnmanaged
  BY <1>2, <1>h, <1>t, ContinueType DEF IgnoreUnmanaged, Returns
<1>3. CASE ForgetUnknownOS
  BY <1>3, <1>h, <1>t, WriteType, WithoutType DEF ForgetUnknownOS, Returns
<1>4. CASE SkipUnknownOS
  BY <1>4, <1>h, <1>t, MarkType DEF SkipUnknownOS, Status, Reason
<1>5. CASE EnsureNamespace
  BY <1>5, <1>h, <1>t, MarkType, ContinueType
     DEF EnsureNamespace, Status, Reason, Location, Returns
<1>6. CASE RemediationNotRequired
  BY <1>6, <1>h, <1>t, ContinueType DEF RemediationNotRequired, Location
<1>7. CASE PrepareRemediation
  BY <1>7, <1>h, <1>t, ContinueType, WriteType, MarkType, ExceptType
     DEF PrepareRemediation, Location, Status, Reason
<1>e. RemediationError => WorkerTypeOK'
  BY <1>t, WriteType, ExceptType DEF RemediationError, Returns
<1>8. CASE ConnectLinux
  BY <1>8, <1>h, <1>t, <1>e, ContinueType, MarkType
     DEF ConnectLinux, Location, Status, Reason
<1>9. CASE ConnectWindows
  BY <1>9, <1>h, <1>t, <1>e, ContinueType, MarkType, WriteType, WithoutType, ExceptType
     DEF ConnectWindows, Location, Returns, Status, Reason
<1>10. CASE RunScript
  <2>1. WorkerTypeOK'
    BY <1>10, <1>t, WriteType, WithoutType, ExceptType DEF RunScript, Returns
  <2>2. guest' \in Guest
    BY <1>10 DEF RunScript, TypeOK, Guest
  <2> QED
    BY <1>10, <1>w, <2>1, <2>2, SeenType DEF RunScript, TypeOK
<1>11. CASE ScriptFails
  <2>1. guest' \in Guest
    BY <1>11 DEF ScriptFails, TypeOK, Guest
  <2> QED
    BY <1>11, <1>w, <1>e, <2>1, SeenType DEF ScriptFails, TypeOK
<1>12. CASE NoSysprepMerge
  BY <1>12, <1>h, <1>t, ContinueType DEF NoSysprepMerge, Location
<1>13. CASE MergeSysprep
  <2>1. WorkerTypeOK'
    BY <1>13, <1>t, WriteType, WithoutType, ExceptType DEF MergeSysprep, Returns
  <2>2. source' \in BootSource
    BY <1>13 DEF MergeSysprep, TypeOK, BootSource, Source
  <2> QED
    BY <1>13, <1>w, <2>1, <2>2, SeenType DEF MergeSysprep, TypeOK
<1>14. CASE SysprepFails
  BY <1>14, <1>h, <1>t, WriteType, ExceptType DEF SysprepFails, Returns
<1>15. CASE NoCloudInitMerge
  BY <1>15, <1>h, <1>t, ContinueType DEF NoCloudInitMerge, Location
<1>16. CASE CreateCloudInitSecret
  BY <1>16 DEF CreateCloudInitSecret, TypeOK, BootSource, Source, worker, queue, cluster
<1>17. CASE MergeCloudInit
  <2>1. WorkerTypeOK'
    BY <1>17, <1>t, WriteType, WithoutType, ExceptType DEF MergeCloudInit, Returns
  <2>2. source' \in BootSource
    BY <1>17 DEF MergeCloudInit, TypeOK, BootSource, Source
  <2> QED
    BY <1>17, <1>w, <2>1, <2>2, SeenType DEF MergeCloudInit, TypeOK
<1>18. CASE CloudInitFails
  BY <1>18, <1>h, <1>t, WriteType, ExceptType DEF CloudInitFails, Returns
<1>19. CASE SyncScrapeResources
  BY <1>19, <1>h, <1>t, ContinueType, MarkType
     DEF SyncScrapeResources, Location, Returns, Status, Reason
<1>20. CASE Probe
  <2>1. WorkerTypeOK'
    BY <1>20, <1>t, ContinueType, WriteType, MarkType, WithoutType, ExceptType
       DEF Probe, Location, Status, Reason
  <2>2. seen' \in Seen
    BY <1>20, SeenType DEF Probe, TypeOK, Seen, BootstrapState, Guest, ExporterUp
  <2> QED
    BY <1>20, <1>w, <2>1, <2>2 DEF Probe, TypeOK
<1>a. ASSUME NEW o \in Metadata, AlloyError(o) PROVE WorkerTypeOK'
  BY <1>a, <1>t, WriteType, ExceptType DEF AlloyError, Location
<1>21. CASE CheckAlloy
  <2>1. WorkerTypeOK'
    BY <1>21, <1>t, <1>a, ContinueType DEF CheckAlloy, Location
  <2>2. seen' \in Seen
    BY <1>21, SeenType DEF CheckAlloy, TypeOK, Seen
  <2> QED
    BY <1>21, <1>w, <2>1, <2>2 DEF CheckAlloy, TypeOK
<1>22. CASE InstallAlloy
  <2>1. guest' \in Guest
    BY <1>22 DEF InstallAlloy, TypeOK, Guest, Seen
  <2> QED
    BY <1>22, <2>1 DEF InstallAlloy, TypeOK, Location, queue, cluster
<1>23. CASE InstallAlloyFails
  <2>1. guest' \in Guest
    BY <1>23 DEF InstallAlloyFails, TypeOK, Guest, Seen
  <2> QED
    BY <1>23, <1>w, <1>a, <1>t, <2>1, SeenType DEF InstallAlloyFails, TypeOK
<1>24. CASE RecordAlloy
  <2> DEFINE mod == [Without(vm, {"alloy-error"}) EXCEPT !["alloy-config-hash"] = seen.token]
  <2>1. mod \in Metadata
    BY <1>t, WithoutType, ExceptType DEF TypeOK, Seen
  <2>2. api' \in Metadata /\ watch' \in BOOLEAN
    BY <1>24, <2>1, MergeType DEF RecordAlloy, Store, TypeOK
  <2>3. WorkerTypeOK'
    BY <1>24, <2>2, <1>t, <1>a, ContinueType DEF RecordAlloy, Location
  <2> QED
    BY <1>24, <1>w, <2>2, <2>3, SeenType DEF RecordAlloy, TypeOK
<1>25. CASE MarkAlloyFailed
  BY <1>25, <1>h, <1>t, MarkType DEF MarkAlloyFailed, Status, Reason
<1>26. CASE ClearErrors
  BY <1>26, <1>h, <1>t, WriteType, WithoutType, ExceptType DEF ClearErrors, Location
<1>27. CASE MarkReady
  BY <1>27, <1>h, <1>t, MarkType DEF MarkReady, Status, Reason
<1>28. CASE PatchVM
  <2>1. api' \in Metadata /\ watch' \in BOOLEAN
    BY <1>28, MergeType DEF PatchVM, Store, TypeOK
  <2>2. WorkerTypeOK'
    BY <1>28, <2>1, <1>t, ContinueType DEF PatchVM, WorkerTypeOK
  <2> QED
    BY <1>28, <1>w, <2>1, <2>2, SeenType DEF PatchVM, TypeOK
<1>29. CASE PatchFails
  BY <1>29, <1>h, <1>t, ContinueType DEF PatchFails, Returns
<1> QED
  BY <1>1, <1>2, <1>3, <1>4, <1>5, <1>6, <1>7, <1>8, <1>9, <1>10, <1>11, <1>12,
     <1>13, <1>14, <1>15, <1>16, <1>17, <1>18, <1>19, <1>20, <1>21, <1>22, <1>23,
     <1>24, <1>25, <1>26, <1>27, <1>28, <1>29 DEF Reconcile

\* The steps outside Reconcile keep the type invariant.
LEMMA TypeElsewhere == TypeOK /\ (Deliver \/ TimerFires \/ Environment) => TypeOK'
<1> SUFFICES ASSUME TypeOK, Deliver \/ TimerFires \/ Environment PROVE TypeOK'
  OBVIOUS
<1> USE DEF TypeOK, worker, queue, cluster
<1>1. CASE Deliver
  BY <1>1 DEF Deliver
<1>2. CASE TimerFires
  BY <1>2 DEF TimerFires
<1>3. CASE TimePasses
  BY <1>3, OlderType DEF TimePasses
<1>d. Disturbed => disturbances' \in 0 .. MaxDisturbances
  BY DisturbedType
<1>4. CASE Restart
  <2>1. NothingSeen \in Seen
    BY DEF Seen, NothingSeen
  <2> QED
    BY <1>4, <1>d, <2>1, BlankType DEF Restart, Location, Returns
<1>5. CASE ChangeVMI
  BY <1>5, <1>d DEF ChangeVMI
<1>6. CASE ChangeGuest
  <2>1. guest' \in Guest
    BY <1>6 DEF ChangeGuest, Guest
  <2> QED
    BY <1>6, <1>d, <2>1 DEF ChangeGuest
<1>7. CASE GuestBootstrapEnds
  <2>1. guest' \in Guest
    BY <1>7 DEF GuestBootstrapEnds, Guest
  <2> QED
    BY <1>7, <1>d, <2>1 DEF GuestBootstrapEnds
<1>8. CASE ChangeKeys
  BY <1>8, <1>d DEF ChangeKeys
<1>9. CASE RotateToken
  BY <1>9, <1>d DEF RotateToken
<1>10. CASE LabelOS
  <2>1. PICK os \in {"linux", "windows"} : Store([api EXCEPT !["os"] = os])
    BY <1>10 DEF LabelOS
  <2>2. api' \in Metadata /\ watch' \in BOOLEAN
    BY <2>1, ExceptType, ValueTypes DEF Store
  <2> QED
    BY <1>10, <1>d, <2>2 DEF LabelOS
<1>11. CASE Settle
  BY <1>11, DisturbancesAssumption DEF Settle
<1> QED
  BY <1>1, <1>2, <1>3, <1>4, <1>5, <1>6, <1>7, <1>8, <1>9, <1>10, <1>11 DEF Environment

\* Every variable keeps its type: in particular no patch, from whatever copy,
\* gives the VM a value that is not one of the annotation's values.
THEOREM TypeCorrect == Spec => []TypeOK
<1>1. TypeOK /\ [Next]_vars => TypeOK'
  BY TypeReconcile, TypeElsewhere
     DEF Next, Controller, vars, TypeOK, worker, queue, cluster
<1> QED
  BY TypeInit, <1>1, PTL DEF Spec

(***************************************************************************)
(* The inductive invariant.                                                *)
(*                                                                         *)
(* A worker decides on a copy of the VM that may be older than the API      *)
(* server's, and its patch is computed against that copy.  What makes the   *)
(* patches safe is how far a copy can be off, for the keys that matter.     *)
(***************************************************************************)

\* Any copy: its claims about the guest and the boot sources are true by now.
CopyOK(o) ==
    /\ o["status"] \in Status \cup {Absent}
    /\ o["remediation-completed"] = "true" => guest.remedied
    /\ o["sysprep-merged"] = "true" => source.sysprep = "merged"
    /\ o["cloudinit-secret-merged"] = "true" => source.cloudinit = "merged"

\* A copy read earlier: a request is only ever dropped, the stamp reaches every
\* copy before it expires, kvoctl's flag is constant and an OS, once known,
\* stays.
StaleOK(o) ==
    /\ o["remediation-required"] # "true" => api["remediation-required"] # "true"
    /\ o["bootstrap-started-at"] = "expired"
          <=> api["bootstrap-started-at"] = "expired"
    /\ o["ssh-bootstrap-complete"] = api["ssh-bootstrap-complete"]
    /\ DetectOS(o) # "unknown" => o["os"] = api["os"]

\* The places that are reached only when the copy asks for no remediation.
Late == Location \ {"idle", "entry", "remediation", "connect", "script", "patch"}

\* What a patch may change, computed against the worker's copy.
DraftOK(mod, at) ==
    /\ CopyOK(mod)
    /\ mod["ssh-bootstrap-complete"] = vm["ssh-bootstrap-complete"]
    /\ mod["os"] = vm["os"]
    /\ mod["bootstrap-started-at"] # vm["bootstrap-started-at"] =>
          vm["bootstrap-started-at"] = Absent /\ mod["bootstrap-started-at"] = "recent"
    /\ mod["remediation-required"] = "true" => vm["remediation-required"] = "true"
    /\ at \in Late => mod["remediation-required"] # "true"
    /\ at \notin {"patch", "install", "record"}
    /\ mod["remediation-required"] # vm["remediation-required"] =>
          Repaired \/ api["remediation-required"] # "true"
    /\ mod["status"] = "ready" =>
          vm["status"] = "ready" \/ mod["remediation-required"] # "true"

CopiesInv ==
    /\ CopyOK(api) /\ CopyOK(cache) /\ CopyOK(vm)
    /\ StaleOK(cache)
    /\ pc # "idle" => StaleOK(vm)
    /\ pc \in Late => vm["remediation-required"] # "true"
    /\ pc = "patch" => DraftOK(draft, resume)

\* The recorded hash is a token there has been, and while an installation is on
\* its way no other token than its own can have been recorded as current.
AlloyInv ==
    /\ token \in issued \cup {Absent}
    /\ seen.token \in issued \cup {Absent}
    /\ api["alloy-config-hash"] \in issued \cup {Absent}
    /\ pc \in {"install", "record"} =>
          (token # Absent /\ api["alloy-config-hash"] = token => seen.token = token)
    /\ pc = "record" => guest.alloy = seen.token
    /\ pc = "patch" => draft["alloy-config-hash"] = vm["alloy-config-hash"]
    /\ AlloyDriftSeen

\* The annotations that the invariants below speak of are keys.
LEMMA KeyTypes ==
    /\ {"os", "status", "reason", "exporter", "bootstrap-os"} \subseteq Key
    /\ {"ssh-bootstrap-complete", "bootstrap-started-at", "bootstrap-ready"} \subseteq Key
    /\ {"remediation-required", "remediation-completed", "remediation-error"}
          \subseteq Key
    /\ {"sysprep-merged", "sysprep-merge-error"} \subseteq Key
    /\ {"cloudinit-secret-merged", "cloudinit-secret-merge-error"} \subseteq Key
    /\ {"alloy-config-hash", "alloy-error"} \subseteq Key
BY DEF Key

\* The copy of an idle worker is within the bounds of a copy.
LEMMA BlankOK == CopyOK(Blank)
BY KeyTypes DEF CopyOK, Blank, Absent

\* The invariant of the copies holds of a VM as admission leaves it.
LEMMA CopiesInit == Init => CopiesInv
<1> SUFFICES ASSUME Init PROVE CopiesInv
  OBVIOUS
<1>1. PICK i \in InitialVMs : api = i.vm /\ source = i.source
  BY DEF Init
<1>2. \A k \in OperatorOwned : api[k] = Absent
  BY <1>1, InitialVMsAssumption
<1>3. CopyOK(api)
  BY <1>2 DEF OperatorOwned, CopyOK, Absent
<1>4. cache = api /\ vm = Blank /\ pc = "idle"
  BY DEF Init
<1> QED
  BY <1>3, <1>4, BlankOK DEF CopiesInv, StaleOK, Late

(***************************************************************************)
(* What a guest and the boot sources have achieved is not undone.          *)
(***************************************************************************)

Progress ==
    /\ guest.remedied => guest'.remedied
    /\ guest.marker = "success" => guest'.marker = "success"
    /\ source.sysprep = "merged" => source'.sysprep = "merged"
    /\ source.cloudinit = "merged" => source'.cloudinit = "merged"

\* A copy that was right stays right; so does a patch on its way.
LEMMA CopyKept ==
    ASSUME Progress, NEW o, CopyOK(o)
    PROVE  CopyOK(o)'
BY DEF Progress, CopyOK

\* The worker goes on with its copy: nothing is written.
LEMMA ContinueCopies ==
    ASSUME TypeOK, CopiesInv, pc # "idle", UNCHANGED <<api, cache>>, Progress,
           NEW at \in (Location \cup Returns) \ {"patch"}, Continue(at, vm),
           at \in Late => vm["remediation-required"] # "true"
    PROVE  CopiesInv'
<1>1. CopyOK(api)' /\ CopyOK(cache)'
  BY CopyKept DEF CopiesInv, CopyOK
<1>2. vm' = vm \/ (vm' = Blank /\ pc' = "idle")
  BY DEF Continue, Location, Returns
<1>3. CopyOK(vm)'
  BY <1>2, BlankOK, KeyTypes DEF CopiesInv, CopyOK, Progress, Blank, Absent
<1>4. StaleOK(cache)' /\ (pc' # "idle" => StaleOK(vm)')
  BY <1>2 DEF CopiesInv, StaleOK, Continue, DetectOS, Returns
<1>5. pc' \in Late => vm'["remediation-required"] # "true"
  BY <1>2 DEF Continue, Late, Returns
<1>6. pc' # "patch"
  BY DEF Continue
<1> QED
  BY <1>1, <1>3, <1>4, <1>5, <1>6 DEF CopiesInv

\* The worker prepares a patch.
LEMMA WriteCopies ==
    ASSUME TypeOK, CopiesInv, pc # "idle", UNCHANGED <<api, cache>>, Progress,
           NEW mod, NEW at, Write(mod, at),
           DraftOK(mod, at) \/ DraftOK(mod, at)'
    PROVE  CopiesInv'
<1>1. UNCHANGED <<api, cache, vm>> /\ pc' = "patch" /\ draft' = mod /\ resume' = at
  BY DEF Write
<1>2. CopyOK(api)' /\ CopyOK(cache)' /\ CopyOK(vm)'
  BY <1>1 DEF CopiesInv, CopyOK, Progress
<1>3. StaleOK(cache)' /\ StaleOK(vm)'
  BY <1>1 DEF CopiesInv, StaleOK, DetectOS
<1>4. DraftOK(draft, resume)'
  BY <1>1 DEF DraftOK, CopyOK, Progress, Repaired
<1> QED
  BY <1>1, <1>2, <1>3, <1>4 DEF CopiesInv, Late

\* mark: only "ready" asks for something.
LEMMA MarkCopies ==
    ASSUME TypeOK, CopiesInv, pc # "idle", UNCHANGED <<api, cache>>, Progress,
           NEW status \in Status, NEW reason, Mark(status, reason),
           status = "ready" => vm["remediation-required"] # "true"
    PROVE  CopiesInv'
<1> DEFINE return == IF status \in {"ready", "skipped"} THEN "done" ELSE "requeue"
           mod == [vm EXCEPT !["status"] = status, !["reason"] = reason]
<1>1. CASE Continue(return, vm)
  BY <1>1, ContinueCopies DEF Returns, Late, Location
<1>2. CASE Write(mod, return)
  <2>1. \A k \in Key \ {"status", "reason"} : mod[k] = vm[k]
    BY DEF TypeOK, Metadata
  <2>2. mod["status"] = status
    BY KeyTypes DEF TypeOK, Metadata
  <2>3. DraftOK(mod, return)
    BY <2>1, <2>2, KeyTypes DEF DraftOK, CopyOK, CopiesInv, Late, Location
  <2> QED
    BY <1>2, <2>3, WriteCopies
<1> QED
  BY <1>1, <1>2 DEF Mark

\* The API server merges a patch into what it holds.
LEMMA StoreCopies ==
    ASSUME TypeOK, CopiesInv, pc # "idle", UNCHANGED <<cache, guest, source>>,
           NEW mod \in Metadata, NEW at \in (Location \cup Returns) \ {"patch"},
           DraftOK(mod, at), Store(MergePatch(vm, mod, api)), Continue(at, api')
    PROVE  CopiesInv'
<1>1. \A k \in Key : api'[k] = IF mod[k] # vm[k] THEN mod[k] ELSE api[k]
  BY DEF Store, MergePatch
<1>2. CopyOK(api)'
  BY <1>1, KeyTypes DEF CopiesInv, DraftOK, CopyOK
<1>3. vm' = api' \/ (vm' = Blank /\ pc' = "idle")
  BY DEF Continue
<1>4. CopyOK(vm)' /\ CopyOK(cache)'
  BY <1>2, <1>3, BlankOK, KeyTypes DEF CopiesInv, CopyOK, Blank, Absent
<1>5. StaleOK(cache)'
  <2>1. api["remediation-required"] # "true" => api'["remediation-required"] # "true"
    BY <1>1, KeyTypes DEF CopiesInv, DraftOK, StaleOK
  <2>2. api'["bootstrap-started-at"] = "expired" <=> api["bootstrap-started-at"] = "expired"
    BY <1>1, KeyTypes DEF CopiesInv, DraftOK, StaleOK, Absent
  <2>3. UNCHANGED <<api["ssh-bootstrap-complete"], api["os"]>>
    BY <1>1, KeyTypes DEF DraftOK
  <2> QED
    BY <2>1, <2>2, <2>3 DEF CopiesInv, StaleOK, DetectOS
<1>6. pc' # "idle" => StaleOK(vm)'
  BY <1>3 DEF StaleOK
<1>7. pc' \in Late => vm'["remediation-required"] # "true"
  <2>1. at \in Late => api'["remediation-required"] # "true"
    BY <1>1, KeyTypes DEF CopiesInv, DraftOK, StaleOK
  <2> QED
    BY <1>3, <2>1 DEF Continue, Late, Returns
<1>8. pc' # "patch"
  BY DEF Continue
<1> QED
  BY <1>2, <1>4, <1>5, <1>6, <1>7, <1>8 DEF CopiesInv

\* Every step of Reconcile goes on, writes a draft, or merges one.
LEMMA CopiesReconcile == TypeOK /\ CopiesInv /\ Reconcile => CopiesInv'
<1> SUFFICES ASSUME TypeOK, CopiesInv, Reconcile PROVE CopiesInv'
  OBVIOUS
<1> USE KeyTypes
<1>t. Thinks => UNCHANGED <<api, cache>> /\ Progress
  BY DEF Thinks, Progress
<1>m. \A k \in Key : vm[k] = vm[k] /\ vm \in [Key -> Val]
  BY DEF TypeOK, Metadata
<1>d. CopyOK(vm)
  BY DEF CopiesInv
<1>v. pc # "idle" => StaleOK(vm)
  BY DEF CopiesInv
<1>r. pc \in Late => vm["remediation-required"] # "true"
  BY DEF CopiesInv
<1>1. CASE StartReconcile
  <2>1. UNCHANGED <<api, cache, guest, source>> /\ vm' = cache /\ pc' = "entry"
    BY <1>1 DEF StartReconcile
  <2> QED
    BY <2>1 DEF CopiesInv, CopyOK, StaleOK, DetectOS, Late
<1>2. CASE IgnoreUnmanaged
  BY <1>2, <1>t, ContinueCopies DEF IgnoreUnmanaged, Returns, Late, Location
<1>3. CASE ForgetUnknownOS
  <2> DEFINE mod == Without(vm, {"bootstrap-os", "exporter", "reason", "status"})
  <2>1. DraftOK(mod, "requeue")
    BY <1>d DEF DraftOK, CopyOK, Without, Late, Location, Absent
  <2> QED
    BY <1>3, <1>t, <2>1, WriteCopies DEF ForgetUnknownOS
<1>4. CASE SkipUnknownOS
  BY <1>4, <1>t, MarkCopies DEF SkipUnknownOS, Status
<1>5. CASE EnsureNamespace
  BY <1>5, <1>t, ContinueCopies, MarkCopies
     DEF EnsureNamespace, Status, Returns, Late, Location
<1>6. CASE RemediationNotRequired
  BY <1>6, <1>t, ContinueCopies DEF RemediationNotRequired, Late, Location
<1>7. CASE PrepareRemediation
  <2> DEFINE mod == [vm EXCEPT !["bootstrap-started-at"] = "recent"]
  <2>1. Unstamped(vm) => DraftOK(mod, "connect")
    BY <1>d, <1>m DEF DraftOK, CopyOK, Unstamped, Late, Location
  <2> QED
    BY <1>7, <1>t, <2>1, WriteCopies, ContinueCopies, MarkCopies
       DEF PrepareRemediation, Status, Late, Location
<1>e. pc # "idle" /\ UNCHANGED <<api, cache>> /\ Progress /\ RemediationError => CopiesInv'
  <2> DEFINE mod == [vm EXCEPT !["remediation-error"] = "error"]
  <2>1. DraftOK(mod, "requeue")
    BY <1>d, <1>m DEF DraftOK, CopyOK, Late, Location
  <2> QED
    BY <2>1, WriteCopies DEF RemediationError
<1>8. CASE ConnectLinux
  BY <1>8, <1>t, <1>e, ContinueCopies, MarkCopies
     DEF ConnectLinux, Status, Late, Location
<1>9. CASE ConnectWindows
  <2> DEFINE mod == [Without(vm, {"alloy-error"}) EXCEPT !["remediation-required"] = "false"]
  <2>1. guest.marker = "success" => DraftOK(mod, "requeue")
    BY <1>d, <1>m DEF DraftOK, CopyOK, Without, Late, Location, Repaired
  <2> QED
    BY <1>9, <1>t, <1>e, <2>1, WriteCopies, ContinueCopies, MarkCopies
       DEF ConnectWindows, Status, Late, Location
<1>10. CASE RunScript
  <2> DEFINE mod == [Without(vm, {"remediation-error", "remediation-required"})
                       EXCEPT !["remediation-completed"] = "true"]
  <2>1. UNCHANGED <<api, cache>> /\ Progress /\ pc # "idle" /\ guest'.remedied
    BY <1>10 DEF RunScript, Progress, TypeOK, Guest
  <2>2. UNCHANGED vm /\ UNCHANGED source /\ UNCHANGED api
    BY <1>10 DEF RunScript, Write
  <2>3. DraftOK(mod, "requeue")'
    BY <1>d, <1>m, <2>1, <2>2
       DEF DraftOK, CopyOK, Without, Late, Location, Repaired, Absent
  <2>4. Write(mod, "requeue")
    BY <1>10 DEF RunScript
  <2> QED
    BY <2>1, <2>2, <2>3, <2>4, WriteCopies
<1>11. CASE ScriptFails
  <2>1. Progress
    BY <1>11 DEF ScriptFails, Progress, TypeOK, Guest
  <2> QED
    BY <1>11, <1>e, <2>1 DEF ScriptFails
<1>12. CASE NoSysprepMerge
  BY <1>12, <1>t, <1>r, ContinueCopies DEF NoSysprepMerge, Late, Location
<1>13. CASE MergeSysprep
  <2> DEFINE mod == [Without(vm, {"sysprep-merge-error"}) EXCEPT !["sysprep-merged"] = "true"]
  <2>1. UNCHANGED <<api, cache, vm, guest>> /\ Progress /\ source'.sysprep = "merged"
           /\ pc = "sysprep"
    BY <1>13 DEF MergeSysprep, Write, Progress, TypeOK, BootSource
  <2>2. DraftOK(mod, "requeue")'
    BY <1>d, <1>m, <2>1 DEF DraftOK, CopyOK, Without, Late, Location, Progress
  <2>3. Write(mod, "requeue")
    BY <1>13 DEF MergeSysprep
  <2> QED
    BY <2>1, <2>2, <2>3, WriteCopies
<1>14. CASE SysprepFails
  <2> DEFINE mod == [vm EXCEPT !["sysprep-merge-error"] = "error"]
  <2>1. DraftOK(mod, "requeue")
    BY <1>d, <1>m DEF DraftOK, CopyOK, Late, Location
  <2> QED
    BY <1>14, <1>t, <2>1, WriteCopies DEF SysprepFails
<1>15. CASE NoCloudInitMerge
  BY <1>15, <1>t, <1>r, ContinueCopies DEF NoCloudInitMerge, Late, Location
<1>16. CASE CreateCloudInitSecret
  <2>1. UNCHANGED <<api, cache, vm, pc, draft, resume, guest>> /\ Progress
    BY <1>16 DEF CreateCloudInitSecret, Progress, TypeOK, BootSource, worker
  <2> QED
    BY <2>1 DEF CopiesInv, CopyOK, StaleOK, DraftOK, DetectOS, Repaired, Progress
<1>17. CASE MergeCloudInit
  <2> DEFINE mod == [Without(vm, {"cloudinit-secret-merge-error"})
                       EXCEPT !["cloudinit-secret-merged"] = "true"]
  <2>1. UNCHANGED <<api, cache, vm, guest>> /\ Progress /\ source'.cloudinit = "merged"
           /\ pc = "cloudinit"
    BY <1>17 DEF MergeCloudInit, Write, Progress, TypeOK, BootSource
  <2>2. DraftOK(mod, "requeue")'
    BY <1>d, <1>m, <2>1 DEF DraftOK, CopyOK, Without, Late, Location, Progress
  <2>3. Write(mod, "requeue")
    BY <1>17 DEF MergeCloudInit
  <2> QED
    BY <2>1, <2>2, <2>3, WriteCopies
<1>18. CASE CloudInitFails
  <2> DEFINE mod == [vm EXCEPT !["cloudinit-secret-merge-error"] = "error"]
  <2>1. DraftOK(mod, "requeue")
    BY <1>d, <1>m DEF DraftOK, CopyOK, Late, Location
  <2> QED
    BY <1>18, <1>t, <2>1, WriteCopies DEF CloudInitFails
<1>19. CASE SyncScrapeResources
  BY <1>19, <1>t, <1>r, ContinueCopies, MarkCopies
     DEF SyncScrapeResources, Status, Returns, Late, Location
<1>20. CASE Probe
  <2> DEFINE mod == [Without(vm, {"alloy-error", "reason"})
                       EXCEPT !["remediation-required"] = "false",
                              !["bootstrap-ready"] = "true"]
  <2>1. UNCHANGED <<api, cache>> /\ Progress /\ pc = "probe"
    BY <1>20 DEF Probe, Progress
  <2>2. vm["remediation-required"] # "true" /\ api["remediation-required"] # "true"
    BY <2>1, <1>r, <1>v DEF Late, Location, StaleOK
  <2>3. DraftOK(mod, "alloy")
    BY <1>d, <1>m, <2>2 DEF DraftOK, CopyOK, Without
  <2> QED
    BY <1>20, <2>1, <2>2, <2>3, WriteCopies, ContinueCopies, MarkCopies
       DEF Probe, Status, Location
<1>a. pc # "idle" /\ UNCHANGED <<api, cache>> /\ Progress /\ AlloyError(vm)
         /\ vm["remediation-required"] # "true" => CopiesInv'
  <2> DEFINE mod == [vm EXCEPT !["alloy-error"] = "error"]
  <2>1. vm["remediation-required"] # "true" => DraftOK(mod, "alloyFailed")
    BY <1>d, <1>m DEF DraftOK, CopyOK
  <2> QED
    BY <2>1, WriteCopies DEF AlloyError
<1>21. CASE CheckAlloy
  <2>1. UNCHANGED <<api, cache>> /\ Progress /\ pc = "alloy"
    BY <1>21 DEF CheckAlloy, Progress
  <2> QED
    BY <1>21, <2>1, <1>r, <1>a, ContinueCopies DEF CheckAlloy, Late, Location
<1>22. CASE InstallAlloy
  <2>1. UNCHANGED <<api, cache, vm, source>> /\ Progress /\ pc' = "record" /\ pc = "install"
    BY <1>22 DEF InstallAlloy, Progress, TypeOK, Guest
  <2> QED
    BY <2>1, <1>r DEF CopiesInv, CopyOK, StaleOK, DetectOS, Late, Location, Progress
<1>23. CASE InstallAlloyFails
  <2>1. UNCHANGED <<api, cache>> /\ Progress /\ pc = "install"
    BY <1>23 DEF InstallAlloyFails, Progress, TypeOK, Guest
  <2> QED
    BY <1>23, <2>1, <1>r, <1>a DEF InstallAlloyFails, Late, Location
<1>24. CASE RecordAlloy
  <2> DEFINE mod == [Without(vm, {"alloy-error"}) EXCEPT !["alloy-config-hash"] = seen.token]
  <2>1. pc = "record" /\ vm["remediation-required"] # "true"
    BY <1>24, <1>r DEF RecordAlloy, Late, Location
  <2>2. CASE Store(MergePatch(vm, mod, api)) /\ Continue("finish", api')
    <3>1. mod \in Metadata
      BY <1>m, WithoutType, ExceptType, ValueTypes DEF TypeOK, Seen
    <3>2. DraftOK(mod, "finish")
      BY <1>d, <1>m, <2>1 DEF DraftOK, CopyOK, Without
    <3>3. UNCHANGED <<cache, guest, source>>
      BY <1>24 DEF RecordAlloy
    <3> QED
      BY <2>1, <2>2, <3>1, <3>2, <3>3, StoreCopies DEF Location
  <2>3. CASE AlloyError(vm) /\ UNCHANGED api
    <3>1. UNCHANGED <<api, cache>> /\ Progress
      BY <1>24, <2>3 DEF RecordAlloy, Progress
    <3> QED
      BY <2>1, <2>3, <3>1, <1>a
  <2> QED
    BY <1>24, <2>2, <2>3 DEF RecordAlloy
<1>25. CASE MarkAlloyFailed
  BY <1>25, <1>t, MarkCopies DEF MarkAlloyFailed, Status
<1>26. CASE ClearErrors
  <2> DEFINE mod == [Without(vm, {"alloy-error", "reason"})
                       EXCEPT !["remediation-required"] = "false"]
  <2>1. vm["remediation-required"] # "true" /\ api["remediation-required"] # "true"
    BY <1>26, <1>r, <1>v DEF Late, Location, StaleOK, ClearErrors
  <2>2. DraftOK(mod, "verified")
    BY <1>d, <1>m, <2>1 DEF DraftOK, CopyOK, Without
  <2> QED
    BY <1>26, <1>t, <2>2, WriteCopies DEF ClearErrors
<1>27. CASE MarkReady
  BY <1>27, <1>t, <1>r, MarkCopies DEF MarkReady, Status, Late, Location
<1>28. CASE PatchVM
  <2>1. draft \in Metadata /\ DraftOK(draft, resume) /\ UNCHANGED <<cache, guest, source>>
    BY <1>28 DEF PatchVM, TypeOK, CopiesInv
  <2>2. resume \in (Location \cup Returns) \ {"patch"}
    BY <2>1 DEF TypeOK, DraftOK
  <2> QED
    BY <1>28, <2>1, <2>2, StoreCopies DEF PatchVM
<1>29. CASE PatchFails
  BY <1>29, <1>t, ContinueCopies DEF PatchFails, Returns, Late, Location
<1> QED
  BY <1>1, <1>2, <1>3, <1>4, <1>5, <1>6, <1>7, <1>8, <1>9, <1>10, <1>11, <1>12,
     <1>13, <1>14, <1>15, <1>16, <1>17, <1>18, <1>19, <1>20, <1>21, <1>22, <1>23,
     <1>24, <1>25, <1>26, <1>27, <1>28, <1>29 DEF Reconcile

\* The steps outside Reconcile keep the invariant of the copies.
LEMMA CopiesElsewhere ==
    TypeOK /\ CopiesInv /\ (Deliver \/ TimerFires \/ Environment) => CopiesInv'
<1> SUFFICES ASSUME TypeOK, CopiesInv, Deliver \/ TimerFires \/ Environment
             PROVE  CopiesInv'
  OBVIOUS
<1> USE KeyTypes DEF CopiesInv
<1>s. ASSUME UNCHANGED <<api, cache, worker>>, Progress PROVE CopiesInv'
  BY <1>s DEF CopyOK, StaleOK, DraftOK, DetectOS, Repaired, Progress, worker
<1>1. CASE Deliver
  <2>1. UNCHANGED <<api, worker, guest, source>> /\ cache' = api
    BY <1>1 DEF Deliver
  <2> QED
    BY <2>1 DEF CopyOK, StaleOK, DraftOK, DetectOS, Repaired, worker
<1>2. CASE TimerFires
  BY <1>2, <1>s DEF TimerFires, Progress
<1>3. CASE TimePasses
  <2> DEFINE stamp == "bootstrap-started-at"
  <2>1. \A o \in Metadata : \A k \in Key :
           Older(o)[k] = IF k = stamp /\ o[stamp] = "recent" THEN "expired" ELSE o[k]
    BY DEF Older, Metadata
  <2>2. UNCHANGED <<pc, resume, guest, source>>
    BY <1>3 DEF TimePasses
  <2>3. \A k \in Key \ {stamp} : UNCHANGED <<api[k], cache[k], vm[k], draft[k]>>
    BY <1>3, <2>1 DEF TimePasses, TypeOK
  <2>4. api'[stamp] = "expired" /\ cache'[stamp] = "expired"
          /\ (pc # "idle" => vm'[stamp] = "expired")
    BY <1>3, <2>1 DEF TimePasses, TypeOK
  <2>5. CopyOK(api)' /\ CopyOK(cache)' /\ CopyOK(vm)'
    BY <2>2, <2>3 DEF CopyOK
  <2>6. StaleOK(cache)' /\ (pc' # "idle" => StaleOK(vm)')
    BY <2>2, <2>3, <2>4 DEF StaleOK, DetectOS
  <2>7. ASSUME pc = "patch" PROVE DraftOK(draft, resume)'
    <3>1. vm[stamp] = "recent" /\ DraftOK(draft, resume)
      BY <1>3, <2>7 DEF TimePasses
    <3>2. draft[stamp] = vm[stamp]
      BY <3>1 DEF DraftOK, Absent
    <3>3. draft'[stamp] = vm'[stamp]
      BY <1>3, <2>1, <3>2 DEF TimePasses, TypeOK
    <3> QED
      BY <3>1, <3>3, <2>2, <2>3 DEF DraftOK, CopyOK, Repaired
  <2> QED
    BY <2>2, <2>3, <2>5, <2>6, <2>7 DEF Late
<1>4. CASE Restart
  <2>1. UNCHANGED <<api, guest, source>> /\ cache' = api /\ pc' = "idle" /\ vm' = Blank
    BY <1>4 DEF Restart
  <2> QED
    BY <2>1, BlankOK DEF CopyOK, StaleOK, Late, Blank, Absent
<1>5. CASE ChangeVMI
  BY <1>5, <1>s DEF ChangeVMI, Progress
<1>6. CASE ChangeGuest
  BY <1>6, <1>s DEF ChangeGuest, Progress, TypeOK, Guest
<1>7. CASE GuestBootstrapEnds
  BY <1>7, <1>s DEF GuestBootstrapEnds, Progress, TypeOK, Guest
<1>8. CASE ChangeKeys
  BY <1>8, <1>s DEF ChangeKeys, Progress
<1>9. CASE RotateToken
  BY <1>9, <1>s DEF RotateToken, Progress
<1>10. CASE LabelOS
  <2>1. PICK os \in {"linux", "windows"} : api' = [api EXCEPT !["os"] = os]
    BY <1>10 DEF LabelOS, Store
  <2>2. \A k \in Key \ {"os"} : api'[k] = api[k]
    BY <2>1 DEF TypeOK, Metadata
  <2>3. UNCHANGED <<cache, worker, guest, source>> /\ DetectOS(api) = "unknown"
    BY <1>10 DEF LabelOS
  <2>4. \A o : StaleOK(o) => DetectOS(o) = "unknown"
    BY <2>3 DEF StaleOK, DetectOS
  <2> QED
    BY <2>2, <2>3, <2>4 DEF CopyOK, StaleOK, DraftOK, DetectOS, Repaired, worker
<1>11. CASE Settle
  BY <1>11, <1>s DEF Settle, Progress
<1> QED
  BY <1>1, <1>2, <1>3, <1>4, <1>5, <1>6, <1>7, <1>8, <1>9, <1>10, <1>11 DEF Environment

\* Every step keeps the invariant of the copies.
LEMMA CopiesStep == TypeOK /\ CopiesInv /\ [Next]_vars => CopiesInv'
<1> SUFFICES ASSUME TypeOK, CopiesInv, UNCHANGED vars PROVE CopiesInv'
  BY CopiesReconcile, CopiesElsewhere DEF Next, Controller
<1> QED
  BY DEF vars, worker, CopiesInv, CopyOK, StaleOK, DraftOK, DetectOS, Repaired

\* Every step keeps the type invariant.
LEMMA TypeStep == TypeOK /\ [Next]_vars => TypeOK'
BY TypeReconcile, TypeElsewhere
   DEF Next, Controller, vars, TypeOK, worker, queue, cluster

\* The inductive invariant of the specification: types and copies together.
THEOREM CopiesAreSafe == Spec => [](TypeOK /\ CopiesInv)
BY TypeInit, CopiesInit, TypeStep, CopiesStep, PTL DEF Spec

\* markRemediation: a VM that says its remediation is completed has had the
\* install script run in its guest to the end.
THEOREM CompletedRepaired == Spec => []CompletedMeansRepaired
<1>1. CopiesInv => CompletedMeansRepaired
  BY DEF CopiesInv, CopyOK, CompletedMeansRepaired
<1> QED
  BY CopiesAreSafe, <1>1, PTL

\* markSysprep, markCloudInitSecret: the markers are never ahead of the sources.
THEOREM MarkersTruthful == Spec => []MergedMarkersTruthful
<1>1. CopiesInv => MergedMarkersTruthful
  BY DEF CopiesInv, CopyOK, MergedMarkersTruthful
<1> QED
  BY CopiesAreSafe, <1>1, PTL

(***************************************************************************)
(* Action properties.                                                      *)
(***************************************************************************)

\* Only PatchVM, RecordAlloy, TimePasses and LabelOS change the VM.
LEMMA ApiChanges ==
    ASSUME [Next]_vars
    PROVE  \/ UNCHANGED api
           \/ PatchVM
           \/ RecordAlloy
           \/ TimePasses
           \/ LabelOS
BY DEF Next, Controller, Reconcile, Environment, vars, Thinks, StartReconcile,
       IgnoreUnmanaged, ForgetUnknownOS, SkipUnknownOS, EnsureNamespace,
       RemediationNotRequired, PrepareRemediation, ConnectLinux, ConnectWindows,
       RunScript, ScriptFails, NoSysprepMerge, MergeSysprep, SysprepFails,
       NoCloudInitMerge, CreateCloudInitSecret, MergeCloudInit, CloudInitFails,
       SyncScrapeResources, Probe, CheckAlloy, InstallAlloy, InstallAlloyFails,
       MarkAlloyFailed, ClearErrors, MarkReady, PatchFails, Deliver, TimerFires,
       Restart, ChangeVMI, ChangeGuest, GuestBootstrapEnds, ChangeKeys, RotateToken,
       Settle

\* PatchVM and RecordAlloy merge a draft that DraftOK describes.
LEMMA ApiMerges ==
    ASSUME TypeOK, CopiesInv, PatchVM \/ RecordAlloy, api' # api
    PROVE  /\ StaleOK(vm)
           /\ UNCHANGED guest
           /\ \E mod \in Metadata : \E at \in Location \cup Returns :
                 /\ DraftOK(mod, at)
                 /\ \A k \in Key : api'[k] = IF mod[k] # vm[k] THEN mod[k] ELSE api[k]
<1> USE KeyTypes
<1>1. StaleOK(vm) /\ CopyOK(vm)
  BY DEF CopiesInv, PatchVM, RecordAlloy
<1>2. CASE PatchVM
  <2>1. draft \in Metadata /\ resume \in Location \cup Returns /\ DraftOK(draft, resume)
    BY <1>2 DEF PatchVM, CopiesInv, TypeOK
  <2>2. \A k \in Key : api'[k] = IF draft[k] # vm[k] THEN draft[k] ELSE api[k]
    BY <1>2 DEF PatchVM, Store, MergePatch
  <2> QED
    BY <1>1, <1>2, <2>1, <2>2 DEF PatchVM
<1>3. CASE RecordAlloy
  <2> DEFINE mod == [Without(vm, {"alloy-error"}) EXCEPT !["alloy-config-hash"] = seen.token]
  <2>1. vm \in [Key -> Val] /\ pc = "record" /\ vm["remediation-required"] # "true"
    BY <1>3 DEF RecordAlloy, CopiesInv, Late, Location, TypeOK, Metadata
  <2>2. mod \in Metadata
    BY <2>1, WithoutType, ExceptType, ValueTypes DEF TypeOK, Seen, Metadata
  <2>3. DraftOK(mod, "finish")
    BY <1>1, <2>1 DEF DraftOK, CopyOK, Without
  <2>4. \A k \in Key : api'[k] = IF mod[k] # vm[k] THEN mod[k] ELSE api[k]
    BY <1>3 DEF RecordAlloy, Store, MergePatch
  <2>5. UNCHANGED guest
    BY <1>3 DEF RecordAlloy
  <2> QED
    BY <1>1, <2>2, <2>3, <2>4, <2>5 DEF Location
<1> QED
  BY <1>2, <1>3

\* ensureBootstrapStartedAt, PrepareRemediation: no reconcile, from whatever
\* copy, takes back or renews a stamp that has expired.
THEOREM StampIsKept == Spec => StampKept
<1>1. ASSUME TypeOK, CopiesInv, [Next]_vars, api["bootstrap-started-at"] = "expired"
      PROVE  api'["bootstrap-started-at"] = "expired"
  <2>1. CASE UNCHANGED api
    BY <1>1, <2>1
  <2>2. CASE (PatchVM \/ RecordAlloy) /\ api' # api
    BY <1>1, <2>2, ApiMerges, KeyTypes DEF StaleOK, DraftOK, Absent
  <2>3. CASE TimePasses
    BY <1>1, <2>3 DEF TimePasses
  <2>4. CASE LabelOS
    BY <1>1, <2>4, KeyTypes DEF LabelOS, Store, TypeOK, Metadata
  <2> QED
    BY <1>1, <2>1, <2>2, <2>3, <2>4, ApiChanges
<1> QED
  BY CopiesAreSafe, <1>1, PTL DEF Spec, StampKept

\* The script starts only from "connect", by one of two actions.
LEMMA ScriptStarts ==
    ASSUME [Next]_vars, pc = "connect", pc' = "script"
    PROVE  ConnectLinux \/ ConnectWindows
BY DEF Next, Controller, Reconcile, Environment, vars, worker, StartReconcile,
       IgnoreUnmanaged, ForgetUnknownOS, SkipUnknownOS, EnsureNamespace,
       RemediationNotRequired, PrepareRemediation,
       RunScript, ScriptFails, NoSysprepMerge, MergeSysprep, SysprepFails,
       NoCloudInitMerge, CreateCloudInitSecret, MergeCloudInit, CloudInitFails,
       SyncScrapeResources, Probe, CheckAlloy, InstallAlloy, InstallAlloyFails,
       RecordAlloy, MarkAlloyFailed, ClearErrors, MarkReady, PatchVM, PatchFails,
       Deliver, TimerFires, TimePasses, Restart, ChangeVMI, ChangeGuest,
       GuestBootstrapEnds, ChangeKeys, RotateToken, LabelOS, Settle

\* reconcileRemediation: a Windows guest's own bootstrap gets its 10 minutes,
\* by the stamp on the VM and not only by the one in the worker's copy.
THEOREM BootstrapUndisturbed == Spec => BootstrapNotInterrupted
<1>1. ASSUME TypeOK, CopiesInv, [Next]_vars, pc = "connect", pc' = "script",
             api["os"] = "windows", guest.marker = "unknown"
      PROVE  TimedOut(api) \/ api["ssh-bootstrap-complete"] = "true"
  <2>1. StaleOK(vm)
    BY <1>1 DEF CopiesInv
  <2>2. ~ConnectLinux
    BY <1>1, <2>1 DEF ConnectLinux, StaleOK, DetectOS
  <2>3. ConnectWindows
    BY <1>1, <2>2, ScriptStarts
  <2>4. ~BootstrapMayStillRun(vm)
    BY <1>1, <2>3 DEF ConnectWindows, Mark, Write, Continue, RemediationError
  <2> QED
    BY <1>1, <2>1, <2>4 DEF BootstrapMayStillRun, TimedOut, StaleOK
<1> QED
  BY CopiesAreSafe, <1>1, PTL DEF Spec, BootstrapNotInterrupted

(***************************************************************************)
(* Refinement of VMLifecycle.                                              *)
(***************************************************************************)

\* A new VM is a new VM of VMLifecycle.
LEMMA LifecycleInit == Init => Lifecycle!Init
<1> SUFFICES ASSUME Init PROVE Lifecycle!Init
  OBVIOUS
<1>1. PICK i \in InitialVMs : api = i.vm
  BY DEF Init
<1>2. api["status"] = Absent
  BY <1>1, InitialVMsAssumption DEF OperatorOwned
<1>3. Repaired = FALSE
  BY DEF Init, Repaired
<1> QED
  BY <1>2, <1>3 DEF Lifecycle!Init, Status, Absent

\* No step takes a guest's repair back: the install script is never undone.
LEMMA RepairedStays ==
    ASSUME TypeOK, [Next]_vars
    PROVE  Repaired => Repaired'
BY DEF TypeOK, Guest, Repaired, Next, Controller, Reconcile, Environment, vars, Thinks,
       StartReconcile,
       IgnoreUnmanaged, ForgetUnknownOS, SkipUnknownOS, EnsureNamespace,
       RemediationNotRequired, PrepareRemediation, ConnectLinux, ConnectWindows,
       RunScript, ScriptFails, NoSysprepMerge, MergeSysprep, SysprepFails,
       NoCloudInitMerge, CreateCloudInitSecret, MergeCloudInit, CloudInitFails,
       SyncScrapeResources, Probe, CheckAlloy, InstallAlloy, InstallAlloyFails,
       RecordAlloy, MarkAlloyFailed, ClearErrors, MarkReady, PatchVM, PatchFails,
       Deliver, TimerFires, TimePasses, Restart, ChangeVMI, ChangeGuest,
       GuestBootstrapEnds, ChangeKeys, RotateToken, LabelOS, Settle

\* A step that changes the VM is a report or does not show; any other step is a
\* repair or does not show.
LEMMA LifecycleStep ==
    ASSUME TypeOK, CopiesInv, [Next]_vars
    PROVE  [Lifecycle!Next]_<<api["status"],
                              api["remediation-required"] = "true", Repaired>>
<1> USE KeyTypes
<1>1. CASE UNCHANGED api
  <2>1. CASE UNCHANGED Repaired
    BY <1>1, <2>1
  <2>2. CASE ~UNCHANGED Repaired
    <3>1. Repaired' = TRUE
      BY <2>2, RepairedStays DEF Repaired, TypeOK, Guest
    <3> QED
      BY <1>1, <3>1 DEF Lifecycle!Next, Lifecycle!Repair
  <2> QED
    BY <2>1, <2>2
<1>2. CASE (PatchVM \/ RecordAlloy) /\ api' # api
  <2>1. StaleOK(vm) /\ UNCHANGED Repaired
    BY <1>2, ApiMerges DEF Repaired
  <2>2. PICK mod \in Metadata, at \in Location \cup Returns :
           /\ DraftOK(mod, at)
           /\ \A k \in Key : api'[k] = IF mod[k] # vm[k] THEN mod[k] ELSE api[k]
    BY <1>2, ApiMerges
  <2>3. api'["status"] \in Status \cup {Absent}
    BY <2>2 DEF DraftOK, CopyOK, CopiesInv
  <2>4. api'["remediation-required"] = "true" => api["remediation-required"] = "true"
    BY <2>1, <2>2 DEF DraftOK, StaleOK
  <2>5. api["remediation-required"] = "true" /\ api'["remediation-required"] # "true"
           => Repaired
    BY <2>2 DEF DraftOK
  <2>6. api["status"] # "ready" /\ api'["status"] = "ready"
           => api'["remediation-required"] # "true"
    BY <2>1, <2>2 DEF DraftOK, StaleOK
  <2>7. Lifecycle!Report
    BY <2>1, <2>3, <2>4, <2>5, <2>6 DEF Lifecycle!Report
  <2> QED
    BY <2>7 DEF Lifecycle!Next
<1>3. CASE TimePasses \/ LabelOS
  <2>1. UNCHANGED <<api["status"], api["remediation-required"], guest>>
    BY <1>3 DEF TimePasses, LabelOS, Store, Older, TypeOK, Metadata
  <2> QED
    BY <2>1 DEF Repaired
<1> QED
  BY <1>1, <1>2, <1>3, ApiChanges

\* The operator keeps the promise of VMLifecycle.
THEOREM RefinesLifecycle == Spec => ImplementsLifecycle
<1>1. TypeOK /\ CopiesInv /\ [Next]_vars
         => [Lifecycle!Next]_(Lifecycle!vars)
  BY LifecycleStep DEF Lifecycle!vars
<1> QED
  BY CopiesAreSafe, LifecycleInit, <1>1, PTL
     DEF Spec, ImplementsLifecycle, Lifecycle!Spec

(***************************************************************************)
(* The recorded hash and the collector's configuration.                    *)
(***************************************************************************)

\* Nothing is recorded of a new VM.
LEMMA AlloyInit == Init => AlloyInv
<1> SUFFICES ASSUME Init PROVE AlloyInv
  OBVIOUS
<1>1. PICK i \in InitialVMs : api = i.vm
  BY DEF Init
<1>2. api["alloy-config-hash"] = Absent
  BY <1>1, InitialVMsAssumption DEF OperatorOwned
<1> QED
  BY <1>2 DEF Init, AlloyInv, AlloyDriftSeen, NothingSeen

\* Away from installing and recording, the invariant only asks that a patch
\* leaves the hash alone.
LEMMA AlloyKept ==
    ASSUME AlloyInv, UNCHANGED <<token, issued, guest>>,
           UNCHANGED api \/ api'["alloy-config-hash"] = api["alloy-config-hash"],
           seen'.token \in {seen.token, Absent},
           pc' \notin {"install", "record"},
           pc' = "patch" => draft'["alloy-config-hash"] = vm'["alloy-config-hash"]
    PROVE  AlloyInv'
BY DEF AlloyInv, AlloyDriftSeen, NothingSeen

\* A step that goes on without touching the guest or the token keeps AlloyInv,
\* unless it enters the installation.
LEMMA AlloyContinue ==
    ASSUME TypeOK, AlloyInv, UNCHANGED <<api, token, issued, guest>>,
           seen'.token \in {seen.token, Absent},
           NEW at, at \notin {"install", "record", "patch"}, NEW o, Continue(at, o)
    PROVE  AlloyInv'
BY AlloyKept DEF Continue

\* Preparing a patch that leaves the recorded hash alone keeps AlloyInv.
LEMMA AlloyWrite ==
    ASSUME TypeOK, AlloyInv, UNCHANGED <<api, token, issued>>,
           UNCHANGED guest.alloy,
           seen'.token \in {seen.token, Absent},
           NEW mod, mod["alloy-config-hash"] = vm["alloy-config-hash"],
           NEW at, Write(mod, at)
    PROVE  AlloyInv'
BY DEF Write, AlloyInv, AlloyDriftSeen

\* mark keeps AlloyInv.
LEMMA AlloyMark ==
    ASSUME TypeOK, AlloyInv, UNCHANGED <<api, token, issued, guest>>,
           seen'.token \in {seen.token, Absent},
           NEW status \in Status, NEW reason, Mark(status, reason)
    PROVE  AlloyInv'
<1> DEFINE return == IF status \in {"ready", "skipped"} THEN "done" ELSE "requeue"
           mod == [vm EXCEPT !["status"] = status, !["reason"] = reason]
<1>1. CASE Continue(return, vm)
  BY <1>1, AlloyContinue
<1>2. CASE Write(mod, return)
  <2>1. mod["alloy-config-hash"] = vm["alloy-config-hash"]
    BY KeyTypes DEF TypeOK, Metadata
  <2> QED
    BY <1>2, <2>1, AlloyWrite
<1> QED
  BY <1>1, <1>2 DEF Mark

\* After a patch Reconcile goes on where the collector is not being installed.
ResumeOK == pc = "patch" => resume \notin {"patch", "install", "record"}

\* InstallAlloy applies what CheckAlloy read; RecordAlloy records what was
\* applied.  Every other step leaves the hash and the collector alone.
LEMMA AlloyReconcile == TypeOK /\ ResumeOK /\ AlloyInv /\ Reconcile => AlloyInv'
<1> SUFFICES ASSUME TypeOK, ResumeOK, AlloyInv, Reconcile PROVE AlloyInv'
  OBVIOUS
<1> USE KeyTypes DEF Returns, Status
<1>t. Thinks => UNCHANGED <<api, token, issued, guest>> /\ seen'.token \in {seen.token, Absent}
  BY DEF Thinks, cluster, KeepSeen, NothingSeen
<1>s. KeepSeen => seen'.token \in {seen.token, Absent}
  BY DEF KeepSeen, NothingSeen
<1>c. ASSUME UNCHANGED cluster PROVE UNCHANGED <<token, issued>>
  BY <1>c DEF cluster
<1>m. vm \in [Key -> Val]
  BY DEF TypeOK, Metadata
<1>1. CASE StartReconcile
  BY <1>1, <1>c, AlloyKept DEF StartReconcile
<1>2. CASE IgnoreUnmanaged
  BY <1>2, <1>t, AlloyContinue DEF IgnoreUnmanaged
<1>3. CASE ForgetUnknownOS
  BY <1>3, <1>t, AlloyWrite DEF ForgetUnknownOS, Without
<1>4. CASE SkipUnknownOS
  BY <1>4, <1>t, AlloyMark DEF SkipUnknownOS
<1>5. CASE EnsureNamespace
  BY <1>5, <1>t, AlloyContinue, AlloyMark DEF EnsureNamespace
<1>6. CASE RemediationNotRequired
  BY <1>6, <1>t, AlloyContinue DEF RemediationNotRequired
<1>7. CASE PrepareRemediation
  BY <1>7, <1>t, <1>m, AlloyContinue, AlloyWrite, AlloyMark DEF PrepareRemediation
<1>e. [vm EXCEPT !["remediation-error"] = "error"]["alloy-config-hash"]
         = vm["alloy-config-hash"]
  BY <1>m
<1>8. CASE ConnectLinux
  BY <1>8, <1>t, <1>e, AlloyContinue, AlloyWrite, AlloyMark DEF ConnectLinux, RemediationError
<1>9. CASE ConnectWindows
  BY <1>9, <1>t, <1>e, <1>m, AlloyContinue, AlloyWrite, AlloyMark
     DEF ConnectWindows, RemediationError, Without
<1>10. CASE RunScript
  <2>1. UNCHANGED guest.alloy
    BY <1>10 DEF RunScript, TypeOK, Guest
  <2> QED
    BY <1>10, <1>s, <1>c, <2>1, AlloyWrite DEF RunScript, Without
<1>11. CASE ScriptFails
  <2>1. UNCHANGED guest.alloy
    BY <1>11 DEF ScriptFails, TypeOK, Guest
  <2> QED
    BY <1>11, <1>s, <1>c, <1>e, <2>1, AlloyWrite DEF ScriptFails, RemediationError
<1>12. CASE NoSysprepMerge
  BY <1>12, <1>t, AlloyContinue DEF NoSysprepMerge
<1>13. CASE MergeSysprep
  BY <1>13, <1>s, <1>c, AlloyWrite DEF MergeSysprep, Without
<1>14. CASE SysprepFails
  BY <1>14, <1>t, <1>m, AlloyWrite DEF SysprepFails
<1>15. CASE NoCloudInitMerge
  BY <1>15, <1>t, AlloyContinue DEF NoCloudInitMerge
<1>16. CASE CreateCloudInitSecret
  BY <1>16, <1>c DEF CreateCloudInitSecret, AlloyInv, AlloyDriftSeen, worker
<1>17. CASE MergeCloudInit
  BY <1>17, <1>s, <1>c, AlloyWrite DEF MergeCloudInit, Without
<1>18. CASE CloudInitFails
  BY <1>18, <1>t, <1>m, AlloyWrite DEF CloudInitFails
<1>19. CASE SyncScrapeResources
  BY <1>19, <1>t, AlloyContinue, AlloyMark DEF SyncScrapeResources
<1>20. CASE Probe
  <2>1. seen'.token \in {seen.token, Absent}
    BY <1>20, <1>s DEF Probe, TypeOK, Seen
  <2> QED
    BY <1>20, <1>c, <2>1, AlloyContinue, AlloyWrite, AlloyMark DEF Probe, Without
<1>a. [vm EXCEPT !["alloy-error"] = "error"]["alloy-config-hash"] = vm["alloy-config-hash"]
  BY <1>m
<1>21. CASE CheckAlloy
  <2>1. UNCHANGED <<api, token, issued, guest>>
    BY <1>21, <1>c DEF CheckAlloy
  <2>2. CASE Continue("finish", vm) /\ KeepSeen
    BY <2>1, <2>2, <1>s, AlloyContinue
  <2>3. CASE AlloyError(vm) /\ KeepSeen
    BY <2>1, <2>3, <1>a, <1>s, AlloyWrite DEF AlloyError
  <2>4. CASE Continue("install", vm) /\ seen' = [seen EXCEPT !.token = token]
    <3>1. seen'.token = token /\ pc' = "install"
      BY <2>4 DEF TypeOK, Seen, Continue
    <3> QED
      BY <2>1, <3>1 DEF AlloyInv, AlloyDriftSeen
  <2> QED
    BY <1>21, <2>2, <2>3, <2>4 DEF CheckAlloy
<1>22. CASE InstallAlloy
  <2>1. guest'.alloy = seen.token
    BY <1>22 DEF InstallAlloy, TypeOK, Guest
  <2> QED
    BY <1>22, <1>c, <2>1 DEF InstallAlloy, AlloyInv, AlloyDriftSeen
<1>23. CASE InstallAlloyFails
  <2>1. guest'.alloy \in {guest.alloy, seen.token} /\ pc = "install"
    BY <1>23 DEF InstallAlloyFails, TypeOK, Guest
  <2>2. UNCHANGED <<api, vm>> /\ pc' = "patch" /\ seen'.token \in {seen.token, Absent}
           /\ draft'["alloy-config-hash"] = vm["alloy-config-hash"]
    BY <1>23, <1>s, <1>a DEF InstallAlloyFails, AlloyError, Write
  <2> QED
    BY <1>23, <1>c, <2>1, <2>2 DEF InstallAlloyFails, AlloyInv, AlloyDriftSeen
<1>24. CASE RecordAlloy
  <2> DEFINE mod == [Without(vm, {"alloy-error"}) EXCEPT !["alloy-config-hash"] = seen.token]
  <2>1. UNCHANGED <<token, issued, guest>> /\ seen'.token \in {seen.token, Absent}
           /\ pc = "record"
    BY <1>24, <1>c, <1>s DEF RecordAlloy
  <2>2. CASE Store(MergePatch(vm, mod, api)) /\ Continue("finish", api')
    <3>1. api'["alloy-config-hash"] \in {seen.token, api["alloy-config-hash"]}
      BY <2>2 DEF Store, MergePatch, Without
    <3> QED
      BY <2>1, <2>2, <3>1 DEF Continue, AlloyInv, AlloyDriftSeen
  <2>3. CASE AlloyError(vm) /\ UNCHANGED api
    BY <2>1, <2>3, <1>a, AlloyWrite DEF AlloyError
  <2> QED
    BY <1>24, <2>2, <2>3 DEF RecordAlloy
<1>25. CASE MarkAlloyFailed
  BY <1>25, <1>t, AlloyMark DEF MarkAlloyFailed
<1>26. CASE ClearErrors
  BY <1>26, <1>t, AlloyWrite DEF ClearErrors, Without
<1>27. CASE MarkReady
  BY <1>27, <1>t, AlloyMark DEF MarkReady
<1>28. CASE PatchVM
  <2>1. api'["alloy-config-hash"] = api["alloy-config-hash"]
    BY <1>28 DEF PatchVM, Store, MergePatch, AlloyInv
  <2>2. pc' \notin {"patch", "install", "record"}
    BY <1>28 DEF PatchVM, Continue, ResumeOK
  <2> QED
    BY <1>28, <1>c, <1>s, <2>1, <2>2, AlloyKept DEF PatchVM
<1>29. CASE PatchFails
  BY <1>29, <1>t, AlloyContinue DEF PatchFails
<1> QED
  BY <1>1, <1>2, <1>3, <1>4, <1>5, <1>6, <1>7, <1>8, <1>9, <1>10, <1>11, <1>12,
     <1>13, <1>14, <1>15, <1>16, <1>17, <1>18, <1>19, <1>20, <1>21, <1>22, <1>23,
     <1>24, <1>25, <1>26, <1>27, <1>28, <1>29 DEF Reconcile

\* The steps outside Reconcile keep AlloyInv.
LEMMA AlloyElsewhere ==
    TypeOK /\ AlloyInv /\ (Deliver \/ TimerFires \/ Environment) => AlloyInv'
<1> SUFFICES ASSUME TypeOK, AlloyInv, Deliver \/ TimerFires \/ Environment
             PROVE  AlloyInv'
  OBVIOUS
<1> USE KeyTypes DEF worker, cluster
<1>s. ASSUME UNCHANGED <<api, worker, token, issued>>, UNCHANGED guest.alloy
      PROVE  AlloyInv'
  BY <1>s DEF AlloyInv, AlloyDriftSeen
<1>1. CASE Deliver
  BY <1>1, <1>s DEF Deliver
<1>2. CASE TimerFires
  BY <1>2, <1>s DEF TimerFires
<1>3. CASE TimePasses
  <2>1. \A o \in Metadata : Older(o)["alloy-config-hash"] = o["alloy-config-hash"]
    BY DEF Older, Metadata
  <2> QED
    BY <1>3, <2>1 DEF TimePasses, TypeOK, AlloyInv, AlloyDriftSeen
<1>4. CASE Restart
  BY <1>4 DEF Restart, AlloyInv, AlloyDriftSeen, NothingSeen
<1>5. CASE ChangeVMI
  BY <1>5, <1>s DEF ChangeVMI
<1>6. CASE ChangeGuest
  BY <1>6, <1>s DEF ChangeGuest, TypeOK, Guest
<1>7. CASE GuestBootstrapEnds
  BY <1>7, <1>s DEF GuestBootstrapEnds, TypeOK, Guest
<1>8. CASE ChangeKeys
  BY <1>8, <1>s DEF ChangeKeys
<1>9. CASE RotateToken
  <2>1. PICK t \in Token \ issued : token' = t /\ issued' = issued \cup {t}
    BY <1>9 DEF RotateToken
  <2>2. api["alloy-config-hash"] \in issued \cup {Absent}
    BY DEF AlloyInv
  <2>3. token' # Absent => api["alloy-config-hash"] # token'
    BY <2>1, <2>2
  <2>4. UNCHANGED <<api, worker, guest>>
    BY <1>9 DEF RotateToken
  <2> QED
    BY <2>1, <2>2, <2>3, <2>4 DEF AlloyInv, AlloyDriftSeen
<1>10. CASE LabelOS
  BY <1>10, <1>s DEF LabelOS, Store, TypeOK, Metadata, AlloyInv, AlloyDriftSeen
<1>11. CASE Settle
  BY <1>11, <1>s DEF Settle
<1> QED
  BY <1>1, <1>2, <1>3, <1>4, <1>5, <1>6, <1>7, <1>8, <1>9, <1>10, <1>11 DEF Environment

\* reconcileLinuxAlloy, reconcileWindowsAlloy: whenever the operator would skip an
\* installation because of the recorded hash, the guest runs that configuration.
THEOREM DriftIsSeen == Spec => []AlloyDriftSeen
<1>1. TypeOK /\ CopiesInv /\ AlloyInv /\ [Next]_vars => AlloyInv'
  <2>1. UNCHANGED vars /\ AlloyInv => AlloyInv'
    BY DEF vars, worker, cluster, AlloyInv, AlloyDriftSeen
  <2> QED
    BY <2>1, AlloyReconcile, AlloyElsewhere
       DEF Next, Controller, CopiesInv, DraftOK, ResumeOK
<1>2. AlloyInv => AlloyDriftSeen
  BY DEF AlloyInv
<1> QED
  BY CopiesAreSafe, AlloyInit, <1>1, <1>2, PTL DEF Spec

(***************************************************************************)
(* No VM is forgotten.                                                     *)
(***************************************************************************)

\* Nothing has been announced to the controller since the worker read the VM.
Fresh == ~queued /\ ~watch

AfterCloudInit ==
    {"vmi", "probe", "alloy", "install", "record", "alloyFailed", "finish", "verified"}

NoRequest(o) == o["remediation-required"] # "true"
SysprepDone(o) == ~MergePending(o, "sysprep-merge-required", "sysprep-merged")
CloudInitDone(o) ==
    ~MergePending(o, "cloudinit-secret-merge-required", "cloudinit-secret-merged")

\* What a worker that has got to `at` has found of the VM, and what one that has
\* returned for good ("done") had found.
Passed(at, o) ==
    /\ at \in {"sysprep", "cloudinit"} \cup AfterCloudInit => NoRequest(o)
    /\ at \in {"cloudinit"} \cup AfterCloudInit => SysprepDone(o)
    /\ at \in AfterCloudInit => CloudInitDone(o)
    /\ at = "done" =>
          \/ ~Managed(o)
          \/ DetectOS(o) = "unknown"
          \/ o["status"] = "ready" /\ NoRequest(o) /\ SysprepDone(o) /\ CloudInitDone(o)

\* As long as nothing is announced the worker's copy is the VM itself, so that
\* what it concluded still holds when it returns.
WakeInv ==
    /\ ~watch => cache = api
    /\ pc # "idle" /\ Fresh => vm = api
    /\ pc \notin {"idle", "patch"} /\ Fresh => Passed(pc, vm)
    /\ pc = "patch" => resume \notin {"idle", "patch"}
    /\ pc = "patch" /\ Fresh => Passed(resume, draft)
    /\ AtRest => Passed("done", api)

\* The annotations that decide whether a VM has anything outstanding are keys.
LEMMA OutstandingKeys ==
    /\ {"bootstrap-managed", "logging-enabled", "alloy-config-hash"} \subseteq Key
    /\ {"sysprep-merge-required", "cloudinit-secret-merge-required"} \subseteq Key
BY DEF Key

\* A VM that is new to the operator is in its queue.
LEMMA WakeInit == Init => WakeInv
BY DEF Init, WakeInv, Fresh, AtRest

\* A step that goes on or returns with the worker's copy keeps WakeInv.
LEMMA ContinueWake ==
    ASSUME TypeOK, WakeInv, pc # "idle", UNCHANGED <<api, cache, watch, queued>>,
           NEW at, at \notin {"idle", "patch"}, Continue(at, vm),
           Fresh => Passed(at, vm)
    PROVE  WakeInv'
<1> USE DEF Fresh, WakeInv
<1>1. CASE at \in Returns
  <2>1. pc' = "idle" /\ (at = "requeue" => delayed' = TRUE)
    BY <1>1 DEF Continue, TypeOK
  <2>2. AtRest' => at = "done" /\ Fresh
    BY <1>1, <2>1 DEF AtRest, Returns
  <2>3. AtRest' => Passed("done", api')
    BY <2>2
  <2> QED
    BY <2>1, <2>3 DEF Passed, NoRequest, SysprepDone, CloudInitDone, MergePending,
       Managed, DetectOS
<1>2. CASE at \notin Returns
  <2>1. pc' = at /\ vm' = vm
    BY <1>2 DEF Continue
  <2>2. Fresh' => Passed(pc', vm')
    BY <2>1
  <2> QED
    BY <2>1, <2>2 DEF AtRest, Passed, NoRequest, SysprepDone, CloudInitDone, MergePending,
       Managed, DetectOS
<1> QED
  BY <1>1, <1>2

\* So does a step that prepares a patch.
LEMMA WriteWake ==
    ASSUME WakeInv, pc # "idle", UNCHANGED <<api, cache, watch, queued>>,
           NEW mod, NEW at, at \notin {"idle", "patch"}, Write(mod, at),
           Fresh => Passed(at, mod)
    PROVE  WakeInv'
BY DEF Write, WakeInv, Fresh, AtRest

\* mark asks to be called again, unless the VM is skipped or ready.
LEMMA MarkWake ==
    ASSUME TypeOK, WakeInv, pc # "idle", UNCHANGED <<api, cache, watch, queued>>,
           NEW status \in Status, NEW reason, Mark(status, reason),
           Fresh => \/ status = "pending"
                    \/ DetectOS(vm) = "unknown"
                    \/ status = "ready" /\ Passed("verified", vm)
    PROVE  WakeInv'
<1> DEFINE return == IF status \in {"ready", "skipped"} THEN "done" ELSE "requeue"
           mod == [vm EXCEPT !["status"] = status, !["reason"] = reason]
<1>1. mod["status"] = status /\ \A k \in Key \ {"status", "reason"} : mod[k] = vm[k]
  BY KeyTypes DEF TypeOK, Metadata
<1>2. ASSUME Fresh, NEW o, o["status"] = status,
             \A k \in Key \ {"status", "reason"} : o[k] = vm[k]
      PROVE  Passed(return, o)
  <2>1. CASE status = "pending"
    BY <2>1 DEF Passed, AfterCloudInit
  <2>2. CASE DetectOS(vm) = "unknown"
    <3>1. DetectOS(o) = "unknown"
      BY <1>2, <2>2, KeyTypes DEF DetectOS
    <3> QED
      BY <3>1 DEF Passed, AfterCloudInit
  <2>3. CASE status = "ready" /\ Passed("verified", vm)
    <3>1. NoRequest(o) /\ SysprepDone(o) /\ CloudInitDone(o)
      BY <1>2, <2>3, KeyTypes, OutstandingKeys
         DEF Passed, AfterCloudInit, NoRequest, SysprepDone, CloudInitDone, MergePending
    <3> QED
      BY <1>2, <2>3, <3>1 DEF Passed, AfterCloudInit
  <2> QED
    BY <1>2, <2>1, <2>2, <2>3
<1>3. CASE Continue(return, vm) /\ vm["status"] = status
  BY <1>2, <1>3, ContinueWake
<1>4. CASE Write(mod, return)
  <2>1. Fresh => Passed(return, mod)
    BY <1>1, <1>2
  <2>2. return \notin {"idle", "patch"}
    OBVIOUS
  <2> HIDE DEF mod, return
  <2> QED
    BY <1>4, <2>1, <2>2, WriteWake
<1> QED
  BY <1>3, <1>4 DEF Mark

\* A write that changes the VM is announced; one that does not leaves what the
\* worker meant to write.
LEMMA StoreWake ==
    ASSUME TypeOK, WakeInv, pc # "idle", UNCHANGED <<cache, queued>>,
           NEW mod \in Metadata, NEW at, at \notin {"idle", "patch"},
           Fresh => Passed(at, mod),
           Store(MergePatch(vm, mod, api)), Continue(at, api')
    PROVE  WakeInv'
<1>1. Fresh' => Fresh /\ UNCHANGED api /\ api = vm
  BY DEF Store, Fresh, WakeInv, TypeOK
<1>2. ASSUME Fresh' PROVE api' = mod
  <2>1. api \in [Key -> Val] /\ mod \in [Key -> Val]
    BY DEF TypeOK, Metadata
  <2>2. \A k \in Key : api'[k] = mod[k]
    BY <1>1, <1>2 DEF Store, MergePatch
  <2> QED
    BY <1>1, <1>2, <2>1, <2>2
<1> QED
  BY <1>1, <1>2 DEF Continue, WakeInv, Fresh, AtRest, Returns, Store
\* A worker that asks for a retry, or that has only begun, has concluded nothing.
LEMMA PassedNothing ==
    ASSUME NEW o, NEW at \in {"entry", "remediation", "connect", "script", "requeue"}
    PROVE  Passed(at, o)
BY DEF Passed, AfterCloudInit

\* A worker that goes on knows what it knew before and what it has just checked.
LEMMA PassedOn ==
    ASSUME NEW o
    PROVE  /\ NoRequest(o) => Passed("sysprep", o)
           /\ Passed("sysprep", o) /\ SysprepDone(o) => Passed("cloudinit", o)
           /\ Passed("cloudinit", o) /\ CloudInitDone(o) => Passed("vmi", o)
           /\ \A here, there \in AfterCloudInit : Passed(here, o) => Passed(there, o)
           /\ ~Managed(o) => Passed("done", o)
BY DEF Passed, AfterCloudInit

\* The patches after the boot sources drop a request or leave alone what the
\* worker has checked.
LEMMA PassedDraft ==
    ASSUME NEW o, NEW mod, NEW here \in AfterCloudInit, NEW there \in AfterCloudInit,
           Passed(here, o),
           mod["remediation-required"] \in {"false", o["remediation-required"]},
           \A k \in {"sysprep-merge-required", "sysprep-merged",
                     "cloudinit-secret-merge-required", "cloudinit-secret-merged"} :
              mod[k] = o[k]
    PROVE  Passed(there, mod)
BY DEF Passed, AfterCloudInit, NoRequest, SysprepDone, CloudInitDone, MergePending

\* The token that the worker has read is a value.
LEMMA SeenValue == TypeOK => seen.token \in Val
BY ValueTypes DEF TypeOK, Seen

\* No step of Reconcile forgets the VM.
LEMMA WakeReconcile == TypeOK /\ WakeInv /\ Reconcile => WakeInv'
<1> SUFFICES ASSUME TypeOK, WakeInv, Reconcile PROVE WakeInv'
  OBVIOUS
<1> USE KeyTypes, OutstandingKeys
<1>t. Thinks => UNCHANGED <<api, cache, watch, queued>>
  BY DEF Thinks
<1>m. vm \in [Key -> Val]
  BY DEF TypeOK, Metadata
<1>p. pc \notin {"idle", "patch"} /\ Fresh => Passed(pc, vm)
  BY DEF WakeInv
<1>w. ASSUME pc # "idle", UNCHANGED <<api, cache, watch, queued>>,
             NEW mod, Write(mod, "requeue")
      PROVE  WakeInv'
  BY <1>w, PassedNothing, WriteWake
<1>c. ASSUME pc # "idle", UNCHANGED <<api, cache, watch, queued>>,
             NEW at \in {"entry", "remediation", "connect", "script", "requeue"},
             Continue(at, vm)
      PROVE  WakeInv'
  BY <1>c, PassedNothing, ContinueWake
<1>k. ASSUME pc # "idle", UNCHANGED <<api, cache, watch, queued>>,
             NEW reason, Mark("pending", reason)
      PROVE  WakeInv'
  BY <1>k, MarkWake DEF Status
<1>1. CASE StartReconcile
  <2>1. pc' = "entry" /\ vm' = cache /\ UNCHANGED <<api, cache, watch>>
    BY <1>1 DEF StartReconcile
  <2> QED
    BY <2>1, PassedNothing DEF WakeInv, Fresh, AtRest
<1>2. CASE IgnoreUnmanaged
  BY <1>2, <1>t, PassedOn, ContinueWake DEF IgnoreUnmanaged
<1>3. CASE ForgetUnknownOS
  BY <1>3, <1>t, <1>w DEF ForgetUnknownOS
<1>4. CASE SkipUnknownOS
  BY <1>4, <1>t, MarkWake DEF SkipUnknownOS, Status
<1>5. CASE EnsureNamespace
  BY <1>5, <1>t, <1>c, <1>k DEF EnsureNamespace
<1>6. CASE RemediationNotRequired
  BY <1>6, <1>t, PassedOn, ContinueWake DEF RemediationNotRequired, NoRequest
<1>7. CASE PrepareRemediation
  <2> DEFINE mod == [vm EXCEPT !["bootstrap-started-at"] = "recent"]
  <2>1. UNCHANGED <<api, cache, watch, queued>> /\ pc = "remediation"
    BY <1>7, <1>t DEF PrepareRemediation
  <2>2. ASSUME Write(mod, "connect") PROVE WakeInv'
    <3> HIDE DEF mod
    <3>1. Passed("connect", mod)
      BY PassedNothing
    <3> QED
      BY <2>1, <2>2, <3>1, WriteWake
  <2> QED
    BY <1>7, <2>1, <2>2, <1>c, <1>k DEF PrepareRemediation
<1>8. CASE ConnectLinux
  BY <1>8, <1>t, <1>c, <1>k, <1>w DEF ConnectLinux, RemediationError
<1>9. CASE ConnectWindows
  BY <1>9, <1>t, <1>c, <1>k, <1>w DEF ConnectWindows, RemediationError
<1>10. CASE RunScript
  BY <1>10, <1>w DEF RunScript
<1>11. CASE ScriptFails
  BY <1>11, <1>w DEF ScriptFails, RemediationError
<1>12. CASE NoSysprepMerge
  BY <1>12, <1>t, <1>p, PassedOn, ContinueWake DEF NoSysprepMerge, SysprepDone
<1>13. CASE MergeSysprep
  BY <1>13, <1>w DEF MergeSysprep
<1>14. CASE SysprepFails
  BY <1>14, <1>t, <1>w DEF SysprepFails
<1>15. CASE NoCloudInitMerge
  BY <1>15, <1>t, <1>p, PassedOn, ContinueWake DEF NoCloudInitMerge, CloudInitDone
<1>16. CASE CreateCloudInitSecret
  <2>1. UNCHANGED <<api, cache, watch, queued, delayed, pc, vm, draft, resume>>
    BY <1>16 DEF CreateCloudInitSecret, queue, worker
  <2> QED
    BY <2>1 DEF WakeInv, Fresh, AtRest, Passed, NoRequest, SysprepDone, CloudInitDone,
       MergePending, Managed, DetectOS
<1>17. CASE MergeCloudInit
  BY <1>17, <1>w DEF MergeCloudInit
<1>18. CASE CloudInitFails
  BY <1>18, <1>t, <1>w DEF CloudInitFails
<1>o. \A here, there \in AfterCloudInit :
         pc = here /\ Fresh => Passed(there, vm)
  BY <1>p, PassedOn DEF AfterCloudInit
<1>19. CASE SyncScrapeResources
  BY <1>19, <1>t, <1>c, <1>k, <1>o, ContinueWake DEF SyncScrapeResources, AfterCloudInit
<1>20. CASE Probe
  <2> DEFINE mod == [Without(vm, {"alloy-error", "reason"})
                       EXCEPT !["remediation-required"] = "false",
                              !["bootstrap-ready"] = "true"]
  <2>1. UNCHANGED <<api, cache, watch, queued>> /\ pc = "probe"
    BY <1>20 DEF Probe
  <2>2. Fresh => Passed("alloy", mod)
    BY <2>1, <1>m, <1>p, PassedDraft DEF Without, AfterCloudInit
  <2>3. Fresh => Passed("alloy", vm)
    BY <2>1, <1>o DEF AfterCloudInit
  <2> QED
    BY <1>20, <2>1, <2>2, <2>3, <1>k, ContinueWake, WriteWake DEF Probe
<1>a. ASSUME pc \in {"alloy", "install", "record"}, AlloyError(vm),
             UNCHANGED <<api, cache, watch, queued>>
      PROVE  WakeInv'
  <2> DEFINE mod == [vm EXCEPT !["alloy-error"] = "error"]
  <2>1. Fresh => Passed("alloyFailed", mod)
    BY <1>a, <1>m, <1>p, PassedDraft DEF AfterCloudInit
  <2>2. Write(mod, "alloyFailed")
    BY <1>a DEF AlloyError
  <2> HIDE DEF mod
  <2> QED
    BY <1>a, <2>1, <2>2, WriteWake
<1>21. CASE CheckAlloy
  <2>1. UNCHANGED <<api, cache, watch, queued>> /\ pc = "alloy"
    BY <1>21 DEF CheckAlloy
  <2>2. Fresh => Passed("finish", vm) /\ Passed("install", vm)
    BY <2>1, <1>o DEF AfterCloudInit
  <2> QED
    BY <1>21, <2>1, <2>2, <1>a, ContinueWake DEF CheckAlloy
<1>22. CASE InstallAlloy
  <2>1. UNCHANGED <<api, cache, watch, queued, vm>> /\ pc = "install" /\ pc' = "record"
    BY <1>22 DEF InstallAlloy, queue
  <2>2. Fresh => Passed("record", vm)
    BY <2>1, <1>o DEF AfterCloudInit
  <2> QED
    BY <2>1, <2>2 DEF WakeInv, Fresh, AtRest, Passed, NoRequest, SysprepDone,
       CloudInitDone, MergePending
<1>23. CASE InstallAlloyFails
  BY <1>23, <1>a DEF InstallAlloyFails
<1>24. CASE RecordAlloy
  <2> DEFINE mod == [Without(vm, {"alloy-error"}) EXCEPT !["alloy-config-hash"] = seen.token]
  <2>1. UNCHANGED <<cache, queued>> /\ pc = "record"
    BY <1>24 DEF RecordAlloy
  <2>2. CASE Store(MergePatch(vm, mod, api)) /\ Continue("finish", api')
    <3>1. mod \in Metadata
      BY WithoutType, ExceptType, SeenValue DEF TypeOK
    <3>2. Fresh => Passed("finish", mod)
      BY <2>1, <1>m, <1>p, PassedDraft DEF Without, AfterCloudInit
    <3> QED
      BY <2>1, <2>2, <3>1, <3>2, StoreWake
  <2>3. CASE AlloyError(vm) /\ UNCHANGED <<api, watch>>
    BY <2>1, <2>3, <1>a
  <2> QED
    BY <1>24, <2>2, <2>3 DEF RecordAlloy
<1>25. CASE MarkAlloyFailed
  BY <1>25, <1>t, <1>k DEF MarkAlloyFailed
<1>26. CASE ClearErrors
  <2> DEFINE mod == [Without(vm, {"alloy-error", "reason"})
                       EXCEPT !["remediation-required"] = "false"]
  <2>1. UNCHANGED <<api, cache, watch, queued>> /\ pc = "finish"
    BY <1>26, <1>t DEF ClearErrors
  <2>2. Fresh => Passed("verified", mod)
    BY <2>1, <1>m, <1>p, PassedDraft DEF Without, AfterCloudInit
  <2>3. Write(mod, "verified")
    BY <1>26 DEF ClearErrors
  <2> HIDE DEF mod
  <2> QED
    BY <2>1, <2>2, <2>3, WriteWake
<1>27. CASE MarkReady
  BY <1>27, <1>t, <1>p, MarkWake DEF MarkReady, Status
<1>28. CASE PatchVM
  <2>1. draft \in Metadata /\ UNCHANGED <<cache, queued>> /\ pc = "patch"
    BY <1>28 DEF PatchVM, TypeOK
  <2> QED
    BY <1>28, <2>1, StoreWake DEF PatchVM, WakeInv
<1>29. CASE PatchFails
  BY <1>29, <1>t, <1>c DEF PatchFails
<1> QED
  BY <1>1, <1>2, <1>3, <1>4, <1>5, <1>6, <1>7, <1>8, <1>9, <1>10, <1>11, <1>12,
     <1>13, <1>14, <1>15, <1>16, <1>17, <1>18, <1>19, <1>20, <1>21, <1>22, <1>23,
     <1>24, <1>25, <1>26, <1>27, <1>28, <1>29 DEF Reconcile

\* Nor does any other step: every change of the VM is announced.
LEMMA WakeElsewhere ==
    TypeOK /\ WakeInv /\ (Deliver \/ TimerFires \/ Environment) => WakeInv'
<1> SUFFICES ASSUME TypeOK, WakeInv, Deliver \/ TimerFires \/ Environment
             PROVE  WakeInv'
  OBVIOUS
<1> USE KeyTypes, OutstandingKeys DEF WakeInv, Fresh, AtRest
<1>s. ASSUME UNCHANGED <<api, cache, watch, worker>>,
             UNCHANGED queue \/ queued' = TRUE
      PROVE  WakeInv'
  BY <1>s DEF queue, worker, Passed, NoRequest, SysprepDone, CloudInitDone, MergePending,
     Managed, DetectOS
<1>1. CASE Deliver
  BY <1>1 DEF Deliver, worker
<1>2. CASE TimerFires
  BY <1>2, <1>s DEF TimerFires
<1>3. CASE TimePasses
  <2>1. \A o \in Metadata : \A k \in Key \ {"bootstrap-started-at"} : Older(o)[k] = o[k]
    BY DEF Older, Metadata
  <2>2. \A at : \A o \in Metadata : Passed(at, o) => Passed(at, Older(o))
    BY <2>1 DEF Passed, NoRequest, SysprepDone, CloudInitDone, MergePending, Managed,
       DetectOS
  <2>3. UNCHANGED <<watch, queued, delayed, pc, resume>>
    BY <1>3 DEF TimePasses, queue
  <2>4. api' = Older(api) /\ cache' = Older(cache) /\ vm' = Older(vm) /\ draft' = Older(draft)
    BY <1>3 DEF TimePasses
  <2>5. /\ Fresh /\ pc \notin {"idle", "patch"} => Passed(pc', vm')
        /\ Fresh /\ pc = "patch" => Passed(resume', draft')
        /\ AtRest => Passed("done", api')
    BY <2>2, <2>3, <2>4 DEF TypeOK
  <2> QED
    BY <2>3, <2>4, <2>5 DEF Passed, NoRequest, SysprepDone, CloudInitDone, MergePending,
       Managed, DetectOS
<1>4. CASE Restart
  BY <1>4 DEF Restart
<1>5. CASE ChangeVMI
  BY <1>5 DEF ChangeVMI, worker
<1>6. CASE ChangeGuest
  BY <1>6, <1>s DEF ChangeGuest
<1>7. CASE GuestBootstrapEnds
  BY <1>7, <1>s DEF GuestBootstrapEnds
<1>8. CASE ChangeKeys
  BY <1>8, <1>s DEF ChangeKeys
<1>9. CASE RotateToken
  BY <1>9, <1>s DEF RotateToken
<1>10. CASE LabelOS
  <2>1. PICK os \in {"linux", "windows"} :
           api' = [api EXCEPT !["os"] = os] /\ watch' = (watch \/ api' # api)
    BY <1>10 DEF LabelOS, Store
  <2>2. api'["os"] # api["os"]
    BY <1>10, <2>1 DEF LabelOS, DetectOS, TypeOK, Metadata
  <2> QED
    BY <1>10, <2>1, <2>2 DEF LabelOS, queue, worker
<1>11. CASE Settle
  BY <1>11, <1>s DEF Settle
<1> QED
  BY <1>1, <1>2, <1>3, <1>4, <1>5, <1>6, <1>7, <1>8, <1>9, <1>10, <1>11 DEF Environment

\* A VM that nothing will bring back has nothing outstanding.
LEMMA WakeEnough == WakeInv => NothingForgotten
BY DEF WakeInv, NothingForgotten, AtRest, ManagedVM, Outstanding, Passed, NoRequest,
       SysprepDone, CloudInitDone, BootSourcesDone

\* Reconcile and its queue: a VM that is not ready, or has a remediation or a merge
\* outstanding, is being reconciled, queued, or about to be.
THEOREM NeverForgotten == Spec => []NothingForgotten
<1>1. TypeOK /\ WakeInv /\ [Next]_vars => WakeInv'
  <2>1. UNCHANGED vars /\ WakeInv => WakeInv'
    BY DEF vars, queue, worker, WakeInv, Fresh, AtRest, Passed, NoRequest, SysprepDone,
       CloudInitDone, MergePending, Managed, DetectOS
  <2> QED
    BY <2>1, WakeReconcile, WakeElsewhere DEF Next, Controller
<1> QED
  BY TypeCorrect, WakeInit, <1>1, WakeEnough, PTL DEF Spec
=============================================================================
