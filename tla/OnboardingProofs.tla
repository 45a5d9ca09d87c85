-------------------------- MODULE OnboardingProofs --------------------------
(***************************************************************************)
(* Proofs about kvoctl onboard beside the operator, for any number of runs  *)
(* of kvoctl, any VMs, tokens and disturbances.                            *)
(*                                                                         *)
(* kvoctl writes back what it has read, so that the operator's copies may   *)
(* be off from the VM in any way: the bounds of CopiesInv do not hold here. *)
(* What holds is that every copy there is, kvoctl's too, claims only what   *)
(* has been done.                                                          *)
(***************************************************************************)
EXTENDS Onboarding, VMReconcilerProofs

(***************************************************************************)
(* Type correctness.                                                       *)
(***************************************************************************)

\* A JSON merge patch of metadata on metadata leaves metadata.
LEMMA OverlayType ==
    ASSUME NEW body \in Metadata, NEW cur \in Metadata
    PROVE  Overlay(body, cur) \in Metadata
BY DEF Overlay, Metadata

\* What kvoctl sends is metadata.
LEMMA PatchBodyType ==
    ASSUME NEW o \in Metadata, NEW os \in {"linux", "windows", Absent}
    PROVE  PatchBody(o, os) \in Metadata
<1> DEFINE base == IF o["reason"] = "missing-os-label"
                   THEN Without(o, {"reason", "status", "bootstrap-os", "exporter"})
                   ELSE o
<1>1. base \in [Key -> Val]
  BY WithoutType DEF Metadata
<1> HIDE DEF base
<1>2. [base EXCEPT !["os"] = IF @ = Absent THEN os ELSE @,
                   !["bootstrap-managed"] = "true",
                   !["logging-enabled"] = "true",
                   !["remediation-required"] = "true",
                   !["ssh-bootstrap-complete"] = "true"] \in Metadata
  BY <1>1, ValueTypes, KeyTypes DEF Metadata
<1> QED
  BY <1>2 DEF PatchBody, base

\* A run that has not begun, and one that has ended, hold nothing.
LEMMA NewRunType == NewRun \in RunRecord
BY BlankType DEF NewRun, RunRecord, RunState

\* The OS that classifyVM settles on is one a selector can give.
LEMMA CandidateType ==
    ASSUME NEW o, NEW sel \in Selection, CandidateOS(o, sel) # "unknown"
    PROVE  CandidateOS(o, sel) \in {"linux", "windows", Absent}
<1>1. CASE NormalizeOS(o) # Absent
  BY <1>1 DEF CandidateOS, NormalizeOS
<1>2. CASE NormalizeOS(o) = Absent
  <2>1. sel # {} /\ CandidateOS(o, sel) = CHOOSE os \in sel : TRUE
    BY <1>2 DEF CandidateOS
  <2> QED
    BY <2>1 DEF Selection
<1> QED
  BY <1>1, <1>2

\* No step of a run of kvoctl gives a variable a value it does not have.
LEMMA TypeOnboard == OnboardingTypeOK /\ Onboard => OnboardingTypeOK'
<1> SUFFICES ASSUME OnboardingTypeOK, NEW r \in Run,
                    \/ Classify(r) \/ InjectKey(r) \/ GetVM(r)
                    \/ SendPatch(r) \/ RunFails(r)
             PROVE  OnboardingTypeOK'
  BY DEF Onboard
<1>t. TypeOK /\ run \in [Run -> RunRecord] /\ run[r] \in RunRecord
  BY DEF OnboardingTypeOK
<1>a. ASSUME NEW rec \in RunRecord, Advance(r, rec), guest' \in Guest
      PROVE  OnboardingTypeOK'
  BY <1>t, <1>a DEF Advance, OnboardingTypeOK, TypeOK, queue, worker, cluster
<1>g. guest \in Guest /\ [guest EXCEPT !.ssh = TRUE] \in Guest
  BY <1>t DEF TypeOK, Guest
<1>1. CASE Classify(r)
  <2>1. PICK sel \in Selection :
          Advance(r, [run[r] EXCEPT
             !.state = IF Verdict(api, sel) = "ready" /\ vmi = "noIP"
                       THEN "failed"
                       ELSE Verdict(api, sel),
             !.selected = IF Verdict(api, sel) = "ready" /\ NormalizeOS(api) = Absent
                          THEN CandidateOS(api, sel)
                          ELSE Absent])
    BY <1>1 DEF Classify
  <2>2. Verdict(api, sel) \in RunState
    BY DEF Verdict, RunState
  <2>3. Verdict(api, sel) = "ready" => CandidateOS(api, sel) # "unknown"
    BY DEF Verdict
  <2>4. ASSUME NEW st \in RunState, NEW os \in {"linux", "windows", Absent}
        PROVE  [run[r] EXCEPT !.state = st, !.selected = os] \in RunRecord
    BY <1>t DEF RunRecord
  <2>5. (IF Verdict(api, sel) = "ready" /\ vmi = "noIP" THEN "failed"
         ELSE Verdict(api, sel)) \in RunState
    BY <2>2 DEF RunState
  <2>6. (IF Verdict(api, sel) = "ready" /\ NormalizeOS(api) = Absent
         THEN CandidateOS(api, sel) ELSE Absent) \in {"linux", "windows", Absent}
    BY <2>3, CandidateType
  <2>7. guest' \in Guest
    BY <1>1, <1>g DEF Classify
  <2> QED
    BY <2>1, <2>4, <2>5, <2>6, <2>7, <1>a
<1>2. CASE InjectKey(r)
  <2>1. [run[r] EXCEPT !.state = "key"] \in RunRecord
    BY <1>t DEF RunRecord, RunState
  <2> QED
    BY <1>2, <2>1, <1>a, <1>g DEF InjectKey
<1>3. CASE GetVM(r)
  <2>1. PatchBody(api, run[r].selected) \in Metadata
    BY <1>t, PatchBodyType DEF TypeOK, RunRecord
  <2>2. [run[r] EXCEPT !.state = "patch", !.body = PatchBody(api, run[r].selected)]
           \in RunRecord
    BY <1>t, <2>1 DEF RunRecord, RunState
  <2> QED
    BY <1>3, <2>2, <1>a, <1>g DEF GetVM
<1>4. CASE SendPatch(r)
  <2>1. api' \in Metadata
    BY <1>4, <1>t, OverlayType DEF SendPatch, TypeOK, RunRecord
  <2>2. [NewRun EXCEPT !.state = "onboarded"] \in RunRecord
    BY NewRunType DEF RunRecord, RunState
  <2> QED
    BY <1>4, <1>t, <2>1, <2>2
       DEF SendPatch, OnboardingTypeOK, TypeOK, queue, worker, cluster
<1>5. CASE RunFails(r)
  <2>1. [NewRun EXCEPT !.state = "failed"] \in RunRecord
    BY NewRunType DEF RunRecord, RunState
  <2> QED
    BY <1>5, <2>1, <1>a, <1>g DEF RunFails
<1> QED
  BY <1>1, <1>2, <1>3, <1>4, <1>5

\* Every step keeps the types.
LEMMA OnboardingTypeStep ==
    OnboardingTypeOK /\ [OnboardingNext]_onboardingVars => OnboardingTypeOK'
<1> SUFFICES ASSUME OnboardingTypeOK, [OnboardingNext]_onboardingVars
             PROVE  OnboardingTypeOK'
  OBVIOUS
<1>1. CASE Next /\ BodiesAge
  <2>1. TypeOK'
    BY <1>1, TypeStep DEF OnboardingTypeOK
  <2>2. \A r \in Run : [run[r] EXCEPT !.body = Older(@)] \in RunRecord
    BY OlderType DEF OnboardingTypeOK, RunRecord
  <2>3. run' \in [Run -> RunRecord]
    BY <1>1, <2>2 DEF BodiesAge, OnboardingTypeOK
  <2> QED
    BY <2>1, <2>3 DEF OnboardingTypeOK
<1>2. CASE UNCHANGED onboardingVars
  BY <1>2, TypeStep DEF OnboardingTypeOK, onboardingVars
<1> QED
  BY <1>1, <1>2, TypeOnboard DEF OnboardingNext

\* Every variable keeps its type: kvoctl's patch, however old what it sends back,
\* gives the VM no value that is not one of the annotation's values.
THEOREM OnboardingTypeCorrect == OnboardingSpec => []OnboardingTypeOK
<1>1. OnboardingInit => OnboardingTypeOK
  BY TypeInit, NewRunType DEF OnboardingInit, OnboardingTypeOK
<1> QED
  BY <1>1, OnboardingTypeStep, PTL DEF OnboardingSpec

(***************************************************************************)
(* No copy claims more than was done.                                      *)
(***************************************************************************)

\* The operator's copies, the pending patch among them ...
ClaimsInv == \A o \in {api, cache, vm, draft} : CopyOK(o)

\* ... and kvoctl's.
BodiesInv == \A r \in Run : CopyOK(run[r].body)

\* The worker goes on with its copy, or forgets it.
LEMMA ContinueClaims ==
    ASSUME ClaimsInv, UNCHANGED <<api, cache>>, Progress, NEW at, Continue(at, vm)
    PROVE  ClaimsInv'
<1>1. vm' \in {vm, Blank} /\ draft' = Blank
  BY DEF Continue
<1>2. \A o \in {api, cache, vm, Blank} : CopyOK(o)'
  BY BlankOK, CopyKept DEF ClaimsInv, CopyOK, Progress
<1> QED
  BY <1>1, <1>2 DEF ClaimsInv, CopyOK

\* The worker prepares a patch.
LEMMA WriteClaims ==
    ASSUME ClaimsInv, UNCHANGED <<api, cache>>, Progress, NEW mod, NEW at,
           Write(mod, at), CopyOK(mod) \/ CopyOK(mod)'
    PROVE  ClaimsInv'
<1>1. UNCHANGED <<api, cache, vm>> /\ draft' = mod
  BY DEF Write
<1>2. CopyOK(mod)'
  BY CopyKept DEF CopyOK, Progress
<1> QED
  BY <1>1, <1>2 DEF ClaimsInv, CopyOK, Progress

\* mark claims nothing but a status.
LEMMA MarkClaims ==
    ASSUME TypeOK, ClaimsInv, UNCHANGED <<api, cache>>, Progress,
           NEW status \in Status, NEW reason, Mark(status, reason)
    PROVE  ClaimsInv'
<1> DEFINE return == IF status \in {"ready", "skipped"} THEN "done" ELSE "requeue"
           mod == [vm EXCEPT !["status"] = status, !["reason"] = reason]
<1>1. CASE Continue(return, vm)
  BY <1>1, ContinueClaims
<1>2. CASE Write(mod, return)
  <2>1. CopyOK(mod)
    BY KeyTypes DEF TypeOK, Metadata, ClaimsInv, CopyOK
  <2> QED
    BY <1>2, <2>1, WriteClaims
<1> QED
  BY <1>1, <1>2 DEF Mark

\* The VM after a patch claims what it or the patch has claimed before.
LEMMA StoreClaims ==
    ASSUME ClaimsInv, UNCHANGED <<cache, guest, source>>, NEW mod, CopyOK(mod),
           NEW at, Store(MergePatch(vm, mod, api)), Continue(at, api')
    PROVE  ClaimsInv'
<1>1. \A k \in Key : api'[k] \in {mod[k], api[k]}
  BY DEF Store, MergePatch
<1>2. CopyOK(api)'
  BY <1>1, KeyTypes DEF ClaimsInv, CopyOK
<1>3. vm' \in {api', Blank} /\ draft' = Blank
  BY DEF Continue
<1> QED
  BY <1>2, <1>3, BlankOK DEF ClaimsInv, CopyOK

\* Every step of Reconcile goes on, writes a draft, or merges one.
LEMMA ClaimsReconcile == TypeOK /\ ClaimsInv /\ Reconcile => ClaimsInv'
<1> SUFFICES ASSUME TypeOK, ClaimsInv, Reconcile PROVE ClaimsInv'
  OBVIOUS
<1> USE KeyTypes
<1>t. Thinks => UNCHANGED <<api, cache>> /\ Progress
  BY DEF Thinks, Progress
<1>m. \A k \in Key : vm[k] = vm[k] /\ vm \in [Key -> Val]
  BY DEF TypeOK, Metadata
<1>d. CopyOK(vm)
  BY DEF ClaimsInv
<1>1. CASE StartReconcile
  <2>1. UNCHANGED <<api, cache, draft, guest, source>> /\ vm' = cache
    BY <1>1 DEF StartReconcile
  <2> QED
    BY <2>1 DEF ClaimsInv, CopyOK
<1>2. CASE IgnoreUnmanaged
  BY <1>2, <1>t, ContinueClaims DEF IgnoreUnmanaged, Returns
<1>3. CASE ForgetUnknownOS
  <2> DEFINE mod == Without(vm, {"bootstrap-os", "exporter", "reason", "status"})
  <2>1. CopyOK(mod)
    BY <1>d DEF CopyOK, Without, Absent
  <2> QED
    BY <1>3, <1>t, <2>1, WriteClaims DEF ForgetUnknownOS
<1>4. CASE SkipUnknownOS
  BY <1>4, <1>t, MarkClaims DEF SkipUnknownOS, Status
<1>5. CASE EnsureNamespace
  BY <1>5, <1>t, ContinueClaims, MarkClaims
     DEF EnsureNamespace, Status, Returns
<1>6. CASE RemediationNotRequired
  BY <1>6, <1>t, ContinueClaims DEF RemediationNotRequired
<1>7. CASE PrepareRemediation
  <2> DEFINE mod == [vm EXCEPT !["bootstrap-started-at"] = "recent"]
  <2>1. Unstamped(vm) => CopyOK(mod)
    BY <1>d, <1>m DEF CopyOK, Unstamped
  <2> QED
    BY <1>7, <1>t, <2>1, WriteClaims, ContinueClaims, MarkClaims
       DEF PrepareRemediation, Status
<1>e. UNCHANGED <<api, cache>> /\ Progress /\ RemediationError => ClaimsInv'
  <2> DEFINE mod == [vm EXCEPT !["remediation-error"] = "error"]
  <2>1. CopyOK(mod)
    BY <1>d, <1>m DEF CopyOK
  <2> QED
    BY <2>1, WriteClaims DEF RemediationError
<1>8. CASE ConnectLinux
  BY <1>8, <1>t, <1>e, ContinueClaims, MarkClaims
     DEF ConnectLinux, Status
<1>9. CASE ConnectWindows
  <2> DEFINE mod == [Without(vm, {"alloy-error"}) EXCEPT !["remediation-required"] = "false"]
  <2>1. guest.marker = "success" => CopyOK(mod)
    BY <1>d, <1>m DEF CopyOK, Without, Absent
  <2> QED
    BY <1>9, <1>t, <1>e, <2>1, WriteClaims, ContinueClaims, MarkClaims
       DEF ConnectWindows, Status
<1>10. CASE RunScript
  <2> DEFINE mod == [Without(vm, {"remediation-error", "remediation-required"})
                       EXCEPT !["remediation-completed"] = "true"]
  <2>1. UNCHANGED <<api, cache>> /\ Progress /\ guest'.remedied
    BY <1>10 DEF RunScript, Progress, TypeOK, Guest
  <2>2. UNCHANGED vm /\ UNCHANGED source /\ UNCHANGED api
    BY <1>10 DEF RunScript, Write
  <2>3. CopyOK(mod)'
    BY <1>d, <1>m, <2>1, <2>2
       DEF CopyOK, Without, Absent
  <2>4. Write(mod, "requeue")
    BY <1>10 DEF RunScript
  <2> QED
    BY <2>1, <2>2, <2>3, <2>4, WriteClaims
<1>11. CASE ScriptFails
  <2>1. Progress
    BY <1>11 DEF ScriptFails, Progress, TypeOK, Guest
  <2> QED
    BY <1>11, <1>e, <2>1 DEF ScriptFails
<1>12. CASE NoSysprepMerge
  BY <1>12, <1>t, ContinueClaims DEF NoSysprepMerge
<1>13. CASE MergeSysprep
  <2> DEFINE mod == [Without(vm, {"sysprep-merge-error"}) EXCEPT !["sysprep-merged"] = "true"]
  <2>1. UNCHANGED <<api, cache, vm, guest>> /\ Progress /\ source'.sysprep = "merged"
    BY <1>13 DEF MergeSysprep, Write, Progress, TypeOK, BootSource
  <2>2. CopyOK(mod)'
    BY <1>d, <1>m, <2>1 DEF CopyOK, Without, Progress, Absent
  <2>3. Write(mod, "requeue")
    BY <1>13 DEF MergeSysprep
  <2> QED
    BY <2>1, <2>2, <2>3, WriteClaims
<1>14. CASE SysprepFails
  <2> DEFINE mod == [vm EXCEPT !["sysprep-merge-error"] = "error"]
  <2>1. CopyOK(mod)
    BY <1>d, <1>m DEF CopyOK
  <2> QED
    BY <1>14, <1>t, <2>1, WriteClaims DEF SysprepFails
<1>15. CASE NoCloudInitMerge
  BY <1>15, <1>t, ContinueClaims DEF NoCloudInitMerge
<1>16. CASE CreateCloudInitSecret
  <2>1. UNCHANGED <<api, cache, vm, pc, draft, resume, guest>> /\ Progress
    BY <1>16 DEF CreateCloudInitSecret, Progress, TypeOK, BootSource, worker
  <2> QED
    BY <2>1 DEF ClaimsInv, CopyOK, Progress
<1>17. CASE MergeCloudInit
  <2> DEFINE mod == [Without(vm, {"cloudinit-secret-merge-error"})
                       EXCEPT !["cloudinit-secret-merged"] = "true"]
  <2>1. UNCHANGED <<api, cache, vm, guest>> /\ Progress /\ source'.cloudinit = "merged"
    BY <1>17 DEF MergeCloudInit, Write, Progress, TypeOK, BootSource
  <2>2. CopyOK(mod)'
    BY <1>d, <1>m, <2>1 DEF CopyOK, Without, Progress, Absent
  <2>3. Write(mod, "requeue")
    BY <1>17 DEF MergeCloudInit
  <2> QED
    BY <2>1, <2>2, <2>3, WriteClaims
<1>18. CASE CloudInitFails
  <2> DEFINE mod == [vm EXCEPT !["cloudinit-secret-merge-error"] = "error"]
  <2>1. CopyOK(mod)
    BY <1>d, <1>m DEF CopyOK
  <2> QED
    BY <1>18, <1>t, <2>1, WriteClaims DEF CloudInitFails
<1>19. CASE SyncScrapeResources
  BY <1>19, <1>t, ContinueClaims, MarkClaims
     DEF SyncScrapeResources, Status, Returns
<1>20. CASE Probe
  <2> DEFINE mod == [Without(vm, {"alloy-error", "reason"})
                       EXCEPT !["remediation-required"] = "false",
                              !["bootstrap-ready"] = "true"]
  <2>1. UNCHANGED <<api, cache>> /\ Progress
    BY <1>20 DEF Probe, Progress
  <2>2. CopyOK(mod)
    BY <1>d, <1>m DEF CopyOK, Without, Absent
  <2> QED
    BY <1>20, <2>1, <2>2, WriteClaims, ContinueClaims, MarkClaims
       DEF Probe, Status
<1>a. UNCHANGED <<api, cache>> /\ Progress /\ AlloyError(vm) => ClaimsInv'
  <2> DEFINE mod == [vm EXCEPT !["alloy-error"] = "error"]
  <2>1. CopyOK(mod)
    BY <1>d, <1>m DEF CopyOK
  <2> QED
    BY <2>1, WriteClaims DEF AlloyError
<1>21. CASE CheckAlloy
  <2>1. UNCHANGED <<api, cache>> /\ Progress
    BY <1>21 DEF CheckAlloy, Progress
  <2> QED
    BY <1>21, <2>1, <1>a, ContinueClaims DEF CheckAlloy
<1>22. CASE InstallAlloy
  <2>1. UNCHANGED <<api, cache, vm, source>> /\ Progress /\ UNCHANGED draft
    BY <1>22 DEF InstallAlloy, Progress, TypeOK, Guest
  <2> QED
    BY <2>1 DEF ClaimsInv, CopyOK, Progress
<1>23. CASE InstallAlloyFails
  <2>1. UNCHANGED <<api, cache>> /\ Progress
    BY <1>23 DEF InstallAlloyFails, Progress, TypeOK, Guest
  <2> QED
    BY <1>23, <2>1, <1>a DEF InstallAlloyFails
<1>24. CASE RecordAlloy
  <2> DEFINE mod == [Without(vm, {"alloy-error"}) EXCEPT !["alloy-config-hash"] = seen.token]
  <2>1. CASE Store(MergePatch(vm, mod, api)) /\ Continue("finish", api')
    <3>1. CopyOK(mod)
      BY <1>d, <1>m DEF CopyOK, Without, Absent
    <3>2. UNCHANGED <<cache, guest, source>>
      BY <1>24 DEF RecordAlloy
    <3> QED
      BY <2>1, <3>1, <3>2, StoreClaims
  <2>2. CASE AlloyError(vm) /\ UNCHANGED api
    <3>1. UNCHANGED <<api, cache>> /\ Progress
      BY <1>24, <2>2 DEF RecordAlloy, Progress
    <3> QED
      BY <2>2, <3>1, <1>a
  <2> QED
    BY <1>24, <2>1, <2>2 DEF RecordAlloy
<1>25. CASE MarkAlloyFailed
  BY <1>25, <1>t, MarkClaims DEF MarkAlloyFailed, Status
<1>26. CASE ClearErrors
  <2> DEFINE mod == [Without(vm, {"alloy-error", "reason"})
                       EXCEPT !["remediation-required"] = "false"]
  <2>1. CopyOK(mod)
    BY <1>d, <1>m DEF CopyOK, Without, Absent
  <2> QED
    BY <1>26, <1>t, <2>1, WriteClaims DEF ClearErrors
<1>27. CASE MarkReady
  BY <1>27, <1>t, MarkClaims DEF MarkReady, Status
<1>28. CASE PatchVM
  <2>1. CopyOK(draft) /\ UNCHANGED <<cache, guest, source>>
    BY <1>28 DEF PatchVM, ClaimsInv
  <2> QED
    BY <1>28, <2>1, StoreClaims DEF PatchVM
<1>29. CASE PatchFails
  BY <1>29, <1>t, ContinueClaims DEF PatchFails, Returns
<1> QED
  BY <1>1, <1>2, <1>3, <1>4, <1>5, <1>6, <1>7, <1>8, <1>9, <1>10, <1>11, <1>12,
     <1>13, <1>14, <1>15, <1>16, <1>17, <1>18, <1>19, <1>20, <1>21, <1>22, <1>23,
     <1>24, <1>25, <1>26, <1>27, <1>28, <1>29 DEF Reconcile

\* The steps outside Reconcile keep the claims.
LEMMA ClaimsElsewhere ==
    TypeOK /\ ClaimsInv /\ (Deliver \/ TimerFires \/ Environment) => ClaimsInv'
<1> SUFFICES ASSUME TypeOK, ClaimsInv, Deliver \/ TimerFires \/ Environment
             PROVE  ClaimsInv'
  OBVIOUS
<1> USE KeyTypes DEF ClaimsInv
<1>s. ASSUME UNCHANGED <<api, cache, worker>>, Progress PROVE ClaimsInv'
  BY <1>s DEF CopyOK, Progress, worker
<1>1. CASE Deliver
  BY <1>1 DEF Deliver, CopyOK, worker
<1>2. CASE TimerFires
  BY <1>2, <1>s DEF TimerFires, Progress
<1>3. CASE TimePasses
  <2>1. \A o \in {api, cache, vm, draft} :
           \A k \in Key \ {"bootstrap-started-at"} : Older(o)[k] = o[k]
    BY DEF Older, TypeOK, Metadata
  <2>2. UNCHANGED <<guest, source>> /\ api' = Older(api) /\ cache' = Older(cache)
          /\ vm' = Older(vm) /\ draft' = Older(draft)
    BY <1>3 DEF TimePasses
  <2> QED
    BY <2>1, <2>2 DEF CopyOK
<1>4. CASE Restart
  <2>1. UNCHANGED <<api, guest, source>> /\ cache' = api /\ vm' = Blank /\ draft' = Blank
    BY <1>4 DEF Restart
  <2> QED
    BY <2>1, BlankOK DEF CopyOK
<1>5. CASE ChangeVMI
  BY <1>5, <1>s DEF ChangeVMI, Progress
<1>6. CASE ChangeGuest
  BY <1>6, <1>s DEF ChangeGuest, Progress, TypeOK, Guest
<1>7. CASE GuestBootstrapEnds
  BY <1>7, <1>s DEF GuestBootstrapEnds, Progress, TypeOK, Guest
<1>8. CASE ChangeKeys
  BY <1>8, <1>s DEF ChangeKeys, Progress
<1>9. CASE RotateToken
  BY <1>9, <1>s DEF RotateToken, Progress
<1>10. CASE LabelOS
  <2>1. PICK os \in {"linux", "windows"} : api' = [api EXCEPT !["os"] = os]
    BY <1>10 DEF LabelOS, Store
  <2>2. \A k \in Key \ {"os"} : api'[k] = api[k]
    BY <2>1 DEF TypeOK, Metadata
  <2>3. UNCHANGED <<cache, worker, guest, source>>
    BY <1>10 DEF LabelOS
  <2> QED
    BY <2>2, <2>3 DEF CopyOK, worker
<1>11. CASE Settle
  BY <1>11, <1>s DEF Settle, Progress
<1> QED
  BY <1>1, <1>2, <1>3, <1>4, <1>5, <1>6, <1>7, <1>8, <1>9, <1>10, <1>11 DEF Environment

\* Nothing the operator, the guest or the cluster does undoes what was done.
LEMMA NextProgress == TypeOK /\ Next => Progress
<1> SUFFICES ASSUME TypeOK, Next PROVE Progress
  OBVIOUS
<1> USE DEF Progress
<1>1. CASE UNCHANGED <<guest, source>>
  BY <1>1
<1>2. CASE RunScript \/ ScriptFails \/ InstallAlloy \/ InstallAlloyFails
  BY <1>2 DEF RunScript, ScriptFails, InstallAlloy, InstallAlloyFails, TypeOK, Guest
<1>3. CASE MergeSysprep \/ CreateCloudInitSecret \/ MergeCloudInit
  BY <1>3 DEF MergeSysprep, CreateCloudInitSecret, MergeCloudInit, TypeOK, BootSource
<1>4. CASE ChangeGuest \/ GuestBootstrapEnds
  BY <1>4 DEF ChangeGuest, GuestBootstrapEnds, TypeOK, Guest
<1>5. CASE Deliver \/ TimerFires \/ Environment
  BY <1>5, <1>1, <1>4
     DEF Deliver, TimerFires, Environment, TimePasses, Restart, ChangeVMI, ChangeKeys,
         RotateToken, LabelOS, Settle
<1>6. CASE Reconcile
  <2>1. ASSUME Thinks PROVE UNCHANGED <<guest, source>>
    BY <2>1 DEF Thinks
  <2>2. CASE \/ IgnoreUnmanaged \/ ForgetUnknownOS \/ SkipUnknownOS \/ EnsureNamespace
             \/ RemediationNotRequired \/ PrepareRemediation
             \/ ConnectLinux \/ ConnectWindows
    BY <2>1, <2>2, <1>1
       DEF IgnoreUnmanaged, ForgetUnknownOS, SkipUnknownOS, EnsureNamespace,
           RemediationNotRequired, PrepareRemediation, ConnectLinux, ConnectWindows
  <2>3. CASE \/ NoSysprepMerge \/ SysprepFails \/ NoCloudInitMerge \/ CloudInitFails
             \/ SyncScrapeResources \/ MarkAlloyFailed \/ ClearErrors \/ MarkReady
             \/ PatchFails
    BY <2>1, <2>3, <1>1
       DEF NoSysprepMerge, SysprepFails, NoCloudInitMerge, CloudInitFails,
           SyncScrapeResources, MarkAlloyFailed, ClearErrors, MarkReady, PatchFails
  <2>4. CASE StartReconcile \/ Probe \/ CheckAlloy \/ RecordAlloy \/ PatchVM
    BY <2>4, <1>1 DEF StartReconcile, Probe, CheckAlloy, RecordAlloy, PatchVM
  <2> QED
    BY <1>2, <1>3, <1>6, <2>2, <2>3, <2>4 DEF Reconcile
<1> QED
  BY <1>5, <1>6 DEF Next, Controller

\* What kvoctl sends claims what it has read: it asks, and reports nothing.
LEMMA PatchBodyClaims ==
    ASSUME NEW o \in Metadata, NEW os \in {"linux", "windows", Absent}, CopyOK(o)
    PROVE  CopyOK(PatchBody(o, os))
<1> DEFINE base == IF o["reason"] = "missing-os-label"
                   THEN Without(o, {"reason", "status", "bootstrap-os", "exporter"})
                   ELSE o
           claims == {"status", "remediation-completed", "sysprep-merged",
                      "cloudinit-secret-merged"}
<1>1. base \in [Key -> Val]
  BY WithoutType DEF Metadata
<1>2. \A k \in claims : base[k] \in {o[k], Absent}
  BY KeyTypes DEF Without
<1> HIDE DEF base
<1>3. \A k \in claims : PatchBody(o, os)[k] = base[k]
  BY <1>1, KeyTypes DEF PatchBody, base
<1> QED
  BY <1>2, <1>3 DEF CopyOK, Absent

\* A step of kvoctl keeps every claim true: its patch brings back what it has read.
LEMMA ClaimsOnboard ==
    OnboardingTypeOK /\ ClaimsInv /\ BodiesInv /\ Onboard => ClaimsInv' /\ BodiesInv'
<1> SUFFICES ASSUME OnboardingTypeOK, ClaimsInv, BodiesInv, NEW r \in Run,
                    \/ Classify(r) \/ InjectKey(r) \/ GetVM(r)
                    \/ SendPatch(r) \/ RunFails(r)
             PROVE  ClaimsInv' /\ BodiesInv'
  BY DEF Onboard
<1> USE KeyTypes
<1>t. TypeOK /\ run \in [Run -> RunRecord] /\ run[r] \in RunRecord
  BY DEF OnboardingTypeOK
<1>p. UNCHANGED source /\ guest'.remedied = guest.remedied /\ UNCHANGED <<cache, vm, draft>>
  BY <1>t DEF Classify, InjectKey, GetVM, SendPatch, RunFails, Advance, worker,
              TypeOK, Guest
<1>k. \A o : CopyOK(o) => CopyOK(o)'
  BY <1>p DEF CopyOK
<1>a. ASSUME NEW rec, CopyOK(rec.body), Advance(r, rec) PROVE ClaimsInv' /\ BodiesInv'
  <2>1. UNCHANGED api /\ run' = [run EXCEPT ![r] = rec]
    BY <1>a DEF Advance
  <2> QED
    BY <1>a, <1>p, <1>t, <2>1 DEF ClaimsInv, BodiesInv, CopyOK
<1>1. CASE Classify(r)
  BY <1>1, <1>a, <1>t DEF Classify, BodiesInv, RunRecord
<1>2. CASE InjectKey(r)
  BY <1>2, <1>a, <1>t DEF InjectKey, BodiesInv, RunRecord
<1>3. CASE GetVM(r)
  <2>1. CopyOK(PatchBody(api, run[r].selected))
    BY <1>t, PatchBodyClaims DEF ClaimsInv, TypeOK, RunRecord
  <2> QED
    BY <1>3, <1>a, <1>t, <2>1 DEF GetVM, RunRecord
<1>4. CASE SendPatch(r)
  <2>1. \A k \in Key : api'[k] \in {run[r].body[k], api[k]}
    BY <1>4 DEF SendPatch, Overlay
  <2>2. CopyOK(api)'
    BY <1>p, <2>1 DEF ClaimsInv, BodiesInv, CopyOK
  <2>3. run' = [run EXCEPT ![r] = [NewRun EXCEPT !.state = "onboarded"]]
    BY <1>4 DEF SendPatch
  <2>4. BodiesInv'
    BY <1>p, <1>t, <2>3, BlankOK DEF BodiesInv, NewRun, CopyOK
  <2> QED
    BY <1>p, <2>2, <2>4 DEF ClaimsInv, CopyOK
<1>5. CASE RunFails(r)
  BY <1>5, <1>a, BlankOK DEF RunFails, NewRun
<1> QED
  BY <1>1, <1>2, <1>3, <1>4, <1>5

\* Every step keeps every claim true.
LEMMA ClaimsStep ==
    OnboardingTypeOK /\ ClaimsInv /\ BodiesInv /\ [OnboardingNext]_onboardingVars
      => ClaimsInv' /\ BodiesInv'
<1> SUFFICES ASSUME OnboardingTypeOK, ClaimsInv, BodiesInv,
                    [OnboardingNext]_onboardingVars
             PROVE  ClaimsInv' /\ BodiesInv'
  OBVIOUS
<1>1. CASE Next /\ BodiesAge
  <2>1. ClaimsInv'
    BY <1>1, ClaimsReconcile, ClaimsElsewhere DEF Next, Controller, OnboardingTypeOK
  <2>2. Progress
    BY <1>1, NextProgress DEF OnboardingTypeOK
  <2>3. \A r \in Run : \A k \in Key \ {"bootstrap-started-at"} :
           run'[r].body[k] = run[r].body[k]
    BY <1>1 DEF BodiesAge, Older, OnboardingTypeOK, RunRecord, Metadata
  <2>4. BodiesInv'
    BY <2>2, <2>3, KeyTypes DEF BodiesInv, CopyOK, Progress
  <2> QED
    BY <2>1, <2>4
<1>2. CASE UNCHANGED onboardingVars
  BY <1>2 DEF onboardingVars, vars, worker, ClaimsInv, BodiesInv, CopyOK
<1> QED
  BY <1>1, <1>2, ClaimsOnboard DEF OnboardingNext

\* The inductive invariant: no copy of the VM, the ones that kvoctl sends back
\* included, claims more than was done.
THEOREM ClaimsAreTrue == OnboardingSpec => [](OnboardingTypeOK /\ ClaimsInv /\ BodiesInv)
<1>1. OnboardingInit => OnboardingTypeOK
  BY TypeInit, NewRunType DEF OnboardingInit, OnboardingTypeOK
<1>2. ASSUME OnboardingInit PROVE ClaimsInv /\ BodiesInv
  <2>1. Init /\ CopyOK(api) /\ CopyOK(cache) /\ CopyOK(vm)
    BY <1>2, CopiesInit DEF OnboardingInit, CopiesInv
  <2>2. draft = Blank
    BY <2>1 DEF Init
  <2>3. \A r \in Run : run[r].body = Blank
    BY <1>2 DEF OnboardingInit, NewRun
  <2> QED
    BY <2>1, <2>2, <2>3, BlankOK DEF ClaimsInv, BodiesInv
<1> QED
  BY <1>1, <1>2, OnboardingTypeStep, ClaimsStep, PTL DEF OnboardingSpec

\* markRemediation beside kvoctl: although kvoctl writes back whatever it has read,
\* a VM that says its remediation is completed has had the install script run.
THEOREM OnboardedRepaired == OnboardingSpec => []CompletedMeansRepaired
<1>1. ClaimsInv => CompletedMeansRepaired
  BY DEF ClaimsInv, CopyOK, CompletedMeansRepaired
<1> QED
  BY ClaimsAreTrue, <1>1, PTL

\* markSysprep and markCloudInitSecret beside kvoctl: a merged marker that kvoctl
\* brings back is as true as it was.
THEOREM OnboardedMarkers == OnboardingSpec => []MergedMarkersTruthful
<1>1. ClaimsInv => MergedMarkersTruthful
  BY DEF ClaimsInv, CopyOK, MergedMarkersTruthful
<1> QED
  BY ClaimsAreTrue, <1>1, PTL

\* What kvoctl writes is announced; its other steps leave the VM alone.
LEMMA WakeOnboard == WakeInv /\ Onboard => WakeInv'
<1> SUFFICES ASSUME WakeInv, NEW r \in Run,
                    \/ Classify(r) \/ InjectKey(r) \/ GetVM(r)
                    \/ SendPatch(r) \/ RunFails(r)
             PROVE  WakeInv'
  BY DEF Onboard
<1>a. ASSUME NEW rec, Advance(r, rec) PROVE WakeInv'
  BY <1>a DEF Advance, queue, worker, WakeInv, Fresh, AtRest, Passed, NoRequest,
     SysprepDone, CloudInitDone, MergePending, Managed, DetectOS
<1>1. CASE SendPatch(r)
  BY <1>1 DEF SendPatch, queue, worker, WakeInv, Fresh, AtRest
<1> QED
  BY <1>1, <1>a DEF Classify, InjectKey, GetVM, RunFails

\* Reconcile and its queue beside kvoctl: whatever kvoctl brings back of what it had
\* read, a VM that has a remediation or a merge outstanding, or is not ready, is not
\* forgotten.
THEOREM OnboardedNeverForgotten == OnboardingSpec => []NothingForgotten
<1>1. OnboardingInit => OnboardingTypeOK /\ WakeInv
  BY TypeInit, NewRunType, WakeInit DEF OnboardingInit, OnboardingTypeOK
<1>2. OnboardingTypeOK /\ WakeInv /\ [OnboardingNext]_onboardingVars => WakeInv'
  <2>1. UNCHANGED onboardingVars /\ WakeInv => WakeInv'
    BY DEF onboardingVars, vars, queue, worker, WakeInv, Fresh, AtRest, Passed, NoRequest,
       SysprepDone, CloudInitDone, MergePending, Managed, DetectOS
  <2> QED
    BY <2>1, WakeReconcile, WakeElsewhere, WakeOnboard
       DEF OnboardingNext, Next, Controller, OnboardingTypeOK
<1> QED
  BY OnboardingTypeCorrect, <1>1, <1>2, WakeEnough, PTL DEF OnboardingSpec

(***************************************************************************)
(* Stamps, kvoctl's flag and the OS: how far copies can be off beside       *)
(* kvoctl.                                                                 *)
(***************************************************************************)

\* A copy of the operator's: a stamp is expired in all copies or in none.  kvoctl's
\* flag is never withdrawn; until it is set, an OS once known stays.
Agrees(o) ==
    /\ o["bootstrap-started-at"] = "expired" <=> api["bootstrap-started-at"] = "expired"
    /\ o["ssh-bootstrap-complete"] = "true" => api["ssh-bootstrap-complete"] = "true"
    /\ \/ api["ssh-bootstrap-complete"] = "true"
       \/ DetectOS(o) = "unknown"
       \/ o["os"] = api["os"]

\* A patch stamps a VM without a stamp, and leaves the flag and the OS alone.
DraftAgrees(mod, at) ==
    /\ at \notin {"patch", "install", "record"}
    /\ \A k \in {"ssh-bootstrap-complete", "os"} : mod[k] = vm[k]
    /\ mod["bootstrap-started-at"] # vm["bootstrap-started-at"] =>
          vm["bootstrap-started-at"] = Absent /\ mod["bootstrap-started-at"] = "recent"

\* What kvoctl is about to send brings no stamp back that is younger than the VM's.
BodyAgrees(o) ==
    /\ o["ssh-bootstrap-complete"] = "true"
    /\ o["bootstrap-started-at"] \in {Absent, "recent", "expired"}
    /\ o["bootstrap-started-at"] = "expired" => api["bootstrap-started-at"] = "expired"
    /\ api["bootstrap-started-at"] = "expired" => o["bootstrap-started-at"] # "recent"

AgreeInv ==
    /\ api["bootstrap-started-at"] \in {Absent, "recent", "expired"}
    /\ Agrees(cache)
    /\ pc # "idle" => Agrees(vm)
    /\ pc = "patch" => DraftAgrees(draft, resume)

SentInv == \A r \in Run : run[r].state = "patch" => BodyAgrees(run[r].body)

\* The worker goes on with its copy, or forgets it.
LEMMA ContinueAgrees ==
    ASSUME AgreeInv, pc # "idle", UNCHANGED <<api, cache>>, NEW at, at # "patch",
           Continue(at, vm)
    PROVE  AgreeInv'
<1>1. (pc' = "idle" \/ vm' = vm) /\ pc' # "patch"
  BY DEF Continue, Returns
<1> QED
  BY <1>1 DEF AgreeInv, Agrees, DetectOS

\* The worker prepares a patch.
LEMMA WriteAgrees ==
    ASSUME AgreeInv, pc # "idle", UNCHANGED <<api, cache>>, NEW mod, NEW at,
           Write(mod, at), DraftAgrees(mod, at)
    PROVE  AgreeInv'
<1>1. pc' = "patch" /\ draft' = mod /\ resume' = at /\ UNCHANGED vm
  BY DEF Write
<1> QED
  BY <1>1 DEF AgreeInv, Agrees, DetectOS, DraftAgrees

\* mark writes a status and a reason.
LEMMA MarkAgrees ==
    ASSUME TypeOK, AgreeInv, pc # "idle", UNCHANGED <<api, cache>>,
           NEW status, NEW reason, Mark(status, reason)
    PROVE  AgreeInv'
<1> DEFINE return == IF status \in {"ready", "skipped"} THEN "done" ELSE "requeue"
           mod == [vm EXCEPT !["status"] = status, !["reason"] = reason]
<1>1. CASE Continue(return, vm)
  BY <1>1, ContinueAgrees
<1>2. CASE Write(mod, return)
  <2>1. \A k \in Key \ {"status", "reason"} : mod[k] = vm[k]
    BY DEF TypeOK, Metadata
  <2> HIDE DEF mod
  <2>2. DraftAgrees(mod, return)
    BY <2>1, KeyTypes DEF DraftAgrees
  <2> HIDE DEF return
  <2> QED
    BY <1>2, <2>2, WriteAgrees
<1> QED
  BY <1>1, <1>2 DEF Mark

\* The API server merges a patch: a stamp reaches only a VM whose stamp is not expired.
LEMMA StoreAgrees ==
    ASSUME AgreeInv, pc # "idle", UNCHANGED cache, NEW mod, NEW at, at # "patch",
           DraftAgrees(mod, "done"), Store(MergePatch(vm, mod, api)), Continue(at, api')
    PROVE  AgreeInv'
<1>1. \A k \in Key : api'[k] = IF mod[k] # vm[k] THEN mod[k] ELSE api[k]
  BY DEF Store, MergePatch
<1>2. \A k \in {"ssh-bootstrap-complete", "os"} : api'[k] = api[k]
  BY <1>1, KeyTypes DEF DraftAgrees
<1>3. /\ api'["bootstrap-started-at"] \in {"recent", api["bootstrap-started-at"]}
      /\ api'["bootstrap-started-at"] = "expired" <=> api["bootstrap-started-at"] = "expired"
  BY <1>1, KeyTypes DEF AgreeInv, Agrees, DraftAgrees, Absent
<1>4. (pc' = "idle" \/ vm' = api') /\ pc' # "patch"
  BY DEF Continue, Returns
<1> QED
  BY <1>2, <1>3, <1>4 DEF AgreeInv, Agrees, DetectOS

\* Every step of Reconcile goes on, writes a draft, or merges one.
LEMMA AgreeReconcile == TypeOK /\ AgreeInv /\ Reconcile => AgreeInv'
<1> SUFFICES ASSUME TypeOK, AgreeInv, Reconcile PROVE AgreeInv'
  OBVIOUS
<1> USE KeyTypes
<1>t. Thinks => UNCHANGED <<api, cache>>
  BY DEF Thinks
<1>m. vm \in [Key -> Val]
  BY DEF TypeOK, Metadata
<1>w. ASSUME pc # "idle", UNCHANGED <<api, cache>>, NEW mod,
             NEW at \in {"requeue", "alloy", "alloyFailed", "verified"}, Write(mod, at),
             \A k \in {"ssh-bootstrap-complete", "os", "bootstrap-started-at"} : mod[k] = vm[k]
      PROVE  AgreeInv'
  BY <1>w, WriteAgrees DEF DraftAgrees
<1>1. CASE StartReconcile
  BY <1>1 DEF StartReconcile, AgreeInv, Agrees, DetectOS
<1>2. CASE IgnoreUnmanaged
  BY <1>2, <1>t, ContinueAgrees DEF IgnoreUnmanaged
<1>3. CASE ForgetUnknownOS
  BY <1>3, <1>t, <1>w DEF ForgetUnknownOS, Without
<1>4. CASE SkipUnknownOS
  BY <1>4, <1>t, MarkAgrees DEF SkipUnknownOS
<1>5. CASE EnsureNamespace
  BY <1>5, <1>t, ContinueAgrees, MarkAgrees DEF EnsureNamespace
<1>6. CASE RemediationNotRequired
  BY <1>6, <1>t, ContinueAgrees DEF RemediationNotRequired
<1>7. CASE PrepareRemediation
  <2> DEFINE mod == [vm EXCEPT !["bootstrap-started-at"] = "recent"]
  <2>1. Unstamped(vm) => DraftAgrees(mod, "connect")
    BY <1>m DEF DraftAgrees, Unstamped
  <2> QED
    BY <1>7, <1>t, <2>1, WriteAgrees, ContinueAgrees, MarkAgrees DEF PrepareRemediation
<1>e. pc # "idle" /\ UNCHANGED <<api, cache>> /\ RemediationError => AgreeInv'
  BY <1>m, <1>w DEF RemediationError
<1>8. CASE ConnectLinux
  BY <1>8, <1>t, <1>e, ContinueAgrees, MarkAgrees DEF ConnectLinux
<1>9. CASE ConnectWindows
  <2> DEFINE mod == [Without(vm, {"alloy-error"}) EXCEPT !["remediation-required"] = "false"]
  <2>1. \A k \in {"ssh-bootstrap-complete", "os", "bootstrap-started-at"} : mod[k] = vm[k]
    BY DEF Without
  <2> QED
    BY <1>9, <1>t, <1>e, <1>w, <2>1, ContinueAgrees, MarkAgrees DEF ConnectWindows
<1>10. CASE RunScript
  <2> DEFINE mod == [Without(vm, {"remediation-error", "remediation-required"})
                       EXCEPT !["remediation-completed"] = "true"]
  <2>1. \A k \in {"ssh-bootstrap-complete", "os", "bootstrap-started-at"} : mod[k] = vm[k]
    BY DEF Without
  <2> QED
    BY <1>10, <1>w, <2>1 DEF RunScript
<1>11. CASE ScriptFails
  BY <1>11, <1>e DEF ScriptFails
<1>12. CASE NoSysprepMerge
  BY <1>12, <1>t, ContinueAgrees DEF NoSysprepMerge
<1>13. CASE MergeSysprep
  BY <1>13, <1>w DEF MergeSysprep, Without
<1>14. CASE SysprepFails
  BY <1>14, <1>t, <1>m, <1>w DEF SysprepFails
<1>15. CASE NoCloudInitMerge
  BY <1>15, <1>t, ContinueAgrees DEF NoCloudInitMerge
<1>16. CASE CreateCloudInitSecret
  BY <1>16 DEF CreateCloudInitSecret, worker, AgreeInv, Agrees, DetectOS, DraftAgrees
<1>17. CASE MergeCloudInit
  BY <1>17, <1>w DEF MergeCloudInit, Without
<1>18. CASE CloudInitFails
  BY <1>18, <1>t, <1>m, <1>w DEF CloudInitFails
<1>19. CASE SyncScrapeResources
  BY <1>19, <1>t, ContinueAgrees, MarkAgrees DEF SyncScrapeResources
<1>20. CASE Probe
  <2> DEFINE mod == [Without(vm, {"alloy-error", "reason"})
                       EXCEPT !["remediation-required"] = "false",
                              !["bootstrap-ready"] = "true"]
  <2>1. \A k \in {"ssh-bootstrap-complete", "os", "bootstrap-started-at"} : mod[k] = vm[k]
    BY DEF Without
  <2> QED
    BY <1>20, <1>w, <2>1, ContinueAgrees, MarkAgrees DEF Probe
<1>a. pc # "idle" /\ UNCHANGED <<api, cache>> /\ AlloyError(vm) => AgreeInv'
  BY <1>m, <1>w DEF AlloyError
<1>21. CASE CheckAlloy
  BY <1>21, <1>a, ContinueAgrees DEF CheckAlloy
<1>22. CASE InstallAlloy
  BY <1>22 DEF InstallAlloy, AgreeInv, Agrees, DetectOS
<1>23. CASE InstallAlloyFails
  BY <1>23, <1>a DEF InstallAlloyFails
<1>24. CASE RecordAlloy
  <2> DEFINE mod == [Without(vm, {"alloy-error"}) EXCEPT !["alloy-config-hash"] = seen.token]
  <2>1. DraftAgrees(mod, "done")
    BY DEF DraftAgrees, Without
  <2> QED
    BY <1>24, <1>a, <2>1, StoreAgrees DEF RecordAlloy
<1>25. CASE MarkAlloyFailed
  BY <1>25, <1>t, MarkAgrees DEF MarkAlloyFailed
<1>26. CASE ClearErrors
  BY <1>26, <1>t, <1>w DEF ClearErrors, Without
<1>27. CASE MarkReady
  BY <1>27, <1>t, MarkAgrees DEF MarkReady
<1>28. CASE PatchVM
  <2>1. pc = "patch" /\ resume # "patch" /\ DraftAgrees(draft, "done")
    BY <1>28 DEF PatchVM, AgreeInv, DraftAgrees
  <2> QED
    BY <1>28, <2>1, StoreAgrees DEF PatchVM
<1>29. CASE PatchFails
  BY <1>29, <1>t, ContinueAgrees DEF PatchFails
<1> QED
  BY <1>1, <1>2, <1>3, <1>4, <1>5, <1>6, <1>7, <1>8, <1>9, <1>10, <1>11, <1>12,
     <1>13, <1>14, <1>15, <1>16, <1>17, <1>18, <1>19, <1>20, <1>21, <1>22, <1>23,
     <1>24, <1>25, <1>26, <1>27, <1>28, <1>29 DEF Reconcile

\* The other steps of the operator and its surroundings: all stamps expire together.
LEMMA AgreeElsewhere ==
    TypeOK /\ AgreeInv /\ (Deliver \/ TimerFires \/ Environment \/ UNCHANGED vars)
      => AgreeInv'
<1> SUFFICES ASSUME TypeOK, AgreeInv, Deliver \/ TimerFires \/ Environment \/ UNCHANGED vars
             PROVE  AgreeInv'
  OBVIOUS
<1> USE KeyTypes
<1>1. CASE UNCHANGED <<api, cache, worker>>
  BY <1>1 DEF worker, AgreeInv, Agrees, DetectOS, DraftAgrees
<1>2. CASE Deliver
  BY <1>2 DEF Deliver, worker, AgreeInv, Agrees, DetectOS, DraftAgrees
<1>3. CASE TimePasses
  <2>1. \A o \in {api, cache, vm, draft} :
           /\ \A k \in Key \ {"bootstrap-started-at"} : Older(o)[k] = o[k]
           /\ Older(o)["bootstrap-started-at"] =
                 IF o["bootstrap-started-at"] = "recent" THEN "expired"
                 ELSE o["bootstrap-started-at"]
    BY DEF Older, TypeOK, Metadata
  <2>2. /\ api' = Older(api) /\ cache' = Older(cache) /\ vm' = Older(vm)
        /\ draft' = Older(draft) /\ UNCHANGED <<pc, resume>>
    BY <1>3 DEF TimePasses
  <2>3. /\ api'["bootstrap-started-at"] = "expired"
        /\ cache'["bootstrap-started-at"] = "expired"
        /\ pc # "idle" => vm'["bootstrap-started-at"] = "expired"
        /\ pc # "idle" => vm["bootstrap-started-at"] = "recent"
    BY <1>3, <2>1, <2>2 DEF TimePasses
  <2>4. \A k \in {"ssh-bootstrap-complete", "os"} :
           api'[k] = api[k] /\ cache'[k] = cache[k] /\ vm'[k] = vm[k] /\ draft'[k] = draft[k]
    BY <2>1, <2>2
  <2>5. Agrees(cache)' /\ (pc' # "idle" => Agrees(vm)')
    BY <2>2, <2>3, <2>4 DEF AgreeInv, Agrees, DetectOS
  <2>6. (pc = "patch" => DraftAgrees(draft, resume))'
    BY <2>1, <2>2, <2>3, <2>4 DEF AgreeInv, DraftAgrees, Absent
  <2> QED
    BY <2>3, <2>5, <2>6 DEF AgreeInv
<1>4. CASE Restart
  BY <1>4 DEF Restart, AgreeInv, Agrees, DetectOS
<1>5. CASE LabelOS
  <2>1. PICK os \in {"linux", "windows"} : api' = [api EXCEPT !["os"] = os]
    BY <1>5 DEF LabelOS, Store
  <2>2. \A k \in Key \ {"os"} : api'[k] = api[k]
    BY <2>1 DEF TypeOK, Metadata
  <2>3. DetectOS(api) = "unknown" /\ UNCHANGED <<cache, pc, vm, draft, resume>>
    BY <1>5 DEF LabelOS, worker
  <2> QED
    BY <2>2, <2>3 DEF AgreeInv, Agrees, DetectOS, DraftAgrees
<1> QED
  BY <1>1, <1>2, <1>3, <1>4, <1>5
     DEF TimerFires, Environment, ChangeVMI, ChangeGuest, GuestBootstrapEnds, ChangeKeys,
         RotateToken, Settle, vars

\* A stamp expires when time passes, and no patch of the operator undoes that.
LEMMA StampMoves ==
    ASSUME TypeOK, AgreeInv, [Next]_vars
    PROVE  api'["bootstrap-started-at"] = "expired"
             <=> api["bootstrap-started-at"] = "expired" \/ TimePasses
<1> USE KeyTypes
<1>1. CASE UNCHANGED api
  BY <1>1 DEF TimePasses, Older, TypeOK, Metadata
<1>2. CASE PatchVM
  <2>1. /\ api'["bootstrap-started-at"] =
             IF draft["bootstrap-started-at"] # vm["bootstrap-started-at"]
             THEN draft["bootstrap-started-at"] ELSE api["bootstrap-started-at"]
        /\ Agrees(vm) /\ DraftAgrees(draft, resume) /\ UNCHANGED cache
    BY <1>2 DEF PatchVM, Store, MergePatch, AgreeInv
  <2>2. ~TimePasses
    BY <2>1 DEF TimePasses, Older, TypeOK, Metadata
  <2> QED
    BY <2>1, <2>2 DEF Agrees, DraftAgrees, Absent
<1>3. CASE RecordAlloy
  <2>1. api'["bootstrap-started-at"] = api["bootstrap-started-at"]
    BY <1>3 DEF RecordAlloy, Store, MergePatch, Without
  <2>2. ~TimePasses
    BY <2>1 DEF TimePasses, Older, TypeOK, Metadata
  <2> QED
    BY <2>1, <2>2
<1>4. CASE TimePasses
  BY <1>4 DEF TimePasses, Older, TypeOK, Metadata
<1>5. CASE LabelOS
  <2>1. api'["bootstrap-started-at"] = api["bootstrap-started-at"]
    BY <1>5 DEF LabelOS, Store, TypeOK, Metadata
  <2>2. ~TimePasses
    BY <2>1 DEF TimePasses, Older, TypeOK, Metadata
  <2> QED
    BY <2>1, <2>2
<1> QED
  BY <1>1, <1>2, <1>3, <1>4, <1>5, ApiChanges

\* What kvoctl sends vouches for the guest, and has the stamp that it has read.
LEMMA PatchBodyAgrees ==
    ASSUME NEW o \in Metadata, NEW os
    PROVE  /\ PatchBody(o, os)["ssh-bootstrap-complete"] = "true"
           /\ PatchBody(o, os)["bootstrap-started-at"] = o["bootstrap-started-at"]
<1> DEFINE base == IF o["reason"] = "missing-os-label"
                   THEN Without(o, {"reason", "status", "bootstrap-os", "exporter"})
                   ELSE o
<1>1. base \in [Key -> Val]
  BY WithoutType DEF Metadata
<1>2. base["bootstrap-started-at"] = o["bootstrap-started-at"]
  BY KeyTypes DEF Without
<1> HIDE DEF base
<1> QED
  BY <1>1, <1>2, KeyTypes DEF PatchBody, base

\* A step of kvoctl: the stamp that it brings back is as old as the VM's.
LEMMA AgreeOnboard ==
    OnboardingTypeOK /\ AgreeInv /\ SentInv /\ Onboard
      => /\ AgreeInv' /\ SentInv'
         /\ api["bootstrap-started-at"] = "expired" =>
               api'["bootstrap-started-at"] = "expired"
<1> SUFFICES ASSUME OnboardingTypeOK, AgreeInv, SentInv, NEW r \in Run,
                    \/ Classify(r) \/ InjectKey(r) \/ GetVM(r)
                    \/ SendPatch(r) \/ RunFails(r)
             PROVE  /\ AgreeInv' /\ SentInv'
                    /\ api["bootstrap-started-at"] = "expired" =>
                          api'["bootstrap-started-at"] = "expired"
  BY DEF Onboard
<1> USE KeyTypes
<1>t. TypeOK /\ run \in [Run -> RunRecord] /\ run[r] \in RunRecord
  BY DEF OnboardingTypeOK
<1>a. ASSUME NEW rec, Advance(r, rec), rec.state = "patch" => BodyAgrees(rec.body)
      PROVE  /\ AgreeInv' /\ SentInv'
             /\ UNCHANGED api
  <2>1. UNCHANGED <<api, cache, pc, vm, draft, resume>> /\ run' = [run EXCEPT ![r] = rec]
    BY <1>a DEF Advance, worker
  <2>2. AgreeInv'
    BY <2>1 DEF AgreeInv, Agrees, DetectOS, DraftAgrees
  <2>3. \A q \in Run : run'[q] = IF q = r THEN rec ELSE run[q]
    BY <1>t, <2>1
  <2>4. SentInv'
    BY <1>a, <2>1, <2>3 DEF SentInv, BodyAgrees
  <2> QED
    BY <2>1, <2>2, <2>4
<1>1. CASE Classify(r)
  <2>1. PICK sel \in Selection :
          Advance(r, [run[r] EXCEPT
             !.state = IF Verdict(api, sel) = "ready" /\ vmi = "noIP"
                       THEN "failed"
                       ELSE Verdict(api, sel),
             !.selected = IF Verdict(api, sel) = "ready" /\ NormalizeOS(api) = Absent
                          THEN CandidateOS(api, sel)
                          ELSE Absent])
    BY <1>1 DEF Classify
  <2>2. (IF Verdict(api, sel) = "ready" /\ vmi = "noIP" THEN "failed"
         ELSE Verdict(api, sel)) # "patch"
    BY DEF Verdict
  <2>3. ASSUME NEW st, NEW os, st # "patch"
        PROVE  [run[r] EXCEPT !.state = st, !.selected = os].state # "patch"
    BY <1>t, <2>3 DEF RunRecord
  <2> QED
    BY <2>1, <2>2, <2>3, <1>a
<1>2. CASE InjectKey(r)
  <2>1. [run[r] EXCEPT !.state = "key"].state # "patch"
    BY <1>t DEF RunRecord
  <2> QED
    BY <1>2, <2>1, <1>a DEF InjectKey
<1>3. CASE GetVM(r)
  <2> DEFINE body == PatchBody(api, run[r].selected)
             rec == [run[r] EXCEPT !.state = "patch", !.body = body]
  <2>1. BodyAgrees(body)
    BY <1>t, PatchBodyAgrees DEF AgreeInv, BodyAgrees, TypeOK
  <2>2. Advance(r, rec)
    BY <1>3 DEF GetVM
  <2> HIDE DEF body
  <2>3. rec.body = body
    BY <1>t DEF RunRecord
  <2> HIDE DEF rec
  <2> QED
    BY <2>1, <2>2, <2>3, <1>a
<1>4. CASE SendPatch(r)
  <2>1. /\ UNCHANGED <<cache, pc, vm, draft, resume>>
        /\ run' = [run EXCEPT ![r] = [NewRun EXCEPT !.state = "onboarded"]]
        /\ \A k \in Key : api'[k] = IF run[r].body[k] # Absent THEN run[r].body[k] ELSE api[k]
        /\ BodyAgrees(run[r].body)
    BY <1>4 DEF SendPatch, worker, Overlay, SentInv
  <2>2. /\ api'["ssh-bootstrap-complete"] = "true"
        /\ api'["bootstrap-started-at"] \in {Absent, "recent", "expired"}
        /\ api'["bootstrap-started-at"] = "expired" <=> api["bootstrap-started-at"] = "expired"
    BY <2>1 DEF BodyAgrees, AgreeInv, Absent
  <2>3. AgreeInv'
    BY <2>1, <2>2 DEF AgreeInv, Agrees, DetectOS, DraftAgrees
  <2>4. \A q \in Run : run'[q] = IF q = r THEN [NewRun EXCEPT !.state = "onboarded"] ELSE run[q]
    BY <1>t, <2>1
  <2>5. [NewRun EXCEPT !.state = "onboarded"].state # "patch"
    BY DEF NewRun
  <2>6. SentInv'
    BY <2>2, <2>4, <2>5 DEF SentInv, BodyAgrees
  <2> QED
    BY <2>2, <2>3, <2>6
<1>5. CASE RunFails(r)
  <2>1. [NewRun EXCEPT !.state = "failed"].state # "patch"
    BY DEF NewRun
  <2> QED
    BY <1>5, <2>1, <1>a DEF RunFails
<1> QED
  BY <1>1, <1>2, <1>3, <1>4, <1>5

\* Every step keeps the copies within these bounds.
LEMMA AgreeStep ==
    OnboardingTypeOK /\ AgreeInv /\ SentInv /\ [OnboardingNext]_onboardingVars
      => AgreeInv' /\ SentInv'
<1> SUFFICES ASSUME OnboardingTypeOK, AgreeInv, SentInv, [OnboardingNext]_onboardingVars
             PROVE  AgreeInv' /\ SentInv'
  OBVIOUS
<1>t. TypeOK /\ run \in [Run -> RunRecord]
  BY DEF OnboardingTypeOK
<1>1. CASE Next /\ BodiesAge
  <2>1. AgreeInv'
    BY <1>1, <1>t, AgreeReconcile, AgreeElsewhere DEF Next, Controller
  <2>2. ASSUME NEW r \in Run, run'[r].state = "patch"
        PROVE  BodyAgrees(run[r].body)'
    <3> DEFINE stamp == run[r].body["bootstrap-started-at"]
    <3>0. run[r] \in RunRecord
      BY <1>t
    <3>1. run'[r] = IF TimePasses THEN [run[r] EXCEPT !.body = Older(@)] ELSE run[r]
      BY <1>1, <1>t DEF BodiesAge
    <3>2. run[r].state = "patch"
      BY <2>2, <3>0, <3>1 DEF RunRecord
    <3>3. \A o \in Metadata :
             /\ Older(o)["ssh-bootstrap-complete"] = o["ssh-bootstrap-complete"]
             /\ Older(o)["bootstrap-started-at"] =
                   IF o["bootstrap-started-at"] = "recent" THEN "expired"
                   ELSE o["bootstrap-started-at"]
      BY KeyTypes DEF Older, Metadata
    <3>4. /\ run'[r].body["ssh-bootstrap-complete"] = run[r].body["ssh-bootstrap-complete"]
          /\ run'[r].body["bootstrap-started-at"] =
                IF TimePasses /\ stamp = "recent" THEN "expired" ELSE stamp
      BY <3>0, <3>1, <3>3 DEF RunRecord
    <3>5. BodyAgrees(run[r].body)
      BY <3>2 DEF SentInv
    <3>6. api'["bootstrap-started-at"] = "expired"
             <=> api["bootstrap-started-at"] = "expired" \/ TimePasses
      BY <1>1, <1>t, StampMoves
    <3> QED
      BY <3>4, <3>5, <3>6 DEF BodyAgrees, Absent
  <2> QED
    BY <2>1, <2>2 DEF SentInv, BodyAgrees
<1>2. CASE UNCHANGED onboardingVars
  <2>1. UNCHANGED vars /\ UNCHANGED run /\ UNCHANGED api
    BY <1>2 DEF onboardingVars, vars
  <2>2. AgreeInv'
    BY <1>t, <2>1, AgreeElsewhere
  <2> QED
    BY <2>1, <2>2 DEF SentInv, BodyAgrees
<1> QED
  BY <1>1, <1>2, AgreeOnboard DEF OnboardingNext

\* The inductive invariant: copies agree with the VM as far as they have to.
LEMMA CopiesAgree == OnboardingSpec => [](OnboardingTypeOK /\ AgreeInv /\ SentInv)
<1>1. ASSUME OnboardingInit PROVE AgreeInv /\ SentInv
  <2>1. PICK i \in InitialVMs : api = i.vm
    BY <1>1 DEF OnboardingInit, Init
  <2>2. api["bootstrap-started-at"] = Absent
    BY <2>1, InitialVMsAssumption DEF OperatorOwned
  <2>3. cache = api /\ pc = "idle" /\ \A r \in Run : run[r].state = "new"
    BY <1>1 DEF OnboardingInit, Init, NewRun
  <2> QED
    BY <2>2, <2>3 DEF AgreeInv, Agrees, DetectOS, SentInv
<1> QED
  BY OnboardingTypeCorrect, <1>1, AgreeStep, PTL DEF OnboardingSpec

\* ensureBootstrapStartedAt beside kvoctl: a stamp that kvoctl brings back, however
\* long ago it has read it, does not renew the 10 minutes once they are over.
THEOREM OnboardedStampKept == OnboardingSpec => StampKept
<1>1. ASSUME OnboardingTypeOK, AgreeInv, SentInv, [OnboardingNext]_onboardingVars,
             api["bootstrap-started-at"] = "expired"
      PROVE  api'["bootstrap-started-at"] = "expired"
  BY <1>1, AgreeOnboard, StampMoves DEF OnboardingNext, OnboardingTypeOK, onboardingVars
<1>2. OnboardingTypeOK /\ AgreeInv /\ SentInv /\ [OnboardingNext]_onboardingVars
        => [ api["bootstrap-started-at"] = "expired"
             => api'["bootstrap-started-at"] = "expired" ]_vars
  BY <1>1
<1> QED
  BY CopiesAgree, <1>2, PTL DEF OnboardingSpec, StampKept

\* reconcileRemediation beside kvoctl: a Windows guest's own bootstrap is not
\* interrupted before its time, even if kvoctl gives the VM another OS while the
\* operator works, unless kvoctl has vouched for the guest.
THEOREM OnboardedUndisturbed == OnboardingSpec => BootstrapNotInterrupted
<1>1. ASSUME AgreeInv, [OnboardingNext]_onboardingVars, pc = "connect", pc' = "script",
             api["os"] = "windows", guest.marker = "unknown"
      PROVE  TimedOut(api) \/ api["ssh-bootstrap-complete"] = "true"
  <2>1. Agrees(vm)
    BY <1>1 DEF AgreeInv
  <2>2. [Next]_vars
    BY <1>1 DEF OnboardingNext, Onboard, Classify, InjectKey, GetVM, SendPatch, RunFails,
                Advance, worker, onboardingVars
  <2>3. ConnectLinux \/ ConnectWindows
    BY <1>1, <2>2, ScriptStarts
  <2>4. CASE ConnectLinux
    BY <1>1, <2>1, <2>4 DEF ConnectLinux, Agrees, DetectOS
  <2>5. CASE ConnectWindows
    <3>1. ~BootstrapMayStillRun(vm)
      BY <1>1, <2>5 DEF ConnectWindows, Mark, Write, Continue, RemediationError
    <3> QED
      BY <1>1, <2>1, <3>1 DEF BootstrapMayStillRun, TimedOut, Agrees
  <2> QED
    BY <2>3, <2>4, <2>5
<1>2. AgreeInv /\ [OnboardingNext]_onboardingVars
        => [ pc = "connect" /\ pc' = "script" /\ api["os"] = "windows"
                 /\ guest.marker = "unknown"
             => TimedOut(api) \/ api["ssh-bootstrap-complete"] = "true" ]_vars
  BY <1>1
<1> QED
  BY CopiesAgree, <1>2, PTL DEF OnboardingSpec, BootstrapNotInterrupted

(***************************************************************************)
(* The recorded hash and the collector's configuration beside kvoctl.       *)
(***************************************************************************)

\* A hash that somebody has read says no more of the guest than the VM's did: it is
\* the current token only if the guest runs that configuration, and an installation
\* on its way installs no other.
Installed(h) ==
    /\ h \in issued \cup {Absent}
    /\ token # Absent /\ h = token =>
          guest.alloy = token /\ (pc \in {"install", "record"} => seen.token = token)

SentHashes == \A r \in Run : Installed(run[r].body["alloy-config-hash"])

\* Only four steps change the guest's configuration, the token, or what is being
\* installed.
LEMMA InstallationMoves ==
    ASSUME TypeOK, ResumeOK, [Next]_vars,
           ~CheckAlloy, ~InstallAlloy, ~InstallAlloyFails, ~RotateToken
    PROVE  /\ UNCHANGED <<token, issued>> /\ guest'.alloy = guest.alloy
           /\ pc' \in {"install", "record"} => UNCHANGED <<pc, seen>>
<1> DEFINE goal == /\ UNCHANGED <<token, issued>> /\ guest'.alloy = guest.alloy
                   /\ pc' \in {"install", "record"} => UNCHANGED <<pc, seen>>
<1> SUFFICES goal
  OBVIOUS
<1>c. ASSUME NEW at, NEW o, at \notin {"install", "record"}, Continue(at, o)
      PROVE  pc' \notin {"install", "record"}
  BY <1>c DEF Continue
<1>w. ASSUME NEW at, NEW mod, Write(mod, at) PROVE pc' \notin {"install", "record"}
  BY <1>w DEF Write
<1>m. ASSUME NEW status, NEW reason, Mark(status, reason)
      PROVE  pc' \notin {"install", "record"}
  BY <1>m, <1>c, <1>w DEF Mark
<1>t. Thinks => UNCHANGED <<token, issued>> /\ guest'.alloy = guest.alloy
  BY DEF Thinks, cluster
<1>1. CASE \/ IgnoreUnmanaged \/ ForgetUnknownOS \/ SkipUnknownOS \/ EnsureNamespace
           \/ RemediationNotRequired \/ PrepareRemediation
           \/ ConnectLinux \/ ConnectWindows
  <2>1. Thinks /\ pc' \notin {"install", "record"}
    BY <1>1, <1>c, <1>w, <1>m
       DEF IgnoreUnmanaged, ForgetUnknownOS, SkipUnknownOS, EnsureNamespace,
           RemediationNotRequired, PrepareRemediation, ConnectLinux, ConnectWindows,
           RemediationError
  <2> QED
    BY <1>t, <2>1
<1>2. CASE \/ NoSysprepMerge \/ SysprepFails \/ NoCloudInitMerge \/ CloudInitFails
           \/ SyncScrapeResources \/ MarkAlloyFailed \/ ClearErrors \/ MarkReady
           \/ PatchFails
  <2>1. Thinks /\ pc' \notin {"install", "record"}
    BY <1>2, <1>c, <1>w, <1>m
       DEF NoSysprepMerge, SysprepFails, NoCloudInitMerge, CloudInitFails,
           SyncScrapeResources, MarkAlloyFailed, ClearErrors, MarkReady, PatchFails
  <2> QED
    BY <1>t, <2>1
<1>3. CASE RunScript \/ ScriptFails \/ MergeSysprep \/ MergeCloudInit
  <2>1. UNCHANGED <<token, issued>> /\ guest'.alloy = guest.alloy
    BY <1>3 DEF RunScript, ScriptFails, MergeSysprep, MergeCloudInit, cluster, TypeOK, Guest
  <2>2. pc' \notin {"install", "record"}
    BY <1>3, <1>w
       DEF RunScript, ScriptFails, MergeSysprep, MergeCloudInit, RemediationError
  <2> QED
    BY <2>1, <2>2
<1>4. CASE StartReconcile \/ CreateCloudInitSecret
  BY <1>4 DEF StartReconcile, CreateCloudInitSecret, cluster, worker
<1>5. CASE Probe
  BY <1>5, <1>c, <1>w, <1>m DEF Probe, cluster
<1>6. CASE RecordAlloy
  BY <1>6, <1>c, <1>w DEF RecordAlloy, AlloyError, cluster
<1>7. CASE PatchVM
  BY <1>7, <1>c DEF PatchVM, ResumeOK, cluster
<1>8. CASE Deliver \/ TimerFires \/ Environment \/ UNCHANGED vars
  BY <1>8
     DEF Deliver, TimerFires, Environment, TimePasses, Restart, ChangeVMI, ChangeGuest,
         GuestBootstrapEnds, ChangeKeys, LabelOS, Settle, cluster, worker, vars, TypeOK, Guest
<1> QED
  BY <1>1, <1>2, <1>3, <1>4, <1>5, <1>6, <1>7, <1>8 DEF Next, Controller, Reconcile

\* What a hash says of the guest remains true.
LEMMA InstalledStays ==
    ASSUME TypeOK, ResumeOK, [Next]_vars, NEW CONSTANT h, Installed(h)
    PROVE  Installed(h)'
<1> USE DEF Installed
<1>1. CASE CheckAlloy
  <2>1. /\ UNCHANGED <<token, issued, guest>>
        /\ \/ pc' = "install" /\ seen'.token = token
           \/ pc' \notin {"install", "record"}
    BY <1>1 DEF CheckAlloy, Continue, AlloyError, Write, cluster, TypeOK, Seen
  <2> QED
    BY <2>1
<1>2. CASE InstallAlloy
  <2>1. UNCHANGED <<token, issued, seen>> /\ pc = "install" /\ guest'.alloy = seen.token
    BY <1>2 DEF InstallAlloy, cluster, TypeOK, Guest
  <2> QED
    BY <2>1
<1>3. CASE InstallAlloyFails
  <2>1. /\ UNCHANGED <<token, issued>> /\ pc = "install" /\ pc' = "patch"
        /\ guest'.alloy \in {guest.alloy, seen.token}
    BY <1>3 DEF InstallAlloyFails, AlloyError, Write, cluster, TypeOK, Guest
  <2> QED
    BY <2>1
<1>4. CASE RotateToken
  <2>1. PICK t \in Token \ issued : token' = t /\ issued' = issued \cup {t}
    BY <1>4 DEF RotateToken
  <2> QED
    BY <2>1
<1>5. CASE ~CheckAlloy /\ ~InstallAlloy /\ ~InstallAlloyFails /\ ~RotateToken
  BY <1>5, InstallationMoves
<1> QED
  BY <1>1, <1>2, <1>3, <1>4, <1>5

\* What kvoctl sends has the hash that it has read.
LEMMA PatchBodyHash ==
    ASSUME NEW o \in Metadata, NEW os
    PROVE  PatchBody(o, os)["alloy-config-hash"] = o["alloy-config-hash"]
<1> DEFINE base == IF o["reason"] = "missing-os-label"
                   THEN Without(o, {"reason", "status", "bootstrap-os", "exporter"})
                   ELSE o
<1>1. base \in [Key -> Val]
  BY WithoutType DEF Metadata
<1>2. base["alloy-config-hash"] = o["alloy-config-hash"]
  BY KeyTypes DEF Without
<1> HIDE DEF base
<1> QED
  BY <1>1, <1>2, KeyTypes DEF PatchBody, base

\* A step of kvoctl: the hash that it brings back was true when it was read, and is.
LEMMA AlloyOnboard ==
    OnboardingTypeOK /\ AlloyInv /\ SentHashes /\ Onboard => AlloyInv' /\ SentHashes'
<1> SUFFICES ASSUME OnboardingTypeOK, AlloyInv, SentHashes, NEW r \in Run,
                    \/ Classify(r) \/ InjectKey(r) \/ GetVM(r)
                    \/ SendPatch(r) \/ RunFails(r)
             PROVE  AlloyInv' /\ SentHashes'
  BY DEF Onboard
<1> USE KeyTypes
<1>t. TypeOK /\ run \in [Run -> RunRecord] /\ run[r] \in RunRecord
  BY DEF OnboardingTypeOK
<1>p. /\ UNCHANGED <<pc, vm, draft, seen, token, issued>>
      /\ guest'.alloy = guest.alloy
  BY <1>t DEF Classify, InjectKey, GetVM, SendPatch, RunFails, Advance, worker, cluster,
              TypeOK, Guest
<1>h. \A h : Installed(h) => Installed(h)'
  BY <1>p DEF Installed
<1>b. Installed(api["alloy-config-hash"]) /\ Installed(Absent)
  BY DEF AlloyInv, AlloyDriftSeen, Installed
<1>a. ASSUME NEW rec, run' = [run EXCEPT ![r] = rec],
             Installed(rec.body["alloy-config-hash"])
      PROVE  SentHashes'
  <2>1. \A q \in Run : run'[q] = IF q = r THEN rec ELSE run[q]
    BY <1>a, <1>t
  <2>2. \A q \in Run : Installed(run'[q].body["alloy-config-hash"])
    BY <1>a, <2>1 DEF SentHashes
  <2> QED
    BY <1>p, <2>2 DEF SentHashes, Installed
<1>i. Installed(api'["alloy-config-hash"]) => AlloyInv'
  BY <1>p DEF AlloyInv, AlloyDriftSeen, Installed
<1>n. NewRun.body["alloy-config-hash"] = Absent
  BY DEF NewRun, Blank
<1>1. CASE Classify(r)
  <2>1. PICK st, os :
          /\ run' = [run EXCEPT ![r] = [run[r] EXCEPT !.state = st, !.selected = os]]
          /\ UNCHANGED api
    BY <1>1 DEF Classify, Advance
  <2>2. [run[r] EXCEPT !.state = st, !.selected = os].body = run[r].body
    BY <1>t DEF RunRecord
  <2> QED
    BY <1>a, <1>b, <1>i, <2>1, <2>2 DEF SentHashes
<1>2. CASE InjectKey(r)
  <2>1. run' = [run EXCEPT ![r] = [run[r] EXCEPT !.state = "key"]] /\ UNCHANGED api
    BY <1>2 DEF InjectKey, Advance
  <2>2. [run[r] EXCEPT !.state = "key"].body = run[r].body
    BY <1>t DEF RunRecord
  <2> QED
    BY <1>a, <1>b, <1>i, <2>1, <2>2 DEF SentHashes
<1>3. CASE GetVM(r)
  <2> DEFINE body == PatchBody(api, run[r].selected)
             rec == [run[r] EXCEPT !.state = "patch", !.body = body]
  <2>1. Installed(body["alloy-config-hash"])
    BY <1>b, <1>t, PatchBodyHash DEF TypeOK
  <2>2. run' = [run EXCEPT ![r] = rec] /\ UNCHANGED api
    BY <1>3 DEF GetVM, Advance
  <2> HIDE DEF body
  <2>3. rec.body = body
    BY <1>t DEF RunRecord
  <2> HIDE DEF rec
  <2> QED
    BY <1>a, <1>b, <1>i, <2>1, <2>2, <2>3
<1>4. CASE SendPatch(r)
  <2>1. /\ run' = [run EXCEPT ![r] = [NewRun EXCEPT !.state = "onboarded"]]
        /\ api'["alloy-config-hash"] \in
             {run[r].body["alloy-config-hash"], api["alloy-config-hash"]}
    BY <1>4 DEF SendPatch, Overlay
  <2>2. [NewRun EXCEPT !.state = "onboarded"].body = NewRun.body
    BY DEF NewRun
  <2> QED
    BY <1>a, <1>b, <1>i, <1>n, <2>1, <2>2 DEF SentHashes
<1>5. CASE RunFails(r)
  <2>1. run' = [run EXCEPT ![r] = [NewRun EXCEPT !.state = "failed"]] /\ UNCHANGED api
    BY <1>5 DEF RunFails, Advance
  <2>2. [NewRun EXCEPT !.state = "failed"].body = NewRun.body
    BY DEF NewRun
  <2> QED
    BY <1>a, <1>b, <1>i, <1>n, <2>1, <2>2
<1> QED
  BY <1>1, <1>2, <1>3, <1>4, <1>5

\* Every step keeps what the hashes say.
LEMMA AlloyStep ==
    OnboardingTypeOK /\ AgreeInv /\ AlloyInv /\ SentHashes /\ [OnboardingNext]_onboardingVars
      => AlloyInv' /\ SentHashes'
<1> SUFFICES ASSUME OnboardingTypeOK, AgreeInv, AlloyInv, SentHashes,
                    [OnboardingNext]_onboardingVars
             PROVE  AlloyInv' /\ SentHashes'
  OBVIOUS
<1>t. TypeOK /\ ResumeOK /\ run \in [Run -> RunRecord]
  BY DEF OnboardingTypeOK, AgreeInv, DraftAgrees, ResumeOK
<1>1. CASE Next /\ BodiesAge
  <2>1. AlloyInv'
    BY <1>1, <1>t, AlloyReconcile, AlloyElsewhere DEF Next, Controller
  <2>2. \A r \in Run :
           run'[r].body["alloy-config-hash"] = run[r].body["alloy-config-hash"]
    BY <1>1, <1>t, KeyTypes DEF BodiesAge, Older, RunRecord, Metadata
  <2>3. \A h : Installed(h) => Installed(h)'
    BY <1>1, <1>t, InstalledStays
  <2>4. SentHashes'
    BY <2>2, <2>3 DEF SentHashes, Installed
  <2> QED
    BY <2>1, <2>4
<1>2. CASE UNCHANGED onboardingVars
  BY <1>2 DEF onboardingVars, vars, worker, cluster, AlloyInv, AlloyDriftSeen, SentHashes,
              Installed
<1> QED
  BY <1>1, <1>2, AlloyOnboard DEF OnboardingNext

\* reconcileLinuxAlloy, reconcileWindowsAlloy beside kvoctl: although kvoctl brings back
\* the hash that it has read, whenever the operator would skip an installation because
\* of the recorded hash, the guest runs that configuration.
THEOREM OnboardedDriftIsSeen == OnboardingSpec => []AlloyDriftSeen
<1>1. ASSUME OnboardingInit PROVE AlloyInv /\ SentHashes
  <2>1. AlloyInv
    BY <1>1, AlloyInit DEF OnboardingInit
  <2>2. \A r \in Run : run[r].body["alloy-config-hash"] = Absent
    BY <1>1, KeyTypes DEF OnboardingInit, NewRun, Blank
  <2> QED
    BY <2>1, <2>2 DEF SentHashes, Installed
<1>2. AlloyInv => AlloyDriftSeen
  BY DEF AlloyInv
<1> QED
  BY CopiesAgree, <1>1, AlloyStep, <1>2, PTL DEF OnboardingSpec
=============================================================================
