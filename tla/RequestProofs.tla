--------------------------- MODULE RequestProofs ---------------------------
(***************************************************************************)
(* A request for remediation that kvoctl opens is dropped only when the     *)
(* guest is repaired or its exporter has answered (RequestDropped), for one *)
(* run of kvoctl, any VMs, tokens and disturbances.                         *)
(*                                                                         *)
(* The operator drops a request with the last patch of a reconcile that may *)
(* have begun before the request was there.  What the proof follows is the  *)
(* copy that such a reconcile works from: it has never been stamped, so the *)
(* 10 minutes after which the operator goes on without an exporter cannot   *)
(* be over for it, and on Windows its collector cannot be installed.        *)
(*                                                                         *)
(* Two hypotheses say which VMs this is about, and both are needed.         *)
(* FreshVMs: a VM that has opted out of log collection may be marked ready   *)
(* without an exporter, and a reconcile that began before the request then  *)
(* drops it.  (A VM that carries a request since its admission is the        *)
(* subject of RefinesLifecycle.)  OneRun: of two runs of kvoctl, the first  *)
(* may write its stamp back onto a VM whose request was dropped meanwhile;   *)
(* ten minutes later the copies of that VM are not Old any more, and the    *)
(* request of the second run can be dropped by a reconcile begun before it.  *)
(***************************************************************************)
EXTENDS OnboardingProofs

Requested(o) == o["remediation-required"] = "true"
LoggingOn(o) == o["logging-enabled"] = "true"

\* VMs without a request of their own, whose logs are to be collected.
FreshVMs ==
    \A i \in InitialVMs : ~Requested(i.vm) /\ (Managed(i.vm) => LoggingOn(i.vm))

\* One run of kvoctl for the VM.
OneRun == \E r : Run = {r}

\* kvoctl has opened its request, and it has been dropped since.
Opened == \E r \in Run : run[r].state = "onboarded"
Over == Opened /\ ~Requested(api)

(***************************************************************************)
(* The invariant.                                                          *)
(***************************************************************************)

\* A copy from before the request: no remediation has begun, and no collector is
\* installed in a Windows guest.
Old(o) ==
    /\ Unstamped(o)
    /\ o["alloy-config-hash"] # Absent => DetectOS(o) = "linux"

CopiesOpen ==
    /\ ~Opened =>
          \A o \in {api, cache, vm} :
              ~Requested(o) /\ (DetectOS(o) # "unknown" => o["os"] = api["os"])
    /\ \A o \in {api, cache, vm} : Requested(o) \/ Old(o)
    /\ \A o \in {api, cache, vm} : Managed(o) => LoggingOn(o)

\* What the worker has to have found, at `at` with the copy o, to get there.
WorkerAt(at, o, answered) ==
    /\ at \in {"remediation", "sysprep", "cloudinit", "vmi", "probe", "alloy"} =>
          LoggingOn(o) /\ DetectOS(o) # "unknown"
    /\ at \in {"sysprep", "cloudinit", "vmi", "probe", "alloy"} => ~Requested(o)
    /\ at = "alloy" => answered \/ DetectOS(o) = "windows"
    /\ at \in {"install", "record"} => answered /\ DetectOS(o) = "linux"
    /\ at = "finish" => answered

\* What a patch may change, with the exporter's answer or without it.
DraftOpen(mod, at, answered) ==
    /\ at \in {"connect", "alloyFailed", "verified"} \cup Returns
    /\ \A k \in {"os", "alloy-config-hash", "logging-enabled", "bootstrap-managed"} :
          mod[k] = vm[k]
    /\ mod["bootstrap-started-at"] # vm["bootstrap-started-at"] => Requested(vm)
    /\ mod["remediation-required"] # vm["remediation-required"] => answered

WhileOpen ==
    /\ CopiesOpen
    /\ WorkerAt(pc, vm, seen.exporter)
    /\ pc = "patch" => DraftOpen(draft, resume, seen.exporter)

\* The operator never asks for a remediation.
NeverAsks == pc = "patch" /\ Requested(draft) => Requested(vm)

\* kvoctl always does.
BodiesAsk ==
    \A r \in Run : run[r].state = "patch" => Requested(run[r].body) /\ LoggingOn(run[r].body)

RequestInv == NeverAsks /\ BodiesAsk /\ (Repaired \/ Over \/ WhileOpen)

\* The annotations that the invariant speaks of are keys.
LEMMA RequestKeys ==
    {"os", "bootstrap-managed", "logging-enabled", "remediation-required",
     "remediation-completed", "bootstrap-started-at", "alloy-config-hash",
     "alloy-error", "status", "reason"} \subseteq Key
BY DEF Key

(***************************************************************************)
(* The operator's patches never ask for a remediation.                     *)
(***************************************************************************)

\* A draft that asks was computed from a copy that asks.
LEMMA WriteAsks ==
    ASSUME NEW mod, NEW at, Write(mod, at),
           mod["remediation-required"] \in {vm["remediation-required"], "false", Absent}
    PROVE  NeverAsks'
BY DEF Write, NeverAsks, Requested, Absent

\* A worker that goes on has no draft.
LEMMA ContinueAsks ==
    ASSUME NEW at, NEW o, Continue(at, o)
    PROVE  NeverAsks'
<1>1. draft' = Blank
  BY DEF Continue
<1> QED
  BY <1>1, RequestKeys DEF NeverAsks, Requested, Blank, Absent

\* mark leaves requests alone.
LEMMA MarkAsks ==
    ASSUME TypeOK, NEW status, NEW reason, Mark(status, reason)
    PROVE  NeverAsks'
<1> DEFINE return == IF status \in {"ready", "skipped"} THEN "done" ELSE "requeue"
           mod == [vm EXCEPT !["status"] = status, !["reason"] = reason]
<1>1. CASE Continue(return, vm)
  BY <1>1, ContinueAsks
<1>2. CASE Write(mod, return)
  <2>1. mod["remediation-required"] = vm["remediation-required"]
    BY RequestKeys DEF TypeOK, Metadata
  <2> HIDE DEF mod, return
  <2> QED
    BY <1>2, <2>1, WriteAsks
<1> QED
  BY <1>1, <1>2 DEF Mark

\* No step of Reconcile prepares a patch that asks for more than its copy does.
LEMMA AsksReconcile ==
    TypeOK /\ NeverAsks /\ Reconcile => NeverAsks'
<1> SUFFICES ASSUME TypeOK, NeverAsks, Reconcile
             PROVE  NeverAsks'
  OBVIOUS
<1> USE RequestKeys
<1>m. vm \in [Key -> Val]
  BY DEF TypeOK, Metadata
<1>k. ASSUME NEW gone PROVE Without(vm, gone)["remediation-required"]
                               \in {vm["remediation-required"], Absent}
  BY DEF Without
<1>f. ASSUME NEW gone
      PROVE  [Without(vm, gone) EXCEPT !["remediation-required"] = "false"]
                 ["remediation-required"] = "false"
  BY DEF Without
<1>1. CASE StartReconcile
  BY <1>1 DEF StartReconcile, NeverAsks
<1>2. CASE IgnoreUnmanaged
  BY <1>2, ContinueAsks DEF IgnoreUnmanaged
<1>3. CASE ForgetUnknownOS
  BY <1>3, <1>k, WriteAsks DEF ForgetUnknownOS
<1>4. CASE SkipUnknownOS
  BY <1>4, MarkAsks DEF SkipUnknownOS
<1>5. CASE EnsureNamespace
  BY <1>5, ContinueAsks, MarkAsks DEF EnsureNamespace
<1>6. CASE RemediationNotRequired
  BY <1>6, ContinueAsks DEF RemediationNotRequired
<1>7. CASE PrepareRemediation
  <2> DEFINE mod == [vm EXCEPT !["bootstrap-started-at"] = "recent"]
  <2>1. Write(mod, "connect") => NeverAsks'
    BY <1>m, WriteAsks
  <2> QED
    BY <1>7, <2>1, ContinueAsks, MarkAsks DEF PrepareRemediation
<1>e. RemediationError => NeverAsks'
  BY <1>m, WriteAsks DEF RemediationError
<1>8. CASE ConnectLinux
  BY <1>8, <1>e, ContinueAsks, MarkAsks DEF ConnectLinux
<1>9. CASE ConnectWindows
  <2> DEFINE mod == [Without(vm, {"alloy-error"}) EXCEPT !["remediation-required"] = "false"]
  <2>1. Write(mod, "requeue") => NeverAsks'
    BY <1>f, WriteAsks
  <2> QED
    BY <1>9, <1>e, <2>1, ContinueAsks, MarkAsks DEF ConnectWindows
<1>10. CASE RunScript
  <2> DEFINE mod == [Without(vm, {"remediation-error", "remediation-required"})
                       EXCEPT !["remediation-completed"] = "true"]
  <2>1. mod["remediation-required"] = Absent
    BY DEF Without
  <2>2. Write(mod, "requeue")
    BY <1>10 DEF RunScript
  <2> HIDE DEF mod
  <2> QED
    BY <2>1, <2>2, WriteAsks
<1>11. CASE ScriptFails
  BY <1>11, <1>e DEF ScriptFails
<1>12. CASE NoSysprepMerge
  BY <1>12, ContinueAsks DEF NoSysprepMerge
<1>13. CASE MergeSysprep
  <2> DEFINE mod == [Without(vm, {"sysprep-merge-error"}) EXCEPT !["sysprep-merged"] = "true"]
  <2>1. mod["remediation-required"] = vm["remediation-required"] /\ Write(mod, "requeue")
    BY <1>13 DEF MergeSysprep, Without
  <2> HIDE DEF mod
  <2> QED
    BY <2>1, WriteAsks
<1>14. CASE SysprepFails
  BY <1>14, <1>m, WriteAsks DEF SysprepFails
<1>15. CASE NoCloudInitMerge
  BY <1>15, ContinueAsks DEF NoCloudInitMerge
<1>16. CASE CreateCloudInitSecret
  BY <1>16 DEF CreateCloudInitSecret, worker, NeverAsks
<1>17. CASE MergeCloudInit
  <2> DEFINE mod == [Without(vm, {"cloudinit-secret-merge-error"})
                       EXCEPT !["cloudinit-secret-merged"] = "true"]
  <2>1. mod["remediation-required"] = vm["remediation-required"] /\ Write(mod, "requeue")
    BY <1>17 DEF MergeCloudInit, Without
  <2> HIDE DEF mod
  <2> QED
    BY <2>1, WriteAsks
<1>18. CASE CloudInitFails
  BY <1>18, <1>m, WriteAsks DEF CloudInitFails
<1>19. CASE SyncScrapeResources
  BY <1>19, ContinueAsks, MarkAsks DEF SyncScrapeResources
<1>20. CASE Probe
  <2> DEFINE mod == [Without(vm, {"alloy-error", "reason"})
                       EXCEPT !["remediation-required"] = "false",
                              !["bootstrap-ready"] = "true"]
  <2>1. mod["remediation-required"] = "false"
    BY DEF Without
  <2>2. Write(mod, "alloy") => NeverAsks'
    <3> HIDE DEF mod
    <3> QED
      BY <2>1, WriteAsks
  <2> QED
    BY <1>20, <2>2, ContinueAsks, MarkAsks DEF Probe
<1>a. AlloyError(vm) => NeverAsks'
  BY <1>m, WriteAsks DEF AlloyError
<1>21. CASE CheckAlloy
  BY <1>21, <1>a, ContinueAsks DEF CheckAlloy
<1>22. CASE InstallAlloy
  BY <1>22 DEF InstallAlloy, NeverAsks
<1>23. CASE InstallAlloyFails
  BY <1>23, <1>a DEF InstallAlloyFails
<1>24. CASE RecordAlloy
  BY <1>24, <1>a, ContinueAsks DEF RecordAlloy
<1>25. CASE MarkAlloyFailed
  BY <1>25, MarkAsks DEF MarkAlloyFailed
<1>26. CASE ClearErrors
  <2> DEFINE mod == [Without(vm, {"alloy-error", "reason"})
                       EXCEPT !["remediation-required"] = "false"]
  <2>1. Write(mod, "verified")
    BY <1>26 DEF ClearErrors
  <2> QED
    BY <1>f, <2>1, WriteAsks
<1>27. CASE MarkReady
  BY <1>27, MarkAsks DEF MarkReady
<1>28. CASE PatchVM
  BY <1>28, ContinueAsks DEF PatchVM
<1>29. CASE PatchFails
  BY <1>29, ContinueAsks DEF PatchFails
<1> QED
  BY <1>1, <1>2, <1>3, <1>4, <1>5, <1>6, <1>7, <1>8, <1>9, <1>10, <1>11, <1>12,
     <1>13, <1>14, <1>15, <1>16, <1>17, <1>18, <1>19, <1>20, <1>21, <1>22, <1>23,
     <1>24, <1>25, <1>26, <1>27, <1>28, <1>29 DEF Reconcile

\* Nor does the rest of the world change what a draft asks for.
LEMMA AsksElsewhere ==
    TypeOK /\ NeverAsks /\ (Deliver \/ TimerFires \/ Environment \/ UNCHANGED vars)
      => NeverAsks'
<1> SUFFICES ASSUME TypeOK, NeverAsks, Deliver \/ TimerFires \/ Environment \/ UNCHANGED vars
             PROVE  NeverAsks'
  OBVIOUS
<1> USE DEF NeverAsks, Requested
<1>1. CASE TimePasses
  <2>1. \A o \in Metadata : Older(o)["remediation-required"] = o["remediation-required"]
    BY RequestKeys DEF Older, Metadata
  <2> QED
    BY <1>1, <2>1 DEF TimePasses, TypeOK
<1>2. CASE Restart
  BY <1>2 DEF Restart
<1>3. CASE UNCHANGED worker
  BY <1>3 DEF worker
<1> QED
  BY <1>1, <1>2, <1>3
     DEF Deliver, TimerFires, Environment, ChangeVMI, ChangeGuest, GuestBootstrapEnds,
         ChangeKeys, RotateToken, LabelOS, Settle, vars

(***************************************************************************)
(* While the request is open, or has not been opened.                      *)
(***************************************************************************)

\* What a step leaves alone of the copies.
OperatorsOwn == UNCHANGED <<api, cache>> /\ (Opened' <=> Opened)

\* The worker goes on with its copy, or forgets it.
LEMMA ContinueOpen ==
    ASSUME CopiesOpen, OperatorsOwn, NEW at, at # "patch", Continue(at, vm),
           WorkerAt(at, vm, seen'.exporter)
    PROVE  WhileOpen'
<1>1. vm' \in {vm, Blank} /\ pc' # "patch"
  BY DEF Continue
<1>2. CopiesOpen'
  BY <1>1, RequestKeys
     DEF OperatorsOwn, CopiesOpen, Requested, Old, Unstamped, DetectOS, Managed, LoggingOn,
         Blank, Absent
<1>3. WorkerAt(pc', vm', seen'.exporter)
  BY DEF Continue, WorkerAt
<1> QED
  BY <1>1, <1>2, <1>3 DEF WhileOpen, WorkerAt, LoggingOn, DetectOS, Requested

\* The worker prepares a patch.
LEMMA WriteOpen ==
    ASSUME CopiesOpen, OperatorsOwn, NEW mod, NEW at, Write(mod, at),
           DraftOpen(mod, at, seen'.exporter)
    PROVE  WhileOpen'
<1>1. pc' = "patch" /\ draft' = mod /\ resume' = at /\ UNCHANGED vm
  BY DEF Write
<1>2. CopiesOpen'
  BY <1>1
     DEF OperatorsOwn, CopiesOpen, Requested, Old, Unstamped, DetectOS, Managed, LoggingOn
<1>3. DraftOpen(draft, resume, seen.exporter)'
  BY <1>1 DEF DraftOpen, Requested
<1> QED
  BY <1>1, <1>2, <1>3 DEF WhileOpen, WorkerAt

\* mark changes nothing of what the invariant is about.
LEMMA MarkOpen ==
    ASSUME TypeOK, CopiesOpen, OperatorsOwn, NEW status, NEW reason, Mark(status, reason)
    PROVE  WhileOpen'
<1> DEFINE return == IF status \in {"ready", "skipped"} THEN "done" ELSE "requeue"
           mod == [vm EXCEPT !["status"] = status, !["reason"] = reason]
<1>0. return \in Returns
  BY DEF Returns
<1>1. CASE Continue(return, vm)
  BY <1>0, <1>1, ContinueOpen DEF WorkerAt, Returns
<1>2. CASE Write(mod, return)
  <2>1. \A k \in Key \ {"status", "reason"} : mod[k] = vm[k]
    BY DEF TypeOK, Metadata
  <2> HIDE DEF mod, return
  <2>2. DraftOpen(mod, return, seen'.exporter)
    BY <1>0, <2>1, RequestKeys DEF DraftOpen
  <2> QED
    BY <1>2, <2>2, WriteOpen
<1> QED
  BY <1>1, <1>2 DEF Mark

\* The patch is applied: the request is dropped, or all that was known holds on.
LEMMA StoreOpen ==
    ASSUME TypeOK, CopiesOpen, ~Over, UNCHANGED cache, Opened' <=> Opened,
           NEW mod, NEW at, at # "patch",
           Store(MergePatch(vm, mod, api)), Continue(at, api'),
           Requested(mod) => Requested(vm),
           \A k \in {"os", "logging-enabled", "bootstrap-managed"} : mod[k] = vm[k],
           mod["alloy-config-hash"] # vm["alloy-config-hash"] => DetectOS(vm) = "linux",
           mod["bootstrap-started-at"] # vm["bootstrap-started-at"] => Requested(vm),
           WorkerAt(at, api', seen'.exporter)
    PROVE  Over' \/ WhileOpen'
<1> SUFFICES ASSUME ~Over' PROVE WhileOpen'
  OBVIOUS
<1> USE RequestKeys
<1>1. \A k \in Key : api'[k] = IF mod[k] # vm[k] THEN mod[k] ELSE api[k]
  BY DEF Store, MergePatch
<1>2. \A k \in {"os", "logging-enabled", "bootstrap-managed"} : api'[k] = api[k]
  BY <1>1
<1>3. vm' \in {api', Blank} /\ pc' # "patch"
  BY DEF Continue
<1>w. WorkerAt(pc, vm, seen.exporter)'
  <2>1. CASE at \in Returns
    BY <2>1 DEF Continue, WorkerAt
  <2>2. CASE at \notin Returns
    <3>1. pc' = at /\ vm' = api'
      BY <2>2 DEF Continue
    <3> QED
      BY <3>1 DEF WorkerAt, LoggingOn, DetectOS, Requested
  <2> QED
    BY <2>1, <2>2
<1>4. CASE Opened
  <2>1. Requested(api)'
    BY <1>4 DEF Over
  <2>2. Requested(api') /\ Old(Blank) /\ ~Managed(Blank)
    BY <2>1 DEF Requested, Old, Unstamped, Managed, Blank, Absent
  <2>3. Managed(api') => LoggingOn(api')
    BY <1>2 DEF CopiesOpen, Managed, LoggingOn
  <2>4. \A o \in {api', cache, vm'} : (Requested(o) \/ Old(o)) /\ (Managed(o) => LoggingOn(o))
    BY <1>3, <2>2, <2>3 DEF CopiesOpen
  <2>5. CopiesOpen'
    BY <1>4, <2>4
       DEF CopiesOpen, Requested, Old, Unstamped, DetectOS, Managed, LoggingOn
  <2> QED
    BY <1>3, <1>w, <2>5 DEF WhileOpen
<1>5. CASE ~Opened
  <2>1. ~Requested(vm) /\ ~Requested(api) /\ Old(api)
           /\ (DetectOS(vm) # "unknown" => vm["os"] = api["os"])
    BY <1>5 DEF CopiesOpen
  <2>2. ~Requested(api)'
    BY <1>1, <2>1 DEF Requested
  <2>3. Old(api)'
    BY <1>1, <1>2, <2>1 DEF Old, Unstamped, DetectOS
  <2>4. /\ ~Requested(api') /\ Old(api') /\ (Managed(api') => LoggingOn(api'))
        /\ ~Requested(Blank) /\ Old(Blank) /\ ~Managed(Blank)
        /\ DetectOS(Blank) = "unknown"
    BY <1>2, <2>2, <2>3
       DEF CopiesOpen, Requested, Old, Unstamped, DetectOS, Managed, LoggingOn, Blank,
           Absent
  <2>5. \A o \in {api', cache, vm'} :
           /\ ~Requested(o) /\ (DetectOS(o) # "unknown" => o["os"] = api'["os"])
           /\ Requested(o) \/ Old(o)
           /\ Managed(o) => LoggingOn(o)
    BY <1>2, <1>3, <1>5, <2>4 DEF CopiesOpen
  <2>6. CopiesOpen'
    BY <2>5 DEF CopiesOpen, Requested, Old, Unstamped, DetectOS, Managed, LoggingOn
  <2> QED
    BY <1>3, <1>w, <2>6 DEF WhileOpen
<1> QED
  BY <1>4, <1>5

\* A reconcile that does not repair the guest keeps the request, or finds the exporter.
LEMMA OpenReconcile ==
    TypeOK /\ ClaimsInv /\ NeverAsks /\ WhileOpen /\ ~Repaired /\ ~Over
        /\ Reconcile /\ (Opened' <=> Opened)
      => Repaired' \/ Over' \/ WhileOpen'
<1> SUFFICES ASSUME TypeOK, ClaimsInv, NeverAsks, WhileOpen, ~Repaired, ~Over,
                    Reconcile, Opened' <=> Opened
             PROVE  Repaired' \/ Over' \/ WhileOpen'
  OBVIOUS
<1> USE RequestKeys
<1>m. vm \in [Key -> Val]
  BY DEF TypeOK, Metadata
<1>c. CopiesOpen /\ WorkerAt(pc, vm, seen.exporter)
  BY DEF WhileOpen
<1>v. /\ Requested(vm) \/ Old(vm)
      /\ Managed(vm) => LoggingOn(vm)
  BY <1>c DEF CopiesOpen
<1>t. Thinks => OperatorsOwn
  BY DEF Thinks, OperatorsOwn
<1>d. ASSUME NEW mod, NEW at \in Returns \cup {"alloyFailed"}, NEW answered,
             \A k \in {"os", "alloy-config-hash", "logging-enabled", "bootstrap-managed",
                       "bootstrap-started-at", "remediation-required"} : mod[k] = vm[k]
      PROVE  DraftOpen(mod, at, answered)
  BY <1>d DEF DraftOpen
<1>r. ASSUME NEW at \in Returns, OperatorsOwn, Continue(at, vm) PROVE WhileOpen'
  BY <1>c, <1>r, ContinueOpen DEF WorkerAt, Returns
<1>1. CASE StartReconcile
  <2>1. pc' = "entry" /\ vm' = cache /\ UNCHANGED <<api, cache>>
    BY <1>1 DEF StartReconcile
  <2>2. CopiesOpen'
    BY <1>c, <2>1
       DEF CopiesOpen, Requested, Old, Unstamped, DetectOS, Managed, LoggingOn
  <2> QED
    BY <2>1, <2>2 DEF WhileOpen, WorkerAt
<1>2. CASE IgnoreUnmanaged
  BY <1>2, <1>t, <1>r DEF IgnoreUnmanaged, Returns
<1>3. CASE ForgetUnknownOS
  <2> DEFINE mod == Without(vm, {"bootstrap-os", "exporter", "reason", "status"})
  <2>1. DraftOpen(mod, "requeue", seen'.exporter)
    BY <1>d DEF Without, Returns
  <2>2. Write(mod, "requeue") /\ OperatorsOwn
    BY <1>3, <1>t DEF ForgetUnknownOS
  <2> HIDE DEF mod
  <2> QED
    BY <1>c, <2>1, <2>2, WriteOpen
<1>4. CASE SkipUnknownOS
  BY <1>4, <1>c, <1>t, MarkOpen DEF SkipUnknownOS
<1>5. CASE EnsureNamespace
  <2>1. OperatorsOwn /\ LoggingOn(vm) /\ DetectOS(vm) # "unknown"
    BY <1>5, <1>t, <1>v DEF EnsureNamespace
  <2>2. Continue("remediation", vm) => WhileOpen'
    BY <1>c, <2>1, ContinueOpen DEF WorkerAt
  <2>3. \/ Continue("remediation", vm) \/ Continue("requeue", vm)
        \/ Mark("pending", "monitoring-secret-error")
    BY <1>5 DEF EnsureNamespace
  <2> QED
    BY <1>c, <1>r, <2>1, <2>2, <2>3, MarkOpen DEF Returns
<1>6. CASE RemediationNotRequired
  <2>1. /\ pc = "remediation" /\ ~Requested(vm)
        /\ OperatorsOwn /\ Continue("sysprep", vm)
    BY <1>6, <1>t DEF RemediationNotRequired, Requested
  <2> QED
    BY <1>c, <2>1, ContinueOpen DEF WorkerAt
<1>7. CASE PrepareRemediation
  <2> DEFINE mod == [vm EXCEPT !["bootstrap-started-at"] = "recent"]
  <2>1. OperatorsOwn /\ Requested(vm)
    BY <1>7, <1>t DEF PrepareRemediation, Requested
  <2>2. DraftOpen(mod, "connect", seen'.exporter)
    BY <1>m, <2>1 DEF DraftOpen
  <2>3. Write(mod, "connect") => WhileOpen'
    <3> HIDE DEF mod
    <3> QED
      BY <1>c, <2>1, <2>2, WriteOpen
  <2>4. Continue("connect", vm) => WhileOpen'
    BY <1>c, <2>1, ContinueOpen DEF WorkerAt
  <2>5. \/ Write(mod, "connect") \/ Continue("connect", vm)
        \/ Mark("pending", "waiting-for-vmi-for-remediation")
        \/ Mark("pending", "waiting-for-ip-for-remediation")
    BY <1>7 DEF PrepareRemediation
  <2> QED
    BY <1>c, <2>1, <2>3, <2>4, <2>5, MarkOpen
<1>e. OperatorsOwn /\ RemediationError => WhileOpen'
  <2> DEFINE mod == [vm EXCEPT !["remediation-error"] = "error"]
  <2>1. DraftOpen(mod, "requeue", seen'.exporter)
    BY <1>m, <1>d DEF Returns
  <2> QED
    BY <1>c, <2>1, WriteOpen DEF RemediationError
<1>s. OperatorsOwn /\ Continue("script", vm) => WhileOpen'
  BY <1>c, ContinueOpen DEF WorkerAt
<1>8. CASE ConnectLinux
  BY <1>8, <1>c, <1>e, <1>s, <1>t, MarkOpen DEF ConnectLinux
<1>9. CASE ConnectWindows
  <2>1. guest.marker # "success"
    BY DEF Repaired
  <2> QED
    BY <1>9, <1>c, <1>e, <1>s, <1>t, <2>1, MarkOpen DEF ConnectWindows
<1>10. CASE RunScript
  BY <1>10 DEF RunScript, Repaired, TypeOK, Guest
<1>11. CASE ScriptFails
  BY <1>11, <1>e DEF ScriptFails, OperatorsOwn
<1>w. pc \in {"sysprep", "cloudinit", "vmi", "probe", "alloy"} =>
          LoggingOn(vm) /\ DetectOS(vm) # "unknown" /\ ~Requested(vm)
  BY <1>c DEF WorkerAt
<1>g. ASSUME NEW at \in {"cloudinit", "vmi", "probe"}, OperatorsOwn, Continue(at, vm),
             pc \in {"sysprep", "cloudinit", "vmi"}
      PROVE  WhileOpen'
  BY <1>c, <1>g, <1>w, ContinueOpen DEF WorkerAt
<1>12. CASE NoSysprepMerge
  BY <1>12, <1>g, <1>t DEF NoSysprepMerge
<1>13. CASE MergeSysprep
  <2> DEFINE mod == [Without(vm, {"sysprep-merge-error"}) EXCEPT !["sysprep-merged"] = "true"]
  <2>1. DraftOpen(mod, "requeue", seen'.exporter)
    BY <1>d DEF Without, Returns
  <2>2. Write(mod, "requeue") /\ OperatorsOwn
    BY <1>13 DEF MergeSysprep, OperatorsOwn
  <2> HIDE DEF mod
  <2> QED
    BY <1>c, <2>1, <2>2, WriteOpen
<1>14. CASE SysprepFails
  <2> DEFINE mod == [vm EXCEPT !["sysprep-merge-error"] = "error"]
  <2>1. DraftOpen(mod, "requeue", seen'.exporter)
    BY <1>m, <1>d DEF Returns
  <2>2. Write(mod, "requeue") /\ OperatorsOwn
    BY <1>14, <1>t DEF SysprepFails
  <2> HIDE DEF mod
  <2> QED
    BY <1>c, <2>1, <2>2, WriteOpen
<1>15. CASE NoCloudInitMerge
  BY <1>15, <1>g, <1>t DEF NoCloudInitMerge
<1>16. CASE CreateCloudInitSecret
  <2>1. UNCHANGED <<api, cache, vm, pc, draft, resume, seen>>
    BY <1>16 DEF CreateCloudInitSecret, worker
  <2> QED
    BY <2>1
       DEF WhileOpen, CopiesOpen, WorkerAt, DraftOpen, Requested, Old, Unstamped, DetectOS,
           Managed, LoggingOn
<1>17. CASE MergeCloudInit
  <2> DEFINE mod == [Without(vm, {"cloudinit-secret-merge-error"})
                       EXCEPT !["cloudinit-secret-merged"] = "true"]
  <2>1. DraftOpen(mod, "requeue", seen'.exporter)
    BY <1>d DEF Without, Returns
  <2>2. Write(mod, "requeue") /\ OperatorsOwn
    BY <1>17 DEF MergeCloudInit, OperatorsOwn
  <2> HIDE DEF mod
  <2> QED
    BY <1>c, <2>1, <2>2, WriteOpen
<1>18. CASE CloudInitFails
  <2> DEFINE mod == [vm EXCEPT !["cloudinit-secret-merge-error"] = "error"]
  <2>1. DraftOpen(mod, "requeue", seen'.exporter)
    BY <1>m, <1>d DEF Returns
  <2>2. Write(mod, "requeue") /\ OperatorsOwn
    BY <1>18, <1>t DEF CloudInitFails
  <2> HIDE DEF mod
  <2> QED
    BY <1>c, <2>1, <2>2, WriteOpen
<1>19. CASE SyncScrapeResources
  <2>1. \/ Continue("probe", vm) \/ Continue("requeue", vm)
        \/ Mark("pending", "waiting-for-vmi") \/ Mark("pending", "waiting-for-ip")
    BY <1>19 DEF SyncScrapeResources
  <2>2. pc = "vmi" /\ OperatorsOwn
    BY <1>19, <1>t DEF SyncScrapeResources
  <2> QED
    BY <1>c, <1>g, <1>r, <2>1, <2>2, MarkOpen DEF Returns
<1>20. CASE Probe
  <2>0. pc = "probe" /\ OperatorsOwn
    BY <1>20 DEF Probe, OperatorsOwn
  <2>1. ~TimedOut(vm) /\ BootstrapState # "success"
    BY <1>v, <1>w, <2>0 DEF TimedOut, Old, Unstamped, Absent, BootstrapState, Repaired
  <2>2. CASE Mark("pending", "bootstrap-in-progress")
    BY <1>c, <2>0, <2>2, MarkOpen
  <2>3. CASE ExporterUp \/ BootstrapState # "unknown"
    <3>1. Continue("alloy", vm)
            /\ seen' = [seen EXCEPT !.exporter = ExporterUp, !.marker = BootstrapState]
      BY <1>20, <2>1, <2>3 DEF Probe
    <3>2. seen'.exporter = ExporterUp
      BY <3>1 DEF TypeOK, Seen
    <3>3. ExporterUp \/ DetectOS(vm) = "windows"
      BY <2>3 DEF BootstrapState
    <3> QED
      BY <1>c, <1>w, <2>0, <3>1, <3>2, <3>3, ContinueOpen DEF WorkerAt
  <2> QED
    BY <1>20, <2>1, <2>2, <2>3 DEF Probe
<1>a. OperatorsOwn /\ AlloyError(vm) => WhileOpen'
  <2> DEFINE mod == [vm EXCEPT !["alloy-error"] = "error"]
  <2>1. DraftOpen(mod, "alloyFailed", seen'.exporter)
    BY <1>m, <1>d
  <2> QED
    BY <1>c, <2>1, WriteOpen DEF AlloyError
<1>21. CASE CheckAlloy
  <2>1. pc = "alloy" /\ OperatorsOwn
    BY <1>21 DEF CheckAlloy, OperatorsOwn
  <2>2. DetectOS(vm) = "windows" => ~AlloyCurrent(vm) /\ ~AlloyInstallable(vm)
    BY <1>v, <1>w, <2>1
       DEF AlloyCurrent, AlloyInstallable, Old, Repaired, ClaimsInv, CopyOK
  <2>3. vm["logging-enabled"] = "true"
    BY <1>w, <2>1 DEF LoggingOn
  <2>4. CASE AlloyError(vm)
    BY <1>a, <2>1, <2>4
  <2>5. CASE DetectOS(vm) # "windows"
    <3>1. DetectOS(vm) = "linux" /\ seen.exporter
      BY <1>c, <1>w, <2>1, <2>5 DEF WorkerAt, DetectOS
    <3>2. CASE Continue("finish", vm) /\ KeepSeen
      <4>1. seen' = seen
        BY <3>2 DEF KeepSeen, Continue, Returns
      <4> QED
        BY <1>c, <2>1, <3>1, <3>2, <4>1, ContinueOpen DEF WorkerAt
    <3>3. CASE Continue("install", vm) /\ seen' = [seen EXCEPT !.token = token]
      <4>1. seen'.exporter = seen.exporter
        BY <3>3 DEF TypeOK, Seen
      <4> QED
        BY <1>c, <2>1, <3>1, <3>3, <4>1, ContinueOpen DEF WorkerAt
    <3> QED
      BY <1>21, <2>4, <3>2, <3>3 DEF CheckAlloy
  <2> QED
    BY <1>21, <2>2, <2>3, <2>4, <2>5 DEF CheckAlloy
<1>22. CASE InstallAlloy
  <2>1. pc = "install" /\ pc' = "record" /\ UNCHANGED <<api, cache, vm, seen>>
    BY <1>22 DEF InstallAlloy
  <2>2. CopiesOpen'
    BY <1>c, <1>22, <2>1
       DEF CopiesOpen, Requested, Old, Unstamped, DetectOS, Managed, LoggingOn
  <2> QED
    BY <1>c, <2>1, <2>2 DEF WhileOpen, WorkerAt, DetectOS
<1>23. CASE InstallAlloyFails
  BY <1>23, <1>a DEF InstallAlloyFails, OperatorsOwn
<1>24. CASE RecordAlloy
  <2> DEFINE mod == [Without(vm, {"alloy-error"}) EXCEPT !["alloy-config-hash"] = seen.token]
  <2>0. pc = "record" /\ seen.exporter /\ DetectOS(vm) = "linux" /\ UNCHANGED cache
    BY <1>c, <1>24 DEF RecordAlloy, WorkerAt
  <2>1. CASE Store(MergePatch(vm, mod, api)) /\ Continue("finish", api')
    <3>1. \A k \in Key \ {"alloy-error", "alloy-config-hash"} : mod[k] = vm[k]
      BY DEF Without
    <3>2. seen' = seen
      BY <1>24, <2>1 DEF RecordAlloy, KeepSeen, Continue, Returns
    <3>3. WorkerAt("finish", api', seen'.exporter)
      BY <2>0, <3>2 DEF WorkerAt
    <3>4. Requested(mod) => Requested(vm)
      BY <3>1 DEF Requested
    <3> HIDE DEF mod
    <3> QED
      BY <1>c, <2>0, <2>1, <3>1, <3>3, <3>4, StoreOpen
  <2>2. CASE AlloyError(vm) /\ UNCHANGED <<api, watch>>
    BY <1>a, <2>0, <2>2 DEF OperatorsOwn
  <2> QED
    BY <1>24, <2>1, <2>2 DEF RecordAlloy
<1>25. CASE MarkAlloyFailed
  BY <1>25, <1>c, <1>t, MarkOpen DEF MarkAlloyFailed
<1>26. CASE ClearErrors
  <2> DEFINE mod == [Without(vm, {"alloy-error", "reason"})
                       EXCEPT !["remediation-required"] = "false"]
  <2>1. Write(mod, "verified") /\ OperatorsOwn /\ seen.exporter
    BY <1>26, <1>c, <1>t DEF ClearErrors, WorkerAt
  <2>2. seen' = seen
    BY <1>26 DEF ClearErrors, Thinks, KeepSeen, Write
  <2>3. DraftOpen(mod, "verified", seen'.exporter)
    BY <2>1, <2>2 DEF DraftOpen, Without
  <2> HIDE DEF mod
  <2> QED
    BY <1>c, <2>1, <2>3, WriteOpen
<1>27. CASE MarkReady
  BY <1>27, <1>c, <1>t, MarkOpen DEF MarkReady
<1>28. CASE PatchVM
  <2>1. DraftOpen(draft, resume, seen.exporter) /\ (Requested(draft) => Requested(vm))
    BY <1>28 DEF PatchVM, WhileOpen, NeverAsks
  <2>2. resume # "patch" /\ WorkerAt(resume, api', seen'.exporter)
    BY <2>1 DEF DraftOpen, WorkerAt, Returns
  <2>3. /\ Store(MergePatch(vm, draft, api)) /\ Continue(resume, api') /\ UNCHANGED cache
    BY <1>28 DEF PatchVM
  <2> QED
    BY <1>c, <2>1, <2>2, <2>3, StoreOpen DEF DraftOpen
<1>29. CASE PatchFails
  BY <1>29, <1>r, <1>t DEF PatchFails, Returns
<1> QED
  BY <1>1, <1>2, <1>3, <1>4, <1>5, <1>6, <1>7, <1>8, <1>9, <1>10, <1>11, <1>12,
     <1>13, <1>14, <1>15, <1>16, <1>17, <1>18, <1>19, <1>20, <1>21, <1>22, <1>23,
     <1>24, <1>25, <1>26, <1>27, <1>28, <1>29 DEF Reconcile

\* Nor does the rest of the world undo any of it: a label is only added where there
\* was none, and only a VM with a request has a stamp that can grow old.
LEMMA OpenElsewhere ==
    TypeOK /\ WhileOpen /\ (Opened' <=> Opened)
        /\ (Deliver \/ TimerFires \/ Environment \/ UNCHANGED vars)
      => WhileOpen'
<1> SUFFICES ASSUME TypeOK, WhileOpen, Opened' <=> Opened,
                    Deliver \/ TimerFires \/ Environment \/ UNCHANGED vars
             PROVE  WhileOpen'
  OBVIOUS
<1> USE RequestKeys
<1>c. CopiesOpen
  BY DEF WhileOpen
<1>s. ASSUME UNCHANGED <<api, cache, worker>> PROVE WhileOpen'
  <2>1. UNCHANGED <<api, cache, vm, pc, draft, resume, seen>>
    BY <1>s DEF worker
  <2> QED
    BY <2>1
       DEF WhileOpen, CopiesOpen, WorkerAt, DraftOpen, Requested, Old, Unstamped, DetectOS,
           Managed, LoggingOn
<1>w. ASSUME CopiesOpen', UNCHANGED worker PROVE WhileOpen'
  <2>1. UNCHANGED <<vm, pc, draft, resume, seen>>
    BY <1>w DEF worker
  <2> QED
    BY <1>w, <2>1
       DEF WhileOpen, WorkerAt, DraftOpen, Requested, DetectOS, LoggingOn
<1>1. CASE Deliver
  <2>1. cache' = api /\ UNCHANGED <<api, vm>> /\ UNCHANGED worker
    BY <1>1 DEF Deliver, worker
  <2>2. CopiesOpen'
    BY <1>c, <2>1 DEF CopiesOpen, Requested, Old, Unstamped, DetectOS, Managed, LoggingOn
  <2> QED
    BY <1>w, <2>1, <2>2
<1>2. CASE TimePasses
  <2>1. /\ api' = Older(api) /\ cache' = Older(cache) /\ vm' = Older(vm)
        /\ draft' = Older(draft) /\ UNCHANGED <<pc, resume, seen>>
    BY <1>2 DEF TimePasses
  <2>2. \A o \in {api, cache, vm, draft} :
           /\ \A k \in Key \ {"bootstrap-started-at"} : Older(o)[k] = o[k]
           /\ Older(o)["bootstrap-started-at"] =
                 IF o["bootstrap-started-at"] = "recent" THEN "expired"
                 ELSE o["bootstrap-started-at"]
    BY DEF Older, TypeOK, Metadata
  <2>3. \A o \in {api, cache, vm} :
           /\ Requested(Older(o)) <=> Requested(o)
           /\ Old(Older(o)) <=> Old(o)
           /\ DetectOS(Older(o)) = DetectOS(o) /\ Older(o)["os"] = o["os"]
           /\ Managed(Older(o)) <=> Managed(o)
           /\ LoggingOn(Older(o)) <=> LoggingOn(o)
    <3> TAKE o \in {api, cache, vm}
    <3>1. \A k \in {"os", "bootstrap-managed", "logging-enabled", "remediation-required",
                    "alloy-config-hash"} : Older(o)[k] = o[k]
      BY <2>2
    <3>2. Unstamped(Older(o)) <=> Unstamped(o)
      BY <2>2 DEF Unstamped, Absent
    <3> QED
      BY <3>1, <3>2 DEF Requested, Old, DetectOS, Managed, LoggingOn
  <2>4. CopiesOpen'
    <3>1. \A o \in {api, cache, vm} :
             /\ Requested(Older(o)) \/ Old(Older(o))
             /\ Managed(Older(o)) => LoggingOn(Older(o))
             /\ ~Opened => /\ ~Requested(Older(o))
                           /\ DetectOS(Older(o)) # "unknown" => Older(o)["os"] = Older(api)["os"]
      BY <1>c, <2>3 DEF CopiesOpen
    <3>2. \A o \in {api', cache', vm'} :
             /\ Requested(o) \/ Old(o)
             /\ Managed(o) => LoggingOn(o)
             /\ ~Opened => ~Requested(o) /\ (DetectOS(o) # "unknown" => o["os"] = api'["os"])
      BY <2>1, <3>1
    <3> QED
      BY <3>2 DEF CopiesOpen, Requested, Old, Unstamped, DetectOS, Managed, LoggingOn
  <2>5. WorkerAt(pc, vm, seen.exporter)'
    BY <2>1, <2>3 DEF WhileOpen, WorkerAt, Requested, DetectOS, LoggingOn
  <2>6. (pc = "patch" => DraftOpen(draft, resume, seen.exporter))'
    BY <2>1, <2>2 DEF WhileOpen, DraftOpen, Requested
  <2> QED
    BY <2>4, <2>5, <2>6 DEF WhileOpen
<1>3. CASE Restart
  <2>1. UNCHANGED api /\ cache' = api /\ vm' = Blank /\ pc' = "idle"
    BY <1>3 DEF Restart
  <2>2. ~Requested(Blank) /\ Old(Blank) /\ ~Managed(Blank) /\ DetectOS(Blank) = "unknown"
    BY DEF Requested, Old, Unstamped, Managed, DetectOS, Blank, Absent
  <2>3. \A o \in {api, cache', vm'} :
           /\ Requested(o) \/ Old(o)
           /\ Managed(o) => LoggingOn(o)
           /\ ~Opened => ~Requested(o) /\ (DetectOS(o) # "unknown" => o["os"] = api["os"])
    BY <1>c, <2>1, <2>2 DEF CopiesOpen
  <2>4. CopiesOpen'
    BY <2>1, <2>3 DEF CopiesOpen, Requested, Old, Unstamped, DetectOS, Managed, LoggingOn
  <2> QED
    BY <2>1, <2>4 DEF WhileOpen, WorkerAt
<1>4. CASE LabelOS
  <2>1. PICK os \in {"linux", "windows"} : api' = [api EXCEPT !["os"] = os]
    BY <1>4 DEF LabelOS, Store
  <2>2. \A k \in Key \ {"os"} : api'[k] = api[k]
    BY <2>1 DEF TypeOK, Metadata
  <2>3. DetectOS(api) = "unknown" /\ UNCHANGED <<cache, vm>> /\ UNCHANGED worker
    BY <1>4 DEF LabelOS, worker
  <2>4. \A o \in {api', cache, vm} :
           /\ Requested(o) \/ Old(o)
           /\ Managed(o) => LoggingOn(o)
    <3>1. Requested(api) \/ (Unstamped(api) /\ api["alloy-config-hash"] = Absent)
      BY <1>c, <2>3 DEF CopiesOpen, Old
    <3>2. /\ Requested(api') \/ Old(api')
          /\ Managed(api') => LoggingOn(api')
      BY <1>c, <2>2, <3>1 DEF CopiesOpen, Requested, Old, Unstamped, Managed, LoggingOn
    <3> QED
      BY <1>c, <3>2 DEF CopiesOpen
  <2>5. ASSUME ~Opened, NEW o \in {api', cache, vm}
        PROVE  ~Requested(o) /\ (DetectOS(o) # "unknown" => o["os"] = api'["os"])
    <3>1. \A c \in {cache, vm} : DetectOS(c) = "unknown"
      BY <1>c, <2>3, <2>5 DEF CopiesOpen, DetectOS
    <3>2. ~Requested(api')
      BY <1>c, <2>2, <2>5 DEF CopiesOpen, Requested
    <3> QED
      BY <1>c, <2>5, <3>1, <3>2 DEF CopiesOpen
  <2>6. CopiesOpen'
    BY <2>3, <2>4, <2>5
       DEF CopiesOpen, Requested, Old, Unstamped, DetectOS, Managed, LoggingOn
  <2> QED
    BY <1>w, <2>3, <2>6
<1>5. CASE UNCHANGED <<api, cache, worker>>
  BY <1>5, <1>s
<1> QED
  BY <1>1, <1>2, <1>3, <1>4, <1>5
     DEF TimerFires, Environment, ChangeVMI, ChangeGuest, GuestBootstrapEnds, ChangeKeys,
         RotateToken, Settle, vars

(***************************************************************************)
(* kvoctl's steps.                                                         *)
(***************************************************************************)

\* What kvoctl sends asks for a remediation and for logs.
LEMMA PatchBodyAsks ==
    ASSUME NEW o \in Metadata, NEW os
    PROVE  Requested(PatchBody(o, os)) /\ LoggingOn(PatchBody(o, os))
<1> DEFINE base == IF o["reason"] = "missing-os-label"
                   THEN Without(o, {"reason", "status", "bootstrap-os", "exporter"})
                   ELSE o
<1>1. base \in [Key -> Val]
  BY WithoutType DEF Metadata
<1> HIDE DEF base
<1> QED
  BY <1>1, RequestKeys DEF PatchBody, base, Requested, LoggingOn

\* A VM that kvoctl has patched asks for a remediation, whatever it carried.
LEMMA RequestOpened ==
    ASSUME NEW r \in Run, BodiesAsk, SendPatch(r)
    PROVE  Requested(api') /\ LoggingOn(api')
BY RequestKeys DEF BodiesAsk, SendPatch, Overlay, Requested, LoggingOn, Absent

\* A run opens its request once, and prepares it from the VM it reads.
LEMMA RequestOnboard ==
    ASSUME OneRun, OnboardingTypeOK, RequestInv, Onboard
    PROVE  RequestInv'
<1> SUFFICES ASSUME NEW r \in Run,
                    \/ Classify(r) \/ InjectKey(r) \/ GetVM(r)
                    \/ SendPatch(r) \/ RunFails(r)
             PROVE  RequestInv'
  BY DEF Onboard
<1>t. TypeOK /\ run \in [Run -> RunRecord] /\ run[r] \in RunRecord
  BY DEF OnboardingTypeOK
<1>u. Run = {r}
  BY DEF OneRun
<1>p. Repaired => Repaired'
  BY <1>t DEF Classify, InjectKey, GetVM, SendPatch, RunFails, Advance, Repaired,
              TypeOK, Guest
<1>w. UNCHANGED <<cache, pc, vm, draft, resume, seen>>
  BY DEF Classify, InjectKey, GetVM, SendPatch, RunFails, Advance, worker
<1>n. NeverAsks'
  BY <1>w DEF RequestInv, NeverAsks, Requested
<1>o. ~Opened /\ ~Over /\ (Repaired \/ WhileOpen)
  BY <1>u DEF Opened, Over, RequestInv, Classify, InjectKey, GetVM, SendPatch, RunFails
<1>a. ASSUME NEW rec \in RunRecord, Advance(r, rec), rec.state # "onboarded",
             rec.state = "patch" => Requested(rec.body) /\ LoggingOn(rec.body)
      PROVE  RequestInv'
  <2>1. run'[r] = rec /\ UNCHANGED api
    BY <1>a, <1>t DEF Advance
  <2>2. ~Opened'
    BY <1>a, <1>u, <2>1 DEF Opened
  <2>3. BodiesAsk'
    BY <1>a, <1>u, <2>1 DEF BodiesAsk, Requested, LoggingOn
  <2>4. WhileOpen => WhileOpen'
    BY <1>o, <1>w, <2>1, <2>2
       DEF WhileOpen, CopiesOpen, WorkerAt, DraftOpen, Requested, Old, Unstamped, DetectOS,
           Managed, LoggingOn
  <2> QED
    BY <1>n, <1>o, <1>p, <2>3, <2>4 DEF RequestInv
<1>1. CASE Classify(r)
  <2>1. PICK sel \in Selection :
          Advance(r, [run[r] EXCEPT
             !.state = IF Verdict(api, sel) = "ready" /\ vmi = "noIP"
                       THEN "failed"
                       ELSE Verdict(api, sel),
             !.selected = IF Verdict(api, sel) = "ready" /\ NormalizeOS(api) = Absent
                          THEN CandidateOS(api, sel)
                          ELSE Absent])
    BY <1>1 DEF Classify
  <2>2. (IF Verdict(api, sel) = "ready" /\ vmi = "noIP" THEN "failed"
         ELSE Verdict(api, sel)) \in {"conflict", "managed", "progress", "skipped", "ready",
                                      "failed"}
    BY DEF Verdict
  <2>3. (IF Verdict(api, sel) = "ready" /\ NormalizeOS(api) = Absent
         THEN CandidateOS(api, sel) ELSE Absent) \in {"linux", "windows", Absent}
    BY CandidateType DEF Verdict
  <2>4. ASSUME NEW st \in {"conflict", "managed", "progress", "skipped", "ready", "failed"},
               NEW os \in {"linux", "windows", Absent}
        PROVE  /\ [run[r] EXCEPT !.state = st, !.selected = os] \in RunRecord
               /\ [run[r] EXCEPT !.state = st, !.selected = os].state = st
    BY <1>t DEF RunRecord, RunState
  <2> QED
    BY <2>1, <2>2, <2>3, <2>4, <1>a
<1>2. CASE InjectKey(r)
  <2>1. /\ [run[r] EXCEPT !.state = "key"] \in RunRecord
        /\ [run[r] EXCEPT !.state = "key"].state = "key"
    BY <1>t DEF RunRecord, RunState
  <2> QED
    BY <1>2, <2>1, <1>a DEF InjectKey
<1>3. CASE GetVM(r)
  <2> DEFINE body == PatchBody(api, run[r].selected)
             rec == [run[r] EXCEPT !.state = "patch", !.body = body]
  <2>1. body \in Metadata /\ Requested(body) /\ LoggingOn(body)
    BY <1>t, PatchBodyType, PatchBodyAsks DEF TypeOK, RunRecord
  <2>2. Advance(r, rec)
    BY <1>3 DEF GetVM
  <2> HIDE DEF body
  <2>3. rec \in RunRecord /\ rec.state = "patch" /\ rec.body = body
    BY <1>t, <2>1 DEF RunRecord, RunState
  <2> HIDE DEF rec
  <2> QED
    BY <2>1, <2>2, <2>3, <1>a
<1>4. CASE SendPatch(r)
  <2>1. run'[r].state = "onboarded"
    BY <1>4, <1>t DEF SendPatch, NewRun
  <2>2. Opened' /\ BodiesAsk'
    BY <1>u, <2>1 DEF Opened, BodiesAsk
  <2>3. Requested(api') /\ LoggingOn(api')
    BY <1>4, RequestOpened DEF RequestInv
  <2>4. WhileOpen => WhileOpen'
    <3> SUFFICES ASSUME WhileOpen PROVE WhileOpen'
      OBVIOUS
    <3>1. \A o \in {api', cache, vm} :
             (Requested(o) \/ Old(o)) /\ (Managed(o) => LoggingOn(o))
      BY <2>3 DEF WhileOpen, CopiesOpen
    <3>2. CopiesOpen'
      BY <1>w, <2>2, <3>1
         DEF CopiesOpen, Requested, Old, Unstamped, DetectOS, Managed, LoggingOn
    <3> QED
      BY <1>w, <3>2 DEF WhileOpen, WorkerAt, DraftOpen, Requested, DetectOS, LoggingOn
  <2> QED
    BY <1>n, <1>o, <1>p, <2>2, <2>4 DEF RequestInv
<1>5. CASE RunFails(r)
  <2>1. /\ [NewRun EXCEPT !.state = "failed"] \in RunRecord
        /\ [NewRun EXCEPT !.state = "failed"].state = "failed"
    BY NewRunType DEF RunRecord, RunState, NewRun
  <2> QED
    BY <1>5, <2>1, <1>a DEF RunFails
<1> QED
  BY <1>1, <1>2, <1>3, <1>4, <1>5

(***************************************************************************)
(* The invariant holds, and the property follows from it.                  *)
(***************************************************************************)

\* Without kvoctl, the VM's request changes with the pending patch only.
LEMMA RequestMoves ==
    TypeOK /\ Next
      => \/ UNCHANGED api
         \/ api'["remediation-required"] = api["remediation-required"]
         \/ /\ pc = "patch"
            /\ draft["remediation-required"] # vm["remediation-required"]
            /\ api'["remediation-required"] = draft["remediation-required"]
<1> SUFFICES ASSUME TypeOK, Next, ~UNCHANGED api
             PROVE  \/ api'["remediation-required"] = api["remediation-required"]
                    \/ /\ pc = "patch"
                       /\ draft["remediation-required"] # vm["remediation-required"]
                       /\ api'["remediation-required"] = draft["remediation-required"]
  OBVIOUS
<1> USE RequestKeys
<1>1. CASE PatchVM
  BY <1>1 DEF PatchVM, Store, MergePatch
<1>2. CASE RecordAlloy
  BY <1>2 DEF RecordAlloy, Store, MergePatch, Without
<1>3. CASE LabelOS
  BY <1>3 DEF LabelOS, Store, TypeOK, Metadata
<1>4. CASE TimePasses
  BY <1>4 DEF TimePasses, Older, TypeOK, Metadata
<1> QED
  BY <1>1, <1>2, <1>3, <1>4, ApiChanges

\* What kvoctl has read grows old and asks for what it asked for.
LEMMA RequestBodies ==
    ASSUME OnboardingTypeOK, BodiesAsk, BodiesAge \/ UNCHANGED run
    PROVE  BodiesAsk' /\ (Opened' <=> Opened)
<1>1. \A r \in Run : run'[r].state = run[r].state
  BY DEF BodiesAge, OnboardingTypeOK, RunRecord
<1>2. \A r \in Run : \A k \in Key \ {"bootstrap-started-at"} :
         run'[r].body[k] = run[r].body[k]
  BY DEF BodiesAge, Older, OnboardingTypeOK, RunRecord, Metadata
<1>3. BodiesAsk'
  BY <1>1, <1>2, RequestKeys DEF BodiesAsk, Requested, LoggingOn
<1>4. Opened' <=> Opened
  BY <1>1 DEF Opened
<1> QED
  BY <1>3, <1>4

\* Every step keeps the invariant.
LEMMA RequestStep ==
    ASSUME OneRun, OnboardingTypeOK, ClaimsInv, RequestInv,
           [OnboardingNext]_onboardingVars
    PROVE  RequestInv'
<1>t. TypeOK /\ run \in [Run -> RunRecord]
  BY DEF OnboardingTypeOK
<1>1. CASE Next /\ BodiesAge
  <2>1. BodiesAsk' /\ (Opened' <=> Opened)
    BY <1>1, RequestBodies DEF RequestInv
  <2>2. NeverAsks'
    BY <1>1, <1>t, AsksReconcile, AsksElsewhere DEF Next, Controller, RequestInv
  <2>3. Repaired => Repaired'
    BY <1>1, <1>t, NextProgress DEF Progress, Repaired
  <2>4. Over => Over'
    BY <1>1, <1>t, <2>1, RequestMoves DEF Over, RequestInv, NeverAsks, Requested
  <2>5. WhileOpen /\ ~Repaired /\ ~Over => Repaired' \/ Over' \/ WhileOpen'
    BY <1>1, <1>t, <2>1, OpenReconcile, OpenElsewhere DEF Next, Controller, RequestInv
  <2> QED
    BY <2>1, <2>2, <2>3, <2>4, <2>5 DEF RequestInv
<1>2. CASE UNCHANGED onboardingVars
  <2>1. UNCHANGED vars /\ UNCHANGED run /\ UNCHANGED <<api, guest, pc, vm, draft>>
    BY <1>2 DEF onboardingVars, vars, worker
  <2>2. BodiesAsk' /\ (Opened' <=> Opened)
    BY <2>1, RequestBodies DEF RequestInv
  <2>3. NeverAsks'
    BY <2>1, <1>t, AsksElsewhere DEF RequestInv
  <2>4. (Repaired => Repaired') /\ (Over => Over')
    BY <2>1, <2>2 DEF Repaired, Over, Requested
  <2>5. WhileOpen => WhileOpen'
    BY <2>1, <2>2, <1>t, OpenElsewhere
  <2> QED
    BY <2>2, <2>3, <2>4, <2>5 DEF RequestInv
<1> QED
  BY <1>1, <1>2, RequestOnboard DEF OnboardingNext

\* What a behaviour starts with: nobody has asked for anything.
LEMMA RequestInit ==
    ASSUME FreshVMs, OnboardingInit
    PROVE  RequestInv
<1> USE RequestKeys
<1>1. PICK i \in InitialVMs : api = i.vm
  BY DEF OnboardingInit, Init
<1>2. cache = api /\ vm = Blank /\ pc = "idle"
  BY DEF OnboardingInit, Init
<1>3. \A r \in Run : run[r].state = "new"
  BY DEF OnboardingInit, NewRun
<1>4. /\ ~Requested(api) /\ Old(api) /\ (Managed(api) => LoggingOn(api))
      /\ ~Requested(Blank) /\ Old(Blank) /\ ~Managed(Blank) /\ DetectOS(Blank) = "unknown"
  BY <1>1, InitialVMsAssumption
     DEF FreshVMs, OperatorOwned, Requested, Old, Unstamped, Managed, LoggingOn, DetectOS,
         Blank, Absent
<1>5. CopiesOpen
  BY <1>2, <1>4 DEF CopiesOpen
<1>6. WhileOpen /\ NeverAsks
  BY <1>2, <1>5 DEF WhileOpen, WorkerAt, NeverAsks
<1>7. BodiesAsk
  BY <1>3 DEF BodiesAsk
<1> QED
  BY <1>6, <1>7 DEF RequestInv

\* A step that drops the request drops it for a reason.
LEMMA RequestDrops ==
    ASSUME OnboardingTypeOK, RequestInv, [OnboardingNext]_onboardingVars,
           Requested(api), ~Requested(api')
    PROVE  Repaired \/ seen.exporter
<1> SUFFICES ASSUME ~Repaired PROVE seen.exporter
  OBVIOUS
<1>1. WhileOpen
  BY DEF RequestInv, Over
<1>2. ~UNCHANGED api
  BY DEF Requested
<1>3. ASSUME NEW r \in Run,
             Classify(r) \/ InjectKey(r) \/ GetVM(r) \/ SendPatch(r) \/ RunFails(r)
      PROVE  FALSE
  BY <1>2, <1>3, RequestOpened
     DEF RequestInv, Classify, InjectKey, GetVM, RunFails, Advance
<1>4. Next
  BY <1>2, <1>3 DEF OnboardingNext, Onboard, onboardingVars, vars
<1>5. pc = "patch" /\ draft["remediation-required"] # vm["remediation-required"]
  BY <1>2, <1>4, RequestMoves DEF OnboardingTypeOK, Requested
<1> QED
  BY <1>1, <1>5 DEF WhileOpen, DraftOpen

\* The inductive invariant: until the guest is repaired or the request has been
\* dropped, every copy of the VM asks for a remediation or has never been stamped,
\* and a worker that prepares to drop a request has had the exporter's answer.
THEOREM RequestIsFollowed ==
    ASSUME OneRun, FreshVMs
    PROVE  OnboardingSpec => []RequestInv
<1>1. OnboardingInit => RequestInv
  BY RequestInit
<1>2. OnboardingTypeOK /\ ClaimsInv /\ RequestInv /\ [OnboardingNext]_onboardingVars
        => RequestInv'
  BY RequestStep
<1> QED
  BY ClaimsAreTrue, <1>1, <1>2, PTL DEF OnboardingSpec

\* markVMReadyForReconciliation beside the operator: the request that kvoctl has
\* opened is dropped only when the guest is repaired or its exporter has answered,
\* however old the copy is from which the operator computes its last patch.
THEOREM RequestIsKept ==
    ASSUME OneRun, FreshVMs
    PROVE  OnboardingSpec => RequestDropped
<1>1. OnboardingTypeOK /\ RequestInv /\ [OnboardingNext]_onboardingVars
        => [ api["remediation-required"] = "true" /\ api'["remediation-required"] # "true"
             => Repaired \/ seen.exporter ]_onboardingVars
  BY RequestDrops DEF Requested
<1> QED
  BY RequestIsFollowed, OnboardingTypeCorrect, <1>1, PTL DEF OnboardingSpec, RequestDropped
=============================================================================
