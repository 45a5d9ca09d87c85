----------------------------- MODULE Onboarding -----------------------------
(***************************************************************************)
(* kvoctl onboard beside the operator (pkg/onboarding).                     *)
(*                                                                         *)
(* A run of kvoctl classifies the VM, sets up SSH in the guest, reads the   *)
(* VM again and sends all of its labels and annotations back as one merge   *)
(* patch, with a request for remediation added.  Between any two of these   *)
(* the operator, the user and other runs may change the VM.  The operator   *)
(* is the one of VMReconciler, step by step.                               *)
(***************************************************************************)
EXTENDS VMReconciler

CONSTANT Run      \* runs of kvoctl onboard

VARIABLE run      \* what each run has found out and where it is

onboardingVars == <<vars, run>>

\* "ready" is READY TO ONBOARD, "key" the state in which the guest has been given
\* the key, "patch" the one in which the VM has been read for the patch; the
\* others end the run.
RunState ==
    {"new", "ready", "key", "patch",
     "onboarded", "failed", "conflict", "managed", "progress", "skipped"}

Selection == SUBSET {"linux", "windows"}

\* selected: the OS that a selector, and not a label, has given the VM.
RunRecord == [state : RunState, selected : {"linux", "windows", Absent}, body : Metadata]

NewRun == [state |-> "new", selected |-> Absent, body |-> Blank]

OnboardingInit == Init /\ run = [r \in Run |-> NewRun]

\* normalizeOS knows more names of an OS than the operator does ("oracle").
NormalizeOS(o) ==
    CASE o["os"] \in {"linux", "oracle"} -> "linux"
      [] o["os"] = "windows" -> "windows"
      [] OTHER -> Absent

\* classifyVM: the OS from the label or from the only selector that matches.
CandidateOS(o, sel) ==
    CASE NormalizeOS(o) # Absent -> NormalizeOS(o)
      [] OTHER -> IF sel = {} THEN "unknown" ELSE CHOOSE os \in sel : TRUE

Conflict(o, sel) ==
    \/ sel = {"linux", "windows"}
    \/ NormalizeOS(o) # Absent /\ sel \notin {{}, {NormalizeOS(o)}}

SkippedBefore(o) == o["status"] = "skipped" /\ o["reason"] = "missing-os-label"

MutantVerdict(o, sel) ==
    IF Conflict(o, sel) THEN "conflict"
    ELSE IF Managed(o) /\ o["remediation-completed"] = "true" THEN "managed"
    ELSE IF Managed(o) /\ ~SkippedBefore(o) THEN "progress"
    ELSE "ready"

Verdict(o, sel) ==
    IF Conflict(o, sel) THEN "conflict"
    ELSE IF Managed(o) /\ o["remediation-completed"] = "true" THEN "managed"
    ELSE IF Managed(o) /\ ~SkippedBefore(o) THEN "progress"
    ELSE IF CandidateOS(o, sel) = "unknown" THEN "skipped"
    ELSE "ready"

\* A step of a run that leaves the VM alone.
Advance(r, rec) ==
    /\ run' = [run EXCEPT ![r] = rec]
    /\ UNCHANGED <<api, cache, watch, queue, worker, cluster, source, disturbances>>

\* Discover: only running VMIs are looked at; the selectors match whatever labels
\* the VM and the VMI have.
Classify(r) ==
    /\ run[r].state = "new"
    /\ vmi # "absent"
    /\ \E sel \in Selection :
         Advance(r, [run[r] EXCEPT
             !.state = IF Verdict(api, sel) = "ready" /\ vmi = "noIP"
                       THEN "failed"
                       ELSE Verdict(api, sel),
             !.selected = IF Verdict(api, sel) = "ready" /\ NormalizeOS(api) = Absent
                          THEN CandidateOS(api, sel)
                          ELSE Absent])
    /\ UNCHANGED guest

\* bootstrapGuest: from here on the operator can log in.
InjectKey(r) ==
    /\ run[r].state = "ready"
    /\ vmi = "running"
    /\ keys # "none"
    /\ guest' = [guest EXCEPT !.ssh = TRUE]
    /\ Advance(r, [run[r] EXCEPT !.state = "key"])

MutantPatchBody(o, selected) ==
    [o EXCEPT !["os"] = IF @ = Absent THEN selected ELSE @,
              !["bootstrap-managed"] = "true",
              !["logging-enabled"] = "true",
              !["ssh-bootstrap-complete"] = "true"]

\* The labels and annotations of the patch.  The keys it means to remove are
\* missing from it, which removes nothing.
PatchBody(o, selected) ==
    [(IF o["reason"] = "missing-os-label"
      THEN Without(o, {"reason", "status", "bootstrap-os", "exporter"})
      ELSE o)
     EXCEPT !["os"] = IF @ = Absent THEN selected ELSE @,
            !["bootstrap-managed"] = "true",
            !["logging-enabled"] = "true",
            !["remediation-required"] = "true",
            !["ssh-bootstrap-complete"] = "true"]

\* markVMReadyForReconciliation reads the VM again; a label set in the meantime
\* that contradicts the selector ends the run.
GetVM(r) ==
    /\ run[r].state = "key"
    /\ run[r].selected # Absent => NormalizeOS(api) \in {Absent, run[r].selected}
    /\ Advance(r, [run[r] EXCEPT !.state = "patch",
                                 !.body = PatchBody(api, run[r].selected)])
    /\ UNCHANGED guest

\* ... and sends it back; the new reconcile-at makes every patch a change.
SendPatch(r) ==
    /\ run[r].state = "patch"
    /\ api' = Overlay(run[r].body, api)
    /\ watch' = TRUE
    /\ run' = [run EXCEPT ![r] = [NewRun EXCEPT !.state = "onboarded"]]
    /\ UNCHANGED <<cache, queue, worker, cluster, guest, source, disturbances>>

\* No address, no key, no SSH, a contradicting label, a failing request; the key
\* may have been installed by then.
RunFails(r) ==
    /\ run[r].state \in {"ready", "key", "patch"}
    /\ \/ UNCHANGED guest
       \/ /\ run[r].state = "ready"
          /\ vmi = "running"
          /\ keys # "none"
          /\ guest' = [guest EXCEPT !.ssh = TRUE]
    /\ Advance(r, [NewRun EXCEPT !.state = "failed"])

Onboard ==
    \E r \in Run : Classify(r) \/ InjectKey(r) \/ GetVM(r) \/ SendPatch(r) \/ RunFails(r)

\* A stamp that a run has read is a point in time: it grows old with the others.
BodiesAge ==
    run' = IF TimePasses THEN [r \in Run |-> [run[r] EXCEPT !.body = Older(@)]] ELSE run

OnboardingNext == (Next /\ BodiesAge) \/ Onboard

\* A run may stop anywhere: nothing is assumed of it.
OnboardingSpec == OnboardingInit /\ [][OnboardingNext]_onboardingVars /\ Fairness

OnboardingTypeOK == TypeOK /\ run \in [Run -> RunRecord]

Onboarded == \E r \in Run : run[r].state = "onboarded"

\* A request for remediation that somebody has opened is dropped only when the
\* guest is repaired, or when the exporter has just answered: a final patch of a
\* reconcile that began before kvoctl's request can overwrite it, but only on a
\* VM that needs no repair (syncMetricsScrapeResources).
RequestDropped ==
    [][ api["remediation-required"] = "true" /\ api'["remediation-required"] # "true"
        => Repaired \/ seen.exporter ]_onboardingVars

\* A VM that kvoctl reports as onboarded, whose guest can be reached and whose
\* OS the operator knows, ends up ready, with the collector configured, although
\* kvoctl's patch brings back whatever status the VM had when it was read.
OnboardedBecomesReady ==
    <>[](Onboarded /\ DetectOS(api) # "unknown" /\ RemediationReachable
            /\ token # Absent
         => api["status"] = "ready" /\ guest.alloy = token)

\* "kvoctl onboard must be able to recover it" (classifyVM): an onboarded VM stays
\* skipped only if its label has no OS name that the operator knows, although kvoctl
\* sends the status "skipped" back with everything else it read.
RecoversSkipped ==
    <>[](Onboarded /\ api["status"] = "skipped" => DetectOS(api) = "unknown")
=============================================================================
