------------------------------- MODULE Deploy -------------------------------
(***************************************************************************)
(* kvoctl deploy: one pass through a fixed list of stages, each of which    *)
(* makes an object or waits for the controller of one, that ends at the     *)
(* first error and is run again by hand.  Several people may run it, each   *)
(* with a configuration of their own.  Objects are read and written in two  *)
(* requests; an update carries the resourceVersion that was read.           *)
(***************************************************************************)
EXTENDS Naturals, Sequences

CONSTANTS
    Deployment,   \* those who run kvoctl deploy, and their configurations
    MaxFaults     \* bound: crashes, failed requests, changes by others

VARIABLES
    spec,      \* of each object: the configuration it was written with
    status,    \* of each object: the configuration its controller has reported ready
    expired,   \* token Secrets whose token has expired
    step,      \* of each deployment: its place in the plan, 0 if it is not running
    seen,      \* what it has read of the object of that step
    outdated,  \* those that have read an object which has changed since
    done,      \* those whose last run has ended in success
    clean,     \* history: those whose last run nothing else has disturbed
    alone,     \* history: no two deployments have run at the same time
    faults

deployVars == <<spec, status, expired, step, seen, outdated, done, clean, alone, faults>>

None   == "none"
Failed == "failed"   \* reported by a controller
Foreign == "foreign" \* an object that somebody else has made of it
Kvoctl  == "kvoctl"  \* one that is the same in every deployment

\* The objects, by the installer that makes them.  The two operators of the platform
\* (Logging and Loki) are installed in the same way and are one here; so are the four
\* bindings of the collector, the two tokens of Grafana (Grafana.tla has the rest of
\* its installation), and the two objects of alerting.
Olm      == {"logging-namespace", "operator-group", "subscription"}
Loki     == {"storage", "lokistack"}
Logging  == {"collector", "collector-role", "forwarder"}
Token    == {"grafana-token", "writer-token"}
KeyHalf  == {"public-key", "private-key"}
Manifest == {"namespace", "account", "operator-role", "operator-binding", "service",
             "operator", "webhook"}

Object == Olm \cup Loki \cup Logging \cup Token \cup KeyHalf \cup Manifest \cup {"slack"}

\* What depends on the configuration of a deployment.
Configured == {"storage", "lokistack", "slack", "operator"}
\* Objects that are created once and then left alone, ...
Kept == {"operator-group", "collector", "grafana-token", "namespace", "account"}
\* ... that are left alone if they are as they should be, ...
Compared == {"logging-namespace", "subscription"}
\* ... whose creation fails if somebody else was faster, ...
Strict == {"subscription", "storage", "lokistack", "forwarder", "slack"}
\* ... that cannot be changed once they are for another role, ...
Binding == {"collector-role", "operator-binding"}
\* ... and without which the deployment goes on.
Optional == {"slack"}

Make(o) == [do |-> "make", of |-> o]
Wait(o) == [do |-> "wait", of |-> o]

MutantPlan ==
    <<Make("logging-namespace"), Make("operator-group"), Make("subscription"),
      Wait("subscription"),
      Make("storage"), Make("lokistack"), Wait("lokistack"),
      Make("collector"), Make("collector-role"), Make("forwarder"), Wait("forwarder"),
      Make("grafana-token"), Make("slack"),
      Make("namespace"), Make("public-key"), Make("private-key"), Make("writer-token"),
      Make("account"), Make("operator-role"), Make("operator-binding"),
      Make("service"), Wait("service"), Make("webhook"), Make("operator"),
      Wait("operator")>>

MutantPlanRole ==
    <<Make("logging-namespace"), Make("operator-group"), Make("subscription"),
      Wait("subscription"),
      Make("storage"), Make("lokistack"), Wait("lokistack"),
      Make("collector"), Make("forwarder"), Wait("forwarder"), Make("collector-role"),
      Make("grafana-token"), Make("slack"),
      Make("namespace"), Make("public-key"), Make("private-key"), Make("writer-token"),
      Make("account"), Make("operator-role"), Make("operator-binding"),
      Make("service"), Wait("service"), Make("operator"), Make("webhook"),
      Wait("operator")>>

\* The wait for the Service is for the certificate that the platform issues for it.
Plan ==
    <<Make("logging-namespace"), Make("operator-group"), Make("subscription"),
      Wait("subscription"),
      Make("storage"), Make("lokistack"), Wait("lokistack"),
      Make("collector"), Make("collector-role"), Make("forwarder"), Wait("forwarder"),
      Make("grafana-token"), Make("slack"),
      Make("namespace"), Make("public-key"), Make("private-key"), Make("writer-token"),
      Make("account"), Make("operator-role"), Make("operator-binding"),
      Make("service"), Wait("service"), Make("operator"), Make("webhook"),
      Wait("operator")>>

Waited == {"subscription", "lokistack", "forwarder", "service", "operator"}

ASSUME DeployAssumption ==
    /\ Deployment \cap {None, Failed, Foreign, Kvoctl} = {}
    /\ MaxFaults \in Nat

DeployInit ==
    /\ spec = [o \in Object |-> None]
    /\ status = [o \in Object |-> None]
    /\ expired = {}
    /\ step = [d \in Deployment |-> 0]
    /\ seen = [d \in Deployment |-> None]
    /\ outdated = {}
    /\ done = {}
    /\ clean = {}
    /\ alone = TRUE
    /\ faults = MaxFaults

Running == {d \in Deployment : step[d] > 0}
At(d, s) == step[d] > 0 /\ Plan[step[d]] = s

(***************************************************************************)
(* The stages.                                                             *)
(***************************************************************************)

\* Going on to the next stage, which after the last one is success, and ending with
\* an error.
MutantGoOn(d) ==
    /\ step' = [step EXCEPT ![d] = @ + 1]
    /\ seen' = [seen EXCEPT ![d] = None]
    /\ UNCHANGED done

GoOn(d) ==
    /\ IF step[d] = Len(Plan)
       THEN step' = [step EXCEPT ![d] = 0] /\ done' = done \cup {d}
       ELSE step' = [step EXCEPT ![d] = @ + 1] /\ UNCHANGED done
    /\ seen' = [seen EXCEPT ![d] = None]
Abort(d) ==
    /\ step' = [step EXCEPT ![d] = 0]
    /\ seen' = [seen EXCEPT ![d] = None]
    /\ UNCHANGED done
FailStage(d, o) == IF o \in Optional THEN GoOn(d) ELSE Abort(d)

\* Those who have read o and not yet written it, when somebody else writes it.
Readers(o) == {d \in Deployment : At(d, Make(o)) /\ seen[d] # None}

Fault == faults > 0 /\ faults' = faults - 1

\* Configuration, preflight and discovery only read.
Begin(d) ==
    /\ step[d] = 0 /\ d \notin done
    /\ Running = {}
    /\ step' = [step EXCEPT ![d] = 1]
    /\ clean' = {d}
    /\ UNCHANGED <<spec, status, expired, seen, outdated, done, alone, faults>>

\* A deployment that begins while another one is running counts as a fault.
Overlap(d) ==
    /\ Fault
    /\ step[d] = 0 /\ d \notin done
    /\ Running # {}
    /\ step' = [step EXCEPT ![d] = 1]
    /\ clean' = {}
    /\ alone' = FALSE
    /\ UNCHANGED <<spec, status, expired, seen, outdated, done>>

\* What d writes as o; the halves of a key pair are named after who generated it.
Wanted(d, o) == IF o \in Configured \cup KeyHalf THEN d ELSE Kvoctl

MutantFine(d, o) ==
    \/ o \in Kept \cup Token
    \/ o \in Compared /\ spec[o] = Wanted(d, o)

\* What exists and is not written again.  A binding that refers to another role is
\* refused; alerting is left out when no webhook is given or the platform lacks it.
Fine(d, o) ==
    \/ o \in Kept
    \/ o \in Compared /\ spec[o] = Wanted(d, o)
    \/ o = "writer-token" /\ o \notin expired

Refused(o) == o \in Binding /\ spec[o] = Foreign

Read(d) ==
    /\ \E o \in Object \ KeyHalf :
         /\ At(d, Make(o)) /\ seen[d] = None
         /\ \/ /\ spec[o] = None
               /\ seen' = [seen EXCEPT ![d] = "absent"]
               /\ UNCHANGED <<step, done>>
            \/ /\ spec[o] # None /\ ~Refused(o) /\ ~Fine(d, o)
               /\ seen' = [seen EXCEPT ![d] = "present"]
               /\ UNCHANGED <<step, done>>
            \/ spec[o] # None /\ Fine(d, o) /\ GoOn(d)
            \/ Refused(o) /\ Abort(d)
            \/ o \in Optional /\ GoOn(d)
    /\ UNCHANGED <<spec, status, expired, outdated, clean, alone, faults>>

MutantReadKeys(d) ==
    /\ At(d, Make("public-key")) /\ seen[d] = None
    /\ \/ /\ \E h \in KeyHalf : spec[h] = None
          /\ seen' = [seen EXCEPT ![d] = "absent"]
          /\ UNCHANGED <<step, done>>
       \/ /\ \A h \in KeyHalf : spec[h] # None
          /\ step' = [step EXCEPT ![d] = @ + 2]
          /\ UNCHANGED <<seen, done>>
    /\ UNCHANGED <<spec, status, expired, outdated, clean, alone, faults>>

\* ensureSSHSecrets looks at both halves before it makes either.
ReadKeys(d) ==
    /\ At(d, Make("public-key")) /\ seen[d] = None
    /\ \/ /\ \A h \in KeyHalf : spec[h] = None
          /\ seen' = [seen EXCEPT ![d] = "absent"]
          /\ UNCHANGED <<step, done>>
       \/ /\ \A h \in KeyHalf : spec[h] # None
          /\ step' = [step EXCEPT ![d] = @ + 2]
          /\ UNCHANGED <<seen, done>>
       \/ /\ \E h, k \in KeyHalf : spec[h] = None /\ spec[k] # None
          /\ Abort(d)
    /\ UNCHANGED <<spec, status, expired, outdated, clean, alone, faults>>

\* The webhook is written without the CA bundle that has been injected into it.
\* Writing what is there already does not make a new version of it.
Store(d, o) ==
    /\ spec' = [spec EXCEPT ![o] = Wanted(d, o)]
    /\ status' = IF o = "webhook" THEN [status EXCEPT ![o] = None] ELSE status
    /\ expired' = expired \ {o}
    /\ outdated' = (outdated \cup (IF <<spec', status', expired'>> = <<spec, status, expired>>
                                   THEN {} ELSE Readers(o))) \ {d}

\* The private key is made without another look.
WriteDone(d, o) ==
    IF o = "public-key"
    THEN step' = [step EXCEPT ![d] = @ + 1] /\ UNCHANGED <<seen, done>>
    ELSE GoOn(d)

Write(d) ==
    /\ \E o \in Object :
         /\ At(d, Make(o))
         /\ \/ /\ seen[d] = "absent" /\ spec[o] = None
               /\ Store(d, o) /\ WriteDone(d, o)
            \/ /\ seen[d] = "absent" /\ spec[o] # None
               /\ IF o \in Strict THEN FailStage(d, o) ELSE WriteDone(d, o)
               /\ outdated' = outdated \ {d}
               /\ UNCHANGED <<spec, status, expired>>
            \/ /\ seen[d] = "present" /\ d \notin outdated
               /\ Store(d, o) /\ GoOn(d)
            \/ /\ seen[d] = "present" /\ d \in outdated
               /\ FailStage(d, o)
               /\ outdated' = outdated \ {d}
               /\ UNCHANGED <<spec, status, expired>>
    /\ UNCHANGED <<clean, alone, faults>>

\* Waiting ends with what the controller reports, for whichever configuration, and
\* with an error if it reports a failure or nothing in time.
WaitFor(d) ==
    /\ \E o \in Waited :
         /\ At(d, Wait(o))
         /\ IF status[o] \in {None, Failed} THEN Abort(d) ELSE GoOn(d)
    /\ UNCHANGED <<spec, status, expired, outdated, clean, alone, faults>>

Proceed(d) == Read(d) \/ ReadKeys(d) \/ Write(d) \/ WaitFor(d)

(***************************************************************************)
(* The cluster and its users.                                              *)
(***************************************************************************)

IsReady(o) == status[o] \notin {None, Failed}

\* What a controller needs before it reports an object ready.
Needs(o) ==
    CASE o = "subscription" -> spec["operator-group"] # None
      [] o = "lokistack" -> IsReady("subscription") /\ spec["storage"] # None
      [] o = "forwarder" -> /\ IsReady("subscription") /\ IsReady("lokistack")
                            /\ spec["collector"] # None
                            /\ spec["collector-role"] = Kvoctl
      [] o = "operator"  -> /\ IsReady("service")
                            /\ spec["account"] # None /\ spec["operator-role"] # None
                            /\ spec["operator-binding"] = Kvoctl
      [] OTHER           -> TRUE

\* A status is part of the object, so that reporting it outdates what was read.
Report(o) ==
    /\ spec[o] # None /\ status[o] # spec[o] /\ Needs(o)
    /\ status' = [status EXCEPT ![o] = spec[o]]
    /\ outdated' = outdated \cup Readers(o)
    /\ UNCHANGED <<spec, expired, step, seen, done, clean, alone, faults>>

ReportFailure(o) ==
    /\ Fault
    /\ spec[o] # None /\ status[o] # Failed
    /\ status' = [status EXCEPT ![o] = Failed]
    /\ outdated' = outdated \cup Readers(o)
    /\ clean' = {}
    /\ UNCHANGED <<spec, expired, step, seen, done, alone>>

\* kvoctl is stopped, or a request of it fails.
Stop(d) ==
    /\ Fault
    /\ step[d] > 0
    /\ Abort(d)
    /\ outdated' = outdated \ {d}
    /\ UNCHANGED <<spec, status, expired, clean, alone>>

\* A year has passed.
Expire(t) ==
    /\ Fault
    /\ spec[t] # None /\ t \notin expired
    /\ expired' = expired \cup {t}
    /\ clean' = {}
    /\ UNCHANGED <<spec, status, step, seen, outdated, done, alone>>

\* Somebody deletes one or both of the key Secrets, makes a binding for another role,
\* changes the Subscription or takes the label off the namespace.
Meddle ==
    /\ Fault
    /\ \/ /\ \E H \in SUBSET KeyHalf \ {{}} :
               spec' = [o \in Object |-> IF o \in H THEN None ELSE spec[o]]
          /\ UNCHANGED outdated
       \/ \E o \in Binding \cup Compared :
            /\ spec' = [spec EXCEPT ![o] = Foreign]
            /\ outdated' = outdated \cup Readers(o)
    /\ clean' = {}
    /\ UNCHANGED <<status, expired, step, seen, done, alone>>

\* Somebody deploys once more.
Again(d) ==
    /\ Fault
    /\ d \in done
    /\ done' = done \ {d}
    /\ UNCHANGED <<spec, status, expired, step, seen, outdated, clean, alone>>

DeployNext ==
    \/ \E d \in Deployment : Begin(d) \/ Overlap(d) \/ Proceed(d) \/ Stop(d) \/ Again(d)
    \/ \E o \in Waited \cup {"webhook"} : Report(o)
    \/ \E o \in Waited \ {"service"} : ReportFailure(o)
    \/ \E t \in Token : Expire(t)
    \/ Meddle

\* A deployment that failed is tried again, a running one goes on, and controllers
\* do their work.
DeployFairness ==
    /\ \A d \in Deployment : WF_deployVars(Begin(d)) /\ WF_deployVars(Proceed(d))
    /\ \A o \in Waited \cup {"webhook"} : WF_deployVars(Report(o))

DeploySpec == DeployInit /\ [][DeployNext]_deployVars /\ DeployFairness

DeployTypeOK ==
    /\ spec \in [Object -> Deployment \cup {None, Foreign, Kvoctl}]
    /\ status \in [Object -> Deployment \cup {None, Failed, Foreign, Kvoctl}]
    /\ expired \subseteq Token
    /\ step \in [Deployment -> 0 .. Len(Plan)]
    /\ seen \in [Deployment -> {None, "absent", "present"}]
    /\ outdated \subseteq Deployment
    /\ done \subseteq Deployment
    /\ clean \subseteq Deployment
    /\ alone \in BOOLEAN
    /\ faults \in 0 .. MaxFaults

(***************************************************************************)
(* Properties.                                                             *)
(***************************************************************************)

\* As long as deployments do not overlap, whatever is stopped, deleted and tried
\* again, a public and a private key that are both there belong together.
KeysMatch ==
    alone /\ (\A h \in KeyHalf : spec[h] # None)
        => spec["public-key"] = spec["private-key"]

\* Wherever a deployment stops, the webhook, without which no VM of the cluster can
\* be created, is never there without the operator, all that the operator runs with,
\* and the certificate that it needs to answer.
WebhookHasBackend ==
    spec["webhook"] # None =>
        (\A o \in Manifest : spec[o] # None) /\ IsReady("service")

\* A deployment that ends in success has put its own configuration everywhere and
\* left working credentials, whatever was there when it began.
DeployedWhenDone ==
    \A d \in done \cap clean :
        /\ \A o \in Object \ (KeyHalf \cup Optional) : spec[o] = Wanted(d, o)
        /\ \A h \in KeyHalf : spec[h] # None
        /\ "writer-token" \notin expired

\* What no later deployment gets past.
Stuck ==
    \/ \E h, k \in KeyHalf : spec[h] = None /\ spec[k] # None
    \/ \E o \in Binding : spec[o] = Foreign

\* Deployments that are tried again succeed in the end, also against each other,
\* unless one half of the key pair is missing or a binding is for another role.
DeployCompletes == <>[](Stuck \/ done = Deployment)

\* docs/kvoctl.md, line 235: an expired token is replaced with a new token.
TokenRenewed == \A d \in done \cap clean : expired = {}
=============================================================================
