------------------------- MODULE NamespaceResources -------------------------
(***************************************************************************)
(* The resources that the reconciles of the VMs of one namespace make and   *)
(* keep: labels, alert rules, the mirror of the Slack webhook, the public   *)
(* SSH key, role bindings and the ServiceMonitor of the namespace, and the  *)
(* Service and Endpoints of each VM.  Up to five workers do this at a time, *)
(* in one fixed order, each from informer copies; nothing watches the       *)
(* resources themselves.                                                   *)
(***************************************************************************)
EXTENDS Naturals, Sequences

CONSTANTS
    Linux, Windows,   \* the managed VMs of the namespace
    Address,          \* IP addresses of VMIs
    Version,          \* versions of the SSH key and of the Slack webhook
    Field,            \* data keys of the key Secret
    MaxDisturbances   \* bound: changes by users and kvoctl, faults, crashes

VARIABLES
    content,      \* the resources on the API server
    view,         \* the informers' copies of them
    keys,         \* the key Secret of the namespace, by data key
    keysView,     \* the informer's copy of it
    systemKeys,   \* the one in kubevirt-observability-system, which kvoctl fills,
    slack,        \* the central Slack webhook, None if not configured,
    address,      \* and the address of each VM's VMI or None: as the informers know them
    reconcile,    \* where each VM's reconcile is, and the address it has read
    waiting,      \* VMs with an outstanding remediation: they get no scrape target
    disturbances

resourceVars == <<content, view, keys, keysView, systemKeys, slack, address,
                  reconcile, waiting, disturbances>>

VM == Linux \cup Windows

None    == "none"
Missing == "missing"

\* A resource is a kind and a VM, None for those of the whole namespace.  The two
\* labels stand for one resource, and so do the two alert rules and the two role
\* bindings: the code makes the one right after the other and treats them alike.
Labels             == <<"labels", None>>
Rules              == <<"rules", None>>
SlackSecret        == <<"slack-secret", None>>
AlertmanagerConfig == <<"alertmanager-config", None>>
Bindings           == <<"bindings", None>>
ServiceMonitor     == <<"service-monitor", None>>
Service(v)         == <<"service", v>>
Endpoints(v)       == <<"endpoints", v>>

Shared   == {Labels, Rules, SlackSecret, AlertmanagerConfig, Bindings, ServiceMonitor}
OfVM     == {"service", "endpoints"} \X VM
Resource == Shared \cup OfVM

\* "ours" is what the operator writes, "foreign" what somebody else has made of
\* it, "locked" a binding to another role, which the API server does not change.
Content == {Missing, "ours", "foreign", "locked"} \cup Version \cup Address

Step ==
    <<"windows-keys", "labels", "rules", "slack-secret", "alertmanager-config",
      "keys", "bindings", "vmi", "service", "endpoints", "service-monitor">>

Idle == [step |-> 0, ip |-> None]

\* A Secret without the data key f maps f to "".
Absent == ""
KeyData == [Field -> Version \cup {Absent}]
KeySecret == INSTANCE KubeObject WITH Key <- Field, Val <- Version \cup {Absent}
NoKeys == [f \in Field |-> Absent]
MissingKeys == [exists |-> FALSE, data |-> NoKeys]
Keys == [exists : BOOLEAN, data : KeyData]

ASSUME ResourceAssumption ==
    /\ Linux \cap Windows = {}
    /\ "id_rsa.pub" \in Field
    /\ Absent \notin Version
    /\ MaxDisturbances \in Nat

\* kvoctl stores the key as id_rsa.pub; the operator also takes "key".
SystemKeys == {d \in KeyData : \E f \in Field : d[f] # Absent}

ResourcesInit ==
    /\ content = [r \in Resource |-> IF r = Labels THEN "foreign" ELSE Missing]
    /\ view = content
    /\ keys = MissingKeys
    /\ keysView = keys
    /\ systemKeys \in {[NoKeys EXCEPT ![f] = k] : f \in Field, k \in Version}
    /\ slack \in Version \cup {None}
    /\ address \in [VM -> Address \cup {None}]
    /\ \A v, w \in VM : address[v] = address[w] => v = w \/ address[v] = None
    /\ reconcile = [v \in VM |-> Idle]
    /\ waiting \in SUBSET VM
    /\ disturbances = MaxDisturbances

(***************************************************************************)
(* The reconcile of a VM.                                                  *)
(***************************************************************************)

At(v, s) == reconcile[v].step > 0 /\ Step[reconcile[v].step] = s

\* Going on to the next step, ending the reconcile, or leaving out a step.
Return(v) == reconcile' = [reconcile EXCEPT ![v] = Idle]
MutantGoOn(v) == reconcile' = [reconcile EXCEPT ![v].step = @ + 1]
GoOn(v)   == IF reconcile[v].step = Len(Step)
             THEN Return(v)
             ELSE reconcile' = [reconcile EXCEPT ![v].step = @ + 1]
Skip(v)   == reconcile' = [reconcile EXCEPT ![v].step = @ + 2]

\* Windows VMs have one step more; VMs that are waiting or not running are asked
\* for again, ready ones trigger themselves.
Start(v) ==
    /\ reconcile[v] = Idle
    /\ reconcile' = [reconcile EXCEPT ![v].step = IF v \in Windows THEN 1 ELSE 2]
    /\ UNCHANGED <<content, view, keys, keysView, systemKeys, slack, address,
                   waiting, disturbances>>

\* The rules are read from the API server, everything else from the informers.
Seen(r) == IF r \in {Rules, AlertmanagerConfig} THEN content[r] ELSE view[r]

\* What may be done about a resource that should be `want`: nothing, if the copy
\* says so; a patch, which from an old copy may leave a locked binding as it is; a
\* creation, which may find that somebody else was faster.
Incomplete(r)     == Seen(r) = "foreign" /\ content[r] = "locked"
Settled(r, want)  == Seen(r) = want
Patched(r, want)  == /\ Seen(r) \notin {want, Missing}
                     /\ content[r] \notin {Missing, "locked"}
Refused(r, want)  == /\ Seen(r) \notin {want, Missing}
                     /\ content[r] \in {Missing, "locked"}
                     /\ ~Incomplete(r)
Created(r)        == Seen(r) = Missing /\ content[r] = Missing
Overtaken(r)      == Seen(r) = Missing /\ content[r] # Missing

\* Create or patch; AlreadyExists counts as success.
Ensure(v, r, want) ==
    \/ /\ Settled(r, want) \/ Overtaken(r) \/ Incomplete(r)
       /\ GoOn(v)
       /\ UNCHANGED content
    \/ /\ Patched(r, want) \/ Created(r)
       /\ content' = [content EXCEPT ![r] = want]
       /\ GoOn(v)
    \/ /\ Refused(r, want)
       /\ Return(v)
       /\ UNCHANGED content

EnsureShared(v) ==
    /\ \E r \in Shared \ {SlackSecret, AlertmanagerConfig} :
         At(v, r[1]) /\ Ensure(v, r, "ours")
    /\ UNCHANGED <<view, keys, keysView, systemKeys, slack, address, waiting,
                   disturbances>>

MutantEnsureSlack(v) ==
    /\ At(v, "slack-secret")
    /\ GoOn(v)
    /\ UNCHANGED <<content, view, keys, keysView, systemKeys, slack, address,
                   waiting, disturbances>>

\* ensureSlackSecret; without a central webhook the Alertmanager configuration is
\* left out, and what there is of both stays.
EnsureSlack(v) ==
    /\ At(v, "slack-secret")
    /\ IF slack = None
       THEN Skip(v) /\ UNCHANGED content
       ELSE Ensure(v, SlackSecret, slack)
    /\ UNCHANGED <<view, keys, keysView, systemKeys, slack, address, waiting,
                   disturbances>>

EnsureAlertmanagerConfig(v) ==
    /\ At(v, "alertmanager-config")
    /\ Ensure(v, AlertmanagerConfig, "ours")
    /\ UNCHANGED <<view, keys, keysView, systemKeys, slack, address, waiting,
                   disturbances>>

\* Only the data keys in which the wanted Secret differs from the copy are sent.
PatchKeys(data) ==
    keys' = [keys EXCEPT !.data = KeySecret!MergePatch(keysView.data, data, @)]

MutantEnsureWindowsKeys(v) ==
    /\ At(v, "windows-keys")
    /\ keys' = [exists |-> TRUE, data |-> NoKeys]
    /\ GoOn(v)
    /\ UNCHANGED <<content, view, keysView, systemKeys, slack, address, waiting,
                   disturbances>>

\* ensureWindowsSSHSecret copies the Secret of the system; AlreadyExists ends the
\* reconcile.
EnsureWindowsKeys(v) ==
    /\ At(v, "windows-keys")
    /\ \/ /\ ~keysView.exists /\ ~keys.exists
          /\ keys' = [exists |-> TRUE, data |-> systemKeys]
          /\ GoOn(v)
       \/ /\ keysView.exists /\ keys.exists
          /\ PatchKeys(systemKeys)
          /\ GoOn(v)
       \/ /\ keysView.exists # keys.exists
          /\ Return(v)
          /\ UNCHANGED keys
    /\ UNCHANGED <<content, view, keysView, systemKeys, slack, address, waiting,
                   disturbances>>

\* getLinuxPublicKeyFromSecret
PublicKey(d) == IF "key" \in Field /\ d["key"] # Absent THEN d["key"] ELSE d["id_rsa.pub"]

\* ensureMonitoringSSHSecretInNamespace writes id_rsa.pub and nothing else.
EnsureKeys(v) ==
    LET data == [NoKeys EXCEPT !["id_rsa.pub"] = PublicKey(systemKeys)]
    IN  /\ At(v, "keys")
        /\ \/ /\ ~keysView.exists /\ ~keys.exists
              /\ keys' = [exists |-> TRUE, data |-> data]
              /\ GoOn(v)
           \/ /\ ~keysView.exists /\ keys.exists
              /\ GoOn(v)
              /\ UNCHANGED keys
           \/ /\ keysView.exists /\ keys.exists
              /\ PatchKeys(data)
              /\ GoOn(v)
           \/ /\ keysView.exists /\ ~keys.exists
              /\ Return(v)
              /\ UNCHANGED keys
        /\ UNCHANGED <<content, view, keysView, systemKeys, slack, address, waiting,
                       disturbances>>

\* The rest of Reconcile gets to syncMetricsScrapeResources only for a VM that
\* runs and whose remediation and merges are done.
GetVMI(v) ==
    /\ At(v, "vmi")
    /\ IF v \in waiting \/ address[v] = None
       THEN Return(v)
       ELSE reconcile' = [reconcile EXCEPT ![v] = [step |-> @.step + 1, ip |-> address[v]]]
    /\ UNCHANGED <<content, view, keys, keysView, systemKeys, slack, address,
                   waiting, disturbances>>

MutantEnsureService(v) ==
    /\ At(v, "service")
    /\ \/ /\ Overtaken(Service(v)) \/ Settled(Service(v), "ours")
          /\ Skip(v)
          /\ UNCHANGED content
       \/ /\ ~Overtaken(Service(v)) /\ ~Settled(Service(v), "ours")
          /\ Ensure(v, Service(v), "ours")
    /\ UNCHANGED <<view, keys, keysView, systemKeys, slack, address, waiting,
                   disturbances>>

\* When the Service turns out to exist, the Endpoints are left out.
EnsureService(v) ==
    /\ At(v, "service")
    /\ \/ /\ Overtaken(Service(v))
          /\ Skip(v)
          /\ UNCHANGED content
       \/ /\ ~Overtaken(Service(v))
          /\ Ensure(v, Service(v), "ours")
    /\ UNCHANGED <<view, keys, keysView, systemKeys, slack, address, waiting,
                   disturbances>>

EnsureEndpoints(v) ==
    /\ At(v, "endpoints")
    /\ Ensure(v, Endpoints(v), reconcile[v].ip)
    /\ UNCHANGED <<view, keys, keysView, systemKeys, slack, address, waiting,
                   disturbances>>

ReconcileVM(v) ==
    \/ Start(v) \/ EnsureWindowsKeys(v) \/ EnsureShared(v) \/ EnsureSlack(v)
    \/ EnsureAlertmanagerConfig(v) \/ EnsureKeys(v) \/ GetVMI(v)
    \/ EnsureService(v) \/ EnsureEndpoints(v)

(***************************************************************************)
(* The environment.                                                        *)
(***************************************************************************)

\* The informers catch up with some of the resources.
Informer == {Shared, OfVM}
Sync(resources) ==
    /\ view' = [r \in Resource |-> IF r \in resources THEN content[r] ELSE view[r]]
    /\ UNCHANGED <<content, keys, keysView, systemKeys, slack, address, reconcile, waiting,
                   disturbances>>

SyncKeys ==
    /\ keysView' = keys
    /\ UNCHANGED <<content, view, keys, systemKeys, slack, address, reconcile, waiting,
                   disturbances>>

Disturbed == disturbances > 0 /\ disturbances' = disturbances - 1

\* A user changes or deletes a resource.
Drift ==
    /\ Disturbed
    /\ \/ /\ \E r \in Resource :
               \E c \in {"foreign"} \cup (IF r = Labels THEN {} ELSE {Missing})
                           \cup (IF r = Bindings THEN {"locked"} ELSE {}) :
                 content' = [content EXCEPT ![r] = c]
          /\ UNCHANGED keys
       \/ keys' = MissingKeys /\ UNCHANGED content
    /\ UNCHANGED <<view, keysView, systemKeys, slack, address, reconcile, waiting>>

\* The central webhook or key is replaced; the webhook may also be removed.
Rotate ==
    /\ Disturbed
    /\ \/ slack' \in Version \cup {None} /\ UNCHANGED systemKeys
       \/ /\ \E f \in Field, k \in Version :
               systemKeys[f] # Absent /\ systemKeys' = [systemKeys EXCEPT ![f] = k]
          /\ UNCHANGED slack
    /\ UNCHANGED <<content, view, keys, keysView, address, reconcile, waiting>>

\* A VMI starts, stops or comes back with another address, also one that another
\* VM has given up.
Move(v) ==
    /\ Disturbed
    /\ \E ip \in Address \cup {None} :
         /\ \A w \in VM \ {v} : ip = None \/ address[w] # ip
         /\ address' = [address EXCEPT ![v] = ip]
    /\ UNCHANGED <<content, view, keys, keysView, systemKeys, slack, reconcile, waiting>>

\* A remediation is completed or asked for.
Remediate(v) ==
    /\ Disturbed
    /\ waiting' = IF v \in waiting THEN waiting \ {v} ELSE waiting \cup {v}
    /\ UNCHANGED <<content, view, keys, keysView, systemKeys, slack, address, reconcile>>

\* A request fails, or the operator stops.
Interrupt(v) ==
    /\ Disturbed
    /\ reconcile[v] # Idle
    /\ Return(v)
    /\ UNCHANGED <<content, view, keys, keysView, systemKeys, slack, address, waiting>>

ResourcesNext ==
    \/ \E i \in Informer : Sync(i)
    \/ SyncKeys \/ Drift \/ Rotate
    \/ \E v \in VM : ReconcileVM(v) \/ Move(v) \/ Remediate(v) \/ Interrupt(v)

\* Workers go on, every VM is reconciled again and again, informers catch up with
\* each resource.
ResourcesFairness ==
    /\ \A v \in VM : WF_resourceVars(ReconcileVM(v))
    /\ \A i \in Informer : WF_resourceVars(Sync(i))
    /\ WF_resourceVars(SyncKeys)

ResourcesSpec == ResourcesInit /\ [][ResourcesNext]_resourceVars /\ ResourcesFairness

ResourcesTypeOK ==
    /\ content \in [Resource -> Content]
    /\ view \in [Resource -> Content]
    /\ keys \in Keys
    /\ keysView \in Keys
    /\ systemKeys \in SystemKeys
    /\ slack \in Version \cup {None}
    /\ address \in [VM -> Address \cup {None}]
    /\ reconcile \in [VM -> [step : 0 .. Len(Step), ip : Address \cup {None}]]
    /\ waiting \subseteq VM
    /\ disturbances \in 0 .. MaxDisturbances

(***************************************************************************)
(* Properties.                                                             *)
(***************************************************************************)

\* kvoctl's form of the key Secret.
Canonical == \A f \in Field : systemKeys[f] # Absent => f = "id_rsa.pub"

\* The key Secret that VMs mount is never left without a key by two workers that
\* patch it from stale copies, as long as its source has kvoctl's form.
SecretUsable == Canonical /\ keys.exists => keys.data["id_rsa.pub"] # Absent

\* A reconcile ends at a binding that it cannot patch.
Blocked == content[Bindings] = "locked"

Running(v) == address[v] # None /\ v \notin waiting

\* Whatever worker was overtaken, stopped or worked from old copies: once nothing
\* else changes, the resources of the namespace are what the code wants, the
\* mirror of the webhook and the key follow their sources, and each running VM
\* has a Service.
NamespaceSettles ==
    <>[](Blocked
         \/ /\ \A r \in {Labels, Rules, Bindings} : content[r] = "ours"
            /\ (\E v \in VM : Running(v)) => content[ServiceMonitor] = "ours"
            /\ slack # None => /\ content[SlackSecret] = slack
                               /\ content[AlertmanagerConfig] = "ours"
            /\ Canonical => keys.exists /\ PublicKey(keys.data) = PublicKey(systemKeys)
            /\ \A v \in VM : Running(v) => content[Service(v)] = "ours")

\* ... and is scraped at its own address, although a reconcile that is overtaken
\* in creating the Service leaves out the Endpoints, and although another VM may
\* have had the address before.
ScrapedAtOwnAddress ==
    <>[](\A v \in VM : Running(v) /\ ~Blocked => content[Endpoints(v)] = address[v])
=============================================================================
