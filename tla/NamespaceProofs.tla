-------------------------- MODULE NamespaceProofs --------------------------
(***************************************************************************)
(* Proofs about NamespaceResources, for any VMs, addresses, versions and    *)
(* number of disturbances.                                                 *)
(***************************************************************************)
EXTENDS NamespaceResources, TLAPS

(***************************************************************************)
(* Type correctness.                                                       *)
(***************************************************************************)

\* A reconcile has eleven steps.
LEMMA StepLength == Len(Step) = 11
BY DEF Step

ReconcileType == [VM -> [step : 0 .. 11, ip : Address \cup {None}]]

\* The initial state has the types.
LEMMA ResourcesTypeInit == ResourcesInit => ResourcesTypeOK
<1> SUFFICES ASSUME ResourcesInit
             PROVE  ResourcesTypeOK
  OBVIOUS
<1>1. systemKeys \in SystemKeys
  <2>1. PICK f \in Field, k \in Version : systemKeys = [NoKeys EXCEPT ![f] = k]
    BY DEF ResourcesInit
  <2>2. NoKeys \in KeyData
    BY DEF NoKeys, KeyData
  <2>3. systemKeys \in KeyData /\ systemKeys[f] = k
    BY <2>1, <2>2 DEF KeyData
  <2>4. k # Absent
    BY ResourceAssumption
  <2> QED
    BY <2>3, <2>4 DEF SystemKeys
<1>2. keys \in Keys /\ keysView \in Keys
  BY DEF ResourcesInit, MissingKeys, Keys, NoKeys, KeyData
<1>3. content \in [Resource -> Content] /\ view \in [Resource -> Content]
  BY DEF ResourcesInit, Content
<1>4. reconcile \in [VM -> [step : 0 .. Len(Step), ip : Address \cup {None}]]
  BY StepLength DEF ResourcesInit, Idle
<1> QED
  BY <1>1, <1>2, <1>3, <1>4, ResourceAssumption DEF ResourcesInit, ResourcesTypeOK

\* Ending a reconcile, going on and leaving out a step stay within it; the
\* step after the Service can be left out, and the one after the mirror.
LEMMA MovesType ==
    ASSUME ResourcesTypeOK, NEW v \in VM,
           Return(v) \/ GoOn(v) \/ (Skip(v) /\ reconcile[v].step <= 9)
    PROVE  reconcile' \in ReconcileType
<1>1. reconcile[v].step \in 0 .. 11 /\ reconcile[v].ip \in Address \cup {None}
  BY StepLength DEF ResourcesTypeOK
<1>2. CASE Return(v)
  BY <1>2, StepLength DEF Return, Idle, ResourcesTypeOK, ReconcileType
<1>3. CASE GoOn(v) /\ reconcile[v].step # 11
  <2>1. reconcile' = [reconcile EXCEPT ![v] =
                         [step |-> reconcile[v].step + 1, ip |-> reconcile[v].ip]]
    BY <1>3, StepLength DEF GoOn, ResourcesTypeOK
  <2> QED
    BY <1>1, <1>3, <2>1, StepLength DEF ResourcesTypeOK, ReconcileType
<1>4. CASE Skip(v) /\ reconcile[v].step <= 9
  <2> DEFINE k == reconcile[v].step + 2
  <2>1. reconcile' = [reconcile EXCEPT ![v] = [step |-> k, ip |-> reconcile[v].ip]]
    <3>1. reconcile[v] \in [step : 0 .. 11, ip : Address \cup {None}]
      BY StepLength DEF ResourcesTypeOK
    <3> HIDE DEF k
    <3>2. [reconcile[v] EXCEPT !.step = k] = [step |-> k, ip |-> reconcile[v].ip]
      BY <3>1
    <3> QED
      BY <1>4, <3>2 DEF Skip, k
  <2> QED
    BY <1>1, <1>4, <2>1, StepLength DEF ResourcesTypeOK, ReconcileType
<1> QED
  BY <1>1, <1>2, <1>3, <1>4, StepLength DEF GoOn

\* The steps after which another one can be left out, and the reading of the VMI.
LEMMA Steps ==
    ASSUME ResourcesTypeOK, NEW v \in VM
    PROVE  /\ At(v, "slack-secret") => reconcile[v].step = 4
           /\ At(v, "vmi") => reconcile[v].step = 8
           /\ At(v, "service") => reconcile[v].step = 9
           /\ At(v, "endpoints") => reconcile[v].step = 10
           /\ reconcile[v].step = 8 => \A s : At(v, s) => s = "vmi"
<1>1. reconcile[v].step \in 0 .. 11
  BY StepLength DEF ResourcesTypeOK
<1>2. \A i \in 1 .. 11 : /\ Step[i] = "slack-secret" => i = 4
                         /\ Step[i] = "vmi" => i = 8
                         /\ Step[i] = "service" => i = 9
                         /\ Step[i] = "endpoints" => i = 10
                         /\ i = 8 => Step[i] = "vmi"
  BY DEF Step
<1> QED
  BY <1>1, <1>2 DEF At

\* What the operator writes is content.
LEMMA ContentTypes ==
    /\ "ours" \in Content
    /\ Version \subseteq Content
    /\ Address \subseteq Content
BY DEF Content

\* The resources are resources.
LEMMA ResourceTypes ==
    /\ Shared \subseteq Resource
    /\ \A v \in VM : Service(v) \in Resource /\ Endpoints(v) \in Resource
BY DEF Resource, OfVM, Service, Endpoints

\* Creating or patching a resource keeps the types.
LEMMA EnsureType ==
    ASSUME ResourcesTypeOK, NEW v \in VM, NEW r \in Resource, NEW want \in Content,
           Ensure(v, r, want)
    PROVE  /\ content' \in [Resource -> Content]
           /\ reconcile' \in ReconcileType
<1>1. GoOn(v) \/ Return(v)
  BY DEF Ensure
<1>2. content' = content \/ content' = [content EXCEPT ![r] = want]
  BY DEF Ensure
<1> QED
  BY <1>1, <1>2, MovesType DEF ResourcesTypeOK

\* What is merged into the key Secret is key data.
LEMMA PatchKeysType ==
    ASSUME ResourcesTypeOK, NEW data \in KeyData, PatchKeys(data)
    PROVE  keys' \in Keys
<1> DEFINE merged == KeySecret!MergePatch(keysView.data, data, keys.data)
<1>1. keys \in Keys
  BY DEF ResourcesTypeOK
<1>2. merged \in KeyData
  BY <1>1 DEF KeySecret!MergePatch, KeyData, Keys
<1>3. keys' = [keys EXCEPT !.data = merged]
  BY DEF PatchKeys
<1> HIDE DEF merged
<1> QED
  BY <1>1, <1>2, <1>3 DEF Keys

\* A new Secret is one.
LEMMA NewKeysType ==
    ASSUME NEW data \in KeyData
    PROVE  [exists |-> TRUE, data |-> data] \in Keys
BY DEF Keys

\* The key that is read from the Secret of the system, and the data made of it.
LEMMA PublicKeyType ==
    ASSUME ResourcesTypeOK
    PROVE  [NoKeys EXCEPT !["id_rsa.pub"] = PublicKey(systemKeys)] \in KeyData
<1>1. systemKeys \in KeyData
  BY DEF ResourcesTypeOK, SystemKeys
<1>2. PublicKey(systemKeys) \in Version \cup {Absent}
  BY <1>1, ResourceAssumption DEF PublicKey, KeyData
<1> QED
  BY <1>2 DEF NoKeys, KeyData

\* From the reading of the VMI on, a reconcile has an address: no Endpoints are
\* ever written without one.
AddressKnown == \A v \in VM : reconcile[v].step > 8 => reconcile[v].ip \in Address

\* Moving on within a reconcile keeps that.
LEMMA MovesAddress ==
    ASSUME ResourcesTypeOK, AddressKnown, NEW v \in VM,
           \/ Return(v)
           \/ GoOn(v) /\ reconcile[v].step # 8
           \/ Skip(v) /\ (reconcile[v].step = 4 \/ reconcile[v].step = 9)
    PROVE  AddressKnown'
<1>1. reconcile[v] \in [step : 0 .. 11, ip : Address \cup {None}]
  BY StepLength DEF ResourcesTypeOK
<1>2. \/ reconcile' = [reconcile EXCEPT ![v] = Idle]
      \/ /\ reconcile' = [reconcile EXCEPT ![v].step = @ + 1]
         /\ reconcile[v].step # 8
      \/ /\ reconcile' = [reconcile EXCEPT ![v].step = @ + 2]
         /\ (reconcile[v].step = 4 \/ reconcile[v].step = 9)
  BY DEF Return, GoOn, Skip
<1>3. CASE reconcile' = [reconcile EXCEPT ![v] = Idle]
  BY <1>3 DEF ResourcesTypeOK, AddressKnown, Idle
<1>4. ASSUME NEW k \in Nat, reconcile' = [reconcile EXCEPT ![v].step = k],
             k > 8 => reconcile[v].step > 8
      PROVE  AddressKnown'
  <2>1. [reconcile[v] EXCEPT !.step = k] = [step |-> k, ip |-> reconcile[v].ip]
    BY <1>1
  <2>2. reconcile' = [reconcile EXCEPT ![v] = [step |-> k, ip |-> reconcile[v].ip]]
    BY <1>4, <2>1
  <2> QED
    BY <1>4, <2>2 DEF ResourcesTypeOK, AddressKnown
<1> QED
  BY <1>1, <1>2, <1>3, <1>4

\* The reconcile of a VM keeps the types.
LEMMA ReconcileVMType ==
    ASSUME ResourcesTypeOK, AddressKnown, NEW v \in VM, ReconcileVM(v)
    PROVE  ResourcesTypeOK'
<1> USE StepLength
<1>1. CASE Start(v)
  <2> DEFINE k == IF v \in Windows THEN 1 ELSE 2
  <2>1. k \in 0 .. 11
    OBVIOUS
  <2>2. reconcile[v] \in [step : 0 .. 11, ip : Address \cup {None}]
    BY DEF ResourcesTypeOK
  <2>3. reconcile' = [reconcile EXCEPT ![v].step = k]
    BY <1>1 DEF Start
  <2> HIDE DEF k
  <2>4. [reconcile[v] EXCEPT !.step = k] \in [step : 0 .. 11, ip : Address \cup {None}]
    BY <2>1, <2>2
  <2>5. reconcile' \in ReconcileType
    BY <2>3, <2>4 DEF ResourcesTypeOK, ReconcileType
  <2> QED
    BY <1>1, <2>5 DEF Start, ResourcesTypeOK, ReconcileType
<1>2. CASE EnsureWindowsKeys(v)
  <2>1. keys' \in Keys
    <3>1. systemKeys \in KeyData
      BY DEF ResourcesTypeOK, SystemKeys
    <3>2. CASE PatchKeys(systemKeys)
      BY <3>1, <3>2, PatchKeysType
    <3>3. CASE keys' \in {keys, [exists |-> TRUE, data |-> systemKeys]}
      BY <3>1, <3>3, NewKeysType DEF ResourcesTypeOK
    <3> QED
      BY <1>2, <3>2, <3>3 DEF EnsureWindowsKeys
  <2>2. reconcile' \in ReconcileType
    BY <1>2, MovesType DEF EnsureWindowsKeys
  <2> QED
    BY <1>2, <2>1, <2>2 DEF EnsureWindowsKeys, ResourcesTypeOK, ReconcileType
<1>3. CASE EnsureShared(v)
  <2>1. content' \in [Resource -> Content] /\ reconcile' \in ReconcileType
    BY <1>3, EnsureType, ContentTypes, ResourceTypes DEF EnsureShared
  <2> QED
    BY <1>3, <2>1 DEF EnsureShared, ResourcesTypeOK, ReconcileType
<1>4. CASE EnsureSlack(v)
  <2>1. content' \in [Resource -> Content] /\ reconcile' \in ReconcileType
    <3>1. CASE slack = None
      BY <1>4, <3>1, Steps, MovesType DEF EnsureSlack, ResourcesTypeOK
    <3>2. CASE slack # None
      <4>1. slack \in Content /\ SlackSecret \in Resource
        BY <3>2, ContentTypes, ResourceTypes DEF ResourcesTypeOK, Shared
      <4> QED
        BY <1>4, <3>2, <4>1, EnsureType DEF EnsureSlack
    <3> QED
      BY <3>1, <3>2
  <2> QED
    BY <1>4, <2>1 DEF EnsureSlack, ResourcesTypeOK, ReconcileType
<1>5. CASE EnsureAlertmanagerConfig(v)
  <2>1. AlertmanagerConfig \in Resource
    BY ResourceTypes DEF Shared
  <2>2. content' \in [Resource -> Content] /\ reconcile' \in ReconcileType
    BY <1>5, <2>1, EnsureType, ContentTypes DEF EnsureAlertmanagerConfig
  <2> QED
    BY <1>5, <2>2 DEF EnsureAlertmanagerConfig, ResourcesTypeOK, ReconcileType
<1>6. CASE EnsureKeys(v)
  <2> DEFINE data == [NoKeys EXCEPT !["id_rsa.pub"] = PublicKey(systemKeys)]
  <2>1. data \in KeyData
    BY PublicKeyType
  <2>2. (GoOn(v) \/ Return(v))
        /\ (keys' \in {keys, [exists |-> TRUE, data |-> data]} \/ PatchKeys(data))
    BY <1>6 DEF EnsureKeys
  <2> HIDE DEF data
  <2>3. keys' \in Keys
    <3>1. CASE PatchKeys(data)
      BY <2>1, <3>1, PatchKeysType
    <3>2. CASE keys' \in {keys, [exists |-> TRUE, data |-> data]}
      BY <2>1, <3>2, NewKeysType DEF ResourcesTypeOK
    <3> QED
      BY <2>2, <3>1, <3>2
  <2>4. reconcile' \in ReconcileType
    BY <2>2, MovesType
  <2> QED
    BY <1>6, <2>3, <2>4 DEF EnsureKeys, ResourcesTypeOK, ReconcileType
<1>7. CASE GetVMI(v)
  <2>1. reconcile' \in ReconcileType
    <3>1. CASE Return(v)
      BY <3>1, MovesType
    <3>2. CASE reconcile' = [reconcile EXCEPT ![v] = [step |-> @.step + 1, ip |-> address[v]]]
      <4>1. reconcile[v].step + 1 \in 0 .. 11 /\ address[v] \in Address \cup {None}
        BY <1>7, Steps DEF GetVMI, ResourcesTypeOK
      <4> QED
        BY <3>2, <4>1 DEF ResourcesTypeOK, ReconcileType
    <3> QED
      BY <1>7, <3>1, <3>2 DEF GetVMI
  <2> QED
    BY <1>7, <2>1 DEF GetVMI, ResourcesTypeOK, ReconcileType
<1>8. CASE EnsureService(v)
  <2>1. content' \in [Resource -> Content] /\ reconcile' \in ReconcileType
    <3>1. CASE Skip(v) /\ UNCHANGED content
      BY <1>8, <3>1, Steps, MovesType DEF EnsureService, ResourcesTypeOK
    <3>2. CASE Ensure(v, Service(v), "ours")
      BY <3>2, EnsureType, ContentTypes, ResourceTypes
    <3> QED
      BY <1>8, <3>1, <3>2 DEF EnsureService
  <2> QED
    BY <1>8, <2>1 DEF EnsureService, ResourcesTypeOK, ReconcileType
<1>9. CASE EnsureEndpoints(v)
  <2>1. reconcile[v].step > 8
    BY <1>9, Steps DEF EnsureEndpoints
  <2>2. reconcile[v].ip \in Content
    BY <2>1, ContentTypes DEF AddressKnown
  <2>3. content' \in [Resource -> Content] /\ reconcile' \in ReconcileType
    BY <1>9, <2>2, EnsureType, ResourceTypes DEF EnsureEndpoints
  <2> QED
    BY <1>9, <2>3 DEF EnsureEndpoints, ResourcesTypeOK, ReconcileType
<1> QED
  BY <1>1, <1>2, <1>3, <1>4, <1>5, <1>6, <1>7, <1>8, <1>9 DEF ReconcileVM

\* ... and the address.
LEMMA ReconcileVMAddress ==
    ASSUME ResourcesTypeOK, AddressKnown, NEW v \in VM, ReconcileVM(v)
    PROVE  AddressKnown'
<1>1. CASE Start(v)
  <2>1. \A w \in VM \ {v} : reconcile'[w] = reconcile[w]
    BY <1>1 DEF Start, ResourcesTypeOK
  <2>2. reconcile'[v].step \in {1, 2}
    BY <1>1 DEF Start, ResourcesTypeOK
  <2> QED
    BY <2>1, <2>2 DEF AddressKnown
<1>2. CASE GetVMI(v)
  <2>1. CASE Return(v)
    BY <2>1, MovesAddress
  <2>2. CASE /\ address[v] # None
             /\ reconcile' = [reconcile EXCEPT ![v] = [step |-> @.step + 1, ip |-> address[v]]]
    BY <2>2 DEF ResourcesTypeOK, AddressKnown
  <2> QED
    BY <1>2, <2>1, <2>2 DEF GetVMI
<1>3. CASE EnsureWindowsKeys(v) \/ EnsureShared(v) \/ EnsureAlertmanagerConfig(v)
           \/ EnsureKeys(v) \/ EnsureEndpoints(v)
  <2>1. reconcile[v].step # 8
    BY <1>3, Steps
    DEF EnsureWindowsKeys, EnsureShared, EnsureAlertmanagerConfig, EnsureKeys,
        EnsureEndpoints, Shared, Labels, Rules, Bindings, ServiceMonitor, SlackSecret,
        AlertmanagerConfig
  <2>2. Return(v) \/ GoOn(v)
    BY <1>3 DEF EnsureWindowsKeys, EnsureShared, EnsureAlertmanagerConfig, EnsureKeys,
                EnsureEndpoints, Ensure
  <2> QED
    BY <2>1, <2>2, MovesAddress
<1>4. CASE EnsureSlack(v) \/ EnsureService(v)
  <2>1. reconcile[v].step = 4 \/ reconcile[v].step = 9
    BY <1>4, Steps DEF EnsureSlack, EnsureService
  <2>2. Return(v) \/ GoOn(v) \/ Skip(v)
    BY <1>4 DEF EnsureSlack, EnsureService, Ensure
  <2> QED
    BY <2>1, <2>2, MovesAddress
<1> QED
  BY <1>1, <1>2, <1>3, <1>4 DEF ReconcileVM

\* A disturbance uses up one of them.
LEMMA DisturbedType ==
    ASSUME disturbances \in 0 .. MaxDisturbances, Disturbed
    PROVE  disturbances' \in 0 .. MaxDisturbances
BY ResourceAssumption DEF Disturbed

\* Changes that others make to resources, sources and VMIs keep the types.
LEMMA DisturbanceType ==
    ASSUME ResourcesTypeOK,
           Drift \/ Rotate \/ \E v \in VM : Move(v) \/ Remediate(v) \/ Interrupt(v)
    PROVE  ResourcesTypeOK'
<1>1. disturbances' \in 0 .. MaxDisturbances
  BY DisturbedType DEF ResourcesTypeOK, Drift, Rotate, Move, Remediate, Interrupt
<1>2. CASE Drift
  <2>1. content' \in [Resource -> Content]
    BY <1>2 DEF Drift, ResourcesTypeOK, Content
  <2>2. keys' \in Keys
    <3>1. MissingKeys \in Keys
      BY DEF MissingKeys, NoKeys, Keys, KeyData
    <3>2. keys' = keys \/ keys' = MissingKeys
      BY <1>2 DEF Drift
    <3> QED
      BY <3>1, <3>2 DEF ResourcesTypeOK
  <2> QED
    BY <1>1, <1>2, <2>1, <2>2 DEF Drift, ResourcesTypeOK
<1>3. CASE Rotate
  <2>1. systemKeys' \in SystemKeys
    <3>1. CASE \E f \in Field, k \in Version :
                 systemKeys[f] # Absent /\ systemKeys' = [systemKeys EXCEPT ![f] = k]
      <4>1. PICK f \in Field, k \in Version :
              systemKeys' = [systemKeys EXCEPT ![f] = k]
        BY <3>1
      <4>2. systemKeys' \in KeyData /\ systemKeys'[f] = k /\ k # Absent
        BY <4>1, ResourceAssumption DEF ResourcesTypeOK, SystemKeys, KeyData
      <4> QED
        BY <4>2 DEF SystemKeys
    <3>2. CASE UNCHANGED systemKeys
      BY <3>2 DEF ResourcesTypeOK
    <3> QED
      BY <1>3, <3>1, <3>2 DEF Rotate
  <2>2. slack' \in Version \cup {None}
    BY <1>3 DEF Rotate, ResourcesTypeOK
  <2> QED
    BY <1>1, <1>3, <2>1, <2>2 DEF Rotate, ResourcesTypeOK
<1>4. ASSUME NEW v \in VM, Move(v)
      PROVE  ResourcesTypeOK'
  BY <1>1, <1>4 DEF Move, ResourcesTypeOK
<1>5. ASSUME NEW v \in VM, Remediate(v)
      PROVE  ResourcesTypeOK'
  BY <1>1, <1>5 DEF Remediate, ResourcesTypeOK
<1>6. ASSUME NEW v \in VM, Interrupt(v)
      PROVE  ResourcesTypeOK'
  <2>1. reconcile' \in ReconcileType
    BY <1>6, MovesType DEF Interrupt
  <2> QED
    BY <1>1, <1>6, <2>1, StepLength DEF Interrupt, ResourcesTypeOK, ReconcileType
<1> QED
  BY <1>2, <1>3, <1>4, <1>5, <1>6

\* Every step keeps the types and the address.
LEMMA ResourcesStep ==
    ResourcesTypeOK /\ AddressKnown /\ [ResourcesNext]_resourceVars
        => ResourcesTypeOK' /\ AddressKnown'
<1> SUFFICES ASSUME ResourcesTypeOK, AddressKnown, [ResourcesNext]_resourceVars
             PROVE  ResourcesTypeOK' /\ AddressKnown'
  OBVIOUS
<1>1. ASSUME NEW v \in VM, ReconcileVM(v)
      PROVE  ResourcesTypeOK' /\ AddressKnown'
  BY <1>1, ReconcileVMType, ReconcileVMAddress
<1>2. CASE Drift \/ Rotate \/ \E v \in VM : Move(v) \/ Remediate(v) \/ Interrupt(v)
  <2>1. reconcile' = reconcile \/ \E v \in VM : Return(v)
    BY <1>2 DEF Drift, Rotate, Move, Remediate, Interrupt
  <2>2. AddressKnown'
    BY <2>1, MovesAddress DEF AddressKnown
  <2> QED
    BY <1>2, <2>2, DisturbanceType
<1>3. ASSUME NEW i \in Informer, Sync(i)
      PROVE  ResourcesTypeOK' /\ AddressKnown'
  BY <1>3 DEF Sync, ResourcesTypeOK, AddressKnown
<1>4. CASE SyncKeys
  BY <1>4 DEF SyncKeys, ResourcesTypeOK, AddressKnown
<1>5. CASE UNCHANGED resourceVars
  BY <1>5 DEF resourceVars, ResourcesTypeOK, AddressKnown
<1> QED
  BY <1>1, <1>2, <1>3, <1>4, <1>5 DEF ResourcesNext

\* At first no reconcile runs.
LEMMA AddressInit == ResourcesInit => AddressKnown
BY DEF ResourcesInit, AddressKnown, Idle

\* No reconcile leaves its steps, and nothing but an address is ever written into
\* Endpoints.
THEOREM ResourcesTypeCorrect == ResourcesSpec => []ResourcesTypeOK
BY ResourcesTypeInit, AddressInit, ResourcesStep, PTL DEF ResourcesSpec

(***************************************************************************)
(* The key Secret of the namespace.                                        *)
(***************************************************************************)

\* In kvoctl's form there is a public key to copy, and it is the one that is read.
LEMMA CanonicalKey ==
    ASSUME ResourcesTypeOK, Canonical
    PROVE  /\ systemKeys["id_rsa.pub"] # Absent
           /\ PublicKey(systemKeys) = systemKeys["id_rsa.pub"]
<1>1. PICK f \in Field : systemKeys[f] # Absent
  BY DEF ResourcesTypeOK, SystemKeys
<1>2. f = "id_rsa.pub"
  BY <1>1 DEF Canonical
<1>3. "key" # "id_rsa.pub"
  OBVIOUS
<1> QED
  BY <1>1, <1>2, <1>3 DEF Canonical, PublicKey

\* The form of the source does not change.
LEMMA CanonicalStays ==
    ASSUME ResourcesTypeOK, [ResourcesNext]_resourceVars, Canonical'
    PROVE  Canonical
<1>1. CASE systemKeys' = systemKeys
  BY <1>1 DEF Canonical
<1>2. CASE \E f \in Field, k \in Version :
             systemKeys[f] # Absent /\ systemKeys' = [systemKeys EXCEPT ![f] = k]
  <2>1. PICK f \in Field, k \in Version :
             systemKeys[f] # Absent /\ systemKeys' = [systemKeys EXCEPT ![f] = k]
    BY <1>2
  <2>2. \A g \in Field : systemKeys[g] # Absent => systemKeys'[g] # Absent
    BY <2>1, ResourceAssumption DEF ResourcesTypeOK, SystemKeys, KeyData
  <2> QED
    BY <2>2 DEF Canonical
<1> QED
  BY <1>1, <1>2
  DEF ResourcesNext, resourceVars, Sync, SyncKeys, Drift, Rotate, Move, Remediate,
      Interrupt, ReconcileVM, Start, EnsureWindowsKeys, EnsureShared, EnsureSlack,
      EnsureAlertmanagerConfig, EnsureKeys, GetVMI, EnsureService, EnsureEndpoints

\* A patch from whatever copy leaves a key in a Secret that had one.
LEMMA PatchKeepsKey ==
    ASSUME ResourcesTypeOK, NEW data \in KeyData, data["id_rsa.pub"] # Absent,
           keys.data["id_rsa.pub"] # Absent, PatchKeys(data)
    PROVE  keys'.data["id_rsa.pub"] # Absent
<1> DEFINE merged == KeySecret!MergePatch(keysView.data, data, keys.data)
<1>1. merged["id_rsa.pub"] # Absent
  BY ResourceAssumption DEF KeySecret!MergePatch
<1>2. keys' = [keys EXCEPT !.data = merged]
  BY DEF PatchKeys
<1>3. keys \in Keys
  BY DEF ResourcesTypeOK
<1> HIDE DEF merged
<1> QED
  BY <1>1, <1>2, <1>3 DEF Keys

\* A step keeps the key.
LEMMA SecretStep ==
    ResourcesTypeOK /\ SecretUsable /\ [ResourcesNext]_resourceVars => SecretUsable'
<1> SUFFICES ASSUME ResourcesTypeOK, SecretUsable, [ResourcesNext]_resourceVars,
                    Canonical', keys'.exists
             PROVE  keys'.data["id_rsa.pub"] # Absent
  BY DEF SecretUsable
<1>1. Canonical
  BY CanonicalStays
<1>2. systemKeys["id_rsa.pub"] # Absent /\ systemKeys \in KeyData
  BY <1>1, CanonicalKey DEF ResourcesTypeOK, SystemKeys
<1>3. CASE keys' = keys
  BY <1>1, <1>3 DEF SecretUsable
<1>4. CASE keys' = MissingKeys
  BY <1>4 DEF MissingKeys
<1>5. ASSUME NEW v \in VM, EnsureWindowsKeys(v)
      PROVE  keys'.data["id_rsa.pub"] # Absent
  <2>1. CASE keys' = [exists |-> TRUE, data |-> systemKeys]
    BY <1>2, <2>1
  <2>2. CASE keys.exists /\ PatchKeys(systemKeys)
    BY <1>1, <1>2, <2>2, PatchKeepsKey DEF SecretUsable
  <2> QED
    BY <1>3, <1>5, <2>1, <2>2 DEF EnsureWindowsKeys
<1>6. ASSUME NEW v \in VM, EnsureKeys(v)
      PROVE  keys'.data["id_rsa.pub"] # Absent
  <2> DEFINE data == [NoKeys EXCEPT !["id_rsa.pub"] = PublicKey(systemKeys)]
  <2>1. data \in KeyData
    BY PublicKeyType
  <2>2. data["id_rsa.pub"] # Absent
    BY <1>1, CanonicalKey, ResourceAssumption DEF NoKeys
  <2>3. keys' \in {keys, [exists |-> TRUE, data |-> data]} \/ (keys.exists /\ PatchKeys(data))
    BY <1>6 DEF EnsureKeys
  <2> HIDE DEF data
  <2>4. CASE keys' = [exists |-> TRUE, data |-> data]
    BY <2>2, <2>4
  <2>5. CASE keys.exists /\ PatchKeys(data)
    BY <1>1, <2>1, <2>2, <2>5, PatchKeepsKey DEF SecretUsable
  <2> QED
    BY <1>3, <2>3, <2>4, <2>5
<1> QED
  BY <1>3, <1>4, <1>5, <1>6
  DEF ResourcesNext, resourceVars, Sync, SyncKeys, Drift, Rotate, Move, Remediate,
      Interrupt, ReconcileVM, Start, EnsureShared, EnsureSlack,
      EnsureAlertmanagerConfig, GetVMI, EnsureService, EnsureEndpoints

\* The key Secret that VMs mount is never without a key, however many workers
\* create and patch it from stale copies.
THEOREM SecretAlwaysUsable == ResourcesSpec => []SecretUsable
<1>1. ResourcesInit => SecretUsable
  BY DEF ResourcesInit, SecretUsable, MissingKeys
<1> QED
  BY <1>1, ResourcesTypeInit, AddressInit, ResourcesStep, SecretStep, PTL
  DEF ResourcesSpec
=============================================================================
