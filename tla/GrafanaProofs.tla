---------------------------- MODULE GrafanaProofs ----------------------------
(***************************************************************************)
(* Proofs about Grafana, for any number of deployers, namespaces and       *)
(* addresses, and for any initial cluster.                                 *)
(***************************************************************************)
EXTENDS Grafana, TLAPS

(***************************************************************************)
(* The plan.                                                               *)
(***************************************************************************)

\* What comes at one place of the plan only, and where that is.
Single == Written \cup Token \cup {"discover", "service", "deployment", "route"}

Nr == [o \in Single |->
        CASE o = "reader-role" -> 3
          [] o = "reader-binding" -> 4
          [] o = "discover" -> 5
          [] o = "view-binding" -> 8
          [] o = "datasources" -> 10
          [] o = "provider" -> 11
          [] o = "dashboards" -> 12
          [] o = "prometheus-token" -> 13
          [] o = "loki-token" -> 14
          [] o = "service" -> 15
          [] o = "deployment" -> 16
          [] OTHER -> 17]

\* Install takes 17 steps, the foundation that comes before it included.
LEMMA PlanLength == Len(Plan) = 17
BY DEF Plan

\* Each of these objects has one place in the plan.
LEMMA Numbers ==
    ASSUME NEW i \in 1 .. 17, NEW o \in Single, Plan[i].of = o
    PROVE  i = Nr[o]
BY DEF Plan, InOwn, InChosen, Nr, Single, Written, Binding, ConfigMap, Token

\* The account comes twice, the namespaces three times; the second half of the plan
\* is about the namespace of the Grafana that was found.
LEMMA Others ==
    ASSUME NEW i \in 1 .. 17
    PROVE  /\ Plan[i].of = "account" => i \in {2, 7}
           /\ Plan[i].of = "namespace" => i \in {1, 6, 9}
           /\ Plan[i].in = IF i <= 8 THEN "own" ELSE "chosen"
BY DEF Plan, InOwn, InChosen

\* What the proofs need to know of the numbers.
LEMMA NumberFacts ==
    /\ Nr["reader-role"] = 3 /\ Nr["reader-binding"] = 4 /\ Nr["discover"] = 5
    /\ Nr["view-binding"] = 8 /\ Nr["service"] = 15 /\ Nr["deployment"] = 16
    /\ Nr["route"] = 17
    /\ \A o \in ConfigMap : Nr[o] \in 10 .. 12
    /\ \A o \in Token : Nr[o] \in 13 .. 14
    /\ \A o \in Written : Nr[o] \in {3, 4, 8, 10, 11, 12}
    /\ \A o, q \in Single : Nr[o] = Nr[q] => o = q
BY DEF Nr, Single, Written, Binding, ConfigMap, Token

\* The step and the namespace of a deployer at such an object.
LEMMA AtSingle ==
    ASSUME step \in [Deployer -> 0 .. 17], NEW d \in Deployer, NEW o \in Single, At(d, o)
    PROVE  /\ step[d] = Nr[o] /\ step[d] \in 1 .. 17
           /\ Target(d) = IF Nr[o] <= 8 THEN Own ELSE chosen[d].place
<1>1. step[d] \in 1 .. 17
  BY DEF At
<1>2. step[d] = Nr[o]
  BY <1>1, Numbers DEF At
<1> QED
  BY <1>1, <1>2, Others DEF Target

\* The steps that only look an object up and make it if it is missing.
LEMMA AtKept ==
    ASSUME step \in [Deployer -> 0 .. 17], NEW d \in Deployer, NEW o \in Kept, At(d, o)
    PROVE  /\ step[d] \in {1, 2, 6, 7, 9, 13, 14, 15, 17}
           /\ o = "account" => step[d] \in {2, 7} /\ Target(d) = Own
           /\ o = "namespace" => step[d] \in {1, 6, 9}
           /\ o \notin {"account", "namespace"} => o \in Single
<1>1. step[d] \in 1 .. 17
  BY DEF At
<1>2. CASE o \in {"account", "namespace"}
  BY <1>1, <1>2, Others DEF At, Target
<1>3. CASE o \in Token \cup {"service", "route"}
  <2>1. step[d] = Nr[o] /\ o \in Single
    BY <1>3, AtSingle DEF Single
  <2>2. Nr[o] \in {13, 14, 15, 17}
    BY <1>3, NumberFacts
  <2> QED
    BY <1>3, <2>1, <2>2 DEF Token
<1> QED
  BY <1>2, <1>3 DEF Kept

(***************************************************************************)
(* What a stage does to the deployer that takes it.                        *)
(***************************************************************************)

\* The variables of the deployers have their types.
ProgressOK ==
    /\ step \in [Deployer -> 0 .. 17]
    /\ seen \in [Deployer -> {None, "absent", "present"}]
    /\ copy \in [Deployer -> [users : Nat, wiring : Wiring]]
    /\ done \subseteq Deployer

\* The other deployers are left where they are.
OthersStay(d) ==
    \A e \in Deployer \ {d} : /\ step'[e] = step[e] /\ seen'[e] = seen[e]
                              /\ copy'[e] = copy[e] /\ (e \in done' <=> e \in done)

\* A Deployment without entries and one with all of them have the type.
LEMMA Wirings ==
    /\ Bare \in Wiring /\ Wired \in Wiring
    /\ NoCopy \in [users : Nat, wiring : Wiring]
BY DEF Bare, Wired, NoCopy, Wiring

\* Going on to the next stage, and after the last one to success.
LEMMA GoOnProgress ==
    ASSUME ProgressOK, NEW d \in Deployer, step[d] > 0, GoOn(d)
    PROVE  /\ ProgressOK' /\ OthersStay(d) /\ seen'[d] = None
           /\ step[d] < 17 => step'[d] = step[d] + 1 /\ done' = done
           /\ step[d] = 17 => step'[d] = 0 /\ done' = done \cup {d}
<1>1. /\ seen' = [seen EXCEPT ![d] = None] /\ copy' = [copy EXCEPT ![d] = NoCopy]
      /\ \/ step[d] = 17 /\ step' = [step EXCEPT ![d] = 0] /\ done' = done \cup {d}
         \/ step[d] # 17 /\ step' = [step EXCEPT ![d] = step[d] + 1] /\ done' = done
  BY PlanLength DEF GoOn, Forget
<1>2. step[d] \in 1 .. 17 /\ done' \subseteq Deployer
  BY <1>1 DEF ProgressOK
<1>3. seen' \in [Deployer -> {None, "absent", "present"}]
  BY <1>1 DEF ProgressOK
<1>4. copy' \in [Deployer -> [users : Nat, wiring : Wiring]]
  BY <1>1, Wirings DEF ProgressOK
<1>5. step' \in [Deployer -> 0 .. 17]
  BY <1>1, <1>2 DEF ProgressOK
<1>6. OthersStay(d)
  BY <1>1 DEF ProgressOK, OthersStay
<1>7. /\ seen'[d] = None
      /\ step[d] < 17 => step'[d] = step[d] + 1 /\ done' = done
      /\ step[d] = 17 => step'[d] = 0 /\ done' = done \cup {d}
  BY <1>1, <1>2 DEF ProgressOK
<1> QED
  BY <1>2, <1>3, <1>4, <1>5, <1>6, <1>7 DEF ProgressOK

\* Ending with an error.
LEMMA AbortProgress ==
    ASSUME ProgressOK, NEW d \in Deployer, Abort(d)
    PROVE  /\ ProgressOK' /\ OthersStay(d) /\ seen'[d] = None
           /\ step'[d] = 0 /\ done' = done
BY Wirings DEF ProgressOK, OthersStay, Abort, Forget

\* The steps that take two requests.
Reading == {3, 4, 8, 10, 11, 12, 16}

\* What a deployer has read is there while it is at an object that takes two
\* requests, and only such a copy can be outdated.
SeenInv ==
    \A d \in Deployer : /\ seen[d] # None => step[d] \in Reading
                        /\ d \in outdated => seen[d] = "present"

\* A token's Secret has a token or none.
TokenInv == \A o \in Token, p \in Place : own[o][p] \in {None, Kvoctl, Empty}

GrafanaTypeInv == GrafanaTypeOK /\ SeenInv /\ TokenInv

\* The types of the deployers' variables, with the length of the plan.
LEMMA TypeProgress == GrafanaTypeOK => ProgressOK /\ step \in [Deployer -> 0 .. 17]
BY PlanLength DEF GrafanaTypeOK, ProgressOK

\* A stage reads, goes on, or ends, and the others stay where they are.
Moves(d) ==
    /\ ProgressOK' /\ OthersStay(d) /\ step[d] \in 1 .. 17
    /\ \/ /\ step' = step /\ done' = done
          /\ step[d] \in Reading /\ seen[d] = None /\ seen'[d] \in {"absent", "present"}
       \/ /\ seen'[d] = None
          /\ step[d] < 17 => step'[d] = step[d] + 1 /\ done' = done
          /\ step[d] = 17 => step'[d] = 0 /\ done' = done \cup {d}
       \/ seen'[d] = None /\ step'[d] = 0 /\ done' = done

\* The part of it that does not depend on the stage.
LEMMA Moving ==
    ASSUME GrafanaTypeOK, NEW d \in Deployer, step[d] > 0, GoOn(d) \/ Abort(d)
    PROVE  Moves(d)
<1>1. step[d] \in 1 .. 17 /\ ProgressOK
  BY TypeProgress
<1>2. CASE GoOn(d)
  BY <1>1, <1>2, GoOnProgress DEF Moves
<1>3. CASE Abort(d)
  BY <1>1, <1>3, AbortProgress DEF Moves
<1> QED
  BY <1>2, <1>3

\* Written objects and the Deployment are Single and take two requests.
LEMMA AtReading ==
    ASSUME GrafanaTypeOK, NEW d \in Deployer, NEW o \in Written \cup {"deployment"}, At(d, o)
    PROVE  /\ step[d] = Nr[o] /\ step[d] \in Reading /\ o \in Single
           /\ Target(d) = IF Nr[o] <= 8 THEN Own ELSE chosen[d].place
           /\ Target(d) \in Place
<1>1. o \in Single /\ Nr[o] \in Reading
  BY NumberFacts DEF Single, Reading
<1>2. /\ step[d] = Nr[o]
      /\ Target(d) = IF Nr[o] <= 8 THEN Own ELSE chosen[d].place
  BY <1>1, AtSingle, TypeProgress
<1>3. Target(d) \in Place
  BY <1>2, GrafanaAssumption DEF GrafanaTypeOK
<1> QED
  BY <1>1, <1>2, <1>3

\* The first of the two requests.
LEMMA ReadingMoves ==
    ASSUME GrafanaTypeOK, NEW d \in Deployer, Read(d) \/ ReadDeployment(d)
    PROVE  Moves(d) /\ outdated' = outdated
<1>1. CASE Read(d)
  <2>1. PICK o \in Written :
          /\ At(d, o) /\ seen[d] = None
          /\ \/ Abort(d)
             \/ /\ UNCHANGED <<step, copy, done>>
                /\ seen' = [seen EXCEPT ![d] = "absent"]
             \/ /\ UNCHANGED <<step, done>>
                /\ seen' = [seen EXCEPT ![d] = "present"]
                /\ copy' = IF o \in ConfigMap
                           THEN [copy EXCEPT ![d] = [users |-> users[o][Target(d)],
                                                     wiring |-> Bare]]
                           ELSE copy
    BY <1>1 DEF Read
  <2>2. outdated' = outdated
    BY <1>1 DEF Read
  <2>3. /\ step[d] = Nr[o] /\ step[d] \in Reading /\ Target(d) \in Place
        /\ step[d] \in 1 .. 17 /\ ProgressOK
    BY <2>1, AtReading, TypeProgress DEF At, Reading
  <2>4. CASE Abort(d)
    BY <2>3, <2>4, <2>2, Moving
  <2>5. CASE /\ UNCHANGED <<step, copy, done>>
             /\ seen' = [seen EXCEPT ![d] = "absent"]
    BY <2>1, <2>3, <2>5, <2>2 DEF Moves, ProgressOK, OthersStay
  <2>6. CASE /\ UNCHANGED <<step, done>>
             /\ seen' = [seen EXCEPT ![d] = "present"]
             /\ copy' = IF o \in ConfigMap
                        THEN [copy EXCEPT ![d] = [users |-> users[o][Target(d)],
                                                  wiring |-> Bare]]
                        ELSE copy
    <3>1. o \in ConfigMap => users[o][Target(d)] \in Nat
      BY <2>3 DEF GrafanaTypeOK, Shared
    <3>2. copy' \in [Deployer -> [users : Nat, wiring : Wiring]]
      BY <2>3, <2>6, <3>1, Wirings DEF ProgressOK
    <3> QED
      BY <2>1, <2>3, <2>6, <2>2, <3>2 DEF Moves, ProgressOK, OthersStay
  <2> QED
    BY <1>1, <2>1, <2>4, <2>5, <2>6 DEF Read
<1>2. CASE ReadDeployment(d)
  <2>1. /\ step[d] \in Reading /\ Target(d) \in Place
        /\ step[d] \in 1 .. 17 /\ ProgressOK
    BY <1>2, AtReading, TypeProgress DEF ReadDeployment, At, Reading
  <2>2. /\ users["deployment"][Target(d)] \in Nat
        /\ wiring[Target(d)] \in Wiring
    BY <2>1 DEF GrafanaTypeOK, Shared
  <2>3. copy' \in [Deployer -> [users : Nat, wiring : Wiring]]
    BY <1>2, <2>1, <2>2 DEF ReadDeployment, ProgressOK
  <2> QED
    BY <1>2, <2>1, <2>3 DEF ReadDeployment, Moves, ProgressOK, OthersStay
<1> QED
  BY <1>1, <1>2

\* Every stage.
LEMMA ProceedMoves ==
    ASSUME GrafanaTypeOK, NEW d \in Deployer, Proceed(d)
    PROVE  Moves(d)
<1>1. CASE Discover(d)
  BY <1>1, Moving DEF Discover, At
<1>2. CASE Keep(d)
  BY <1>2, Moving DEF Keep, At
<1>3. CASE Read(d) \/ ReadDeployment(d)
  BY <1>3, ReadingMoves
<1>4. CASE Write(d)
  BY <1>4, Moving DEF Write, At
<1>5. CASE WriteDeployment(d)
  BY <1>5, Moving DEF WriteDeployment, At
<1> QED
  BY <1>1, <1>2, <1>3, <1>4, <1>5 DEF Proceed

(***************************************************************************)
(* Type correctness.                                                       *)
(***************************************************************************)

Value == Deployer \cup Url \cup {None, Kvoctl, Users, Foreign, Empty}

\* What is stored in an object is a value, and in a token's Secret one for it.
LEMMA OwnStored ==
    ASSUME GrafanaTypeOK, TokenInv, NEW o \in Object, NEW p \in Place, NEW v \in Value,
           o \in Token => v \in {None, Kvoctl, Empty},
           own' = [own EXCEPT ![o][p] = v]
    PROVE  own' \in [Object -> [Place -> Value]] /\ TokenInv'
<1>1. own \in [Object -> [Place -> Value]]
  BY DEF GrafanaTypeOK, Value
<1>2. own' \in [Object -> [Place -> Value]]
  BY <1>1
<1>3. ASSUME NEW t \in Token, NEW q \in Place
      PROVE  own'[t][q] \in {None, Kvoctl, Empty}
  <2>1. t \in Object
    BY DEF Object, Kept
  <2>2. own'[t][q] = IF t = o /\ q = p THEN v ELSE own[t][q]
    BY <1>1, <2>1
  <2> QED
    BY <2>2 DEF TokenInv
<1> QED
  BY <1>2, <1>3 DEF TokenInv

\* The objects of either kind are different ones.
LEMMA Kinds ==
    /\ Written \subseteq Object /\ Kept \subseteq Object
    /\ Written \cap Token = {} /\ Written \cap Kept = {}
    /\ ConfigMap \subseteq Written /\ Binding \subseteq Written /\ Token \subseteq Kept
    /\ Shared = ConfigMap \cup {"deployment"} /\ "deployment" \notin Object
    /\ Binding \cap ConfigMap = {}
BY DEF Written, Kept, Object, Shared, Token, Binding, ConfigMap

\* What a deployer puts into an object.
LEMMA WantedType ==
    ASSUME GrafanaTypeOK, NEW d \in Deployer, NEW o \in Written
    PROVE  Wanted(d, o) \in Value
BY DEF GrafanaTypeOK, Wanted, Value

\* The part of the type invariant that is about the cluster.
ClusterOK ==
    /\ own \in [Object -> [Place -> Value]] /\ TokenInv
    /\ users \in [Shared -> [Place -> Nat]]
    /\ grafana \in [Place -> {None, Kvoctl, Users}]
    /\ wiring \in [Place -> Wiring]
    /\ labelled \subseteq Place
    /\ loki \in Url \cup {None}

\* The type invariant contains that part.
LEMMA ClusterType == GrafanaTypeOK /\ TokenInv => ClusterOK
BY DEF GrafanaTypeOK, ClusterOK, Value

\* Looking an object up and making it keeps the types.
LEMMA KeepType ==
    ASSUME GrafanaTypeInv, NEW d \in Deployer, Keep(d)
    PROVE  ClusterOK' /\ deleted' \subseteq deleted
<1>1. ClusterOK
  BY ClusterType DEF GrafanaTypeInv
<1>2. UNCHANGED <<users, grafana, wiring, labelled, loki>>
  BY DEF Keep
<1>3. PICK o \in Kept :
        /\ At(d, o)
        /\ \/ UNCHANGED <<own, deleted>>
           \/ /\ own' = [own EXCEPT ![o][Target(d)] = Kvoctl]
              /\ deleted' = deleted \ {<<o, Target(d)>>}
  BY DEF Keep
<1>4. CASE UNCHANGED <<own, deleted>>
  BY <1>1, <1>2, <1>4 DEF ClusterOK, TokenInv
<1>5. CASE /\ own' = [own EXCEPT ![o][Target(d)] = Kvoctl]
           /\ deleted' = deleted \ {<<o, Target(d)>>}
  <2>1. Target(d) \in Place
    BY GrafanaAssumption DEF Target, GrafanaTypeInv, GrafanaTypeOK
  <2>2. own' \in [Object -> [Place -> Value]] /\ TokenInv'
    BY <1>3, <1>5, <2>1, OwnStored, Kinds DEF GrafanaTypeInv, Value
  <2> QED
    BY <1>1, <1>2, <1>5, <2>2 DEF ClusterOK
<1> QED
  BY <1>3, <1>4, <1>5

\* Storing an object keeps the types.
LEMMA StoreType ==
    ASSUME GrafanaTypeInv, NEW d \in Deployer, NEW o \in Written, NEW p \in Place,
           Store(d, o, p)
    PROVE  /\ own' \in [Object -> [Place -> Value]] /\ TokenInv'
           /\ users' \in [Shared -> [Place -> Nat]]
           /\ deleted' \subseteq deleted
<1>1. own' \in [Object -> [Place -> Value]] /\ TokenInv'
  BY OwnStored, WantedType, Kinds DEF GrafanaTypeInv, Store
<1>2. users' \in [Shared -> [Place -> Nat]]
  BY Kinds DEF GrafanaTypeInv, GrafanaTypeOK, Store
<1> QED
  BY <1>1, <1>2 DEF Store

\* Writing an object keeps the types.
LEMMA WriteType ==
    ASSUME GrafanaTypeInv, NEW d \in Deployer, Write(d)
    PROVE  ClusterOK' /\ deleted' \subseteq deleted
<1>1. ClusterOK
  BY ClusterType DEF GrafanaTypeInv
<1>2. UNCHANGED <<grafana, wiring, labelled, loki>>
  BY DEF Write
<1>3. PICK o \in Written :
        /\ At(d, o)
        /\ Store(d, o, Target(d)) \/ UNCHANGED <<own, users, deleted>>
  BY DEF Write
<1>4. CASE UNCHANGED <<own, users, deleted>>
  BY <1>1, <1>2, <1>4 DEF ClusterOK, TokenInv
<1>5. CASE Store(d, o, Target(d))
  <2>1. Target(d) \in Place
    BY <1>3, AtReading DEF GrafanaTypeInv
  <2> QED
    BY <1>1, <1>2, <1>5, <2>1, StoreType DEF ClusterOK
<1> QED
  BY <1>3, <1>4, <1>5

\* Writing the Deployment keeps the types.
LEMMA WriteDeploymentType ==
    ASSUME GrafanaTypeInv, NEW d \in Deployer, WriteDeployment(d)
    PROVE  ClusterOK'
<1>1. ClusterOK
  BY ClusterType DEF GrafanaTypeInv
<1>2. Target(d) \in Place /\ copy[d].users \in Nat
  BY AtReading DEF GrafanaTypeInv, GrafanaTypeOK, WriteDeployment
<1>3. UNCHANGED <<own, labelled, loki>>
  BY DEF WriteDeployment
<1>4. /\ grafana' \in {grafana, [grafana EXCEPT ![Target(d)] = Kvoctl]}
      /\ wiring' \in {wiring, [wiring EXCEPT ![Target(d)] = Wired]}
      /\ \/ users' = users
         \/ users' = [users EXCEPT !["deployment"][Target(d)] = 0]
         \/ users' = [users EXCEPT !["deployment"][Target(d)] = copy[d].users]
  BY DEF WriteDeployment
<1>5. users' \in [Shared -> [Place -> Nat]]
  BY <1>1, <1>2, <1>4 DEF ClusterOK, Shared
<1>6. grafana' \in [Place -> {None, Kvoctl, Users}] /\ wiring' \in [Place -> Wiring]
  BY <1>1, <1>4, Wirings DEF ClusterOK
<1> QED
  BY <1>1, <1>3, <1>5, <1>6 DEF ClusterOK, TokenInv

\* Whatever users do keeps the types, tells those who have read what they change,
\* and leaves the deployers where they are.
LEMMA UserType ==
    ASSUME GrafanaTypeInv, UserActs
    PROVE  /\ ClusterOK'
           /\ deleted' \subseteq Object \X Place /\ meddled' \in BOOLEAN
           /\ outdated \subseteq outdated'
           /\ \A d \in outdated' \ outdated : step[d] > 0 /\ seen[d] = "present" /\ d \in Deployer
           /\ clean' = {} /\ faults' \in 0 .. MaxFaults
           /\ UNCHANGED <<step, chosen, seen, copy, done>>
<1> USE Kinds DEF GrafanaTypeInv
<1>0. ClusterOK /\ deleted \subseteq Object \X Place /\ meddled \in BOOLEAN
  BY ClusterType DEF GrafanaTypeOK
<1>1. Act
  BY DEF UserActs, EditDeployment, Install, Uninstall, EditConfigMap, Delete, Spoil, MoveLoki
<1>2. /\ clean' = {} /\ faults' \in 0 .. MaxFaults
      /\ UNCHANGED <<step, chosen, seen, copy, done>>
  BY <1>1, GrafanaAssumption DEF Act, Fault, GrafanaTypeOK
<1> DEFINE Told == /\ outdated \subseteq outdated'
                   /\ \A d \in outdated' \ outdated :
                        step[d] > 0 /\ seen[d] = "present" /\ d \in Deployer
           Goal == ClusterOK' /\ deleted' \subseteq Object \X Place
                   /\ meddled' \in BOOLEAN /\ Told
<1>3. ASSUME NEW o, NEW p, outdated' = outdated \cup Readers(o, p)
      PROVE  Told
  BY <1>3 DEF Readers, At
<1>4. ASSUME NEW p \in Place, EditDeployment(p)
      PROVE  Goal
  <2>1. users' = [users EXCEPT !["deployment"][p] = @ + 1] /\ Told
    BY <1>3, <1>4 DEF EditDeployment
  <2>2. users' \in [Shared -> [Place -> Nat]]
    BY <1>0, <2>1 DEF ClusterOK
  <2>3. wiring' \in [Place -> Wiring]
    BY <1>0, <1>4 DEF ClusterOK, EditDeployment
  <2>4. UNCHANGED <<own, grafana, labelled, loki, deleted, meddled>>
    BY <1>4 DEF EditDeployment
  <2> QED
    BY <1>0, <2>1, <2>2, <2>3, <2>4 DEF ClusterOK, TokenInv
<1>5. ASSUME NEW p \in Place, Install(p)
      PROVE  Goal
  <2>1. users' \in [Shared -> [Place -> Nat]]
    BY <1>0, <1>5 DEF ClusterOK, Install
  <2>2. wiring' \in [Place -> Wiring] /\ grafana' \in [Place -> {None, Kvoctl, Users}]
    BY <1>0, <1>5 DEF ClusterOK, Install
  <2>3. labelled' \subseteq Place /\ meddled' = TRUE
    BY <1>0, <1>5 DEF ClusterOK, Install
  <2>4. UNCHANGED <<own, loki, deleted, outdated>>
    BY <1>5 DEF Install
  <2> QED
    BY <1>0, <2>1, <2>2, <2>3, <2>4 DEF ClusterOK, TokenInv
<1>6. ASSUME NEW p \in Place, Uninstall(p)
      PROVE  Goal
  <2>1. users' \in [Shared -> [Place -> Nat]]
    BY <1>0, <1>6 DEF ClusterOK, Uninstall
  <2>2. wiring' \in [Place -> Wiring] /\ grafana' \in [Place -> {None, Kvoctl, Users}]
    BY <1>0, <1>6, Wirings DEF ClusterOK, Uninstall
  <2>3. labelled' \subseteq Place /\ meddled' = TRUE
    BY <1>0, <1>6 DEF ClusterOK, Uninstall
  <2>4. UNCHANGED <<own, loki, deleted>>
    BY <1>6 DEF Uninstall
  <2>5. Told
    BY <1>3, <1>6 DEF Uninstall
  <2> QED
    BY <1>0, <2>1, <2>2, <2>3, <2>4, <2>5 DEF ClusterOK, TokenInv
<1>7. ASSUME NEW p \in Place, NEW o \in ConfigMap, EditConfigMap(o, p)
      PROVE  Goal
  <2>1. PICK v \in {own[o][p], Users} : own' = [own EXCEPT ![o][p] = v]
    BY <1>7 DEF EditConfigMap
  <2>2. v \in Value
    BY <1>0 DEF ClusterOK, Value
  <2>3. own' \in [Object -> [Place -> Value]] /\ TokenInv'
    BY <2>1, <2>2, OwnStored
  <2>4. users' = [users EXCEPT ![o][p] = @ + 1] /\ Told
    BY <1>3, <1>7 DEF EditConfigMap
  <2>5. users' \in [Shared -> [Place -> Nat]]
    BY <1>0, <2>4 DEF ClusterOK
  <2>6. UNCHANGED <<grafana, wiring, labelled, loki, deleted, meddled>>
    BY <1>7 DEF EditConfigMap
  <2> QED
    BY <1>0, <2>3, <2>4, <2>5, <2>6 DEF ClusterOK
<1>8. ASSUME NEW p \in Place, NEW o \in Object, NEW v \in Value,
             o \in Token => v \in {None, Kvoctl, Empty},
             (Delete(o, p) /\ v = None) \/ Spoil(o, p, v)
      PROVE  Goal
  <2>1. own' \in [Object -> [Place -> Value]] /\ TokenInv'
    BY <1>8, OwnStored DEF Delete, Spoil
  <2>2. users' \in [Shared -> [Place -> Nat]]
    <3>1. CASE users' = users
      BY <1>0, <3>1 DEF ClusterOK
    <3>2. CASE o \in ConfigMap /\ users' = [users EXCEPT ![o][p] = 0]
      BY <1>0, <3>2 DEF ClusterOK
    <3> QED
      BY <1>8, <3>1, <3>2 DEF Delete, Spoil
  <2>3. UNCHANGED <<grafana, wiring, labelled, loki, meddled>>
    BY <1>8 DEF Delete, Spoil
  <2>4. Told /\ deleted' \subseteq Object \X Place
    BY <1>0, <1>3, <1>8 DEF Delete, Spoil
  <2> QED
    BY <1>0, <2>1, <2>2, <2>3, <2>4 DEF ClusterOK
<1>9. ASSUME MoveLoki
      PROVE  Goal
  <2>1. loki' \in Url \cup {None}
    BY <1>9 DEF MoveLoki
  <2>2. UNCHANGED <<own, users, grafana, wiring, labelled, deleted, meddled, outdated>>
    BY <1>9 DEF MoveLoki
  <2>3. ClusterOK'
    BY <1>0, <2>1, <2>2 DEF ClusterOK, TokenInv
  <2>4. Told
    BY <2>2
  <2>5. deleted' \subseteq Object \X Place /\ meddled' \in BOOLEAN
    BY <1>0, <2>2
  <2> QED
    BY <2>3, <2>4, <2>5
<1>10. Goal
  BY <1>4, <1>5, <1>6, <1>7, <1>8, <1>9, GrafanaAssumption DEF UserActs, Value
<1> QED
  BY <1>2, <1>10

\* The initial cluster has the types.
LEMMA GrafanaTypeInit == GrafanaInit => GrafanaTypeInv
<1> SUFFICES ASSUME GrafanaInit
             PROVE  GrafanaTypeInv
  OBVIOUS
<1>1. wiring \in [Place -> Wiring]
  BY DEF GrafanaInit, Wiring
<1>2. Undecided \in [place : Place, found : BOOLEAN, url : Url \cup {None}]
  BY GrafanaAssumption DEF Undecided
<1>3. own \in [Object -> [Place -> {Users, None}]] /\ TokenInv
  BY Kinds DEF GrafanaInit, TokenInv, Token, ConfigMap, Object
<1>4. SeenInv
  BY DEF GrafanaInit, SeenInv
<1>5. own \in [Object -> [Place -> Deployer \cup Url \cup
                                    {None, Kvoctl, Users, Foreign, Empty}]]
  BY <1>3
<1>6. users \in [Shared -> [Place -> Nat]] /\ grafana \in [Place -> {None, Kvoctl, Users}]
  BY DEF GrafanaInit
<1>7. /\ step \in [Deployer -> 0 .. Len(Plan)] /\ seen \in [Deployer -> {None, "absent", "present"}]
      /\ copy \in [Deployer -> [users : Nat, wiring : Wiring]]
      /\ chosen \in [Deployer -> [place : Place, found : BOOLEAN, url : Url \cup {None}]]
  BY <1>2, Wirings, PlanLength DEF GrafanaInit
<1>8. /\ outdated \subseteq Running /\ done \subseteq Deployer /\ clean \subseteq Deployer
      /\ deleted \subseteq Object \X Place
  BY DEF GrafanaInit
<1>9. faults \in 0 .. MaxFaults
  BY GrafanaAssumption DEF GrafanaInit
<1>10. meddled \in BOOLEAN /\ labelled \subseteq Place /\ loki \in Url \cup {None}
  BY DEF GrafanaInit
<1> QED
  BY <1>1, <1>3, <1>4, <1>5, <1>6, <1>7, <1>8, <1>9, <1>10 DEF GrafanaTypeInv, GrafanaTypeOK

\* What a stage leaves of the copies that have been read: a copy becomes outdated by
\* somebody else's write only, and its own deployer has taken no step meanwhile.
LEMMA ProceedSeen ==
    ASSUME GrafanaTypeInv, NEW d \in Deployer, Proceed(d)
    PROVE  SeenInv' /\ outdated' \subseteq Running'
<1> USE DEF GrafanaTypeInv
<1>1. Moves(d)
  BY ProceedMoves
<1>2. \A e \in outdated : e \in Deployer /\ step[e] > 0 /\ seen[e] = "present"
  BY DEF SeenInv, GrafanaTypeOK, Running
<1>3. \A e \in outdated' \ outdated : e \in Deployer \ {d} /\ step[e] > 0 /\ seen[e] = "present"
  <2>1. CASE Discover(d) \/ Keep(d) \/ Read(d) \/ ReadDeployment(d)
    BY <2>1 DEF Discover, Keep, Read, ReadDeployment
  <2>2. CASE Write(d)
    <3>1. PICK o \in Written :
            \/ Store(d, o, Target(d))
            \/ outdated' = outdated
            \/ outdated' = outdated \ {d}
      BY <2>2 DEF Write
    <3> QED
      BY <3>1 DEF Store, Readers, At
  <2>3. CASE WriteDeployment(d)
    BY <2>3 DEF WriteDeployment, Readers, At
  <2> QED
    BY <2>1, <2>2, <2>3 DEF Proceed
<1>4. d \in outdated' => seen[d] # None /\ d \in outdated
  BY <1>2, <1>3 DEF None
<1>5. ~(seen[d] # None /\ d \in outdated')
  <2>1. CASE Discover(d)
    BY <2>1, AtSingle, NumberFacts, TypeProgress DEF Discover, SeenInv, Reading, Single
  <2>2. CASE Keep(d)
    <3>1. PICK o \in Kept : At(d, o)
      BY <2>2 DEF Keep
    <3> QED
      BY <3>1, AtKept, TypeProgress DEF SeenInv, Reading
  <2>3. CASE Read(d) \/ ReadDeployment(d)
    BY <2>3 DEF Read, ReadDeployment
  <2>4. CASE Write(d)
    <3>1. PICK o \in Written :
            \/ Store(d, o, Target(d))
            \/ seen[d] = "absent" /\ outdated' = outdated
            \/ outdated' = outdated \ {d}
      BY <2>4 DEF Write
    <3>2. d \notin outdated'
      BY <1>2, <3>1 DEF Store
    <3> QED
      BY <3>2
  <2>5. CASE WriteDeployment(d)
    <3>1. d \notin outdated'
      BY <1>2, <1>3, <2>5 DEF WriteDeployment
    <3> QED
      BY <3>1
  <2> QED
    BY <2>1, <2>2, <2>3, <2>4, <2>5 DEF Proceed
<1>6. d \notin outdated'
  BY <1>4, <1>5
<1>7. \A e \in outdated' : e \in Deployer \ {d} /\ step'[e] > 0 /\ seen'[e] = "present"
  BY <1>1, <1>2, <1>3, <1>6 DEF Moves, OthersStay
<1>8. ASSUME NEW e \in Deployer
      PROVE  /\ seen'[e] # None => step'[e] \in Reading
             /\ e \in outdated' => seen'[e] = "present"
  BY <1>1, <1>7 DEF Moves, OthersStay, SeenInv
<1> QED
  BY <1>7, <1>8 DEF SeenInv, Running

\* A stage keeps the types of everything else.
LEMMA ProceedType ==
    ASSUME GrafanaTypeInv, NEW d \in Deployer, Proceed(d)
    PROVE  /\ ClusterOK' /\ deleted' \subseteq deleted
           /\ chosen' \in [Deployer -> [place : Place, found : BOOLEAN, url : Url \cup {None}]]
           /\ UNCHANGED <<clean, meddled, faults>>
           /\ ~At(d, "discover") => chosen' = chosen
<1> USE DEF GrafanaTypeInv
<1>0. /\ chosen \in [Deployer -> [place : Place, found : BOOLEAN, url : Url \cup {None}]]
      /\ ClusterOK
  BY ClusterType DEF GrafanaTypeOK
<1>1. CASE Discover(d)
  <2>1. FoundIn \subseteq Place /\ loki \in Url \cup {None} /\ Own \in Place
    BY GrafanaAssumption DEF FoundIn, GrafanaTypeOK
  <2>2. \/ chosen' = chosen
        \/ \E p \in FoundIn \cup {Own}, b \in BOOLEAN :
             chosen' = [chosen EXCEPT ![d] = [place |-> p, found |-> b, url |-> loki]]
    BY <1>1 DEF Discover
  <2>3. chosen' \in [Deployer -> [place : Place, found : BOOLEAN, url : Url \cup {None}]]
    BY <1>0, <2>1, <2>2
  <2>4. UNCHANGED <<cluster, history, faults>>
    BY <1>1 DEF Discover
  <2> QED
    BY <1>0, <1>1, <2>3, <2>4 DEF Discover, cluster, history, ClusterOK, TokenInv
<1>2. CASE Keep(d)
  BY <1>0, <1>2, KeepType DEF Keep
<1>3. CASE Read(d) \/ ReadDeployment(d)
  BY <1>0, <1>3 DEF Read, ReadDeployment, cluster, history, ClusterOK, TokenInv
<1>4. CASE Write(d)
  BY <1>0, <1>4, WriteType DEF Write
<1>5. CASE WriteDeployment(d)
  BY <1>0, <1>5, WriteDeploymentType DEF WriteDeployment, history
<1> QED
  BY <1>1, <1>2, <1>3, <1>4, <1>5 DEF Proceed

\* Every step keeps the types.
LEMMA GrafanaTypeStep == GrafanaTypeInv /\ [GrafanaNext]_grafanaVars => GrafanaTypeInv'
<1> SUFFICES ASSUME GrafanaTypeInv, [GrafanaNext]_grafanaVars
             PROVE  GrafanaTypeInv'
  OBVIOUS
<1> USE PlanLength DEF GrafanaTypeInv
<1>0. ClusterOK /\ ProgressOK
  BY ClusterType, TypeProgress
<1>1. ASSUME NEW d \in Deployer, Begin(d) \/ Overlap(d)
      PROVE  GrafanaTypeInv'
  <2>1. step' \in [Deployer -> 0 .. 17] /\ Running \subseteq Running'
    BY <1>0, <1>1 DEF Begin, Overlap, ProgressOK, Running
  <2>2. chosen' \in [Deployer -> [place : Place, found : BOOLEAN, url : Url \cup {None}]]
    <3>1. Undecided \in [place : Place, found : BOOLEAN, url : Url \cup {None}]
      BY GrafanaAssumption DEF Undecided
    <3>2. chosen' = [chosen EXCEPT ![d] = Undecided]
      BY <1>1 DEF Begin, Overlap
    <3> QED
      BY <3>1, <3>2 DEF GrafanaTypeOK
  <2>3. SeenInv'
    <3>1. /\ step[d] = 0 /\ step' = [step EXCEPT ![d] = 1]
          /\ seen' = seen /\ outdated' = outdated
      BY <1>1 DEF Begin, Overlap
    <3>2. seen[d] = None
      BY <3>1 DEF SeenInv, Reading
    <3> QED
      BY <1>0, <3>1, <3>2 DEF SeenInv, ProgressOK
  <2>4. faults' \in 0 .. MaxFaults /\ clean' \subseteq Deployer
    BY <1>1, GrafanaAssumption DEF Begin, Overlap, Fault, GrafanaTypeOK
  <2>5. UNCHANGED <<cluster, seen, copy, outdated, done, deleted, meddled>>
    BY <1>1 DEF Begin, Overlap
  <2> QED
    BY <2>1, <2>2, <2>3, <2>4, <2>5 DEF GrafanaTypeOK, TokenInv, cluster
<1>2. ASSUME NEW d \in Deployer, Proceed(d)
      PROVE  GrafanaTypeInv'
  <2>1. Moves(d)
    BY <1>2, ProceedMoves
  <2> QED
    BY <1>2, <2>1, ProceedSeen, ProceedType
    DEF GrafanaTypeOK, Moves, ProgressOK, ClusterOK, Value
<1>3. ASSUME NEW d \in Deployer, Stop(d)
      PROVE  GrafanaTypeInv'
  <2>1. ProgressOK' /\ OthersStay(d) /\ seen'[d] = None /\ step'[d] = 0 /\ done' = done
    BY <1>0, <1>3, AbortProgress DEF Stop
  <2>2. outdated' = outdated \ {d} /\ UNCHANGED <<cluster, chosen, history>>
    BY <1>3 DEF Stop
  <2>3. SeenInv' /\ outdated' \subseteq Running'
    BY <2>1, <2>2 DEF SeenInv, OthersStay, Running, GrafanaTypeOK
  <2>4. faults' \in 0 .. MaxFaults
    BY <1>3, GrafanaAssumption DEF Stop, Fault, GrafanaTypeOK
  <2> QED
    BY <2>1, <2>2, <2>3, <2>4 DEF GrafanaTypeOK, TokenInv, ProgressOK, cluster, history
<1>4. ASSUME NEW d \in Deployer, Again(d)
      PROVE  GrafanaTypeInv'
  <2>1. faults' \in 0 .. MaxFaults /\ done' \subseteq Deployer
    BY <1>4, GrafanaAssumption DEF Again, Fault, GrafanaTypeOK
  <2>2. UNCHANGED <<cluster, step, chosen, seen, copy, outdated, history>>
    BY <1>4 DEF Again
  <2> QED
    BY <2>1, <2>2 DEF GrafanaTypeOK, TokenInv, SeenInv, Running, cluster, history
<1>5. CASE RouteAppears
  <2>1. loki' \in Url \cup {None}
    BY <1>5 DEF RouteAppears
  <2>2. UNCHANGED <<own, users, grafana, wiring, labelled, step, chosen, seen, copy, outdated,
                    done, history, faults>>
    BY <1>5 DEF RouteAppears
  <2> QED
    BY <2>1, <2>2 DEF GrafanaTypeOK, TokenInv, SeenInv, Running, history
<1>6. CASE UserActs
  <2>1. /\ ClusterOK'
        /\ deleted' \subseteq Object \X Place /\ meddled' \in BOOLEAN
        /\ \A d \in outdated' \ outdated : step[d] > 0 /\ seen[d] = "present" /\ d \in Deployer
        /\ clean' = {} /\ faults' \in 0 .. MaxFaults
        /\ UNCHANGED <<step, chosen, seen, copy, done>>
    BY <1>6, UserType
  <2>2. outdated' \subseteq Running' /\ SeenInv'
    BY <2>1 DEF GrafanaTypeOK, Running, SeenInv
  <2> QED
    BY <2>1, <2>2 DEF GrafanaTypeOK, ClusterOK, Value
<1>7. CASE UNCHANGED grafanaVars
  BY <1>7 DEF grafanaVars, GrafanaTypeOK, TokenInv, SeenInv, Running
<1> QED
  BY <1>1, <1>2, <1>3, <1>4, <1>5, <1>6, <1>7 DEF GrafanaNext

\* What kvoctl, the users and the cluster do keeps every object and every deployment
\* what it is; a copy that was read is outdated only while it is held.
THEOREM GrafanaTypeCorrect == GrafanaSpec => []GrafanaTypeOK
<1>1. GrafanaSpec => []GrafanaTypeInv
  BY GrafanaTypeInit, GrafanaTypeStep, PTL DEF GrafanaSpec
<1> QED
  BY <1>1, PTL DEF GrafanaTypeInv

(***************************************************************************)
(* What users have in a shared object is in the copy that is written back. *)
(***************************************************************************)

\* The copy of d is the object as it is, unless d is known to be outdated.
Current(d) ==
    seen[d] = "present" /\ d \notin outdated =>
        /\ \A o \in ConfigMap : At(d, o) =>
              own[o][Target(d)] # None /\ copy[d].users = users[o][Target(d)]
        /\ At(d, "deployment") =>
              /\ grafana[Target(d)] # None
              /\ copy[d].users = users["deployment"][Target(d)]
              /\ copy[d].wiring = wiring[Target(d)]

CopyInv == \A d \in Deployer : Current(d)

\* A step that leaves e where it is either leaves what e has read or tells e.
Spared(e) ==
    /\ e \in outdated => e \in outdated'
    /\ seen[e] = "present" /\ e \notin outdated' =>
        /\ \A o \in ConfigMap : At(e, o) =>
              /\ own[o][Target(e)] # None => own'[o][Target(e)] # None
              /\ users'[o][Target(e)] = users[o][Target(e)]
        /\ At(e, "deployment") /\ grafana[Target(e)] # None =>
              /\ grafana'[Target(e)] # None
              /\ users'["deployment"][Target(e)] = users["deployment"][Target(e)]
              /\ wiring'[Target(e)] = wiring[Target(e)]

\* A deployer that is spared by a step of another one has a current copy after it.
LEMMA SparedCurrent ==
    ASSUME NEW e \in Deployer, Current(e), Spared(e),
           step'[e] = step[e], chosen'[e] = chosen[e], seen'[e] = seen[e], copy'[e] = copy[e]
    PROVE  Current(e)'
<1>1. Target(e)' = Target(e) /\ \A o : At(e, o)' <=> At(e, o)
  BY DEF Target, At
<1> QED
  BY <1>1 DEF Current, Spared

\* Whoever changes one object, and the part of users in it, spares those it does not
\* tell.
LEMMA SparedByObject ==
    ASSUME GrafanaTypeInv, NEW o \in Object, NEW p \in Place, NEW v, NEW n,
           own' \in {own, [own EXCEPT ![o][p] = v]},
           users' \in {users, [users EXCEPT ![o][p] = n]},
           o \in ConfigMap \/ users' = users,
           NEW e \in Deployer, e \in outdated => e \in outdated',
           \/ o \notin ConfigMap
           \/ own' = own /\ users' = users
           \/ e \in Readers(o, p) => e \in outdated',
           UNCHANGED <<grafana, wiring>>
    PROVE  Spared(e)
<1>0. \A c \in ConfigMap \cup {"deployment"} : At(e, c) => Target(e) \in Place
  BY Kinds, AtReading DEF GrafanaTypeInv
<1> USE Kinds DEF GrafanaTypeInv, GrafanaTypeOK
<1>1. ASSUME NEW c \in ConfigMap, At(e, c), seen[e] = "present", e \notin outdated',
             own[c][Target(e)] # None
      PROVE  own'[c][Target(e)] # None
  <2>1. CASE c = o /\ Target(e) = p
    BY <1>1, <2>1 DEF Readers
  <2>2. CASE ~(c = o /\ Target(e) = p)
    <3>1. own'[c][Target(e)] = own[c][Target(e)]
      BY <1>0, <1>1, <2>2
    <3> QED
      BY <1>1, <3>1
  <2> QED
    BY <2>1, <2>2
<1>2. ASSUME NEW c \in ConfigMap, At(e, c), seen[e] = "present", e \notin outdated'
      PROVE  users'[c][Target(e)] = users[c][Target(e)]
  <2>1. CASE c = o /\ Target(e) = p
    BY <1>2, <2>1 DEF Readers
  <2>2. CASE ~(c = o /\ Target(e) = p)
    BY <1>0, <1>2, <2>2
  <2> QED
    BY <2>1, <2>2
<1>3. users'["deployment"][Target(e)] = users["deployment"][Target(e)]
  BY DEF Shared
<1> QED
  BY <1>1, <1>2, <1>3 DEF Spared

\* So does whoever changes a Deployment.
LEMMA SparedByDeployment ==
    ASSUME GrafanaTypeInv, NEW p \in Place, NEW v, NEW w, NEW n,
           grafana' \in {grafana, [grafana EXCEPT ![p] = v]},
           wiring' \in {wiring, [wiring EXCEPT ![p] = w]},
           users' \in {users, [users EXCEPT !["deployment"][p] = n]},
           NEW e \in Deployer, e \in outdated => e \in outdated',
           \/ grafana[p] = None
           \/ grafana' = grafana /\ wiring' = wiring /\ users' = users
           \/ e \in Readers("deployment", p) => e \in outdated',
           own' = own
    PROVE  Spared(e)
<1>0. \A c \in ConfigMap \cup {"deployment"} : At(e, c) => Target(e) \in Place
  BY Kinds, AtReading DEF GrafanaTypeInv
<1> USE Kinds DEF GrafanaTypeInv, GrafanaTypeOK
<1>1. \A c \in ConfigMap : users'[c] = users[c]
  BY DEF Shared
<1>2. ASSUME At(e, "deployment"), grafana[Target(e)] # None, seen[e] = "present",
             e \notin outdated'
      PROVE  /\ grafana'[Target(e)] # None
             /\ users'["deployment"][Target(e)] = users["deployment"][Target(e)]
             /\ wiring'[Target(e)] = wiring[Target(e)]
  <2>1. CASE Target(e) = p
    BY <1>2, <2>1 DEF Readers
  <2>2. CASE Target(e) # p
    BY <1>0, <1>2, <2>2
  <2> QED
    BY <2>1, <2>2
<1> QED
  BY <1>1, <1>2 DEF Spared

\* What a step of kvoctl leaves to the users of shared objects.
KeepsUsers ==
    \A p \in Place :
      /\ \A o \in ConfigMap : own[o][p] # None => users'[o][p] = users[o][p]
      /\ grafana[p] # None =>
           /\ users'["deployment"][p] = users["deployment"][p]
           /\ \A e \in Entry : wiring[p][e] = "taken" => wiring'[p][e] = "taken"

\* Writing an object spares the other deployers and keeps what users have in it.
LEMMA WriteSpares ==
    ASSUME GrafanaTypeInv, CopyInv, NEW d \in Deployer, Write(d)
    PROVE  KeepsUsers /\ \A e \in Deployer \ {d} : Spared(e)
<1>1. PICK o \in Written :
        /\ At(d, o)
        /\ \/ seen[d] = "absent" /\ own[o][Target(d)] = None /\ Store(d, o, Target(d))
           \/ UNCHANGED <<own, users>> /\ outdated \ {d} \subseteq outdated'
           \/ seen[d] = "present" /\ d \notin outdated /\ Store(d, o, Target(d))
  BY DEF Write
<1>2. UNCHANGED <<grafana, wiring>> /\ Target(d) \in Place /\ o \in Object
  BY <1>1, AtReading, Kinds DEF Write, GrafanaTypeInv
<1>3. CASE UNCHANGED <<own, users>> /\ outdated \ {d} \subseteq outdated'
  BY <1>2, <1>3, SparedByObject DEF KeepsUsers
<1>4. CASE /\ Store(d, o, Target(d))
           /\ \/ seen[d] = "absent" /\ own[o][Target(d)] = None
              \/ seen[d] = "present" /\ d \notin outdated
  <2>1. /\ own' = [own EXCEPT ![o][Target(d)] = Wanted(d, o)]
        /\ users' = IF o \in ConfigMap THEN [users EXCEPT ![o][Target(d)] = copy[d].users]
                    ELSE users
        /\ outdated \ {d} \subseteq outdated'
        /\ \/ own' = own /\ users' = users
           \/ Readers(o, Target(d)) \ {d} \subseteq outdated'
    BY <1>4 DEF Store
  <2>2. ASSUME NEW e \in Deployer \ {d}
        PROVE  Spared(e)
    <3>1. /\ own' \in {own, [own EXCEPT ![o][Target(d)] = Wanted(d, o)]}
          /\ users' \in {users, [users EXCEPT ![o][Target(d)] = copy[d].users]}
          /\ o \in ConfigMap \/ users' = users
      BY <2>1
    <3>2. /\ e \in outdated => e \in outdated'
          /\ \/ own' = own /\ users' = users
             \/ e \in Readers(o, Target(d)) => e \in outdated'
      BY <2>1
    <3> QED
      BY <1>2, <3>1, <3>2, SparedByObject
  <2>3. ASSUME o \in ConfigMap
        PROVE  own[o][Target(d)] = None \/ copy[d].users = users[o][Target(d)]
    BY <1>1, <1>4, <2>3 DEF CopyInv, Current
  <2>4. ASSUME NEW p \in Place, NEW c \in ConfigMap, own[c][p] # None
        PROVE  users'[c][p] = users[c][p]
    BY <2>1, <2>3, <2>4, Kinds DEF GrafanaTypeInv, GrafanaTypeOK
  <2>5. users'["deployment"] = users["deployment"]
    BY <2>1, Kinds DEF GrafanaTypeInv, GrafanaTypeOK
  <2> QED
    BY <1>2, <2>2, <2>4, <2>5 DEF KeepsUsers
<1> QED
  BY <1>1, <1>3, <1>4

\* So does writing the Deployment.
LEMMA WriteDeploymentSpares ==
    ASSUME GrafanaTypeInv, CopyInv, NEW d \in Deployer, WriteDeployment(d)
    PROVE  KeepsUsers /\ \A e \in Deployer \ {d} : Spared(e)
<1> DEFINE p == Target(d)
<1>1. p \in Place /\ own' = own /\ At(d, "deployment")
  BY AtReading DEF WriteDeployment, GrafanaTypeInv
<1>2. \/ /\ UNCHANGED <<grafana, wiring, users>> /\ outdated \ {d} \subseteq outdated'
      \/ /\ grafana[p] = None
         /\ grafana' = [grafana EXCEPT ![p] = Kvoctl]
         /\ wiring' = [wiring EXCEPT ![p] = Wired]
         /\ users' = [users EXCEPT !["deployment"][p] = 0]
         /\ outdated' = outdated
      \/ /\ seen[d] = "present" /\ d \notin outdated /\ ~Refused(copy[d].wiring)
         /\ grafana' = grafana
         /\ wiring' = [wiring EXCEPT ![p] = Wired]
         /\ users' = [users EXCEPT !["deployment"][p] = copy[d].users]
         /\ outdated \subseteq outdated'
         /\ \/ UNCHANGED <<wiring, users>>
            \/ Readers("deployment", p) \ {d} \subseteq outdated'
  BY DEF WriteDeployment
<1>3. CASE UNCHANGED <<grafana, wiring, users>> /\ outdated \ {d} \subseteq outdated'
  BY <1>1, <1>3, SparedByDeployment DEF KeepsUsers
<1>4. CASE /\ grafana[p] = None
           /\ grafana' = [grafana EXCEPT ![p] = Kvoctl]
           /\ wiring' = [wiring EXCEPT ![p] = Wired]
           /\ users' = [users EXCEPT !["deployment"][p] = 0]
           /\ outdated' = outdated
  <2>1. ASSUME NEW e \in Deployer \ {d}
        PROVE  Spared(e)
    <3>1. /\ grafana' \in {grafana, [grafana EXCEPT ![p] = Kvoctl]}
          /\ wiring' \in {wiring, [wiring EXCEPT ![p] = Wired]}
          /\ users' \in {users, [users EXCEPT !["deployment"][p] = 0]}
          /\ e \in outdated => e \in outdated'
          /\ grafana[p] = None
      BY <1>4
    <3> HIDE DEF p
    <3> QED
      BY <1>1, <3>1, SparedByDeployment
  <2>2. \A c \in ConfigMap : users'[c] = users[c]
    BY <1>4, Kinds DEF GrafanaTypeInv, GrafanaTypeOK, Shared
  <2>3. \A q \in Place : grafana[q] # None =>
           users'["deployment"][q] = users["deployment"][q] /\ wiring'[q] = wiring[q]
    BY <1>4 DEF GrafanaTypeInv, GrafanaTypeOK, Shared
  <2> QED
    BY <2>1, <2>2, <2>3 DEF KeepsUsers
<1>5. CASE /\ seen[d] = "present" /\ d \notin outdated /\ ~Refused(copy[d].wiring)
           /\ grafana' = grafana
           /\ wiring' = [wiring EXCEPT ![p] = Wired]
           /\ users' = [users EXCEPT !["deployment"][p] = copy[d].users]
           /\ outdated \subseteq outdated'
           /\ \/ UNCHANGED <<wiring, users>>
              \/ Readers("deployment", p) \ {d} \subseteq outdated'
  <2>1. ASSUME NEW e \in Deployer \ {d}
        PROVE  Spared(e)
    <3>1. /\ grafana' \in {grafana, [grafana EXCEPT ![p] = Kvoctl]}
          /\ wiring' \in {wiring, [wiring EXCEPT ![p] = Wired]}
          /\ users' \in {users, [users EXCEPT !["deployment"][p] = copy[d].users]}
          /\ e \in outdated => e \in outdated'
          /\ \/ grafana' = grafana /\ wiring' = wiring /\ users' = users
             \/ e \in Readers("deployment", p) => e \in outdated'
      BY <1>5
    <3> HIDE DEF p
    <3> QED
      BY <1>1, <3>1, SparedByDeployment
  <2>2. \A c \in ConfigMap : users'[c] = users[c]
    BY <1>5, Kinds DEF GrafanaTypeInv, GrafanaTypeOK, Shared
  <2>3. copy[d].users = users["deployment"][p] /\ copy[d].wiring = wiring[p]
    BY <1>1, <1>5 DEF CopyInv, Current
  <2>4. users' = users
    BY <1>1, <1>5, <2>3 DEF GrafanaTypeInv, GrafanaTypeOK, Shared
  <2>5. \A q \in Place, e \in Entry : wiring[q][e] = "taken" => wiring'[q][e] = "taken"
    BY <1>1, <1>5, <2>3 DEF GrafanaTypeInv, GrafanaTypeOK, Refused
  <2> QED
    BY <2>1, <2>2, <2>4, <2>5 DEF KeepsUsers
<1> QED
  BY <1>2, <1>3, <1>4, <1>5

\* And so does every stage.
LEMMA ProceedSpares ==
    ASSUME GrafanaTypeInv, CopyInv, NEW d \in Deployer, Proceed(d)
    PROVE  KeepsUsers /\ \A e \in Deployer \ {d} : Spared(e)
<1>1. CASE Discover(d) \/ Read(d) \/ ReadDeployment(d)
  BY <1>1 DEF Discover, Read, ReadDeployment, cluster, KeepsUsers, Spared
<1>2. CASE Keep(d)
  <2>1. PICK o \in Kept : own' = own \/ own' = [own EXCEPT ![o][Target(d)] = Kvoctl]
    BY <1>2 DEF Keep
  <2>2. UNCHANGED <<users, grafana, wiring, outdated>> /\ Target(d) \in Place
    BY <1>2, GrafanaAssumption DEF Keep, Target, GrafanaTypeInv, GrafanaTypeOK
  <2>3. o \in Object /\ o \notin ConfigMap
    BY Kinds
  <2> QED
    BY <2>1, <2>2, <2>3, SparedByObject DEF KeepsUsers
<1>3. CASE Write(d)
  BY <1>3, WriteSpares
<1>4. CASE WriteDeployment(d)
  BY <1>4, WriteDeploymentSpares
<1> QED
  BY <1>1, <1>2, <1>3, <1>4 DEF Proceed

\* What has just been read is current.
LEMMA ReadCurrent ==
    ASSUME GrafanaTypeInv, NEW d \in Deployer, Read(d) \/ ReadDeployment(d)
    PROVE  Current(d)'
<1> USE DEF GrafanaTypeInv
<1>1. CASE Read(d)
  <2>1. PICK o \in Written :
          /\ At(d, o)
          /\ \/ Abort(d)
             \/ seen' = [seen EXCEPT ![d] = "absent"]
             \/ /\ own[o][Target(d)] \notin {None, Foreign}
                /\ seen' = [seen EXCEPT ![d] = "present"]
                /\ copy' = IF o \in ConfigMap
                           THEN [copy EXCEPT ![d] = [users |-> users[o][Target(d)],
                                                     wiring |-> Bare]]
                           ELSE copy
                /\ UNCHANGED step
    BY <1>1 DEF Read
  <2>2. /\ UNCHANGED <<own, users, grafana, wiring, chosen>>
        /\ seen \in [Deployer -> {None, "absent", "present"}]
        /\ copy \in [Deployer -> [users : Nat, wiring : Wiring]]
    BY <1>1 DEF Read, cluster, GrafanaTypeOK
  <2>3. CASE Abort(d) \/ seen' = [seen EXCEPT ![d] = "absent"]
    BY <2>2, <2>3 DEF Abort, Forget, Current, None
  <2>4. CASE /\ own[o][Target(d)] \notin {None, Foreign}
             /\ copy' = IF o \in ConfigMap
                        THEN [copy EXCEPT ![d] = [users |-> users[o][Target(d)],
                                                  wiring |-> Bare]]
                        ELSE copy
             /\ UNCHANGED step
    <3>1. \A q : At(d, q)' => q = o
      BY <2>1, <2>4 DEF At
    <3>2. Target(d)' = Target(d)
      BY <2>2, <2>4 DEF Target
    <3> QED
      BY <2>2, <2>4, <3>1, <3>2, Kinds DEF Current
  <2> QED
    BY <2>1, <2>3, <2>4
<1>2. CASE ReadDeployment(d)
  <2>1. /\ At(d, "deployment")
        /\ \/ seen' = [seen EXCEPT ![d] = "absent"]
           \/ /\ grafana[Target(d)] # None
              /\ copy' = [copy EXCEPT ![d] =
                            [users |-> users["deployment"][Target(d)],
                             wiring |-> wiring[Target(d)]]]
        /\ UNCHANGED <<own, users, grafana, wiring, step, chosen>>
    BY <1>2 DEF ReadDeployment, cluster
  <2>2. Target(d)' = Target(d) /\ \A q : At(d, q)' => q = "deployment"
    BY <2>1 DEF Target, At
  <2> QED
    BY <2>1, <2>2, Kinds DEF Current, GrafanaTypeOK
<1> QED
  BY <1>1, <1>2

\* Users spare those whom they have not told.
LEMMA UserSpares ==
    ASSUME GrafanaTypeInv, UserActs, NEW e \in Deployer
    PROVE  Spared(e)
<1> USE Kinds
<1>1. e \in outdated => e \in outdated'
  BY UserType
<1>2. ASSUME NEW p \in Place, EditDeployment(p)
      PROVE  Spared(e)
  <2>1. PICK w : wiring' = [wiring EXCEPT ![p] = w]
    BY <1>2 DEF EditDeployment
  <2>2. /\ grafana' \in {grafana, [grafana EXCEPT ![p] = grafana[p]]} /\ own' = own
        /\ wiring' \in {wiring, [wiring EXCEPT ![p] = w]}
        /\ users' \in {users,
                       [users EXCEPT !["deployment"][p] = users["deployment"][p] + 1]}
        /\ e \in Readers("deployment", p) => e \in outdated'
    BY <1>2, <2>1 DEF EditDeployment
  <2> QED
    BY <1>1, <2>2, SparedByDeployment
<1>3. ASSUME NEW p \in Place, Install(p)
      PROVE  Spared(e)
  <2>1. CASE UNCHANGED <<users, grafana, wiring>>
    BY <1>1, <1>3, <2>1 DEF Install, Spared
  <2>2. CASE ~UNCHANGED <<users, grafana, wiring>>
    <3>1. PICK w : wiring' = [wiring EXCEPT ![p] = w]
      BY <1>3, <2>2 DEF Install
    <3>2. /\ grafana' \in {grafana, [grafana EXCEPT ![p] = Users]} /\ own' = own
          /\ wiring' \in {wiring, [wiring EXCEPT ![p] = w]}
          /\ users' \in {users, [users EXCEPT !["deployment"][p] = 0]}
          /\ grafana[p] = None
      BY <1>3, <2>2, <3>1 DEF Install
    <3> QED
      BY <1>1, <3>2, SparedByDeployment
  <2> QED
    BY <2>1, <2>2
<1>4. ASSUME NEW p \in Place, Uninstall(p)
      PROVE  Spared(e)
  <2>1. CASE UNCHANGED <<users, grafana, wiring>>
    BY <1>1, <1>4, <2>1 DEF Uninstall, Spared
  <2>2. CASE ~UNCHANGED <<users, grafana, wiring>>
    <3>1. /\ grafana' \in {grafana, [grafana EXCEPT ![p] = None]} /\ own' = own
          /\ wiring' \in {wiring, [wiring EXCEPT ![p] = Bare]}
          /\ users' \in {users, [users EXCEPT !["deployment"][p] = 0]}
          /\ e \in Readers("deployment", p) => e \in outdated'
      BY <1>4, <2>2 DEF Uninstall
    <3> QED
      BY <1>1, <3>1, SparedByDeployment
  <2> QED
    BY <2>1, <2>2
<1>5. ASSUME NEW p \in Place, NEW o \in ConfigMap, EditConfigMap(o, p)
      PROVE  Spared(e)
  <2>1. PICK v : own' = [own EXCEPT ![o][p] = v]
    BY <1>5 DEF EditConfigMap
  <2>2. /\ own' \in {own, [own EXCEPT ![o][p] = v]} /\ o \in Object
        /\ users' \in {users, [users EXCEPT ![o][p] = users[o][p] + 1]}
        /\ e \in Readers(o, p) => e \in outdated'
        /\ UNCHANGED <<grafana, wiring>>
    BY <1>5, <2>1 DEF EditConfigMap
  <2> QED
    BY <1>1, <2>2, SparedByObject
<1>6. ASSUME NEW p \in Place, NEW o \in Object, NEW v \in Value,
             (Delete(o, p) /\ v = None) \/ Spoil(o, p, v)
      PROVE  Spared(e)
  <2>1. /\ own' \in {own, [own EXCEPT ![o][p] = v]}
        /\ users' \in {users, [users EXCEPT ![o][p] = 0]}
        /\ o \in ConfigMap \/ users' = users
        /\ e \in Readers(o, p) => e \in outdated'
        /\ UNCHANGED <<grafana, wiring>>
    BY <1>6 DEF Delete, Spoil
  <2> QED
    BY <1>1, <2>1, SparedByObject
<1>7. ASSUME MoveLoki
      PROVE  Spared(e)
  BY <1>1, <1>7 DEF MoveLoki, Spared
<1> QED
  BY <1>2, <1>3, <1>4, <1>5, <1>6, <1>7, GrafanaAssumption DEF UserActs, Value

\* Every step leaves the copies current that it does not outdate, and a step that is
\* not a user's keeps what is theirs.
LEMMA CopyStep ==
    ASSUME GrafanaTypeInv, CopyInv, [GrafanaNext]_grafanaVars
    PROVE  CopyInv' /\ (UserActs \/ KeepsUsers \/ UNCHANGED grafanaVars)
<1>0. /\ step \in [Deployer -> 0 .. 17]
      /\ seen \in [Deployer -> {None, "absent", "present"}]
      /\ chosen \in [Deployer -> [place : Place, found : BOOLEAN, url : Url \cup {None}]]
      /\ ProgressOK
  BY TypeProgress, PlanLength DEF GrafanaTypeInv, GrafanaTypeOK
<1>1. ASSUME NEW d \in Deployer, Begin(d) \/ Overlap(d)
      PROVE  CopyInv' /\ KeepsUsers
  <2>1. /\ step' = [step EXCEPT ![d] = 1] /\ step[d] = 0
        /\ chosen' = [chosen EXCEPT ![d] = Undecided]
        /\ UNCHANGED <<cluster, seen, copy, outdated>>
    BY <1>1 DEF Begin, Overlap
  <2>2. seen'[d] = None
    BY <2>1 DEF GrafanaTypeInv, SeenInv, Reading
  <2>3. ASSUME NEW e \in Deployer \ {d}
        PROVE  Current(e)'
    <3>1. Spared(e)
      BY <2>1 DEF Spared, cluster
    <3>2. step'[e] = step[e] /\ chosen'[e] = chosen[e]
      BY <1>0, <2>1
    <3> QED
      BY <2>1, <3>1, <3>2, SparedCurrent DEF CopyInv
  <2> QED
    BY <2>1, <2>2, <2>3 DEF CopyInv, Current, KeepsUsers, cluster, None
<1>2. ASSUME NEW d \in Deployer, Proceed(d)
      PROVE  CopyInv' /\ KeepsUsers
  <2>1. Moves(d) /\ KeepsUsers /\ \A e \in Deployer \ {d} : Spared(e)
    BY <1>2, ProceedMoves, ProceedSpares DEF GrafanaTypeInv
  <2>2. Current(d)'
    <3>1. CASE Read(d) \/ ReadDeployment(d)
      BY <3>1, ReadCurrent
    <3>2. CASE ~(Read(d) \/ ReadDeployment(d))
      <4>1. GoOn(d) \/ Abort(d)
        BY <1>2, <3>2 DEF Proceed, Discover, Keep, Write, WriteDeployment
      <4>2. seen'[d] = None
        BY <1>0, <4>1 DEF GoOn, Abort, Forget
      <4> QED
        BY <4>2 DEF Current, None
    <3> QED
      BY <3>1, <3>2
  <2>3. ASSUME NEW e \in Deployer \ {d}
        PROVE  Current(e)'
    <3>1. chosen'[e] = chosen[e]
      BY <1>0, <1>2 DEF Proceed, Discover, Keep, Read, Write, ReadDeployment, WriteDeployment
    <3> QED
      BY <2>1, <3>1, SparedCurrent DEF CopyInv, Moves, OthersStay
  <2> QED
    BY <2>1, <2>2, <2>3 DEF CopyInv
<1>3. ASSUME NEW d \in Deployer, Stop(d)
      PROVE  CopyInv' /\ KeepsUsers
  <2>1. OthersStay(d) /\ seen'[d] = None
    BY <1>0, <1>3, AbortProgress DEF Stop
  <2>2. outdated' = outdated \ {d} /\ UNCHANGED <<cluster, chosen>>
    BY <1>3 DEF Stop
  <2>3. ASSUME NEW e \in Deployer \ {d}
        PROVE  Current(e)'
    <3>1. Spared(e)
      BY <2>2 DEF Spared, cluster
    <3> QED
      BY <2>1, <2>2, <3>1, SparedCurrent DEF CopyInv, OthersStay
  <2> QED
    BY <2>1, <2>2, <2>3 DEF CopyInv, Current, KeepsUsers, cluster, None
<1>4. CASE UserActs
  <2>1. \A e \in Deployer : Spared(e)
    BY <1>4, UserSpares
  <2>2. UNCHANGED <<step, chosen, seen, copy>>
    BY <1>4, UserType
  <2> QED
    BY <1>4, <2>1, <2>2, SparedCurrent DEF CopyInv
<1>5. CASE \/ \E d \in Deployer : Again(d)
           \/ RouteAppears
           \/ UNCHANGED grafanaVars
  <2>1. UNCHANGED <<own, users, grafana, wiring, step, chosen, seen, copy, outdated>>
    BY <1>5 DEF Again, RouteAppears, grafanaVars, cluster
  <2>2. ASSUME NEW e \in Deployer
        PROVE  Current(e)'
    BY <2>1, SparedCurrent DEF CopyInv, Spared
  <2> QED
    BY <2>1, <2>2 DEF CopyInv, KeepsUsers
<1> QED
  BY <1>1, <1>2, <1>3, <1>4, <1>5 DEF GrafanaNext

\* UsersWorkKept for any number of deployers: the resourceVersion that is sent back
\* protects every edit that falls between the two requests.
THEOREM UsersWorkSafe == GrafanaSpec => UsersWorkKept
<1>1. GrafanaInit => CopyInv
  BY DEF GrafanaInit, CopyInv, Current, None
<1>2. GrafanaTypeInv /\ CopyInv /\ [GrafanaNext]_grafanaVars
        => (GrafanaTypeInv /\ CopyInv)' /\ [UserActs \/ KeepsUsers]_grafanaVars
  BY GrafanaTypeStep, CopyStep
<1>3. GrafanaSpec => [][UserActs \/ KeepsUsers]_grafanaVars
  BY <1>1, <1>2, GrafanaTypeInit, PTL DEF GrafanaSpec
<1> QED
  BY <1>3 DEF UsersWorkKept, KeepsUsers

(***************************************************************************)
(* What the entries of a Deployment refer to.                              *)
(***************************************************************************)

Referred == ConfigMap \cup Token
Had(o, p) == own[o][p] # None \/ <<o, p>> \in deleted

\* Behind it, a deployer has every object that is referred to, in the namespace it has
\* found; and the address that it writes is one.
Passed == \A d \in Deployer, o \in Referred : step[d] > Nr[o] => Had(o, chosen[d].place)
UrlKnown == \A d \in Deployer : step[d] > 5 => chosen[d].url \in Url

\* The plan comes to each of these objects.
LEMMA PlanAt ==
    ASSUME GrafanaTypeOK, NEW d \in Deployer, NEW o \in Single, step[d] = Nr[o]
    PROVE  At(d, o) /\ \A q : At(d, q) => q = o
BY DEF At, Plan, InOwn, InChosen, Nr, Single, Written, Binding, ConfigMap, Token

\* What is referred to is an object with a place of its own in the second half.
LEMMA ReferredFacts ==
    ASSUME NEW o \in Referred
    PROVE  o \in Single /\ o \in Object /\ Nr[o] \in 10 .. 14
<1>1. o \in Single
  BY Kinds DEF Referred, Single
<1>2. o \in Object /\ Nr[o] \in 10 .. 14
  BY Kinds, NumberFacts DEF Referred
<1> QED
  BY <1>1, <1>2

\* What a deployer writes is something.
LEMMA WantedSome ==
    ASSUME UrlKnown, NEW d \in Deployer, NEW o \in Written, step[d] > 5
    PROVE  Wanted(d, o) # None
BY GrafanaAssumption DEF UrlKnown, Wanted, None, Kvoctl

\* Changing one object keeps all that is had if it is noted when the object is lost.
LEMMA HadByObject ==
    ASSUME GrafanaTypeInv, NEW q \in Object, NEW r \in Place, NEW v,
           own' = [own EXCEPT ![q][r] = v], deleted \ {<<q, r>>} \subseteq deleted',
           v # None \/ <<q, r>> \in deleted',
           NEW o \in Referred, NEW p \in Place, Had(o, p)
    PROVE  Had(o, p)'
<1>1. own \in [Object -> [Place -> Value]] /\ o \in Object
  BY ClusterType, ReferredFacts DEF GrafanaTypeInv, ClusterOK
<1>2. own'[o][p] = IF o = q /\ p = r THEN v ELSE own[o][p]
  BY <1>1
<1>3. CASE o = q /\ p = r
  BY <1>2, <1>3 DEF Had
<1>4. CASE ~(o = q /\ p = r)
  BY <1>2, <1>4 DEF Had
<1> QED
  BY <1>3, <1>4

\* No step loses what is referred to without its being noted.
LEMMA HadKept ==
    ASSUME GrafanaTypeInv, UrlKnown, [GrafanaNext]_grafanaVars,
           NEW o \in Referred, NEW p \in Place, Had(o, p)
    PROVE  Had(o, p)'
<1> USE Kinds
<1>1. CASE UNCHANGED <<own, deleted>>
  BY <1>1 DEF Had
<1>2. ASSUME NEW d \in Deployer, Keep(d)
      PROVE  Had(o, p)'
  <2>1. PICK q \in Kept : \/ UNCHANGED <<own, deleted>>
                          \/ /\ own' = [own EXCEPT ![q][Target(d)] = Kvoctl]
                             /\ deleted' = deleted \ {<<q, Target(d)>>}
    BY <1>2 DEF Keep
  <2>2. Target(d) \in Place /\ q \in Object /\ Kvoctl # None
    BY GrafanaAssumption DEF Target, GrafanaTypeInv, GrafanaTypeOK, Kvoctl, None
  <2> QED
    BY <1>1, <2>1, <2>2, HadByObject
<1>3. ASSUME NEW d \in Deployer, Write(d)
      PROVE  Had(o, p)'
  <2>1. PICK q \in Written :
          /\ At(d, q)
          /\ UNCHANGED <<own, deleted>> \/ Store(d, q, Target(d))
    BY <1>3 DEF Write
  <2>2. CASE Store(d, q, Target(d))
    <3>1. /\ own' = [own EXCEPT ![q][Target(d)] = Wanted(d, q)]
          /\ deleted' = deleted \ {<<q, Target(d)>>}
      BY <2>2 DEF Store
    <3>2. Target(d) \in Place /\ q \in Object /\ step[d] = Nr[q]
      BY <2>1, AtReading DEF GrafanaTypeInv
    <3>3. Wanted(d, q) # None
      <4>1. CASE q \in ConfigMap
        BY <3>2, <4>1, NumberFacts, WantedSome
      <4>2. CASE q \notin ConfigMap
        BY <4>2 DEF Wanted, ConfigMap, Kvoctl, None
      <4> QED
        BY <4>1, <4>2
    <3> QED
      BY <3>1, <3>2, <3>3, HadByObject
  <2> QED
    BY <1>1, <2>1, <2>2
<1>4. ASSUME NEW r \in Place, NEW q \in ConfigMap, EditConfigMap(q, r)
      PROVE  Had(o, p)'
  <2>1. PICK v \in {own[q][r], Users} : own' = [own EXCEPT ![q][r] = v]
    BY <1>4 DEF EditConfigMap
  <2>2. v # None /\ deleted \ {<<q, r>>} \subseteq deleted'
    BY <1>4, <2>1 DEF EditConfigMap, Users, None
  <2>3. q \in Object
    OBVIOUS
  <2> QED
    BY <2>1, <2>2, <2>3, HadByObject
<1>5. ASSUME NEW r \in Place, NEW q \in Object, NEW v, (Delete(q, r) /\ v = None) \/ Spoil(q, r, v)
      PROVE  Had(o, p)'
  <2>1. own' = [own EXCEPT ![q][r] = v] /\ deleted' = deleted \cup {<<q, r>>}
    BY <1>5 DEF Delete, Spoil
  <2> QED
    BY <2>1, HadByObject
<1>6. CASE \/ \E d \in Deployer : \/ Begin(d) \/ Overlap(d) \/ Discover(d) \/ Read(d)
                                  \/ ReadDeployment(d) \/ WriteDeployment(d)
                                  \/ Stop(d) \/ Again(d)
           \/ RouteAppears \/ MoveLoki \/ UNCHANGED grafanaVars
           \/ \E r \in Place : EditDeployment(r) \/ Install(r) \/ Uninstall(r)
  <2>1. ASSUME NEW d \in Deployer,
               \/ Begin(d) \/ Overlap(d) \/ Discover(d) \/ Read(d)
               \/ ReadDeployment(d) \/ WriteDeployment(d) \/ Stop(d) \/ Again(d)
        PROVE  UNCHANGED <<own, deleted>>
    BY <2>1 DEF Begin, Overlap, Discover, Read, ReadDeployment, WriteDeployment, Stop, Again,
                cluster, history
  <2>2. ASSUME RouteAppears \/ MoveLoki \/ UNCHANGED grafanaVars
        PROVE  UNCHANGED <<own, deleted>>
    BY <2>2 DEF RouteAppears, MoveLoki, grafanaVars, history
  <2>3. ASSUME NEW r \in Place, EditDeployment(r) \/ Install(r) \/ Uninstall(r)
        PROVE  UNCHANGED <<own, deleted>>
    BY <2>3 DEF EditDeployment, Install, Uninstall
  <2> QED
    BY <1>1, <1>6, <2>1, <2>2, <2>3
<1>7. CASE UserActs
  BY <1>4, <1>5, <1>6, <1>7, GrafanaAssumption DEF UserActs
<1> QED
  BY <1>2, <1>3, <1>6, <1>7 DEF GrafanaNext, Proceed

\* Each deployer takes a stage, begins, ends or stays where it is.
LEMMA Course ==
    ASSUME GrafanaTypeInv, [GrafanaNext]_grafanaVars, NEW e \in Deployer
    PROVE  \/ Proceed(e) /\ Moves(e) /\ (At(e, "discover") \/ chosen'[e] = chosen[e])
           \/ step'[e] \in {0, 1}
           \/ step'[e] = step[e] /\ chosen'[e] = chosen[e]
<1>0. /\ step \in [Deployer -> 0 .. 17]
      /\ chosen \in [Deployer -> [place : Place, found : BOOLEAN, url : Url \cup {None}]]
  BY TypeProgress DEF GrafanaTypeInv, GrafanaTypeOK
<1>1. ASSUME NEW d \in Deployer, Begin(d) \/ Overlap(d)
      PROVE  step'[e] = 1 \/ (step'[e] = step[e] /\ chosen'[e] = chosen[e])
  BY <1>0, <1>1 DEF Begin, Overlap
<1>2. ASSUME NEW d \in Deployer, Stop(d)
      PROVE  step'[e] = 0 \/ (step'[e] = step[e] /\ chosen'[e] = chosen[e])
  BY <1>0, <1>2 DEF Stop, Abort
<1>3. ASSUME NEW d \in Deployer, Proceed(d)
      PROVE  \/ Proceed(e) /\ Moves(e) /\ (At(e, "discover") \/ chosen'[e] = chosen[e])
             \/ step'[e] = step[e] /\ chosen'[e] = chosen[e]
  <2>1. Moves(d) /\ (~At(d, "discover") => chosen' = chosen)
    BY <1>3, ProceedMoves, ProceedType DEF GrafanaTypeInv
  <2>2. CASE e = d
    BY <1>3, <2>1, <2>2
  <2>3. CASE e # d
    <3>1. chosen'[e] = chosen[e]
      BY <1>0, <1>3, <2>3 DEF Proceed, Discover, Keep, Read, Write, ReadDeployment,
                              WriteDeployment
    <3> QED
      BY <2>1, <2>3, <3>1 DEF Moves, OthersStay
  <2> QED
    BY <2>2, <2>3
<1>4. CASE UserActs
  BY <1>4, UserType
<1>5. CASE (\E d \in Deployer : Again(d)) \/ RouteAppears \/ UNCHANGED grafanaVars
  BY <1>5 DEF Again, RouteAppears, grafanaVars
<1> QED
  BY <1>1, <1>2, <1>3, <1>4, <1>5 DEF GrafanaNext

\* A deployer gets past an object only with the stage that is about it.
LEMMA Crossing ==
    ASSUME GrafanaTypeInv, NEW d \in Deployer, Proceed(d), NEW o \in Single,
           step[d] <= Nr[o], step'[d] > Nr[o]
    PROVE  /\ step[d] = Nr[o] /\ At(d, o) /\ \A q : At(d, q) => q = o
           /\ step'[d] # step[d] /\ step'[d] # 0
<1>1. Moves(d) /\ Nr[o] \in Nat
  <2>1. Nr[o] \in Nat
    BY DEF Nr, Single, Written, Binding, ConfigMap, Token
  <2> QED
    BY <2>1, ProceedMoves DEF GrafanaTypeInv
<1>2. step[d] = Nr[o] /\ step'[d] # step[d] /\ step'[d] # 0
  BY <1>1 DEF Moves
<1> QED
  BY <1>2, PlanAt DEF GrafanaTypeInv

\* The address is known once Discover has been passed.
LEMMA UrlStep ==
    ASSUME GrafanaTypeInv, UrlKnown, [GrafanaNext]_grafanaVars
    PROVE  UrlKnown'
<1> SUFFICES ASSUME NEW d \in Deployer, step'[d] > 5
             PROVE  chosen'[d].url \in Url
  BY DEF UrlKnown
<1>1. CASE Proceed(d) /\ Moves(d) /\ (At(d, "discover") \/ chosen'[d] = chosen[d])
  <2>1. CASE step[d] > 5
    <3>1. ~At(d, "discover")
      BY <2>1, AtSingle, NumberFacts, TypeProgress DEF Single, GrafanaTypeInv
    <3> QED
      BY <1>1, <2>1, <3>1 DEF UrlKnown
  <2>2. CASE step[d] <= 5
    <3>1. At(d, "discover") /\ (\A q : At(d, q) => q = "discover")
          /\ step'[d] # step[d] /\ step'[d] # 0
      BY <1>1, <2>2, Crossing, NumberFacts DEF Single
    <3>2. Discover(d)
      BY <1>1, <3>1 DEF Proceed, Keep, Read, Write, ReadDeployment, WriteDeployment, Kept,
                        Written, Token, Binding, ConfigMap
    <3>3. ~Abort(d)
      BY <3>1 DEF Abort, GrafanaTypeInv, GrafanaTypeOK
    <3> QED
      BY <3>2, <3>3 DEF Discover, GrafanaTypeInv, GrafanaTypeOK
  <2> QED
    BY <1>1, <2>1, <2>2 DEF Moves
<1>2. CASE step'[d] = step[d] /\ chosen'[d] = chosen[d]
  BY <1>2 DEF UrlKnown
<1>3. CASE step'[d] \in {0, 1}
  BY <1>3
<1> QED
  BY <1>1, <1>2, <1>3, Course

\* A deployer that gets past an object that is referred to leaves it behind.
LEMMA PassedStep ==
    ASSUME GrafanaTypeInv, UrlKnown, Passed, [GrafanaNext]_grafanaVars
    PROVE  Passed'
<1> SUFFICES ASSUME NEW d \in Deployer, NEW o \in Referred, step'[d] > Nr[o]
             PROVE  Had(o, chosen[d].place)'
  BY DEF Passed
<1>0. /\ o \in Single /\ o \in Object /\ Nr[o] \in 10 .. 14
      /\ chosen[d].place \in Place
  BY ReferredFacts DEF GrafanaTypeInv, GrafanaTypeOK
<1>1. ASSUME step[d] > Nr[o], chosen'[d] = chosen[d]
      PROVE  Had(o, chosen[d].place)'
  <2>1. Had(o, chosen[d].place)
    BY <1>1 DEF Passed
  <2> QED
    BY <1>0, <1>1, <2>1, HadKept
<1>2. CASE Proceed(d) /\ Moves(d) /\ (At(d, "discover") \/ chosen'[d] = chosen[d])
  <2>1. CASE step[d] > Nr[o]
    <3>1. ~At(d, "discover")
      BY <1>0, <2>1, AtSingle, NumberFacts, TypeProgress DEF Single, GrafanaTypeInv
    <3> QED
      BY <1>1, <1>2, <2>1, <3>1
  <2>2. CASE step[d] <= Nr[o]
    <3>1. /\ At(d, o) /\ (\A q : At(d, q) => q = o) /\ step[d] = Nr[o]
          /\ step'[d] # step[d] /\ step'[d] # 0
      BY <1>0, <1>2, <2>2, Crossing
    <3>2. Target(d) = chosen[d].place /\ chosen'[d] = chosen[d]
      BY <1>0, <1>2, <3>1, AtSingle, TypeProgress DEF GrafanaTypeInv, Referred, ConfigMap, Token
    <3>3. ~Abort(d)
      BY <3>1 DEF Abort, GrafanaTypeInv, GrafanaTypeOK
    <3>4. CASE o \in Token
      <4>1. Keep(d)
        BY <1>2, <3>1, <3>4 DEF Proceed, Discover, Keep, Read, Write, ReadDeployment,
                                WriteDeployment, Written, Binding, ConfigMap, Token
      <4>2. ~Skips(d, o)
        BY <3>4 DEF Skips, Token
      <4>3. \/ own' = own /\ own[o][Target(d)] # None
            \/ own' = [own EXCEPT ![o][Target(d)] = Kvoctl]
        BY <3>1, <3>3, <4>1, <4>2 DEF Keep
      <4> QED
        BY <1>0, <3>2, <4>3 DEF Had, GrafanaTypeInv, GrafanaTypeOK, Kvoctl, None
    <3>5. CASE o \in ConfigMap
      <4>1. Read(d) \/ Write(d)
        BY <1>2, <3>1, <3>5 DEF Proceed, Discover, Keep, ReadDeployment, WriteDeployment,
                                Kept, ConfigMap, Token
      <4>2. Write(d)
        BY <3>1, <3>3, <4>1 DEF Read
      <4>3. \/ own' = own /\ own[o][Target(d)] # None
            \/ own' = [own EXCEPT ![o][Target(d)] = Wanted(d, o)]
        BY <3>1, <3>3, <4>2 DEF Write, Store
      <4>4. Wanted(d, o) # None
        BY <1>0, <3>1, <3>5, Kinds, WantedSome
      <4> QED
        BY <1>0, <3>2, <4>3, <4>4 DEF Had, GrafanaTypeInv, GrafanaTypeOK
    <3> QED
      BY <3>4, <3>5 DEF Referred
  <2> QED
    BY <1>0, <1>2, <2>1, <2>2 DEF Moves
<1>3. CASE step'[d] = step[d] /\ chosen'[d] = chosen[d]
  BY <1>1, <1>3
<1>4. CASE step'[d] \in {0, 1}
  BY <1>0, <1>4
<1> QED
  BY <1>2, <1>3, <1>4, Course

\* The entries of a Deployment are made in the stage after what they refer to.
LEMMA WiredBy ==
    ASSUME GrafanaTypeInv, [GrafanaNext]_grafanaVars, NEW p \in Place, NEW e \in Entry,
           wiring'[p][e] = "wired", wiring[p][e] # "wired"
    PROVE  \E d \in Deployer : step[d] = 16 /\ p = chosen[d].place
<1>0. wiring \in [Place -> Wiring] /\ GrafanaTypeOK
  BY DEF GrafanaTypeInv, GrafanaTypeOK
<1>1. ASSUME wiring' = wiring
      PROVE  FALSE
  BY <1>1
<1>2. ASSUME NEW d \in Deployer, WriteDeployment(d)
      PROVE  step[d] = 16 /\ p = chosen[d].place
  <2>1. step[d] = 16 /\ Target(d) = chosen[d].place
    BY <1>0, <1>2, AtReading, NumberFacts DEF WriteDeployment
  <2>2. wiring' = wiring \/ wiring' = [wiring EXCEPT ![Target(d)] = Wired]
    BY <1>2 DEF WriteDeployment
  <2> QED
    BY <1>0, <2>1, <2>2
<1>3. ASSUME NEW d \in Deployer, Proceed(d)
      PROVE  step[d] = 16 /\ p = chosen[d].place
  BY <1>1, <1>2, <1>3 DEF Proceed, Discover, Keep, Read, Write, ReadDeployment, cluster
<1>4. ASSUME NEW r \in Place, EditDeployment(r) \/ Install(r) \/ Uninstall(r)
      PROVE  FALSE
  <2>1. CASE wiring' = wiring
    BY <1>1, <2>1
  <2>2. CASE \E w \in Wiring : /\ \A x \in Entry : w[x] = "wired" => wiring[r][x] = "wired"
                               /\ wiring' = [wiring EXCEPT ![r] = w]
    BY <1>0, <2>2
  <2>3. EditDeployment(r) =>
          \E w \in Wiring : /\ \A x \in Entry : w[x] = "wired" => wiring[r][x] = "wired"
                            /\ wiring' = [wiring EXCEPT ![r] = w]
    BY DEF EditDeployment
  <2>4. Install(r) =>
          \/ wiring' = wiring
          \/ \E w \in Wiring : /\ \A x \in Entry : w[x] = "wired" => wiring[r][x] = "wired"
                               /\ wiring' = [wiring EXCEPT ![r] = w]
    BY DEF Install
  <2>5. Uninstall(r) => wiring' = wiring \/ wiring' = [wiring EXCEPT ![r] = Bare]
    BY DEF Uninstall
  <2>6. Bare \in Wiring /\ \A x \in Entry : Bare[x] # "wired"
    BY Wirings DEF Bare
  <2> QED
    BY <1>4, <2>1, <2>2, <2>3, <2>4, <2>5, <2>6
<1>5. CASE UserActs
  BY <1>1, <1>4, <1>5 DEF UserActs, EditConfigMap, Delete, Spoil, MoveLoki
<1>6. CASE UNCHANGED grafanaVars \/ RouteAppears
  BY <1>1, <1>6 DEF grafanaVars, RouteAppears
<1>7. ASSUME NEW d \in Deployer, Begin(d) \/ Overlap(d) \/ Stop(d) \/ Again(d)
      PROVE  FALSE
  BY <1>1, <1>7 DEF Begin, Overlap, Stop, Again, cluster
<1> QED
  BY <1>3, <1>5, <1>6, <1>7 DEF GrafanaNext

EntryInv == UrlKnown /\ Passed /\ EntriesResolve

\* Every step keeps the entries resolvable.
LEMMA EntryStep == GrafanaTypeInv /\ EntryInv /\ [GrafanaNext]_grafanaVars => EntryInv'
<1> SUFFICES ASSUME GrafanaTypeInv, EntryInv, [GrafanaNext]_grafanaVars
             PROVE  EntryInv'
  OBVIOUS
<1> USE DEF EntryInv
<1>1. UrlKnown' /\ Passed'
  BY UrlStep, PassedStep
<1>2. ASSUME NEW p \in Place, NEW o \in Referred,
             wiring'[p][IF o \in Token THEN "tokens" ELSE "volumes"] = "wired"
      PROVE  Had(o, p)'
  <2> DEFINE e == IF o \in Token THEN "tokens" ELSE "volumes"
  <2>1. CASE wiring[p][e] = "wired"
    <3>1. Had(o, p)
      BY <2>1 DEF EntriesResolve, Had, Referred
    <3> QED
      BY <3>1, HadKept
  <2>2. CASE wiring[p][e] # "wired"
    <3>1. PICK d \in Deployer : step[d] = 16 /\ p = chosen[d].place
      BY <1>2, <2>2, WiredBy DEF Entry
    <3>2. Had(o, p)
      BY <3>1, ReferredFacts DEF Passed
    <3> QED
      BY <3>2, HadKept
  <2> QED
    BY <2>1, <2>2
<1> QED
  BY <1>1, <1>2 DEF EntriesResolve, Had, Referred

\* EntriesResolve wherever any number of deployments stop: the Deployment comes last.
THEOREM EntriesSafe == GrafanaSpec => []EntriesResolve
<1>1. GrafanaInit => EntryInv
  <2> SUFFICES ASSUME GrafanaInit
               PROVE  EntryInv
    OBVIOUS
  <2>1. UrlKnown /\ Passed
    BY ReferredFacts DEF GrafanaInit, UrlKnown, Passed
  <2>2. \A p \in Place, e \in Entry : wiring[p][e] # "wired"
    BY DEF GrafanaInit
  <2> QED
    BY <2>1, <2>2 DEF EntryInv, EntriesResolve, Entry
<1>2. GrafanaSpec => []EntryInv
  BY <1>1, GrafanaTypeInit, GrafanaTypeStep, EntryStep, PTL DEF GrafanaSpec
<1> QED
  BY <1>2, PTL DEF EntryInv

(***************************************************************************)
(* One Grafana.                                                            *)
(***************************************************************************)

\* As long as users leave the Grafanas alone, there is at most kvoctl's own and nothing
\* else, and what a deployer has found out about it stays true.
OnlyInv ==
    labelled = {} /\ ~meddled =>
        /\ \A p, q \in Place : grafana[p] = Kvoctl /\ grafana[q] # None => p = q
        /\ \A d \in Deployer : step[d] > 5 =>
             \/ chosen[d].found /\ grafana[chosen[d].place] # None
             \/ /\ ~chosen[d].found /\ chosen[d].place = Own
                /\ \A q \in Place : grafana[q] # None => q = Own

\* Then only a deployer that has found no Grafana at its place makes one.
LEMMA MadeBy ==
    ASSUME GrafanaTypeInv, [GrafanaNext]_grafanaVars, ~meddled'
    PROVE  /\ labelled' = labelled /\ ~meddled
           /\ \/ grafana' = grafana
              \/ \E d \in Deployer :
                   /\ step[d] = 16 /\ grafana[chosen[d].place] = None
                   /\ grafana' = [grafana EXCEPT ![chosen[d].place] = Kvoctl]
                   /\ step' # step /\ chosen' = chosen
                   /\ \A e \in Deployer : step'[e] > 5 => step[e] > 5
<1>1. ASSUME NEW d \in Deployer, WriteDeployment(d)
      PROVE  /\ labelled' = labelled /\ meddled' = meddled
             /\ \/ grafana' = grafana
                \/ /\ step[d] = 16 /\ grafana[chosen[d].place] = None
                   /\ grafana' = [grafana EXCEPT ![chosen[d].place] = Kvoctl]
                   /\ step' # step /\ chosen' = chosen
                   /\ \A e \in Deployer : step'[e] > 5 => step[e] > 5
  <2>1. step[d] = 16 /\ Target(d) = chosen[d].place
    BY <1>1, AtReading, NumberFacts DEF WriteDeployment, GrafanaTypeInv
  <2>2. CASE GoOn(d)
    <3>1. step'[d] = 17 /\ \A e \in Deployer \ {d} : step'[e] = step[e]
      BY <2>1, <2>2, GoOnProgress, TypeProgress DEF OthersStay, GrafanaTypeInv
    <3> QED
      BY <1>1, <2>1, <3>1 DEF WriteDeployment, history
  <2>3. CASE ~GoOn(d)
    BY <1>1, <2>3 DEF WriteDeployment, history
  <2> QED
    BY <2>2, <2>3
<1>2. ASSUME NEW d \in Deployer,
             \/ Begin(d) \/ Overlap(d) \/ Stop(d) \/ Again(d)
             \/ Discover(d) \/ Keep(d) \/ Read(d) \/ Write(d) \/ ReadDeployment(d)
      PROVE  labelled' = labelled /\ grafana' = grafana /\ meddled' = meddled
  BY <1>2 DEF Begin, Overlap, Stop, Again, Discover, Keep, Read, Write, ReadDeployment,
              cluster, history
<1>3. CASE UserActs
  <2>1. ASSUME NEW p \in Place, NEW o, NEW v,
               EditDeployment(p) \/ EditConfigMap(o, p) \/ Delete(o, p) \/ Spoil(o, p, v)
        PROVE  labelled' = labelled /\ grafana' = grafana /\ meddled' = meddled
    BY <2>1 DEF EditDeployment, EditConfigMap, Delete, Spoil
  <2>2. MoveLoki => labelled' = labelled /\ grafana' = grafana /\ meddled' = meddled
    BY DEF MoveLoki
  <2>3. \A p \in Place : ~Install(p) /\ ~Uninstall(p)
    BY DEF Install, Uninstall
  <2> QED
    BY <1>3, <2>1, <2>2, <2>3, GrafanaAssumption DEF UserActs
<1>4. CASE RouteAppears \/ UNCHANGED grafanaVars
  BY <1>4 DEF RouteAppears, grafanaVars, history
<1> QED
  BY <1>1, <1>2, <1>3, <1>4 DEF GrafanaNext, Proceed

\* Passing Discover, a deployer has found a Grafana, or there is none.
LEMMA Discovered ==
    ASSUME GrafanaTypeInv, NEW d \in Deployer, Proceed(d), step[d] <= 5, step'[d] > 5,
           labelled = {}
    PROVE  \/ chosen'[d].found /\ grafana[chosen'[d].place] # None
           \/ /\ ~chosen'[d].found /\ chosen'[d].place = Own
              /\ \A q \in Place : grafana[q] = None
<1>1. At(d, "discover") /\ (\A q : At(d, q) => q = "discover")
      /\ step'[d] # step[d] /\ step'[d] # 0
  BY Crossing, NumberFacts DEF Single
<1>2. Discover(d)
  BY <1>1 DEF Proceed, Keep, Read, Write, ReadDeployment, WriteDeployment, Kept,
              Written, Token, Binding, ConfigMap
<1>3. ~Abort(d)
  BY <1>1 DEF Abort, GrafanaTypeInv, GrafanaTypeOK
<1>4. \/ \E p \in FoundIn : chosen' =
            [chosen EXCEPT ![d] = [place |-> p, found |-> TRUE, url |-> loki]]
      \/ /\ FoundIn = {}
         /\ chosen' = [chosen EXCEPT ![d] = [place |-> Own, found |-> FALSE, url |-> loki]]
  BY <1>2, <1>3 DEF Discover
<1>5. FoundIn = {p \in Place : grafana[p] # None}
  BY DEF FoundIn
<1> QED
  BY <1>4, <1>5 DEF GrafanaTypeInv, GrafanaTypeOK

\* Every step keeps it.
LEMMA OnlyStep == GrafanaTypeInv /\ OnlyInv /\ [GrafanaNext]_grafanaVars => OnlyInv'
<1> SUFFICES ASSUME GrafanaTypeInv, OnlyInv, [GrafanaNext]_grafanaVars,
                    labelled' = {}, ~meddled'
             PROVE  /\ \A p, q \in Place : grafana'[p] = Kvoctl /\ grafana'[q] # None => p = q
                    /\ \A d \in Deployer : step'[d] > 5 =>
                         \/ chosen'[d].found /\ grafana'[chosen'[d].place] # None
                         \/ /\ ~chosen'[d].found /\ chosen'[d].place = Own
                            /\ \A q \in Place : grafana'[q] # None => q = Own
  BY DEF OnlyInv
<1>0. labelled = {} /\ ~meddled
  BY MadeBy
<1>1. /\ grafana \in [Place -> {None, Kvoctl, Users}]
      /\ \A d \in Deployer : chosen[d].place \in Place /\ step[d] \in 0 .. 17
  BY TypeProgress DEF GrafanaTypeInv, GrafanaTypeOK
<1>2. CASE grafana' = grafana
  <2>1. ASSUME NEW d \in Deployer, step'[d] > 5
        PROVE  \/ chosen'[d].found /\ grafana[chosen'[d].place] # None
               \/ /\ ~chosen'[d].found /\ chosen'[d].place = Own
                  /\ \A q \in Place : grafana[q] # None => q = Own
    <3>1. CASE Proceed(d) /\ Moves(d) /\ (At(d, "discover") \/ chosen'[d] = chosen[d])
      <4>1. CASE step[d] <= 5
        BY <1>0, <2>1, <3>1, <4>1, Discovered
      <4>2. CASE step[d] > 5
        <5>1. ~At(d, "discover")
          BY <4>2, AtSingle, NumberFacts, TypeProgress DEF Single, GrafanaTypeInv
        <5> QED
          BY <1>0, <3>1, <4>2, <5>1 DEF OnlyInv
      <4> QED
        BY <1>1, <4>1, <4>2
    <3>2. CASE step'[d] = step[d] /\ chosen'[d] = chosen[d]
      BY <1>0, <2>1, <3>2 DEF OnlyInv
    <3> QED
      BY <2>1, <3>1, <3>2, Course
  <2> QED
    BY <1>0, <1>2, <2>1 DEF OnlyInv
<1>3. CASE grafana' # grafana
  <2>1. PICK d \in Deployer :
          /\ step[d] = 16 /\ grafana[chosen[d].place] = None
          /\ grafana' = [grafana EXCEPT ![chosen[d].place] = Kvoctl]
          /\ chosen' = chosen
          /\ \A e \in Deployer : step'[e] > 5 => step[e] > 5
    BY <1>3, MadeBy
  <2>2. chosen[d].place = Own /\ \A q \in Place : grafana[q] # None => q = Own
    BY <1>0, <2>1 DEF OnlyInv
  <2>3. \A q \in Place : grafana'[q] # None => q = Own
    BY <1>1, <2>1, <2>2
  <2>4. \A q \in Place : grafana[q] # None => grafana'[q] # None
    BY <1>1, <2>1, <2>2
  <2> QED
    BY <1>0, <1>1, <2>1, <2>3, <2>4 DEF OnlyInv
<1> QED
  BY <1>2, <1>3

\* OneGrafana however many deployments overlap, in any number of namespaces: whoever
\* finds none makes one in the same namespace, where the second finds it.
THEOREM OneGrafanaSafe == GrafanaSpec => []OneGrafana
<1>1. GrafanaInit => OnlyInv
  BY DEF GrafanaInit, OnlyInv, Kvoctl, Users, None
<1>2. OnlyInv => OneGrafana
  BY DEF OnlyInv, OneGrafana
<1>3. GrafanaSpec => []OnlyInv
  BY <1>1, GrafanaTypeInit, GrafanaTypeStep, OnlyStep, PTL DEF GrafanaSpec
<1> QED
  BY <1>2, <1>3, PTL

(***************************************************************************)
(* What an undisturbed deployment leaves.                                  *)
(***************************************************************************)

Reached(d, i) == d \in done \/ step[d] > i

\* What the stage about o has to leave for d.
Fine(d, o) ==
    IF o \in Binding \cup {"reader-role"} THEN own[o][Own] = Kvoctl
    ELSE IF o \in ConfigMap THEN own[o][chosen[d].place] = Wanted(d, o)
    ELSE IF o \in Token THEN own[o][chosen[d].place] = Kvoctl
    ELSE IF o \in {"service", "route"} THEN chosen[d].found \/ own[o][chosen[d].place] # None
    ELSE IF o = "deployment"
         THEN grafana[chosen[d].place] # None /\ wiring[chosen[d].place] = Wired
    ELSE chosen[d].url = loki /\ loki # None

\* An undisturbed deployer runs alone, has what it has passed, and what it has not
\* found is still missing.
Absence(d) ==
    seen[d] = "absent" =>
        /\ \A o \in Written : At(d, o) => own[o][Target(d)] = None
        /\ At(d, "deployment") => grafana[Target(d)] = None

Undisturbed(d) ==
    /\ Running \subseteq {d}
    /\ \A o \in Single : Reached(d, Nr[o]) => Fine(d, o)
    /\ Reached(d, 2) => own["account"][Own] # None
    /\ Absence(d)

CleanInv == /\ \A d \in done : step[d] = 0
            /\ \A d \in clean : Undisturbed(d)

\* A stage is about one object, and leaves the rest of the cluster as it is.
LEMMA ProceedChanges ==
    ASSUME GrafanaTypeInv, NEW d \in Deployer, Proceed(d)
    PROVE  \E q : /\ At(d, q)
                  /\ \A o \in Object \ {q} : own'[o] = own[o]
                  /\ q # "deployment" => UNCHANGED <<grafana, wiring>>
                  /\ q # "discover" => chosen' = chosen
                  /\ loki' = loki
                  /\ own["account"][Own] # None => own'["account"][Own] # None
<1> USE Kinds
<1>0. own \in [Object -> [Place -> Value]] /\ "account" \in Object
  BY ClusterType DEF GrafanaTypeInv, ClusterOK, Object, Kept
<1>1. CASE Discover(d)
  BY <1>1 DEF Discover, cluster
<1>2. CASE Keep(d)
  <2>1. PICK q \in Kept : /\ At(d, q)
                          /\ own' = own \/ own' = [own EXCEPT ![q][Target(d)] = Kvoctl]
    BY <1>2 DEF Keep
  <2>2. \A o \in Object \ {q} : own'[o] = own[o]
    BY <1>0, <2>1
  <2>3. own["account"][Own] # None => own'["account"][Own] # None
    BY <1>0, <2>1, GrafanaAssumption DEF Kvoctl, None
  <2> QED
    BY <1>2, <2>1, <2>2, <2>3 DEF Keep
<1>3. CASE Read(d)
  <2>1. PICK q \in Written : At(d, q)
    BY <1>3 DEF Read
  <2> QED
    BY <1>3, <2>1 DEF Read, cluster
<1>4. CASE Write(d)
  <2>1. PICK q \in Written : /\ At(d, q)
                             /\ \/ own' = own
                                \/ own' = [own EXCEPT ![q][Target(d)] = Wanted(d, q)]
    BY <1>4 DEF Write, Store
  <2>2. \A o \in Object \ {q} : own'[o] = own[o]
    BY <1>0, <2>1
  <2>3. "account" # q
    BY DEF Written, Binding, ConfigMap
  <2> QED
    BY <1>0, <1>4, <2>1, <2>2, <2>3 DEF Write
<1>5. CASE ReadDeployment(d) \/ WriteDeployment(d)
  BY <1>5 DEF ReadDeployment, WriteDeployment, cluster
<1> QED
  BY <1>1, <1>2, <1>3, <1>4, <1>5 DEF Proceed

\* What has been passed stays as it is.
LEMMA FineStays ==
    ASSUME GrafanaTypeInv, NEW d \in Deployer, Proceed(d), NEW o \in Single,
           step[d] > Nr[o], Fine(d, o)
    PROVE  Fine(d, o)'
<1>1. PICK q : /\ At(d, q)
               /\ \A x \in Object \ {q} : own'[x] = own[x]
               /\ q # "deployment" => UNCHANGED <<grafana, wiring>>
               /\ q # "discover" => chosen' = chosen
               /\ loki' = loki
  BY ProceedChanges
<1>2. q # o
  BY <1>1, AtSingle, TypeProgress, NumberFacts DEF GrafanaTypeInv
<1>3. o \in Object => own'[o] = own[o]
  BY <1>1, <1>2
<1>4. CASE q = "discover"
  <2>1. step[d] = 5
    BY <1>1, <1>4, AtSingle, TypeProgress, NumberFacts DEF GrafanaTypeInv, Single
  <2>2. o \in {"reader-role", "reader-binding"}
    BY <2>1 DEF Nr, Single, Written, Binding, ConfigMap, Token
  <2> QED
    BY <1>3, <2>2 DEF Fine, Binding, Object, Written
<1>5. CASE q # "discover"
  <2>1. CASE o \in Object
    BY <1>1, <1>3, <1>5, <2>1, Kinds DEF Fine, Wanted, Object, Kept, Written
  <2>2. CASE o = "discover" \/ o = "deployment"
    BY <1>1, <1>2, <1>5, <2>2 DEF Fine, Binding, ConfigMap, Token
  <2> QED
    BY <2>1, <2>2 DEF Single, Object, Kept
<1> QED
  BY <1>4, <1>5

\* The stage about o leaves what it has to.
LEMMA FineMade ==
    ASSUME GrafanaTypeInv, CopyInv, NEW d \in Deployer, Absence(d), Proceed(d),
           NEW o \in Single, step[d] = Nr[o], d \in done' \ done \/ step'[d] > Nr[o]
    PROVE  Fine(d, o)'
<1> USE Kinds
<1>0. /\ At(d, o) /\ (\A q : At(d, q) => q = o) /\ step[d] \in 1 .. 17
      /\ Target(d) = IF Nr[o] <= 8 THEN Own ELSE chosen[d].place
      /\ chosen[d].place \in Place /\ Own \in Place
      /\ own \in [Object -> [Place -> Value]]
  BY PlanAt, AtSingle, TypeProgress, ClusterType, GrafanaAssumption
  DEF GrafanaTypeInv, GrafanaTypeOK, ClusterOK, At
<1>1. ~Abort(d) /\ ~Read(d) /\ ~ReadDeployment(d)
  <2>1. ~Abort(d)
    BY <1>0 DEF Abort, GrafanaTypeInv, GrafanaTypeOK
  <2> QED
    BY <1>0, <2>1 DEF Read, ReadDeployment
<1>2. CASE Discover(d)
  <2>1. o = "discover"
    BY <1>0, <1>2 DEF Discover
  <2>2. loki' = loki /\ chosen'[d].url = loki /\ loki # None
    BY <1>1, <1>2 DEF Discover, cluster, GrafanaTypeInv, GrafanaTypeOK
  <2> QED
    BY <2>1, <2>2 DEF Fine, Binding, ConfigMap, Token
<1>3. CASE Keep(d)
  <2>1. /\ o \in Kept /\ chosen' = chosen
        /\ \/ own' = own /\ (Skips(d, o) \/ (own[o][Target(d)] # None /\ ~Impossible(o, Target(d))))
           \/ own' = [own EXCEPT ![o][Target(d)] = Kvoctl]
    BY <1>0, <1>1, <1>3 DEF Keep
  <2>2. CASE o \in Token
    <3>1. Target(d) = chosen[d].place
      BY <1>0, <2>2, NumberFacts
    <3>2. own'[o][Target(d)] = Kvoctl
      BY <1>0, <2>1, <2>2, <3>1 DEF Skips, Impossible, Token, TokenInv, GrafanaTypeInv
    <3> QED
      BY <2>1, <2>2, <3>1, <3>2 DEF Fine, Binding, ConfigMap, Token
  <2>3. CASE o \in {"service", "route"}
    <3>1. Target(d) = chosen[d].place
      BY <1>0, <2>3, NumberFacts
    <3>2. chosen[d].found \/ own'[o][Target(d)] # None
      BY <1>0, <2>1, <2>3, <3>1 DEF Skips, Kvoctl, None
    <3> QED
      BY <2>1, <2>3, <3>1, <3>2 DEF Fine, Binding, ConfigMap, Token
  <2> QED
    BY <2>1, <2>2, <2>3 DEF Kept, Single, Written, Binding, ConfigMap
<1>4. CASE Write(d)
  <2>1. /\ o \in Written /\ chosen' = chosen
        /\ \/ Store(d, o, Target(d))
           \/ seen[d] = "absent" /\ own[o][Target(d)] # None
    BY <1>0, <1>1, <1>4 DEF Write
  <2>2. own' = [own EXCEPT ![o][Target(d)] = Wanted(d, o)]
    BY <1>0, <2>1 DEF Store, Absence
  <2>3. CASE o \in ConfigMap
    <3>1. Target(d) = chosen[d].place
      BY <1>0, <2>3, NumberFacts
    <3>2. own'[o][chosen[d].place] = Wanted(d, o)
      BY <1>0, <2>1, <2>2, <3>1
    <3> QED
      BY <2>1, <2>3, <3>2 DEF Fine, Wanted, Binding, ConfigMap
  <2>4. CASE o \in Binding \cup {"reader-role"}
    <3>1. Target(d) = Own
      BY <1>0, <2>4, NumberFacts DEF Binding
    <3>2. Wanted(d, o) = Kvoctl
      BY <2>4 DEF Wanted, Binding
    <3>3. own'[o][Own] = Kvoctl
      BY <1>0, <2>1, <2>2, <3>1, <3>2
    <3> QED
      BY <2>4, <3>3 DEF Fine
  <2> QED
    BY <2>1, <2>3, <2>4 DEF Written
<1>5. CASE WriteDeployment(d)
  <2>1. o = "deployment" /\ chosen' = chosen
    BY <1>0, <1>5 DEF WriteDeployment
  <2>2. Target(d) = chosen[d].place /\ At(d, "deployment")
    BY <1>0, <2>1, NumberFacts
  <2>3. /\ grafana \in [Place -> {None, Kvoctl, Users}]
        /\ wiring \in [Place -> Wiring]
    BY DEF GrafanaTypeInv, GrafanaTypeOK
  <2>4. grafana'[Target(d)] # None /\ wiring'[Target(d)] = Wired
    <3>1. CASE seen[d] = "absent"
      <4>1. grafana[Target(d)] = None
        BY <2>2, <3>1 DEF Absence
      <4>2. /\ grafana' = [grafana EXCEPT ![Target(d)] = Kvoctl]
            /\ wiring' = [wiring EXCEPT ![Target(d)] = Wired]
        BY <1>5, <3>1, <4>1 DEF WriteDeployment
      <4> QED
        BY <1>0, <2>2, <2>3, <4>2 DEF Kvoctl, None
    <3>2. CASE seen[d] = "present"
      <4>1. /\ d \notin outdated /\ grafana' = grafana
            /\ wiring' = [wiring EXCEPT ![Target(d)] = Wired]
        BY <1>1, <1>5, <3>2 DEF WriteDeployment
      <4>2. grafana[Target(d)] # None
        BY <2>2, <3>2, <4>1 DEF CopyInv, Current
      <4> QED
        BY <1>0, <2>2, <2>3, <4>1, <4>2
    <3> QED
      BY <1>5, <3>1, <3>2 DEF WriteDeployment
  <2> QED
    BY <2>1, <2>2, <2>4 DEF Fine, Binding, ConfigMap, Token
<1> QED
  BY <1>1, <1>2, <1>3, <1>4, <1>5 DEF Proceed

\* What has just been looked for and not been found is missing.
LEMMA AbsenceStep ==
    ASSUME GrafanaTypeInv, NEW d \in Deployer, Proceed(d)
    PROVE  Absence(d)'
<1>0. seen \in [Deployer -> {None, "absent", "present"}]
  BY DEF GrafanaTypeInv, GrafanaTypeOK
<1>1. CASE GoOn(d) \/ Abort(d)
  BY <1>0, <1>1 DEF GoOn, Abort, Forget, Absence, None
<1>2. CASE Read(d) /\ ~Abort(d)
  <2>1. PICK o \in Written :
          /\ At(d, o)
          /\ \/ own[o][Target(d)] = None
             \/ seen' = [seen EXCEPT ![d] = "present"]
    BY <1>2 DEF Read
  <2>2. UNCHANGED <<own, grafana, step, chosen>>
    BY <1>2 DEF Read, cluster
  <2>3. Target(d)' = Target(d) /\ \A q : At(d, q)' => q = o
    BY <2>1, <2>2 DEF Target, At
  <2> QED
    BY <1>0, <2>1, <2>2, <2>3, Kinds DEF Absence
<1>3. CASE ReadDeployment(d)
  <2>1. /\ At(d, "deployment")
        /\ \/ grafana[Target(d)] = None
           \/ seen' = [seen EXCEPT ![d] = "present"]
        /\ UNCHANGED <<own, grafana, step, chosen>>
    BY <1>3 DEF ReadDeployment, cluster
  <2>2. Target(d)' = Target(d) /\ \A q : At(d, q)' => q = "deployment"
    BY <2>1 DEF Target, At
  <2> QED
    BY <1>0, <2>1, <2>2, Kinds DEF Absence
<1> QED
  BY <1>1, <1>2, <1>3 DEF Proceed, Discover, Keep, Write, WriteDeployment

\* A stage of an undisturbed deployer leaves it undisturbed.
LEMMA UndisturbedStage ==
    ASSUME GrafanaTypeInv, CopyInv, NEW d \in Deployer, d \notin done, Undisturbed(d),
           Proceed(d)
    PROVE  Undisturbed(d)'
<1>1. Moves(d)
  BY ProceedMoves DEF GrafanaTypeInv
<1>2. Running' \subseteq {d}
  BY <1>1 DEF Undisturbed, Moves, OthersStay, Running
<1>3. Absence(d)'
  BY AbsenceStep
<1>4. ASSUME NEW o \in Single, Reached(d, Nr[o])'
      PROVE  Fine(d, o)'
  <2>1. Nr[o] \in 1 .. 17
    BY DEF Nr, Single, Written, Binding, ConfigMap, Token
  <2>2. d \in done' \ done \/ step'[d] > Nr[o]
    BY <1>4 DEF Reached
  <2>3. CASE step[d] > Nr[o]
    BY <2>3, FineStays DEF Undisturbed, Reached
  <2>4. CASE step[d] <= Nr[o]
    <3>1. step[d] = Nr[o]
      BY <1>1, <2>1, <2>2, <2>4 DEF Moves
    <3> QED
      BY <2>2, <3>1, FineMade DEF Undisturbed
  <2> QED
    BY <1>1, <2>1, <2>3, <2>4 DEF Moves
<1>5. ASSUME Reached(d, 2)'
      PROVE  own'["account"][Own] # None
  <2>1. CASE step[d] > 2
    BY <2>1, ProceedChanges DEF Undisturbed, Reached
  <2>2. CASE step[d] <= 2
    <3>1. step[d] = 2 /\ step'[d] = 3
      BY <1>1, <1>5, <2>2 DEF Moves, Reached, Reading
    <3>2. \A q : At(d, q) <=> q = "account"
      BY <3>1 DEF At, Plan, InOwn
    <3>3. Keep(d) /\ ~Abort(d)
      <4>1. ~Abort(d)
        BY <3>1 DEF Abort, GrafanaTypeInv, GrafanaTypeOK
      <4> QED
        BY <3>2, <4>1 DEF Proceed, Discover, Read, Write, ReadDeployment, WriteDeployment,
                          Written, Binding, ConfigMap
    <3>4. Target(d) = Own /\ Own \in Place
      BY <3>1, GrafanaAssumption DEF Target, Plan, InOwn
    <3>5. \/ own' = own /\ own["account"][Own] # None
          \/ own' = [own EXCEPT !["account"][Own] = Kvoctl]
      BY <3>2, <3>3, <3>4 DEF Keep, Skips
    <3>6. own \in [Object -> [Place -> Value]] /\ "account" \in Object
      BY ClusterType DEF GrafanaTypeInv, ClusterOK, Object, Kept
    <3> QED
      BY <3>4, <3>5, <3>6 DEF Kvoctl, None
  <2> QED
    BY <1>1, <2>1, <2>2 DEF Moves
<1> QED
  BY <1>2, <1>3, <1>4, <1>5 DEF Undisturbed

\* Every step leaves undisturbed those who stay undisturbed.
LEMMA CleanStep ==
    GrafanaTypeInv /\ CopyInv /\ CleanInv /\ [GrafanaNext]_grafanaVars => CleanInv'
<1> SUFFICES ASSUME GrafanaTypeInv, CopyInv, CleanInv, [GrafanaNext]_grafanaVars
             PROVE  CleanInv'
  OBVIOUS
<1>0. /\ step \in [Deployer -> 0 .. 17] /\ ProgressOK
      /\ done \subseteq Deployer /\ clean \subseteq Deployer
      /\ seen \in [Deployer -> {None, "absent", "present"}]
  BY TypeProgress DEF GrafanaTypeInv, GrafanaTypeOK
<1>1. ASSUME NEW d \in Deployer, Begin(d)
      PROVE  CleanInv'
  <2>1. /\ step' = [step EXCEPT ![d] = 1] /\ step[d] = 0 /\ Running = {} /\ d \notin done
        /\ clean' = {d} /\ done' = done /\ seen' = seen
    BY <1>1 DEF Begin
  <2>2. seen[d] = None
    BY <2>1 DEF GrafanaTypeInv, SeenInv, Reading
  <2>3. \A i \in 1 .. 17 : ~Reached(d, i)'
    BY <1>0, <2>1 DEF Reached
  <2>4. \A o \in Single : Nr[o] \in 1 .. 17
    BY DEF Nr, Single, Written, Binding, ConfigMap, Token
  <2>5. Running' \subseteq {d}
    BY <1>0, <2>1 DEF Running
  <2>6. Undisturbed(d)'
    BY <2>1, <2>2, <2>3, <2>4, <2>5 DEF Undisturbed, Absence, None
  <2> QED
    BY <1>0, <2>1, <2>6 DEF CleanInv
<1>2. ASSUME NEW d \in Deployer, Overlap(d)
      PROVE  CleanInv'
  BY <1>0, <1>2 DEF Overlap, CleanInv
<1>3. ASSUME NEW d \in Deployer, Proceed(d)
      PROVE  CleanInv'
  <2>1. Moves(d) /\ clean' = clean
    BY <1>3, ProceedMoves, ProceedType DEF GrafanaTypeInv
  <2>2. d \notin done
    BY <2>1 DEF CleanInv, Moves
  <2>3. ASSUME NEW c \in clean
        PROVE  Undisturbed(c)'
    <3>1. c = d
      BY <1>0, <2>1, <2>3 DEF CleanInv, Undisturbed, Running, Moves
    <3> QED
      BY <1>3, <2>2, <2>3, <3>1, UndisturbedStage DEF CleanInv
  <2>4. ASSUME NEW c \in done'
        PROVE  step'[c] = 0
    BY <1>0, <2>1, <2>2 DEF CleanInv, Moves, OthersStay, ProgressOK
  <2> QED
    BY <2>1, <2>3, <2>4 DEF CleanInv
<1>4. ASSUME NEW d \in Deployer, Stop(d)
      PROVE  CleanInv'
  <2>1. /\ OthersStay(d) /\ seen'[d] = None /\ step'[d] = 0 /\ done' = done
    BY <1>0, <1>4, AbortProgress DEF Stop
  <2>2. clean' = clean /\ step[d] > 0 /\ d \notin done
    BY <1>4 DEF Stop, history, CleanInv
  <2>3. ASSUME NEW c \in clean
        PROVE  Undisturbed(c)'
    <3>1. c = d
      BY <1>0, <2>2, <2>3 DEF CleanInv, Undisturbed, Running
    <3>2. Running' \subseteq {d}
      BY <2>1, <2>3, <3>1 DEF CleanInv, Undisturbed, Running, OthersStay
    <3>3. \A i \in Nat : ~Reached(d, i)'
      BY <2>1, <2>2 DEF Reached
    <3>4. \A o \in Single : Nr[o] \in Nat
      BY DEF Nr, Single, Written, Binding, ConfigMap, Token
    <3> QED
      BY <2>1, <3>1, <3>2, <3>3, <3>4 DEF Undisturbed, Absence, None
  <2> QED
    BY <1>0, <2>1, <2>2, <2>3 DEF CleanInv, OthersStay
<1>5. ASSUME \/ \E d \in Deployer : Again(d)
             \/ RouteAppears
             \/ UNCHANGED grafanaVars
      PROVE  CleanInv'
  <2>1. /\ UNCHANGED <<own, grafana, wiring, step, chosen, seen, clean>>
        /\ done' \subseteq done /\ (loki # None => loki' = loki)
    BY <1>5 DEF Again, RouteAppears, grafanaVars, cluster, history
  <2>2. ASSUME NEW d \in clean
        PROVE  Undisturbed(d)'
    <3>1. Undisturbed(d)
      BY DEF CleanInv
    <3>2. Running' = Running /\ Absence(d)' = Absence(d)
      BY <2>1 DEF Running, Absence, At, Target
    <3>3. ASSUME NEW o \in Single, Fine(d, o)
          PROVE  Fine(d, o)'
      BY <2>1, <3>3 DEF Fine, Wanted
    <3>4. \A i : Reached(d, i)' => Reached(d, i)
      BY <2>1 DEF Reached
    <3> QED
      BY <2>1, <3>1, <3>2, <3>3, <3>4 DEF Undisturbed
  <2> QED
    BY <2>1, <2>2 DEF CleanInv
<1>6. CASE UserActs
  BY <1>6, UserType DEF CleanInv
<1> QED
  BY <1>1, <1>2, <1>3, <1>4, <1>5, <1>6 DEF GrafanaNext

\* ProvisionedWhenDone, whatever the deployment has found in the cluster.
THEOREM ProvisionedSafe == GrafanaSpec => []ProvisionedWhenDone
<1>1. GrafanaInit => CopyInv /\ CleanInv
  BY DEF GrafanaInit, CopyInv, Current, None, CleanInv
<1>2. ASSUME GrafanaTypeInv, CleanInv
      PROVE  ProvisionedWhenDone
  <2> SUFFICES ASSUME NEW d \in done \cap clean
               PROVE  LET p == chosen[d].place IN
                      /\ grafana[p] # None /\ wiring[p] = Wired
                      /\ own["datasources"][p] = loki /\ own["dashboards"][p] = d
                      /\ \A o \in Token \cup {"provider"} : own[o][p] = Kvoctl
                      /\ own["account"][Own] # None
                      /\ \A o \in Binding \cup {"reader-role"} : own[o][Own] = Kvoctl
                      /\ ~chosen[d].found => \A o \in {"service", "route"} : own[o][p] # None
    BY DEF ProvisionedWhenDone
  <2>1. /\ \A o \in Single : Fine(d, o)
        /\ own["account"][Own] # None
    BY <1>2 DEF CleanInv, Undisturbed, Reached
  <2>2. Fine(d, "discover") /\ Fine(d, "deployment") /\ Fine(d, "service") /\ Fine(d, "route")
    BY <2>1 DEF Single
  <2>3. \A o \in Written \cup Token : Fine(d, o)
    BY <2>1 DEF Single
  <2>4. grafana[chosen[d].place] # None /\ wiring[chosen[d].place] = Wired
    BY <2>2 DEF Fine, Binding, ConfigMap, Token
  <2>5. ~chosen[d].found => \A o \in {"service", "route"} : own[o][chosen[d].place] # None
    BY <2>2 DEF Fine, Binding, ConfigMap, Token
  <2>6. chosen[d].url = loki
    BY <2>2 DEF Fine, Binding, ConfigMap, Token
  <2>7. \A o \in ConfigMap : own[o][chosen[d].place] = Wanted(d, o)
    BY <2>3 DEF Fine, Written, Binding, ConfigMap
  <2>8. \A o \in Token : own[o][chosen[d].place] = Kvoctl
    BY <2>3 DEF Fine, Binding, ConfigMap, Token
  <2>9. \A o \in Binding \cup {"reader-role"} : own[o][Own] = Kvoctl
    BY <2>3 DEF Fine, Written
  <2> QED
    BY <2>1, <2>4, <2>5, <2>6, <2>7, <2>8, <2>9 DEF Wanted, ConfigMap
<1>3. GrafanaSpec => [](GrafanaTypeInv /\ CopyInv /\ CleanInv)
  <2>1. GrafanaTypeInv /\ CopyInv /\ [GrafanaNext]_grafanaVars => CopyInv'
    BY CopyStep
  <2> QED
    BY <1>1, <2>1, GrafanaTypeInit, GrafanaTypeStep, CleanStep, PTL DEF GrafanaSpec
<1> QED
  BY <1>2, <1>3, PTL
=============================================================================
