---------------------------- MODULE DeployProofs ----------------------------
(***************************************************************************)
(* Proofs about Deploy, for any number of deployments and of faults.       *)
(***************************************************************************)
EXTENDS Deploy, TLAPS

(***************************************************************************)
(* The plan.                                                               *)
(***************************************************************************)

\* The place of each object in the plan.
Place ==
    [o \in Object |->
        CASE o = "logging-namespace" -> 1
          [] o = "operator-group" -> 2
          [] o = "subscription" -> 3
          [] o = "storage" -> 5
          [] o = "lokistack" -> 6
          [] o = "collector" -> 8
          [] o = "collector-role" -> 9
          [] o = "forwarder" -> 10
          [] o = "grafana-token" -> 12
          [] o = "slack" -> 13
          [] o = "namespace" -> 14
          [] o = "public-key" -> 15
          [] o = "private-key" -> 16
          [] o = "writer-token" -> 17
          [] o = "account" -> 18
          [] o = "operator-role" -> 19
          [] o = "operator-binding" -> 20
          [] o = "service" -> 21
          [] o = "operator" -> 23
          [] OTHER -> 24]

\* The plan of Run has 25 stages.
LEMMA PlanLength == Len(Plan) = 25
BY DEF Plan

\* Each object is made at one place of the plan.
LEMMA Makes ==
    ASSUME NEW i \in 1 .. 25, NEW o \in Object, Plan[i] = Make(o)
    PROVE  i = Place[o]
BY DEF Plan, Make, Wait, Place, Object, Olm, Loki, Logging, Token, KeyHalf, Manifest

\* The waits are at the other places; the one before the operator is made is for
\* the certificate of the Service.
LEMMA Waits ==
    ASSUME NEW i \in 1 .. 25, NEW o \in Waited, Plan[i] = Wait(o)
    PROVE  /\ i \in {4, 7, 11, 22, 25}
           /\ i = 22 => o = "service"
BY DEF Plan, Make, Wait, Waited

\* What the proofs need to know of the places.
LEMMA Places ==
    /\ \A o \in Object : Place[o] \in 1 .. 24 \ {4, 7, 11, 22}
    /\ \A o \in Object : Place[o] = 15 <=> o = "public-key"
    /\ \A o \in Object : Place[o] = 16 <=> o = "private-key"
    /\ \A o \in Object : Place[o] = 17 <=> o = "writer-token"
    /\ \A o \in Manifest \ {"webhook"} : Place[o] < 24
    /\ \A o \in Manifest : o \in Object \ (KeyHalf \cup Optional)
    /\ \A o \in Object : Place[o] = 24 <=> o = "webhook"
    /\ \A o, p \in Object : Place[o] = Place[p] => o = p
BY DEF Place, Optional, Object, Olm, Loki, Logging, Token, KeyHalf, Manifest

\* The place of a deployment that makes an object.
LEMMA AtMake ==
    ASSUME DeployTypeOK, NEW d \in Deployment, NEW o \in Object, At(d, Make(o))
    PROVE  step[d] = Place[o] /\ step[d] \in 1 .. 24
<1>1. step[d] \in 1 .. 25
  BY PlanLength DEF DeployTypeOK, At
<1> QED
  BY <1>1, Makes, Places DEF At

\* The place of a deployment that waits for one.
LEMMA AtWait ==
    ASSUME DeployTypeOK, NEW d \in Deployment, NEW o \in Waited, At(d, Wait(o))
    PROVE  step[d] \in {4, 7, 11, 22, 25} /\ (step[d] = 22 => o = "service")
<1>1. step[d] \in 1 .. 25
  BY PlanLength DEF DeployTypeOK, At
<1> QED
  BY <1>1, Waits DEF At

(***************************************************************************)
(* What a stage does to the deployment that takes it.                      *)
(***************************************************************************)

\* The variables of the deployments themselves have their types.
ProgressOK ==
    /\ step \in [Deployment -> 0 .. 25]
    /\ seen \in [Deployment -> {None, "absent", "present"}]
    /\ done \subseteq Deployment

\* A stage leaves the other deployments where they are, and the deployment stays,
\* goes on, or ends; d is done only after the last stage.
Progress(d) ==
    /\ \A e \in Deployment \ {d} : /\ step'[e] = step[e]
                                   /\ seen'[e] = seen[e]
                                   /\ e \in done' <=> e \in done
    /\ d \in done' => d \in done \/ step[d] = 25
    /\ done \subseteq done'
    /\ \/ step'[d] = step[d] + 1 /\ step[d] < 25
       \/ step'[d] = step[d]
       \/ step'[d] = 0
       \/ step'[d] = step[d] + 2 /\ step[d] = 15

\* Going on to the next stage.
LEMMA GoOnProgress ==
    ASSUME DeployTypeOK, NEW d \in Deployment, step[d] > 0, GoOn(d)
    PROVE  /\ ProgressOK' /\ Progress(d)
           /\ seen'[d] = None
           /\ step[d] < 25 => step'[d] = step[d] + 1 /\ done' = done
           /\ step[d] = 25 => step'[d] = 0
BY PlanLength DEF DeployTypeOK, ProgressOK, Progress, GoOn

\* Ending with an error.
LEMMA AbortProgress ==
    ASSUME DeployTypeOK, NEW d \in Deployment, Abort(d)
    PROVE  /\ ProgressOK' /\ Progress(d)
           /\ step'[d] = 0 /\ seen'[d] = None /\ done' = done
BY PlanLength DEF DeployTypeOK, ProgressOK, Progress, Abort

(***************************************************************************)
(* Type correctness.                                                       *)
(***************************************************************************)

\* The initial state has the types.
LEMMA DeployTypeInit == DeployInit => DeployTypeOK
BY PlanLength, DeployAssumption DEF DeployInit, DeployTypeOK

\* What a deployment writes, and what a controller reports.
LEMMA WantedType ==
    ASSUME NEW d \in Deployment, NEW o \in Object
    PROVE  Wanted(d, o) \in Deployment \cup {Kvoctl}
BY DEF Wanted

\* Storing an object keeps the types.
LEMMA StoreType ==
    ASSUME DeployTypeOK, NEW d \in Deployment, NEW o \in Object, Store(d, o)
    PROVE  /\ spec' \in [Object -> Deployment \cup {None, Foreign, Kvoctl}]
           /\ status' \in [Object -> Deployment \cup {None, Failed, Foreign, Kvoctl}]
           /\ expired' \subseteq Token
           /\ outdated' \subseteq Deployment
BY WantedType DEF Store, DeployTypeOK, Readers

\* A deployment that goes on to the other half of the key pair, or to the stage
\* after it, keeps the types.
LEMMA WriteDoneProgress ==
    ASSUME DeployTypeOK, NEW d \in Deployment, NEW o \in Object, At(d, Make(o)),
           WriteDone(d, o)
    PROVE  /\ ProgressOK' /\ Progress(d)
           /\ step'[d] = step[d] + 1 /\ done' = done
           /\ seen'[d] = IF o = "public-key" THEN seen[d] ELSE None
<1>1. step[d] \in 1 .. 24 /\ (step[d] = 15 <=> o = "public-key")
  BY AtMake, Places
<1>2. CASE o = "public-key"
  BY <1>1, <1>2, PlanLength DEF WriteDone, DeployTypeOK, ProgressOK, Progress
<1>3. CASE o # "public-key"
  BY <1>1, <1>3, GoOnProgress DEF WriteDone
<1> QED
  BY <1>2, <1>3

\* Reading an object: the deployment has read it, goes on or ends.
LEMMA ReadProgress ==
    ASSUME DeployTypeOK, NEW d \in Deployment, Read(d)
    PROVE  ProgressOK' /\ Progress(d)
<1>1. PICK o \in Object \ KeyHalf :
        /\ At(d, Make(o)) /\ seen[d] = None
        /\ \/ seen' = [seen EXCEPT ![d] = "absent"] /\ UNCHANGED <<step, done>>
           \/ seen' = [seen EXCEPT ![d] = "present"] /\ UNCHANGED <<step, done>>
           \/ GoOn(d)
           \/ Abort(d)
  BY DEF Read
<1>2. step[d] \in 1 .. 24
  BY <1>1, AtMake
<1>3. CASE GoOn(d)
  BY <1>2, <1>3, GoOnProgress
<1>4. CASE Abort(d)
  BY <1>4, AbortProgress
<1>5. CASE \/ seen' = [seen EXCEPT ![d] = "absent"] /\ UNCHANGED <<step, done>>
           \/ seen' = [seen EXCEPT ![d] = "present"] /\ UNCHANGED <<step, done>>
  BY <1>5, PlanLength DEF DeployTypeOK, ProgressOK, Progress
<1> QED
  BY <1>1, <1>3, <1>4, <1>5

\* Reading both halves of the key pair.
LEMMA ReadKeysProgress ==
    ASSUME DeployTypeOK, NEW d \in Deployment, ReadKeys(d)
    PROVE  /\ ProgressOK' /\ Progress(d) /\ done' = done /\ step[d] = 15
           /\ \/ /\ \A h \in KeyHalf : spec[h] = None
                 /\ step' = step /\ seen' = [seen EXCEPT ![d] = "absent"]
              \/ /\ \A h \in KeyHalf : spec[h] # None
                 /\ step'[d] = 17 /\ seen' = seen /\ seen[d] = None
              \/ step'[d] = 0 /\ seen'[d] = None
<1>1. "public-key" \in Object
  BY DEF Object, KeyHalf
<1>2. step[d] = 15 /\ seen[d] = None
  BY <1>1, AtMake, Places DEF ReadKeys
<1>3. CASE Abort(d)
  BY <1>2, <1>3, AbortProgress
<1>4. CASE /\ \A h \in KeyHalf : spec[h] = None
           /\ seen' = [seen EXCEPT ![d] = "absent"]
           /\ UNCHANGED <<step, done>>
  BY <1>2, <1>4, PlanLength DEF DeployTypeOK, ProgressOK, Progress
<1>5. CASE /\ \A h \in KeyHalf : spec[h] # None
           /\ step' = [step EXCEPT ![d] = @ + 2]
           /\ UNCHANGED <<seen, done>>
  BY <1>2, <1>5, PlanLength DEF DeployTypeOK, ProgressOK, Progress
<1> QED
  BY <1>3, <1>4, <1>5 DEF ReadKeys

\* The ways in which a deployment writes the object of its stage.
LEMMA WriteCases ==
    ASSUME DeployTypeOK, NEW d \in Deployment, Write(d)
    PROVE  \E o \in Object :
             /\ At(d, Make(o)) /\ step[d] = Place[o] /\ step[d] \in 1 .. 24
             /\ seen[d] # None
             /\ \/ /\ Store(d, o)
                   /\ \/ seen[d] = "absent" /\ spec[o] = None /\ WriteDone(d, o)
                      \/ seen[d] = "present" /\ GoOn(d)
                \/ /\ UNCHANGED <<spec, status, expired>> /\ outdated' = outdated \ {d}
                   /\ \/ Abort(d)
                      \/ o \in Optional /\ GoOn(d)
                      \/ seen[d] = "absent" /\ spec[o] # None /\ WriteDone(d, o)
<1>1. PICK o \in Object :
        /\ At(d, Make(o))
        /\ \/ /\ seen[d] = "absent" /\ spec[o] = None
              /\ Store(d, o) /\ WriteDone(d, o)
           \/ /\ seen[d] = "absent" /\ spec[o] # None
              /\ IF o \in Strict THEN FailStage(d, o) ELSE WriteDone(d, o)
              /\ outdated' = outdated \ {d}
              /\ UNCHANGED <<spec, status, expired>>
           \/ /\ seen[d] = "present" /\ d \notin outdated
              /\ Store(d, o) /\ GoOn(d)
           \/ /\ seen[d] = "present" /\ d \in outdated
              /\ FailStage(d, o)
              /\ outdated' = outdated \ {d}
              /\ UNCHANGED <<spec, status, expired>>
  BY DEF Write
<1>2. step[d] = Place[o] /\ step[d] \in 1 .. 24
  BY <1>1, AtMake
<1>3. FailStage(d, o) => Abort(d) \/ (o \in Optional /\ GoOn(d))
  BY DEF FailStage
<1>4. seen[d] # None
  BY <1>1 DEF None
<1> WITNESS o \in Object
<1> QED
  BY <1>1, <1>2, <1>3, <1>4

\* Writing an object keeps the types and lets the deployment go on or end.
LEMMA WriteProgress ==
    ASSUME DeployTypeOK, NEW d \in Deployment, Write(d)
    PROVE  DeployTypeOK' /\ Progress(d)
<1>1. PICK o \in Object :
             /\ At(d, Make(o)) /\ step[d] = Place[o] /\ step[d] \in 1 .. 24
             /\ seen[d] # None
             /\ \/ /\ Store(d, o)
                   /\ \/ seen[d] = "absent" /\ spec[o] = None /\ WriteDone(d, o)
                      \/ seen[d] = "present" /\ GoOn(d)
                \/ /\ UNCHANGED <<spec, status, expired>> /\ outdated' = outdated \ {d}
                   /\ \/ Abort(d)
                      \/ o \in Optional /\ GoOn(d)
                      \/ seen[d] = "absent" /\ spec[o] # None /\ WriteDone(d, o)
  BY WriteCases
<1>2. ProgressOK' /\ Progress(d)
  <2>1. CASE WriteDone(d, o)
    BY <1>1, <2>1, WriteDoneProgress
  <2>2. CASE GoOn(d)
    BY <1>1, <2>2, GoOnProgress
  <2>3. CASE Abort(d)
    BY <2>3, AbortProgress
  <2> QED
    BY <1>1, <2>1, <2>2, <2>3
<1>3. /\ spec' \in [Object -> Deployment \cup {None, Foreign, Kvoctl}]
      /\ status' \in [Object -> Deployment \cup {None, Failed, Foreign, Kvoctl}]
      /\ expired' \subseteq Token
      /\ outdated' \subseteq Deployment
  <2>1. CASE Store(d, o)
    BY <2>1, StoreType
  <2>2. CASE UNCHANGED <<spec, status, expired>> /\ outdated' = outdated \ {d}
    BY <2>2 DEF DeployTypeOK
  <2> QED
    BY <1>1, <2>1, <2>2
<1>4. UNCHANGED <<clean, alone, faults>>
  BY DEF Write
<1> QED
  BY <1>2, <1>3, <1>4, PlanLength DEF DeployTypeOK, ProgressOK

\* Waiting: the deployment goes on or ends.
LEMMA WaitProgress ==
    ASSUME DeployTypeOK, NEW d \in Deployment, WaitFor(d)
    PROVE  /\ ProgressOK' /\ Progress(d)
           /\ step[d] \in {4, 7, 11, 22, 25}
           /\ \/ step'[d] = 0 /\ seen'[d] = None /\ done' = done
              \/ /\ GoOn(d)
                 /\ step[d] = 22 => IsReady("service")
<1>1. PICK o \in Waited :
        /\ At(d, Wait(o))
        /\ IF status[o] \in {None, Failed} THEN Abort(d) ELSE GoOn(d)
  BY DEF WaitFor
<1>2. step[d] \in {4, 7, 11, 22, 25} /\ (step[d] = 22 => o = "service")
  BY <1>1, AtWait
<1>3. CASE status[o] \in {None, Failed}
  BY <1>1, <1>2, <1>3, AbortProgress
<1>4. CASE status[o] \notin {None, Failed}
  BY <1>1, <1>2, <1>4, GoOnProgress DEF IsReady
<1> QED
  BY <1>3, <1>4

\* Every step keeps the types.
LEMMA DeployTypeStep == DeployTypeOK /\ [DeployNext]_deployVars => DeployTypeOK'
<1> SUFFICES ASSUME DeployTypeOK, [DeployNext]_deployVars
             PROVE  DeployTypeOK'
  OBVIOUS
<1> USE PlanLength
<1>1. ASSUME NEW d \in Deployment, Begin(d) \/ Overlap(d)
      PROVE  DeployTypeOK'
  <2>1. step' \in [Deployment -> 0 .. 25]
    BY <1>1 DEF DeployTypeOK, Begin, Overlap
  <2>2. clean' \subseteq Deployment /\ alone' \in BOOLEAN
    BY <1>1 DEF DeployTypeOK, Begin, Overlap
  <2>3. faults' \in 0 .. MaxFaults
    BY <1>1, DeployAssumption DEF DeployTypeOK, Begin, Overlap, Fault
  <2>4. UNCHANGED <<spec, status, expired, seen, outdated, done>>
    BY <1>1 DEF Begin, Overlap
  <2> QED
    BY <2>1, <2>2, <2>3, <2>4 DEF DeployTypeOK
<1>2. ASSUME NEW d \in Deployment, Proceed(d)
      PROVE  DeployTypeOK'
  <2>1. CASE Read(d)
    BY <2>1, ReadProgress DEF Read, DeployTypeOK, ProgressOK
  <2>2. CASE ReadKeys(d)
    BY <2>2, ReadKeysProgress DEF ReadKeys, DeployTypeOK, ProgressOK
  <2>3. CASE Write(d)
    BY <2>3, WriteProgress
  <2>4. CASE WaitFor(d)
    BY <2>4, WaitProgress DEF WaitFor, DeployTypeOK, ProgressOK
  <2> QED
    BY <1>2, <2>1, <2>2, <2>3, <2>4 DEF Proceed
<1>3. ASSUME NEW d \in Deployment, Stop(d) \/ Again(d)
      PROVE  DeployTypeOK'
  BY <1>3, DeployAssumption DEF DeployTypeOK, Stop, Again, Abort, Fault
<1>4. ASSUME NEW o \in Waited \cup {"webhook"}, Report(o) \/ ReportFailure(o)
      PROVE  DeployTypeOK'
  <2>1. o \in Object
    BY DEF Object, Olm, Loki, Logging, Manifest, Waited
  <2> QED
    BY <1>4, <2>1, DeployAssumption
    DEF DeployTypeOK, Report, ReportFailure, Readers, Fault
<1>5. ASSUME NEW t \in Token, Expire(t)
      PROVE  DeployTypeOK'
  BY <1>5, DeployAssumption DEF DeployTypeOK, Expire, Fault
<1>6. CASE Meddle
  BY <1>6, DeployAssumption DEF DeployTypeOK, Meddle, Fault, Readers
<1>7. CASE UNCHANGED deployVars
  BY <1>7 DEF DeployTypeOK, deployVars
<1> QED
  BY <1>1, <1>2, <1>3, <1>4, <1>5, <1>6, <1>7 DEF DeployNext

\* Every variable of a deployment keeps its type: no stage leads out of the plan.
THEOREM DeployTypeCorrect == DeploySpec => []DeployTypeOK
BY DeployTypeInit, DeployTypeStep, PTL DEF DeploySpec

(***************************************************************************)
(* The webhook and what answers it.                                        *)
(***************************************************************************)

\* Objects that every deployment makes and that nobody removes.
Lasting == Object \ (KeyHalf \cup Optional)

\* A deployment has behind it what it has passed: all that it has made, and beyond
\* the wait for the certificate also that.  The webhook is made after both.
BackendInv ==
    /\ \A d \in Deployment :
         /\ \A o \in Lasting : step[d] > Place[o] => spec[o] # None
         /\ step[d] > 22 => IsReady("service")
    /\ WebhookHasBackend

\* Nothing that is stored is none.
LEMMA WantedSomething ==
    ASSUME NEW d \in Deployment, NEW o \in Object
    PROVE  Wanted(d, o) \notin {None, Failed, Foreign}
BY DeployAssumption DEF Wanted, None, Failed, Foreign, Kvoctl

\* A stage takes away neither certificate nor any object.
LEMMA BackendKept ==
    ASSUME DeployTypeOK, NEW d \in Deployment, Proceed(d)
    PROVE  /\ IsReady("service") => IsReady("service")'
           /\ \A o \in Object : spec[o] # None => spec'[o] # None
           /\ spec'["webhook"] # None => spec["webhook"] # None \/ step[d] = 24
<1> DEFINE Same == UNCHANGED <<spec, status>>
           Stored == \E o \in Object : step[d] = Place[o] /\ Store(d, o)
<1>1. Same \/ Stored
  <2>1. CASE Read(d) \/ ReadKeys(d) \/ WaitFor(d)
    BY <2>1 DEF Read, ReadKeys, WaitFor
  <2>2. CASE Write(d)
    BY <2>2, WriteCases
  <2> QED
    BY <2>1, <2>2 DEF Proceed
<1>2. CASE Same
  BY <1>2 DEF IsReady
<1>3. CASE Stored
  <2>1. PICK o \in Object : step[d] = Place[o] /\ Store(d, o)
    BY <1>3
  <2>2. status' \in {status, [status EXCEPT !["webhook"] = None]}
    BY <2>1 DEF Store
  <2>3. spec' = [spec EXCEPT ![o] = Wanted(d, o)] /\ Wanted(d, o) # None
    BY <2>1, WantedSomething DEF Store
  <2>4. o = "webhook" => step[d] = 24
    BY <2>1, Places
  <2>5. "service" # "webhook" /\ status'["service"] = status["service"]
    BY <2>2 DEF DeployTypeOK, Object, Manifest
  <2>6. \A p \in Object : spec'[p] = IF p = o THEN Wanted(d, o) ELSE spec[p]
    BY <2>3 DEF DeployTypeOK
  <2>7. "webhook" \in Object
    BY DEF Object, Manifest
  <2> QED
    BY <2>3, <2>4, <2>5, <2>6, <2>7 DEF IsReady
<1> QED
  BY <1>1, <1>2, <1>3

\* A deployment gets past an object by making it or by finding it.
LEMMA ObjectPassed ==
    ASSUME DeployTypeOK, NEW d \in Deployment, Proceed(d), NEW o \in Lasting
    PROVE  step'[d] > Place[o] => step[d] > Place[o] \/ spec'[o] # None
<1> SUFFICES ASSUME step'[d] > Place[o], ~(step[d] > Place[o])
             PROVE  spec'[o] # None
  OBVIOUS
<1>1. Place[o] \in 1 .. 24 \ {4, 7, 11, 22} /\ o \in Object /\ Place[o] \notin {15, 16}
  BY Places DEF Lasting, KeyHalf
<1>2. CASE Read(d)
  <2>1. PICK p \in Object \ KeyHalf :
          /\ At(d, Make(p))
          /\ \/ step' = step
             \/ spec[p] # None /\ GoOn(d)
             \/ Abort(d)
             \/ p \in Optional /\ GoOn(d)
    BY <1>2 DEF Read
  <2>2. step[d] = Place[p] /\ step[d] \in 1 .. 24
    BY <2>1, AtMake
  <2>3. spec' = spec
    BY <1>2 DEF Read
  <2>4. ~Abort(d)
    BY <1>1, AbortProgress
  <2>5. GoOn(d)
    BY <1>1, <2>1, <2>2, <2>4
  <2>6. step'[d] = step[d] + 1
    BY <2>2, <2>5, GoOnProgress
  <2>7. p = o
    BY <1>1, <2>2, <2>6, Places
  <2> QED
    BY <1>1, <2>1, <2>2, <2>3, <2>4, <2>6, <2>7 DEF Lasting
<1>3. CASE ReadKeys(d)
  <2>1. step[d] = 15 /\ step'[d] \in {0, 15, 17}
    BY <1>3, ReadKeysProgress
  <2> QED
    BY <1>1, <2>1
<1>4. CASE Write(d)
  <2>1. PICK p \in Object :
          /\ At(d, Make(p)) /\ step[d] = Place[p] /\ step[d] \in 1 .. 24
          /\ \/ Store(d, p) /\ (WriteDone(d, p) \/ GoOn(d))
             \/ /\ UNCHANGED spec
                /\ \/ Abort(d)
                   \/ p \in Optional /\ GoOn(d)
                   \/ spec[p] # None /\ WriteDone(d, p)
    BY <1>4, WriteCases
  <2>2. ~Abort(d)
    BY <1>1, AbortProgress
  <2>3. step'[d] = step[d] + 1
    BY <2>1, <2>2, WriteDoneProgress, GoOnProgress
  <2>4. p = o
    BY <1>1, <2>1, <2>3, Places
  <2>5. Store(d, o) => spec'[o] # None
    BY <1>1, WantedSomething DEF Store, DeployTypeOK
  <2> QED
    BY <2>1, <2>2, <2>4, <2>5 DEF Lasting
<1>5. CASE WaitFor(d)
  <2>1. step[d] \in {4, 7, 11, 22, 25}
    BY <1>5, WaitProgress
  <2>2. step'[d] \in {0, step[d] + 1}
    BY <1>5, <2>1, WaitProgress, GoOnProgress
  <2> QED
    BY <1>1, <2>1, <2>2
<1> QED
  BY <1>2, <1>3, <1>4, <1>5 DEF Proceed

\* A deployment gets past the certificate by waiting for it.
LEMMA CertificatePassed ==
    ASSUME DeployTypeOK, NEW d \in Deployment, Proceed(d)
    PROVE  step'[d] > 22 => step[d] > 22 \/ IsReady("service")
<1>1. CASE Read(d)
  <2>1. PICK o \in Object \ KeyHalf :
          /\ At(d, Make(o))
          /\ step' = step \/ GoOn(d) \/ Abort(d)
    BY <1>1 DEF Read
  <2>2. step[d] \in 1 .. 24 \ {22}
    BY <2>1, AtMake, Places
  <2> QED
    BY <2>1, <2>2, GoOnProgress, AbortProgress
<1>2. CASE ReadKeys(d)
  BY <1>2, ReadKeysProgress DEF DeployTypeOK
<1>3. CASE Write(d)
  <2>1. PICK o \in Object :
          /\ At(d, Make(o)) /\ step[d] = Place[o] /\ step[d] \in 1 .. 24
          /\ WriteDone(d, o) \/ GoOn(d) \/ Abort(d)
    BY <1>3, WriteCases
  <2>2. step'[d] = 0 \/ step'[d] = step[d] + 1
    BY <2>1, WriteDoneProgress, GoOnProgress, AbortProgress
  <2>3. step[d] # 22
    BY <2>1, Places
  <2> QED
    BY <2>1, <2>2, <2>3
<1>4. CASE WaitFor(d)
  <2>1. step[d] \in {4, 7, 11, 22, 25}
    BY <1>4, WaitProgress
  <2>2. CASE step'[d] = 0
    BY <2>2
  <2>3. CASE GoOn(d) /\ (step[d] = 22 => IsReady("service"))
    BY <2>1, <2>3, GoOnProgress
  <2> QED
    BY <1>4, <2>2, <2>3, WaitProgress
<1> QED
  BY <1>1, <1>2, <1>3, <1>4 DEF Proceed

\* A step keeps the backend.
LEMMA BackendStep ==
    DeployTypeOK /\ BackendInv /\ [DeployNext]_deployVars => BackendInv'
<1> SUFFICES ASSUME DeployTypeOK, BackendInv, [DeployNext]_deployVars
             PROVE  BackendInv'
  OBVIOUS
<1>0. /\ \A o \in Manifest : o \in Lasting
      /\ \A o \in Manifest \ {"webhook"} : Place[o] < 24
      /\ \A o \in Lasting : o \in Object /\ Place[o] \in 1 .. 24
      /\ "webhook" \in Manifest
  BY Places DEF Lasting, Manifest
<1>1. ASSUME NEW d \in Deployment, Begin(d) \/ Overlap(d) \/ Stop(d) \/ Again(d)
      PROVE  BackendInv'
  <2>1. UNCHANGED <<spec, status>>
    BY <1>1 DEF Begin, Overlap, Stop, Again
  <2>2. \A e \in Deployment : step'[e] = step[e] \/ step'[e] \in {0, 1}
    BY <1>1 DEF Begin, Overlap, Stop, Again, Abort, DeployTypeOK
  <2> QED
    BY <1>0, <2>1, <2>2 DEF BackendInv, WebhookHasBackend, IsReady
<1>2. ASSUME NEW d \in Deployment, Proceed(d)
      PROVE  BackendInv'
  <2>1. \A e \in Deployment \ {d} : step'[e] = step[e]
    BY <1>2, ReadProgress, ReadKeysProgress, WriteProgress, WaitProgress
    DEF Proceed, Progress
  <2>2. \A e \in Deployment : step'[e] > 22 => IsReady("service")'
    BY <1>2, <2>1, BackendKept, CertificatePassed DEF BackendInv
  <2>3. \A e \in Deployment, o \in Lasting : step'[e] > Place[o] => spec'[o] # None
    BY <1>0, <1>2, <2>1, BackendKept, ObjectPassed DEF BackendInv
  <2>4. WebhookHasBackend'
    <3>1. CASE spec["webhook"] # None
      BY <1>0, <1>2, <3>1, BackendKept DEF BackendInv, WebhookHasBackend
    <3>2. CASE spec["webhook"] = None /\ spec'["webhook"] # None
      <4>1. step[d] = 24
        BY <1>2, <3>2, BackendKept
      <4>2. \A o \in Manifest \ {"webhook"} : spec'[o] # None
        BY <1>0, <1>2, <4>1, BackendKept DEF BackendInv
      <4>3. IsReady("service")'
        BY <1>2, <4>1, BackendKept DEF BackendInv
      <4> QED
        BY <3>2, <4>2, <4>3 DEF WebhookHasBackend
    <3> QED
      BY <3>1, <3>2 DEF WebhookHasBackend
  <2> QED
    BY <2>2, <2>3, <2>4 DEF BackendInv
<1>3. ASSUME NEW o \in Waited \cup {"webhook"}, Report(o) \/ ReportFailure(o),
             o = "service" => Report(o)
      PROVE  BackendInv'
  <2>1. UNCHANGED <<spec, step>>
    BY <1>3 DEF Report, ReportFailure
  <2>2. IsReady("service") => IsReady("service")'
    <3>1. o \in Object
      BY DEF Object, Olm, Loki, Logging, Manifest, Waited
    <3>2. CASE o = "service"
      BY <1>3, <3>1, <3>2, DeployAssumption
      DEF Report, IsReady, DeployTypeOK, None, Failed, Foreign, Kvoctl
    <3>3. CASE o # "service"
      BY <1>3, <3>1, <3>3 DEF Report, ReportFailure, IsReady, DeployTypeOK, Object, Manifest
    <3> QED
      BY <3>2, <3>3
  <2> QED
    BY <2>1, <2>2 DEF BackendInv, WebhookHasBackend
<1>4. ASSUME NEW t \in Token, Expire(t)
      PROVE  BackendInv'
  BY <1>4 DEF Expire, IsReady, BackendInv, WebhookHasBackend
<1>5. CASE Meddle
  <2>1. UNCHANGED <<status, step>>
    BY <1>5 DEF Meddle
  <2>2. \A o \in Lasting : spec'[o] = spec[o] \/ (spec'[o] = Foreign /\ o # "webhook")
    <3>1. \A o \in Lasting : o \in Object \ KeyHalf
      BY DEF Lasting
    <3>2. "webhook" \notin Binding \cup Compared
      BY DEF Binding, Compared
    <3> QED
      BY <1>5, <3>1, <3>2 DEF Meddle, DeployTypeOK
  <2> QED
    BY <1>0, <2>1, <2>2 DEF BackendInv, WebhookHasBackend, IsReady, Foreign, None
<1>6. CASE UNCHANGED deployVars
  BY <1>6 DEF deployVars, IsReady, BackendInv, WebhookHasBackend
<1> QED
  BY <1>1, <1>2, <1>3, <1>4, <1>5, <1>6 DEF DeployNext

\* Wherever a deployment stops, and however many run at the same time, the webhook
\* is never there without the operator, all that the operator runs with, and the
\* certificate that it needs to answer.
THEOREM WebhookBacked == DeploySpec => []WebhookHasBackend
<1>1. DeployInit => BackendInv
  BY Places DEF DeployInit, BackendInv, WebhookHasBackend, Lasting, Object, Manifest
<1>2. BackendInv => WebhookHasBackend
  BY DEF BackendInv
<1> QED
  BY <1>1, <1>2, DeployTypeInit, DeployTypeStep, BackendStep, PTL DEF DeploySpec

(***************************************************************************)
(* The key pair.                                                           *)
(***************************************************************************)

\* What a deployment knows where it is: it has read nothing before it runs, both
\* halves before it makes the second.
SeenInv ==
    \A d \in Deployment :
        /\ step[d] = 0 => seen[d] = None
        /\ step[d] = 15 => seen[d] \in {None, "absent"}
        /\ step[d] = 16 => seen[d] = "absent"

\* While d, and nobody else, is about to make a half of the pair, there is no half
\* but the one that it has made.
PairInv ==
    /\ \A d, e \in Running : d = e
    /\ \A d \in Deployment :
         step[d] = 15 /\ seen[d] = "absent" => \A h \in KeyHalf : spec[h] = None
    /\ \A d \in Deployment :
         step[d] = 16 => /\ spec["public-key"] \in {None, d}
                         /\ spec["private-key"] = None
    /\ (\A h \in KeyHalf : spec[h] # None) => spec["public-key"] = spec["private-key"]

KeysInv == SeenInv /\ (alone => PairInv)

\* The first half brings a deployment from place 15 to 16, with what it has seen.
LEMMA SeenProceed ==
    ASSUME DeployTypeOK, SeenInv, NEW d \in Deployment, Proceed(d)
    PROVE  /\ step'[d] = 0 => seen'[d] = None
           /\ step'[d] = 15 => seen'[d] \in {None, "absent"}
           /\ step'[d] = 16 => /\ seen'[d] = "absent"
                               /\ step[d] = 15 /\ seen[d] = "absent"
           /\ step[d] = 15 /\ step'[d] = 15 => \A h \in KeyHalf : spec[h] = None
           /\ step'[d] = 15 /\ seen'[d] = "absent" => step[d] = 15
<1> USE DEF SeenInv, None
<1>1. CASE Read(d)
  <2>1. PICK o \in Object \ KeyHalf :
          /\ At(d, Make(o)) /\ seen[d] = None
          /\ \/ /\ step' = step
                /\ \/ seen' = [seen EXCEPT ![d] = "absent"]
                   \/ seen' = [seen EXCEPT ![d] = "present"]
             \/ GoOn(d)
             \/ Abort(d)
    BY <1>1 DEF Read
  <2>2. step[d] \in 1 .. 24 \ {15, 16}
    BY <2>1, AtMake, Places DEF KeyHalf
  <2>3. CASE step' = step
    BY <2>2, <2>3
  <2>4. CASE Abort(d)
    BY <2>4, AbortProgress
  <2>5. CASE GoOn(d)
    BY <2>2, <2>5, GoOnProgress
  <2> QED
    BY <2>1, <2>3, <2>4, <2>5
<1>2. CASE ReadKeys(d)
  BY <1>2, ReadKeysProgress DEF DeployTypeOK
<1>3. CASE Write(d)
  <2>1. PICK o \in Object :
          /\ At(d, Make(o)) /\ step[d] = Place[o] /\ step[d] \in 1 .. 24
          /\ seen[d] # None
          /\ \/ WriteDone(d, o)
             \/ GoOn(d) /\ (seen[d] = "present" \/ o \in Optional)
             \/ Abort(d)
    BY <1>3, WriteCases
  <2>2. CASE WriteDone(d, o)
    BY <2>1, <2>2, WriteDoneProgress, Places
  <2>3. CASE GoOn(d) /\ (seen[d] = "present" \/ o \in Optional)
    <3>1. step[d] # 15
      BY <2>1, <2>3, Places DEF Optional
    <3> QED
      BY <2>1, <2>3, <3>1, GoOnProgress
  <2>4. CASE Abort(d)
    BY <2>4, AbortProgress
  <2> QED
    BY <2>1, <2>2, <2>3, <2>4
<1>4. CASE WaitFor(d)
  <2>1. CASE step'[d] = 0 /\ seen'[d] = None
    BY <2>1
  <2>2. CASE step[d] \in {4, 7, 11, 22, 25} /\ GoOn(d)
    BY <2>2, GoOnProgress
  <2> QED
    BY <1>4, <2>1, <2>2, WaitProgress
<1> QED
  BY <1>1, <1>2, <1>3, <1>4 DEF Proceed

\* A deployment makes a half of the pair only at its place.
LEMMA HalvesMade ==
    ASSUME DeployTypeOK, NEW d \in Deployment, Proceed(d), NEW h \in KeyHalf
    PROVE  spec'[h] = spec[h] \/ (spec'[h] = d /\ step[d] = Place[h])
<1>1. CASE Read(d) \/ ReadKeys(d) \/ WaitFor(d)
  BY <1>1 DEF Read, ReadKeys, WaitFor
<1>2. CASE Write(d)
  <2>1. PICK o \in Object :
          step[d] = Place[o] /\ (Store(d, o) \/ UNCHANGED spec)
    BY <1>2, WriteCases
  <2>2. h \in Object
    BY DEF Object
  <2>3. o = h => Wanted(d, o) = d
    BY DEF Wanted
  <2> QED
    BY <2>1, <2>2, <2>3 DEF Store, DeployTypeOK
<1> QED
  BY <1>1, <1>2 DEF Proceed

\* A deployment that runs alone keeps the pair.
LEMMA PairProceed ==
    ASSUME DeployTypeOK, SeenInv, PairInv, NEW d \in Deployment, Proceed(d)
    PROVE  PairInv'
<1> DEFINE public == spec["public-key"]
           private == spec["private-key"]
<1>1. step[d] > 0
  BY DEF Proceed, Read, ReadKeys, Write, WaitFor, At
<1>2. \A e \in Deployment \ {d} : step[e] = 0 /\ step'[e] = 0
  <2>1. \A e \in Deployment \ {d} : step'[e] = step[e]
    BY ReadProgress, ReadKeysProgress, WriteProgress, WaitProgress
    DEF Proceed, Progress
  <2>2. \A e \in Deployment \ {d} : step[e] = 0
    BY <1>1 DEF PairInv, Running, DeployTypeOK
  <2> QED
    BY <2>1, <2>2
<1>3. /\ public' = public \/ (public' = d /\ step[d] = 15)
      /\ private' = private \/ (private' = d /\ step[d] = 16)
  BY HalvesMade, Places DEF KeyHalf, Object
<1>4. (\A e, f \in Running : e = f)'
  BY <1>2 DEF Running
<1>5. step'[d] = 15 /\ seen'[d] = "absent" => public' = None /\ private' = None
  <2> SUFFICES ASSUME step'[d] = 15, seen'[d] = "absent"
               PROVE  public' = None /\ private' = None
    OBVIOUS
  <2>1. step[d] = 15 /\ public = None /\ private = None
    BY SeenProceed DEF KeyHalf
  <2>2. spec' = spec
    <3>1. CASE Read(d) \/ ReadKeys(d) \/ WaitFor(d)
      BY <3>1 DEF Read, ReadKeys, WaitFor
    <3>2. CASE Write(d)
      <4>1. PICK o \in Object :
              /\ At(d, Make(o)) /\ step[d] = Place[o] /\ step[d] \in 1 .. 24
              /\ Abort(d) \/ WriteDone(d, o) \/ GoOn(d)
        BY <3>2, WriteCases
      <4>2. step'[d] # 15
        BY <2>1, <4>1, AbortProgress, WriteDoneProgress, GoOnProgress
      <4> QED
        BY <4>2
    <3> QED
      BY <3>1, <3>2 DEF Proceed
  <2> QED
    BY <2>1, <2>2
<1>6. step'[d] = 16 => public' \in {None, d} /\ private' = None
  <2> SUFFICES ASSUME step'[d] = 16
               PROVE  public' \in {None, d} /\ private' = None
    OBVIOUS
  <2>1. step[d] = 15 /\ seen[d] = "absent"
    BY SeenProceed
  <2>2. public = None /\ private = None
    BY <2>1 DEF PairInv, KeyHalf
  <2> QED
    BY <1>3, <2>1, <2>2
<1>7. public' # None /\ private' # None => public' = private'
  <2>1. CASE public' = public /\ private' = private
    BY <2>1 DEF PairInv, KeyHalf
  <2>2. CASE public' = d /\ step[d] = 15 /\ public' # public
    <3>1. private' = private
      BY <1>3, <2>2
    <3>2. seen[d] = "absent"
      <4>1. Write(d)
        BY <2>2 DEF Proceed, Read, ReadKeys, WaitFor
      <4> QED
        BY <2>2, <4>1, WriteCases DEF SeenInv
    <3> QED
      BY <2>2, <3>1, <3>2 DEF PairInv, KeyHalf
  <2>3. CASE private' = d /\ step[d] = 16
    BY <1>3, <2>3 DEF PairInv
  <2> QED
    BY <1>3, <2>1, <2>2, <2>3
<1>8. \A e \in Deployment :
        /\ step'[e] = 15 /\ seen'[e] = "absent" => public' = None /\ private' = None
        /\ step'[e] = 16 => public' \in {None, e} /\ private' = None
  BY <1>2, <1>5, <1>6
<1> QED
  BY <1>4, <1>7, <1>8 DEF PairInv, KeyHalf

\* There is no pair at first.
LEMMA KeysInit == DeployInit => KeysInv
BY DEF DeployInit, KeysInv, SeenInv, PairInv, Running, Object, KeyHalf

\* A step keeps the pair.
LEMMA KeysStep == DeployTypeOK /\ KeysInv /\ [DeployNext]_deployVars => KeysInv'
<1> SUFFICES ASSUME DeployTypeOK, KeysInv, [DeployNext]_deployVars
             PROVE  KeysInv'
  OBVIOUS
<1>1. ASSUME NEW d \in Deployment, Begin(d)
      PROVE  KeysInv'
  BY <1>1 DEF KeysInv, SeenInv, PairInv, Begin, Running, DeployTypeOK, KeyHalf
<1>2. ASSUME NEW d \in Deployment, Overlap(d)
      PROVE  KeysInv'
  BY <1>2 DEF KeysInv, SeenInv, Overlap, DeployTypeOK
<1>3. ASSUME NEW d \in Deployment, Proceed(d)
      PROVE  KeysInv'
  <2>1. SeenInv'
    <3>1. \A e \in Deployment \ {d} : step'[e] = step[e] /\ seen'[e] = seen[e]
      BY <1>3, ReadProgress, ReadKeysProgress, WriteProgress, WaitProgress
      DEF Proceed, Progress
    <3> QED
      BY <1>3, <3>1, SeenProceed DEF KeysInv, SeenInv
  <2>2. alone' = alone
    BY <1>3 DEF Proceed, Read, ReadKeys, Write, WaitFor
  <2> QED
    BY <1>3, <2>1, <2>2, PairProceed DEF KeysInv
<1>4. ASSUME NEW d \in Deployment, Stop(d) \/ Again(d)
      PROVE  KeysInv'
  <2>1. /\ UNCHANGED <<spec, alone>>
        /\ \A e \in Deployment : \/ step'[e] = 0 /\ seen'[e] = None
                                 \/ step'[e] = step[e] /\ seen'[e] = seen[e]
    BY <1>4 DEF Stop, Again, Abort, DeployTypeOK
  <2> QED
    BY <2>1 DEF KeysInv, SeenInv, PairInv, Running, KeyHalf
<1>5. CASE UNCHANGED <<spec, step, seen, alone>>
  BY <1>5 DEF KeysInv, SeenInv, PairInv, Running
<1>6. ASSUME NEW o, Report(o) \/ ReportFailure(o)
      PROVE  KeysInv'
  BY <1>5, <1>6 DEF Report, ReportFailure
<1>7. ASSUME NEW t, Expire(t)
      PROVE  KeysInv'
  BY <1>5, <1>7 DEF Expire
<1>8. CASE Meddle
  <2>1. \A h \in KeyHalf : spec'[h] \in {spec[h], None}
    BY <1>8 DEF Meddle, DeployTypeOK, Object, KeyHalf, Binding, Compared
  <2>2. UNCHANGED <<step, seen, alone>>
    BY <1>8 DEF Meddle
  <2> QED
    BY <2>1, <2>2 DEF KeysInv, SeenInv, PairInv, Running, KeyHalf
<1>9. CASE UNCHANGED deployVars
  BY <1>5, <1>9 DEF deployVars
<1> QED
  BY <1>1, <1>2, <1>3, <1>4, <1>6, <1>7, <1>8, <1>9 DEF DeployNext

\* As long as deployments do not overlap, whatever is stopped, deleted and tried
\* again, a public and a private key that are both there belong together.
THEOREM KeysBelongTogether == DeploySpec => []KeysMatch
<1>1. KeysInv => KeysMatch
  BY DEF KeysInv, PairInv, KeysMatch
<1> QED
  BY <1>1, DeployTypeInit, DeployTypeStep, KeysInit, KeysStep, PTL DEF DeploySpec

(***************************************************************************)
(* What success means.                                                     *)
(***************************************************************************)

\* Objects that are the same in every deployment and that nobody else changes.
Fixed == Object \ (KeyHalf \cup Configured \cup Binding \cup Compared)

ShapeInv == \A o \in Fixed : spec[o] \in {None, Kvoctl}

\* Is a deployment past the making of o?
Made(d, o) == step[d] > Place[o] \/ d \in done

\* A deployment that nothing has disturbed has what it is past, and what it has
\* not found is still not there.
CleanInv(d) ==
    /\ \A o \in Object : step[d] = Place[o] /\ seen[d] = "absent" => spec[o] = None
    /\ step[d] = 15 /\ seen[d] = "absent" => spec["private-key"] = None
    /\ \A o \in Object \ (KeyHalf \cup Optional) : Made(d, o) => spec[o] = Wanted(d, o)
    /\ \A h \in KeyHalf : Made(d, h) => spec[h] # None
    /\ Made(d, "writer-token") => "writer-token" \notin expired

DoneInv ==
    /\ ShapeInv
    /\ \A d \in clean : Running \subseteq {d} /\ clean = {d} /\ CleanInv(d)

\* A stage that leaves the objects alone and does not lead past another one keeps
\* what the deployment has.
LEMMA CleanMoves ==
    ASSUME NEW d \in Deployment, CleanInv(d), UNCHANGED <<spec, expired>>,
           seen'[d] # "absent",
           \A o \in Object : Made(d, o)' => Made(d, o)
                                 \/ o \in Optional
                                 \/ /\ o \notin KeyHalf /\ spec[o] = Wanted(d, o)
                                    /\ o = "writer-token" => o \notin expired
    PROVE  CleanInv(d)'
<1>1. KeyHalf \subseteq Object /\ KeyHalf \cap Optional = {}
  BY DEF KeyHalf, Object, Optional
<1>2. "writer-token" \in Object \ Optional
  BY DEF Token, Object, Optional
<1>3. \A o \in Object : Wanted(d, o)' = Wanted(d, o)
  BY DEF Wanted
<1> QED
  BY <1>1, <1>2, <1>3 DEF CleanInv

\* Going on passes the one object that the stage is about.
LEMMA GoOnMakes ==
    ASSUME DeployTypeOK, NEW d \in Deployment, step[d] \in 1 .. 24,
           step'[d] = step[d] + 1, done' = done, NEW o \in Object
    PROVE  Made(d, o)' => Made(d, o) \/ step[d] = Place[o]
BY Places DEF Made

\* An aborted deployment is not past anything, unless it was done before.
LEMMA AbortMakes ==
    ASSUME NEW d \in Deployment, step'[d] = 0, done' = done, NEW o \in Object
    PROVE  Made(d, o)' => Made(d, o)
BY Places DEF Made

\* Reading keeps what a deployment has.
LEMMA CleanRead ==
    ASSUME DeployTypeOK, ShapeInv, NEW d \in Deployment, CleanInv(d), Read(d)
    PROVE  CleanInv(d)'
<1>1. PICK o \in Object \ KeyHalf :
        /\ At(d, Make(o)) /\ seen[d] = None
        /\ \/ spec[o] = None /\ seen' = [seen EXCEPT ![d] = "absent"]
                             /\ UNCHANGED <<step, done>>
           \/ seen' = [seen EXCEPT ![d] = "present"] /\ UNCHANGED <<step, done>>
           \/ spec[o] # None /\ Fine(d, o) /\ GoOn(d)
           \/ Abort(d)
           \/ o \in Optional /\ GoOn(d)
  BY DEF Read
<1>2. step[d] = Place[o] /\ step[d] \in 1 .. 24
  BY <1>1, AtMake
<1>3. UNCHANGED <<spec, expired>>
  BY DEF Read
<1>4. CASE spec[o] = None /\ seen' = [seen EXCEPT ![d] = "absent"]
                          /\ UNCHANGED <<step, done>>
  <2>1. step[d] # 15
    BY <1>2, Places DEF KeyHalf
  <2>2. \A p \in Object : step[d] = Place[p] => p = o
    BY <1>2, Places
  <2> QED
    BY <1>3, <1>4, <2>1, <2>2 DEF CleanInv, Made, Wanted
<1>5. CASE seen' = [seen EXCEPT ![d] = "present"] /\ UNCHANGED <<step, done>>
  <2>1. seen'[d] # "absent"
    BY <1>5 DEF DeployTypeOK
  <2> QED
    BY <1>3, <1>5, <2>1, CleanMoves DEF Made
<1>6. CASE Abort(d)
  BY <1>3, <1>6, AbortProgress, AbortMakes, CleanMoves DEF None
<1>7. CASE GoOn(d) /\ (o \in Optional \/ (spec[o] # None /\ Fine(d, o)))
  <2>1. o \in Optional \/ (spec[o] = Wanted(d, o)
                             /\ (o = "writer-token" => o \notin expired))
    <3>1. CASE o \in Kept \/ o = "writer-token"
      <4>1. o \in Fixed
        BY <3>1
        DEF Kept, Fixed, KeyHalf, Configured, Binding, Compared, Object, Olm, Logging,
            Token, Manifest
      <4>2. Wanted(d, o) = Kvoctl
        BY <4>1 DEF Fixed, Wanted
      <4>3. spec[o] \in {None, Kvoctl}
        BY <4>1 DEF ShapeInv
      <4>4. o = "writer-token" => o \notin Kept \cup Compared
        BY DEF Kept, Compared
      <4> QED
        BY <1>7, <4>2, <4>3, <4>4 DEF Fine, Optional
    <3> QED
      BY <1>7, <3>1 DEF Fine
  <2>2. step'[d] = step[d] + 1 /\ done' = done /\ seen'[d] = None
    BY <1>2, <1>7, GoOnProgress
  <2>3. \A p \in Object : Made(d, p)' => Made(d, p) \/ p = o
    BY <1>2, <2>2, GoOnMakes, Places
  <2> QED
    BY <1>1, <1>3, <2>1, <2>2, <2>3, CleanMoves DEF None
<1> QED
  BY <1>1, <1>4, <1>5, <1>6, <1>7

\* So does reading the key pair.
LEMMA CleanReadKeys ==
    ASSUME DeployTypeOK, NEW d \in Deployment, CleanInv(d), ReadKeys(d)
    PROVE  CleanInv(d)'
<1>1. UNCHANGED <<spec, expired>>
  BY DEF ReadKeys
<1>2. step[d] = 15 /\ done' = done
  BY ReadKeysProgress
<1>3. CASE (\A h \in KeyHalf : spec[h] = None)
           /\ step' = step /\ seen' = [seen EXCEPT ![d] = "absent"]
  <2>1. \A o \in Object : step[d] = Place[o] => o = "public-key"
    BY <1>2, Places
  <2> QED
    BY <1>1, <1>2, <1>3, <2>1 DEF CleanInv, Made, Wanted, KeyHalf
<1>4. CASE (\A h \in KeyHalf : spec[h] # None)
           /\ step'[d] = 17 /\ seen' = seen /\ seen[d] = None
  <2>1. \A o \in Object : Made(d, o)' => Made(d, o) \/ o \in KeyHalf
    BY <1>2, <1>4, Places DEF Made, KeyHalf
  <2>2. \A o \in Object : Wanted(d, o)' = Wanted(d, o)
    BY DEF Wanted
  <2>3. "writer-token" \in Object \ KeyHalf
    BY DEF Object, Token, KeyHalf
  <2> QED
    BY <1>1, <1>4, <2>1, <2>2, <2>3 DEF CleanInv, None
<1>5. CASE step'[d] = 0 /\ seen'[d] = None
  BY <1>1, <1>2, <1>5, AbortMakes, CleanMoves DEF None
<1> QED
  BY <1>3, <1>4, <1>5, ReadKeysProgress

\* And so does writing an object.
LEMMA CleanWrite ==
    ASSUME DeployTypeOK, NEW d \in Deployment, CleanInv(d), Write(d)
    PROVE  CleanInv(d)'
<1>1. PICK o \in Object :
             /\ At(d, Make(o)) /\ step[d] = Place[o] /\ step[d] \in 1 .. 24
             /\ seen[d] # None
             /\ \/ /\ Store(d, o)
                   /\ \/ seen[d] = "absent" /\ spec[o] = None /\ WriteDone(d, o)
                      \/ seen[d] = "present" /\ GoOn(d)
                \/ /\ UNCHANGED <<spec, status, expired>> /\ outdated' = outdated \ {d}
                   /\ \/ Abort(d)
                      \/ o \in Optional /\ GoOn(d)
                      \/ seen[d] = "absent" /\ spec[o] # None /\ WriteDone(d, o)
  BY WriteCases
<1>2. CASE Store(d, o) /\ (WriteDone(d, o) \/ GoOn(d))
  <2>1. /\ step'[d] = step[d] + 1 /\ done' = done
        /\ seen'[d] = None \/ (o = "public-key" /\ seen'[d] = seen[d])
    BY <1>1, <1>2, WriteDoneProgress, GoOnProgress
  <2>2. \A p \in Object : Made(d, p)' => Made(d, p) \/ p = o
    BY <1>1, <2>1, GoOnMakes, Places
  <2>3. \A p \in Object : spec'[p] = IF p = o THEN Wanted(d, o) ELSE spec[p]
    BY <1>2 DEF Store, DeployTypeOK
  <2>4. \A p \in Object : Wanted(d, p)' = Wanted(d, p)
    BY DEF Wanted
  <2>5. KeyHalf \subseteq Object /\ "writer-token" \in Object
    BY DEF KeyHalf, Object, Token
  <2>6. expired' = expired \ {o}
    BY <1>2 DEF Store
  <2>7. Wanted(d, o) # None
    BY WantedSomething
  <2>8. ASSUME seen'[d] = "absent"
        PROVE  /\ step'[d] = 16 /\ spec'["private-key"] = None
               /\ \A p \in Object : step'[d] = Place[p] => p = "private-key"
    <3>1. o = "public-key" /\ seen[d] = "absent"
      BY <2>1, <2>8 DEF None
    <3>2. step[d] = 15 /\ step'[d] = 16
      BY <1>1, <2>1, <3>1, Places
    <3>3. spec["private-key"] = None
      BY <3>1, <3>2 DEF CleanInv
    <3> QED
      BY <2>3, <2>5, <3>1, <3>2, <3>3, Places DEF KeyHalf
  <2>9. \A p \in Object : step'[d] = Place[p] /\ seen'[d] = "absent" => spec'[p] = None
    BY <2>8
  <2>10. ~(step'[d] = 15 /\ seen'[d] = "absent")
    BY <2>8
  <2>11. \A p \in Object \ (KeyHalf \cup Optional) :
           Made(d, p)' => spec'[p] = Wanted(d, p)
    BY <2>2, <2>3 DEF CleanInv
  <2>12. \A h \in KeyHalf : Made(d, h)' => spec'[h] # None
    BY <2>2, <2>3, <2>5, <2>7 DEF CleanInv
  <2>13. Made(d, "writer-token")' => "writer-token" \notin expired'
    BY <2>2, <2>5, <2>6 DEF CleanInv
  <2> QED
    BY <2>4, <2>9, <2>10, <2>11, <2>12, <2>13 DEF CleanInv
<1>3. CASE UNCHANGED <<spec, expired>> /\ Abort(d)
  BY <1>3, AbortProgress, AbortMakes, CleanMoves DEF None
<1>4. CASE UNCHANGED <<spec, expired>> /\ o \in Optional /\ GoOn(d)
  <2>1. step'[d] = step[d] + 1 /\ done' = done /\ seen'[d] = None
    BY <1>1, <1>4, GoOnProgress
  <2>2. \A p \in Object : Made(d, p)' => Made(d, p) \/ p \in Optional
    BY <1>1, <1>4, <2>1, GoOnMakes, Places
  <2> QED
    BY <1>4, <2>1, <2>2, CleanMoves DEF None
<1>5. ~(seen[d] = "absent" /\ spec[o] # None)
  BY <1>1 DEF CleanInv
<1> QED
  BY <1>1, <1>2, <1>3, <1>4, <1>5

\* And waiting.
LEMMA CleanWait ==
    ASSUME DeployTypeOK, NEW d \in Deployment, CleanInv(d), WaitFor(d)
    PROVE  CleanInv(d)'
<1>1. UNCHANGED <<spec, expired>>
  BY DEF WaitFor
<1>2. CASE step'[d] = 0 /\ seen'[d] = None /\ done' = done
  BY <1>1, <1>2, AbortMakes, CleanMoves DEF None
<1>3. CASE GoOn(d) /\ step[d] \in {4, 7, 11, 22, 25}
  <2>1. seen'[d] = None
    BY <1>3, GoOnProgress
  <2>2. \A o \in Object : Made(d, o)' => Made(d, o)
    <3>1. CASE step[d] = 25
      BY <3>1, Places DEF Made
    <3>2. CASE step[d] # 25
      <4>1. step'[d] = step[d] + 1 /\ done' = done
        BY <1>3, <3>2, GoOnProgress
      <4>2. \A o \in Object : step[d] # Place[o]
        BY <1>3, <3>2, Places
      <4> QED
        BY <1>3, <3>2, <4>1, <4>2, GoOnMakes
    <3> QED
      BY <3>1, <3>2
  <2> QED
    BY <1>1, <2>1, <2>2, CleanMoves DEF None
<1> QED
  BY <1>2, <1>3, WaitProgress

\* The fixed objects keep their shape.
LEMMA ShapeStep == DeployTypeOK /\ ShapeInv /\ [DeployNext]_deployVars => ShapeInv'
<1> SUFFICES ASSUME DeployTypeOK, ShapeInv, [DeployNext]_deployVars
             PROVE  ShapeInv'
  OBVIOUS
<1>1. CASE spec' = spec
  BY <1>1 DEF ShapeInv
<1>2. ASSUME NEW d \in Deployment, Write(d)
      PROVE  ShapeInv'
  <2>1. PICK o \in Object : Store(d, o) \/ UNCHANGED spec
    BY <1>2, WriteCases
  <2>2. \A p \in Fixed : p \in Object /\ Wanted(d, p) = Kvoctl
    BY DEF Fixed, Wanted
  <2> QED
    BY <1>1, <2>1, <2>2 DEF Store, ShapeInv, DeployTypeOK
<1>3. CASE Meddle
  <2>1. \A p \in Fixed : /\ p \in Object
                         /\ p \notin KeyHalf \cup Binding \cup Compared
    BY DEF Fixed
  <2> QED
    BY <1>3, <2>1 DEF Meddle, ShapeInv, DeployTypeOK
<1>4. CASE UNCHANGED deployVars
  BY <1>1, <1>4 DEF deployVars
<1>5. ASSUME NEW d \in Deployment,
             \/ Begin(d) \/ Overlap(d) \/ Stop(d) \/ Again(d)
             \/ Read(d) \/ ReadKeys(d) \/ WaitFor(d)
      PROVE  ShapeInv'
  BY <1>1, <1>5 DEF Begin, Overlap, Read, ReadKeys, WaitFor, Stop, Again
<1>6. ASSUME NEW o, Report(o) \/ ReportFailure(o) \/ Expire(o)
      PROVE  ShapeInv'
  BY <1>1, <1>6 DEF Report, ReportFailure, Expire
<1> QED
  BY <1>2, <1>3, <1>4, <1>5, <1>6 DEF DeployNext, Proceed

\* A step keeps what undisturbed deployments have.
LEMMA DoneStep ==
    DeployTypeOK /\ SeenInv /\ DoneInv /\ [DeployNext]_deployVars => DoneInv'
<1> SUFFICES ASSUME DeployTypeOK, SeenInv, DoneInv, [DeployNext]_deployVars
             PROVE  DoneInv'
  OBVIOUS
<1>1. ShapeInv'
  BY ShapeStep DEF DoneInv
<1>2. CASE clean' = {}
  BY <1>1, <1>2 DEF DoneInv
<1>3. ASSUME NEW d \in Deployment, Begin(d)
      PROVE  DoneInv'
  <2>1. clean' = {d} /\ (Running \subseteq {d})'
    BY <1>3 DEF Begin, Running, DeployTypeOK
  <2>2. /\ step'[d] = 1 /\ seen'[d] = None /\ d \notin done'
        /\ UNCHANGED <<spec, expired>>
    BY <1>3 DEF Begin, DeployTypeOK, SeenInv
  <2>3. \A o \in Object : ~Made(d, o)'
    BY <2>2, Places DEF Made
  <2>4. KeyHalf \subseteq Object /\ "writer-token" \in Object
    BY DEF KeyHalf, Object, Token
  <2>5. CleanInv(d)'
    BY <2>2, <2>3, <2>4 DEF CleanInv, None
  <2> QED
    BY <1>1, <2>1, <2>5 DEF DoneInv
<1>4. ASSUME NEW d \in Deployment, Proceed(d)
      PROVE  DoneInv'
  <2>1. clean' = clean
    BY <1>4 DEF Proceed, Read, ReadKeys, Write, WaitFor
  <2>2. d \in Running
    BY <1>4 DEF Proceed, Read, ReadKeys, Write, WaitFor, At, Running
  <2>3. \A e \in Deployment \ {d} : step'[e] = step[e]
    BY <1>4, ReadProgress, ReadKeysProgress, WriteProgress, WaitProgress
    DEF Proceed, Progress
  <2> SUFFICES ASSUME NEW e \in clean
               PROVE  Running' \subseteq {e} /\ CleanInv(e)'
    BY <1>1, <2>1 DEF DoneInv
  <2>4. e = d /\ CleanInv(d) /\ Running \subseteq {d}
    BY <2>2 DEF DoneInv
  <2>5. Running' \subseteq {d}
    BY <2>3, <2>4 DEF Running
  <2>6. CleanInv(d)'
    BY <1>4, <2>4, CleanRead, CleanReadKeys, CleanWrite, CleanWait DEF Proceed, DoneInv
  <2> QED
    BY <2>4, <2>5, <2>6
<1>5. ASSUME NEW d \in Deployment, Stop(d)
      PROVE  DoneInv'
  <2>1. /\ step'[d] = 0 /\ seen'[d] = None /\ done' = done /\ clean' = clean
        /\ UNCHANGED <<spec, expired>>
        /\ d \in Running /\ Running' \subseteq Running
    BY <1>5 DEF Stop, Abort, Running, DeployTypeOK
  <2> SUFFICES ASSUME NEW e \in clean
               PROVE  Running' \subseteq {e} /\ CleanInv(e)'
    BY <1>1, <2>1 DEF DoneInv
  <2>2. e = d /\ CleanInv(d) /\ Running \subseteq {d}
    BY <2>1 DEF DoneInv
  <2>3. CleanInv(d)'
    BY <2>1, <2>2, AbortMakes, CleanMoves DEF None
  <2> QED
    BY <2>1, <2>2, <2>3
<1>6. CASE /\ UNCHANGED <<spec, expired, step, seen, clean>> /\ done' \subseteq done
  <2> SUFFICES ASSUME NEW e \in clean
               PROVE  Running' \subseteq {e} /\ CleanInv(e)'
    BY <1>1, <1>6 DEF DoneInv
  <2>1. CleanInv(e) /\ Running' = Running /\ Running \subseteq {e}
    BY <1>6 DEF DoneInv, Running
  <2>2. \A o : Made(e, o)' => Made(e, o)
    BY <1>6 DEF Made
  <2>3. \A o : Wanted(e, o)' = Wanted(e, o)
    BY DEF Wanted
  <2> QED
    BY <1>6, <2>1, <2>2, <2>3 DEF CleanInv
<1>7. ASSUME NEW d \in Deployment, Again(d)
      PROVE  DoneInv'
  BY <1>6, <1>7 DEF Again
<1>8. ASSUME NEW o, Report(o)
      PROVE  DoneInv'
  BY <1>6, <1>8 DEF Report
<1>9. ASSUME NEW d, Overlap(d) \/ ReportFailure(d) \/ Expire(d) \/ Meddle
      PROVE  DoneInv'
  BY <1>2, <1>9 DEF Overlap, ReportFailure, Expire, Meddle
<1>10. CASE UNCHANGED deployVars
  BY <1>6, <1>10 DEF deployVars
<1> QED
  BY <1>3, <1>4, <1>5, <1>7, <1>8, <1>9, <1>10 DEF DeployNext

\* A deployment that ends in success, and that nothing has disturbed since it
\* began, has put its own configuration everywhere, whatever was there before.
THEOREM SuccessIsComplete == DeploySpec => []DeployedWhenDone
<1>1. DeployInit => DoneInv
  BY DEF DeployInit, DoneInv, ShapeInv, Fixed
<1>2. DoneInv => DeployedWhenDone
  <2>1. "writer-token" \in Object
    BY DEF Object, Token
  <2> QED
    BY <2>1 DEF DoneInv, CleanInv, Made, DeployedWhenDone
<1>3. KeysInv => SeenInv
  BY DEF KeysInv
<1> QED
  BY <1>1, <1>2, <1>3, DeployTypeInit, DeployTypeStep, KeysInit, KeysStep, DoneStep,
     PTL DEF DeploySpec
=============================================================================
