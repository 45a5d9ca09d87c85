------------------------------ MODULE Grafana ------------------------------
(***************************************************************************)
(* How kvoctl deploy brings Grafana: access for the account whose tokens   *)
(* the data sources use, the search for a Grafana that exists, and what is *)
(* merged into that one or made anew, in the namespace it was found in.    *)
(* Users own the cluster too: they edit and delete what kvoctl shares with *)
(* them, and install and remove Grafanas of their own.                     *)
(*                                                                         *)
(* A step is one API request that matters.  "Get, and Create if missing"   *)
(* is one step: whatever happens between the two requests has the outcome  *)
(* of one that happens before or after both.  "Get, change, Update" is two *)
(* steps, and the update carries the resourceVersion that was read.        *)
(***************************************************************************)
EXTENDS Naturals, Sequences

CONSTANTS
    Deployer,   \* those who run kvoctl deploy
    Place,      \* namespaces
    Own,        \* the namespace kvoctl installs Grafana in if there is none
    Url,        \* addresses of Loki
    MaxFaults   \* bound: crashes, failed requests, overlapping runs, acts of users

VARIABLES
    own,        \* of each object in each place: what kvoctl has put there
    users,      \* of each shared object: how often users have changed their part of it
    grafana,    \* of each place: who has made its Deployment named grafana
    wiring,     \* what that Deployment has under the names that kvoctl needs
    labelled,   \* places with a Grafana of another name, known by its label
    loki,       \* the address in Loki's Route
    step,       \* of each deployer: its place in the plan, 0 if it is not running
    chosen,     \* what it has found out
    seen,       \* whether the object of this step was there when it was read
    copy,       \* the part of its users in the copy that was read
    outdated,   \* those whose copy is not the latest version any more
    done,       \* those whose last run has ended in success
    clean,      \* history: those whose last run nothing else has disturbed
    deleted,    \* history: objects users have deleted and kvoctl not made again
    meddled,    \* history: a user has installed or removed a Grafana
    faults

grafanaVars == <<own, users, grafana, wiring, labelled, loki, step, chosen, seen, copy,
                 outdated, done, clean, deleted, meddled, faults>>

None    == "none"
Kvoctl  == "kvoctl"  \* content that is the same in every deployment
Users   == "users"   \* there, but without what kvoctl puts in it
Foreign == "foreign" \* a binding for another role
Empty   == "empty"   \* a Secret without a token

ConfigMap == {"datasources", "provider", "dashboards"}
Token     == {"prometheus-token", "loki-token"}
Binding   == {"reader-binding", "view-binding"}

\* Looked up, and made if they are missing; written anew in every deployment.
Kept    == {"namespace", "account", "service", "route"} \cup Token
Written == {"reader-role"} \cup Binding \cup ConfigMap

Object == Kept \cup Written
\* Written in part only, the rest belongs to users.
Shared == ConfigMap \cup {"deployment"}

\* The environment variables with the tokens, and the mounts with their volumes.
Entry == {"tokens", "volumes"}
Wiring == [Entry -> {"missing", "wired", "taken"}]
Bare == [e \in Entry |-> "missing"]
Wired == [e \in Entry |-> "wired"]

NoCopy == [users |-> 0, wiring |-> Bare]
Undecided == [place |-> Own, found |-> FALSE, url |-> None]

InOwn(o)    == [of |-> o, in |-> "own"]
InChosen(o) == [of |-> o, in |-> "chosen"]

MutantPlan ==
    <<InOwn("namespace"), InOwn("account"), InOwn("reader-role"), InOwn("reader-binding"),
      InOwn("discover"), InOwn("namespace"), InOwn("account"), InOwn("view-binding"),
      InChosen("namespace"),
      InChosen("datasources"), InChosen("provider"), InChosen("dashboards"),
      InChosen("service"), InChosen("deployment"),
      InChosen("prometheus-token"), InChosen("loki-token"), InChosen("route")>>

\* The foundation for the readers of logs comes from an earlier stage of the same
\* deployment.
Plan ==
    <<InOwn("namespace"), InOwn("account"), InOwn("reader-role"), InOwn("reader-binding"),
      InOwn("discover"), InOwn("namespace"), InOwn("account"), InOwn("view-binding"),
      InChosen("namespace"),
      InChosen("datasources"), InChosen("provider"), InChosen("dashboards"),
      InChosen("prometheus-token"), InChosen("loki-token"),
      InChosen("service"), InChosen("deployment"), InChosen("route")>>

ASSUME GrafanaAssumption ==
    /\ Own \in Place
    /\ (Deployer \cup Url) \cap {None, Kvoctl, Users, Foreign, Empty} = {}
    /\ MaxFaults \in Nat

\* What users may have: Grafanas under either name, with entries of their own, and
\* the ConfigMaps of one.  Only kvoctl's own namespace may be missing.
GrafanaInit ==
    /\ grafana \in [Place -> {None, Users}]
    /\ labelled \in SUBSET Place
    /\ wiring \in [Place -> [Entry -> {"missing", "taken"}]]
    /\ \A p \in Place : grafana[p] = None => wiring[p] = Bare
    /\ \E stocked \in SUBSET Place :
         own = [o \in Object |-> [p \in Place |->
                   IF \/ o = "namespace" /\ (p # Own \/ grafana[p] # None \/ p \in labelled)
                      \/ o \in ConfigMap /\ p \in stocked
                   THEN Users ELSE None]]
    /\ users = [o \in Shared |-> [p \in Place |-> 0]]
    /\ loki \in Url \cup {None}
    /\ step = [d \in Deployer |-> 0]
    /\ chosen = [d \in Deployer |-> Undecided]
    /\ seen = [d \in Deployer |-> None]
    /\ copy = [d \in Deployer |-> NoCopy]
    /\ outdated = {}
    /\ done = {}
    /\ clean = {}
    /\ deleted = {}
    /\ meddled = FALSE
    /\ faults = MaxFaults

cluster == <<own, users, grafana, wiring, labelled, loki>>
history == <<clean, deleted, meddled>>

Running == {d \in Deployer : step[d] > 0}
At(d, o) == step[d] > 0 /\ Plan[step[d]].of = o
Target(d) == IF Plan[step[d]].in = "own" THEN Own ELSE chosen[d].place

(***************************************************************************)
(* The stages.                                                             *)
(***************************************************************************)

Forget(d) ==
    /\ seen' = [seen EXCEPT ![d] = None]
    /\ copy' = [copy EXCEPT ![d] = NoCopy]

MutantGoOn(d) ==
    /\ step' = [step EXCEPT ![d] = @ + 1]
    /\ Forget(d)
    /\ UNCHANGED done

GoOn(d) ==
    /\ IF step[d] = Len(Plan)
       THEN step' = [step EXCEPT ![d] = 0] /\ done' = done \cup {d}
       ELSE step' = [step EXCEPT ![d] = @ + 1] /\ UNCHANGED done
    /\ Forget(d)

Abort(d) ==
    /\ step' = [step EXCEPT ![d] = 0]
    /\ Forget(d)
    /\ UNCHANGED done

\* Those who have read o in p, and not yet written it, when somebody else writes it.
Readers(o, p) == {d \in Deployer : At(d, o) /\ Target(d) = p /\ seen[d] = "present"}

Fault == faults > 0 /\ faults' = faults - 1

Begin(d) ==
    /\ step[d] = 0 /\ d \notin done
    /\ Running = {}
    /\ step' = [step EXCEPT ![d] = 1]
    /\ chosen' = [chosen EXCEPT ![d] = Undecided]
    /\ clean' = {d}
    /\ UNCHANGED <<cluster, seen, copy, outdated, done, deleted, meddled, faults>>

\* A deployment that begins while another one is running counts as a fault.
Overlap(d) ==
    /\ Fault
    /\ step[d] = 0 /\ d \notin done
    /\ Running # {}
    /\ step' = [step EXCEPT ![d] = 1]
    /\ chosen' = [chosen EXCEPT ![d] = Undecided]
    /\ clean' = {}
    /\ UNCHANGED <<cluster, seen, copy, outdated, done, deleted, meddled>>

MutantFoundIn == {p \in {Own} : grafana[p] # None}

\* Where a Grafana may be found: by its name, and by its label if there is none of
\* that name.  The list has the API server's order, so that any of several may come
\* first.
FoundIn ==
    IF \E p \in Place : grafana[p] # None
    THEN {p \in Place : grafana[p] # None}
    ELSE labelled

\* The Deployments are listed and Loki's Route is read; without it there is no data
\* source.
Discover(d) ==
    /\ At(d, "discover")
    /\ \/ /\ loki = None
          /\ Abort(d)
          /\ UNCHANGED chosen
       \/ /\ loki # None
          /\ \/ \E p \in FoundIn : chosen' =
                    [chosen EXCEPT ![d] = [place |-> p, found |-> TRUE, url |-> loki]]
             \/ /\ FoundIn = {}
                /\ chosen' =
                    [chosen EXCEPT ![d] = [place |-> Own, found |-> FALSE, url |-> loki]]
          /\ GoOn(d)
    /\ UNCHANGED <<cluster, outdated, history, faults>>

\* The Service and the Route belong to whoever has installed Grafana.
Skips(d, o) == o \in {"service", "route"} /\ chosen[d].found

MutantImpossible(o, p) == o \in Token /\ (own["account"][Own] = None \/ own[o][p] # None)

Impossible(o, p) == o \in Token /\ (own["account"][Own] = None \/ own[o][p] = Empty)

\* Present whatever its content, it is kept; a token is issued for the account.
Keep(d) ==
    /\ \E o \in Kept :
         /\ At(d, o)
         /\ LET p == Target(d) IN
            \/ /\ ~Skips(d, o) /\ Impossible(o, p)
               /\ Abort(d)
               /\ UNCHANGED <<own, deleted>>
            \/ /\ Skips(d, o) \/ (own[o][p] # None /\ ~Impossible(o, p))
               /\ GoOn(d)
               /\ UNCHANGED <<own, deleted>>
            \/ /\ ~Skips(d, o) /\ ~Impossible(o, p) /\ own[o][p] = None
               /\ own' = [own EXCEPT ![o][p] = Kvoctl]
               /\ deleted' = deleted \ {<<o, p>>}
               /\ GoOn(d)
    /\ UNCHANGED <<users, grafana, wiring, labelled, loki, chosen, outdated, clean, meddled,
                   faults>>

\* What d puts into o: the data sources name Loki's address, the dashboards are those
\* of its own files.
Wanted(d, o) ==
    IF o = "datasources" THEN chosen[d].url ELSE IF o = "dashboards" THEN d ELSE Kvoctl

MutantRead(d) ==
    /\ \E o \in Written :
         /\ At(d, o) /\ seen[d] = None
         /\ LET p == Target(d) IN
            \/ /\ own[o][p] = Foreign
               /\ Abort(d)
            \/ /\ own[o][p] = None
               /\ seen' = [seen EXCEPT ![d] = "absent"]
               /\ UNCHANGED <<step, copy, done>>
            \/ /\ own[o][p] \notin {None, Foreign}
               /\ GoOn(d)
    /\ UNCHANGED <<cluster, chosen, outdated, history, faults>>

\* The role of a binding cannot be changed.
Read(d) ==
    /\ \E o \in Written :
         /\ At(d, o) /\ seen[d] = None
         /\ LET p == Target(d) IN
            \/ /\ own[o][p] = Foreign
               /\ Abort(d)
            \/ /\ own[o][p] = None
               /\ seen' = [seen EXCEPT ![d] = "absent"]
               /\ UNCHANGED <<step, copy, done>>
            \/ /\ own[o][p] \notin {None, Foreign}
               /\ seen' = [seen EXCEPT ![d] = "present"]
               /\ copy' = IF o \in ConfigMap
                          THEN [copy EXCEPT ![d] = [users |-> users[o][p], wiring |-> Bare]]
                          ELSE copy
               /\ UNCHANGED <<step, done>>
    /\ UNCHANGED <<cluster, chosen, outdated, history, faults>>

\* The object is replaced by the copy with kvoctl's part in it.
Store(d, o, p) ==
    /\ own' = [own EXCEPT ![o][p] = Wanted(d, o)]
    /\ users' = IF o \in ConfigMap THEN [users EXCEPT ![o][p] = copy[d].users] ELSE users
    /\ deleted' = deleted \ {<<o, p>>}
    /\ outdated' = (outdated \cup (IF <<own', users'>> = <<own, users>>
                                   THEN {} ELSE Readers(o, p))) \ {d}

MutantWrite(d) ==
    /\ \E o \in Written :
         /\ At(d, o)
         /\ LET p == Target(d) IN
            \/ /\ seen[d] = "absent" /\ own[o][p] = None
               /\ Store(d, o, p) /\ GoOn(d)
            \/ /\ seen[d] = "absent" /\ own[o][p] # None
               /\ GoOn(d)
               /\ UNCHANGED <<own, users, deleted, outdated>>
            \/ /\ seen[d] = "present"
               /\ Store(d, o, p) /\ GoOn(d)
    /\ UNCHANGED <<grafana, wiring, labelled, loki, chosen, clean, meddled, faults>>

\* Something else that has been created since the look is left as it is.
Write(d) ==
    /\ \E o \in Written :
         /\ At(d, o)
         /\ LET p == Target(d) IN
            \/ /\ seen[d] = "absent" /\ own[o][p] = None
               /\ Store(d, o, p) /\ GoOn(d)
            \/ /\ seen[d] = "absent" /\ own[o][p] # None
               /\ GoOn(d)
               /\ UNCHANGED <<own, users, deleted, outdated>>
            \/ /\ seen[d] = "present" /\ d \notin outdated
               /\ Store(d, o, p) /\ GoOn(d)
            \/ /\ seen[d] = "present" /\ d \in outdated
               /\ Abort(d)
               /\ outdated' = outdated \ {d}
               /\ UNCHANGED <<own, users, deleted>>
    /\ UNCHANGED <<grafana, wiring, labelled, loki, chosen, clean, meddled, faults>>

ReadDeployment(d) ==
    /\ At(d, "deployment") /\ seen[d] = None
    /\ LET p == Target(d) IN
       \/ /\ grafana[p] = None
          /\ seen' = [seen EXCEPT ![d] = "absent"]
          /\ UNCHANGED copy
       \/ /\ grafana[p] # None
          /\ seen' = [seen EXCEPT ![d] = "present"]
          /\ copy' = [copy EXCEPT ![d] =
                        [users |-> users["deployment"][p], wiring |-> wiring[p]]]
    /\ UNCHANGED <<cluster, step, chosen, outdated, done, history, faults>>

\* An entry that means something else is never overwritten, and without a container
\* named grafana there is nothing to put it in.
Refused(w) == \E e \in Entry : w[e] = "taken"

\* Only the named Grafana is looked for here, whatever was found before.
WriteDeployment(d) ==
    /\ At(d, "deployment")
    /\ LET p == Target(d) IN
       \/ /\ seen[d] = "absent" /\ grafana[p] = None
          /\ grafana' = [grafana EXCEPT ![p] = Kvoctl]
          /\ wiring' = [wiring EXCEPT ![p] = Wired]
          /\ users' = [users EXCEPT !["deployment"][p] = 0]
          /\ GoOn(d)
          /\ UNCHANGED outdated
       \/ /\ seen[d] = "absent" /\ grafana[p] # None
          /\ GoOn(d)
          /\ UNCHANGED <<grafana, wiring, users, outdated>>
       \/ /\ seen[d] = "present" /\ ~Refused(copy[d].wiring) /\ d \notin outdated
          /\ wiring' = [wiring EXCEPT ![p] = Wired]
          /\ users' = [users EXCEPT !["deployment"][p] = copy[d].users]
          /\ outdated' = outdated \cup (IF <<wiring', users'>> = <<wiring, users>>
                                        THEN {} ELSE Readers("deployment", p) \ {d})
          /\ GoOn(d)
          /\ UNCHANGED grafana
       \/ /\ seen[d] = "present" /\ (Refused(copy[d].wiring) \/ d \in outdated)
          /\ Abort(d)
          /\ outdated' = outdated \ {d}
          /\ UNCHANGED <<grafana, wiring, users>>
    /\ UNCHANGED <<own, labelled, loki, chosen, history, faults>>

Proceed(d) ==
    Discover(d) \/ Keep(d) \/ Read(d) \/ Write(d) \/ ReadDeployment(d) \/ WriteDeployment(d)

(***************************************************************************)
(* The cluster and its users.                                              *)
(***************************************************************************)

\* kvoctl is stopped, a request of it fails, or its dashboard files cannot be read.
Stop(d) ==
    /\ Fault
    /\ step[d] > 0
    /\ Abort(d)
    /\ outdated' = outdated \ {d}
    /\ UNCHANGED <<cluster, chosen, history>>

Again(d) ==
    /\ Fault
    /\ d \in done
    /\ done' = done \ {d}
    /\ UNCHANGED <<cluster, step, chosen, seen, copy, outdated, history>>

\* What every act of a user has in common.
Act ==
    /\ Fault
    /\ clean' = {}
    /\ UNCHANGED <<step, chosen, seen, copy, done>>

\* A user changes a ConfigMap and may take kvoctl's part out of it, ...
EditConfigMap(o, p) ==
    /\ own[o][p] # None
    /\ Act
    /\ users' = [users EXCEPT ![o][p] = @ + 1]
    /\ \E v \in {own[o][p], Users} : own' = [own EXCEPT ![o][p] = v]
    /\ outdated' = outdated \cup Readers(o, p)
    /\ UNCHANGED <<grafana, wiring, labelled, loki, deleted, meddled>>

\* ... or the Deployment with any of its entries, ...
EditDeployment(p) ==
    /\ grafana[p] # None
    /\ Act
    /\ users' = [users EXCEPT !["deployment"][p] = @ + 1]
    /\ \E w \in Wiring :
         /\ \A e \in Entry : w[e] = "wired" => wiring[p][e] = "wired"
         /\ wiring' = [wiring EXCEPT ![p] = w]
    /\ outdated' = outdated \cup Readers("deployment", p)
    /\ UNCHANGED <<own, grafana, labelled, loki, deleted, meddled>>

\* ... deletes an object, empties a token's Secret, makes a binding for another role, ...
Delete(o, p) ==
    /\ own[o][p] # None
    /\ Act
    /\ own' = [own EXCEPT ![o][p] = None]
    /\ users' = IF o \in ConfigMap THEN [users EXCEPT ![o][p] = 0] ELSE users
    /\ deleted' = deleted \cup {<<o, p>>}
    /\ outdated' = outdated \cup Readers(o, p)
    /\ UNCHANGED <<grafana, wiring, labelled, loki, meddled>>

Spoil(o, p, v) ==
    /\ own[o][p] # v
    /\ Act
    /\ own' = [own EXCEPT ![o][p] = v]
    /\ deleted' = deleted \cup {<<o, p>>}
    /\ outdated' = outdated \cup Readers(o, p)
    /\ UNCHANGED <<users, grafana, wiring, labelled, loki, meddled>>

\* ... installs a Grafana under either name or removes it.
Install(p) ==
    /\ Act
    /\ meddled' = TRUE
    /\ own["namespace"][p] # None
    /\ \/ /\ grafana[p] = None
          /\ grafana' = [grafana EXCEPT ![p] = Users]
          /\ users' = [users EXCEPT !["deployment"][p] = 0]
          /\ \E w \in Wiring : /\ \A e \in Entry : w[e] # "wired"
                               /\ wiring' = [wiring EXCEPT ![p] = w]
          /\ UNCHANGED labelled
       \/ /\ p \notin labelled
          /\ labelled' = labelled \cup {p}
          /\ UNCHANGED <<users, grafana, wiring>>
    /\ UNCHANGED <<own, loki, deleted, outdated>>

Uninstall(p) ==
    /\ Act
    /\ \/ /\ grafana[p] # None
          /\ grafana' = [grafana EXCEPT ![p] = None]
          /\ users' = [users EXCEPT !["deployment"][p] = 0]
          /\ wiring' = [wiring EXCEPT ![p] = Bare]
          /\ outdated' = outdated \cup Readers("deployment", p)
          /\ UNCHANGED labelled
       \/ /\ p \in labelled
          /\ labelled' = labelled \ {p}
          /\ UNCHANGED <<users, grafana, wiring, outdated>>
    /\ meddled' = TRUE
    /\ UNCHANGED <<own, loki, deleted>>

\* Loki is installed anew, and the Loki operator makes its Route in the end.
MoveLoki ==
    /\ Act
    /\ \E u \in (Url \cup {None}) \ {loki} : loki' = u
    /\ UNCHANGED <<own, users, grafana, wiring, labelled, deleted, meddled, outdated>>

RouteAppears ==
    /\ loki = None
    /\ \E u \in Url : loki' = u
    /\ UNCHANGED <<own, users, grafana, wiring, labelled, step, chosen, seen, copy, outdated,
                   done, history, faults>>

UserActs ==
    \/ \E p \in Place : \/ EditDeployment(p) \/ Install(p) \/ Uninstall(p)
                        \/ \E o \in ConfigMap : EditConfigMap(o, p)
                        \/ \E o \in Object \ {"namespace"} : Delete(o, p)
                        \/ \E o \in Token : Spoil(o, p, Empty)
    \/ \E o \in Binding : Spoil(o, Own, Foreign)
    \/ MoveLoki

GrafanaNext ==
    \/ \E d \in Deployer : Begin(d) \/ Overlap(d) \/ Proceed(d) \/ Stop(d) \/ Again(d)
    \/ RouteAppears
    \/ UserActs

\* A deployment that failed is tried again, a running one goes on, and the Loki
\* operator does its work.
GrafanaFairness ==
    /\ \A d \in Deployer : WF_grafanaVars(Begin(d)) /\ WF_grafanaVars(Proceed(d))
    /\ WF_grafanaVars(RouteAppears)

GrafanaSpec == GrafanaInit /\ [][GrafanaNext]_grafanaVars /\ GrafanaFairness

GrafanaTypeOK ==
    /\ own \in [Object -> [Place -> Deployer \cup Url \cup
                                      {None, Kvoctl, Users, Foreign, Empty}]]
    /\ users \in [Shared -> [Place -> Nat]]
    /\ grafana \in [Place -> {None, Kvoctl, Users}]
    /\ wiring \in [Place -> Wiring]
    /\ labelled \subseteq Place
    /\ loki \in Url \cup {None}
    /\ step \in [Deployer -> 0 .. Len(Plan)]
    /\ chosen \in [Deployer -> [place : Place, found : BOOLEAN, url : Url \cup {None}]]
    /\ seen \in [Deployer -> {None, "absent", "present"}]
    /\ copy \in [Deployer -> [users : Nat, wiring : Wiring]]
    /\ outdated \subseteq Running
    /\ done \subseteq Deployer
    /\ clean \subseteq Deployer
    /\ deleted \subseteq Object \X Place
    /\ meddled \in BOOLEAN
    /\ faults \in 0 .. MaxFaults

(***************************************************************************)
(* Properties.                                                             *)
(***************************************************************************)

\* No step of kvoctl takes away what users have in an object they share with it, nor
\* an entry of theirs that has a name kvoctl needs, however their edits fall between
\* its requests.
UsersWorkKept ==
    [][UserActs \/
       \A p \in Place :
         /\ \A o \in ConfigMap : own[o][p] # None => users'[o][p] = users[o][p]
         /\ grafana[p] # None =>
              /\ users'["deployment"][p] = users["deployment"][p]
              /\ \A e \in Entry : wiring[p][e] = "taken" => wiring'[p][e] = "taken"]_grafanaVars

\* Wherever a deployment stops, a Grafana that kvoctl has made or wired finds in its
\* namespace what its entries refer to, unless a user has deleted it.
EntriesResolve ==
    \A p \in Place, o \in ConfigMap \cup Token :
        wiring[p][IF o \in Token THEN "tokens" ELSE "volumes"] = "wired"
            => own[o][p] # None \/ <<o, p>> \in deleted

\* However often deployments are stopped, repeated or overlap: kvoctl makes no Grafana
\* beside another one, in whatever namespace, as long as users neither install nor
\* remove any and none is known by its label only.
OneGrafana ==
    labelled = {} /\ ~meddled
        => \A p, q \in Place : grafana[p] = Kvoctl /\ grafana[q] # None => p = q

\* A deployment that ends in success, undisturbed, has a Grafana wired to data
\* sources of the current Loki and to its own dashboards, with the access they need.
ProvisionedWhenDone ==
    \A d \in done \cap clean :
        LET p == chosen[d].place IN
        /\ grafana[p] # None /\ wiring[p] = Wired
        /\ own["datasources"][p] = loki /\ own["dashboards"][p] = d
        /\ \A o \in Token \cup {"provider"} : own[o][p] = Kvoctl
        /\ own["account"][Own] # None
        /\ \A o \in Binding \cup {"reader-role"} : own[o][Own] = Kvoctl
        /\ ~chosen[d].found => \A o \in {"service", "route"} : own[o][p] # None

\* What no later deployment gets past.
Stuck ==
    \/ \E p \in FoundIn : Refused(wiring[p]) \/ \E o \in Token : own[o][p] = Empty
    \/ \E o \in Token : own[o][Own] = Empty
    \/ \E o \in Binding : own[o][Own] = Foreign

\* Deployments that are tried again succeed in the end, also against each other and
\* after users have meddled with them, unless a user's entry, a Secret without a token
\* or a foreign binding is in the way.
InstallCompletes == <>[](Stuck \/ done = Deployer)

\* docs/kvoctl.md, line 38: an existing Grafana deployment that is discovered is reused.
ExistingIsReused ==
    [][\A p \in Place : grafana[p] = None /\ grafana'[p] = Kvoctl => FoundIn = {}]_grafanaVars
=============================================================================
