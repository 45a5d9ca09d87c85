---------------------------- MODULE SharedSource ----------------------------
(***************************************************************************)
(* What the merges promise about the Secrets and ConfigMaps that VMs boot   *)
(* from, without informers, copies, patches of whole documents or crashes:  *)
(* as if one worker at a time had merged into each source as it is.  What   *)
(* users have put into it stays; the bootstrap, once in it, stays; and no   *)
(* VM is told that it is merged before it is.  A source that a user edits   *)
(* while it is being merged, and one that VMs of two OS share, are excepted. *)
(***************************************************************************)
CONSTANTS
    Source,
    OS,
    Part,      \* what users may have put into a source
    Nothing,   \* of a source that is not there
    Empty      \* of one that the operator has made

VARIABLES
    part,      \* what users have put into each source
    booted,    \* the OS, of the VMs waiting for it, whose bootstrap it holds
    done,      \* the OS of VMs that have been told so
    edited,    \* sources that a user has edited
    mixed      \* sources that VMs of two OS share

sharedVars == <<part, booted, done, edited, mixed>>

Init ==
    /\ part \in [Source -> Part]
    /\ booted = [n \in Source |-> {}]
    /\ done = [n \in Source |-> {}]
    /\ edited = {}
    /\ mixed = {}

\* One more VM waits for the source, which may hold its bootstrap already.
Join(n) ==
    /\ \E x \in SUBSET OS : booted' = [booted EXCEPT ![n] = @ \cup x]
    /\ mixed' \in {mixed, mixed \cup {n}}
    /\ UNCHANGED <<part, done, edited>>

Create(n) ==
    /\ part[n] = Nothing
    /\ part' = [part EXCEPT ![n] = Empty]
    /\ UNCHANGED <<booted, done, edited, mixed>>

\* Whatever is written, it is written to this source.
OnlyTo(n) ==
    /\ part' \in [Source -> Part]
    /\ booted' \in [Source -> SUBSET OS]
    /\ \A m \in Source \ {n} : part'[m] = part[m] /\ booted'[m] = booted[m]

\* A merge for the VMs of one OS adds their bootstrap and does nothing else.
Merge(n) ==
    /\ part[n] # Nothing
    /\ OnlyTo(n)
    /\ n \notin edited => part'[n] = part[n]
    /\ \E os \in OS : IF n \in edited \cup mixed
                      THEN os \in booted'[n]
                      ELSE booted'[n] = booted[n] \cup {os}
    /\ UNCHANGED <<done, edited, mixed>>

Finish(n) ==
    /\ \E os \in OS : /\ os \in booted[n] \/ n \in edited \cup mixed
                      /\ done' = [done EXCEPT ![n] = @ \cup {os}]
    /\ UNCHANGED <<part, booted, edited, mixed>>

\* A user edits, deletes or replaces the source.
Edit(n) ==
    /\ OnlyTo(n)
    /\ edited' = edited \cup {n}
    /\ UNCHANGED <<done, mixed>>

Next == \E n \in Source : Join(n) \/ Create(n) \/ Merge(n) \/ Finish(n) \/ Edit(n)

Spec == Init /\ [][Next]_sharedVars
=============================================================================
