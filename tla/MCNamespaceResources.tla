------------------------ MODULE MCNamespaceResources ------------------------
(***************************************************************************)
(* An instance of NamespaceResources for TLC.                              *)
(***************************************************************************)
EXTENDS NamespaceResources, TLC

\* One VM runs and one is about to; disturbances lead to the other initial states
\* but for the form of the key Secret.
MCInit ==
    /\ ResourcesInit
    /\ slack # None
    /\ address = [v \in VM |-> IF v \in Linux THEN "a1" ELSE None]
    /\ waiting = {}

MCSpec == MCInit /\ [][ResourcesNext]_resourceVars /\ ResourcesFairness
=============================================================================
