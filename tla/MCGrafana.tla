----------------------------- MODULE MCGrafana -----------------------------
EXTENDS Grafana

MCPlace == {"grafana", "portworx"}

\* One place at a time has something of its users'.
MCInit ==
    /\ GrafanaInit
    /\ \A p, q \in Place :
         (grafana[p] # None \/ p \in labelled) /\ (grafana[q] # None \/ q \in labelled)
             => p = q
    /\ \A o \in ConfigMap, p \in Place :
         own[o][p] # None => grafana[p] # None \/ p \in labelled

MCSpec == MCInit /\ [][GrafanaNext]_grafanaVars /\ GrafanaFairness
=============================================================================
