------------------------------ MODULE MCDeploy ------------------------------
(***************************************************************************)
(* An instance of Deploy for TLC.                                          *)
(***************************************************************************)
EXTENDS Deploy, TLC
=============================================================================
