-------------------------- MODULE MCDeploymentRun --------------------------
(* Values of the constants of DeploymentRun for TLC. *)
EXTENDS DeploymentRun

CONSTANTS d1, nyc, ams, starter, recovery

OneRegion == [d \in Deployments |-> <<nyc>>]
TwoRegions == [d \in Deployments |-> <<nyc, ams>>]
=============================================================================
