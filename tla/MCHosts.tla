------------------------------ MODULE MCHosts ------------------------------
(* One switchable host for TLC, with a run of each of its two models.        *)
EXTENDS ModelHosts, TLC

CONSTANTS h1, h2,   \* runs
          m1, m2    \* the models of a host

OfEachModel == (h1 :> m1) @@ (h2 :> m2)

PlayedOnce == [r \in HostedRuns |-> 1]

OneWorker == [d \in Deployments |-> 1]
=============================================================================
