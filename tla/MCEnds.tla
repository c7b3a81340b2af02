------------------------------- MODULE MCEnds -------------------------------
(* What must end, for TLC: the runs of the wall over its restarts, render   *)
(* jobs, uploads, issue reports and leases of a model host.  They share no  *)
(* state: each is run while the others rest in their initial state, so that *)
(* the states are the sum of theirs, not the product.                       *)
EXTENDS WallStore, RenderJobs, StudioPublish, IssueDelivery, ModelHosts, TLC

CONSTANTS r1, w1, w2,    \* a run and two runners
          j1, p1, p2,    \* a render job and two replay workers
          c1, c2,        \* publication candidates
          o1,            \* a failed run
          h1, h2,        \* runs that ask for a model
          m1, m2         \* the models of a host

DoneOrError == [reason : {"done", "error"}, bare : {FALSE},
                transport : {FALSE}, advanced : {FALSE}]

\* Runners that report no version.
Unversioned == [n \in {w1, w2} |-> NoRevision]

PlainOnly == {[profile |-> "default", endless |-> FALSE]}

OneSlotEach == (p1 :> 1) @@ (p2 :> 1)

BothEpisodes == [c \in Candidates |-> "episode"]

OneOfEachModel == (h1 :> m1) @@ (h2 :> m2)

PlayedOnce == [r \in HostedRuns |-> 1]

OneRunEach == [d \in Deployments |-> 1]

EndsInit == StoreInit /\ RenderInit /\ PubInit /\ IssueInit /\ HostInit

\* The services take turns with a wall that is off: a wall that is on polls for
\* ever.  Its mutex, taken by none of the runners, disables every step of it.
WallOff == holder = NoRun

WallStops ==
    /\ EndsInit
    /\ holder' = NoRun
    /\ UNCHANGED <<wallVars, cursor, netVars, saved, restarts>>
    /\ UNCHANGED <<renderVars, pubVars, issueVars, hostedVars>>

EndsNext ==
    \/ /\ ~WallOff /\ RenderInit /\ PubInit /\ IssueInit /\ HostInit
       /\ StoreNext
       /\ UNCHANGED <<renderVars, pubVars, issueVars, hostedVars>>
    \/ WallStops
    \/ /\ WallOff /\ PubInit /\ IssueInit /\ HostInit
       /\ RenderNext
       /\ UNCHANGED <<storeVars, pubVars, issueVars, hostedVars>>
    \/ /\ WallOff /\ RenderInit /\ IssueInit /\ HostInit
       /\ PubNext
       /\ UNCHANGED <<storeVars, renderVars, issueVars, hostedVars>>
    \/ /\ WallOff /\ RenderInit /\ PubInit /\ HostInit
       /\ IssueNext
       /\ UNCHANGED <<storeVars, renderVars, pubVars, hostedVars>>
    \/ /\ WallOff /\ RenderInit /\ PubInit /\ IssueInit
       /\ HostNext
       /\ UNCHANGED <<storeVars, renderVars, pubVars, issueVars>>

\* A component at rest, or off, has nothing to do: its fairness holds of it.
EndsSpec ==
    /\ EndsInit
    /\ [][EndsNext]_<<storeVars, renderVars, pubVars, issueVars, hostedVars>>
    /\ StoreFairness /\ RenderFairness /\ PubFairness /\ IssueFairness /\ PollFairness
=============================================================================
