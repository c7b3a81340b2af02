----------------------------- MODULE ModelHosts -----------------------------
(***************************************************************************)
(* A switchable model host (cmd/pokemodelhost) and the wrapper of the       *)
(* wall's lease handler that drives it (cmd/pokewall/model_experiments.go). *)
(*                                                                          *)
(* The host owns one inference process and refuses to change its model      *)
(* while a run holds a lease of it; its leases live in memory.  The wrapper *)
(* serves one lease request at a time (leaseMu): it releases the leases of  *)
(* runs that are over, walks the queue for a run whose model is loaded,     *)
(* leases that run from the wall, and then its lease from the host, which   *)
(* it gives back, and the run too, when the host is not ready after all.    *)
(* Every call to the host may fail, or arrive after its caller gave up.     *)
(*                                                                          *)
(* The wall is its queue and whether a run is out; Wall has the rest.       *)
(***************************************************************************)
EXTENDS Naturals, Sequences, FiniteSets

CONSTANTS
  HostedRuns, NoHostedRun,
  Deployments, NoDeployment,   \* the models of the host
  DeploymentOf,                \* the model each run asks for
  ParallelLimit,               \* runs a model serves at once
  MaxPlays,                    \* bound: generations of each run
  Mishaps,                     \* "late": a call may arrive after its run was leased
                               \* again; "restart": the host may restart
  MaxHostFaults                \* bound: lost calls and processes

ASSUME HostAssumption ==
  /\ NoHostedRun \notin HostedRuns /\ NoDeployment \notin Deployments
  /\ DeploymentOf \in [HostedRuns -> Deployments]
  /\ ParallelLimit \in [Deployments -> Nat \ {0}]
  /\ Mishaps \subseteq {"late", "restart"}
  /\ MaxPlays \in [HostedRuns -> Nat \ {0}] /\ MaxHostFaults \in Nat

VARIABLES
  loaded, hostState,   \* the host: its model, and how far it is
  leases,              \* the runs that hold a lease of it
  server,              \* who answers at its endpoint: no process, the one of the
                       \* last load, or an old one that was told to end
  hosted, waiting,     \* the wall: where each run is, and its queue
  plays,               \* generations of each run that ended
  playing,             \* the runs some runner plays
  poll,                \* the lease request under way
  releasing,           \* releases on their way from a finish, or given up
  strays,              \* acquire calls whose caller gave up
  hostFaults

hostVars == <<loaded, hostState, leases, server>>
runVars == <<hosted, waiting, plays, playing>>
hostedVars == <<loaded, hostState, leases, server, hosted, waiting, plays, playing,
                poll, releasing, strays, hostFaults>>

NoPoll == [phase |-> "idle", todo |-> <<>>, run |-> NoHostedRun]

HostInit ==
  /\ loaded = NoDeployment /\ hostState = "idle" /\ leases = {} /\ server = "none"
  /\ hosted = [r \in HostedRuns |-> "none"] /\ waiting = <<>>
  /\ plays = [r \in HostedRuns |-> 0] /\ playing = {}
  /\ poll = NoPoll /\ releasing = {} /\ strays = {} /\ hostFaults = 0

HostFault == hostFaults < MaxHostFaults /\ hostFaults' = hostFaults + 1
HostNoFault == UNCHANGED hostFaults

Out(r) == hosted[r] = "out"
InLine(r) == \E i \in DOMAIN waiting : waiting[i] = r

-----------------------------------------------------------------------------
(* The host.                                                               *)

\* startLoadLocked: the process before is told to end, which takes a while.
StartLoad(d) ==
  /\ loaded' = d
  /\ \/ hostState' = "loading" /\ HostNoFault
     \/ hostState' = "failed" /\ HostFault
  /\ server' = IF server = "none" THEN "none" ELSE "old"

Loads(d) == loaded = d /\ hostState \in {"ready", "loading"}

\* Mutant of Busy: a model is switched under its leases.
NeverBusy(d) == FALSE

Busy(d) == loaded \notin {d, NoDeployment} /\ leases # {}

Full(r) == r \notin leases /\ Cardinality(leases) >= ParallelLimit[DeploymentOf[r]]

\* requestLoad with a run: refused, or the lease is taken and the model loaded
\* if need be.  A lease is given back only when the process does not start.
RequestLease(r) ==
  LET d == DeploymentOf[r] IN
  \/ /\ Busy(d) \/ Full(r)
     /\ UNCHANGED hostVars /\ HostNoFault
  \/ /\ ~Busy(d) /\ ~Full(r)
     /\ Loads(d)
     /\ leases' = leases \cup {r}
     /\ UNCHANGED <<loaded, hostState, server>> /\ HostNoFault
  \/ /\ ~Busy(d) /\ ~Full(r)
     /\ ~Loads(d)
     /\ StartLoad(d)
     /\ leases' = IF hostState' = "failed" THEN leases \ {r} ELSE leases \cup {r}

\* waitReady: whoever answers at the endpoint.
LoadReady ==
  /\ hostState = "loading" /\ server # "none"
  /\ hostState' = "ready"
  /\ UNCHANGED <<loaded, leases, server, runVars, poll, releasing, strays, hostFaults>>

ProcessGone ==
  /\ server = "old"
  /\ server' = "none"
  /\ UNCHANGED <<loaded, hostState, leases, runVars, poll, releasing, strays, hostFaults>>

ProcessUp ==
  /\ server = "none" /\ hostState \in {"loading", "ready"}
  /\ server' = "new"
  /\ UNCHANGED <<loaded, hostState, leases, runVars, poll, releasing, strays, hostFaults>>

\* watchProcess and the load's timeout, each for the load under way only.
HostFails ==
  /\ hostState \in {"loading", "ready"}
  /\ hostState' = "failed"
  /\ \/ server = "new" /\ server' = "none"
     \/ /\ hostState = "loading" \/ server # "new"
        /\ UNCHANGED server
  /\ HostFault
  /\ UNCHANGED <<loaded, leases, runVars, poll, releasing, strays>>

HostRestart ==
  /\ "restart" \in Mishaps /\ HostFault
  /\ loaded' = NoDeployment /\ hostState' = "idle" /\ leases' = {}
  /\ server' = "none"
  /\ UNCHANGED <<runVars, poll, releasing, strays>>

StrayAcquire(r) ==
  /\ r \in strays
  /\ strays' = strays \ {r}
  /\ RequestLease(r)
  /\ UNCHANGED <<runVars, poll, releasing>>

-----------------------------------------------------------------------------
(* handleLease.                                                            *)

\* Mutant of Orphans: leases are released only when their run is at its end.
EndedOnly == {r \in leases : hosted[r] = "done"}

\* reconcileHostLeases: no run gets out meanwhile, as leaseMu is held.
Orphans == {r \in leases : ~Out(r)}

PollBegin ==
  /\ poll = NoPoll
  /\ \/ leases' = leases \ Orphans /\ HostNoFault
     \/ UNCHANGED leases /\ HostFault
  /\ poll' = [NoPoll EXCEPT !.phase = IF waiting = <<>> THEN "lease" ELSE "look",
                            !.todo = waiting]
  /\ UNCHANGED <<loaded, hostState, server, runVars, releasing, strays>>

NextLook ==
  poll' = IF Len(poll.todo) = 1 THEN NoPoll ELSE [poll EXCEPT !.todo = Tail(@)]

WaitingWithout(i) == SubSeq(waiting, 1, i - 1) \o SubSeq(waiting, i + 1, Len(waiting))

Leaves(r) == \E i \in DOMAIN waiting : waiting[i] = r /\ waiting' = WaitingWithout(i)

\* moveQueueFront: the run may have left the queue meanwhile.
ToFront(r) ==
  \/ \E i \in DOMAIN waiting :
       waiting[i] = r /\ waiting' = <<r>> \o WaitingWithout(i)
  \/ ~InLine(r) /\ UNCHANGED waiting

AtCapacity(d) ==
  Cardinality({r \in HostedRuns : Out(r) /\ DeploymentOf[r] = d}) >= ParallelLimit[d]

\* One turn of prepareNextDeployment's loop: the run's model is ready; or it is
\* loaded, if it may be; or the run is passed over.
PollLook ==
  LET r == Head(poll.todo)
      d == DeploymentOf[r]
  IN
  /\ poll.phase = "look"
  /\ \/ /\ ~AtCapacity(d) /\ hostState = "ready" /\ loaded = d
        /\ ToFront(r)
        /\ poll' = [NoPoll EXCEPT !.phase = "lease"]
        /\ UNCHANGED hostVars /\ HostNoFault
     \/ /\ ~AtCapacity(d) /\ ~Loads(d) /\ ~Busy(d)
        /\ StartLoad(d)
        /\ NextLook
        /\ UNCHANGED <<leases, waiting>>
     \/ /\ AtCapacity(d) \/ Busy(d) \/ (Loads(d) /\ hostState = "loading")
        /\ NextLook
        /\ UNCHANGED <<hostVars, waiting>> /\ HostNoFault
     \/ /\ NextLook
        /\ UNCHANGED <<hostVars, waiting>> /\ HostFault
  /\ UNCHANGED <<hosted, plays, playing, releasing, strays>>

\* The wall's handleLease: it may skip the run at the head, or all of them, and
\* hand out another, whose model is not loaded.
PollTake ==
  /\ poll.phase = "lease"
  /\ \/ /\ poll' = NoPoll
        /\ (waiting = <<>> /\ HostNoFault) \/ HostFault
        /\ UNCHANGED <<hosted, waiting>>
     \/ \E r \in HostedRuns :
          /\ Leaves(r) /\ HostNoFault
          /\ r \in releasing \cup strays => "late" \in Mishaps
          /\ hosted' = [hosted EXCEPT ![r] = "out"]
          /\ poll' = [poll EXCEPT !.phase = "acquire", !.run = r]
  /\ UNCHANGED <<hostVars, plays, playing, releasing, strays>>

\* refreshRunInference, and the host's lease.
PollAcquire ==
  LET r == poll.run IN
  /\ poll.phase = "acquire"
  /\ \/ /\ RequestLease(r)
        /\ poll' = [poll EXCEPT !.phase =
             IF r \in leases' /\ hostState' = "ready" /\ loaded' = DeploymentOf[r]
             THEN "reply" ELSE "release"]
        /\ UNCHANGED strays
     \/ /\ poll' = [poll EXCEPT !.phase = "requeue"] /\ HostFault
        /\ UNCHANGED <<hostVars, strays>>
     \/ /\ poll' = [poll EXCEPT !.phase = "release"] /\ HostFault
        /\ strays' = strays \cup {r}
        /\ UNCHANGED hostVars
  /\ UNCHANGED <<runVars, releasing>>

PollRelease ==
  /\ poll.phase = "release"
  /\ \/ leases' = leases \ {poll.run} /\ HostNoFault /\ UNCHANGED releasing
     \/ /\ UNCHANGED leases /\ HostFault
        /\ releasing' \in {releasing, releasing \cup {poll.run}}
  /\ poll' = [poll EXCEPT !.phase = "requeue"]
  /\ UNCHANGED <<loaded, hostState, server, runVars, strays>>

\* Mutant of Requeues: the run may have been reaped and queued meanwhile.
RequeuesUnlessDone(r) == hosted[r] # "done"

\* requeueLease: only a run that is still leased goes back.
Requeues(r) == Out(r)

PollRequeue ==
  LET r == poll.run IN
  /\ poll.phase = "requeue"
  /\ \/ /\ Requeues(r)
        /\ hosted' = [hosted EXCEPT ![r] = "queued"]
        /\ waiting' = <<r>> \o waiting
     \/ ~Requeues(r) /\ UNCHANGED <<hosted, waiting>>
  /\ poll' = NoPoll
  /\ UNCHANGED <<hostVars, plays, playing, releasing, strays, hostFaults>>

\* A runner gets the run, unless it stopped waiting.
PollReply ==
  LET r == poll.run IN
  /\ poll.phase = "reply"
  /\ \/ Out(r) /\ playing' = playing \cup {r} /\ HostNoFault
     \/ ~Out(r) /\ UNCHANGED playing /\ HostNoFault
     \/ UNCHANGED playing /\ HostFault
  /\ poll' = NoPoll
  /\ UNCHANGED <<hostVars, hosted, waiting, plays, releasing, strays>>

-----------------------------------------------------------------------------
(* The runs.                                                               *)

SubmitHosted(r) ==
  /\ hosted[r] = "none"
  /\ hosted' = [hosted EXCEPT ![r] = "queued"]
  /\ waiting' = Append(waiting, r)
  /\ UNCHANGED <<hostVars, plays, playing, poll, releasing, strays, hostFaults>>

\* handleDelete
DeleteHosted(r) ==
  /\ hosted[r] = "queued"
  /\ hosted' = [hosted EXCEPT ![r] = "done"]
  /\ Leaves(r)
  /\ UNCHANGED <<hostVars, plays, playing, poll, releasing, strays, hostFaults>>

\* settleRun: retried, or over.
SettleHosted(r) ==
  /\ plays' = [plays EXCEPT ![r] = @ + 1]
  /\ \/ /\ plays'[r] < MaxPlays[r]
        /\ hosted' = [hosted EXCEPT ![r] = "queued"]
        /\ waiting' = Append(waiting, r)
     \/ /\ hosted' = [hosted EXCEPT ![r] = "done"]
        /\ UNCHANGED waiting

\* handleFinish: the wall settles the run, then the wrapper releases its lease.
RunReports(r) ==
  /\ r \in playing
  /\ playing' = playing \ {r}
  /\ SettleHosted(r)
  /\ releasing' = releasing \cup {r}
  /\ UNCHANGED <<hostVars, poll, strays, hostFaults>>

ReleaseArrives(r) ==
  /\ r \in releasing
  /\ releasing' = releasing \ {r}
  /\ \/ leases' = leases \ {r} /\ HostNoFault
     \/ UNCHANGED leases /\ HostFault
  /\ UNCHANGED <<loaded, hostState, server, runVars, poll, strays>>

RunnerDies(r) ==
  /\ r \in playing
  /\ playing' = playing \ {r}
  /\ HostFault
  /\ UNCHANGED <<hostVars, hosted, waiting, plays, poll, releasing, strays>>

\* A run that nobody plays is given up, while its lease is fetched too.
ReapHosted(r) ==
  /\ Out(r) /\ r \notin playing
  /\ SettleHosted(r)
  /\ UNCHANGED <<hostVars, playing, poll, releasing, strays, hostFaults>>

-----------------------------------------------------------------------------
PollStep ==
  \/ PollBegin \/ PollLook \/ PollTake \/ PollAcquire
  \/ PollRelease \/ PollRequeue \/ PollReply

HostStep == LoadReady \/ ProcessGone \/ ProcessUp \/ HostFails \/ HostRestart

RunStep(r) ==
  \/ SubmitHosted(r) \/ DeleteHosted(r) \/ RunReports(r) \/ RunnerDies(r) \/ ReapHosted(r)
  \/ ReleaseArrives(r) \/ StrayAcquire(r)

HostNext == PollStep \/ HostStep \/ \E r \in HostedRuns : RunStep(r)

\* Idle runners poll, when there is something to do, and calls return.
AnyWork == poll # NoPoll \/ waiting # <<>> \/ leases # {}

PollFairness == WF_hostedVars(AnyWork /\ PollStep)

\* Loads and generations end as well.
HostFairness ==
  /\ PollFairness
  /\ WF_hostedVars(LoadReady) /\ WF_hostedVars(ProcessGone) /\ WF_hostedVars(ProcessUp)
  /\ \A r \in HostedRuns :
       /\ WF_hostedVars(RunReports(r)) /\ WF_hostedVars(ReapHosted(r))
       /\ WF_hostedVars(ReleaseArrives(r))

HostSpec == HostInit /\ [][HostNext]_hostedVars
FairHostSpec == HostSpec /\ HostFairness

-----------------------------------------------------------------------------
(* Properties.                                                             *)

\* Every variable has its type.
HostTypeOK ==
  /\ loaded \in Deployments \cup {NoDeployment}
  /\ hostState \in {"idle", "loading", "ready", "failed"}
  /\ leases \subseteq HostedRuns
  /\ server \in {"none", "old", "new"}
  /\ hosted \in [HostedRuns -> {"none", "queued", "out", "done"}]
  /\ waiting \in Seq(HostedRuns)
  /\ plays \in [HostedRuns -> Nat]
  /\ \A r \in HostedRuns : plays[r] <= MaxPlays[r]
  /\ playing \subseteq HostedRuns
  /\ poll.phase \in {"idle", "look", "lease", "acquire", "release", "requeue", "reply"}
  /\ releasing \subseteq HostedRuns /\ strays \subseteq HostedRuns
  /\ hostFaults \in 0 .. MaxHostFaults

\* A run that is being played has its model on the host: nobody switches it
\* under the run, whichever calls are lost, late or refused.
PlayedIsLoaded == \A r \in playing : loaded = DeploymentOf[r]

\* A run that waits is in the queue once, and no other run is in it, though the
\* wrapper moves runs to the front and puts back what the wall had handed out.
HostedQueueIsExact ==
  /\ \A r \in HostedRuns : hosted[r] = "queued" <=> InLine(r)
  /\ \A i, j \in DOMAIN waiting : waiting[i] = waiting[j] => i = j

\* A lease of the host whose run is not out ends, so that it blocks no other
\* model for ever.
HostLeasesEnd ==
  \A r \in HostedRuns : (r \in leases /\ ~Out(r)) ~> (r \notin leases \/ Out(r))

\* A queued run is leased in the end, or deleted: "idle workers will poll again
\* while the host reports loading".
QueuedRunsStart == \A r \in HostedRuns : InLine(r) ~> ~InLine(r)
=============================================================================
