----------------------------- MODULE RenderJobs -----------------------------
(***************************************************************************)
(* Media render jobs.  pokewall keeps the durable jobs and their leases    *)
(* (cmd/pokewall/media_render_jobs.go); the pokereplay processes claim     *)
(* them, render, store the artifact and report (cmd/pokereplay).  A worker *)
(* is one pokereplay process: its identity dies with it.                   *)
(*                                                                         *)
(* Time is abstract: a lease is fresh or expired.  Each call of a worker   *)
(* is one section under the wall's mutex; MaxFaults bounds the failed      *)
(* writes, lost answers and outages longer than a lease.  Objects are not  *)
(* deleted here: an operator who purges a run's objects leaves its job     *)
(* ready without one, and removes the job to have it rendered again.       *)
(***************************************************************************)
EXTENDS Naturals, FiniteSets

CONSTANTS RenderJobIds,   \* jobs, one per artifact identity
          ReplayWorkers,  \* pokereplay processes
          NoReplayWorker, \* the empty WorkerID
          MaxJobs,        \* render slots of each worker
          MaxFaults

ASSUME RenderAssumption ==
  /\ NoReplayWorker \notin ReplayWorkers
  /\ MaxJobs \in [ReplayWorkers -> Nat]
  /\ MaxFaults \in Nat

VARIABLES jobs,       \* the wall's jobs, in memory
          savedJobs,  \* its jobs as last written
          expired,    \* active jobs whose lease has run out
          unsure,     \* jobs whose last change was answered with an error
          artifacts,  \* identities with an object in the store
          renders,    \* renders under way, one per slot
          cancels,    \* activeCancels of each worker: the slot, or 0
          stops,      \* cancel requests yet to be passed on to the render
          crashed,    \* workers that died
          faults

wallSide   == <<jobs, savedJobs, expired, unsure>>
workerSide == <<renders, cancels, stops, crashed>>
renderVars == <<wallSide, artifacts, workerSide, faults>>

-----------------------------------------------------------------------------
(* Jobs.  The four active states differ for the display only.              *)

JobStates == {"none", "queued", "active", "ready", "failed", "cancelled"}
Phases == {"rendering", "stored", "derived"}

Unleased(s) == [state |-> s, worker |-> NoReplayWorker]
LeasedTo(w) == [state |-> "active", worker |-> w]

JobRecords == [state : JobStates, worker : ReplayWorkers \cup {NoReplayWorker}]
Slots(w) == 1 .. MaxJobs[w]
RenderRecords ==
  {r \in [worker : ReplayWorkers, slot : Nat, job : RenderJobIds,
          phase : Phases, stopped : BOOLEAN] : r.slot \in Slots(r.worker)}

\* Mutant of Claimable: an abandoned lease is not taken over.
QueuedOnly(j) == jobs[j].state = "queued"

Claimable(j) == jobs[j].state = "queued" \/ j \in expired
JobSettled(j) == jobs[j].state \in {"ready", "failed", "cancelled"}
Owns(w, j) == jobs[j].worker = w
Owned(r) == Owns(r.worker, r.job) /\ jobs[r.job].state = "active"

RenderInit ==
  /\ jobs = [j \in RenderJobIds |-> Unleased("none")]
  /\ savedJobs = jobs
  /\ expired = {} /\ unsure = {}
  /\ artifacts = {}
  /\ renders = {}
  /\ cancels = [w \in ReplayWorkers |-> [j \in RenderJobIds |-> 0]]
  /\ stops = {}
  /\ crashed = {}
  /\ faults = 0

-----------------------------------------------------------------------------
(* Writes.  persistLocked writes all jobs after the change in memory; only *)
(* ensure and remove take the change back when the write fails.            *)

Fault == faults < MaxFaults /\ faults' = faults + 1
NoFault == UNCHANGED faults

InMemory(j, job) ==
  /\ jobs' = [jobs EXCEPT ![j] = job]
  /\ expired' = expired \ {j}

Written(j, job) == InMemory(j, job) /\ savedJobs' = jobs' /\ unsure' = {}

WriteFailed(j, job) ==
  /\ InMemory(j, job)
  /\ unsure' = unsure \cup {j}
  /\ Fault
  /\ UNCHANGED savedJobs

WriteUndone == Fault /\ UNCHANGED wallSide

Change(j, job) == (Written(j, job) /\ NoFault) \/ WriteFailed(j, job)

\* Mutant of ChangeOrUndo: the rollback is missing.
ChangeOrKeep(j, job) ==
  \/ Written(j, job) /\ NoFault
  \/ InMemory(j, job) /\ Fault /\ UNCHANGED <<savedJobs, unsure>>

ChangeOrUndo(j, job) == (Written(j, job) /\ NoFault) \/ WriteUndone

-----------------------------------------------------------------------------
(* Requests of the operator and of handleReplayRender.                     *)

RenderCreate(j) ==
  /\ jobs[j].state = "none"
  /\ ChangeOrUndo(j, Unleased("queued"))
  /\ UNCHANGED <<artifacts, workerSide>>

RenderRetry(j) ==
  /\ jobs[j].state \in {"failed", "cancelled"}
  /\ Change(j, Unleased("queued"))
  /\ UNCHANGED <<artifacts, workerSide>>

RenderRemove(j) ==
  /\ JobSettled(j)
  /\ ChangeOrUndo(j, Unleased("none"))
  /\ UNCHANGED <<artifacts, workerSide>>

\* Mutant of CancelledJob: the worker stays the owner.
CancelledStillOwned(j) == [jobs[j] EXCEPT !.state = "cancelled"]

\* The job a cancel leaves behind: no worker owns it any more.
CancelledJob(j) == Unleased("cancelled")

\* Either through the wall alone, or through a worker's replay API, which
\* passes an accepted cancel on to its own render of the job.
RenderCancel(j) ==
  /\ jobs[j].state \notin {"none", "ready"}
  /\ Change(j, CancelledJob(j))
  /\ \/ UNCHANGED stops
     \/ /\ unsure' = {}
        /\ \E w \in ReplayWorkers \ crashed : stops' = {<<w, j>>}
  /\ UNCHANGED <<artifacts, renders, cancels, crashed>>

\* replayStatus finds the object although the job is not ready.
RenderReconcile(j) ==
  /\ j \in artifacts
  /\ jobs[j].state \notin {"none", "ready"}
  /\ Change(j, Unleased("ready"))
  /\ UNCHANGED <<artifacts, workerSide>>

-----------------------------------------------------------------------------
(* A worker: admission and claim.                                          *)

\* Mutant of FreeSlots: nobody counts the renders under way.
EverySlot(w) == Slots(w)

FreeSlots(w) ==
  {k \in Slots(w) : \A r \in renders : <<r.worker, r.slot>> # <<w, k>>}
FreeSlot(w) == CHOOSE k \in FreeSlots(w) : TRUE

Start(w, j) ==
  LET k == FreeSlot(w) IN
  /\ renders' = renders \cup {[worker |-> w, slot |-> k, job |-> j,
                               phase |-> "rendering", stopped |-> FALSE]}
  /\ cancels' = [cancels EXCEPT ![w][j] = k]
  /\ UNCHANGED <<stops, crashed>>

\* A failed write or a lost answer leaves a lease that no render serves.
RenderClaim(w, j) ==
  /\ w \notin crashed /\ FreeSlots(w) # {}
  /\ Claimable(j)
  /\ \/ Written(j, LeasedTo(w)) /\ Start(w, j) /\ NoFault
     \/ Written(j, LeasedTo(w)) /\ Fault /\ UNCHANGED workerSide
     \/ WriteFailed(j, LeasedTo(w)) /\ UNCHANGED workerSide
  /\ UNCHANGED artifacts

-----------------------------------------------------------------------------
(* A render: heartbeats, the artifact, the report.                         *)

With(r, s) == renders' = (renders \ {r}) \cup {s}
Stop(r) == With(r, [r EXCEPT !.stopped = TRUE])

\* A render that ends takes the job's cancel with it, whoever registered it.
End(r) ==
  /\ renders' = renders \ {r}
  /\ cancels' = [cancels EXCEPT ![r.worker][r.job] = 0]
  /\ UNCHANGED <<stops, crashed>>

\* Mutant of LeaseLost: the answer for a settled job is taken for a passing
\* error.
LeaseStolen(r) == jobs[r.job].worker \notin {r.worker, NoReplayWorker}

LeaseLost(r) == ~Owned(r)

\* An accepted heartbeat renews the lease, an expired one too; a refused one
\* stops the render.
RenderBeat(r) ==
  /\ ~r.stopped
  /\ \/ Owned(r) /\ Change(r.job, LeasedTo(r.worker)) /\ UNCHANGED renders
     \/ LeaseLost(r) /\ Stop(r) /\ UNCHANGED <<wallSide, faults>>
  /\ UNCHANGED <<artifacts, cancels, stops, crashed>>

\* finish at the wall: only the owner is heard; the report may be lost.
Report(r, s) ==
  \/ Owns(r.worker, r.job) /\ Change(r.job, Unleased(s))
  \/ ~Owns(r.worker, r.job) /\ UNCHANGED <<wallSide, faults>>
  \/ Fault /\ UNCHANGED wallSide

RenderStore(r) ==
  /\ r.phase = "rendering" /\ ~r.stopped
  /\ artifacts' = artifacts \cup {r.job}
  /\ With(r, [r EXCEPT !.phase = "stored"])
  /\ UNCHANGED <<wallSide, cancels, stops, crashed, faults>>

\* An error or the job's timeout.
RenderFail(r) ==
  /\ r.phase = "rendering" /\ ~r.stopped
  /\ Report(r, "failed")
  /\ End(r)
  /\ UNCHANGED artifacts

\* A stopped render ends without a report; its upload may have landed.
RenderCut(r) ==
  /\ r.phase = "rendering" /\ r.stopped
  /\ artifacts' \in {artifacts, artifacts \cup {r.job}}
  /\ End(r)
  /\ UNCHANGED <<wallSide, faults>>

\* Mutant of RenderReady: the job is reported before the object is stored.
RenderReadyEarly(r) ==
  /\ r.phase \in {"rendering", "stored"} /\ ~r.stopped
  /\ Report(r, "ready")
  /\ With(r, [r EXCEPT !.phase = "derived"])
  /\ UNCHANGED <<artifacts, cancels, stops, crashed>>

\* The report uses a context of its own: a late stop does not hold it back.
RenderReady(r) ==
  /\ r.phase = "stored"
  /\ Report(r, "ready")
  /\ With(r, [r EXCEPT !.phase = "derived"])
  /\ UNCHANGED <<artifacts, cancels, stops, crashed>>

\* The semantic timeline, with the slot and the heartbeat still held.
RenderDerive(r) ==
  /\ r.phase = "derived"
  /\ End(r)
  /\ UNCHANGED <<wallSide, artifacts, faults>>

\* cancelActiveRender stops whatever render the job id is registered for.
RenderStop(w, j) ==
  /\ <<w, j>> \in stops
  /\ stops' = stops \ {<<w, j>>}
  /\ renders' =
       {IF r.worker = w /\ r.job = j /\ r.slot = cancels[w][j]
          THEN [r EXCEPT !.stopped = TRUE] ELSE r : r \in renders}
  /\ UNCHANGED <<wallSide, artifacts, cancels, crashed, faults>>

-----------------------------------------------------------------------------
(* Time and failures.                                                      *)

Served(j) == \E r \in renders : r.job = j /\ Owns(r.worker, j) /\ ~r.stopped

\* Ninety seconds without a renewal: nobody renews, or nothing gets through.
RenderExpire(j) ==
  /\ jobs[j].state = "active"
  /\ j \notin expired
  /\ (Served(j) /\ Fault) \/ (~Served(j) /\ NoFault)
  /\ expired' = expired \cup {j}
  /\ UNCHANGED <<jobs, savedJobs, unsure, artifacts, workerSide>>

\* A worker dies with its renders; at least one is left.
WorkerCrash(w) ==
  /\ w \notin crashed /\ crashed \cup {w} # ReplayWorkers
  /\ crashed' = crashed \cup {w}
  /\ renders' = {r \in renders : r.worker # w}
  /\ cancels' = [cancels EXCEPT ![w] = [j \in RenderJobIds |-> 0]]
  /\ stops' = {p \in stops : p[1] # w}
  /\ UNCHANGED <<wallSide, artifacts, faults>>

\* The wall loads what it wrote last.  A lease whose renewal was not written
\* may have run out.
WallRestart ==
  /\ jobs' = savedJobs
  /\ unsure' = {}
  /\ \E older \in SUBSET unsure :
       expired' = {j \in expired \cup older : savedJobs[j].state = "active"}
  /\ UNCHANGED <<savedJobs, artifacts, workerSide, faults>>

-----------------------------------------------------------------------------
RenderRequests == \E j \in RenderJobIds :
  RenderCreate(j) \/ RenderRetry(j) \/ RenderRemove(j) \/ RenderCancel(j)
    \/ RenderReconcile(j)

Progress(r) ==
  RenderStore(r) \/ RenderFail(r) \/ RenderCut(r) \/ RenderReady(r)
    \/ RenderDerive(r)

Worker(w) == \E j \in RenderJobIds : RenderClaim(w, j) \/ RenderStop(w, j)

Rendering == \E r \in renders : RenderBeat(r) \/ Progress(r)

Failures ==
  \/ \E j \in RenderJobIds : RenderExpire(j)
  \/ \E w \in ReplayWorkers : WorkerCrash(w)
  \/ WallRestart

RenderNext == RenderRequests \/ (\E w \in ReplayWorkers : Worker(w)) \/ Rendering
                \/ Failures
RenderSpec == RenderInit /\ [][RenderNext]_renderVars

RenderAt(w, k) == {r \in renders : r.worker = w /\ r.slot = k}

\* What a render does whether or not its encoder ever returns.
Upkeep(r) == RenderBeat(r) \/ RenderCut(r) \/ RenderReady(r) \/ RenderDerive(r)

\* The tickers: recovery polls every ten seconds, heartbeats every five, a
\* cancelled context kills the encoder, and time passes.
RenderFairness ==
  /\ \A j \in RenderJobIds :
       /\ WF_renderVars(\E w \in ReplayWorkers : RenderClaim(w, j))
       /\ WF_renderVars(RenderExpire(j))
  /\ \A w \in ReplayWorkers : \A k \in Slots(w) :
       WF_renderVars(\E r \in RenderAt(w, k) : Upkeep(r))

-----------------------------------------------------------------------------
(* Properties.                                                             *)

\* Every variable has its type, and a render its slot to itself.
RenderTypeOK ==
  /\ jobs \in [RenderJobIds -> JobRecords]
  /\ savedJobs \in [RenderJobIds -> JobRecords]
  /\ expired \subseteq {j \in RenderJobIds : jobs[j].state = "active"}
  /\ unsure \subseteq RenderJobIds
  /\ artifacts \subseteq RenderJobIds
  /\ renders \subseteq RenderRecords
  /\ \A r, s \in renders :
       r.worker = s.worker /\ r.slot = s.slot => r = s
  /\ cancels \in [ReplayWorkers -> [RenderJobIds -> Nat]]
  /\ stops \subseteq (ReplayWorkers \X RenderJobIds)
  /\ crashed \subseteq ReplayWorkers
  /\ faults \in 0 .. MaxFaults

\* A job is shown as ready only when its object is in the store: whichever of
\* two renders of the job reports, and whatever the wall loads at a restart.
ReadyIsStored ==
  \A j \in RenderJobIds :
    "ready" \in {jobs[j].state, savedJobs[j].state} => j \in artifacts

\* Memory and disk differ only for jobs whose last change was answered with
\* an error; a restart of the wall takes back nothing it acknowledged.
AcknowledgedIsSaved ==
  \A j \in RenderJobIds \ unsure : jobs[j] = savedJobs[j]

\* No late report, heartbeat or claim of any worker revives a settled job: it
\* is left only by a retry, a cancel or a removal, by the discovery of its
\* object, or by a restart of the wall.
SettledStays ==
  [][\A j \in RenderJobIds :
       JobSettled(j) /\ jobs'[j] # jobs[j] =>
         RenderRetry(j) \/ RenderCancel(j) \/ RenderRemove(j)
           \/ RenderReconcile(j) \/ WallRestart]_renderVars

\* A render whose job was cancelled, removed, finished or taken over does not
\* go on for ever: its own heartbeat stops it, unless its worker gets the job
\* back.
Unowned(w, k) == \E r \in RenderAt(w, k) : ~r.stopped /\ ~Owned(r)
UnownedStops ==
  \A w \in ReplayWorkers : \A k \in Slots(w) :
    Unowned(w, k) ~> ~Unowned(w, k)

\* A job that waits, or whose lease nobody serves, is settled or rendered in
\* the end: through crashes, lost answers, failed writes and a cancel that
\* stops the wrong render.
JobsAreServed ==
  \A j \in RenderJobIds :
    (jobs[j].state \in {"queued", "active"}) ~> (JobSettled(j) \/ Served(j))
=============================================================================
