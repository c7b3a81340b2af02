---------------------------- MODULE WorkerControl ----------------------------
(***************************************************************************)
(* Worker presence (cmd/pokewall/wall.go) and the operator's force-end of a *)
(* worker (cmd/pokewall/worker_control.go), on top of Wall.                 *)
(*                                                                          *)
(* A heartbeat that reports addresses notes its run in the presence record  *)
(* of its worker, an idle ping notes no run, and a record that is not       *)
(* refreshed expires.  A force-end reads the record in one section, asks    *)
(* the worker to exit without the mutex, and settles the run in another     *)
(* section; `forceEnds' holds the requests between the two.  The exit of    *)
(* the process, 25 ms after it accepted, is Crash: whatever the process     *)
(* still does, and whatever the wall does, may come first.                  *)
(***************************************************************************)
EXTENDS Wall

CONSTANT Unseen     \* the wall has no presence record of the worker

ASSUME UnseenAssumption == Unseen \notin RunIds \cup {NoRun}

VARIABLES
    presence,   \* w.workers: the run each worker's record names
    forceEnds   \* force-ends between their two sections, with the run read

controlVars == <<presence, forceEnds>>
workerVars == <<vars, controlVars>>

ForceEnds == [worker : Runners, run : RunIds \cup {NoRun}]

ControlTypeOK ==
    /\ presence \in [Runners -> RunIds \cup {NoRun, Unseen}]
    /\ forceEnds \subseteq ForceEnds

ControlInit ==
    /\ presence = [n \in Runners |-> Unseen]
    /\ forceEnds = {}

-----------------------------------------------------------------------------
(* Presence.                                                                 *)

\* upsertWorkerLocked
Upsert(n, run) ==
    /\ presence' = [presence EXCEPT ![n] = run]
    /\ UNCHANGED forceEnds

\* handleHeartbeat; without addresses it is the Heartbeat of Wall alone.
Beat(n) == Heartbeat(n) /\ Upsert(n, runners[n].run)

LateBeat(r, n) == LateHeartbeat(r) /\ Live(tiles[r]) /\ Upsert(n, r)

\* pingWorker and handleWorkers: a worker between runs.  A ping that is handled
\* late may find its worker with a run.
Ping(n) ==
    /\ Unlocked
    /\ Zombies \/ ~Working(n)
    /\ Upsert(n, NoRun)
    /\ UNCHANGED vars

\* The reaper drops a record that was not refreshed for workerExpiry.
WorkerExpires(n) ==
    /\ Unlocked
    /\ presence[n] # Unseen
    /\ Upsert(n, Unseen)
    /\ UNCHANGED vars

-----------------------------------------------------------------------------
(* handleForceEndWorker.                                                     *)

\* Its first section.
ForceEnd(n) ==
    /\ Unlocked
    /\ presence[n] # Unseen
    /\ forceEnds' = forceEnds \cup {[worker |-> n, run |-> presence[n]]}
    /\ UNCHANGED <<vars, presence>>

\* 502: no address of the worker accepted.
ForceEndFails(k) ==
    /\ k \in forceEnds
    /\ forceEnds' = forceEnds \ {k}
    /\ UNCHANGED <<vars, presence>>

\* The record's run now, or else the one it named in the first section.
ForceEndTarget(k) ==
    IF presence[k.worker] \in RunIds THEN presence[k.worker] ELSE k.run

\* Mutant of ForceEndSettle: the run is closed without settling its generation.
ForceEndCloses(k) ==
    LET r == ForceEndTarget(k) IN
    /\ Unlocked
    /\ k \in forceEnds
    /\ tiles' = IF r \in RunIds /\ Live(tiles[r])
                THEN [tiles EXCEPT ![r].status = "done", ![r].finished = TRUE,
                                   ![r].reason = "cancelled"]
                ELSE tiles
    /\ presence' = [presence EXCEPT ![k.worker] = Unseen]
    /\ forceEnds' = forceEnds \ {k}
    /\ UNCHANGED <<queue, cancel, stale, fills, parent, scanVars, netVars>>

\* Its second section: the worker has accepted, and a live run is settled as
\* if its user had cancelled it.
ForceEndSettle(k) ==
    LET r == ForceEndTarget(k) IN
    /\ Unlocked
    /\ k \in forceEnds
    /\ \/ /\ r \in RunIds /\ Live(tiles[r])
          /\ SettleAs(r, tiles[r], QueueCancelled, queue, TRUE)
       \/ /\ ~(r \in RunIds /\ Live(tiles[r]))
          /\ UNCHANGED wallVars
    /\ presence' = [presence EXCEPT ![k.worker] = Unseen]
    /\ forceEnds' = forceEnds \ {k}
    /\ UNCHANGED <<scanVars, netVars>>

-----------------------------------------------------------------------------
\* The steps that only presence and force-ends add.
ControlAlone ==
    \/ \E n \in Runners : Ping(n) \/ WorkerExpires(n) \/ ForceEnd(n)
    \/ \E k \in forceEnds : ForceEndFails(k)

NotedBeats == \E n \in Runners : Beat(n) \/ \E r \in RunIds : LateBeat(r, n)

WorkerNext ==
    \/ Next /\ UNCHANGED controlVars
    \/ NotedBeats
    \/ ControlAlone
    \/ \E k \in forceEnds : ForceEndSettle(k)

WorkerInit == Init /\ ControlInit

WorkerSpec == WorkerInit /\ [][WorkerNext]_workerVars

-----------------------------------------------------------------------------
(* What a force-end may and may not do to the queue.                         *)

\* "settleRun treats a user cancellation as terminal, does not retry it, and
\* does not enqueue an endless successor" (handleForceEndWorker).
ForceEndIsTerminal ==
    [][\A k \in forceEnds : ForceEndSettle(k) => parent' = parent]_workerVars

NeverGiven(t) == t.status = "queued" /\ t.attempts = 0

\* What holds of it: however stale the record, a force-end leaves a run alone
\* that no worker was ever given, unless its id was submitted again.
NeverGivenStays ==
    [][\A r \in RunIds :
         fills[r] = 1 /\ NeverGiven(tiles[r]) =>
           \A k \in forceEnds : ForceEndSettle(k) => tiles'[r] = tiles[r]]_workerVars
=============================================================================
