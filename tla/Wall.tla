-------------------------------- MODULE Wall --------------------------------
(***************************************************************************)
(* The wall's run queue (cmd/pokewall/wall.go) and the runners that drain   *)
(* it (cmd/pokepilot/farm.go).                                              *)
(*                                                                          *)
(* Every handler of the wall changes tiles, queue and cancel in sections    *)
(* that hold w.mu; an action below is one such section.  The queue scan of  *)
(* handleLease is a loop inside one section: it is one action per iteration *)
(* with the mutex held (holder, cursor) from LeaseBegin to LeaseTake or     *)
(* LeaseNone.  The two sections of handleFinish are two actions.            *)
(*                                                                          *)
(* Time is abstract: `stale' holds the runs whose lastUpdate is older than  *)
(* staleAfter.  Requests may be slow: a heartbeat may be handled after its  *)
(* sender stopped waiting (`late'), a finish report is in flight for as     *)
(* long as it is in `reports', and may be lost.                             *)
(***************************************************************************)
EXTENDS RunTile, Sequences, FiniteSets

CONSTANTS
    Runners,          \* worker processes
    NoRunner,
    Version,          \* the build each runner reports with its lease
    Submittable,      \* ids an operator submits (the others are newRunID's)
    SubmitSpecs,      \* specs an operator submits
    Requests,         \* bound: the other requests an operator makes
    RunnerOutcomes,   \* outcomes a runner reports
    Zombies,          \* whether a runner can still play a generation the wall
                      \* has given up (unheard for staleAfter, or wedged past
                      \* the flag grace) and a request outlive its deadline
    LineageDepth,     \* resumeLineageFallbackDepth
    MaxGenerations,   \* bound: generations of one submission
    MaxFills          \* bound: submissions of one id

ASSUME WallAssumption ==
    /\ NoRunner \notin Runners
    /\ Version \in [Runners -> Revisions \cup {NoRevision}]
    /\ Submittable \subseteq RunIds
    /\ SubmitSpecs \subseteq Specs
    /\ Requests \subseteq {"cancel", "flag", "delete", "pause"}
    /\ RunnerOutcomes \subseteq Outcomes
    /\ Zombies \in BOOLEAN
    /\ LineageDepth \in Nat
    /\ MaxGenerations \in Nat
    /\ MaxFills \in Nat

VARIABLES
    tiles,      \* w.tiles
    queue,      \* w.queue, oldest first
    cancel,     \* w.cancel: the ids with a cooperative cancel flag
    stale,      \* runs whose lastUpdate is older than staleAfter
    holder,     \* the runner whose lease request holds w.mu in mid-scan
    cursor,     \* the index of that scan
    runners,    \* what each worker process is doing
    late,       \* runs with a heartbeat request nobody waits for any more
    reports,    \* finish reports in flight
    fills,      \* history: how often applySpec filled an id
    parent      \* history: the run whose settlement queued this one

wallVars == <<tiles, queue, cancel, stale, fills, parent>>
scanVars == <<holder, cursor>>
netVars  == <<runners, late, reports>>
vars == <<tiles, queue, cancel, stale, holder, cursor, runners, late, reports,
          fills, parent>>

IdleRunner == [run |-> NoRun, attempt |-> 0, gen |-> 0, stop |-> FALSE]

\* gen is history: which submission of the run the lease was for.
RunnerStates == [run : RunIds \cup {NoRun}, attempt : Nat, gen : Nat,
                 stop : BOOLEAN]

Reports == [run : RunIds, attempt : Nat, gen : Nat, outcome : Outcomes,
            version : Revisions \cup {NoRevision}, checked : BOOLEAN]

TypeOK ==
    /\ tiles \in [RunIds -> Tiles]
    /\ queue \in Seq(RunIds)
    /\ cancel \subseteq RunIds
    /\ stale \subseteq RunIds
    /\ holder \in Runners \cup {NoRunner}
    /\ cursor \in Nat \ {0}
    /\ runners \in [Runners -> RunnerStates]
    /\ late \subseteq RunIds
    /\ reports \subseteq Reports
    /\ fills \in [RunIds -> Nat]
    /\ parent \in [RunIds -> RunIds \cup {NoRun}]

Init ==
    /\ tiles = [r \in RunIds |-> AbsentTile]
    /\ queue = <<>>
    /\ cancel = {}
    /\ stale = {}
    /\ holder = NoRunner
    /\ cursor = 1
    /\ runners = [n \in Runners |-> IdleRunner]
    /\ late = {}
    /\ reports = {}
    /\ fills = [r \in RunIds |-> 0]
    /\ parent = [r \in RunIds |-> NoRun]

-----------------------------------------------------------------------------
(* Shared by the handlers.                                                   *)

Unlocked == holder = NoRunner

InQueue(r) == \E i \in 1..Len(queue) : queue[i] = r

Working(n) == runners[n].run # NoRun

\* Nobody plays the run and no report of it is on its way.
Abandoned(r) ==
    /\ \A n \in Runners : runners[n].run # r
    /\ \A m \in reports : m.run # r

\* Mutants of Without: the entry itself stays, or the next one goes too.
WithoutNone(q, i) == SubSeq(q, 1, i) \o SubSeq(q, i + 1, Len(q))
WithoutNext(q, i) == SubSeq(q, 1, i - 1) \o SubSeq(q, i + 2, Len(q))

Without(q, i) == SubSeq(q, 1, i - 1) \o SubSeq(q, i + 1, Len(q))

\* newRunID: 128 random bits, drawn again while the tile map holds them.
FreshIds == {r \in RunIds \ Submittable : ~Known(tiles[r]) /\ fills[r] = 0}

\* The outcomes the wall itself settles a generation with.
WallOutcome(reason) == [reason |-> reason, bare |-> FALSE, transport |-> FALSE,
                        advanced |-> FALSE]
QueueCancelled == WallOutcome("cancelled")
FlaggedStuck == WallOutcome("stuck")
WorkerLost == WallOutcome("lost")

\* settleRun on the tile t of run id, with the queue q the caller left and the
\* run's entry in w.cancel.
SettleAs(id, t, outcome, q, cancelled) ==
    LET settled == Settled(t, outcome, cancelled)
    IN /\ cancel' = cancel \ {id}
       /\ stale' = stale \ {id}
       /\ \/ /\ SpawnsSuccessor(t, outcome, cancelled)
             /\ \E next \in FreshIds :
                  /\ tiles' = [tiles EXCEPT ![id] = settled,
                                            ![next] = SuccessorTile(settled, id)]
                  /\ queue' = Append(q, next)
                  /\ fills' = [fills EXCEPT ![next] = @ + 1]
                  /\ parent' = [parent EXCEPT ![next] = id]
          \/ /\ ~SpawnsSuccessor(t, outcome, cancelled)
             /\ tiles' = [tiles EXCEPT ![id] = settled]
             /\ queue' = IF settled.finished THEN q ELSE Append(q, id)
             /\ UNCHANGED <<fills, parent>>

SettleRun(id, t, outcome, q) == SettleAs(id, t, outcome, q, id \in cancel)

-----------------------------------------------------------------------------
(* Operator requests.                                                        *)

\* handleSpecs: an id that is unknown or finished is (re)filled and queued.
Submit(r, spec) ==
    /\ Unlocked
    /\ ~Live(tiles[r])
    /\ fills[r] < MaxFills
    /\ tiles' = [tiles EXCEPT ![r] = FreshTile(spec, NoRun)]
    /\ queue' = Append(queue, r)
    /\ cancel' = cancel \ {r}
    /\ stale' = stale \ {r}
    /\ fills' = [fills EXCEPT ![r] = @ + 1]
    /\ parent' = [parent EXCEPT ![r] = NoRun]
    /\ UNCHANGED <<scanVars, netVars>>

\* handleCancel: only records the intent; a Stop takes back an earlier flag.
Cancel(r) ==
    /\ Unlocked
    /\ Live(tiles[r])
    /\ cancel' = cancel \cup {r}
    /\ tiles' = [tiles EXCEPT ![r].flag = 0]
    /\ UNCHANGED <<queue, stale, fills, parent, scanVars, netVars>>

\* handleFlagStuck: stop through the cancel flag, settle as stuck.
Flag(r) ==
    /\ Unlocked
    /\ Live(tiles[r])
    /\ tiles[r].status # "queued"
    /\ tiles[r].attempts < MaxGenerations
    /\ tiles' = [tiles EXCEPT ![r].flag = CurrentAttempt(tiles[r])]
    /\ cancel' = cancel \cup {r}
    /\ UNCHANGED <<queue, stale, fills, parent, scanVars, netVars>>

\* Mutant of Lineage: a paused run is not counted among the live ones.
LineageOfLive ==
    LET root == {r \in RunIds : Live(tiles[r])}
        ancestors == {tiles[r].resumeFrom : r \in root}
    IN root \cup ancestors

\* liveCheckpointLineageLocked: the live and paused runs, and the ancestors
\* they may fall back to, up to LineageDepth ancestors that ever ran.
Lineage ==
    LET root == {r \in RunIds : Live(tiles[r]) \/ tiles[r].status = "paused"}
        parentOf(id, ran) ==
            <<tiles[id].resumeFrom, IF tiles[id].attempts > 0 THEN ran + 1 ELSE ran>>
        walk[hop \in 1..Cardinality(RunIds)] ==
            IF hop = 1 THEN {<<tiles[r].resumeFrom, 0>> : r \in root}
            ELSE {parentOf(p[1], p[2]) :
                     p \in {p \in walk[hop - 1] : p[1] \in RunIds}}
        reached == UNION {walk[hop] : hop \in 1..Cardinality(RunIds)}
    IN root \cup {p[1] : p \in {p \in reached : p[2] < LineageDepth}}

\* Mutant of Delete: the ancestors of live runs are not protected.
DeleteAncestor(r) ==
    /\ Unlocked
    /\ tiles[r].finished
    /\ tiles' = [tiles EXCEPT ![r] = AbsentTile]
    /\ cancel' = cancel \ {r}
    /\ stale' = stale \ {r}
    /\ UNCHANGED <<queue, fills, parent, scanVars, netVars>>

\* handleDelete leaves the queue alone: the scan drops ids without a tile.
Delete(r) ==
    /\ Unlocked
    /\ tiles[r].finished
    /\ r \notin Lineage
    /\ tiles' = [tiles EXCEPT ![r] = AbsentTile]
    /\ cancel' = cancel \ {r}
    /\ stale' = stale \ {r}
    /\ UNCHANGED <<queue, fills, parent, scanVars, netVars>>

-----------------------------------------------------------------------------
(* handleLease: the scan of the queue under the mutex.                       *)

Scanning(n) == holder = n

Candidate == queue[cursor]

LeaseBegin(n) ==
    /\ Unlocked
    /\ ~Working(n)
    /\ holder' = n
    /\ cursor' = 1
    /\ UNCHANGED <<wallVars, netVars>>

\* An id whose tile is gone or finished is dropped from the queue.
LeaseDrop(n) ==
    /\ Scanning(n)
    /\ cursor <= Len(queue)
    /\ ~Live(tiles[Candidate])
    /\ queue' = Without(queue, cursor)
    /\ UNCHANGED <<tiles, cancel, stale, fills, parent, scanVars, netVars>>

\* A run cancelled before any worker leased it is settled here.
LeaseCancelled(n) ==
    /\ Scanning(n)
    /\ cursor <= Len(queue)
    /\ Live(tiles[Candidate])
    /\ Candidate \in cancel
    /\ SettleRun(Candidate, tiles[Candidate], QueueCancelled,
                 Without(queue, cursor))
    /\ UNCHANGED <<scanVars, netVars>>

\* A resilient run whose circuit names this build waits for another one.
LeaseSkip(n) ==
    /\ Scanning(n)
    /\ cursor <= Len(queue)
    /\ Live(tiles[Candidate])
    /\ Candidate \notin cancel
    /\ CircuitBlocks(tiles[Candidate], Version[n])
    /\ cursor' = cursor + 1
    /\ UNCHANGED <<holder, wallVars, netVars>>

\* Mutant of LeaseTake: only a reply that arrives makes the run leased.
LeaseTakeOnDelivery(n, delivered) ==
    /\ Scanning(n)
    /\ cursor <= Len(queue)
    /\ LET r == Candidate
       IN /\ Live(tiles[r])
          /\ r \notin cancel
          /\ ~CircuitBlocks(tiles[r], Version[n])
          /\ queue' = Without(queue, cursor)
          /\ tiles' = IF delivered THEN [tiles EXCEPT ![r].status = "leased"]
                                   ELSE tiles
          /\ stale' = stale \ {r}
          /\ runners' = IF delivered
                        THEN [runners EXCEPT ![n] =
                                [run |-> r, attempt |-> CurrentAttempt(tiles[r]),
                                 gen |-> fills[r], stop |-> FALSE]]
                        ELSE runners
    /\ holder' = NoRunner
    /\ cursor' = 1
    /\ UNCHANGED <<cancel, fills, parent, late, reports>>

\* The first leasable run is handed out; the reply may never reach the runner.
LeaseTake(n, delivered) ==
    /\ Scanning(n)
    /\ cursor <= Len(queue)
    /\ LET r == Candidate
       IN /\ Live(tiles[r])
          /\ r \notin cancel
          /\ ~CircuitBlocks(tiles[r], Version[n])
          /\ queue' = Without(queue, cursor)
          /\ tiles' = [tiles EXCEPT ![r].status = "leased"]
          /\ stale' = stale \ {r}
          /\ runners' = IF delivered
                        THEN [runners EXCEPT ![n] =
                                [run |-> r, attempt |-> CurrentAttempt(tiles[r]),
                                 gen |-> fills[r], stop |-> FALSE]]
                        ELSE runners
    /\ holder' = NoRunner
    /\ cursor' = 1
    /\ UNCHANGED <<cancel, fills, parent, late, reports>>

\* 204: the whole queue was scanned and nothing is ready.
LeaseNone(n) ==
    /\ Scanning(n)
    /\ cursor > Len(queue)
    /\ holder' = NoRunner
    /\ cursor' = 1
    /\ UNCHANGED <<wallVars, netVars>>

\* The iterations that hand out and settle nothing.
LeasePass(n) ==
    /\ cursor <= Len(queue)
    /\ LeaseDrop(n) \/ LeaseSkip(n)

LeaseScan(n) ==
    \/ LeasePass(n) \/ LeaseCancelled(n) \/ LeaseNone(n)
    \/ \E delivered \in BOOLEAN : LeaseTake(n, delivered)

-----------------------------------------------------------------------------
(* Heartbeats carry a run id but no attempt.                                 *)

\* handleHeartbeat on a run that is neither unknown nor finished.
NoteHeartbeat(r) ==
    /\ tiles' = [tiles EXCEPT ![r].status = "running"]
    /\ stale' = stale \ {r}
    /\ UNCHANGED <<queue, cancel, fills, parent>>

\* heartbeatLoop: a reply that asks for a cancel closes the cancel channel;
\* the reply may be lost, and a refused heartbeat is only logged.
Heartbeat(n) ==
    /\ Unlocked
    /\ Working(n)
    /\ LET r == runners[n].run
       IN /\ Live(tiles[r])
          /\ NoteHeartbeat(r)
          /\ \E replied \in BOOLEAN :
               runners' = [runners EXCEPT ![n].stop =
                              @ \/ (replied /\ r \in cancel)]
    /\ UNCHANGED <<scanVars, late, reports>>

\* The client gives a heartbeat up at its deadline; the request is still there.
HeartbeatDelayed(n) ==
    /\ Zombies
    /\ Working(n)
    /\ late' = late \cup {runners[n].run}
    /\ UNCHANGED <<wallVars, scanVars, runners, reports>>

LateHeartbeat(r) ==
    /\ Unlocked
    /\ r \in late
    /\ late' = late \ {r}
    /\ \/ Live(tiles[r]) /\ NoteHeartbeat(r)
       \/ ~Live(tiles[r]) /\ UNCHANGED wallVars
    /\ UNCHANGED <<scanVars, runners, reports>>

-----------------------------------------------------------------------------
(* The runner (runFarm, runOne): every leased attempt ends in one report.    *)

\* A stop by the cancel flag is reported only by a runner that saw it.
EndRun(n, outcome) ==
    /\ Working(n)
    /\ CancelStop(outcome) => runners[n].stop
    /\ outcome.reason # "done" => runners[n].attempt <= MaxGenerations
    /\ reports' = reports \cup
         {[run |-> runners[n].run, attempt |-> runners[n].attempt,
           gen |-> runners[n].gen, outcome |-> outcome,
           version |-> Version[n], checked |-> FALSE]}
    /\ runners' = [runners EXCEPT ![n] = IdleRunner]
    /\ UNCHANGED <<wallVars, scanVars, late>>

\* The process dies: no report, and the lease is left to the reaper.
Crash(n) ==
    /\ Working(n)
    /\ runners' = [runners EXCEPT ![n] = IdleRunner]
    /\ UNCHANGED <<wallVars, scanVars, late, reports>>

\* The request never reaches the wall.
LoseReport(m) ==
    /\ m \in reports
    /\ ~m.checked
    /\ reports' = reports \ {m}
    /\ UNCHANGED <<wallVars, scanVars, runners, late>>

-----------------------------------------------------------------------------
(* handleFinish.                                                             *)

\* Its first section, operatorFlagFinish, may rewrite the report.
CheckedReport(m) ==
    [m EXCEPT !.checked = TRUE,
              !.outcome = FlagRewrite(tiles[m.run], m.attempt, @)]

FinishCheckFlag(m) ==
    /\ Unlocked
    /\ m \in reports
    /\ ~m.checked
    /\ reports' = (reports \ {m}) \cup {CheckedReport(m)}
    /\ UNCHANGED <<wallVars, scanVars, runners, late>>

FinishAccepted(m) ==
    /\ Live(tiles[m.run])
    /\ m.attempt = 0 \/ m.attempt = CurrentAttempt(tiles[m.run])

\* Its second section settles the current generation ...
FinishSettle(m) ==
    /\ Unlocked
    /\ m \in reports
    /\ m.checked
    /\ FinishAccepted(m)
    /\ SettleRun(m.run, NoteProgress(tiles[m.run], m.outcome), m.outcome, queue)
    /\ reports' = reports \ {m}
    /\ UNCHANGED <<scanVars, runners, late>>

\* ... or answers 404 or 409, or 200 to a duplicate of a terminal report: none
\* of them changes a tile.
FinishRefused(m) ==
    /\ Unlocked
    /\ m \in reports
    /\ m.checked
    /\ ~FinishAccepted(m)
    /\ reports' = reports \ {m}
    /\ UNCHANGED <<wallVars, scanVars, runners, late>>

-----------------------------------------------------------------------------
(* reapStale.  One action per run: a sweep over several stale runs is the     *)
(* composition of these.                                                      *)

\* Mutant of Reapable: finished runs are not skipped.
ReapableFinished(r) == Known(tiles[r]) /\ tiles[r].status # "queued"

\* Mutant of Reapable: a lease that was never taken up is overlooked.
ReapableRunning(r) == Live(tiles[r]) /\ tiles[r].status = "running"

Reapable(r) == Live(tiles[r]) /\ tiles[r].status # "queued"

\* staleAfter passes without a heartbeat.
GoQuiet(r) ==
    /\ Reapable(r)
    /\ r \notin stale
    /\ Zombies \/ Abandoned(r)
    /\ tiles[r].attempts < MaxGenerations
    /\ stale' = stale \cup {r}
    /\ UNCHANGED <<tiles, queue, cancel, fills, parent, scanVars, netVars>>

\* Mutant of ReapFlagged: only a silent runner is given up.
ReapFlaggedSilent(r) ==
    /\ Unlocked
    /\ Reapable(r)
    /\ FlagApplies(tiles[r])
    /\ r \in stale
    /\ SettleRun(r, tiles[r], FlaggedStuck, queue)
    /\ UNCHANGED <<scanVars, netVars>>

\* reapFlaggedLocked: the grace period of a flagged attempt is over.
ReapFlagged(r) ==
    /\ Unlocked
    /\ Reapable(r)
    /\ FlagApplies(tiles[r])
    /\ Zombies \/ Abandoned(r)
    /\ SettleRun(r, tiles[r], FlaggedStuck, queue)
    /\ UNCHANGED <<scanVars, netVars>>

\* Mutant of ReapStale: the sweep does not look at lastUpdate.
ReapAny(r) ==
    /\ Unlocked
    /\ Reapable(r)
    /\ SettleRun(r, tiles[r], WorkerLost, queue)
    /\ UNCHANGED <<scanVars, netVars>>

ReapStale(r) ==
    /\ Unlocked
    /\ Reapable(r)
    /\ r \in stale
    /\ SettleRun(r, tiles[r], WorkerLost, queue)
    /\ UNCHANGED <<scanVars, netVars>>

-----------------------------------------------------------------------------
Operator ==
    \/ \E r \in Submittable, spec \in SubmitSpecs : Submit(r, spec)
    \/ \E r \in RunIds :
         \/ "cancel" \in Requests /\ Cancel(r)
         \/ "flag" \in Requests /\ Flag(r)
         \/ "delete" \in Requests /\ Delete(r)

Runner(n) ==
    \/ LeaseBegin(n) \/ LeaseScan(n) \/ Heartbeat(n) \/ HeartbeatDelayed(n)
    \/ Crash(n)
    \/ \E outcome \in RunnerOutcomes : EndRun(n, outcome)

Finish(m) == FinishCheckFlag(m) \/ FinishSettle(m) \/ FinishRefused(m)

Reaper(r) == ReapFlagged(r) \/ ReapStale(r)

Next ==
    \/ Operator
    \/ \E n \in Runners : Runner(n)
    \/ \E r \in RunIds : LateHeartbeat(r) \/ GoQuiet(r) \/ Reaper(r)
    \/ \E m \in reports : Finish(m) \/ LoseReport(m)

Spec == Init /\ [][Next]_vars

-----------------------------------------------------------------------------
(* Safety.                                                                   *)

\* Finished and Status agree, and an unknown id has no leftovers: the two are
\* written separately by every handler that settles, reopens or pauses.
FinishedMatchesStatus ==
    \A r \in RunIds :
        /\ tiles[r].finished <=> tiles[r].status \in {"done", "paused"}
        /\ tiles[r].status = "absent" => tiles[r] = AbsentTile

\* A run shown as queued really is in the queue, however heartbeats, reports,
\* reaps and operator requests interleave with the scan: it is never stranded.
NoStrandedRun ==
    \A r \in RunIds : tiles[r].status = "queued" => InQueue(r)

\* A live run outside resilient mode still has budget: the retry that would
\* exceed maxAttempts or maxLostRecoveries is never queued, and the budgets
\* spent are never more than the generations settled.
RetryBudgetsHold ==
    \A r \in RunIds : LET t == tiles[r] IN
        /\ t.errorAttempts + t.lossRecoveries <= t.attempts
        /\ Live(t) /\ t.profile # "resilient" =>
             /\ t.errorAttempts < MaxAttempts
             /\ t.lossRecoveries < MaxLostRecoveries

\* Attempts identifies generations: no runner holds, and no report claims, an
\* attempt the wall has not handed out, and the attempt that is being played
\* or reported is not one the queue is still waiting to hand out, nor the one
\* a resume of a paused run will.
Claims == {<<runners[n].run, runners[n].attempt>> :
               n \in {n \in Runners : /\ Working(n)
                                      /\ runners[n].gen = fills[runners[n].run]}}
          \cup {<<m.run, m.attempt>> :
               m \in {m \in reports : m.gen = fills[m.run]}}

NoClaimAhead ==
    \A c \in Claims : LET t == tiles[c[1]] IN
        Known(t) => /\ c[2] <= CurrentAttempt(t)
                    /\ c[2] = CurrentAttempt(t) => t.status \in {"leased", "running"}

\* An endless run has at most one successor per submission, and while the
\* successor is live the run it came from is over.
OneLivePerChain ==
    \A p \in RunIds :
        LET children == {c \in RunIds : parent[c] = p}
        IN /\ Cardinality(children) <= fills[p]
           /\ fills[p] = 1 => \A c \in children : Live(tiles[c]) => ~Live(tiles[p])

\* The ancestors whose checkpoints a live or paused run may still resume from
\* are never deleted.
LineageKept == \A r \in Lineage \ {NoRun} : Known(tiles[r])

\* While no runner outlives its generation, one runner plays a run at a time.
ExclusiveLease ==
    \A m, n \in Runners : Working(n) /\ runners[m].run = runners[n].run => m = n

\* While no runner outlives its generation, the queue holds every queued run
\* exactly once and nothing else.
QueueIsExact ==
    /\ \A r \in RunIds : InQueue(r) <=> tiles[r].status = "queued"
    /\ \A i, j \in 1..Len(queue) : queue[i] = queue[j] => i = j

-----------------------------------------------------------------------------
(* Action properties.                                                        *)

SameSubmission(r) == fills'[r] = fills[r] /\ Known(tiles'[r])

\* A finished run stays as it finished until it is submitted again or deleted:
\* no late heartbeat, duplicate report, sweep or scan touches it.
FinishedIsFinal ==
    [][\A r \in RunIds :
         tiles[r].finished /\ SameSubmission(r) => tiles'[r] = tiles[r]]_vars

\* Generations are counted one by one, and a run that was handed out returns
\* to the queue or finishes only by settling one.
GenerationsAdvance ==
    [][\A r \in RunIds : SameSubmission(r) /\ Known(tiles[r]) =>
         LET t == tiles[r]
             u == tiles'[r]
         IN /\ u.attempts \in {t.attempts, t.attempts + 1}
            /\ u.finished # t.finished => u.attempts = t.attempts + 1
            /\ u.status = "queued" /\ t.status # "queued" =>
                 u.attempts = t.attempts + 1]_vars

Settles(r) == SameSubmission(r) /\ tiles'[r].attempts > tiles[r].attempts

\* "A user cancellation is never retried" (settleRun), and an endless run that
\* a user cancelled has no successor.
CancelIsFinal ==
    [][\A r \in RunIds :
         r \in cancel /\ ~FlagApplies(tiles[r]) /\ Settles(r) =>
             /\ tiles'[r].finished
             /\ \A c \in RunIds : parent'[c] = r => parent[c] = r]_vars

\* A flag stops one generation as stuck; a resilient run survives it.
\* The cancel the flag rides on never ends the campaign.
FlagIsNotACancel ==
    [][\A r \in RunIds :
         /\ r \in cancel
         /\ FlagApplies(tiles[r])
         /\ tiles[r].profile = "resilient"
         /\ Settles(r)
         /\ tiles'[r].finished
         => tiles'[r].reason \in {"done", "cancelled"}]_vars

-----------------------------------------------------------------------------
(* Wall implements LeaseBook while no runner outlives its generation: the    *)
(* status is the book's state, Attempts its generation, and the worker is    *)
(* the runner that plays the run.                                            *)

BookState(t) ==
    CASE t.status = "absent" -> "free"
      [] t.status = "queued" -> "waiting"
      [] t.status \in {"leased", "running"} -> "out"
      [] OTHER -> "closed"

\* Who plays run r, given what every runner does.
Player(rs, r) == IF \E n \in Runners : rs[n].run = r
                 THEN CHOOSE n \in Runners : rs[n].run = r
                 ELSE NoRunner

bookState == [r \in RunIds |-> BookState(tiles[r])]
bookGeneration == [r \in RunIds |-> tiles[r].attempts]
bookWorker == [r \in RunIds |-> Player(runners, r)]

Book == INSTANCE LeaseBook WITH
    state <- bookState, generation <- bookGeneration, worker <- bookWorker

\* Each generation is handed to one worker, settled once after it let go, and
\* only then followed by the next.
ImplementsLeaseBook == Book!BookSpec

-----------------------------------------------------------------------------
(* Liveness.  sync.Mutex does not starve a waiter, so a section that keeps    *)
(* being ready runs (SF).  Runners poll for leases, their runs end (every     *)
(* planner has its own budgets and watchdogs), a report is delivered unless   *)
(* lost, and the reaper ticks for ever.                                       *)

Polls == \A n \in Runners : SF_vars(LeaseBegin(n)) /\ WF_vars(LeaseScan(n))

Beats == \A n \in Runners : SF_vars(Heartbeat(n))

Plays == \A n \in Runners :
             WF_vars(\E outcome \in RunnerOutcomes : EndRun(n, outcome))

Delivers == SF_vars(\E m \in reports : Finish(m))

Reaps == \A r \in RunIds :
             /\ WF_vars(Abandoned(r) /\ GoQuiet(r))
             /\ SF_vars(ReapStale(r))
             /\ SF_vars(ReapFlagged(r))

FairSpec == Spec /\ Polls /\ Plays /\ Delivers /\ Reaps

\* The mutex is released and the reaper ticks; a wedged runner may do nothing
\* but send heartbeats for ever.
WedgedSpec == Spec /\ (\A n \in Runners : WF_vars(LeaseScan(n))) /\ Reaps

\* Without resilient mode the retry budgets end every submission: crashes,
\* lost leases, lost reports and errors are retried only so often.
EverySubmissionEnds == \A r \in RunIds : Live(tiles[r]) ~> ~Live(tiles[r])

\* A flagged generation ends even if its runner keeps sending heartbeats and
\* never stops: the reaper's grace period covers the wedged loop.
FlagEndsGeneration == \A r \in RunIds :
    Live(tiles[r]) /\ FlagApplies(tiles[r])
        ~> ~(Live(tiles[r]) /\ FlagApplies(tiles[r]))

=============================================================================
