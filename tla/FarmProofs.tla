----------------------------- MODULE FarmProofs -----------------------------
(***************************************************************************)
(* The wall as it is deployed, for every set of runs, workers and builds:   *)
(* force-ends of workers over the queue (WorkerControl), and all of it with *)
(* pauses, circuits, evictions, saves and restarts (Farm).                  *)
(*                                                                          *)
(* A force-end settles a generation that the wall itself would not settle,  *)
(* and an eviction removes several tiles at once: neither is a step of Wall *)
(* but each does to every single tile what a step of Wall may do to it      *)
(* (TileStep), which is what the invariants of WallProofs rest on.          *)
(***************************************************************************)
EXTENDS Farm, PauseProofs

-----------------------------------------------------------------------------
(* A force-end, seen from the queue.                                         *)

LEMMA ForcedRun ==
  ASSUME TypeOK, ControlTypeOK, NEW k \in forceEnds, ForceEndSettle(k)
  PROVE  /\ UNCHANGED <<holder, cursor, runners, late, reports>>
         /\ \/ UNCHANGED wallVars
            \/ \E r \in RunIds :
                 /\ r = ForceEndTarget(k)
                 /\ Live(tiles[r])
                 /\ SettleAs(r, tiles[r], QueueCancelled, queue, TRUE)
  BY DEF ForceEndSettle, scanVars, netVars

\* It does to every run what a settlement does.
LEMMA ForcedSteps ==
  ASSUME TypeOK, ControlTypeOK, NEW k \in forceEnds, ForceEndSettle(k)
  PROVE  TypeOK' /\ ParentStep /\ \A r \in RunIds : TileStep(r)
<1>1. UNCHANGED <<holder, cursor, runners, late, reports>>
  BY ForcedRun
<1>2. CASE UNCHANGED wallVars
  <2>1. TypeOK' /\ ParentStep
    BY <1>1, <1>2 DEF TypeOK, wallVars, ParentStep
  <2>2. \A r \in RunIds : Kept(r)
    BY <1>2 DEF Kept, wallVars
  <2>3. QED
    BY <2>1, <2>2 DEF TileStep
<1>3. ASSUME NEW id \in RunIds, Live(tiles[id]),
             SettleAs(id, tiles[id], QueueCancelled, queue, TRUE)
      PROVE  TypeOK' /\ ParentStep /\ \A r \in RunIds : TileStep(r)
  <2>1. tiles[id] \in Tiles /\ queue \in Seq(RunIds) /\ QueueCancelled \in Outcomes
    BY WallOutcomeType DEF TypeOK
  <2>2. TypeOK'
    <3>1. /\ tiles' \in [RunIds -> Tiles]
          /\ queue' \in Seq(RunIds)
          /\ cancel' \subseteq RunIds /\ stale' \subseteq RunIds
          /\ fills' \in [RunIds -> Nat]
          /\ parent' \in [RunIds -> RunIds \cup {NoRun}]
      BY <1>3, <2>1, SettleAsType
    <3>2. QED
      BY <1>1, <3>1 DEF TypeOK
  <2>3. ParentStep
    BY <1>3, <2>1, SettleAsParent
  <2>4. \A r \in RunIds : TileStep(r)
    BY <1>3, <2>1, SettleAsStep
  <2>5. QED
    BY <2>2, <2>3, <2>4
<1>4. QED
  BY <1>2, <1>3, ForcedRun

LEMMA ForcedNoStrandedRun ==
  ASSUME TypeOK, ControlTypeOK, NoStrandedRun, NEW k \in forceEnds, ForceEndSettle(k)
  PROVE  NoStrandedRun'
<1>1. CASE UNCHANGED wallVars
  BY <1>1 DEF NoStrandedRun, InQueue, wallVars
<1>2. ASSUME NEW id \in RunIds, Live(tiles[id]),
             SettleAs(id, tiles[id], QueueCancelled, queue, TRUE)
      PROVE  NoStrandedRun'
  <2>1. tiles[id] \in Tiles /\ queue \in Seq(RunIds) /\ QueueCancelled \in Outcomes
    BY WallOutcomeType DEF TypeOK
  <2>2. \A r \in RunIds \ {id} : tiles[r].status = "queued" => HasEntry(queue, r)
    BY DEF NoStrandedRun, InQueue, HasEntry
  <2>3. QED
    BY <1>2, <2>1, <2>2, SettleAsQueue
<1>3. QED
  BY <1>1, <1>2, ForcedRun

\* Runners and reports hold the claims they held.
LEMMA ForcedClaimsHold ==
  ASSUME TypeOK, ControlTypeOK, ClaimsHold, NEW k \in forceEnds, ForceEndSettle(k)
  PROVE  ClaimsHold'
  BY ForcedRun, ForcedSteps, ClaimsByTiles

-----------------------------------------------------------------------------
(* The steps of WorkerControl.                                               *)

Forces == \E k \in forceEnds : ForceEndSettle(k)

LEMMA WorkerSteps ==
  ASSUME [WorkerNext]_workerVars
  PROVE  [Next]_vars \/ Forces
<1>1. CASE NotedBeats
  BY <1>1 DEF NotedBeats, Beat, LateBeat, Next, Runner
<1>2. CASE ControlAlone
  BY <1>2 DEF ControlAlone, Ping, WorkerExpires, ForceEnd, ForceEndFails
<1>3. QED
  BY <1>1, <1>2 DEF WorkerNext, workerVars, Forces

\* What presence and force-ends become, whatever step it is.
LEMMA ControlTypeStep ==
  ASSUME TypeOK, ControlTypeOK,
         UNCHANGED controlVars \/ NotedBeats \/ ControlAlone \/ Forces
  PROVE  ControlTypeOK'
<1>1. ASSUME NEW n \in Runners, NEW run \in RunIds \cup {NoRun, Unseen}, Upsert(n, run)
      PROVE  ControlTypeOK'
  BY <1>1 DEF Upsert, ControlTypeOK
<1>2. CASE NotedBeats
  <2>1. \A n \in Runners : runners[n].run \in RunIds \cup {NoRun}
    BY DEF TypeOK, RunnerStates
  <2>2. QED
    BY <1>1, <1>2, <2>1 DEF NotedBeats, Beat, LateBeat
<1>3. ASSUME NEW n \in Runners, ForceEnd(n)
      PROVE  ControlTypeOK'
  <2>1. presence[n] \in RunIds \cup {NoRun}
    BY <1>3 DEF ForceEnd, ControlTypeOK
  <2>2. [worker |-> n, run |-> presence[n]] \in ForceEnds
    BY <2>1 DEF ForceEnds
  <2>3. QED
    BY <1>3, <2>2 DEF ForceEnd, ControlTypeOK
<1>4. CASE ControlAlone
  BY <1>1, <1>3, <1>4 DEF ControlAlone, Ping, WorkerExpires, ForceEndFails, ControlTypeOK
<1>5. CASE Forces
  <2>1. PICK k \in forceEnds : ForceEndSettle(k)
    BY <1>5 DEF Forces
  <2>2. k.worker \in Runners
    BY DEF ControlTypeOK, ForceEnds
  <2>3. QED
    BY <2>1, <2>2 DEF ForceEndSettle, ControlTypeOK
<1>6. CASE UNCHANGED controlVars
  BY <1>6 DEF controlVars, ControlTypeOK
<1>7. QED
  BY <1>2, <1>4, <1>5, <1>6

LEMMA WorkerTypeStep ==
  ASSUME TypeOK, ControlTypeOK, [WorkerNext]_workerVars
  PROVE  /\ TypeOK' /\ ControlTypeOK' /\ ParentStep
         /\ \A r \in RunIds : TileStep(r)
<1>1. ControlTypeOK'
  BY ControlTypeStep DEF WorkerNext, workerVars, Forces
<1>2. CASE [Next]_vars
  BY <1>1, <1>2, TypeStep, ParentSteps, TileSteps
<1>3. CASE Forces
  BY <1>1, <1>3, ForcedSteps DEF Forces
<1>4. QED
  BY <1>2, <1>3, WorkerSteps

-----------------------------------------------------------------------------
(* The queue under force-ends.                                               *)

WorkerInv ==
    /\ TypeOK
    /\ ControlTypeOK
    /\ FinishedMatchesStatus
    /\ NoStrandedRun
    /\ RetryBudgetsHold
    /\ ClaimsHold
    /\ ChainHolds
    /\ LineageKept

LEMMA WorkerInvInit == ASSUME IsFiniteSet(RunIds), WorkerInit PROVE WorkerInv
<1>1. Init /\ ControlInit
  BY DEF WorkerInit
<1>2. ControlTypeOK
  BY <1>1 DEF ControlInit, ControlTypeOK
<1>3. /\ TypeOK /\ FinishedMatchesStatus /\ NoStrandedRun /\ RetryBudgetsHold
      /\ ChainHolds /\ LineageKept
  BY <1>1, SafeInit DEF Safe
<1>4. ClaimsHold
  BY <1>1 DEF Init, ClaimsHold, Working, IdleRunner
<1>5. QED
  BY <1>2, <1>3, <1>4 DEF WorkerInv

LEMMA WorkerInvStep ==
  ASSUME IsFiniteSet(RunIds), WorkerInv, [WorkerNext]_workerVars
  PROVE  WorkerInv'
<1>1. /\ TypeOK /\ ControlTypeOK /\ FinishedMatchesStatus /\ NoStrandedRun
      /\ RetryBudgetsHold /\ ClaimsHold /\ ChainHolds /\ LineageKept
  BY DEF WorkerInv
<1>2. /\ TypeOK' /\ ControlTypeOK' /\ ParentStep
      /\ \A r \in RunIds : TileStep(r)
  BY <1>1, WorkerTypeStep
<1>3. FinishedMatchesStatus' /\ RetryBudgetsHold' /\ ChainHolds' /\ LineageKept'
  BY <1>1, <1>2, FinishedByTiles, BudgetsByTiles, ChainByTiles, LineageByTiles
<1>4. NoStrandedRun' /\ ClaimsHold'
  <2>1. CASE [Next]_vars
    BY <1>1, <2>1, NoStrandedRunStep, ClaimsHoldStep
  <2>2. CASE Forces
    BY <1>1, <2>2, ForcedNoStrandedRun, ForcedClaimsHold DEF Forces
  <2>3. QED
    BY <2>1, <2>2, WorkerSteps
<1>5. QED
  BY <1>2, <1>3, <1>4 DEF WorkerInv

LEMMA WorkerInvariant == ASSUME IsFiniteSet(RunIds) PROVE WorkerSpec => []WorkerInv
<1>1. WorkerInit => WorkerInv
  BY WorkerInvInit
<1>2. WorkerInv /\ [WorkerNext]_workerVars => WorkerInv'
  BY WorkerInvStep
<1>3. QED
  BY <1>1, <1>2, PTL DEF WorkerSpec

\* However stale the presence records and however long a force-end takes between
\* its two sections, it strands no run, gives no retry back, doubles no chain,
\* breaks no lineage, and leaves no runner or report a claim on a generation the
\* wall has not handed out.
THEOREM ForceEndsKeepQueue ==
  ASSUME IsFiniteSet(RunIds)
  PROVE  WorkerSpec => [](/\ TypeOK /\ ControlTypeOK /\ FinishedMatchesStatus
                          /\ NoStrandedRun /\ RetryBudgetsHold /\ NoClaimAhead
                          /\ OneLivePerChain /\ LineageKept)
<1>1. WorkerInv => /\ TypeOK /\ ControlTypeOK /\ FinishedMatchesStatus
                   /\ NoStrandedRun /\ RetryBudgetsHold /\ NoClaimAhead
                   /\ OneLivePerChain /\ LineageKept
  BY ClaimsHoldIsEnough, ChainHoldsIsEnough DEF WorkerInv
<1>2. QED
  BY <1>1, WorkerInvariant, PTL

LEMMA WorkerTypes == WorkerSpec => [](TypeOK /\ ControlTypeOK)
<1>1. WorkerInit => TypeOK /\ ControlTypeOK
  BY TypeInit DEF WorkerInit, ControlInit, ControlTypeOK
<1>2. TypeOK /\ ControlTypeOK /\ [WorkerNext]_workerVars => (TypeOK /\ ControlTypeOK)'
  BY WorkerTypeStep
<1>3. QED
  BY <1>1, <1>2, PTL DEF WorkerSpec

\* A run that is over stays as it finished under force-ends as well: the worker
\* whose record names it is forgotten, the run is not settled a second time.
THEOREM FinalUnderForceEnds == WorkerSpec => FinishedIsFinal
<1> DEFINE Final == \A r \in RunIds : tiles[r].finished /\ SameSubmission(r)
                                        => tiles'[r] = tiles[r]
<1>1. TypeOK /\ ControlTypeOK /\ [WorkerNext]_workerVars => [Final]_vars
  BY WorkerTypeStep, FinalByTiles
<1>2. WorkerSpec => [][Final]_vars
  BY <1>1, WorkerTypes, PTL DEF WorkerSpec
<1>3. QED
  BY <1>2 DEF FinishedIsFinal

\* A run that a force-end closes has one generation more: what its worker still
\* reports is a duplicate, and a later submission starts from one.
THEOREM GenerationsUnderForceEnds == WorkerSpec => GenerationsAdvance
<1> DEFINE Advance == \A r \in RunIds : SameSubmission(r) /\ Known(tiles[r])
                                          => Advances(r)
<1>1. TypeOK /\ ControlTypeOK /\ [WorkerNext]_workerVars => [Advance]_vars
  BY WorkerTypeStep, AdvancesByTiles
<1>2. WorkerSpec => [][Advance]_vars
  BY <1>1, WorkerTypes, PTL DEF WorkerSpec
<1>3. QED
  BY <1>2 DEF GenerationsAdvance, Advances

-----------------------------------------------------------------------------
(* The runs a record, a request or a runner can name were handed out.        *)

\* Of tile t, the fill-th of its id: it was given to a worker, or removed.
GivenOut(t, fill) ==
    /\ fill > 0
    /\ fill = 1 => t.attempts > 0 \/ t.status \in {"leased", "running", "absent"}

HandedOut(r) == GivenOut(tiles[r], fills[r])

NamedIsHandedOut ==
    /\ \A n \in Runners : Working(n) => HandedOut(runners[n].run)
    /\ \A r \in late : HandedOut(r)
    /\ \A n \in Runners : presence[n] \in RunIds => HandedOut(presence[n])
    /\ \A k \in forceEnds : k.run \in RunIds => HandedOut(k.run)

KnownAreSubmitted == \A r \in RunIds : Known(tiles[r]) => fills[r] > 0

GivenInv == TypeOK /\ ControlTypeOK /\ KnownAreSubmitted /\ NamedIsHandedOut

LEMMA HandedOutStays ==
  ASSUME TypeOK, NEW r \in RunIds, TileStep(r), HandedOut(r)
  PROVE  HandedOut(r)'
<1> DEFINE t == tiles[r]
           u == tiles'[r]
<1>1. t \in Tiles /\ fills[r] \in Nat /\ t.attempts \in Nat
  BY DEF TypeOK, Tiles
<1>2. CASE Kept(r)
  BY <1>2 DEF Kept, HandedOut
<1>3. CASE Filled(r)
  BY <1>1, <1>3 DEF Filled, HandedOut, GivenOut
<1>4. CASE Removed(r)
  BY <1>4, AbsentFields DEF Removed, HandedOut, GivenOut
<1>5. CASE Flagged(r) \/ Active(r)
  <2>1. /\ u.attempts = t.attempts /\ fills'[r] = fills[r]
        /\ u.status \in {t.status, "leased", "running"}
    BY <1>1, <1>5 DEF Flagged, Active, Tiles
  <2>2. QED
    BY <2>1 DEF HandedOut, GivenOut
<1>6. CASE SettledNow(r)
  <2>1. u.attempts = t.attempts + 1 /\ fills'[r] = fills[r]
    BY <1>6, SettledNowFrom DEF SettledFrom, SettledNow
  <2>2. QED
    BY <1>1, <2>1 DEF HandedOut, GivenOut
<1>7. QED
  BY <1>2, <1>3, <1>4, <1>5, <1>6 DEF TileStep

LEMMA SubmittedStays ==
  ASSUME TypeOK, KnownAreSubmitted, \A r \in RunIds : TileStep(r)
  PROVE  KnownAreSubmitted'
<1> SUFFICES ASSUME NEW r \in RunIds, Known(tiles'[r])
             PROVE  fills'[r] > 0
  BY DEF KnownAreSubmitted
<1>1. fills[r] \in Nat /\ TileStep(r) /\ (Known(tiles[r]) => fills[r] > 0)
  BY DEF TypeOK, KnownAreSubmitted
<1>2. QED
  BY <1>1, AbsentFields
     DEF TileStep, Kept, Filled, Removed, Flagged, Active, SettledNow, Live, Known

\* A request nobody waits for any more was sent by a runner for its run.
LEMMA LateSteps ==
  ASSUME [Next]_vars, NEW r \in late'
  PROVE  r \in late \/ \E n \in Runners : Working(n) /\ r = runners[n].run
  BY DEF Next, Operator, Submit, Cancel, Flag, Delete, Runner, LeaseBegin, LeaseScan,
         LeasePass, LeaseDrop, LeaseSkip, LeaseCancelled, LeaseNone, LeaseTake,
         Heartbeat, HeartbeatDelayed, Crash, EndRun, LateHeartbeat, GoQuiet, Reaper,
         ReapFlagged, ReapStale, Finish, FinishCheckFlag, FinishSettle, FinishRefused,
         LoseReport, netVars, vars

\* A lease hands out the run it names.
LEMMA TakeHandsOutRun ==
  ASSUME TypeOK, KnownAreSubmitted, NEW n \in Runners, LeaseTake(n, TRUE)
  PROVE  \E r \in RunIds : r = Candidate /\ HandedOut(r)'
<1> DEFINE r == Candidate
<1>1. /\ r \in RunIds /\ tiles[r] \in Tiles /\ Live(tiles[r])
      /\ fills[r] \in Nat
  BY CandidateType DEF LeaseTake, TypeOK
<1>2. /\ tiles'[r] = [tiles[r] EXCEPT !.status = "leased"]
      /\ fills'[r] = fills[r]
  BY <1>1 DEF LeaseTake, TypeOK
<1>3. tiles'[r].status = "leased"
  BY <1>1, <1>2 DEF Tiles
<1>4. fills[r] > 0
  BY <1>1 DEF KnownAreSubmitted, Live
<1> HIDE DEF r
<1>5. GivenOut(tiles'[r], fills'[r])
  BY <1>2, <1>3, <1>4 DEF GivenOut
<1>6. QED
  BY <1>1, <1>5 DEF r, HandedOut

\* Whom runners and requests nobody waits for name next was named, or is handed
\* out.
QueueNames ==
    /\ \A n \in Runners : Working(n)' =>
         \/ Working(n) /\ runners'[n].run = runners[n].run
         \/ \E r \in RunIds : r = runners'[n].run /\ HandedOut(r)'
    /\ \A r \in late' : r \in late \/ \E n \in Runners : Working(n) /\ r = runners[n].run

RecordsName ==
    /\ \A n \in Runners : presence'[n] \in RunIds =>
         \/ presence'[n] = presence[n]
         \/ \E m \in Runners : Working(m) /\ presence'[n] = runners[m].run
         \/ presence'[n] \in late
    /\ \A k \in forceEnds' : k \in forceEnds \/ \E n \in Runners : k.run = presence[n]

LEMMA WallNames ==
  ASSUME TypeOK, KnownAreSubmitted, [Next]_vars
  PROVE  QueueNames
<1>1. ASSUME NEW n \in Runners, Working(n)'
      PROVE  \/ Working(n) /\ runners'[n].run = runners[n].run
             \/ \E r \in RunIds : r = runners'[n].run /\ HandedOut(r)'
  <2>1. CASE /\ LeaseTake(n, TRUE)
             /\ runners'[n] = [run |-> Candidate,
                               attempt |-> CurrentAttempt(tiles[Candidate]),
                               gen |-> fills[Candidate], stop |-> FALSE]
    <3>1. runners'[n].run = Candidate
      BY <2>1
    <3>2. QED
      BY <2>1, <3>1, TakeHandsOutRun
  <2>2. QED
    BY <1>1, <2>1, RunnerClaims
<1>2. QED
  BY <1>1, LateSteps DEF QueueNames

LEMMA SameNames ==
  ASSUME UNCHANGED <<runners, late>>
  PROVE  QueueNames
  BY DEF QueueNames, Working

\* What a record or a request names next, somebody names now.
LEMMA ControlNames ==
  ASSUME TypeOK, ControlTypeOK,
         UNCHANGED controlVars \/ NotedBeats \/ ControlAlone \/ Forces
  PROVE  RecordsName
<1> USE RunTileAssumption, UnseenAssumption
<1>1. ASSUME NEW m \in Runners, NEW run, Upsert(m, run),
             \/ run \in {NoRun, Unseen} \cup late
             \/ Working(m) /\ run = runners[m].run
      PROVE  RecordsName
  BY <1>1 DEF Upsert, ControlTypeOK, RecordsName
<1>2. CASE NotedBeats
  BY <1>1, <1>2 DEF NotedBeats, Beat, LateBeat, Heartbeat, LateHeartbeat
<1>3. ASSUME NEW m \in Runners, ForceEnd(m)
      PROVE  RecordsName
  BY <1>3 DEF ForceEnd, RecordsName
<1>4. CASE ControlAlone
  <2>1. ASSUME NEW k \in forceEnds, ForceEndFails(k)
        PROVE  RecordsName
    BY <2>1 DEF ForceEndFails, RecordsName
  <2>2. QED
    BY <1>1, <1>3, <1>4, <2>1 DEF ControlAlone, Ping, WorkerExpires
<1>5. CASE Forces
  <2>1. PICK k \in forceEnds : ForceEndSettle(k)
    BY <1>5 DEF Forces
  <2>2. /\ presence' = [presence EXCEPT ![k.worker] = Unseen]
        /\ forceEnds' \subseteq forceEnds
    BY <2>1 DEF ForceEndSettle
  <2>3. QED
    BY <2>2 DEF ControlTypeOK, RecordsName
<1>6. CASE UNCHANGED controlVars
  BY <1>6 DEF controlVars, RecordsName
<1>7. QED
  BY <1>2, <1>4, <1>5, <1>6

LEMMA NamesStay ==
  ASSUME TypeOK, ControlTypeOK, NamedIsHandedOut, QueueNames, RecordsName,
         \A r \in RunIds : HandedOut(r) => HandedOut(r)'
  PROVE  NamedIsHandedOut'
<1>1. /\ \A n \in Runners : Working(n) => runners[n].run \in RunIds
      /\ late \subseteq RunIds
  BY DEF Working, TypeOK, RunnerStates
<1>2. ASSUME NEW r \in RunIds, HandedOut(r)
      PROVE  HandedOut(r)'
  BY <1>2
<1>3. ASSUME NEW n \in Runners, Working(n)
      PROVE  HandedOut(runners[n].run) /\ runners[n].run \in RunIds
  BY <1>1, <1>3 DEF NamedIsHandedOut
<1>4. ASSUME NEW r \in late
      PROVE  HandedOut(r)'
  BY <1>1, <1>2 DEF NamedIsHandedOut
<1>5. ASSUME NEW n \in Runners, Working(n)'
      PROVE  \E r \in RunIds : r = runners'[n].run /\ HandedOut(r)'
  <2>1. CASE Working(n) /\ runners'[n].run = runners[n].run
    BY <1>2, <1>3, <2>1
  <2>2. QED
    BY <1>5, <2>1 DEF QueueNames
<1>6. ASSUME NEW r \in late'
      PROVE  HandedOut(r)'
  BY <1>2, <1>3, <1>4 DEF QueueNames
<1>7. ASSUME NEW n \in Runners, presence'[n] \in RunIds
      PROVE  \E r \in RunIds : r = presence'[n] /\ HandedOut(r)'
  <2>1. CASE presence'[n] = presence[n]
    BY <1>2, <1>7, <2>1 DEF NamedIsHandedOut
  <2>2. QED
    BY <1>2, <1>3, <1>4, <1>7, <2>1 DEF RecordsName
<1>8. ASSUME NEW k \in forceEnds', k.run \in RunIds
      PROVE  \E r \in RunIds : r = k.run /\ HandedOut(r)'
  BY <1>2, <1>8 DEF NamedIsHandedOut, RecordsName
<1>9. QED
  BY <1>5, <1>6, <1>7, <1>8 DEF NamedIsHandedOut, HandedOut

LEMMA GivenInvStep ==
  ASSUME GivenInv, [WorkerNext]_workerVars
  PROVE  GivenInv'
<1>1. TypeOK /\ ControlTypeOK /\ KnownAreSubmitted /\ NamedIsHandedOut
  BY DEF GivenInv
<1>2. TypeOK' /\ ControlTypeOK' /\ \A r \in RunIds : TileStep(r)
  BY <1>1, WorkerTypeStep
<1>3. KnownAreSubmitted'
  BY <1>1, <1>2, SubmittedStays
<1>4. \A r \in RunIds : HandedOut(r) => HandedOut(r)'
  BY <1>1, <1>2, HandedOutStays
<1>5. QueueNames
  <2>1. CASE [Next]_vars
    BY <1>1, <2>1, WallNames
  <2>2. CASE Forces
    BY <1>1, <2>2, ForcedRun, SameNames DEF Forces
  <2>3. QED
    BY <2>1, <2>2, WorkerSteps
<1>6. RecordsName
  BY <1>1, ControlNames DEF WorkerNext, workerVars, Forces
<1>7. NamedIsHandedOut'
  BY <1>1, <1>4, <1>5, <1>6, NamesStay
<1>8. QED
  BY <1>2, <1>3, <1>7 DEF GivenInv

\* A force-end settles a run it can name.
Spared ==
    \A r \in RunIds :
      fills[r] = 1 /\ NeverGiven(tiles[r]) =>
        \A k \in forceEnds : ForceEndSettle(k) => tiles'[r] = tiles[r]

LEMMA NamedIsSpared ==
  ASSUME TypeOK, ControlTypeOK, NamedIsHandedOut
  PROVE  Spared
<1> SUFFICES ASSUME NEW k \in forceEnds, ForceEndSettle(k),
                    NEW r \in RunIds, fills[r] = 1, NeverGiven(tiles[r])
             PROVE  tiles'[r] = tiles[r]
  BY DEF Spared
<1>1. CASE UNCHANGED wallVars
  BY <1>1 DEF wallVars
<1>2. ASSUME NEW id \in RunIds, id = ForceEndTarget(k),
             SettleAs(id, tiles[id], QueueCancelled, queue, TRUE)
      PROVE  tiles'[r] = tiles[r]
  <2>1. HandedOut(id)
    BY <1>2 DEF ForceEndTarget, NamedIsHandedOut, ControlTypeOK, ForceEnds
  <2>2. r # id
    BY <2>1 DEF HandedOut, GivenOut, NeverGiven
  <2>3. r \notin FreshIds
    BY DEF FreshIds
  <2>4. QED
    BY <1>2, <2>2, <2>3 DEF SettleAs, TypeOK
<1>3. QED
  BY <1>1, <1>2, ForcedRun

\* The initial state names no run.
LEMMA GivenInvInit == WorkerInit => GivenInv
<1> SUFFICES ASSUME WorkerInit
             PROVE  GivenInv
  OBVIOUS
<1>1. Init /\ ControlInit /\ TypeOK
  BY TypeInit DEF WorkerInit
<1>2. KnownAreSubmitted
  BY <1>1, AbsentFields DEF Init, KnownAreSubmitted, Known
<1>3. ControlTypeOK /\ NamedIsHandedOut
  BY <1>1, UnseenAssumption
     DEF Init, ControlInit, ControlTypeOK, NamedIsHandedOut, Working, IdleRunner
<1>4. QED
  BY <1>1, <1>2, <1>3 DEF GivenInv

\* However stale its record, the run a force-end settles was given to a worker
\* before, or its id was submitted again since: a run that waits for its first
\* worker is out of reach.
THEOREM NeverGivenIsSpared == WorkerSpec => NeverGivenStays
<1>1. GivenInv /\ [WorkerNext]_workerVars => GivenInv'
  BY GivenInvStep
<1>2. GivenInv /\ [WorkerNext]_workerVars => [Spared]_workerVars
  BY NamedIsSpared DEF GivenInv
<1>3. WorkerSpec => [][Spared]_workerVars
  BY <1>1, <1>2, GivenInvInit, PTL DEF WorkerSpec
<1>4. QED
  BY <1>3 DEF NeverGivenStays, Spared

-----------------------------------------------------------------------------
(* The farm: the invariant of the pauses, and a snapshot that is as sound as *)
(* the state it was taken of.                                                *)

\* FinishedMatchesStatus, NoStrandedRun, RetryBudgetsHold and CanaryAlone of any
\* tile map ts, queue q, submissions fs and parents ps.
WholeState(ts, q, fs, ps) ==
    /\ ts \in [RunIds -> Tiles]
    /\ q \in Seq(RunIds)
    /\ fs \in [RunIds -> Nat]
    /\ ps \in [RunIds -> RunIds \cup {NoRun}]
    /\ \A r \in RunIds : LET t == ts[r] IN
         /\ t.finished <=> t.status \in {"done", "paused"}
         /\ t.status = "absent" => t = AbsentTile
         /\ t.status = "queued" => HasEntry(q, r)
         /\ t.errorAttempts + t.lossRecoveries <= t.attempts
         /\ Live(t) /\ t.profile # "resilient" =>
              /\ t.errorAttempts < MaxAttempts
              /\ t.lossRecoveries < MaxLostRecoveries
    /\ \A r, p \in RunIds : IsCanary(ts[r]) /\ IsCanary(ts[p]) => r = p

Whole == /\ FinishedMatchesStatus /\ NoStrandedRun /\ RetryBudgetsHold
         /\ CanaryAlone

SavedWhole == WholeState(saved.tiles, saved.queue, saved.fills, saved.parent)

FarmInv == PauseTypeOK /\ ControlTypeOK /\ Whole /\ SavedWhole /\ restarts \in Nat

LEMMA WholeIsState ==
  ASSUME TypeOK
  PROVE  Whole <=> WholeState(tiles, queue, fills, parent)
<1>1. NoStrandedRun <=> \A r \in RunIds :
                          tiles[r].status = "queued" => HasEntry(queue, r)
  BY DEF NoStrandedRun, InQueue, HasEntry
<1>2. /\ tiles \in [RunIds -> Tiles] /\ queue \in Seq(RunIds)
      /\ fills \in [RunIds -> Nat] /\ parent \in [RunIds -> RunIds \cup {NoRun}]
  BY DEF TypeOK
<1> HIDE DEF TypeOK, NoStrandedRun
<1>3. QED
  BY <1>1, <1>2
     DEF Whole, WholeState, FinishedMatchesStatus, RetryBudgetsHold, CanaryAlone

LEMMA WholeIsStateNext ==
  ASSUME TypeOK'
  PROVE  Whole' <=> WholeState(tiles', queue', fills', parent')
<1>1. NoStrandedRun' <=> \A r \in RunIds :
                           tiles'[r].status = "queued" => HasEntry(queue', r)
  BY DEF NoStrandedRun, InQueue, HasEntry
<1>2. /\ tiles' \in [RunIds -> Tiles] /\ queue' \in Seq(RunIds)
      /\ fills' \in [RunIds -> Nat] /\ parent' \in [RunIds -> RunIds \cup {NoRun}]
  BY DEF TypeOK
<1>3. QED
  BY <1>1, <1>2
     DEF Whole, WholeState, FinishedMatchesStatus, RetryBudgetsHold, CanaryAlone

\* The steps that change the pause handlers' state are steps of PauseControl;
\* an eviction and a force-end only change tiles.
FarmTiles ==
    /\ TypeOK' /\ NoStrandedRun'
    /\ \A r \in RunIds : TileStep(r)
    /\ UNCHANGED <<holder, runners, late, reports>>
    /\ UNCHANGED <<pauseVars, restarts>>

LEMMA EvictTiles ==
  ASSUME TypeOK, FinishedMatchesStatus, NoStrandedRun, EvictFinished, UNCHANGED pauseVars
  PROVE  FarmTiles
<1> DEFINE gone == {r \in RunIds : tiles[r].finished /\ r \notin Lineage}
<1>1. /\ tiles' = [r \in RunIds |-> IF r \in gone THEN AbsentTile ELSE tiles[r]]
      /\ cancel' \subseteq cancel /\ stale' \subseteq stale
      /\ UNCHANGED <<queue, fills, parent, holder, cursor, runners, late, reports>>
      /\ UNCHANGED restarts
  BY DEF EvictFinished, scanVars, netVars
<1>2. \A r \in gone : ~Live(tiles[r]) /\ r \notin Lineage
  BY DEF Live
<1> HIDE DEF gone
<1>3. TypeOK'
  BY <1>1, AbsentTileType DEF TypeOK
<1>4. NoStrandedRun'
  BY <1>1, AbsentFields DEF NoStrandedRun, InQueue
<1>5. \A r \in RunIds : TileStep(r)
  BY <1>1, <1>2 DEF TileStep, Removed, Kept
<1>6. QED
  BY <1>1, <1>3, <1>4, <1>5 DEF FarmTiles

LEMMA ForcedTiles ==
  ASSUME TypeOK, ControlTypeOK, NoStrandedRun, Forces, UNCHANGED <<pauseVars, restarts>>
  PROVE  FarmTiles
  BY ForcedRun, ForcedSteps, ForcedNoStrandedRun DEF Forces, FarmTiles

\* What the steps of the farm do, told apart by what they preserve.
LEMMA FarmSteps ==
  ASSUME TypeOK, ControlTypeOK, FinishedMatchesStatus, NoStrandedRun, [FarmNext]_farmVars
  PROVE  \/ [PauseNext]_pvars /\ UNCHANGED restarts
         \/ FarmTiles
         \/ RestartAll
<1>1. CASE PausePart
  BY <1>1 DEF PausePart
<1>2. CASE ControlPart
  <2>1. UNCHANGED <<pauseVars, restarts>>
    BY <1>2 DEF ControlPart, storeOnly
  <2>2. CASE NotedBeats
    BY <2>1, <2>2 DEF NotedBeats, Beat, LateBeat, PauseNext, WallGoesOn, Runner
  <2>3. CASE ControlAlone
    BY <2>1, <2>3
       DEF ControlAlone, Ping, WorkerExpires, ForceEnd, ForceEndFails, pvars
  <2>4. CASE Forces
    BY <2>1, <2>4, ForcedTiles
  <2>5. QED
    BY <1>2, <2>2, <2>3, <2>4 DEF ControlPart, Forces
<1>3. CASE StorePart
  <2>1. CASE SaveState
    BY <1>3, <2>1 DEF StorePart, SaveState, pvars
  <2>2. CASE EvictFinished
    BY <1>3, <2>2, EvictTiles DEF StorePart
  <2>3. QED
    BY <1>3, <2>1, <2>2 DEF StorePart
<1>4. CASE UNCHANGED farmVars
  BY <1>4 DEF farmVars, storeOnly, pvars
<1>5. QED
  BY <1>1, <1>2, <1>3, <1>4 DEF FarmNext

LEMMA TilesKeepWhole ==
  ASSUME PauseTypeOK, Whole, FarmTiles
  PROVE  PauseTypeOK' /\ Whole'
<1>1. /\ TypeOK /\ TypeOK' /\ NoStrandedRun' /\ UNCHANGED pauseVars
      /\ \A r \in RunIds : TileStep(r)
  BY DEF FarmTiles, PauseTypeOK
<1>2. PauseTypeOK'
  BY <1>1 DEF PauseTypeOK, pauseVars
<1>3. FinishedMatchesStatus' /\ RetryBudgetsHold' /\ CanaryAlone'
  BY <1>1, FinishedByTiles, BudgetsByTiles, CanaryByTiles DEF Whole
<1>4. QED
  BY <1>1, <1>2, <1>3 DEF Whole

\* loadState makes the snapshot the state, and new handlers around it.
LEMMA RestartKeepsWhole ==
  ASSUME FarmInv, RestartAll
  PROVE  PauseTypeOK' /\ ControlTypeOK' /\ Whole' /\ UNCHANGED saved
<1>1. /\ TypeOK /\ SavedWhole
      /\ queue' = saved.queue /\ fills' = saved.fills /\ parent' = saved.parent
      /\ cancel' = {} /\ stale' = {} /\ late' = {}
      /\ holder' = NoRunner /\ cursor' = 1
      /\ reports' \subseteq reports
      /\ UNCHANGED <<runners, saved>>
  BY DEF FarmInv, PauseTypeOK, RestartAll, Restart
<1>2. tiles' = saved.tiles
  <2>1. tiles' = [r \in RunIds |-> saved.tiles[r]]
    BY DEF RestartAll, Restart, Restored
  <2>2. QED
    BY <1>1, <2>1 DEF SavedWhole, WholeState
<1>3. TypeOK'
  BY <1>1, <1>2 DEF TypeOK, SavedWhole, WholeState
<1>4. PauseTypeOK' /\ ControlTypeOK'
  BY <1>3 DEF RestartAll, PauseTypeOK, ControlTypeOK
<1>5. WholeState(tiles', queue', fills', parent')
  BY <1>1, <1>2 DEF SavedWhole
<1>6. Whole'
  BY <1>3, <1>5, WholeIsStateNext
<1>7. QED
  BY <1>1, <1>4, <1>6

\* A snapshot is kept, or taken of the state before or after the step.
LEMMA SavedSteps ==
  ASSUME [FarmNext]_farmVars
  PROVE  UNCHANGED saved \/ saved' = Snapshot'
<1>1. CASE PausePart
  BY <1>1 DEF PausePart, Answered
<1>2. CASE SaveState
  <2>1. saved' = Snapshot /\ UNCHANGED vars
    BY <1>2 DEF SaveState
  <2>2. QED
    BY <2>1 DEF Snapshot, vars
<1>3. QED
  BY <1>1, <1>2
     DEF FarmNext, ControlPart, StorePart, EvictFinished, RestartAll, Restart, storeOnly,
         farmVars

LEMMA SavedWholeStep ==
  ASSUME FarmInv, TypeOK', Whole', [FarmNext]_farmVars
  PROVE  SavedWhole'
<1>1. CASE UNCHANGED saved
  BY <1>1 DEF FarmInv, SavedWhole
<1>2. CASE saved' = Snapshot'
  <2>1. /\ saved'.tiles = tiles' /\ saved'.queue = queue'
        /\ saved'.fills = fills' /\ saved'.parent = parent'
    BY <1>2 DEF Snapshot
  <2>2. WholeState(tiles', queue', fills', parent')
    BY WholeIsStateNext
  <2>3. QED
    BY <2>1, <2>2 DEF SavedWhole
<1>3. QED
  BY <1>1, <1>2, SavedSteps

\* Only the control part and a restart touch presence and force-ends.
LEMMA FarmControlType ==
  ASSUME TypeOK, ControlTypeOK, [FarmNext]_farmVars
  PROVE  ControlTypeOK'
<1>1. CASE RestartAll
  BY <1>1 DEF RestartAll, ControlTypeOK
<1>2. CASE UNCHANGED controlVars \/ NotedBeats \/ ControlAlone \/ Forces
  BY <1>2, ControlTypeStep
<1>3. QED
  BY <1>1, <1>2 DEF FarmNext, PausePart, ControlPart, StorePart, Forces, farmVars

LEMMA FarmInvStep ==
  ASSUME IsFiniteSet(RunIds), FarmInv, [FarmNext]_farmVars
  PROVE  FarmInv'
<1>1. /\ PauseTypeOK /\ TypeOK /\ ControlTypeOK /\ Whole
      /\ FinishedMatchesStatus /\ NoStrandedRun
  BY DEF FarmInv, PauseTypeOK, Whole
<1>2. ControlTypeOK'
  BY <1>1, FarmControlType
<1>3. PauseTypeOK' /\ Whole'
  <2>1. CASE [PauseNext]_pvars
    <3>1. PauseInv
      BY <1>1 DEF PauseInv, Whole
    <3>2. PauseInv'
      BY <2>1, <3>1, PauseInvStep
    <3>3. QED
      BY <3>2 DEF PauseInv, Whole
  <2>2. CASE FarmTiles
    BY <1>1, <2>2, TilesKeepWhole
  <2>3. CASE RestartAll
    BY <2>3, RestartKeepsWhole
  <2>4. QED
    BY <1>1, <2>1, <2>2, <2>3, FarmSteps
<1>4. TypeOK'
  BY <1>3 DEF PauseTypeOK
<1>5. SavedWhole'
  BY <1>3, <1>4, SavedWholeStep
<1>6. restarts' \in Nat
  BY DEF FarmInv, FarmNext, PausePart, ControlPart, StorePart, SaveState, EvictFinished,
         RestartAll, Restart, storeOnly, farmVars
<1>7. QED
  BY <1>2, <1>3, <1>5, <1>6 DEF FarmInv

LEMMA FarmInvInit == ASSUME IsFiniteSet(RunIds) PROVE FarmInit => FarmInv
<1> SUFFICES ASSUME FarmInit
             PROVE  FarmInv
  OBVIOUS
<1>1. PauseInv /\ ControlTypeOK
  BY PauseInvInit DEF FarmInit, ControlInit, ControlTypeOK
<1>2. PauseTypeOK /\ TypeOK /\ Whole
  BY <1>1 DEF PauseInv, PauseTypeOK, Whole
<1>3. /\ saved.tiles = tiles /\ saved.queue = queue
      /\ saved.fills = fills /\ saved.parent = parent
  BY DEF FarmInit, Snapshot
<1>4. SavedWhole
  BY <1>2, <1>3, WholeIsState DEF SavedWhole
<1>5. restarts \in Nat
  BY DEF FarmInit
<1>6. QED
  BY <1>1, <1>2, <1>4, <1>5 DEF FarmInv

LEMMA FarmInvariant == ASSUME IsFiniteSet(RunIds) PROVE FarmSpec => []FarmInv
  BY FarmInvInit, FarmInvStep, PTL DEF FarmSpec

\* The wall as deployed: with operators, runners, wrapped finishes, the circuit,
\* force-ends, evictions, failing saves and any number of restarts interleaved,
\* a finished run is shown as one, a queued run is in the queue, a retry has
\* budget, and a fix is tried on one run at a time.
THEOREM FarmIsSafe ==
  ASSUME IsFiniteSet(RunIds)
  PROVE  FarmSpec => [](/\ FarmTypeOK /\ FinishedMatchesStatus /\ NoStrandedRun
                        /\ RetryBudgetsHold /\ OneCanary)
<1>1. FarmInv => /\ FarmTypeOK /\ FinishedMatchesStatus /\ NoStrandedRun
                 /\ RetryBudgetsHold /\ OneCanary
  BY CanaryAloneIsEnough DEF FarmInv, FarmTypeOK, Whole
<1>2. QED
  BY <1>1, FarmInvariant, PTL

-----------------------------------------------------------------------------
(* Claims over restarts.  A restart takes generations back that were settled  *)
(* since the last snapshot, and runners play on: what they hold must be a     *)
(* claim on the snapshot as well.  It is, since a lease is saved before it is *)
(* answered, and nothing but a lease gives anybody a new claim.               *)

SavedClaims ==
    /\ \A n \in Runners : Working(n) =>
         ClaimHolds(saved.tiles[runners[n].run], saved.fills[runners[n].run],
                    runners[n].attempt, runners[n].gen)
    /\ \A m \in reports :
         ClaimHolds(saved.tiles[m.run], saved.fills[m.run], m.attempt, m.gen)

ClaimsInv == FarmInv /\ ScannerIsIdle /\ ClaimsHold /\ SavedClaims

\* Nobody holds or reports a claim that was not held or reported before.
HolderStep ==
    /\ \A n \in Runners : Working(n)' =>
         /\ Working(n)
         /\ runners'[n].run = runners[n].run
         /\ runners'[n].attempt = runners[n].attempt
         /\ runners'[n].gen = runners[n].gen
    /\ \A m \in reports' :
         \/ \E k \in reports : /\ m.run = k.run
                               /\ m.attempt = k.attempt
                               /\ m.gen = k.gen
         \/ \E n \in Runners : /\ Working(n)
                               /\ m.run = runners[n].run
                               /\ m.attempt = runners[n].attempt
                               /\ m.gen = runners[n].gen

LEMMA HoldersStay ==
  ASSUME UNCHANGED runners, reports' \subseteq reports
  PROVE  HolderStep
<1>1. ASSUME NEW n \in Runners
      PROVE  runners'[n] = runners[n] /\ (Working(n)' <=> Working(n))
  BY DEF Working
<1>2. ASSUME NEW m \in reports'
      PROVE  \E k \in reports : /\ m.run = k.run
                               /\ m.attempt = k.attempt
                               /\ m.gen = k.gen
  BY <1>2
<1>3. QED
  BY <1>1, <1>2 DEF HolderStep

LEMMA NoLeaseHolders ==
  ASSUME TypeOK, [Next]_vars, \A n \in Runners : ~LeaseTake(n, TRUE)
  PROVE  HolderStep
  BY RunnerClaims, ReportClaims DEF HolderStep

\* A runner that a lease reaches was idle, so its lease is saved.
LEMMA UnansweredHolders ==
  ASSUME TypeOK, ScannerIsIdle, [Next]_vars, ~\E n \in Runners : Receives(n)
  PROVE  HolderStep
<1>1. ASSUME NEW n \in Runners, LeaseTake(n, TRUE)
      PROVE  FALSE
  <2>1. ~Working(n)
    BY <1>1 DEF ScannerIsIdle, LeaseTake, Scanning
  <2>2. Candidate \in RunIds
    BY <1>1, CandidateType DEF LeaseTake
  <2>3. runners'[n].run = Candidate
    BY <1>1 DEF LeaseTake, TypeOK
  <2>4. QED
    BY <2>1, <2>2, <2>3, RunTileAssumption DEF Receives
<1>2. QED
  BY <1>1, NoLeaseHolders

\* A step of the farm writes a snapshot, restarts the wall, or gives nobody a new
\* claim.
LEMMA SavedOrHeld ==
  ASSUME IsFiniteSet(RunIds), FarmInv, ScannerIsIdle, [FarmNext]_farmVars
  PROVE  saved' = Snapshot' \/ RestartAll \/ (UNCHANGED saved /\ HolderStep)
<1>1. PauseTypeOK /\ TypeOK /\ ControlTypeOK /\ FinishedMatchesStatus
  BY DEF FarmInv, PauseTypeOK, Whole
<1>2. CASE PausePart
  <2>1. CASE \E n \in Runners : Receives(n)
    BY <1>2, <2>1 DEF PausePart, Answered
  <2>2. CASE ~\E n \in Runners : Receives(n)
    <3>1. UNCHANGED saved
      BY <1>2, <2>2 DEF PausePart, Answered
    <3>2. CASE [Next]_vars
      BY <1>1, <2>2, <3>1, <3>2, UnansweredHolders
    <3>3. CASE PauseMove
      BY <1>1, <3>1, <3>3, PauseMoveEffect, HoldersStay DEF PauseMoved
    <3>4. QED
      BY <1>2, <3>2, <3>3, PauseSteps DEF PausePart
  <2>3. QED
    BY <2>1, <2>2
<1>3. CASE ControlPart
  <2>1. UNCHANGED saved
    BY <1>3 DEF ControlPart, storeOnly
  <2>2. CASE NotedBeats
    <3>1. [Next]_vars
      BY <2>2 DEF NotedBeats, Beat, LateBeat, Next, Runner
    <3>2. holder = NoRunner
      BY <2>2 DEF NotedBeats, Beat, LateBeat, Heartbeat, LateHeartbeat, Unlocked
    <3>3. \A n \in Runners : ~LeaseTake(n, TRUE)
      BY <3>2, WallAssumption DEF LeaseTake, Scanning
    <3>4. QED
      BY <1>1, <2>1, <3>1, <3>3, NoLeaseHolders
  <2>3. CASE ControlAlone
    <3>1. UNCHANGED vars
      BY <2>3 DEF ControlAlone, Ping, WorkerExpires, ForceEnd, ForceEndFails
    <3>2. QED
      BY <2>1, <3>1, HoldersStay DEF vars, netVars
  <2>4. CASE Forces
    BY <1>1, <2>1, <2>4, ForcedRun, HoldersStay DEF Forces
  <2>5. QED
    BY <1>3, <2>2, <2>3, <2>4 DEF ControlPart, Forces
<1>4. CASE StorePart
  <2>1. CASE SaveState
    BY <2>1 DEF SaveState, Snapshot, vars
  <2>2. CASE EvictFinished
    BY <2>2, HoldersStay DEF EvictFinished, netVars
  <2>3. QED
    BY <1>4, <2>1, <2>2 DEF StorePart
<1>5. CASE UNCHANGED farmVars
  BY <1>5, HoldersStay DEF farmVars, storeOnly, vars, netVars
<1>6. QED
  BY <1>2, <1>3, <1>4, <1>5 DEF FarmNext

LEMMA FarmScanner ==
  ASSUME IsFiniteSet(RunIds), FarmInv, ScannerIsIdle, [FarmNext]_farmVars
  PROVE  ScannerIsIdle'
<1>1. /\ PauseTypeOK /\ TypeOK /\ ControlTypeOK /\ FinishedMatchesStatus
      /\ NoStrandedRun
  BY DEF FarmInv, PauseTypeOK, Whole
<1>2. CASE [Next]_vars
  BY <1>1, <1>2, ScannerIsIdleStep
<1>3. CASE UNCHANGED <<holder, runners>>
  BY <1>3 DEF ScannerIsIdle, Working
<1>4. CASE PauseMove
  BY <1>1, <1>3, <1>4, PauseMoveEffect DEF PauseMoved
<1>5. CASE FarmTiles
  BY <1>3, <1>5 DEF FarmTiles
<1>6. CASE RestartAll
  BY <1>6, WallAssumption DEF RestartAll, Restart, ScannerIsIdle
<1>7. QED
  BY <1>1, <1>2, <1>4, <1>5, <1>6, FarmSteps, PauseSteps

LEMMA SavedClaimsStep ==
  ASSUME IsFiniteSet(RunIds), ClaimsInv, ClaimsHold', [FarmNext]_farmVars
  PROVE  SavedClaims'
<1>1. FarmInv /\ ScannerIsIdle /\ SavedClaims
  BY DEF ClaimsInv
<1>2. CASE saved' = Snapshot'
  <2>1. saved'.tiles = tiles' /\ saved'.fills = fills'
    BY <1>2 DEF Snapshot
  <2>2. QED
    BY <2>1 DEF ClaimsHold, SavedClaims
<1>3. CASE UNCHANGED saved /\ HolderStep
  <2>1. ASSUME NEW n \in Runners, Working(n)'
        PROVE  ClaimHolds(saved'.tiles[runners'[n].run], saved'.fills[runners'[n].run],
                          runners'[n].attempt, runners'[n].gen)
    BY <1>1, <1>3, <2>1 DEF HolderStep, SavedClaims
  <2>2. ASSUME NEW m \in reports'
        PROVE  ClaimHolds(saved'.tiles[m.run], saved'.fills[m.run], m.attempt, m.gen)
    BY <1>1, <1>3 DEF HolderStep, SavedClaims
  <2>3. QED
    BY <2>1, <2>2 DEF SavedClaims
<1>4. CASE RestartAll
  <2>1. UNCHANGED <<runners, saved>> /\ reports' \subseteq reports
    BY <1>4 DEF RestartAll, Restart
  <2>2. QED
    BY <1>1, <2>1 DEF SavedClaims, Working
<1>5. QED
  BY <1>1, <1>2, <1>3, <1>4, SavedOrHeld

LEMMA FarmClaimsStep ==
  ASSUME ~ControlPlane, IsFiniteSet(RunIds), ClaimsInv, [FarmNext]_farmVars
  PROVE  ClaimsHold'
<1>1. FarmInv /\ ClaimsHold /\ SavedClaims
  BY DEF ClaimsInv
<1>2. /\ PauseTypeOK /\ TypeOK /\ ControlTypeOK /\ FinishedMatchesStatus
      /\ NoStrandedRun
  BY <1>1 DEF FarmInv, PauseTypeOK, Whole
<1>3. CASE [Next]_vars
  BY <1>1, <1>2, <1>3, ClaimsHoldStep
<1>4. CASE PauseMove
  BY <1>1, <1>2, <1>4, PauseMoveEffect, MovedClaimsHold
<1>5. CASE FarmTiles
  BY <1>1, <1>2, <1>5, ClaimsByTiles DEF FarmTiles
<1>6. CASE RestartAll
  <2>1. /\ UNCHANGED runners /\ reports' \subseteq reports
        /\ fills' = saved.fills
        /\ tiles' = [r \in RunIds |-> saved.tiles[r]]
    BY <1>6 DEF RestartAll, Restart, Restored
  <2>2. tiles' = saved.tiles
    BY <1>1, <2>1 DEF FarmInv, SavedWhole, WholeState
  <2>3. QED
    BY <1>1, <2>1, <2>2 DEF SavedClaims, ClaimsHold, Working
<1>7. QED
  BY <1>2, <1>3, <1>4, <1>5, <1>6, FarmSteps, PauseSteps

\* Without the control plane, whatever the wall forgets in a restart and however
\* long runners outlive their generations: nobody plays or reports a generation
\* that a lease or a resume still hands out, or one that was not handed out.
THEOREM ClaimsOverRestarts ==
  ASSUME ~ControlPlane, IsFiniteSet(RunIds)
  PROVE  FarmSpec => [](NoClaimAhead /\ PausedIsSettled)
<1>1. FarmInit => ClaimsInv
  <2> SUFFICES ASSUME FarmInit
               PROVE  ClaimsInv
    OBVIOUS
  <2>1. FarmInv /\ Init
    BY FarmInvInit DEF FarmInit, PauseInit
  <2>2. holder = NoRunner /\ reports = {} /\ \A n \in Runners : ~Working(n)
    BY <2>1 DEF Init, Working, IdleRunner
  <2>3. QED
    BY <2>1, <2>2, WallAssumption DEF ClaimsInv, ScannerIsIdle, ClaimsHold, SavedClaims
<1>2. ASSUME ClaimsInv, [FarmNext]_farmVars
      PROVE  ClaimsInv'
  <2>1. FarmInv' /\ ScannerIsIdle'
    BY <1>2, FarmInvStep, FarmScanner DEF ClaimsInv
  <2>2. ClaimsHold'
    BY <1>2, FarmClaimsStep
  <2>3. SavedClaims'
    BY <1>2, <2>2, SavedClaimsStep
  <2>4. QED
    BY <2>1, <2>2, <2>3 DEF ClaimsInv
<1>3. ClaimsInv => NoClaimAhead /\ PausedIsSettled
  BY ClaimsHoldIsEnough
     DEF ClaimsInv, ClaimsHold, ClaimHolds, PausedIsSettled, Claims, Paused, Known
<1>4. QED
  BY <1>1, <1>2, <1>3, PTL DEF FarmSpec

-----------------------------------------------------------------------------
(* Names over restarts.  The snapshot a restart goes back to must have handed *)
(* out what runners still play; records and force-ends go with the process.   *)

SavedGiven ==
    /\ \A r \in RunIds : Known(saved.tiles[r]) => saved.fills[r] > 0
    /\ \A n \in Runners : Working(n) =>
         GivenOut(saved.tiles[runners[n].run], saved.fills[runners[n].run])

NamesInv == /\ FarmInv /\ ScannerIsIdle
            /\ KnownAreSubmitted /\ NamedIsHandedOut /\ SavedGiven

\* A pause takes no run that is out, so a run that is out or was played stays
\* handed out over it, and a resume brings back what was paused.
LEMMA MovesKeepNames ==
  ASSUME ~ControlPlane, PauseTypeOK, FinishedMatchesStatus, IsFiniteSet(RunIds), PauseMove
  PROVE  /\ \A r \in RunIds : HandedOut(r) => HandedOut(r)'
         /\ KnownAreSubmitted => KnownAreSubmitted'
         /\ UNCHANGED <<runners, late>>
<1>1. UNCHANGED <<fills, runners, late>> /\ TilesMoved
  BY PauseMoveEffect DEF PauseMoved
<1>2. ASSUME NEW r \in RunIds
      PROVE  /\ Known(tiles'[r]) => Known(tiles[r])
             /\ HandedOut(r) => HandedOut(r)'
  <2>1. TileMove(tiles[r], tiles'[r]) /\ fills'[r] = fills[r]
    BY <1>1 DEF TilesMoved
  <2>2. Known(tiles'[r]) => Known(tiles[r])
    BY <2>1 DEF TileMove, Marked, Parked, Returned, Paused, Known
  <2>3. HandedOut(r) => HandedOut(r)'
    BY <2>1
       DEF TileMove, Marked, Parked, Returned, SameCounters, Paused, Known, HandedOut,
           GivenOut
  <2>4. QED
    BY <2>2, <2>3
<1>3. QED
  BY <1>1, <1>2 DEF KnownAreSubmitted

LEMMA FarmNames ==
  ASSUME ~ControlPlane, IsFiniteSet(RunIds), NamesInv, [FarmNext]_farmVars, ~RestartAll
  PROVE  KnownAreSubmitted' /\ NamedIsHandedOut'
<1>1. /\ PauseTypeOK /\ TypeOK /\ ControlTypeOK /\ FinishedMatchesStatus
      /\ NoStrandedRun /\ KnownAreSubmitted /\ NamedIsHandedOut
  BY DEF NamesInv, FarmInv, PauseTypeOK, Whole
<1>2. /\ KnownAreSubmitted' /\ QueueNames
      /\ \A r \in RunIds : HandedOut(r) => HandedOut(r)'
  <2>1. CASE [Next]_vars
    BY <1>1, <2>1, TileSteps, SubmittedStays, HandedOutStays, WallNames
  <2>2. CASE PauseMove
    BY <1>1, <2>2, MovesKeepNames, SameNames
  <2>3. CASE FarmTiles
    BY <1>1, <2>3, SubmittedStays, HandedOutStays, SameNames DEF FarmTiles
  <2>4. QED
    BY <1>1, <2>1, <2>2, <2>3, FarmSteps, PauseSteps
<1>3. RecordsName
  <2>1. UNCHANGED controlVars \/ NotedBeats \/ ControlAlone \/ Forces
    BY DEF FarmNext, PausePart, ControlPart, StorePart, Forces, farmVars
  <2>2. QED
    BY <1>1, <2>1, ControlNames
<1>4. QED
  BY <1>1, <1>2, <1>3, NamesStay

\* After a restart runners play on, and nobody else names a run.
LEMMA RestartNames ==
  ASSUME NamesInv, RestartAll
  PROVE  KnownAreSubmitted' /\ NamedIsHandedOut'
<1>1. /\ UNCHANGED runners /\ late' = {} /\ forceEnds' = {}
      /\ presence' = [n \in Runners |-> Unseen]
      /\ fills' = saved.fills
      /\ tiles' = [r \in RunIds |-> saved.tiles[r]]
  BY DEF RestartAll, Restart, Restored
<1>2. tiles' = saved.tiles
  BY <1>1 DEF NamesInv, FarmInv, SavedWhole, WholeState
<1>3. KnownAreSubmitted'
  BY <1>1, <1>2 DEF NamesInv, SavedGiven, KnownAreSubmitted
<1>4. ASSUME NEW n \in Runners, Working(n)'
      PROVE  GivenOut(tiles'[runners'[n].run], fills'[runners'[n].run])
  BY <1>1, <1>2, <1>4 DEF NamesInv, SavedGiven, Working
<1>5. NamedIsHandedOut'
  BY <1>1, <1>4, UnseenAssumption DEF NamedIsHandedOut, HandedOut
<1>6. QED
  BY <1>3, <1>5

LEMMA SavedGivenStep ==
  ASSUME IsFiniteSet(RunIds), NamesInv, KnownAreSubmitted', NamedIsHandedOut',
         [FarmNext]_farmVars
  PROVE  SavedGiven'
<1>1. FarmInv /\ ScannerIsIdle /\ SavedGiven
  BY DEF NamesInv
<1>2. CASE saved' = Snapshot'
  <2>1. saved'.tiles = tiles' /\ saved'.fills = fills'
    BY <1>2 DEF Snapshot
  <2>2. QED
    BY <2>1 DEF KnownAreSubmitted, NamedIsHandedOut, HandedOut, SavedGiven
<1>3. CASE UNCHANGED saved /\ HolderStep
  BY <1>1, <1>3 DEF HolderStep, SavedGiven
<1>4. CASE RestartAll
  <2>1. UNCHANGED <<runners, saved>>
    BY <1>4 DEF RestartAll, Restart
  <2>2. QED
    BY <1>1, <2>1 DEF SavedGiven, Working
<1>5. QED
  BY <1>1, <1>2, <1>3, <1>4, SavedOrHeld

\* The same over pauses, evictions and restarts without the control plane: no
\* force-end reaches a run that waits for its first worker.
THEOREM NeverGivenIsSparedInFarm ==
  ASSUME ~ControlPlane, IsFiniteSet(RunIds)
  PROVE  FarmSpec => NeverGivenStays
<1>1. FarmInit => NamesInv
  <2> SUFFICES ASSUME FarmInit
               PROVE  NamesInv
    OBVIOUS
  <2>1. FarmInv /\ Init /\ ControlInit
    BY FarmInvInit DEF FarmInit, PauseInit
  <2>2. GivenInv
    BY <2>1, GivenInvInit DEF WorkerInit
  <2>3. holder = NoRunner /\ \A n \in Runners : ~Working(n)
    BY <2>1 DEF Init, Working, IdleRunner
  <2>4. saved.tiles = tiles /\ saved.fills = fills
    BY DEF FarmInit, Snapshot
  <2>5. QED
    BY <2>1, <2>2, <2>3, <2>4, WallAssumption
       DEF NamesInv, ScannerIsIdle, GivenInv, KnownAreSubmitted, SavedGiven
<1>2. ASSUME NamesInv, [FarmNext]_farmVars
      PROVE  NamesInv'
  <2>1. FarmInv' /\ ScannerIsIdle'
    BY <1>2, FarmInvStep, FarmScanner DEF NamesInv
  <2>2. KnownAreSubmitted' /\ NamedIsHandedOut'
    BY <1>2, FarmNames, RestartNames
  <2>3. SavedGiven'
    BY <1>2, <2>2, SavedGivenStep
  <2>4. QED
    BY <2>1, <2>2, <2>3 DEF NamesInv
<1>3. NamesInv /\ [FarmNext]_farmVars => [Spared]_workerVars
  BY NamedIsSpared DEF NamesInv, FarmInv, PauseTypeOK
<1>4. FarmSpec => [][Spared]_workerVars
  BY <1>1, <1>2, <1>3, PTL DEF FarmSpec
<1>5. QED
  BY <1>4 DEF NeverGivenStays, Spared

-----------------------------------------------------------------------------
(* What Resume needs.                                                        *)

\* A paused run is a root of the lineage that deletions and evictions spare.
LEMMA PausedInLineage ==
  ASSUME NEW r \in RunIds, Paused(tiles[r])
  PROVE  r \in Lineage
  BY LineageIs DEF LineageOf, LineageBy, Roots, Paused

LEMMA PausedTileStep ==
  ASSUME TypeOK, FinishedMatchesStatus, NEW r \in RunIds, Paused(tiles[r]), TileStep(r),
         fills'[r] = fills[r]
  PROVE  tiles'[r] = tiles[r]
<1>1. ~Live(tiles[r])
  BY DEF FinishedMatchesStatus, Live, Paused
<1>2. fills[r] \in Nat
  BY DEF TypeOK
<1>3. QED
  BY <1>1, <1>2, PausedInLineage
     DEF TileStep, Kept, Filled, Removed, Flagged, Active, SettledNow

\* A pause survives everything but a submission of its id and a restart: the run
\* that Resume brings back is there, in the generation it was paused in.
THEOREM PausedRunKept == ASSUME IsFiniteSet(RunIds) PROVE FarmSpec => PausedIsKept
<1> DEFINE StillThere == \A r \in RunIds :
                      /\ Paused(tiles[r])
                      /\ fills'[r] = fills[r]
                      /\ restarts' = restarts
                      => Known(tiles'[r]) /\ tiles'[r].attempts = tiles[r].attempts
<1>1. ASSUME FarmInv, [FarmNext]_farmVars
      PROVE  StillThere
  <2> SUFFICES ASSUME NEW r \in RunIds, Paused(tiles[r]), fills'[r] = fills[r],
                      restarts' = restarts
               PROVE  Known(tiles'[r]) /\ tiles'[r].attempts = tiles[r].attempts
    OBVIOUS
  <2>1. /\ PauseTypeOK /\ TypeOK /\ ControlTypeOK /\ FinishedMatchesStatus
        /\ NoStrandedRun
    BY <1>1 DEF FarmInv, PauseTypeOK, Whole
  <2>2. CASE TileStep(r)
    BY <2>1, <2>2, PausedTileStep DEF Paused, Known
  <2>3. CASE [PauseNext]_pvars
    <3>1. CASE [Next]_vars
      BY <2>1, <2>2, <3>1, TileSteps
    <3>2. CASE PauseMove
      <4>1. TileMove(tiles[r], tiles'[r])
        BY <2>1, <3>2, PauseMoveEffect DEF PauseMoved, TilesMoved
      <4>2. QED
        BY <4>1 DEF TileMove, Marked, Parked, Returned, SameCounters, Paused, Known
    <3>3. QED
      BY <2>3, <3>1, <3>2, PauseSteps
  <2>4. ~RestartAll
    <3>1. ASSUME RestartAll
          PROVE  FALSE
      <4>1. restarts < MaxRestarts /\ restarts' = restarts + 1
        BY <3>1 DEF RestartAll, Restart
      <4>2. restarts \in Nat
        BY <1>1 DEF FarmInv
      <4>3. QED
        BY <4>1, <4>2
    <3>2. QED
      BY <3>1
  <2>5. QED
    BY <1>1, <2>1, <2>2, <2>3, <2>4, FarmSteps DEF FarmTiles
<1>2. FarmInv /\ [FarmNext]_farmVars => [StillThere]_farmVars
  BY <1>1
<1>3. FarmSpec => [][StillThere]_farmVars
  BY <1>2, FarmInvariant, PTL DEF FarmSpec
<1>4. QED
  BY <1>3 DEF PausedIsKept
=============================================================================
