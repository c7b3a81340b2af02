------------------------------ MODULE RunTile ------------------------------
(***************************************************************************)
(* The record the wall keeps for one run (Tile, cmd/pokewall/wall.go) and   *)
(* the pure part of the functions that rewrite it: applySpec, settleRun,    *)
(* noteRecoveryProgressLocked, the operator-flag rewrite and the circuit    *)
(* gate of the lease.  Nothing here has state; Wall.tla applies these       *)
(* operators under the wall's mutex.                                        *)
(*                                                                          *)
(* Live telemetry (frame, map, party, planner text, statistics, activity)   *)
(* is left out: no scheduling decision reads it.  Detail is kept only as    *)
(* far as operatorFlagFinish reads it: whether it is empty ("bare").        *)
(***************************************************************************)
EXTENDS Naturals

CONSTANTS
    RunIds,             \* names a run can have, successors included
    NoRun,              \* the empty run id
    Revisions,          \* runner builds that report a version
    NoRevision,         \* the empty version string
    MaxAttempts,        \* maxAttempts: genuine errors before a run is terminal
    MaxLostRecoveries   \* maxLostRecoveries: worker losses before terminal

ASSUME RunTileAssumption ==
    /\ NoRun \notin RunIds
    /\ NoRevision \notin Revisions
    /\ MaxAttempts \in Nat \ {0}
    /\ MaxLostRecoveries \in Nat \ {0}

Statuses == {"absent", "queued", "leased", "running", "done", "paused"}

Profiles == {"default", "strict", "resilient"}

\* The settings of a submitted spec that scheduling depends on.
Specs == [profile : Profiles, endless : BOOLEAN]

\* What a generation can end with: the reasons a runner reports, and the two
\* the wall itself uses ("lost" by the reaper, "cancelled" by the queue scan).
Reasons == {"done", "error", "failed", "stuck", "budget", "drained",
            "cancelled", "lost"}

\* "bare": the detail is empty; "transport": the failure class is
\* inference_transport; "advanced": ProgressFinal is past the frontier.
Outcomes == [reason : Reasons, bare : BOOLEAN, transport : BOOLEAN,
             advanced : BOOLEAN]

Tiles == [status : Statuses,
          finished : BOOLEAN,
          attempts : Nat,
          errorAttempts : Nat,
          lossRecoveries : Nat,
          recoveryAttempts : Nat,
          flag : Nat,                     \* OperatorFlagAttempt, 0: no flag
          reason : Reasons \cup {""},
          profile : Profiles,
          endless : BOOLEAN,
          resumeFrom : RunIds \cup {NoRun},
          circuit : Revisions \cup {NoRevision},   \* CircuitRevision
          canary : BOOLEAN]                        \* CircuitKind = "canary"

\* A run id the wall's tile map does not hold.
AbsentTile ==
    [status |-> "absent", finished |-> FALSE, attempts |-> 0,
     errorAttempts |-> 0, lossRecoveries |-> 0, recoveryAttempts |-> 0,
     flag |-> 0, reason |-> "", profile |-> "default", endless |-> FALSE,
     resumeFrom |-> NoRun, circuit |-> NoRevision, canary |-> FALSE]

Known(t) == t.status # "absent"
Live(t) == Known(t) /\ ~t.finished

\* The generation a lease hands out, and the only one a finish may settle.
CurrentAttempt(t) == t.attempts + 1

FlagApplies(t) == t.flag # 0 /\ t.flag = CurrentAttempt(t)

-----------------------------------------------------------------------------
(* applySpec: every counter, budget and mark of an earlier life is reset.   *)
FreshTile(spec, from) ==
    [AbsentTile EXCEPT !.status = "queued",
                       !.profile = spec.profile,
                       !.endless = spec.endless,
                       !.resumeFrom = from]

SpecOf(t) == [profile |-> t.profile, endless |-> t.endless]

(* enqueueNextLocked: the successor of a finished goal starts over, the      *)
(* successor of a failure resumes from its parent.                           *)
SuccessorTile(settled, id) ==
    FreshTile(SpecOf(settled), IF settled.reason = "done" THEN NoRun ELSE id)

\* Mutant of CircuitBlocks: any circuit blocks, whatever build asks.
CircuitBlocksEveryBuild(t, version) ==
    t.profile = "resilient" /\ t.circuit # NoRevision

(* resilientCircuitBlocksLease *)
CircuitBlocks(t, version) ==
    /\ t.profile = "resilient"
    /\ t.circuit # NoRevision
    /\ version \in {NoRevision, t.circuit}

(* clearTileCircuit *)
NoCircuit(t) == [t EXCEPT !.circuit = NoRevision, !.canary = FALSE]

(* noteRecoveryProgressLocked *)
NoteProgress(t, outcome) ==
    IF outcome.advanced /\ t.profile = "resilient"
    THEN [NoCircuit(t) EXCEPT !.recoveryAttempts = 0]
    ELSE t

(* operatorFlagFinish: the stop that the flag caused becomes "stuck".        *)
CancelStop(outcome) ==
    outcome.reason = "cancelled" \/ (outcome.reason = "budget" /\ outcome.bare)

FlagRewrite(t, attempt, outcome) ==
    IF Known(t) /\ t.flag # 0 /\ t.flag = attempt /\ CancelStop(outcome)
    THEN [outcome EXCEPT !.reason = "stuck", !.bare = FALSE]
    ELSE outcome

-----------------------------------------------------------------------------
(* settleRun, in the order of the code: count, classify, then either close   *)
(* the run or put it back in the queue.                                      *)
GoalRecoveryReasons == {"error", "failed", "stuck", "budget", "lost"}

InferenceTransport(t, outcome) ==
    /\ outcome.reason = "error"
    /\ outcome.transport
    /\ t.profile # "strict"

\* Mutant of Counted: a lost worker does not end a generation.
CountedUnlessLost(t, outcome) ==
    [t EXCEPT !.attempts = IF outcome.reason = "lost" THEN @ ELSE @ + 1,
              !.errorAttempts = IF outcome.reason = "error" THEN @ + 1 ELSE @,
              !.lossRecoveries = IF outcome.reason = "lost" THEN @ + 1 ELSE @]

Counted(t, outcome) ==
    LET goalRecovery == /\ t.profile = "resilient"
                        /\ outcome.reason \in GoalRecoveryReasons \ {"lost"}
                        /\ ~InferenceTransport(t, outcome)
    IN [t EXCEPT !.attempts = @ + 1,
                 !.errorAttempts = IF /\ outcome.reason = "error"
                                      /\ ~InferenceTransport(t, outcome)
                                   THEN @ + 1 ELSE @,
                 !.lossRecoveries = IF outcome.reason = "lost" THEN @ + 1 ELSE @,
                 !.recoveryAttempts = IF goalRecovery THEN @ + 1 ELSE @]

\* Mutant of CancelApplies: the cancel that a flag set counts as a user's.
CancelIgnoresFlag(t, cancelRequested) == cancelRequested

\* Whether a pending cancel ends this generation: a flag on it takes the stop over.
CancelApplies(t, cancelRequested) == cancelRequested /\ ~FlagApplies(t)

Recoverable(t, outcome) ==
    \/ outcome.reason \in {"error", "lost", "drained"}
    \/ t.profile = "resilient" /\ outcome.reason \in GoalRecoveryReasons

\* Mutant of BudgetSpent: one retry too many.
BudgetOverspent(counted, outcome) ==
    /\ counted.profile # "resilient"
    /\ \/ outcome.reason = "error" /\ counted.errorAttempts > MaxAttempts
       \/ outcome.reason = "lost" /\ counted.lossRecoveries > MaxLostRecoveries

BudgetSpent(counted, outcome) ==
    /\ counted.profile # "resilient"
    /\ \/ outcome.reason = "error" /\ counted.errorAttempts >= MaxAttempts
       \/ outcome.reason = "lost" /\ counted.lossRecoveries >= MaxLostRecoveries

Terminal(t, outcome, cancelRequested) ==
    \/ ~Recoverable(t, outcome)
    \/ BudgetSpent(Counted(t, outcome), outcome)
    \/ CancelApplies(t, cancelRequested)
    \/ outcome.reason \in {"cancelled", "done"}

Settled(t, outcome, cancelRequested) ==
    IF Terminal(t, outcome, cancelRequested)
    THEN [Counted(t, outcome) EXCEPT !.status = "done", !.finished = TRUE,
                                     !.reason = outcome.reason]
    ELSE [Counted(t, outcome) EXCEPT !.status = "queued", !.finished = FALSE,
                                     !.reason = ""]

\* Mutant of SpawnsSuccessor: a retry queues a successor as well.
SpawnsOnRetry(t, outcome, cancelRequested) ==
    t.endless /\ ~CancelApplies(t, cancelRequested)

\* Mutant of SpawnsSuccessor: a user's cancel does not end the chain.
SpawnsAfterCancel(t, outcome, cancelRequested) ==
    t.endless /\ Terminal(t, outcome, cancelRequested)

\* Whether settleRun also queues a successor: an endless run that ended for
\* any reason but a user's cancel.
SpawnsSuccessor(t, outcome, cancelRequested) ==
    /\ Terminal(t, outcome, cancelRequested)
    /\ t.endless
    /\ ~CancelApplies(t, cancelRequested)
=============================================================================
