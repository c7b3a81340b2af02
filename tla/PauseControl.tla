---------------------------- MODULE PauseControl ----------------------------
(***************************************************************************)
(* Pausing runs: the operator's Pause and Resume, the automatic pause after *)
(* repeated failures (cmd/pokewall/pause_control.go) and the failure        *)
(* circuit with its canary (cmd/pokewall/failure_circuit.go), on top of     *)
(* Wall.                                                                    *)
(*                                                                          *)
(* pauseHTTPHandler wraps handleFinish: it takes a snapshot of the run, lets *)
(* the finish settle, and then, in sections of its own, decides whether the *)
(* run is to be paused.  `wraps' holds the finish requests in the wrapper;  *)
(* whatever else the wall does may come between two of its sections.  With   *)
(* the control plane around it the wrapper also has the report, as the       *)
(* control plane parsed it and checked it against the flag before.           *)
(*                                                                          *)
(* All failures belong to one family, so there is one circuit key; runners  *)
(* that open a circuit report their build, so a circuit with a key has a    *)
(* revision.  Whether a fingerprint was seen often enough is decided from   *)
(* the database (external) and is a choice here.                            *)
(***************************************************************************)
EXTENDS Wall

CONSTANT ControlPlane    \* whether the PostgreSQL control plane is configured

ASSUME ControlPlaneAssumption == ControlPlane \in BOOLEAN

VARIABLES
    intents,    \* pauseIntents
    failedOnce, \* repeatedFailures: the runs with a failure on record
    forgets,    \* deletions from these two maps still due after w.mu is released
    wraps,      \* finish requests inside pauseHTTPHandler
    stopped     \* history: runs whose user cancel was accepted

pauseVars == <<intents, failedOnce, forgets, wraps, stopped>>
pvars == <<vars, pauseVars>>

Steps == {"inner", "intent", "claimed", "canary", "circuit", "repeat", "again"}

\* errors, profile and canary are the fields of pauseFinishSnapshot that the
\* wrapper uses ("none": there was no tile); attempts is what
\* maybeAutoPauseRepeatedFailure remembers.
Wraps == [report : Reports, step : Steps, errors : Nat,
          profile : Profiles \cup {"none"}, canary : BOOLEAN, attempts : Nat]

PauseTypeOK ==
    /\ TypeOK
    /\ intents \subseteq RunIds
    /\ failedOnce \subseteq RunIds
    /\ forgets \subseteq RunIds \X {"intent", "failure"}
    /\ wraps \subseteq Wraps
    /\ stopped \subseteq RunIds

PauseInit ==
    /\ Init
    /\ intents = {}
    /\ failedOnce = {}
    /\ forgets = {}
    /\ wraps = {}
    /\ stopped = {}

Paused(t) == t.status = "paused"

\* removeID, of all the ids at once: what is left keeps its order.
RemoveIds(q, ids) ==
    LET kept[i \in 0..Len(q)] ==
          IF i = 0 THEN <<>>
          ELSE IF q[i] \in ids THEN kept[i - 1]
          ELSE Append(kept[i - 1], q[i])
    IN kept[Len(q)]

RemoveId(q, r) == RemoveIds(q, {r})

-----------------------------------------------------------------------------
(* Operator requests.                                                        *)

\* handlePause on a queued run takes it out of the queue at once ...
PauseQueued(r) ==
    /\ Unlocked
    /\ tiles[r].status = "queued"
    /\ queue' = RemoveId(queue, r)
    /\ tiles' = [tiles EXCEPT ![r].status = "paused", ![r].finished = TRUE]
    /\ cancel' = cancel \ {r}
    /\ stale' = stale \ {r}
    /\ forgets' = forgets \cup {<<r, "intent">>}
    /\ UNCHANGED <<fills, parent, scanVars, netVars, intents, failedOnce, wraps,
                   stopped>>

\* ... and stops an active one through the cancel flag.
PauseActive(r) ==
    /\ Unlocked
    /\ Live(tiles[r])
    /\ tiles[r].status # "queued"
    /\ intents' = intents \cup {r}
    /\ cancel' = cancel \cup {r}
    /\ UNCHANGED <<tiles, queue, stale, fills, parent, scanVars, netVars,
                   failedOnce, forgets, wraps, stopped>>

\* Mutant of Requeued: an error and a loss are given back instead of all of them.
RequeuedWithOneMore(t) ==
    [t EXCEPT !.status = "queued", !.finished = FALSE, !.reason = "",
              !.errorAttempts = @ - 1, !.lossRecoveries = @ - 1]

\* A paused run goes back to the queue with fresh budgets.
Requeued(t) ==
    [t EXCEPT !.status = "queued", !.finished = FALSE, !.reason = "",
              !.errorAttempts = 0, !.lossRecoveries = 0, !.recoveryAttempts = 0]

\* handleResume
Resume(r) ==
    /\ Unlocked
    /\ Paused(tiles[r])
    /\ tiles[r].attempts <= MaxGenerations
    /\ queue' = Append(RemoveId(queue, r), r)
    /\ tiles' = [tiles EXCEPT ![r] = NoCircuit(Requeued(@))]
    /\ cancel' = cancel \ {r}
    /\ stale' = stale \ {r}
    /\ forgets' = forgets \cup {<<r, "intent">>, <<r, "failure">>}
    /\ stopped' = stopped \ {r}
    /\ UNCHANGED <<fills, parent, scanVars, netVars, intents, failedOnce, wraps>>

\* cancelPausedRun
CancelPaused(r) ==
    /\ Unlocked
    /\ Paused(tiles[r])
    /\ queue' = RemoveId(queue, r)
    /\ tiles' = [tiles EXCEPT ![r].status = "done", ![r].reason = "cancelled"]
    /\ cancel' = cancel \ {r}
    /\ forgets' = forgets \cup {<<r, "intent">>, <<r, "failure">>}
    /\ stopped' = stopped \cup {r}
    /\ UNCHANGED <<stale, fills, parent, scanVars, netVars, intents, failedOnce,
                   wraps>>

\* pauseIntents.Delete and clearFailureStreak run after w.mu is released.
Forget(f) ==
    /\ f \in forgets
    /\ forgets' = forgets \ {f}
    /\ intents' = IF f[2] = "intent" THEN intents \ {f[1]} ELSE intents
    /\ failedOnce' = IF f[2] = "failure" THEN failedOnce \ {f[1]} ELSE failedOnce
    /\ UNCHANGED <<vars, wraps, stopped>>

-----------------------------------------------------------------------------
(* pauseHTTPHandler around a finish.                                         *)

Request(m) == <<m.run, m.attempt, m.gen, m.version>>

\* The wrapper's record of a finish that is still with handleFinish.
Inner(m) == {x \in wraps : x.step = "inner" /\ Request(x.report) = Request(m)}

\* controlPlaneHTTPHandler's own check of the flag, then the snapshot.
WrapFinish(m) ==
    /\ Unlocked
    /\ ~m.checked
    /\ Inner(m) = {}
    /\ LET t == tiles[m.run]
       IN wraps' = wraps \cup
            {[report |-> IF ControlPlane THEN CheckedReport(m) ELSE m,
              step |-> "inner", errors |-> t.errorAttempts,
              profile |-> IF Known(t) THEN t.profile ELSE "none",
              canary |-> t.canary, attempts |-> 0]}
    /\ UNCHANGED <<vars, intents, failedOnce, forgets, stopped>>

\* handleFinish checks the flag again, on the report as it was sent.
WrapCheckFlag(m) ==
    /\ Inner(m) # {}
    /\ FinishCheckFlag(m)
    /\ UNCHANGED pauseVars

To(x, step) == wraps' = (wraps \ {x}) \cup {[x EXCEPT !.step = step]}

PassedOn(m, step) ==
    wraps' = (wraps \ Inner(m)) \cup {[x EXCEPT !.step = step] : x \in Inner(m)}

Dropped(m) == wraps' = wraps \ Inner(m)

\* Without the control plane a finish that settled is still answered 500 when
\* its dump cannot be written.
WrapSettle(m) ==
    /\ FinishSettle(m)
    /\ PassedOn(m, "intent") \/ (~ControlPlane /\ Dropped(m))
    /\ UNCHANGED <<intents, failedOnce, forgets, stopped>>

\* A refused finish leaves the wrapper; a duplicate of the terminal report is
\* answered 200 and goes on like a settled one.
WrapRefused(m) ==
    /\ FinishRefused(m)
    /\ \/ Dropped(m)
       \/ /\ tiles[m.run].finished
          /\ tiles[m.run].reason = m.outcome.reason
          /\ PassedOn(m, "intent")
    /\ UNCHANGED <<intents, failedOnce, forgets, stopped>>

\* finalizeRequestedPause: LoadAndDelete takes the intent without the mutex.
ClaimIntent(x) ==
    /\ x \in wraps
    /\ x.step = "intent"
    /\ LET r == x.report.run
       IN IF r \in intents
          THEN /\ intents' = intents \ {r}
               /\ To(x, "claimed")
          ELSE /\ To(x, "canary")
               /\ UNCHANGED intents
    /\ UNCHANGED <<vars, failedOnce, forgets, stopped>>

\* A run that settled is paused; a rejected finish does not lose the request.
FinalizePause(x) ==
    /\ Unlocked
    /\ x \in wraps
    /\ x.step = "claimed"
    /\ LET r == x.report.run
       IN IF tiles[r].finished
          THEN /\ tiles' = [tiles EXCEPT ![r].status = "paused"]
               /\ wraps' = wraps \ {x}
               /\ UNCHANGED intents
          ELSE /\ intents' = intents \cup {r}
               /\ To(x, "canary")
               /\ UNCHANGED tiles
    /\ UNCHANGED <<queue, cancel, stale, fills, parent, scanVars, netVars,
                   failedOnce, forgets, stopped>>

-----------------------------------------------------------------------------
(* The failure circuit.                                                      *)

Peers(r) == {p \in RunIds \ {r} : Paused(tiles[p])
                                  /\ tiles[p].circuit # NoRevision}

\* circuitCanaryAdvanced and releaseCircuitPeers: the peers go back to the
\* queue in the order they were submitted in.
ReleasePeers(r) ==
    /\ \E order \in [1..Cardinality(Peers(r)) -> Peers(r)] :
         /\ \A p \in Peers(r) : \E i \in DOMAIN order : order[i] = p
         /\ queue' = RemoveIds(queue, Peers(r)) \o order
    /\ tiles' = [p \in RunIds |->
                   IF p \in Peers(r) THEN NoCircuit(Requeued(tiles[p]))
                   ELSE IF p = r THEN NoCircuit(tiles[p])
                   ELSE tiles[p]]
    /\ cancel' = cancel \ Peers(r)
    /\ stale' = stale \ Peers(r)

CheckCanary(x) ==
    /\ Unlocked
    /\ x \in wraps
    /\ x.step = "canary"
    /\ \/ /\ ControlPlane
          /\ x.canary
          /\ ReleasePeers(x.report.run)
       \/ /\ ~ControlPlane \/ ~x.canary \/ x.report.outcome.reason # "done"
          /\ UNCHANGED <<tiles, queue, cancel, stale>>
    /\ To(x, "circuit")
    /\ UNCHANGED <<fills, parent, scanVars, netVars, intents, failedOnce, forgets,
                   stopped>>

\* failureCircuitDecision: only a failure that ended the attempt is eligible.
Eligible(outcome) == outcome.reason \in {"error", "failed", "stuck"}

\* Neither an unknown run nor a resilient one is paused for failing again.
AutoPausable(x) == x.profile \in {"default", "strict"}

\* pauseForFailureCircuit: advice for a resilient run, a pause of any other.
OpenCircuit(x) ==
    LET r == x.report.run
        t == tiles[r]
        marked == [t EXCEPT !.circuit = x.report.version, !.canary = FALSE]
    IN /\ Unlocked
       /\ x \in wraps
       /\ x.step = "circuit"
       /\ ControlPlane /\ Eligible(x.report.outcome)
       /\ \/ /\ x.profile = "none"
             /\ To(x, "repeat")
             /\ UNCHANGED <<tiles, queue, cancel, stale>>
          \/ /\ x.profile = "resilient"
             /\ tiles' = IF Live(t) THEN [tiles EXCEPT ![r] = marked] ELSE tiles
             /\ stale' = IF Live(t) THEN stale \ {r} ELSE stale
             /\ wraps' = wraps \ {x}
             /\ UNCHANGED <<queue, cancel>>
          \/ /\ AutoPausable(x)
             /\ Known(t) => t.endless
             /\ To(x, "repeat")
             /\ UNCHANGED <<tiles, queue, cancel, stale>>
          \/ /\ AutoPausable(x)
             /\ Known(t) /\ ~t.endless
             /\ wraps' = wraps \ {x}
             /\ IF Paused(t)
                THEN UNCHANGED <<tiles, queue, cancel, stale>>
                ELSE /\ queue' = RemoveId(queue, r)
                     /\ tiles' = [tiles EXCEPT ![r] =
                                    [marked EXCEPT
                                       !.status = "paused", !.finished = TRUE,
                                       !.reason = x.report.outcome.reason]]
                     /\ cancel' = cancel \ {r}
                     /\ stale' = stale \ {r}
       /\ UNCHANGED <<fills, parent, scanVars, netVars, intents, failedOnce,
                      forgets, stopped>>

CircuitStaysClosed(x) ==
    /\ x \in wraps
    /\ x.step = "circuit"
    /\ To(x, "repeat")
    /\ UNCHANGED <<vars, intents, failedOnce, forgets, stopped>>

\* maybeResumeCircuitCanary, once the issue is fixed: one paused run is tried on
\* a fleet without the failing build.
FleetReady(broken, visible) ==
    /\ visible # {}
    /\ \A n \in visible : Version[n] \notin {NoRevision, broken}

\* Mutant of CanaryOut: a canary that waits in the queue is overlooked.
CanaryPlaying ==
    \E p \in RunIds : tiles[p].canary /\ tiles[p].status \in {"leased", "running"}

\* A canary is still out.
CanaryOut == \E p \in RunIds : tiles[p].canary /\ Live(tiles[p])

ReleaseCanary(r) ==
    /\ Unlocked
    /\ Paused(tiles[r])
    /\ tiles[r].circuit # NoRevision
    /\ tiles[r].attempts <= MaxGenerations
    /\ ~CanaryOut
    /\ \E visible \in SUBSET Runners : FleetReady(tiles[r].circuit, visible)
    /\ queue' = Append(RemoveId(queue, r), r)
    /\ tiles' = [tiles EXCEPT ![r] = [Requeued(@) EXCEPT !.canary = TRUE]]
    /\ cancel' = cancel \ {r}
    /\ stale' = stale \ {r}
    /\ forgets' = forgets \cup {<<r, "failure">>}
    /\ UNCHANGED <<fills, parent, scanVars, netVars, intents, failedOnce, wraps,
                   stopped>>

-----------------------------------------------------------------------------
(* maybeAutoPauseRepeatedFailure.                                            *)

ErrorRetry(x) ==
    LET t == tiles[x.report.run]
    IN t.errorAttempts > x.errors /\ t.status = "queued"

\* Its first section and the streak: the second failure with the same
\* fingerprint reaches the threshold.
NoteFailure(x) ==
    LET r == x.report.run
    IN /\ Unlocked
       /\ x \in wraps
       /\ x.step = "repeat"
       /\ IF AutoPausable(x) /\ ErrorRetry(x)
          THEN /\ failedOnce' = failedOnce \cup {r}
               /\ \/ wraps' = wraps \ {x}
                  \/ /\ r \in failedOnce
                     /\ wraps' = (wraps \ {x}) \cup
                          {[x EXCEPT !.step = "again",
                                     !.attempts = tiles[r].attempts]}
          ELSE /\ wraps' = wraps \ {x}
               /\ failedOnce' = IF AutoPausable(x) /\ tiles[r].status = "done"
                                THEN failedOnce \ {r}
                                ELSE failedOnce
       /\ UNCHANGED <<vars, intents, forgets, stopped>>

\* The retry it saw is still in the queue.
StillQueued(x) ==
    /\ tiles[x.report.run].status = "queued"
    /\ tiles[x.report.run].attempts = x.attempts

\* Its second section checks again before it pauses the retry.  Without the
\* control plane the wrapper has no report, hence no revision.
AutoPause(x) ==
    LET r == x.report.run
    IN /\ Unlocked
       /\ x \in wraps
       /\ x.step = "again"
       /\ wraps' = wraps \ {x}
       /\ IF StillQueued(x)
          THEN /\ queue' = RemoveId(queue, r)
               /\ tiles' = [tiles EXCEPT ![r] =
                              [@ EXCEPT !.status = "paused", !.finished = TRUE,
                                        !.reason = "error", !.canary = FALSE,
                                        !.circuit = IF ControlPlane
                                                    THEN x.report.version
                                                    ELSE NoRevision]]
               /\ stale' = stale \ {r}
          ELSE UNCHANGED <<queue, tiles, stale>>
       /\ UNCHANGED <<cancel, fills, parent, scanVars, netVars, intents,
                      failedOnce, forgets, stopped>>

-----------------------------------------------------------------------------
\* The wall's other actions, and what they do to the history.
OperatorOnWall ==
    \/ \E r \in Submittable, spec \in SubmitSpecs :
         Submit(r, spec) /\ stopped' = stopped \ {r}
    \/ \E r \in RunIds :
         \/ "cancel" \in Requests /\ Cancel(r) /\ stopped' = stopped \cup {r}
         \/ "flag" \in Requests /\ Flag(r) /\ stopped' = stopped \ {r}
         \/ "delete" \in Requests /\ Delete(r) /\ stopped' = stopped \ {r}

WallGoesOn ==
    \/ \E n \in Runners : Runner(n)
    \/ \E r \in RunIds : LateHeartbeat(r) \/ GoQuiet(r) \/ Reaper(r)
    \/ \E m \in reports : Inner(m) = {} /\ LoseReport(m)

PauseOperator(r) ==
    \/ "pause" \in Requests /\ (PauseQueued(r) \/ PauseActive(r))
    \/ Resume(r)
    \/ "cancel" \in Requests /\ CancelPaused(r)

WrapInner(m) ==
    WrapFinish(m) \/ WrapCheckFlag(m) \/ WrapSettle(m) \/ WrapRefused(m)

WrapTail(x) ==
    \/ ClaimIntent(x) \/ FinalizePause(x) \/ CheckCanary(x) \/ OpenCircuit(x)
    \/ CircuitStaysClosed(x) \/ NoteFailure(x) \/ AutoPause(x)

PauseNext ==
    \/ OperatorOnWall /\ UNCHANGED <<intents, failedOnce, forgets, wraps>>
    \/ WallGoesOn /\ UNCHANGED pauseVars
    \/ \E r \in RunIds : PauseOperator(r) \/ ReleaseCanary(r)
    \/ \E f \in forgets : Forget(f)
    \/ \E m \in reports : WrapInner(m)
    \/ \E x \in wraps : WrapTail(x)

PauseSpec == PauseInit /\ [][PauseNext]_pvars

-----------------------------------------------------------------------------
(* Safety.                                                                   *)

\* "Paused is a settled generation" (maybeAutoPauseRepeatedFailure): nobody
\* plays or reports the attempt that Resume will hand out next.
PausedIsSettled ==
    \A c \in Claims : Paused(tiles[c[1]]) => c[2] # CurrentAttempt(tiles[c[1]])

\* A fix is tried on one run of a circuit at a time, whatever reports, resumes
\* and releases do with the runs that wait.
OneCanary == Cardinality({r \in RunIds : tiles[r].canary /\ Live(tiles[r])}) <= 1

\* "A user cancellation is never retried" (settleRun): once a cancel is
\* accepted the run is not handed out again, unless the operator resumes, flags
\* or submits it.
CancelledNotHandedOut ==
    [][\A r \in stopped :
         tiles'[r].status = "leased" => tiles[r].status = "leased"]_pvars

-----------------------------------------------------------------------------
(* Liveness.                                                                 *)

Concludes == SF_pvars(\E x \in wraps : WrapTail(x))

Answers == SF_pvars(\E m \in reports : WrapInner(m))

PauseFairSpec ==
    PauseSpec /\ Polls /\ Beats /\ Plays /\ Answers /\ Reaps /\ Concludes

\* The runners poll for leases and what they play ends, whatever else happens
\* or does not.
PollingSpec == PauseSpec /\ Polls /\ Plays

\* A resilient run with an open circuit stays in the queue for "a newly
\* deployed runner": a runner of another build gets it, past the scans of the
\* old build that skip it.
CircuitWaitsForBuild ==
    \A r \in RunIds :
        /\ tiles[r].status = "queued"
        /\ \E n \in Runners : Version[n] \notin {NoRevision, tiles[r].circuit}
        ~> tiles[r].status # "queued"

\* "The finish wrapper converts the resulting settled cancellation into a
\* resumable paused run" (handlePause).
PauseTakesEffect ==
    \A r \in RunIds : r \in intents ~> Paused(tiles[r]) \/ r \notin intents
=============================================================================
