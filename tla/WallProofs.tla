----------------------------- MODULE WallProofs -----------------------------
(***************************************************************************)
(* Theorems about Wall for every set of runs, runners, builds, specs and    *)
(* outcomes, every budget and every bound: type correctness, and the safety *)
(* of Wall, from one lemma: what a step may do to one tile (TileStep).      *)
(* Most theorems are a case analysis over its six cases.                    *)
(***************************************************************************)
EXTENDS Wall, SequenceTheorems, FiniteSetTheorems, WellFoundedInduction, TLAPS

-----------------------------------------------------------------------------
(* Induction and recursion over the numbers, without operator parameters.    *)

\* Induction, as a fact about sets.
LEMMA SetInduction ==
  ASSUME NEW T, 0 \in T, \A n \in Nat : n \in T => n + 1 \in T
  PROVE  Nat \subseteq T
<1> SUFFICES ASSUME NEW n \in Nat, n \notin T
             PROVE  FALSE
  OBVIOUS
<1> DEFINE U == Nat \ T
           less == {ss \in Nat \X Nat : ss[1] < ss[2]}
<1>1. PICK x \in U : \A y \in U : ~(<<y, x>> \in less)
  <2>1. IsWellFoundedOn(less, Nat) /\ U \subseteq Nat /\ U # {}
    BY NatLessThanWellFounded DEF OpToRel
  <2> HIDE DEF less, U
  <2>2. QED
    BY <2>1, WFMin
<1>2. x # 0 /\ x - 1 \in Nat /\ x - 1 < x
  BY <1>1
<1>3. <<x - 1, x>> \in less
  BY <1>2
<1>4. x - 1 \notin U
  BY <1>1, <1>3
<1>5. QED
  BY <1>2, <1>4

\* How to make a value of U from a number and a value of U.
IsStep(U, step) == step \in [Nat \X U -> U]

\* f is a sequence of values of U, each made by step from the one before.
Unfolds(f, U, init, step, n) ==
    /\ f \in [0..n -> U]
    /\ f[0] = init
    /\ \A i \in 1..n : f[i] = step[<<i, f[i - 1]>>]

\* Every such sequence exists: what a recursive function definition needs.
LEMMA Recursion ==
  ASSUME NEW U, NEW init \in U, NEW step, IsStep(U, step), NEW n \in Nat
  PROVE  \E f : Unfolds(f, U, init, step, n)
<1> USE DEF IsStep
<1> DEFINE Defined(k, f) == /\ f[0] = init
                            /\ \A i \in 1..k : f[i] = step[<<i, f[i - 1]>>]
           T == {k \in Nat : \E f \in [0..k -> U] : Defined(k, f)}
<1>1. 0 \in T
  <2>1. [i \in 0..0 |-> init] \in [0..0 -> U] /\ Defined(0, [i \in 0..0 |-> init])
    OBVIOUS
  <2>2. QED
    BY <2>1, Zenon
<1>2. ASSUME NEW k \in Nat, k \in T
      PROVE  k + 1 \in T
  <2>1. PICK f \in [0..k -> U] : Defined(k, f)
    BY <1>2
  <2> DEFINE g == [i \in 0..(k + 1) |-> IF i = k + 1 THEN step[<<k + 1, f[k]>>] ELSE f[i]]
  <2>2. step[<<k + 1, f[k]>>] \in U
    OBVIOUS
  <2>3. g \in [0..(k + 1) -> U]
    BY <2>2
  <2>4. g[0] = init
    BY <2>1
  <2>5. ASSUME NEW i \in 1..(k + 1)
        PROVE  g[i] = step[<<i, g[i - 1]>>]
    <3>1. CASE i = k + 1
      <4>1. i - 1 = k /\ k \in 0..(k + 1) /\ k + 1 \in 0..(k + 1) /\ k # k + 1
        BY <3>1
      <4>2. g[k] = f[k] /\ g[k + 1] = step[<<k + 1, f[k]>>]
        BY <4>1
      <4> HIDE DEF g
      <4>3. QED
        BY <3>1, <4>1, <4>2
    <3>2. CASE i # k + 1
      <4>1. i \in 1..k /\ i - 1 \in 0..k
        BY <3>2
      <4>2. g[i] = f[i] /\ g[i - 1] = f[i - 1]
        BY <4>1
      <4>3. QED
        BY <2>1, <4>1, <4>2
    <3>3. QED
      BY <3>1, <3>2
  <2> HIDE DEF g
  <2>6. Defined(k + 1, g)
    BY <2>4, <2>5
  <2> HIDE DEF Defined
  <2>7. k + 1 \in Nat
    OBVIOUS
  <2>8. QED
    BY <2>3, <2>6, <2>7, Zenon
<1>3. n \in T
  <2> HIDE DEF T
  <2>1. QED
    BY <1>1, <1>2, SetInduction
<1>4. QED
  BY <1>3 DEF Unfolds

-----------------------------------------------------------------------------
(* The pure operators of RunTile stay inside Tiles.                          *)

\* A write of the flag or of the status changes no other field of a tile.
LEMMA FlagFields ==
  ASSUME NEW t \in Tiles, NEW n
  PROVE  /\ [t EXCEPT !.flag = n].status = t.status
         /\ [t EXCEPT !.flag = n].attempts = t.attempts
  BY DEF Tiles

LEMMA StatusFields ==
  ASSUME NEW t \in Tiles, NEW s
  PROVE  /\ [t EXCEPT !.status = s].status = s
         /\ [t EXCEPT !.status = s].attempts = t.attempts
  BY DEF Tiles

LEMMA AbsentTileType == AbsentTile \in Tiles
  BY DEF AbsentTile, Tiles, Statuses, Profiles, Reasons

LEMMA FreshTileType ==
  ASSUME NEW spec \in Specs, NEW from \in RunIds \cup {NoRun}
  PROVE  FreshTile(spec, from) \in Tiles
  BY DEF FreshTile, AbsentTile, Tiles, Specs, Statuses, Profiles, Reasons

LEMMA SuccessorTileType ==
  ASSUME NEW t \in Tiles, NEW id \in RunIds
  PROVE  SuccessorTile(t, id) \in Tiles
<1>1. SpecOf(t) \in Specs
  BY DEF SpecOf, Specs, Tiles
<1>2. QED
  BY <1>1, FreshTileType DEF SuccessorTile

LEMMA NoteProgressType ==
  ASSUME NEW t \in Tiles, NEW o \in Outcomes
  PROVE  NoteProgress(t, o) \in Tiles
  BY DEF NoteProgress, NoCircuit, Tiles

\* What Counted adds to each counter, one equation per counter.
LEMMA CountedType ==
  ASSUME NEW t \in Tiles, NEW o \in Outcomes
  PROVE  Counted(t, o) \in Tiles
<1> DEFINE error == o.reason = "error" /\ ~InferenceTransport(t, o)
           goal == /\ t.profile = "resilient"
                   /\ o.reason \in GoalRecoveryReasons \ {"lost"}
                   /\ ~InferenceTransport(t, o)
           e == IF error THEN t.errorAttempts + 1 ELSE t.errorAttempts
           l == IF o.reason = "lost" THEN t.lossRecoveries + 1 ELSE t.lossRecoveries
           g == IF goal THEN t.recoveryAttempts + 1 ELSE t.recoveryAttempts
<1>1. Counted(t, o) = [t EXCEPT !.attempts = t.attempts + 1, !.errorAttempts = e,
                                !.lossRecoveries = l, !.recoveryAttempts = g]
  BY Zenon DEF Counted
<1>2. t.attempts \in Nat /\ t.errorAttempts \in Nat /\ t.lossRecoveries \in Nat
      /\ t.recoveryAttempts \in Nat
  BY DEF Tiles
<1> HIDE DEF error, goal
<1>3. t.attempts + 1 \in Nat /\ e \in Nat /\ l \in Nat /\ g \in Nat
  BY <1>2
<1> HIDE DEF e, l, g
<1>4. [t EXCEPT !.attempts = t.attempts + 1, !.errorAttempts = e,
                !.lossRecoveries = l, !.recoveryAttempts = g] \in Tiles
  BY <1>3 DEF Tiles
<1>5. QED
  BY <1>1, <1>4, Zenon

LEMMA SettledType ==
  ASSUME NEW t \in Tiles, NEW o \in Outcomes, NEW c \in BOOLEAN
  PROVE  Settled(t, o, c) \in Tiles
<1>1. Counted(t, o) \in Tiles
  BY CountedType
<1>2. o.reason \in Reasons \cup {""}
  BY DEF Outcomes
<1>3. QED
  BY <1>1, <1>2 DEF Settled, Tiles, Statuses

LEMMA FlagRewriteType ==
  ASSUME NEW t \in Tiles, NEW n \in Nat, NEW o \in Outcomes
  PROVE  FlagRewrite(t, n, o) \in Outcomes
  BY DEF FlagRewrite, Outcomes, Reasons

LEMMA WallOutcomeType ==
  /\ QueueCancelled \in Outcomes
  /\ FlaggedStuck \in Outcomes
  /\ WorkerLost \in Outcomes
  BY DEF QueueCancelled, FlaggedStuck, WorkerLost, WallOutcome, Outcomes, Reasons

-----------------------------------------------------------------------------
(* Taking an entry out of the queue and adding one at its end.               *)

LEMMA WithoutType ==
  ASSUME NEW S, NEW q \in Seq(S), NEW i \in 1..Len(q)
  PROVE  Without(q, i) \in Seq(S)
<1>1. SubSeq(q, 1, i - 1) \in Seq(S)
  BY SubSeqProperties, ElementOfSeq, LenProperties
<1>2. SubSeq(q, i + 1, Len(q)) \in Seq(S)
  BY SubSeqProperties, ElementOfSeq, LenProperties
<1>3. QED
  BY <1>1, <1>2, ConcatProperties DEF Without

-----------------------------------------------------------------------------
(* Type correctness.                                                         *)

LEMMA CandidateType ==
  ASSUME TypeOK, cursor <= Len(queue)
  PROVE  /\ cursor \in 1..Len(queue)
         /\ Candidate \in RunIds
         /\ Without(queue, cursor) \in Seq(RunIds)
<1>1. cursor \in 1..Len(queue)
  BY LenProperties DEF TypeOK
<1>2. QED
  BY <1>1, WithoutType, ElementOfSeq DEF TypeOK, Candidate

\* What a settlement writes is typed, whatever typed tile and queue it gets.
\* A settlement goes with a user's cancel or without one.
LEMMA SettleRunIs ==
  ASSUME NEW id, NEW t, NEW o, NEW q, SettleRun(id, t, o, q)
  PROVE  \E c \in BOOLEAN : SettleAs(id, t, o, q, c)
<1>1. (id \in cancel) \in BOOLEAN
  OBVIOUS
<1>2. SettleAs(id, t, o, q, id \in cancel)
  BY DEF SettleRun
<1>3. QED
  BY <1>1, <1>2, Zenon

LEMMA SettleAsType ==
  ASSUME TypeOK, NEW id \in RunIds, NEW t \in Tiles, NEW o \in Outcomes,
         NEW q \in Seq(RunIds), NEW c \in BOOLEAN, SettleAs(id, t, o, q, c)
  PROVE  /\ tiles' \in [RunIds -> Tiles]
         /\ queue' \in Seq(RunIds)
         /\ cancel' \subseteq RunIds
         /\ stale' \subseteq RunIds
         /\ fills' \in [RunIds -> Nat]
         /\ parent' \in [RunIds -> RunIds \cup {NoRun}]
<1> DEFINE settled == Settled(t, o, c)
<1>1. settled \in Tiles
  BY SettledType
<1>2. cancel' \subseteq RunIds /\ stale' \subseteq RunIds
  BY DEF SettleAs, TypeOK
<1>3. CASE SpawnsSuccessor(t, o, c)
  <2>1. PICK next \in FreshIds :
          /\ tiles' = [tiles EXCEPT ![id] = settled,
                                    ![next] = SuccessorTile(settled, id)]
          /\ queue' = Append(q, next)
          /\ fills' = [fills EXCEPT ![next] = @ + 1]
          /\ parent' = [parent EXCEPT ![next] = id]
    BY <1>3 DEF SettleAs
  <2>2. next \in RunIds /\ SuccessorTile(settled, id) \in Tiles
    BY <1>1, SuccessorTileType DEF FreshIds
  <2> HIDE DEF settled
  <2>3. tiles' \in [RunIds -> Tiles] /\ queue' \in Seq(RunIds)
    BY <1>1, <2>1, <2>2, AppendProperties DEF TypeOK
  <2>4. fills' \in [RunIds -> Nat] /\ parent' \in [RunIds -> RunIds \cup {NoRun}]
    BY <2>1, <2>2 DEF TypeOK
  <2>5. QED
    BY <1>2, <2>3, <2>4
<1>4. CASE ~SpawnsSuccessor(t, o, c)
  <2>1. /\ tiles' = [tiles EXCEPT ![id] = settled]
        /\ queue' = IF settled.finished THEN q ELSE Append(q, id)
        /\ UNCHANGED <<fills, parent>>
    BY <1>4 DEF SettleAs
  <2> HIDE DEF settled
  <2>2. Append(q, id) \in Seq(RunIds)
    BY AppendProperties
  <2>3. QED
    BY <1>1, <1>2, <2>1, <2>2 DEF TypeOK
<1>5. QED
  BY <1>3, <1>4

LEMMA SettleRunType ==
  ASSUME TypeOK, NEW id \in RunIds, NEW t \in Tiles, NEW o \in Outcomes,
         NEW q \in Seq(RunIds), SettleRun(id, t, o, q)
  PROVE  /\ tiles' \in [RunIds -> Tiles]
         /\ queue' \in Seq(RunIds)
         /\ cancel' \subseteq RunIds
         /\ stale' \subseteq RunIds
         /\ fills' \in [RunIds -> Nat]
         /\ parent' \in [RunIds -> RunIds \cup {NoRun}]
  BY SettleRunIs, SettleAsType

\* One field of a tile is overwritten.
LEMMA FlagType ==
  ASSUME NEW t \in Tiles, NEW n \in Nat
  PROVE  [t EXCEPT !.flag = n] \in Tiles
  BY DEF Tiles

LEMMA StatusType ==
  ASSUME NEW t \in Tiles, NEW s \in Statuses
  PROVE  [t EXCEPT !.status = s] \in Tiles
  BY DEF Tiles

LEMMA CurrentAttemptType ==
  ASSUME NEW t \in Tiles
  PROVE  CurrentAttempt(t) \in Nat
<1>1. t.attempts \in Nat
  BY DEF Tiles
<1>2. QED
  BY <1>1 DEF CurrentAttempt

\* The tile of one run is overwritten.
LEMMA TileChangeType ==
  ASSUME TypeOK, NEW r \in RunIds, NEW t \in Tiles,
         tiles' = [tiles EXCEPT ![r] = t]
  PROVE  tiles' \in [RunIds -> Tiles]
  BY DEF TypeOK

LEMMA TypeStep ==
  ASSUME TypeOK, [Next]_vars
  PROVE  TypeOK'
<1> USE RunTileAssumption, WallAssumption
<1>1. ASSUME NEW r \in Submittable, NEW spec \in SubmitSpecs, Submit(r, spec)
      PROVE  TypeOK'
  <2>1. r \in RunIds /\ FreshTile(spec, NoRun) \in Tiles
    BY FreshTileType
  <2>2. Append(queue, r) \in Seq(RunIds)
    BY <2>1, AppendProperties DEF TypeOK
  <2>3. QED
    BY <1>1, <2>1, <2>2 DEF Submit, TypeOK, scanVars, netVars
<1>2. ASSUME NEW r \in RunIds, Cancel(r)
      PROVE  TypeOK'
  <2>1. [tiles[r] EXCEPT !.flag = 0] \in Tiles
    BY FlagType DEF TypeOK
  <2>2. tiles' = [tiles EXCEPT ![r] = [tiles[r] EXCEPT !.flag = 0]]
    BY <1>2 DEF Cancel
  <2>3. tiles' \in [RunIds -> Tiles]
    BY <2>1, <2>2, TileChangeType
  <2>4. QED
    BY <1>2, <2>3 DEF Cancel, TypeOK, scanVars, netVars
<1>3. ASSUME NEW r \in RunIds, Flag(r)
      PROVE  TypeOK'
  <2>1. [tiles[r] EXCEPT !.flag = CurrentAttempt(tiles[r])] \in Tiles
    BY FlagType, CurrentAttemptType DEF TypeOK
  <2>2. tiles' = [tiles EXCEPT ![r] =
                    [tiles[r] EXCEPT !.flag = CurrentAttempt(tiles[r])]]
    BY <1>3 DEF Flag
  <2>3. tiles' \in [RunIds -> Tiles]
    BY <2>1, <2>2, TileChangeType
  <2>4. QED
    BY <1>3, <2>3 DEF Flag, TypeOK, scanVars, netVars
<1>4. ASSUME NEW r \in RunIds, Delete(r)
      PROVE  TypeOK'
  <2>1. tiles' \in [RunIds -> Tiles]
    BY <1>4, AbsentTileType, TileChangeType DEF Delete
  <2>2. QED
    BY <1>4, <2>1 DEF Delete, TypeOK, scanVars, netVars
<1>5. ASSUME NEW n \in Runners, LeaseBegin(n)
      PROVE  TypeOK'
  BY <1>5 DEF LeaseBegin, TypeOK, wallVars, netVars
<1>6. ASSUME NEW n \in Runners, LeaseDrop(n)
      PROVE  TypeOK'
  BY <1>6, CandidateType DEF LeaseDrop, TypeOK, scanVars, netVars
<1>7. ASSUME NEW n \in Runners, LeaseCancelled(n)
      PROVE  TypeOK'
  <2>1. /\ Candidate \in RunIds
        /\ Without(queue, cursor) \in Seq(RunIds)
        /\ tiles[Candidate] \in Tiles
    BY <1>7, CandidateType DEF LeaseCancelled, TypeOK
  <2>2. SettleRun(Candidate, tiles[Candidate], QueueCancelled,
                  Without(queue, cursor))
    BY <1>7 DEF LeaseCancelled
  <2>3. /\ tiles' \in [RunIds -> Tiles]
        /\ queue' \in Seq(RunIds)
        /\ cancel' \subseteq RunIds
        /\ stale' \subseteq RunIds
        /\ fills' \in [RunIds -> Nat]
        /\ parent' \in [RunIds -> RunIds \cup {NoRun}]
    BY <2>1, <2>2, SettleRunType, WallOutcomeType
  <2>4. QED
    BY <1>7, <2>3 DEF LeaseCancelled, TypeOK, scanVars, netVars
<1>8. ASSUME NEW n \in Runners, LeaseSkip(n)
      PROVE  TypeOK'
  BY <1>8 DEF LeaseSkip, TypeOK, wallVars, netVars
<1>9. ASSUME NEW n \in Runners, NEW delivered \in BOOLEAN, LeaseTake(n, delivered)
      PROVE  TypeOK'
  <2> DEFINE r == Candidate
  <2>1. /\ r \in RunIds
        /\ Without(queue, cursor) \in Seq(RunIds)
        /\ tiles[r] \in Tiles
    BY <1>9, CandidateType DEF LeaseTake, TypeOK
  <2>2. [tiles[r] EXCEPT !.status = "leased"] \in Tiles
    BY <2>1, StatusType DEF Statuses
  <2>3. tiles' = [tiles EXCEPT ![r] = [tiles[r] EXCEPT !.status = "leased"]]
    BY <1>9 DEF LeaseTake
  <2>4. tiles' \in [RunIds -> Tiles]
    BY <2>1, <2>2, <2>3, TileChangeType
  <2>5. [run |-> r, attempt |-> CurrentAttempt(tiles[r]), gen |-> fills[r],
         stop |-> FALSE] \in RunnerStates
    BY <2>1, CurrentAttemptType DEF RunnerStates, TypeOK
  <2>6. runners' \in [Runners -> RunnerStates]
    BY <1>9, <2>5 DEF LeaseTake, TypeOK
  <2>7. queue' \in Seq(RunIds) /\ stale' \subseteq RunIds
    BY <1>9, <2>1 DEF LeaseTake, TypeOK
  <2>8. QED
    BY <1>9, <2>4, <2>6, <2>7 DEF LeaseTake, TypeOK
<1>10. ASSUME NEW n \in Runners, LeaseNone(n)
       PROVE  TypeOK'
  BY <1>10 DEF LeaseNone, TypeOK, wallVars, netVars
<1>11. ASSUME NEW r \in RunIds, NoteHeartbeat(r)
       PROVE  /\ tiles' \in [RunIds -> Tiles]
              /\ stale' \subseteq RunIds
              /\ UNCHANGED <<queue, cancel, fills, parent>>
  <2>1. [tiles[r] EXCEPT !.status = "running"] \in Tiles
    BY StatusType DEF TypeOK, Statuses
  <2>2. tiles' = [tiles EXCEPT ![r] = [tiles[r] EXCEPT !.status = "running"]]
    BY <1>11 DEF NoteHeartbeat
  <2>3. QED
    BY <1>11, <2>1, <2>2, TileChangeType DEF NoteHeartbeat, TypeOK
<1>12. ASSUME NEW n \in Runners, Heartbeat(n)
       PROVE  TypeOK'
  <2>1. runners[n].run \in RunIds
    BY <1>12 DEF Heartbeat, Working, TypeOK, RunnerStates
  <2>2. NoteHeartbeat(runners[n].run)
    BY <1>12 DEF Heartbeat
  <2>3. PICK replied \in BOOLEAN :
          runners' = [runners EXCEPT ![n].stop =
                         @ \/ (replied /\ runners[n].run \in cancel)]
    BY <1>12 DEF Heartbeat
  <2> DEFINE stop == runners[n].stop \/ (replied /\ runners[n].run \in cancel)
  <2>4. runners[n] \in RunnerStates /\ stop \in BOOLEAN
    BY DEF TypeOK, RunnerStates
  <2>5. runners' = [runners EXCEPT ![n] = [runners[n] EXCEPT !.stop = stop]]
    BY <2>3
  <2> HIDE DEF stop
  <2>6. [runners[n] EXCEPT !.stop = stop] \in RunnerStates
    BY <2>4 DEF RunnerStates
  <2>7. runners' \in [Runners -> RunnerStates]
    BY <2>5, <2>6 DEF TypeOK
  <2>8. QED
    BY <1>12, <1>11, <2>1, <2>2, <2>7 DEF Heartbeat, TypeOK, scanVars
<1>13. ASSUME NEW n \in Runners, HeartbeatDelayed(n)
       PROVE  TypeOK'
  BY <1>13 DEF HeartbeatDelayed, TypeOK, Working, RunnerStates, wallVars, scanVars
<1>14. ASSUME NEW r \in RunIds, LateHeartbeat(r)
       PROVE  TypeOK'
  BY <1>14, <1>11 DEF LateHeartbeat, TypeOK, wallVars, scanVars
<1>15. ASSUME NEW n \in Runners, NEW o \in RunnerOutcomes, EndRun(n, o)
       PROVE  TypeOK'
  <2>1. [run |-> runners[n].run, attempt |-> runners[n].attempt,
         gen |-> runners[n].gen, outcome |-> o,
         version |-> Version[n], checked |-> FALSE] \in Reports
    BY <1>15 DEF EndRun, Working, TypeOK, RunnerStates, Reports
  <2>2. IdleRunner \in RunnerStates
    BY DEF IdleRunner, RunnerStates
  <2>3. QED
    BY <1>15, <2>1, <2>2 DEF EndRun, TypeOK, wallVars, scanVars
<1>16. ASSUME NEW n \in Runners, Crash(n)
       PROVE  TypeOK'
  BY <1>16 DEF Crash, TypeOK, IdleRunner, RunnerStates, wallVars, scanVars
<1>17. ASSUME NEW m \in reports, LoseReport(m)
       PROVE  TypeOK'
  BY <1>17 DEF LoseReport, TypeOK, wallVars, scanVars
<1>18. ASSUME NEW m \in reports, FinishCheckFlag(m)
       PROVE  TypeOK'
  <2>1. /\ m \in Reports /\ m.run \in RunIds /\ m.attempt \in Nat
        /\ m.outcome \in Outcomes /\ tiles[m.run] \in Tiles
    BY DEF TypeOK, Reports
  <2>2. FlagRewrite(tiles[m.run], m.attempt, m.outcome) \in Outcomes
    BY <2>1, FlagRewriteType
  <2>3. CheckedReport(m) \in Reports
    BY <2>1, <2>2 DEF CheckedReport, Reports
  <2>4. QED
    BY <1>18, <2>3 DEF FinishCheckFlag, TypeOK, wallVars, scanVars
<1>19. ASSUME NEW m \in reports, FinishSettle(m)
       PROVE  TypeOK'
  <2>1. /\ m.run \in RunIds /\ m.outcome \in Outcomes /\ tiles[m.run] \in Tiles
        /\ queue \in Seq(RunIds)
    BY DEF TypeOK, Reports
  <2>2. NoteProgress(tiles[m.run], m.outcome) \in Tiles
    BY <2>1, NoteProgressType
  <2>3. SettleRun(m.run, NoteProgress(tiles[m.run], m.outcome), m.outcome, queue)
    BY <1>19 DEF FinishSettle
  <2>4. /\ tiles' \in [RunIds -> Tiles]
        /\ queue' \in Seq(RunIds)
        /\ cancel' \subseteq RunIds
        /\ stale' \subseteq RunIds
        /\ fills' \in [RunIds -> Nat]
        /\ parent' \in [RunIds -> RunIds \cup {NoRun}]
    BY <2>1, <2>2, <2>3, SettleRunType
  <2>5. QED
    BY <1>19, <2>4 DEF FinishSettle, TypeOK, scanVars
<1>20. ASSUME NEW m \in reports, FinishRefused(m)
       PROVE  TypeOK'
  BY <1>20 DEF FinishRefused, TypeOK, wallVars, scanVars
<1>21. ASSUME NEW r \in RunIds, GoQuiet(r)
       PROVE  TypeOK'
  BY <1>21 DEF GoQuiet, TypeOK, scanVars, netVars
<1>22. ASSUME NEW r \in RunIds, Reaper(r)
       PROVE  TypeOK'
  <2>1. tiles[r] \in Tiles /\ queue \in Seq(RunIds)
    BY DEF TypeOK
  <2>2. /\ UNCHANGED <<scanVars, netVars>>
        /\ \/ SettleRun(r, tiles[r], FlaggedStuck, queue)
           \/ SettleRun(r, tiles[r], WorkerLost, queue)
    BY <1>22 DEF Reaper, ReapFlagged, ReapStale
  <2>3. /\ tiles' \in [RunIds -> Tiles]
        /\ queue' \in Seq(RunIds)
        /\ cancel' \subseteq RunIds
        /\ stale' \subseteq RunIds
        /\ fills' \in [RunIds -> Nat]
        /\ parent' \in [RunIds -> RunIds \cup {NoRun}]
    BY <2>1, <2>2, SettleRunType, WallOutcomeType
  <2>4. QED
    BY <2>2, <2>3 DEF TypeOK, scanVars, netVars
<1>23. CASE UNCHANGED vars
  BY <1>23 DEF vars, TypeOK
<1>24. QED
  BY <1>1, <1>2, <1>3, <1>4, <1>5, <1>6, <1>7, <1>8, <1>9, <1>10, <1>12, <1>13,
     <1>14, <1>15, <1>16, <1>17, <1>18, <1>19, <1>20, <1>21, <1>22, <1>23
     DEF Next, Operator, Runner, LeaseScan, LeasePass, Finish

LEMMA TypeInit == Init => TypeOK
  BY AbsentTileType, EmptySeq
     DEF Init, TypeOK, IdleRunner, RunnerStates

\* Every variable of the wall and its runners stays in its type: Wall.tla's
\* TypeOK, whatever the order of requests, reports, sweeps and crashes.
THEOREM TypeCorrect == Spec => []TypeOK
<1>1. Init => TypeOK
  BY TypeInit
<1>2. TypeOK /\ [Next]_vars => TypeOK'
  BY TypeStep
<1>3. QED
  BY <1>1, <1>2, PTL DEF Spec

-----------------------------------------------------------------------------
(* What a step may do to one tile.                                           *)

\* applySpec (re)fills the id, by a submission or as the successor of a live run.
Filled(r) ==
    /\ fills'[r] = fills[r] + 1
    /\ ~Live(tiles[r])
    /\ \E spec \in Specs, from \in {p \in RunIds : Live(tiles[p])} \cup {NoRun} :
         tiles'[r] = FreshTile(spec, from)

\* handleDelete.
Removed(r) ==
    /\ fills'[r] = fills[r]
    /\ ~Live(tiles[r])
    /\ r \notin Lineage
    /\ tiles'[r] = AbsentTile

Kept(r) ==
    /\ fills'[r] = fills[r]
    /\ tiles'[r] = tiles[r]

\* handleFlagStuck, or a Stop that takes the flag back.
Flagged(r) ==
    /\ fills'[r] = fills[r]
    /\ Live(tiles[r])
    /\ \E n \in Nat : tiles'[r] = [tiles[r] EXCEPT !.flag = n]

\* A lease or a heartbeat.
Active(r) ==
    /\ fills'[r] = fills[r]
    /\ Live(tiles[r])
    /\ \E s \in {"leased", "running"} : tiles'[r] = [tiles[r] EXCEPT !.status = s]

\* settleRun, with or without noteRecoveryProgressLocked before it.
SettledNow(r) ==
    /\ fills'[r] = fills[r]
    /\ Live(tiles[r])
    /\ \E o \in Outcomes, c \in BOOLEAN :
         \/ tiles'[r] = Settled(tiles[r], o, c)
         \/ tiles'[r] = Settled(NoteProgress(tiles[r], o), o, c)

TileStep(r) ==
    \/ Kept(r) \/ Filled(r) \/ Removed(r) \/ Flagged(r) \/ Active(r)
    \/ SettledNow(r)

\* A settlement of run id changes id and, if it queues one, its successor.
LEMMA SettleAsStep ==
  ASSUME TypeOK, NEW id \in RunIds, NEW o \in Outcomes, NEW q, Live(tiles[id]),
         NEW t, t \in {tiles[id], NoteProgress(tiles[id], o)},
         NEW c \in BOOLEAN, SettleAs(id, t, o, q, c), NEW r \in RunIds
  PROVE  TileStep(r)
<1> DEFINE settled == Settled(t, o, c)
<1>1. tiles[id] \in Tiles /\ t \in Tiles
  BY NoteProgressType DEF TypeOK
<1>3. settled \in Tiles
  BY <1>1, SettledType
<1>4. SettledNow(id) \/ tiles'[id] # settled \/ fills'[id] # fills[id]
  BY DEF SettledNow
<1>5. CASE SpawnsSuccessor(t, o, c)
  <2>1. PICK next \in FreshIds :
          /\ tiles' = [tiles EXCEPT ![id] = settled,
                                    ![next] = SuccessorTile(settled, id)]
          /\ fills' = [fills EXCEPT ![next] = @ + 1]
    BY <1>5 DEF SettleAs
  <2>2. next \in RunIds /\ ~Known(tiles[next]) /\ next # id
    BY DEF FreshIds, Live
  <2>3. SpecOf(settled) \in Specs
    BY <1>3 DEF SpecOf, Specs, Tiles
  <2>4. \E from \in {p \in RunIds : Live(tiles[p])} \cup {NoRun} :
          SuccessorTile(settled, id) = FreshTile(SpecOf(settled), from)
    BY DEF SuccessorTile
  <2> HIDE DEF settled
  <2>5. CASE r = id
    BY <1>4, <2>1, <2>2, <2>5 DEF TileStep, TypeOK
  <2>6. CASE r = next
    BY <2>1, <2>2, <2>3, <2>4, <2>6 DEF TileStep, Filled, Live, TypeOK
  <2>7. CASE r # id /\ r # next
    BY <2>1, <2>2, <2>7 DEF TileStep, Kept, TypeOK
  <2>8. QED
    BY <2>5, <2>6, <2>7
<1>6. CASE ~SpawnsSuccessor(t, o, c)
  <2>1. tiles' = [tiles EXCEPT ![id] = settled] /\ fills' = fills
    BY <1>6 DEF SettleAs
  <2> HIDE DEF settled
  <2>2. QED
    BY <1>4, <2>1 DEF TileStep, Kept, TypeOK
<1>7. QED
  BY <1>5, <1>6

LEMMA SettleRunStep ==
  ASSUME TypeOK, NEW id \in RunIds, NEW o \in Outcomes, NEW q, Live(tiles[id]),
         NEW t, t \in {tiles[id], NoteProgress(tiles[id], o)},
         SettleRun(id, t, o, q), NEW r \in RunIds
  PROVE  TileStep(r)
  BY SettleRunIs, SettleAsStep

LEMMA TileSteps ==
  ASSUME TypeOK, [Next]_vars, NEW r \in RunIds
  PROVE  TileStep(r)
<1> USE RunTileAssumption, WallAssumption
<1>1. CASE UNCHANGED <<tiles, fills>>
  BY <1>1 DEF TileStep, Kept
<1>2. ASSUME NEW p \in Submittable, NEW spec \in SubmitSpecs, Submit(p, spec)
      PROVE  TileStep(r)
  BY <1>2 DEF Submit, TileStep, Kept, Filled, TypeOK
<1>3. ASSUME NEW p \in RunIds, Cancel(p)
      PROVE  TileStep(r)
  <2>1. tiles' = [tiles EXCEPT ![p] = [tiles[p] EXCEPT !.flag = 0]]
    BY <1>3 DEF Cancel
  <2>2. QED
    BY <1>3, <2>1 DEF Cancel, TileStep, Kept, Flagged, TypeOK
<1>4. ASSUME NEW p \in RunIds, Flag(p)
      PROVE  TileStep(r)
  <2>1. tiles' = [tiles EXCEPT ![p] =
                    [tiles[p] EXCEPT !.flag = CurrentAttempt(tiles[p])]]
    BY <1>4 DEF Flag
  <2>2. CurrentAttempt(tiles[p]) \in Nat
    BY CurrentAttemptType DEF TypeOK
  <2>3. QED
    BY <1>4, <2>1, <2>2 DEF Flag, TileStep, Kept, Flagged, TypeOK
<1>5. ASSUME NEW p \in RunIds, Delete(p)
      PROVE  TileStep(r)
  BY <1>5 DEF Delete, TileStep, Kept, Removed, Live, TypeOK
<1>6. ASSUME NEW p \in RunIds, Live(tiles[p]), UNCHANGED fills,
             NEW s \in {"leased", "running"},
             tiles' = [tiles EXCEPT ![p].status = s]
      PROVE  TileStep(r)
  <2>1. tiles' = [tiles EXCEPT ![p] = [tiles[p] EXCEPT !.status = s]]
    BY <1>6
  <2>2. CASE r = p
    BY <1>6, <2>1, <2>2 DEF TileStep, Active, TypeOK
  <2>3. CASE r # p
    BY <1>6, <2>1, <2>3 DEF TileStep, Kept, TypeOK
  <2>4. QED
    BY <2>2, <2>3
<1>7. ASSUME NEW n \in Runners, LeaseCancelled(n)
      PROVE  TileStep(r)
  <2>1. Candidate \in RunIds /\ Live(tiles[Candidate])
    BY <1>7, CandidateType DEF LeaseCancelled
  <2>2. SettleRun(Candidate, tiles[Candidate], QueueCancelled,
                  Without(queue, cursor))
    BY <1>7 DEF LeaseCancelled
  <2>3. QED
    BY <2>1, <2>2, SettleRunStep, WallOutcomeType
<1>8. ASSUME NEW n \in Runners, NEW delivered \in BOOLEAN, LeaseTake(n, delivered)
      PROVE  TileStep(r)
  <2>1. Candidate \in RunIds
    BY <1>8, CandidateType DEF LeaseTake
  <2>2. QED
    BY <1>6, <1>8, <2>1 DEF LeaseTake
<1>9. ASSUME NEW n \in Runners, Heartbeat(n)
      PROVE  TileStep(r)
  <2>1. runners[n].run \in RunIds
    BY <1>9 DEF Heartbeat, Working, TypeOK, RunnerStates
  <2>2. QED
    BY <1>6, <1>9, <2>1 DEF Heartbeat, NoteHeartbeat
<1>10. ASSUME NEW p \in RunIds, LateHeartbeat(p)
       PROVE  TileStep(r)
  BY <1>1, <1>6, <1>10 DEF LateHeartbeat, NoteHeartbeat, wallVars
<1>11. ASSUME NEW m \in reports, FinishSettle(m)
       PROVE  TileStep(r)
  <2>1. m.run \in RunIds /\ m.outcome \in Outcomes
    BY DEF TypeOK, Reports
  <2>2. Live(tiles[m.run])
    BY <1>11 DEF FinishSettle, FinishAccepted
  <2>3. SettleRun(m.run, NoteProgress(tiles[m.run], m.outcome), m.outcome, queue)
    BY <1>11 DEF FinishSettle
  <2>4. QED
    BY <2>1, <2>2, <2>3, SettleRunStep
<1>12. ASSUME NEW p \in RunIds, Reaper(p)
       PROVE  TileStep(r)
  <2>1. /\ Live(tiles[p])
        /\ \/ SettleRun(p, tiles[p], FlaggedStuck, queue)
           \/ SettleRun(p, tiles[p], WorkerLost, queue)
    BY <1>12 DEF Reaper, ReapFlagged, ReapStale, Reapable
  <2>2. QED
    BY <2>1, SettleRunStep, WallOutcomeType
<1>13. ASSUME NEW n \in Runners, Runner(n)
       PROVE  TileStep(r)
  BY <1>1, <1>7, <1>8, <1>9, <1>13
     DEF Runner, LeaseBegin, LeaseScan, LeasePass, LeaseDrop, LeaseSkip, LeaseNone,
         HeartbeatDelayed, Crash, EndRun, wallVars
<1>14. ASSUME NEW m \in reports, Finish(m) \/ LoseReport(m)
       PROVE  TileStep(r)
  BY <1>1, <1>11, <1>14
     DEF Finish, FinishCheckFlag, FinishRefused, LoseReport, wallVars
<1>15. ASSUME NEW p \in RunIds, GoQuiet(p)
       PROVE  TileStep(r)
  BY <1>1, <1>15 DEF GoQuiet
<1>16. CASE UNCHANGED vars
  BY <1>1, <1>16 DEF vars
<1>17. QED
  BY <1>2, <1>3, <1>4, <1>5, <1>10, <1>12, <1>13, <1>14, <1>15, <1>16
     DEF Next, Operator

-----------------------------------------------------------------------------
(* What a settlement writes, field by field.                                 *)

LEMMA CountedFields ==
  ASSUME NEW t \in Tiles, NEW o \in Outcomes
  PROVE  LET u == Counted(t, o) IN
         /\ u.attempts = t.attempts + 1
         /\ u.errorAttempts \in {t.errorAttempts, t.errorAttempts + 1}
         /\ u.lossRecoveries \in {t.lossRecoveries, t.lossRecoveries + 1}
         /\ u.errorAttempts # t.errorAttempts => o.reason = "error"
         /\ u.lossRecoveries # t.lossRecoveries => o.reason = "lost"
         /\ u.profile = t.profile
  BY DEF Counted, Tiles

LEMMA SettledFields ==
  ASSUME NEW t \in Tiles, NEW o \in Outcomes, NEW c \in BOOLEAN
  PROVE  LET u == Settled(t, o, c)
             v == Counted(t, o)
         IN /\ u.attempts = t.attempts + 1
            /\ u.errorAttempts = v.errorAttempts
            /\ u.lossRecoveries = v.lossRecoveries
            /\ u.profile = t.profile
            /\ u.finished = IF Terminal(t, o, c) THEN TRUE ELSE FALSE
            /\ u.status = IF Terminal(t, o, c) THEN "done" ELSE "queued"
<1> DEFINE v == Counted(t, o)
<1>1. v \in Tiles
  BY CountedType
<1>2. v.attempts = t.attempts + 1 /\ v.profile = t.profile
  BY CountedFields
<1>3. Settled(t, o, c) =
        IF Terminal(t, o, c)
        THEN [v EXCEPT !.status = "done", !.finished = TRUE, !.reason = o.reason]
        ELSE [v EXCEPT !.status = "queued", !.finished = FALSE, !.reason = ""]
  BY DEF Settled
<1> HIDE DEF v
<1>4. CASE Terminal(t, o, c)
  BY <1>1, <1>2, <1>3, <1>4 DEF Tiles, v
<1>5. CASE ~Terminal(t, o, c)
  BY <1>1, <1>2, <1>3, <1>5 DEF Tiles, v
<1>6. QED
  BY <1>4, <1>5

\* noteRecoveryProgressLocked leaves what the settlement reads alone.
LEMMA NoteProgressFields ==
  ASSUME NEW t \in Tiles, NEW o \in Outcomes
  PROVE  LET u == NoteProgress(t, o) IN
         /\ u.status = t.status /\ u.finished = t.finished
         /\ u.attempts = t.attempts /\ u.errorAttempts = t.errorAttempts
         /\ u.lossRecoveries = t.lossRecoveries /\ u.profile = t.profile
         /\ u.flag = t.flag /\ u.endless = t.endless
  BY DEF NoteProgress, NoCircuit, Tiles

\* A settlement as a relation between a tile and the next.
SettledFrom(t, u, o, c) ==
    /\ u.attempts = t.attempts + 1
    /\ u.errorAttempts \in {t.errorAttempts, t.errorAttempts + 1}
    /\ u.lossRecoveries \in {t.lossRecoveries, t.lossRecoveries + 1}
    /\ u.errorAttempts # t.errorAttempts => o.reason = "error"
    /\ u.lossRecoveries # t.lossRecoveries => o.reason = "lost"
    /\ u.profile = t.profile
    /\ u.finished \in BOOLEAN
    /\ u.status = IF u.finished THEN "done" ELSE "queued"
    /\ ~u.finished /\ t.profile # "resilient" =>
         /\ o.reason = "error" => u.errorAttempts < MaxAttempts
         /\ o.reason = "lost" => u.lossRecoveries < MaxLostRecoveries

LEMMA SettledFromTile ==
  ASSUME NEW t \in Tiles, NEW o \in Outcomes, NEW c \in BOOLEAN
  PROVE  SettledFrom(t, Settled(t, o, c), o, c)
<1> USE RunTileAssumption
<1> DEFINE u == Settled(t, o, c)
           v == Counted(t, o)
<1>1. v \in Tiles /\ u \in Tiles
  BY CountedType, SettledType
<1>2. /\ u.attempts = t.attempts + 1
      /\ u.errorAttempts = v.errorAttempts
      /\ u.lossRecoveries = v.lossRecoveries
      /\ u.profile = t.profile
      /\ u.finished = IF Terminal(t, o, c) THEN TRUE ELSE FALSE
      /\ u.status = IF Terminal(t, o, c) THEN "done" ELSE "queued"
  BY SettledFields
<1>3. /\ v.errorAttempts \in {t.errorAttempts, t.errorAttempts + 1}
      /\ v.lossRecoveries \in {t.lossRecoveries, t.lossRecoveries + 1}
      /\ v.errorAttempts # t.errorAttempts => o.reason = "error"
      /\ v.lossRecoveries # t.lossRecoveries => o.reason = "lost"
      /\ v.profile = t.profile
  BY CountedFields
<1>4. ~Terminal(t, o, c) => ~BudgetSpent(v, o)
  BY DEF Terminal
<1>5. u.finished \in BOOLEAN /\ v.errorAttempts \in Nat /\ v.lossRecoveries \in Nat
  BY <1>1 DEF Tiles
<1> HIDE DEF u, v
<1>6. ~u.finished /\ t.profile # "resilient" =>
         /\ o.reason = "error" => u.errorAttempts < MaxAttempts
         /\ o.reason = "lost" => u.lossRecoveries < MaxLostRecoveries
  BY <1>2, <1>3, <1>4, <1>5 DEF BudgetSpent
<1>7. QED
  BY <1>2, <1>3, <1>5, <1>6 DEF SettledFrom, u

\* Either way to settle a tile is such a step from the tile itself.
LEMMA SettledNowFrom ==
  ASSUME TypeOK, NEW r \in RunIds, SettledNow(r)
  PROVE  \E o \in Outcomes, c \in BOOLEAN :
           SettledFrom(tiles[r], tiles'[r], o, c)
<1>1. PICK o \in Outcomes, c \in BOOLEAN :
        \/ tiles'[r] = Settled(tiles[r], o, c)
        \/ tiles'[r] = Settled(NoteProgress(tiles[r], o), o, c)
  BY DEF SettledNow
<1>2. tiles[r] \in Tiles
  BY DEF TypeOK
<1>3. CASE tiles'[r] = Settled(tiles[r], o, c)
  BY <1>2, <1>3, SettledFromTile
<1>4. CASE tiles'[r] = Settled(NoteProgress(tiles[r], o), o, c)
  <2> DEFINE t == NoteProgress(tiles[r], o)
  <2>1. t \in Tiles
    BY <1>2, NoteProgressType
  <2>2. SettledFrom(t, tiles'[r], o, c)
    BY <1>4, <2>1, SettledFromTile
  <2>3. /\ t.status = tiles[r].status /\ t.finished = tiles[r].finished
        /\ t.attempts = tiles[r].attempts
        /\ t.errorAttempts = tiles[r].errorAttempts
        /\ t.lossRecoveries = tiles[r].lossRecoveries
        /\ t.profile = tiles[r].profile
    BY <1>2, NoteProgressFields
  <2> HIDE DEF t
  <2>4. QED
    BY <2>2, <2>3 DEF SettledFrom
<1>5. QED
  BY <1>1, <1>3, <1>4

-----------------------------------------------------------------------------
(* Only three handlers settle a run, each of them through settleRun.         *)

Settling(r) ==
    \/ \E n \in Runners : LeaseCancelled(n) /\ Candidate = r
    \/ \E m \in reports : FinishSettle(m) /\ m.run = r
    \/ Reaper(r)

\* A settlement of another run does not settle r: it leaves r alone, or fills it.
LEMMA SettlesOnlyItself ==
  ASSUME TypeOK, NEW id \in RunIds, NEW t, NEW o, NEW q, SettleRun(id, t, o, q),
         NEW r \in RunIds, Live(tiles[r]), r # id
  PROVE  tiles'[r] = tiles[r]
<1>1. \A next \in FreshIds : next # r
  BY DEF FreshIds, Live
<1>2. QED
  BY <1>1 DEF SettleRun, SettleAs, TypeOK

LEMMA SettlingStep ==
  ASSUME TypeOK, [Next]_vars, NEW r \in RunIds, Live(tiles[r]),
         tiles'[r].attempts # tiles[r].attempts
  PROVE  Settling(r)
<1> USE RunTileAssumption, WallAssumption
<1>0. \A p \in RunIds : tiles[p] \in Tiles
  BY DEF TypeOK
<1>1. tiles'[r] # tiles[r]
  OBVIOUS
<1>2. ASSUME NEW p \in Submittable, NEW spec \in SubmitSpecs, Submit(p, spec)
      PROVE  FALSE
  BY <1>1, <1>2 DEF Submit, TypeOK
<1>3. ASSUME NEW p \in RunIds, NEW u, tiles' = [tiles EXCEPT ![p] = u],
             u.attempts = tiles[p].attempts
      PROVE  FALSE
  BY <1>3 DEF TypeOK
<1>4. ASSUME NEW p \in RunIds, Cancel(p) \/ Flag(p)
      PROVE  FALSE
  <2>1. PICK n : tiles' = [tiles EXCEPT ![p] = [tiles[p] EXCEPT !.flag = n]]
    BY <1>4 DEF Cancel, Flag
  <2>2. [tiles[p] EXCEPT !.flag = n].attempts = tiles[p].attempts
    BY <1>0, FlagFields
  <2>3. QED
    BY <1>3, <2>1, <2>2
<1>5. ASSUME NEW p \in RunIds, Delete(p)
      PROVE  FALSE
  BY <1>1, <1>5 DEF Delete, TypeOK, Live
<1>6. ASSUME NEW p \in RunIds, NEW s,
             tiles' = [tiles EXCEPT ![p] = [tiles[p] EXCEPT !.status = s]]
      PROVE  FALSE
  <2>1. [tiles[p] EXCEPT !.status = s].attempts = tiles[p].attempts
    BY <1>0, StatusFields
  <2>2. QED
    BY <1>3, <1>6, <2>1
<1>7. ASSUME NEW n \in Runners, NEW delivered \in BOOLEAN, LeaseTake(n, delivered)
      PROVE  FALSE
  <2>1. Candidate \in RunIds
    BY <1>7, CandidateType DEF LeaseTake
  <2>2. QED
    BY <1>6, <1>7, <2>1 DEF LeaseTake
<1>8. ASSUME NEW n \in Runners, Heartbeat(n)
      PROVE  FALSE
  <2>1. runners[n].run \in RunIds
    BY <1>8 DEF Heartbeat, Working, TypeOK, RunnerStates
  <2>2. QED
    BY <1>6, <1>8, <2>1 DEF Heartbeat, NoteHeartbeat
<1>9. ASSUME NEW p \in RunIds, LateHeartbeat(p)
      PROVE  FALSE
  BY <1>1, <1>6, <1>9 DEF LateHeartbeat, NoteHeartbeat, wallVars
<1>10. ASSUME NEW n \in Runners, LeaseCancelled(n)
       PROVE  Settling(r)
  <2>1. Candidate \in RunIds
    BY <1>10, CandidateType DEF LeaseCancelled
  <2>2. SettleRun(Candidate, tiles[Candidate], QueueCancelled,
                  Without(queue, cursor))
    BY <1>10 DEF LeaseCancelled
  <2>3. r = Candidate
    BY <1>1, <2>1, <2>2, SettlesOnlyItself
  <2>4. QED
    BY <1>10, <2>3 DEF Settling
<1>11. ASSUME NEW m \in reports, FinishSettle(m)
       PROVE  Settling(r)
  <2>1. m.run \in RunIds
    BY DEF TypeOK, Reports
  <2>2. SettleRun(m.run, NoteProgress(tiles[m.run], m.outcome), m.outcome, queue)
    BY <1>11 DEF FinishSettle
  <2>3. r = m.run
    BY <1>1, <2>1, <2>2, SettlesOnlyItself
  <2>4. QED
    BY <1>11, <2>3 DEF Settling
<1>12. ASSUME NEW p \in RunIds, Reaper(p)
       PROVE  Settling(r)
  <2>1. \/ SettleRun(p, tiles[p], FlaggedStuck, queue)
        \/ SettleRun(p, tiles[p], WorkerLost, queue)
    BY <1>12 DEF Reaper, ReapFlagged, ReapStale
  <2>2. r = p
    BY <1>1, <2>1, SettlesOnlyItself
  <2>3. QED
    BY <1>12, <2>2 DEF Settling
<1>13. ~UNCHANGED tiles
  BY <1>1
<1>14. ASSUME NEW n \in Runners, Runner(n)
       PROVE  Settling(r)
  BY <1>7, <1>8, <1>10, <1>13, <1>14
     DEF Runner, LeaseBegin, LeaseScan, LeasePass, LeaseDrop, LeaseSkip, LeaseNone,
         HeartbeatDelayed, Crash, EndRun, wallVars
<1>15. ASSUME NEW m \in reports, Finish(m) \/ LoseReport(m)
       PROVE  Settling(r)
  BY <1>11, <1>13, <1>15
     DEF Finish, FinishCheckFlag, FinishRefused, LoseReport, wallVars
<1>16. ASSUME NEW p \in RunIds, GoQuiet(p)
       PROVE  FALSE
  BY <1>13, <1>16 DEF GoQuiet
<1>17. QED
  BY <1>2, <1>4, <1>5, <1>9, <1>12, <1>13, <1>14, <1>15, <1>16
     DEF Next, Operator, vars

\* What the settlement was called with.
LEMMA SettlingCalls ==
  ASSUME TypeOK, NEW r \in RunIds, Settling(r)
  PROVE  \E o \in Outcomes, q \in Seq(RunIds) :
           \E t \in {tiles[r], NoteProgress(tiles[r], o)} : SettleRun(r, t, o, q)
<1>1. CASE \E n \in Runners : LeaseCancelled(n) /\ Candidate = r
  <2>1. SettleRun(r, tiles[r], QueueCancelled, Without(queue, cursor))
    BY <1>1 DEF LeaseCancelled
  <2>2. Without(queue, cursor) \in Seq(RunIds)
    BY <1>1, CandidateType DEF LeaseCancelled
  <2>3. QED
    BY <2>1, <2>2, WallOutcomeType
<1>2. CASE \E m \in reports : FinishSettle(m) /\ m.run = r
  <2>1. PICK m \in reports : FinishSettle(m) /\ m.run = r
    BY <1>2
  <2>2. SettleRun(r, NoteProgress(tiles[r], m.outcome), m.outcome, queue)
    BY <2>1 DEF FinishSettle
  <2>3. m.outcome \in Outcomes /\ queue \in Seq(RunIds)
    BY DEF TypeOK, Reports
  <2>4. QED
    BY <2>2, <2>3
<1>3. CASE Reaper(r)
  <2>1. \/ SettleRun(r, tiles[r], FlaggedStuck, queue)
        \/ SettleRun(r, tiles[r], WorkerLost, queue)
    BY <1>3 DEF Reaper, ReapFlagged, ReapStale
  <2>2. queue \in Seq(RunIds)
    BY DEF TypeOK
  <2>3. QED
    BY <2>1, <2>2, WallOutcomeType
<1>4. QED
  BY <1>1, <1>2, <1>3 DEF Settling

-----------------------------------------------------------------------------
(* Finished and Status.                                                      *)

LEMMA FreshFields ==
  ASSUME NEW spec \in Specs, NEW from
  PROVE  LET t == FreshTile(spec, from) IN
         /\ t.status = "queued" /\ ~t.finished /\ t.attempts = 0
         /\ t.errorAttempts = 0 /\ t.lossRecoveries = 0
  BY DEF FreshTile, AbsentTile

LEMMA AbsentFields ==
  /\ AbsentTile.status = "absent" /\ AbsentTile.finished = FALSE
  /\ AbsentTile.attempts = 0 /\ AbsentTile.errorAttempts = 0
  /\ AbsentTile.lossRecoveries = 0 /\ ~Live(AbsentTile)
  BY DEF AbsentTile, Live, Known

LEMMA FinishedByTiles ==
  ASSUME TypeOK, FinishedMatchesStatus, \A r \in RunIds : TileStep(r)
  PROVE  FinishedMatchesStatus'
<1> SUFFICES ASSUME NEW r \in RunIds
             PROVE  /\ tiles'[r].finished <=> tiles'[r].status \in {"done", "paused"}
                    /\ tiles'[r].status = "absent" => tiles'[r] = AbsentTile
  BY DEF FinishedMatchesStatus
<1>1. TileStep(r)
  OBVIOUS
<1>2. /\ tiles[r] \in Tiles
      /\ tiles[r].finished <=> tiles[r].status \in {"done", "paused"}
      /\ tiles[r].status = "absent" => tiles[r] = AbsentTile
  BY DEF TypeOK, FinishedMatchesStatus
<1>3. CASE Kept(r)
  BY <1>2, <1>3 DEF Kept
<1>4. CASE Filled(r)
  BY <1>4, FreshFields DEF Filled
<1>5. CASE Removed(r)
  BY <1>5, AbsentFields DEF Removed
<1>6. CASE Flagged(r)
  BY <1>2, <1>6 DEF Flagged, Live, Known, Tiles
<1>7. CASE Active(r)
  BY <1>2, <1>7 DEF Active, Live, Known, Tiles
<1>8. CASE SettledNow(r)
  BY <1>8, SettledNowFrom DEF SettledFrom
<1>9. QED
  BY <1>1, <1>3, <1>4, <1>5, <1>6, <1>7, <1>8 DEF TileStep

LEMMA FinishedMatchesStatusStep ==
  ASSUME TypeOK, FinishedMatchesStatus, [Next]_vars
  PROVE  FinishedMatchesStatus'
  BY TileSteps, FinishedByTiles

\* Finished and Status never disagree, and an unknown id has no leftovers,
\* for any number of runs, runners, budgets and generations.
THEOREM FinishedCorrect == Spec => []FinishedMatchesStatus
<1>1. Init => TypeOK /\ FinishedMatchesStatus
  BY TypeInit, AbsentFields DEF Init, FinishedMatchesStatus
<1>2. TypeOK /\ FinishedMatchesStatus /\ [Next]_vars
        => (TypeOK /\ FinishedMatchesStatus)'
  BY TypeStep, FinishedMatchesStatusStep
<1>3. QED
  BY <1>1, <1>2, PTL DEF Spec

-----------------------------------------------------------------------------
(* Retry budgets.                                                            *)

LEMMA BudgetsByTiles ==
  ASSUME TypeOK, RetryBudgetsHold, \A r \in RunIds : TileStep(r)
  PROVE  RetryBudgetsHold'
<1> USE RunTileAssumption
<1> DEFINE Holds(t) ==
             /\ t.errorAttempts + t.lossRecoveries <= t.attempts
             /\ Live(t) /\ t.profile # "resilient" =>
                  /\ t.errorAttempts < MaxAttempts
                  /\ t.lossRecoveries < MaxLostRecoveries
<1> SUFFICES ASSUME NEW r \in RunIds
             PROVE  Holds(tiles'[r])
  BY DEF RetryBudgetsHold
<1>1. TileStep(r)
  OBVIOUS
<1>2. tiles[r] \in Tiles /\ Holds(tiles[r])
  BY DEF TypeOK, RetryBudgetsHold
<1>3. CASE Kept(r)
  BY <1>2, <1>3 DEF Kept
<1>4. CASE Filled(r)
  BY <1>4, FreshFields DEF Filled
<1>5. CASE Removed(r)
  BY <1>5, AbsentFields DEF Removed
<1>6. CASE Flagged(r)
  <2>1. PICK n \in Nat : tiles'[r] = [tiles[r] EXCEPT !.flag = n]
    BY <1>6 DEF Flagged
  <2>2. /\ tiles'[r].errorAttempts = tiles[r].errorAttempts
        /\ tiles'[r].lossRecoveries = tiles[r].lossRecoveries
        /\ tiles'[r].attempts = tiles[r].attempts
        /\ tiles'[r].profile = tiles[r].profile
    BY <1>2, <2>1 DEF Tiles
  <2>3. QED
    BY <1>2, <1>6, <2>2 DEF Flagged
<1>7. CASE Active(r)
  <2>1. PICK s \in {"leased", "running"} :
          tiles'[r] = [tiles[r] EXCEPT !.status = s]
    BY <1>7 DEF Active
  <2>2. /\ tiles'[r].errorAttempts = tiles[r].errorAttempts
        /\ tiles'[r].lossRecoveries = tiles[r].lossRecoveries
        /\ tiles'[r].attempts = tiles[r].attempts
        /\ tiles'[r].profile = tiles[r].profile
    BY <1>2, <2>1 DEF Tiles
  <2>3. QED
    BY <1>2, <1>7, <2>2 DEF Active
<1>8. CASE SettledNow(r)
  <2>1. PICK o \in Outcomes, c \in BOOLEAN :
          SettledFrom(tiles[r], tiles'[r], o, c)
    BY <1>8, SettledNowFrom
  <2>2. /\ tiles[r].errorAttempts \in Nat /\ tiles[r].lossRecoveries \in Nat
        /\ tiles[r].attempts \in Nat
    BY <1>2 DEF Tiles
  <2>3. tiles'[r].errorAttempts + tiles'[r].lossRecoveries <= tiles'[r].attempts
    BY <1>2, <2>1, <2>2 DEF SettledFrom
  <2>4. Live(tiles[r])
    BY <1>8 DEF SettledNow
  <2>5. QED
    BY <1>2, <2>1, <2>2, <2>3, <2>4 DEF SettledFrom, Live
<1>9. QED
  BY <1>1, <1>3, <1>4, <1>5, <1>6, <1>7, <1>8 DEF TileStep

LEMMA RetryBudgetsHoldStep ==
  ASSUME TypeOK, RetryBudgetsHold, [Next]_vars
  PROVE  RetryBudgetsHold'
  BY TileSteps, BudgetsByTiles

\* No retry is ever queued beyond maxAttempts errors or maxLostRecoveries
\* worker losses of a run outside resilient mode, for every value of the two.
THEOREM BudgetsCorrect == Spec => []RetryBudgetsHold
<1>1. Init => TypeOK /\ RetryBudgetsHold
  BY TypeInit, AbsentFields DEF Init, RetryBudgetsHold
<1>2. TypeOK /\ RetryBudgetsHold /\ [Next]_vars => (TypeOK /\ RetryBudgetsHold)'
  BY TypeStep, RetryBudgetsHoldStep
<1>3. QED
  BY <1>1, <1>2, PTL DEF Spec

-----------------------------------------------------------------------------
(* What a step may never do.                                                 *)

LEMMA FinalByTiles ==
  ASSUME TypeOK, NEW r \in RunIds, TileStep(r), tiles[r].finished, SameSubmission(r)
  PROVE  tiles'[r] = tiles[r]
<1>1. fills[r] \in Nat
  BY DEF TypeOK
<1>2. QED
  BY <1>1, AbsentFields
     DEF TileStep, Kept, Filled, Removed, Flagged, Active, SettledNow,
         SameSubmission, Live, Known

\* A finished run is left alone by every late report, heartbeat, sweep and scan.
THEOREM FinalCorrect == Spec => FinishedIsFinal
<1> DEFINE Final == \A r \in RunIds : tiles[r].finished /\ SameSubmission(r)
                                        => tiles'[r] = tiles[r]
<1>1. ASSUME TypeOK, [Next]_vars
      PROVE  Final
  BY <1>1, TileSteps, FinalByTiles
<1>2. TypeOK /\ [Next]_vars => [Final]_vars
  BY <1>1
<1>3. QED
  BY <1>2, TypeCorrect, PTL DEF Spec, FinishedIsFinal

\* What GenerationsAdvance says of one run.
Advances(r) ==
    LET t == tiles[r]
        u == tiles'[r]
    IN /\ u.attempts \in {t.attempts, t.attempts + 1}
       /\ u.finished # t.finished => u.attempts = t.attempts + 1
       /\ u.status = "queued" /\ t.status # "queued" =>
            u.attempts = t.attempts + 1

LEMMA AdvancesByTiles ==
  ASSUME TypeOK, NEW r \in RunIds, TileStep(r), SameSubmission(r), Known(tiles[r])
  PROVE  Advances(r)
<1>1. fills[r] \in Nat /\ tiles[r] \in Tiles
  BY DEF TypeOK
<1>2. CASE Kept(r)
  BY <1>2 DEF Kept, Advances
<1>3. CASE Flagged(r) \/ Active(r)
  BY <1>1, <1>3 DEF Flagged, Active, Tiles, Advances
<1>4. CASE SettledNow(r)
  BY <1>4, SettledNowFrom DEF SettledFrom, Advances
<1>5. QED
  BY <1>1, <1>2, <1>3, <1>4, AbsentFields
     DEF TileStep, Filled, Removed, SameSubmission, Known

\* Generations are counted one at a time, and a run changes hands only with one.
THEOREM GenerationsCorrect == Spec => GenerationsAdvance
<1> DEFINE Advance == \A r \in RunIds : SameSubmission(r) /\ Known(tiles[r])
                                          => Advances(r)
<1>1. TypeOK /\ [Next]_vars => [Advance]_vars
  BY TileSteps, AdvancesByTiles
<1>2. Spec => [][Advance]_vars
  BY <1>1, TypeCorrect, PTL DEF Spec
<1>3. QED
  BY <1>2 DEF GenerationsAdvance, Advances

\* A generation ends only in settleRun, on the tile or on what
\* noteRecoveryProgressLocked made of it.
LEMMA SettlesBySettleRun ==
  ASSUME TypeOK, [Next]_vars, NEW r \in RunIds, Settles(r)
  PROVE  \E o \in Outcomes, q \in Seq(RunIds) :
           \E t \in {tiles[r], NoteProgress(tiles[r], o)} :
             /\ SettleRun(r, t, o, q)
             /\ tiles'[r] = Settled(t, o, r \in cancel)
             /\ t \in Tiles
             /\ t.profile = tiles[r].profile
             /\ FlagApplies(t) <=> FlagApplies(tiles[r])
<1>1. tiles[r] \in Tiles /\ tiles[r].attempts \in Nat /\ fills[r] \in Nat
  BY DEF TypeOK, Tiles
<1>2. Live(tiles[r])
  <2>1. TileStep(r)
    BY TileSteps
  <2>2. Flagged(r) \/ Active(r) => Live(tiles[r])
    BY DEF Flagged, Active
  <2>3. ~Kept(r) /\ ~Filled(r) /\ ~Removed(r)
    BY <1>1, AbsentFields DEF Settles, SameSubmission, Kept, Filled, Removed, Known
  <2>4. QED
    BY <2>1, <2>2, <2>3 DEF TileStep, SettledNow
<1>3. tiles'[r].attempts # tiles[r].attempts
  BY <1>1 DEF Settles
<1>4. Settling(r)
  BY <1>2, <1>3, SettlingStep
<1>5. PICK o \in Outcomes, q \in Seq(RunIds) :
        \E t \in {tiles[r], NoteProgress(tiles[r], o)} : SettleRun(r, t, o, q)
  BY <1>4, SettlingCalls
<1>6. PICK t \in {tiles[r], NoteProgress(tiles[r], o)} : SettleRun(r, t, o, q)
  BY <1>5
<1>7. /\ t \in Tiles /\ t.profile = tiles[r].profile
      /\ t.flag = tiles[r].flag /\ t.attempts = tiles[r].attempts
  BY <1>1, <1>6, NoteProgressType, NoteProgressFields
<1>8. tiles'[r] = Settled(t, o, r \in cancel)
  <2>1. \A next \in FreshIds : next # r
    BY <1>2 DEF FreshIds, Live
  <2>2. QED
    BY <1>6, <2>1 DEF SettleRun, SettleAs, TypeOK
<1>9. FlagApplies(t) <=> FlagApplies(tiles[r])
  BY <1>7 DEF FlagApplies, CurrentAttempt
<1>10. QED
  BY <1>6, <1>7, <1>8, <1>9

\* A run that a user cancelled ends with the generation that is out, whatever
\* that ends with, and has no successor: settleRun's promise, for every bound.
THEOREM CancelCorrect == Spec => CancelIsFinal
<1> DEFINE Cancelled(r) ==
             r \in cancel /\ ~FlagApplies(tiles[r]) /\ Settles(r)
           Final == \A r \in RunIds : Cancelled(r) =>
                      /\ tiles'[r].finished
                      /\ \A c \in RunIds : parent'[c] = r => parent[c] = r
<1>1. ASSUME TypeOK, [Next]_vars
      PROVE  Final
  <2> SUFFICES ASSUME NEW r \in RunIds, Cancelled(r)
               PROVE  /\ tiles'[r].finished
                      /\ \A c \in RunIds : parent'[c] = r => parent[c] = r
    OBVIOUS
  <2>1. PICK o \in Outcomes, q \in Seq(RunIds), t \in Tiles :
          /\ SettleRun(r, t, o, q)
          /\ tiles'[r] = Settled(t, o, r \in cancel)
          /\ ~FlagApplies(t)
    BY <1>1, SettlesBySettleRun
  <2>2. (r \in cancel) = TRUE
    OBVIOUS
  <2>3. CancelApplies(t, TRUE)
    BY <2>1 DEF CancelApplies
  <2>4. tiles'[r].finished
    BY <2>1, <2>2, <2>3, SettledFields DEF Terminal
  <2>5. UNCHANGED parent
    BY <2>1, <2>2, <2>3 DEF SettleRun, SettleAs, SpawnsSuccessor
  <2>6. QED
    BY <2>4, <2>5
<1>2. TypeOK /\ [Next]_vars => [Final]_vars
  BY <1>1
<1>3. QED
  BY <1>2, TypeCorrect, PTL DEF Spec, CancelIsFinal

\* The cancel that a flag rides on never ends a resilient campaign: it ends by
\* an outcome of its own, reaching the goal or being cancelled.
THEOREM FlagCorrect == Spec => FlagIsNotACancel
<1> DEFINE Stopped(r) ==
             /\ r \in cancel
             /\ FlagApplies(tiles[r])
             /\ tiles[r].profile = "resilient"
             /\ Settles(r)
             /\ tiles'[r].finished
           OwnEnd == \A r \in RunIds :
                       Stopped(r) => tiles'[r].reason \in {"done", "cancelled"}
<1>1. ASSUME TypeOK, [Next]_vars
      PROVE  OwnEnd
  <2> SUFFICES ASSUME NEW r \in RunIds, Stopped(r)
               PROVE  tiles'[r].reason \in {"done", "cancelled"}
    OBVIOUS
  <2>1. PICK o \in Outcomes, t \in Tiles :
          /\ tiles'[r] = Settled(t, o, r \in cancel)
          /\ t.profile = "resilient"
          /\ FlagApplies(t)
    BY <1>1, SettlesBySettleRun
  <2>2. Terminal(t, o, r \in cancel)
    <3>1. (r \in cancel) \in BOOLEAN
      OBVIOUS
    <3>2. Settled(t, o, r \in cancel).finished
            = IF Terminal(t, o, r \in cancel) THEN TRUE ELSE FALSE
      BY <3>1, SettledFields
    <3>3. tiles'[r].finished
      OBVIOUS
    <3>4. QED
      BY <2>1, <3>2, <3>3
  <2>3. Counted(t, o) \in Tiles /\ Counted(t, o).profile = "resilient"
    BY <2>1, CountedType, CountedFields
  <2>4. o.reason \in {"done", "cancelled"}
    <3>1. ~CancelApplies(t, r \in cancel) /\ ~BudgetSpent(Counted(t, o), o)
      BY <2>1, <2>3 DEF CancelApplies, BudgetSpent
    <3>2. ~Recoverable(t, o) => o.reason \in {"done", "cancelled"}
      BY <2>1 DEF Recoverable, GoalRecoveryReasons, Outcomes, Reasons
    <3>3. QED
      BY <2>2, <3>1, <3>2 DEF Terminal
  <2>5. tiles'[r].reason = o.reason
    BY <2>1, <2>2, <2>3 DEF Settled, Tiles
  <2>6. QED
    BY <2>4, <2>5
<1>2. TypeOK /\ [Next]_vars => [OwnEnd]_vars
  BY <1>1
<1>3. QED
  BY <1>2, TypeCorrect, PTL DEF Spec, FlagIsNotACancel

-----------------------------------------------------------------------------
(* The queue holds every run that is shown as queued.                        *)

HasEntry(q, r) == \E i \in 1..Len(q) : q[i] = r

LEMMA AppendHolds ==
  ASSUME NEW S, NEW q \in Seq(S), NEW x \in S
  PROVE  /\ HasEntry(Append(q, x), x)
         /\ \A r : HasEntry(q, r) => HasEntry(Append(q, x), r)
  BY AppendProperties, LenProperties DEF HasEntry

LEMMA WithoutHolds ==
  ASSUME NEW S, NEW q \in Seq(S), NEW i \in 1..Len(q), NEW r, HasEntry(q, r), r # q[i]
  PROVE  HasEntry(Without(q, i), r)
<1> DEFINE front == SubSeq(q, 1, i - 1)
           back == SubSeq(q, i + 1, Len(q))
<1>1. PICK j \in 1..Len(q) : q[j] = r
  BY DEF HasEntry
<1>2. Len(q) \in Nat /\ i \in Int /\ j \in Int /\ j # i
  BY <1>1, LenProperties
<1>3. /\ front \in Seq(S) /\ Len(front) = i - 1
      /\ \A k \in 1..(i - 1) : front[k] = q[k]
  BY <1>2, SubSeqProperties, ElementOfSeq
<1>4. /\ back \in Seq(S) /\ Len(back) = Len(q) - i
      /\ \A k \in 1..(Len(q) - i) : back[k] = q[i + k]
  BY <1>2, SubSeqProperties, ElementOfSeq
<1>5. Without(q, i) = front \o back
  BY DEF Without
<1> HIDE DEF front, back
<1>6. /\ Len(front \o back) = Len(front) + Len(back)
      /\ \A k \in 1..(Len(front) + Len(back)) : (front \o back)[k] =
             IF k <= Len(front) THEN front[k] ELSE back[k - Len(front)]
  BY <1>3, <1>4, ConcatProperties
<1>7. CASE j < i
  <2>1. j \in 1..(Len(front) + Len(back)) /\ j <= Len(front) /\ j \in 1..(i - 1)
    BY <1>2, <1>3, <1>4, <1>7
  <2>2. (front \o back)[j] = r
    BY <1>1, <1>3, <1>6, <2>1
  <2>3. QED
    BY <1>5, <1>6, <2>1, <2>2 DEF HasEntry
<1>8. CASE j > i
  <2>1. /\ j - 1 \in 1..(Len(front) + Len(back)) /\ ~(j - 1 <= Len(front))
        /\ j - 1 - Len(front) = j - i
        /\ j - i \in 1..(Len(q) - i) /\ i + (j - i) = j
    BY <1>2, <1>3, <1>4, <1>8
  <2>2. (front \o back)[j - 1] = back[j - i]
    BY <1>6, <2>1
  <2>3. back[j - i] = r
    BY <1>1, <1>4, <2>1
  <2>4. QED
    BY <1>5, <1>6, <2>1, <2>2, <2>3 DEF HasEntry
<1>9. QED
  BY <1>2, <1>7, <1>8

\* A settlement that got a queue with every other queued run leaves none out.
LEMMA SettleAsQueue ==
  ASSUME TypeOK, NEW id \in RunIds, NEW t \in Tiles, NEW o \in Outcomes,
         NEW q \in Seq(RunIds), NEW c \in BOOLEAN, SettleAs(id, t, o, q, c),
         \A r \in RunIds \ {id} : tiles[r].status = "queued" => HasEntry(q, r)
  PROVE  NoStrandedRun'
<1> DEFINE settled == Settled(t, o, c)
<1> SUFFICES ASSUME NEW r \in RunIds, tiles'[r].status = "queued"
             PROVE  HasEntry(queue', r)
  BY DEF NoStrandedRun, InQueue, HasEntry
<1>2. settled.status = "queued" => ~settled.finished
  BY SettledFields
<1>3. CASE SpawnsSuccessor(t, o, c)
  <2>1. PICK next \in FreshIds :
          /\ tiles' = [tiles EXCEPT ![id] = settled,
                                    ![next] = SuccessorTile(settled, id)]
          /\ queue' = Append(q, next)
    BY <1>3 DEF SettleAs
  <2>2. next \in RunIds
    BY DEF FreshIds
  <2>3. settled.status # "queued"
    <3>1. Terminal(t, o, c)
      BY <1>3 DEF SpawnsSuccessor
    <3>2. QED
      BY <3>1, SettledFields
  <2> HIDE DEF settled
  <2>4. CASE r = next
    BY <2>1, <2>2, <2>4, AppendHolds
  <2>5. CASE r # next
    <3>1. r # id /\ tiles[r].status = "queued"
      BY <2>1, <2>3, <2>5 DEF TypeOK
    <3>2. QED
      BY <2>1, <2>2, <3>1, AppendHolds
  <2>6. QED
    BY <2>4, <2>5
<1>4. CASE ~SpawnsSuccessor(t, o, c)
  <2>1. /\ tiles' = [tiles EXCEPT ![id] = settled]
        /\ queue' = IF settled.finished THEN q ELSE Append(q, id)
    BY <1>4 DEF SettleAs
  <2> HIDE DEF settled
  <2>2. CASE r = id
    <3>1. ~settled.finished
      BY <1>2, <2>1, <2>2 DEF TypeOK
    <3>2. QED
      BY <2>1, <2>2, <3>1, AppendHolds
  <2>3. CASE r # id
    <3>1. HasEntry(q, r)
      BY <2>1, <2>3 DEF TypeOK
    <3>2. QED
      BY <2>1, <3>1, AppendHolds
  <2>4. QED
    BY <2>2, <2>3
<1>5. QED
  BY <1>3, <1>4

LEMMA SettleRunQueue ==
  ASSUME TypeOK, NEW id \in RunIds, NEW t \in Tiles, NEW o \in Outcomes,
         NEW q \in Seq(RunIds), SettleRun(id, t, o, q),
         \A r \in RunIds \ {id} : tiles[r].status = "queued" => HasEntry(q, r)
  PROVE  NoStrandedRun'
  BY SettleRunIs, SettleAsQueue

LEMMA NoStrandedRunStep ==
  ASSUME TypeOK, FinishedMatchesStatus, NoStrandedRun, [Next]_vars
  PROVE  NoStrandedRun'
<1> USE RunTileAssumption, WallAssumption
<1>1. /\ queue \in Seq(RunIds)
      /\ \A r \in RunIds : tiles[r] \in Tiles
      /\ \A r \in RunIds : tiles[r].status = "queued" => HasEntry(queue, r)
      /\ \A r \in RunIds : tiles[r].status = "queued" => Live(tiles[r])
  BY DEF TypeOK, NoStrandedRun, InQueue, HasEntry, FinishedMatchesStatus, Live, Known
<1>2. ASSUME UNCHANGED queue,
             \A r \in RunIds : tiles'[r].status = "queued" => tiles[r].status = "queued"
      PROVE  NoStrandedRun'
  BY <1>1, <1>2 DEF NoStrandedRun, InQueue, HasEntry
<1>3. CASE UNCHANGED <<queue, tiles>>
  BY <1>2, <1>3
<1>4. ASSUME NEW p \in Submittable, NEW spec \in SubmitSpecs, Submit(p, spec)
      PROVE  NoStrandedRun'
  <2>1. \A r \in RunIds : tiles'[r].status = "queued" =>
          r = p \/ tiles[r].status = "queued"
    BY <1>4 DEF Submit, TypeOK
  <2>2. queue' = Append(queue, p) /\ p \in RunIds
    BY <1>4 DEF Submit
  <2>3. QED
    BY <1>1, <2>1, <2>2, AppendHolds DEF NoStrandedRun, InQueue, HasEntry
<1>5. ASSUME NEW p \in RunIds, Cancel(p) \/ Flag(p)
      PROVE  NoStrandedRun'
  <2>1. PICK n : tiles' = [tiles EXCEPT ![p] = [tiles[p] EXCEPT !.flag = n]]
    BY <1>5 DEF Cancel, Flag
  <2>2. [tiles[p] EXCEPT !.flag = n].status = tiles[p].status
    BY <1>1, FlagFields
  <2>3. UNCHANGED queue
    BY <1>5 DEF Cancel, Flag
  <2>4. QED
    BY <1>2, <2>1, <2>2, <2>3 DEF TypeOK
<1>6. ASSUME NEW p \in RunIds, Delete(p)
      PROVE  NoStrandedRun'
  BY <1>2, <1>6, AbsentFields DEF Delete, TypeOK
<1>7. ASSUME NEW n \in Runners, LeaseDrop(n)
      PROVE  NoStrandedRun'
  <2>1. cursor \in 1..Len(queue) /\ ~Live(tiles[queue[cursor]])
    BY <1>7, CandidateType DEF LeaseDrop, Candidate
  <2>2. \A r \in RunIds : tiles[r].status = "queued" => r # queue[cursor]
    BY <1>1, <2>1
  <2>3. queue' = Without(queue, cursor) /\ UNCHANGED tiles
    BY <1>7 DEF LeaseDrop
  <2>4. \A r \in RunIds : tiles[r].status = "queued" => HasEntry(queue', r)
    BY <1>1, <2>1, <2>2, <2>3, WithoutHolds
  <2>5. QED
    BY <2>3, <2>4 DEF NoStrandedRun, InQueue, HasEntry
<1>8. ASSUME NEW n \in Runners, LeaseCancelled(n)
      PROVE  NoStrandedRun'
  <2>1. /\ cursor \in 1..Len(queue) /\ Candidate \in RunIds
        /\ Without(queue, cursor) \in Seq(RunIds)
    BY <1>8, CandidateType DEF LeaseCancelled
  <2>2. \A r \in RunIds \ {Candidate} :
          tiles[r].status = "queued" => HasEntry(Without(queue, cursor), r)
    BY <1>1, <2>1, WithoutHolds DEF Candidate
  <2>3. SettleRun(Candidate, tiles[Candidate], QueueCancelled,
                  Without(queue, cursor))
    BY <1>8 DEF LeaseCancelled
  <2>4. QED
    BY <1>1, <2>1, <2>2, <2>3, SettleRunQueue, WallOutcomeType
<1>9. ASSUME NEW n \in Runners, NEW delivered \in BOOLEAN, LeaseTake(n, delivered)
      PROVE  NoStrandedRun'
  <2>1. cursor \in 1..Len(queue) /\ Candidate \in RunIds
    BY <1>9, CandidateType DEF LeaseTake
  <2>2. /\ queue' = Without(queue, cursor)
        /\ tiles' = [tiles EXCEPT ![Candidate] =
                       [tiles[Candidate] EXCEPT !.status = "leased"]]
    BY <1>9 DEF LeaseTake
  <2>3. [tiles[Candidate] EXCEPT !.status = "leased"].status = "leased"
    BY <1>1, <2>1, StatusFields
  <2>4. \A r \in RunIds : tiles'[r].status = "queued" =>
          r # Candidate /\ tiles[r].status = "queued"
    BY <2>1, <2>2, <2>3 DEF TypeOK
  <2>5. \A r \in RunIds : tiles'[r].status = "queued" => HasEntry(queue', r)
    BY <1>1, <2>1, <2>2, <2>4, WithoutHolds DEF Candidate
  <2>6. QED
    BY <2>5 DEF NoStrandedRun, InQueue, HasEntry
<1>10. ASSUME NEW p \in RunIds, NoteHeartbeat(p)
       PROVE  NoStrandedRun'
  <2>1. /\ tiles' = [tiles EXCEPT ![p] = [tiles[p] EXCEPT !.status = "running"]]
        /\ UNCHANGED queue
    BY <1>10 DEF NoteHeartbeat
  <2>2. [tiles[p] EXCEPT !.status = "running"].status = "running"
    BY <1>1, StatusFields
  <2>3. QED
    BY <1>2, <2>1, <2>2 DEF TypeOK
<1>11. ASSUME NEW n \in Runners, Heartbeat(n)
       PROVE  NoStrandedRun'
  <2>1. runners[n].run \in RunIds
    BY <1>11 DEF Heartbeat, Working, TypeOK, RunnerStates
  <2>2. QED
    BY <1>10, <1>11, <2>1 DEF Heartbeat
<1>12. ASSUME NEW p \in RunIds, LateHeartbeat(p)
       PROVE  NoStrandedRun'
  BY <1>3, <1>10, <1>12 DEF LateHeartbeat, wallVars
<1>13. ASSUME NEW m \in reports, FinishSettle(m)
       PROVE  NoStrandedRun'
  <2>1. m.run \in RunIds /\ m.outcome \in Outcomes
    BY DEF TypeOK, Reports
  <2>2. NoteProgress(tiles[m.run], m.outcome) \in Tiles
    BY <1>1, <2>1, NoteProgressType
  <2>3. SettleRun(m.run, NoteProgress(tiles[m.run], m.outcome), m.outcome, queue)
    BY <1>13 DEF FinishSettle
  <2>4. QED
    BY <1>1, <2>1, <2>2, <2>3, SettleRunQueue
<1>14. ASSUME NEW p \in RunIds, Reaper(p)
       PROVE  NoStrandedRun'
  <2>1. \/ SettleRun(p, tiles[p], FlaggedStuck, queue)
        \/ SettleRun(p, tiles[p], WorkerLost, queue)
    BY <1>14 DEF Reaper, ReapFlagged, ReapStale
  <2>2. QED
    BY <1>1, <2>1, SettleRunQueue, WallOutcomeType
<1>15. ASSUME NEW n \in Runners, Runner(n)
       PROVE  NoStrandedRun'
  BY <1>3, <1>7, <1>8, <1>9, <1>11, <1>15
     DEF Runner, LeaseBegin, LeaseScan, LeasePass, LeaseSkip, LeaseNone, HeartbeatDelayed,
         Crash, EndRun, wallVars
<1>16. ASSUME NEW m \in reports, Finish(m) \/ LoseReport(m)
       PROVE  NoStrandedRun'
  BY <1>3, <1>13, <1>16
     DEF Finish, FinishCheckFlag, FinishRefused, LoseReport, wallVars
<1>17. ASSUME NEW p \in RunIds, GoQuiet(p)
       PROVE  NoStrandedRun'
  BY <1>3, <1>17 DEF GoQuiet
<1>18. CASE UNCHANGED vars
  BY <1>3, <1>18 DEF vars
<1>19. QED
  BY <1>4, <1>5, <1>6, <1>12, <1>14, <1>15, <1>16, <1>17, <1>18
     DEF Next, Operator

\* A run that is shown as queued is in the queue: no order of scans, late
\* heartbeats, sweeps and settlements strands it.
THEOREM QueueCorrect == Spec => []NoStrandedRun
<1> DEFINE IInv == TypeOK /\ FinishedMatchesStatus /\ NoStrandedRun
<1>1. Init => IInv
  BY TypeInit, AbsentFields DEF Init, FinishedMatchesStatus, NoStrandedRun
<1>2. IInv /\ [Next]_vars => IInv'
  BY TypeStep, FinishedMatchesStatusStep, NoStrandedRunStep
<1>3. QED
  BY <1>1, <1>2, PTL DEF Spec

-----------------------------------------------------------------------------
(* No claim on an attempt the wall has not handed out.                       *)

\* A claim of a runner or a report on tile t, the fill-th of its id: it is on no
\* later submission, and if it is on this one, on no later generation.
ClaimHolds(t, fill, attempt, gen) ==
    /\ gen <= fill
    /\ gen = fill /\ Known(t) =>
         /\ attempt <= CurrentAttempt(t)
         /\ attempt = CurrentAttempt(t) => t.status \in {"leased", "running"}

\* The strengthening that makes NoClaimAhead inductive.
ClaimsHold ==
    /\ \A n \in Runners : Working(n) =>
         ClaimHolds(tiles[runners[n].run], fills[runners[n].run],
                    runners[n].attempt, runners[n].gen)
    /\ \A m \in reports :
         ClaimHolds(tiles[m.run], fills[m.run], m.attempt, m.gen)

LEMMA ClaimsHoldIsEnough == ClaimsHold => NoClaimAhead
  BY DEF ClaimsHold, ClaimHolds, NoClaimAhead, Claims

\* Whatever happens to the tile, a claim on it stays within its generations.
LEMMA ClaimStays ==
  ASSUME TypeOK, NEW r \in RunIds, TileStep(r), NEW a \in Nat, NEW g \in Nat,
         ClaimHolds(tiles[r], fills[r], a, g)
  PROVE  ClaimHolds(tiles'[r], fills'[r], a, g)
<1> DEFINE t == tiles[r]
           u == tiles'[r]
<1>1. TileStep(r)
  OBVIOUS
<1>2. t \in Tiles /\ t.attempts \in Nat /\ fills[r] \in Nat
  BY DEF TypeOK, Tiles
<1>3. CASE Kept(r)
  BY <1>3 DEF Kept, ClaimHolds
<1>4. CASE Filled(r)
  BY <1>2, <1>4 DEF Filled, ClaimHolds
<1>5. CASE Removed(r)
  BY <1>2, <1>5, AbsentFields DEF Removed, ClaimHolds, Known
<1>6. CASE Flagged(r)
  <2>1. u.attempts = t.attempts /\ u.status = t.status
    BY <1>2, <1>6 DEF Flagged, Tiles
  <2>2. Live(t) /\ fills'[r] = fills[r]
    BY <1>6 DEF Flagged
  <2> HIDE DEF t, u
  <2>3. QED
    BY <2>1, <2>2 DEF ClaimHolds, CurrentAttempt, Live, Known, t, u
<1>7. CASE Active(r)
  <2>1. u.attempts = t.attempts /\ u.status \in {"leased", "running"}
    BY <1>2, <1>7 DEF Active, Tiles
  <2>2. Live(t) /\ fills'[r] = fills[r]
    BY <1>7 DEF Active
  <2>3. QED
    BY <2>1, <2>2 DEF ClaimHolds, CurrentAttempt, Live, Known
<1>8. CASE SettledNow(r)
  <2>1. u.attempts = t.attempts + 1
    BY <1>8, SettledNowFrom DEF SettledFrom
  <2>2. Live(t) /\ fills'[r] = fills[r]
    BY <1>8 DEF SettledNow
  <2>3. QED
    BY <1>2, <2>1, <2>2 DEF ClaimHolds, CurrentAttempt, Live, Known
<1>9. QED
  BY <1>1, <1>3, <1>4, <1>5, <1>6, <1>7, <1>8 DEF TileStep

\* Where runners and reports stay as they are, their claims hold on.
LEMMA ClaimsByTiles ==
  ASSUME TypeOK, ClaimsHold, UNCHANGED <<runners, reports>>,
         \A r \in RunIds : TileStep(r)
  PROVE  ClaimsHold'
<1>1. ASSUME NEW n \in Runners, Working(n)
      PROVE  ClaimHolds(tiles'[runners[n].run], fills'[runners[n].run],
                        runners[n].attempt, runners[n].gen)
  <2>1. /\ runners[n].run \in RunIds
        /\ runners[n].attempt \in Nat /\ runners[n].gen \in Nat
    BY <1>1 DEF Working, TypeOK, RunnerStates
  <2>2. QED
    BY <1>1, <2>1, ClaimStays DEF ClaimsHold
<1>2. ASSUME NEW m \in reports
      PROVE  ClaimHolds(tiles'[m.run], fills'[m.run], m.attempt, m.gen)
  <2>1. m.run \in RunIds /\ m.attempt \in Nat /\ m.gen \in Nat
    BY DEF TypeOK, Reports
  <2>2. QED
    BY <2>1, ClaimStays DEF ClaimsHold
<1>3. QED
  BY <1>1, <1>2 DEF ClaimsHold, Working

\* The claim of a runner after a step: its old one, or that of a lease.
LEMMA RunnerClaims ==
  ASSUME TypeOK, [Next]_vars, NEW n \in Runners, Working(n)'
  PROVE  \/ /\ Working(n)
            /\ runners'[n].run = runners[n].run
            /\ runners'[n].attempt = runners[n].attempt
            /\ runners'[n].gen = runners[n].gen
         \/ /\ LeaseTake(n, TRUE)
            /\ runners'[n] = [run |-> Candidate,
                              attempt |-> CurrentAttempt(tiles[Candidate]),
                              gen |-> fills[Candidate], stop |-> FALSE]
<1> USE RunTileAssumption, WallAssumption
<1>1. CASE UNCHANGED runners
  BY <1>1 DEF Working
<1>2. ASSUME NEW p \in Runners, NEW delivered \in BOOLEAN, LeaseTake(p, delivered)
      PROVE  \/ UNCHANGED runners
             \/ /\ LeaseTake(p, TRUE)
                /\ runners' = [runners EXCEPT ![p] =
                                 [run |-> Candidate,
                                  attempt |-> CurrentAttempt(tiles[Candidate]),
                                  gen |-> fills[Candidate], stop |-> FALSE]]
  <2>1. CASE delivered = TRUE
    BY <1>2, <2>1 DEF LeaseTake
  <2>2. CASE delivered = FALSE
    BY <1>2, <2>2 DEF LeaseTake
  <2>3. QED
    BY <2>1, <2>2
<1>3. ASSUME NEW p \in Runners, Heartbeat(p)
      PROVE  /\ Working(n)
             /\ runners'[n].run = runners[n].run
             /\ runners'[n].attempt = runners[n].attempt
             /\ runners'[n].gen = runners[n].gen
  <2>1. PICK s : runners' = [runners EXCEPT ![p] = [runners[p] EXCEPT !.stop = s]]
    BY <1>3 DEF Heartbeat
  <2>2. QED
    BY <1>3, <2>1 DEF Heartbeat, Working, TypeOK, RunnerStates
<1>4. ASSUME NEW p \in Runners, runners' = [runners EXCEPT ![p] = IdleRunner]
      PROVE  runners'[n] = runners[n]
  BY <1>4 DEF Working, TypeOK, IdleRunner
<1>5. ASSUME NEW p \in Runners, Runner(p)
      PROVE  \/ UNCHANGED runners
             \/ Heartbeat(p)
             \/ \E delivered \in BOOLEAN : LeaseTake(p, delivered)
             \/ runners' = [runners EXCEPT ![p] = IdleRunner]
  BY <1>5 DEF Runner, LeaseBegin, LeaseScan, LeasePass, LeaseDrop, LeaseCancelled, LeaseSkip,
              LeaseNone, HeartbeatDelayed, Crash, EndRun, netVars
<1>6. UNCHANGED runners \/ \E p \in Runners : Runner(p)
  BY DEF Next, vars, Operator, Submit, Cancel, Flag, Delete, LateHeartbeat, GoQuiet,
         Reaper, ReapFlagged, ReapStale, Finish, FinishCheckFlag, FinishSettle,
         FinishRefused, LoseReport, netVars
<1>7. ASSUME NEW p \in Runners, LeaseTake(p, TRUE),
             runners' = [runners EXCEPT ![p] =
                                 [run |-> Candidate,
                                  attempt |-> CurrentAttempt(tiles[Candidate]),
                                  gen |-> fills[Candidate], stop |-> FALSE]]
      PROVE  runners'[n] = runners[n] \/ n = p
  BY <1>7 DEF TypeOK
<1>8. runners'[n] = runners[n] => Working(n)
  BY DEF Working
<1>9. QED
  <2>1. CASE \E p \in Runners : Heartbeat(p)
    BY <1>3, <2>1
  <2>2. CASE runners'[n] = runners[n]
    BY <1>8, <2>2
  <2>3. CASE \E p \in Runners, delivered \in BOOLEAN : LeaseTake(p, delivered)
    <3>1. PICK p \in Runners, delivered \in BOOLEAN : LeaseTake(p, delivered)
      BY <2>3
    <3>2. QED
      BY <1>1, <1>2, <1>7, <2>2, <3>1 DEF TypeOK
  <2>4. QED
    BY <1>4, <1>5, <1>6, <2>1, <2>2, <2>3

\* The claim of a report after a step is that of a report or of a runner before.
LEMMA ReportClaims ==
  ASSUME TypeOK, [Next]_vars, NEW m \in reports'
  PROVE  \/ \E k \in reports : /\ m.run = k.run
                               /\ m.attempt = k.attempt
                               /\ m.gen = k.gen
         \/ \E n \in Runners : /\ Working(n)
                               /\ m.run = runners[n].run
                               /\ m.attempt = runners[n].attempt
                               /\ m.gen = runners[n].gen
<1> USE RunTileAssumption, WallAssumption
<1>1. CASE reports' \subseteq reports
  BY <1>1
<1>2. ASSUME NEW k \in reports, FinishCheckFlag(k)
      PROVE  m \in reports \/ (m.run = k.run /\ m.attempt = k.attempt /\ m.gen = k.gen)
  <2>1. m \in reports \/ m = CheckedReport(k)
    BY <1>2 DEF FinishCheckFlag
  <2>2. /\ CheckedReport(k).run = k.run /\ CheckedReport(k).attempt = k.attempt
        /\ CheckedReport(k).gen = k.gen
    BY DEF CheckedReport, TypeOK, Reports
  <2>3. QED
    BY <2>1, <2>2
<1>3. ASSUME NEW n \in Runners, NEW o \in RunnerOutcomes, EndRun(n, o)
      PROVE  \/ m \in reports
             \/ /\ Working(n)
                /\ m.run = runners[n].run
                /\ m.attempt = runners[n].attempt
                /\ m.gen = runners[n].gen
  BY <1>3 DEF EndRun
<1>4. \/ reports' \subseteq reports
      \/ \E n \in Runners, o \in RunnerOutcomes : EndRun(n, o)
      \/ \E k \in reports : FinishCheckFlag(k)
  BY DEF Next, vars, Operator, Submit, Cancel, Flag, Delete, Runner, LeaseBegin,
         LeaseScan, LeasePass, LeaseDrop, LeaseCancelled, LeaseSkip, LeaseTake, LeaseNone,
         Heartbeat, HeartbeatDelayed, LateHeartbeat, Crash, GoQuiet, Reaper,
         ReapFlagged, ReapStale, Finish, FinishSettle, FinishRefused, LoseReport,
         netVars
<1>5. QED
  BY <1>1, <1>2, <1>3, <1>4

LEMMA ClaimsHoldStep ==
  ASSUME TypeOK, ClaimsHold, [Next]_vars
  PROVE  ClaimsHold'
<1>1. ASSUME NEW n \in Runners, Working(n)
      PROVE  ClaimHolds(tiles'[runners[n].run], fills'[runners[n].run],
                        runners[n].attempt, runners[n].gen)
  <2>1. /\ runners[n].run \in RunIds
        /\ runners[n].attempt \in Nat /\ runners[n].gen \in Nat
    BY <1>1 DEF Working, TypeOK, RunnerStates
  <2>2. QED
    BY <1>1, <2>1, TileSteps, ClaimStays DEF ClaimsHold
<1>2. ASSUME NEW m \in reports
      PROVE  ClaimHolds(tiles'[m.run], fills'[m.run], m.attempt, m.gen)
  <2>1. m.run \in RunIds /\ m.attempt \in Nat /\ m.gen \in Nat
    BY DEF TypeOK, Reports
  <2>2. QED
    BY <2>1, TileSteps, ClaimStays DEF ClaimsHold
<1>3. ASSUME NEW n \in Runners, LeaseTake(n, TRUE)
      PROVE  ClaimHolds(tiles'[Candidate], fills'[Candidate],
                        CurrentAttempt(tiles[Candidate]), fills[Candidate])
  <2> DEFINE r == Candidate
  <2>1. r \in RunIds /\ tiles[r] \in Tiles /\ fills[r] \in Nat
    BY <1>3, CandidateType DEF LeaseTake, TypeOK
  <2>2. /\ tiles'[r] = [tiles[r] EXCEPT !.status = "leased"]
        /\ fills'[r] = fills[r]
    BY <1>3, <2>1 DEF LeaseTake, TypeOK
  <2>3. tiles'[r].attempts = tiles[r].attempts /\ tiles'[r].status = "leased"
    BY <2>1, <2>2 DEF Tiles
  <2>4. CurrentAttempt(tiles'[r]) = CurrentAttempt(tiles[r])
        /\ CurrentAttempt(tiles[r]) \in Nat
    BY <2>1, <2>3, CurrentAttemptType DEF CurrentAttempt
  <2> HIDE DEF r
  <2>5. QED
    BY <2>1, <2>2, <2>3, <2>4 DEF ClaimHolds, r
<1>4. ASSUME NEW n \in Runners, Working(n)'
      PROVE  ClaimHolds(tiles'[runners'[n].run], fills'[runners'[n].run],
                        runners'[n].attempt, runners'[n].gen)
  <2>1. CASE /\ Working(n)
             /\ runners'[n].run = runners[n].run
             /\ runners'[n].attempt = runners[n].attempt
             /\ runners'[n].gen = runners[n].gen
    BY <1>1, <2>1
  <2>2. CASE /\ LeaseTake(n, TRUE)
             /\ runners'[n] = [run |-> Candidate,
                               attempt |-> CurrentAttempt(tiles[Candidate]),
                               gen |-> fills[Candidate], stop |-> FALSE]
    <3>1. /\ runners'[n].run = Candidate
          /\ runners'[n].attempt = CurrentAttempt(tiles[Candidate])
          /\ runners'[n].gen = fills[Candidate]
      BY <2>2
    <3>2. QED
      BY <1>3, <2>2, <3>1
  <2>3. QED
    BY <1>4, <2>1, <2>2, RunnerClaims
<1>5. ASSUME NEW m \in reports'
      PROVE  ClaimHolds(tiles'[m.run], fills'[m.run], m.attempt, m.gen)
  BY <1>1, <1>2, <1>5, ReportClaims
<1>6. QED
  BY <1>4, <1>5 DEF ClaimsHold

\* No runner and no report of the current submission claims an attempt the wall
\* has not handed out, and none claims the one the queue is waiting to hand out.
THEOREM ClaimsCorrect == Spec => []NoClaimAhead
<1> DEFINE IInv == TypeOK /\ ClaimsHold
<1>1. Init => IInv
  BY TypeInit DEF Init, ClaimsHold, Working, IdleRunner
<1>2. IInv /\ [Next]_vars => IInv'
  BY TypeStep, ClaimsHoldStep
<1>3. IInv => NoClaimAhead
  BY ClaimsHoldIsEnough
<1>4. QED
  BY <1>1, <1>2, <1>3, PTL DEF Spec

-----------------------------------------------------------------------------
(* Endless runs and their successors.                                        *)

Children(p) == {c \in RunIds : parent[c] = p}

\* The strengthening that makes OneLivePerChain inductive: a run that is live
\* has not yet queued the successor of its present submission.
ChainHolds ==
    \A p \in RunIds :
        /\ IsFiniteSet(Children(p))
        /\ Cardinality(Children(p)) <= fills[p]
        /\ Live(tiles[p]) => Cardinality(Children(p)) < fills[p]

LEMMA ChainHoldsIsEnough ==
  ASSUME TypeOK, ChainHolds
  PROVE  OneLivePerChain
<1> SUFFICES ASSUME NEW p \in RunIds
             PROVE  /\ Cardinality(Children(p)) <= fills[p]
                    /\ fills[p] = 1 => \A c \in Children(p) :
                                         Live(tiles[c]) => ~Live(tiles[p])
  BY DEF OneLivePerChain, Children
<1>1. /\ IsFiniteSet(Children(p))
      /\ Cardinality(Children(p)) <= fills[p]
      /\ Live(tiles[p]) => Cardinality(Children(p)) < fills[p]
  BY DEF ChainHolds
<1>2. ASSUME fills[p] = 1, Live(tiles[p])
      PROVE  Children(p) = {}
  <2>1. Cardinality(Children(p)) \in Nat
    BY <1>1, FS_CardinalityType
  <2>2. Cardinality(Children(p)) = 0
    BY <1>1, <1>2, <2>1
  <2>3. QED
    BY <1>1, <2>2, FS_EmptySet
<1>3. QED
  BY <1>1, <1>2

\* enqueueNextLocked: next becomes the child of id, whose submission is over.
Queues(id, next) ==
    /\ parent' = [parent EXCEPT ![next] = id]
    /\ Live(tiles[id])
    /\ ~Live(tiles'[id])
    /\ fills'[id] = fills[id]

LEMMA SpawnsWhenFinished ==
  ASSUME NEW t \in Tiles, NEW o \in Outcomes, NEW c \in BOOLEAN,
         SpawnsSuccessor(t, o, c)
  PROVE  Settled(t, o, c).finished
<1>1. Terminal(t, o, c)
  BY DEF SpawnsSuccessor
<1>2. QED
  BY <1>1, SettledFields

\* Only a settlement gives a run a child; a submission takes its id from the
\* chain it was part of.
ParentStep ==
    \/ \A c \in RunIds : parent'[c] \in {parent[c], NoRun}
    \/ \E id, next \in RunIds : Queues(id, next)

LEMMA SettleAsParent ==
  ASSUME TypeOK, NEW id \in RunIds, Live(tiles[id]), NEW t \in Tiles, NEW o \in Outcomes,
         NEW q, NEW c \in BOOLEAN, SettleAs(id, t, o, q, c)
  PROVE  ParentStep
<1>1. CASE SpawnsSuccessor(t, o, c)
  <2>1. PICK next \in FreshIds :
          /\ tiles' = [tiles EXCEPT ![id] = Settled(t, o, c),
                                    ![next] = SuccessorTile(Settled(t, o, c), id)]
          /\ fills' = [fills EXCEPT ![next] = @ + 1]
          /\ parent' = [parent EXCEPT ![next] = id]
    BY <1>1 DEF SettleAs
  <2>2. next \in RunIds /\ next # id
    BY DEF FreshIds, Live
  <2>3. tiles'[id] = Settled(t, o, c) /\ fills'[id] = fills[id]
    BY <2>1, <2>2 DEF TypeOK
  <2>4. Settled(t, o, c).finished
    BY <1>1, SpawnsWhenFinished
  <2>5. QED
    BY <2>1, <2>2, <2>3, <2>4 DEF Queues, Live, ParentStep
<1>2. CASE ~SpawnsSuccessor(t, o, c)
  BY <1>2 DEF SettleAs, ParentStep
<1>3. QED
  BY <1>1, <1>2

LEMMA ParentSteps ==
  ASSUME TypeOK, [Next]_vars
  PROVE  ParentStep
<1> USE RunTileAssumption, WallAssumption
<1> DEFINE Goal == ParentStep
<1>1. CASE UNCHANGED parent
  BY <1>1 DEF ParentStep
<1>2. ASSUME NEW p \in Submittable, NEW spec \in SubmitSpecs, Submit(p, spec)
      PROVE  Goal
  BY <1>2 DEF Submit, TypeOK, ParentStep
<1>3. ASSUME NEW id \in RunIds, Live(tiles[id]), Settling(id)
      PROVE  Goal
  <2>1. PICK o \in Outcomes, q \in Seq(RunIds) :
          \E t \in {tiles[id], NoteProgress(tiles[id], o)} : SettleRun(id, t, o, q)
    BY <1>3, SettlingCalls
  <2>2. PICK t \in {tiles[id], NoteProgress(tiles[id], o)} : SettleRun(id, t, o, q)
    BY <2>1
  <2>3. t \in Tiles
    BY <2>2, NoteProgressType DEF TypeOK
  <2>4. QED
    BY <1>3, <2>2, <2>3, SettleRunIs, SettleAsParent
<1>4. ASSUME NEW n \in Runners, LeaseCancelled(n)
      PROVE  Goal
  <2>1. Candidate \in RunIds /\ Live(tiles[Candidate])
    BY <1>4, CandidateType DEF LeaseCancelled
  <2>2. QED
    BY <1>3, <1>4, <2>1 DEF Settling
<1>5. ASSUME NEW m \in reports, FinishSettle(m)
      PROVE  Goal
  <2>1. m.run \in RunIds /\ Live(tiles[m.run])
    BY <1>5 DEF FinishSettle, FinishAccepted, TypeOK, Reports
  <2>2. QED
    BY <1>3, <1>5, <2>1 DEF Settling
<1>6. ASSUME NEW p \in RunIds, Reaper(p)
      PROVE  Goal
  <2>1. Live(tiles[p])
    BY <1>6 DEF Reaper, ReapFlagged, ReapStale, Reapable
  <2>2. QED
    BY <1>3, <1>6, <2>1 DEF Settling
<1>7. ASSUME NEW n \in Runners, Runner(n)
      PROVE  Goal
  BY <1>1, <1>4, <1>7
     DEF Runner, LeaseBegin, LeaseScan, LeasePass, LeaseDrop, LeaseSkip, LeaseNone,
         LeaseTake, Heartbeat, NoteHeartbeat, HeartbeatDelayed, Crash, EndRun, wallVars
<1>8. ASSUME NEW m \in reports, Finish(m) \/ LoseReport(m)
      PROVE  Goal
  BY <1>1, <1>5, <1>8
     DEF Finish, FinishCheckFlag, FinishRefused, LoseReport, wallVars
<1>9. ASSUME NEW p \in RunIds,
             Cancel(p) \/ Flag(p) \/ Delete(p) \/ LateHeartbeat(p) \/ GoQuiet(p)
      PROVE  Goal
  BY <1>1, <1>9
     DEF Cancel, Flag, Delete, LateHeartbeat, NoteHeartbeat, GoQuiet, wallVars
<1>10. CASE UNCHANGED vars
  BY <1>1, <1>10 DEF vars
<1>11. QED
  BY <1>2, <1>6, <1>7, <1>8, <1>9, <1>10 DEF Next, Operator

\* Where no child is added, the run keeps its count or gets a submission more.
LEMMA NoChildAdded ==
  ASSUME TypeOK, ChainHolds, NEW p \in RunIds, TileStep(p),
         Children(p)' \subseteq Children(p)
  PROVE  /\ IsFiniteSet(Children(p)')
         /\ Cardinality(Children(p)') <= fills'[p]
         /\ Live(tiles'[p]) => Cardinality(Children(p)') < fills'[p]
<1> DEFINE old == Cardinality(Children(p))
           new == Cardinality(Children(p)')
<1>1. /\ IsFiniteSet(Children(p)) /\ old <= fills[p] /\ fills[p] \in Nat
      /\ Live(tiles[p]) => old < fills[p]
  BY DEF ChainHolds, TypeOK
<1>2. IsFiniteSet(Children(p)') /\ new <= old
  BY <1>1, FS_Subset
<1>3. old \in Nat /\ new \in Nat
  BY <1>1, <1>2, FS_CardinalityType
<1>4. \/ fills'[p] = fills[p] + 1
      \/ fills'[p] = fills[p] /\ (Live(tiles'[p]) => Live(tiles[p]))
  <2>1. TileStep(p)
    OBVIOUS
  <2>2. QED
    BY <2>1, AbsentFields
       DEF TileStep, Kept, Filled, Removed, Flagged, Active, SettledNow
<1> HIDE DEF old, new
<1>5. new <= fills'[p] /\ (Live(tiles'[p]) => new < fills'[p])
  BY <1>1, <1>2, <1>3, <1>4
<1>6. QED
  BY <1>2, <1>5 DEF new

LEMMA ChainByTiles ==
  ASSUME TypeOK, ChainHolds, ParentStep, \A r \in RunIds : TileStep(r)
  PROVE  ChainHolds'
<1> USE RunTileAssumption
<1> SUFFICES ASSUME NEW p \in RunIds
             PROVE  /\ IsFiniteSet(Children(p)')
                    /\ Cardinality(Children(p)') <= fills'[p]
                    /\ Live(tiles'[p]) => Cardinality(Children(p)') < fills'[p]
  BY DEF ChainHolds
<1>1. CASE \A c \in RunIds : parent'[c] \in {parent[c], NoRun}
  <2>1. Children(p)' \subseteq Children(p)
    BY <1>1 DEF Children
  <2>2. QED
    BY <2>1, NoChildAdded
<1>2. ASSUME NEW id \in RunIds, NEW next \in RunIds, Queues(id, next), p # id
      PROVE  Children(p)' \subseteq Children(p)
  BY <1>2 DEF Queues, Children, TypeOK
<1>3. ASSUME NEW next \in RunIds, Queues(p, next)
      PROVE  /\ IsFiniteSet(Children(p)')
             /\ Cardinality(Children(p)') <= fills'[p]
             /\ ~Live(tiles'[p])
  <2>1. Children(p)' = Children(p) \cup {next}
    BY <1>3 DEF Queues, Children, TypeOK
  <2>2. /\ IsFiniteSet(Children(p)) /\ fills[p] \in Nat
        /\ Cardinality(Children(p)) < fills[p]
    BY <1>3 DEF ChainHolds, Queues, TypeOK
  <2>3. Cardinality(Children(p)) \in Nat
    BY <2>2, FS_CardinalityType
  <2>4. /\ IsFiniteSet(Children(p) \cup {next})
        /\ Cardinality(Children(p) \cup {next}) <= Cardinality(Children(p)) + 1
    <3>1. /\ IsFiniteSet(Children(p) \cup {next})
          /\ Cardinality(Children(p) \cup {next}) =
               IF next \in Children(p) THEN Cardinality(Children(p))
                                       ELSE Cardinality(Children(p)) + 1
      BY <2>2, FS_AddElement, Zenon
    <3>2. QED
      BY <2>3, <3>1
  <2>5. Cardinality(Children(p) \cup {next}) \in Nat
    BY <2>4, FS_CardinalityType
  <2>6. fills'[p] = fills[p] /\ ~Live(tiles'[p])
    BY <1>3 DEF Queues
  <2>7. QED
    BY <2>1, <2>2, <2>3, <2>4, <2>5, <2>6
<1>4. CASE \E id, next \in RunIds : Queues(id, next)
  BY <1>2, <1>3, <1>4, NoChildAdded
<1>5. QED
  BY <1>1, <1>4 DEF ParentStep

LEMMA ChainHoldsStep ==
  ASSUME TypeOK, ChainHolds, [Next]_vars
  PROVE  ChainHolds'
  BY TileSteps, ParentSteps, ChainByTiles

\* No run is live or has a successor before the first submission.
LEMMA ChainInit ==
  ASSUME Init
  PROVE  ChainHolds
<1>1. \A p \in RunIds : Children(p) = {}
  BY RunTileAssumption DEF Init, Children
<1>2. \A p \in RunIds : fills[p] = 0 /\ ~Live(tiles[p])
  BY AbsentFields DEF Init
<1>3. IsFiniteSet({}) /\ Cardinality({}) = 0
  BY FS_EmptySet
<1>4. ASSUME NEW p \in RunIds
      PROVE  /\ IsFiniteSet(Children(p))
             /\ Cardinality(Children(p)) <= fills[p]
             /\ Live(tiles[p]) => Cardinality(Children(p)) < fills[p]
  <2>1. IsFiniteSet(Children(p)) /\ Cardinality(Children(p)) = 0
    BY <1>1, <1>3, Zenon
  <2>2. QED
    BY <1>2, <2>1
<1>5. QED
  BY <1>4 DEF ChainHolds

\* An endless run queues at most one successor per submission, and never while
\* it is live itself: no order of reports, sweeps and cancels doubles a chain.
THEOREM ChainCorrect == Spec => []OneLivePerChain
<1> DEFINE IInv == TypeOK /\ ChainHolds
<1>1. Init => IInv
  BY TypeInit, ChainInit
<1>2. IInv /\ [Next]_vars => IInv'
  BY TypeStep, ChainHoldsStep
<1>3. IInv => OneLivePerChain
  BY ChainHoldsIsEnough
<1>4. QED
  BY <1>1, <1>2, <1>3, PTL DEF Spec

-----------------------------------------------------------------------------
(* The lineage of the runs that may resume: Lineage, for any tile map.       *)

Roots(ts) == {r \in RunIds : Live(ts[r]) \/ ts[r].status = "paused"}

\* From a run and the ancestors that ran so far to its own ancestor.
Back(ts, p) ==
    <<ts[p[1]].resumeFrom, IF ts[p[1]].attempts > 0 THEN p[2] + 1 ELSE p[2]>>

Further(ts, found) == {Back(ts, p) : p \in {p \in found : p[1] \in RunIds}}

\* The function that Lineage is defined by.
WalkStep(ts, w) ==
    [hop \in 1..Cardinality(RunIds) |->
       IF hop = 1 THEN {<<ts[r].resumeFrom, 0>> : r \in Roots(ts)}
       ELSE Further(ts, w[hop - 1])]

LineageBy(ts, w) ==
    LET reached == UNION {w[hop] : hop \in 1..Cardinality(RunIds)}
    IN Roots(ts) \cup {p[1] : p \in {p \in reached : p[2] < LineageDepth}}

LineageOf(ts) == LineageBy(ts, CHOOSE w : w = WalkStep(ts, w))

Ancestors(ts) ==
    \A r \in RunIds : ts[r].resumeFrom \in RunIds \cup {NoRun} /\ ts[r].attempts \in Nat

LEMMA LineageIs == Lineage = LineageOf(tiles) /\ Lineage' = LineageOf(tiles')
  BY DEF Lineage, LineageOf, LineageBy, WalkStep, Further, Back, Roots

LEMMA WalkExists ==
  ASSUME IsFiniteSet(RunIds), NEW ts, Ancestors(ts)
  PROVE  \E w : w = WalkStep(ts, w) /\ LineageOf(ts) = LineageBy(ts, w)
<1> DEFINE n == Cardinality(RunIds)
           Pairs == (RunIds \cup {NoRun}) \X Nat
           U == SUBSET Pairs
           start == {<<ts[r].resumeFrom, 0>> : r \in Roots(ts)}
           step == [x \in Nat \X U |-> IF x[1] = 1 THEN start ELSE Further(ts, x[2])]
<1>1. n \in Nat
  BY FS_CardinalityType
<1>2. start \in U
  BY DEF Ancestors, Roots
<1>3. ASSUME NEW found \in U
      PROVE  Further(ts, found) \in U
  <2>1. ASSUME NEW p \in found, p[1] \in RunIds
        PROVE  Back(ts, p) \in Pairs
    <3>1. p[2] \in Nat
      OBVIOUS
    <3>2. QED
      BY <2>1, <3>1 DEF Ancestors, Back
  <2>2. QED
    BY <2>1 DEF Further
<1>4. IsStep(U, step)
  <2>1. ASSUME NEW x \in Nat \X U
        PROVE  step[x] \in U
    BY <1>2, <1>3, <2>1
  <2>2. QED
    BY <2>1 DEF IsStep
<1>5. \A i \in Nat, found \in U :
        step[<<i, found>>] = IF i = 1 THEN start ELSE Further(ts, found)
  OBVIOUS
<1>6. {} \in U
  OBVIOUS
<1> HIDE DEF step, U, start, n
<1>7. PICK f : Unfolds(f, U, {}, step, n)
  BY <1>1, <1>4, <1>6, Recursion
<1> DEFINE w == [hop \in 1..n |-> f[hop]]
<1>8. ASSUME NEW hop \in 1..n
      PROVE  w[hop] = IF hop = 1 THEN start ELSE Further(ts, w[hop - 1])
  <2>1. hop \in Nat /\ hop - 1 \in 0..n
    BY <1>1
  <2>2. f[hop - 1] \in U /\ f[hop] = step[<<hop, f[hop - 1]>>]
    BY <1>7, <2>1 DEF Unfolds
  <2>3. f[hop] = IF hop = 1 THEN start ELSE Further(ts, f[hop - 1])
    BY <1>5, <2>1, <2>2
  <2>4. hop # 1 => hop - 1 \in 1..n
    BY <1>1
  <2>5. QED
    BY <2>3, <2>4
<1>9. w = WalkStep(ts, w)
  <2>1. w = [hop \in 1..n |-> IF hop = 1 THEN start ELSE Further(ts, w[hop - 1])]
    BY <1>8
  <2>2. QED
    BY <2>1 DEF WalkStep, n, start
<1> HIDE DEF w
<1> DEFINE v == CHOOSE v : v = WalkStep(ts, v)
<1>10. v = WalkStep(ts, v)
  BY <1>9
<1>11. LineageOf(ts) = LineageBy(ts, v)
  BY DEF LineageOf
<1>12. QED
  BY <1>10, <1>11

\* One hop of a walk, forwards and backwards.
LEMMA WalkHops ==
  ASSUME NEW ts, NEW w, w = WalkStep(ts, w), NEW hop \in 1..Cardinality(RunIds)
  PROVE  /\ \A p, k : <<p, k>> \in w[hop] =>
              \/ hop = 1 /\ k = 0 /\ \E r \in Roots(ts) : p = ts[r].resumeFrom
              \/ /\ hop # 1
                 /\ \E x \in w[hop - 1] : x[1] \in RunIds /\ <<p, k>> = Back(ts, x)
         /\ hop = 1 => \A r \in Roots(ts) : <<ts[r].resumeFrom, 0>> \in w[hop]
         /\ hop # 1 => \A x \in w[hop - 1] : x[1] \in RunIds => Back(ts, x) \in w[hop]
<1>1. w[hop] = IF hop = 1 THEN {<<ts[r].resumeFrom, 0>> : r \in Roots(ts)}
               ELSE Further(ts, w[hop - 1])
  BY DEF WalkStep
<1>2. QED
  BY <1>1 DEF Further

\* What a step may do to a tile, as far as lineages are concerned: the run keeps
\* its ancestor and comes to be no root, or starts a lineage of its own or below
\* a root, or no lineage reaches it and it is taken out of the tile map.
LineageMove(ts, us, r) ==
    \/ /\ us[r].resumeFrom = ts[r].resumeFrom
       /\ ts[r].attempts > 0 => us[r].attempts > 0
       /\ Known(us[r]) <=> Known(ts[r])
       /\ r \in Roots(us) => r \in Roots(ts)
    \/ Known(us[r]) /\ us[r].resumeFrom \in Roots(ts) \cup {NoRun}
    \/ us[r].resumeFrom = NoRun /\ r \notin LineageOf(ts)

\* A run that was a root, or that a walk met at most h hops and k ancestors away.
Met(ts, w, p, k, h) ==
    /\ k \in Nat
    /\ \/ p \in Roots(ts)
       \/ \E j \in 1..h, m \in 0..k : <<p, m>> \in w[j]

\* A walk after the step meets no run that was not met before it.
LEMMA WalkBack ==
  ASSUME NEW ts, NEW us, Ancestors(ts), Ancestors(us),
         \A r \in RunIds : LineageMove(ts, us, r),
         NEW w, w = WalkStep(ts, w), NEW v, v = WalkStep(us, v),
         NEW n \in Nat, n = Cardinality(RunIds)
  PROVE  \A h \in 1..n : \A p \in RunIds : \A k : <<p, k>> \in v[h] => Met(ts, w, p, k, h)
<1> USE RunTileAssumption
<1> DEFINE Back1(h) == \A p \in RunIds : \A k : <<p, k>> \in v[h] => Met(ts, w, p, k, h)
           T == {h \in Nat : h \in 1..n => Back1(h)}
<1>1. ASSUME 1 \in 1..n
      PROVE  Back1(1)
  <2> SUFFICES ASSUME NEW p \in RunIds, NEW k, <<p, k>> \in v[1]
               PROVE  Met(ts, w, p, k, 1)
    OBVIOUS
  <2>1. k = 0 /\ \E r \in Roots(us) : p = us[r].resumeFrom
    BY <1>1, WalkHops
  <2>2. PICK r \in Roots(us) : p = us[r].resumeFrom
    BY <2>1
  <2>3. r \in RunIds /\ p # NoRun /\ LineageMove(ts, us, r)
    BY <2>2 DEF Roots
  <2>4. CASE p = ts[r].resumeFrom /\ r \in Roots(ts)
    <3>1. <<p, 0>> \in w[1]
      BY <1>1, <2>4, WalkHops
    <3>2. 1 \in 1..1 /\ 0 \in 0..k /\ k \in Nat
      BY <2>1
    <3>3. QED
      BY <3>1, <3>2 DEF Met
  <2>5. CASE p \in Roots(ts)
    BY <2>1, <2>5 DEF Met
  <2>6. QED
    BY <2>2, <2>3, <2>4, <2>5 DEF LineageMove
<1>2. ASSUME NEW h \in Nat, h \in 1..n, h + 1 \in 1..n, Back1(h)
      PROVE  Back1(h + 1)
  <2> SUFFICES ASSUME NEW p \in RunIds, NEW k, <<p, k>> \in v[h + 1]
               PROVE  Met(ts, w, p, k, h + 1)
    OBVIOUS
  <2>1. h + 1 # 1 /\ (h + 1) - 1 = h
    BY <1>2
  <2>2. PICK x \in v[h] : x[1] \in RunIds /\ <<p, k>> = Back(us, x)
    <3>1. v[h + 1] = Further(us, v[(h + 1) - 1])
      BY <1>2, <2>1 DEF WalkStep
    <3>2. v[h + 1] = Further(us, v[h])
      BY <2>1, <3>1
    <3>3. QED
      BY <3>2 DEF Further
  <2> DEFINE q == x[1]
             l == x[2]
             ran == IF us[q].attempts > 0 THEN l + 1 ELSE l
  <2>3. /\ q \in RunIds /\ p = us[q].resumeFrom /\ k = ran /\ p # NoRun
        /\ LineageMove(ts, us, q)
    BY <2>2 DEF Back
  <2>4. x = <<q, l>>
    <3>1. \/ \E r \in Roots(us) : x = <<us[r].resumeFrom, 0>>
          \/ \E y \in v[h - 1] : x = Back(us, y)
      <4>1. v[h] = IF h = 1 THEN {<<us[r].resumeFrom, 0>> : r \in Roots(us)}
                   ELSE Further(us, v[h - 1])
        BY <1>2 DEF WalkStep
      <4>2. QED
        BY <4>1 DEF Further
    <3>2. QED
      BY <3>1 DEF Back
  <2>5. Met(ts, w, q, l, h)
    BY <1>2, <2>2, <2>3, <2>4
  <2>6. l \in Nat /\ k \in Nat /\ l <= k
    BY <2>3, <2>5 DEF Met
  <2>7. CASE p \in Roots(ts)
    BY <2>6, <2>7 DEF Met
  <2>8. CASE /\ p = ts[q].resumeFrom
             /\ ts[q].attempts > 0 => us[q].attempts > 0
             /\ q \in Roots(ts)
    <3>1. 1 \in 1..n /\ 1 \in 1..(h + 1) /\ 0 \in 0..k
      BY <1>2, <2>6
    <3>2. <<p, 0>> \in w[1]
      BY <2>8, <3>1, WalkHops
    <3>3. QED
      BY <2>6, <3>1, <3>2 DEF Met
  <2>9. CASE /\ p = ts[q].resumeFrom
             /\ ts[q].attempts > 0 => us[q].attempts > 0
             /\ q \notin Roots(ts)
    <3>1. PICK j \in 1..h, m \in 0..l : <<q, m>> \in w[j]
      BY <2>5, <2>9 DEF Met
    <3>2. /\ j + 1 \in 1..n /\ j + 1 \in 1..(h + 1) /\ j + 1 # 1 /\ (j + 1) - 1 = j
          /\ m \in Nat /\ m <= l
      BY <1>2, <2>6
    <3> DEFINE m2 == IF ts[q].attempts > 0 THEN m + 1 ELSE m
    <3>3. Back(ts, <<q, m>>) = <<p, m2>>
      BY <2>9 DEF Back
    <3> HIDE DEF m2
    <3>4. <<p, m2>> \in w[j + 1]
      <4>1. \A y \in w[j] : y[1] \in RunIds => Back(ts, y) \in w[j + 1]
        BY <3>2, WalkHops
      <4>2. <<q, m>>[1] = q
        OBVIOUS
      <4> HIDE DEF q
      <4>3. QED
        BY <2>3, <3>1, <3>3, <4>1, <4>2
    <3>5. m2 \in 0..k
      BY <2>3, <2>6, <2>9, <3>2 DEF m2
    <3>6. QED
      BY <2>6, <3>2, <3>4, <3>5 DEF Met
  <2>10. QED
    BY <2>3, <2>7, <2>8, <2>9 DEF LineageMove
<1>3. T = Nat
  <2>1. 0 \in T
    OBVIOUS
  <2>2. ASSUME NEW h \in Nat, h \in T
        PROVE  h + 1 \in T
    <3>1. CASE h = 0
      BY <1>1, <3>1
    <3>2. CASE h # 0
      <4>1. h + 1 \in 1..n => h \in 1..n
        BY <3>2
      <4> HIDE DEF Back1
      <4>2. QED
        BY <1>2, <2>2, <4>1
    <3>3. QED
      BY <3>1, <3>2
  <2> HIDE DEF T
  <2>3. Nat \subseteq T
    BY <2>1, <2>2, SetInduction
  <2>4. T \subseteq Nat
    BY DEF T
  <2>5. QED
    BY <2>3, <2>4
<1>4. ASSUME NEW h \in 1..n
      PROVE  Back1(h)
  <2>1. h \in T
    BY <1>3
  <2> HIDE DEF Back1
  <2>2. QED
    BY <2>1
<1>5. QED
  BY <1>4

\* What a walk meets is in the lineage.
LEMMA MetInLineage ==
  ASSUME NEW ts, NEW w, LineageOf(ts) = LineageBy(ts, w),
         NEW n \in Nat, n = Cardinality(RunIds), NEW h \in 1..n,
         NEW p, NEW k, Met(ts, w, p, k, h), k < LineageDepth
  PROVE  p \in LineageOf(ts)
<1>1. CASE p \in Roots(ts)
  BY <1>1 DEF LineageBy
<1>2. CASE \E j \in 1..h, m \in 0..k : <<p, m>> \in w[j]
  <2>1. PICK j \in 1..h, m \in 0..k : <<p, m>> \in w[j]
    BY <1>2
  <2>2. j \in 1..n /\ m < LineageDepth
    BY <2>1, WallAssumption DEF Met
  <2>3. QED
    BY <2>1, <2>2 DEF LineageBy
<1>3. QED
  BY <1>1, <1>2 DEF Met

LEMMA LineageStep ==
  ASSUME IsFiniteSet(RunIds), NEW ts, NEW us, Ancestors(ts), Ancestors(us),
         \A r \in RunIds : LineageMove(ts, us, r),
         \A r \in LineageOf(ts) \ {NoRun} : Known(ts[r])
  PROVE  \A r \in LineageOf(us) \ {NoRun} : Known(us[r])
<1> DEFINE n == Cardinality(RunIds)
<1>1. n \in Nat
  BY FS_CardinalityType
<1>2. PICK w : w = WalkStep(ts, w) /\ LineageOf(ts) = LineageBy(ts, w)
  BY WalkExists
<1>3. PICK v : v = WalkStep(us, v) /\ LineageOf(us) = LineageBy(us, v)
  BY WalkExists
<1> SUFFICES ASSUME NEW r \in LineageOf(us), r # NoRun
             PROVE  Known(us[r])
  OBVIOUS
<1>4. CASE r \in Roots(us)
  BY <1>4 DEF Roots, Live, Known
<1>5. CASE \E h \in 1..n : \E x \in v[h] : r = x[1] /\ x[2] < LineageDepth
  <2>0. PICK h \in 1..n : \E x \in v[h] : r = x[1] /\ x[2] < LineageDepth
    BY <1>5
  <2>1. PICK x \in v[h] : r = x[1] /\ x[2] < LineageDepth
    BY <2>0
  <2>2. x = <<r, x[2]>> /\ r \in RunIds
    <3>1. \/ \E p \in Roots(us) : x = <<us[p].resumeFrom, 0>>
          \/ \E y \in v[h - 1] : y[1] \in RunIds /\ x = Back(us, y)
      <4>1. v[h] = IF h = 1 THEN {<<us[p].resumeFrom, 0>> : p \in Roots(us)}
                   ELSE Further(us, v[h - 1])
        BY <1>3 DEF WalkStep
      <4>2. QED
        BY <2>1, <4>1 DEF Further
    <3>2. QED
      BY <2>1, <3>1 DEF Back, Ancestors, Roots
  <2>3. Met(ts, w, r, x[2], h)
    BY <1>1, <1>2, <1>3, <2>1, <2>2, WalkBack
  <2>4. r \in LineageOf(ts)
    BY <1>1, <1>2, <2>1, <2>3, MetInLineage
  <2>5. Known(ts[r])
    BY <2>4
  <2>6. QED
    BY <2>2, <2>4, <2>5 DEF LineageMove
<1>6. QED
  BY <1>3, <1>4, <1>5 DEF LineageBy

LEMMA LineageMoves ==
  ASSUME TypeOK, NEW r \in RunIds, TileStep(r)
  PROVE  LineageMove(tiles, tiles', r)
<1> DEFINE t == tiles[r]
           u == tiles'[r]
           Same == /\ u.resumeFrom = t.resumeFrom
                   /\ t.attempts > 0 => u.attempts > 0
                   /\ Known(u) <=> Known(t)
                   /\ r \in Roots(tiles') => r \in Roots(tiles)
<1>1. TileStep(r) /\ t \in Tiles
  BY DEF TypeOK
<1>2. Live(t) => r \in Roots(tiles) /\ Known(t)
  BY DEF Roots, Live
<1>3. CASE Kept(r)
  BY <1>3 DEF Kept, LineageMove, Roots
<1>4. CASE Filled(r)
  <2>1. PICK spec \in Specs, from \in {p \in RunIds : Live(tiles[p])} \cup {NoRun} :
          u = FreshTile(spec, from)
    BY <1>4 DEF Filled
  <2>2. u.status = "queued" /\ u.resumeFrom = from
    BY <2>1 DEF FreshTile, AbsentTile
  <2>3. Known(u) /\ from \in Roots(tiles) \cup {NoRun}
    BY <2>1, <2>2 DEF Known, Roots
  <2>4. QED
    BY <2>2, <2>3 DEF LineageMove
<1>5. CASE Removed(r)
  <2>1. AbsentTile.resumeFrom = NoRun
    BY DEF AbsentTile
  <2>2. r \notin LineageOf(tiles) /\ u = AbsentTile
    BY <1>5, LineageIs DEF Removed
  <2>3. QED
    BY <2>1, <2>2 DEF LineageMove
<1>6. CASE Flagged(r) \/ Active(r)
  <2>1. u.resumeFrom = t.resumeFrom /\ u.attempts = t.attempts /\ Known(u) /\ Live(t)
    BY <1>1, <1>6 DEF Flagged, Active, Tiles, Known, Live
  <2>2. QED
    BY <1>2, <2>1 DEF LineageMove
<1>7. CASE SettledNow(r)
  <2>1. Live(t)
    BY <1>7 DEF SettledNow
  <2>2. PICK o \in Outcomes, c \in BOOLEAN :
          u = Settled(t, o, c) \/ u = Settled(NoteProgress(t, o), o, c)
    BY <1>7 DEF SettledNow
  <2>3. \A v \in Tiles : /\ Settled(v, o, c).resumeFrom = v.resumeFrom
                         /\ Settled(v, o, c).attempts > 0
                         /\ Known(Settled(v, o, c))
    <3> SUFFICES ASSUME NEW v \in Tiles
                 PROVE  /\ Settled(v, o, c).resumeFrom = v.resumeFrom
                        /\ Settled(v, o, c).attempts > 0
                        /\ Known(Settled(v, o, c))
      OBVIOUS
    <3> DEFINE w == Counted(v, o)
    <3>1. w \in Tiles
      BY CountedType
    <3>2. w.resumeFrom = v.resumeFrom /\ w.attempts > 0
      <4>1. w.resumeFrom = v.resumeFrom
        BY DEF Counted, Tiles
      <4>2. w.attempts = v.attempts + 1 /\ v.attempts \in Nat
        BY CountedFields DEF Tiles
      <4>3. QED
        BY <4>1, <4>2
    <3>3. \/ Settled(v, o, c) = [w EXCEPT !.status = "done", !.finished = TRUE,
                                          !.reason = o.reason]
          \/ Settled(v, o, c) = [w EXCEPT !.status = "queued", !.finished = FALSE,
                                          !.reason = ""]
      BY DEF Settled
    <3> HIDE DEF w
    <3>4. QED
      BY <3>1, <3>2, <3>3 DEF Tiles, Known
  <2>4. NoteProgress(t, o) \in Tiles /\ NoteProgress(t, o).resumeFrom = t.resumeFrom
    <3>1. NoteProgress(t, o).resumeFrom = t.resumeFrom
      BY <1>1 DEF NoteProgress, NoCircuit, Tiles
    <3>2. QED
      BY <1>1, <3>1, NoteProgressType
  <2>5. u.resumeFrom = t.resumeFrom /\ u.attempts > 0 /\ Known(u)
    BY <1>1, <2>2, <2>3, <2>4
  <2>6. QED
    BY <1>2, <2>1, <2>5 DEF LineageMove
<1>8. QED
  BY <1>1, <1>3, <1>4, <1>5, <1>6, <1>7 DEF TileStep

\* Every walk of the first state is empty.
LEMMA LineageInit ==
  ASSUME IsFiniteSet(RunIds), Init
  PROVE  LineageKept
<1>1. Roots(tiles) = {} /\ Ancestors(tiles)
  BY AbsentFields, TypeInit DEF Init, Roots, Ancestors, TypeOK, Tiles
<1>2. PICK w : w = WalkStep(tiles, w) /\ Lineage = LineageBy(tiles, w)
  BY <1>1, WalkExists, LineageIs
<1> DEFINE T == {h \in Nat : h \in 1..Cardinality(RunIds) => w[h] = {}}
<1>3. 0 \in T
  OBVIOUS
<1>4. ASSUME NEW h \in Nat, h \in T
      PROVE  h + 1 \in T
  <2>1. ASSUME h = 0, 1 \in 1..Cardinality(RunIds)
        PROVE  w[1] = {}
    <3>1. w[1] = {<<tiles[r].resumeFrom, 0>> : r \in Roots(tiles)}
      BY <1>2, <2>1 DEF WalkStep
    <3>2. QED
      BY <1>1, <3>1
  <2>2. ASSUME h # 0, h + 1 \in 1..Cardinality(RunIds)
        PROVE  w[h + 1] = {}
    <3>1. h \in 1..Cardinality(RunIds) /\ h + 1 # 1 /\ (h + 1) - 1 = h
      BY <2>2, FS_CardinalityType
    <3>2. w[h] = {}
      BY <1>4, <3>1
    <3>3. w[h + 1] = Further(tiles, w[h])
      BY <1>2, <2>2, <3>1 DEF WalkStep
    <3>4. QED
      BY <3>2, <3>3 DEF Further
  <2>3. QED
    BY <2>1, <2>2
<1> HIDE DEF T
<1>5. Nat \subseteq T
  BY <1>3, <1>4, SetInduction
<1>6. \A h \in 1..Cardinality(RunIds) : w[h] = {}
  BY <1>5, FS_CardinalityType DEF T
<1>7. QED
  BY <1>1, <1>2, <1>6 DEF LineageBy, LineageKept

LEMMA LineageByTiles ==
  ASSUME IsFiniteSet(RunIds), TypeOK, TypeOK', LineageKept,
         \A r \in RunIds : TileStep(r)
  PROVE  LineageKept'
<1>1. Ancestors(tiles) /\ Ancestors(tiles')
  BY DEF Ancestors, TypeOK, Tiles
<1>2. \A r \in RunIds : LineageMove(tiles, tiles', r)
  BY LineageMoves
<1>3. \A r \in LineageOf(tiles) \ {NoRun} : Known(tiles[r])
  BY LineageIs DEF LineageKept
<1>4. \A r \in LineageOf(tiles') \ {NoRun} : Known(tiles'[r])
  BY <1>1, <1>2, <1>3, LineageStep
<1>5. QED
  BY <1>4, LineageIs DEF LineageKept

LEMMA LineageKeptStep ==
  ASSUME IsFiniteSet(RunIds), TypeOK, LineageKept, [Next]_vars
  PROVE  LineageKept'
  BY TypeStep, TileSteps, LineageByTiles

\* The checkpoints that a live or paused run may fall back to stay: no order of
\* deletions, submissions, retries and successors removes an ancestor that a
\* lineage still reaches, however long the chain and wherever the walk stops.
THEOREM LineageCorrect == ASSUME IsFiniteSet(RunIds) PROVE Spec => []LineageKept
<1> DEFINE IInv == TypeOK /\ LineageKept
<1>1. Init => IInv
  BY TypeInit, LineageInit
<1>2. IInv /\ [Next]_vars => IInv'
  BY TypeStep, LineageKeptStep
<1>3. IInv => LineageKept
  OBVIOUS
<1>4. QED
  BY <1>1, <1>2, <1>3, PTL DEF Spec

=============================================================================
