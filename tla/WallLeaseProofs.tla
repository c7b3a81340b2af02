--------------------------- MODULE WallLeaseProofs ---------------------------
(***************************************************************************)
(* The exclusiveness of leases, for every set of runs and runners: while no *)
(* runner outlives its generation (~Zombies), one runner plays a run at a   *)
(* time, the queue is exact, Wall implements LeaseBook, and all but the     *)
(* last survives the restarts of WallStore.  What holds with such runners   *)
(* too (Safe) survives them as well.                                        *)
(***************************************************************************)
EXTENDS WallProofs, WallStore

\* Run r is out and attempt a is the one that is out.
Out(t, a) == t.status \in {"leased", "running"} /\ a = CurrentAttempt(t)

\* Whoever plays or reports a run holds the generation that is out.
HoldersAreOut ==
    /\ \A n \in Runners : Working(n) => Out(tiles[runners[n].run], runners[n].attempt)
    /\ \A m \in reports : Out(tiles[m.run], m.attempt)

\* A run has one holder: a runner that plays it, or a report of it.
OneHolder ==
    /\ ExclusiveLease
    /\ \A n \in Runners, m \in reports : runners[n].run # m.run
    /\ \A k, m \in reports : k.run = m.run => k = m

\* Only runs without a holder go quiet.
QuietIsAbandoned == \A r \in stale : Abandoned(r)

\* A runner asks for a lease only when it plays nothing.
ScannerIsIdle == holder \in Runners => ~Working(holder)

LeaseInv ==
    /\ TypeOK
    /\ FinishedMatchesStatus
    /\ QueueIsExact
    /\ HoldersAreOut
    /\ OneHolder
    /\ QuietIsAbandoned
    /\ ScannerIsIdle
    /\ late = {}

-----------------------------------------------------------------------------
(* Entries of a queue.                                                       *)

Distinct(q) == \A i, j \in 1..Len(q) : q[i] = q[j] => i = j

\* Queue q holds the runs that are queued according to ts, each once.
Exact(ts, q) ==
    /\ \A r \in RunIds : HasEntry(q, r) <=> ts[r].status = "queued"
    /\ Distinct(q)

LEMMA QueueIsExactHere == QueueIsExact <=> Exact(tiles, queue)
  BY DEF QueueIsExact, InQueue, Exact, HasEntry, Distinct

LEMMA AppendDistinct ==
  ASSUME NEW S, NEW q \in Seq(S), NEW x \in S, Distinct(q), ~HasEntry(q, x)
  PROVE  /\ Distinct(Append(q, x))
         /\ \A r : HasEntry(Append(q, x), r) <=> HasEntry(q, r) \/ r = x
<1>1. /\ Len(Append(q, x)) = Len(q) + 1 /\ Len(q) \in Nat
      /\ \A i \in 1..Len(q) : Append(q, x)[i] = q[i]
      /\ Append(q, x)[Len(q) + 1] = x
  BY AppendProperties, LenProperties
<1> DEFINE p == Append(q, x)
<1> HIDE DEF p
<1>2. /\ Len(p) = Len(q) + 1
      /\ \A i \in 1..Len(q) : p[i] = q[i] /\ q[i] # x
      /\ p[Len(q) + 1] = x
  BY <1>1 DEF p, HasEntry
<1>3. Distinct(p)
  <2> SUFFICES ASSUME NEW i \in 1..Len(p), NEW j \in 1..Len(p), p[i] = p[j]
               PROVE  i = j
    BY DEF Distinct
  <2>1. CASE i \in 1..Len(q) /\ j \in 1..Len(q)
    BY <1>2, <2>1 DEF Distinct
  <2>2. CASE i = Len(q) + 1 \/ j = Len(q) + 1
    BY <1>1, <1>2, <2>2
  <2>3. QED
    BY <1>1, <1>2, <2>1, <2>2
<1>4. ASSUME NEW r
      PROVE  HasEntry(p, r) <=> HasEntry(q, r) \/ r = x
  BY <1>1, <1>2 DEF HasEntry
<1>5. QED
  BY <1>3, <1>4 DEF p

LEMMA WithoutDistinct ==
  ASSUME NEW S, NEW q \in Seq(S), NEW i \in 1..Len(q), Distinct(q)
  PROVE  /\ Distinct(Without(q, i))
         /\ \A r : HasEntry(Without(q, i), r) <=> HasEntry(q, r) /\ r # q[i]
<1> DEFINE front == SubSeq(q, 1, i - 1)
           back == SubSeq(q, i + 1, Len(q))
           w == Without(q, i)
<1>1. Len(q) \in Nat /\ i \in Int
  BY LenProperties
<1>2. /\ front \in Seq(S) /\ Len(front) = i - 1
      /\ \A k \in 1..(i - 1) : front[k] = q[k]
  BY <1>1, SubSeqProperties, ElementOfSeq
<1>3. /\ back \in Seq(S) /\ Len(back) = Len(q) - i
      /\ \A k \in 1..(Len(q) - i) : back[k] = q[i + k]
  BY <1>1, SubSeqProperties, ElementOfSeq
<1>4. w = front \o back
  BY DEF Without
<1> HIDE DEF front, back, w
<1>5. /\ Len(front \o back) = Len(front) + Len(back)
      /\ \A k \in 1..(Len(front) + Len(back)) : (front \o back)[k] =
             IF k <= Len(front) THEN front[k] ELSE back[k - Len(front)]
  BY <1>2, <1>3, ConcatProperties
<1>6. Len(w) = Len(q) - 1
  BY <1>1, <1>2, <1>3, <1>4, <1>5
<1>7. ASSUME NEW k \in 1..(Len(q) - 1)
      PROVE  w[k] = IF k < i THEN q[k] ELSE q[k + 1]
  <2>1. k \in 1..(Len(front) + Len(back)) /\ k \in Int
    BY <1>1, <1>2, <1>3
  <2>2. w[k] = IF k <= Len(front) THEN front[k] ELSE back[k - Len(front)]
    BY <1>4, <1>5, <2>1
  <2>3. CASE k < i
    <3>1. k <= Len(front) /\ k \in 1..(i - 1)
      BY <1>1, <1>2, <2>1, <2>3
    <3>2. QED
      BY <1>2, <2>2, <2>3, <3>1
  <2>4. CASE ~(k < i)
    <3>1. /\ ~(k <= Len(front))
          /\ k - Len(front) \in 1..(Len(q) - i) /\ i + (k - Len(front)) = k + 1
      BY <1>1, <1>2, <2>1, <2>4
    <3>2. QED
      BY <1>3, <2>2, <2>4, <3>1
  <2>5. QED
    BY <2>3, <2>4
<1>8. Distinct(w)
  <2> SUFFICES ASSUME NEW k \in 1..(Len(q) - 1), NEW l \in 1..(Len(q) - 1), w[k] = w[l]
               PROVE  k = l
    BY <1>6 DEF Distinct
  <2> DEFINE k1 == IF k < i THEN k ELSE k + 1
             l1 == IF l < i THEN l ELSE l + 1
  <2>1. k1 \in 1..Len(q) /\ l1 \in 1..Len(q) /\ q[k1] = w[k] /\ q[l1] = w[l]
    BY <1>1, <1>7
  <2>2. k1 = l1
    BY <2>1 DEF Distinct
  <2>3. QED
    BY <1>1, <2>2
<1>9. ASSUME NEW r, HasEntry(w, r)
      PROVE  HasEntry(q, r) /\ r # q[i]
  <2>1. PICK k \in 1..(Len(q) - 1) : w[k] = r
    BY <1>6, <1>9 DEF HasEntry
  <2> DEFINE k1 == IF k < i THEN k ELSE k + 1
  <2>2. k1 \in 1..Len(q) /\ q[k1] = r /\ k1 # i
    BY <1>1, <1>7, <2>1
  <2>3. QED
    BY <2>2 DEF HasEntry, Distinct
<1>10. ASSUME NEW r, HasEntry(q, r), r # q[i]
       PROVE  HasEntry(w, r)
  BY <1>10, WithoutHolds DEF w
<1>11. QED
  BY <1>8, <1>9, <1>10 DEF w

-----------------------------------------------------------------------------
(* The queue stays exact.                                                    *)

\* A settlement that got the queue without its own run leaves an exact one.
LEMMA SettleRunExact ==
  ASSUME TypeOK, FinishedMatchesStatus, NEW id \in RunIds, NEW t \in Tiles,
         NEW o \in Outcomes, NEW q \in Seq(RunIds), SettleRun(id, t, o, q), Distinct(q),
         \A r \in RunIds : HasEntry(q, r) <=> r # id /\ tiles[r].status = "queued"
  PROVE  Exact(tiles', queue')
<1> DEFINE settled == Settled(t, o, id \in cancel)
<1>1. (id \in cancel) \in BOOLEAN
  OBVIOUS
<1>2. /\ settled.finished \in BOOLEAN
      /\ settled.status = IF settled.finished THEN "done" ELSE "queued"
  BY <1>1, SettledFromTile, Zenon DEF SettledFrom
<1>3. CASE SpawnsSuccessor(t, o, id \in cancel)
  <2>1. PICK next \in FreshIds :
          /\ tiles' = [tiles EXCEPT ![id] = settled,
                                    ![next] = SuccessorTile(settled, id)]
          /\ queue' = Append(q, next)
    BY <1>3 DEF SettleRun, SettleAs
  <2>2. /\ next \in RunIds /\ tiles[next].status # "queued"
        /\ ~HasEntry(q, next)
    BY DEF FreshIds, Known
  <2>3. settled.finished
    BY <1>1, <1>3, SpawnsWhenFinished, Zenon
  <2>4. SpecOf(settled) \in Specs
    <3>1. settled \in Tiles
      BY <1>1, SettledType, Zenon
    <3>2. QED
      BY <3>1 DEF SpecOf, Specs, Tiles
  <2>5. SuccessorTile(settled, id).status = "queued"
    BY <2>4, FreshFields DEF SuccessorTile
  <2> HIDE DEF settled
  <2>6. \A r \in RunIds : tiles'[r].status = "queued" <=>
          r = next \/ (r # id /\ tiles[r].status = "queued")
    BY <1>2, <2>1, <2>2, <2>3, <2>5 DEF TypeOK
  <2>7. Distinct(queue') /\ \A r : HasEntry(queue', r) <=> HasEntry(q, r) \/ r = next
    BY <2>1, <2>2, AppendDistinct
  <2>8. QED
    BY <2>6, <2>7 DEF Exact
<1>4. CASE ~SpawnsSuccessor(t, o, id \in cancel)
  <2>1. /\ tiles' = [tiles EXCEPT ![id] = settled]
        /\ queue' = IF settled.finished THEN q ELSE Append(q, id)
    BY <1>4 DEF SettleRun, SettleAs
  <2> HIDE DEF settled
  <2>2. \A r \in RunIds : tiles'[r].status = "queued" <=>
          (r = id /\ ~settled.finished) \/ (r # id /\ tiles[r].status = "queued")
    BY <1>2, <2>1 DEF TypeOK
  <2>3. CASE settled.finished
    BY <2>1, <2>2, <2>3 DEF Exact
  <2>4. CASE ~settled.finished
    <3>1. ~HasEntry(q, id)
      OBVIOUS
    <3>2. /\ Distinct(queue')
          /\ \A r : HasEntry(queue', r) <=> HasEntry(q, r) \/ r = id
      BY <2>1, <2>4, <3>1, AppendDistinct
    <3>3. QED
      BY <2>2, <2>4, <3>2 DEF Exact
  <2>5. QED
    BY <2>3, <2>4
<1>5. QED
  BY <1>3, <1>4

\* The entry under the cursor is a queued run, and taking it out leaves the
\* others.
LEMMA CandidateQueued ==
  ASSUME LeaseInv, cursor <= Len(queue)
  PROVE  /\ Candidate \in RunIds
         /\ tiles[Candidate].status = "queued"
         /\ Live(tiles[Candidate])
         /\ Without(queue, cursor) \in Seq(RunIds)
         /\ Distinct(Without(queue, cursor))
         /\ \A r \in RunIds : HasEntry(Without(queue, cursor), r) <=>
              r # Candidate /\ tiles[r].status = "queued"
<1>1. TypeOK /\ Exact(tiles, queue) /\ FinishedMatchesStatus
  BY QueueIsExactHere DEF LeaseInv
<1>2. /\ cursor \in 1..Len(queue) /\ Candidate \in RunIds
      /\ Without(queue, cursor) \in Seq(RunIds)
  BY <1>1, CandidateType
<1>3. HasEntry(queue, Candidate)
  BY <1>2 DEF HasEntry, Candidate
<1>4. tiles[Candidate].status = "queued"
  BY <1>1, <1>2, <1>3 DEF Exact
<1>5. Live(tiles[Candidate])
  BY <1>1, <1>2, <1>4 DEF FinishedMatchesStatus, Live, Known
<1>6. /\ Distinct(Without(queue, cursor))
      /\ \A r : HasEntry(Without(queue, cursor), r) <=>
           HasEntry(queue, r) /\ r # queue[cursor]
  <2>1. queue \in Seq(RunIds) /\ Distinct(queue)
    BY <1>1 DEF TypeOK, Exact
  <2>2. QED
    BY <1>2, <2>1, WithoutDistinct
<1>7. \A r \in RunIds : HasEntry(Without(queue, cursor), r) <=>
              r # Candidate /\ tiles[r].status = "queued"
  BY <1>1, <1>6 DEF Exact, Candidate
<1>8. QED
  BY <1>2, <1>4, <1>5, <1>6, <1>7

\* Whoever sends a heartbeat or a report has a run that is out.
LEMMA HoldersHold ==
  ASSUME LeaseInv
  PROVE  /\ \A n \in Runners : Working(n) =>
              /\ runners[n].run \in RunIds
              /\ tiles[runners[n].run].status \in {"leased", "running"}
         /\ \A m \in reports :
              /\ m.run \in RunIds /\ m.outcome \in Outcomes
              /\ tiles[m.run].status \in {"leased", "running"}
  BY DEF LeaseInv, HoldersAreOut, Out, TypeOK, Working, RunnerStates, Reports

LEMMA QueueIsExactStep ==
  ASSUME ~Zombies, LeaseInv, [Next]_vars
  PROVE  QueueIsExact'
<1> USE RunTileAssumption, WallAssumption
<1>0. /\ TypeOK /\ FinishedMatchesStatus /\ Exact(tiles, queue) /\ late = {}
      /\ Distinct(queue) /\ queue \in Seq(RunIds)
      /\ \A r \in RunIds : HasEntry(queue, r) <=> tiles[r].status = "queued"
      /\ \A r \in RunIds : tiles[r] \in Tiles
  BY QueueIsExactHere DEF LeaseInv, Exact, TypeOK
<1> SUFFICES Exact(tiles', queue')
  BY DEF QueueIsExact, InQueue, Exact, HasEntry, Distinct
<1>1. ASSUME UNCHANGED queue,
             \A r \in RunIds : tiles'[r].status = "queued" <=> tiles[r].status = "queued"
      PROVE  Exact(tiles', queue')
  BY <1>0, <1>1 DEF Exact
<1>2. CASE UNCHANGED <<queue, tiles>>
  BY <1>1, <1>2
<1>3. ASSUME NEW p \in Submittable, NEW spec \in SubmitSpecs, Submit(p, spec)
      PROVE  Exact(tiles', queue')
  <2>1. p \in RunIds /\ tiles[p].status # "queued"
    BY <1>0, <1>3 DEF Submit, FinishedMatchesStatus, Live, Known
  <2>2. /\ Distinct(queue')
        /\ \A r : HasEntry(queue', r) <=> HasEntry(queue, r) \/ r = p
    BY <1>0, <1>3, <2>1, AppendDistinct DEF Submit
  <2>3. \A r \in RunIds : tiles'[r].status = "queued" <=>
          r = p \/ tiles[r].status = "queued"
    BY <1>0, <1>3, <2>1, FreshFields DEF Submit, TypeOK
  <2>4. QED
    BY <1>0, <2>2, <2>3 DEF Exact
<1>4. ASSUME NEW p \in RunIds, Cancel(p) \/ Flag(p)
      PROVE  Exact(tiles', queue')
  <2>1. PICK n : tiles' = [tiles EXCEPT ![p] = [tiles[p] EXCEPT !.flag = n]]
    BY <1>4 DEF Cancel, Flag
  <2>2. [tiles[p] EXCEPT !.flag = n].status = tiles[p].status
    BY <1>0, FlagFields
  <2>3. UNCHANGED queue
    BY <1>4 DEF Cancel, Flag
  <2>4. QED
    BY <1>0, <1>1, <2>1, <2>2, <2>3 DEF TypeOK
<1>5. ASSUME NEW p \in RunIds, Delete(p)
      PROVE  Exact(tiles', queue')
  <2>1. tiles[p].status # "queued"
    BY <1>0, <1>5 DEF Delete, FinishedMatchesStatus
  <2>2. QED
    BY <1>0, <1>1, <1>5, <2>1, AbsentFields DEF Delete, TypeOK
<1>6. ASSUME NEW n \in Runners, LeaseDrop(n)
      PROVE  FALSE
  BY <1>6, CandidateQueued DEF LeaseDrop
<1>7. ASSUME NEW n \in Runners, LeaseCancelled(n)
      PROVE  Exact(tiles', queue')
  <2>1. cursor <= Len(queue) /\ SettleRun(Candidate, tiles[Candidate], QueueCancelled,
                                         Without(queue, cursor))
    BY <1>7 DEF LeaseCancelled
  <2>2. QED
    BY <1>0, <2>1, CandidateQueued, SettleRunExact, WallOutcomeType
<1>8. ASSUME NEW n \in Runners, NEW delivered \in BOOLEAN, LeaseTake(n, delivered)
      PROVE  Exact(tiles', queue')
  <2>1. /\ cursor <= Len(queue)
        /\ queue' = Without(queue, cursor)
        /\ tiles' = [tiles EXCEPT ![Candidate] =
                       [tiles[Candidate] EXCEPT !.status = "leased"]]
    BY <1>8 DEF LeaseTake
  <2>2. Candidate \in RunIds
    BY <2>1, CandidateQueued
  <2>3. [tiles[Candidate] EXCEPT !.status = "leased"].status = "leased"
    BY <1>0, <2>2 DEF Tiles
  <2>4. \A r \in RunIds : tiles'[r].status = "queued" <=>
          r # Candidate /\ tiles[r].status = "queued"
    BY <1>0, <2>1, <2>2, <2>3 DEF TypeOK
  <2>5. QED
    BY <2>1, <2>4, CandidateQueued DEF Exact
<1>9. ASSUME NEW n \in Runners, Heartbeat(n)
      PROVE  Exact(tiles', queue')
  <2> DEFINE r == runners[n].run
  <2>1. r \in RunIds /\ tiles[r].status # "queued"
    BY <1>9, HoldersHold DEF Heartbeat
  <2>2. /\ tiles' = [tiles EXCEPT ![r] = [tiles[r] EXCEPT !.status = "running"]]
        /\ UNCHANGED queue
    BY <1>9 DEF Heartbeat, NoteHeartbeat
  <2> HIDE DEF r
  <2>3. [tiles[r] EXCEPT !.status = "running"].status = "running"
    <3>1. tiles[r] \in Tiles
      BY <1>0, <2>1
    <3>2. QED
      BY <3>1 DEF Tiles
  <2>4. QED
    BY <1>0, <1>1, <2>1, <2>2, <2>3 DEF TypeOK
<1>10. ASSUME NEW p \in RunIds, NEW t \in Tiles, NEW o \in Outcomes,
              SettleRun(p, t, o, queue), tiles[p].status # "queued"
       PROVE  Exact(tiles', queue')
  <2>1. \A r \in RunIds : HasEntry(queue, r) <=> r # p /\ tiles[r].status = "queued"
    BY <1>0, <1>10
  <2>2. QED
    BY <1>0, <1>10, <2>1, SettleRunExact
<1>11. ASSUME NEW m \in reports, FinishSettle(m)
       PROVE  Exact(tiles', queue')
  <2>1. m.run \in RunIds /\ m.outcome \in Outcomes /\ tiles[m.run].status # "queued"
    BY HoldersHold
  <2>2. NoteProgress(tiles[m.run], m.outcome) \in Tiles
    BY <1>0, <2>1, NoteProgressType
  <2>3. SettleRun(m.run, NoteProgress(tiles[m.run], m.outcome), m.outcome, queue)
    BY <1>11 DEF FinishSettle
  <2>4. QED
    BY <1>10, <2>1, <2>2, <2>3
<1>12. ASSUME NEW p \in RunIds, Reaper(p)
       PROVE  Exact(tiles', queue')
  <2>1. /\ tiles[p].status # "queued"
        /\ \/ SettleRun(p, tiles[p], FlaggedStuck, queue)
           \/ SettleRun(p, tiles[p], WorkerLost, queue)
    BY <1>12 DEF Reaper, ReapFlagged, ReapStale, Reapable
  <2>2. QED
    BY <1>0, <1>10, <2>1, WallOutcomeType
<1>13. ASSUME NEW n \in Runners, Runner(n)
       PROVE  Exact(tiles', queue')
  BY <1>2, <1>6, <1>7, <1>8, <1>9, <1>13
     DEF Runner, LeaseBegin, LeaseScan, LeasePass, LeaseSkip, LeaseNone,
         HeartbeatDelayed, Crash, EndRun, wallVars
<1>14. ASSUME NEW m \in reports, Finish(m) \/ LoseReport(m)
       PROVE  Exact(tiles', queue')
  BY <1>2, <1>11, <1>14
     DEF Finish, FinishCheckFlag, FinishRefused, LoseReport, wallVars
<1>15. ASSUME NEW p \in RunIds, LateHeartbeat(p) \/ GoQuiet(p)
       PROVE  Exact(tiles', queue')
  BY <1>0, <1>2, <1>15 DEF LateHeartbeat, GoQuiet
<1>16. CASE UNCHANGED vars
  BY <1>2, <1>16 DEF vars
<1>17. QED
  BY <1>3, <1>4, <1>5, <1>12, <1>13, <1>14, <1>15, <1>16 DEF Next, Operator

-----------------------------------------------------------------------------
(* Who holds a run, and what a step does to the holders.                     *)

\* The lease of LeaseTake: what the runner got.
Leased == [run |-> Candidate, attempt |-> CurrentAttempt(tiles[Candidate]),
           gen |-> fills[Candidate], stop |-> FALSE]

SameHolders == UNCHANGED <<runners, reports>>

Takes(n) ==
    /\ LeaseTake(n, TRUE)
    /\ runners' = [runners EXCEPT ![n] = Leased]
    /\ UNCHANGED reports

SeesStop(n) ==
    /\ Working(n)
    /\ \E s : runners' = [runners EXCEPT ![n] = [runners[n] EXCEPT !.stop = s]]
    /\ UNCHANGED reports

Ends(n) ==
    /\ Working(n)
    /\ runners' = [runners EXCEPT ![n] = IdleRunner]
    /\ \/ UNCHANGED reports
       \/ \E m \in Reports : /\ m.run = runners[n].run
                             /\ m.attempt = runners[n].attempt
                             /\ reports' = reports \cup {m}

LosesReports == UNCHANGED runners /\ reports' \subseteq reports

Rechecks(m) ==
    /\ UNCHANGED runners
    /\ reports' = (reports \ {m}) \cup {CheckedReport(m)}

\* Every step does one of six things to the runners and the reports.
LEMMA HolderSteps ==
  ASSUME TypeOK, [Next]_vars
  PROVE  \/ SameHolders
         \/ \E n \in Runners : Takes(n) \/ SeesStop(n) \/ Ends(n)
         \/ LosesReports
         \/ \E m \in reports : Rechecks(m)
<1> USE RunTileAssumption, WallAssumption
<1> DEFINE Goal == \/ SameHolders
                   \/ \E n \in Runners : Takes(n) \/ SeesStop(n) \/ Ends(n)
                   \/ LosesReports
                   \/ \E m \in reports : Rechecks(m)
<1>1. CASE UNCHANGED <<runners, reports>>
  BY <1>1 DEF SameHolders
<1>2. ASSUME NEW n \in Runners, NEW delivered \in BOOLEAN, LeaseTake(n, delivered)
      PROVE  Goal
  <2>1. CASE delivered = TRUE
    BY <1>2, <2>1 DEF LeaseTake, Takes, Leased
  <2>2. CASE delivered = FALSE
    BY <1>2, <2>2 DEF LeaseTake, SameHolders
  <2>3. QED
    BY <2>1, <2>2
<1>3. ASSUME NEW n \in Runners, Heartbeat(n)
      PROVE  Goal
  <2>1. PICK s : runners' = [runners EXCEPT ![n] = [runners[n] EXCEPT !.stop = s]]
    BY <1>3 DEF Heartbeat
  <2>2. SeesStop(n)
    BY <1>3, <2>1 DEF Heartbeat, SeesStop
  <2>3. QED
    BY <2>2
<1>4. ASSUME NEW n \in Runners, NEW o \in RunnerOutcomes, EndRun(n, o)
      PROVE  Goal
  <2> DEFINE m == [run |-> runners[n].run, attempt |-> runners[n].attempt,
                   gen |-> runners[n].gen, outcome |-> o,
                   version |-> Version[n], checked |-> FALSE]
  <2>1. m \in Reports
    BY <1>4 DEF EndRun, Working, TypeOK, RunnerStates, Reports
  <2>2. m.run = runners[n].run /\ m.attempt = runners[n].attempt
    OBVIOUS
  <2>3. /\ Working(n) /\ reports' = reports \cup {m}
        /\ runners' = [runners EXCEPT ![n] = IdleRunner]
    BY <1>4 DEF EndRun
  <2> HIDE DEF m
  <2>4. Ends(n)
    BY <2>1, <2>2, <2>3 DEF Ends
  <2>5. QED
    BY <2>4
<1>5. ASSUME NEW n \in Runners, Crash(n)
      PROVE  Goal
  BY <1>5 DEF Crash, Ends
<1>6. ASSUME NEW n \in Runners, Runner(n)
      PROVE  Goal
  BY <1>1, <1>2, <1>3, <1>4, <1>5, <1>6
     DEF Runner, LeaseBegin, LeaseScan, LeasePass, LeaseDrop, LeaseCancelled, LeaseSkip,
         LeaseNone, HeartbeatDelayed, netVars
<1>7. ASSUME NEW m \in reports, Finish(m) \/ LoseReport(m)
      PROVE  Goal
  BY <1>7 DEF Finish, FinishCheckFlag, FinishSettle, FinishRefused, LoseReport,
              LosesReports, Rechecks
<1>8. ASSUME NEW r \in RunIds, LateHeartbeat(r) \/ GoQuiet(r) \/ Reaper(r)
      PROVE  Goal
  BY <1>1, <1>8 DEF LateHeartbeat, GoQuiet, Reaper, ReapFlagged, ReapStale, netVars
<1>9. CASE Operator \/ UNCHANGED vars
  BY <1>1, <1>9 DEF Operator, Submit, Cancel, Flag, Delete, netVars, vars
<1>10. QED
  BY <1>6, <1>7, <1>8, <1>9 DEF Next

\* A settled run has lost its holder: only the run at the head of a scan, that
\* of a report now gone, and an abandoned one are settled.
LEMMA SettlingReleases ==
  ASSUME ~Zombies, LeaseInv, NEW r \in RunIds, Settling(r)
  PROVE  Abandoned(r)'
<1>1. CASE \E n \in Runners : LeaseCancelled(n) /\ Candidate = r
  <2>1. cursor <= Len(queue) /\ UNCHANGED <<runners, reports>>
    BY <1>1 DEF LeaseCancelled, netVars
  <2>2. tiles[r].status = "queued"
    BY <1>1, <2>1, CandidateQueued
  <2>3. Abandoned(r)
    BY <2>2, HoldersHold, RunTileAssumption DEF Abandoned, Working
  <2>4. QED
    BY <2>1, <2>3 DEF Abandoned
<1>2. CASE \E m \in reports : FinishSettle(m) /\ m.run = r
  <2>1. PICK m \in reports : FinishSettle(m) /\ m.run = r
    BY <1>2
  <2>2. UNCHANGED runners /\ reports' = reports \ {m}
    BY <2>1 DEF FinishSettle
  <2>3. /\ \A n \in Runners : runners[n].run # r
        /\ \A k \in reports : k.run = r => k = m
    BY <2>1 DEF LeaseInv, OneHolder
  <2>4. QED
    BY <2>2, <2>3 DEF Abandoned
<1>3. CASE Reaper(r)
  <2>1. UNCHANGED <<runners, reports>>
    BY <1>3 DEF Reaper, ReapFlagged, ReapStale, netVars
  <2>2. Abandoned(r)
    BY <1>3 DEF Reaper, ReapFlagged, ReapStale, LeaseInv, QuietIsAbandoned
  <2>3. QED
    BY <2>1, <2>2 DEF Abandoned
<1>4. QED
  BY <1>1, <1>2, <1>3 DEF Settling

\* The generation that is out stays out, in the same attempt, as long as
\* somebody holds it.
LEMMA OutStays ==
  ASSUME ~Zombies, LeaseInv, [Next]_vars, NEW r \in RunIds, NEW a,
         Out(tiles[r], a), ~Abandoned(r)'
  PROVE  Out(tiles'[r], a)
<1>1. tiles[r] \in Tiles /\ TypeOK /\ tiles[r].attempts \in Nat
  BY DEF LeaseInv, TypeOK, Tiles
<1>2. Live(tiles[r])
  BY <1>1 DEF Out, LeaseInv, FinishedMatchesStatus, Live, Known
<1>3. TileStep(r)
  BY <1>1, TileSteps
<1>4. ~SettledNow(r)
  <2>1. SUFFICES ASSUME SettledNow(r)
                 PROVE  FALSE
    OBVIOUS
  <2>2. tiles'[r].attempts = tiles[r].attempts + 1
    BY <1>1, <2>1, SettledNowFrom DEF SettledFrom
  <2>3. Settling(r)
    BY <1>1, <1>2, <2>2, SettlingStep
  <2>4. QED
    BY <2>3, SettlingReleases
<1>5. CASE Kept(r)
  BY <1>5 DEF Kept
<1>6. CASE Flagged(r)
  BY <1>1, <1>6 DEF Flagged, Out, CurrentAttempt, Tiles
<1>7. CASE Active(r)
  BY <1>1, <1>7 DEF Active, Out, CurrentAttempt, Tiles
<1>8. QED
  BY <1>2, <1>3, <1>4, <1>5, <1>6, <1>7 DEF TileStep, Filled, Removed

\* The run a lease hands out is out, in the attempt that it hands out.
LEMMA TakesOut ==
  ASSUME LeaseInv, NEW n \in Runners, Takes(n)
  PROVE  /\ Candidate \in RunIds
         /\ tiles[Candidate].status = "queued"
         /\ holder = n /\ holder' = NoRunner
         /\ ~Working(n)
         /\ stale' = stale \ {Candidate}
         /\ runners'[n] = Leased
         /\ Out(tiles'[Candidate], CurrentAttempt(tiles[Candidate]))
<1>1. /\ LeaseTake(n, TRUE) /\ cursor <= Len(queue)
      /\ holder = n /\ holder' = NoRunner
      /\ stale' = stale \ {Candidate}
      /\ tiles' = [tiles EXCEPT ![Candidate] =
                     [tiles[Candidate] EXCEPT !.status = "leased"]]
  BY DEF Takes, LeaseTake, Scanning
<1>2. Candidate \in RunIds /\ tiles[Candidate].status = "queued"
  BY <1>1, CandidateQueued
<1>3. tiles[Candidate] \in Tiles /\ tiles'[Candidate] =
        [tiles[Candidate] EXCEPT !.status = "leased"]
  BY <1>1, <1>2 DEF LeaseInv, TypeOK
<1>4. tiles'[Candidate].status = "leased"
      /\ tiles'[Candidate].attempts = tiles[Candidate].attempts
  BY <1>3 DEF Tiles
<1>5. ~Working(n)
  BY <1>1 DEF LeaseInv, ScannerIsIdle
<1>6. runners'[n] = Leased
  BY DEF Takes, LeaseInv, TypeOK
<1>7. QED
  BY <1>1, <1>2, <1>4, <1>5, <1>6 DEF Out, CurrentAttempt

LEMMA HoldersAreOutStep ==
  ASSUME ~Zombies, LeaseInv, [Next]_vars
  PROVE  HoldersAreOut'
<1> USE RunTileAssumption
<1>0. TypeOK /\ HoldersAreOut
  BY DEF LeaseInv
<1>1. ASSUME NEW n \in Runners, Working(n), runners'[n].run = runners[n].run
      PROVE  Out(tiles'[runners[n].run], runners[n].attempt)
  <2>1. PICK r \in RunIds : r = runners[n].run
    BY <1>1, HoldersHold
  <2>2. Out(tiles[r], runners[n].attempt)
    BY <1>0, <1>1, <2>1 DEF HoldersAreOut
  <2>3. ~Abandoned(r)'
    BY <1>1, <2>1 DEF Abandoned
  <2>4. QED
    BY <2>1, <2>2, <2>3, OutStays
<1>2. ASSUME NEW n \in Runners, Working(n)'
      PROVE  Out(tiles'[runners'[n].run], runners'[n].attempt)
  <2>1. CASE /\ Working(n)
             /\ runners'[n].run = runners[n].run
             /\ runners'[n].attempt = runners[n].attempt
    BY <1>1, <2>1
  <2>2. CASE /\ LeaseTake(n, TRUE)
             /\ runners'[n] = [run |-> Candidate,
                               attempt |-> CurrentAttempt(tiles[Candidate]),
                               gen |-> fills[Candidate], stop |-> FALSE]
    <3>1. LeaseTake(n, TRUE) => Takes(n)
      BY DEF LeaseTake, Takes, Leased
    <3>2. Out(tiles'[Candidate], CurrentAttempt(tiles[Candidate]))
      BY <2>2, <3>1, TakesOut
    <3>3. QED
      BY <2>2, <3>2
  <2>3. QED
    BY <1>0, <1>2, <2>1, <2>2, RunnerClaims
<1>3. ASSUME NEW m \in reports'
      PROVE  Out(tiles'[m.run], m.attempt)
  <2>1. ~Abandoned(m.run)'
    BY <1>3 DEF Abandoned
  <2>2. CASE \E k \in reports : m.run = k.run /\ m.attempt = k.attempt
    <3>1. m.run \in RunIds /\ Out(tiles[m.run], m.attempt)
      BY <1>0, <2>2, HoldersHold DEF HoldersAreOut
    <3>2. QED
      BY <2>1, <3>1, OutStays
  <2>3. CASE \E n \in Runners : /\ Working(n)
                                /\ m.run = runners[n].run
                                /\ m.attempt = runners[n].attempt
    <3>1. m.run \in RunIds /\ Out(tiles[m.run], m.attempt)
      BY <1>0, <2>3, HoldersHold DEF HoldersAreOut
    <3>2. QED
      BY <2>1, <3>1, OutStays
  <2>4. QED
    BY <1>0, <1>3, <2>2, <2>3, ReportClaims
<1>4. QED
  BY <1>2, <1>3 DEF HoldersAreOut

\* A run that is still queued has no holder.
LEMMA QueuedIsAbandoned ==
  ASSUME LeaseInv, NEW r \in RunIds, tiles[r].status = "queued"
  PROVE  Abandoned(r)
  BY HoldersHold, RunTileAssumption DEF Abandoned, Working

LEMMA OneHolderStep ==
  ASSUME ~Zombies, LeaseInv, [Next]_vars
  PROVE  OneHolder'
<1> USE RunTileAssumption
<1>0. /\ TypeOK
      /\ \A m, n \in Runners : Working(n) /\ runners[m].run = runners[n].run => m = n
      /\ \A n \in Runners, m \in reports : runners[n].run # m.run
      /\ \A k, m \in reports : k.run = m.run => k = m
      /\ \A n \in Runners : runners[n] \in RunnerStates
      /\ runners \in [Runners -> RunnerStates]
      /\ \A m \in reports : m \in Reports /\ m.run \in RunIds
  BY DEF LeaseInv, OneHolder, ExclusiveLease, TypeOK, Reports
<1> DEFINE Goal ==
             /\ \A m, n \in Runners : runners'[n].run # NoRun
                                      /\ runners'[m].run = runners'[n].run => m = n
             /\ \A n \in Runners, m \in reports' : runners'[n].run # m.run
             /\ \A k, m \in reports' : k.run = m.run => k = m
<1> SUFFICES Goal
  BY DEF OneHolder, ExclusiveLease, Working
<1>1. CASE SameHolders
  BY <1>0, <1>1 DEF SameHolders, Working
<1>2. ASSUME NEW n \in Runners, Takes(n)
      PROVE  Goal
  <2>1. Candidate \in RunIds /\ runners'[n].run = Candidate /\ Abandoned(Candidate)
    BY <1>2, TakesOut, QueuedIsAbandoned DEF Leased
  <2>2. /\ \A m \in Runners \ {n} : /\ runners'[m].run = runners[m].run
                                    /\ runners[m].run # Candidate
        /\ UNCHANGED reports
        /\ \A m \in reports : m.run # Candidate
    BY <1>0, <1>2, <2>1 DEF Takes, Abandoned
  <2>3. QED
    BY <1>0, <2>1, <2>2 DEF Working
<1>3. ASSUME NEW n \in Runners, SeesStop(n)
      PROVE  Goal
  <2>1. PICK s : runners' = [runners EXCEPT ![n] = [runners[n] EXCEPT !.stop = s]]
    BY <1>3 DEF SeesStop
  <2>2. [runners[n] EXCEPT !.stop = s].run = runners[n].run
    BY <1>0 DEF RunnerStates
  <2>3. \A m \in Runners : runners'[m].run = runners[m].run
    BY <1>0, <2>1, <2>2
  <2>4. UNCHANGED reports
    BY <1>3 DEF SeesStop
  <2>5. QED
    BY <1>0, <2>3, <2>4 DEF Working
<1>4. ASSUME NEW n \in Runners, Ends(n)
      PROVE  Goal
  <2>1. /\ runners'[n].run = NoRun
        /\ \A m \in Runners \ {n} : runners'[m].run = runners[m].run
        /\ Working(n)
    BY <1>0, <1>4 DEF Ends, IdleRunner
  <2>2. \A m, p \in Runners : runners'[p].run # NoRun
                              /\ runners'[m].run = runners'[p].run => m = p
    BY <1>0, <2>1 DEF Working
  <2>3. \A m \in Runners : runners'[m].run # runners[n].run
    BY <1>0, <2>1 DEF Working
  <2>4. \A m \in Runners, k \in reports : runners'[m].run # k.run
    BY <1>0, <2>1
  <2>5. CASE UNCHANGED reports
    BY <1>0, <2>2, <2>4, <2>5
  <2>6. CASE \E m \in Reports : /\ m.run = runners[n].run
                                /\ reports' = reports \cup {m}
    BY <1>0, <2>2, <2>3, <2>4, <2>6
  <2>7. QED
    BY <1>4, <2>5, <2>6 DEF Ends
<1>5. CASE LosesReports
  BY <1>0, <1>5 DEF LosesReports, Working
<1>6. ASSUME NEW m \in reports, Rechecks(m)
      PROVE  Goal
  <2>1. CheckedReport(m).run = m.run
    BY <1>0 DEF CheckedReport, Reports
  <2>2. UNCHANGED runners /\ reports' = (reports \ {m}) \cup {CheckedReport(m)}
    BY <1>6 DEF Rechecks
  <2>3. QED
    BY <1>0, <2>1, <2>2 DEF Working
<1>7. QED
  BY <1>0, <1>1, <1>2, <1>3, <1>4, <1>5, <1>6, HolderSteps

\* Only a lease gives an abandoned run a holder, and the lease is its first news.
LEMMA AbandonedStays ==
  ASSUME ~Zombies, LeaseInv, [Next]_vars, NEW r \in RunIds, Abandoned(r)
  PROVE  Abandoned(r)' \/ r \notin stale'
<1>0. TypeOK /\ runners \in [Runners -> RunnerStates]
      /\ \A m \in reports : m \in Reports
  BY DEF LeaseInv, TypeOK
<1>1. /\ \A n \in Runners : runners[n].run # r
      /\ \A m \in reports : m.run # r
  BY DEF Abandoned
<1>2. CASE SameHolders
  BY <1>1, <1>2 DEF SameHolders, Abandoned
<1>3. ASSUME NEW n \in Runners, Takes(n)
      PROVE  Abandoned(r)' \/ r \notin stale'
  <2>1. CASE r = Candidate
    BY <1>3, <2>1, TakesOut
  <2>2. CASE r # Candidate
    BY <1>0, <1>1, <1>3, <2>2 DEF Takes, Leased, Abandoned
  <2>3. QED
    BY <2>1, <2>2
<1>4. ASSUME NEW n \in Runners, SeesStop(n)
      PROVE  Abandoned(r)'
  <2>1. PICK s : runners' = [runners EXCEPT ![n] = [runners[n] EXCEPT !.stop = s]]
    BY <1>4 DEF SeesStop
  <2>2. [runners[n] EXCEPT !.stop = s].run = runners[n].run
    BY <1>0 DEF RunnerStates
  <2>3. QED
    BY <1>0, <1>1, <1>4, <2>1, <2>2 DEF SeesStop, Abandoned
<1>5. ASSUME NEW n \in Runners, Ends(n)
      PROVE  Abandoned(r)'
  BY <1>0, <1>1, <1>5, RunTileAssumption DEF Ends, IdleRunner, Abandoned
<1>6. CASE LosesReports
  BY <1>1, <1>6 DEF LosesReports, Abandoned
<1>7. ASSUME NEW m \in reports, Rechecks(m)
      PROVE  Abandoned(r)'
  <2>1. CheckedReport(m).run = m.run
    BY <1>0 DEF CheckedReport, Reports
  <2>2. QED
    BY <1>1, <1>7, <2>1 DEF Rechecks, Abandoned
<1>8. QED
  BY <1>0, <1>2, <1>3, <1>4, <1>5, <1>6, <1>7, HolderSteps

LEMMA QuietIsAbandonedStep ==
  ASSUME ~Zombies, LeaseInv, [Next]_vars
  PROVE  QuietIsAbandoned'
<1> USE RunTileAssumption, WallAssumption
<1>1. ASSUME NEW r \in RunIds, GoQuiet(r)
      PROVE  stale' = stale \cup {r} /\ Abandoned(r) /\ SameHolders
  BY <1>1 DEF GoQuiet, SameHolders, netVars
<1>2. \/ stale' \subseteq stale
      \/ \E r \in RunIds : GoQuiet(r)
  BY DEF Next, Operator, Submit, Cancel, Flag, Delete, Runner, LeaseBegin, LeaseScan,
         LeasePass, LeaseDrop, LeaseCancelled, LeaseSkip, LeaseTake, LeaseNone,
         Heartbeat, NoteHeartbeat, HeartbeatDelayed, Crash, EndRun, LateHeartbeat,
         Reaper, ReapFlagged, ReapStale, SettleRun, SettleAs, Finish, FinishCheckFlag,
         FinishSettle, FinishRefused, LoseReport, vars, wallVars
<1>3. stale \subseteq RunIds /\ \A r \in stale : Abandoned(r)
  BY DEF LeaseInv, QuietIsAbandoned, TypeOK
<1>4. ASSUME NEW r \in stale'
      PROVE  r \in RunIds /\ Abandoned(r)
  BY <1>1, <1>2, <1>3
<1>5. QED
  BY <1>4, AbandonedStays DEF QuietIsAbandoned

LEMMA ScannerIsIdleStep ==
  ASSUME TypeOK, ScannerIsIdle, [Next]_vars
  PROVE  ScannerIsIdle'
<1> USE RunTileAssumption, WallAssumption
<1>1. TypeOK /\ ScannerIsIdle
  OBVIOUS
<1>2. \/ UNCHANGED holder
      \/ holder' = NoRunner
      \/ \E n \in Runners : LeaseBegin(n)
  BY DEF Next, Operator, Submit, Cancel, Flag, Delete, Runner, LeaseScan,
         LeasePass, LeaseDrop, LeaseCancelled, LeaseSkip, LeaseTake, LeaseNone,
         Heartbeat, HeartbeatDelayed, Crash, EndRun, LateHeartbeat, GoQuiet,
         Reaper, ReapFlagged, ReapStale, Finish, FinishCheckFlag,
         FinishSettle, FinishRefused, LoseReport, vars, scanVars
<1>3. CASE UNCHANGED holder
  <2>1. ASSUME NEW n \in Runners, holder = n, Working(n)'
        PROVE  FALSE
    <3>1. Working(n) \/ LeaseTake(n, TRUE)
      BY <1>1, <2>1, RunnerClaims
    <3>2. ~LeaseTake(n, TRUE)
      BY <1>3, <2>1 DEF LeaseTake
    <3>3. QED
      BY <1>1, <2>1, <3>1, <3>2 DEF ScannerIsIdle
  <2>2. QED
    BY <1>3, <2>1 DEF ScannerIsIdle, Working
<1>4. CASE holder' = NoRunner
  BY <1>4 DEF ScannerIsIdle
<1>5. ASSUME NEW n \in Runners, LeaseBegin(n)
      PROVE  ScannerIsIdle'
  BY <1>5 DEF LeaseBegin, ScannerIsIdle, Working, netVars
<1>6. QED
  BY <1>2, <1>3, <1>4, <1>5

LEMMA NothingLate ==
  ASSUME ~Zombies, late = {}, [Next]_vars
  PROVE  late' = {}
  BY DEF Next, Operator, Submit, Cancel, Flag, Delete, Runner, LeaseBegin, LeaseScan,
         LeasePass, LeaseDrop, LeaseCancelled, LeaseSkip, LeaseTake, LeaseNone,
         Heartbeat, HeartbeatDelayed, Crash, EndRun, LateHeartbeat, GoQuiet,
         Reaper, ReapFlagged, ReapStale, Finish, FinishCheckFlag,
         FinishSettle, FinishRefused, LoseReport, vars, netVars

LEMMA LeaseInvStep ==
  ASSUME ~Zombies, LeaseInv, [Next]_vars
  PROVE  LeaseInv'
<1>1. TypeOK' /\ FinishedMatchesStatus' /\ late' = {}
  BY TypeStep, FinishedMatchesStatusStep, NothingLate DEF LeaseInv
<1>2. QED
  BY <1>1, QueueIsExactStep, HoldersAreOutStep, OneHolderStep,
     QuietIsAbandonedStep, ScannerIsIdleStep DEF LeaseInv

LEMMA LeaseInvInit == Init => LeaseInv
<1> SUFFICES ASSUME Init
             PROVE  LeaseInv
  OBVIOUS
<1>1. TypeOK
  BY TypeInit
<1>2. /\ FinishedMatchesStatus /\ QueueIsExact /\ late = {}
      /\ QuietIsAbandoned
  BY AbsentFields DEF Init, FinishedMatchesStatus, QueueIsExact, InQueue,
                      QuietIsAbandoned
<1>3. HoldersAreOut /\ OneHolder /\ ScannerIsIdle
  BY WallAssumption
     DEF Init, HoldersAreOut, OneHolder, ExclusiveLease, ScannerIsIdle, Working, IdleRunner
<1>4. QED
  BY <1>1, <1>2, <1>3 DEF LeaseInv

LEMMA LeaseInvariant == ASSUME ~Zombies PROVE Spec => []LeaseInv
<1>1. Init => LeaseInv
  BY LeaseInvInit
<1>2. LeaseInv /\ [Next]_vars => LeaseInv'
  BY LeaseInvStep
<1>3. QED
  BY <1>1, <1>2, PTL DEF Spec

\* While no runner outlives its generation, two runners never play one run,
\* whatever crashes, lost answers and reports, retries and scans come between.
THEOREM LeaseExclusive == ASSUME ~Zombies PROVE Spec => []ExclusiveLease
<1>1. LeaseInv => ExclusiveLease
  BY DEF LeaseInv, OneHolder
<1>2. QED
  BY <1>1, LeaseInvariant, PTL

\* While no runner outlives its generation, the queue is the queued runs, each
\* of them once.
THEOREM QueueExact == ASSUME ~Zombies PROVE Spec => []QueueIsExact
<1>1. LeaseInv => QueueIsExact
  BY DEF LeaseInv
<1>2. QED
  BY <1>1, LeaseInvariant, PTL

-----------------------------------------------------------------------------
(* Wall implements LeaseBook.  Every step changes the book by one of its     *)
(* actions, or not at all.                                                   *)

LEMMA PlayerIs ==
  ASSUME NEW rs, NEW r, NEW n \in Runners, rs[n].run = r,
         \A m \in Runners : rs[m].run = r => m = n
  PROVE  Player(rs, r) = n
  BY DEF Player

LEMMA PlayerNone ==
  ASSUME NEW rs, NEW r, \A n \in Runners : rs[n].run # r
  PROVE  Player(rs, r) = NoRunner
  BY DEF Player

\* Who plays r is decided by who plays r.
LEMMA SamePlayer ==
  ASSUME LeaseInv, NEW r \in RunIds,
         \A n \in Runners : runners'[n].run = r <=> runners[n].run = r
  PROVE  Player(runners', r) = Player(runners, r)
<1>1. CASE \E n \in Runners : runners[n].run = r
  <2>1. PICK n \in Runners : runners[n].run = r
    BY <1>1
  <2>2. \A m \in Runners : runners[m].run = r => m = n
    BY <2>1, RunTileAssumption DEF LeaseInv, OneHolder, ExclusiveLease, Working
  <2>3. Player(runners, r) = n
    BY <2>1, <2>2, PlayerIs
  <2>4. runners'[n].run = r /\ \A m \in Runners : runners'[m].run = r => m = n
    BY <2>1, <2>2
  <2>5. Player(runners', r) = n
    BY <2>4, PlayerIs
  <2>6. QED
    BY <2>3, <2>5
<1>2. CASE \A n \in Runners : runners[n].run # r
  BY <1>2, PlayerNone
<1>3. QED
  BY <1>1, <1>2

\* Runners that play what they played leave the book's workers alone.
LEMMA SameWorkers ==
  ASSUME LeaseInv, \A n \in Runners : runners'[n].run = runners[n].run
  PROVE  bookWorker' = bookWorker
  BY SamePlayer DEF bookWorker

LEMMA SameRunners ==
  ASSUME UNCHANGED runners
  PROVE  bookWorker' = bookWorker
  BY DEF bookWorker

\* Nobody plays an abandoned run.
LEMMA AbandonedWorker ==
  ASSUME NEW r \in RunIds, \A n \in Runners : runners[n].run # r
  PROVE  bookWorker[r] = NoRunner
  BY PlayerNone DEF bookWorker

LEMMA SameTiles ==
  ASSUME \A r \in RunIds : /\ BookState(tiles'[r]) = BookState(tiles[r])
                           /\ tiles'[r].attempts = tiles[r].attempts
  PROVE  bookState' = bookState /\ bookGeneration' = bookGeneration
  BY DEF bookState, bookGeneration

\* The tile of one run is written: so are its entries in the book.
LEMMA OneTile ==
  ASSUME TypeOK, NEW r \in RunIds, NEW u, tiles' = [tiles EXCEPT ![r] = u]
  PROVE  /\ bookState' = [bookState EXCEPT ![r] = BookState(u)]
         /\ bookGeneration' = [bookGeneration EXCEPT ![r] = u.attempts]
  BY DEF TypeOK, bookState, bookGeneration

LEMMA SettledFinished ==
  ASSUME NEW t \in Tiles, NEW o \in Outcomes, NEW c \in BOOLEAN
  PROVE  Settled(t, o, c).finished <=> Terminal(t, o, c)
  BY SettledFields

\* settleRun is the book's Conclude.
LEMMA SettleConcludes ==
  ASSUME TypeOK, NEW id \in RunIds, Live(tiles[id]), NEW t \in Tiles, NEW o \in Outcomes,
         NEW q, SettleRun(id, t, o, q), t.attempts = tiles[id].attempts, UNCHANGED runners
  PROVE  /\ \E verdict \in {"waiting", "closed"} : Book!Conclude(id, verdict)
         /\ ~Recoverable(t, o) => Book!Conclude(id, "closed")
<1> DEFINE settled == Settled(t, o, id \in cancel)
           verdict == IF settled.finished THEN "closed" ELSE "waiting"
<1>1. (id \in cancel) \in BOOLEAN
  OBVIOUS
<1>2. /\ settled.finished \in BOOLEAN
      /\ settled.status = IF settled.finished THEN "done" ELSE "queued"
      /\ settled.attempts = bookGeneration[id] + 1
  <2>1. /\ settled.finished \in BOOLEAN
        /\ settled.status = IF settled.finished THEN "done" ELSE "queued"
        /\ settled.attempts = t.attempts + 1
    BY <1>1, SettledFromTile, Zenon DEF SettledFrom
  <2>2. QED
    BY <2>1 DEF bookGeneration
<1>3. UNCHANGED bookWorker
  BY SameRunners
<1>4. BookState(settled) = verdict
  BY <1>2 DEF BookState
<1>5. CASE SpawnsSuccessor(t, o, id \in cancel)
  <2>1. PICK next \in FreshIds :
          tiles' = [tiles EXCEPT ![id] = settled, ![next] = SuccessorTile(settled, id)]
    BY <1>5 DEF SettleRun, SettleAs
  <2>2. /\ next \in RunIds \ {id} /\ bookState[next] = "free"
    BY DEF FreshIds, Live, Known, bookState, BookState
  <2>3. settled.finished
    BY <1>1, <1>5, SpawnsWhenFinished, Zenon
  <2>4. SpecOf(settled) \in Specs
    <3>1. settled \in Tiles
      BY <1>1, SettledType, Zenon
    <3>2. QED
      BY <3>1 DEF SpecOf, Specs, Tiles
  <2>5. /\ BookState(SuccessorTile(settled, id)) = "waiting"
        /\ SuccessorTile(settled, id).attempts = 0
    BY <2>4, FreshFields DEF SuccessorTile, BookState
  <2> HIDE DEF settled
  <2>6. /\ bookState' = [bookState EXCEPT ![id] = "closed", ![next] = "waiting"]
        /\ bookGeneration' = [bookGeneration EXCEPT ![id] = bookGeneration[id] + 1,
                                                   ![next] = 0]
    <3>1. /\ bookState' = [bookState EXCEPT ![id] = BookState(settled),
                               ![next] = BookState(SuccessorTile(settled, id))]
          /\ bookGeneration' = [bookGeneration EXCEPT ![id] = settled.attempts,
                               ![next] = SuccessorTile(settled, id).attempts]
      <4>1. next \in RunIds /\ next # id
        BY <2>2
      <4>2. PICK u, v : u = settled /\ v = SuccessorTile(settled, id)
        OBVIOUS
      <4>3. tiles' = [tiles EXCEPT ![id] = u, ![next] = v]
        BY <2>1, <4>2
      <4>4. /\ bookState' = [bookState EXCEPT ![id] = BookState(u),
                                               ![next] = BookState(v)]
            /\ bookGeneration' = [bookGeneration EXCEPT ![id] = u.attempts,
                                                         ![next] = v.attempts]
        BY <4>1, <4>3 DEF TypeOK, bookState, bookGeneration
      <4>5. QED
        BY <4>2, <4>4, Zenon
    <3>2. BookState(settled) = "closed" /\ settled.attempts = bookGeneration[id] + 1
      BY <1>2, <1>4, <2>3
    <3>3. QED
      BY <2>5, <3>1, <3>2, Zenon
  <2>7. Book!Conclude(id, "closed")
    BY <1>3, <2>2, <2>6 DEF Book!Conclude
  <2>8. QED
    BY <2>7
<1>6. CASE ~SpawnsSuccessor(t, o, id \in cancel)
  <2>1. tiles' = [tiles EXCEPT ![id] = settled]
    BY <1>6 DEF SettleRun, SettleAs
  <2>2. ~Recoverable(t, o) => settled.finished
    <3>1. ~Recoverable(t, o) => Terminal(t, o, id \in cancel)
      BY DEF Terminal
    <3>2. settled.finished <=> Terminal(t, o, id \in cancel)
      BY <1>1, SettledFinished, Zenon
    <3>3. QED
      BY <3>1, <3>2, Zenon
  <2> HIDE DEF settled
  <2>3. /\ bookState' = [bookState EXCEPT ![id] = verdict]
        /\ bookGeneration' = [bookGeneration EXCEPT ![id] = bookGeneration[id] + 1]
    <3>1. /\ bookState' = [bookState EXCEPT ![id] = BookState(settled)]
          /\ bookGeneration' = [bookGeneration EXCEPT ![id] = settled.attempts]
      BY <2>1, OneTile
    <3>2. QED
      BY <1>2, <1>4, <3>1, Zenon
  <2>4. Book!Conclude(id, verdict)
    BY <1>3, <2>3 DEF Book!Conclude
  <2>5. QED
    BY <2>2, <2>4
<1>7. QED
  BY <1>5, <1>6

-----------------------------------------------------------------------------
(* The actions of the wall, each as an action of the book or a stutter.      *)

BookStutter == UNCHANGED Book!bookVars

LEMMA StutterWhenSame ==
  ASSUME LeaseInv, \A n \in Runners : runners'[n].run = runners[n].run,
         \A r \in RunIds : /\ BookState(tiles'[r]) = BookState(tiles[r])
                           /\ tiles'[r].attempts = tiles[r].attempts
  PROVE  BookStutter
  BY SameWorkers, SameTiles DEF BookStutter, Book!bookVars

LEMMA SameBookTile ==
  ASSUME TypeOK, NEW r \in RunIds, NEW u, tiles' = [tiles EXCEPT ![r] = u],
         BookState(u) = BookState(tiles[r]), u.attempts = tiles[r].attempts,
         NEW p \in RunIds
  PROVE  /\ BookState(tiles'[p]) = BookState(tiles[p])
         /\ tiles'[p].attempts = tiles[p].attempts
<1>1. tiles'[p] = IF p = r THEN u ELSE tiles[p]
  BY DEF TypeOK
<1>2. QED
  BY <1>1

\* handleSpecs opens the run.
LEMMA SubmitOpens ==
  ASSUME LeaseInv, NEW r \in RunIds, NEW spec \in Specs, Submit(r, spec)
  PROVE  Book!Open(r)
<1>1. TypeOK /\ tiles[r] \in Tiles
  BY DEF LeaseInv, TypeOK
<1>2. /\ tiles' = [tiles EXCEPT ![r] = FreshTile(spec, NoRun)]
      /\ ~Live(tiles[r]) /\ UNCHANGED runners
  BY DEF Submit, netVars
<1>3. BookState(FreshTile(spec, NoRun)) = "waiting" /\ FreshTile(spec, NoRun).attempts = 0
  BY FreshFields DEF BookState
<1>4. bookState[r] \in {"free", "closed"}
  BY <1>1, <1>2 DEF LeaseInv, FinishedMatchesStatus, Live, Known, bookState, BookState,
                    Tiles, Statuses
<1>5. /\ bookState' = [bookState EXCEPT ![r] = "waiting"]
      /\ bookGeneration' = [bookGeneration EXCEPT ![r] = 0]
  BY <1>1, <1>2, <1>3, OneTile
<1>6. QED
  BY <1>2, <1>4, <1>5, SameRunners DEF Book!Open

\* handleDelete forgets it.
LEMMA DeleteForgets ==
  ASSUME LeaseInv, NEW r \in RunIds, Delete(r)
  PROVE  Book!Forget(r)
<1>1. TypeOK /\ tiles[r] \in Tiles
  BY DEF LeaseInv, TypeOK
<1>2. tiles' = [tiles EXCEPT ![r] = AbsentTile] /\ tiles[r].finished /\ UNCHANGED runners
  BY DEF Delete, netVars
<1>3. BookState(AbsentTile) = "free" /\ AbsentTile.attempts = 0
  BY AbsentFields DEF BookState
<1>4. bookState[r] = "closed"
  BY <1>1, <1>2 DEF LeaseInv, FinishedMatchesStatus, bookState, BookState
<1>5. /\ bookState' = [bookState EXCEPT ![r] = "free"]
      /\ bookGeneration' = [bookGeneration EXCEPT ![r] = 0]
  BY <1>1, <1>2, <1>3, OneTile
<1>6. QED
  BY <1>2, <1>4, <1>5, SameRunners DEF Book!Forget

\* handleLease hands the run at the cursor to the runner that asked, or to
\* nobody if the reply is lost.
LEMMA TakeHandsOut ==
  ASSUME LeaseInv, NEW n \in Runners, NEW delivered \in BOOLEAN, LeaseTake(n, delivered)
  PROVE  \E r \in RunIds : \E k \in Runners \cup {NoRunner} : Book!HandOut(r, k)
<1>1. TypeOK /\ cursor <= Len(queue) /\ holder = n
  BY DEF LeaseInv, LeaseTake, Scanning
<1>2. PICK r \in RunIds : r = Candidate
  BY <1>1, CandidateQueued
<1>3. tiles[r] \in Tiles /\ tiles[r].status = "queued"
  BY <1>1, <1>2, CandidateQueued DEF TypeOK
<1>4. tiles' = [tiles EXCEPT ![r] = [tiles[r] EXCEPT !.status = "leased"]]
  BY <1>2 DEF LeaseTake
<1>5. bookState[r] = "waiting"
  BY <1>3 DEF bookState, BookState
<1>6. /\ bookState' = [bookState EXCEPT ![r] = "out"]
      /\ bookGeneration' = bookGeneration
  <2> DEFINE u == [tiles[r] EXCEPT !.status = "leased"]
  <2>1. BookState(u) = "out" /\ u.attempts = bookGeneration[r]
    BY <1>3 DEF BookState, Tiles, bookGeneration
  <2> HIDE DEF u
  <2>2. /\ bookState' = [bookState EXCEPT ![r] = BookState(u)]
        /\ bookGeneration' = [bookGeneration EXCEPT ![r] = u.attempts]
    BY <1>1, <1>4, OneTile DEF u
  <2>3. [bookGeneration EXCEPT ![r] = bookGeneration[r]] = bookGeneration
    BY DEF bookGeneration
  <2>4. QED
    BY <2>1, <2>2, <2>3, Zenon
<1>7. \A m \in Runners : runners[m].run # r
  BY <1>3, QueuedIsAbandoned DEF Abandoned
<1>8. CASE delivered = FALSE
  <2>1. UNCHANGED runners
    BY <1>8 DEF LeaseTake
  <2>2. bookWorker' = bookWorker /\ bookWorker[r] = NoRunner
    BY <1>7, <2>1, SameRunners, AbandonedWorker
  <2>3. bookWorker' = [bookWorker EXCEPT ![r] = NoRunner]
    BY <2>2 DEF bookWorker
  <2>4. Book!HandOut(r, NoRunner)
    BY <1>5, <1>6, <2>3 DEF Book!HandOut
  <2>5. QED
    BY <2>4
<1>9. CASE delivered = TRUE
  <2>1. runners[n].run = NoRun
    BY <1>1 DEF LeaseInv, ScannerIsIdle, Working
  <2>2. runners' = [runners EXCEPT ![n] = Leased] /\ Leased.run = r
    BY <1>2, <1>9 DEF LeaseTake, Leased
  <2>3. \A m \in Runners : runners'[m].run = IF m = n THEN r ELSE runners[m].run
    BY <1>1, <2>2 DEF TypeOK
  <2>4. Player(runners', r) = n
    BY <1>7, <2>3, PlayerIs
  <2>5. ASSUME NEW q \in RunIds, q # r
        PROVE  Player(runners', q) = Player(runners, q)
    BY <2>1, <2>3, <2>5, SamePlayer, RunTileAssumption
  <2>6. bookWorker' = [bookWorker EXCEPT ![r] = n]
    BY <2>4, <2>5 DEF bookWorker
  <2>7. ASSUME NEW q \in RunIds
        PROVE  bookWorker[q] # n
    <3>1. CASE \E m \in Runners : runners[m].run = q
      <4>1. PICK m \in Runners : runners[m].run = q
        BY <3>1
      <4>2. \A k \in Runners : runners[k].run = q => k = m
        BY <4>1, RunTileAssumption DEF LeaseInv, OneHolder, ExclusiveLease, Working
      <4>3. bookWorker[q] = m
        BY <4>1, <4>2, PlayerIs DEF bookWorker
      <4>4. QED
        BY <2>1, <4>1, <4>3, RunTileAssumption
    <3>2. CASE \A m \in Runners : runners[m].run # q
      BY <3>2, AbandonedWorker, WallAssumption
    <3>3. QED
      BY <3>1, <3>2
  <2>8. Book!HandOut(r, n)
    BY <1>5, <1>6, <2>6, <2>7 DEF Book!HandOut
  <2>9. QED
    BY <2>8
<1>10. QED
  BY <1>8, <1>9

\* A runner that ends or dies lets its run go.
LEMMA EndsLetsGo ==
  ASSUME LeaseInv, NEW n \in Runners, Ends(n), UNCHANGED tiles
  PROVE  \E r \in RunIds : Book!LetGo(r)
<1>1. TypeOK /\ Working(n)
  BY DEF LeaseInv, Ends
<1>2. PICK r \in RunIds : r = runners[n].run
  BY <1>1, HoldersHold
<1>3. \A m \in Runners : runners[m].run = r => m = n
  BY <1>1, <1>2 DEF LeaseInv, OneHolder, ExclusiveLease
<1>4. \A m \in Runners : runners'[m].run = IF m = n THEN NoRun ELSE runners[m].run
  BY <1>1 DEF Ends, TypeOK, IdleRunner
<1>5. Player(runners, r) = n
  BY <1>2, <1>3, PlayerIs
<1>6. Player(runners', r) = NoRunner
  BY <1>3, <1>4, PlayerNone, RunTileAssumption
<1>7. ASSUME NEW q \in RunIds, q # r
      PROVE  Player(runners', q) = Player(runners, q)
  BY <1>2, <1>4, <1>7, SamePlayer, RunTileAssumption
<1>8. bookWorker[r] # NoRunner
  BY <1>5, WallAssumption DEF bookWorker
<1>9. bookWorker' = [bookWorker EXCEPT ![r] = NoRunner]
  BY <1>6, <1>7 DEF bookWorker
<1>10. UNCHANGED <<bookState, bookGeneration>>
  BY DEF bookState, bookGeneration
<1>11. Book!LetGo(r)
  BY <1>8, <1>9, <1>10 DEF Book!LetGo
<1>12. QED
  BY <1>11

\* A run that nobody holds and that is not queued is settled by Settle ...
LEMMA SettleSettles ==
  ASSUME LeaseInv, NEW r \in RunIds, tiles[r].status \in {"leased", "running"},
         \A n \in Runners : runners[n].run # r, NEW o \in Outcomes,
         NEW t \in {tiles[r], NoteProgress(tiles[r], o)}, NEW q, SettleRun(r, t, o, q),
         UNCHANGED runners
  PROVE  Book!Settle(r)
<1>1. TypeOK /\ tiles[r] \in Tiles
  BY DEF LeaseInv, TypeOK
<1>2. Live(tiles[r])
  BY <1>1 DEF LeaseInv, FinishedMatchesStatus, Live, Known
<1>3. t \in Tiles /\ t.attempts = tiles[r].attempts
  BY <1>1, NoteProgressType, NoteProgressFields
<1>4. \E verdict \in {"waiting", "closed"} : Book!Conclude(r, verdict)
  BY <1>1, <1>2, <1>3, SettleConcludes
<1>5. bookState[r] = "out" /\ bookWorker[r] = NoRunner
  BY AbandonedWorker DEF bookState, BookState
<1>6. QED
  BY <1>4, <1>5 DEF Book!Settle

\* ... and one cancelled while it was queued is withdrawn.
LEMMA CancelledWithdraws ==
  ASSUME LeaseInv, NEW n \in Runners, LeaseCancelled(n)
  PROVE  \E r \in RunIds : Book!Withdraw(r)
<1>1. TypeOK /\ cursor <= Len(queue)
  BY DEF LeaseInv, LeaseCancelled
<1>2. PICK r \in RunIds : r = Candidate
  BY <1>1, CandidateQueued
<1>3. /\ tiles[r] \in Tiles /\ tiles[r].status = "queued" /\ Live(tiles[r])
      /\ bookState[r] = "waiting"
  BY <1>1, <1>2, CandidateQueued DEF TypeOK, bookState, BookState
<1>4. PICK q : q = Without(queue, cursor)
  OBVIOUS
<1>5. SettleRun(r, tiles[r], QueueCancelled, q) /\ UNCHANGED runners
  BY <1>2, <1>4 DEF LeaseCancelled, netVars
<1>6. ~Recoverable(tiles[r], QueueCancelled)
  BY DEF Recoverable, QueueCancelled, WallOutcome, GoalRecoveryReasons
<1>7. Book!Conclude(r, "closed")
  BY <1>1, <1>3, <1>5, <1>6, WallOutcomeType, SettleConcludes
<1>8. QED
  BY <1>3, <1>7 DEF Book!Withdraw

\* A step of a runner is a step of the book.
LEMMA RunnerSteps ==
  ASSUME ~Zombies, LeaseInv, NEW n \in Runners, Runner(n)
  PROVE  Book!BookNext \/ BookStutter
<1>1. CASE LeaseBegin(n) \/ LeaseSkip(n) \/ LeaseNone(n)
  BY <1>1, StutterWhenSame DEF LeaseBegin, LeaseSkip, LeaseNone, wallVars, netVars
<1>2. ~LeaseDrop(n)
  BY CandidateQueued DEF LeaseDrop
<1>3. CASE LeaseCancelled(n)
  BY <1>3, CancelledWithdraws DEF Book!BookNext
<1>4. CASE \E delivered \in BOOLEAN : LeaseTake(n, delivered)
  BY <1>4, TakeHandsOut DEF Book!BookNext
<1>5. CASE Heartbeat(n)
  <2>1. /\ Working(n)
        /\ tiles' = [tiles EXCEPT ![runners[n].run].status = "running"]
        /\ \E s : runners' = [runners EXCEPT ![n].stop = s]
    BY <1>5 DEF Heartbeat, NoteHeartbeat
  <2>2. TypeOK /\ tiles[runners[n].run].status \in {"leased", "running"}
    BY <2>1, HoldersHold DEF LeaseInv
  <2>3. \A m \in Runners : runners'[m].run = runners[m].run
    BY <2>1, <2>2 DEF TypeOK, RunnerStates
  <2>4. PICK r \in RunIds : r = runners[n].run
    BY <2>1, HoldersHold
  <2> DEFINE u == [tiles[r] EXCEPT !.status = "running"]
  <2>5. /\ tiles[r] \in Tiles /\ tiles[r].status \in {"leased", "running"}
        /\ tiles' = [tiles EXCEPT ![r] = u]
    BY <2>1, <2>2, <2>4 DEF TypeOK
  <2>6. u.status = "running" /\ u.attempts = tiles[r].attempts
    BY <2>5 DEF Tiles
  <2> HIDE DEF u
  <2>7. BookState(u) = BookState(tiles[r])
    BY <2>5, <2>6 DEF BookState
  <2>8. \A p \in RunIds : /\ BookState(tiles'[p]) = BookState(tiles[p])
                          /\ tiles'[p].attempts = tiles[p].attempts
    BY <2>2, <2>5, <2>6, <2>7, SameBookTile
  <2>9. QED
    BY <2>3, <2>8, StutterWhenSame
<1>6. ~HeartbeatDelayed(n)
  BY DEF HeartbeatDelayed
<1>7. CASE Crash(n)
  <2>1. Ends(n) /\ UNCHANGED tiles
    BY <1>7 DEF Crash, Ends, wallVars
  <2>2. QED
    BY <2>1, EndsLetsGo DEF Book!BookNext
<1>8. ASSUME NEW o \in RunnerOutcomes, EndRun(n, o)
      PROVE  Book!BookNext
  <2> DEFINE m == [run |-> runners[n].run, attempt |-> runners[n].attempt,
                   gen |-> runners[n].gen, outcome |-> o,
                   version |-> Version[n], checked |-> FALSE]
  <2>1. TypeOK /\ UNCHANGED tiles
    BY <1>8 DEF LeaseInv, EndRun, wallVars
  <2>2. m \in Reports
    BY <1>8, <2>1, WallAssumption
       DEF EndRun, Working, TypeOK, RunnerStates, Reports
  <2>3. m.run = runners[n].run /\ m.attempt = runners[n].attempt
    OBVIOUS
  <2>4. /\ Working(n) /\ reports' = reports \cup {m}
        /\ runners' = [runners EXCEPT ![n] = IdleRunner]
    BY <1>8 DEF EndRun
  <2> HIDE DEF m
  <2>5. Ends(n)
    BY <2>2, <2>3, <2>4 DEF Ends
  <2>6. QED
    BY <2>1, <2>5, EndsLetsGo DEF Book!BookNext
<1>9. QED
  BY <1>1, <1>2, <1>3, <1>4, <1>5, <1>6, <1>7, <1>8 DEF Runner, LeaseScan, LeasePass

\* So is every other step.
LEMMA BookStep ==
  ASSUME ~Zombies, LeaseInv, [Next]_vars
  PROVE  Book!BookNext \/ BookStutter
<1>0. TypeOK
  BY DEF LeaseInv
<1>1. ASSUME NEW r \in Submittable, NEW spec \in SubmitSpecs, Submit(r, spec)
      PROVE  Book!BookNext
  BY <1>1, SubmitOpens, WallAssumption DEF Book!BookNext
<1>2. ASSUME NEW r \in RunIds, Delete(r)
      PROVE  Book!BookNext
  BY <1>2, DeleteForgets DEF Book!BookNext
<1>3. ASSUME NEW r \in RunIds, Cancel(r) \/ Flag(r)
      PROVE  BookStutter
  <2>1. UNCHANGED runners /\ \E k : tiles' = [tiles EXCEPT ![r].flag = k]
    BY <1>3 DEF Cancel, Flag, netVars
  <2>2. PICK k : tiles' = [tiles EXCEPT ![r] = [tiles[r] EXCEPT !.flag = k]]
    BY <2>1
  <2> DEFINE u == [tiles[r] EXCEPT !.flag = k]
  <2>3. u.status = tiles[r].status /\ u.attempts = tiles[r].attempts
    BY <1>0 DEF TypeOK, Tiles
  <2> HIDE DEF u
  <2>4. BookState(u) = BookState(tiles[r])
    BY <2>3 DEF BookState
  <2>5. tiles' = [tiles EXCEPT ![r] = u]
    BY <2>2 DEF u
  <2>6. \A p \in RunIds : /\ BookState(tiles'[p]) = BookState(tiles[p])
                          /\ tiles'[p].attempts = tiles[p].attempts
    BY <1>0, <2>3, <2>4, <2>5, SameBookTile
  <2>7. QED
    BY <2>1, <2>6, StutterWhenSame
<1>4. ASSUME NEW r \in RunIds, GoQuiet(r)
      PROVE  BookStutter
  BY <1>4, StutterWhenSame DEF GoQuiet, netVars
<1>5. \A r \in RunIds : ~LateHeartbeat(r)
  BY DEF LateHeartbeat, LeaseInv
<1>6. ASSUME NEW r \in RunIds, Reaper(r)
      PROVE  Book!BookNext
  <2>1. /\ UNCHANGED runners /\ Reapable(r)
        /\ \E o \in {FlaggedStuck, WorkerLost} : SettleRun(r, tiles[r], o, queue)
    BY <1>6 DEF Reaper, ReapFlagged, ReapStale, netVars
  <2>2. \A n \in Runners : runners[n].run # r
    BY <1>6 DEF Reaper, ReapFlagged, ReapStale, Abandoned, LeaseInv, QuietIsAbandoned
  <2>3. tiles[r].status \in {"leased", "running"}
    BY <1>0, <2>1 DEF Reapable, Live, Known, LeaseInv, FinishedMatchesStatus, TypeOK,
                      Tiles, Statuses
  <2>4. Book!Settle(r)
    BY <2>1, <2>2, <2>3, WallOutcomeType, SettleSettles
  <2>5. QED
    BY <2>4 DEF Book!BookNext
<1>7. ASSUME NEW m \in reports, Finish(m) \/ LoseReport(m)
      PROVE  Book!BookNext \/ BookStutter
  <2>1. CASE FinishSettle(m)
    <3>1. PICK r \in RunIds : r = m.run
      BY HoldersHold
    <3>2. tiles[r].status \in {"leased", "running"} /\ m.outcome \in Outcomes
      BY <3>1, HoldersHold
    <3>3. \A n \in Runners : runners[n].run # r
      BY <3>1 DEF LeaseInv, OneHolder
    <3>4. PICK t : t = NoteProgress(tiles[r], m.outcome)
      OBVIOUS
    <3>5. SettleRun(r, t, m.outcome, queue) /\ UNCHANGED runners
      BY <2>1, <3>1, <3>4 DEF FinishSettle
    <3>6. t \in {tiles[r], NoteProgress(tiles[r], m.outcome)}
      BY <3>4
    <3>7. Book!Settle(r)
      BY <3>2, <3>3, <3>5, <3>6, SettleSettles
    <3>8. QED
      BY <3>7 DEF Book!BookNext
  <2>2. CASE ~FinishSettle(m)
    <3>1. UNCHANGED <<tiles, runners>>
      BY <1>7, <2>2 DEF Finish, FinishCheckFlag, FinishRefused, LoseReport, wallVars
    <3>2. QED
      BY <3>1, StutterWhenSame
  <2>3. QED
    BY <2>1, <2>2
<1>8. CASE UNCHANGED vars
  BY <1>8, StutterWhenSame DEF vars
<1>9. QED
  BY <1>1, <1>2, <1>3, <1>4, <1>5, <1>6, <1>7, <1>8, RunnerSteps DEF Next, Operator

\* While no runner outlives its generation, the wall implements LeaseBook: each
\* generation is handed to at most one runner that plays nothing else, is
\* settled once and after that runner let go, and only then is the next one
\* handed out, with all the scans, flags, retries and reports in between.
THEOREM LeaseBookImplemented == ASSUME ~Zombies PROVE Spec => ImplementsLeaseBook
<1>1. Init => Book!BookInit
  <2> SUFFICES ASSUME Init
               PROVE  Book!BookInit
    OBVIOUS
  <2>1. /\ tiles = [r \in RunIds |-> AbsentTile]
        /\ \A n \in Runners : runners[n].run = NoRun
    BY DEF Init, IdleRunner
  <2>2. \A r \in RunIds : bookState[r] = "free" /\ bookGeneration[r] = 0
    BY <2>1, AbsentFields DEF bookState, BookState, bookGeneration
  <2>3. \A r \in RunIds : bookWorker[r] = NoRunner
    BY <2>1, AbandonedWorker, RunTileAssumption
  <2>4. QED
    BY <2>2, <2>3 DEF Book!BookInit, bookState, bookGeneration, bookWorker
<1>2. LeaseInv /\ [Next]_vars => [Book!BookNext]_(Book!bookVars)
  BY BookStep DEF BookStutter
<1>3. QED
  BY <1>1, <1>2, LeaseInvariant, PTL DEF Spec, ImplementsLeaseBook, Book!BookSpec

-----------------------------------------------------------------------------
(* The wall over its restarts.  What a restart makes of the last snapshot    *)
(* has to be a state in which the lease invariant holds: the snapshot is a   *)
(* whole one, and whoever plays or reports a run is out in it.               *)

SavedIsWhole ==
    /\ saved.tiles \in [RunIds -> Tiles]
    /\ saved.fills \in [RunIds -> Nat]
    /\ saved.parent \in [RunIds -> RunIds \cup {NoRun}]
    /\ saved.queue \in Seq(RunIds)
    /\ \A r \in RunIds : LET t == saved.tiles[r] IN
         /\ t.finished <=> t.status \in {"done", "paused"}
         /\ t.status = "absent" => t = AbsentTile
    /\ Exact(saved.tiles, saved.queue)

HoldersAreSaved ==
    /\ \A n \in Runners :
         Working(n) => Out(saved.tiles[runners[n].run], runners[n].attempt)
    /\ \A m \in reports : Out(saved.tiles[m.run], m.attempt)

StoreInv == LeaseInv /\ SavedIsWhole /\ HoldersAreSaved

\* A snapshot taken while the lease invariant holds is whole, and every holder
\* is out in it.
LEMMA SnapshotIsWhole ==
  ASSUME LeaseInv, saved = Snapshot
  PROVE  SavedIsWhole /\ HoldersAreSaved
<1>1. /\ saved.tiles = tiles /\ saved.queue = queue
      /\ saved.fills = fills /\ saved.parent = parent
  BY DEF Snapshot
<1>2. SavedIsWhole
  BY <1>1, QueueIsExactHere
     DEF LeaseInv, TypeOK, FinishedMatchesStatus, SavedIsWhole
<1>3. HoldersAreSaved
  BY <1>1 DEF LeaseInv, HoldersAreOut, HoldersAreSaved
<1>4. QED
  BY <1>2, <1>3

LEMMA SnapshotIsWholeNext ==
  ASSUME LeaseInv', saved' = Snapshot'
  PROVE  (SavedIsWhole /\ HoldersAreSaved)'
<1>1. /\ saved'.tiles = tiles' /\ saved'.queue = queue'
      /\ saved'.fills = fills' /\ saved'.parent = parent'
  BY DEF Snapshot
<1>2. QueueIsExact' <=> Exact(tiles', queue')
  BY DEF QueueIsExact, InQueue, Exact, HasEntry, Distinct
<1>3. SavedIsWhole'
  BY <1>1, <1>2 DEF LeaseInv, TypeOK, FinishedMatchesStatus, SavedIsWhole
<1>4. HoldersAreSaved'
  BY <1>1 DEF LeaseInv, HoldersAreOut, HoldersAreSaved
<1>5. QED
  BY <1>3, <1>4

\* Without a lease that arrives, whoever holds a run held it before.
LEMMA HoldersAreOld ==
  ASSUME LeaseInv, HoldersAreSaved, [Next]_vars, ~\E n \in Runners : Receives(n),
         UNCHANGED saved
  PROVE  HoldersAreSaved'
<1>0. TypeOK
  BY DEF LeaseInv
<1>1. ASSUME NEW n \in Runners, Working(n)'
      PROVE  Out(saved'.tiles[runners'[n].run], runners'[n].attempt)
  <2>1. Working(n)
    BY <1>1 DEF Receives, Working
  <2>2. ~LeaseTake(n, TRUE)
    BY <2>1 DEF LeaseInv, ScannerIsIdle, LeaseTake, Scanning
  <2>3. runners'[n].run = runners[n].run /\ runners'[n].attempt = runners[n].attempt
    BY <1>0, <1>1, <2>2, RunnerClaims
  <2>4. QED
    BY <2>1, <2>3 DEF HoldersAreSaved
<1>2. ASSUME NEW m \in reports'
      PROVE  Out(saved'.tiles[m.run], m.attempt)
  BY <1>0, <1>2, ReportClaims DEF HoldersAreSaved
<1>3. QED
  BY <1>1, <1>2 DEF HoldersAreSaved

\* evictCatalogFinished takes finished runs only.
LEMMA EvictKeepsLeases ==
  ASSUME LeaseInv, EvictFinished
  PROVE  LeaseInv'
<1> DEFINE gone == {r \in RunIds : tiles[r].finished /\ r \notin Lineage}
<1>1. /\ TypeOK
      /\ tiles' = [r \in RunIds |-> IF r \in gone THEN AbsentTile ELSE tiles[r]]
      /\ cancel' \subseteq cancel /\ stale' \subseteq stale
      /\ UNCHANGED <<queue, fills, parent, holder, cursor, runners, late, reports>>
  BY DEF LeaseInv, EvictFinished, scanVars, netVars
<1>2. \A r \in gone : r \in RunIds /\ tiles[r].status \in {"done", "paused"}
  BY DEF LeaseInv, FinishedMatchesStatus
<1> HIDE DEF gone
<1>3. ASSUME NEW r \in RunIds
      PROVE  /\ tiles'[r] = tiles[r] \/ (r \in gone /\ tiles'[r] = AbsentTile)
             /\ tiles[r] \in Tiles
  BY <1>1 DEF TypeOK
<1>4. TypeOK'
  BY <1>1, AbsentTileType DEF TypeOK
<1>5. FinishedMatchesStatus'
  BY <1>3, AbsentFields DEF LeaseInv, FinishedMatchesStatus
<1>6. \A r \in RunIds : tiles'[r].status = "queued" <=> tiles[r].status = "queued"
  BY <1>2, <1>3, AbsentFields
<1>7. QueueIsExact'
  BY <1>1, <1>6 DEF LeaseInv, QueueIsExact, InQueue
<1>8. ASSUME NEW r \in RunIds, NEW a, Out(tiles[r], a)
      PROVE  Out(tiles'[r], a)
  BY <1>2, <1>3, <1>8 DEF Out
<1>9. HoldersAreOut'
  BY <1>1, <1>8, HoldersHold DEF LeaseInv, HoldersAreOut, Working
<1>10. QED
  BY <1>1, <1>4, <1>5, <1>7, <1>9
     DEF LeaseInv, OneHolder, ExclusiveLease, Working, QuietIsAbandoned, Abandoned,
         ScannerIsIdle

\* The snapshot, the runners and the reports that survive the restart are a
\* state of the running wall.
LEMMA RestartKeepsLeases ==
  ASSUME StoreInv, Restart
  PROVE  StoreInv'
<1>1. /\ LeaseInv /\ TypeOK /\ SavedIsWhole /\ HoldersAreSaved
      /\ queue' = saved.queue /\ fills' = saved.fills /\ parent' = saved.parent
      /\ cancel' = {} /\ stale' = {} /\ late' = {}
      /\ holder' = NoRunner /\ cursor' = 1
      /\ reports' \subseteq reports
      /\ UNCHANGED <<runners, saved>>
  BY DEF StoreInv, LeaseInv, Restart
<1>2. tiles' = saved.tiles
  <2>1. tiles' = [r \in RunIds |-> saved.tiles[r]]
    BY DEF Restart, Restored
  <2>2. QED
    BY <1>1, <2>1 DEF SavedIsWhole
<1>3. TypeOK'
  BY <1>1, <1>2 DEF TypeOK, SavedIsWhole
<1>4. FinishedMatchesStatus'
  BY <1>1, <1>2 DEF FinishedMatchesStatus, SavedIsWhole
<1>5. QueueIsExact'
  BY <1>1, <1>2 DEF QueueIsExact, InQueue, SavedIsWhole, Exact, HasEntry, Distinct
<1>6. HoldersAreOut' /\ HoldersAreSaved'
  BY <1>1, <1>2 DEF HoldersAreOut, HoldersAreSaved, Working
<1>7. OneHolder'
  BY <1>1 DEF LeaseInv, OneHolder, ExclusiveLease, Working
<1>8. QuietIsAbandoned' /\ ScannerIsIdle'
  BY <1>1, WallAssumption DEF QuietIsAbandoned, ScannerIsIdle
<1>9. SavedIsWhole'
  BY <1>1 DEF SavedIsWhole
<1>10. QED
  BY <1>1, <1>3, <1>4, <1>5, <1>6, <1>7, <1>8, <1>9 DEF StoreInv, LeaseInv

LEMMA StoreInvStep ==
  ASSUME ~Zombies, StoreInv, [StoreNext]_storeVars
  PROVE  StoreInv'
<1>0. LeaseInv /\ SavedIsWhole /\ HoldersAreSaved
  BY DEF StoreInv
<1>1. CASE Next /\ Answered
  <2>1. LeaseInv'
    BY <1>0, <1>1, LeaseInvStep
  <2>2. CASE \E n \in Runners : Receives(n)
    <3>1. saved' = Snapshot'
      BY <1>1, <2>2 DEF Answered
    <3>2. QED
      BY <2>1, <3>1, SnapshotIsWholeNext DEF StoreInv
  <2>3. CASE ~\E n \in Runners : Receives(n)
    <3>1. UNCHANGED saved
      BY <1>1, <2>3 DEF Answered
    <3>2. HoldersAreSaved'
      BY <1>0, <1>1, <2>3, <3>1, HoldersAreOld
    <3>3. SavedIsWhole'
      BY <1>0, <3>1 DEF SavedIsWhole
    <3>4. QED
      BY <2>1, <3>2, <3>3 DEF StoreInv
  <2>4. QED
    BY <2>2, <2>3
<1>2. CASE SaveState
  <2>1. LeaseInv' /\ saved' = Snapshot /\ UNCHANGED vars
    BY <1>0, <1>2, LeaseInvStep DEF SaveState
  <2>2. saved' = Snapshot'
    BY <2>1 DEF Snapshot, vars
  <2>3. QED
    BY <2>1, <2>2, SnapshotIsWholeNext DEF StoreInv
<1>3. CASE EvictFinished
  <2>1. LeaseInv'
    BY <1>0, <1>3, EvictKeepsLeases
  <2>2. UNCHANGED <<saved, runners, reports>>
    BY <1>3 DEF EvictFinished, netVars
  <2>3. QED
    BY <1>0, <2>1, <2>2 DEF StoreInv, SavedIsWhole, HoldersAreSaved, Working
<1>4. CASE Restart
  BY <1>4, RestartKeepsLeases
<1>5. CASE UNCHANGED storeVars
  <2>1. LeaseInv'
    BY <1>0, <1>5, LeaseInvStep DEF storeVars
  <2>2. UNCHANGED <<saved, runners, reports>>
    BY <1>5 DEF storeVars, vars
  <2>3. QED
    BY <1>0, <2>1, <2>2 DEF StoreInv, SavedIsWhole, HoldersAreSaved, Working
<1>6. QED
  BY <1>1, <1>2, <1>3, <1>4, <1>5 DEF StoreNext

LEMMA StoreInvariant == ASSUME ~Zombies PROVE StoreSpec => []StoreInv
<1>1. StoreInit => StoreInv
  BY LeaseInvInit, SnapshotIsWhole DEF StoreInit, StoreInv
<1>2. StoreInv /\ [StoreNext]_storeVars => StoreInv'
  BY StoreInvStep
<1>3. QED
  BY <1>1, <1>2, PTL DEF StoreSpec

\* While no runner outlives its generation, whatever other save than that of a
\* lease fails and whenever the wall restarts: a run that is being played is out
\* in the last snapshot, in the generation that is played.
THEOREM PlayedSaved == ASSUME ~Zombies PROVE StoreSpec => []PlayedIsSaved
<1>1. StoreInv => PlayedIsSaved
  <2> SUFFICES ASSUME StoreInv, NEW n \in Runners, Working(n)
               PROVE  LET t == saved.tiles[runners[n].run]
                      IN Live(t) /\ t.status # "queued"
                         /\ CurrentAttempt(t) = runners[n].attempt
    BY DEF PlayedIsSaved
  <2>1. runners[n].run \in RunIds /\ Out(saved.tiles[runners[n].run], runners[n].attempt)
    BY HoldersHold DEF StoreInv, HoldersAreSaved
  <2>2. QED
    BY <2>1 DEF StoreInv, SavedIsWhole, Out, Live, Known
<1>2. QED
  BY <1>1, StoreInvariant, PTL

\* The same over restarts: however much a restart forgets, it never makes two
\* runners play one run, and the queue it loads is exact.
THEOREM LeaseExclusiveOverRestarts ==
  ASSUME ~Zombies PROVE StoreSpec => [](ExclusiveLease /\ QueueIsExact)
<1>1. StoreInv => ExclusiveLease /\ QueueIsExact
  BY DEF StoreInv, LeaseInv, OneHolder
<1>2. QED
  BY <1>1, StoreInvariant, PTL

-----------------------------------------------------------------------------
(* What survives a restart with runners that outlive their generations: a    *)
(* snapshot, whenever it was written, is a state of the running wall.        *)

\* TypeOK, FinishedMatchesStatus, NoStrandedRun, RetryBudgetsHold, ChainHolds
\* and LineageKept, of any tile map ts, queue q, submissions fs and parents ps.
SafeState(ts, q, fs, ps) ==
    /\ ts \in [RunIds -> Tiles]
    /\ q \in Seq(RunIds)
    /\ fs \in [RunIds -> Nat]
    /\ ps \in [RunIds -> RunIds \cup {NoRun}]
    /\ \A r \in RunIds : LET t == ts[r] IN
         /\ t.finished <=> t.status \in {"done", "paused"}
         /\ t.status = "absent" => t = AbsentTile
         /\ t.status = "queued" => HasEntry(q, r)
         /\ t.errorAttempts + t.lossRecoveries <= t.attempts
         /\ Live(t) /\ t.profile # "resilient" =>
              /\ t.errorAttempts < MaxAttempts
              /\ t.lossRecoveries < MaxLostRecoveries
    /\ \A p \in RunIds : LET children == {c \in RunIds : ps[c] = p} IN
         /\ IsFiniteSet(children)
         /\ Cardinality(children) <= fs[p]
         /\ Live(ts[p]) => Cardinality(children) < fs[p]
    /\ \A r \in LineageOf(ts) \ {NoRun} : Known(ts[r])

Safe ==
    /\ TypeOK
    /\ FinishedMatchesStatus
    /\ NoStrandedRun
    /\ RetryBudgetsHold
    /\ ChainHolds
    /\ LineageKept

SavedIsSafe == SafeState(saved.tiles, saved.queue, saved.fills, saved.parent)

LEMMA SafeIsState ==
  TypeOK => (Safe <=> SafeState(tiles, queue, fills, parent))
<1> SUFFICES ASSUME TypeOK
             PROVE  Safe <=> SafeState(tiles, queue, fills, parent)
  OBVIOUS
<1>1. LineageKept <=> \A r \in LineageOf(tiles) \ {NoRun} : Known(tiles[r])
  BY LineageIs DEF LineageKept
<1>2. ChainHolds <=> \A p \in RunIds :
                       LET children == {c \in RunIds : parent[c] = p} IN
                       /\ IsFiniteSet(children)
                       /\ Cardinality(children) <= fills[p]
                       /\ Live(tiles[p]) => Cardinality(children) < fills[p]
  BY DEF ChainHolds, Children
<1>3. NoStrandedRun <=> \A r \in RunIds :
                          tiles[r].status = "queued" => HasEntry(queue, r)
  BY DEF NoStrandedRun, InQueue, HasEntry
<1>4. /\ tiles \in [RunIds -> Tiles] /\ queue \in Seq(RunIds)
      /\ fills \in [RunIds -> Nat] /\ parent \in [RunIds -> RunIds \cup {NoRun}]
  BY DEF TypeOK
<1> HIDE DEF TypeOK, ChainHolds, LineageKept, NoStrandedRun
<1>5. QED
  BY <1>1, <1>2, <1>3, <1>4 DEF Safe, SafeState, FinishedMatchesStatus, RetryBudgetsHold

LEMMA SafeIsStateNext ==
  TypeOK' => (Safe' <=> SafeState(tiles', queue', fills', parent'))
<1> SUFFICES ASSUME TypeOK'
             PROVE  Safe' <=> SafeState(tiles', queue', fills', parent')
  OBVIOUS
<1>1. LineageKept' <=> \A r \in LineageOf(tiles') \ {NoRun} : Known(tiles'[r])
  BY LineageIs DEF LineageKept
<1>2. ChainHolds' <=> \A p \in RunIds :
                        LET children == {c \in RunIds : parent'[c] = p} IN
                        /\ IsFiniteSet(children)
                        /\ Cardinality(children) <= fills'[p]
                        /\ Live(tiles'[p]) => Cardinality(children) < fills'[p]
  BY DEF ChainHolds, Children
<1>3. NoStrandedRun' <=> \A r \in RunIds :
                           tiles'[r].status = "queued" => HasEntry(queue', r)
  BY DEF NoStrandedRun, InQueue, HasEntry
<1>4. /\ tiles' \in [RunIds -> Tiles] /\ queue' \in Seq(RunIds)
      /\ fills' \in [RunIds -> Nat] /\ parent' \in [RunIds -> RunIds \cup {NoRun}]
  BY DEF TypeOK
<1>5. QED
  BY <1>1, <1>2, <1>3, <1>4 DEF Safe, SafeState, FinishedMatchesStatus, RetryBudgetsHold

LEMMA SafeInit == ASSUME IsFiniteSet(RunIds), Init PROVE Safe
<1>1. TypeOK /\ ChainHolds /\ LineageKept
  BY TypeInit, ChainInit, LineageInit
<1>2. FinishedMatchesStatus /\ NoStrandedRun /\ RetryBudgetsHold
  BY AbsentFields DEF Init, FinishedMatchesStatus, NoStrandedRun, RetryBudgetsHold
<1>3. QED
  BY <1>1, <1>2 DEF Safe

LEMMA SafeStep == ASSUME IsFiniteSet(RunIds), Safe, [Next]_vars PROVE Safe'
<1>1. TypeOK' /\ FinishedMatchesStatus' /\ NoStrandedRun'
  BY TypeStep, FinishedMatchesStatusStep, NoStrandedRunStep DEF Safe
<1>2. RetryBudgetsHold' /\ ChainHolds' /\ LineageKept'
  BY RetryBudgetsHoldStep, ChainHoldsStep, LineageKeptStep DEF Safe
<1>3. QED
  BY <1>1, <1>2 DEF Safe

\* evictCatalogFinished erases finished runs that no lineage reaches.
LEMMA EvictIsSafe ==
  ASSUME IsFiniteSet(RunIds), Safe, EvictFinished
  PROVE  Safe'
<1> DEFINE gone == {r \in RunIds : tiles[r].finished /\ r \notin Lineage}
<1>1. /\ TypeOK /\ FinishedMatchesStatus
      /\ tiles' = [r \in RunIds |-> IF r \in gone THEN AbsentTile ELSE tiles[r]]
      /\ cancel' \subseteq cancel /\ stale' \subseteq stale
      /\ UNCHANGED <<queue, fills, parent, holder, cursor, runners, late, reports>>
  BY DEF Safe, EvictFinished, scanVars, netVars
<1>2. \A r \in gone : r \notin LineageOf(tiles)
  BY LineageIs
<1> HIDE DEF gone
<1>3. \A r \in RunIds : \/ tiles'[r] = tiles[r]
                        \/ r \in gone /\ tiles'[r] = AbsentTile
  BY <1>1
<1>4. TypeOK'
  BY <1>1, AbsentTileType DEF TypeOK
<1>5. FinishedMatchesStatus'
  BY <1>1, <1>3, AbsentFields DEF FinishedMatchesStatus
<1>6. NoStrandedRun'
  BY <1>1, <1>3, AbsentFields DEF Safe, NoStrandedRun, InQueue
<1>7. RetryBudgetsHold'
  BY <1>3, AbsentFields DEF Safe, RetryBudgetsHold
<1>8. ChainHolds'
  BY <1>1, <1>3, AbsentFields DEF Safe, ChainHolds, Children
<1>9. LineageKept'
  <2>1. Ancestors(tiles) /\ Ancestors(tiles')
    BY <1>1, <1>4 DEF Ancestors, TypeOK, Tiles
  <2>2. AbsentTile.resumeFrom = NoRun
    BY DEF AbsentTile
  <2>3. \A r \in RunIds : LineageMove(tiles, tiles', r)
    BY <1>2, <1>3, <2>2 DEF LineageMove, Roots
  <2>4. \A r \in LineageOf(tiles) \ {NoRun} : Known(tiles[r])
    BY LineageIs DEF Safe, LineageKept
  <2>5. \A r \in LineageOf(tiles') \ {NoRun} : Known(tiles'[r])
    BY <2>1, <2>3, <2>4, LineageStep
  <2>6. QED
    BY <2>5, LineageIs DEF LineageKept
<1>10. QED
  BY <1>4, <1>5, <1>6, <1>7, <1>8, <1>9 DEF Safe

\* loadState makes a snapshot the state, with no flags and no requests.
LEMMA RestartIsSafe ==
  ASSUME TypeOK, SavedIsSafe, Restart
  PROVE  Safe'
<1>1. /\ queue' = saved.queue /\ fills' = saved.fills /\ parent' = saved.parent
      /\ cancel' = {} /\ stale' = {} /\ late' = {}
      /\ holder' = NoRunner /\ cursor' = 1
      /\ reports' \subseteq reports
      /\ UNCHANGED <<runners, saved>>
  BY DEF Restart
<1>2. tiles' = saved.tiles
  <2>1. tiles' = [r \in RunIds |-> saved.tiles[r]]
    BY DEF Restart, Restored
  <2>2. QED
    BY <2>1 DEF SavedIsSafe, SafeState
<1>3. TypeOK'
  BY <1>1, <1>2 DEF TypeOK, SavedIsSafe, SafeState
<1>4. SafeState(tiles', queue', fills', parent')
  BY <1>1, <1>2 DEF SavedIsSafe
<1>5. QED
  BY <1>3, <1>4, SafeIsStateNext

\* The safety of the wall over its restarts, with runners and requests that
\* outlive what they were for: whenever it saves, whatever save fails, however
\* often it restarts from its last snapshot and whatever it evicts, no run is
\* stranded, no budget is overspent, no chain has two live runs, and no lineage
\* loses an ancestor.
THEOREM SafeOverRestarts ==
  ASSUME IsFiniteSet(RunIds)
  PROVE  StoreSpec => [](/\ TypeOK /\ FinishedMatchesStatus /\ NoStrandedRun
                         /\ RetryBudgetsHold /\ OneLivePerChain /\ LineageKept)
<1>1. StoreInit => Safe /\ SavedIsSafe
  <2> SUFFICES ASSUME StoreInit
               PROVE  Safe /\ SavedIsSafe
    OBVIOUS
  <2>1. Safe /\ TypeOK
    BY SafeInit DEF StoreInit, Safe
  <2>2. /\ saved.tiles = tiles /\ saved.queue = queue
        /\ saved.fills = fills /\ saved.parent = parent
    BY DEF StoreInit, Snapshot
  <2>3. QED
    BY <2>1, <2>2, SafeIsState DEF SavedIsSafe
<1>2. Safe /\ SavedIsSafe /\ [StoreNext]_storeVars => (Safe /\ SavedIsSafe)'
  <2> SUFFICES ASSUME Safe, SavedIsSafe, [StoreNext]_storeVars
               PROVE  Safe' /\ SavedIsSafe'
    OBVIOUS
  <2>1. Safe'
    <3>1. CASE [Next]_vars
      BY <3>1, SafeStep
    <3>2. CASE EvictFinished
      BY <3>2, EvictIsSafe
    <3>3. CASE Restart
      BY <3>3, RestartIsSafe DEF Safe
    <3>4. QED
      BY <3>1, <3>2, <3>3 DEF StoreNext, SaveState, storeVars
  <2>2. CASE UNCHANGED saved
    BY <2>1, <2>2 DEF SavedIsSafe
  <2>3. CASE saved' = Snapshot'
    <3>1. /\ saved'.tiles = tiles' /\ saved'.queue = queue'
          /\ saved'.fills = fills' /\ saved'.parent = parent'
      BY <2>3 DEF Snapshot
    <3>2. SafeState(tiles', queue', fills', parent')
      BY <2>1, SafeIsStateNext DEF Safe
    <3>3. QED
      BY <2>1, <3>1, <3>2 DEF SavedIsSafe
  <2>4. CASE SaveState
    <3>1. saved' = Snapshot /\ UNCHANGED vars
      BY <2>4 DEF SaveState
    <3>2. saved' = Snapshot'
      BY <3>1 DEF Snapshot, vars
    <3>3. QED
      BY <2>3, <3>2
  <2>5. QED
    BY <2>2, <2>3, <2>4 DEF StoreNext, Answered, EvictFinished, Restart, storeVars
<1>3. Safe => /\ TypeOK /\ FinishedMatchesStatus /\ NoStrandedRun
              /\ RetryBudgetsHold /\ OneLivePerChain /\ LineageKept
  BY ChainHoldsIsEnough DEF Safe
<1>4. QED
  BY <1>1, <1>2, <1>3, PTL DEF StoreSpec
=============================================================================
