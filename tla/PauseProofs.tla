----------------------------- MODULE PauseProofs -----------------------------
(***************************************************************************)
(* The invariants of PauseControl for every set of runs, runners and        *)
(* builds, with the control plane or without it.  A step of PauseControl is *)
(* a step of Wall, for which WallProofs and WallLeaseProofs have the lemmas, *)
(* or a move of its own (PauseMove), whose effect on tiles and queue is     *)
(* stated once (PauseMoveEffect).                                           *)
(*                                                                          *)
(* The theorems take the set of run ids as finite: the order in which the   *)
(* peers of a canary return to the queue has an entry per peer.             *)
(***************************************************************************)
EXTENDS PauseControl, WallLeaseProofs

-----------------------------------------------------------------------------
(* Taking ids out of the queue.                                              *)

LEMMA AppendEntries ==
  ASSUME NEW S, NEW q \in Seq(S), NEW x \in S
  PROVE  \A r : HasEntry(Append(q, x), r) <=> HasEntry(q, r) \/ r = x
<1>1. /\ Len(Append(q, x)) = Len(q) + 1 /\ Len(q) \in Nat
      /\ \A i \in 1..Len(q) : Append(q, x)[i] = q[i]
      /\ Append(q, x)[Len(q) + 1] = x
  BY AppendProperties, LenProperties
<1>2. QED
  BY <1>1 DEF HasEntry

\* The function that RemoveIds is defined by.
KeptStep(q, ids, f) ==
  [i \in 0..Len(q) |-> IF i = 0 THEN <<>>
                       ELSE IF q[i] \in ids THEN f[i - 1]
                       ELSE Append(f[i - 1], q[i])]

LEMMA KeptExists ==
  ASSUME NEW S, NEW q \in Seq(S), NEW ids
  PROVE  \E f : /\ f = KeptStep(q, ids, f)
                /\ RemoveIds(q, ids) = f[Len(q)]
<1> DEFINE step == [p \in Nat \X Seq(S) |->
                      IF p[1] \in 1..Len(q) /\ q[p[1]] \notin ids
                      THEN Append(p[2], q[p[1]]) ELSE p[2]]
<1>1. Len(q) \in Nat /\ <<>> \in Seq(S) /\ \A i \in 1..Len(q) : q[i] \in S
  BY LenProperties, ElementOfSeq, EmptySeq
<1>2. step \in [Nat \X Seq(S) -> Seq(S)]
  <2>1. ASSUME NEW p \in Nat \X Seq(S)
        PROVE  step[p] \in Seq(S)
    BY <1>1, <2>1, AppendProperties
  <2>2. QED
    BY <2>1
<1>3. PICK f \in [0..Len(q) -> Seq(S)] :
         /\ f[0] = <<>>
         /\ \A i \in 1..Len(q) : f[i] = step[<<i, f[i - 1]>>]
  <2>1. IsStep(Seq(S), step)
    BY <1>2 DEF IsStep
  <2> HIDE DEF step
  <2>2. PICK f : Unfolds(f, Seq(S), <<>>, step, Len(q))
    BY <1>1, <2>1, Recursion
  <2>3. QED
    BY <2>2 DEF Unfolds
<1>4. ASSUME NEW i \in 1..Len(q)
      PROVE  f[i] = IF q[i] \in ids THEN f[i - 1] ELSE Append(f[i - 1], q[i])
  <2>1. i \in Nat /\ i - 1 \in 0..Len(q)
    BY <1>1
  <2>2. f[i - 1] \in Seq(S)
    BY <2>1
  <2>3. \A p \in Nat, s \in Seq(S) :
          step[<<p, s>>] = IF p \in 1..Len(q) /\ q[p] \notin ids
                           THEN Append(s, q[p]) ELSE s
    OBVIOUS
  <2>4. step[<<i, f[i - 1]>>] = IF i \in 1..Len(q) /\ q[i] \notin ids
                                THEN Append(f[i - 1], q[i]) ELSE f[i - 1]
    BY <2>1, <2>2, <2>3
  <2> HIDE DEF step
  <2>5. f[i] = step[<<i, f[i - 1]>>]
    BY <1>3
  <2>6. QED
    BY <2>4, <2>5
<1>5. f = KeptStep(q, ids, f)
  <2>1. \A i \in 0..Len(q) : i # 0 => i \in 1..Len(q)
    BY <1>1
  <2>2. ASSUME NEW i \in 0..Len(q)
        PROVE  f[i] = IF i = 0 THEN <<>>
                      ELSE IF q[i] \in ids THEN f[i - 1]
                      ELSE Append(f[i - 1], q[i])
    BY <1>3, <1>4, <2>1
  <2>3. QED
    BY <2>2 DEF KeptStep
<1>6. RemoveIds(q, ids) = (CHOOSE g : g = KeptStep(q, ids, g))[Len(q)]
  BY DEF RemoveIds, KeptStep
<1>7. (CHOOSE g : g = KeptStep(q, ids, g)) = KeptStep(q, ids, CHOOSE g : g = KeptStep(q, ids, g))
  BY <1>5
<1>8. QED
  BY <1>6, <1>7

LEMMA RemoveIdsKeeps ==
  ASSUME NEW S, NEW q \in Seq(S), NEW ids
  PROVE  /\ RemoveIds(q, ids) \in Seq(S)
         /\ \A r : HasEntry(RemoveIds(q, ids), r) <=> HasEntry(q, r) /\ r \notin ids
         /\ Distinct(q) => Distinct(RemoveIds(q, ids))
<1>1. PICK f : f = KeptStep(q, ids, f) /\ RemoveIds(q, ids) = f[Len(q)]
  BY KeptExists
<1>2. Len(q) \in Nat /\ <<>> \in Seq(S) /\ \A i \in 1..Len(q) : q[i] \in S
  BY LenProperties, ElementOfSeq, EmptySeq
<1>3. /\ f[0] = <<>>
      /\ \A i \in 1..Len(q) : f[i] = IF q[i] \in ids THEN f[i - 1]
                                     ELSE Append(f[i - 1], q[i])
  <2>1. 0 \in 0..Len(q) /\ \A i \in 1..Len(q) : i \in 0..Len(q) /\ i # 0
    BY <1>2
  <2>2. QED
    BY <1>1, <2>1 DEF KeptStep
<1> DEFINE KeptTo(i) ==
             /\ f[i] \in Seq(S)
             /\ \A r : HasEntry(f[i], r) <=> r \notin ids /\ \E j \in 1..i : q[j] = r
             /\ Distinct(q) => Distinct(f[i])
           T == {i \in Nat : i <= Len(q) => KeptTo(i)}
<1>4. KeptTo(0)
  <2>1. Len(f[0]) = 0
    BY <1>3
  <2>2. QED
    BY <1>2, <1>3, <2>1 DEF HasEntry, Distinct
<1>5. ASSUME NEW i \in Nat, i + 1 <= Len(q), KeptTo(i)
      PROVE  KeptTo(i + 1)
  <2>1. /\ i + 1 \in 1..Len(q) /\ (i + 1) - 1 = i
        /\ \A j : j \in 1..(i + 1) <=> j \in 1..i \/ j = i + 1
    BY <1>2, <1>5
  <2>2. f[i + 1] = IF q[i + 1] \in ids THEN f[i] ELSE Append(f[i], q[i + 1])
    BY <1>3, <2>1
  <2>3. CASE q[i + 1] \in ids
    BY <1>5, <2>1, <2>2, <2>3
  <2>4. CASE q[i + 1] \notin ids
    <3>1. q[i + 1] \in S /\ f[i] \in Seq(S) /\ f[i + 1] = Append(f[i], q[i + 1])
      BY <1>2, <1>5, <2>1, <2>2, <2>4
    <3>2. f[i + 1] \in Seq(S)
      BY <3>1, AppendProperties
    <3>3. \A r : HasEntry(f[i + 1], r) <=> HasEntry(f[i], r) \/ r = q[i + 1]
      BY <3>1, AppendEntries
    <3>4. \A r : HasEntry(f[i + 1], r) <=> r \notin ids /\ \E j \in 1..(i + 1) : q[j] = r
      BY <1>5, <2>1, <2>4, <3>3
    <3>5. ASSUME Distinct(q)
          PROVE  Distinct(f[i + 1])
      <4>1. \A j \in 1..i : j \in 1..Len(q) /\ j # i + 1
        BY <1>2, <1>5
      <4>2. ~HasEntry(f[i], q[i + 1])
        BY <1>5, <2>1, <3>5, <4>1 DEF Distinct
      <4>3. Distinct(f[i])
        BY <1>5, <3>5
      <4>4. QED
        BY <3>1, <4>2, <4>3, AppendDistinct
    <3>6. QED
      BY <3>2, <3>4, <3>5
  <2>5. QED
    BY <2>3, <2>4
<1>6. Len(q) \in T
  <2>1. 0 \in T
    BY <1>4
  <2>2. ASSUME NEW i \in Nat, i \in T
        PROVE  i + 1 \in T
    <3>1. i + 1 <= Len(q) => i <= Len(q)
      BY <1>2
    <3> HIDE DEF KeptTo
    <3>2. QED
      BY <1>5, <2>2, <3>1
  <2> HIDE DEF T
  <2>3. QED
    BY <1>2, <2>1, <2>2, SetInduction
<1>7. KeptTo(Len(q))
  BY <1>2, <1>6
<1>8. QED
  BY <1>1, <1>7 DEF HasEntry

\* Adding several entries at the end.
LEMMA ConcatEntries ==
  ASSUME NEW S, NEW q \in Seq(S), NEW p \in Seq(S)
  PROVE  /\ q \o p \in Seq(S)
         /\ \A r : HasEntry(q \o p, r) <=> HasEntry(q, r) \/ HasEntry(p, r)
<1> DEFINE w == q \o p
<1>1. /\ w \in Seq(S) /\ Len(w) = Len(q) + Len(p)
      /\ Len(q) \in Nat /\ Len(p) \in Nat
      /\ \A k \in 1..(Len(q) + Len(p)) : w[k] =
             IF k <= Len(q) THEN q[k] ELSE p[k - Len(q)]
  BY ConcatProperties, LenProperties
<1> HIDE DEF w
<1>2. ASSUME NEW r, HasEntry(w, r)
      PROVE  HasEntry(q, r) \/ HasEntry(p, r)
  <2>1. PICK k \in 1..(Len(q) + Len(p)) : w[k] = r
    BY <1>1, <1>2 DEF HasEntry
  <2>2. CASE k <= Len(q)
    BY <1>1, <2>1, <2>2 DEF HasEntry
  <2>3. CASE ~(k <= Len(q))
    <3>1. k - Len(q) \in 1..Len(p) /\ p[k - Len(q)] = r
      BY <1>1, <2>1, <2>3
    <3>2. QED
      BY <3>1 DEF HasEntry
  <2>4. QED
    BY <2>2, <2>3
<1>3. ASSUME NEW r, HasEntry(q, r)
      PROVE  HasEntry(w, r)
  BY <1>1, <1>3 DEF HasEntry
<1>4. ASSUME NEW r, HasEntry(p, r)
      PROVE  HasEntry(w, r)
  <2>1. PICK k \in 1..Len(p) : p[k] = r
    BY <1>4 DEF HasEntry
  <2>2. /\ k + Len(q) \in 1..(Len(q) + Len(p)) /\ ~(k + Len(q) <= Len(q))
        /\ (k + Len(q)) - Len(q) = k
    BY <1>1, <2>1
  <2>3. w[k + Len(q)] = r
    BY <1>1, <2>1, <2>2
  <2>4. QED
    BY <1>1, <2>2, <2>3 DEF HasEntry
<1>5. QED
  BY <1>1, <1>2, <1>3, <1>4 DEF w

-----------------------------------------------------------------------------
(* The moves of PauseControl.                                                *)

\* The steps that are not steps of Wall.
PauseMove ==
    \/ \E r \in RunIds : \/ PauseQueued(r) \/ PauseActive(r) \/ Resume(r)
                         \/ CancelPaused(r) \/ ReleaseCanary(r)
    \/ \E x \in wraps : \/ FinalizePause(x) \/ CheckCanary(x) \/ OpenCircuit(x)
                        \/ AutoPause(x)

LEMMA PauseSteps ==
  ASSUME [PauseNext]_pvars
  PROVE  [Next]_vars \/ PauseMove
<1>1. CASE OperatorOnWall
  BY <1>1 DEF OperatorOnWall, Next, Operator
<1>2. CASE WallGoesOn
  BY <1>2 DEF WallGoesOn, Next
<1>3. CASE UNCHANGED vars
  BY <1>3
<1>4. ASSUME NEW m \in reports, WrapInner(m)
      PROVE  [Next]_vars
  <2>1. \/ UNCHANGED vars
        \/ FinishCheckFlag(m) \/ FinishSettle(m) \/ FinishRefused(m)
    BY <1>4 DEF WrapInner, WrapFinish, WrapCheckFlag, WrapSettle, WrapRefused
  <2>2. QED
    BY <2>1 DEF Next, Finish
<1>5. ASSUME NEW x \in wraps, WrapTail(x)
      PROVE  UNCHANGED vars \/ PauseMove
  BY <1>5 DEF WrapTail, ClaimIntent, CircuitStaysClosed, NoteFailure, PauseMove
<1>6. ASSUME NEW r \in RunIds, PauseOperator(r) \/ ReleaseCanary(r)
      PROVE  PauseMove
  BY <1>6 DEF PauseOperator, PauseMove
<1>7. ASSUME NEW f \in forgets, Forget(f)
      PROVE  UNCHANGED vars
  BY <1>7 DEF Forget
<1>8. CASE UNCHANGED pvars
  BY <1>8 DEF pvars
<1>9. QED
  BY <1>1, <1>2, <1>3, <1>4, <1>5, <1>6, <1>7, <1>8 DEF PauseNext

-----------------------------------------------------------------------------
(* What a move writes into one tile.                                         *)

SameCounters(t, u) ==
    /\ u.attempts = t.attempts
    /\ u.profile = t.profile
    /\ u.errorAttempts = t.errorAttempts
    /\ u.lossRecoveries = t.lossRecoveries

\* The circuit is noted on the tile, or cleared.
Marked(t, u) ==
    /\ Known(t)
    /\ u.status = t.status
    /\ u.finished = t.finished
    /\ SameCounters(t, u)
    /\ ~u.canary

\* The run is paused, or a paused run is cancelled.  Only the circuit, which
\* needs the control plane, takes a run that is out.
Parked(t, u) ==
    /\ Known(t)
    /\ ControlPlane \/ t.status \notin {"leased", "running"}
    /\ u.status \in {"paused", "done"}
    /\ u.finished
    /\ SameCounters(t, u)

\* A paused run returns to the queue.
Returned(t, u) ==
    /\ Paused(t)
    /\ u.status = "queued"
    /\ ~u.finished
    /\ u.attempts = t.attempts
    /\ u.profile = t.profile
    /\ u.errorAttempts = 0
    /\ u.lossRecoveries = 0

TileMove(t, u) ==
    /\ u \in Tiles
    /\ u = t \/ Marked(t, u) \/ Parked(t, u) \/ Returned(t, u)

LEMMA StaysPut ==
  ASSUME NEW t \in Tiles
  PROVE  TileMove(t, t)
  BY DEF TileMove

\* handlePause on a queued run, and finalizeRequestedPause.
LEMMA PausedMove ==
  ASSUME NEW t \in Tiles, Known(t), t.status \notin {"leased", "running"}
  PROVE  /\ TileMove(t, [t EXCEPT !.status = "paused", !.finished = TRUE])
         /\ t.finished => TileMove(t, [t EXCEPT !.status = "paused"])
<1>1. ASSUME NEW u, \/ u = [t EXCEPT !.status = "paused", !.finished = TRUE]
                    \/ t.finished /\ u = [t EXCEPT !.status = "paused"]
      PROVE  TileMove(t, u)
  <2>1. u \in Tiles /\ u.status = "paused" /\ u.finished
    BY <1>1 DEF Tiles, Statuses
  <2>2. SameCounters(t, u)
    BY <1>1 DEF Tiles, SameCounters
  <2>3. QED
    BY <2>1, <2>2 DEF TileMove, Parked
<1>2. QED
  BY <1>1, Zenon

\* cancelPausedRun
LEMMA CancelledMove ==
  ASSUME NEW t \in Tiles, Paused(t), t.finished
  PROVE  TileMove(t, [t EXCEPT !.status = "done", !.reason = "cancelled"])
<1> DEFINE u == [t EXCEPT !.status = "done", !.reason = "cancelled"]
<1>1. u \in Tiles /\ u.status = "done" /\ u.finished
  BY DEF Tiles, Statuses, Reasons
<1>2. SameCounters(t, u)
  BY DEF Tiles, SameCounters
<1> HIDE DEF u
<1>3. QED
  BY <1>1, <1>2 DEF TileMove, Parked, Paused, Known, u

\* clearTileCircuit, and the circuit of a resilient run.
LEMMA MarkedMove ==
  ASSUME NEW t \in Tiles, Known(t), NEW v \in Revisions \cup {NoRevision}
  PROVE  TileMove(t, [t EXCEPT !.circuit = v, !.canary = FALSE])
<1> DEFINE u == [t EXCEPT !.circuit = v, !.canary = FALSE]
<1>1. u \in Tiles /\ u.status = t.status /\ u.finished = t.finished /\ ~u.canary
  BY DEF Tiles
<1>2. SameCounters(t, u)
  BY DEF Tiles, SameCounters
<1> HIDE DEF u
<1>3. QED
  BY <1>1, <1>2 DEF TileMove, Marked, u

\* pauseForFailureCircuit and maybeAutoPauseRepeatedFailure.
LEMMA OpenedMove ==
  ASSUME NEW t \in Tiles, Known(t), ControlPlane \/ t.status \notin {"leased", "running"},
         NEW v \in Revisions \cup {NoRevision}, NEW reason \in Reasons
  PROVE  TileMove(t, [t EXCEPT !.status = "paused", !.finished = TRUE,
                               !.reason = reason, !.canary = FALSE, !.circuit = v])
<1> DEFINE u == [t EXCEPT !.status = "paused", !.finished = TRUE,
                          !.reason = reason, !.canary = FALSE, !.circuit = v]
<1>1. u \in Tiles /\ u.status = "paused" /\ u.finished
  BY DEF Tiles, Statuses
<1>2. SameCounters(t, u)
  BY DEF Tiles, SameCounters
<1> HIDE DEF u
<1>3. QED
  BY <1>1, <1>2 DEF TileMove, Parked, u

\* NoCircuit leaves the status alone and takes the canary mark off.
LEMMA MarkedFields ==
  ASSUME NEW t \in Tiles
  PROVE  /\ [t EXCEPT !.circuit = NoRevision, !.canary = FALSE].status = t.status
         /\ ~[t EXCEPT !.circuit = NoRevision, !.canary = FALSE].canary
  BY DEF Tiles

\* handleResume, releaseCircuitPeers and the canary.
LEMMA RequeuedMove ==
  ASSUME NEW t \in Tiles, Paused(t)
  PROVE  LET u == NoCircuit(Requeued(t))
             w == [Requeued(t) EXCEPT !.canary = TRUE]
         IN /\ TileMove(t, u) /\ u.status = "queued" /\ ~u.canary
            /\ TileMove(t, w) /\ w.status = "queued"
<1>1. Requeued(t) \in Tiles /\ Returned(t, Requeued(t))
  BY DEF Requeued, Tiles, Statuses, Returned
<1> DEFINE q == Requeued(t)
<1> HIDE DEF q
<1>2. q \in Tiles /\ Returned(t, q)
  BY <1>1 DEF q
<1>3. ASSUME NEW u, u \in Tiles, u.status = q.status, u.finished = q.finished,
             SameCounters(q, u)
      PROVE  Returned(t, u)
  BY <1>2, <1>3 DEF Returned, SameCounters
<1>4. LET u == [q EXCEPT !.circuit = NoRevision, !.canary = FALSE]
      IN u \in Tiles /\ Returned(t, u) /\ ~u.canary
  <2> DEFINE u == [q EXCEPT !.circuit = NoRevision, !.canary = FALSE]
  <2>1. u \in Tiles /\ u.status = q.status /\ u.finished = q.finished /\ ~u.canary
    BY <1>2 DEF Tiles
  <2>2. SameCounters(q, u)
    BY <1>2 DEF Tiles, SameCounters
  <2> HIDE DEF u
  <2>3. QED
    BY <1>3, <2>1, <2>2 DEF u
<1>5. LET w == [q EXCEPT !.canary = TRUE]
      IN w \in Tiles /\ Returned(t, w)
  <2> DEFINE w == [q EXCEPT !.canary = TRUE]
  <2>1. w \in Tiles /\ w.status = q.status /\ w.finished = q.finished
    BY <1>2 DEF Tiles
  <2>2. SameCounters(q, w)
    BY <1>2 DEF Tiles, SameCounters
  <2> HIDE DEF w
  <2>3. QED
    BY <1>3, <2>1, <2>2 DEF w
<1>6. QED
  BY <1>4, <1>5 DEF TileMove, Returned, NoCircuit, q

-----------------------------------------------------------------------------
(* What a move does to the tiles and the queue.                              *)

TilesMoved ==
    /\ tiles' \in [RunIds -> Tiles]
    /\ \A p \in RunIds : TileMove(tiles[p], tiles'[p])

\* A run the move touches is in the queue exactly if it is shown as queued;
\* for the others neither changes.
QueueMoved ==
    /\ queue' \in Seq(RunIds)
    /\ ControlPlane \/ (Distinct(queue) => Distinct(queue'))
    /\ \A p \in RunIds :
         \/ HasEntry(queue', p) <=> tiles'[p].status = "queued"
         \/ /\ HasEntry(queue', p) <=> HasEntry(queue, p)
            /\ tiles'[p].status = "queued" <=> tiles[p].status = "queued"

IsCanary(t) == t.canary /\ Live(t)

\* No run becomes a canary, or one does and no other is.
CanaryMoved ==
    \/ \A p \in RunIds : IsCanary(tiles'[p]) => IsCanary(tiles[p])
    \/ \E r \in RunIds : \A p \in RunIds \ {r} : ~IsCanary(tiles'[p])

PauseMoved ==
    /\ UNCHANGED <<fills, parent, holder, cursor, runners, late, reports>>
    /\ cancel' \subseteq RunIds
    /\ stale' \subseteq stale
    /\ TilesMoved
    /\ QueueMoved
    /\ CanaryMoved

LEMMA NoCanaryMade ==
  ASSUME TilesMoved,
         \A p \in RunIds : Returned(tiles[p], tiles'[p]) => ~tiles'[p].canary
  PROVE  CanaryMoved
<1>1. ASSUME NEW p \in RunIds, IsCanary(tiles'[p])
      PROVE  IsCanary(tiles[p])
  <2>1. TileMove(tiles[p], tiles'[p])
    BY DEF TilesMoved
  <2>2. ~Returned(tiles[p], tiles'[p]) /\ ~Marked(tiles[p], tiles'[p])
    BY <1>1 DEF IsCanary, Marked
  <2>3. ~Parked(tiles[p], tiles'[p])
    BY <1>1 DEF IsCanary, Live, Parked
  <2>4. QED
    BY <1>1, <2>1, <2>2, <2>3 DEF TileMove
<1>2. QED
  BY <1>1 DEF CanaryMoved

\* The queue with run r taken out of it, and with r put at its end.
LEMMA QueueAtEnd ==
  ASSUME NEW q \in Seq(RunIds), NEW r \in RunIds
  PROVE  /\ RemoveId(q, r) \in Seq(RunIds)
         /\ \A p : HasEntry(RemoveId(q, r), p) <=> HasEntry(q, p) /\ p # r
         /\ Distinct(q) => Distinct(RemoveId(q, r))
         /\ Append(RemoveId(q, r), r) \in Seq(RunIds)
         /\ \A p : HasEntry(Append(RemoveId(q, r), r), p) <=> HasEntry(q, p) \/ p = r
         /\ Distinct(q) => Distinct(Append(RemoveId(q, r), r))
<1> DEFINE w == RemoveId(q, r)
<1>1. /\ w \in Seq(RunIds)
      /\ \A p : HasEntry(w, p) <=> HasEntry(q, p) /\ p # r
      /\ Distinct(q) => Distinct(w)
  BY RemoveIdsKeeps DEF RemoveId
<1> HIDE DEF w
<1>2. /\ Append(w, r) \in Seq(RunIds)
      /\ \A p : HasEntry(Append(w, r), p) <=> HasEntry(w, p) \/ p = r
  BY <1>1, AppendEntries, AppendProperties
<1>3. Distinct(w) => Distinct(Append(w, r))
  <2>1. ~HasEntry(w, r)
    BY <1>1
  <2>2. QED
    BY <1>1, <2>1, AppendDistinct
<1>4. QED
  BY <1>1, <1>2, <1>3 DEF w

\* A move that touches one tile.
LEMMA OneMoved ==
  ASSUME TypeOK, NEW r \in RunIds, NEW u, TileMove(tiles[r], u),
         tiles' = [tiles EXCEPT ![r] = u],
         \/ queue' = queue /\ (u.status = "queued" <=> tiles[r].status = "queued")
         \/ queue' = RemoveId(queue, r) /\ u.status # "queued"
         \/ queue' = Append(RemoveId(queue, r), r) /\ u.status = "queued"
  PROVE  TilesMoved /\ QueueMoved
<1>1. /\ queue \in Seq(RunIds) /\ u \in Tiles
      /\ tiles'[r] = u /\ \A p \in RunIds \ {r} : tiles'[p] = tiles[p]
  BY DEF TypeOK, TileMove
<1>2. TilesMoved
  BY <1>1, StaysPut DEF TilesMoved, TypeOK
<1>3. CASE queue' = queue /\ (u.status = "queued" <=> tiles[r].status = "queued")
  BY <1>1, <1>2, <1>3 DEF QueueMoved
<1>4. CASE queue' = RemoveId(queue, r) /\ u.status # "queued"
  <2>1. /\ queue' \in Seq(RunIds)
        /\ \A p : HasEntry(queue', p) <=> HasEntry(queue, p) /\ p # r
        /\ Distinct(queue) => Distinct(queue')
    BY <1>1, <1>4, QueueAtEnd
  <2>2. QED
    BY <1>1, <1>2, <1>4, <2>1 DEF QueueMoved
<1>5. CASE queue' = Append(RemoveId(queue, r), r) /\ u.status = "queued"
  <2>1. /\ queue' \in Seq(RunIds)
        /\ \A p : HasEntry(queue', p) <=> HasEntry(queue, p) \/ p = r
        /\ Distinct(queue) => Distinct(queue')
    BY <1>1, <1>5, QueueAtEnd
  <2>2. QED
    BY <1>1, <1>2, <1>5, <2>1 DEF QueueMoved
<1>6. QED
  BY <1>2, <1>3, <1>4, <1>5

\* A move that touches no tile.
LEMMA NoneMoved ==
  ASSUME TypeOK, UNCHANGED <<tiles, queue>>
  PROVE  TilesMoved /\ QueueMoved /\ CanaryMoved
<1>1. TilesMoved
  BY StaysPut DEF TilesMoved, TypeOK
<1>2. QED
  BY <1>1 DEF QueueMoved, CanaryMoved, TypeOK

-----------------------------------------------------------------------------
(* Each move.                                                                *)

LEMMA PauseQueuedMoved ==
  ASSUME TypeOK, NEW r \in RunIds, PauseQueued(r)
  PROVE  PauseMoved
<1> DEFINE u == [tiles[r] EXCEPT !.status = "paused", !.finished = TRUE]
<1>1. tiles[r] \in Tiles /\ tiles[r].status = "queued"
  BY DEF TypeOK, PauseQueued
<1>2. TileMove(tiles[r], u)
  BY <1>1, PausedMove DEF Known
<1>3. tiles' = [tiles EXCEPT ![r] = u] /\ u.status = "paused"
  BY <1>1 DEF PauseQueued, Tiles
<1> HIDE DEF u
<1>4. TilesMoved /\ QueueMoved
  BY <1>2, <1>3, OneMoved DEF PauseQueued
<1>5. CanaryMoved
  <2>1. \A p \in RunIds : ~Returned(tiles[p], tiles'[p])
    BY <1>1, <1>3 DEF Returned, Paused, TypeOK
  <2>2. QED
    BY <1>4, <2>1, NoCanaryMade
<1>6. QED
  BY <1>4, <1>5 DEF PauseMoved, PauseQueued, TypeOK, scanVars, netVars

LEMMA PauseActiveMoved ==
  ASSUME TypeOK, NEW r \in RunIds, PauseActive(r)
  PROVE  PauseMoved
<1>1. TilesMoved /\ QueueMoved /\ CanaryMoved
  BY NoneMoved DEF PauseActive
<1>2. QED
  BY <1>1 DEF PauseMoved, PauseActive, TypeOK, scanVars, netVars

LEMMA ResumeMoved ==
  ASSUME TypeOK, NEW r \in RunIds, Resume(r)
  PROVE  PauseMoved
<1> DEFINE u == NoCircuit(Requeued(tiles[r]))
<1>1. tiles[r] \in Tiles /\ Paused(tiles[r])
  BY DEF TypeOK, Resume
<1>2. TileMove(tiles[r], u) /\ u.status = "queued" /\ ~u.canary
  BY <1>1, RequeuedMove
<1>3. tiles' = [tiles EXCEPT ![r] = u]
  BY DEF Resume
<1> HIDE DEF u
<1>4. TilesMoved /\ QueueMoved
  BY <1>2, <1>3, OneMoved DEF Resume
<1>5. CanaryMoved
  <2>1. \A p \in RunIds : Returned(tiles[p], tiles'[p]) => ~tiles'[p].canary
    BY <1>2, <1>3 DEF Returned, Paused, TypeOK
  <2>2. QED
    BY <1>4, <2>1, NoCanaryMade
<1>6. QED
  BY <1>4, <1>5 DEF PauseMoved, Resume, TypeOK, scanVars, netVars

LEMMA CancelPausedMoved ==
  ASSUME TypeOK, FinishedMatchesStatus, NEW r \in RunIds, CancelPaused(r)
  PROVE  PauseMoved
<1> DEFINE u == [tiles[r] EXCEPT !.status = "done", !.reason = "cancelled"]
<1>1. tiles[r] \in Tiles /\ Paused(tiles[r]) /\ tiles[r].finished
  BY DEF TypeOK, CancelPaused, FinishedMatchesStatus, Paused
<1>2. TileMove(tiles[r], u)
  BY <1>1, CancelledMove
<1>3. tiles' = [tiles EXCEPT ![r] = u] /\ u.status = "done"
  BY <1>1 DEF CancelPaused, Tiles
<1> HIDE DEF u
<1>4. TilesMoved /\ QueueMoved
  BY <1>2, <1>3, OneMoved DEF CancelPaused
<1>5. CanaryMoved
  <2>1. \A p \in RunIds : ~Returned(tiles[p], tiles'[p])
    BY <1>1, <1>3 DEF Returned, Paused, TypeOK
  <2>2. QED
    BY <1>4, <2>1, NoCanaryMade
<1>6. QED
  BY <1>4, <1>5 DEF PauseMoved, CancelPaused, TypeOK, scanVars, netVars

LEMMA ReleaseCanaryMoved ==
  ASSUME TypeOK, NEW r \in RunIds, ReleaseCanary(r)
  PROVE  PauseMoved
<1> DEFINE u == [Requeued(tiles[r]) EXCEPT !.canary = TRUE]
<1>1. tiles[r] \in Tiles /\ Paused(tiles[r])
  BY DEF TypeOK, ReleaseCanary
<1>2. TileMove(tiles[r], u) /\ u.status = "queued"
  BY <1>1, RequeuedMove
<1>3. tiles' = [tiles EXCEPT ![r] = u]
  BY DEF ReleaseCanary
<1> HIDE DEF u
<1>4. TilesMoved /\ QueueMoved
  BY <1>2, <1>3, OneMoved DEF ReleaseCanary
<1>5. CanaryMoved
  <2>1. \A p \in RunIds \ {r} : tiles'[p] = tiles[p] /\ ~IsCanary(tiles[p])
    BY <1>3 DEF TypeOK, ReleaseCanary, CanaryOut, IsCanary
  <2>2. QED
    BY <2>1 DEF CanaryMoved
<1>6. QED
  BY <1>4, <1>5 DEF PauseMoved, ReleaseCanary, TypeOK, scanVars, netVars

\* The run a finish request in the wrapper is about.
LEMMA WrapRun ==
  ASSUME PauseTypeOK, NEW x \in wraps
  PROVE  /\ x.report.run \in RunIds
         /\ x.report.version \in Revisions \cup {NoRevision}
         /\ x.report.outcome.reason \in Reasons
         /\ tiles[x.report.run] \in Tiles
<1>1. x.report \in Reports
  BY DEF PauseTypeOK, Wraps
<1>2. QED
  BY <1>1 DEF Reports, Outcomes, PauseTypeOK, TypeOK

LEMMA FinalizePauseMoved ==
  ASSUME PauseTypeOK, FinishedMatchesStatus, NEW x \in wraps, FinalizePause(x)
  PROVE  PauseMoved
<1> DEFINE r == x.report.run
           u == [tiles[r] EXCEPT !.status = "paused"]
<1>1. TypeOK /\ r \in RunIds /\ tiles[r] \in Tiles
  BY WrapRun DEF PauseTypeOK
<1>2. CASE tiles[r].finished
  <2>1. tiles[r].status \in {"done", "paused"}
    BY <1>1, <1>2 DEF FinishedMatchesStatus
  <2>2. TileMove(tiles[r], u)
    BY <1>1, <1>2, <2>1, PausedMove DEF Known
  <2>3. tiles' = [tiles EXCEPT ![r] = u] /\ u.status = "paused" /\ queue' = queue
    BY <1>1, <1>2 DEF FinalizePause, Tiles
  <2> HIDE DEF u, r
  <2>4. TilesMoved /\ QueueMoved
    BY <1>1, <2>1, <2>2, <2>3, OneMoved
  <2>5. CanaryMoved
    <3>1. \A p \in RunIds : ~Returned(tiles[p], tiles'[p])
      BY <1>1, <2>3 DEF Returned, Paused, TypeOK
    <3>2. QED
      BY <2>4, <3>1, NoCanaryMade
  <2>6. QED
    BY <1>1, <2>4, <2>5 DEF PauseMoved, FinalizePause, TypeOK, scanVars, netVars
<1>3. CASE ~tiles[r].finished
  <2>1. UNCHANGED <<tiles, queue>>
    BY <1>3 DEF FinalizePause
  <2>2. QED
    BY <1>1, <2>1, NoneMoved DEF PauseMoved, FinalizePause, TypeOK, scanVars, netVars
<1>4. QED
  BY <1>2, <1>3

\* The peers return in some order, one entry for each.
LEMMA ReleasePeersMoved ==
  ASSUME TypeOK, FinishedMatchesStatus, IsFiniteSet(RunIds), ControlPlane,
         NEW r \in RunIds, ReleasePeers(r)
  PROVE  TilesMoved /\ QueueMoved /\ CanaryMoved
<1> USE RunTileAssumption
<1> DEFINE peers == Peers(r)
<1>1. /\ peers \subseteq RunIds /\ r \notin peers
      /\ \A p \in peers : Paused(tiles[p])
  BY DEF Peers
<1>2. /\ tiles' = [p \in RunIds |-> IF p \in peers THEN NoCircuit(Requeued(tiles[p]))
                                    ELSE IF p = r THEN NoCircuit(tiles[p])
                                    ELSE tiles[p]]
      /\ \E order \in [1..Cardinality(peers) -> peers] :
           /\ \A p \in peers : \E i \in DOMAIN order : order[i] = p
           /\ queue' = RemoveIds(queue, peers) \o order
  BY DEF ReleasePeers
<1> HIDE DEF peers
<1>3. ASSUME NEW p \in peers
      PROVE  /\ TileMove(tiles[p], tiles'[p])
             /\ tiles'[p].status = "queued" /\ ~tiles'[p].canary
  <2>1. tiles[p] \in Tiles /\ Paused(tiles[p]) /\ tiles'[p] = NoCircuit(Requeued(tiles[p]))
    BY <1>1, <1>2 DEF TypeOK
  <2>2. QED
    BY <2>1, RequeuedMove
<1>4. /\ TileMove(tiles[r], tiles'[r])
      /\ tiles'[r].status = tiles[r].status /\ ~tiles'[r].canary
  <2>1. /\ tiles[r] \in Tiles
        /\ tiles'[r] = [tiles[r] EXCEPT !.circuit = NoRevision, !.canary = FALSE]
    BY <1>1, <1>2 DEF TypeOK, NoCircuit
  <2>2. tiles'[r].status = tiles[r].status /\ ~tiles'[r].canary
    BY <2>1, MarkedFields
  <2>3. CASE Known(tiles[r])
    <3>1. TileMove(tiles[r], tiles'[r])
      BY <2>1, <2>3, MarkedMove
    <3>2. QED
      BY <2>2, <3>1
  <2>4. CASE ~Known(tiles[r])
    <3>1. tiles[r] = AbsentTile
      BY <2>4 DEF FinishedMatchesStatus, Known
    <3>2. tiles[r].circuit = NoRevision /\ tiles[r].canary = FALSE
      <4>1. AbsentTile.circuit = NoRevision /\ AbsentTile.canary = FALSE
        BY DEF AbsentTile
      <4>2. QED
        BY <3>1, <4>1
    <3>3. tiles'[r] = tiles[r]
      <4> DEFINE t == tiles[r]
      <4>1. t \in Tiles /\ t.circuit = NoRevision /\ t.canary = FALSE
        BY <2>1, <3>2
      <4> HIDE DEF t
      <4>2. [t EXCEPT !.circuit = NoRevision, !.canary = FALSE] = t
        BY <4>1 DEF Tiles
      <4>3. QED
        BY <2>1, <4>2 DEF t
    <3>4. QED
      BY <2>1, <2>2, <3>3, StaysPut
  <2>5. QED
    BY <2>3, <2>4
<1>5. ASSUME NEW p \in RunIds, p \notin peers, p # r
      PROVE  tiles'[p] = tiles[p]
  BY <1>2, <1>5
<1>6. TilesMoved
  <2>1. \A p \in RunIds : TileMove(tiles[p], tiles'[p])
    BY <1>3, <1>4, <1>5, StaysPut DEF TypeOK
  <2>2. QED
    BY <1>2, <2>1 DEF TilesMoved, TileMove
<1>7. QueueMoved
  <2>1. Cardinality(peers) \in Nat
    BY <1>1, FS_Subset, FS_CardinalityType
  <2>2. PICK order \in [1..Cardinality(peers) -> peers] :
          /\ \A p \in peers : \E i \in DOMAIN order : order[i] = p
          /\ queue' = RemoveIds(queue, peers) \o order
    BY <1>2
  <2>3. order \in Seq(RunIds) /\ Len(order) = Cardinality(peers)
    <3>1. order \in [1..Cardinality(peers) -> RunIds]
      BY <1>1
    <3>2. QED
      BY <2>1, <3>1, SeqDef, LenProperties
  <2>4. \A p : HasEntry(order, p) <=> p \in peers
    BY <2>2, <2>3 DEF HasEntry
  <2>5. /\ RemoveIds(queue, peers) \in Seq(RunIds)
        /\ \A p : HasEntry(RemoveIds(queue, peers), p) <=>
             HasEntry(queue, p) /\ p \notin peers
    <3>1. queue \in Seq(RunIds)
      BY DEF TypeOK
    <3>2. QED
      BY <3>1, RemoveIdsKeeps
  <2>6. /\ queue' \in Seq(RunIds)
        /\ \A p : HasEntry(queue', p) <=>
             HasEntry(RemoveIds(queue, peers), p) \/ HasEntry(order, p)
    BY <2>2, <2>3, <2>5, ConcatEntries
  <2>7. \A p \in RunIds : HasEntry(queue', p) <=> HasEntry(queue, p) \/ p \in peers
    BY <2>4, <2>5, <2>6
  <2>8. ASSUME NEW p \in RunIds
        PROVE  \/ HasEntry(queue', p) <=> tiles'[p].status = "queued"
               \/ /\ HasEntry(queue', p) <=> HasEntry(queue, p)
                  /\ tiles'[p].status = "queued" <=> tiles[p].status = "queued"
    <3>1. CASE p \in peers
      BY <1>3, <2>7, <3>1
    <3>2. CASE p \notin peers
      BY <1>4, <1>5, <2>7, <3>2
    <3>3. QED
      BY <3>1, <3>2
  <2>9. QED
    BY <2>6, <2>8 DEF QueueMoved
<1>8. CanaryMoved
  <2>1. ASSUME NEW p \in RunIds, tiles'[p].canary
        PROVE  tiles'[p] = tiles[p]
    BY <1>3, <1>4, <1>5, <2>1
  <2>2. \A p \in RunIds : Returned(tiles[p], tiles'[p]) => ~tiles'[p].canary
    BY <2>1 DEF Returned, Paused
  <2>3. QED
    BY <1>6, <2>2, NoCanaryMade
<1>9. QED
  BY <1>6, <1>7, <1>8

LEMMA CheckCanaryMoved ==
  ASSUME PauseTypeOK, FinishedMatchesStatus, IsFiniteSet(RunIds),
         NEW x \in wraps, CheckCanary(x)
  PROVE  PauseMoved
<1>1. TypeOK /\ x.report.run \in RunIds
  BY WrapRun DEF PauseTypeOK
<1>2. CASE ControlPlane /\ ReleasePeers(x.report.run)
  <2>1. TilesMoved /\ QueueMoved /\ CanaryMoved
    BY <1>1, <1>2, ReleasePeersMoved
  <2>2. cancel' \subseteq RunIds /\ stale' \subseteq stale
    BY <1>1, <1>2 DEF ReleasePeers, TypeOK
  <2>3. QED
    BY <2>1, <2>2 DEF PauseMoved, CheckCanary, scanVars, netVars
<1>3. CASE UNCHANGED <<tiles, queue, cancel, stale>>
  <2>1. TilesMoved /\ QueueMoved /\ CanaryMoved
    BY <1>1, <1>3, NoneMoved
  <2>2. QED
    BY <1>1, <1>3, <2>1 DEF PauseMoved, CheckCanary, TypeOK, scanVars, netVars
<1>4. QED
  BY <1>2, <1>3 DEF CheckCanary

LEMMA OpenCircuitMoved ==
  ASSUME PauseTypeOK, FinishedMatchesStatus, NEW x \in wraps, OpenCircuit(x)
  PROVE  PauseMoved
<1> DEFINE r == x.report.run
           t == tiles[r]
           v == x.report.version
           reason == x.report.outcome.reason
           marked == [t EXCEPT !.circuit = v, !.canary = FALSE]
           opened == [marked EXCEPT !.status = "paused", !.finished = TRUE,
                                    !.reason = reason]
<1>1. /\ TypeOK /\ r \in RunIds /\ t \in Tiles
      /\ v \in Revisions \cup {NoRevision} /\ reason \in Reasons
  BY WrapRun DEF PauseTypeOK
<1>2. /\ ControlPlane
      /\ UNCHANGED <<fills, parent, holder, cursor, runners, late, reports>>
      /\ cancel' \subseteq cancel /\ stale' \subseteq stale
  BY DEF OpenCircuit, scanVars, netVars
<1>3. \/ UNCHANGED <<tiles, queue>>
      \/ Live(t) /\ tiles' = [tiles EXCEPT ![r] = marked] /\ queue' = queue
      \/ /\ Known(t) /\ ~Paused(t)
         /\ tiles' = [tiles EXCEPT ![r] = opened]
         /\ queue' = RemoveId(queue, r)
  BY DEF OpenCircuit
<1>4. CASE UNCHANGED <<tiles, queue>>
  BY <1>1, <1>2, <1>4, NoneMoved DEF PauseMoved, TypeOK
<1>5. CASE Live(t) /\ tiles' = [tiles EXCEPT ![r] = marked] /\ queue' = queue
  <2>1. TileMove(t, marked) /\ marked.status = t.status
    <3>1. TileMove(t, marked)
      BY <1>1, <1>5, MarkedMove DEF Live
    <3>2. QED
      BY <1>1, <3>1 DEF Tiles
  <2> HIDE DEF marked
  <2>2. TilesMoved /\ QueueMoved
    BY <1>1, <1>5, <2>1, OneMoved
  <2>3. \A p \in RunIds : ~Returned(tiles[p], tiles'[p])
    BY <1>1, <1>5, <2>1 DEF Returned, Paused, TypeOK
  <2>4. QED
    BY <1>1, <1>2, <2>2, <2>3, NoCanaryMade DEF PauseMoved, TypeOK
<1>6. CASE /\ Known(t) /\ ~Paused(t)
           /\ tiles' = [tiles EXCEPT ![r] = opened]
           /\ queue' = RemoveId(queue, r)
  <2>1. opened = [t EXCEPT !.status = "paused", !.finished = TRUE,
                           !.reason = reason, !.canary = FALSE, !.circuit = v]
    BY <1>1 DEF Tiles
  <2>2. TileMove(t, opened) /\ opened.status = "paused"
    <3>1. TileMove(t, [t EXCEPT !.status = "paused", !.finished = TRUE,
                               !.reason = reason, !.canary = FALSE, !.circuit = v])
      BY <1>1, <1>2, <1>6, OpenedMove
    <3>2. opened.status = "paused"
      BY <1>1 DEF Tiles
    <3> HIDE DEF opened
    <3>3. QED
      BY <2>1, <3>1, <3>2
  <2> HIDE DEF opened
  <2>3. TilesMoved /\ QueueMoved
    BY <1>1, <1>6, <2>2, OneMoved
  <2>4. \A p \in RunIds : ~Returned(tiles[p], tiles'[p])
    BY <1>1, <1>6, <2>2 DEF Returned, Paused, TypeOK
  <2>5. QED
    BY <1>1, <1>2, <2>3, <2>4, NoCanaryMade DEF PauseMoved, TypeOK
<1>7. QED
  BY <1>3, <1>4, <1>5, <1>6

LEMMA AutoPauseMoved ==
  ASSUME PauseTypeOK, NEW x \in wraps, AutoPause(x)
  PROVE  PauseMoved
<1> DEFINE r == x.report.run
           t == tiles[r]
           v == IF ControlPlane THEN x.report.version ELSE NoRevision
           u == [t EXCEPT !.status = "paused", !.finished = TRUE,
                          !.reason = "error", !.canary = FALSE, !.circuit = v]
<1>1. /\ TypeOK /\ r \in RunIds /\ t \in Tiles
      /\ v \in Revisions \cup {NoRevision} /\ "error" \in Reasons
  BY WrapRun DEF PauseTypeOK, Reasons
<1>2. /\ UNCHANGED <<fills, parent, holder, cursor, runners, late, reports, cancel>>
      /\ stale' \subseteq stale
  BY DEF AutoPause, scanVars, netVars
<1>3. CASE StillQueued(x)
  <2>1. t.status = "queued"
    BY <1>3 DEF StillQueued
  <2>2. TileMove(t, u)
    <3> HIDE DEF v, t
    <3>1. QED
      BY <1>1, <2>1, OpenedMove DEF Known
  <2>3. u.status = "paused" /\ tiles' = [tiles EXCEPT ![r] = u]
        /\ queue' = RemoveId(queue, r)
    BY <1>1, <1>3 DEF AutoPause, Tiles
  <2> HIDE DEF u
  <2>4. TilesMoved /\ QueueMoved
    BY <1>1, <2>2, <2>3, OneMoved
  <2>5. \A p \in RunIds : ~Returned(tiles[p], tiles'[p])
    BY <1>1, <2>3 DEF Returned, Paused, TypeOK
  <2>6. QED
    BY <1>1, <1>2, <2>4, <2>5, NoCanaryMade DEF PauseMoved, TypeOK
<1>4. CASE ~StillQueued(x)
  <2>1. UNCHANGED <<tiles, queue>>
    BY <1>4 DEF AutoPause
  <2>2. QED
    BY <1>1, <1>2, <2>1, NoneMoved DEF PauseMoved, TypeOK
<1>5. QED
  BY <1>3, <1>4

LEMMA PauseMoveEffect ==
  ASSUME PauseTypeOK, FinishedMatchesStatus, IsFiniteSet(RunIds), PauseMove
  PROVE  PauseMoved
<1>1. TypeOK
  BY DEF PauseTypeOK
<1>2. QED
  BY <1>1, PauseQueuedMoved, PauseActiveMoved, ResumeMoved, CancelPausedMoved,
     ReleaseCanaryMoved, FinalizePauseMoved, CheckCanaryMoved, OpenCircuitMoved,
     AutoPauseMoved
     DEF PauseMove

-----------------------------------------------------------------------------
(* The invariant.                                                            *)

CanaryAlone ==
    \A p, q \in RunIds : IsCanary(tiles[p]) /\ IsCanary(tiles[q]) => p = q

PauseInv ==
    /\ PauseTypeOK
    /\ FinishedMatchesStatus
    /\ NoStrandedRun
    /\ RetryBudgetsHold
    /\ CanaryAlone

\* A finish request in the wrapper stays one whatever it does next.
LEMMA WrapsType ==
  ASSUME PauseTypeOK, NEW x \in wraps, NEW s \in Steps
  PROVE  /\ [x EXCEPT !.step = s] \in Wraps
         /\ \A n \in Nat : [x EXCEPT !.step = s, !.attempts = n] \in Wraps
  BY DEF PauseTypeOK, Wraps

LEMMA ToType ==
  ASSUME PauseTypeOK, NEW x \in wraps, NEW s \in Steps, To(x, s)
  PROVE  wraps' \subseteq Wraps
  BY WrapsType DEF PauseTypeOK, To

LEMMA WrapFinishType ==
  ASSUME PauseTypeOK, NEW m \in reports, WrapFinish(m)
  PROVE  wraps' \subseteq Wraps
<1>1. m \in Reports /\ m.run \in RunIds /\ tiles[m.run] \in Tiles
      /\ m.attempt \in Nat /\ m.outcome \in Outcomes
  BY DEF PauseTypeOK, TypeOK, Reports
<1>2. CheckedReport(m) \in Reports
  <2>1. FlagRewrite(tiles[m.run], m.attempt, m.outcome) \in Outcomes
    BY <1>1, FlagRewriteType
  <2>2. QED
    BY <1>1, <2>1 DEF CheckedReport, Reports
<1> DEFINE t == tiles[m.run]
           report == IF ControlPlane THEN CheckedReport(m) ELSE m
           profile == IF Known(t) THEN t.profile ELSE "none"
           x == [report |-> report, step |-> "inner", errors |-> t.errorAttempts,
                 profile |-> profile, canary |-> t.canary, attempts |-> 0]
<1>3. wraps' = wraps \cup {x}
  BY DEF WrapFinish
<1>4. report \in Reports
  BY <1>1, <1>2
<1>5. /\ t.errorAttempts \in Nat /\ t.canary \in BOOLEAN
      /\ profile \in Profiles \cup {"none"}
  BY <1>1 DEF Tiles
<1> HIDE DEF report, profile, t
<1>6. x \in Wraps
  BY <1>4, <1>5 DEF Wraps, Steps
<1>7. QED
  BY <1>3, <1>6 DEF PauseTypeOK

LEMMA WrapInnerType ==
  ASSUME PauseTypeOK, NEW m \in reports, WrapInner(m)
  PROVE  wraps' \subseteq Wraps /\ UNCHANGED <<intents, failedOnce, forgets, stopped>>
<1>1. CASE WrapFinish(m)
  BY <1>1, WrapFinishType DEF WrapFinish
<1>2. CASE WrapCheckFlag(m)
  BY <1>2 DEF WrapCheckFlag, pauseVars, PauseTypeOK
<1>3. Dropped(m) => wraps' \subseteq Wraps
  BY DEF Dropped, PauseTypeOK
<1>4. PassedOn(m, "intent") => wraps' \subseteq Wraps
  BY WrapsType DEF PassedOn, Inner, PauseTypeOK, Steps
<1>5. CASE WrapSettle(m) \/ WrapRefused(m)
  BY <1>3, <1>4, <1>5 DEF WrapSettle, WrapRefused
<1>6. QED
  BY <1>1, <1>2, <1>5 DEF WrapInner

LEMMA WrapTailType ==
  ASSUME PauseTypeOK, NEW x \in wraps, WrapTail(x)
  PROVE  /\ wraps' \subseteq Wraps
         /\ intents' \subseteq RunIds /\ failedOnce' \subseteq RunIds
         /\ UNCHANGED <<forgets, stopped>>
<1> DEFINE r == x.report.run
<1>1. r \in RunIds /\ tiles[r] \in Tiles
  BY WrapRun
<1>2. /\ wraps \subseteq Wraps /\ intents \subseteq RunIds
      /\ failedOnce \subseteq RunIds
  BY DEF PauseTypeOK
<1>3. \A s \in Steps : To(x, s) => wraps' \subseteq Wraps
  BY ToType
<1>4. {"claimed", "canary", "circuit", "repeat", "again"} \subseteq Steps
  BY DEF Steps
<1>5. wraps' = wraps \ {x} => wraps' \subseteq Wraps
  BY <1>2
<1>6. CASE ClaimIntent(x)
  BY <1>1, <1>2, <1>3, <1>4, <1>6 DEF ClaimIntent
<1>7. CASE FinalizePause(x)
  BY <1>1, <1>2, <1>3, <1>4, <1>5, <1>7 DEF FinalizePause
<1>8. CASE CheckCanary(x)
  BY <1>2, <1>3, <1>4, <1>8 DEF CheckCanary
<1>9. CASE OpenCircuit(x)
  BY <1>2, <1>3, <1>4, <1>5, <1>9 DEF OpenCircuit
<1>10. CASE CircuitStaysClosed(x)
  BY <1>2, <1>3, <1>4, <1>10 DEF CircuitStaysClosed
<1>11. CASE NoteFailure(x)
  <2>1. [x EXCEPT !.step = "again", !.attempts = tiles[r].attempts] \in Wraps
    BY <1>1, <1>4, WrapsType DEF Tiles
  <2>2. \/ wraps' = wraps \ {x}
        \/ wraps' = (wraps \ {x}) \cup
             {[x EXCEPT !.step = "again", !.attempts = tiles[r].attempts]}
    BY <1>11 DEF NoteFailure
  <2>3. wraps' \subseteq Wraps
    BY <1>2, <2>1, <2>2
  <2>4. failedOnce' \subseteq RunIds
    BY <1>1, <1>2, <1>11 DEF NoteFailure
  <2>5. QED
    BY <1>2, <1>11, <2>3, <2>4 DEF NoteFailure
<1>12. CASE AutoPause(x)
  BY <1>2, <1>5, <1>12 DEF AutoPause
<1>13. QED
  BY <1>6, <1>7, <1>8, <1>9, <1>10, <1>11, <1>12 DEF WrapTail

LEMMA PauseVarsType ==
  ASSUME PauseTypeOK, [PauseNext]_pvars
  PROVE  /\ intents' \subseteq RunIds /\ failedOnce' \subseteq RunIds
         /\ forgets' \subseteq RunIds \X {"intent", "failure"}
         /\ wraps' \subseteq Wraps /\ stopped' \subseteq RunIds
<1> USE DEF PauseTypeOK
<1>1. CASE OperatorOnWall /\ UNCHANGED <<intents, failedOnce, forgets, wraps>>
  BY <1>1, WallAssumption DEF OperatorOnWall
<1>2. CASE UNCHANGED pauseVars
  BY <1>2 DEF pauseVars
<1>3. ASSUME NEW r \in RunIds, PauseOperator(r) \/ ReleaseCanary(r)
      PROVE  /\ intents' \subseteq RunIds /\ UNCHANGED <<failedOnce, wraps>>
             /\ forgets' \subseteq RunIds \X {"intent", "failure"}
             /\ stopped' \subseteq RunIds
  BY <1>3
     DEF PauseOperator, PauseQueued, PauseActive, Resume, CancelPaused, ReleaseCanary
<1>4. ASSUME NEW f \in forgets, Forget(f)
      PROVE  /\ intents' \subseteq intents /\ failedOnce' \subseteq failedOnce
             /\ forgets' \subseteq forgets /\ UNCHANGED <<wraps, stopped>>
  BY <1>4 DEF Forget
<1>5. QED
  BY <1>1, <1>2, <1>3, <1>4, WrapInnerType, WrapTailType DEF PauseNext, pvars, pauseVars

LEMMA PauseTypeStep ==
  ASSUME PauseTypeOK, FinishedMatchesStatus, IsFiniteSet(RunIds), [PauseNext]_pvars
  PROVE  PauseTypeOK'
<1>1. TypeOK'
  <2>1. TypeOK
    BY DEF PauseTypeOK
  <2>2. CASE [Next]_vars
    BY <2>1, <2>2, TypeStep
  <2>3. CASE PauseMove
    <3>1. PauseMoved
      BY <2>3, PauseMoveEffect
    <3>2. QED
      BY <2>1, <3>1 DEF PauseMoved, TilesMoved, QueueMoved, TypeOK
  <2>4. QED
    BY <2>2, <2>3, PauseSteps
<1>2. QED
  BY <1>1, PauseVarsType DEF PauseTypeOK

LEMMA MovedFinishedMatchesStatus ==
  ASSUME TypeOK, FinishedMatchesStatus, PauseMoved
  PROVE  FinishedMatchesStatus'
<1> SUFFICES ASSUME NEW r \in RunIds
             PROVE  /\ tiles'[r].finished <=> tiles'[r].status \in {"done", "paused"}
                    /\ tiles'[r].status = "absent" => tiles'[r] = AbsentTile
  BY DEF FinishedMatchesStatus
<1>1. TileMove(tiles[r], tiles'[r])
  BY DEF PauseMoved, TilesMoved
<1>2. /\ tiles[r].finished <=> tiles[r].status \in {"done", "paused"}
      /\ tiles[r].status = "absent" => tiles[r] = AbsentTile
  BY DEF FinishedMatchesStatus
<1>3. QED
  BY <1>1, <1>2 DEF TileMove, Marked, Parked, Returned, Known

LEMMA MovedNoStrandedRun ==
  ASSUME TypeOK, NoStrandedRun, PauseMoved
  PROVE  NoStrandedRun'
<1>1. \A r \in RunIds : tiles[r].status = "queued" => HasEntry(queue, r)
  BY DEF NoStrandedRun, InQueue, HasEntry
<1>2. \A r \in RunIds : tiles'[r].status = "queued" => HasEntry(queue', r)
  BY <1>1 DEF PauseMoved, QueueMoved
<1>3. QED
  BY <1>2 DEF NoStrandedRun, InQueue, HasEntry

LEMMA MovedRetryBudgetsHold ==
  ASSUME TypeOK, RetryBudgetsHold, PauseMoved
  PROVE  RetryBudgetsHold'
<1> USE RunTileAssumption
<1> DEFINE Holds(t) ==
             /\ t.errorAttempts + t.lossRecoveries <= t.attempts
             /\ Live(t) /\ t.profile # "resilient" =>
                  /\ t.errorAttempts < MaxAttempts
                  /\ t.lossRecoveries < MaxLostRecoveries
<1> SUFFICES ASSUME NEW r \in RunIds
             PROVE  Holds(tiles'[r])
  BY DEF RetryBudgetsHold
<1>1. TileMove(tiles[r], tiles'[r])
  BY DEF PauseMoved, TilesMoved
<1>2. tiles[r] \in Tiles /\ Holds(tiles[r])
  BY DEF TypeOK, RetryBudgetsHold
<1>3. CASE tiles'[r] = tiles[r]
  BY <1>2, <1>3
<1>4. CASE Marked(tiles[r], tiles'[r])
  BY <1>2, <1>4 DEF Marked, SameCounters, Live
<1>5. CASE Parked(tiles[r], tiles'[r])
  BY <1>2, <1>5 DEF Parked, SameCounters, Live
<1>6. CASE Returned(tiles[r], tiles'[r])
  <2>1. tiles[r].attempts \in Nat
    BY <1>2 DEF Tiles
  <2>2. QED
    BY <1>6, <2>1 DEF Returned
<1>7. QED
  BY <1>1, <1>3, <1>4, <1>5, <1>6 DEF TileMove

LEMMA MovedCanaryAlone ==
  ASSUME CanaryAlone, PauseMoved
  PROVE  CanaryAlone'
  BY DEF CanaryAlone, PauseMoved, CanaryMoved, IsCanary

\* Nothing the wall does makes a canary of a run.
LEMMA CanaryByTiles ==
  ASSUME TypeOK, CanaryAlone, \A r \in RunIds : TileStep(r)
  PROVE  CanaryAlone'
<1> SUFFICES ASSUME NEW r \in RunIds, IsCanary(tiles'[r])
             PROVE  IsCanary(tiles[r])
  BY DEF CanaryAlone, IsCanary
<1> DEFINE t == tiles[r]
           u == tiles'[r]
<1>1. TileStep(r)
  OBVIOUS
<1>2. t \in Tiles
  BY DEF TypeOK
<1>3. CASE Kept(r)
  BY <1>3 DEF Kept
<1>4. CASE Filled(r)
  BY <1>4 DEF Filled, FreshTile, AbsentTile, IsCanary
<1>5. CASE Removed(r)
  BY <1>5, AbsentFields DEF Removed, IsCanary
<1>6. CASE Flagged(r) \/ Active(r)
  <2>1. u.canary = t.canary /\ Live(t)
    BY <1>2, <1>6 DEF Flagged, Active, Tiles
  <2>2. QED
    BY <2>1 DEF IsCanary
<1>7. CASE SettledNow(r)
  <2>1. Live(t)
    BY <1>7 DEF SettledNow
  <2>2. PICK o \in Outcomes, c \in BOOLEAN :
          u = Settled(t, o, c) \/ u = Settled(NoteProgress(t, o), o, c)
    BY <1>7 DEF SettledNow
  <2>3. \A v \in Tiles : Settled(v, o, c).canary = v.canary
    <3>1. ASSUME NEW v \in Tiles
          PROVE  Counted(v, o) \in Tiles /\ Counted(v, o).canary = v.canary
      <4>1. Counted(v, o) \in Tiles
        BY CountedType
      <4>2. Counted(v, o).canary = v.canary
        BY DEF Counted, Tiles
      <4>3. QED
        BY <4>1, <4>2
    <3>2. ASSUME NEW v \in Tiles
          PROVE  Settled(v, o, c).canary = v.canary
      <4> DEFINE w == Counted(v, o)
      <4>1. w \in Tiles /\ w.canary = v.canary
        BY <3>1
      <4>2. \/ Settled(v, o, c) = [w EXCEPT !.status = "done", !.finished = TRUE,
                                            !.reason = o.reason]
            \/ Settled(v, o, c) = [w EXCEPT !.status = "queued", !.finished = FALSE,
                                            !.reason = ""]
        BY DEF Settled
      <4> HIDE DEF w
      <4>3. QED
        BY <4>1, <4>2 DEF Tiles
    <3>3. QED
      BY <3>2
  <2>4. NoteProgress(t, o) \in Tiles /\ (NoteProgress(t, o).canary => t.canary)
    BY <1>2, NoteProgressType DEF NoteProgress, NoCircuit, Tiles
  <2>5. u.canary => t.canary
    BY <1>2, <2>2, <2>3, <2>4
  <2>6. QED
    BY <2>1, <2>5 DEF IsCanary
<1>8. QED
  BY <1>1, <1>3, <1>4, <1>5, <1>6, <1>7 DEF TileStep

LEMMA WallCanaryAlone ==
  ASSUME TypeOK, CanaryAlone, [Next]_vars
  PROVE  CanaryAlone'
  BY TileSteps, CanaryByTiles

LEMMA PauseInvStep ==
  ASSUME IsFiniteSet(RunIds), PauseInv, [PauseNext]_pvars
  PROVE  PauseInv'
<1>1. /\ PauseTypeOK /\ TypeOK /\ FinishedMatchesStatus /\ NoStrandedRun
      /\ RetryBudgetsHold /\ CanaryAlone
  BY DEF PauseInv, PauseTypeOK
<1>2. PauseTypeOK'
  BY <1>1, PauseTypeStep
<1>3. CASE [Next]_vars
  BY <1>1, <1>2, <1>3, FinishedMatchesStatusStep, NoStrandedRunStep,
     RetryBudgetsHoldStep, WallCanaryAlone DEF PauseInv
<1>4. CASE PauseMove
  <2>1. PauseMoved
    BY <1>1, <1>4, PauseMoveEffect
  <2>2. QED
    BY <1>1, <1>2, <2>1, MovedFinishedMatchesStatus, MovedNoStrandedRun,
       MovedRetryBudgetsHold, MovedCanaryAlone DEF PauseInv
<1>5. QED
  BY <1>3, <1>4, PauseSteps

LEMMA PauseInvInit == PauseInit => PauseInv
<1> SUFFICES ASSUME PauseInit
             PROVE  PauseInv
  OBVIOUS
<1>1. Init /\ TypeOK
  BY TypeInit DEF PauseInit
<1>2. \A r \in RunIds : tiles[r] = AbsentTile
  BY <1>1 DEF Init
<1>3. PauseTypeOK
  BY <1>1 DEF PauseInit, PauseTypeOK
<1>4. FinishedMatchesStatus /\ NoStrandedRun /\ CanaryAlone
  BY <1>2, AbsentFields DEF FinishedMatchesStatus, NoStrandedRun, CanaryAlone, IsCanary
<1>5. RetryBudgetsHold
  <2> SUFFICES ASSUME NEW r \in RunIds
               PROVE  /\ tiles[r].errorAttempts + tiles[r].lossRecoveries
                           <= tiles[r].attempts
                      /\ ~Live(tiles[r])
    BY DEF RetryBudgetsHold
  <2>1. tiles[r] = AbsentTile
    BY <1>2
  <2>2. QED
    BY <2>1, AbsentFields
<1>6. QED
  BY <1>3, <1>4, <1>5 DEF PauseInv

LEMMA PauseInvariant == ASSUME IsFiniteSet(RunIds) PROVE PauseSpec => []PauseInv
<1>1. PauseInit => PauseInv
  BY PauseInvInit
<1>2. PauseInv /\ [PauseNext]_pvars => PauseInv'
  BY PauseInvStep
<1>3. QED
  BY <1>1, <1>2, PTL DEF PauseSpec

-----------------------------------------------------------------------------
(* The theorems.                                                             *)

\* Every variable of the wall and of the pause handlers stays in its type, with
\* operators, wrapped finishes, the circuit and the automatic pause interleaved.
THEOREM PauseTypeCorrect == ASSUME IsFiniteSet(RunIds) PROVE PauseSpec => []PauseTypeOK
<1>1. PauseInv => PauseTypeOK
  BY DEF PauseInv
<1>2. QED
  BY <1>1, PauseInvariant, PTL

\* However pauses, resumes, circuits and canaries interleave with the wall:
\* Finished and Status agree, no run that is shown as queued is missing from
\* the queue, and no live run outside resilient mode is over its budgets.
THEOREM PauseKeepsTiles ==
  ASSUME IsFiniteSet(RunIds)
  PROVE  PauseSpec => [](FinishedMatchesStatus /\ NoStrandedRun /\ RetryBudgetsHold)
<1>1. PauseInv => FinishedMatchesStatus /\ NoStrandedRun /\ RetryBudgetsHold
  BY DEF PauseInv
<1>2. QED
  BY <1>1, PauseInvariant, PTL

LEMMA CanaryAloneIsEnough == CanaryAlone => OneCanary
<1> SUFFICES ASSUME CanaryAlone
             PROVE  Cardinality({r \in RunIds : IsCanary(tiles[r])}) <= 1
  BY DEF OneCanary, IsCanary
<1> DEFINE canaries == {r \in RunIds : IsCanary(tiles[r])}
<1>1. CASE canaries = {}
  BY <1>1, FS_EmptySet
<1>2. CASE canaries # {}
  <2>1. PICK r : canaries = {r}
    BY <1>2 DEF CanaryAlone
  <2> HIDE DEF canaries
  <2>2. Cardinality(canaries) = 1
    BY <2>1, FS_Singleton
  <2>3. QED
    BY <2>2 DEF canaries
<1>3. QED
  BY <1>1, <1>2

\* maybeResumeCircuitCanary lets out one canary at a time, for any number of
\* paused runs, builds and circuits.
THEOREM OneCanaryCorrect == ASSUME IsFiniteSet(RunIds) PROVE PauseSpec => []OneCanary
<1>1. PauseInv => OneCanary
  BY CanaryAloneIsEnough DEF PauseInv
<1>2. QED
  BY <1>1, PauseInvariant, PTL

-----------------------------------------------------------------------------
(* Without the control plane a pause never meets a run that is out.          *)

LEMMA MovedClaimsHold ==
  ASSUME ~ControlPlane, TypeOK, ClaimsHold, PauseMoved
  PROVE  ClaimsHold'
<1>1. ASSUME NEW r \in RunIds, NEW a \in Nat, NEW g \in Nat,
             ClaimHolds(tiles[r], fills[r], a, g)
      PROVE  ClaimHolds(tiles'[r], fills'[r], a, g)
  <2> DEFINE t == tiles[r]
             u == tiles'[r]
  <2>1. TileMove(t, u) /\ fills' = fills
    BY DEF PauseMoved, TilesMoved
  <2>2. \/ u.status = t.status /\ u.attempts = t.attempts
        \/ /\ Known(t) /\ t.status \notin {"leased", "running"}
           /\ u.attempts = t.attempts
    BY <2>1 DEF TileMove, Marked, Parked, Returned, SameCounters, Paused, Known
  <2> HIDE DEF t, u
  <2>3. ClaimHolds(t, fills[r], a, g) => ClaimHolds(u, fills[r], a, g)
    BY <2>2 DEF ClaimHolds, Known, CurrentAttempt
  <2>4. QED
    BY <1>1, <2>1, <2>3 DEF t, u
<1>2. UNCHANGED <<runners, reports>>
  BY DEF PauseMoved
<1>3. ASSUME NEW n \in Runners, Working(n)
      PROVE  ClaimHolds(tiles'[runners[n].run], fills'[runners[n].run],
                        runners[n].attempt, runners[n].gen)
  <2>1. /\ runners[n].run \in RunIds
        /\ runners[n].attempt \in Nat /\ runners[n].gen \in Nat
    BY <1>3 DEF Working, TypeOK, RunnerStates
  <2>2. QED
    BY <1>1, <1>3, <2>1 DEF ClaimsHold
<1>4. ASSUME NEW m \in reports
      PROVE  ClaimHolds(tiles'[m.run], fills'[m.run], m.attempt, m.gen)
  <2>1. m.run \in RunIds /\ m.attempt \in Nat /\ m.gen \in Nat
    BY DEF TypeOK, Reports
  <2>2. QED
    BY <1>1, <2>1 DEF ClaimsHold
<1>5. QED
  BY <1>2, <1>3, <1>4 DEF ClaimsHold, Working

\* Pausing settles: without the control plane nobody plays or reports the
\* attempt that Resume hands out next, even if runners outlive their
\* generations.
THEOREM PausedSettledCorrect ==
  ASSUME ~ControlPlane, IsFiniteSet(RunIds)
  PROVE  PauseSpec => [](NoClaimAhead /\ PausedIsSettled)
<1> DEFINE IInv == PauseInv /\ ClaimsHold
<1>1. PauseInit => IInv
  BY PauseInvInit DEF PauseInit, Init, ClaimsHold, Working, IdleRunner
<1>2. ASSUME IInv, [PauseNext]_pvars
      PROVE  IInv'
  <2>1. PauseTypeOK /\ TypeOK /\ FinishedMatchesStatus /\ ClaimsHold
    BY <1>2 DEF PauseInv, PauseTypeOK
  <2>2. ClaimsHold'
    <3>1. CASE [Next]_vars
      BY <2>1, <3>1, ClaimsHoldStep
    <3>2. CASE PauseMove
      BY <2>1, <3>2, PauseMoveEffect, MovedClaimsHold
    <3>3. QED
      BY <1>2, <3>1, <3>2, PauseSteps
  <2>3. QED
    BY <1>2, <2>2, PauseInvStep
<1>3. IInv => NoClaimAhead /\ PausedIsSettled
  BY ClaimsHoldIsEnough
     DEF ClaimsHold, ClaimHolds, PausedIsSettled, Claims, Paused, Known
<1>4. QED
  BY <1>1, <1>2, <1>3, PTL DEF PauseSpec

LEMMA MovedLeaseInv ==
  ASSUME ~ControlPlane, LeaseInv, TypeOK', FinishedMatchesStatus', PauseMoved
  PROVE  LeaseInv'
<1>1. /\ TypeOK /\ FinishedMatchesStatus /\ QueueIsExact /\ HoldersAreOut /\ OneHolder
      /\ QuietIsAbandoned /\ ScannerIsIdle /\ late = {}
  BY DEF LeaseInv
<1>2. UNCHANGED <<holder, runners, late, reports>> /\ stale' \subseteq stale
  BY DEF PauseMoved
<1>3. QueueIsExact'
  <2>1. Exact(tiles, queue)
    BY <1>1, QueueIsExactHere
  <2>2. QueueMoved
    BY DEF PauseMoved
  <2>3. Exact(tiles', queue')
    BY <2>1, <2>2 DEF Exact, QueueMoved
  <2>4. QED
    BY <2>3 DEF QueueIsExact, InQueue, Exact, HasEntry, Distinct
<1>4. HoldersAreOut'
  <2>1. ASSUME NEW r \in RunIds, NEW a, Out(tiles[r], a)
        PROVE  Out(tiles'[r], a)
    <3>1. TileMove(tiles[r], tiles'[r])
      BY DEF PauseMoved, TilesMoved
    <3>2. QED
      BY <2>1, <3>1
         DEF TileMove, Marked, Parked, Returned, SameCounters, Paused, Out,
             CurrentAttempt
  <2>2. \A n \in Runners : Working(n) => runners[n].run \in RunIds
    BY <1>1 DEF Working, TypeOK, RunnerStates
  <2>3. \A m \in reports : m.run \in RunIds
    BY <1>1 DEF TypeOK, Reports
  <2>4. QED
    BY <1>1, <1>2, <2>1, <2>2, <2>3 DEF HoldersAreOut, Working
<1>5. OneHolder'
  BY <1>1, <1>2 DEF OneHolder, ExclusiveLease, Working
<1>6. QuietIsAbandoned'
  BY <1>1, <1>2 DEF QuietIsAbandoned, Abandoned
<1>7. ScannerIsIdle'
  BY <1>1, <1>2 DEF ScannerIsIdle, Working
<1>8. QED
  BY <1>1, <1>2, <1>3, <1>4, <1>5, <1>6, <1>7 DEF LeaseInv

\* Pause, Resume and the automatic pause keep leases exclusive and the queue
\* exact, while no runner outlives its generation and the control plane, whose
\* circuit may pause a run that is being played, is not there.
THEOREM LeaseExclusiveOverPauses ==
  ASSUME ~ControlPlane, ~Zombies, IsFiniteSet(RunIds)
  PROVE  PauseSpec => [](ExclusiveLease /\ QueueIsExact)
<1> DEFINE IInv == PauseInv /\ LeaseInv
<1>1. PauseInit => IInv
  BY PauseInvInit, LeaseInvInit DEF PauseInit
<1>2. ASSUME IInv, [PauseNext]_pvars
      PROVE  IInv'
  <2>1. PauseInv' /\ TypeOK' /\ FinishedMatchesStatus'
    BY <1>2, PauseInvStep DEF PauseInv, PauseTypeOK
  <2>2. LeaseInv'
    <3>1. CASE [Next]_vars
      BY <1>2, <3>1, LeaseInvStep
    <3>2. CASE PauseMove
      <4>1. PauseMoved
        BY <1>2, <3>2, PauseMoveEffect DEF PauseInv
      <4>2. QED
        BY <1>2, <2>1, <4>1, MovedLeaseInv
    <3>3. QED
      BY <1>2, <3>1, <3>2, PauseSteps
  <2>3. QED
    BY <2>1, <2>2
<1>3. IInv => ExclusiveLease /\ QueueIsExact
  BY DEF LeaseInv, OneHolder
<1>4. QED
  BY <1>1, <1>2, <1>3, PTL DEF PauseSpec

-----------------------------------------------------------------------------
(* Without the control plane a user's cancel is final.                       *)

KnownAreFilled == \A r \in RunIds : Known(tiles[r]) => fills[r] > 0

NoCircuits == \A r \in RunIds : tiles[r].circuit = NoRevision

\* A run whose cancel was accepted waits, if it is live, for a settlement that
\* the cancel will make its last.
HeldBack(r) ==
    /\ fills[r] > 0
    /\ Live(tiles[r]) => r \in cancel /\ tiles[r].flag = 0

StoppedHolds == \A r \in stopped : HeldBack(r)

LeasedNow(r) == tiles'[r].status = "leased" /\ tiles[r].status # "leased"

\* A cancelled paused tile keeps its finish.
LEMMA CancelledFields ==
  ASSUME NEW t \in Tiles
  PROVE  /\ [t EXCEPT !.status = "done", !.reason = "cancelled"].status = "done"
         /\ [t EXCEPT !.status = "done", !.reason = "cancelled"].finished = t.finished
  BY DEF Tiles

\* What the wall does without the operator, as far as cancels are concerned.
LEMMA WallGoesOnSteps ==
  ASSUME TypeOK, WallGoesOn \/ \E m \in reports : Finish(m)
  PROVE  \/ UNCHANGED <<tiles, cancel, fills>>
         \/ \E p \in RunIds, s \in {"leased", "running"} :
              /\ tiles' = [tiles EXCEPT ![p] = [tiles[p] EXCEPT !.status = s]]
              /\ Live(tiles[p])
              /\ s = "leased" => p \notin cancel
              /\ UNCHANGED <<cancel, fills>>
         \/ \E p \in RunIds : Live(tiles[p]) /\ Settling(p)
<1> DEFINE Same == UNCHANGED <<tiles, cancel, fills>>
           Out1(p, s) == /\ tiles' = [tiles EXCEPT ![p] = [tiles[p] EXCEPT !.status = s]]
                         /\ Live(tiles[p])
                         /\ s = "leased" => p \notin cancel
                         /\ UNCHANGED <<cancel, fills>>
           Settled1(p) == Live(tiles[p]) /\ Settling(p)
           Goal == \/ Same
                   \/ \E p \in RunIds, s \in {"leased", "running"} : Out1(p, s)
                   \/ \E p \in RunIds : Settled1(p)
<1>1. ASSUME NEW n \in Runners, Runner(n)
      PROVE  Goal
  <2>1. CASE LeaseBegin(n) \/ LeasePass(n) \/ LeaseNone(n) \/ HeartbeatDelayed(n)
             \/ Crash(n) \/ \E o \in RunnerOutcomes : EndRun(n, o)
    <3>1. Same
      BY <2>1 DEF LeaseBegin, LeasePass, LeaseDrop, LeaseSkip, LeaseNone,
                  HeartbeatDelayed, Crash, EndRun, wallVars
    <3>2. QED
      BY <3>1
  <2>2. CASE \E delivered \in BOOLEAN : LeaseTake(n, delivered)
    <3>1. Candidate \in RunIds
      BY <2>2, CandidateType DEF LeaseTake
    <3>2. Out1(Candidate, "leased")
      BY <2>2 DEF LeaseTake
    <3> HIDE DEF Out1
    <3>3. QED
      BY <3>1, <3>2
  <2>3. CASE Heartbeat(n)
    <3>1. runners[n].run \in RunIds
      BY <2>3 DEF Heartbeat, Working, TypeOK, RunnerStates
    <3>2. Out1(runners[n].run, "running")
      BY <2>3 DEF Heartbeat, NoteHeartbeat
    <3> HIDE DEF Out1
    <3>3. QED
      BY <3>1, <3>2
  <2>4. CASE LeaseCancelled(n)
    <3>1. Candidate \in RunIds /\ Settled1(Candidate)
      BY <2>4, CandidateType DEF LeaseCancelled, Settling
    <3>2. QED
      BY <3>1
  <2>5. QED
    BY <1>1, <2>1, <2>2, <2>3, <2>4 DEF Runner, LeaseScan
<1>2. ASSUME NEW p \in RunIds, LateHeartbeat(p) \/ GoQuiet(p) \/ Reaper(p)
      PROVE  Goal
  <2>1. CASE LateHeartbeat(p)
    <3>1. Same \/ Out1(p, "running")
      BY <2>1 DEF LateHeartbeat, NoteHeartbeat, wallVars
    <3> HIDE DEF Out1
    <3>2. QED
      BY <3>1
  <2>2. CASE GoQuiet(p)
    BY <2>2 DEF GoQuiet
  <2>3. CASE Reaper(p)
    <3>1. Settled1(p)
      BY <2>3 DEF Reaper, ReapFlagged, ReapStale, Reapable, Settling
    <3>2. QED
      BY <3>1
  <2>4. QED
    BY <1>2, <2>1, <2>2, <2>3
<1>3. ASSUME NEW m \in reports, Finish(m) \/ LoseReport(m)
      PROVE  Goal
  <2>1. CASE FinishCheckFlag(m) \/ FinishRefused(m) \/ LoseReport(m)
    BY <2>1 DEF FinishCheckFlag, FinishRefused, LoseReport, wallVars
  <2>2. CASE FinishSettle(m)
    <3>1. m.run \in RunIds /\ Settled1(m.run)
      BY <2>2 DEF FinishSettle, FinishAccepted, Settling, TypeOK, Reports
    <3>2. QED
      BY <3>1
  <2>3. QED
    BY <1>3, <2>1, <2>2 DEF Finish
<1>4. QED
  BY <1>1, <1>2, <1>3 DEF WallGoesOn

\* A settlement ends a stopped run, or leaves it alone.
LEMMA SettlingStopped ==
  ASSUME TypeOK, NEW id \in RunIds, Live(tiles[id]), Settling(id),
         NEW r \in RunIds, HeldBack(r)
  PROVE  HeldBack(r)' /\ ~LeasedNow(r)
<1> USE DEF HeldBack, LeasedNow
<1>1. PICK o \in Outcomes, q \in Seq(RunIds) :
        \E t \in {tiles[id], NoteProgress(tiles[id], o)} : SettleRun(id, t, o, q)
  BY SettlingCalls
<1>2. PICK t \in {tiles[id], NoteProgress(tiles[id], o)} : SettleRun(id, t, o, q)
  BY <1>1
<1>3. \A next \in FreshIds : next # r /\ next # id /\ next \in RunIds
  BY DEF FreshIds, Live
<1>4. fills'[r] = fills[r] /\ cancel' = cancel \ {id}
  BY <1>2, <1>3 DEF SettleRun, SettleAs, TypeOK
<1>5. CASE r # id
  <2>1. tiles'[r] = tiles[r]
    BY <1>2, <1>3, <1>5 DEF SettleRun, SettleAs, TypeOK
  <2>2. QED
    BY <1>4, <1>5, <2>1
<1>6. CASE r = id
  <2>1. tiles'[r] = Settled(t, o, r \in cancel)
    BY <1>2, <1>3, <1>6 DEF SettleRun, SettleAs, TypeOK
  <2>2. t \in Tiles /\ t.flag = tiles[r].flag
    BY <1>2, <1>6, NoteProgressType, NoteProgressFields DEF TypeOK
  <2>3. (r \in cancel) = TRUE /\ CancelApplies(t, TRUE)
    BY <1>6, <2>2 DEF CancelApplies, FlagApplies
  <2>4. Terminal(t, o, TRUE)
    BY <2>3 DEF Terminal
  <2>5. tiles'[r] = Settled(t, o, TRUE)
    BY <2>1, <2>3, Zenon
  <2>6. Settled(t, o, TRUE).finished /\ Settled(t, o, TRUE).status = "done"
    BY <2>2, <2>4, SettledFields
  <2>7. QED
    BY <1>4, <2>5, <2>6 DEF Live
<1>7. QED
  BY <1>5, <1>6

\* What the wall does by itself keeps the runs stopped and leases none of them.
LEMMA WallGoesOnStopped ==
  ASSUME TypeOK, WallGoesOn \/ \E m \in reports : Finish(m),
         NEW r \in RunIds, HeldBack(r)
  PROVE  HeldBack(r)' /\ ~LeasedNow(r)
<1> USE DEF HeldBack, LeasedNow
<1>1. CASE UNCHANGED <<tiles, cancel, fills>>
  BY <1>1
<1>2. CASE \E p \in RunIds, s \in {"leased", "running"} :
              /\ tiles' = [tiles EXCEPT ![p] = [tiles[p] EXCEPT !.status = s]]
              /\ Live(tiles[p])
              /\ s = "leased" => p \notin cancel
              /\ UNCHANGED <<cancel, fills>>
  <2>1. PICK p \in RunIds, s \in {"leased", "running"} :
              /\ tiles' = [tiles EXCEPT ![p] = [tiles[p] EXCEPT !.status = s]]
              /\ Live(tiles[p])
              /\ s = "leased" => p \notin cancel
              /\ UNCHANGED <<cancel, fills>>
    BY <1>2
  <2>2. CASE r = p
    <3>1. tiles'[r].status = s /\ tiles'[r].flag = tiles[r].flag
      BY <2>1, <2>2 DEF TypeOK, Tiles
    <3>2. QED
      BY <2>1, <2>2, <3>1
  <2>3. CASE r # p
    BY <2>1, <2>3 DEF TypeOK
  <2>4. QED
    BY <2>2, <2>3
<1>3. CASE \E p \in RunIds : Live(tiles[p]) /\ Settling(p)
  BY <1>3, SettlingStopped
<1>4. QED
  BY <1>1, <1>2, <1>3, WallGoesOnSteps

LEMMA WallKeepsCircuits ==
  ASSUME TypeOK, KnownAreFilled, NoCircuits, [Next]_vars
  PROVE  KnownAreFilled' /\ NoCircuits'
<1> SUFFICES ASSUME NEW r \in RunIds
             PROVE  /\ Known(tiles'[r]) => fills'[r] > 0
                    /\ tiles'[r].circuit = NoRevision
  BY DEF KnownAreFilled, NoCircuits
<1> DEFINE t == tiles[r]
           u == tiles'[r]
<1>1. TileStep(r)
  BY TileSteps
<1>2. /\ t \in Tiles /\ fills[r] \in Nat /\ t.circuit = NoRevision
      /\ Known(t) => fills[r] > 0
  BY DEF TypeOK, KnownAreFilled, NoCircuits
<1>3. CASE Kept(r)
  BY <1>2, <1>3 DEF Kept
<1>4. CASE Filled(r)
  <2>1. u.circuit = NoRevision
    BY <1>4 DEF Filled, FreshTile, AbsentTile
  <2>2. QED
    BY <1>2, <1>4, <2>1 DEF Filled
<1>5. CASE Removed(r)
  <2>1. AbsentTile.circuit = NoRevision /\ AbsentTile.status = "absent"
    BY DEF AbsentTile
  <2>2. QED
    BY <1>5, <2>1 DEF Removed, Known
<1>6. CASE Flagged(r) \/ Active(r)
  <2>1. u.circuit = t.circuit /\ Live(t) /\ fills'[r] = fills[r]
    BY <1>2, <1>6 DEF Flagged, Active, Tiles
  <2>2. QED
    BY <1>2, <2>1 DEF Live
<1>7. CASE SettledNow(r)
  <2>1. Live(t) /\ fills'[r] = fills[r]
    BY <1>7 DEF SettledNow
  <2>2. PICK o \in Outcomes, c \in BOOLEAN :
          u = Settled(t, o, c) \/ u = Settled(NoteProgress(t, o), o, c)
    BY <1>7 DEF SettledNow
  <2>3. \A v \in Tiles : Settled(v, o, c).circuit = v.circuit
    <3> SUFFICES ASSUME NEW v \in Tiles
                 PROVE  Settled(v, o, c).circuit = v.circuit
      OBVIOUS
    <3> DEFINE w == Counted(v, o)
    <3>1. w \in Tiles
      BY CountedType
    <3>2. w.circuit = v.circuit
      BY DEF Counted, Tiles
    <3>3. \/ Settled(v, o, c) = [w EXCEPT !.status = "done", !.finished = TRUE,
                                          !.reason = o.reason]
          \/ Settled(v, o, c) = [w EXCEPT !.status = "queued", !.finished = FALSE,
                                          !.reason = ""]
      BY DEF Settled
    <3> HIDE DEF w
    <3>4. QED
      BY <3>1, <3>2, <3>3 DEF Tiles
  <2>4. NoteProgress(t, o) \in Tiles /\ NoteProgress(t, o).circuit = NoRevision
    <3>1. NoteProgress(t, o).circuit \in {t.circuit, NoRevision}
      BY <1>2 DEF NoteProgress, NoCircuit, Tiles
    <3>2. QED
      BY <1>2, <3>1, NoteProgressType
  <2>5. u.circuit = NoRevision
    BY <1>2, <2>2, <2>3, <2>4
  <2>6. QED
    BY <1>2, <2>1, <2>5 DEF Live
<1>8. QED
  BY <1>1, <1>3, <1>4, <1>5, <1>6, <1>7 DEF TileStep

\* Nor do the pause handlers record a circuit, or hand out a paused run.
LEMMA MovesKeepCircuits ==
  ASSUME ~ControlPlane, IsFiniteSet(RunIds), PauseTypeOK, FinishedMatchesStatus,
         KnownAreFilled, NoCircuits, PauseMove
  PROVE  KnownAreFilled' /\ NoCircuits'
<1>1. TypeOK /\ PauseMoved
  BY PauseMoveEffect DEF PauseTypeOK
<1>2. KnownAreFilled'
  <2>1. ASSUME NEW r \in RunIds, Known(tiles'[r])
        PROVE  Known(tiles[r])
    <3>1. TileMove(tiles[r], tiles'[r])
      BY <1>1 DEF PauseMoved, TilesMoved
    <3>2. QED
      BY <2>1, <3>1 DEF TileMove, Marked, Parked, Returned, Paused, Known
  <2>2. QED
    BY <1>1, <2>1 DEF PauseMoved, KnownAreFilled
<1>3. NoCircuits'
  <2>1. ASSUME NEW r \in RunIds, NEW u, tiles' = [tiles EXCEPT ![r] = u],
               u.circuit = NoRevision
        PROVE  NoCircuits'
    BY <1>1, <2>1 DEF NoCircuits, TypeOK
  <2>2. CASE UNCHANGED tiles
    BY <2>2 DEF NoCircuits
  <2>3. ASSUME NEW r \in RunIds, PauseQueued(r) \/ CancelPaused(r)
        PROVE  NoCircuits'
    <3>1. tiles[r] \in Tiles /\ tiles[r].circuit = NoRevision
      BY <1>1 DEF TypeOK, NoCircuits
    <3>2. \E u : tiles' = [tiles EXCEPT ![r] = u] /\ u.circuit = NoRevision
      <4> DEFINE u == [tiles[r] EXCEPT !.status = "paused", !.finished = TRUE]
                 v == [tiles[r] EXCEPT !.status = "done", !.reason = "cancelled"]
      <4>1. u.circuit = NoRevision /\ v.circuit = NoRevision
        BY <3>1 DEF Tiles
      <4>2. tiles' = [tiles EXCEPT ![r] = u] \/ tiles' = [tiles EXCEPT ![r] = v]
        BY <2>3 DEF PauseQueued, CancelPaused
      <4>3. QED
        BY <4>1, <4>2, Zenon
    <3>3. QED
      BY <2>1, <3>2
  <2>4. ASSUME NEW r \in RunIds, Resume(r)
        PROVE  NoCircuits'
    <3>1. tiles' = [tiles EXCEPT ![r] = NoCircuit(Requeued(tiles[r]))]
      BY <2>4 DEF Resume
    <3>2. NoCircuit(Requeued(tiles[r])).circuit = NoRevision
      BY <1>1 DEF NoCircuit, Requeued, TypeOK, Tiles
    <3>3. QED
      BY <2>1, <3>1, <3>2
  <2>5. ASSUME NEW r \in RunIds, ReleaseCanary(r)
        PROVE  FALSE
    BY <2>5 DEF ReleaseCanary, NoCircuits
  <2>6. ASSUME NEW x \in wraps, FinalizePause(x)
        PROVE  NoCircuits'
    <3> DEFINE r == x.report.run
               u == [tiles[r] EXCEPT !.status = "paused"]
    <3>1. r \in RunIds /\ tiles[r] \in Tiles /\ tiles[r].circuit = NoRevision
      BY WrapRun DEF NoCircuits
    <3>2. u.circuit = NoRevision
      BY <3>1 DEF Tiles
    <3>3. UNCHANGED tiles \/ tiles' = [tiles EXCEPT ![r] = u]
      BY <2>6 DEF FinalizePause
    <3> HIDE DEF u, r
    <3>4. QED
      BY <2>1, <2>2, <3>1, <3>2, <3>3
  <2>7. ASSUME NEW x \in wraps, AutoPause(x)
        PROVE  NoCircuits'
    <3> DEFINE r == x.report.run
               u == [tiles[r] EXCEPT !.status = "paused", !.finished = TRUE,
                                     !.reason = "error", !.canary = FALSE,
                                     !.circuit = NoRevision]
    <3>1. r \in RunIds /\ tiles[r] \in Tiles
      BY WrapRun
    <3>2. u.circuit = NoRevision
      BY <3>1 DEF Tiles
    <3>3. UNCHANGED tiles \/ tiles' = [tiles EXCEPT ![r] = u]
      BY <2>7 DEF AutoPause
    <3> HIDE DEF u, r
    <3>4. QED
      BY <2>1, <2>2, <3>1, <3>2, <3>3
  <2>8. ASSUME NEW x \in wraps, CheckCanary(x) \/ OpenCircuit(x)
        PROVE  UNCHANGED tiles
    BY <2>8 DEF CheckCanary, OpenCircuit
  <2>9. ASSUME NEW r \in RunIds, PauseActive(r)
        PROVE  UNCHANGED tiles
    BY <2>9 DEF PauseActive
  <2>10. QED
    BY <2>2, <2>3, <2>4, <2>5, <2>6, <2>7, <2>8, <2>9 DEF PauseMove
<1>4. QED
  BY <1>2, <1>3

\* A step at most parks a run, and takes back a cancel only of a run it parks or
\* of one it takes out of stopped.
Undisturbed(r) ==
    /\ fills'[r] = fills[r]
    /\ \/ ~Live(tiles'[r]) /\ tiles'[r].status # "leased"
       \/ /\ Live(tiles'[r]) => Live(tiles[r]) /\ tiles'[r].flag = tiles[r].flag
          /\ tiles'[r].status = tiles[r].status
          /\ r \in cancel => r \in cancel'

LEMMA UndisturbedStopped ==
  ASSUME NEW r \in RunIds, HeldBack(r), Undisturbed(r)
  PROVE  HeldBack(r)' /\ ~LeasedNow(r)
  BY DEF Undisturbed, HeldBack, LeasedNow

\* The requests of the operator.
LEMMA OperatorStopped ==
  ASSUME ~ControlPlane, PauseTypeOK, FinishedMatchesStatus, KnownAreFilled, NoCircuits,
         \/ OperatorOnWall
         \/ \E p \in RunIds : PauseOperator(p) \/ ReleaseCanary(p),
         NEW r \in RunIds, HeldBack(r)
  PROVE  (r \in stopped' => HeldBack(r)') /\ ~LeasedNow(r)
<1> USE WallAssumption DEF HeldBack, LeasedNow
<1> DEFINE Goal == (r \in stopped' => HeldBack(r)') /\ ~LeasedNow(r)
<1>0. TypeOK /\ tiles[r] \in Tiles
  BY DEF PauseTypeOK, TypeOK
<1>1. Undisturbed(r) => Goal
  BY UndisturbedStopped
<1>2. r \notin stopped' /\ tiles'[r].status # "leased" => Goal
  OBVIOUS
<1>3. ASSUME NEW p \in Submittable, NEW spec \in SubmitSpecs, Submit(p, spec),
             stopped' = stopped \ {p}
      PROVE  Goal
  <2>1. CASE r = p
    <3>1. FreshTile(spec, NoRun).status = "queued"
      BY FreshFields
    <3>2. tiles'[r].status = "queued"
      BY <1>0, <1>3, <2>1, <3>1 DEF Submit, TypeOK
    <3>3. QED
      BY <1>2, <1>3, <2>1, <3>2
  <2>2. CASE r # p
    <3>1. Undisturbed(r)
      BY <1>0, <1>3, <2>2 DEF Submit, Undisturbed, TypeOK
    <3>2. QED
      BY <1>1, <3>1
  <2>3. QED
    BY <2>1, <2>2
<1>4. ASSUME NEW p \in RunIds, Cancel(p)
      PROVE  Goal
  <2>1. CASE r = p
    <3>1. tiles'[r] = [tiles[r] EXCEPT !.flag = 0] /\ r \in cancel' /\ fills' = fills
      BY <1>0, <1>4, <2>1 DEF Cancel, TypeOK
    <3>2. tiles'[r].flag = 0 /\ tiles'[r].status = tiles[r].status
      BY <1>0, <3>1 DEF Tiles
    <3>3. QED
      BY <3>1, <3>2
  <2>2. CASE r # p
    <3>1. Undisturbed(r)
      BY <1>0, <1>4, <2>2 DEF Cancel, Undisturbed, TypeOK
    <3>2. QED
      BY <1>1, <3>1
  <2>3. QED
    BY <2>1, <2>2
<1>5. ASSUME NEW p \in RunIds, Flag(p), stopped' = stopped \ {p}
      PROVE  Goal
  <2>1. CASE r = p
    <3>1. tiles'[r] = [tiles[r] EXCEPT !.flag = CurrentAttempt(tiles[r])]
      BY <1>0, <1>5, <2>1 DEF Flag, TypeOK
    <3>2. tiles'[r].status = tiles[r].status
      BY <1>0, <3>1 DEF Tiles
    <3>3. QED
      BY <1>5, <2>1, <3>2
  <2>2. CASE r # p
    <3>1. Undisturbed(r)
      BY <1>0, <1>5, <2>2 DEF Flag, Undisturbed, TypeOK
    <3>2. QED
      BY <1>1, <3>1
  <2>3. QED
    BY <2>1, <2>2
<1>6. ASSUME NEW p \in RunIds, Delete(p)
      PROVE  Goal
  <2>1. CASE r = p
    <3>1. tiles'[r] = AbsentTile /\ fills' = fills
      BY <1>0, <1>6, <2>1 DEF Delete, TypeOK
    <3>2. QED
      BY <3>1, AbsentFields
  <2>2. CASE r # p
    <3>1. Undisturbed(r)
      BY <1>0, <1>6, <2>2 DEF Delete, Undisturbed, TypeOK
    <3>2. QED
      BY <1>1, <3>1
  <2>3. QED
    BY <2>1, <2>2
<1>7. ASSUME NEW p \in RunIds, PauseQueued(p)
      PROVE  Goal
  <2>1. CASE r = p
    <3>1. /\ tiles'[r] = [tiles[r] EXCEPT !.status = "paused", !.finished = TRUE]
          /\ fills' = fills
      BY <1>0, <1>7, <2>1 DEF PauseQueued, TypeOK
    <3>2. tiles'[r].status = "paused" /\ tiles'[r].finished
      BY <1>0, <3>1 DEF Tiles
    <3>3. QED
      BY <3>1, <3>2 DEF Live
  <2>2. CASE r # p
    <3>1. Undisturbed(r)
      BY <1>0, <1>7, <2>2 DEF PauseQueued, Undisturbed, TypeOK
    <3>2. QED
      BY <1>1, <3>1
  <2>3. QED
    BY <2>1, <2>2
<1>8. ASSUME NEW p \in RunIds, PauseActive(p)
      PROVE  Goal
  <2>1. Undisturbed(r)
    BY <1>8 DEF PauseActive, Undisturbed
  <2>2. QED
    BY <1>1, <2>1
<1>9. ASSUME NEW p \in RunIds, Resume(p)
      PROVE  Goal
  <2>1. CASE r = p
    <3>1. tiles'[r] = NoCircuit(Requeued(tiles[r])) /\ r \notin stopped'
      BY <1>0, <1>9, <2>1 DEF Resume, TypeOK
    <3>2. tiles'[r].status = "queued"
      <4>1. tiles[r] \in Tiles /\ Paused(tiles[r])
        BY <1>0, <1>9, <2>1 DEF Resume, TypeOK
      <4>2. QED
        BY <3>1, <4>1, RequeuedMove
    <3>3. QED
      BY <1>2, <3>1, <3>2
  <2>2. CASE r # p
    <3>1. Undisturbed(r)
      BY <1>0, <1>9, <2>2 DEF Resume, Undisturbed, TypeOK
    <3>2. QED
      BY <1>1, <3>1
  <2>3. QED
    BY <2>1, <2>2
<1>10. ASSUME NEW p \in RunIds, CancelPaused(p)
       PROVE  Goal
  <2>1. CASE r = p
    <3>1. /\ tiles'[r] = [tiles[r] EXCEPT !.status = "done", !.reason = "cancelled"]
          /\ fills' = fills /\ tiles[r].finished
      <4>1. tiles[r].status = "paused"
        BY <1>10, <2>1 DEF CancelPaused, Paused
      <4>2. tiles[r].finished
        BY <1>0, <4>1 DEF FinishedMatchesStatus
      <4>3. QED
        BY <1>0, <1>10, <2>1, <4>2 DEF CancelPaused, TypeOK
    <3>2. tiles[r] \in Tiles
      BY <1>0 DEF TypeOK
    <3>3. tiles'[r].status = "done" /\ tiles'[r].finished
      BY <3>1, <3>2, CancelledFields
    <3>4. QED
      BY <3>1, <3>3 DEF Live
  <2>2. CASE r # p
    <3>1. Undisturbed(r)
      BY <1>0, <1>10, <2>2 DEF CancelPaused, Undisturbed, TypeOK
    <3>2. QED
      BY <1>1, <3>1
  <2>3. QED
    BY <2>1, <2>2
<1>11. ASSUME NEW p \in RunIds, ReleaseCanary(p)
       PROVE  FALSE
  BY <1>11 DEF ReleaseCanary, NoCircuits
<1>12. QED
  BY <1>3, <1>4, <1>5, <1>6, <1>7, <1>8, <1>9, <1>10, <1>11
     DEF OperatorOnWall, PauseOperator

\* finalizeRequestedPause, maybeAutoPauseRepeatedFailure.
LEMMA PausedFields ==
  ASSUME NEW t \in Tiles
  PROVE  /\ LET u == [t EXCEPT !.status = "paused"]
            IN u.status = "paused" /\ u.finished = t.finished
         /\ LET u == [t EXCEPT !.status = "paused", !.finished = TRUE,
                               !.reason = "error", !.canary = FALSE,
                               !.circuit = NoRevision]
            IN u.status = "paused" /\ u.finished
  BY DEF Tiles

\* The sections of the finish wrapper after the finish.
LEMMA WrapTailStopped ==
  ASSUME ~ControlPlane, PauseTypeOK, FinishedMatchesStatus, NEW x \in wraps, WrapTail(x),
         NEW r \in RunIds
  PROVE  Undisturbed(r)
<1>0. TypeOK /\ tiles[r] \in Tiles
  BY DEF PauseTypeOK, TypeOK
<1>1. UNCHANGED <<tiles, cancel, fills>> => Undisturbed(r)
  BY DEF Undisturbed
<1>2. CASE FinalizePause(x)
  <2>1. UNCHANGED <<cancel, fills>>
    BY <1>2 DEF FinalizePause
  <2>2. CASE tiles[r].finished /\ tiles'[r] = [tiles[r] EXCEPT !.status = "paused"]
    <3>1. tiles'[r].finished /\ tiles'[r].status = "paused"
      BY <1>0, <2>2, PausedFields
    <3>2. QED
      BY <2>1, <3>1 DEF Undisturbed, Live
  <2>3. CASE tiles'[r] = tiles[r]
    BY <2>1, <2>3 DEF Undisturbed
  <2>4. QED
    BY <1>0, <1>2, <2>2, <2>3, WrapRun DEF FinalizePause, TypeOK
<1>3. CASE AutoPause(x)
  <2>1. UNCHANGED <<cancel, fills>>
    BY <1>3 DEF AutoPause
  <2>2. CASE tiles'[r] = tiles[r]
    BY <2>1, <2>2 DEF Undisturbed
  <2>3. CASE tiles'[r] # tiles[r]
    <3>1. tiles'[r] = [tiles[r] EXCEPT !.status = "paused", !.finished = TRUE,
                                       !.reason = "error", !.canary = FALSE,
                                       !.circuit = NoRevision]
      <4>1. x \in wraps /\ x.report.run \in RunIds
        BY <1>0, <1>3, WrapRun DEF AutoPause
      <4>2. tiles' = [tiles EXCEPT ![x.report.run] =
                        [tiles[x.report.run] EXCEPT
                           !.status = "paused", !.finished = TRUE,
                           !.reason = "error", !.canary = FALSE,
                           !.circuit = NoRevision]]
        BY <1>0, <1>3, <2>3 DEF AutoPause
      <4>3. QED
        BY <1>0, <2>3, <4>1, <4>2 DEF TypeOK
    <3>2. tiles'[r].finished /\ tiles'[r].status = "paused"
      BY <1>0, <3>1, PausedFields
    <3>3. QED
      BY <2>1, <3>2 DEF Undisturbed, Live
  <2>4. QED
    BY <2>2, <2>3
<1>4. CASE CheckCanary(x) \/ OpenCircuit(x)
  BY <1>1, <1>4 DEF CheckCanary, OpenCircuit
<1>5. CASE ClaimIntent(x) \/ CircuitStaysClosed(x) \/ NoteFailure(x)
  BY <1>1, <1>5 DEF ClaimIntent, CircuitStaysClosed, NoteFailure, vars
<1>6. QED
  BY <1>2, <1>3, <1>4, <1>5 DEF WrapTail

StopInv == PauseInv /\ KnownAreFilled /\ NoCircuits /\ StoppedHolds


\* A run is put into stopped by a cancel, of a live run or of a paused one.
LEMMA NewlyStopped ==
  ASSUME PauseTypeOK, FinishedMatchesStatus, KnownAreFilled, NoCircuits,
         \/ OperatorOnWall
         \/ \E p \in RunIds : PauseOperator(p) \/ ReleaseCanary(p),
         NEW r \in RunIds, r \in stopped', r \notin stopped
  PROVE  HeldBack(r)'
<1> USE DEF HeldBack
<1>0. TypeOK /\ tiles[r] \in Tiles
  BY DEF PauseTypeOK, TypeOK
<1>1. Cancel(r) \/ CancelPaused(r)
  <2>1. CASE OperatorOnWall
    BY <2>1 DEF OperatorOnWall
  <2>2. ASSUME NEW p \in RunIds, PauseOperator(p) \/ ReleaseCanary(p)
        PROVE  CancelPaused(r)
    BY <2>2 DEF PauseOperator, PauseQueued, PauseActive, Resume, CancelPaused,
                ReleaseCanary
  <2>3. QED
    BY <2>1, <2>2
<1>2. CASE Cancel(r)
  <2>1. tiles'[r] = [tiles[r] EXCEPT !.flag = 0] /\ r \in cancel' /\ fills' = fills
    BY <1>0, <1>2 DEF Cancel, TypeOK
  <2>2. tiles'[r].flag = 0
    BY <1>0, <2>1 DEF Tiles
  <2>3. fills[r] > 0
    BY <1>2 DEF Cancel, Live, KnownAreFilled
  <2>4. QED
    BY <2>1, <2>2, <2>3
<1>3. CASE CancelPaused(r)
  <2>1. /\ tiles'[r] = [tiles[r] EXCEPT !.status = "done", !.reason = "cancelled"]
        /\ fills' = fills
    BY <1>0, <1>3 DEF CancelPaused, TypeOK
  <2>2. tiles[r].finished /\ fills[r] > 0
    BY <1>0, <1>3 DEF CancelPaused, Paused, Known, KnownAreFilled, FinishedMatchesStatus
  <2>3. tiles'[r].finished
    BY <1>0, <2>1, <2>2 DEF Tiles
  <2>4. QED
    BY <2>1, <2>2, <2>3 DEF Live
<1>4. QED
  BY <1>1, <1>2, <1>3

\* No step disturbs a stopped run, except an operator who takes it out of stopped.
LEMMA StoppedStep ==
  ASSUME ~ControlPlane, IsFiniteSet(RunIds), StopInv, [PauseNext]_pvars
  PROVE  /\ StoppedHolds'
         /\ \A r \in stopped : ~LeasedNow(r)
<1>1. /\ PauseTypeOK /\ TypeOK /\ FinishedMatchesStatus /\ KnownAreFilled /\ NoCircuits
      /\ stopped \subseteq RunIds
  BY DEF StopInv, PauseInv, PauseTypeOK
<1>2. \A r \in stopped : r \in RunIds /\ HeldBack(r)
  BY <1>1 DEF StopInv, StoppedHolds
<1>3. (\A r \in stopped : HeldBack(r)' /\ ~LeasedNow(r)) /\ UNCHANGED stopped
      => StoppedHolds' /\ \A r \in stopped : ~LeasedNow(r)
  BY DEF StoppedHolds
<1>4. CASE \/ OperatorOnWall
           \/ \E p \in RunIds : PauseOperator(p) \/ ReleaseCanary(p)
  <2>1. ASSUME NEW r \in RunIds, HeldBack(r)
        PROVE  (r \in stopped' => HeldBack(r)') /\ ~LeasedNow(r)
    BY <1>1, <1>4, <2>1, OperatorStopped
  <2>2. \A r \in stopped' : r \in RunIds
    BY <1>1, PauseTypeStep DEF PauseTypeOK
  <2>3. ASSUME NEW r \in RunIds, r \in stopped', r \notin stopped
        PROVE  HeldBack(r)'
    BY <1>1, <1>4, <2>3, NewlyStopped
  <2>4. QED
    BY <1>2, <2>1, <2>2, <2>3 DEF StoppedHolds
<1>5. CASE \/ WallGoesOn /\ UNCHANGED pauseVars
           \/ \E m \in reports : Finish(m) /\ UNCHANGED stopped
  <2>1. UNCHANGED stopped
    BY <1>5 DEF pauseVars
  <2>2. ASSUME NEW r \in RunIds, HeldBack(r)
        PROVE  HeldBack(r)' /\ ~LeasedNow(r)
    BY <1>1, <1>5, <2>2, WallGoesOnStopped
  <2>3. QED
    BY <1>2, <1>3, <2>1, <2>2
<1>6. CASE UNCHANGED <<tiles, cancel, fills, stopped>>
  <2>1. \A r \in stopped : HeldBack(r)' /\ ~LeasedNow(r)
    BY <1>2, <1>6 DEF HeldBack, LeasedNow
  <2>2. QED
    BY <1>3, <1>6, <2>1
<1>7. ASSUME NEW x \in wraps, WrapTail(x)
      PROVE  StoppedHolds' /\ \A r \in stopped : ~LeasedNow(r)
  <2>1. UNCHANGED stopped
    BY <1>1, <1>7, WrapTailType
  <2>2. ASSUME NEW r \in RunIds, HeldBack(r)
        PROVE  HeldBack(r)' /\ ~LeasedNow(r)
    BY <1>1, <1>7, <2>2, WrapTailStopped, UndisturbedStopped
  <2>3. QED
    BY <1>2, <1>3, <2>1, <2>2
<1>8. ASSUME NEW m \in reports, WrapInner(m)
      PROVE  \/ UNCHANGED <<tiles, cancel, fills, stopped>>
             \/ Finish(m) /\ UNCHANGED stopped
  <2>1. UNCHANGED stopped
    BY <1>1, <1>8, WrapInnerType
  <2>2. \/ UNCHANGED vars
        \/ FinishCheckFlag(m) \/ FinishSettle(m) \/ FinishRefused(m)
    BY <1>8 DEF WrapInner, WrapFinish, WrapCheckFlag, WrapSettle, WrapRefused
  <2>3. QED
    BY <2>1, <2>2 DEF Finish, vars, wallVars
<1>9. ASSUME NEW f \in forgets, Forget(f)
      PROVE  UNCHANGED <<tiles, cancel, fills, stopped>>
  BY <1>9 DEF Forget, vars, wallVars
<1>10. CASE UNCHANGED pvars
  BY <1>6, <1>10 DEF pvars, pauseVars, vars, wallVars
<1>11. QED
  BY <1>4, <1>5, <1>6, <1>7, <1>8, <1>9, <1>10 DEF PauseNext

LEMMA StopInvInit == PauseInit => StopInv
<1> SUFFICES ASSUME PauseInit
             PROVE  StopInv
  OBVIOUS
<1>1. PauseInv /\ Init /\ stopped = {}
  BY PauseInvInit DEF PauseInit
<1>2. \A r \in RunIds : tiles[r] = AbsentTile
  BY <1>1 DEF Init
<1>3. AbsentTile.status = "absent" /\ AbsentTile.circuit = NoRevision
  BY DEF AbsentTile
<1>4. KnownAreFilled /\ NoCircuits
  BY <1>2, <1>3 DEF KnownAreFilled, NoCircuits, Known
<1>5. QED
  BY <1>1, <1>4 DEF StopInv, StoppedHolds

LEMMA StopInvStep ==
  ASSUME ~ControlPlane, IsFiniteSet(RunIds), StopInv, [PauseNext]_pvars
  PROVE  StopInv'
<1>1. /\ PauseInv /\ PauseTypeOK /\ TypeOK /\ FinishedMatchesStatus
      /\ KnownAreFilled /\ NoCircuits
  BY DEF StopInv, PauseInv, PauseTypeOK
<1>2. PauseInv'
  BY <1>1, PauseInvStep
<1>3. KnownAreFilled' /\ NoCircuits'
  BY <1>1, PauseSteps, WallKeepsCircuits, MovesKeepCircuits
<1>4. StoppedHolds'
  BY StoppedStep
<1>5. QED
  BY <1>2, <1>3, <1>4 DEF StopInv

\* "A user cancellation is never retried": where no control plane parks runs for
\* a circuit, a run whose cancel was accepted is not leased again, whatever
\* pauses, automatic pauses, late reports and reapings come after the cancel,
\* until the operator resumes, flags, deletes or submits it.
THEOREM CancelFinalWithoutControlPlane ==
  ASSUME ~ControlPlane, IsFiniteSet(RunIds)
  PROVE  PauseSpec => CancelledNotHandedOut
<1> DEFINE NotLeased == \A r \in stopped :
                          tiles'[r].status = "leased" => tiles[r].status = "leased"
<1>1. PauseInit => StopInv
  BY StopInvInit
<1>2. StopInv /\ [PauseNext]_pvars => StopInv'
  BY StopInvStep
<1>3. StopInv /\ [PauseNext]_pvars => [NotLeased]_pvars
  BY StoppedStep DEF LeasedNow
<1>4. QED
  BY <1>1, <1>2, <1>3, PTL DEF PauseSpec, CancelledNotHandedOut

=============================================================================
