---------------------------- MODULE RenderProofs ----------------------------
(***************************************************************************)
(* Theorems about RenderJobs for every set of jobs and workers, every      *)
(* number of slots and every number of faults.                             *)
(***************************************************************************)
EXTENDS RenderJobs, TLAPS

-----------------------------------------------------------------------------
(* What a step does to the wall's side: nothing, a change of one job, or a *)
(* restart.  Every action is one of these; the proofs go by this list.     *)

Changed(j, job) == Written(j, job) \/ WriteFailed(j, job)

WallOK ==
  /\ jobs \in [RenderJobIds -> JobRecords]
  /\ savedJobs \in [RenderJobIds -> JobRecords]
  /\ expired \subseteq {j \in RenderJobIds : jobs[j].state = "active"}
  /\ unsure \subseteq RenderJobIds

WorkersOK ==
  /\ renders \subseteq RenderRecords
  /\ \A r, s \in renders :
       r.worker = s.worker /\ r.slot = s.slot => r = s
  /\ cancels \in [ReplayWorkers -> [RenderJobIds -> Nat]]
  /\ stops \subseteq (ReplayWorkers \X RenderJobIds)
  /\ crashed \subseteq ReplayWorkers

LEMMA TypeParts ==
  RenderTypeOK <=>
    WallOK /\ WorkersOK /\ artifacts \subseteq RenderJobIds /\ faults \in 0 .. MaxFaults
  BY DEF RenderTypeOK, WallOK, WorkersOK

LEMMA JobTypes ==
  /\ \A s \in JobStates : Unleased(s) \in JobRecords
  /\ \A w \in ReplayWorkers : LeasedTo(w) \in JobRecords
  BY DEF Unleased, LeasedTo, JobRecords, JobStates

\* A changed job has its type, and is no longer expired.
LEMMA ChangedOK ==
  ASSUME WallOK, NEW j \in RenderJobIds, NEW job \in JobRecords, Changed(j, job)
  PROVE  /\ WallOK'
         /\ jobs' = [jobs EXCEPT ![j] = job]
         /\ jobs'[j] = job
         /\ \A i \in RenderJobIds \ {j} : jobs'[i] = jobs[i]
<1>1. /\ jobs' = [jobs EXCEPT ![j] = job]
      /\ expired' = expired \ {j}
      /\ savedJobs' = jobs' \/ savedJobs' = savedJobs
      /\ unsure' = {} \/ unsure' = unsure \cup {j}
  BY DEF Changed, Written, WriteFailed, InMemory
<1>2. jobs' \in [RenderJobIds -> JobRecords]
  BY <1>1 DEF WallOK
<1>3. jobs'[j] = job /\ \A i \in RenderJobIds \ {j} : jobs'[i] = jobs[i]
  BY <1>1 DEF WallOK
<1>4. QED
  BY <1>1, <1>2, <1>3 DEF WallOK

LEMMA FaultOK ==
  ASSUME faults \in 0 .. MaxFaults, Fault \/ NoFault
  PROVE  faults' \in 0 .. MaxFaults
  BY RenderAssumption DEF Fault, NoFault

\* The writes of the model are changes of a job, or nothing.
LEMMA Writes ==
  ASSUME NEW j, NEW job
  PROVE  /\ Change(j, job) => Changed(j, job) /\ (Fault \/ NoFault)
         /\ ChangeOrUndo(j, job) =>
              (Changed(j, job) \/ UNCHANGED wallSide) /\ (Fault \/ NoFault)
  BY DEF Change, ChangeOrUndo, Changed, WriteFailed, WriteUndone

\* A report changes the job only when its worker owns it.
LEMMA Reported ==
  ASSUME NEW r, NEW s, Report(r, s), faults \in 0 .. MaxFaults
  PROVE  /\ \/ Owns(r.worker, r.job) /\ Changed(r.job, Unleased(s))
            \/ UNCHANGED wallSide
         /\ faults' \in 0 .. MaxFaults
  BY Writes, FaultOK DEF Report, wallSide, Fault

-----------------------------------------------------------------------------
(* Every step, seen from the wall.                                         *)

\* The change a step makes to job j when it changes one.
Steps(j) ==
  \/ RenderCreate(j) /\ (Changed(j, Unleased("queued")) \/ UNCHANGED wallSide)
  \/ RenderRetry(j) /\ Changed(j, Unleased("queued"))
  \/ RenderRemove(j) /\ (Changed(j, Unleased("none")) \/ UNCHANGED wallSide)
  \/ RenderCancel(j) /\ Changed(j, Unleased("cancelled"))
  \/ RenderReconcile(j) /\ Changed(j, Unleased("ready"))
  \/ /\ Claimable(j) /\ UNCHANGED artifacts
     /\ \E w \in ReplayWorkers : Changed(j, LeasedTo(w))
  \/ \E r \in renders :
       /\ r.job = j /\ r.worker \in ReplayWorkers
       /\ \/ Owned(r) /\ Changed(j, LeasedTo(r.worker)) /\ UNCHANGED artifacts
          \/ Owns(r.worker, j) /\ r.phase = "stored" /\ Changed(j, Unleased("ready"))
               /\ UNCHANGED artifacts
          \/ Owns(r.worker, j) /\ Changed(j, Unleased("failed")) /\ UNCHANGED artifacts
  \/ RenderExpire(j) /\ UNCHANGED <<jobs, savedJobs, unsure>>

WallStep == (\E j \in RenderJobIds : Steps(j)) \/ UNCHANGED wallSide \/ WallRestart

LEMMA EveryStep ==
  ASSUME RenderTypeOK, [RenderNext]_renderVars
  PROVE  WallStep /\ faults' \in 0 .. MaxFaults
<1> USE DEF RenderTypeOK
<1>1. ASSUME NEW j \in RenderJobIds,
             RenderCreate(j) \/ RenderRetry(j) \/ RenderRemove(j)
               \/ RenderCancel(j) \/ RenderReconcile(j)
      PROVE  Steps(j) /\ faults' \in 0 .. MaxFaults
  BY <1>1, Writes, FaultOK
  DEF Steps, RenderCreate, RenderRetry, RenderRemove, RenderCancel, RenderReconcile,
      CancelledJob
<1>2. ASSUME NEW w \in ReplayWorkers, NEW j \in RenderJobIds, RenderClaim(w, j)
      PROVE  Steps(j) /\ faults' \in 0 .. MaxFaults
  BY <1>2, FaultOK DEF Steps, RenderClaim, Changed, WriteFailed
<1>3. ASSUME NEW r \in renders, RenderBeat(r)
      PROVE  WallStep /\ faults' \in 0 .. MaxFaults
  <2>1. r.job \in RenderJobIds /\ r.worker \in ReplayWorkers
    BY DEF RenderRecords
  <2>2. CASE Owned(r) /\ Change(r.job, LeasedTo(r.worker))
    BY <1>3, <2>1, <2>2, Writes, FaultOK DEF Steps, WallStep, RenderBeat
  <2>3. CASE UNCHANGED <<wallSide, faults>>
    BY <2>3 DEF WallStep
  <2>4. QED
    BY <1>3, <2>2, <2>3 DEF RenderBeat
<1>4. ASSUME NEW r \in renders, Progress(r)
      PROVE  WallStep /\ faults' \in 0 .. MaxFaults
  <2>1. r.job \in RenderJobIds /\ r.worker \in ReplayWorkers
    BY DEF RenderRecords
  <2>2. CASE RenderFail(r)
    BY <2>1, <2>2, Reported DEF Steps, WallStep, RenderFail
  <2>3. CASE RenderReady(r)
    BY <2>1, <2>3, Reported DEF Steps, WallStep, RenderReady
  <2>4. CASE RenderStore(r) \/ RenderCut(r) \/ RenderDerive(r)
    BY <2>4 DEF WallStep, RenderStore, RenderCut, RenderDerive
  <2>5. QED
    BY <1>4, <2>2, <2>3, <2>4 DEF Progress
<1>5. ASSUME NEW j \in RenderJobIds, RenderExpire(j)
      PROVE  Steps(j) /\ faults' \in 0 .. MaxFaults
  BY <1>5, FaultOK DEF RenderExpire, Steps
<1>6. CASE WallRestart
  BY <1>6 DEF WallStep, WallRestart
<1>7. ASSUME NEW w \in ReplayWorkers, NEW j \in RenderJobIds, RenderStop(w, j)
      PROVE  WallStep /\ faults' \in 0 .. MaxFaults
  BY <1>7 DEF RenderStop, WallStep
<1>8. ASSUME NEW w \in ReplayWorkers, WorkerCrash(w)
      PROVE  WallStep /\ faults' \in 0 .. MaxFaults
  BY <1>8 DEF WorkerCrash, WallStep
<1>9. CASE UNCHANGED renderVars
  BY <1>9 DEF renderVars, WallStep
<1>10. QED
  BY <1>1, <1>2, <1>3, <1>4, <1>5, <1>6, <1>7, <1>8, <1>9
  DEF RenderNext, RenderRequests, Worker, Rendering, Failures, WallStep
-----------------------------------------------------------------------------
(* Type correctness.                                                       *)

LEMMA WallTypeStep ==
  ASSUME WallOK, WallStep
  PROVE  WallOK'
<1>1. ASSUME NEW j \in RenderJobIds, NEW job \in JobRecords, Changed(j, job)
      PROVE  WallOK'
  BY <1>1, ChangedOK
<1>2. CASE UNCHANGED wallSide
  BY <1>2 DEF WallOK, wallSide
<1>3. CASE WallRestart
  BY <1>3 DEF WallOK, WallRestart
<1>4. ASSUME NEW j \in RenderJobIds, RenderExpire(j)
      PROVE  WallOK'
  BY <1>4 DEF WallOK, RenderExpire
<1>5. QED
  BY <1>1, <1>2, <1>3, <1>4, JobTypes DEF WallStep, Steps, JobStates

\* A render that goes on in its slot, in another phase or stopped.
LEMMA WithOK ==
  ASSUME WorkersOK, NEW r \in renders, NEW s, With(r, s),
         \/ \E p \in Phases : s = [r EXCEPT !.phase = p]
         \/ s = [r EXCEPT !.stopped = TRUE],
         UNCHANGED <<cancels, stops, crashed>>
  PROVE  WorkersOK'
<1>1. r \in RenderRecords
  BY DEF WorkersOK
<1>2. s \in RenderRecords /\ s.worker = r.worker /\ s.slot = r.slot
  BY <1>1 DEF RenderRecords
<1>3. renders' = (renders \ {r}) \cup {s}
  BY DEF With
<1>4. renders' \subseteq RenderRecords
  BY <1>2, <1>3 DEF WorkersOK
<1>5. ASSUME NEW a \in renders', NEW b \in renders',
             a.worker = b.worker, a.slot = b.slot
      PROVE  a = b
  BY <1>2, <1>3, <1>5 DEF WorkersOK
<1>6. QED
  BY <1>4, <1>5 DEF WorkersOK

LEMMA EndOK ==
  ASSUME WorkersOK, NEW r \in renders, End(r)
  PROVE  WorkersOK'
<1>1. r.worker \in ReplayWorkers /\ r.job \in RenderJobIds
  BY DEF WorkersOK, RenderRecords
<1>2. cancels' \in [ReplayWorkers -> [RenderJobIds -> Nat]]
  BY <1>1 DEF WorkersOK, End
<1>3. QED
  BY <1>2 DEF WorkersOK, End

\* A new render takes a free slot: no render of the worker has it.
LEMMA StartOK ==
  ASSUME WorkersOK, NEW w \in ReplayWorkers, NEW j \in RenderJobIds,
         FreeSlots(w) # {}, Start(w, j)
  PROVE  WorkersOK'
<1> DEFINE k == FreeSlot(w)
           new == [worker |-> w, slot |-> k, job |-> j, phase |-> "rendering",
                   stopped |-> FALSE]
<1>1. k \in FreeSlots(w)
  BY DEF FreeSlot
<1>2. k \in Slots(w) /\ k \in Nat /\ \A r \in renders : ~(r.worker = w /\ r.slot = k)
  BY <1>1, RenderAssumption DEF FreeSlots, Slots
<1>3. renders' = renders \cup {new} /\ cancels' = [cancels EXCEPT ![w][j] = k]
      /\ UNCHANGED <<stops, crashed>>
  BY DEF Start
<1> HIDE DEF k
<1>4. new \in RenderRecords
  BY <1>2 DEF RenderRecords, Phases
<1>5. cancels' \in [ReplayWorkers -> [RenderJobIds -> Nat]]
  BY <1>2, <1>3 DEF WorkersOK
<1>6. ASSUME NEW a \in renders', NEW b \in renders',
             a.worker = b.worker, a.slot = b.slot
      PROVE  a = b
  <2>1. new.worker = w /\ new.slot = k
    OBVIOUS
  <2> HIDE DEF new
  <2>2. QED
    BY <1>2, <1>3, <1>6, <2>1 DEF WorkersOK
<1>7. QED
  BY <1>3, <1>4, <1>5, <1>6 DEF WorkersOK

LEMMA StopOK ==
  ASSUME WorkersOK, NEW w \in ReplayWorkers, NEW j \in RenderJobIds, RenderStop(w, j)
  PROVE  WorkersOK'
<1> DEFINE stop(r) == IF r.worker = w /\ r.job = j /\ r.slot = cancels[w][j]
                        THEN [r EXCEPT !.stopped = TRUE] ELSE r
<1>1. renders' = {stop(r) : r \in renders} /\ stops' \subseteq stops
      /\ UNCHANGED <<cancels, crashed>>
  BY DEF RenderStop
<1>2. ASSUME NEW r \in renders
      PROVE  stop(r) \in RenderRecords /\ stop(r).worker = r.worker
             /\ stop(r).slot = r.slot
  BY DEF WorkersOK, RenderRecords
<1> HIDE DEF stop
<1>3. ASSUME NEW a \in renders', NEW b \in renders',
             a.worker = b.worker, a.slot = b.slot
      PROVE  a = b
  <2>1. PICK r \in renders : a = stop(r)
    BY <1>1
  <2>2. PICK q \in renders : b = stop(q)
    BY <1>1
  <2>3. QED
    BY <1>2, <1>3, <2>1, <2>2 DEF WorkersOK
<1>4. renders' \subseteq RenderRecords
  BY <1>1, <1>2
<1>5. QED
  BY <1>1, <1>3, <1>4 DEF WorkersOK

LEMMA CrashOK ==
  ASSUME WorkersOK, NEW w \in ReplayWorkers, WorkerCrash(w)
  PROVE  WorkersOK'
<1>1. cancels' \in [ReplayWorkers -> [RenderJobIds -> Nat]]
  BY DEF WorkersOK, WorkerCrash
<1>2. QED
  BY <1>1 DEF WorkersOK, WorkerCrash

LEMMA WorkersTypeStep ==
  ASSUME RenderTypeOK, [RenderNext]_renderVars
  PROVE  WorkersOK' /\ artifacts' \subseteq RenderJobIds
<1> USE TypeParts
<1>1. ASSUME UNCHANGED workerSide
      PROVE  WorkersOK'
  BY <1>1 DEF WorkersOK, workerSide
<1>2. ASSUME NEW j \in RenderJobIds,
             RenderCreate(j) \/ RenderRetry(j) \/ RenderRemove(j) \/ RenderReconcile(j)
      PROVE  WorkersOK' /\ artifacts' \subseteq RenderJobIds
  BY <1>1, <1>2 DEF RenderCreate, RenderRetry, RenderRemove, RenderReconcile
<1>3. ASSUME NEW j \in RenderJobIds, RenderCancel(j)
      PROVE  WorkersOK' /\ artifacts' \subseteq RenderJobIds
  <2>1. stops' = stops \/ \E w \in ReplayWorkers \ crashed : stops' = {<<w, j>>}
    BY <1>3 DEF RenderCancel
  <2>2. stops' \subseteq ReplayWorkers \X RenderJobIds
    BY <2>1 DEF WorkersOK
  <2>3. QED
    BY <1>3, <2>2 DEF RenderCancel, WorkersOK
<1>4. ASSUME NEW w \in ReplayWorkers, NEW j \in RenderJobIds, RenderClaim(w, j)
      PROVE  WorkersOK' /\ artifacts' \subseteq RenderJobIds
  <2>1. Start(w, j) \/ UNCHANGED workerSide
    BY <1>4 DEF RenderClaim
  <2>2. QED
    BY <1>1, <1>4, <2>1, StartOK DEF RenderClaim
<1>5. ASSUME NEW w \in ReplayWorkers, NEW j \in RenderJobIds, RenderStop(w, j)
      PROVE  WorkersOK' /\ artifacts' \subseteq RenderJobIds
  BY <1>5, StopOK DEF RenderStop
<1>6. ASSUME NEW r \in renders, RenderBeat(r)
      PROVE  WorkersOK' /\ artifacts' \subseteq RenderJobIds
  <2>1. UNCHANGED renders \/ With(r, [r EXCEPT !.stopped = TRUE])
    BY <1>6 DEF RenderBeat, Stop
  <2>2. UNCHANGED <<artifacts, cancels, stops, crashed>>
    BY <1>6 DEF RenderBeat
  <2>3. QED
    BY <1>1, <2>1, <2>2, WithOK DEF workerSide
<1>7. ASSUME NEW r \in renders, Progress(r)
      PROVE  WorkersOK' /\ artifacts' \subseteq RenderJobIds
  <2>1. r.job \in RenderJobIds
    BY DEF WorkersOK, RenderRecords
  <2>2. CASE RenderStore(r)
    <3>1. WorkersOK'
      BY <2>2, WithOK DEF RenderStore, Phases
    <3>2. QED
      BY <2>1, <2>2, <3>1 DEF RenderStore
  <2>3. CASE RenderReady(r)
    BY <2>3, WithOK DEF RenderReady, Phases
  <2>4. CASE RenderFail(r) \/ RenderCut(r) \/ RenderDerive(r)
    BY <2>1, <2>4, EndOK DEF RenderFail, RenderCut, RenderDerive
  <2>5. QED
    BY <1>7, <2>2, <2>3, <2>4 DEF Progress
<1>8. ASSUME NEW j \in RenderJobIds, RenderExpire(j) \/ WallRestart
      PROVE  WorkersOK' /\ artifacts' \subseteq RenderJobIds
  BY <1>1, <1>8 DEF RenderExpire, WallRestart
<1>9. CASE WallRestart
  BY <1>1, <1>9 DEF WallRestart
<1>10. ASSUME NEW w \in ReplayWorkers, WorkerCrash(w)
       PROVE  WorkersOK' /\ artifacts' \subseteq RenderJobIds
  BY <1>10, CrashOK DEF WorkerCrash
<1>11. CASE UNCHANGED renderVars
  BY <1>1, <1>11 DEF renderVars
<1>12. QED
  BY <1>2, <1>3, <1>4, <1>5, <1>6, <1>7, <1>8, <1>9, <1>10, <1>11
  DEF RenderNext, RenderRequests, Worker, Rendering, Failures

LEMMA RenderTypeStep ==
  ASSUME RenderTypeOK, [RenderNext]_renderVars
  PROVE  RenderTypeOK'
<1>1. WallOK'
  BY EveryStep, WallTypeStep, TypeParts
<1>2. faults' \in 0 .. MaxFaults
  BY EveryStep
<1>3. QED
  BY <1>1, <1>2, WorkersTypeStep DEF RenderTypeOK, WallOK, WorkersOK

LEMMA RenderTypeInit == RenderInit => RenderTypeOK
  BY RenderAssumption
  DEF RenderInit, RenderTypeOK, JobRecords, JobStates, Unleased

\* Every variable of RenderJobs has its type in every reachable state, and no
\* two renders of a worker are in the same slot (tryAdmitRenderJob).
THEOREM RenderTypeCorrect == RenderSpec => []RenderTypeOK
<1>1. RenderTypeOK /\ [RenderNext]_renderVars => RenderTypeOK'
  BY RenderTypeStep
<1>2. QED
  BY RenderTypeInit, <1>1, PTL DEF RenderSpec

-----------------------------------------------------------------------------
(* A ready job has its object.                                             *)

\* What makes ReadyIsStored inductive: a render reports only after its upload.
Uploaded == \A r \in renders : r.phase \in {"stored", "derived"} => r.job \in artifacts

LEMMA UploadedStep ==
  ASSUME RenderTypeOK, Uploaded, [RenderNext]_renderVars
  PROVE  Uploaded' /\ artifacts \subseteq artifacts'
<1>1. ASSUME renders' \subseteq renders, artifacts \subseteq artifacts'
      PROVE  Uploaded' /\ artifacts \subseteq artifacts'
  BY <1>1 DEF Uploaded
<1>2. ASSUME NEW j \in RenderJobIds,
             RenderCreate(j) \/ RenderRetry(j) \/ RenderRemove(j)
               \/ RenderCancel(j) \/ RenderReconcile(j)
      PROVE  Uploaded' /\ artifacts \subseteq artifacts'
  BY <1>1, <1>2
  DEF RenderCreate, RenderRetry, RenderRemove, RenderCancel, RenderReconcile, workerSide
<1>3. ASSUME NEW w \in ReplayWorkers, NEW j \in RenderJobIds, RenderClaim(w, j)
      PROVE  Uploaded' /\ artifacts \subseteq artifacts'
  <2>1. UNCHANGED artifacts
    BY <1>3 DEF RenderClaim
  <2>2. CASE UNCHANGED workerSide
    BY <1>1, <2>1, <2>2 DEF workerSide
  <2>3. CASE Start(w, j)
    BY <2>1, <2>3 DEF Start, Uploaded
  <2>4. QED
    BY <1>3, <2>2, <2>3 DEF RenderClaim
<1>4. ASSUME NEW w \in ReplayWorkers, NEW j \in RenderJobIds, RenderStop(w, j)
      PROVE  Uploaded' /\ artifacts \subseteq artifacts'
  <2>1. ASSUME NEW a \in renders'
        PROVE  \E r \in renders : a.phase = r.phase /\ a.job = r.job
    BY <1>4 DEF RenderStop, RenderTypeOK, RenderRecords
  <2>2. UNCHANGED artifacts
    BY <1>4 DEF RenderStop
  <2>3. QED
    BY <2>1, <2>2 DEF Uploaded
<1>5. ASSUME NEW r \in renders, RenderBeat(r)
      PROVE  Uploaded' /\ artifacts \subseteq artifacts'
  <2>1. CASE UNCHANGED renders
    BY <1>1, <1>5, <2>1 DEF RenderBeat
  <2>2. CASE Stop(r)
    <3>1. r \in RenderRecords
      BY DEF RenderTypeOK
    <3>2. QED
      BY <1>5, <2>2, <3>1 DEF RenderBeat, Stop, With, Uploaded, RenderRecords
  <2>3. QED
    BY <1>5, <2>1, <2>2 DEF RenderBeat
<1>6. ASSUME NEW r \in renders, Progress(r)
      PROVE  Uploaded' /\ artifacts \subseteq artifacts'
  <2>1. r \in RenderRecords
    BY DEF RenderTypeOK
  <2>2. CASE RenderStore(r)
    BY <2>1, <2>2 DEF RenderStore, With, Uploaded, RenderRecords
  <2>3. CASE RenderReady(r)
    BY <2>1, <2>3 DEF RenderReady, With, Uploaded, RenderRecords
  <2>4. CASE RenderFail(r) \/ RenderCut(r) \/ RenderDerive(r)
    BY <1>1, <2>4 DEF RenderFail, RenderCut, RenderDerive, End
  <2>5. QED
    BY <1>6, <2>2, <2>3, <2>4 DEF Progress
<1>7. ASSUME NEW j \in RenderJobIds, RenderExpire(j)
      PROVE  Uploaded' /\ artifacts \subseteq artifacts'
  BY <1>1, <1>7 DEF RenderExpire, workerSide
<1>8. CASE WallRestart
  BY <1>1, <1>8 DEF WallRestart, workerSide
<1>9. ASSUME NEW w \in ReplayWorkers, WorkerCrash(w)
      PROVE  Uploaded' /\ artifacts \subseteq artifacts'
  BY <1>1, <1>9 DEF WorkerCrash
<1>10. CASE UNCHANGED renderVars
  BY <1>1, <1>10 DEF renderVars, workerSide
<1>11. QED
  BY <1>2, <1>3, <1>4, <1>5, <1>6, <1>7, <1>8, <1>9, <1>10
  DEF RenderNext, RenderRequests, Worker, Rendering, Failures

\* A change keeps ReadyIsStored when it does not make a job ready that has no
\* object.
LEMMA ChangedStored ==
  ASSUME WallOK, ReadyIsStored, artifacts \subseteq artifacts',
         NEW j \in RenderJobIds, NEW job \in JobRecords, Changed(j, job),
         job.state = "ready" => j \in artifacts
  PROVE  ReadyIsStored'
<1>1. savedJobs' = jobs' \/ savedJobs' = savedJobs
  BY DEF Changed, Written, WriteFailed
<1>2. jobs'[j] = job /\ \A i \in RenderJobIds \ {j} : jobs'[i] = jobs[i]
  BY ChangedOK
<1>3. QED
  BY <1>1, <1>2 DEF ReadyIsStored

LEMMA StoredStep ==
  ASSUME RenderTypeOK, ReadyIsStored, Uploaded, [RenderNext]_renderVars
  PROVE  ReadyIsStored' /\ Uploaded'
<1>1. WallStep /\ WallOK
  BY EveryStep, TypeParts
<1>2. Uploaded' /\ artifacts \subseteq artifacts'
  BY UploadedStep
<1>3. ASSUME NEW j \in RenderJobIds, NEW s \in JobStates \ {"ready"},
             Changed(j, Unleased(s))
      PROVE  ReadyIsStored'
  BY <1>1, <1>2, <1>3, JobTypes, ChangedStored DEF Unleased
<1>4. ASSUME NEW j \in RenderJobIds, NEW w \in ReplayWorkers, Changed(j, LeasedTo(w))
      PROVE  ReadyIsStored'
  BY <1>1, <1>2, <1>4, JobTypes, ChangedStored DEF LeasedTo
<1>5. ASSUME NEW j \in artifacts, j \in RenderJobIds, Changed(j, Unleased("ready"))
      PROVE  ReadyIsStored'
  BY <1>1, <1>2, <1>5, JobTypes, ChangedStored DEF Unleased, JobStates
<1>6. CASE UNCHANGED wallSide
  BY <1>2, <1>6 DEF ReadyIsStored, wallSide
<1>7. CASE WallRestart
  BY <1>2, <1>7 DEF ReadyIsStored, WallRestart
<1>8. ASSUME NEW j \in RenderJobIds, Steps(j)
      PROVE  ReadyIsStored'
  <2>1. CASE RenderReconcile(j) /\ Changed(j, Unleased("ready"))
    BY <1>5, <2>1 DEF RenderReconcile
  <2>2. CASE RenderExpire(j) /\ UNCHANGED <<jobs, savedJobs, unsure>>
    BY <1>2, <2>2 DEF ReadyIsStored
  <2>3. ASSUME NEW r \in renders, r.job = j, r.phase = "stored",
               Changed(j, Unleased("ready"))
        PROVE  ReadyIsStored'
    BY <1>5, <2>3 DEF Uploaded
  <2>4. QED
    BY <1>3, <1>4, <1>6, <1>8, <2>1, <2>2, <2>3 DEF Steps, JobStates
<1>9. QED
  BY <1>1, <1>2, <1>6, <1>7, <1>8 DEF WallStep

\* A job is ready, in memory and on disk, only when its object is stored.
THEOREM ReadyJobsAreStored == RenderSpec => []ReadyIsStored
<1>1. RenderInit => ReadyIsStored /\ Uploaded
  BY DEF RenderInit, ReadyIsStored, Uploaded, Unleased
<1>2. RenderTypeOK /\ ReadyIsStored /\ Uploaded /\ [RenderNext]_renderVars
        => ReadyIsStored' /\ Uploaded'
  BY StoredStep
<1>3. QED
  BY <1>1, <1>2, RenderTypeCorrect, PTL DEF RenderSpec

-----------------------------------------------------------------------------
(* What the wall acknowledged survives it.                                 *)

LEMMA SavedStep ==
  ASSUME RenderTypeOK, AcknowledgedIsSaved, [RenderNext]_renderVars
  PROVE  AcknowledgedIsSaved'
<1>1. WallStep /\ WallOK
  BY EveryStep, TypeParts
<1>2. ASSUME NEW j \in RenderJobIds, NEW job \in JobRecords, Changed(j, job)
      PROVE  AcknowledgedIsSaved'
  <2>1. \A i \in RenderJobIds \ {j} : jobs'[i] = jobs[i]
    BY <1>1, <1>2, ChangedOK
  <2>2. CASE Written(j, job)
    BY <2>2 DEF Written, AcknowledgedIsSaved
  <2>3. CASE WriteFailed(j, job)
    BY <2>1, <2>3 DEF WriteFailed, AcknowledgedIsSaved
  <2>4. QED
    BY <1>2, <2>2, <2>3 DEF Changed
<1>3. CASE UNCHANGED wallSide
  BY <1>3 DEF AcknowledgedIsSaved, wallSide
<1>4. CASE WallRestart
  BY <1>4 DEF AcknowledgedIsSaved, WallRestart
<1>5. ASSUME NEW j \in RenderJobIds, RenderExpire(j)
      PROVE  AcknowledgedIsSaved'
  BY <1>5 DEF AcknowledgedIsSaved, RenderExpire
<1>6. QED
  BY <1>1, <1>2, <1>3, <1>4, <1>5, JobTypes DEF WallStep, Steps, JobStates

\* The jobs on disk are those of memory but for the ones whose last change was
\* answered with an error: a restart of the wall takes nothing else back.
THEOREM AcknowledgedJobsAreSaved == RenderSpec => []AcknowledgedIsSaved
<1>1. RenderInit => AcknowledgedIsSaved
  BY DEF RenderInit, AcknowledgedIsSaved
<1>2. RenderTypeOK /\ AcknowledgedIsSaved /\ [RenderNext]_renderVars
        => AcknowledgedIsSaved'
  BY SavedStep
<1>3. QED
  BY <1>1, <1>2, RenderTypeCorrect, PTL DEF RenderSpec

-----------------------------------------------------------------------------
(* Settled jobs.                                                           *)

\* A job that names a worker is active: a settled one has no owner that could
\* report on it.
OwnedIsActive ==
  \A j \in RenderJobIds :
    /\ jobs[j].worker # NoReplayWorker => jobs[j].state = "active"
    /\ savedJobs[j].worker # NoReplayWorker => savedJobs[j].state = "active"

LEMMA OwnedStep ==
  ASSUME RenderTypeOK, OwnedIsActive, [RenderNext]_renderVars
  PROVE  OwnedIsActive'
<1>1. WallStep /\ WallOK
  BY EveryStep, TypeParts
<1>2. ASSUME NEW j \in RenderJobIds, NEW job \in JobRecords, Changed(j, job),
             job.worker # NoReplayWorker => job.state = "active"
      PROVE  OwnedIsActive'
  <2>1. jobs'[j] = job /\ \A i \in RenderJobIds \ {j} : jobs'[i] = jobs[i]
    BY <1>1, <1>2, ChangedOK
  <2>2. savedJobs' = jobs' \/ savedJobs' = savedJobs
    BY <1>2 DEF Changed, Written, WriteFailed
  <2>3. QED
    BY <1>2, <2>1, <2>2 DEF OwnedIsActive
<1>3. ASSUME NEW j \in RenderJobIds, NEW s \in JobStates, Changed(j, Unleased(s))
      PROVE  OwnedIsActive'
  BY <1>2, <1>3, JobTypes DEF Unleased
<1>4. ASSUME NEW j \in RenderJobIds, NEW w \in ReplayWorkers, Changed(j, LeasedTo(w))
      PROVE  OwnedIsActive'
  BY <1>2, <1>4, JobTypes DEF LeasedTo
<1>5. CASE UNCHANGED wallSide
  BY <1>5 DEF OwnedIsActive, wallSide
<1>6. CASE WallRestart
  BY <1>6 DEF OwnedIsActive, WallRestart
<1>7. ASSUME NEW j \in RenderJobIds, RenderExpire(j)
      PROVE  OwnedIsActive'
  BY <1>7 DEF OwnedIsActive, RenderExpire
<1>8. QED
  BY <1>1, <1>3, <1>4, <1>5, <1>6, <1>7 DEF WallStep, Steps, JobStates

\* What a step may do to a settled job.
Resettles(j) ==
  RenderRetry(j) \/ RenderCancel(j) \/ RenderRemove(j) \/ RenderReconcile(j)
    \/ WallRestart

LEMMA SettledStep ==
  ASSUME RenderTypeOK, OwnedIsActive, [RenderNext]_renderVars,
         NEW j \in RenderJobIds, JobSettled(j), jobs'[j] # jobs[j]
  PROVE  Resettles(j)
<1>1. WallStep /\ WallOK
  BY EveryStep, TypeParts
<1>2. ~Claimable(j) /\ jobs[j].worker = NoReplayWorker /\ jobs[j].state # "none"
  BY DEF Claimable, JobSettled, OwnedIsActive, RenderTypeOK
<1>3. ~UNCHANGED wallSide
  BY DEF wallSide
<1>4. ASSUME NEW i \in RenderJobIds, NEW job \in JobRecords, Changed(i, job)
      PROVE  i = j
  BY <1>1, <1>4, ChangedOK
<1>5. ASSUME NEW i \in RenderJobIds, Steps(i)
      PROVE  Resettles(j)
  <2>1. ~(RenderExpire(i) /\ UNCHANGED <<jobs, savedJobs, unsure>>)
    OBVIOUS
  <2>2. i = j
    BY <1>3, <1>4, <1>5, <2>1, JobTypes DEF Steps, JobStates
  <2>3. \A w \in ReplayWorkers : ~Owns(w, j)
    BY <1>2, RenderAssumption DEF Owns
  <2>4. ~RenderCreate(j)
    BY <1>2 DEF RenderCreate
  <2>5. QED
    BY <1>2, <1>5, <2>1, <2>2, <2>3, <2>4 DEF Steps, Resettles, Owned
<1>6. QED
  BY <1>1, <1>3, <1>5 DEF WallStep, Resettles

\* No report, heartbeat or claim revives a settled job.
THEOREM SettledJobsStay == RenderSpec => SettledStays
<1>1. RenderInit => OwnedIsActive
  BY DEF RenderInit, OwnedIsActive, Unleased
<1>2. RenderTypeOK /\ OwnedIsActive /\ [RenderNext]_renderVars => OwnedIsActive'
  BY OwnedStep
<1>3. RenderTypeOK /\ OwnedIsActive /\ [RenderNext]_renderVars
        => [\A j \in RenderJobIds :
              JobSettled(j) /\ jobs'[j] # jobs[j] =>
                RenderRetry(j) \/ RenderCancel(j) \/ RenderRemove(j)
                  \/ RenderReconcile(j) \/ WallRestart]_renderVars
  BY SettledStep DEF Resettles
<1>4. QED
  BY <1>1, <1>2, <1>3, RenderTypeCorrect, PTL DEF RenderSpec, SettledStays
=============================================================================
