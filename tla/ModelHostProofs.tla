-------------------------- MODULE ModelHostProofs --------------------------
(***************************************************************************)
(* Theorems about ModelHosts for every set of runs and models, every limit *)
(* and any number of faults.                                               *)
(***************************************************************************)
EXTENDS ModelHosts, SequenceTheorems, TLAPS

-----------------------------------------------------------------------------
(* The queue.                                                              *)

Holds(q, r) == \E i \in 1 .. Len(q) : q[i] = r
Distinct(q) == \A i, j \in 1 .. Len(q) : q[i] = q[j] => i = j

LEMMA WithoutElements ==
  ASSUME waiting \in Seq(HostedRuns), NEW i \in 1 .. Len(waiting)
  PROVE  /\ WaitingWithout(i) \in Seq(HostedRuns)
         /\ Len(WaitingWithout(i)) = Len(waiting) - 1
         /\ \A k \in 1 .. (Len(waiting) - 1) :
              WaitingWithout(i)[k] = IF k < i THEN waiting[k] ELSE waiting[k + 1]
<1> DEFINE front == SubSeq(waiting, 1, i - 1)
           back == SubSeq(waiting, i + 1, Len(waiting))
<1>1. Len(waiting) \in Nat /\ i \in Int
  BY LenProperties
<1>2. /\ front \in Seq(HostedRuns) /\ Len(front) = i - 1
      /\ \A k \in 1 .. (i - 1) : front[k] = waiting[k]
  BY <1>1, SubSeqProperties, ElementOfSeq
<1>3. /\ back \in Seq(HostedRuns) /\ Len(back) = Len(waiting) - i
      /\ \A k \in 1 .. (Len(waiting) - i) : back[k] = waiting[i + k]
  BY <1>1, SubSeqProperties, ElementOfSeq
<1>4. WaitingWithout(i) = front \o back
  BY DEF WaitingWithout
<1> HIDE DEF front, back
<1>5. /\ front \o back \in Seq(HostedRuns)
      /\ Len(front \o back) = Len(front) + Len(back)
      /\ \A k \in 1 .. (Len(front) + Len(back)) : (front \o back)[k] =
           IF k <= Len(front) THEN front[k] ELSE back[k - Len(front)]
  BY <1>2, <1>3, ConcatProperties
<1>6. ASSUME NEW k \in 1 .. (Len(waiting) - 1)
      PROVE  (front \o back)[k] = IF k < i THEN waiting[k] ELSE waiting[k + 1]
  <2>1. CASE k < i
    BY <1>1, <1>2, <1>3, <1>5, <2>1
  <2>2. CASE ~(k < i)
    <3>1. k - (i - 1) \in 1 .. (Len(waiting) - i) /\ i + (k - (i - 1)) = k + 1
      BY <1>1, <2>2
    <3>2. (front \o back)[k] = back[k - (i - 1)]
      BY <1>1, <1>2, <1>3, <1>5, <2>2
    <3>3. QED
      BY <1>3, <2>2, <3>1, <3>2
  <2>3. QED
    BY <2>1, <2>2
<1>7. QED
  BY <1>1, <1>2, <1>3, <1>4, <1>5, <1>6

\* What is left of the queue without one of its runs.
LEMMA WithoutRun ==
  ASSUME waiting \in Seq(HostedRuns), Distinct(waiting), NEW i \in 1 .. Len(waiting)
  PROVE  /\ WaitingWithout(i) \in Seq(HostedRuns) /\ Distinct(WaitingWithout(i))
         /\ \A r : Holds(WaitingWithout(i), r) <=> Holds(waiting, r) /\ r # waiting[i]
<1> DEFINE w == WaitingWithout(i)
           n == Len(waiting)
<1>1. /\ w \in Seq(HostedRuns) /\ Len(w) = n - 1
      /\ \A k \in 1 .. (n - 1) : w[k] = IF k < i THEN waiting[k] ELSE waiting[k + 1]
  BY WithoutElements
<1>2. n \in Nat /\ i \in 1 .. n
  BY LenProperties
<1> HIDE DEF w
<1> DEFINE At(k) == IF k < i THEN k ELSE k + 1
<1>3. ASSUME NEW k \in 1 .. (n - 1) PROVE At(k) \in 1 .. n /\ At(k) # i /\ w[k] = waiting[At(k)]
  <2>1. At(k) \in 1 .. n /\ At(k) # i
    BY <1>2
  <2>2. w[k] = IF k < i THEN waiting[k] ELSE waiting[k + 1]
    BY <1>1
  <2>3. QED
    BY <2>1, <2>2
<1>4. Distinct(w)
  <2>1. SUFFICES ASSUME NEW j \in 1 .. (n - 1), NEW k \in 1 .. (n - 1), w[j] = w[k]
                 PROVE  j = k
    BY <1>1 DEF Distinct
  <2>2. At(j) \in 1 .. n /\ At(k) \in 1 .. n /\ waiting[At(j)] = waiting[At(k)]
    BY <1>3, <2>1
  <2>3. At(j) = At(k)
    <3> HIDE DEF At
    <3> QED
      BY <2>2 DEF Distinct
  <2>4. QED
    BY <1>2, <2>3
<1>5. ASSUME NEW r, Holds(w, r) PROVE Holds(waiting, r) /\ r # waiting[i]
  <2>1. PICK k \in 1 .. (n - 1) : w[k] = r
    BY <1>1, <1>5 DEF Holds
  <2>2. At(k) \in 1 .. n /\ At(k) # i /\ waiting[At(k)] = r
    BY <1>3, <2>1
  <2>3. QED
    <3> HIDE DEF At
    <3> QED
      BY <2>2 DEF Holds, Distinct
<1>6. ASSUME NEW r, Holds(waiting, r), r # waiting[i] PROVE Holds(w, r)
  <2>1. PICK a \in 1 .. n : waiting[a] = r
    BY <1>6 DEF Holds
  <2>2. CASE a < i
    <3>1. a \in 1 .. (n - 1) /\ w[a] = r
      BY <1>1, <1>2, <2>1, <2>2
    <3>2. QED
      BY <1>1, <3>1 DEF Holds
  <2>3. CASE a > i
    <3>1. a - 1 \in 1 .. (n - 1) /\ ~(a - 1 < i) /\ (a - 1) + 1 = a
      BY <1>2, <2>3
    <3>2. w[a - 1] = r
      BY <1>1, <2>1, <3>1
    <3>3. QED
      BY <1>1, <3>1, <3>2 DEF Holds
  <2>4. QED
    BY <1>2, <1>6, <2>1, <2>2, <2>3
<1>7. QED
  BY <1>1, <1>4, <1>5, <1>6 DEF w

\* A run that is not in a queue joins it at its end.
LEMMA AppendRun ==
  ASSUME NEW q \in Seq(HostedRuns), Distinct(q), NEW r \in HostedRuns, ~Holds(q, r)
  PROVE  /\ Append(q, r) \in Seq(HostedRuns) /\ Distinct(Append(q, r))
         /\ \A x : Holds(Append(q, r), x) <=> Holds(q, x) \/ x = r
<1>1. /\ Append(q, r) \in Seq(HostedRuns) /\ Len(Append(q, r)) = Len(q) + 1
      /\ Len(q) \in Nat /\ Append(q, r)[Len(q) + 1] = r
      /\ \A k \in 1 .. Len(q) : Append(q, r)[k] = q[k]
  BY AppendProperties, LenProperties
<1> DEFINE a == Append(q, r)
<1> HIDE DEF a
<1>2. Distinct(a)
  BY <1>1 DEF a, Distinct, Holds
<1>3. \A x : Holds(a, x) <=> Holds(q, x) \/ x = r
  BY <1>1 DEF a, Holds
<1>4. QED
  BY <1>1, <1>2, <1>3 DEF a

\* Or at its head.
LEMMA FrontRun ==
  ASSUME NEW q \in Seq(HostedRuns), Distinct(q), NEW r \in HostedRuns, ~Holds(q, r)
  PROVE  /\ <<r>> \o q \in Seq(HostedRuns) /\ Distinct(<<r>> \o q)
         /\ \A x : Holds(<<r>> \o q, x) <=> Holds(q, x) \/ x = r
<1> DEFINE a == <<r>> \o q
<1>1. /\ <<r>> \in Seq(HostedRuns) /\ Len(<<r>>) = 1 /\ <<r>>[1] = r
      /\ Len(q) \in Nat
  BY LenProperties
<1>2. /\ a \in Seq(HostedRuns) /\ Len(a) = Len(q) + 1
      /\ \A k \in 1 .. (1 + Len(q)) : a[k] = IF k <= 1 THEN <<r>>[k] ELSE q[k - 1]
  BY <1>1, ConcatProperties
<1> HIDE DEF a
<1>3. a[1] = r /\ \A k \in 1 .. Len(q) : a[k + 1] = q[k]
  BY <1>1, <1>2
<1>4. \A k \in 1 .. Len(a) : k # 1 => k - 1 \in 1 .. Len(q) /\ a[k] = q[k - 1]
  BY <1>1, <1>2
<1>5. ASSUME NEW x, Holds(a, x) PROVE Holds(q, x) \/ x = r
  BY <1>3, <1>4, <1>5 DEF Holds
<1>6. ASSUME NEW x, Holds(q, x) \/ x = r PROVE Holds(a, x)
  <2>1. CASE x = r
    BY <1>1, <1>2, <1>3, <2>1 DEF Holds
  <2>2. CASE Holds(q, x)
    <3>1. PICK k \in 1 .. Len(q) : q[k] = x
      BY <2>2 DEF Holds
    <3>2. k + 1 \in 1 .. Len(a) /\ a[k + 1] = x
      BY <1>1, <1>2, <1>3, <3>1
    <3>3. QED
      BY <3>2 DEF Holds
  <2>3. QED
    BY <1>6, <2>1, <2>2
<1>7. Distinct(a)
  <2>1. SUFFICES ASSUME NEW j \in 1 .. Len(a), NEW k \in 1 .. Len(a), a[j] = a[k]
                 PROVE  j = k
    BY DEF Distinct
  <2>2. CASE j = 1 \/ k = 1
    BY <1>3, <1>4, <2>1, <2>2 DEF Holds
  <2>3. CASE j # 1 /\ k # 1
    <3>1. j - 1 = k - 1
      BY <1>4, <2>1, <2>3 DEF Distinct
    <3>2. QED
      BY <1>1, <1>2, <3>1
  <2>4. QED
    BY <2>2, <2>3
<1>8. QED
  BY <1>2, <1>5, <1>6, <1>7 DEF a

-----------------------------------------------------------------------------
(* A run waits exactly when it is in the queue, and is out while it plays.  *)

RunStates == {"none", "queued", "out", "done"}

QueueOK(q, h) ==
  /\ q \in Seq(HostedRuns) /\ Distinct(q)
  /\ h \in [HostedRuns -> RunStates]
  /\ \A r \in HostedRuns : h[r] = "queued" <=> Holds(q, r)

RunsOK ==
  /\ QueueOK(waiting, hosted)
  /\ playing \subseteq HostedRuns
  /\ \A r \in playing : hosted[r] = "out"

\* The lease request has a run that is not played yet.
HasRun == poll.phase \in {"acquire", "release", "requeue", "reply"}

PollOK ==
  /\ poll = [phase |-> poll.phase, todo |-> poll.todo, run |-> poll.run]
  /\ HasRun => poll.run \in HostedRuns \ playing

QueueInv == RunsOK /\ PollOK /\ strays \subseteq HostedRuns

LEMMA JoinsOK ==
  ASSUME QueueOK(waiting, hosted), NEW r \in HostedRuns, hosted[r] # "queued"
  PROVE  /\ QueueOK(Append(waiting, r), [hosted EXCEPT ![r] = "queued"])
         /\ QueueOK(<<r>> \o waiting, [hosted EXCEPT ![r] = "queued"])
<1>1. ~Holds(waiting, r) /\ waiting \in Seq(HostedRuns) /\ Distinct(waiting)
  BY DEF QueueOK
<1>2. [hosted EXCEPT ![r] = "queued"] \in [HostedRuns -> RunStates]
  BY DEF QueueOK, RunStates
<1>3. \A x \in HostedRuns :
        [hosted EXCEPT ![r] = "queued"][x] = "queued" <=> Holds(waiting, x) \/ x = r
  BY DEF QueueOK
<1>4. QED
  BY <1>1, <1>2, <1>3, AppendRun, FrontRun DEF QueueOK

LEMMA LeavesOK ==
  ASSUME QueueOK(waiting, hosted), NEW r \in HostedRuns, Leaves(r),
         NEW s \in RunStates \ {"queued"}
  PROVE  /\ hosted[r] = "queued"
         /\ QueueOK(waiting', [hosted EXCEPT ![r] = s])
<1>1. PICK i \in DOMAIN waiting : waiting[i] = r /\ waiting' = WaitingWithout(i)
  BY DEF Leaves
<1>2. i \in 1 .. Len(waiting) /\ waiting \in Seq(HostedRuns) /\ Distinct(waiting)
  BY <1>1, LenProperties DEF QueueOK
<1>3. Holds(waiting, r)
  BY <1>1, <1>2 DEF Holds
<1>4. /\ waiting' \in Seq(HostedRuns) /\ Distinct(waiting')
      /\ \A x : Holds(waiting', x) <=> Holds(waiting, x) /\ x # r
  BY <1>1, <1>2, WithoutRun
<1>5. QED
  BY <1>3, <1>4 DEF QueueOK, RunStates

LEMMA ToFrontOK ==
  ASSUME QueueOK(waiting, hosted), NEW r, ToFront(r)
  PROVE  QueueOK(waiting', hosted)
<1>1. CASE ~InLine(r) /\ UNCHANGED waiting
  BY <1>1 DEF QueueOK
<1>2. ASSUME NEW i \in DOMAIN waiting,
             waiting[i] = r, waiting' = <<r>> \o WaitingWithout(i)
      PROVE  QueueOK(waiting', hosted)
  <2>1. i \in 1 .. Len(waiting) /\ waiting \in Seq(HostedRuns) /\ Distinct(waiting)
    BY LenProperties DEF QueueOK
  <2>2. /\ WaitingWithout(i) \in Seq(HostedRuns) /\ Distinct(WaitingWithout(i))
        /\ \A x : Holds(WaitingWithout(i), x) <=> Holds(waiting, x) /\ x # r
    BY <1>2, <2>1, WithoutRun
  <2>3. r \in HostedRuns /\ Holds(waiting, r)
    BY <1>2, <2>1, ElementOfSeq DEF Holds
  <2>4. /\ waiting' \in Seq(HostedRuns) /\ Distinct(waiting')
        /\ \A x : Holds(waiting', x) <=> Holds(waiting, x)
    BY <1>2, <2>2, <2>3, FrontRun
  <2>5. QED
    BY <2>4 DEF QueueOK
<1>3. QED
  BY <1>1, <1>2 DEF ToFront

LEMMA SettleOK ==
  ASSUME QueueOK(waiting, hosted), NEW r \in HostedRuns, hosted[r] = "out",
         SettleHosted(r)
  PROVE  /\ QueueOK(waiting', hosted')
         /\ \A x \in HostedRuns \ {r} : hosted'[x] = hosted[x]
<1>1. CASE waiting' = Append(waiting, r) /\ hosted' = [hosted EXCEPT ![r] = "queued"]
  BY <1>1, JoinsOK DEF QueueOK
<1>2. CASE UNCHANGED waiting /\ hosted' = [hosted EXCEPT ![r] = "done"]
  BY <1>2 DEF QueueOK, RunStates
<1>3. QED
  BY <1>1, <1>2 DEF SettleHosted

LEMMA QueueInvInit ==
  HostInit => QueueInv
<1> SUFFICES ASSUME HostInit PROVE QueueInv
  OBVIOUS
<1>1. waiting \in Seq(HostedRuns) /\ Len(waiting) = 0
  BY EmptySeq DEF HostInit
<1>2. QueueOK(waiting, hosted)
  BY <1>1 DEF HostInit, QueueOK, RunStates, Holds, Distinct
<1>3. QED
  BY <1>2 DEF HostInit, QueueInv, RunsOK, PollOK, HasRun, NoPoll

LEMMA QueueInvPoll ==
  ASSUME QueueInv, PollStep
  PROVE  QueueInv'
<1>1. CASE PollBegin
  BY <1>1 DEF PollBegin, QueueInv, RunsOK, PollOK, HasRun, NoPoll, runVars, HostNoFault,
              HostFault
<1>2. CASE PollLook
  <2>1. QueueOK(waiting', hosted) /\ UNCHANGED <<hosted, playing, strays>>
    BY <1>2, ToFrontOK DEF PollLook, QueueInv, RunsOK, QueueOK
  <2>2. \/ poll' = [NoPoll EXCEPT !.phase = "lease"]
        \/ NextLook
    BY <1>2 DEF PollLook
  <2>3. PollOK'
    BY <1>2, <2>1, <2>2 DEF PollLook, QueueInv, PollOK, HasRun, NoPoll, NextLook
  <2>4. QED
    BY <2>1, <2>3 DEF QueueInv, RunsOK
<1>3. CASE PollTake
  <2>1. CASE poll' = NoPoll /\ UNCHANGED <<hosted, waiting, playing, strays>>
    BY <2>1 DEF QueueInv, RunsOK, PollOK, HasRun, NoPoll
  <2>2. ASSUME NEW r \in HostedRuns, Leaves(r),
               hosted' = [hosted EXCEPT ![r] = "out"],
               poll' = [poll EXCEPT !.phase = "acquire", !.run = r],
               UNCHANGED <<playing, strays>>
        PROVE  QueueInv'
    <3>1. hosted[r] = "queued" /\ QueueOK(waiting', hosted')
      BY <2>2, LeavesOK DEF QueueInv, RunsOK, RunStates
    <3>2. r \notin playing /\ \A x \in playing : hosted'[x] = "out"
      BY <2>2, <3>1 DEF QueueInv, RunsOK, QueueOK
    <3>3. PollOK'
      BY <2>2, <3>2 DEF QueueInv, PollOK, HasRun
    <3>4. QED
      BY <2>2, <3>1, <3>2, <3>3 DEF QueueInv, RunsOK
  <2>3. QED
    BY <1>3, <2>1, <2>2 DEF PollTake
<1>4. CASE PollAcquire
  <2>1. UNCHANGED runVars /\ strays' \subseteq HostedRuns
    BY <1>4 DEF PollAcquire, QueueInv, PollOK, HasRun
  <2>2. PollOK'
    BY <1>4, <2>1 DEF PollAcquire, QueueInv, PollOK, HasRun, runVars
  <2>3. QED
    BY <2>1, <2>2 DEF QueueInv, RunsOK, runVars
<1>5. CASE PollRelease
  BY <1>5 DEF PollRelease, QueueInv, RunsOK, PollOK, HasRun, runVars
<1>6. CASE PollRequeue
  <2>1. poll.run \in HostedRuns \ playing
    BY <1>6 DEF PollRequeue, QueueInv, PollOK, HasRun
  <2>2. QueueOK(waiting', hosted') /\ \A x \in playing : hosted'[x] = "out"
    <3>1. CASE /\ Requeues(poll.run)
               /\ hosted' = [hosted EXCEPT ![poll.run] = "queued"]
               /\ waiting' = <<poll.run>> \o waiting
      BY <2>1, <3>1, JoinsOK DEF Requeues, Out, QueueInv, RunsOK, QueueOK
    <3>2. CASE UNCHANGED <<hosted, waiting>>
      BY <3>2 DEF QueueInv, RunsOK
    <3>3. QED
      BY <1>6, <3>1, <3>2 DEF PollRequeue
  <2>3. QED
    BY <1>6, <2>2 DEF PollRequeue, QueueInv, RunsOK, PollOK, HasRun, NoPoll
<1>7. CASE PollReply
  BY <1>7 DEF PollReply, QueueInv, RunsOK, PollOK, HasRun, NoPoll, Out
<1>8. QED
  BY <1>1, <1>2, <1>3, <1>4, <1>5, <1>6, <1>7 DEF PollStep

LEMMA QueueInvHost ==
  ASSUME QueueInv, HostStep
  PROVE  QueueInv'
<1>1. UNCHANGED <<runVars, poll, strays>>
  BY DEF HostStep, LoadReady, ProcessGone, ProcessUp, HostFails, HostRestart
<1>2. QED
  BY <1>1 DEF QueueInv, RunsOK, PollOK, HasRun, runVars

LEMMA QueueInvRun ==
  ASSUME QueueInv, NEW r \in HostedRuns, RunStep(r)
  PROVE  QueueInv'
<1>1. CASE SubmitHosted(r)
  <2>1. QueueOK(waiting', hosted') /\ \A x \in playing : hosted'[x] = "out"
    BY <1>1, JoinsOK DEF SubmitHosted, QueueInv, RunsOK, QueueOK
  <2>2. QED
    BY <1>1, <2>1 DEF SubmitHosted, QueueInv, RunsOK, PollOK, HasRun
<1>2. CASE DeleteHosted(r)
  <2>1. QueueOK(waiting', hosted') /\ \A x \in playing : hosted'[x] = "out"
    BY <1>2, LeavesOK DEF DeleteHosted, QueueInv, RunsOK, QueueOK, RunStates
  <2>2. QED
    BY <1>2, <2>1 DEF DeleteHosted, QueueInv, RunsOK, PollOK, HasRun
<1>3. CASE RunReports(r) \/ ReapHosted(r)
  <2>1. /\ hosted[r] = "out" /\ SettleHosted(r) /\ playing' = playing \ {r}
        /\ UNCHANGED <<poll, strays>>
    BY <1>3 DEF RunReports, ReapHosted, QueueInv, RunsOK, Out
  <2>2. QueueOK(waiting', hosted') /\ \A x \in playing' : hosted'[x] = "out"
    BY <2>1, SettleOK DEF QueueInv, RunsOK
  <2>3. QED
    BY <2>1, <2>2 DEF QueueInv, RunsOK, PollOK, HasRun
<1>4. CASE RunnerDies(r)
  BY <1>4 DEF RunnerDies, QueueInv, RunsOK, PollOK, HasRun
<1>5. CASE ReleaseArrives(r) \/ StrayAcquire(r)
  <2>1. UNCHANGED <<runVars, poll>> /\ strays' \subseteq strays
    BY <1>5 DEF ReleaseArrives, StrayAcquire
  <2>2. QED
    BY <2>1 DEF QueueInv, RunsOK, PollOK, HasRun, runVars
<1>6. QED
  BY <1>1, <1>2, <1>3, <1>4, <1>5 DEF RunStep

LEMMA QueueInvStep ==
  ASSUME QueueInv, [HostNext]_hostedVars
  PROVE  QueueInv'
<1>1. CASE UNCHANGED hostedVars
  BY <1>1 DEF hostedVars, QueueInv, RunsOK, PollOK, HasRun
<1>2. QED
  BY <1>1, QueueInvPoll, QueueInvHost, QueueInvRun DEF HostNext

\* A run waits exactly when it is in the queue, once, whatever the wrapper moves
\* to the front or puts back (moveQueueFront, requeueLease).
THEOREM HostedQueueCorrect == HostSpec => []HostedQueueIsExact
<1>1. QueueInv => HostedQueueIsExact
  BY LenProperties DEF QueueInv, RunsOK, QueueOK, HostedQueueIsExact, InLine, Holds, Distinct
<1>2. QED
  BY <1>1, QueueInvInit, QueueInvStep, PTL DEF HostSpec

-----------------------------------------------------------------------------
(* Nobody switches the model of a run that plays.                          *)

\* Every lease is one of the model that is loaded.
LeasesFit ==
  leases \subseteq HostedRuns /\ \A r \in leases : loaded = DeploymentOf[r]

\* No call is under way that would end the lease of the run.
Undisturbed(r) == r \notin releasing \cup strays

PlayersHold == \A r \in playing : r \in leases /\ Undisturbed(r)

\* The run of the lease request: nothing disturbs it, and it has its lease when
\* the runner gets it.
PolledHolds ==
  /\ poll.phase \in {"acquire", "reply"} => Undisturbed(poll.run)
  /\ poll.phase = "reply" => poll.run \in leases

LeaseInv == LeasesFit /\ PlayersHold /\ PolledHolds

\* A request takes no lease but that of its own run, and loads nothing under one.
LEMMA RequestKeeps ==
  ASSUME LeasesFit, NEW r \in HostedRuns, RequestLease(r)
  PROVE  LeasesFit' /\ leases \ {r} \subseteq leases' /\ leases' \subseteq leases \cup {r}
<1> DEFINE d == DeploymentOf[r]
<1>1. d \in Deployments /\ d # NoDeployment
  BY HostAssumption
<1>2. CASE UNCHANGED hostVars
  BY <1>2 DEF LeasesFit, hostVars
<1>3. CASE Loads(d) /\ leases' = leases \cup {r} /\ UNCHANGED loaded
  BY <1>3 DEF LeasesFit, Loads
<1>4. CASE /\ ~Busy(d) /\ StartLoad(d)
           /\ leases' = IF hostState' = "failed" THEN leases \ {r} ELSE leases \cup {r}
  <2>1. \A x \in leases : loaded # NoDeployment
    BY HostAssumption DEF LeasesFit
  <2>2. loaded' = d /\ \A x \in leases : loaded = d
    BY <1>4, <2>1 DEF StartLoad, Busy
  <2>3. QED
    BY <1>4, <2>2 DEF LeasesFit
<1>5. QED
  BY <1>2, <1>3, <1>4 DEF RequestLease

LEMMA LoadKeeps ==
  ASSUME LeasesFit, NEW d, ~Busy(d), StartLoad(d), UNCHANGED leases
  PROVE  LeasesFit'
<1>1. \A x \in leases : loaded # NoDeployment
  BY HostAssumption DEF LeasesFit
<1>2. loaded' = d /\ \A x \in leases : loaded = d
  BY <1>1 DEF StartLoad, Busy
<1>3. QED
  BY <1>2 DEF LeasesFit

LEMMA LeaseInvPoll ==
  ASSUME Mishaps = {}, QueueInv, LeaseInv, PollStep
  PROVE  LeaseInv'
<1>1. CASE PollBegin
  <2>1. \A r \in playing : r \in leases'
    BY <1>1 DEF PollBegin, Orphans, Out, QueueInv, RunsOK, LeaseInv, PlayersHold
  <2>2. leases' \subseteq leases
    BY <1>1 DEF PollBegin
  <2>3. QED
    BY <1>1, <2>1, <2>2 DEF PollBegin, NoPoll, LeaseInv, LeasesFit, PlayersHold,
         PolledHolds, Undisturbed, runVars
<1>2. CASE PollLook
  <2>1. /\ UNCHANGED leases /\ UNCHANGED <<playing, releasing, strays>>
        /\ poll'.phase \notin {"acquire", "reply"}
    BY <1>2 DEF PollLook, NextLook, NoPoll, hostVars, QueueInv, PollOK
  <2>2. LeasesFit'
    <3>1. CASE UNCHANGED hostVars
      BY <3>1 DEF LeaseInv, LeasesFit, hostVars
    <3>2. CASE /\ ~Busy(DeploymentOf[Head(poll.todo)])
               /\ StartLoad(DeploymentOf[Head(poll.todo)])
      BY <2>1, <3>2, LoadKeeps DEF LeaseInv
    <3>3. QED
      BY <1>2, <3>1, <3>2 DEF PollLook
  <2>3. QED
    BY <2>1, <2>2 DEF LeaseInv, PlayersHold, PolledHolds, Undisturbed
<1>3. CASE PollTake
  <2>1. UNCHANGED <<loaded, leases, playing, releasing, strays>>
    BY <1>3 DEF PollTake, hostVars
  <2>2. ASSUME poll' = NoPoll PROVE PolledHolds'
    BY <2>2 DEF NoPoll, PolledHolds
  <2>3. ASSUME NEW r \in HostedRuns, r \in releasing \cup strays => "late" \in Mishaps,
               poll' = [poll EXCEPT !.phase = "acquire", !.run = r]
        PROVE  PolledHolds'
    <3>1. poll'.phase = "acquire" /\ poll'.run = r
      BY <2>3 DEF QueueInv, PollOK
    <3>2. Undisturbed(r)
      BY <2>3 DEF Undisturbed
    <3>3. QED
      BY <2>1, <3>1, <3>2 DEF PolledHolds, Undisturbed
  <2>4. PolledHolds'
    BY <1>3, <2>2, <2>3 DEF PollTake
  <2>5. QED
    BY <2>1, <2>4 DEF LeaseInv, LeasesFit, PlayersHold, Undisturbed
<1>4. CASE PollAcquire
  <2>1. /\ poll.run \in HostedRuns \ playing /\ Undisturbed(poll.run)
        /\ UNCHANGED <<playing, releasing>>
    BY <1>4 DEF PollAcquire, QueueInv, PollOK, HasRun, LeaseInv, PolledHolds, runVars
  <2>2. LeasesFit' /\ leases \ {poll.run} \subseteq leases'
    <3>1. CASE RequestLease(poll.run)
      BY <2>1, <3>1, RequestKeeps DEF LeaseInv
    <3>2. CASE UNCHANGED hostVars
      BY <3>2 DEF LeaseInv, LeasesFit, hostVars
    <3>3. QED
      BY <1>4, <3>1, <3>2 DEF PollAcquire
  <2>3. strays' \subseteq strays \cup {poll.run}
    BY <1>4 DEF PollAcquire
  <2>4. PlayersHold'
    BY <2>1, <2>2, <2>3 DEF LeaseInv, PlayersHold, Undisturbed
  <2>5. PolledHolds'
    BY <1>4, <2>1 DEF PollAcquire, PolledHolds, Undisturbed, QueueInv, PollOK
  <2>6. QED
    BY <2>2, <2>4, <2>5 DEF LeaseInv
<1>5. CASE PollRelease
  <2>1. poll.run \in HostedRuns \ playing
    BY <1>5 DEF PollRelease, QueueInv, PollOK, HasRun
  <2>2. /\ leases' \subseteq leases /\ leases \ {poll.run} \subseteq leases'
        /\ releasing' \subseteq releasing \cup {poll.run}
        /\ UNCHANGED <<loaded, playing, strays>>
    BY <1>5 DEF PollRelease, runVars
  <2>3. poll'.phase = "requeue"
    BY <1>5 DEF PollRelease, QueueInv, PollOK
  <2>4. QED
    BY <2>1, <2>2, <2>3 DEF LeaseInv, LeasesFit, PlayersHold, PolledHolds, Undisturbed
<1>6. CASE PollRequeue
  BY <1>6 DEF PollRequeue, NoPoll, hostVars, LeaseInv, LeasesFit, PlayersHold,
       PolledHolds, Undisturbed
<1>7. CASE PollReply
  BY <1>7 DEF PollReply, NoPoll, hostVars, LeaseInv, LeasesFit, PlayersHold,
       PolledHolds, Undisturbed
<1>8. QED
  BY <1>1, <1>2, <1>3, <1>4, <1>5, <1>6, <1>7 DEF PollStep

LEMMA LeaseInvHost ==
  ASSUME Mishaps = {}, LeaseInv, HostStep
  PROVE  LeaseInv'
<1>1. UNCHANGED <<loaded, leases, playing, releasing, strays, poll>>
  BY DEF HostStep, LoadReady, ProcessGone, ProcessUp, HostFails, HostRestart, runVars
<1>2. QED
  BY <1>1 DEF LeaseInv, LeasesFit, PlayersHold, PolledHolds, Undisturbed

LEMMA LeaseInvRun ==
  ASSUME QueueInv, LeaseInv, NEW r \in HostedRuns, RunStep(r)
  PROVE  LeaseInv'
<1>1. CASE SubmitHosted(r) \/ DeleteHosted(r) \/ RunnerDies(r) \/ ReapHosted(r)
  <2>1. /\ UNCHANGED <<loaded, leases, releasing, strays, poll>>
        /\ playing' \subseteq playing
    BY <1>1 DEF SubmitHosted, DeleteHosted, RunnerDies, ReapHosted, hostVars
  <2>2. QED
    BY <2>1 DEF LeaseInv, LeasesFit, PlayersHold, PolledHolds, Undisturbed
<1>2. CASE RunReports(r)
  <2>1. /\ UNCHANGED <<loaded, leases, strays, poll>>
        /\ releasing' = releasing \cup {r} /\ playing' = playing \ {r}
        /\ r \in playing
    BY <1>2 DEF RunReports, hostVars
  <2>2. poll.phase \in {"acquire", "reply"} => poll.run # r
    BY <2>1 DEF QueueInv, PollOK, HasRun
  <2>3. QED
    BY <2>1, <2>2 DEF LeaseInv, LeasesFit, PlayersHold, PolledHolds, Undisturbed
<1>3. CASE ReleaseArrives(r)
  <2>1. /\ r \in releasing /\ releasing' = releasing \ {r}
        /\ leases' \subseteq leases /\ leases \ {r} \subseteq leases'
        /\ UNCHANGED <<loaded, playing, strays, poll>>
    BY <1>3 DEF ReleaseArrives, runVars
  <2>2. QED
    BY <2>1 DEF LeaseInv, LeasesFit, PlayersHold, PolledHolds, Undisturbed
<1>4. CASE StrayAcquire(r)
  <2>1. /\ r \in strays /\ strays' = strays \ {r} /\ RequestLease(r)
        /\ UNCHANGED <<playing, releasing, poll>>
    BY <1>4 DEF StrayAcquire, runVars
  <2>2. LeasesFit' /\ leases \ {r} \subseteq leases'
    BY <2>1, RequestKeeps DEF LeaseInv
  <2>3. QED
    BY <2>1, <2>2 DEF LeaseInv, PlayersHold, PolledHolds, Undisturbed
<1>5. QED
  BY <1>1, <1>2, <1>3, <1>4 DEF RunStep

\* While no call arrives after its run was leased again, and the host does not
\* restart, a run that plays has its model on the host (requestLoad, handleLease).
THEOREM PlayedCorrect ==
  ASSUME Mishaps = {}
  PROVE  HostSpec => []PlayedIsLoaded
<1>1. HostInit => QueueInv /\ LeaseInv
  BY QueueInvInit DEF HostInit, NoPoll, LeaseInv, LeasesFit, PlayersHold, PolledHolds,
       Undisturbed
<1>2. QueueInv /\ LeaseInv /\ [HostNext]_hostedVars => QueueInv' /\ LeaseInv'
  <2>1. SUFFICES ASSUME QueueInv, LeaseInv, [HostNext]_hostedVars
                 PROVE  QueueInv' /\ LeaseInv'
    OBVIOUS
  <2>2. CASE UNCHANGED hostedVars
    BY <2>1, <2>2, QueueInvStep DEF hostedVars, LeaseInv, LeasesFit, PlayersHold,
         PolledHolds, Undisturbed
  <2>3. CASE HostNext
    BY <2>1, <2>3, QueueInvStep, LeaseInvPoll, LeaseInvHost, LeaseInvRun DEF HostNext
  <2>4. QED
    BY <2>1, <2>2, <2>3
<1>3. LeaseInv => PlayedIsLoaded
  BY DEF LeaseInv, LeasesFit, PlayersHold, PlayedIsLoaded
<1>4. QED
  BY <1>1, <1>2, <1>3, PTL DEF HostSpec

-----------------------------------------------------------------------------
(* Types.                                                                  *)

\* A run that is not at its end may still be played.
MayPlay == \A r \in HostedRuns : hosted[r] # "done" => plays[r] < MaxPlays[r]

\* prepareNextDeployment walks a copy of the queue, to its end.
TodoOK ==
  poll.todo \in Seq(HostedRuns) /\ (poll.phase = "look" => poll.todo # <<>>)

HostTyped == HostTypeOK /\ MayPlay /\ TodoOK /\ QueueInv

LEMMA FaultsBounded ==
  ASSUME hostFaults \in 0 .. MaxHostFaults, HostNoFault \/ HostFault
  PROVE  hostFaults' \in 0 .. MaxHostFaults
  BY HostAssumption DEF HostNoFault, HostFault

LEMMA StartLoadTyped ==
  ASSUME HostTypeOK, NEW d \in Deployments, StartLoad(d)
  PROVE  /\ loaded' \in Deployments
         /\ hostState' \in {"loading", "failed"}
         /\ server' \in {"none", "old"}
         /\ HostNoFault \/ HostFault
  BY DEF StartLoad

LEMMA RequestTyped ==
  ASSUME HostTypeOK, NEW r \in HostedRuns, RequestLease(r)
  PROVE  /\ loaded' \in Deployments \cup {NoDeployment}
         /\ hostState' \in {"idle", "loading", "ready", "failed"}
         /\ leases' \subseteq HostedRuns
         /\ server' \in {"none", "old", "new"}
         /\ HostNoFault \/ HostFault
<1>1. DeploymentOf[r] \in Deployments
  BY HostAssumption
<1>2. CASE UNCHANGED hostVars
  BY <1>2 DEF RequestLease, StartLoad, HostTypeOK, hostVars
<1>3. CASE leases' = leases \cup {r} /\ UNCHANGED <<loaded, hostState, server>> /\ HostNoFault
  BY <1>3 DEF HostTypeOK
<1>4. CASE /\ StartLoad(DeploymentOf[r])
           /\ leases' = IF hostState' = "failed" THEN leases \ {r} ELSE leases \cup {r}
  BY <1>1, <1>4, StartLoadTyped DEF HostTypeOK
<1>5. QED
  BY <1>2, <1>3, <1>4 DEF RequestLease

\* settleRun queues a run only while it may be played again.
LEMMA SettleTyped ==
  ASSUME HostTypeOK, MayPlay, NEW r \in HostedRuns, Out(r), SettleHosted(r)
  PROVE  /\ plays' \in [HostedRuns -> Nat]
         /\ \A x \in HostedRuns : plays'[x] <= MaxPlays[x]
         /\ MayPlay'
<1>1. /\ plays' = [plays EXCEPT ![r] = @ + 1] /\ plays[r] < MaxPlays[r]
      /\ MaxPlays[r] \in Nat /\ plays[r] \in Nat
  BY HostAssumption DEF SettleHosted, HostTypeOK, MayPlay, Out
<1>2. plays' \in [HostedRuns -> Nat] /\ plays'[r] <= MaxPlays[r]
  BY <1>1 DEF HostTypeOK
<1>3. \A x \in HostedRuns : x # r => plays'[x] = plays[x] /\ hosted'[x] = hosted[x]
  BY <1>1 DEF SettleHosted, HostTypeOK
<1>4. hosted'[r] # "done" => plays'[r] < MaxPlays[r]
  BY DEF SettleHosted, HostTypeOK
<1>5. QED
  BY <1>2, <1>3, <1>4 DEF HostTypeOK, MayPlay

LEMMA HostTypedPoll ==
  ASSUME HostTyped, PollStep
  PROVE  HostTypeOK' /\ MayPlay' /\ TodoOK'
<1>0. /\ HostTypeOK /\ MayPlay /\ TodoOK /\ QueueInv /\ PollOK
      /\ hostFaults \in 0 .. MaxHostFaults
      /\ waiting' \in Seq(HostedRuns)
      /\ hosted' \in [HostedRuns -> RunStates]
  BY QueueInvPoll DEF HostTyped, HostTypeOK, QueueInv, RunsOK, QueueOK
<1> USE DEF RunStates
<1>1. CASE PollBegin
  <2>1. hostFaults' \in 0 .. MaxHostFaults /\ leases' \subseteq HostedRuns
    BY <1>0, <1>1, FaultsBounded DEF PollBegin, HostTypeOK
  <2>2. TodoOK' /\ poll'.phase \in {"lease", "look"}
    BY <1>0, <1>1 DEF PollBegin, NoPoll, TodoOK, HostTypeOK
  <2>3. QED
    BY <1>0, <1>1, <2>1, <2>2 DEF PollBegin, runVars, HostTypeOK, MayPlay
<1>2. CASE PollLook
  <2> DEFINE r == Head(poll.todo)
  <2>1. /\ r \in HostedRuns /\ DeploymentOf[r] \in Deployments
        /\ Len(poll.todo) \in Nat \ {0}
        /\ Tail(poll.todo) \in Seq(HostedRuns)
        /\ Len(poll.todo) # 1 => Tail(poll.todo) # <<>>
    <3>1. poll.todo \in Seq(HostedRuns) /\ poll.todo # <<>>
      BY <1>0, <1>2 DEF PollLook, TodoOK
    <3>2. /\ r \in HostedRuns
          /\ Tail(poll.todo) \in Seq(HostedRuns)
          /\ Len(Tail(poll.todo)) = Len(poll.todo) - 1
      BY <3>1, HeadTailProperties
    <3>3. Len(poll.todo) \in Nat \ {0}
      BY <3>1, LenProperties, EmptySeq
    <3>4. ASSUME Tail(poll.todo) = <<>>
          PROVE  Len(poll.todo) = 1
      <4>1. Len(Tail(poll.todo)) = 0
        BY <3>4, EmptySeq
      <4>2. QED
        BY <3>2, <3>3, <4>1
    <3>5. QED
      BY <3>2, <3>3, <3>4, HostAssumption
  <2>2. NextLook => TodoOK' /\ poll'.phase \in {"idle", "look"}
    BY <1>0, <1>2, <2>1 DEF PollLook, NextLook, TodoOK, PollOK, NoPoll
  <2>3. TodoOK' /\ poll'.phase \in {"idle", "look", "lease"}
    <3>1. CASE poll' = [NoPoll EXCEPT !.phase = "lease"]
      BY <3>1 DEF NoPoll, TodoOK
    <3>2. QED
      BY <1>2, <2>2, <3>1 DEF PollLook
  <2> HIDE DEF r
  <2>4. CASE UNCHANGED hostVars /\ (HostNoFault \/ HostFault)
    <3>1. hostFaults' \in 0 .. MaxHostFaults
      BY <1>0, <2>4, FaultsBounded
    <3>2. QED
      BY <1>0, <1>2, <2>3, <2>4, <3>1 DEF PollLook, hostVars, HostTypeOK, MayPlay
  <2>5. CASE StartLoad(DeploymentOf[r]) /\ UNCHANGED leases
    <3>1. hostFaults' \in 0 .. MaxHostFaults
      BY <1>0, <2>5, FaultsBounded DEF StartLoad
    <3>2. /\ loaded' \in Deployments
          /\ hostState' \in {"loading", "failed"}
          /\ server' \in {"none", "old"}
      BY <1>0, <2>1, <2>5, StartLoadTyped
    <3>3. QED
      BY <1>0, <1>2, <2>3, <2>5, <3>1, <3>2 DEF PollLook, HostTypeOK, MayPlay
  <2>6. QED
    BY <1>2, <2>4, <2>5 DEF PollLook, r
<1>3. CASE PollTake
  <2>1. hostFaults' \in 0 .. MaxHostFaults
    BY <1>0, <1>3, FaultsBounded DEF PollTake
  <2>2. TodoOK' /\ poll'.phase \in {"idle", "acquire"}
    <3>1. CASE poll' = NoPoll
      BY <3>1 DEF NoPoll, TodoOK
    <3>2. ASSUME NEW r \in HostedRuns,
                 poll' = [poll EXCEPT !.phase = "acquire", !.run = r]
          PROVE  TodoOK' /\ poll'.phase = "acquire"
      <4>1. poll' = [phase |-> "acquire", todo |-> poll.todo, run |-> r]
        BY <1>0, <3>2 DEF PollOK
      <4>2. QED
        BY <1>0, <4>1 DEF TodoOK
    <3>3. QED
      BY <1>3, <3>1, <3>2 DEF PollTake
  <2>3. MayPlay'
    <3>1. \A x \in HostedRuns : hosted'[x] = hosted[x] \/ hosted[x] = "queued"
      <4>1. ASSUME NEW r \in HostedRuns, Leaves(r), hosted' = [hosted EXCEPT ![r] = "out"]
            PROVE  \A x \in HostedRuns : hosted'[x] = hosted[x] \/ hosted[x] = "queued"
        BY <1>0, <4>1, LeavesOK DEF QueueInv, RunsOK, HostTypeOK
      <4>2. QED
        BY <1>3, <4>1 DEF PollTake
    <3>2. UNCHANGED plays
      BY <1>3 DEF PollTake
    <3>3. QED
      BY <1>0, <3>1, <3>2 DEF MayPlay
  <2>4. QED
    BY <1>0, <1>3, <2>1, <2>2, <2>3 DEF PollTake, hostVars, HostTypeOK
<1>4. CASE PollAcquire
  <2>1. poll.run \in HostedRuns /\ strays' \subseteq HostedRuns
    BY <1>0, <1>4 DEF PollAcquire, PollOK, HasRun, QueueInv
  <2>2. /\ loaded' \in Deployments \cup {NoDeployment}
        /\ hostState' \in {"idle", "loading", "ready", "failed"}
        /\ leases' \subseteq HostedRuns
        /\ server' \in {"none", "old", "new"}
        /\ HostNoFault \/ HostFault
    <3>1. CASE RequestLease(poll.run)
      BY <1>0, <2>1, <3>1, RequestTyped
    <3>2. CASE UNCHANGED hostVars /\ HostFault
      BY <1>0, <3>2 DEF hostVars, HostTypeOK
    <3>3. QED
      BY <1>4, <3>1, <3>2 DEF PollAcquire
  <2>3. hostFaults' \in 0 .. MaxHostFaults
    BY <1>0, <2>2, FaultsBounded
  <2>4. TodoOK' /\ poll'.phase \in {"reply", "release", "requeue"}
    BY <1>0, <1>4 DEF PollAcquire, PollOK, TodoOK
  <2>5. QED
    BY <1>0, <1>4, <2>1, <2>2, <2>3, <2>4 DEF PollAcquire, runVars, HostTypeOK, MayPlay
<1>5. CASE PollRelease
  <2>1. hostFaults' \in 0 .. MaxHostFaults
    BY <1>0, <1>5, FaultsBounded DEF PollRelease
  <2>2. leases' \subseteq HostedRuns /\ releasing' \subseteq HostedRuns
    BY <1>0, <1>5 DEF PollRelease, PollOK, HasRun, HostTypeOK
  <2>3. TodoOK' /\ poll'.phase = "requeue"
    BY <1>0, <1>5 DEF PollRelease, PollOK, TodoOK
  <2>4. QED
    BY <1>0, <1>5, <2>1, <2>2, <2>3 DEF PollRelease, runVars, HostTypeOK, MayPlay
<1>6. CASE PollRequeue
  <2>1. TodoOK' /\ poll'.phase = "idle"
    BY <1>6 DEF PollRequeue, NoPoll, TodoOK
  <2>2. MayPlay'
    BY <1>0, <1>6 DEF PollRequeue, Requeues, Out, HostTypeOK, MayPlay
  <2>3. QED
    BY <1>0, <1>6, <2>1, <2>2 DEF PollRequeue, hostVars, HostTypeOK
<1>7. CASE PollReply
  <2>1. hostFaults' \in 0 .. MaxHostFaults
    BY <1>0, <1>7, FaultsBounded DEF PollReply
  <2>2. TodoOK' /\ poll'.phase = "idle"
    BY <1>7 DEF PollReply, NoPoll, TodoOK
  <2>3. playing' \subseteq HostedRuns
    BY <1>0, <1>7 DEF PollReply, PollOK, HasRun, HostTypeOK
  <2>4. QED
    BY <1>0, <1>7, <2>1, <2>2, <2>3 DEF PollReply, hostVars, HostTypeOK, MayPlay
<1>8. QED
  BY <1>1, <1>2, <1>3, <1>4, <1>5, <1>6, <1>7 DEF PollStep

LEMMA HostTypedHost ==
  ASSUME HostTyped, HostStep
  PROVE  HostTypeOK' /\ MayPlay' /\ TodoOK'
<1>1. HostTypeOK /\ MayPlay /\ TodoOK /\ hostFaults \in 0 .. MaxHostFaults
  BY DEF HostTyped, HostTypeOK
<1>2. /\ UNCHANGED <<runVars, poll, releasing, strays>>
      /\ hostFaults' = hostFaults \/ HostFault
  BY DEF HostStep, LoadReady, ProcessGone, ProcessUp, HostFails, HostRestart
<1>3. hostFaults' \in 0 .. MaxHostFaults
  BY <1>1, <1>2, FaultsBounded DEF HostNoFault
<1>4. /\ loaded' \in Deployments \cup {NoDeployment}
      /\ hostState' \in {"idle", "loading", "ready", "failed"}
      /\ leases' \subseteq HostedRuns
      /\ server' \in {"none", "old", "new"}
  BY <1>1 DEF HostStep, LoadReady, ProcessGone, ProcessUp, HostFails, HostRestart,
              HostTypeOK
<1>5. QED
  BY <1>1, <1>2, <1>3, <1>4 DEF HostTypeOK, MayPlay, TodoOK, runVars

LEMMA HostTypedRun ==
  ASSUME HostTyped, NEW r \in HostedRuns, RunStep(r)
  PROVE  HostTypeOK' /\ MayPlay' /\ TodoOK'
<1>0. /\ HostTypeOK /\ MayPlay /\ TodoOK /\ QueueInv /\ RunsOK
      /\ hostFaults \in 0 .. MaxHostFaults
      /\ waiting' \in Seq(HostedRuns)
      /\ hosted' \in [HostedRuns -> RunStates]
  BY QueueInvRun DEF HostTyped, HostTypeOK, QueueInv, RunsOK, QueueOK
<1> USE DEF RunStates
<1>1. CASE SubmitHosted(r)
  <2>1. MayPlay'
    BY <1>0, <1>1 DEF SubmitHosted, HostTypeOK, MayPlay
  <2>2. QED
    BY <1>0, <1>1, <2>1 DEF SubmitHosted, hostVars, HostTypeOK, TodoOK
<1>2. CASE DeleteHosted(r)
  <2>1. MayPlay'
    BY <1>0, <1>2 DEF DeleteHosted, HostTypeOK, MayPlay
  <2>2. QED
    BY <1>0, <1>2, <2>1 DEF DeleteHosted, hostVars, HostTypeOK, TodoOK
<1>3. CASE RunReports(r) \/ ReapHosted(r)
  <2>1. Out(r) /\ SettleHosted(r)
    BY <1>0, <1>3 DEF RunReports, ReapHosted, RunsOK, Out
  <2>2. /\ plays' \in [HostedRuns -> Nat]
        /\ \A x \in HostedRuns : plays'[x] <= MaxPlays[x]
        /\ MayPlay'
    BY <1>0, <2>1, SettleTyped
  <2>3. /\ playing' \subseteq HostedRuns /\ releasing' \subseteq HostedRuns
        /\ UNCHANGED <<hostVars, poll, strays, hostFaults>>
    BY <1>0, <1>3 DEF RunReports, ReapHosted, HostTypeOK
  <2>4. QED
    BY <1>0, <2>2, <2>3 DEF hostVars, HostTypeOK, TodoOK
<1>4. CASE RunnerDies(r)
  <2>1. hostFaults' \in 0 .. MaxHostFaults
    BY <1>0, <1>4, FaultsBounded DEF RunnerDies
  <2>2. QED
    BY <1>0, <1>4, <2>1 DEF RunnerDies, hostVars, HostTypeOK, MayPlay, TodoOK
<1>5. CASE ReleaseArrives(r)
  <2>1. hostFaults' \in 0 .. MaxHostFaults
    BY <1>0, <1>5, FaultsBounded DEF ReleaseArrives
  <2>2. leases' \subseteq HostedRuns /\ releasing' \subseteq HostedRuns
    BY <1>0, <1>5 DEF ReleaseArrives, HostTypeOK
  <2>3. QED
    BY <1>0, <1>5, <2>1, <2>2 DEF ReleaseArrives, runVars, HostTypeOK, MayPlay, TodoOK
<1>6. CASE StrayAcquire(r)
  <2>1. /\ loaded' \in Deployments \cup {NoDeployment}
        /\ hostState' \in {"idle", "loading", "ready", "failed"}
        /\ leases' \subseteq HostedRuns
        /\ server' \in {"none", "old", "new"}
        /\ HostNoFault \/ HostFault
    BY <1>0, <1>6, RequestTyped DEF StrayAcquire
  <2>2. hostFaults' \in 0 .. MaxHostFaults
    BY <1>0, <2>1, FaultsBounded
  <2>3. QED
    BY <1>0, <1>6, <2>1, <2>2 DEF StrayAcquire, runVars, HostTypeOK, MayPlay, TodoOK
<1>7. QED
  BY <1>1, <1>2, <1>3, <1>4, <1>5, <1>6 DEF RunStep

\* Whatever is lost, late or restarted, every variable keeps its type, and a run
\* that was settled for good is not settled again.
THEOREM HostTypeCorrect == HostSpec => []HostTypeOK
<1>1. HostInit => HostTyped
  <2> SUFFICES ASSUME HostInit
               PROVE  HostTypeOK /\ MayPlay /\ TodoOK
    BY QueueInvInit DEF HostTyped
  <2>1. \A r \in HostedRuns : MaxPlays[r] \in Nat \ {0}
    BY HostAssumption
  <2>2. waiting \in Seq(HostedRuns) /\ <<>> \in Seq(HostedRuns)
    BY EmptySeq DEF HostInit
  <2>3. hostFaults \in 0 .. MaxHostFaults
    BY HostAssumption DEF HostInit
  <2>4. QED
    BY <2>1, <2>2, <2>3 DEF HostInit, HostTypeOK, MayPlay, TodoOK, NoPoll
<1>2. HostTyped /\ [HostNext]_hostedVars => HostTyped'
  <2> SUFFICES ASSUME HostTyped, [HostNext]_hostedVars
               PROVE  HostTypeOK' /\ MayPlay' /\ TodoOK'
    BY QueueInvStep DEF HostTyped
  <2>1. CASE UNCHANGED hostedVars
    BY <2>1 DEF HostTyped, HostTypeOK, MayPlay, TodoOK, hostedVars
  <2>2. QED
    BY <2>1, HostTypedPoll, HostTypedHost, HostTypedRun DEF HostNext
<1>3. HostTyped => HostTypeOK
  BY DEF HostTyped
<1>4. QED
  BY <1>1, <1>2, <1>3, PTL DEF HostSpec

=============================================================================
