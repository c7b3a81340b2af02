--------------------------- MODULE ServicesProofs ---------------------------
(***************************************************************************)
(* Theorems about IssueDelivery, for every set of occurrences and any       *)
(* number of failures and triages, and about ChallengeProgram, for every    *)
(* set of slots, votes and challenges and any number of launches and        *)
(* faults; and the types of all the services together.                      *)
(***************************************************************************)
EXTENDS Services, RenderProofs, PublishProofs, ModelHostProofs, FiniteSetTheorems

-----------------------------------------------------------------------------
(* One issue at most.                                                      *)

Single == issues = <<>> \/ \E s \in IssueStates : issues = <<s>>

LEMMA OneNumber ==
  ASSUME NEW s
  PROVE  DOMAIN <<s>> = {1} /\ Newest({1}) = 1 /\ <<s>>[1] = s
  BY DEF Newest

LEMMA ReceivedOne ==
  ASSUME Single, NEW o
  PROVE  \E s \in IssueStates : Received(o) = <<s>>
<1>1. CASE issues = <<>>
  <2>1. Found = {}
    BY <1>1 DEF Found
  <2>2. Received(o) = <<"open">>
    BY <1>1, <2>1 DEF Received
  <2>3. QED
    BY <2>2 DEF IssueStates
<1>2. ASSUME NEW s \in IssueStates, issues = <<s>>
      PROVE  \E t \in IssueStates : Received(o) = <<t>>
  <2>1. Found = {1} /\ Newest(Found) = 1
    BY <1>2, OneNumber DEF Found
  <2>2. [issues EXCEPT ![1] = "open"] = <<"open">>
    BY <1>2
  <2>3. Received(o) = <<"open">> \/ Received(o) = <<s>>
    BY <1>2, <2>1, <2>2 DEF Received
  <2>4. QED
    BY <2>3 DEF IssueStates
<1>3. QED
  BY <1>1, <1>2 DEF Single

\* A report is received, a maintainer changes the issue, or nothing happens to
\* it.
LEMMA IssuesEffect ==
  ASSUME [IssueNext]_issueVars
  PROVE  UNCHANGED issues \/ (\E o : issues' = Received(o)) \/ \E s \in IssueStates : Triage(s)
<1>1. ASSUME ReportIssue
      PROVE  UNCHANGED issues \/ \E o : issues' = Received(o)
  BY <1>1 DEF ReportIssue
<1>2. CASE DeliveryStep
  BY <1>1, <1>2 DEF DeliveryStep, LoadBatch, Deliver, LinkIssue, MarkRow, PersistDelivery
<1>3. CASE UNCHANGED issueVars
  BY <1>3 DEF issueVars
<1>4. QED
  BY <1>2, <1>3
  DEF IssueNext, Occur, IssueSweep, SyncFetch, SyncApply, InvestigateRead,
      InvestigateWrite, DismissCheck, DismissCommit, IssueRestart

LEMMA SingleStep ==
  ASSUME Single, [IssueNext]_issueVars
  PROVE  Single' /\ (issues # <<>> => issues' # <<>>)
<1>1. CASE UNCHANGED issues
  BY <1>1 DEF Single
<1>2. ASSUME NEW o, issues' = Received(o)
      PROVE  Single' /\ issues' # <<>>
  BY <1>2, ReceivedOne DEF Single
<1>3. ASSUME NEW s \in IssueStates, Triage(s)
      PROVE  Single' /\ issues' # <<>>
  <2>1. PICK t \in IssueStates : issues = <<t>>
    BY <1>3 DEF Triage, Single
  <2>2. issues' = [issues EXCEPT ![1] = s]
    BY <1>3, <2>1, OneNumber DEF Triage
  <2>3. issues' = <<s>>
    BY <2>1, <2>2
  <2>4. QED
    BY <2>3 DEF Single
<1>4. QED
  BY <1>1, <1>2, <1>3, IssuesEffect

LEMMA AlwaysSingle == IssueSpec => []Single
<1>1. IssueInit => Single
  BY DEF IssueInit, Single
<1>2. QED
  BY <1>1, SingleStep, PTL DEF IssueSpec

\* A failure family never has two issues: a delivery whose answer, row or link
\* was lost finds the issue again.
THEOREM FamilyHasOneIssue == IssueSpec => []OneIssuePerFamily
<1>1. Single => OneIssuePerFamily
  <2>1. ASSUME issues = <<>>
        PROVE  OneIssuePerFamily
    BY <2>1 DEF OneIssuePerFamily
  <2>2. ASSUME NEW s, issues = <<s>>
        PROVE  OneIssuePerFamily
    BY <2>2 DEF OneIssuePerFamily
  <2>3. QED
    BY <2>1, <2>2 DEF Single
<1>2. QED
  BY <1>1, AlwaysSingle, PTL

-----------------------------------------------------------------------------
(* Type correctness, and that what was told is true.  Each needs the other:*)
(* the status sync reads the issue of a family that is linked.             *)

Rows == [Occurrences -> {"none", "pending", "complete", "error", "dismissed"}]
Outboxes == [Occurrences -> {"none", "complete", "quarantined", "error"}]
Deliveries ==
  [item : Occurrences \cup {NoOccurrence},
   phase : {"idle", "report", "link", "mark", "persist"},
   answer : {"", "open", "resolved"}, result : {"", "pending", "complete", "error"}]

DeliveryOK ==
  /\ delivery \in Deliveries /\ batch \subseteq Occurrences
  /\ delivery.phase = "link" => delivery.answer # ""
  /\ delivery.phase = "mark" => delivery.result # ""

LinksOK ==
  /\ link \in Links /\ asked \in Links
  /\ fetched \in {""} \cup IssueStates /\ dismissing \in BOOLEAN

StoredOK == row \in Rows /\ outbox \in Outboxes /\ savedIssue \in [link : Links, outbox : Outboxes]

CountsOK == triage \in 0 .. MaxTriage /\ issueFaults \in 0 .. MaxIssueFaults

IssueTyped == DeliveryOK /\ LinksOK /\ StoredOK /\ CountsOK

\* Everything that is on its way to the link or to a row, too.
Told ==
  link.linked \/ savedIssue.link.linked \/ asked.linked \/ fetched # ""
    \/ delivery.phase = "link" \/ delivery.result = "complete"
    \/ (\E o \in Occurrences : row[o] = "complete")
  => issues # <<>>

LEMMA CountsStep ==
  ASSUME CountsOK, [IssueNext]_issueVars
  PROVE  CountsOK'
<1>1. ASSUME UNCHANGED triage, IssueFault \/ UNCHANGED issueFaults
      PROVE  CountsOK'
  BY <1>1, IssueAssumption DEF CountsOK, IssueFault
<1>2. CASE DeliveryStep
  BY <1>1, <1>2
  DEF DeliveryStep, LoadBatch, Deliver, ReportIssue, LinkIssue, MarkRow,
      PersistDelivery, IssueNoFault
<1>3. ASSUME NEW s, Triage(s)
      PROVE  CountsOK'
  BY <1>3, IssueAssumption DEF CountsOK, Triage
<1>4. CASE UNCHANGED issueVars
  BY <1>1, <1>4 DEF issueVars
<1>5. QED
  BY <1>1, <1>2, <1>3, <1>4
  DEF IssueNext, Occur, IssueSweep, SyncFetch, SyncApply, InvestigateRead,
      InvestigateWrite, DismissCheck, DismissCommit, IssueRestart

\* The delivery under way.
LEMMA DeliveryTypeStep ==
  ASSUME DeliveryOK, [IssueNext]_issueVars
  PROVE  DeliveryOK'
<1>2. ASSUME UNCHANGED <<delivery, batch>>
      PROVE  DeliveryOK'
  BY <1>2 DEF DeliveryOK
<1>3. CASE LoadBatch
  BY <1>3 DEF LoadBatch, DeliveryOK
<1>4. ASSUME NEW o \in Occurrences, Deliver(o)
      PROVE  DeliveryOK'
  <2>1. \E p \in {"mark", "report"}, r \in {"", "pending", "complete"} :
          /\ delivery' = [NoDelivery EXCEPT !.item = o, !.phase = p, !.result = r]
          /\ p = "mark" => r # ""
    BY <1>4 DEF Deliver
  <2>2. batch' \subseteq batch
    BY <1>4 DEF Deliver
  <2>3. QED
    BY <2>1, <2>2 DEF NoDelivery, DeliveryOK, Deliveries
<1>5. ASSUME NEW p \in {"link", "mark", "persist"}, NEW a \in {"", "open", "resolved"},
             NEW r \in {"", "pending", "complete", "error"}, Then(p, a, r),
             p = "link" => a # "", p = "mark" => r # "", UNCHANGED batch
      PROVE  DeliveryOK'
  BY <1>5 DEF Then, DeliveryOK, Deliveries
<1>6. CASE ReportIssue
  <2>1. \A s : StatusOf(s) \in {"open", "resolved"}
    BY DEF StatusOf
  <2>2. \/ \E a \in {"open", "resolved"} : Then("link", a, "")
        \/ \E r \in {"pending", "error"} : Then("mark", "", r)
    BY <1>6, <2>1 DEF ReportIssue, FailedStatus
  <2>3. QED
    BY <1>5, <1>6, <2>2 DEF ReportIssue
<1>7. CASE LinkIssue \/ MarkRow
  BY <1>5, <1>7 DEF LinkIssue, MarkRow
<1>8. CASE PersistDelivery
  BY <1>8 DEF PersistDelivery, NoDelivery, DeliveryOK, Deliveries
<1>9. CASE IssueRestart
  BY <1>9 DEF IssueRestart, NoDelivery, DeliveryOK, Deliveries
<1>10. CASE UNCHANGED issueVars
  BY <1>2, <1>10 DEF issueVars
<1>11. QED
  BY <1>2, <1>3, <1>4, <1>6, <1>7, <1>8, <1>9, <1>10
  DEF IssueNext, DeliveryStep, Occur, IssueSweep, SyncFetch, SyncApply, InvestigateRead,
      InvestigateWrite, DismissCheck, DismissCommit, Triage

LEMMA LinkRecords ==
  ASSUME NEW l \in Links
  PROVE  /\ l.linked \in BOOLEAN
         /\ \A st \in LinkStatus :
              /\ [l EXCEPT !.linked = TRUE, !.status = st] \in Links
              /\ [l EXCEPT !.linked = TRUE, !.status = st].linked
              /\ l # NoLink => [l EXCEPT !.status = st] \in Links
                                 /\ [l EXCEPT !.status = st].linked /\ l.linked
<1>1. CASE l = NoLink
  BY <1>1 DEF Links, NoLink, Resolutions
<1>2. CASE l \in [linked : {TRUE}, status : LinkStatus, resolution : Resolutions]
  BY <1>2 DEF Links
<1>3. QED
  BY <1>1, <1>2 DEF Links

LEMMA LinksTypeStep ==
  ASSUME LinksOK, DeliveryOK, StoredOK, Single, Told, [IssueNext]_issueVars
  PROVE  LinksOK'
<1>1. ASSUME UNCHANGED <<link, sideVars>>
      PROVE  LinksOK'
  BY <1>1 DEF LinksOK, sideVars
<1>2. CASE LinkIssue
  <2>1. delivery.answer \in LinkStatus
    BY <1>2 DEF LinkIssue, Reporting, DeliveryOK, Deliveries, LinkStatus
  <2>2. link' \in Links
    BY <1>2, <2>1, LinkRecords DEF LinkIssue, LinksOK
  <2>3. QED
    BY <1>2, <2>2 DEF LinkIssue, LinksOK, sideVars
<1>3. CASE SyncFetch
  <2>1. PICK s \in IssueStates : issues = <<s>>
    BY <1>3 DEF SyncFetch, Told, Single
  <2>2. fetched' = s
    BY <1>3, <2>1, OneNumber DEF SyncFetch
  <2>3. QED
    BY <1>3, <2>2 DEF SyncFetch, LinksOK, issueMemory
<1>4. CASE SyncApply
  <2>1. link' \in Links
    BY <1>4 DEF SyncApply, LinksOK, IssueStates, StatusOf, Links, LinkStatus, Resolutions
  <2>2. QED
    BY <1>4, <2>1 DEF SyncApply, LinksOK
<1>5. CASE InvestigateRead
  BY <1>5 DEF InvestigateRead, LinksOK, issueMemory
<1>6. CASE InvestigateWrite
  <2>1. link' \in Links
    BY <1>6, LinkRecords DEF InvestigateWrite, LinksOK, LinkStatus
  <2>2. NoLink \in Links
    BY DEF Links
  <2>3. QED
    BY <1>6, <2>1, <2>2 DEF InvestigateWrite, LinksOK
<1>7. CASE DismissCheck \/ DismissCommit
  BY <1>7 DEF DismissCheck, DismissCommit, LinksOK, issueMemory
<1>8. CASE IssueRestart
  BY <1>8 DEF IssueRestart, LinksOK, StoredOK, Links
<1>9. CASE LoadBatch \/ ReportIssue \/ MarkRow \/ PersistDelivery \/ IssueSweep
           \/ (\E o \in Occurrences : Occur(o) \/ Deliver(o))
           \/ (\E s \in IssueStates : Triage(s))
  BY <1>1, <1>9
  DEF LoadBatch, ReportIssue, MarkRow, PersistDelivery, IssueSweep, Occur, Deliver, Triage,
      issueMemory
<1>10. CASE UNCHANGED issueVars
  BY <1>1, <1>10 DEF issueVars, issueMemory
<1>11. QED
  BY <1>2, <1>3, <1>4, <1>5, <1>6, <1>7, <1>8, <1>9, <1>10 DEF IssueNext, DeliveryStep

LEMMA StoredTypeStep ==
  ASSUME LinksOK, DeliveryOK, StoredOK, [IssueNext]_issueVars
  PROVE  StoredOK'
<1> USE DEF StoredOK, Rows, Outboxes
<1>1. ASSUME UNCHANGED <<row, outbox, savedIssue>>
      PROVE  StoredOK'
  BY <1>1
<1>2. ASSUME NEW o \in Occurrences, Occur(o)
      PROVE  StoredOK'
  BY <1>2 DEF Occur, issueMemory
<1>3. ASSUME NEW o \in Occurrences, Deliver(o)
      PROVE  StoredOK'
  <2>1. UNCHANGED outbox \/ outbox' = [outbox EXCEPT ![o] = "quarantined"]
    BY <1>3 DEF Deliver
  <2>2. UNCHANGED <<row, savedIssue>>
    BY <1>3 DEF Deliver
  <2>3. QED
    BY <2>1, <2>2
<1>4. CASE ReportIssue
  <2>1. UNCHANGED outbox \/ outbox' = [outbox EXCEPT ![delivery.item] = "error"]
    BY <1>4 DEF ReportIssue
  <2>2. UNCHANGED <<row, savedIssue>>
    BY <1>4 DEF ReportIssue
  <2>3. QED
    BY <2>1, <2>2
<1>5. CASE LinkIssue
  BY <1>5 DEF LinkIssue
<1>6. CASE MarkRow
  <2>1. delivery.result \in {"pending", "complete", "error"}
    BY <1>6 DEF MarkRow, Reporting, DeliveryOK, Deliveries
  <2>2. row' = [row EXCEPT ![delivery.item] = delivery.result] \/ UNCHANGED row
    BY <1>6 DEF MarkRow
  <2>3. UNCHANGED <<outbox, savedIssue>>
    BY <1>6 DEF MarkRow, issueMemory
  <2>4. QED
    BY <2>1, <2>2, <2>3
<1>7. ASSUME savedIssue' = Current \/ UNCHANGED savedIssue, UNCHANGED <<row, outbox>>
      PROVE  StoredOK'
  <2>1. Current \in [link : Links, outbox : Outboxes]
    BY DEF Current, LinksOK
  <2>2. QED
    BY <1>7, <2>1
<1>8. CASE PersistDelivery \/ IssueSweep
  BY <1>7, <1>8 DEF PersistDelivery, IssueSweep, issueMemory
<1>9. CASE DismissCommit
  BY <1>9 DEF DismissCommit, issueMemory
<1>10. CASE IssueRestart
  BY <1>10 DEF IssueRestart
<1>11. CASE LoadBatch \/ SyncFetch \/ SyncApply \/ InvestigateRead \/ InvestigateWrite
            \/ DismissCheck \/ (\E s \in IssueStates : Triage(s))
  BY <1>1, <1>11
  DEF LoadBatch, SyncFetch, SyncApply, InvestigateRead, InvestigateWrite, DismissCheck,
      Triage, issueMemory
<1>12. CASE UNCHANGED issueVars
  BY <1>1, <1>12 DEF issueVars, issueMemory
<1>13. QED
  BY <1>2, <1>3, <1>4, <1>5, <1>6, <1>8, <1>9, <1>10, <1>11, <1>12
  DEF IssueNext, DeliveryStep

\* What the hypothesis of Told consists of.
Tellers ==
  link.linked \/ savedIssue.link.linked \/ asked.linked \/ fetched # ""
    \/ delivery.phase = "link" \/ delivery.result = "complete"
    \/ (\E o \in Occurrences : row[o] = "complete")

\* No step tells what was not told, but the report that has made the issue.
LEMMA ToldStep ==
  ASSUME IssueTyped, Single, Told, [IssueNext]_issueVars
  PROVE  Told'
<1> USE DEF IssueTyped
<1>1. ASSUME Tellers' => Tellers
      PROVE  Told'
  BY <1>1, SingleStep DEF Told, Tellers
<1>2. CASE LoadBatch \/ DismissCheck \/ (\E o \in Occurrences : Occur(o))
           \/ (\E s \in IssueStates : Triage(s))
  BY <1>1, <1>2
  DEF LoadBatch, DismissCheck, Occur, Triage, issueMemory, sideVars, Tellers, StoredOK, Rows
<1>3. ASSUME NEW o \in Occurrences, Deliver(o)
      PROVE  Told'
  <2>1. UNCHANGED <<row, link, savedIssue, sideVars>>
    BY <1>3 DEF Deliver
  <2>2. delivery'.phase # "link"
    BY <1>3 DEF Deliver, NoDelivery
  <2>3. delivery'.result = "complete" => link.linked
    BY <1>3 DEF Deliver, NoDelivery, Delivered, Quarantines
  <2>4. QED
    BY <1>1, <2>1, <2>2, <2>3 DEF Tellers, sideVars
<1>4. CASE ReportIssue
  <2>1. UNCHANGED <<row, link, savedIssue, sideVars>>
    BY <1>4 DEF ReportIssue
  <2>2. CASE issues' = Received(delivery.item)
    <3>1. PICK s : issues' = <<s>>
      BY <2>2, ReceivedOne
    <3>2. QED
      BY <3>1 DEF Told
  <2>3. CASE issues' # Received(delivery.item)
    <3>1. \E r \in {"pending", "error"} : Then("mark", "", r)
      BY <1>4, <2>3 DEF ReportIssue, FailedStatus
    <3>2. delivery'.phase = "mark" /\ delivery'.result \in {"pending", "error"}
      BY <3>1 DEF Then, DeliveryOK, Deliveries
    <3>3. QED
      BY <1>1, <2>1, <3>2 DEF Tellers, sideVars
  <2>4. QED
    BY <2>2, <2>3
<1>5. CASE LinkIssue
  <2>1. delivery.phase = "link"
    BY <1>5 DEF LinkIssue, Reporting
  <2>2. QED
    BY <1>1, <2>1 DEF Tellers
<1>6. CASE MarkRow
  <2>1. UNCHANGED <<link, savedIssue, sideVars>>
    BY <1>6 DEF MarkRow, issueMemory
  <2>2. delivery'.phase = "persist" /\ delivery'.result = ""
    BY <1>6 DEF MarkRow, Then, DeliveryOK, Deliveries
  <2>3. ASSUME NEW o \in Occurrences, row'[o] = "complete"
        PROVE  row[o] = "complete" \/ delivery.result = "complete"
    BY <1>6, <2>3 DEF MarkRow, StoredOK, Rows
  <2>4. QED
    BY <1>1, <2>1, <2>2, <2>3 DEF Tellers, sideVars
<1>7. CASE PersistDelivery \/ IssueSweep
  <2>1. savedIssue'.link.linked => savedIssue.link.linked \/ link.linked
    BY <1>7 DEF PersistDelivery, IssueSweep, Current
  <2>2. delivery' = delivery \/ delivery' = NoDelivery
    BY <1>7 DEF PersistDelivery, IssueSweep
  <2>3. UNCHANGED <<row, link, sideVars>>
    BY <1>7 DEF PersistDelivery, IssueSweep, issueMemory
  <2>4. /\ delivery'.phase = "link" => delivery.phase = "link"
        /\ delivery'.result = "complete" => delivery.result = "complete"
    <3>1. NoDelivery.phase = "idle" /\ NoDelivery.result = ""
      BY DEF NoDelivery
    <3>2. "idle" # "link" /\ "" # "complete"
      OBVIOUS
    <3>3. QED
      BY <2>2, <3>1, <3>2
  <2>5. QED
    BY <1>1, <2>1, <2>3, <2>4 DEF Tellers, sideVars
<1>8. CASE SyncFetch \/ InvestigateRead
  <2>1. link.linked
    BY <1>8 DEF SyncFetch, InvestigateRead
  <2>2. QED
    BY <1>1, <2>1 DEF Tellers
<1>9. CASE SyncApply
  <2>1. fetched # ""
    BY <1>9 DEF SyncApply
  <2>2. QED
    BY <1>1, <2>1 DEF Tellers
<1>10. CASE InvestigateWrite
  <2>1. asked.linked
    <3>1. "investigating" \in LinkStatus
      BY DEF LinkStatus
    <3>2. QED
      BY <1>10, <3>1, LinkRecords DEF InvestigateWrite, LinksOK
  <2>2. QED
    BY <1>1, <2>1 DEF Tellers
<1>11. CASE DismissCommit
  <2>1. UNCHANGED <<link, savedIssue, delivery, fetched, asked>>
    BY <1>11 DEF DismissCommit, issueMemory
  <2>2. \A o \in Occurrences : row'[o] = "complete" => row[o] = "complete"
    BY <1>11 DEF DismissCommit
  <2>3. QED
    BY <1>1, <2>1, <2>2 DEF Tellers
<1>12. CASE IssueRestart
  <2>1. /\ link' = savedIssue.link /\ UNCHANGED savedIssue
        /\ fetched' = "" /\ asked' = NoLink /\ delivery' = NoDelivery
    BY <1>12 DEF IssueRestart
  <2>2. \A o \in Occurrences : row'[o] = "complete" => row[o] = "complete"
    BY <1>12 DEF IssueRestart
  <2>3. QED
    BY <1>1, <2>1, <2>2 DEF Tellers, NoLink, NoDelivery
<1>13. CASE UNCHANGED issueVars
  BY <1>1, <1>13 DEF issueVars, issueMemory, sideVars, Tellers
<1>14. QED
  BY <1>2, <1>3, <1>4, <1>5, <1>6, <1>7, <1>8, <1>9, <1>10, <1>11, <1>12, <1>13
  DEF IssueNext, DeliveryStep

LEMMA IssueInitOK == IssueInit => IssueTyped /\ Single /\ Told
<1> SUFFICES ASSUME IssueInit PROVE IssueTyped /\ Single /\ Told
  OBVIOUS
<1>1. NoLink \in Links
  BY DEF Links
<1>2. DeliveryOK
  BY DEF IssueInit, DeliveryOK, Deliveries, NoDelivery
<1>3. LinksOK
  BY <1>1 DEF IssueInit, LinksOK
<1>4. StoredOK
  <2>1. row \in Rows /\ outbox \in Outboxes /\ link \in Links
    BY <1>1 DEF IssueInit, Rows, Outboxes
  <2>2. savedIssue = Current
    BY DEF IssueInit, Current
  <2>3. Current \in [link : Links, outbox : Outboxes]
    BY <2>1 DEF Current
  <2>4. QED
    BY <2>1, <2>2, <2>3 DEF StoredOK
<1>5. CountsOK
  <2>1. triage = 0 /\ issueFaults = 0
    BY DEF IssueInit
  <2>2. QED
    BY <2>1, IssueAssumption DEF CountsOK
<1>6. Single
  BY DEF IssueInit, Single
<1>7. Told
  BY DEF IssueInit, Told, NoLink, NoDelivery
<1>8. QED
  BY <1>2, <1>3, <1>4, <1>5, <1>6, <1>7 DEF IssueTyped

LEMMA AlwaysTold == IssueSpec => [](IssueTyped /\ Single /\ Told)
<1>1. ASSUME IssueTyped /\ Single /\ Told, [IssueNext]_issueVars
      PROVE  (IssueTyped /\ Single /\ Told)'
  BY <1>1, CountsStep, DeliveryTypeStep, LinksTypeStep, StoredTypeStep, SingleStep, ToldStep
  DEF IssueTyped
<1>2. QED
  BY IssueInitOK, <1>1, PTL DEF IssueSpec

\* Every variable of IssueDelivery has its type in every reachable state.
THEOREM IssueTypeCorrect == IssueSpec => []IssueTypeOK
<1>1. Single => \A n \in DOMAIN issues : issues[n] \in IssueStates
  BY DEF Single
<1>2. IssueTyped /\ Single => IssueTypeOK
  BY <1>1
  DEF IssueTyped, DeliveryOK, Deliveries, LinksOK, StoredOK, Rows, Outboxes, CountsOK,
      IssueTypeOK
<1>3. QED
  BY <1>2, AlwaysTold, PTL

\* What the wall takes for told, in memory, on disk or in a row, has its issue.
THEOREM WhatIsToldIsTrue == IssueSpec => []ToldIsTrue
<1>1. Told => ToldIsTrue
  BY DEF Told, ToldIsTrue
<1>2. QED
  BY <1>1, AlwaysTold, PTL

-----------------------------------------------------------------------------
(* Slots, of the programme in memory as of the one written last.           *)

PlayStates == {"open", "good", "bad", "gone"}
SlotFunctions == [SlotIds -> SlotRecords]
Programs == [slots : SlotFunctions, paused : BOOLEAN]

IsLive(k) == k.state \in {"starting", "live"}

\* A slot knows a run only once it is live, and stays live while it is open.
Fitting(k, rs) ==
  /\ k.run <= Len(rs)
  /\ k.state \in {"none", "pending", "starting"} => k.run = 0
  /\ k.run # 0 /\ rs[k.run] = "open" => k.state = "live"
  /\ k.state = "none" => k.vote = NoVoteId

\* One slot is live at most, and each vote has one slot at most.
SlotsOK(f, rs) ==
  /\ f \in SlotFunctions
  /\ \A s \in SlotIds : Fitting(f[s], rs)
  /\ \A s, t \in SlotIds : IsLive(f[s]) /\ IsLive(f[t]) => s = t
  /\ \A s, t \in SlotIds : f[s].vote = f[t].vote /\ f[s].vote # NoVoteId => s = t

SameVotes(f, g) == \A s \in SlotIds : f[s].vote = g[s].vote
SameStarting(f, g) ==
  \A s \in SlotIds : f[s].state = "starting" <=> g[s].state = "starting"
SameLive(f, g) == SameStarting(f, g) /\ \A s \in SlotIds : IsLive(g[s]) => IsLive(f[s])

\* A slot changes its state.
LEMMA EditOK ==
  ASSUME NEW f, NEW rs, SlotsOK(f, rs), NEW s \in SlotIds, NEW k \in SlotRecords,
         Fitting(k, rs), k.vote = f[s].vote,
         IsLive(k) => \A t \in SlotIds : IsLive(f[t]) => t = s
  PROVE  /\ SlotsOK([f EXCEPT ![s] = k], rs)
         /\ SameVotes(f, [f EXCEPT ![s] = k])
         /\ k.state # "starting" /\ f[s].state # "starting"
              => SameStarting(f, [f EXCEPT ![s] = k])
         /\ [f EXCEPT ![s] = k][s] = k
         /\ \A t \in SlotIds \ {s} : [f EXCEPT ![s] = k][t] = f[t]
<1> DEFINE g == [f EXCEPT ![s] = k]
<1>1. /\ g \in SlotFunctions /\ g[s] = k
      /\ \A t \in SlotIds \ {s} : g[t] = f[t]
  BY DEF SlotsOK, SlotFunctions
<1> HIDE DEF g
<1>2. /\ SlotsOK(g, rs) /\ SameVotes(f, g)
      /\ k.state # "starting" /\ f[s].state # "starting" => SameStarting(f, g)
  BY <1>1 DEF SlotsOK, SameVotes, SameStarting
<1>3. QED
  BY <1>1, <1>2 DEF g

\* An unused slot is filled, for a vote that has none or for no vote.
LEMMA FillOK ==
  ASSUME NEW f, NEW rs, SlotsOK(f, rs), NEW s \in SlotIds, f[s].state = "none",
         NEW k \in SlotRecords, k.state = "pending", k.run = 0, Len(rs) \in Nat,
         k.vote # NoVoteId => \A t \in SlotIds : f[t].vote # k.vote
  PROVE  /\ SlotsOK([f EXCEPT ![s] = k], rs)
         /\ SameLive(f, [f EXCEPT ![s] = k])
         /\ \A t \in SlotIds \ {s} : [f EXCEPT ![s] = k][t] = f[t]
         /\ [f EXCEPT ![s] = k][s] = k
         /\ k.vote = NoVoteId => SameVotes(f, [f EXCEPT ![s] = k])
<1> DEFINE g == [f EXCEPT ![s] = k]
<1>1. /\ g \in SlotFunctions /\ g[s] = k
      /\ \A t \in SlotIds \ {s} : g[t] = f[t]
  BY DEF SlotsOK, SlotFunctions
<1>2. Fitting(k, rs) /\ ~IsLive(k) /\ f[s].vote = NoVoteId
  BY DEF Fitting, IsLive, SlotsOK
<1> HIDE DEF g
<1>3. SlotsOK(g, rs) /\ SameLive(f, g) /\ (k.vote = NoVoteId => SameVotes(f, g))
  BY <1>1, <1>2 DEF SlotsOK, SameVotes, SameLive, SameStarting
<1>4. QED
  BY <1>1, <1>3 DEF g

\* The two ways a slot is made from the empty one.
Unused(c, r) == [EmptySlot EXCEPT !.state = "pending", !.choice = c, !.repeats = r]
ForVote(c, v) == [EmptySlot EXCEPT !.state = "pending", !.choice = c, !.vote = v]

LEMMA EmptyIsRecord ==
  /\ EmptySlot \in SlotRecords /\ EmptySlot.vote = NoVoteId /\ EmptySlot.run = 0
  /\ EmptySlot.state = "none"
<1>1. (CHOOSE c \in Choices : TRUE) \in Choices
  BY ProgramAssumption
<1> DEFINE first == CHOOSE c \in Choices : TRUE
<1>2. EmptySlot = [state |-> "none", choice |-> first, run |-> 0, cancelling |-> FALSE,
                   repeats |-> FALSE, vote |-> NoVoteId]
  BY DEF EmptySlot
<1> HIDE DEF first
<1>3. first \in Choices
  BY <1>1 DEF first
<1>4. QED
  BY <1>2, <1>3 DEF SlotRecords, SlotStates

LEMMA FreshIsRecord ==
  ASSUME NEW c \in Choices
  PROVE  /\ \A r \in BOOLEAN :
              /\ Unused(c, r) \in SlotRecords /\ Unused(c, r).state = "pending"
              /\ Unused(c, r).run = 0 /\ Unused(c, r).vote = NoVoteId
         /\ \A v \in VoteIds :
              /\ ForVote(c, v) \in SlotRecords /\ ForVote(c, v).state = "pending"
              /\ ForVote(c, v).run = 0 /\ ForVote(c, v).vote = v
  BY EmptyIsRecord DEF Unused, ForVote, SlotRecords, SlotStates

\* The successor of a slot that repeats.
LEMMA NextOK ==
  ASSUME NEW f, NEW rs, SlotsOK(f, rs), Len(rs) \in Nat, NEW s \in SlotIds,
         NEW g \in WithNext(f, s)
  PROVE  SlotsOK(g, rs) /\ SameVotes(f, g) /\ SameLive(f, g)
<1>1. CASE g = f
  BY <1>1 DEF SameVotes, SameLive, SameStarting
<1>2. ASSUME NEW t \in SlotIds, f[t].state = "none",
             g = [f EXCEPT ![t] = Unused(f[s].choice, TRUE)]
      PROVE  SlotsOK(g, rs) /\ SameVotes(f, g) /\ SameLive(f, g)
  <2>1. f[s].choice \in Choices
    BY DEF SlotsOK, SlotFunctions, SlotRecords
  <2>2. QED
    BY <1>2, <2>1, FreshIsRecord, FillOK
<1>3. QED
  BY <1>1, <1>2 DEF WithNext, Unused

\* The runs go on under the slots: none is opened again.
LEMMA RunsGoOn ==
  ASSUME NEW f, NEW rs, NEW qs, SlotsOK(f, rs), Len(rs) \in Nat, Len(qs) \in Nat,
         Len(rs) <= Len(qs),
         \A r \in 1 .. Len(rs) : qs[r] = "open" => rs[r] = "open"
  PROVE  SlotsOK(f, qs)
<1>1. ASSUME NEW s \in SlotIds
      PROVE  Fitting(f[s], qs)
  <2>1. f[s].run \in Nat /\ Fitting(f[s], rs)
    BY DEF SlotsOK, SlotFunctions, SlotRecords
  <2>2. f[s].run # 0 => f[s].run \in 1 .. Len(rs)
    BY <2>1 DEF Fitting
  <2>3. QED
    BY <2>1, <2>2 DEF Fitting
<1>2. QED
  BY <1>1 DEF SlotsOK

-----------------------------------------------------------------------------
(* The edits of the programme.                                             *)

BothOK ==
  /\ program \in Programs /\ savedProgram \in Programs
  /\ SlotsOK(slot, runs) /\ SlotsOK(savedProgram.slots, runs)

PlaysOK == runs \in Seq(PlayStates) /\ finishing \subseteq DOMAIN runs

\* A launch has its slot, and a slot that starts has its launch.
AdvanceOK ==
  /\ advancing \in [slot : SlotIds \cup {NoSlot}, phase : {"idle", "launch", "record"},
                    run : Nat]
  /\ advancing.run <= Len(runs) /\ (advancing.run # 0 => advancing.phase = "record")
  /\ advancing.phase # "idle" =>
       advancing.slot \in SlotIds /\ slot[advancing.slot].state = "starting"
  /\ \A s \in SlotIds : slot[s].state = "starting" =>
       advancing.slot = s /\ advancing.phase # "idle"

\* What every edit keeps.
Edited ==
  /\ program' \in Programs
  /\ SlotsOK(program'.slots, runs)
  /\ SameVotes(slot, program'.slots)

LEMMA Placed ==
  ASSUME program \in Programs, NEW g, SlotsOK(g, runs), SameVotes(slot, g),
         program' = [program EXCEPT !.slots = g]
  PROVE  Edited /\ program'.slots = g
  BY DEF Edited, Programs, SlotsOK

\* A slot goes to a state in which it is not live.
LEMMA GoesOK ==
  ASSUME BothOK, PlaysOK, NEW s \in SlotIds,
         NEW state \in {"completed", "failed", "blocked", "cancelled"},
         slot[s].run # 0 => runs[slot[s].run] # "open",
         NEW g \in WithNext(Goes(s, state), s),
         program' = [program EXCEPT !.slots = g]
  PROVE  /\ Edited
         /\ \A t \in SlotIds : program'.slots[t].state = "starting"
              <=> t # s /\ slot[t].state = "starting"
<1>1. slot[s] \in SlotRecords /\ Fitting(slot[s], runs) /\ Len(runs) \in Nat
  BY DEF BothOK, SlotsOK, SlotFunctions, PlaysOK
<1> DEFINE k == [slot[s] EXCEPT !.state = state]
<1>2. /\ k \in SlotRecords /\ k.state = state /\ k.vote = slot[s].vote
      /\ k.run = slot[s].run
  BY <1>1 DEF SlotRecords, SlotStates
<1>3. Goes(s, state) = [slot EXCEPT ![s] = k]
  BY DEF Goes
<1> HIDE DEF k
<1>4. Fitting(k, runs) /\ ~IsLive(k)
  BY <1>1, <1>2 DEF Fitting, IsLive
<1> DEFINE f == Goes(s, state)
<1> DEFINE h == [slot EXCEPT ![s] = k]
<1>5a. /\ SlotsOK(h, runs) /\ SameVotes(slot, h)
       /\ h[s] = k /\ \A t \in SlotIds \ {s} : h[t] = slot[t]
  BY <1>2, <1>4, EditOK DEF BothOK
<1> HIDE DEF f, h
<1>5. /\ SlotsOK(f, runs) /\ SameVotes(slot, f)
      /\ f[s] = k /\ \A t \in SlotIds \ {s} : f[t] = slot[t]
  BY <1>3, <1>5a DEF f, h
<1>6. SlotsOK(g, runs) /\ SameVotes(f, g) /\ SameLive(f, g)
  BY <1>1, <1>5, NextOK DEF f
<1>7. SameVotes(slot, g)
  BY <1>5, <1>6 DEF SameVotes
<1>8. Edited /\ program'.slots = g
  BY <1>6, <1>7, Placed DEF BothOK
<1>9. \A t \in SlotIds : g[t].state = "starting" <=> t # s /\ slot[t].state = "starting"
  BY <1>2, <1>5, <1>6 DEF SameLive, SameStarting
<1>10. QED
  BY <1>8, <1>9

LEMMA AddEdit ==
  ASSUME BothOK, PlaysOK, NEW s \in SlotIds, SlotAdd(s)
  PROVE  Edited /\ SameStarting(slot, program'.slots)
<1>1. Len(runs) \in Nat /\ slot[s].state = "none"
  BY DEF PlaysOK, SlotAdd, UnusedSlots
<1>2. PICK c \in Choices, r \in BOOLEAN :
        program' = [program EXCEPT !.slots[s] = Unused(c, r)]
  BY ProgramAssumption DEF SlotAdd, Unused
<1>3. program' = [program EXCEPT !.slots = [slot EXCEPT ![s] = Unused(c, r)]]
  BY <1>2 DEF slot, BothOK, Programs
<1>4. /\ SlotsOK([slot EXCEPT ![s] = Unused(c, r)], runs)
      /\ SameVotes(slot, [slot EXCEPT ![s] = Unused(c, r)])
      /\ SameLive(slot, [slot EXCEPT ![s] = Unused(c, r)])
  BY <1>1, FreshIsRecord, FillOK DEF BothOK
<1>5. QED
  BY <1>3, <1>4, Placed DEF BothOK, SameLive

LEMMA DropEdit ==
  ASSUME BothOK, PlaysOK, NEW s \in SlotIds, SlotDrop(s)
  PROVE  Edited /\ SameStarting(slot, program'.slots)
<1>1. slot[s].state = "pending"
  BY DEF SlotDrop
<1>2. slot[s].run = 0
  BY <1>1 DEF BothOK, SlotsOK, Fitting
<1>3. \E g \in WithNext(Goes(s, "cancelled"), s) : program' = [program EXCEPT !.slots = g]
  BY DEF SlotDrop
<1>4. QED
  BY <1>1, <1>2, <1>3, GoesOK DEF SameStarting

LEMMA CancelEdit ==
  ASSUME BothOK, PlaysOK, NEW s \in SlotIds, SlotCancel(s)
  PROVE  Edited /\ SameStarting(slot, program'.slots)
<1> DEFINE k == [slot[s] EXCEPT !.cancelling = TRUE]
<1>1. slot[s] \in SlotRecords /\ Fitting(slot[s], runs) /\ IsLive(slot[s])
  BY DEF BothOK, SlotsOK, SlotFunctions, SlotCancel, LiveSlot, IsLive
<1>2. /\ k \in SlotRecords /\ k.state = slot[s].state /\ k.vote = slot[s].vote
      /\ k.run = slot[s].run
  BY <1>1 DEF SlotRecords
<1>3. program' = [program EXCEPT !.slots = [slot EXCEPT ![s] = k]]
  BY DEF SlotCancel, SlotCancelled
<1> HIDE DEF k
<1>4. Fitting(k, runs) /\ \A t \in SlotIds : IsLive(slot[t]) => t = s
  BY <1>1, <1>2 DEF Fitting, BothOK, SlotsOK
<1>5. /\ SlotsOK([slot EXCEPT ![s] = k], runs) /\ SameVotes(slot, [slot EXCEPT ![s] = k])
      /\ [slot EXCEPT ![s] = k][s] = k
      /\ \A t \in SlotIds \ {s} : [slot EXCEPT ![s] = k][t] = slot[t]
  BY <1>2, <1>4, EditOK DEF BothOK
<1>6. Edited /\ program'.slots = [slot EXCEPT ![s] = k]
  BY <1>3, <1>5, Placed DEF BothOK
<1>7. QED
  BY <1>2, <1>5, <1>6 DEF SameStarting

LEMMA RetryEdit ==
  ASSUME BothOK, PlaysOK, NEW s \in SlotIds, SlotRetry(s)
  PROVE  Edited /\ SameStarting(slot, program'.slots)
<1> DEFINE k == [slot[s] EXCEPT !.state = "pending", !.run = 0, !.cancelling = FALSE]
<1>1. slot[s] \in SlotRecords /\ slot[s].state \in {"blocked", "failed"} /\ Len(runs) \in Nat
  BY DEF BothOK, SlotsOK, SlotFunctions, SlotRetry, PlaysOK
<1>2. k \in SlotRecords /\ k.state = "pending" /\ k.vote = slot[s].vote /\ k.run = 0
  BY <1>1 DEF SlotRecords, SlotStates
<1>3. program' = [program EXCEPT !.slots = [slot EXCEPT ![s] = k]]
  BY DEF SlotRetry, slot, BothOK, Programs
<1> HIDE DEF k
<1>4. Fitting(k, runs) /\ ~IsLive(k)
  BY <1>1, <1>2 DEF Fitting, IsLive
<1>5. /\ SlotsOK([slot EXCEPT ![s] = k], runs) /\ SameVotes(slot, [slot EXCEPT ![s] = k])
      /\ SameStarting(slot, [slot EXCEPT ![s] = k])
  BY <1>1, <1>2, <1>4, EditOK DEF BothOK
<1>6. QED
  BY <1>3, <1>5, Placed DEF BothOK

LEMMA PauseEdit ==
  ASSUME BothOK, SetPaused
  PROVE  Edited /\ SameStarting(slot, program'.slots)
<1>1. program' \in Programs /\ program'.slots = slot
  BY DEF BothOK, SetPaused, Programs, slot
<1>2. QED
  BY <1>1 DEF Edited, BothOK, SameVotes, SameStarting

\* advance picks a slot, or blocks one.
LEMMA PickEdit ==
  ASSUME BothOK, PlaysOK, NEW s \in SlotIds, AdvancePick(s)
  PROVE  /\ Edited
         /\ \/ /\ advancing' = [NoAdvance EXCEPT !.slot = s, !.phase = "launch"]
               /\ \A t \in SlotIds : program'.slots[t].state = "starting" <=> t = s
            \/ advancing' = advancing /\ SameStarting(slot, program'.slots)
<1>1. /\ slot[s] \in SlotRecords /\ slot[s].state = "pending" /\ slot[s].run = 0
      /\ Len(runs) \in Nat
  BY DEF BothOK, SlotsOK, SlotFunctions, AdvancePick, PlaysOK, Fitting
<1>2. \A t \in SlotIds : ~IsLive(slot[t])
  BY DEF AdvancePick, LiveSlot, IsLive
<1>3. ASSUME program' = [program EXCEPT !.slots = Goes(s, "starting")]
      PROVE  Edited /\ \A t \in SlotIds : program'.slots[t].state = "starting" <=> t = s
  <2> DEFINE k == [slot[s] EXCEPT !.state = "starting"]
             h == [slot EXCEPT ![s] = k]
  <2>1. /\ k \in SlotRecords /\ k.state = "starting" /\ k.vote = slot[s].vote
        /\ k.run = 0
    BY <1>1 DEF SlotRecords, SlotStates
  <2>2. program' = [program EXCEPT !.slots = h]
    BY <1>3 DEF Goes
  <2> HIDE DEF k
  <2>3. Fitting(k, runs)
    BY <1>1, <2>1 DEF Fitting
  <2>4. /\ SlotsOK(h, runs) /\ SameVotes(slot, h)
        /\ h[s] = k /\ \A t \in SlotIds \ {s} : h[t] = slot[t]
    BY <1>2, <2>1, <2>3, EditOK DEF BothOK
  <2> HIDE DEF h
  <2>5. Edited /\ program'.slots = h
    BY <2>2, <2>4, Placed DEF BothOK
  <2>6. QED
    BY <1>2, <2>1, <2>4, <2>5 DEF IsLive
<1>4. ASSUME NEW g \in WithNext(Goes(s, "blocked"), s),
             program' = [program EXCEPT !.slots = g]
      PROVE  Edited /\ SameStarting(slot, program'.slots)
  BY <1>1, <1>4, GoesOK DEF SameStarting
<1>5. QED
  BY <1>3, <1>4 DEF AdvancePick

\* The launch is recorded: its slot starts no more.
LEMMA RecordEdit ==
  ASSUME BothOK, PlaysOK, AdvanceOK, AdvanceRecord
  PROVE  /\ Edited
         /\ \A t \in SlotIds : program'.slots[t].state # "starting"
<1> DEFINE s == advancing.slot
<1>1. /\ s \in SlotIds /\ slot[s].state = "starting"
      /\ \A t \in SlotIds : slot[t].state = "starting" => t = s
      /\ advancing.run \in Nat /\ advancing.run <= Len(runs)
  BY DEF AdvanceRecord, AdvanceOK
<1>2. slot[s] \in SlotRecords /\ Len(runs) \in Nat /\ slot[s].run = 0
  BY <1>1 DEF BothOK, SlotsOK, SlotFunctions, PlaysOK, Fitting
<1>3. \A t \in SlotIds : IsLive(slot[t]) => t = s
  BY <1>1 DEF BothOK, SlotsOK, IsLive
<1>4. ASSUME advancing.run # 0,
             program' = [program EXCEPT !.slots[s].state = "live",
                                        !.slots[s].run = advancing.run]
      PROVE  Edited /\ \A t \in SlotIds : program'.slots[t].state # "starting"
  <2> DEFINE k == [slot[s] EXCEPT !.state = "live", !.run = advancing.run]
             h == [slot EXCEPT ![s] = k]
  <2>1. /\ k \in SlotRecords /\ k.state = "live" /\ k.vote = slot[s].vote
        /\ k.run = advancing.run
    BY <1>1, <1>2 DEF SlotRecords, SlotStates
  <2>2. program' = [program EXCEPT !.slots = h]
    BY <1>1, <1>4 DEF slot, BothOK, Programs, SlotFunctions
  <2> HIDE DEF k
  <2>3. Fitting(k, runs)
    BY <1>1, <1>4, <2>1 DEF Fitting
  <2>4. /\ SlotsOK(h, runs) /\ SameVotes(slot, h)
        /\ h[s] = k /\ \A t \in SlotIds \ {s} : h[t] = slot[t]
    BY <1>1, <1>3, <2>1, <2>3, EditOK DEF BothOK
  <2> HIDE DEF h
  <2>5. Edited /\ program'.slots = h
    BY <2>2, <2>4, Placed DEF BothOK
  <2>6. QED
    BY <1>1, <2>1, <2>4, <2>5
<1>5. ASSUME NEW g \in WithNext(Goes(s, "blocked"), s),
             program' = [program EXCEPT !.slots = g]
      PROVE  Edited /\ \A t \in SlotIds : program'.slots[t].state # "starting"
  BY <1>1, <1>2, <1>5, GoesOK
<1>6. QED
  BY <1>4, <1>5 DEF AdvanceRecord

\* The slot of a run ends with it.
LEMMA FinishEdit ==
  ASSUME BothOK, PlaysOK, AdvanceOK, NEW r \in DOMAIN runs, FinishRun(r)
  PROVE  (Edited /\ SameStarting(slot, program'.slots)) \/ program' = program
<1>1. \A t \in SlotIds : slot[t].state # "starting"
  BY DEF FinishRun, AdvanceOK, NoAdvance
<1>2. ASSUME NEW s \in SlotIds, Over(slot[s].run),
             NEW g \in WithNext(Goes(s, SlotOutcome(s)), s),
             program' = [program EXCEPT !.slots = g]
      PROVE  Edited /\ SameStarting(slot, program'.slots)
  <2>1. SlotOutcome(s) \in {"completed", "failed", "blocked", "cancelled"}
    BY DEF SlotOutcome
  <2>2. runs[slot[s].run] # "open"
    BY <1>2 DEF Over
  <2>3. QED
    BY <1>1, <1>2, <2>1, <2>2, GoesOK DEF SameStarting
<1>3. QED
  BY <1>2 DEF FinishRun

-----------------------------------------------------------------------------
(* The invariant.                                                          *)

Queued(f, v) == \E s \in SlotIds : f[s].vote = v

VoteStates == {"none", "open", "closed", "cancelled"}
Closings == [vote : VoteIds, choice : Choices, queued : BOOLEAN]

\* A closed vote has its slot, and so has one about to be closed.
VotesOK ==
  /\ votes \in [VoteIds -> VoteStates] /\ savedVotes \in [VoteIds -> VoteStates]
  /\ closing \in Closings \cup {NoClosing}
  /\ \A v \in VoteIds : "closed" \in {votes[v], savedVotes[v]} => Queued(slot, v)
  /\ closing.queued => closing \in Closings /\ Queued(slot, closing.vote)

SavedOK == SameVotes(slot, savedProgram.slots)

PInv == BothOK /\ PlaysOK /\ AdvanceOK /\ SavedOK /\ VotesOK

\* Votes and their slots last through an edit.
LEMMA VotesLast ==
  ASSUME VotesOK, NEW f, NEW g, f = slot, g = slot', SameVotes(f, g),
         UNCHANGED <<votes, savedVotes, closing>>
  PROVE  VotesOK'
<1>1. \A v : Queued(slot, v) => Queued(slot', v)
  BY DEF SameVotes, Queued
<1>2. closing' = closing /\ votes' = votes /\ savedVotes' = savedVotes
  OBVIOUS
<1>3. QED
  BY <1>1, <1>2 DEF VotesOK, NoClosing

\* An edit that is written, or is not.
LEMMA EditKeeps ==
  ASSUME PInv, Edited, SaveProgram, UNCHANGED <<votes, savedVotes, runs, closing>>,
         finishing' \subseteq finishing
  PROVE  BothOK' /\ PlaysOK' /\ SavedOK' /\ VotesOK'
<1>1. runs' = runs /\ savedProgram' \in {program', savedProgram} /\ slot' = program'.slots
  BY DEF SaveProgram, slot
<1>2. BothOK' /\ PlaysOK'
  BY <1>1 DEF PInv, BothOK, PlaysOK, Edited
<1>3. SavedOK'
  BY <1>1 DEF PInv, SavedOK, SameVotes, Edited
<1>4. VotesOK'
  BY <1>1, VotesLast DEF PInv, Edited
<1>5. QED
  BY <1>2, <1>3, <1>4

LEMMA AdvanceSame ==
  ASSUME AdvanceOK, SameStarting(slot, program'.slots), UNCHANGED <<advancing, runs>>
  PROVE  AdvanceOK'
<1>1. slot' = program'.slots /\ advancing' = advancing /\ runs' = runs
  BY DEF slot
<1>2. QED
  BY <1>1 DEF AdvanceOK, SameStarting

\* Nothing starts, and nothing is launched.
LEMMA AdvanceRests ==
  ASSUME advancing' = NoAdvance, \A t \in SlotIds : program'.slots[t].state # "starting",
         Len(runs') \in Nat
  PROVE  AdvanceOK'
<1>1. slot' = program'.slots
  BY DEF slot
<1>2. QED
  BY <1>1 DEF AdvanceOK, NoAdvance

\* A step that leaves programme and runs alone.
LEMMA ProgramSame ==
  ASSUME PInv, UNCHANGED <<program, savedProgram, runs>>, finishing' \subseteq finishing,
         UNCHANGED advancing
  PROVE  BothOK' /\ PlaysOK' /\ AdvanceOK' /\ SavedOK' /\ slot' = slot
<1>1. /\ program' = program /\ savedProgram' = savedProgram /\ runs' = runs
      /\ advancing' = advancing /\ slot' = slot
  BY DEF slot
<1>2. QED
  BY <1>1 DEF PInv, BothOK, PlaysOK, AdvanceOK, SavedOK

\* Requests of the operator, and the pick.
LEMMA RequestStep ==
  ASSUME PInv, NEW s \in SlotIds, SlotRequest(s)
  PROVE  PInv'
<1>1. CASE SlotAdd(s)
  BY <1>1, AddEdit, EditKeeps, AdvanceSame DEF SlotAdd, PInv
<1>2. CASE SlotDrop(s)
  BY <1>2, DropEdit, EditKeeps, AdvanceSame DEF SlotDrop, PInv
<1>3. CASE SlotCancel(s)
  BY <1>3, CancelEdit, EditKeeps, AdvanceSame DEF SlotCancel, PInv
<1>4. CASE SlotRetry(s)
  BY <1>4, RetryEdit, EditKeeps, AdvanceSame DEF SlotRetry, PInv
<1>5. CASE AdvancePick(s)
  <2>1. /\ Edited /\ SaveProgram /\ UNCHANGED <<votes, savedVotes, runs, closing>>
        /\ finishing' \subseteq finishing
    BY <1>5, PickEdit DEF AdvancePick, PInv
  <2>2. BothOK' /\ PlaysOK' /\ SavedOK' /\ VotesOK'
    BY <2>1, EditKeeps
  <2>3. CASE /\ advancing' = [NoAdvance EXCEPT !.slot = s, !.phase = "launch"]
             /\ \A t \in SlotIds : program'.slots[t].state = "starting" <=> t = s
    <3>1. advancing' = [slot |-> s, phase |-> "launch", run |-> 0]
      BY <2>3 DEF NoAdvance
    <3>2. slot' = program'.slots
      BY DEF slot
    <3>3. Len(runs') \in Nat
      BY <2>2 DEF PlaysOK
    <3>4. /\ advancing'.slot = s /\ advancing'.phase = "launch" /\ advancing'.run = 0
          /\ advancing' \in [slot : SlotIds \cup {NoSlot},
                              phase : {"idle", "launch", "record"}, run : Nat]
      BY <3>1
    <3>5. AdvanceOK'
      BY <2>3, <3>2, <3>3, <3>4 DEF AdvanceOK
    <3>6. QED
      BY <2>2, <3>5 DEF PInv
  <2>4. CASE advancing' = advancing /\ SameStarting(slot, program'.slots)
    BY <2>1, <2>2, <2>4, AdvanceSame DEF PInv
  <2>5. QED
    BY <1>5, <2>3, <2>4, PickEdit DEF PInv
<1>6. QED
  BY <1>1, <1>2, <1>3, <1>4, <1>5 DEF SlotRequest

LEMMA LaunchStep ==
  ASSUME PInv, AdvanceLaunch
  PROVE  PInv'
<1>1. UNCHANGED <<program, savedProgram, votes, savedVotes, finishing, closing>>
  BY DEF AdvanceLaunch
<1>2. /\ runs' \in Seq(PlayStates) /\ Len(runs) \in Nat /\ Len(runs') \in Nat
      /\ Len(runs) <= Len(runs') /\ finishing' \subseteq DOMAIN runs'
      /\ \A r \in 1 .. Len(runs) : runs'[r] = "open" => runs[r] = "open"
  BY DEF AdvanceLaunch, PInv, PlaysOK, PlayStates
<1>3. slot' = slot /\ savedProgram' = savedProgram /\ program' = program
  BY <1>1 DEF slot
<1>4. SlotsOK(slot, runs') /\ SlotsOK(savedProgram.slots, runs')
  BY <1>2, RunsGoOn DEF PInv, BothOK
<1>5. BothOK' /\ PlaysOK' /\ SavedOK'
  BY <1>2, <1>3, <1>4 DEF BothOK, PlaysOK, SavedOK, PInv
<1>6. /\ advancing'.slot = advancing.slot /\ advancing'.phase = "record"
      /\ advancing'.run \in Nat /\ advancing'.run <= Len(runs')
      /\ advancing' \in [slot : SlotIds \cup {NoSlot}, phase : {"idle", "launch", "record"},
                          run : Nat]
  <2>1. /\ advancing \in [slot : SlotIds \cup {NoSlot}, phase : {"idle", "launch", "record"},
                           run : Nat]
        /\ advancing.run <= Len(runs)
    BY DEF PInv, AdvanceOK
  <2>2. CASE advancing' = [advancing EXCEPT !.phase = "record", !.run = Len(runs')]
    <3>1. advancing' = [slot |-> advancing.slot, phase |-> "record", run |-> Len(runs')]
      BY <2>1, <2>2
    <3>2. advancing.slot \in SlotIds \cup {NoSlot}
      BY <2>1
    <3>3. QED
      BY <1>2, <3>1, <3>2
  <2>3. CASE advancing' = [advancing EXCEPT !.phase = "record"]
    BY <1>2, <2>1, <2>3
  <2>4. QED
    BY <2>2, <2>3 DEF AdvanceLaunch
<1>7. AdvanceOK'
  BY <1>3, <1>6 DEF AdvanceOK, AdvanceLaunch, PInv
<1>8. VotesOK'
  BY <1>1, <1>3, VotesLast DEF SameVotes, PInv
<1>9. QED
  BY <1>5, <1>7, <1>8 DEF PInv

LEMMA RecordStep ==
  ASSUME PInv, AdvanceRecord
  PROVE  PInv'
<1>1. /\ Edited /\ \A t \in SlotIds : program'.slots[t].state # "starting"
  BY RecordEdit DEF PInv
<1>2. /\ SaveProgram /\ UNCHANGED <<votes, savedVotes, runs, closing>>
      /\ finishing' \subseteq finishing /\ advancing' = NoAdvance
  BY DEF AdvanceRecord
<1>3. BothOK' /\ PlaysOK' /\ SavedOK' /\ VotesOK'
  BY <1>1, <1>2, EditKeeps
<1>4. Len(runs') \in Nat
  BY <1>3 DEF PlaysOK
<1>5. QED
  BY <1>1, <1>2, <1>3, <1>4, AdvanceRests DEF PInv

\* A run changes, but none opens.
LEMMA PlayStep ==
  ASSUME PInv, NEW r \in DOMAIN runs, NEW outcome \in PlayStates \ {"open"},
         runs' = [runs EXCEPT ![r] = outcome], finishing' \subseteq finishing \cup {r},
         UNCHANGED <<program, savedProgram, votes, savedVotes, advancing, closing>>
  PROVE  PInv'
<1>1. /\ runs' \in Seq(PlayStates) /\ Len(runs) \in Nat /\ Len(runs') = Len(runs)
      /\ Len(runs) <= Len(runs') /\ DOMAIN runs' = DOMAIN runs
      /\ \A q \in 1 .. Len(runs) : runs'[q] = "open" => runs[q] = "open"
  BY DEF PInv, PlaysOK
<1>2. /\ slot' = slot /\ savedProgram' = savedProgram /\ program' = program
      /\ advancing' = advancing
  BY DEF slot
<1>3. SlotsOK(slot, runs') /\ SlotsOK(savedProgram.slots, runs')
  BY <1>1, RunsGoOn DEF PInv, BothOK
<1>4. BothOK' /\ PlaysOK' /\ SavedOK' /\ AdvanceOK'
  BY <1>1, <1>2, <1>3 DEF BothOK, PlaysOK, SavedOK, AdvanceOK, PInv
<1>5. VotesOK'
  BY <1>2, VotesLast DEF SameVotes, PInv
<1>6. QED
  BY <1>4, <1>5 DEF PInv

LEMMA RunsStep ==
  ASSUME PInv, NEW r \in DOMAIN runs, RunEnds(r) \/ RunEvicted(r) \/ FinishRun(r)
  PROVE  PInv'
<1>1. CASE RunEnds(r)
  <2>1. PICK outcome \in {"good", "bad"} : runs' = [runs EXCEPT ![r] = outcome]
    BY <1>1 DEF RunEnds
  <2>2. /\ finishing' \subseteq finishing \cup {r}
        /\ UNCHANGED <<program, savedProgram, votes, savedVotes, advancing, closing>>
    BY <1>1 DEF RunEnds
  <2>3. QED
    BY <2>1, <2>2, PlayStep DEF PlayStates
<1>2. CASE RunEvicted(r)
  BY <1>2, PlayStep DEF RunEvicted, PlayStates
<1>3. CASE FinishRun(r)
  <2>1. /\ UNCHANGED <<votes, savedVotes, runs, advancing, closing>>
        /\ finishing' \subseteq finishing
    BY <1>3 DEF FinishRun
  <2>2. CASE program' = program /\ savedProgram' = savedProgram
    <3>1. BothOK' /\ PlaysOK' /\ AdvanceOK' /\ SavedOK' /\ slot' = slot
      BY <2>1, <2>2, ProgramSame
    <3>2. VotesOK'
      BY <2>1, <3>1, VotesLast DEF SameVotes, PInv
    <3>3. QED
      BY <3>1, <3>2 DEF PInv
  <2>3. CASE SaveProgram /\ Edited /\ SameStarting(slot, program'.slots)
    BY <2>1, <2>3, EditKeeps, AdvanceSame DEF PInv
  <2>4. CASE SaveProgram /\ program' = program
    <3>1. Edited /\ SameStarting(slot, program'.slots)
      BY <2>4 DEF Edited, PInv, BothOK, SameVotes, SameStarting, slot
    <3>2. QED
      BY <2>1, <2>4, <3>1, EditKeeps, AdvanceSame DEF PInv
  <2>5. QED
    BY <1>3, <2>2, <2>3, <2>4, FinishEdit DEF FinishRun, PInv
<1>4. QED
  BY <1>1, <1>2, <1>3

\* Requests about votes, and the closing of one.
LEMMA VoteStep ==
  ASSUME PInv, NEW v \in VoteIds, VoteRequest(v)
  PROVE  PInv'
<1>1. UNCHANGED <<program, savedProgram, runs, advancing>> /\ finishing' \subseteq finishing
  BY DEF VoteRequest, VoteCheck, VoteOpen, VoteCancel, VoteResolve
<1>2. BothOK' /\ PlaysOK' /\ AdvanceOK' /\ SavedOK' /\ slot' = slot
  BY <1>1, ProgramSame
<1>3. CASE UNCHANGED <<votes, savedVotes, closing>>
  BY <1>2, <1>3, VotesLast DEF SameVotes, PInv
<1>4. CASE VoteOpen(v)
  BY <1>2, <1>4, <1>3 DEF VoteOpen, VotesOK, PInv, VoteStates
<1>5. CASE VoteCancel(v)
  BY <1>2, <1>5 DEF VoteCancel, SaveVotes, VotesOK, PInv, VoteStates
<1>6. CASE VoteResolve(v)
  <2>1. PICK c \in Choices : closing' = [vote |-> v, choice |-> c, queued |-> FALSE]
    BY <1>6 DEF VoteResolve
  <2>2. closing' \in Closings /\ ~closing'.queued
    BY <2>1 DEF Closings
  <2>3. votes' = votes /\ savedVotes' = savedVotes
    BY <1>6 DEF VoteResolve
  <2>4. VotesOK'
    BY <1>2, <2>2, <2>3 DEF VotesOK, PInv
  <2>5. QED
    BY <1>2, <2>4 DEF PInv
<1>7. CASE VoteCheck(v)
  BY <1>3, <1>7 DEF VoteCheck
<1>8. QED
  BY <1>4, <1>5, <1>6, <1>7 DEF VoteRequest

LEMMA CloseStep ==
  ASSUME PInv, VoteClose
  PROVE  PInv'
<1>1. UNCHANGED <<program, savedProgram, runs, advancing>> /\ finishing' \subseteq finishing
  BY DEF VoteClose
<1>2. BothOK' /\ PlaysOK' /\ AdvanceOK' /\ SavedOK' /\ slot' = slot
  BY <1>1, ProgramSame
<1>3. closing \in Closings /\ Queued(slot, closing.vote) /\ closing.vote \in VoteIds
  BY DEF VoteClose, PInv, VotesOK, Closings
<1>4. /\ votes' = [votes EXCEPT ![closing.vote] = "closed"] /\ closing' = NoClosing
      /\ savedVotes' \in {votes', savedVotes}
  BY DEF VoteClose, SaveVotes
<1>5. VotesOK'
  BY <1>2, <1>3, <1>4 DEF VotesOK, PInv, VoteStates, NoClosing
<1>6. QED
  BY <1>2, <1>5 DEF PInv

\* The winner has its slot, or gets one.
LEMMA WinnerEdit ==
  ASSUME BothOK, PlaysOK, NEW v \in VoteIds, NEW c \in Choices, WinnerSlot(v, c)
  PROVE  /\ program' \in Programs /\ SlotsOK(program'.slots, runs)
         /\ SameStarting(slot, program'.slots)
         /\ \A w \in VoteIds : Queued(slot, w) => Queued(program'.slots, w)
         /\ Queued(program'.slots, v)
<1>1. CASE SlotOf(v) # {} /\ program' = program
  <2>1. program'.slots = slot /\ Queued(slot, v)
    BY <1>1 DEF slot, SlotOf, Queued
  <2>2. QED
    BY <1>1, <2>1 DEF BothOK, SameStarting
<1>2. ASSUME SlotOf(v) = {}, NEW s \in UnusedSlots,
             program' = [program EXCEPT !.slots[s] = ForVote(c, v)]
      PROVE  /\ program' \in Programs /\ SlotsOK(program'.slots, runs)
             /\ SameStarting(slot, program'.slots)
             /\ \A w \in VoteIds : Queued(slot, w) => Queued(program'.slots, w)
             /\ Queued(program'.slots, v)
  <2> DEFINE k == ForVote(c, v)
             h == [slot EXCEPT ![s] = k]
  <2>1. /\ s \in SlotIds /\ slot[s].state = "none" /\ Len(runs) \in Nat
        /\ \A t \in SlotIds : slot[t].vote # v
    BY <1>2 DEF UnusedSlots, SlotOf, PlaysOK
  <2>2. k \in SlotRecords /\ k.state = "pending" /\ k.run = 0 /\ k.vote = v
    BY FreshIsRecord
  <2>3. program' = [program EXCEPT !.slots = h]
    BY <1>2 DEF slot, BothOK, Programs
  <2>4. slot[s].vote = NoVoteId
    BY <2>1 DEF BothOK, SlotsOK, Fitting
  <2> HIDE DEF k
  <2>5. /\ SlotsOK(h, runs) /\ SameLive(slot, h) /\ h[s] = k
        /\ \A t \in SlotIds \ {s} : h[t] = slot[t]
    BY <2>1, <2>2, FillOK DEF BothOK
  <2> HIDE DEF h
  <2>6. program' \in Programs /\ program'.slots = h
    BY <2>3, <2>5 DEF Programs, BothOK, SlotsOK
  <2>7. \A w \in VoteIds : Queued(slot, w) => Queued(h, w)
    BY <2>4, <2>5, ProgramAssumption DEF Queued
  <2>8. QED
    BY <2>1, <2>2, <2>5, <2>6, <2>7 DEF SameLive, Queued
<1>3. QED
  BY <1>1, <1>2 DEF WinnerSlot, ForVote

LEMMA QueueStep ==
  ASSUME PInv, VoteQueue
  PROVE  PInv'
<1>1. /\ UNCHANGED <<votes, savedVotes, runs, finishing, advancing>>
      /\ closing \in Closings /\ closing.vote \in VoteIds /\ closing.choice \in Choices
  BY DEF VoteQueue, PInv, VotesOK, Closings
<1>2. CASE closing' = NoClosing /\ UNCHANGED <<program, savedProgram>>
  <2>1. BothOK' /\ PlaysOK' /\ AdvanceOK' /\ SavedOK' /\ slot' = slot
    BY <1>1, <1>2, ProgramSame
  <2>2. VotesOK'
    BY <1>1, <1>2, <2>1 DEF VotesOK, PInv, NoClosing
  <2>3. QED
    BY <2>1, <2>2 DEF PInv
<1>3. CASE /\ WinnerSlot(closing.vote, closing.choice)
           /\ savedProgram' = program' \/ (program' = program /\ savedProgram' = savedProgram)
           /\ closing' = [closing EXCEPT !.queued = TRUE]
  <2>1. /\ program' \in Programs /\ SlotsOK(program'.slots, runs)
        /\ SameStarting(slot, program'.slots)
        /\ \A w \in VoteIds : Queued(slot, w) => Queued(program'.slots, w)
        /\ Queued(program'.slots, closing.vote)
    BY <1>1, <1>3, WinnerEdit DEF PInv
  <2>2. runs' = runs /\ finishing' = finishing /\ slot' = program'.slots
    BY <1>1 DEF slot
  <2>3. BothOK' /\ PlaysOK' /\ SavedOK'
    BY <1>3, <2>1, <2>2 DEF BothOK, PlaysOK, SavedOK, SameVotes, PInv, slot
  <2>4. AdvanceOK'
    BY <1>1, <2>1, AdvanceSame DEF PInv
  <2>5. closing' \in Closings /\ closing'.vote = closing.vote
    BY <1>1, <1>3 DEF Closings
  <2>6. VotesOK'
    BY <1>1, <2>1, <2>2, <2>5 DEF VotesOK, PInv
  <2>7. QED
    BY <2>3, <2>4, <2>6 DEF PInv
<1>4. QED
  BY <1>2, <1>3 DEF VoteQueue

\* What recoverLocked makes of one slot.
LEMMA RecoveredFits ==
  ASSUME PlaysOK, NEW k \in SlotRecords, Fitting(k, runs)
  PROVE  /\ Recovered(k) \in SlotRecords /\ Fitting(Recovered(k), runs)
         /\ Recovered(k).vote = k.vote /\ Recovered(k).state # "starting"
         /\ IsLive(Recovered(k)) => IsLive(k)
<1>1. CASE Recovered(k) = k /\ ~IsLive(k)
  BY <1>1 DEF IsLive
<1>2. ASSUME NEW state \in {"blocked", "live", "cancelled", "failed", "completed"},
             IsLive(k), Recovered(k) = [k EXCEPT !.state = state],
             k.run # 0 /\ runs[k.run] = "open" => state = "live"
      PROVE  /\ Recovered(k) \in SlotRecords /\ Fitting(Recovered(k), runs)
             /\ Recovered(k).vote = k.vote /\ Recovered(k).state # "starting"
  <2> DEFINE m == [k EXCEPT !.state = state]
  <2>1. /\ m \in SlotRecords /\ m.state = state /\ m.vote = k.vote /\ m.run = k.run
    BY DEF SlotRecords, SlotStates
  <2>2. m = Recovered(k)
    BY <1>2
  <2> HIDE DEF m
  <2>3. Fitting(m, runs)
    BY <1>2, <2>1 DEF Fitting
  <2>4. QED
    BY <2>1, <2>2, <2>3
<1>3. CASE ~IsLive(k)
  BY <1>1, <1>3 DEF Recovered, IsLive
<1>4. CASE IsLive(k)
  BY <1>2, <1>4 DEF Recovered, IsLive, Over
<1>5. QED
  BY <1>3, <1>4

LEMMA RestartStep ==
  ASSUME PInv, ProgramRestart
  PROVE  PInv'
<1> DEFINE f == savedProgram.slots
           g == [s \in SlotIds |-> Recovered(f[s])]
<1>1. /\ runs' = runs /\ finishing' = {} /\ advancing' = NoAdvance
      /\ closing' = NoClosing /\ votes' = savedVotes /\ savedVotes' = savedVotes
      /\ savedProgram' = program'
  BY DEF ProgramRestart
<1>2. \/ program' = [savedProgram EXCEPT !.slots = g]
      \/ \E s \in SlotIds : \E h \in WithNext(g, s) :
            program' = [savedProgram EXCEPT !.slots = h]
  BY DEF ProgramRestart
<1>3. SlotsOK(f, runs) /\ PlaysOK /\ Len(runs) \in Nat /\ savedProgram \in Programs
  BY DEF PInv, BothOK, PlaysOK
<1>4. \A s \in SlotIds :
        /\ f[s] \in SlotRecords /\ Fitting(f[s], runs)
        /\ g[s] \in SlotRecords /\ Fitting(g[s], runs) /\ g[s].vote = f[s].vote
        /\ g[s].state # "starting" /\ (IsLive(g[s]) => IsLive(f[s]))
  BY <1>3, RecoveredFits DEF SlotsOK, SlotFunctions
<1>5. g \in SlotFunctions
  BY <1>4 DEF SlotFunctions
<1> HIDE DEF f, g
<1>6. SlotsOK(g, runs) /\ SameVotes(f, g)
  BY <1>3, <1>4, <1>5 DEF SlotsOK, SameVotes
<1>7. PICK h : /\ program' = [savedProgram EXCEPT !.slots = h]
               /\ SlotsOK(h, runs) /\ SameVotes(f, h)
               /\ \A t \in SlotIds : h[t].state # "starting"
  <2>1. CASE program' = [savedProgram EXCEPT !.slots = g]
    BY <1>4, <1>6, <2>1
  <2>2. ASSUME NEW s \in SlotIds, NEW h \in WithNext(g, s),
               program' = [savedProgram EXCEPT !.slots = h]
        PROVE  \E j : /\ program' = [savedProgram EXCEPT !.slots = j]
                      /\ SlotsOK(j, runs) /\ SameVotes(f, j)
                      /\ \A t \in SlotIds : j[t].state # "starting"
    <3>1. SlotsOK(h, runs) /\ SameVotes(g, h) /\ SameLive(g, h)
      BY <1>3, <1>6, NextOK
    <3>2. SameVotes(f, h) /\ \A t \in SlotIds : h[t].state # "starting"
      BY <1>4, <1>6, <3>1 DEF SameVotes, SameLive, SameStarting
    <3>3. QED
      BY <2>2, <3>1, <3>2
  <2>3. QED
    BY <1>2, <2>1, <2>2
<1>8. program' \in Programs /\ program'.slots = h
  BY <1>3, <1>7 DEF Programs, SlotsOK
<1>9. slot' = h
  BY <1>8 DEF slot
<1>10. BothOK' /\ PlaysOK' /\ SavedOK'
  BY <1>1, <1>3, <1>7, <1>8, <1>9 DEF BothOK, PlaysOK, SavedOK, SameVotes
<1>11. AdvanceOK'
  BY <1>1, <1>3, <1>7, <1>8, AdvanceRests
<1>12. \A v : Queued(slot, v) => Queued(slot', v)
  BY <1>7, <1>9 DEF f, PInv, SavedOK, SameVotes, Queued
<1>13. VotesOK'
  BY <1>1, <1>12 DEF VotesOK, PInv, NoClosing
<1>14. QED
  BY <1>10, <1>11, <1>13 DEF PInv

-----------------------------------------------------------------------------
(* The theorems.                                                           *)

LEMMA InitInv == ProgramInit => PInv
<1> SUFFICES ASSUME ProgramInit
             PROVE  PInv
  OBVIOUS
<1>1. /\ program = [slots |-> [s \in SlotIds |-> EmptySlot], paused |-> FALSE]
      /\ savedProgram = program /\ runs = <<>> /\ finishing = {}
      /\ advancing = NoAdvance /\ closing = NoClosing
      /\ votes = [v \in VoteIds |-> "none"] /\ savedVotes = votes
  BY DEF ProgramInit
<1>2. slot = [s \in SlotIds |-> EmptySlot] /\ savedProgram.slots = slot
  BY <1>1 DEF slot
<1>3. slot \in SlotFunctions /\ \A s \in SlotIds : slot[s] = EmptySlot
  BY <1>2, EmptyIsRecord DEF SlotFunctions
<1>4. PlaysOK /\ Len(runs) = 0
  BY <1>1 DEF PlaysOK
<1>5. Fitting(EmptySlot, runs)
  BY <1>4, EmptyIsRecord DEF Fitting
<1>6. SlotsOK(slot, runs)
  BY <1>3, <1>5, EmptyIsRecord DEF SlotsOK, IsLive
<1>7. BothOK /\ SavedOK
  BY <1>1, <1>2, <1>3, <1>6 DEF BothOK, SavedOK, SameVotes, Programs
<1>8. AdvanceOK
  BY <1>1, <1>3, <1>4, EmptyIsRecord DEF AdvanceOK, NoAdvance
<1>9. VotesOK
  BY <1>1 DEF VotesOK, NoClosing, VoteStates
<1>10. QED
  BY <1>4, <1>7, <1>8, <1>9 DEF PInv

LEMMA NextInv == PInv /\ [ProgramNext]_programVars => PInv'
<1> SUFFICES ASSUME PInv, [ProgramNext]_programVars
             PROVE  PInv'
  OBVIOUS
<1>1. ASSUME NEW s \in SlotIds, SlotRequest(s)
      PROVE  PInv'
  BY <1>1, RequestStep
<1>2. CASE SetPaused
  BY <1>2, PauseEdit, EditKeeps, AdvanceSame DEF SetPaused, PInv
<1>3. CASE AdvanceLaunch \/ AdvanceRecord
  BY <1>3, LaunchStep, RecordStep
<1>4. ASSUME NEW r \in DOMAIN runs, RunEnds(r) \/ RunEvicted(r) \/ FinishRun(r)
      PROVE  PInv'
  BY <1>4, RunsStep
<1>5. ASSUME NEW v \in VoteIds, VoteRequest(v)
      PROVE  PInv'
  BY <1>5, VoteStep
<1>6. CASE VoteQueue \/ VoteClose
  BY <1>6, QueueStep, CloseStep
<1>7. CASE ProgramRestart
  BY <1>7, RestartStep
<1>8. CASE UNCHANGED programVars
  <2>1. /\ UNCHANGED <<program, savedProgram, runs, advancing>>
        /\ UNCHANGED <<votes, savedVotes, closing>> /\ finishing' \subseteq finishing
    BY <1>8 DEF programVars
  <2>2. BothOK' /\ PlaysOK' /\ AdvanceOK' /\ SavedOK' /\ slot' = slot
    BY <2>1, ProgramSame
  <2>3. VotesOK'
    BY <2>1, <2>2, VotesLast DEF SameVotes, PInv
  <2>4. QED
    BY <2>2, <2>3 DEF PInv
<1>9. QED
  BY <1>1, <1>2, <1>3, <1>4, <1>5, <1>6, <1>7, <1>8 DEF ProgramNext

\* The programme plays one challenge at a time: a slot knows its run only while
\* it is live, one slot is live at most, and no slot is taken while a launch is
\* under way (advance, challenge_programming.go).
THEOREM OneAtATime == ProgramSpec => []OneChallengePlays
<1>1. PInv => OneChallengePlays
  <2> SUFFICES ASSUME PInv
               PROVE  OneChallengePlays
    OBVIOUS
  <2>1. \A s \in SlotIds : slot[s].run # 0 /\ runs[slot[s].run] = "open" =>
          slot[s].state = "live"
    BY DEF PInv, BothOK, SlotsOK, Fitting
  <2>2. \A s, t \in SlotIds : IsLive(slot[s]) /\ IsLive(slot[t]) => s = t
    BY DEF PInv, BothOK, SlotsOK
  <2>3. advancing.run # 0 =>
          advancing.slot \in SlotIds /\ slot[advancing.slot].state = "starting"
    BY DEF PInv, AdvanceOK
  <2>4. QED
    BY <2>1, <2>2, <2>3 DEF OneChallengePlays, Known, IsLive
<1>2. QED
  BY <1>1, InitInv, NextInv, PTL DEF ProgramSpec

\* No winner of a vote is lost or queued twice, through failed writes, crashes
\* between the two files and repeated closes (enqueueVoteWinner, close).
THEOREM WinnersAreQueued == ProgramSpec => []WinnerIsQueued
<1>1. PInv => WinnerIsQueued
  <2> SUFFICES ASSUME PInv, NEW v \in VoteIds, NEW p \in {program, savedProgram}
               PROVE  /\ Cardinality({s \in SlotIds : p.slots[s].vote = v}) <= 1
                      /\ "closed" \in {votes[v], savedVotes[v]} =>
                           \E s \in SlotIds : p.slots[s].vote = v
    BY DEF WinnerIsQueued
  <2> DEFINE S == {s \in SlotIds : p.slots[s].vote = v}
  <2>1. SlotsOK(p.slots, runs) /\ v # NoVoteId /\ SameVotes(slot, p.slots)
    BY ProgramAssumption DEF PInv, BothOK, SavedOK, SameVotes, slot
  <2>2. \A s, t \in S : s = t
    BY <2>1 DEF SlotsOK
  <2>3. Cardinality(S) <= 1
    <3>1. CASE S = {}
      BY <3>1, FS_EmptySet
    <3>2. ASSUME NEW s \in S
          PROVE  Cardinality(S) = 1
      <4>1. S = {s}
        BY <2>2
      <4> HIDE DEF S
      <4>2. QED
        BY <4>1, FS_Singleton
    <3>3. QED
      BY <3>1, <3>2
  <2>4. "closed" \in {votes[v], savedVotes[v]} => S # {}
    BY <2>1 DEF PInv, VotesOK, Queued, SameVotes
  <2>5. QED
    BY <2>3, <2>4
<1>2. QED
  BY <1>1, InitInv, NextInv, PTL DEF ProgramSpec

\* What the two theorems above leave open of the types: a vote past its check is
\* one of VoteIds, and the faults are within their bound.
RestTyped == opening \subseteq VoteIds /\ programFaults \in 0 .. MaxProgramFaults

LEMMA RestTypedStep ==
  ASSUME RestTyped, [ProgramNext]_programVars
  PROVE  RestTyped'
<1> USE DEF RestTyped
<1>1. programFaults' = programFaults \/ ProgramFault => programFaults' \in 0 .. MaxProgramFaults
  BY ProgramAssumption DEF ProgramFault
<1>2. ASSUME NEW s \in SlotIds, SlotRequest(s)
      PROVE  RestTyped'
  BY <1>1, <1>2 DEF SlotRequest, SlotAdd, SlotDrop, SlotCancel, SlotRetry, AdvancePick,
                    SaveProgram
<1>3. CASE SetPaused \/ AdvanceLaunch \/ AdvanceRecord
  BY <1>1, <1>3 DEF SetPaused, AdvanceLaunch, AdvanceRecord, SaveProgram
<1>4. ASSUME NEW r \in DOMAIN runs, RunEnds(r) \/ RunEvicted(r) \/ FinishRun(r)
      PROVE  RestTyped'
  BY <1>1, <1>4 DEF RunEnds, RunEvicted, FinishRun, SaveProgram
<1>5. ASSUME NEW v \in VoteIds, VoteRequest(v)
      PROVE  RestTyped'
  BY <1>1, <1>5 DEF VoteRequest, VoteCheck, VoteOpen, VoteCancel, VoteResolve, SaveVotes
<1>6. CASE VoteQueue \/ VoteClose \/ ProgramRestart
  BY <1>1, <1>6 DEF VoteQueue, VoteClose, ProgramRestart, SaveVotes
<1>7. CASE UNCHANGED programVars
  BY <1>7 DEF programVars
<1>8. QED
  BY <1>2, <1>3, <1>4, <1>5, <1>6, <1>7 DEF ProgramNext

\* Every variable keeps its type; in particular no slot, in memory or on disk,
\* names a run that was never launched, whatever was lost or restarted.
THEOREM ProgramTypeCorrect == ProgramSpec => []ProgramTypeOK
<1>1. PInv /\ RestTyped => ProgramTypeOK
  <2> SUFFICES ASSUME PInv, RestTyped
               PROVE  ProgramTypeOK
    OBVIOUS
  <2>1. ASSUME NEW p \in {program, savedProgram}
        PROVE  /\ p.slots \in [SlotIds -> SlotRecords] /\ p.paused \in BOOLEAN
               /\ \A s \in SlotIds : p.slots[s].run <= Len(runs)
    <3>1. p \in Programs /\ SlotsOK(p.slots, runs)
      BY DEF PInv, BothOK, slot
    <3>2. QED
      BY <3>1 DEF Programs, SlotsOK, SlotFunctions, Fitting
  <2>2. \A r \in DOMAIN runs : runs[r] \in {"open", "good", "bad", "gone"}
    BY DEF PInv, PlaysOK, PlayStates
  <2>3. QED
    BY <2>1, <2>2 DEF PInv, PlaysOK, AdvanceOK, VotesOK, VoteStates, RestTyped,
                      ProgramTypeOK
<1>2. ProgramInit => RestTyped
  BY ProgramAssumption DEF ProgramInit, RestTyped
<1>3. QED
  BY <1>1, <1>2, InitInv, NextInv, RestTypedStep, PTL DEF ProgramSpec

-----------------------------------------------------------------------------
(* The services together.                                                    *)

\* Whatever the others do, each service behaves as it does alone.
LEMMA EachService ==
  ServicesSpec => RenderSpec /\ PubSpec /\ IssueSpec /\ ProgramSpec /\ HostSpec
<1> DEFINE allVars == <<renderVars, pubVars, issueVars, programVars, hostedVars>>
<1>1. ServicesInit => RenderInit /\ PubInit /\ IssueInit /\ ProgramInit /\ HostInit
  BY DEF ServicesInit
<1>2. [ServicesNext]_allVars => /\ [RenderNext]_renderVars /\ [PubNext]_pubVars
                                /\ [IssueNext]_issueVars /\ [ProgramNext]_programVars
                                /\ [HostNext]_hostedVars
  BY DEF ServicesNext
<1>3. QED
  BY <1>1, <1>2, PTL
     DEF ServicesSpec, RenderSpec, PubSpec, IssueSpec, ProgramSpec, HostSpec

\* The render jobs, candidates, outbox rows, programme and hosts keep their types,
\* for every size of the five services.
THEOREM ServicesTypeCorrect == ServicesSpec => []ServicesTypeOK
<1>1. RenderTypeOK /\ PubTypeOK /\ IssueTypeOK /\ ProgramTypeOK /\ HostTypeOK
        => ServicesTypeOK
  BY DEF ServicesTypeOK
<1>2. QED
  BY <1>1, EachService, RenderTypeCorrect, PubTypeCorrect, IssueTypeCorrect,
     ProgramTypeCorrect, HostTypeCorrect, PTL
=============================================================================
