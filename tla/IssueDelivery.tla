---------------------------- MODULE IssueDelivery ----------------------------
(***************************************************************************)
(* From a failed objective to its GitHub issue, for the occurrences of one *)
(* failure family: the rows written with each finish report, the delivery  *)
(* loop, the wall's issue link and outbox, the pokeissues adapter, and the *)
(* status sync, the investigate request and the triage dismissal beside it *)
(* (cmd/pokewall: control_plane_failures.go, objective_failures.go,        *)
(* quarantine.go, issues.go, failure_circuit.go; cmd/pokeissues/main.go).  *)
(*                                                                         *)
(* Every occurrence is blocking and carries a structured identity.  A      *)
(* failed call may or may not have reached GitHub, but does not reach it   *)
(* after the failure was seen.  The circuit itself is in PauseControl.     *)
(***************************************************************************)
EXTENDS Naturals, Sequences

CONSTANTS Occurrences,   \* failed runs of the family
          Fresh,         \* those of a build that is not older than the fix
          NoOccurrence,
          MaxTriage,     \* bound: changes of the issue by maintainers
          MaxIssueFaults \* bound: failed calls and writes, restarts

ASSUME IssueAssumption ==
  /\ Fresh \subseteq Occurrences
  /\ NoOccurrence \notin Occurrences
  /\ MaxTriage \in Nat /\ MaxIssueFaults \in Nat

VARIABLES
  row,        \* delivery_status of each occurrence in the database
  link,       \* the wall's IssueLink of the family
  outbox,     \* its outbox entries
  savedIssue, \* link and outbox as last persisted
  batch,      \* occurrences the delivery loop has still to visit
  delivery,   \* the delivery under way
  fetched,    \* what the status sync read, not yet applied
  asked,      \* the link an investigate request read, not yet written back
  dismissing, \* a dismissal that found no link in memory
  issues,     \* the family's issues at GitHub
  triage, issueFaults

issueMemory == <<link, outbox>>
sideVars    == <<fetched, asked, dismissing>>
issueVars   == <<row, issueMemory, savedIssue, batch, delivery, sideVars,
                 issues, triage, issueFaults>>

IssueStates == {"open", "fixed", "dismissed"}
LinkStatus == {"open", "investigating", "resolved"}
Resolutions == {"", "fixed", "not_planned"}
NoLink == [linked |-> FALSE, status |-> "", resolution |-> ""]
Links == {NoLink} \cup [linked : {TRUE}, status : LinkStatus, resolution : Resolutions]

\* answer is the status GitHub reported, result the row's next status.
NoDelivery == [item |-> NoOccurrence, phase |-> "idle", answer |-> "", result |-> ""]

IssueInit ==
  /\ row = [o \in Occurrences |-> "none"]
  /\ link = NoLink
  /\ outbox = [o \in Occurrences |-> "none"]
  /\ savedIssue = [link |-> link, outbox |-> outbox]
  /\ batch = {}
  /\ delivery = NoDelivery
  /\ fetched = "" /\ asked = NoLink /\ dismissing = FALSE
  /\ issues = <<>>
  /\ triage = 0 /\ issueFaults = 0

IssueFault == issueFaults < MaxIssueFaults /\ issueFaults' = issueFaults + 1
IssueNoFault == UNCHANGED issueFaults

-----------------------------------------------------------------------------
(* The delivery loop.                                                      *)

\* The finish transaction writes the row; a repeated report leaves it alone.
\* A build with the fix exists once the issue was closed.
Occur(o) ==
  /\ row[o] = "none"
  /\ o \in Fresh => triage > 0
  /\ row' = [row EXCEPT ![o] = "pending"]
  /\ UNCHANGED <<issueMemory, savedIssue, batch, delivery, sideVars, issues,
                 triage, issueFaults>>

\* Mutant of Deliverable: a delivered row is never looked at again.
PendingOnly(o) == row[o] = "pending"

Deliverable(o) ==
  row[o] = "pending" \/ (row[o] = "complete" /\ ~savedIssue.link.linked)

LoadBatch ==
  /\ delivery = NoDelivery /\ batch = {}
  /\ \E o \in Occurrences : Deliverable(o)
  /\ batch' = {o \in Occurrences : Deliverable(o)}
  /\ UNCHANGED <<row, issueMemory, savedIssue, delivery, sideVars, issues,
                 triage, issueFaults>>

\* classifyIssueOccurrence
Quarantines(l) ==
  l.linked /\ (l.status # "resolved" \/ l.resolution = "not_planned")

Delivered(o) == link.linked /\ outbox[o] \in {"complete", "quarantined"}

\* What the wall knows decides whether GitHub is told at all.  A circuit's call
\* for an investigation that fails leaves the occurrence to be tried again.
Deliver(o) ==
  LET Goes(phase, result) ==
        delivery' = [NoDelivery EXCEPT !.item = o, !.phase = phase,
                                       !.result = result]
  IN
  /\ delivery = NoDelivery /\ o \in batch
  /\ batch' = batch \ {o}
  /\ \/ Delivered(o) /\ Goes("mark", "complete") /\ UNCHANGED <<outbox, issueFaults>>
     \/ /\ ~Delivered(o) /\ Quarantines(link)
        /\ \/ /\ Goes("mark", "complete")
              /\ outbox' = [outbox EXCEPT ![o] = "quarantined"]
              /\ IssueNoFault
           \/ Goes("mark", "pending") /\ IssueFault /\ UNCHANGED outbox
     \/ /\ ~Delivered(o) /\ ~Quarantines(link)
        /\ Goes("report", "")
        /\ UNCHANGED <<outbox, issueFaults>>
  /\ UNCHANGED <<row, link, savedIssue, sideVars, issues, triage>>

-----------------------------------------------------------------------------
(* pokeissues: find by fingerprint, then create, reopen or comment.        *)

\* Mutant of Found: closed issues are not searched.
FoundOpen == {n \in DOMAIN issues : issues[n] = "open"}

\* findIssue searches all states, the newest issue first.
Found == DOMAIN issues

Newest(S) == CHOOSE n \in S : \A m \in S : m <= n

\* report: an occurrence older than the fix leaves the issue closed.
Received(o) ==
  IF Found = {} THEN Append(issues, "open")
  ELSE LET n == Newest(Found) IN
       IF issues[n] = "fixed" /\ o \in Fresh
         THEN [issues EXCEPT ![n] = "open"] ELSE issues

StatusOf(s) == IF s = "open" THEN "open" ELSE "resolved"

Reporting(phase) == delivery.phase = phase
Then(phase, answer, result) ==
  delivery' = [delivery EXCEPT !.phase = phase, !.answer = answer, !.result = result]

\* Mutant of FailedStatus: the error is logged and forgotten.
ErrorSwallowed == {"complete"}

\* A failure is retried by the loop or kept as an error, by its kind.
FailedStatus == {"pending", "error"}

ReportIssue ==
  /\ Reporting("report")
  /\ \/ /\ issues' = Received(delivery.item)
        /\ Then("link", StatusOf(issues'[Newest(DOMAIN issues')]), "")
        /\ IssueNoFault
        /\ UNCHANGED outbox
     \/ /\ issues' \in {issues, Received(delivery.item)}
        /\ outbox' = [outbox EXCEPT ![delivery.item] = "error"]
        /\ \E result \in FailedStatus : Then("mark", "", result)
        /\ IssueFault
     \/ /\ issues' = Received(delivery.item)
        /\ Then("mark", "", "pending")
        /\ IssueFault
        /\ UNCHANGED outbox
  /\ UNCHANGED <<row, link, savedIssue, batch, sideVars, triage>>

\* The status comes with the answer; the resolution stays what it was.
LinkIssue ==
  /\ Reporting("link")
  /\ link' = [link EXCEPT !.linked = TRUE, !.status = delivery.answer]
  /\ outbox' = [outbox EXCEPT ![delivery.item] = "complete"]
  /\ Then("mark", "", "complete")
  /\ UNCHANGED <<row, savedIssue, batch, sideVars, issues, triage, issueFaults>>

\* The status is written over whatever the row has become meanwhile.
MarkRow ==
  /\ Reporting("mark")
  /\ \/ row' = [row EXCEPT ![delivery.item] = delivery.result] /\ IssueNoFault
     \/ UNCHANGED row /\ IssueFault
  /\ Then("persist", "", "")
  /\ UNCHANGED <<issueMemory, savedIssue, batch, sideVars, issues, triage>>

Current == [link |-> link, outbox |-> outbox]

PersistDelivery ==
  /\ Reporting("persist")
  /\ \/ savedIssue' = Current /\ IssueNoFault
     \/ UNCHANGED savedIssue /\ IssueFault
  /\ delivery' = NoDelivery
  /\ UNCHANGED <<row, issueMemory, batch, sideVars, issues, triage>>

-----------------------------------------------------------------------------
(* Beside the loop.                                                        *)

\* RunControlPlaneSweep, and every mutation that persists the wall.
IssueSweep ==
  /\ savedIssue # Current
  /\ savedIssue' = Current
  /\ UNCHANGED <<row, issueMemory, batch, delivery, sideVars, issues, triage,
                 issueFaults>>

\* syncIssueStatuses: GetIssue, then the wall's lock.
SyncFetch ==
  /\ link.linked /\ fetched = ""
  /\ fetched' = issues[Newest(DOMAIN issues)]
  /\ UNCHANGED <<row, issueMemory, savedIssue, batch, delivery, asked,
                 dismissing, issues, triage, issueFaults>>

SyncApply ==
  /\ fetched # ""
  /\ link' = [linked |-> TRUE, status |-> StatusOf(fetched),
              resolution |-> CASE fetched = "open" -> ""
                               [] fetched = "fixed" -> "fixed"
                               [] fetched = "dismissed" -> "not_planned"]
  /\ fetched' = ""
  /\ UNCHANGED <<row, outbox, savedIssue, batch, delivery, asked, dismissing,
                 issues, triage, issueFaults>>

\* handleInvestigate writes back the link it read before the remote call.
InvestigateRead ==
  /\ link.linked /\ link.status # "investigating" /\ asked = NoLink
  /\ asked' = link
  /\ UNCHANGED <<row, issueMemory, savedIssue, batch, delivery, fetched,
                 dismissing, issues, triage, issueFaults>>

InvestigateWrite ==
  /\ asked # NoLink
  /\ link' = [asked EXCEPT !.status = "investigating"]
  /\ asked' = NoLink
  /\ UNCHANGED <<row, outbox, savedIssue, batch, delivery, fetched, dismissing,
                 issues, triage, issueFaults>>

\* handleDismissTriages: no link in memory, then none in the database.
DismissCheck ==
  /\ ~link.linked /\ ~dismissing
  /\ dismissing' = TRUE
  /\ UNCHANGED <<row, issueMemory, savedIssue, batch, delivery, fetched, asked,
                 issues, triage, issueFaults>>

DismissCommit ==
  /\ dismissing
  /\ dismissing' = FALSE
  /\ row' = [o \in Occurrences |->
       IF row[o] # "none" /\ ~savedIssue.link.linked THEN "dismissed" ELSE row[o]]
  /\ UNCHANGED <<issueMemory, savedIssue, batch, delivery, fetched, asked,
                 issues, triage, issueFaults>>

\* Maintainers close the issue, or open it again.
Triage(s) ==
  /\ issues # <<>> /\ triage < MaxTriage
  /\ LET n == Newest(DOMAIN issues) IN
     issues[n] # s /\ issues' = [issues EXCEPT ![n] = s]
  /\ triage' = triage + 1
  /\ UNCHANGED <<row, issueMemory, savedIssue, batch, delivery, sideVars,
                 issueFaults>>

\* The wall restarts and gives orphaned errors another try.
IssueRestart ==
  /\ IssueFault
  /\ link' = savedIssue.link /\ outbox' = savedIssue.outbox
  /\ row' = [o \in Occurrences |->
       IF row[o] = "error" /\ ~savedIssue.link.linked THEN "pending" ELSE row[o]]
  /\ batch' = {} /\ delivery' = NoDelivery
  /\ fetched' = "" /\ asked' = NoLink /\ dismissing' = FALSE
  /\ UNCHANGED <<savedIssue, issues, triage>>

-----------------------------------------------------------------------------
DeliveryStep ==
  \/ LoadBatch
  \/ \E o \in Occurrences : Deliver(o)
  \/ ReportIssue \/ LinkIssue \/ MarkRow \/ PersistDelivery

IssueNext ==
  \/ \E o \in Occurrences : Occur(o)
  \/ DeliveryStep
  \/ IssueSweep
  \/ SyncFetch \/ SyncApply
  \/ InvestigateRead \/ InvestigateWrite
  \/ DismissCheck \/ DismissCommit
  \/ \E s \in IssueStates : Triage(s)
  \/ IssueRestart

IssueSpec == IssueInit /\ [][IssueNext]_issueVars

\* Both loops run for ever and every remote call has a timeout.
IssueFairness == WF_issueVars(DeliveryStep) /\ WF_issueVars(IssueSweep)

-----------------------------------------------------------------------------
(* Properties.                                                             *)

\* Every variable has its type.
IssueTypeOK ==
  /\ row \in [Occurrences -> {"none", "pending", "complete", "error", "dismissed"}]
  /\ link \in Links
  /\ outbox \in [Occurrences -> {"none", "complete", "quarantined", "error"}]
  /\ savedIssue.link \in Links
  /\ savedIssue.outbox \in [Occurrences -> {"none", "complete", "quarantined", "error"}]
  /\ batch \subseteq Occurrences
  /\ delivery.item \in Occurrences \cup {NoOccurrence}
  /\ delivery.phase \in {"idle", "report", "link", "mark", "persist"}
  /\ fetched \in {""} \cup IssueStates
  /\ asked \in Links /\ dismissing \in BOOLEAN
  /\ \A n \in DOMAIN issues : issues[n] \in IssueStates
  /\ triage \in 0 .. MaxTriage /\ issueFaults \in 0 .. MaxIssueFaults

\* A family has one issue: whatever answer, row or link was lost and however
\* often the delivery was repeated.
OneIssuePerFamily == Len(issues) <= 1

\* Whatever the wall takes for told, in memory, in the database or in a row,
\* has an issue behind it.
ToldIsTrue ==
  (link.linked \/ savedIssue.link.linked \/ \E o \in Occurrences : row[o] = "complete")
    => issues # <<>>

\* A recorded failure is told in the end, and the link to its issue durable;
\* or its delivery was refused for good, or an operator dismissed it.
FailuresAreTold ==
  \A o \in Occurrences :
    (row[o] = "pending") ~>
      \/ row[o] = "complete" /\ savedIssue.link.linked
      \/ row[o] \in {"error", "dismissed"}
=============================================================================
