--------------------------- MODULE StudioPublish ---------------------------
(***************************************************************************)
(* The review-first publication queue of pokereplay and the resumable      *)
(* YouTube uploader behind it (studio_publications.go, youtube_publish.go, *)
(* media/publication/queue.go), for the candidates of one run.             *)
(*                                                                         *)
(* Candidates, their index and the uploader's records are objects in the   *)
(* store; the set of active uploads is in the memory of the one publisher. *)
(* Every handler runs under studioPublishMu, the upload itself does not.   *)
(* The quality gates and the channel's pacing may refuse a request at any  *)
(* time: a refusal changes nothing.  The provider keeps finished sessions. *)
(***************************************************************************)
EXTENDS Naturals, FiniteSets

CONSTANTS Candidates,
          Format,        \* the format of each candidate
          MaxPubFaults   \* failed writes and calls, crashes, lost sessions

ASSUME PubAssumption ==
  MaxPubFaults \in Nat /\ Format \in [Candidates -> {"episode", "short"}]

VARIABLES candidate,  \* the stored candidates
          indexed,    \* the run's index of them
          record,     \* the uploader's stored records
          upload,     \* the uploads under way in the publisher
          sessions,   \* upload sessions the provider opened, per candidate
          dropped,    \* unfinished sessions it dropped
          videos,     \* sessions that became a video
          pubFaults

store    == <<candidate, indexed, record>>
provider == <<sessions, dropped, videos>>
pubVars  == <<store, upload, provider, pubFaults>>

CandidateStates == {"none", "queued", "blocked", "rendering", "approved",
                    "publishing", "published", "failed", "skipped"}
RecordStates == {"none", "uploading", "published", "failed"}
UploadPhases == {"idle", "open", "send", "record", "finish"}

\* session is the copy in memory, ok the outcome once there is one.
Idle == [phase |-> "idle", session |-> 0, ok |-> FALSE]
Active(c) == upload[c].phase # "idle"
HasVideo(c) == \E n \in 1 .. sessions[c] : <<c, n>> \in videos

PubInit ==
  /\ candidate = [c \in Candidates |->
       [state |-> "none", approved |-> FALSE, thumbFailed |-> FALSE]]
  /\ indexed = {}
  /\ record = [c \in Candidates |-> [state |-> "none", session |-> 0]]
  /\ upload = [c \in Candidates |-> Idle]
  /\ sessions = [c \in Candidates |-> 0]
  /\ dropped = {} /\ videos = {}
  /\ pubFaults = 0

PubFault == pubFaults < MaxPubFaults /\ pubFaults' = pubFaults + 1
PubNoFault == UNCHANGED pubFaults

\* Mutant of ShownUploading: any unfinished record counts as interrupted.
ShownInterrupted(c) == "failed"

ShownUploading(c) == IF Active(c) THEN "publishing" ELSE "failed"

\* publicationStatus: what the store and the active uploads say together.
Status(c) ==
  LET k == candidate[c] IN
  IF k.approved /\ k.state \in {"publishing", "failed", "published"}
       /\ record[c].state # "none"
    THEN IF record[c].state = "uploading" THEN ShownUploading(c)
                                          ELSE record[c].state
    ELSE k.state

-----------------------------------------------------------------------------
(* Requests.                                                               *)

\* The index is written after the candidate; a second request repairs it.
PubCreate(c) ==
  /\ \/ /\ candidate[c].state = "none"
        /\ \E s \in {"queued", "blocked", "rendering", "skipped"} :
             candidate' = [candidate EXCEPT ![c].state = s]
     \/ candidate[c].state # "none" /\ UNCHANGED candidate
  /\ \/ indexed' = indexed \cup {c} /\ PubNoFault
     \/ UNCHANGED indexed /\ PubFault
  /\ UNCHANGED <<record, upload, provider>>

Stored(c, s, ok) ==
  candidate' = [candidate EXCEPT ![c].state = s, ![c].approved = ok]

\* A candidate whose record cannot be read is taken as it is stored.
Decide(c, refused, s, ok) ==
  /\ \/ Status(c) \notin refused /\ Stored(c, s, ok) /\ PubNoFault
     \/ candidate[c].state \notin refused /\ Stored(c, s, ok) /\ PubFault
     \/ Status(c) \notin refused /\ UNCHANGED candidate /\ PubFault
  /\ UNCHANGED <<indexed, record, upload, provider>>

PubApprove(c) ==
  Decide(c, {"none", "skipped", "published", "publishing"}, "approved", TRUE)

PubReject(c) ==
  Decide(c, {"none", "published", "publishing"}, "skipped", FALSE)

\* retry-thumbnail stores the candidate as it is shown.
PubThumbnail(c) ==
  /\ Status(c) = "published" /\ candidate[c].thumbFailed
  /\ candidate' = [candidate EXCEPT ![c].state = "published",
                                    ![c].thumbFailed = FALSE]
  /\ UNCHANGED <<indexed, record, upload, provider, pubFaults>>

\* The states the duplicate gate reads: as shown, or as stored when a record
\* cannot be read.
AsShown  == [d \in Candidates |-> Status(d)]
AsStored == [d \in Candidates |-> candidate[d].state]

DuplicateFormat(c, states) ==
  \E d \in indexed \ {c} :
    Format[d] = Format[c] /\ states[d] \in {"published", "publishing"}

\* Mutant of ChannelFree: only candidates that are in the index are looked at.
IndexedFree == \A c \in indexed : ~Active(c)

ChannelFree == \A c \in Candidates : ~Active(c)

Dispatchable(c) ==
  /\ candidate[c].approved /\ Status(c) \in {"approved", "failed"}
  /\ ChannelFree

\* Mutant of DispatchWrites: the candidate is written before the record.
WritesSwapped(c, n) ==
  /\ candidate' =
       IF n >= 1 THEN [candidate EXCEPT ![c].state = "publishing"] ELSE candidate
  /\ record' = IF n >= 2 THEN [record EXCEPT ![c].state = "uploading"] ELSE record

\* The first n of three writes succeed: the record, the candidate and the
\* channel's checkpoint.
DispatchWrites(c, n) ==
  /\ record' = IF n >= 1 THEN [record EXCEPT ![c].state = "uploading"] ELSE record
  /\ candidate' =
       IF n >= 2 THEN [candidate EXCEPT ![c].state = "publishing"] ELSE candidate

Starts(c) ==
  /\ DispatchWrites(c, 3)
  /\ upload' = [upload EXCEPT ![c] =
       [phase |-> "open", session |-> record[c].session, ok |-> FALSE]]

\* A write that fails ends the request; after all three the upload starts from
\* the recorded session.
PubPublish(c) ==
  /\ Dispatchable(c)
  /\ record[c].state # "published"
  /\ \/ ~DuplicateFormat(c, AsShown) /\ Starts(c) /\ PubNoFault
     \/ ~DuplicateFormat(c, AsStored) /\ Starts(c) /\ PubFault
     \/ /\ ~DuplicateFormat(c, AsShown)
        /\ \E n \in 0 .. 2 : DispatchWrites(c, n)
        /\ PubFault
        /\ UNCHANGED upload
  /\ UNCHANGED <<indexed, provider>>

\* A candidate whose record is published already only takes its outcome over;
\* a write that fails is ignored.
PubAdopt(c) ==
  /\ Dispatchable(c)
  /\ record[c].state = "published"
  /\ ~DuplicateFormat(c, AsShown)
  /\ \/ Stored(c, "published", TRUE) /\ PubNoFault
     \/ UNCHANGED candidate /\ PubFault
  /\ UNCHANGED <<indexed, record, upload, provider>>

-----------------------------------------------------------------------------
(* The upload: publishYouTube and uploadYouTube.                           *)

Session(c) == <<c, upload[c].session>>
Go(c, phase) == upload' = [upload EXCEPT ![c].phase = phase]
Outcome(c, ok) == upload' = [upload EXCEPT ![c].phase = "record", ![c].ok = ok]

\* A failed call is tried again, or the attempts are used up.
Again(c) == PubFault /\ (Go(c, "open") \/ Outcome(c, FALSE))

\* A recorded session is asked first: finished, dropped, or resumed.
UploadQuery(c) ==
  /\ upload[c].phase = "open" /\ upload[c].session # 0
  /\ \/ Session(c) \in videos /\ Outcome(c, TRUE) /\ PubNoFault
     \/ /\ Session(c) \in dropped
        /\ upload' = [upload EXCEPT ![c].session = 0]
        /\ PubNoFault
     \/ Session(c) \notin videos \cup dropped /\ Go(c, "send") /\ PubNoFault
     \/ Again(c)
  /\ UNCHANGED <<store, provider>>

\* Mutant of RecordSession: the session is only kept in memory.
KeepSession(c, n) == UNCHANGED record

RecordSession(c, n) == record' = [record EXCEPT ![c].session = n]

\* A new session is recorded before anything is sent to it.
UploadSession(c) ==
  /\ upload[c].phase = "open" /\ upload[c].session = 0
  /\ LET n == sessions[c] + 1 IN
     \/ /\ sessions' = [sessions EXCEPT ![c] = n]
        /\ \/ /\ RecordSession(c, n)
              /\ upload' = [upload EXCEPT ![c].session = n, ![c].phase = "send"]
              /\ PubNoFault
           \/ /\ upload' = [upload EXCEPT ![c] =
                   [phase |-> "record", session |-> n, ok |-> FALSE]]
              /\ PubFault
              /\ UNCHANGED record
     \/ Outcome(c, FALSE) /\ PubFault /\ UNCHANGED <<record, sessions>>
  /\ UNCHANGED <<candidate, indexed, dropped, videos>>

\* The video exists once the last byte is in, whether or not the answer comes;
\* bytes for a dropped session are refused.
UploadSend(c) ==
  /\ upload[c].phase = "send"
  /\ \/ /\ Session(c) \notin dropped
        /\ videos' = videos \cup {Session(c)}
        /\ (Outcome(c, TRUE) /\ PubNoFault) \/ Again(c)
     \/ /\ Session(c) \in dropped
        /\ (Go(c, "open") \/ Outcome(c, FALSE)) /\ PubNoFault
        /\ UNCHANGED videos
     \/ Again(c) /\ UNCHANGED videos
  /\ UNCHANGED <<store, sessions, dropped>>

\* Mutant of Recorded: the error is lost.
ErrorLost(c) == [state |-> "published", session |-> 0]

Recorded(c) ==
  IF upload[c].ok THEN [state |-> "published", session |-> 0]
                  ELSE [state |-> "failed", session |-> upload[c].session]

\* The outcome is recorded, or only logged; a video clears the session.
UploadRecord(c) ==
  /\ upload[c].phase = "record"
  /\ \/ record' = [record EXCEPT ![c] = Recorded(c)] /\ PubNoFault
     \/ UNCHANGED record /\ PubFault
  /\ Go(c, "finish")
  /\ UNCHANGED <<candidate, indexed, provider>>

\* Mutant of Release: the upload stays claimed.
StillClaimed(c) == UNCHANGED upload

Release(c) == upload' = [upload EXCEPT ![c] = Idle]

\* Back under the mutex: the copy made at dispatch is stored over whatever is
\* there, the upload given up.
UploadFinish(c) ==
  /\ upload[c].phase = "finish"
  /\ \/ /\ \E thumbFailed \in {FALSE, upload[c].ok} :
             candidate' = [candidate EXCEPT ![c] =
               [state |-> IF upload[c].ok THEN "published" ELSE "failed",
                approved |-> TRUE, thumbFailed |-> thumbFailed]]
        /\ PubNoFault
     \/ UNCHANGED candidate /\ PubFault
  /\ Release(c)
  /\ UNCHANGED <<indexed, record, provider>>

\* The publisher restarts; the provider drops an unfinished session.
PubCrash ==
  /\ PubFault
  /\ upload' = [c \in Candidates |-> Idle]
  /\ UNCHANGED <<store, provider>>

PubDrop(c) ==
  /\ PubFault
  /\ \E n \in 1 .. sessions[c] :
       <<c, n>> \notin videos /\ dropped' = dropped \cup {<<c, n>>}
  /\ UNCHANGED <<store, upload, sessions, videos>>

-----------------------------------------------------------------------------
PubRequest(c) ==
  PubCreate(c) \/ PubApprove(c) \/ PubReject(c) \/ PubThumbnail(c)
    \/ PubPublish(c) \/ PubAdopt(c)

Uploader(c) ==
  UploadQuery(c) \/ UploadSession(c) \/ UploadSend(c) \/ UploadRecord(c)
    \/ UploadFinish(c)

PubNext ==
  \/ \E c \in Candidates : PubRequest(c) \/ Uploader(c) \/ PubDrop(c)
  \/ PubCrash

PubSpec == PubInit /\ [][PubNext]_pubVars

\* Every call of the upload has a timeout.
PubFairness == \A c \in Candidates : WF_pubVars(Uploader(c))

-----------------------------------------------------------------------------
(* Properties.                                                             *)

\* Every variable has its type.
PubTypeOK ==
  /\ candidate \in [Candidates -> [state : CandidateStates, approved : BOOLEAN,
                                   thumbFailed : BOOLEAN]]
  /\ indexed \subseteq Candidates
  /\ record \in [Candidates -> [state : RecordStates, session : Nat]]
  /\ upload \in [Candidates -> [phase : UploadPhases, session : Nat, ok : BOOLEAN]]
  /\ sessions \in [Candidates -> Nat]
  /\ \A p \in dropped \cup videos : p[1] \in Candidates /\ p[2] \in 1 .. sessions[p[1]]
  /\ pubFaults \in 0 .. MaxPubFaults

\* An upload that finished is not repeated: whatever is lost, crashed or
\* retried, a candidate becomes one video at most.
OneVideoPerCandidate ==
  \A p, q \in videos : p[1] = q[1] => p = q

\* No video without an approval that still stands when its last byte arrives:
\* a rejection is refused while the upload is under way, and an interrupted
\* upload is not resumed after one.
VideoNeedsApproval ==
  [][\A p \in videos' \ videos : candidate[p[1]].approved]_pubVars

\* A candidate shown as publishing has an upload under way: nothing else
\* would end that state, in which it can be neither rejected nor retried.
PublishingIsLive ==
  \A c \in Candidates : Status(c) = "publishing" => Active(c)

\* A candidate shown as published is a video at the provider.
PublishedHasVideo ==
  \A c \in Candidates : Status(c) = "published" => HasVideo(c)

\* The channel takes one upload at a time.
OneChannelUpload ==
  \A c, d \in Candidates : Active(c) /\ Active(d) => c = d

\* Every upload comes to an end.
UploadsEnd == \A c \in Candidates : Active(c) ~> ~Active(c)
=============================================================================
