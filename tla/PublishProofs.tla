--------------------------- MODULE PublishProofs ---------------------------
(***************************************************************************)
(* Theorems about StudioPublish for every set of candidates and any number *)
(* of faults.  Each invariant is proved action by action; Next is split    *)
(* once, in PubSteps.                                                      *)
(***************************************************************************)
EXTENDS StudioPublish, TLAPS

\* An action of PubNext, with the steps that differ only in their writes under
\* one head; a stuttering step is one of them.
PubSteps ==
  \/ \E c \in Candidates :
       PubCreate(c) \/ PubApprove(c) \/ PubReject(c) \/ PubThumbnail(c)
         \/ PubPublish(c) \/ PubAdopt(c)
  \/ \E c \in Candidates :
       UploadQuery(c) \/ UploadSession(c) \/ UploadSend(c) \/ UploadRecord(c)
         \/ UploadFinish(c)
  \/ \E c \in Candidates : PubDrop(c)
  \/ PubCrash
  \/ UNCHANGED pubVars

LEMMA NextIsSteps == [PubNext]_pubVars => PubSteps
  BY DEF PubNext, PubSteps, PubRequest, Uploader

-----------------------------------------------------------------------------
(* Type correctness.                                                       *)

StoreOK ==
  /\ candidate \in [Candidates -> [state : CandidateStates, approved : BOOLEAN,
                                   thumbFailed : BOOLEAN]]
  /\ indexed \subseteq Candidates
  /\ record \in [Candidates -> [state : RecordStates, session : Nat]]

Uploads == [phase : UploadPhases, session : Nat, ok : BOOLEAN]

\* Sessions are numbered as the provider opens them: the uploader knows none
\* that was not opened, and sends to none it does not know.
SessionsOK ==
  /\ sessions \in [Candidates -> Nat]
  /\ upload \in [Candidates -> Uploads]
  /\ \A c \in Candidates :
       /\ record[c].session <= sessions[c] /\ upload[c].session <= sessions[c]
       /\ upload[c].phase = "send" => upload[c].session # 0
  /\ dropped \subseteq Candidates \X Nat /\ videos \subseteq Candidates \X Nat
  /\ \A c \in Candidates, n \in Nat :
       <<c, n>> \in dropped \cup videos => n # 0 /\ n <= sessions[c]

FaultsOK == pubFaults \in 0 .. MaxPubFaults

PubTyped == StoreOK /\ SessionsOK /\ FaultsOK

LEMMA Fields ==
  ASSUME SessionsOK, NEW c \in Candidates
  PROVE  /\ upload[c].phase \in UploadPhases /\ upload[c].session \in Nat
         /\ upload[c].ok \in BOOLEAN
         /\ sessions[c] \in Nat
  BY DEF SessionsOK, Uploads

LEMMA FaultsStep ==
  ASSUME FaultsOK, PubSteps
  PROVE  FaultsOK'
<1>0. ASSUME PubFault \/ UNCHANGED pubFaults
      PROVE  FaultsOK'
  BY <1>0, PubAssumption DEF FaultsOK, PubFault
<1> USE DEF PubNoFault
<1>1. ASSUME NEW c \in Candidates,
             PubCreate(c) \/ PubApprove(c) \/ PubReject(c) \/ PubThumbnail(c)
               \/ PubPublish(c) \/ PubAdopt(c)
      PROVE  FaultsOK'
  BY <1>0, <1>1
  DEF PubCreate, PubApprove, PubReject, Decide, PubThumbnail, PubPublish, PubAdopt
<1>2. ASSUME NEW c \in Candidates,
             UploadQuery(c) \/ UploadSession(c) \/ UploadSend(c) \/ UploadRecord(c)
               \/ UploadFinish(c)
      PROVE  FaultsOK'
  BY <1>0, <1>2
  DEF UploadQuery, UploadSession, UploadSend, UploadRecord, UploadFinish, Again
<1>3. ASSUME NEW c \in Candidates, PubDrop(c)
      PROVE  FaultsOK'
  BY <1>0, <1>3 DEF PubDrop
<1>4. CASE PubCrash
  BY <1>0, <1>4 DEF PubCrash
<1>5. CASE UNCHANGED pubVars
  BY <1>0, <1>5 DEF pubVars
<1>6. QED
  BY <1>1, <1>2, <1>3, <1>4, <1>5 DEF PubSteps

LEMMA StoreStep ==
  ASSUME StoreOK, SessionsOK, PubSteps
  PROVE  StoreOK'
<1> USE DEF StoreOK, CandidateStates, RecordStates
<1>1. ASSUME NEW c \in Candidates, PubCreate(c)
      PROVE  StoreOK'
  BY <1>1 DEF PubCreate
<1>2. ASSUME NEW c \in Candidates, PubApprove(c) \/ PubReject(c)
      PROVE  StoreOK'
  BY <1>2 DEF PubApprove, PubReject, Decide, Stored
<1>3. ASSUME NEW c \in Candidates, PubThumbnail(c)
      PROVE  StoreOK'
  BY <1>3 DEF PubThumbnail
<1>4. ASSUME NEW c \in Candidates, PubPublish(c)
      PROVE  StoreOK'
  <2>1. ASSUME NEW n, DispatchWrites(c, n)
        PROVE  record' \in [Candidates -> [state : RecordStates, session : Nat]]
               /\ candidate' \in [Candidates -> [state : CandidateStates,
                                    approved : BOOLEAN, thumbFailed : BOOLEAN]]
    BY <2>1 DEF DispatchWrites
  <2>2. QED
    BY <1>4, <2>1 DEF PubPublish, Starts
<1>5. ASSUME NEW c \in Candidates, PubAdopt(c)
      PROVE  StoreOK'
  BY <1>5 DEF PubAdopt, Stored
<1>6. ASSUME NEW c \in Candidates, UploadSession(c)
      PROVE  StoreOK'
  <2>1. \/ UNCHANGED record
        \/ record' = [record EXCEPT ![c].session = sessions[c] + 1]
    BY <1>6 DEF UploadSession, RecordSession
  <2>2. UNCHANGED <<candidate, indexed>>
    BY <1>6 DEF UploadSession
  <2>3. sessions[c] + 1 \in Nat
    BY DEF SessionsOK
  <2>4. QED
    BY <2>1, <2>2, <2>3
<1>7. ASSUME NEW c \in Candidates, UploadRecord(c)
      PROVE  StoreOK'
  <2>1. Recorded(c) \in [state : RecordStates, session : Nat]
    BY Fields DEF Recorded
  <2>2. UNCHANGED record \/ record' = [record EXCEPT ![c] = Recorded(c)]
    BY <1>7 DEF UploadRecord
  <2>3. UNCHANGED <<candidate, indexed>>
    BY <1>7 DEF UploadRecord
  <2>4. QED
    BY <2>1, <2>2, <2>3
<1>8. ASSUME NEW c \in Candidates, UploadFinish(c)
      PROVE  StoreOK'
  <2>1. ASSUME NEW s \in CandidateStates, NEW t \in BOOLEAN,
               candidate' = [candidate EXCEPT ![c] =
                               [state |-> s, approved |-> TRUE, thumbFailed |-> t]]
        PROVE  candidate' \in [Candidates -> [state : CandidateStates,
                                  approved : BOOLEAN, thumbFailed : BOOLEAN]]
    BY <2>1
  <2>2. {FALSE, upload[c].ok} \subseteq BOOLEAN
    BY Fields
  <2>3. candidate' \in [Candidates -> [state : CandidateStates,
                            approved : BOOLEAN, thumbFailed : BOOLEAN]]
    BY <1>8, <2>1, <2>2 DEF UploadFinish
  <2>4. QED
    BY <1>8, <2>3 DEF UploadFinish
<1>9. ASSUME UNCHANGED store
      PROVE  StoreOK'
  BY <1>9 DEF store
<1>10. ASSUME NEW c \in Candidates, UploadQuery(c) \/ UploadSend(c) \/ PubDrop(c)
       PROVE  StoreOK'
  BY <1>9, <1>10 DEF UploadQuery, UploadSend, PubDrop
<1>11. CASE PubCrash \/ UNCHANGED pubVars
  BY <1>9, <1>11 DEF PubCrash, pubVars
<1>12. QED
  BY <1>1, <1>2, <1>3, <1>4, <1>5, <1>6, <1>7, <1>8, <1>10, <1>11 DEF PubSteps

-----------------------------------------------------------------------------
(* What the actions do, point by point.  The proofs below use these lemmas *)
(* and not the definitions of the actions.                                 *)

Moved(c, phase, n, ok) ==
  /\ upload' \in [Candidates -> Uploads]
  /\ upload'[c] = [phase |-> phase, session |-> n, ok |-> ok]
  /\ \A d \in Candidates \ {c} : upload'[d] = upload[d]

Noted(c, state, n) ==
  /\ record'[c] = [state |-> state, session |-> n]
  /\ \A d \in Candidates \ {c} : record'[d] = record[d]

Only(c) == \A d \in Candidates \ {c} : candidate'[d] = candidate[d]

Kept(c, phase) == Moved(c, phase, upload[c].session, upload[c].ok)
Ended(c, ok) == Moved(c, "record", upload[c].session, ok)

LEMMA MovedTo ==
  ASSUME NEW c \in Candidates, NEW p, NEW n, NEW ok, Moved(c, p, n, ok)
  PROVE  /\ upload'[c].phase = p /\ upload'[c].session = n /\ upload'[c].ok = ok
         /\ \A d \in Candidates \ {c} : upload'[d] = upload[d]
  BY DEF Moved

LEMMA NotedAs ==
  ASSUME NEW c \in Candidates, NEW st, NEW n, Noted(c, st, n)
  PROVE  /\ record'[c].state = st /\ record'[c].session = n
         /\ \A d \in Candidates \ {c} : record'[d] = record[d]
  BY DEF Noted

LEMMA Moves ==
  ASSUME upload \in [Candidates -> Uploads], NEW c \in Candidates
  PROVE  /\ \A p \in UploadPhases : Go(c, p) => Kept(c, p)
         /\ \A ok \in BOOLEAN : Outcome(c, ok) => Ended(c, ok)
         /\ Release(c) => Moved(c, "idle", 0, FALSE)
         /\ upload' = [upload EXCEPT ![c].session = 0] =>
              Moved(c, upload[c].phase, 0, upload[c].ok)
         /\ \A n \in Nat :
              /\ upload' = [upload EXCEPT ![c].session = n, ![c].phase = "send"] =>
                   Moved(c, "send", n, upload[c].ok)
              /\ \A p \in UploadPhases :
                   upload' = [upload EXCEPT ![c] =
                                [phase |-> p, session |-> n, ok |-> FALSE]] =>
                     Moved(c, p, n, FALSE)
<1>1. /\ upload[c] \in Uploads
      /\ upload[c] = [phase |-> upload[c].phase, session |-> upload[c].session,
                      ok |-> upload[c].ok]
  BY DEF Uploads
<1>2. ASSUME NEW u \in Uploads, upload' = [upload EXCEPT ![c] = u]
      PROVE  Moved(c, u.phase, u.session, u.ok)
  BY <1>2 DEF Moved, Uploads
<1>3. ASSUME NEW p \in UploadPhases, NEW n \in Nat, NEW ok \in BOOLEAN
      PROVE  [phase |-> p, session |-> n, ok |-> ok] \in Uploads
  BY DEF Uploads
<1>4. ASSUME NEW p \in UploadPhases, Go(c, p)
      PROVE  Kept(c, p)
  BY <1>1, <1>4 DEF Moved, Kept, Go, Uploads
<1>5. ASSUME NEW ok \in BOOLEAN, Outcome(c, ok)
      PROVE  Ended(c, ok)
  BY <1>1, <1>5 DEF Moved, Ended, Outcome, Uploads, UploadPhases
<1>7. ASSUME upload' = [upload EXCEPT ![c].session = 0]
      PROVE  Moved(c, upload[c].phase, 0, upload[c].ok)
  BY <1>1, <1>7 DEF Moved, Uploads
<1>8. ASSUME NEW n \in Nat,
             upload' = [upload EXCEPT ![c].session = n, ![c].phase = "send"]
      PROVE  Moved(c, "send", n, upload[c].ok)
  BY <1>1, <1>8 DEF Moved, Uploads, UploadPhases
<1>9. ASSUME NEW n \in Nat, NEW p \in UploadPhases,
             upload' = [upload EXCEPT ![c] =
                          [phase |-> p, session |-> n, ok |-> FALSE]]
      PROVE  Moved(c, p, n, FALSE)
  BY <1>2, <1>3, <1>9
<1>10. ASSUME Release(c)
       PROVE  Moved(c, "idle", 0, FALSE)
  <2>1. upload' = [upload EXCEPT ![c] = [phase |-> "idle", session |-> 0, ok |-> FALSE]]
    BY <1>10 DEF Release, Idle
  <2>2. "idle" \in UploadPhases
    BY DEF UploadPhases
  <2>3. QED
    BY <1>9, <2>1, <2>2
<1>11. QED
  BY <1>4, <1>5, <1>7, <1>8, <1>9, <1>10

LEMMA AgainEffect ==
  ASSUME upload \in [Candidates -> Uploads], NEW c \in Candidates, Again(c)
  PROVE  Kept(c, "open") \/ Ended(c, FALSE)
  BY Moves DEF Again, UploadPhases

LEMMA QueryEffect ==
  ASSUME StoreOK, SessionsOK, NEW c \in Candidates, UploadQuery(c)
  PROVE  /\ UNCHANGED <<store, provider>>
         /\ upload[c].phase = "open" /\ upload[c].session # 0
         /\ \/ Session(c) \in videos /\ Ended(c, TRUE)
            \/ Session(c) \in dropped /\ Moved(c, "open", 0, upload[c].ok)
            \/ Session(c) \notin dropped /\ Kept(c, "send")
            \/ Kept(c, "open")
            \/ Ended(c, FALSE)
<1>1. upload \in [Candidates -> Uploads]
  BY DEF SessionsOK
<1>2. QED
  BY <1>1, Moves, AgainEffect DEF UploadQuery, UploadPhases

LEMMA SessionEffect ==
  ASSUME StoreOK, SessionsOK, NEW c \in Candidates, UploadSession(c)
  PROVE  /\ upload[c].phase = "open" /\ upload[c].session = 0
         /\ UNCHANGED <<candidate, indexed, dropped, videos>>
         /\ \/ /\ sessions' = [sessions EXCEPT ![c] = sessions[c] + 1]
               /\ Moved(c, "send", sessions[c] + 1, upload[c].ok)
               /\ Noted(c, record[c].state, sessions[c] + 1)
            \/ /\ sessions' = [sessions EXCEPT ![c] = sessions[c] + 1]
               /\ Moved(c, "record", sessions[c] + 1, FALSE)
               /\ UNCHANGED record
            \/ Ended(c, FALSE) /\ UNCHANGED <<record, sessions>>
<1>1. upload \in [Candidates -> Uploads] /\ sessions[c] + 1 \in Nat
  BY DEF SessionsOK
<1>2. record' = [record EXCEPT ![c].session = sessions[c] + 1] =>
        Noted(c, record[c].state, sessions[c] + 1)
  BY DEF Noted, StoreOK
<1>3. QED
  BY <1>1, <1>2, Moves DEF UploadSession, RecordSession, UploadPhases

LEMMA SendEffect ==
  ASSUME StoreOK, SessionsOK, NEW c \in Candidates, UploadSend(c)
  PROVE  /\ upload[c].phase = "send"
         /\ UNCHANGED <<store, sessions, dropped>>
         /\ \/ /\ Session(c) \notin dropped
               /\ videos' = videos \cup {Session(c)}
            \/ UNCHANGED videos
         /\ Ended(c, TRUE) => Session(c) \in videos'
         /\ Kept(c, "open") \/ Ended(c, FALSE) \/ Ended(c, TRUE)
<1>1. upload \in [Candidates -> Uploads]
  BY DEF SessionsOK
<1>2. Kept(c, "open") \/ Ended(c, FALSE) => ~Ended(c, TRUE)
  BY DEF Kept, Ended, Moved
<1>3. QED
  BY <1>1, <1>2, Moves, AgainEffect DEF UploadSend, UploadPhases

LEMMA RecordEffect ==
  ASSUME StoreOK, SessionsOK, NEW c \in Candidates, UploadRecord(c)
  PROVE  /\ upload[c].phase = "record"
         /\ Kept(c, "finish")
         /\ UNCHANGED <<candidate, indexed, provider>>
         /\ \/ upload[c].ok /\ Noted(c, "published", 0)
            \/ ~upload[c].ok /\ Noted(c, "failed", upload[c].session)
            \/ UNCHANGED record
<1>1. upload \in [Candidates -> Uploads]
  BY DEF SessionsOK
<1>2. ASSUME record' = [record EXCEPT ![c] = Recorded(c)]
      PROVE  \/ upload[c].ok /\ Noted(c, "published", 0)
             \/ ~upload[c].ok /\ Noted(c, "failed", upload[c].session)
  BY <1>2 DEF Noted, StoreOK, Recorded
<1>3. QED
  BY <1>1, <1>2, Moves DEF UploadRecord, UploadPhases

LEMMA FinishEffect ==
  ASSUME StoreOK, SessionsOK, NEW c \in Candidates, UploadFinish(c)
  PROVE  /\ upload[c].phase = "finish"
         /\ Moved(c, "idle", 0, FALSE) /\ Only(c)
         /\ UNCHANGED <<indexed, record, provider>>
         /\ \/ UNCHANGED candidate
            \/ candidate'[c].state = (IF upload[c].ok THEN "published" ELSE "failed")
<1>1. upload \in [Candidates -> Uploads]
  BY DEF SessionsOK
<1>2. QED
  <2>1. Moved(c, "idle", 0, FALSE)
    <3>1. Release(c)
      BY DEF UploadFinish
    <3>2. QED
      BY <1>1, <3>1, Moves
  <2>2. Only(c)
    BY DEF UploadFinish, Only, StoreOK
  <2>3. UNCHANGED candidate \/
          candidate'[c].state = (IF upload[c].ok THEN "published" ELSE "failed")
    BY DEF UploadFinish, StoreOK
  <2>4. QED
    BY <2>1, <2>2, <2>3 DEF UploadFinish

\* The first n of the writes of a dispatch.
LEMMA WritesEffect ==
  ASSUME StoreOK, NEW c \in Candidates, NEW n \in 0 .. 3, DispatchWrites(c, n)
  PROVE  /\ Only(c)
         /\ Noted(c, IF n = 0 THEN record[c].state ELSE "uploading", record[c].session)
         /\ \/ UNCHANGED candidate
            \/ /\ n >= 2
               /\ candidate'[c].state = "publishing"
               /\ candidate'[c].approved = candidate[c].approved
         /\ n = 3 => candidate'[c].state = "publishing"
  BY DEF DispatchWrites, Only, Noted, StoreOK

LEMMA PublishEffect ==
  ASSUME StoreOK, SessionsOK, NEW c \in Candidates, PubPublish(c)
  PROVE  /\ ChannelFree /\ candidate[c].approved /\ record[c].state # "published"
         /\ Only(c) /\ UNCHANGED <<indexed, provider>>
         /\ \/ /\ UNCHANGED upload
               /\ \E n \in 0 .. 2 : DispatchWrites(c, n)
            \/ /\ Moved(c, "open", record[c].session, FALSE)
               /\ DispatchWrites(c, 3)
<1>1. upload \in [Candidates -> Uploads] /\ record[c].session \in Nat
  BY DEF SessionsOK, StoreOK
<1>2. \/ \E n \in 0 .. 2 : DispatchWrites(c, n) /\ UNCHANGED upload
      \/ Starts(c)
  BY DEF PubPublish
<1>3. Starts(c) => Moved(c, "open", record[c].session, FALSE) /\ DispatchWrites(c, 3)
  <2>1. \A n \in Nat :
          upload' = [upload EXCEPT ![c] =
                       [phase |-> "open", session |-> n, ok |-> FALSE]] =>
            Moved(c, "open", n, FALSE)
    BY <1>1, Moves DEF UploadPhases
  <2>2. QED
    <3>1. ASSUME Starts(c)
          PROVE  upload' = [upload EXCEPT ![c] =
                              [phase |-> "open", session |-> record[c].session,
                               ok |-> FALSE]]
                 /\ DispatchWrites(c, 3)
      BY <3>1 DEF Starts
    <3>2. QED
      BY <1>1, <2>1, <3>1
<1>4. \E n \in 0 .. 3 : DispatchWrites(c, n)
  <2>1. 3 \in 0 .. 3 /\ 0 .. 2 \subseteq 0 .. 3
    OBVIOUS
  <2>2. QED
    BY <1>2, <1>3, <2>1
<1>5. Only(c)
  BY <1>4, WritesEffect
<1>6. QED
  BY <1>2, <1>3, <1>5 DEF PubPublish, Dispatchable

\* The requests that leave the uploader alone: what they store, and for which
\* candidates as they are shown.
LEMMA RequestEffect ==
  ASSUME StoreOK, NEW c \in Candidates,
         PubCreate(c) \/ PubApprove(c) \/ PubReject(c) \/ PubThumbnail(c) \/ PubAdopt(c)
  PROVE  /\ Only(c) /\ UNCHANGED <<record, upload, provider>>
         /\ \/ UNCHANGED candidate
            \/ /\ candidate[c].state # "publishing" \/ Status(c) # "publishing"
               /\ \/ candidate'[c].state \in {"queued", "blocked", "rendering",
                                              "skipped", "approved"}
                  \/ /\ candidate'[c].state = "published"
                     /\ \/ Status(c) = "published"
                        \/ record[c].state = "published" /\ ChannelFree
<1>1. CASE PubCreate(c)
  BY <1>1 DEF PubCreate, Only, StoreOK
<1>2. CASE PubApprove(c) \/ PubReject(c)
  BY <1>2 DEF PubApprove, PubReject, Decide, Stored, Only, StoreOK
<1>3. CASE PubThumbnail(c)
  BY <1>3 DEF PubThumbnail, Only, StoreOK
<1>4. CASE PubAdopt(c)
  BY <1>4 DEF PubAdopt, Dispatchable, Stored, Only, StoreOK
<1>5. QED
  BY <1>1, <1>2, <1>3, <1>4

-----------------------------------------------------------------------------

LEMMA SessionsStep ==
  ASSUME StoreOK, SessionsOK, PubSteps
  PROVE  SessionsOK'
<1> USE DEF StoreOK, SessionsOK
<1>0. ASSUME NEW c \in Candidates, NEW p, NEW n \in Nat, NEW ok, Moved(c, p, n, ok),
             n <= sessions[c], p = "send" => n # 0,
             UNCHANGED provider,
             \A d \in Candidates : record'[d].session <= sessions[d]
      PROVE  SessionsOK'
  <2>1. upload'[c].phase = p /\ upload'[c].session = n
    BY <1>0 DEF Moved
  <2>2. QED
    BY <1>0, <2>1 DEF Moved, provider
<1>1. ASSUME NEW c \in Candidates,
             PubCreate(c) \/ PubApprove(c) \/ PubReject(c) \/ PubThumbnail(c) \/ PubAdopt(c)
      PROVE  SessionsOK'
  <2>1. UNCHANGED <<record, upload, provider>>
    BY <1>1, RequestEffect
  <2>2. QED
    BY <2>1 DEF provider
<1>2. ASSUME NEW c \in Candidates, PubPublish(c)
      PROVE  SessionsOK'
  <2>1. \A d \in Candidates : record'[d].session = record[d].session
    <3>1. \E n \in 0 .. 3 : DispatchWrites(c, n)
      <4>1. 3 \in 0 .. 3 /\ 0 .. 2 \subseteq 0 .. 3
        OBVIOUS
      <4>2. QED
        BY <1>2, <4>1, PublishEffect
    <3>2. \E st : Noted(c, st, record[c].session)
      BY <3>1, WritesEffect
    <3>3. QED
      BY <3>2 DEF Noted
  <2>2. UNCHANGED upload \/ Moved(c, "open", record[c].session, FALSE)
    BY <1>2, PublishEffect
  <2>3. UNCHANGED provider
    BY <1>2, PublishEffect
  <2>4. QED
    BY <1>0, <2>1, <2>2, <2>3 DEF provider
<1>3. ASSUME NEW c \in Candidates, UploadQuery(c)
      PROVE  SessionsOK'
  <2>1. UNCHANGED <<store, provider>> /\ upload[c].session # 0
        /\ upload[c].session \in Nat /\ upload[c].session <= sessions[c]
    BY <1>3, QueryEffect, Fields
  <2>2. \/ \E p, ok : Moved(c, p, upload[c].session, ok)
        \/ \E ok : Moved(c, "open", 0, ok)
    BY <1>3, QueryEffect DEF Kept, Ended
  <2>3. \A d \in Candidates : record'[d].session <= sessions[d]
    BY <2>1 DEF store
  <2>4. 0 <= sessions[c]
    BY Fields
  <2>5. QED
    BY <1>0, <2>1, <2>2, <2>3, <2>4
<1>4. ASSUME NEW c \in Candidates, UploadSession(c)
      PROVE  SessionsOK'
  <2>1. UNCHANGED <<dropped, videos>>
    BY <1>4, SessionEffect
  <2>2. CASE UNCHANGED <<record, sessions>> /\ Ended(c, FALSE)
    BY <2>1, <2>2 DEF Ended, Moved
  <2>3. ASSUME NEW p, NEW ok,
               sessions' = [sessions EXCEPT ![c] = sessions[c] + 1],
               Moved(c, p, sessions[c] + 1, ok),
               UNCHANGED record \/ Noted(c, record[c].state, sessions[c] + 1)
        PROVE  SessionsOK'
    <3>1. \A d \in Candidates :
            /\ sessions[d] \in Nat /\ sessions[d] <= sessions'[d]
            /\ sessions'[d] \in Nat
      BY <2>3
    <3>2. sessions'[c] = sessions[c] + 1
      BY <2>3
    <3>3. QED
      BY <2>1, <2>3, <3>1, <3>2 DEF Moved, Noted
  <2>4. QED
    BY <1>4, <2>2, <2>3, SessionEffect
<1>5. ASSUME NEW c \in Candidates, UploadSend(c)
      PROVE  SessionsOK'
  <2>1. UNCHANGED <<store, sessions, dropped>> /\ upload[c].session # 0
    BY <1>5, SendEffect
  <2>2. videos' \subseteq videos \cup {<<c, upload[c].session>>}
    BY <1>5, SendEffect DEF Session
  <2>3. \E p, ok : Moved(c, p, upload[c].session, ok) /\ p # "send"
    <3>1. Kept(c, "open") \/ Ended(c, FALSE) \/ Ended(c, TRUE)
      BY <1>5, SendEffect
    <3>2. "open" # "send" /\ "record" # "send"
      OBVIOUS
    <3>3. QED
      BY <3>1, <3>2 DEF Kept, Ended
  <2>4. videos' \subseteq Candidates \X Nat
    BY <2>2, Fields
  <2>5. \A d \in Candidates, n \in Nat :
          <<d, n>> \in dropped' \cup videos' => n # 0 /\ n <= sessions[d]
    BY <2>1, <2>2
  <2>6. /\ upload' \in [Candidates -> Uploads]
        /\ \A d \in Candidates : upload'[d].session = upload[d].session
        /\ \A d \in Candidates : upload'[d].phase = "send" => upload[d].session # 0
    <3>1. PICK p, ok : Moved(c, p, upload[c].session, ok) /\ p # "send"
      BY <2>3
    <3>2. upload'[c].session = upload[c].session /\ upload'[c].phase # "send"
      BY <3>1 DEF Moved
    <3>3. QED
      BY <2>1, <3>1, <3>2 DEF Moved
  <2>7. QED
    BY <2>1, <2>4, <2>5, <2>6 DEF store
<1>6. ASSUME NEW c \in Candidates, UploadRecord(c)
      PROVE  SessionsOK'
  <2>1. UNCHANGED provider /\ Kept(c, "finish")
    BY <1>6, RecordEffect
  <2>2. \A d \in Candidates :
          record'[d].session \in {0, record[d].session, upload[d].session}
    <3>1. \/ UNCHANGED record
          \/ \E st : Noted(c, st, 0)
          \/ \E st : Noted(c, st, upload[c].session)
      BY <1>6, RecordEffect
    <3>2. ASSUME NEW st, NEW n, Noted(c, st, n)
          PROVE  record'[c].session = n
                 /\ \A d \in Candidates \ {c} : record'[d] = record[d]
      BY <3>2 DEF Noted
    <3>3. QED
      BY <3>1, <3>2
  <2>3. upload[c].session \in Nat /\ \A d \in Candidates : sessions[d] \in Nat
    BY Fields
  <2>4. \A d \in Candidates : record'[d].session <= sessions[d]
    <3>1. \A d \in Candidates : record[d].session <= sessions[d]
                                /\ upload[d].session <= sessions[d] /\ 0 <= sessions[d]
      BY <2>3
    <3> HIDE DEF SessionsOK, StoreOK
    <3>2. QED
      BY <2>2, <3>1
  <2>5. QED
    BY <1>0, <2>1, <2>3, <2>4 DEF Kept
<1>7. ASSUME NEW c \in Candidates, UploadFinish(c)
      PROVE  SessionsOK'
  <2>1. UNCHANGED <<record, provider>> /\ Moved(c, "idle", 0, FALSE)
    BY <1>7, FinishEffect
  <2>2. 0 <= sessions[c]
    BY Fields
  <2>3. QED
    BY <1>0, <2>1, <2>2
<1>8. ASSUME NEW c \in Candidates, PubDrop(c)
      PROVE  SessionsOK'
  <2>1. PICK n \in 1 .. sessions[c] : dropped' = dropped \cup {<<c, n>>}
    BY <1>8 DEF PubDrop
  <2>2. UNCHANGED <<record, upload, sessions, videos>>
    BY <1>8 DEF PubDrop, store
  <2>3. n \in Nat /\ n # 0 /\ n <= sessions[c]
    OBVIOUS
  <2>4. QED
    BY <2>1, <2>2, <2>3
<1>9. CASE PubCrash
  BY <1>9 DEF PubCrash, Idle, store, provider, Uploads, UploadPhases
<1>10. CASE UNCHANGED pubVars
  BY <1>10 DEF pubVars, store, provider
<1>11. QED
  BY <1>1, <1>2, <1>3, <1>4, <1>5, <1>6, <1>7, <1>8, <1>9, <1>10 DEF PubSteps

LEMMA TypedInit == PubInit => PubTyped
  BY PubAssumption
  DEF PubInit, PubTyped, StoreOK, SessionsOK, FaultsOK, CandidateStates, RecordStates,
      Uploads, UploadPhases, Idle

LEMMA TypedStep ==
  ASSUME PubTyped, PubSteps
  PROVE  PubTyped'
  BY FaultsStep, StoreStep, SessionsStep DEF PubTyped

LEMMA AlwaysTyped == PubSpec => []PubTyped
  BY TypedInit, TypedStep, NextIsSteps, PTL DEF PubSpec

LEMMA TypedIsTypeOK == PubTyped => PubTypeOK
<1> SUFFICES ASSUME PubTyped PROVE PubTypeOK
  OBVIOUS
<1>1. ASSUME NEW p \in dropped \cup videos
      PROVE  p[1] \in Candidates /\ p[2] \in 1 .. sessions[p[1]]
  <2>1. PICK c \in Candidates, n \in Nat : p = <<c, n>>
    BY <1>1 DEF PubTyped, SessionsOK
  <2>2. n # 0 /\ n <= sessions[c] /\ sessions[c] \in Nat
    BY <1>1, <2>1 DEF PubTyped, SessionsOK
  <2>3. QED
    BY <2>1, <2>2
<1>2. QED
  BY <1>1 DEF PubTypeOK, PubTyped, StoreOK, SessionsOK, FaultsOK, Uploads

\* Every variable of StudioPublish has its type in every reachable state.
THEOREM PubTypeCorrect == PubSpec => []PubTypeOK
  BY AlwaysTyped, TypedIsTypeOK, PTL

-----------------------------------------------------------------------------
(* One upload at a time.                                                   *)

LEMMA ChannelStep ==
  ASSUME PubTyped, OneChannelUpload, PubSteps
  PROVE  OneChannelUpload'
<1> USE DEF PubTyped
<1>1. ASSUME UNCHANGED upload
      PROVE  OneChannelUpload'
  BY <1>1 DEF OneChannelUpload, Active
<1>2. ASSUME NEW c \in Candidates, NEW p, NEW n, NEW ok, Moved(c, p, n, ok),
             Active(c) \/ ChannelFree
      PROVE  OneChannelUpload'
  BY <1>2 DEF Moved, OneChannelUpload, Active, ChannelFree
<1>3. ASSUME NEW c \in Candidates,
             PubCreate(c) \/ PubApprove(c) \/ PubReject(c) \/ PubThumbnail(c) \/ PubAdopt(c)
      PROVE  OneChannelUpload'
  BY <1>1, <1>3, RequestEffect
<1>4. ASSUME NEW c \in Candidates, PubPublish(c)
      PROVE  OneChannelUpload'
  BY <1>1, <1>2, <1>4, PublishEffect
<1>5. ASSUME NEW c \in Candidates, UploadQuery(c)
      PROVE  OneChannelUpload'
  BY <1>2, <1>5, QueryEffect DEF Kept, Ended, Active
<1>6. ASSUME NEW c \in Candidates, UploadSession(c)
      PROVE  OneChannelUpload'
  BY <1>2, <1>6, SessionEffect DEF Ended, Active
<1>7. ASSUME NEW c \in Candidates, UploadSend(c)
      PROVE  OneChannelUpload'
  BY <1>2, <1>7, SendEffect DEF Kept, Ended, Active
<1>8. ASSUME NEW c \in Candidates, UploadRecord(c)
      PROVE  OneChannelUpload'
  BY <1>2, <1>8, RecordEffect DEF Kept, Active
<1>9. ASSUME NEW c \in Candidates, UploadFinish(c)
      PROVE  OneChannelUpload'
  BY <1>2, <1>9, FinishEffect DEF Active
<1>10. ASSUME NEW c \in Candidates, PubDrop(c)
       PROVE  OneChannelUpload'
  BY <1>1, <1>10 DEF PubDrop
<1>11. CASE PubCrash
  BY <1>11 DEF PubCrash, Idle, OneChannelUpload, Active
<1>12. CASE UNCHANGED pubVars
  BY <1>1, <1>12 DEF pubVars
<1>13. QED
  BY <1>3, <1>4, <1>5, <1>6, <1>7, <1>8, <1>9, <1>10, <1>11, <1>12 DEF PubSteps

\* The channel takes one upload at a time (publishStudioCandidate's check of
\* the active uploads, under studioPublishMu).
THEOREM OneUploadAtATime == PubSpec => []OneChannelUpload
<1>1. PubInit => OneChannelUpload
  BY DEF PubInit, OneChannelUpload, Active, Idle
<1>2. QED
  BY <1>1, ChannelStep, AlwaysTyped, NextIsSteps, PTL DEF PubSpec

-----------------------------------------------------------------------------
(* What is published is a video.                                           *)

\* The record, the candidate and the outcome in memory each imply the video.
Real ==
  \A c \in Candidates :
    record[c].state = "published" \/ candidate[c].state = "published" \/ upload[c].ok
      => HasVideo(c)

LEMMA VideosStay ==
  ASSUME PubTyped, PubSteps, NEW c \in Candidates, HasVideo(c)
  PROVE  HasVideo(c)'
<1> USE DEF PubTyped
<1>1. PICK n \in 1 .. sessions[c] : <<c, n>> \in videos
  BY DEF HasVideo
<1>2. ASSUME videos \subseteq videos', sessions'[c] \in Nat, sessions[c] <= sessions'[c]
      PROVE  HasVideo(c)'
  BY <1>1, <1>2, Fields DEF HasVideo
<1>3. sessions[c] \in Nat
  BY Fields
<1>4. UNCHANGED provider => HasVideo(c)'
  BY <1>2, <1>3 DEF provider
<1>5. ASSUME NEW d \in Candidates,
             PubCreate(d) \/ PubApprove(d) \/ PubReject(d) \/ PubThumbnail(d) \/ PubAdopt(d)
      PROVE  HasVideo(c)'
  BY <1>4, <1>5, RequestEffect
<1>6. ASSUME NEW d \in Candidates,
             PubPublish(d) \/ UploadQuery(d) \/ UploadRecord(d) \/ UploadFinish(d)
      PROVE  HasVideo(c)'
  BY <1>4, <1>6, PublishEffect, QueryEffect, RecordEffect, FinishEffect
<1>7. ASSUME NEW d \in Candidates, UploadSession(d)
      PROVE  HasVideo(c)'
  <2>1. videos' = videos
    BY <1>7, SessionEffect
  <2>2. UNCHANGED sessions \/ sessions' = [sessions EXCEPT ![d] = sessions[d] + 1]
    BY <1>7, SessionEffect
  <2>3. sessions'[c] \in {sessions[c], sessions[c] + 1}
    BY <2>2 DEF SessionsOK
  <2>4. QED
    BY <1>2, <1>3, <2>1, <2>3
<1>8. ASSUME NEW d \in Candidates, UploadSend(d) \/ PubDrop(d)
      PROVE  HasVideo(c)'
  <2>1. videos \subseteq videos' /\ UNCHANGED sessions
    BY <1>8, SendEffect DEF PubDrop
  <2>2. QED
    BY <1>2, <1>3, <2>1
<1>9. CASE PubCrash \/ UNCHANGED pubVars
  BY <1>4, <1>9 DEF PubCrash, pubVars
<1>10. QED
  BY <1>5, <1>6, <1>7, <1>8, <1>9 DEF PubSteps

LEMMA StatusIsReal ==
  ASSUME StoreOK, Real
  PROVE  PublishedHasVideo
  BY DEF StoreOK, Real, PublishedHasVideo, Status, ShownUploading

LEMMA RealStep ==
  ASSUME PubTyped, Real, PubSteps
  PROVE  Real'
<1> USE DEF PubTyped
<1>0. ASSUME NEW c \in Candidates, Session(c) \in videos, upload[c].session # 0
      PROVE  HasVideo(c)
  <2>1. upload[c].session \in 1 .. sessions[c]
    BY <1>0, Fields DEF SessionsOK
  <2>2. QED
    BY <1>0, <2>1 DEF HasVideo, Session
<1>1. ASSUME NEW c \in Candidates,
             Only(c), \A d \in Candidates \ {c} : record'[d] = record[d],
             \A d \in Candidates \ {c} : upload'[d] = upload[d],
             record'[c].state = "published" \/ candidate'[c].state = "published"
               \/ upload'[c].ok => HasVideo(c) \/ HasVideo(c)'
      PROVE  Real'
  BY <1>1, VideosStay DEF Real, Only
<1>2. ASSUME NEW c \in Candidates,
             PubCreate(c) \/ PubApprove(c) \/ PubReject(c) \/ PubThumbnail(c) \/ PubAdopt(c)
      PROVE  Real'
  <2>1. Only(c) /\ UNCHANGED <<record, upload>>
    BY <1>2, RequestEffect
  <2>2. candidate'[c].state = "published" => HasVideo(c)
    BY <1>2, RequestEffect, StatusIsReal DEF Real, PublishedHasVideo
  <2>3. QED
    BY <1>1, <2>1, <2>2 DEF Real
<1>3. ASSUME NEW c \in Candidates, PubPublish(c)
      PROVE  Real'
  <2>1. PICK n \in 0 .. 3 : DispatchWrites(c, n)
    <3>1. 3 \in 0 .. 3 /\ 0 .. 2 \subseteq 0 .. 3
      OBVIOUS
    <3>2. QED
      BY <1>3, <3>1, PublishEffect
  <2>2. record[c].state # "published" /\ Only(c)
    BY <1>3, PublishEffect
  <2>3. PICK st : Noted(c, st, record[c].session) /\ st \in {record[c].state, "uploading"}
    BY <2>1, WritesEffect
  <2>4. record'[c].state # "published" /\ \A d \in Candidates \ {c} : record'[d] = record[d]
    BY <2>2, <2>3, NotedAs
  <2>5. candidate'[c].state = "published" => HasVideo(c)
    BY <2>1, WritesEffect DEF Real
  <2>6. UNCHANGED upload \/ Moved(c, "open", record[c].session, FALSE)
    BY <1>3, PublishEffect
  <2>7. QED
    BY <1>1, <2>2, <2>4, <2>5, <2>6, MovedTo DEF Real
<1>4. ASSUME NEW c \in Candidates, NEW p, NEW n, NEW ok, Moved(c, p, n, ok),
             ok => HasVideo(c) \/ HasVideo(c)',
             UNCHANGED candidate,
             UNCHANGED record \/ \E st : st # "published" /\ Noted(c, st, n)
      PROVE  Real'
  <2>1. upload'[c].ok = ok /\ \A d \in Candidates \ {c} : upload'[d] = upload[d]
    BY <1>4, MovedTo
  <2>2. /\ \A d \in Candidates \ {c} : record'[d] = record[d]
        /\ record'[c].state = "published" => record[c].state = "published"
    BY <1>4, NotedAs
  <2>3. QED
    BY <1>1, <1>4, <2>1, <2>2 DEF Only, Real
<1>5. ASSUME NEW c \in Candidates, UploadQuery(c)
      PROVE  Real'
  <2>1. UNCHANGED <<candidate, record>> /\ upload[c].session # 0
    BY <1>5, QueryEffect DEF store
  <2>2. QED
    <3>1. \/ Session(c) \in videos /\ \E p, n : Moved(c, p, n, TRUE)
          \/ \E p, n : Moved(c, p, n, upload[c].ok)
          \/ \E p, n : Moved(c, p, n, FALSE)
      BY <1>5, QueryEffect DEF Kept, Ended
    <3>2. upload[c].ok \/ Session(c) \in videos => HasVideo(c)
      BY <1>0, <2>1 DEF Real
    <3>3. QED
      BY <1>4, <2>1, <3>1, <3>2
<1>6. ASSUME NEW c \in Candidates, UploadSession(c)
      PROVE  Real'
  <2>1. CASE record[c].state # "published"
    <3>1. UNCHANGED candidate
      BY <1>6, SessionEffect
    <3>2. \E p, n :
            /\ Moved(c, p, n, upload[c].ok) \/ Moved(c, p, n, FALSE)
            /\ UNCHANGED record \/ Noted(c, record[c].state, n)
      BY <1>6, SessionEffect DEF Ended
    <3>3. upload[c].ok => HasVideo(c)
      BY DEF Real
    <3>4. QED
      BY <1>4, <2>1, <3>1, <3>2, <3>3
  <2>2. CASE record[c].state = "published"
    BY <1>1, <1>6, <2>2, SessionEffect DEF Ended, Moved, Noted, Only, Real
  <2>3. QED
    BY <2>1, <2>2
<1>7. ASSUME NEW c \in Candidates, UploadSend(c)
      PROVE  Real'
  <2>2. UNCHANGED <<candidate, record, sessions>>
    BY <1>7, SendEffect DEF store
  <2>3. ASSUME Session(c) \in videos'
        PROVE  HasVideo(c)'
    <3>1. upload[c].session \in 1 .. sessions[c]
      <4>1. upload[c].phase = "send"
        BY <1>7, SendEffect
      <4>2. QED
        BY <4>1, Fields DEF SessionsOK
    <3>2. QED
      BY <2>2, <2>3, <3>1 DEF HasVideo, Session
  <2>4. QED
    BY <1>4, <1>7, <2>2, <2>3, SendEffect DEF Kept, Ended, Real
<1>8. ASSUME NEW c \in Candidates, UploadRecord(c)
      PROVE  Real'
  <2>1. Kept(c, "finish") /\ UNCHANGED candidate
    BY <1>8, RecordEffect
  <2>2. \A d \in Candidates \ {c} : record'[d] = record[d]
    BY <1>8, RecordEffect DEF Noted
  <2>3. record'[c].state = "published" => HasVideo(c)
    BY <1>8, RecordEffect, NotedAs DEF Real
  <2>4. QED
    BY <1>1, <2>1, <2>2, <2>3 DEF Kept, Moved, Only, Real
<1>9. ASSUME NEW c \in Candidates, UploadFinish(c)
      PROVE  Real'
  <2>1. Moved(c, "idle", 0, FALSE) /\ Only(c) /\ UNCHANGED record
    BY <1>9, FinishEffect
  <2>2. candidate'[c].state = "published" => HasVideo(c)
    BY <1>9, FinishEffect DEF Real
  <2>3. QED
    BY <1>1, <2>1, <2>2 DEF Moved, Real
<1>10. ASSUME UNCHANGED <<candidate, record>>, \A c \in Candidates : upload'[c].ok => upload[c].ok
       PROVE  Real'
  BY <1>10, VideosStay DEF Real
<1>11. ASSUME NEW c \in Candidates, PubDrop(c)
       PROVE  Real'
  BY <1>10, <1>11 DEF PubDrop, store
<1>12. CASE PubCrash
  BY <1>10, <1>12 DEF PubCrash, Idle, store
<1>13. CASE UNCHANGED pubVars
  BY <1>10, <1>13 DEF pubVars, store
<1>14. QED
  BY <1>2, <1>3, <1>5, <1>6, <1>7, <1>8, <1>9, <1>11, <1>12, <1>13 DEF PubSteps

\* A candidate is shown as published only when the provider has its video.
THEOREM PublishedIsReal == PubSpec => []PublishedHasVideo
<1>1. PubInit => Real
  BY DEF PubInit, Real, Idle
<1>2. PubTyped => StoreOK
  BY DEF PubTyped
<1>3. QED
  BY <1>1, <1>2, RealStep, StatusIsReal, AlwaysTyped, NextIsSteps, PTL DEF PubSpec

-----------------------------------------------------------------------------
(* Approval and interruption.                                              *)

\* Until its outcome is recorded, an upload holds its candidate: approved,
\* publishing, and so shown, which is what the other requests refuse.
Held(c) ==
  upload[c].phase \in {"open", "send", "record"} =>
    /\ candidate[c].approved /\ candidate[c].state = "publishing"
    /\ record[c].state = "uploading"

\* The record is written before the candidate, so a candidate that says
\* publishing has one to be asked.
Backed(c) ==
  candidate[c].state = "publishing" =>
    candidate[c].approved /\ record[c].state # "none"

AllHeld == \A c \in Candidates : Held(c) /\ Backed(c)

LEMMA HeldStep ==
  ASSUME PubTyped, AllHeld, PubSteps
  PROVE  AllHeld'
<1> USE DEF PubTyped
<1>1. ASSUME NEW c \in Candidates, Only(c),
             \A d \in Candidates \ {c} : record'[d] = record[d],
             \A d \in Candidates \ {c} : upload'[d] = upload[d],
             Held(c)' /\ Backed(c)'
      PROVE  AllHeld'
  BY <1>1 DEF AllHeld, Held, Backed, Only
<1>2. ASSUME NEW c \in Candidates,
             PubCreate(c) \/ PubApprove(c) \/ PubReject(c) \/ PubThumbnail(c) \/ PubAdopt(c)
      PROVE  AllHeld'
  <2>1. Only(c) /\ UNCHANGED <<record, upload>>
    BY <1>2, RequestEffect
  <2>2. CASE UNCHANGED candidate
    BY <2>1, <2>2 DEF AllHeld, Held, Backed
  <2>3. CASE candidate[c].state # "publishing" \/ Status(c) # "publishing"
    <3>1. upload[c].phase \notin {"open", "send", "record"}
      BY <2>3 DEF AllHeld, Held, Status, ShownUploading, Active
    <3>2. candidate'[c].state = "publishing" => UNCHANGED candidate
      BY <1>2, RequestEffect
    <3>3. QED
      BY <1>1, <2>1, <2>2, <3>1, <3>2 DEF Held, Backed
  <2>4. QED
    BY <1>2, <2>2, <2>3, RequestEffect
<1>3. ASSUME NEW c \in Candidates, PubPublish(c)
      PROVE  AllHeld'
  <2>1. /\ upload[c].phase = "idle" /\ candidate[c].approved /\ Only(c)
    BY <1>3, PublishEffect DEF ChannelFree, Active
  <2>2. ASSUME NEW n \in 0 .. 3, DispatchWrites(c, n)
        PROVE  /\ Backed(c)'
               /\ \A d \in Candidates \ {c} : record'[d] = record[d]
               /\ n = 3 => candidate'[c].approved /\ candidate'[c].state = "publishing"
                             /\ record'[c].state = "uploading"
    <3>1. PICK st : Noted(c, st, record[c].session)
                    /\ st = (IF n = 0 THEN record[c].state ELSE "uploading")
      BY <2>2, WritesEffect
    <3>2. record'[c].state = st /\ \A d \in Candidates \ {c} : record'[d] = record[d]
      BY <3>1, NotedAs
    <3>3. \/ UNCHANGED candidate /\ n # 3
          \/ /\ n >= 2 /\ candidate'[c].state = "publishing"
             /\ candidate'[c].approved = candidate[c].approved
      BY <2>2 DEF DispatchWrites, StoreOK
    <3>4. n # 0 => st = "uploading"
      BY <3>1
    <3>5. CASE UNCHANGED candidate /\ n # 3
      BY <2>1, <3>1, <3>2, <3>5 DEF AllHeld, Backed
    <3>6. CASE n >= 2 /\ candidate'[c].state = "publishing"
               /\ candidate'[c].approved = candidate[c].approved
      BY <2>1, <3>2, <3>4, <3>6 DEF Backed
    <3>7. QED
      BY <3>3, <3>5, <3>6
  <2>3. CASE UNCHANGED upload /\ \E n \in 0 .. 2 : DispatchWrites(c, n)
    <3>1. \E n \in 0 .. 3 : DispatchWrites(c, n)
      BY <2>3
    <3>2. Held(c)'
      BY <2>1, <2>3 DEF Held
    <3>3. QED
      BY <1>1, <2>1, <2>2, <2>3, <3>1, <3>2
  <2>4. CASE Moved(c, "open", record[c].session, FALSE) /\ DispatchWrites(c, 3)
    <3>1. 3 \in 0 .. 3
      OBVIOUS
    <3>2. Held(c)'
      BY <2>2, <2>4, <3>1 DEF Held
    <3>3. QED
      BY <1>1, <2>1, <2>2, <2>4, <3>1, <3>2, MovedTo
  <2>5. QED
    BY <1>3, <2>3, <2>4, PublishEffect
<1>4. ASSUME NEW c \in Candidates, upload[c].phase \in {"open", "send"},
             NEW p, NEW n, NEW ok, Moved(c, p, n, ok), UNCHANGED candidate,
             UNCHANGED record \/ Noted(c, record[c].state, n)
      PROVE  AllHeld'
  <2>1. \A d \in Candidates : record'[d].state = record[d].state
    BY <1>4, NotedAs
  <2>2. Held(c)' /\ Backed(c)'
    BY <1>4, <2>1 DEF AllHeld, Held, Backed
  <2>3. QED
    BY <1>1, <1>4, <2>2, MovedTo, NotedAs DEF Only
<1>5. ASSUME NEW c \in Candidates, UploadQuery(c)
      PROVE  AllHeld'
  <2>1. \E p, n, ok : Moved(c, p, n, ok)
    BY <1>5, QueryEffect DEF Kept, Ended
  <2>2. QED
    BY <1>4, <1>5, <2>1, QueryEffect DEF store
<1>6. ASSUME NEW c \in Candidates, UploadSession(c)
      PROVE  AllHeld'
  <2>1. \E p, n, ok : Moved(c, p, n, ok)
                      /\ (UNCHANGED record \/ Noted(c, record[c].state, n))
    BY <1>6, SessionEffect DEF Ended
  <2>2. QED
    BY <1>4, <1>6, <2>1, SessionEffect
<1>7. ASSUME NEW c \in Candidates, UploadSend(c)
      PROVE  AllHeld'
  <2>1. \E p, n, ok : Moved(c, p, n, ok)
    BY <1>7, SendEffect DEF Kept, Ended
  <2>2. QED
    BY <1>4, <1>7, <2>1, SendEffect DEF store
<1>8. ASSUME NEW c \in Candidates, UploadRecord(c)
      PROVE  AllHeld'
  <2>1. Kept(c, "finish") /\ UNCHANGED candidate
    BY <1>8, RecordEffect
  <2>2. \/ UNCHANGED record
        \/ \E st, n : Noted(c, st, n) /\ st # "none"
    BY <1>8, RecordEffect
  <2>3. /\ \A d \in Candidates \ {c} : record'[d] = record[d]
        /\ record'[c].state = "none" => record[c].state = "none"
    BY <2>2, NotedAs
  <2>4. Backed(c)'
    BY <2>1, <2>3 DEF AllHeld, Backed
  <2>5. upload'[c].phase = "finish" /\ \A d \in Candidates \ {c} : upload'[d] = upload[d]
    BY <2>1, MovedTo DEF Kept
  <2>6. Held(c)'
    BY <2>5 DEF Held
  <2>7. QED
    BY <1>1, <2>1, <2>3, <2>4, <2>5, <2>6 DEF Only
<1>9. ASSUME NEW c \in Candidates, UploadFinish(c)
      PROVE  AllHeld'
  <2>1. Moved(c, "idle", 0, FALSE) /\ Only(c) /\ UNCHANGED record
    BY <1>9, FinishEffect
  <2>2. upload'[c].phase = "idle" /\ \A d \in Candidates \ {c} : upload'[d] = upload[d]
    BY <2>1, MovedTo
  <2>3. candidate'[c].state = "publishing" => UNCHANGED candidate
    BY <1>9, FinishEffect
  <2>4. Held(c)' /\ Backed(c)'
    BY <2>1, <2>2, <2>3 DEF AllHeld, Held, Backed
  <2>5. QED
    BY <1>1, <2>1, <2>2, <2>4
<1>10. ASSUME NEW c \in Candidates, PubDrop(c)
       PROVE  AllHeld'
  BY <1>10 DEF PubDrop, store, AllHeld, Held, Backed
<1>11. CASE PubCrash
  BY <1>11 DEF PubCrash, Idle, store, AllHeld, Held, Backed
<1>12. CASE UNCHANGED pubVars
  BY <1>12 DEF pubVars, store, AllHeld, Held, Backed
<1>13. QED
  BY <1>2, <1>3, <1>5, <1>6, <1>7, <1>8, <1>9, <1>10, <1>11, <1>12 DEF PubSteps

LEMMA AlwaysHeld == PubSpec => []AllHeld
<1>1. PubInit => AllHeld
  BY DEF PubInit, AllHeld, Held, Backed, Idle
<1>2. QED
  BY <1>1, HeldStep, AlwaysTyped, NextIsSteps, PTL DEF PubSpec

\* A candidate shown as publishing has an upload under way that will end it.
THEOREM PublishingEnds == PubSpec => []PublishingIsLive
<1>1. PubTyped /\ AllHeld => PublishingIsLive
  BY DEF PubTyped, StoreOK, RecordStates, AllHeld, Backed, PublishingIsLive, Status,
         ShownUploading
<1>2. QED
  BY <1>1, AlwaysTyped, AlwaysHeld, PTL

LEMMA NewVideoIsApproved ==
  ASSUME PubTyped, AllHeld, PubSteps, NEW v \in videos' \ videos
  PROVE  candidate[v[1]].approved
<1> USE DEF PubTyped
<1>1. ASSUME NEW c \in Candidates, UploadSend(c)
      PROVE  candidate[v[1]].approved
  <2>1. upload[c].phase = "send" /\ videos' \subseteq videos \cup {Session(c)}
    BY <1>1, SendEffect
  <2>2. v = Session(c)
    BY <2>1
  <2>3. v[1] = c
    BY <2>2 DEF Session
  <2>4. QED
    BY <2>1, <2>3 DEF AllHeld, Held
<1>2. ASSUME NEW c \in Candidates,
             PubCreate(c) \/ PubApprove(c) \/ PubReject(c) \/ PubThumbnail(c)
               \/ PubPublish(c) \/ PubAdopt(c)
      PROVE  FALSE
  BY <1>2, RequestEffect, PublishEffect DEF provider
<1>3. ASSUME NEW c \in Candidates,
             UploadQuery(c) \/ UploadSession(c) \/ UploadRecord(c) \/ UploadFinish(c)
      PROVE  FALSE
  BY <1>3, QueryEffect, SessionEffect, RecordEffect, FinishEffect DEF provider
<1>4. ASSUME NEW c \in Candidates, PubDrop(c)
      PROVE  FALSE
  BY <1>4 DEF PubDrop
<1>5. CASE PubCrash \/ UNCHANGED pubVars
  BY <1>5 DEF PubCrash, pubVars, provider
<1>6. QED
  BY <1>1, <1>2, <1>3, <1>4, <1>5 DEF PubSteps

\* A video appears only under an approval that still stands.
THEOREM VideosAreApproved == PubSpec => VideoNeedsApproval
<1>1. PubTyped /\ AllHeld /\ [PubNext]_pubVars
        => [\A p \in videos' \ videos : candidate[p[1]].approved]_pubVars
  BY NewVideoIsApproved, NextIsSteps
<1>2. QED
  BY <1>1, AlwaysTyped, AlwaysHeld, PTL DEF PubSpec, VideoNeedsApproval

-----------------------------------------------------------------------------
(* One video per candidate.                                                *)

\* Where the sessions of a candidate's videos are remembered: a video is in a
\* published record or is the session the record names, and an upload that
\* goes on goes on with that session.
Remembered(c) ==
  /\ upload[c].phase \in {"open", "send"} /\ upload[c].session # 0
       => record[c].session = upload[c].session
  /\ \A n \in Nat : <<c, n>> \in videos =>
       /\ record[c].state = "published" \/ record[c].session = n
       /\ upload[c].phase \in {"open", "send"} =>
            upload[c].session = n /\ record[c].state # "published"
       /\ upload[c].phase = "record" => upload[c].ok \/ upload[c].session = n
       /\ <<c, n>> \notin dropped
       /\ \A m \in Nat : <<c, m>> \in videos => m = n

\* A published record is not uploaded again.
Closed(c) == record[c].state = "published" => upload[c].phase \in {"idle", "finish"}

AllRemembered == \A c \in Candidates : Remembered(c) /\ Closed(c)

LEMMA RememberedStep ==
  ASSUME PubTyped, AllRemembered, PubSteps
  PROVE  AllRemembered'
<1> USE DEF PubTyped
<1>1. ASSUME NEW c \in Candidates,
             \A d \in Candidates \ {c} : record'[d] = record[d],
             \A d \in Candidates \ {c} : upload'[d] = upload[d],
             dropped' = dropped,
             \A d \in Candidates \ {c} : \A n \in Nat : <<d, n>> \in videos' => <<d, n>> \in videos,
             Remembered(c)' /\ Closed(c)'
      PROVE  AllRemembered'
  BY <1>1 DEF AllRemembered, Remembered, Closed
<1>2. ASSUME UNCHANGED <<record, upload, provider>>
      PROVE  AllRemembered'
  BY <1>2 DEF AllRemembered, Remembered, Closed, provider
<1>3. ASSUME NEW c \in Candidates,
             PubCreate(c) \/ PubApprove(c) \/ PubReject(c) \/ PubThumbnail(c) \/ PubAdopt(c)
      PROVE  AllRemembered'
  BY <1>2, <1>3, RequestEffect
<1>4. ASSUME NEW c \in Candidates, PubPublish(c)
      PROVE  AllRemembered'
  <2>1. /\ upload[c].phase = "idle" /\ record[c].state # "published"
        /\ UNCHANGED <<dropped, videos>>
    BY <1>4, PublishEffect DEF ChannelFree, Active, provider
  <2>2. PICK n \in 0 .. 3 : DispatchWrites(c, n)
    <3>1. 3 \in 0 .. 3 /\ 0 .. 2 \subseteq 0 .. 3
      OBVIOUS
    <3>2. QED
      BY <1>4, <3>1, PublishEffect
  <2>3. PICK st : Noted(c, st, record[c].session) /\ st \in {record[c].state, "uploading"}
    BY <2>2, WritesEffect
  <2>4. /\ record'[c].state # "published" /\ record'[c].session = record[c].session
        /\ \A d \in Candidates \ {c} : record'[d] = record[d]
    BY <2>1, <2>3, NotedAs
  <2>5. \/ UNCHANGED upload
        \/ Moved(c, "open", record[c].session, FALSE)
    BY <1>4, PublishEffect
  <2>6. /\ \A d \in Candidates \ {c} : upload'[d] = upload[d]
        /\ upload'[c].phase \in {"idle", "open"}
        /\ upload'[c].phase = "open" => upload'[c].session = record[c].session
    <3>1. CASE UNCHANGED upload
      BY <2>1, <3>1
    <3>2. CASE Moved(c, "open", record[c].session, FALSE)
      <4>1. /\ upload'[c].phase = "open" /\ upload'[c].session = record[c].session
            /\ \A d \in Candidates \ {c} : upload'[d] = upload[d]
        BY <3>2 DEF Moved
      <4>2. QED
        BY <4>1
    <3>3. QED
      BY <2>5, <3>1, <3>2
  <2>7. Remembered(c)' /\ Closed(c)'
    BY <2>1, <2>4, <2>6 DEF AllRemembered, Remembered, Closed
  <2>8. QED
    BY <1>1, <2>1, <2>4, <2>6, <2>7
<1>5. ASSUME NEW c \in Candidates, UploadQuery(c)
      PROVE  AllRemembered'
  <2>1. UNCHANGED <<record, dropped, videos>> /\ upload[c].phase = "open"
    BY <1>5, QueryEffect DEF store, provider
  <2>2. PICK p, n, ok : Moved(c, p, n, ok)
    BY <1>5, QueryEffect DEF Kept, Ended
  <2>3. \A d \in Candidates \ {c} : upload'[d] = upload[d]
    BY <2>2, MovedTo
  <2>4. record[c].state # "published"
    BY <2>1 DEF AllRemembered, Closed
  <2>5. CASE Moved(c, "open", 0, upload[c].ok) /\ Session(c) \in dropped
    <3>1. \A k \in Nat : <<c, k>> \notin videos
      BY <2>1, <2>5 DEF AllRemembered, Remembered, Session
    <3>2. Remembered(c)' /\ Closed(c)'
      BY <2>1, <2>4, <2>5, <3>1, MovedTo DEF Remembered, Closed
    <3>3. QED
      BY <1>1, <2>1, <2>3, <3>2
  <2>6. ASSUME NEW q \in {"open", "send", "record"}, NEW k,
               Moved(c, q, upload[c].session, k)
        PROVE  AllRemembered'
    <3>1. upload'[c].phase = q /\ upload'[c].session = upload[c].session
      BY <2>6, MovedTo
    <3>2. Remembered(c)' /\ Closed(c)'
      BY <2>1, <2>4, <3>1 DEF AllRemembered, Remembered, Closed
    <3>3. QED
      BY <1>1, <2>1, <2>3, <3>2
  <2>7. QED
    BY <1>5, <2>5, <2>6, QueryEffect DEF Kept, Ended
<1>6. ASSUME NEW c \in Candidates, UploadSession(c)
      PROVE  AllRemembered'
  <2>1. /\ upload[c].phase = "open" /\ upload[c].session = 0
        /\ UNCHANGED <<dropped, videos>>
    BY <1>6, SessionEffect
  <2>2. \A k \in Nat : <<c, k>> \notin videos
    BY <2>1 DEF AllRemembered, Remembered, SessionsOK
  <2>3. PICK p, n, ok :
          /\ Moved(c, p, n, ok)
          /\ \/ p = "record" /\ UNCHANGED record
             \/ Noted(c, record[c].state, n)
    BY <1>6, SessionEffect DEF Ended
  <2>4. /\ upload'[c].phase = p /\ upload'[c].session = n
        /\ \A d \in Candidates \ {c} : upload'[d] = upload[d]
    BY <2>3, MovedTo
  <2>5. /\ record'[c].state = record[c].state
        /\ p # "record" => record'[c].session = n
        /\ \A d \in Candidates \ {c} : record'[d] = record[d]
    BY <2>3, NotedAs
  <2>6. record[c].state # "published"
    BY <2>1 DEF AllRemembered, Closed
  <2>7. p \in {"send", "record"}
    BY <1>6, <2>4, SessionEffect, MovedTo DEF Ended
  <2>8. Remembered(c)' /\ Closed(c)'
    BY <2>1, <2>2, <2>4, <2>5, <2>6, <2>7 DEF Remembered, Closed
  <2>9. QED
    BY <1>1, <2>1, <2>4, <2>5, <2>8
<1>7. ASSUME NEW c \in Candidates, UploadSend(c)
      PROVE  AllRemembered'
  <2>1. /\ upload[c].phase = "send" /\ upload[c].session # 0
        /\ upload[c].session \in Nat
        /\ UNCHANGED <<record, dropped>>
    BY <1>7, SendEffect, Fields DEF store, SessionsOK
  <2>2. /\ videos' \subseteq videos \cup {<<c, upload[c].session>>}
        /\ <<c, upload[c].session>> \in videos' \ videos =>
             <<c, upload[c].session>> \notin dropped
    BY <1>7, SendEffect DEF Session
  <2>3. PICK q, k : Moved(c, q, upload[c].session, k) /\ q \in {"open", "record"}
    BY <1>7, SendEffect DEF Kept, Ended
  <2>4. /\ upload'[c].phase = q /\ upload'[c].session = upload[c].session
        /\ \A d \in Candidates \ {c} : upload'[d] = upload[d]
    BY <2>3, MovedTo
  <2>5. record[c].state # "published" /\ record[c].session = upload[c].session
    BY <2>1 DEF AllRemembered, Remembered, Closed
  <2>6. \A m \in Nat : <<c, m>> \in videos' =>
          m = upload[c].session /\ <<c, m>> \notin dropped
    BY <2>1, <2>2 DEF AllRemembered, Remembered
  <2>7. Remembered(c)' /\ Closed(c)'
    BY <2>1, <2>3, <2>4, <2>5, <2>6 DEF Remembered, Closed
  <2>8. QED
    BY <1>1, <2>1, <2>2, <2>4, <2>7
<1>8. ASSUME NEW c \in Candidates, UploadRecord(c)
      PROVE  AllRemembered'
  <2>1. upload[c].phase = "record" /\ Kept(c, "finish") /\ UNCHANGED <<dropped, videos>>
    BY <1>8, RecordEffect DEF provider
  <2>2. /\ upload'[c].phase = "finish"
        /\ \A d \in Candidates \ {c} : upload'[d] = upload[d]
    BY <2>1, MovedTo DEF Kept
  <2>3. /\ \A d \in Candidates \ {c} : record'[d] = record[d]
        /\ \/ record'[c].state = "published"
           \/ ~upload[c].ok /\ record'[c].session = upload[c].session
           \/ record'[c] = record[c]
    BY <1>8, RecordEffect, NotedAs
  <2>4. Remembered(c)' /\ Closed(c)'
    BY <2>1, <2>2, <2>3 DEF AllRemembered, Remembered, Closed
  <2>5. QED
    BY <1>1, <2>1, <2>2, <2>3, <2>4
<1>9. ASSUME NEW c \in Candidates, UploadFinish(c)
      PROVE  AllRemembered'
  <2>1. Moved(c, "idle", 0, FALSE) /\ UNCHANGED <<record, dropped, videos>>
    BY <1>9, FinishEffect DEF provider
  <2>2. upload'[c].phase = "idle" /\ \A d \in Candidates \ {c} : upload'[d] = upload[d]
    BY <2>1, MovedTo
  <2>3. Remembered(c)' /\ Closed(c)'
    BY <2>1, <2>2 DEF AllRemembered, Remembered, Closed
  <2>4. QED
    BY <1>1, <2>1, <2>2, <2>3
<1>10. ASSUME NEW c \in Candidates, PubDrop(c)
       PROVE  AllRemembered'
  <2>1. PICK n \in 1 .. sessions[c] :
          <<c, n>> \notin videos /\ dropped' = dropped \cup {<<c, n>>}
    BY <1>10 DEF PubDrop
  <2>2. UNCHANGED <<record, upload, videos>>
    BY <1>10 DEF PubDrop, store
  <2>3. \A p \in videos : p \in dropped' => p \in dropped
    BY <2>1
  <2>4. QED
    BY <2>2, <2>3 DEF AllRemembered, Remembered, Closed
<1>11. CASE PubCrash
  BY <1>11 DEF PubCrash, Idle, store, provider, AllRemembered, Remembered, Closed
<1>12. CASE UNCHANGED pubVars
  BY <1>2, <1>12 DEF pubVars, store
<1>13. QED
  BY <1>3, <1>4, <1>5, <1>6, <1>7, <1>8, <1>9, <1>10, <1>11, <1>12 DEF PubSteps

\* However often an upload is interrupted, lost or repeated, its candidate
\* becomes one video at most (the session is recorded before the first byte).
THEOREM OneVideo == PubSpec => []OneVideoPerCandidate
<1>1. PubInit => AllRemembered
  BY DEF PubInit, AllRemembered, Remembered, Closed, Idle
<1>2. PubTyped /\ AllRemembered => OneVideoPerCandidate
  BY DEF PubTyped, SessionsOK, AllRemembered, Remembered, OneVideoPerCandidate
<1>3. QED
  BY <1>1, <1>2, RememberedStep, AlwaysTyped, NextIsSteps, PTL DEF PubSpec
=============================================================================
