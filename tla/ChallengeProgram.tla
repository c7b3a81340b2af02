-------------------------- MODULE ChallengeProgram --------------------------
(***************************************************************************)
(* Challenge programming and the audience votes that feed it               *)
(* (cmd/pokewall/challenge_programming.go, challenge_voting.go): a         *)
(* programme of slots, played one at a time, each by a run of its own.     *)
(*                                                                         *)
(* mu guards each section of a handler, advanceMu a launch and the end of  *)
(* a run, closeMu the closing of a vote.  Programme and votes are two      *)
(* records, written after each change; a failed write is answered with an  *)
(* error or ignored, and the memory is kept.  Order and time of the slots  *)
(* are left open: any waiting slot may be due.  So is the tally: any       *)
(* candidate may win.  An experiment's runs count as one.                  *)
(***************************************************************************)
EXTENDS Naturals, Sequences, FiniteSets

CONSTANTS SlotIds, NoSlot,
          VoteIds, NoVoteId,
          Choices,          \* the challenges offered
          Repeats,          \* whether an operator's slot may, or may not, repeat
          MaxLaunches,      \* bound: runs launched
          MaxProgramFaults  \* bound: failed writes, restarts

ASSUME ProgramAssumption ==
  /\ NoSlot \notin SlotIds /\ NoVoteId \notin VoteIds
  /\ Choices # {} /\ Repeats \subseteq BOOLEAN
  /\ MaxLaunches \in Nat /\ MaxProgramFaults \in Nat

VARIABLES
  program,       \* [slots, paused], in memory
  savedProgram,  \* as last written
  votes, savedVotes,
  runs,          \* the launched runs, in the wall
  finishing,     \* runs whose finish was accepted, finishRun yet to come
  advancing,     \* the launch under way
  opening,       \* votes past the check that none is open
  closing,       \* the closing under way
  programFaults

programVars == <<program, savedProgram, votes, savedVotes, runs, finishing,
                 advancing, opening, closing, programFaults>>

SlotStates == {"none", "pending", "starting", "live", "completed", "failed",
               "blocked", "cancelled"}
SlotRecords == [state : SlotStates, choice : Choices, run : Nat,
                cancelling : BOOLEAN, repeats : BOOLEAN,
                vote : VoteIds \cup {NoVoteId}]

EmptySlot == [state |-> "none", choice |-> CHOOSE c \in Choices : TRUE, run |-> 0,
              cancelling |-> FALSE, repeats |-> FALSE, vote |-> NoVoteId]
NoAdvance == [slot |-> NoSlot, phase |-> "idle", run |-> 0]
NoClosing == [vote |-> NoVoteId, choice |-> EmptySlot.choice, queued |-> FALSE]

slot == program.slots
LiveSlot(s) == slot[s].state \in {"starting", "live"}
UnusedSlots == {s \in SlotIds : slot[s].state = "none"}

ProgramInit ==
  /\ program = [slots |-> [s \in SlotIds |-> EmptySlot], paused |-> FALSE]
  /\ savedProgram = program
  /\ votes = [v \in VoteIds |-> "none"]
  /\ savedVotes = votes
  /\ runs = <<>> /\ finishing = {}
  /\ advancing = NoAdvance /\ opening = {} /\ closing = NoClosing
  /\ programFaults = 0

-----------------------------------------------------------------------------
(* Writes.                                                                 *)

ProgramFault == programFaults < MaxProgramFaults /\ programFaults' = programFaults + 1

\* persistLocked: the whole programme, or nothing.
SaveProgram ==
  \/ savedProgram' = program' /\ UNCHANGED programFaults
  \/ UNCHANGED savedProgram /\ ProgramFault

SaveVotes ==
  \/ savedVotes' = votes' /\ UNCHANGED programFaults
  \/ UNCHANGED savedVotes /\ ProgramFault

\* scheduleNextOccurrenceLocked: a slot that repeats leaves its successor,
\* until it has run out.
WithNext(slots, s) ==
  {slots} \cup
    IF slots[s].repeats
      THEN {[slots EXCEPT ![t] = [EmptySlot EXCEPT !.state = "pending",
                                                   !.choice = slots[s].choice,
                                                   !.repeats = TRUE]] :
              t \in {u \in SlotIds : slots[u].state = "none"}}
      ELSE {}

Goes(s, state) == [slot EXCEPT ![s].state = state]

-----------------------------------------------------------------------------
(* The operator's requests.                                                *)

SlotAdd(s) ==
  /\ s \in UnusedSlots
  /\ \E c \in Choices, repeats \in Repeats :
       program' = [program EXCEPT !.slots[s] =
         [EmptySlot EXCEPT !.state = "pending", !.choice = c, !.repeats = repeats]]
  /\ SaveProgram
  /\ UNCHANGED <<votes, savedVotes, runs, finishing, advancing, opening, closing>>

\* skip, or cancel before the start.
SlotDrop(s) ==
  /\ slot[s].state = "pending"
  /\ \E slots \in WithNext(Goes(s, "cancelled"), s) :
       program' = [program EXCEPT !.slots = slots]
  /\ SaveProgram
  /\ UNCHANGED <<votes, savedVotes, runs, finishing, advancing, opening, closing>>

\* Mutant of SlotCancelled: the slot does not wait for its run.
SlotCancelledNow(s) == Goes(s, "cancelled")

\* The wall is asked to stop the runs there are; the slot stays live.
SlotCancelled(s) == [slot EXCEPT ![s].cancelling = TRUE]

SlotCancel(s) ==
  /\ LiveSlot(s)
  /\ program' = [program EXCEPT !.slots = SlotCancelled(s)]
  /\ SaveProgram
  /\ UNCHANGED <<votes, savedVotes, runs, finishing, advancing, opening, closing>>

SlotRetry(s) ==
  /\ slot[s].state \in {"blocked", "failed"}
  /\ program' = [program EXCEPT !.slots[s] =
       [@ EXCEPT !.state = "pending", !.run = 0, !.cancelling = FALSE]]
  /\ SaveProgram
  /\ UNCHANGED <<votes, savedVotes, runs, finishing, advancing, opening, closing>>

SetPaused ==
  /\ program' = [program EXCEPT !.paused = ~@]
  /\ SaveProgram
  /\ UNCHANGED <<votes, savedVotes, runs, finishing, advancing, opening, closing>>

-----------------------------------------------------------------------------
(* advance, under advanceMu; mu is free during the launch.                 *)

\* nextDueLocked; a challenge that is gone blocks its slot.
AdvancePick(s) ==
  /\ advancing = NoAdvance
  /\ ~program.paused
  /\ ~\E t \in SlotIds : LiveSlot(t)
  /\ slot[s].state = "pending"
  /\ \/ /\ program' = [program EXCEPT !.slots = Goes(s, "starting")]
        /\ advancing' = [NoAdvance EXCEPT !.slot = s, !.phase = "launch"]
     \/ /\ \E slots \in WithNext(Goes(s, "blocked"), s) :
             program' = [program EXCEPT !.slots = slots]
        /\ UNCHANGED advancing
  /\ SaveProgram
  /\ UNCHANGED <<votes, savedVotes, runs, finishing, opening, closing>>

\* launchChallenge: the wall takes the run, or refuses it.
AdvanceLaunch ==
  /\ advancing.phase = "launch"
  /\ \/ /\ Len(runs) < MaxLaunches
        /\ runs' = Append(runs, "open")
        /\ advancing' = [advancing EXCEPT !.phase = "record", !.run = Len(runs')]
     \/ /\ UNCHANGED runs
        /\ advancing' = [advancing EXCEPT !.phase = "record"]
  /\ UNCHANGED <<program, savedProgram, votes, savedVotes, finishing, opening,
                 closing, programFaults>>

\* What happened to the slot during the launch is kept, a cancel request too,
\* of which the run knows nothing.
AdvanceRecord ==
  LET s == advancing.slot IN
  /\ advancing.phase = "record"
  /\ \/ /\ advancing.run # 0
        /\ program' = [program EXCEPT !.slots[s].state = "live",
                                      !.slots[s].run = advancing.run]
     \/ /\ advancing.run = 0
        /\ \E slots \in WithNext(Goes(s, "blocked"), s) :
             program' = [program EXCEPT !.slots = slots]
  /\ SaveProgram
  /\ advancing' = NoAdvance
  /\ UNCHANGED <<votes, savedVotes, runs, finishing, opening, closing>>

-----------------------------------------------------------------------------
(* The runs.                                                               *)

\* A run ends by its runner's report, or by the reaper or an operator.
RunEnds(r) ==
  /\ runs[r] = "open"
  /\ \E outcome \in {"good", "bad"} : runs' = [runs EXCEPT ![r] = outcome]
  /\ finishing' \in {finishing, finishing \cup {r}}
  /\ UNCHANGED <<program, savedProgram, votes, savedVotes, advancing, opening,
                 closing, programFaults>>

RunEvicted(r) ==
  /\ runs[r] \in {"good", "bad"}
  /\ runs' = [runs EXCEPT ![r] = "gone"]
  /\ UNCHANGED <<program, savedProgram, votes, savedVotes, finishing, advancing,
                 opening, closing, programFaults>>

Over(r) == runs[r] \in {"good", "bad"}

SlotOutcome(s) ==
  IF slot[s].cancelling THEN "cancelled"
  ELSE IF runs[slot[s].run] = "bad" THEN "failed" ELSE "completed"

\* finishRun waits for a launch under way; the slot ends when its run did, as
\* the wall's memory knows it.  (A run that a retry replaced finds the slot's
\* own run there, which brings its own finish.)
FinishRun(r) ==
  /\ r \in finishing /\ advancing = NoAdvance
  /\ finishing' = finishing \ {r}
  /\ \/ \E s \in SlotIds :
          /\ LiveSlot(s) /\ slot[s].run = r /\ Over(r)
          /\ \E slots \in WithNext(Goes(s, SlotOutcome(s)), s) :
               program' = [program EXCEPT !.slots = slots]
          /\ SaveProgram
     \/ /\ ~\E s \in SlotIds : LiveSlot(s) /\ slot[s].run = r /\ Over(r)
        /\ UNCHANGED <<program, savedProgram, programFaults>>
  /\ UNCHANGED <<votes, savedVotes, runs, advancing, opening, closing>>

-----------------------------------------------------------------------------
(* Votes.                                                                  *)

\* create: the check and the append are two sections.
VoteCheck(v) ==
  /\ votes[v] = "none" /\ v \notin opening
  /\ ~\E w \in VoteIds : votes[w] = "open"
  /\ opening' = opening \cup {v}
  /\ UNCHANGED <<program, savedProgram, votes, savedVotes, runs, finishing,
                 advancing, closing, programFaults>>

VoteOpen(v) ==
  /\ v \in opening
  /\ opening' = opening \ {v}
  /\ \/ /\ votes' = [votes EXCEPT ![v] = "open"]
        /\ savedVotes' = votes' /\ UNCHANGED programFaults
     \/ UNCHANGED <<votes, savedVotes>> /\ ProgramFault
  /\ UNCHANGED <<program, savedProgram, runs, finishing, advancing, closing>>

VoteCancel(v) ==
  /\ votes[v] = "open"
  /\ votes' = [votes EXCEPT ![v] = "cancelled"]
  /\ SaveVotes
  /\ UNCHANGED <<program, savedProgram, runs, finishing, advancing, opening, closing>>

\* close resolves the winner ...
VoteResolve(v) ==
  /\ closing = NoClosing
  /\ votes[v] = "open"
  /\ \E c \in Choices : closing' = [vote |-> v, choice |-> c, queued |-> FALSE]
  /\ UNCHANGED <<program, savedProgram, votes, savedVotes, runs, finishing,
                 advancing, opening, programFaults>>

\* Mutant of SlotOf: the slot is not looked for.
NoSlotOf(v) == {}

SlotOf(v) == {s \in SlotIds : slot[s].vote = v}

\* ... gives it a slot, unless an earlier attempt did ...
WinnerSlot(v, c) ==
  \/ SlotOf(v) # {} /\ UNCHANGED program
  \/ /\ SlotOf(v) = {}
     /\ \E s \in UnusedSlots :
          program' = [program EXCEPT !.slots[s] =
            [EmptySlot EXCEPT !.state = "pending", !.choice = c, !.vote = v]]

VoteQueue ==
  /\ closing # NoClosing /\ ~closing.queued
  /\ \/ /\ WinnerSlot(closing.vote, closing.choice)
        /\ \/ program' = program /\ UNCHANGED savedProgram
           \/ program' # program /\ savedProgram' = program'
        /\ closing' = [closing EXCEPT !.queued = TRUE]
        /\ UNCHANGED programFaults
     \/ /\ closing' = NoClosing
        /\ ProgramFault
        /\ UNCHANGED <<program, savedProgram>>
  /\ UNCHANGED <<votes, savedVotes, runs, finishing, advancing, opening>>

\* ... and closes the vote, whatever it has become meanwhile.
VoteClose ==
  /\ closing.queued
  /\ votes' = [votes EXCEPT ![closing.vote] = "closed"]
  /\ SaveVotes
  /\ closing' = NoClosing
  /\ UNCHANGED <<program, savedProgram, runs, finishing, advancing, opening>>

-----------------------------------------------------------------------------
(* Restart of the wall: recoverLocked over what was written.               *)

Recovered(k) ==
  IF k.state \notin {"starting", "live"} THEN k
  ELSE IF k.run = 0 THEN [k EXCEPT !.state = "blocked"]
  ELSE IF ~Over(k.run) THEN [k EXCEPT !.state = "live"]
  ELSE [k EXCEPT !.state = IF k.cancelling THEN "cancelled"
                           ELSE IF runs[k.run] = "bad" THEN "failed"
                           ELSE "completed"]

ProgramRestart ==
  /\ ProgramFault
  /\ LET slots == [s \in SlotIds |-> Recovered(savedProgram.slots[s])]
         ended == {s \in SlotIds : slots[s].state # savedProgram.slots[s].state
                                   /\ slots[s].state # "live"}
     IN \/ ended = {} /\ program' = [savedProgram EXCEPT !.slots = slots]
        \/ \E s \in ended : \E next \in WithNext(slots, s) :
             program' = [savedProgram EXCEPT !.slots = next]
  /\ savedProgram' = program'
  /\ votes' = savedVotes /\ UNCHANGED savedVotes
  /\ finishing' = {} /\ advancing' = NoAdvance
  /\ opening' = {} /\ closing' = NoClosing
  /\ UNCHANGED runs

-----------------------------------------------------------------------------
SlotRequest(s) ==
  SlotAdd(s) \/ SlotDrop(s) \/ SlotCancel(s) \/ SlotRetry(s) \/ AdvancePick(s)

VoteRequest(v) == VoteCheck(v) \/ VoteOpen(v) \/ VoteCancel(v) \/ VoteResolve(v)

ProgramNext ==
  \/ \E s \in SlotIds : SlotRequest(s)
  \/ SetPaused
  \/ AdvanceLaunch \/ AdvanceRecord
  \/ \E r \in DOMAIN runs : RunEnds(r) \/ RunEvicted(r) \/ FinishRun(r)
  \/ \E v \in VoteIds : VoteRequest(v)
  \/ VoteQueue \/ VoteClose
  \/ ProgramRestart

ProgramSpec == ProgramInit /\ [][ProgramNext]_programVars

-----------------------------------------------------------------------------
(* Properties.                                                             *)

\* Every variable has its type.
ProgramTypeOK ==
  /\ \A p \in {program, savedProgram} :
       /\ p.slots \in [SlotIds -> SlotRecords] /\ p.paused \in BOOLEAN
       /\ \A s \in SlotIds : p.slots[s].run <= Len(runs)
  /\ \A b \in {votes, savedVotes} :
       b \in [VoteIds -> {"none", "open", "closed", "cancelled"}]
  /\ \A r \in DOMAIN runs : runs[r] \in {"open", "good", "bad", "gone"}
  /\ finishing \subseteq DOMAIN runs
  /\ advancing.phase \in {"idle", "launch", "record"}
  /\ opening \subseteq VoteIds
  /\ programFaults \in 0 .. MaxProgramFaults

\* The programme plays one challenge at a time: of the runs it knows, by a
\* slot or as a launch just made, one is open at most, through cancels,
\* retries, late finishes and restarts.
Known == ({slot[s].run : s \in SlotIds} \cup {advancing.run}) \ {0}
OneChallengePlays ==
  \A q, r \in Known : runs[q] = "open" /\ runs[r] = "open" => q = r

\* A vote that is closed, in memory or on disk, has its one slot in the
\* programme, in memory and on disk: no winner is lost or queued twice.
WinnerIsQueued ==
  \A v \in VoteIds :
    /\ \A p \in {program, savedProgram} :
         Cardinality({s \in SlotIds : p.slots[s].vote = v}) <= 1
    /\ "closed" \in {votes[v], savedVotes[v]} =>
         \A p \in {program, savedProgram} : \E s \in SlotIds : p.slots[s].vote = v
=============================================================================
