------------------------------ MODULE LeaseBook ------------------------------
(***************************************************************************)
(* What the wall promises of a run, without queue, flags or messages: a     *)
(* generation is handed to at most one worker, is settled once, after that  *)
(* worker has let go of it, and only then is the next one handed out.       *)
(* Wall implements it as long as no runner outlives its generation.         *)
(***************************************************************************)
EXTENDS Naturals

CONSTANTS RunIds, Runners, NoRunner

VARIABLES
    state,      \* of each run id
    generation, \* how many generations of it were settled
    worker      \* who plays the generation that is out

bookVars == <<state, generation, worker>>

BookTypeOK ==
    /\ state \in [RunIds -> {"free", "waiting", "out", "closed"}]
    /\ generation \in [RunIds -> Nat]
    /\ worker \in [RunIds -> Runners \cup {NoRunner}]

BookInit ==
    /\ state = [r \in RunIds |-> "free"]
    /\ generation = [r \in RunIds |-> 0]
    /\ worker = [r \in RunIds |-> NoRunner]

\* A run starts over from generation 0.
Open(r) ==
    /\ state[r] \in {"free", "closed"}
    /\ state' = [state EXCEPT ![r] = "waiting"]
    /\ generation' = [generation EXCEPT ![r] = 0]
    /\ UNCHANGED worker

\* A waiting generation goes to a worker that plays nothing else, or is lost
\* on the way to it.
HandOut(r, n) ==
    /\ state[r] = "waiting"
    /\ \A q \in RunIds : worker[q] # n \/ n = NoRunner
    /\ state' = [state EXCEPT ![r] = "out"]
    /\ worker' = [worker EXCEPT ![r] = n]
    /\ UNCHANGED generation

\* The worker is done with the generation, or dead.
LetGo(r) ==
    /\ worker[r] # NoRunner
    /\ worker' = [worker EXCEPT ![r] = NoRunner]
    /\ UNCHANGED <<state, generation>>

\* The settlement closes the run or queues its next generation; closing one
\* may open a successor in the same step.
Conclude(r, verdict) ==
    /\ \/ /\ state' = [state EXCEPT ![r] = verdict]
          /\ generation' = [generation EXCEPT ![r] = @ + 1]
       \/ /\ verdict = "closed"
          /\ \E next \in RunIds \ {r} :
               /\ state[next] = "free"
               /\ state' = [state EXCEPT ![r] = verdict, ![next] = "waiting"]
               /\ generation' = [generation EXCEPT ![r] = @ + 1, ![next] = 0]
    /\ UNCHANGED worker

Settle(r) ==
    /\ state[r] = "out"
    /\ worker[r] = NoRunner
    /\ \E verdict \in {"waiting", "closed"} : Conclude(r, verdict)

\* A run cancelled before it was handed out is closed without being played.
Withdraw(r) ==
    /\ state[r] = "waiting"
    /\ Conclude(r, "closed")

Forget(r) ==
    /\ state[r] = "closed"
    /\ state' = [state EXCEPT ![r] = "free"]
    /\ generation' = [generation EXCEPT ![r] = 0]
    /\ UNCHANGED worker

BookNext ==
    \E r \in RunIds :
        \/ Open(r) \/ LetGo(r) \/ Settle(r) \/ Withdraw(r) \/ Forget(r)
        \/ \E n \in Runners \cup {NoRunner} : HandOut(r, n)

BookSpec == BookInit /\ [][BookNext]_bookVars
=============================================================================
