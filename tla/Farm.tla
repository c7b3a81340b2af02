-------------------------------- MODULE Farm --------------------------------
(***************************************************************************)
(* The wall as it is deployed: the queue and its runners (Wall), the pause  *)
(* and circuit wrappers with the control plane or without it                *)
(* (PauseControl), the snapshot, restarts and the eviction of finished      *)
(* tiles (WallStore), and worker presence with its force-end                *)
(* (WorkerControl), interleaved.                                            *)
(***************************************************************************)
EXTENDS PauseControl, WallStore, WorkerControl

storeOnly == <<saved, restarts>>
farmVars == <<vars, pauseVars, storeOnly, controlVars>>

FarmInit == PauseInit /\ saved = Snapshot /\ restarts = 0 /\ ControlInit

-----------------------------------------------------------------------------
\* loadState makes a new Wall and new handlers around it: pause intents, failure
\* streaks, wrapped requests, presence and force-ends go with the process.
RestartAll ==
    /\ Restart
    /\ intents' = {} /\ failedOnce' = {} /\ forgets' = {} /\ wraps' = {}
    /\ stopped' = {}
    /\ presence' = [n \in Runners |-> Unseen]
    /\ forceEnds' = {}

PausePart == PauseNext /\ Answered /\ UNCHANGED <<restarts, controlVars>>

ControlPart ==
    /\ NotedBeats \/ ControlAlone \/ \E k \in forceEnds : ForceEndSettle(k)
    /\ UNCHANGED <<pauseVars, storeOnly>>

StorePart == (SaveState \/ EvictFinished) /\ UNCHANGED <<pauseVars, controlVars>>

FarmNext == PausePart \/ ControlPart \/ StorePart \/ RestartAll

FarmSpec == FarmInit /\ [][FarmNext]_farmVars

-----------------------------------------------------------------------------
FarmTypeOK == PauseTypeOK /\ ControlTypeOK

\* What Resume needs is still there: until the wall restarts or the operator
\* submits its id anew, no delete, eviction, force-end, late report, heartbeat
\* or sweep erases a paused run or counts a generation of it.
PausedIsKept ==
    [][\A r \in RunIds :
         /\ Paused(tiles[r])
         /\ fills'[r] = fills[r]
         /\ restarts' = restarts
         => Known(tiles'[r]) /\ tiles'[r].attempts = tiles[r].attempts]_farmVars
=============================================================================
