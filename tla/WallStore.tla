------------------------------ MODULE WallStore ------------------------------
(***************************************************************************)
(* The wall over its restarts: what saveState writes (cmd/pokewall/wall.go, *)
(* runtime_perf.go), what loadState and restorePersistedState make of it,   *)
(* and the eviction of finished tiles into the history catalog              *)
(* (catalog.go).                                                            *)
(*                                                                          *)
(* Every handler that changes a tile saves before it answers, after it has  *)
(* released the mutex; handleCancel alone saves nothing.  Here a save may   *)
(* come any time later, or never: its failure is only logged.  Only the     *)
(* save that comes before the answer to a lease is taken to succeed.        *)
(***************************************************************************)
EXTENDS Wall

CONSTANT MaxRestarts   \* bound: restarts of the wall

ASSUME StoreAssumption == MaxRestarts \in Nat

VARIABLES
    saved,      \* the snapshot last written
    restarts

storeVars == <<vars, saved, restarts>>

\* persistedStateLocked; fills and parent are history and go with it.
Snapshot == [tiles |-> tiles, queue |-> queue, fills |-> fills, parent |-> parent]

StoreInit == Init /\ saved = Snapshot /\ restarts = 0

-----------------------------------------------------------------------------
\* saveState: snapshots are taken under the mutex and written in their order.
SaveState ==
    /\ Unlocked
    /\ saved # Snapshot
    /\ saved' = Snapshot
    /\ UNCHANGED <<vars, restarts>>

Receives(n) == ~Working(n) /\ runners'[n].run # NoRun

\* Mutant of Answered: the lease is answered before it is saved.
AnsweredFirst == UNCHANGED saved

\* handleLease saves before it answers.
Answered ==
    IF \E n \in Runners : Receives(n) THEN saved' = Snapshot' ELSE UNCHANGED saved

\* evictCatalogFinished: finished runs that no live or paused run may fall
\* back to leave the memory for the catalog.
EvictFinished ==
    LET gone == {r \in RunIds : tiles[r].finished /\ r \notin Lineage} IN
    /\ Unlocked
    /\ gone # {}
    /\ tiles' = [r \in RunIds |-> IF r \in gone THEN AbsentTile ELSE tiles[r]]
    /\ cancel' = cancel \ gone
    /\ stale' = stale \ gone
    /\ UNCHANGED <<queue, fills, parent, scanVars, netVars, saved, restarts>>

\* persistedTile.tile: every field that scheduling reads comes back.
Restored(t) == t

\* The wall dies and loads its last snapshot.  Requests under way die with it,
\* the cancel flags too; every tile counts as just heard.
Restart ==
    /\ restarts < MaxRestarts
    /\ restarts' = restarts + 1
    /\ tiles' = [r \in RunIds |-> Restored(saved.tiles[r])]
    /\ queue' = saved.queue
    /\ fills' = saved.fills
    /\ parent' = saved.parent
    /\ cancel' = {} /\ stale' = {} /\ late' = {}
    /\ holder' = NoRunner /\ cursor' = 1
    /\ reports' = {m \in reports : ~m.checked}
    /\ UNCHANGED <<runners, saved>>

StoreNext ==
    \/ Next /\ Answered /\ UNCHANGED restarts
    \/ SaveState
    \/ EvictFinished
    \/ Restart

StoreSpec == StoreInit /\ [][StoreNext]_storeVars

-----------------------------------------------------------------------------
\* A run that is being played is out in the snapshot too, in the generation
\* that is played: a restart hands no played generation out a second time and
\* still accepts its report.
PlayedIsSaved ==
    \A n \in Runners : Working(n) =>
        LET t == saved.tiles[runners[n].run] IN
        /\ Live(t) /\ t.status # "queued"
        /\ CurrentAttempt(t) = runners[n].attempt

\* As long as the wall comes back, restarts lose no submission that was saved
\* and keep none alive for ever.
StoreFairness == Polls /\ Plays /\ Delivers /\ Reaps
=============================================================================
