------------------------------ MODULE MCPause ------------------------------
(* Instances of PauseControl for TLC.                                       *)
EXTENDS PauseControl, TLC

CONSTANTS r1, r2, w1, w2

Outcome(reason) == [reason |-> reason, bare |-> FALSE, transport |-> FALSE,
                    advanced |-> FALSE]
Stopped == [Outcome("budget") EXCEPT !.bare = TRUE]
Advanced == [Outcome("error") EXCEPT !.advanced = TRUE]

Old == "old"
New == "new"
MCRevisions == {Old, New}

\* A rollout in progress: one runner of either build.
MixedFleet == (w1 :> Old) @@ (w2 :> New)

\* Runners that report no version.
Unversioned == [n \in {w1, w2} |-> NoRevision]

PlainSpec == [profile |-> "default", endless |-> FALSE]
Resilient == [profile |-> "resilient", endless |-> FALSE]

PlainOnly == {PlainSpec}
BothProfiles == {PlainSpec, Resilient}

FewOutcomes == {Outcome("done"), Outcome("error"), Stopped}
DoneOrStuck == {Outcome("done"), Outcome("stuck")}
CircuitOutcomes == {Outcome("done"), Outcome("error"), Advanced}
=============================================================================
