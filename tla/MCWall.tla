------------------------------- MODULE MCWall -------------------------------
(* Instances of Wall for TLC.                                               *)
EXTENDS Wall, TLC

CONSTANTS r1, r2, r3, w1, w2

Outcome(reason) == [reason |-> reason, bare |-> FALSE, transport |-> FALSE,
                    advanced |-> FALSE]
Stopped == [Outcome("budget") EXCEPT !.bare = TRUE]
Transport == [Outcome("error") EXCEPT !.transport = TRUE]

\* Runners that report no version.
Unversioned == [n \in {w1, w2} |-> NoRevision]
SuccessorSymmetry == Permutations({r2, r3})

PlainSpec == [profile |-> "default", endless |-> FALSE]
StrictEndless == [profile |-> "strict", endless |-> TRUE]
Resilient == [profile |-> "resilient", endless |-> FALSE]

NoEndless == {PlainSpec, Resilient}
ChainSpecs == {StrictEndless}

DoneOrStopped == {Outcome("done"), Stopped}
FewOutcomes == {Outcome("done"), Outcome("error"), Stopped}
MidOutcomes == FewOutcomes \cup {Outcome("drained"), Transport}
=============================================================================
