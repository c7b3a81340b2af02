------------------------------- MODULE MCFarm -------------------------------
(* Instances of Farm for TLC.                                               *)
EXTENDS Farm, TLC

CONSTANTS r1, w1

Outcome(reason) == [reason |-> reason, bare |-> FALSE, transport |-> FALSE,
                    advanced |-> FALSE]

OneRunner == w1 :> NoRevision

PlainOnly == {[profile |-> "default", endless |-> FALSE]}

ErrorOnly == {Outcome("error")}
=============================================================================
