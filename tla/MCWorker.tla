------------------------------ MODULE MCWorker ------------------------------
(* Instances of WorkerControl for TLC.                                      *)
EXTENDS WorkerControl, TLC

CONSTANTS r1, r2, w1, w2

OneRunner == w1 :> NoRevision

EndlessOnly == {[profile |-> "default", endless |-> TRUE]}

ErrorOnly == {[reason |-> "error", bare |-> FALSE, transport |-> FALSE,
               advanced |-> FALSE]}
=============================================================================
