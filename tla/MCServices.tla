----------------------------- MODULE MCServices -----------------------------
(* Instances of Services for TLC.                                           *)
EXTENDS Services, TLC

CONSTANTS j1, p1, p2,    \* a render job and two replay workers
          c1, c2,        \* publication candidates
          o1, o2,        \* occurrences of a failure
          s1, s2, v1, a, \* slots, a vote, a challenge
          h1, h2, h3,    \* runs that ask for a model
          m1, m2         \* the models of a host

\* Two slots at one worker, one at the other: a worker may render a job twice.
SlotsOfWorkers == (p1 :> 2) @@ (p2 :> 1)

Alike ==
  Permutations(SlotIds) \cup Permutations(Candidates) \cup Permutations({h1, h3})

BothEpisodes == [c \in Candidates |-> "episode"]

\* Two runs of one model, of which one plays at a time, and one of the other.
TwoOfOneModel == (h1 :> m1) @@ (h2 :> m2) @@ (h3 :> m1)

\* One run is retried, the others are played once.
RetriedOnce == (h1 :> 1) @@ (h2 :> 2) @@ (h3 :> 1)

OneRunEach == [d \in Deployments |-> 1]
=============================================================================
