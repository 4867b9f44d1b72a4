---------------------------- MODULE MCObjectSync ----------------------------
(***************************************************************************)
(* Instances of ObjectSync for TLC.  Users edit without end and sessions   *)
(* end at any time; here both together happen at most MaxActs times, which *)
(* bounds the packets in flight too.                                       *)
(***************************************************************************)
EXTENDS ObjectSync, TLC

CONSTANT MaxActs    \* bound: edits and departures of all the members together
VARIABLE acts       \* how many there were

mcvars == <<vars, acts>>

MCInit == Init /\ acts = 0

Departs(g) == Leave(g) \/ LoseHost(g)

MCNext ==
    \/ StartHosting /\ UNCHANGED acts
    \/ \E g \in Guests :
          \/ (Join(g) \/ EndTransition(g) \/ requestFullState(g) \/ Poll(g)) /\ UNCHANGED acts
          \/ acts < MaxActs /\ Departs(g) /\ acts' = acts + 1
    \/ \E m \in Members : acts < MaxActs /\ Edit(m) /\ acts' = acts + 1

MCSpec == MCInit /\ [][MCNext]_mcvars
MCFairSpec == MCSpec /\ Fairness

Symmetric == Permutations(Obj) \cup Permutations(Guests) \cup Permutations(Val \ Truncated)
=============================================================================
