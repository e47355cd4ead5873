----------------------------- MODULE MCBroadcast -----------------------------
(***************************************************************************)
(* Model checking of Broadcast. Memory and infohashes are interchangeable. *)
(***************************************************************************)
EXTENDS Broadcast, TLC

Symmetry == Permutations(Sessions) \cup Permutations(Infohashes)

\* For the run with two infohashes: a handler's call into the manager takes
\* less than the second a tick stands for.
CallsAreShort ==
  Tick => \A h \in Handlers : pc[h] \in {"idle", "construct", "attached", "join"}
==============================================================================
