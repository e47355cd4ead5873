--------------------------- MODULE MCChannelVerifier ---------------------------
(***************************************************************************)
(* Instances of ChannelVerifier for TLC.                                   *)
(***************************************************************************)
EXTENDS ChannelVerifier, TLC

\* Calls are alike, and so are contents and workers.
Symmetry == Permutations(Calls) \cup Permutations(Contents) \cup Permutations(Workers)
=============================================================================
