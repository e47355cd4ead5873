------------------------- MODULE MCVirtualChannels -------------------------
(* VirtualChannels for TLC: the engine knows a candidate by its content id. *)
EXTENDS VirtualChannels

MCInfohash == [c \in Cids |-> {c}]
=============================================================================
