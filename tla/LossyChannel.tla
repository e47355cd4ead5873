----------------------------- MODULE LossyChannel -----------------------------
(***************************************************************************)
(* What a client queue promises, without its mutex, its condition          *)
(* variables and its byte counter: a bounded channel that delivers chunks  *)
(* in the order they were accepted, loses only the oldest ones, and no     *)
(* more of them than it takes to make room. Once shut it accepts nothing   *)
(* and delivers what is left.                                              *)
(***************************************************************************)
EXTENDS Naturals, Sequences

CONSTANTS
  Chunks,      \* [id : Nat, size : Nat \ {0}]
  MaxChunks, MaxBytes

VARIABLES
  buffer,      \* the chunks accepted and neither delivered nor lost
  shut

channel == <<buffer, shut>>

\* The bytes of the chunks of s.
Bytes(s) ==
  LET upTo[n \in 0..Len(s)] == IF n = 0 THEN 0 ELSE upTo[n - 1] + s[n].size
  IN upTo[Len(s)]

Fits(s, chunk) == Len(s) < MaxChunks /\ Bytes(s) + chunk.size <= MaxBytes

\* s without its n oldest chunks.
Without(s, n) == SubSeq(s, n + 1, Len(s))

Init == buffer = <<>> /\ shut = FALSE

\* Accepting a chunk loses the fewest oldest ones: a chunk larger than the
\* channel is accepted alone.
Put(chunk) ==
  /\ ~shut
  /\ \E lost \in 0..Len(buffer) :
       /\ lost = Len(buffer) \/ Fits(Without(buffer, lost), chunk)
       /\ \A fewer \in 0..(lost - 1) : ~Fits(Without(buffer, fewer), chunk)
       /\ buffer' = Append(Without(buffer, lost), chunk)
  /\ UNCHANGED shut

Take ==
  /\ buffer # <<>>
  /\ buffer' = Tail(buffer)
  /\ UNCHANGED shut

Shut == shut' = TRUE /\ UNCHANGED buffer

Next == (\E chunk \in Chunks : Put(chunk)) \/ Take \/ Shut

Spec == Init /\ [][Next]_channel
=============================================================================
