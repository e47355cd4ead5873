------------------------------- MODULE MCSources -------------------------------
(* Sources with two addresses of one channel list each. *)
EXTENDS Sources

CONSTANTS a1, a2, none

MCUrlsOf ==
  [k \in Kinds |-> IF k \in {"elcano", "af1c1onados"} THEN {{a1, a2}, {a2}} ELSE {{a1}, {a2}}]

MCMaxRequests == [k \in Kinds |-> IF k \in {"custom", "newera"} THEN 2 ELSE 1]

MCNoUrl == {none}
=============================================================================
