-------------------------- MODULE MCExampleRegistry --------------------------
(***************************************************************************)
(* Three examples on one route: a one-time one that expires, one whose     *)
(* conditions match a single request, and a plain one; two requests.  What *)
(* the environment asks for in one behaviour is bounded as a whole.        *)
(***************************************************************************)
EXTENDS ExampleRegistry, TLC

CONSTANTS xo, xc, xp, q1, q2,
          MaxLoad  \* bound on Load

MCTTL == [x \in Ex |-> IF x = xo THEN 1 ELSE 0]

MCMatches == {m \in Req \X Ex : m[2] = xc => m[1] = q2}

(* How much has been asked so far: POSTs, DELETEs, requests, seconds. *)
Load ==
  Cardinality({x \in Ex : addedAt[x] # None})
  + Cardinality(deleted) + (IF remover = Idle THEN 0 ELSE 1)
  + Cardinality({q \in Req : sel[q].pc # "idle"})
  + clock

MCSpec == Init /\ [][Next /\ Load' <= MaxLoad]_vars /\ Fairness
=============================================================================
