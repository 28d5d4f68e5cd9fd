---------------------------- MODULE MCSignalRHub ----------------------------
(***************************************************************************)
(* Two clients of one hub with two channels.  What the environment asks    *)
(* for in one behaviour is bounded as a whole.                             *)
(***************************************************************************)
EXTENDS SignalRHub, TLC

CONSTANTS c1, h1, h2,
          MaxLoad  \* bound on Load

OneHub  == <<h1>>
SameHub == [c \in Client |-> 1]

(* For a look at ids that two hubs have handed out. *)
TwoHubs == <<h1, h2>>
OwnHub  == [c \in Client |-> IF c = c1 THEN 1 ELSE 2]

(* How much has been asked: connections, forced disconnections that are    *)
(* under way, tokens that nobody has used yet, frames sent, pushes.        *)
Load ==
  Cardinality({c \in Client : pc[c] # "none"})
  + Cardinality({c \in Client : sock[c] \in {"closing", "closed"} /\ pc[c] # "ended"})
  + Cardinality(UNION {{h} \X tokens[h] : h \in HubIndex})
  + sent + Cardinality({p \in Push : push[p].pc # "idle"})

MCSpec == Init /\ [][Next /\ Load' <= MaxLoad]_vars /\ Fairness
=============================================================================
