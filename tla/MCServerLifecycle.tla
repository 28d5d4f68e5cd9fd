-------------------------- MODULE MCServerLifecycle --------------------------
(***************************************************************************)
(* A document example of one schema and three runtime examples of another: *)
(* one found by name, one by wildcard and delayed, one periodic.  Fire     *)
(* calls change nothing they share, so one call against every interleaving *)
(* of POST, DELETE and shutdown is enough.  What clients ask in one        *)
(* behaviour is bounded as a whole.                                        *)
(***************************************************************************)
EXTENDS ServerLifecycle, TLC

CONSTANTS xs, xw, xn, xp, ev, sa, sb, f1,
          MaxLoad    \* bound on Load

MCSpecSeq == <<xs>>

MCIdentity == [x \in EventEx |-> IF x = xw THEN NoName ELSE ev]

MCSchemaOf == [x \in Ex |-> IF x = xs THEN sb ELSE sa]

(* Delayed and immediate events, local and global, and a built-in one. *)
MCCall == {c \in [name : Event, schema : {sa}, global : BOOLEAN,
                  delay : BOOLEAN, builtin : BOOLEAN] :
             c.builtin => ~c.global /\ ~c.delay}

(* Counts of flags around each other, numbers around their bounds. *)
MCSettings ==
  [flags : {"ok", "bad"}, from : 0 .. 2, prefixes : 0 .. 2,
   list : {"none", "bad", "good"}, items : {0, 2},
   port : {-1, 0, 1, 65535, 65536}, delay : {-1, 0}, historySize : {-1, 0}]

Load ==
  Cardinality({x \in Ex \ SpecEx : client[x] # "absent"})
  + Cardinality({x \in Ex \ SpecEx : client[x] \in {"deleting", "deleted"}})
  + Cardinality({f \in Fire : fire[f].pc # "idle"})
  + (IF slow # "none" THEN 1 ELSE 0)

MCSpec == LifeInit /\ [][LifeNext /\ Load' <= MaxLoad]_allVars /\ LifeFairness
=============================================================================
