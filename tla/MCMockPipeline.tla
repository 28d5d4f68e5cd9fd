--------------------------- MODULE MCMockPipeline ---------------------------
(***************************************************************************)
(* Three HTTP requests and two messages: an operation with a conditional,  *)
(* a one-time and a plain example and a channel with a one-time and a      *)
(* plain example, of one schema; an operation of another schema whose      *)
(* example cannot be rendered.                                             *)
(***************************************************************************)
EXTENDS MockPipeline

CONSTANTS r1, r2, r3, a1, a2, na, nb, cnt, flag, xm, xo, xd, xb, yo, yd, e1, e2,
          MaxArrived  \* how many of the requests come in one behaviour

Up      == [kind |-> "other", n |-> 0]
Inc     == [op |-> "increment", n |-> 1]
MCValue == {Up}
MCDelta == {1}

MCPrefix == [r \in Req |-> IF r = r3 THEN nb ELSE na]

MCListed == [r \in Req |-> IF r \in Async THEN <<yo, yd>>
                           ELSE IF r = r3 THEN <<xb>> ELSE <<xm, xo, xd>>]

MCMatch == [x \in Example |-> IF x = xm THEN [k \in {flag} |-> Up] ELSE Empty]

MCSetState ==
  [x \in Example |->
     CASE x = xm -> [k \in {cnt, flag} |-> IF k = cnt THEN Inc ELSE [op |-> "delete"]]
       [] x = xo -> [k \in {cnt, flag} |-> IF k = cnt THEN Inc ELSE [op |-> "invalid"]]
       [] x \in {xd, yo} -> [k \in {cnt, flag} |-> IF k = cnt THEN Inc
                               ELSE [op |-> "set", value |-> Up]]
       [] x = xb -> [k \in {cnt} |-> Inc]
       [] x = yd -> [k \in {flag} |-> [op |-> "copy", from |-> flag]]]

MCTrigger == [x \in Example |-> CASE x = xm -> <<e1>> [] x = xd -> <<e1, e2>>
                                  [] x = xb -> <<e1>> [] OTHER -> <<>>]

MCSpec ==
  PipeInit /\ [][PipeNext /\ Cardinality({r \in Req : req'[r].pc # "idle"}) <= MaxArrived]_pipeVars
=============================================================================
