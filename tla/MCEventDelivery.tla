--------------------------- MODULE MCEventDelivery ---------------------------
(* Two consumers of one channel and one of another; examples with every    *)
(* kind of condition.                                                      *)
EXTENDS EventDelivery

CONSTANTS c1, c2, c3

MCChannelOf == [c \in Conn |-> IF c = c3 THEN "B" ELSE "A"]

Cond(k, v) == [key |-> k, val |-> v]

MCEvents ==
  {[name |-> "order", about |-> c] : c \in {c1, c3}} \cup {[name |-> "connect", about |-> c] : c \in Conn}

Ex(n, ch, m, s, p) == [name |-> n, channel |-> ch, match |-> m, sets |-> s, payload |-> p]

Orders ==
  {Ex("order", "A", {}, TRUE, "plain"),
   Ex("order", "A", {Cond("connection", "event")}, TRUE, "plain"),
   Ex("order", "A", {Cond("connection", "state"), Cond("event", c1)}, TRUE, "plain"),
   Ex("order", "A", {Cond("event", "connection")}, FALSE, "plain"),
   Ex("order", "A", {Cond("state", "connection")}, FALSE, "plain"),
   Ex("order", "B", {Cond("state", c1)}, FALSE, "plain"),
   Ex("order", "A", {}, TRUE, "connection"),
   Ex("order", "A", {Cond("connection", c2)}, TRUE, "skipped")}

Connects ==
  {Ex("connect", "A", {Cond("event", "state")}, TRUE, "connection"),
   Ex("connect", "A", {Cond("connection", c1)}, TRUE, "plain")}

MCExample == Orders \cup Connects
=============================================================================
