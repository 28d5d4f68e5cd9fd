---------------------------- MODULE MCWsAdapter ----------------------------
(* Three consumers on two channels, two subscribers of the management      *)
(* stream, one with each filter, a management call, and one goroutine that *)
(* fires events and serves a SignalR hub without channels.                 *)
(* What the environment asks of the server in one behaviour is bounded as  *)
(* a whole, so that any of them can meet.                                  *)
EXTENDS WsAdapter

CONSTANTS c1, c2, c3, s1, s2,
          MaxLoad                         \* bound on Load

MCChannelOf == [c \in Conn |-> IF c = c3 THEN <<"b">> ELSE <<"a">>]

MCFilter == [s \in Sub |-> IF s = s1
              THEN [events |-> {}, channels |-> {<<"*", "a">>}]
              ELSE [events |-> {<<"a", "*">>}, channels |-> {}]]

Events == {[type |-> "event", name |-> <<"a", "b">>], [type |-> "event", name |-> <<"b">>],
           [type |-> "consumer", channel |-> <<>>, action |-> "connected", conn |-> "signalr"]}

(* How much the environment has asked so far: connections, messages and    *)
(* departures, events, management calls, a shutdown.                       *)
Load ==
  Cardinality({p \in Peer : sock[p].up # "none"})
  + Cardinality({p \in Peer : sock[p].up = "gone"})
  + Cardinality({m \in Peer \X (1 .. MaxIn) : m[2] <= sock[m[1]].sent})
  + Cardinality({m \in Bus \X (1 .. MaxEmitted) : m[2] <= Len(emitted[m[1]])})
  + Cardinality({t \in Call : call[t].pc # "none"})
  + (IF down THEN 1 ELSE 0)

MCSpec == WsInit /\ [][WsNext /\ Load' <= MaxLoad]_wsVars /\ WsFairness
=============================================================================
