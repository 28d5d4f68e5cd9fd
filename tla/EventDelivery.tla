---------------------------- MODULE EventDelivery ----------------------------
(***************************************************************************)
(* Who receives an event-driven example: deliverExample and renderExample  *)
(* of internal/server/message_delivery.go with the conditions of           *)
(* internal/extensions/match.go.                                           *)
(*                                                                         *)
(* An emission copies the state, evaluates the conditions that name no     *)
(* connection, sets state, renders the payload, and pushes it to its       *)
(* target, to the channel or to the candidates that the other conditions   *)
(* let through.  Consumers, the state and other emissions change           *)
(* meanwhile.  Which examples an event reaches at all is in EventDriver;   *)
(* how a frame reaches a socket in WsAdapter.                              *)
(***************************************************************************)
EXTENDS Naturals, Sequences, FiniteSets

CONSTANTS Conn,       \* consumers; a connection has one id for ever
          ChannelOf,  \* the channel each one connects to
          Nobody,     \* a value of the state that is no connection
          Emission,   \* calls of deliverExample
          Example,    \* examples: [name, channel, match, sets, payload]
          Events      \* events: [name, about], the connectionId in the payload

(* A condition is [key, val]: the key names a field of "event", "state" or *)
(* "connection", the value is an expression on one of them, or a literal.  *)
(* payload: "plain", "connection" (refers to it), "skipped" (x-mock-skip). *)
Source == {"event", "state", "connection"}

NoConn == "no connection source"

ASSUME DeliveryAssumption ==
  /\ NoConn \notin Conn
  /\ \A x \in Example : \A cond \in x.match : cond.key \in Source
  /\ \A ev \in Events : ev.about \in Conn \cup {Nobody}

VARIABLES connected,  \* the consumers in the registry
          owner,      \* the state that examples read and set
          em          \* the emissions

deliveryVars == <<connected, owner, em>>

Idle == [pc |-> "idle", x |-> "none", ev |-> "none", target |-> NoConn, snap |-> Nobody,
         todo |-> {}, told |-> {}, sent |-> <<>>, begun |-> {}]

DeliveryInit ==
  /\ connected = {}
  /\ owner = Nobody
  /\ em = [e \in Emission |-> Idle]

-----------------------------------------------------------------------------
(* The sources of an evaluator: the copy of the state, the event, and the  *)
(* connection if there is one.                                             *)
Value(source, snap, ev, conn) ==
  CASE source = "event" -> ev.about
    [] source = "state" -> snap
    [] source = "connection" -> conn

Available(source, conn) == source # "connection" \/ conn # NoConn

(* EvaluateParamsMatch for one condition: an expression on the right is    *)
(* evaluated only if the key names the event or the connection, and is the *)
(* string it is otherwise; a source that is missing fails the condition.   *)
referencesNewMatchContext(cond) == cond.key \in {"event", "connection"}

Holds(cond, snap, ev, conn) ==
  /\ Available(cond.key, conn)
  /\ IF cond.val \in Source
     THEN /\ referencesNewMatchContext(cond)
          /\ Available(cond.val, conn)
          /\ Value(cond.key, snap, ev, conn) = Value(cond.val, snap, ev, conn)
     ELSE Value(cond.key, snap, ev, conn) = cond.val

EvaluateParamsMatch(pm, snap, ev, conn) == \A cond \in pm : Holds(cond, snap, ev, conn)

(* PartitionConnectionConditions *)
referencesConnection(cond) == "connection" \in {cond.key, cond.val}

ConnectionBucket(x) == {cond \in x.match : referencesConnection(cond)}
CommonBucket(x) == x.match \ ConnectionBucket(x)

-----------------------------------------------------------------------------
Connect(c) ==
  /\ c \notin connected
  /\ \A e \in Emission : c \notin em[e].begun \cup em[e].todo
  /\ connected' = connected \cup {c}
  /\ UNCHANGED <<owner, em>>

Disconnect(c) ==
  /\ c \in connected
  /\ connected' = connected \ {c}
  /\ UNCHANGED <<owner, em>>

(* A request of the HTTP pipeline sets the state. *)
RequestSets(v) ==
  /\ owner # v
  /\ owner' = v
  /\ UNCHANGED <<connected, em>>

(* An event calls deliverExample, the built-in connect for the consumer    *)
(* that has just been registered, and the state is copied.                 *)
Begin(e, x, ev, target) ==
  /\ em[e].pc = "idle"
  /\ IF ev.name = "connect" THEN target \in connected /\ ev.about = target ELSE target = NoConn
  /\ ev.name = x.name
  /\ em' = [em EXCEPT ![e] = [Idle EXCEPT !.pc = "copied", !.x = x, !.ev = ev,
                               !.target = target, !.snap = owner, !.begun = connected]]
  /\ UNCHANGED <<connected, owner>>

(* The conditions without a connection are evaluated once. *)
Common(e) ==
  /\ em[e].pc = "copied"
  /\ em' = [em EXCEPT ![e].pc =
       IF EvaluateParamsMatch(CommonBucket(em[e].x), em[e].snap, em[e].ev, em[e].target)
       THEN "matched" ELSE "ended"]
  /\ UNCHANGED <<connected, owner>>

Renders(e) ==
  em[e].x.payload = "plain" \/ (em[e].x.payload = "connection" /\ em[e].target # NoConn)

(* renderExample: x-mock-skip, x-mock-set-state, then the payload, which   *)
(* has the connection only for a target.                                   *)
Render(e) ==
  /\ em[e].pc = "matched"
  /\ owner' = IF em[e].x.sets /\ em[e].x.payload # "skipped" THEN em[e].ev.about ELSE owner
  /\ em' = [em EXCEPT ![e].pc = IF Renders(e) THEN "rendered" ELSE "ended"]
  /\ UNCHANGED connected

(* The consumers of the channel, copied from the registry. *)
Candidates(x) == {c \in connected : ChannelOf[c] = x.channel}

Broadcast(e) == em[e].target = NoConn /\ ConnectionBucket(em[e].x) = {}

(* The stream is told of a broadcast as a whole. *)
Told(e) == IF Broadcast(e) THEN Conn ELSE {}

(* The target, or the candidates. *)
Route(e) ==
  /\ em[e].pc = "rendered"
  /\ em' = [em EXCEPT
       ![e].pc = "pushing",
       ![e].todo = IF em[e].target # NoConn THEN {em[e].target} ELSE Candidates(em[e].x),
       ![e].told = Told(e)]
  /\ UNCHANGED <<connected, owner>>

(* Evaluates the bucket on the state as it is now. *)
FaultyChosen(e, c) ==
  EvaluateParamsMatch(ConnectionBucket(em[e].x), owner, em[e].ev, c)

(* evaluateConnectionBucket, on the copy of the state of this emission. *)
Chosen(e, c) ==
  EvaluateParamsMatch(ConnectionBucket(em[e].x), em[e].snap, em[e].ev, c)

(* notifyPush and PushTo, or the write of a broadcast: by id, and lost if  *)
(* the consumer has left.                                                  *)
Push(e, c) ==
  /\ em[e].pc = "pushing"
  /\ c \in em[e].todo
  /\ em' = [em EXCEPT
       ![e].todo = @ \ {c},
       ![e].told = IF Chosen(e, c) /\ ~Broadcast(e) THEN @ \cup {c} ELSE @,
       ![e].sent = IF Chosen(e, c) /\ c \in connected THEN Append(@, c) ELSE @]
  /\ UNCHANGED <<connected, owner>>

End(e) ==
  /\ em[e].pc = "pushing"
  /\ em[e].todo = {}
  /\ em' = [em EXCEPT ![e].pc = "ended"]
  /\ UNCHANGED <<connected, owner>>

deliverExample(e) == Common(e) \/ Render(e) \/ Route(e) \/ (\E c \in Conn : Push(e, c)) \/ End(e)

DeliveryNext ==
  \/ \E c \in Conn : Connect(c) \/ Disconnect(c)
  \/ \E v \in Conn \cup {Nobody} : RequestSets(v)
  \/ \E e \in Emission : deliverExample(e)
  \/ \E e \in Emission, x \in Example, ev \in Events, t \in Conn \cup {NoConn} : Begin(e, x, ev, t)

DeliverySpec == DeliveryInit /\ [][DeliveryNext]_deliveryVars

-----------------------------------------------------------------------------
Sent(e) == {em[e].sent[i] : i \in DOMAIN em[e].sent}

(* Types of the emissions. *)
DeliveryTypeOK ==
  /\ connected \subseteq Conn
  /\ owner \in Conn \cup {Nobody}
  /\ \A e \in Emission :
       /\ em[e].pc \in {"idle", "copied", "matched", "rendered", "pushing", "ended"}
       /\ em[e].todo \subseteq Conn

(* The whole match, evaluated for one consumer. *)
Wanted(e, c) == EvaluateParamsMatch(em[e].x.match, em[e].snap, em[e].ev, c)

(* RS.EXT.24-26: evaluating the match in two phases, and set-state, other  *)
(* emissions and requests in between, choose the consumers for whom the    *)
(* whole match holds on the state the emission began with.  None of them   *)
(* that stays connected is left out, nobody is pushed to twice, or without *)
(* the management stream being told (RS.AMG.25), and a broadcast stays in  *)
(* its channel, a built-in connect with its consumer.                      *)
RightRecipients ==
  \A e \in Emission :
    /\ \A c \in Sent(e) : /\ Wanted(e, c)
                          /\ IF em[e].target = NoConn THEN ChannelOf[c] = em[e].x.channel
                             ELSE c = em[e].target
    /\ Cardinality(Sent(e)) = Len(em[e].sent)
    /\ Sent(e) \subseteq em[e].told
    /\ em[e].pc = "ended" /\ Renders(e) =>
         \A c \in em[e].begun \cap connected :
           /\ Wanted(e, c)
           /\ IF em[e].target = NoConn THEN ChannelOf[c] = em[e].x.channel ELSE c = em[e].target
           => c \in Sent(e)

(* RS.EXT.21: a connect example "is emitted when a consumer connects to    *)
(* the channel": not to one that connects to another channel.              *)
ConnectOnItsChannel ==
  \A e \in Emission : \A c \in Sent(e) : ChannelOf[c] = em[e].x.channel
=============================================================================
