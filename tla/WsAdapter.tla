----------------------------- MODULE WsAdapter -----------------------------
(***************************************************************************)
(* Raw WebSocket consumers: the handler and the registry of                *)
(* internal/server/ws_adapter.go, with the management calls that push to   *)
(* consumers and disconnect them (management_async.go), and the lifecycle  *)
(* notifications that the handler sends to the management stream.          *)
(*                                                                         *)
(* A handler is one goroutine: it registers its connection, notifies the   *)
(* stream, fires the connect event, emits the example of a receive         *)
(* operation, then reads and answers until a read fails; it notifies the   *)
(* stream again and unregisters.  Pushes copy the registry and write to    *)
(* the copied connections later.  Events that the hooks fire are the       *)
(* subject of EventDriver; here the connect event is a message to the      *)
(* connection or nothing.  SignalR consumers are in SignalRHub.            *)
(***************************************************************************)
EXTENDS ManageStream

CONSTANTS Conn,       \* consumers, a subset of Peer, and emitters
          ChannelOf,  \* the channel of each consumer
          Receives,   \* the consumers of receive operations
          Greets,     \* the consumers whose schema subscribes to connect
          Call        \* management requests

ASSUME WsAdapterAssumption ==
  /\ Conn \subseteq Peer \ Sub
  /\ ChannelOf \in [Conn -> Seq(Letter)]
  /\ Emitter = Conn \cup Bus /\ Conn \cap Bus = {}

VARIABLES byID, byChan, autoID,  \* connectionRegistry
          pc, id, message,       \* the handlers
          call,                  \* management requests
          forced,                \* consumers unregistered by management
          down                   \* whether the shutdown has begun

regVars  == <<byID, byChan, autoID>>
connVars == <<pc, id, message>>
callVars == <<call, forced, down>>
restOfStream == <<subs, handler, cast, emitted, since>>
wsVars   == <<streamVars, regVars, connVars, callVars>>

NoCall == [pc |-> "none", channel |-> <<>>, target |-> 0, todo |-> {}, all |-> {}]

WsInit ==
  /\ StreamInit
  /\ byID = <<>> /\ byChan = <<>> /\ autoID = 0
  /\ pc = [c \in Conn |-> "none"]
  /\ id = [c \in Conn |-> 0]
  /\ message = [c \in Conn |-> 0]
  /\ call = [t \in Call |-> NoCall]
  /\ forced = {} /\ down = FALSE

-----------------------------------------------------------------------------
(* connectionRegistry, each operation under its mutex. *)

Without(f, x) == [y \in DOMAIN f \ {x} |-> f[y]]
With(f, x, v) == [y \in DOMAIN f \cup {x} |-> IF y = x THEN v ELSE f[y]]
InChannel(ch) == IF ch \in DOMAIN byChan THEN byChan[ch] ELSE {}

register(c) ==
  /\ autoID' = autoID + 1
  /\ byID' = With(byID, autoID', c)
  /\ byChan' = With(byChan, ChannelOf[c], InChannel(ChannelOf[c]) \cup {autoID'})

unregister(i) ==
  IF i \notin DOMAIN byID THEN UNCHANGED regVars
  ELSE LET ch == ChannelOf[byID[i]]
       IN /\ byChan' = IF byChan[ch] = {i} THEN Without(byChan, ch)
                       ELSE [byChan EXCEPT ![ch] = @ \ {i}]
          /\ byID' = Without(byID, i)
          /\ UNCHANGED autoID

Registered(c) == \E i \in DOMAIN byID : byID[i] = c

-----------------------------------------------------------------------------
(* The handler. *)

Lifecycle(c, action) ==
  [type |-> "consumer", channel |-> ChannelOf[c], action |-> action, conn |-> c]

(* The hook calls broadcast; the handler goes on when that has returned. *)
Waits(c) == cast[c].on

Upgrade(c) ==
  /\ pc[c] = "none"
  /\ register(c)
  /\ id' = [id EXCEPT ![c] = autoID']
  /\ pc' = [pc EXCEPT ![c] = "registered"]
  /\ sock' = [sock EXCEPT ![c] = Opened(@)]
  /\ UNCHANGED <<message, callVars, restOfStream>>

OnConnect(c) ==
  /\ pc[c] = "registered"
  /\ Announce(c, Lifecycle(c, "connected"))
  /\ pc' = [pc EXCEPT ![c] = "connected"]
  /\ UNCHANGED <<sock, regVars, id, message, callVars>>

(* fireTargeted: the example that subscribes to connect goes to this       *)
(* connection if it is still registered.                                   *)
ConnectHook(c) ==
  /\ pc[c] = "connected" /\ ~Waits(c)
  /\ sock' = IF c \in Greets /\ Registered(c)
             THEN [sock EXCEPT ![c] = Written(@, "text", [kind |-> "event"])] ELSE sock
  /\ pc' = [pc EXCEPT ![c] = "hooked"]
  /\ UNCHANGED <<regVars, id, message, callVars, restOfStream>>

(* The example of a receive operation (none if the rendering fails), then  *)
(* the first deadline.                                                     *)
EmitReceive(c) ==
  /\ pc[c] = "hooked"
  /\ \E data \in (IF c \in Receives THEN {Nothing, [kind |-> "example"]} ELSE {Nothing}) :
       sock' = [sock EXCEPT ![c] = Armed(Written(@, "text", data))]
  /\ pc' = [pc EXCEPT ![c] = "reading"]
  /\ UNCHANGED <<regVars, id, message, callVars, restOfStream>>

Read(c) ==
  /\ pc[c] = "reading"
  /\ CanRead(c)
  /\ message' = [message EXCEPT ![c] = Head(sock[c].inbox)]
  /\ sock' = [sock EXCEPT ![c] = AfterRead(@)]
  /\ pc' = [pc EXCEPT ![c] = "handling"]
  /\ UNCHANGED <<regVars, id, callVars, restOfStream>>

(* Answers only with a reply message, not with an acknowledgement. *)
FaultyAnswer(c, kind) ==
  IF kind = "ack" THEN sock
  ELSE [sock EXCEPT ![c] = Written(@, "text", [kind |-> "answer", to |-> message[c]])]

(* A reply, an error, or an acknowledgement if there is no reply: one      *)
(* frame in each case.                                                     *)
Answer(c, kind) ==
  [sock EXCEPT ![c] = Written(@, "text", [kind |-> "answer", to |-> message[c]])]

Handle(c) ==
  /\ pc[c] = "handling"
  /\ \E kind \in {"reply", "ack", "error"} : sock' = Answer(c, kind)
  /\ pc' = [pc EXCEPT ![c] = "reading"]
  /\ UNCHANGED <<regVars, id, message, callVars, restOfStream>>

(* Only a client that closes the socket ends the loop. *)
FaultyLoopEnds(c) == pc[c] = "reading" /\ sock[c].up = "gone" /\ sock[c].inbox = <<>>

LoopEnds(c) == pc[c] = "reading" /\ ReadFails(c)

(* The read loop ends; nothing closes the socket. *)
OnDisconnect(c) ==
  /\ LoopEnds(c)
  /\ pc' = [pc EXCEPT ![c] = "leaving"]
  /\ Announce(c, Lifecycle(c, "disconnected"))
  /\ sock' = [sock EXCEPT ![c] = Unread(@)]
  /\ UNCHANGED <<regVars, id, message, callVars>>

(* Unregisters before the stream is told. *)
FaultyMayUnregister(c) == LoopEnds(c)
MayUnregister(c) == pc[c] = "leaving" /\ ~Waits(c)

(* The deferred unregister. *)
Unregister(c) ==
  /\ MayUnregister(c)
  /\ unregister(id[c])
  /\ pc' = [pc EXCEPT ![c] = "ended"]
  /\ UNCHANGED <<id, message, callVars, streamVars>>

Handler(c) ==
  \/ Upgrade(c) \/ OnConnect(c) \/ ConnectHook(c) \/ EmitReceive(c)
  \/ Read(c) \/ Handle(c) \/ OnDisconnect(c) \/ Unregister(c)
  \/ Broadcasting(c) /\ UNCHANGED <<regVars, connVars, callVars>>

-----------------------------------------------------------------------------
(* POST /_mock/async/messages: refused (404) for an unknown connection;    *)
(* the payload is evaluated now, delayed or not.                           *)
PushRequest(t, ch, target) ==
  /\ call[t].pc = "none"
  /\ target # 0 => target \in DOMAIN byID
  /\ \E next \in {"waiting", "pushing"} :
       call' = [call EXCEPT ![t] = [NoCall EXCEPT
                  !.pc = next, !.channel = ch, !.target = target]]
  /\ UNCHANGED <<streamVars, regVars, connVars, forced, down>>

(* The goroutine of a delayed push: the timer, or the shutdown. *)
PushDue(t) ==
  /\ call[t].pc = "waiting"
  /\ call' = [call EXCEPT ![t].pc = "pushing"]
  /\ UNCHANGED <<streamVars, regVars, connVars, forced, down>>

PushCancelled(t) ==
  /\ call[t].pc = "waiting" /\ down
  /\ call' = [call EXCEPT ![t].pc = "ended"]
  /\ UNCHANGED <<streamVars, regVars, connVars, forced, down>>

(* Considers every connection, whatever its channel. *)
FaultyCandidates(ch, target) ==
  {byID[i] : i \in {j \in DOMAIN byID : target \in {0, j}}}

(* The copy of the channel's connections, or of the one that is meant.     *)
(* (call.all is a history variable: who was connected to the channel.)     *)
Candidates(ch, target) ==
  {byID[i] : i \in {j \in InChannel(ch) : target \in {0, j}}}

PushBegin(t) ==
  /\ call[t].pc = "pushing"
  /\ call' = [call EXCEPT ![t].pc = "writing",
                          ![t].todo = Candidates(call[t].channel, call[t].target),
                          ![t].all = {c \in Conn : Registered(c) /\ ChannelOf[c] = call[t].channel}]
  /\ UNCHANGED <<streamVars, regVars, connVars, forced, down>>

(* A broadcast writes to the connection itself; a targeted push looks it   *)
(* up again (PushTo).                                                      *)
PushWrite(t, c) ==
  /\ call[t].pc = "writing" /\ c \in call[t].todo
  /\ call' = [call EXCEPT ![t].todo = @ \ {c}]
  /\ sock' = IF call[t].target # 0 /\ call[t].target \notin DOMAIN byID THEN sock
             ELSE [sock EXCEPT ![c] = Written(@, "text", [kind |-> "push", push |-> t])]
  /\ UNCHANGED <<restOfStream, regVars, connVars, forced, down>>

PushEnd(t) ==
  /\ call[t].pc = "writing" /\ call[t].todo = {}
  /\ call' = [call EXCEPT ![t].pc = "ended"]
  /\ UNCHANGED <<streamVars, regVars, connVars, forced, down>>

(* DELETE /_mock/async/consumers/{id}: a close frame or an abrupt close,   *)
(* then out of the registry.  An unknown id is refused (404).              *)
DisconnectClose(t, i) ==
  /\ call[t].pc = "none"
  /\ i \in DOMAIN byID
  /\ \E abrupt \in BOOLEAN :
       sock' = [sock EXCEPT ![byID[i]] = IF abrupt THEN Aborted(@) ELSE WithClose(@)]
  /\ call' = [call EXCEPT ![t].pc = "unregistering", ![t].target = i]
  /\ UNCHANGED <<restOfStream, regVars, connVars, forced, down>>

DisconnectUnregister(t) ==
  /\ call[t].pc = "unregistering"
  /\ unregister(call[t].target)
  /\ forced' = forced \cup {c \in Conn : id[c] = call[t].target}
  /\ call' = [call EXCEPT ![t].pc = "ended"]
  /\ UNCHANGED <<streamVars, connVars, down>>

Management(t) ==
  \/ \E ch \in {ChannelOf[c] : c \in Conn}, target \in {0} \cup DOMAIN byID :
       PushRequest(t, ch, target)
  \/ PushDue(t) \/ PushCancelled(t) \/ PushBegin(t) \/ PushEnd(t)
  \/ \E c \in call[t].todo : PushWrite(t, c)
  \/ \E i \in DOMAIN byID : DisconnectClose(t, i)
  \/ DisconnectUnregister(t)

(* The server begins to shut down. *)
Shutdown ==
  /\ ~down
  /\ down' = TRUE
  /\ UNCHANGED <<streamVars, regVars, connVars, call, forced>>

WsNext ==
  \/ \E c \in Conn : Handler(c)
  \/ \E t \in Call : Management(t)
  \/ Shutdown
  \/ StreamNext /\ UNCHANGED <<regVars, connVars, callVars>>

WsSpec == WsInit /\ [][WsNext]_wsVars

(* What the server and time do by themselves: handlers and management      *)
(* requests that have begun run on, and deadlines pass.  Clients need not  *)
(* do anything.                                                            *)
Running ==
  \/ \E c \in Conn : pc[c] # "none" /\ Handler(c)
  \/ \E t \in Call : call[t].pc # "none" /\ Management(t)
  \/ /\ \/ \E p \in Peer : Tick(p) /\ UNCHANGED restOfStream
        \/ \E s \in Sub : StreamRead(s) \/ StreamEnds(s)
        \/ \E e \in Bus : Broadcasting(e)
     /\ UNCHANGED <<regVars, connVars, callVars>>

(* The server does not stop while something is left to run.  This is less  *)
(* than fairness to every goroutine, and enough: none runs for ever.       *)
WsFairness == WF_wsVars(Running)

-----------------------------------------------------------------------------
(* Type correctness, and the two indexes of the registry agree: a          *)
(* connection is in its own channel's index exactly if it is in the other  *)
(* one, ids are not shared and no empty channel is kept.                   *)
WsTypeOK ==
  /\ StreamTypeOK
  /\ \A i \in DOMAIN byID : byID[i] \in Conn /\ id[byID[i]] = i /\ i \in 1 .. autoID
  /\ \A ch \in DOMAIN byChan :
       byChan[ch] # {} /\ byChan[ch] = {i \in DOMAIN byID : ChannelOf[byID[i]] = ch}
  /\ \A i \in DOMAIN byID : ChannelOf[byID[i]] \in DOMAIN byChan
  /\ down \in BOOLEAN

(* What is broadcast, and what is written to consumers and subscribers.    *)
Envelopes    == Envelope \cup {Lifecycle(c, a) : c \in Conn, a \in {"connected", "disconnected"}}
StreamData   == [by : Emitter, env : Envelopes]
ConsumerData == [kind : {"answer"}, to : Nat] \cup [kind : {"push"}, push : Call]
                  \cup [kind : {"event", "example"}]

(* None of it is empty. *)
ASSUME DataAssumption == Nothing \notin StreamData \cup ConsumerData

AnswerFrame  == [kind : {"text"}, data : [kind : {"answer"}, to : Nat]]
PushFrame(t) == [kind : {"text"}, data : [kind : {"push"}, push : {t}]]

Answers(c) == Keep(sock[c].out, AnswerFrame)

(* RS.ASP.6, RS.ASP.9: a consumer is answered once for every message, in   *)
(* the order of its messages, whatever pushes come between; once the       *)
(* socket is being closed it may miss the rest.                            *)
AnsweredInOrder ==
  \A c \in Conn :
    LET n == Len(Answers(c))
    IN /\ \A i \in 1 .. n : Answers(c)[i].data.to = i
       /\ pc[c] \in {"reading", "leaving", "ended"} /\ ~sock[c].closing /\ sock[c].up # "aborted"
            => n = message[c]

PushesTo(c, t) == Len(Keep(sock[c].out, PushFrame(t)))

(* RS.AMG.5-6: a push reaches a consumer at most once, only consumers of   *)
(* its channel and only the one it is meant for; when a broadcast is over, *)
(* every consumer that was connected when it began and still is has it.    *)
PushReachesOnce ==
  \A t \in Call, c \in Conn :
    /\ PushesTo(c, t) <= 1
    /\ PushesTo(c, t) = 1 => /\ ChannelOf[c] = call[t].channel
                             /\ call[t].target \in {0, id[c]}
    /\ call[t].pc = "ended" /\ call[t].target = 0 /\ c \in call[t].all /\ Registered(c)
         /\ ~sock[c].closing /\ sock[c].up # "aborted" => PushesTo(c, t) = 1

(* RS.AMG.8, RS.AMG.26: a consumer that the stream has reported connected  *)
(* and not yet disconnected is listed, unless management removed it; one   *)
(* that is listed and is being read has been reported; and one that is     *)
(* over has been reported connected and disconnected, in that order and    *)
(* once each, however it was lost.                                         *)
ConnectedMeansListed ==
  \A c \in Conn :
    /\ Len(emitted[c]) = 1 => Registered(c) \/ c \in forced
    /\ pc[c] \in {"reading", "handling"} => Len(emitted[c]) = 1
    /\ pc[c] = "ended" =>
         ~Registered(c) /\ emitted[c] = <<Lifecycle(c, "connected"), Lifecycle(c, "disconnected")>>

(* RS.AMG.29: who leaves, is dropped by the server, or stays and stops     *)
(* sending messages, whatever it did before, is removed from its registry  *)
(* and its handler returns, a subscriber of the stream like a consumer.    *)
(* (A client sends at most MaxIn messages, so it stops in the end.)        *)
ConnectionsAreReaped ==
  /\ \A s \in Sub : handler[s] = "reading" ~> (handler[s] = "ended" /\ s \notin subs)
  /\ \A c \in Conn : Registered(c) ~> (pc[c] = "ended" /\ ~Registered(c))
=============================================================================
