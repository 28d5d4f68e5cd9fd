---------------------------- MODULE ManageStream ----------------------------
(***************************************************************************)
(* The management stream GET /_mock/stream (internal/server/manage_ws.go): *)
(* a registry of subscribers with filters, the handler of each subscriber, *)
(* and the broadcast that the event bus, the consumer hooks and the        *)
(* scheduler call.  A broadcast copies the registry under the lock and     *)
(* writes after releasing it, one subscriber after the other, in any       *)
(* order; a caller's next broadcast begins when its last one has ended.    *)
(* Requests that are no upgrade are refused (405) and have no effect.      *)
(***************************************************************************)
EXTENDS WebSocket, Glob, Filter

CONSTANTS Sub,        \* subscribers, a subset of Peer
          Filter,     \* subscriber -> [events, channels]: sets of globs
          Emitter,    \* goroutines that call broadcast
          Bus,        \* those of them that fire events, run jobs or serve SignalR
          Envelope,   \* what these broadcast
          MaxEmitted  \* how often each of these does in the model

ASSUME ManageStreamAssumption ==
  Sub \subseteq Peer /\ Bus \subseteq Emitter /\ MaxEmitted \in Nat

VARIABLES subs,     \* manageStream.subs
          handler,  \* handleManageStream of each subscriber
          cast,     \* the broadcast each emitter is in
          emitted,  \* what each emitter has broadcast
          since     \* how much of it preceded each subscription

streamVars == <<sock, subs, handler, cast, emitted, since>>

Resting == [on |-> FALSE, todo |-> {}]

StreamInit ==
  /\ SocketInit
  /\ subs = {}
  /\ handler = [s \in Sub |-> "none"]
  /\ cast = [e \in Emitter |-> Resting]
  /\ emitted = [e \in Emitter |-> <<>>]
  /\ since = [s \in Sub |-> [e \in Emitter |-> 0]]

(* Events have a scope but no channel; that of a consumer of a SignalR hub *)
(* without channels is empty.                                              *)
envelopeChannel(env) == IF env.type = "event" THEN <<>> ELSE env.channel

HasChannel(env) == envelopeChannel(env) # <<>>

(* Filters are globs; what they are matched with is a text.                *)
ASSUME TextAssumption ==
  /\ \A s \in Sub :
       Filter[s].events \cup Filter[s].channels \subseteq Seq(Letter \cup {Star})
  /\ \A env \in Envelope :
       IF env.type = "event" THEN env.name \in Seq(Letter)
       ELSE env.channel \in Seq(Letter)

(* Lets the channel filter refuse what has no channel. *)
FaultyFilterMatches(f, env) ==
  /\ f.events # {} /\ env.type = "event" => globMatchAny(f.events, env.name)
  /\ f.channels # {} => HasChannel(env) /\ globMatchAny(f.channels, envelopeChannel(env))

filterMatches(f, env) ==
  /\ f.events # {} /\ env.type = "event" => globMatchAny(f.events, env.name)
  /\ f.channels # {} /\ HasChannel(env) => globMatchAny(f.channels, envelopeChannel(env))

Subscribe(s) ==
  /\ handler[s] = "none"
  /\ handler' = [handler EXCEPT ![s] = "reading"]
  /\ sock' = [sock EXCEPT ![s] = Armed(Opened(@))]
  /\ subs' = subs \cup {s}
  /\ since' = [since EXCEPT ![s] = [e \in Emitter |-> Len(emitted[e])]]
  /\ UNCHANGED <<cast, emitted>>

(* servePings: a ping carries no data, so writeFrame drops it. *)
Ping(s) ==
  /\ handler[s] = "reading"
  /\ sock' = [sock EXCEPT ![s] = Written(@, "ping", Nothing)]
  /\ UNCHANGED <<subs, handler, cast, emitted, since>>

(* Messages of the client are ignored. *)
StreamRead(s) ==
  /\ handler[s] = "reading"
  /\ CanRead(s)
  /\ sock' = [sock EXCEPT ![s] = AfterRead(@)]
  /\ UNCHANGED <<subs, handler, cast, emitted, since>>

(* The deferred calls stop the pings and remove the subscriber. *)
StreamEnds(s) ==
  /\ handler[s] = "reading"
  /\ ReadFails(s)
  /\ handler' = [handler EXCEPT ![s] = "ended"]
  /\ sock' = [sock EXCEPT ![s] = Unread(@)]
  /\ subs' = subs \ {s}
  /\ UNCHANGED <<cast, emitted, since>>

(* broadcast: the copy of the registry. *)
Announce(e, env) ==
  /\ ~cast[e].on
  /\ emitted' = [emitted EXCEPT ![e] = Append(@, env)]
  /\ cast' = [cast EXCEPT ![e] = [on |-> TRUE, todo |-> subs]]
  /\ UNCHANGED <<subs, handler, since>>

BroadcastBegin(e, env) ==
  /\ Len(emitted[e]) < MaxEmitted
  /\ Announce(e, env)
  /\ UNCHANGED sock

BroadcastWrite(e, s) ==
  /\ s \in cast[e].todo
  /\ cast' = [cast EXCEPT ![e].todo = @ \ {s}]
  /\ sock' = IF filterMatches(Filter[s], Last(emitted[e]))
             THEN [sock EXCEPT ![s] = Written(@, "text", [by |-> e, env |-> Last(emitted[e])])] ELSE sock
  /\ UNCHANGED <<subs, handler, emitted, since>>

BroadcastEnd(e) ==
  /\ cast[e].on /\ cast[e].todo = {}
  /\ cast' = [cast EXCEPT ![e] = Resting]
  /\ UNCHANGED <<sock, subs, handler, emitted, since>>

Subscriber(s) == Subscribe(s) \/ Ping(s) \/ StreamRead(s) \/ StreamEnds(s)
Broadcasting(e) == BroadcastEnd(e) \/ \E s \in Sub : BroadcastWrite(e, s)

StreamNext ==
  \/ \E s \in Sub : Subscriber(s)
  \/ \E e \in Bus : Broadcasting(e) \/ \E env \in Envelope : BroadcastBegin(e, env)
  \/ Environment /\ UNCHANGED <<subs, handler, cast, emitted, since>>

-----------------------------------------------------------------------------
StreamTypeOK ==
  /\ subs \subseteq Sub
  /\ handler \in [Sub -> {"none", "reading", "ended"}]
  /\ \A e \in Emitter : cast[e].todo \subseteq Sub /\ (cast[e].todo # {} => cast[e].on)
  /\ \A s \in Sub : \A i \in DOMAIN sock[s].out : sock[s].out[i].data # Nothing

(* RS.AMG.23: an omitted filter matches everything, the channel filter     *)
(* never hides an event, nor the event filter a channel's notification.    *)
Meets(f, env) ==
  LET globs == IF env.type = "event" THEN f.events ELSE f.channels
      value == IF env.type = "event" THEN env.name ELSE env.channel
  IN globs = {} \/ \E g \in globs : Denotes(g, value)

(* A notification with an empty channel is sent to all (OnlyMatching).     *)
Wants(f, env) == Meets(f, env) \/ (env.type # "event" /\ env.channel = <<>>)

(* RS.AMG.23: whoever subscribes is sent what its globs mean, whatever     *)
(* globs they are and whatever they are matched with.                      *)
GlobAgrees == subs # {} => GlobsDecide

(* What emitter e has for subscriber s: all it broadcast since s joined    *)
(* that s wants, except one that is not written yet.                       *)
Owed(s, e) ==
  LET n   == Len(emitted[e]) - (IF s \in cast[e].todo THEN 1 ELSE 0)
      all == SubSeq(emitted[e], since[s][e] + 1, n)
  IN Keep(all, {env \in Range(all) : Wants(Filter[s], env)})

Received(s, e) ==
  LET mine == Keep(sock[s].out, {f \in Range(sock[s].out) : f.kind = "text" /\ f.data.by = e})
  IN [i \in DOMAIN mine |-> mine[i].data.env]

(* RS.AMG.23-27: a subscriber has received of every emitter exactly what   *)
(* its filters ask for, in the order it was emitted, nothing twice and     *)
(* nothing missing, whoever joins and leaves meanwhile; after its end it   *)
(* has a beginning of that.                                                *)
StreamComplete ==
  \A s \in Sub, e \in Emitter : handler[s] # "none" =>
    IF handler[s] = "reading" THEN Received(s, e) = Owed(s, e)
    ELSE IsPrefix(Received(s, e), Owed(s, e))

(* A stronger claim that the code refutes.  RS.AMG.23: a subscriber that   *)
(* filters channels is sent no notification of another one or of none.     *)
OnlyMatching ==
  \A s \in Sub : \A i \in DOMAIN sock[s].out :
    sock[s].out[i].kind = "text" => Meets(Filter[s], sock[s].out[i].data.env)
=============================================================================
