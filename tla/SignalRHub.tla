----------------------------- MODULE SignalRHub -----------------------------
(***************************************************************************)
(* SignalR hubs (internal/server/signalr_hub.go, signalr_conn.go,          *)
(* signalr_registry.go), the pushes into them (hubmanager.go,              *)
(* management_async.go, message_delivery.go) and the forced disconnection. *)
(*                                                                         *)
(* Each connection has a goroutine that reads its frames one by one.  The  *)
(* registry's mutex covers tokens, connections and streams, but every      *)
(* frame is written outside of it: a push takes a snapshot of the writes   *)
(* under the mutex and performs them afterwards.  Operators whose name     *)
(* starts with Faulty are deliberate misreadings.                          *)
(***************************************************************************)
EXTENDS Naturals, Sequences, SequencesExt, FiniteSets

CONSTANTS Hub,       \* the hubs, in the order of hubManager.hubs
          Client,    \* connection attempts
          HubOf,     \* the index of the hub each one goes to
          Inv,       \* invocation ids that clients choose
          Chan,      \* channel ids a hub serves
          None,      \* no channel, no invocation id, no push
          Push,      \* pushes
          MaxToken,  \* bound on the tokens a hub hands out
          MaxSent    \* bound on the frames that clients send

ASSUME HubAssumption ==
  /\ DOMAIN Hub \in SUBSET Nat
  /\ HubOf \in [Client -> DOMAIN Hub]
  /\ None \notin Chan \cup Inv \cup Push
  /\ MaxToken \in Nat
  /\ MaxSent \in Nat

VARIABLES idSeq,   \* signalRConnRegistry.idSeq, per hub
          tokens,  \* the ids whose token was issued and not consumed
          conns,   \* signalRConnRegistry.conns: id -> connection
          pc,      \* where the goroutine of each connection is
          id,      \* signalRConnection.id: its prefix and number, or None
          cur,     \* the stream a goroutine is opening or closing
          streams, \* signalRConnection.streams: invocation id -> channel
          sock,    \* "open", "closing" after a close frame, or "closed"
          frames,  \* what each client was sent
          sent,    \* how many frames clients sent after their handshakes
          push     \* the pushes

vars == <<idSeq, tokens, conns, pc, id, cur, streams, sock, frames, sent, push>>
connVars == <<idSeq, tokens, conns, id, streams, sent>>

HubIndex == DOMAIN Hub

NoPush == [pc |-> "idle", kind |-> "all", chan |-> None, who |-> None,
           todo |-> {}, out |-> {}, open |-> {}, opened |-> {}]

Init ==
  /\ idSeq = [h \in HubIndex |-> 0]
  /\ tokens = [h \in HubIndex |-> {}]
  /\ conns = [h \in HubIndex |-> <<>>]
  /\ pc = [c \in Client |-> "none"]
  /\ id = [c \in Client |-> None]
  /\ cur = [c \in Client |-> None]
  /\ streams = [c \in Client |-> [i \in Inv |-> None]]
  /\ sock = [c \in Client |-> "none"]
  /\ frames = [c \in Client |-> <<>>]
  /\ sent = 0
  /\ push = [p \in Push |-> NoPush]

-----------------------------------------------------------------------------
(* Maps from ids to connections, as sets of domain and value. *)
With(map, n, c)  == [m \in DOMAIN map \cup {n} |-> IF m = n THEN c ELSE map[m]]
Without(map, n)  == [m \in DOMAIN map \ {n} |-> map[m]]

Registered(c) == \E n \in DOMAIN conns[HubOf[c]] : conns[HubOf[c]][n] = c

Connections(h) == {conns[h][n] : n \in DOMAIN conns[h]}

Streams(c, chan) == {i \in Inv : streams[c][i] = chan}

(* The frames the server writes, each with the push it carries, if any. *)
HandshakeReply == [kind |-> "handshake", inv |-> None, by |-> None]
Item(i, p)     == [kind |-> "item", inv |-> i, by |-> p]
Completion(i)  == [kind |-> "completion", inv |-> i, by |-> None]
Invocation(p)  == [kind |-> "invocation", inv |-> None, by |-> p]

(* wsWriter.write reaches the peer as long as no close frame was written. *)
Write(c, frame) ==
  frames' = IF sock[c] = "open" THEN [frames EXCEPT ![c] = Append(@, frame)]
                                ELSE frames

-----------------------------------------------------------------------------
(* POST negotiate: issueToken. *)
Negotiate(h) ==
  /\ idSeq[h] < MaxToken
  /\ idSeq' = [idSeq EXCEPT ![h] = @ + 1]
  /\ tokens' = [tokens EXCEPT ![h] = @ \cup {idSeq[h] + 1}]
  /\ UNCHANGED <<conns, pc, id, cur, streams, sock, frames, sent, push>>

(* A token that can be used again. *)
FaultyConsumeKeepsToken(c, n) ==
  /\ pc[c] = "none"
  /\ n \in tokens[HubOf[c]]
  /\ id' = [id EXCEPT ![c] = <<"signalr", n>>]
  /\ pc' = [pc EXCEPT ![c] = "upgrading"]
  /\ UNCHANGED <<idSeq, tokens, conns, cur, streams, sock, frames, sent, push>>

(* serveUpgrade with a token consumes it; with an unknown one it answers   *)
(* 404 and nothing changes.                                                *)
consumeToken(c, n) ==
  /\ pc[c] = "none"
  /\ n \in tokens[HubOf[c]]
  /\ tokens' = [tokens EXCEPT ![HubOf[c]] = @ \ {n}]
  /\ id' = [id EXCEPT ![c] = <<"signalr", n>>]
  /\ pc' = [pc EXCEPT ![c] = "upgrading"]
  /\ UNCHANGED <<idSeq, conns, cur, streams, sock, frames, sent, push>>

(* serveUpgrade without a token. *)
freshToken(c) ==
  /\ pc[c] = "none"
  /\ idSeq' = [idSeq EXCEPT ![HubOf[c]] = @ + 1]
  /\ id' = [id EXCEPT ![c] = <<"signalr-fresh", idSeq[HubOf[c]] + 1>>]
  /\ pc' = [pc EXCEPT ![c] = "upgrading"]
  /\ UNCHANGED <<tokens, conns, cur, streams, sock, frames, sent, push>>

(* The upgrade fails: the handler returns and the token is spent. *)
UpgradeFails(c) ==
  /\ pc[c] = "upgrading"
  /\ pc' = [pc EXCEPT ![c] = "ended"]
  /\ UNCHANGED <<connVars, cur, sock, frames, push>>

(* The upgrade succeeds and the connection is registered. *)
register(c) ==
  /\ pc[c] = "upgrading"
  /\ pc' = [pc EXCEPT ![c] = "connecting"]
  /\ sock' = [sock EXCEPT ![c] = "open"]
  /\ conns' = [conns EXCEPT ![HubOf[c]] = With(@, id[c], c)]
  /\ UNCHANGED <<idSeq, tokens, id, cur, streams, frames, sent, push>>

(* The connect hook pushes an example that waits for the connect event     *)
(* to the new connection, before anything is read from it.                 *)
ConnectHook(c, p, chan) ==
  /\ pc[c] = "connecting"
  /\ push[p].pc = "idle"
  /\ push' = [push EXCEPT ![p] =
       [NoPush EXCEPT !.pc = "choosing", !.kind = "connect", !.chan = chan,
                      !.who = c, !.todo = {c}]]
  /\ UNCHANGED <<connVars, pc, cur, sock, frames>>

(* The hooks have returned and the goroutine begins to read. *)
HooksReturn(c) ==
  /\ pc[c] = "connecting"
  /\ \A p \in Push : push[p].kind = "connect" /\ push[p].who = c => push[p].pc = "ended"
  /\ pc' = [pc EXCEPT ![c] = "handshake"]
  /\ UNCHANGED <<connVars, cur, sock, frames, push>>

(* The first frame: a handshake that is accepted, or one that is refused   *)
(* with an error frame and a closed socket.                                *)
Handshake(c, valid) ==
  /\ pc[c] = "handshake"
  /\ sock[c] # "closed"
  /\ Write(c, HandshakeReply)
  /\ IF valid THEN /\ pc' = [pc EXCEPT ![c] = "reading"]
                   /\ UNCHANGED sock
              ELSE /\ pc' = [pc EXCEPT ![c] = "leaving"]
                   /\ sock' = [sock EXCEPT ![c] = "closed"]
  /\ UNCHANGED <<connVars, cur, push>>

-----------------------------------------------------------------------------
(* A client's next frame reaches its goroutine. *)
Reads(c) ==
  /\ pc[c] = "reading"
  /\ sock[c] # "closed"
  /\ sent < MaxSent
  /\ sent' = sent + 1

(* Registers the stream before its snapshot is written. *)
FaultyRegisterFirst(c, i, chan) ==
  /\ Reads(c)
  /\ pc' = [pc EXCEPT ![c] = "opening"]
  /\ cur' = [cur EXCEPT ![c] = <<i, chan>>]
  /\ streams' = [streams EXCEPT ![c][i] = chan]
  /\ UNCHANGED <<idSeq, tokens, conns, id, sock, frames, push>>

(* StreamInvocation of a channel with an example: the snapshot is written  *)
(* (an item that belongs to no push), then the stream is registered.       *)
StreamSnapshot(c, i, chan) ==
  /\ Reads(c)
  /\ pc' = [pc EXCEPT ![c] = "opening"]
  /\ cur' = [cur EXCEPT ![c] = <<i, chan>>]
  /\ Write(c, Item(i, None))
  /\ UNCHANGED <<idSeq, tokens, conns, id, streams, sock, push>>

StreamRegister(c) ==
  /\ pc[c] = "opening"
  /\ pc' = [pc EXCEPT ![c] = "reading"]
  /\ cur' = [cur EXCEPT ![c] = None]
  /\ streams' = [streams EXCEPT ![c][cur[c][1]] = cur[c][2]]
  /\ UNCHANGED <<idSeq, tokens, conns, id, sock, frames, sent, push>>

(* A StreamInvocation of an unknown channel, or of one without an example, *)
(* and an Invocation of any operation are answered by one Completion.      *)
Answer(c, i) ==
  /\ Reads(c)
  /\ Write(c, Completion(i))
  /\ UNCHANGED <<idSeq, tokens, conns, id, streams, pc, cur, sock, push>>

(* CancelInvocation: unregisterStream under the mutex, if the connection   *)
(* is still registered, then a Completion.                                 *)
CancelStream(c, i) ==
  /\ Reads(c)
  /\ pc' = [pc EXCEPT ![c] = "completing"]
  /\ cur' = [cur EXCEPT ![c] = <<i, None>>]
  /\ streams' = [streams EXCEPT ![c][i] = IF Registered(c) THEN None ELSE @]
  /\ UNCHANGED <<idSeq, tokens, conns, id, sock, frames, push>>

CancelComplete(c) ==
  /\ pc[c] = "completing"
  /\ pc' = [pc EXCEPT ![c] = "reading"]
  /\ cur' = [cur EXCEPT ![c] = None]
  /\ Write(c, Completion(cur[c][1]))
  /\ UNCHANGED <<connVars, sock, push>>

(* ReadMessage fails: the peer left, stayed silent for the idle bound, or  *)
(* was disconnected.                                                       *)
ReadFails(c) ==
  /\ pc[c] \in {"handshake", "reading"}
  /\ pc' = [pc EXCEPT ![c] = "leaving"]
  /\ UNCHANGED <<connVars, cur, sock, frames, push>>

(* Leaves the connection in the registry. *)
FaultyLeaveKeepsEntry(c) ==
  /\ pc[c] = "leaving"
  /\ pc' = [pc EXCEPT ![c] = "ended"]
  /\ sock' = [sock EXCEPT ![c] = "closed"]
  /\ UNCHANGED <<connVars, cur, frames, push>>

(* The deferred function unregisters the id, closes the socket and runs    *)
(* the disconnect hook.                                                    *)
Leave(c) ==
  /\ pc[c] = "leaving"
  /\ pc' = [pc EXCEPT ![c] = "ended"]
  /\ conns' = [conns EXCEPT ![HubOf[c]] = Without(@, id[c])]
  /\ sock' = [sock EXCEPT ![c] = "closed"]
  /\ UNCHANGED <<idSeq, tokens, id, cur, streams, frames, sent, push>>

(* DELETE /_mock/async/consumers/{id} with the id of consumer c: the first *)
(* hub that knows the id closes the connection, abruptly or with a close   *)
(* frame ...  (An id no hub knows is answered with 404.)                   *)
DisconnectClose(c, abrupt) ==
  LET n       == id[c]
      holders == {h \in HubIndex : n \in DOMAIN conns[h]}
      h       == CHOOSE k \in holders : \A l \in holders : k <= l
      victim  == conns[h][n]
  IN /\ Registered(c)
     /\ sock' = [sock EXCEPT ![victim] =
                   IF abrupt THEN "closed" ELSE IF @ = "open" THEN "closing" ELSE @]
     /\ UNCHANGED <<connVars, pc, cur, frames, push>>

(* ... and then unregisters it, unless its goroutine has.  Whoever still   *)
(* is registered and no longer open may be in the middle of this.          *)
DisconnectUnregister(c) ==
  /\ Registered(c) /\ sock[c] # "open"
  /\ conns' = [conns EXCEPT ![HubOf[c]] = Without(@, id[c])]
  /\ UNCHANGED <<idSeq, tokens, pc, id, cur, streams, sock, frames, sent, push>>

Disconnect(c) == DisconnectUnregister(c) \/ \E abrupt \in BOOLEAN : DisconnectClose(c, abrupt)

-----------------------------------------------------------------------------
(* The writes buildStreamDeliveries snapshots for some connections: an     *)
(* item per open stream of the channel, or, if there is none, a server     *)
(* Invocation per connection.  A delivery is a connection and a frame.     *)
Items(p, chan, cs) ==
  UNION {{<<c, Item(i, p)>> : i \in Streams(c, chan)} : c \in cs}

(* Sends an Invocation to every connection that has no stream. *)
FaultyFallbackPerConnection(p, chan, cs) ==
  Items(p, chan, cs) \cup
    {<<c, Invocation(p)>> : c \in {d \in cs : Streams(d, chan) = {}}}

buildStreamDeliveries(p, chan, cs) ==
  IF Items(p, chan, cs) # {}
  THEN Items(p, chan, cs)
  ELSE {<<c, Invocation(p)>> : c \in cs}

(* Each Invocation takes an id from idSeq. *)
Invocations(out) == Cardinality({d \in out : d[2].kind = "invocation"})

OpenStreams(h, chan) ==
  {s \in Connections(h) \X Inv : streams[s[1]][s[2]] = chan}

(* SignalRPush: the snapshot of a broadcast to one hub channel. *)
SignalRPush(p, h, chan) ==
  LET out == buildStreamDeliveries(p, chan, Connections(h))
  IN /\ push[p].pc = "idle"
     /\ idSeq' = [idSeq EXCEPT ![h] = @ + Invocations(out)]
     /\ push' = [push EXCEPT ![p] =
          [NoPush EXCEPT !.pc = "writing", !.kind = "all", !.chan = chan,
                         !.who = h, !.out = out, !.open = OpenStreams(h, chan)]]
     /\ UNCHANGED <<tokens, conns, pc, id, cur, streams, sock, frames, sent>>

(* Candidates: the connections with a stream on the channel, each once;    *)
(* all of them for a per-connection match, one for a targeted push that    *)
(* found its connection active.                                            *)
Candidates(p, h, chan, kind, target) ==
  LET able == {c \in Connections(h) : Streams(c, chan) # {}}
  IN /\ push[p].pc = "idle"
     /\ kind = "one" => Registered(target) /\ HubOf[target] = h
     /\ push' = [push EXCEPT ![p] =
          [NoPush EXCEPT !.pc = "choosing", !.kind = kind, !.chan = chan,
                         !.who = IF kind = "one" THEN target ELSE h,
                         !.todo = IF kind = "one" THEN able \cap {target} ELSE able,
                         !.open = OpenStreams(h, chan)]]
     /\ UNCHANGED <<connVars, pc, cur, sock, frames>>

(* A candidate for every stream instead of one for every connection. *)
FaultyPushToPerStream(p, c) ==
  /\ push[p].pc = "choosing"
  /\ push[p].out = {}
  /\ c \in push[p].todo
  /\ push' = [push EXCEPT
       ![p].out = buildStreamDeliveries(p, push[p].chan, {c}),
       ![p].opened = @ \cup {c},
       ![p].todo = IF c \notin push[p].opened /\ Cardinality(Streams(c, push[p].chan)) > 1
                   THEN @ ELSE @ \ {c}]
  /\ UNCHANGED <<connVars, pc, cur, sock, frames>>

(* PushTo: the snapshot of the writes to the next candidate, taken once    *)
(* the writes to the one before are done.                                  *)
PushTo(p, c) ==
  LET h   == HubOf[c]
      out == IF Registered(c) THEN buildStreamDeliveries(p, push[p].chan, {c}) ELSE {}
  IN /\ push[p].pc = "choosing"
     /\ push[p].out = {}
     /\ c \in push[p].todo
     /\ idSeq' = [idSeq EXCEPT ![h] = @ + Invocations(out)]
     /\ push' = [push EXCEPT ![p].out = out, ![p].todo = @ \ {c}]
     /\ UNCHANGED <<tokens, conns, pc, id, cur, streams, sock, frames, sent>>

(* One of the snapshotted frames is written.  The snapshot of a map comes  *)
(* in any order.                                                           *)
PushWrite(p, d) ==
  /\ d \in push[p].out
  /\ Write(d[1], d[2])
  /\ push' = [push EXCEPT ![p].out = @ \ {d}]
  /\ UNCHANGED <<connVars, pc, cur, sock>>

PushEnd(p) ==
  /\ push[p].pc \in {"writing", "choosing"}
  /\ push[p].out = {} /\ push[p].todo = {}
  /\ push' = [push EXCEPT ![p].pc = "ended"]
  /\ UNCHANGED <<connVars, pc, cur, sock, frames>>

-----------------------------------------------------------------------------
(* The steps of a connection's goroutine that wait for nobody. *)
ConnStep(c) ==
  \/ HooksReturn(c)
  \/ StreamRegister(c)
  \/ CancelComplete(c)
  \/ Leave(c)

PushStep(p) ==
  \/ \E c \in push[p].todo : PushTo(p, c)
  \/ \E d \in push[p].out : PushWrite(p, d)
  \/ PushEnd(p)

Next ==
  \/ \E h \in HubIndex : Negotiate(h)
  \/ \E c \in Client :
       \/ \E n \in 1 .. MaxToken : consumeToken(c, n)
       \/ freshToken(c)
       \/ UpgradeFails(c)
       \/ register(c)
       \/ \E p \in Push, chan \in Chan : ConnectHook(c, p, chan)
       \/ \E valid \in BOOLEAN : Handshake(c, valid)
       \/ \E i \in Inv, chan \in Chan : StreamSnapshot(c, i, chan)
       \/ \E i \in Inv : Answer(c, i) \/ CancelStream(c, i)
       \/ ReadFails(c)
       \/ ConnStep(c)
       \/ Disconnect(c)
  \/ \E p \in Push, h \in HubIndex, chan \in Chan :
       \/ SignalRPush(p, h, chan)
       \/ Candidates(p, h, chan, "each", None)
       \/ \E target \in Client : Candidates(p, h, chan, "one", target)
  \/ \E p \in Push : PushStep(p)

Spec == Init /\ [][Next]_vars

(* Goroutines go on, writes have a deadline of ten seconds, and a read     *)
(* fails at the latest when the idle bound of a silent or disconnected     *)
(* peer expires.  Nobody is obliged to connect, to send or to push.        *)
Fairness ==
  /\ \A c \in Client : /\ WF_vars(ConnStep(c))
                       /\ WF_vars(sock[c] # "open" /\ ReadFails(c))
  /\ \A p \in Push : WF_vars(PushStep(p))

FairSpec == Spec /\ Fairness

-----------------------------------------------------------------------------
(* Type correctness of the registries, the goroutines and the pushes. *)
TypeOK ==
  /\ \A h \in HubIndex :
       /\ idSeq[h] \in Nat
       /\ tokens[h] \subseteq 1 .. idSeq[h]
       /\ \A n \in DOMAIN conns[h] : n[2] \in 1 .. idSeq[h] /\ id[conns[h][n]] = n
  /\ pc \in [Client -> {"none", "upgrading", "connecting", "handshake", "reading", "opening",
                        "completing", "leaving", "ended"}]
  /\ streams \in [Client -> [Inv -> Chan \cup {None}]]
  /\ sock \in [Client -> {"none", "open", "closing", "closed"}]
  /\ \A p \in Push : push[p].pc \in {"idle", "writing", "choosing", "ended"}

(* A token binds one connection: however upgrades race, no two connections *)
(* of a hub have the same id, so none displaces another in the registry    *)
(* and each stays there until it leaves or is disconnected.                *)
TokenBindsOne ==
  \A c, d \in Client :
    c # d /\ HubOf[c] = HubOf[d] /\ id[c] # None => id[c] # id[d]

(* RS.SHR.3: the first frame of an invocation id is never a pushed item:   *)
(* no push overtakes the snapshot of the stream it is pushed into.         *)
SnapshotComesFirst ==
  \A c \in Client : \A k \in DOMAIN frames[c] :
    frames[c][k].kind = "item" /\ frames[c][k].by # None =>
      \E j \in 1 .. k - 1 : frames[c][j] = Item(frames[c][k].inv, None)

(* RS.SHR.22: a push reaches a stream at most once, although candidates    *)
(* and streams are looked up under separate locks.                         *)
OncePerStream ==
  \A c \in Client : \A j, k \in DOMAIN frames[c] :
    j # k /\ frames[c][j].by # None => frames[c][j] # frames[c][k]

(* RS.SHR.18 and 19: a stream that was open on a connected socket from     *)
(* before the push to its end received it, unless the client used its id   *)
(* for another stream, and then the broadcast sent no server Invocation to *)
(* anybody.                                                                *)
OpenStreamReceives ==
  \A p \in Push : push[p].pc = "ended" /\ push[p].kind # "one" =>
    \A s \in push[p].open :
      LET c == s[1]
          steady == /\ sock[c] = "open" /\ Registered(c)
                    /\ \A k \in DOMAIN frames[c] : frames[c][k] # Completion(s[2])
                    /\ \A j, k \in DOMAIN frames[c] :
                         frames[c][j] = Item(s[2], None) /\ frames[c][k] = frames[c][j] => j = k
                    /\ pc[c] # "completing"
      IN steady => /\ \E k \in DOMAIN frames[c] : frames[c][k] = Item(s[2], p)
                   /\ push[p].kind = "all" => \A d \in Client :
                        \A k \in DOMAIN frames[d] : frames[d][k] # Invocation(p)

(* Together: no connection displaces another in the registry, a push       *)
(* reaches every stream that is there for it, and no stream twice.         *)
StreamsReceiveOnce == TokenBindsOne /\ OncePerStream /\ OpenStreamReceives

(* A connection whose socket is closing or closed, or whose reading has    *)
(* failed, leaves the registry, so that nobody lists or pushes to it.      *)
LostConnectionIsUnregistered ==
  \A c \in Client :
    (sock[c] \in {"closing", "closed"} \/ pc[c] = "leaving") ~> ~Registered(c)

(* RS.AMG.5 and 7: a targeted push to an active connection that is past    *)
(* its handshake is received by it (an inactive one is answered with 404). *)
TargetedPushReceived ==
  \A p \in Push : push[p].pc = "ended" /\ push[p].kind = "one" =>
    LET c == push[p].who
    IN sock[c] = "open" /\ pc[c] = "reading" /\ Registered(c) =>
         \E k \in DOMAIN frames[c] : frames[c][k].by = p

(* "The first message on a SignalR connection SHALL be the protocol        *)
(* handshake": nothing is written to a client before its handshake is      *)
(* answered.                                                               *)
HandshakeComesFirst ==
  \A c \in Client : frames[c] # <<>> => frames[c][1] = HandshakeReply

(* RS.AMG.14: a forced disconnection ends the connection it names. *)
DisconnectEndsTheNamed ==
  [][\A c \in Client, abrupt \in BOOLEAN :
       DisconnectClose(c, abrupt) => sock'[c] # "open"]_vars
=============================================================================
