---------------------------- MODULE ConsumerProofs ----------------------------
(***************************************************************************)
(* For any consumers, channels, subscribers, filters and management calls: *)
(* the registry of consumers, their answers and pushes, and what the       *)
(* management stream tells its subscribers.                                *)
(***************************************************************************)
EXTENDS WsAdapter, FilterProofs, TLAPS

Stage == {"none", "registered", "connected", "hooked", "reading", "handling", "leaving", "ended"}

CallStage == {"none", "waiting", "pushing", "writing", "unregistering", "ended"}

(* A socket whose frames carry data of D, and the data a peer gets. *)
Frame(D) == [kind : {"text"}, data : D]

Socket(D) == [up : {"none", "open", "gone", "aborted", "unread"}, out : Seq(Frame(D)), inbox : Seq(Nat),
              sent : Nat, closing : BOOLEAN, armed : BOOLEAN, idle : Nat]

DataOf(p) == IF p \in Conn THEN ConsumerData ELSE StreamData

CallRecord == [pc : CallStage, channel : {<<>>} \cup {ChannelOf[c] : c \in Conn}, target : Nat,
               todo : SUBSET Conn, all : SUBSET Conn]

(* The types of the variables. *)
SocketsTyped == DOMAIN sock = Peer /\ \A p \in Peer : sock[p] \in Socket(DataOf(p))

StreamTyped ==
  /\ handler \in [Sub -> {"none", "reading", "ended"}]
  /\ cast \in [Emitter -> [on : BOOLEAN, todo : SUBSET Sub]]
  /\ emitted \in [Emitter -> Seq(Envelopes)]
  /\ since \in [Sub -> [Emitter -> Nat]]
  /\ subs \subseteq Sub
  /\ \A e \in Emitter : /\ cast[e].on => emitted[e] # <<>>
                        /\ cast[e].todo # {} => cast[e].on

ConsumersTyped ==
  /\ pc \in [Conn -> Stage]
  /\ id \in [Conn -> Nat]
  /\ message \in [Conn -> Nat]
  /\ call \in [Call -> CallRecord]
  /\ forced \subseteq Conn

(* The registry: an id is its holder's, both indexes have the same         *)
(* connections, and a consumer is out only before and after, or by force.  *)
RegistryAgrees ==
  /\ autoID \in Nat
  /\ \A i \in DOMAIN byID : byID[i] \in Conn /\ i \in 1 .. autoID /\ id[byID[i]] = i
  /\ \A ch : InChannel(ch) = {i \in DOMAIN byID : ChannelOf[byID[i]] = ch}
  /\ \A c \in Conn : id[c] <= autoID /\ (pc[c] = "none" <=> id[c] = 0)
  /\ \A c, d \in Conn : id[c] = id[d] /\ id[c] # 0 => c = d
  /\ \A c \in Conn : IF pc[c] \in {"none", "ended"} THEN ~Registered(c)
                      ELSE Registered(c) \/ c \in forced

(* What the stream was told of a consumer. *)
ToldOf(c) ==
  emitted[c] = IF pc[c] \in {"none", "registered"} THEN <<>>
               ELSE IF pc[c] \in {"leaving", "ended"}
               THEN <<Lifecycle(c, "connected"), Lifecycle(c, "disconnected")>>
               ELSE <<Lifecycle(c, "connected")>>

(* A consumer that is handling message m, or has handled m messages, and   *)
(* its socket.                                                             *)
Intact(w) == ~w.closing /\ w.up # "aborted"

Replies(stage, m, w) ==
  LET due == IF stage = "handling" THEN m - 1 ELSE m
      a   == Keep(w.out, AnswerFrame)
  IN /\ stage = "none" <=> w.up = "none"
     /\ stage = "none" => m = 0 /\ w.out = <<>>
     /\ m + Len(w.inbox) = w.sent
     /\ \A i \in 1 .. Len(w.inbox) : w.inbox[i] = m + i
     /\ \A i \in 1 .. Len(a) : a[i].data.to = i
     /\ Len(a) <= due
     /\ Intact(w) => Len(a) = due

(* A push and a consumer. *)
Pushes(t, c) ==
  LET r == call[t]
      n == PushesTo(c, t)
  IN /\ n <= 1
     /\ n = 1 => /\ r.pc \in {"writing", "ended"} /\ c \notin r.todo
                 /\ ChannelOf[c] = r.channel /\ r.target \in {0, id[c]}
     /\ c \in r.todo => /\ r.pc = "writing" /\ pc[c] # "none"
                        /\ ChannelOf[c] = r.channel /\ r.target \in {0, id[c]}
     /\ r.pc \notin {"writing", "ended"} => c \notin r.all
     /\ r.pc = "unregistering" => r.target # 0
     /\ c \in r.all /\ r.target = 0 /\ Intact(sock[c]) => c \in r.todo \/ n = 1

(* The frames of an emitter, and the envelopes in them. *)
FramesOf(e) == [kind : {"text"}, data : [by : {e}, env : Envelopes]]
Unpacked(frames) == [i \in DOMAIN frames |-> frames[i].data.env]

(* What a subscriber wants of what was emitted between k and n. *)
Wanted(s) == {env \in Envelopes : Wants(Filter[s], env)}
Share(s, em, k, n) == Keep(SubSeq(em, k + 1, n), Wanted(s))

(* How much of what was emitted the emitter has done with a subscriber.    *)
WrittenTo(s, e) == Len(emitted[e]) - (IF s \in cast[e].todo THEN 1 ELSE 0)

(* A subscriber and an emitter. *)
Streams(s, e) ==
  LET has == Unpacked(Keep(sock[s].out, FramesOf(e)))
      due == Share(s, emitted[e], since[s][e], WrittenTo(s, e))
  IN /\ s \in subs <=> handler[s] = "reading"
     /\ sock[s].up \in (IF handler[s] = "none" THEN {"none"}
                        ELSE IF handler[s] = "reading" THEN {"open", "gone"} ELSE {"gone", "unread"})
     /\ ~sock[s].closing
     /\ handler[s] = "none" => sock[s].out = <<>>
     /\ s \in cast[e].todo => cast[e].on /\ handler[s] # "none" /\ since[s][e] < Len(emitted[e])
     /\ since[s][e] <= Len(emitted[e])
     /\ handler[s] = "reading" \/ s \in cast[e].todo => has = due
     /\ handler[s] = "ended" => IsPrefix(has, due)

(* The filters decide as their globs mean: FiltersDecide, below.           *)
FiltersAgree ==
  \A s \in Sub, env \in Envelopes : filterMatches(Filter[s], env) <=> Wants(Filter[s], env)

WsInv ==
  /\ SocketsTyped /\ StreamTyped /\ ConsumersTyped /\ RegistryAgrees
  /\ \A c \in Conn : ToldOf(c) /\ Replies(pc[c], message[c], sock[c])
  /\ \A t \in Call, c \in Conn : Pushes(t, c)

(* A frame is dropped on a socket that is being closed or is not open yet, *)
(* and so is one without data.                                             *)
Drops(w, data) == data = Nothing \/ w.up \in {"none", "aborted"} \/ w.closing

(* What the writer does to a socket. *)
LEMMA WrittenIs ==
  ASSUME NEW D, NEW w \in Socket(D), NEW data \in D \cup {Nothing}
  PROVE  LET v == Written(w, "text", data)
         IN /\ v \in Socket(D)
            /\ v.up = w.up /\ v.inbox = w.inbox /\ v.sent = w.sent /\ v.closing = w.closing
            /\ v.out = IF Drops(w, data) THEN w.out ELSE Append(w.out, [kind |-> "text", data |-> data])
<1>1. CASE Drops(w, data)
  BY <1>1 DEF Written, Drops
<1>2. CASE ~Drops(w, data)
  <2> DEFINE f == [kind |-> "text", data |-> data]
  <2>1. Written(w, "text", data) = [w EXCEPT !.out = Append(w.out, f)]
    BY <1>2 DEF Written, Drops
  <2>2. f \in Frame(D)
    BY <1>2 DEF Frame, Drops
  <2> HIDE DEF f
  <2>3. Append(w.out, f) \in Seq(Frame(D))
    BY <2>2, AppendProperties DEF Socket
  <2> QED
    BY <1>2, <2>1, <2>3 DEF Socket, f
<1> QED
  BY <1>1, <1>2

(* The same for a consumer: the writer closes nothing, and appends one frame. *)
LEMMA WrittenKeeps ==
  ASSUME NEW w \in Socket(ConsumerData), NEW data \in ConsumerData \cup {Nothing}
  PROVE  /\ Written(w, "text", data).up = w.up /\ Written(w, "text", data).closing = w.closing
         /\ ~Drops(w, data) => Written(w, "text", data).out = Append(w.out, [kind |-> "text", data |-> data])
BY WrittenIs

(* What the handlers, clients and management do to a socket. *)
LEMMA SocketOps ==
  ASSUME NEW D, NEW w \in Socket(D)
  PROVE  /\ LET v == Opened(w) IN v \in Socket(D) /\ v = [w EXCEPT !.up = "open"]
         /\ LET v == Armed(w) IN /\ v \in Socket(D) /\ v.up = w.up /\ v.inbox = w.inbox /\ v.sent = w.sent
                                 /\ v.closing = w.closing /\ v.out = w.out
         /\ LET v == Unread(w) IN /\ v \in Socket(D) /\ v.inbox = w.inbox /\ v.sent = w.sent
                                  /\ v.closing = w.closing /\ v.out = w.out
                                  /\ v.up = IF w.up = "open" THEN "unread" ELSE w.up
         /\ LET v == WithClose(w) IN /\ v \in Socket(D) /\ v.up = w.up /\ v.inbox = w.inbox /\ v.sent = w.sent
                                     /\ w.closing => v.closing
                                     /\ v.out = w.out
         /\ LET v == Aborted(w) IN /\ v \in Socket(D) /\ v.inbox = w.inbox /\ v.sent = w.sent
                                   /\ v.closing = w.closing /\ v.out = w.out
                                   /\ v.up = IF w.up = "none" THEN "none" ELSE "aborted"
BY DEF Opened, Armed, Unread, WithClose, Aborted, Socket

(* The handler takes the oldest message. *)
LEMMA AfterReadIs ==
  ASSUME NEW D, NEW w \in Socket(D), w.inbox # <<>>
  PROVE  LET v == AfterRead(w)
         IN /\ v \in Socket(D) /\ v.up = w.up /\ v.sent = w.sent /\ v.closing = w.closing /\ v.out = w.out
            /\ v.inbox = Tail(w.inbox)
<1> DEFINE u == [w EXCEPT !.inbox = Tail(w.inbox)]
<1>1. Tail(w.inbox) \in Seq(Nat)
  BY HeadTailProperties DEF Socket
<1>2. /\ u \in Socket(D) /\ u.up = w.up /\ u.sent = w.sent /\ u.closing = w.closing /\ u.out = w.out
      /\ u.inbox = Tail(w.inbox)
  BY <1>1 DEF Socket
<1>3. AfterRead(w) = Armed(u)
  BY DEF AfterRead
<1> HIDE DEF u
<1> QED
  BY <1>2, <1>3, SocketOps

(* No peer but one is concerned. *)
LEMMA OneSocket ==
  ASSUME SocketsTyped, NEW p \in Peer, NEW v \in Socket(DataOf(p)), sock' = [sock EXCEPT ![p] = v]
  PROVE  SocketsTyped' /\ sock'[p] = v /\ \A q \in Peer : q # p => sock'[q] = sock[q]
BY DEF SocketsTyped

(* Consumers and subscribers are different peers. *)
LEMMA Peers ==
  /\ \A c \in Conn : c \in Peer /\ c \notin Sub /\ c \in Emitter /\ c \notin Bus /\ DataOf(c) = ConsumerData
  /\ \A s \in Sub : s \in Peer /\ s \notin Conn /\ DataOf(s) = StreamData
  /\ \A e \in Bus : e \in Emitter /\ e \notin Conn
  /\ \A e \in Emitter : e \in Conn \/ e \in Bus
BY WsAdapterAssumption, ManageStreamAssumption DEF DataOf

-----------------------------------------------------------------------------
(* A consumer in one step. *)

(* The client may leave, the server close or read: nothing is written.     *)
Quiet(w, v) ==
  /\ v.out = w.out /\ v.inbox = w.inbox /\ v.sent = w.sent
  /\ Intact(v) => Intact(w)
  /\ v.up = "none" <=> w.up = "none"

(* No message is taken or answered. *)
Steady(c) ==
  /\ message'[c] = message[c]
  /\ pc'[c] = pc[c] \/ (pc[c] \notin {"none", "handling"} /\ pc'[c] \notin {"none", "handling"})

ConsumerStep(c) ==
  \/ Steady(c) /\ Quiet(sock[c], sock'[c])
  \/ /\ Steady(c)
     /\ \E data \in [kind : {"event", "example"}] \cup {Nothing} :
          Quiet(Written(sock[c], "text", data), sock'[c])
  \/ Steady(c) /\ \E t \in Call : PushWrite(t, c)
  \/ Upgrade(c) \/ Read(c) \/ Handle(c)
  \/ Steady(c) /\ PeerSends(c)

(* Nothing happened to a socket that is the same. *)
LEMMA QuietStays == \A w : Quiet(w, w)
BY DEF Quiet

(* Nothing happens to a consumer without being one of these.               *)
LEMMA ConsumerSteps ==
  ASSUME SocketsTyped, StreamTyped, ConsumersTyped, RegistryAgrees, WsNext, NEW c \in Conn
  PROVE  ConsumerStep(c)
<1>p. c \in Peer /\ sock[c] \in Socket(ConsumerData) /\ DOMAIN sock = Peer /\ c \notin Sub
  BY Peers DEF SocketsTyped
<1>t. pc \in [Conn -> Stage] /\ message \in [Conn -> Nat]
  BY DEF ConsumersTyped
<1>0. ASSUME sock'[c] = sock[c], pc' = pc, message' = message PROVE ConsumerStep(c)
  BY <1>0, QuietStays DEF ConsumerStep, Steady
<1>1. ASSUME NEW d \in Conn, Handler(d) PROVE ConsumerStep(c)
  <2>p. d \in Peer /\ sock[d] \in Socket(ConsumerData)
    BY Peers DEF SocketsTyped
  <2>1. CASE d # c
    <3>1. pc'[c] = pc[c] /\ message'[c] = message[c]
      BY <1>1, <2>1, <1>t DEF Handler, Upgrade, OnConnect, ConnectHook, EmitReceive, Read, Handle, OnDisconnect,
        Unregister, Broadcasting, connVars
    <3>2. ASSUME NEW s \in Sub, BroadcastWrite(d, s) PROVE sock'[c] = sock[c]
      BY <3>2, <1>p DEF BroadcastWrite
    <3>3. sock'[c] = sock[c]
      BY <1>1, <2>1, <1>p, <2>p, <3>2 DEF Handler, Upgrade, OnConnect, ConnectHook, EmitReceive, Read, Handle,
        OnDisconnect, Unregister, Broadcasting, BroadcastEnd, restOfStream, streamVars, Answer
    <3> QED
      BY <3>1, <3>3, QuietStays DEF ConsumerStep, Steady
  <2>2. CASE d = c
    <3>1. CASE Upgrade(c) \/ Read(c) \/ Handle(c)
      BY <3>1 DEF ConsumerStep
    <3>2. CASE OnConnect(c)
      <4>1. Steady(c) /\ sock'[c] = sock[c]
        BY <3>2, <1>t DEF OnConnect, Steady
      <4> QED
        BY <4>1, QuietStays DEF ConsumerStep
    <3>3. CASE ConnectHook(c)
      <4>1. Steady(c)
        BY <3>3, <1>t DEF ConnectHook, Steady
      <4>2. CASE sock' = sock
        BY <4>1, <4>2, QuietStays DEF ConsumerStep
      <4>3. CASE sock' = [sock EXCEPT ![c] = Written(@, "text", [kind |-> "event"])]
        <5>1. sock'[c] = Written(sock[c], "text", [kind |-> "event"])
          BY <4>3, <1>p
        <5>2. [kind |-> "event"] \in [kind : {"event", "example"}]
          OBVIOUS
        <5> QED
          BY <4>1, <5>1, <5>2, QuietStays DEF ConsumerStep
      <4> QED
        BY <3>3, <4>2, <4>3 DEF ConnectHook
    <3>4. CASE EmitReceive(c)
      <4>1. Steady(c)
        BY <3>4, <1>t DEF EmitReceive, Steady
      <4>2. PICK data \in {Nothing, [kind |-> "example"]} :
              sock' = [sock EXCEPT ![c] = Armed(Written(@, "text", data))]
        BY <3>4 DEF EmitReceive
      <4>3. data \in [kind : {"event", "example"}] \cup {Nothing}
        BY <4>2
      <4>4. Written(sock[c], "text", data) \in Socket(ConsumerData)
        BY <4>3, <1>p, WrittenIs DEF ConsumerData
      <4>5. sock'[c] = Armed(Written(sock[c], "text", data))
        BY <4>2, <1>p
      <4> HIDE DEF ConsumerData
      <4>6. Quiet(Written(sock[c], "text", data), sock'[c])
        BY <4>4, <4>5, SocketOps DEF Quiet, Intact
      <4> QED
        BY <4>1, <4>3, <4>6 DEF ConsumerStep
    <3>5. CASE OnDisconnect(c)
      <4>1. Steady(c) /\ sock'[c] = Unread(sock[c])
        BY <3>5, <1>t, <1>p DEF OnDisconnect, LoopEnds, Steady
      <4>2. Quiet(sock[c], sock'[c])
        BY <4>1, <1>p, SocketOps DEF Quiet, Intact
      <4> QED
        BY <4>1, <4>2 DEF ConsumerStep
    <3>6. CASE Unregister(c)
      <4>1. Steady(c) /\ sock'[c] = sock[c]
        BY <3>6, <1>t DEF Unregister, MayUnregister, Steady, streamVars
      <4> QED
        BY <4>1, QuietStays DEF ConsumerStep
    <3>7. CASE Broadcasting(c) /\ UNCHANGED <<regVars, connVars, callVars>>
      <4>1. sock'[c] = sock[c]
        BY <3>7, <1>p DEF Broadcasting, BroadcastEnd, BroadcastWrite
      <4> QED
        BY <1>0, <3>7, <4>1 DEF connVars
    <3> QED
      BY <1>1, <2>2, <3>1, <3>2, <3>3, <3>4, <3>5, <3>6, <3>7 DEF Handler
  <2> QED
    BY <2>1, <2>2
<1>2. ASSUME NEW t \in Call, Management(t) PROVE ConsumerStep(c)
  <2>1. ASSUME NEW d \in call[t].todo, PushWrite(t, d) PROVE ConsumerStep(c)
    <3>0. pc' = pc /\ message' = message
      BY <2>1 DEF PushWrite, connVars
    <3>1. CASE d = c
      BY <3>0, <3>1, <2>1 DEF ConsumerStep, Steady
    <3>2. CASE d # c
      <4>1. sock'[c] = sock[c]
        BY <3>2, <2>1, <1>p DEF PushWrite
      <4> QED
        BY <3>0, <4>1, <1>0
    <3> QED
      BY <3>1, <3>2
  <2>2. ASSUME NEW i \in DOMAIN byID, DisconnectClose(t, i) PROVE ConsumerStep(c)
    <3>0. pc' = pc /\ message' = message
      BY <2>2 DEF DisconnectClose, connVars
    <3>1. PICK abrupt \in BOOLEAN :
            sock' = [sock EXCEPT ![byID[i]] = IF abrupt THEN Aborted(@) ELSE WithClose(@)]
      BY <2>2 DEF DisconnectClose
    <3>2. sock'[c] \in {sock[c], Aborted(sock[c]), WithClose(sock[c])}
      BY <3>1, <1>p
    <3>3. Quiet(sock[c], sock'[c])
      BY <3>2, <1>p, SocketOps, QuietStays DEF Quiet, Intact
    <3> QED
      BY <3>0, <3>3 DEF ConsumerStep, Steady
  <2>3. CASE ~(\E d \in call[t].todo : PushWrite(t, d)) /\ ~(\E i \in DOMAIN byID : DisconnectClose(t, i))
    <3>1. sock' = sock /\ pc' = pc /\ message' = message
      BY <1>2, <2>3 DEF Management, PushRequest, PushDue, PushCancelled, PushBegin, PushEnd, DisconnectUnregister,
        streamVars, connVars
    <3> QED
      BY <3>1, <1>0
  <2> QED
    BY <2>1, <2>2, <2>3
<1>3. CASE Shutdown
  BY <1>3, <1>0 DEF Shutdown, streamVars, connVars
<1>4. CASE StreamNext /\ UNCHANGED <<regVars, connVars, callVars>>
  <2>0. pc' = pc /\ message' = message
    BY <1>4 DEF connVars
  <2>1. ASSUME NEW s \in Sub, Subscriber(s) PROVE ConsumerStep(c)
    <3>1. sock'[c] = sock[c]
      BY <2>1, <1>p DEF Subscriber, Subscribe, Ping, StreamRead, StreamEnds
    <3> QED
      BY <2>0, <3>1, <1>0
  <2>2. ASSUME NEW e \in Bus, Broadcasting(e) \/ \E env \in Envelope : BroadcastBegin(e, env)
        PROVE  ConsumerStep(c)
    <3>1. sock'[c] = sock[c]
      BY <2>2, <1>p DEF Broadcasting, BroadcastEnd, BroadcastWrite, BroadcastBegin
    <3> QED
      BY <2>0, <3>1, <1>0
  <2>3. ASSUME NEW p \in Peer, PeerSends(p) PROVE ConsumerStep(c)
    <3>1. CASE p = c
      BY <2>0, <2>3, <3>1 DEF ConsumerStep, Steady
    <3>2. CASE p # c
      <4>1. sock'[c] = sock[c]
        BY <2>3, <3>2, <1>p DEF PeerSends
      <4> QED
        BY <2>0, <4>1, <1>0
    <3> QED
      BY <3>1, <3>2
  <2>4. ASSUME NEW p \in Peer, PeerLeaves(p) \/ Tick(p) PROVE ConsumerStep(c)
    <3>1. CASE p # c
      <4>1. sock'[c] = sock[c]
        BY <2>4, <3>1, <1>p DEF PeerLeaves, Tick
      <4> QED
        BY <2>0, <4>1, <1>0
    <3>2. CASE p = c
      <4>1. sock'[c] \in {[sock[c] EXCEPT !.up = "gone"], [sock[c] EXCEPT !.idle = @ + 1]}
        BY <2>4, <3>2, <1>p DEF PeerLeaves, Tick
      <4>2. sock[c].up \in {"open", "gone"}
        BY <2>4, <3>2 DEF PeerLeaves, Tick
      <4>3. Quiet(sock[c], sock'[c])
        BY <4>1, <4>2, <1>p DEF Quiet, Intact, Socket
      <4> QED
        BY <2>0, <4>3 DEF ConsumerStep, Steady
    <3> QED
      BY <3>1, <3>2
  <2> QED
    BY <1>4, <2>1, <2>2, <2>3, <2>4 DEF StreamNext, Environment
<1> QED
  BY <1>1, <1>2, <1>3, <1>4 DEF WsNext

(* What is not an answer changes nothing of the answers. *)
LEMMA NoAnswer ==
  ASSUME NEW w \in Socket(ConsumerData), NEW data \in [kind : {"event", "example"}] \cup [kind : {"push"}, push : Call] \cup {Nothing}
  PROVE  LET v == Written(w, "text", data)
         IN /\ v \in Socket(ConsumerData) /\ Keep(v.out, AnswerFrame) = Keep(w.out, AnswerFrame)
            /\ v.up = w.up /\ v.inbox = w.inbox /\ v.sent = w.sent /\ v.closing = w.closing
            /\ w.up = "none" => v.out = w.out
<1>1. data \in ConsumerData \cup {Nothing}
  BY DEF ConsumerData
<1> DEFINE f == [kind |-> "text", data |-> data]
<1>2. CASE Drops(w, data)
  BY <1>1, <1>2, WrittenIs
<1>3. CASE ~Drops(w, data)
  <2>1. data # Nothing
    BY <1>3 DEF Drops
  <2>2. f \in Frame(ConsumerData)
    BY <1>1, <2>1 DEF Frame
  <2>3. data.kind # "answer"
    BY <2>1
  <2>4. f \notin AnswerFrame
    BY <2>3 DEF AnswerFrame
  <2>5. w.out \in Seq(Frame(ConsumerData))
    BY DEF Socket
  <2>6. Keep(Append(w.out, f), AnswerFrame) = Keep(w.out, AnswerFrame)
    BY <2>2, <2>4, <2>5, KeepAppend
  <2> QED
    BY <1>1, <1>3, <2>6, WrittenIs DEF Drops
<1> QED
  BY <1>2, <1>3

(* The answers are a sequence of frames. *)
LEMMA AnswersAre ==
  ASSUME NEW w \in Socket(ConsumerData)
  PROVE  /\ Keep(w.out, AnswerFrame) \in Seq(AnswerFrame)
         /\ Len(Keep(w.out, AnswerFrame)) \in Nat
<1>1. w.out \in Seq(Frame(ConsumerData))
  BY DEF Socket
<1>2. Keep(w.out, AnswerFrame) \in Seq(Frame(ConsumerData) \cap AnswerFrame)
  BY <1>1, KeepRange
<1>3. Keep(w.out, AnswerFrame) \in Seq(AnswerFrame)
  BY <1>2, SeqMonotonic
<1> QED
  BY <1>3, LenProperties

(* A step that takes no message and writes no answer. *)
LEMMA RepliesQuiet ==
  ASSUME NEW w \in Socket(ConsumerData), NEW v, NEW u \in Socket(ConsumerData), NEW m \in Nat, NEW st, NEW st2,
         Replies(st, m, w),
         u.inbox = w.inbox, u.sent = w.sent, u.up = w.up, u.closing = w.closing,
         w.up = "none" => u.out = w.out,
         Keep(u.out, AnswerFrame) = Keep(w.out, AnswerFrame),
         Quiet(u, v),
         st2 = st \/ (st \notin {"none", "handling"} /\ st2 \notin {"none", "handling"})
  PROVE  Replies(st2, m, v)
BY DEF Replies, Quiet, Intact

(* The answers of a consumer, after any step. *)
LEMMA RepliesKept ==
  ASSUME SocketsTyped, StreamTyped, ConsumersTyped, RegistryAgrees, WsNext, NEW c \in Conn,
         Replies(pc[c], message[c], sock[c])
  PROVE  Replies(pc'[c], message'[c], sock'[c])
<1> DEFINE w == sock[c]
           v == sock'[c]
<1>p. c \in Peer /\ w \in Socket(ConsumerData) /\ DOMAIN sock = Peer
  BY Peers DEF SocketsTyped
<1>t. pc \in [Conn -> Stage] /\ message \in [Conn -> Nat] /\ message[c] \in Nat
  BY DEF ConsumersTyped
<1>1. CASE Steady(c) /\ Quiet(w, v)
  BY <1>1, <1>p, <1>t, RepliesQuiet DEF Steady
<1>2. CASE /\ Steady(c)
           /\ \E data \in [kind : {"event", "example"}] \cup {Nothing} : Quiet(Written(w, "text", data), v)
  <2>1. PICK data \in [kind : {"event", "example"}] \cup {Nothing} : Quiet(Written(w, "text", data), v)
    BY <1>2
  <2> DEFINE u == Written(w, "text", data)
  <2>2. /\ u \in Socket(ConsumerData) /\ Keep(u.out, AnswerFrame) = Keep(w.out, AnswerFrame)
        /\ u.up = w.up /\ u.inbox = w.inbox /\ u.sent = w.sent /\ u.closing = w.closing
        /\ w.up = "none" => u.out = w.out
    BY <1>p, NoAnswer
  <2> HIDE DEF u
  <2>4. Quiet(u, v)
    BY <2>1 DEF u
  <2> HIDE DEF w, v
  <2>5. Replies(pc'[c], message[c], v)
    BY <1>2, <1>p, <1>t, <2>2, <2>4, RepliesQuiet DEF Steady, w
  <2> QED
    BY <1>2, <2>5 DEF Steady, v
<1>3. CASE Steady(c) /\ \E t \in Call : PushWrite(t, c)
  <2>1. PICK t \in Call : PushWrite(t, c)
    BY <1>3
  <2> DEFINE data == [kind |-> "push", push |-> t]
             u == Written(w, "text", data)
  <2>2. data \in [kind : {"push"}, push : Call] /\ data \in ConsumerData
    BY DEF ConsumerData
  <2>3. v = w \/ v = u
    BY <2>1, <1>p DEF PushWrite
  <2> HIDE DEF data
  <2>4. /\ u \in Socket(ConsumerData) /\ Keep(u.out, AnswerFrame) = Keep(w.out, AnswerFrame)
        /\ u.up = w.up /\ u.inbox = w.inbox /\ u.sent = w.sent /\ u.closing = w.closing
        /\ w.up = "none" => u.out = w.out
    BY <1>p, <2>2, NoAnswer
  <2> HIDE DEF u, w, v
  <2>6. Replies(pc'[c], message[c], v)
    BY <1>3, <1>p, <1>t, <2>3, <2>4, RepliesQuiet, QuietStays DEF Steady, w
  <2> QED
    BY <1>3, <2>6 DEF Steady, v
<1>4. CASE Upgrade(c)
  <2>1. /\ pc[c] = "none" /\ pc'[c] = "registered" /\ message' = message
        /\ v = Opened(w)
    BY <1>4, <1>p, <1>t DEF Upgrade
  <2>2. v = [w EXCEPT !.up = "open"] /\ v.up = "open"
    BY <2>1, <1>p, SocketOps DEF Opened, Socket
  <2>3. v.out = w.out /\ v.inbox = w.inbox /\ v.sent = w.sent /\ v.closing = w.closing
    BY <2>2
  <2>4. Len(Keep(<<>>, AnswerFrame)) = 0
    BY KeepEmpty
  <2>5. Len(Keep(w.out, AnswerFrame)) = 0 /\ message[c] = 0
    BY <2>1, <2>4 DEF Replies
  <2> QED
    BY <2>1, <2>2, <2>3, <2>5 DEF Replies
<1>5. CASE Read(c)
  <2>1. /\ pc[c] = "reading" /\ pc'[c] = "handling" /\ message'[c] = Head(w.inbox)
        /\ v = AfterRead(w) /\ w.inbox # <<>>
    BY <1>5, <1>p, <1>t DEF Read, CanRead
  <2>2. v.up = w.up /\ v.sent = w.sent /\ v.closing = w.closing /\ v.out = w.out /\ v.inbox = Tail(w.inbox)
    BY <2>1, <1>p, AfterReadIs
  <2>3. w.inbox \in Seq(Nat)
    BY <1>p DEF Socket
  <2>4. Len(w.inbox) >= 1 /\ Len(w.inbox) \in Nat /\ Head(w.inbox) = w.inbox[1]
    BY <2>1, <2>3, EmptySeq, LenProperties
  <2>5. message'[c] = message[c] + 1
    BY <2>1, <2>4 DEF Replies
  <2>6. Len(v.inbox) = Len(w.inbox) - 1 /\ \A i \in 1 .. Len(v.inbox) : v.inbox[i] = w.inbox[i + 1]
    BY <2>1, <2>2, <2>3, HeadTailProperties
  <2> HIDE DEF w, v
  <2>7. message'[c] + Len(v.inbox) = v.sent
    BY <1>t, <2>2, <2>4, <2>5, <2>6 DEF Replies, w
  <2>8. \A i \in 1 .. Len(v.inbox) : v.inbox[i] = message'[c] + i
    BY <1>t, <2>4, <2>5, <2>6 DEF Replies, w
  <2> QED
    BY <1>t, <2>1, <2>2, <2>5, <2>7, <2>8 DEF Replies, Intact, w, v
<1>6. CASE Handle(c)
  <2> DEFINE data == [kind |-> "answer", to |-> message[c]]
             f == [kind |-> "text", data |-> data]
             a == Keep(w.out, AnswerFrame)
  <2>1. /\ pc[c] = "handling" /\ pc'[c] = "reading" /\ message' = message
        /\ v = Written(w, "text", data)
    BY <1>6, <1>p, <1>t DEF Handle, Answer
  <2>2. data \in ConsumerData /\ data # Nothing
    BY <1>t, DataAssumption DEF ConsumerData
  <2>3. f \in Frame(ConsumerData) /\ f \in AnswerFrame
    BY <2>2, <1>t DEF Frame, AnswerFrame
  <2>4. f.data.to = message[c]
    OBVIOUS
  <2> HIDE DEF data, w, v
  <2>5. /\ v.up = w.up /\ v.inbox = w.inbox /\ v.sent = w.sent /\ v.closing = w.closing
        /\ v.out = IF Drops(w, data) THEN w.out ELSE Append(w.out, f)
    BY <2>1, <2>2, <1>p, WrittenIs
  <2> HIDE DEF f
  <2>6. w.out \in Seq(Frame(ConsumerData))
    BY <1>p DEF Socket
  <2>7. Keep(Append(w.out, f), AnswerFrame) = Append(a, f)
    BY <2>3, <2>6, KeepAppend
  <2>8. a \in Seq(AnswerFrame) /\ Len(a) \in Nat
    BY <1>p, AnswersAre
  <2> HIDE DEF a
  <2>9. /\ Len(Append(a, f)) = Len(a) + 1 /\ Append(a, f)[Len(a) + 1] = f
        /\ \A i \in 1 .. Len(a) : Append(a, f)[i] = a[i]
    BY <2>3, <2>8, AppendProperties
  <2>r. /\ w.up # "none" /\ message[c] + Len(w.inbox) = w.sent
        /\ \A i \in 1 .. Len(w.inbox) : w.inbox[i] = message[c] + i
        /\ \A i \in 1 .. Len(a) : a[i].data.to = i
        /\ Len(a) <= message[c] - 1
        /\ Intact(w) => Len(a) = message[c] - 1
    BY <2>1 DEF Replies, w, a
  <2>10. CASE Drops(w, data)
    <3>1. ~Intact(v)
      BY <2>10, <2>5, <2>r, <2>2 DEF Drops, Intact
    <3>2. Keep(v.out, AnswerFrame) = a
      BY <2>10, <2>5 DEF a
    <3>3. Len(a) <= message[c]
      BY <2>r, <2>8, <1>t
    <3> QED
      BY <2>1, <2>5, <2>r, <3>1, <3>2, <3>3 DEF Replies, v
  <2>11. CASE ~Drops(w, data)
    <3>1. Intact(w)
      BY <2>11 DEF Drops, Intact
    <3>2. Keep(v.out, AnswerFrame) = Append(a, f)
      BY <2>11, <2>5, <2>7
    <3>3. Len(Append(a, f)) = message[c]
      BY <2>r, <2>9, <3>1, <2>8, <1>t
    <3>4. \A i \in 1 .. Len(Append(a, f)) : Append(a, f)[i].data.to = i
      BY <2>r, <2>9, <3>3, <2>4, <2>8, <1>t
    <3>5. message[c] \in Nat
      BY <1>t
    <3>6. Replies("reading", message[c], v)
      <4> DEFINE b == Append(a, f)
      <4>1. /\ Keep(v.out, AnswerFrame) = b /\ Len(b) = message[c]
            /\ \A i \in 1 .. Len(b) : b[i].data.to = i
        BY <3>2, <3>3, <3>4
      <4>2. v.up # "none" /\ message[c] + Len(v.inbox) = v.sent
        BY <2>5, <2>r
      <4>3. \A i \in 1 .. Len(v.inbox) : v.inbox[i] = message[c] + i
        BY <2>5, <2>r
      <4> HIDE DEF b
      <4> QED
        BY <3>5, <4>1, <4>2, <4>3 DEF Replies
    <3> QED
      BY <2>1, <3>6 DEF v
  <2> QED
    BY <2>10, <2>11
<1>7. CASE Steady(c) /\ PeerSends(c)
  <2>1. v = [w EXCEPT !.inbox = Append(w.inbox, w.sent + 1), !.sent = w.sent + 1] /\ w.up = "open"
    BY <1>7, <1>p DEF PeerSends
  <2>2. w.inbox \in Seq(Nat) /\ w.sent \in Nat
    BY <1>p DEF Socket
  <2>3. v.up = w.up /\ v.closing = w.closing /\ v.out = w.out /\ v.sent = w.sent + 1
        /\ v.inbox = Append(w.inbox, w.sent + 1)
    BY <2>1, <1>p DEF Socket
  <2>4. /\ Len(v.inbox) = Len(w.inbox) + 1 /\ v.inbox[Len(w.inbox) + 1] = w.sent + 1 /\ Len(w.inbox) \in Nat
        /\ \A i \in 1 .. Len(w.inbox) : v.inbox[i] = w.inbox[i]
    BY <2>2, <2>3, AppendProperties, LenProperties
  <2>5. message[c] + Len(w.inbox) = w.sent /\ \A i \in 1 .. Len(w.inbox) : w.inbox[i] = message[c] + i
    BY DEF Replies
  <2> HIDE DEF w, v
  <2>6. message[c] + Len(v.inbox) = v.sent
    BY <1>t, <2>2, <2>3, <2>4, <2>5
  <2>7. ASSUME NEW i \in 1 .. Len(v.inbox) PROVE v.inbox[i] = message[c] + i
    <3>1. CASE i = Len(w.inbox) + 1
      BY <1>t, <2>4, <2>5, <3>1
    <3>2. CASE i # Len(w.inbox) + 1
      <4>1. i \in 1 .. Len(w.inbox)
        BY <2>4, <3>2
      <4> QED
        BY <2>4, <2>5, <4>1
    <3> QED
      BY <3>1, <3>2
  <2> QED
    BY <1>7, <2>1, <2>3, <2>6, <2>7 DEF Replies, Intact, Steady, w, v
<1>8. ConsumerStep(c)
  BY ConsumerSteps
<1> QED
  BY <1>1, <1>2, <1>3, <1>4, <1>5, <1>6, <1>7, <1>8 DEF ConsumerStep

-----------------------------------------------------------------------------
(* Types. *)

(* Broadcasts write what was broadcast. *)
LEMMA BroadcastData ==
  ASSUME StreamTyped, NEW e \in Emitter, NEW s \in cast[e].todo
  PROVE  /\ emitted[e] \in Seq(Envelopes) /\ Len(emitted[e]) \in Nat \ {0}
         /\ Last(emitted[e]) \in Envelopes
         /\ [by |-> e, env |-> Last(emitted[e])] \in StreamData
<1>1. emitted[e] \in Seq(Envelopes) /\ emitted[e] # <<>>
  BY DEF StreamTyped
<1>2. Len(emitted[e]) \in Nat \ {0}
  BY <1>1, EmptySeq, LenProperties
<1>3. Last(emitted[e]) \in Envelopes
  BY <1>1, <1>2, ElementOfSeq DEF Last
<1> QED
  BY <1>1, <1>2, <1>3 DEF StreamData

(* Every step leaves the sockets well-typed. *)
LEMMA SocketsKept ==
  ASSUME SocketsTyped, StreamTyped, ConsumersTyped, RegistryAgrees, WsNext
  PROVE  SocketsTyped'
<1>0. ASSUME sock' = sock PROVE SocketsTyped'
  BY <1>0 DEF SocketsTyped
<1>1. ASSUME NEW p \in Peer, NEW v \in Socket(DataOf(p)), sock' = [sock EXCEPT ![p] = v] PROVE SocketsTyped'
  BY <1>1, OneSocket
<1>2. \A p \in Peer : sock[p] \in Socket(DataOf(p))
  BY DEF SocketsTyped
<1>3. ASSUME NEW e \in Emitter, NEW s \in Sub, BroadcastWrite(e, s) PROVE SocketsTyped'
  <2> DEFINE data == [by |-> e, env |-> Last(emitted[e])]
  <2>1. data \in StreamData
    BY <1>3, BroadcastData DEF BroadcastWrite
  <2>2. sock' = sock \/ sock' = [sock EXCEPT ![s] = Written(sock[s], "text", data)]
    BY <1>3, Peers DEF BroadcastWrite
  <2> HIDE DEF data
  <2>3. Written(sock[s], "text", data) \in Socket(DataOf(s)) /\ s \in Peer
    BY <2>1, <1>2, Peers, WrittenIs
  <2> QED
    BY <1>0, <1>1, <2>2, <2>3
<1>4. ASSUME NEW c \in Conn, Handler(c) PROVE SocketsTyped'
  <2>1. c \in Peer /\ DataOf(c) = ConsumerData /\ sock[c] \in Socket(ConsumerData)
    BY Peers, <1>2
  <2>2. CASE Upgrade(c)
    <3>1. sock' = [sock EXCEPT ![c] = Opened(sock[c])]
      BY <2>2 DEF Upgrade
    <3> QED
      BY <3>1, <2>1, <1>1, SocketOps
  <2>3. CASE ConnectHook(c)
    <3> DEFINE data == [kind |-> "event"]
    <3>1. sock' = sock \/ sock' = [sock EXCEPT ![c] = Written(sock[c], "text", data)]
      BY <2>3 DEF ConnectHook
    <3>2. data \in ConsumerData
      BY DEF ConsumerData
    <3> HIDE DEF data
    <3> QED
      BY <3>1, <3>2, <2>1, <1>0, <1>1, WrittenIs
  <2>4. CASE EmitReceive(c)
    <3>1. PICK data \in {Nothing, [kind |-> "example"]} :
            sock' = [sock EXCEPT ![c] = Armed(Written(sock[c], "text", data))]
      BY <2>4 DEF EmitReceive
    <3>2. data \in ConsumerData \cup {Nothing}
      BY DEF ConsumerData
    <3>3. Armed(Written(sock[c], "text", data)) \in Socket(ConsumerData)
      BY <3>2, <2>1, WrittenIs, SocketOps
    <3> QED
      BY <3>1, <3>3, <2>1, <1>1
  <2>5. CASE Read(c)
    <3>1. sock' = [sock EXCEPT ![c] = AfterRead(sock[c])] /\ sock[c].inbox # <<>>
      BY <2>5 DEF Read, CanRead
    <3> QED
      BY <3>1, <2>1, <1>1, AfterReadIs
  <2>6. CASE Handle(c)
    <3> DEFINE data == [kind |-> "answer", to |-> message[c]]
    <3>1. sock' = [sock EXCEPT ![c] = Written(sock[c], "text", data)]
      BY <2>6 DEF Handle, Answer
    <3>2. data \in ConsumerData
      BY DEF ConsumerData, ConsumersTyped
    <3> HIDE DEF data
    <3> QED
      BY <3>1, <3>2, <2>1, <1>1, WrittenIs
  <2>7. CASE OnDisconnect(c)
    <3>1. sock' = [sock EXCEPT ![c] = Unread(sock[c])]
      BY <2>7 DEF OnDisconnect
    <3> QED
      BY <3>1, <2>1, <1>1, SocketOps
  <2>8. CASE OnConnect(c) \/ Unregister(c)
    BY <2>8, <1>0 DEF OnConnect, Unregister, streamVars
  <2>9. CASE Broadcasting(c)
    BY <2>9, <1>0, <1>3, Peers DEF Broadcasting, BroadcastEnd
  <2> QED
    BY <1>4, <2>2, <2>3, <2>4, <2>5, <2>6, <2>7, <2>8, <2>9 DEF Handler
<1>5. ASSUME NEW t \in Call, Management(t) PROVE SocketsTyped'
  <2>1. ASSUME NEW c \in call[t].todo, PushWrite(t, c) PROVE SocketsTyped'
    <3> DEFINE data == [kind |-> "push", push |-> t]
    <3>1. c \in Conn
      BY DEF ConsumersTyped, CallRecord
    <3>2. sock' = sock \/ sock' = [sock EXCEPT ![c] = Written(sock[c], "text", data)]
      BY <2>1 DEF PushWrite
    <3>3. data \in ConsumerData
      BY DEF ConsumerData
    <3> HIDE DEF data
    <3>4. c \in Peer /\ DataOf(c) = ConsumerData /\ Written(sock[c], "text", data) \in Socket(DataOf(c))
      BY <3>1, <3>3, <1>2, Peers, WrittenIs
    <3> QED
      BY <3>2, <3>4, <1>0, <1>1
  <2>2. ASSUME NEW i \in DOMAIN byID, DisconnectClose(t, i) PROVE SocketsTyped'
    <3>1. byID[i] \in Conn
      BY DEF RegistryAgrees
    <3>2. \/ sock' = [sock EXCEPT ![byID[i]] = Aborted(sock[byID[i]])]
          \/ sock' = [sock EXCEPT ![byID[i]] = WithClose(sock[byID[i]])]
      BY <2>2 DEF DisconnectClose
    <3> QED
      BY <3>1, <3>2, <1>1, <1>2, Peers, SocketOps
  <2>3. CASE ~(\E d \in call[t].todo : PushWrite(t, d)) /\ ~(\E i \in DOMAIN byID : DisconnectClose(t, i))
    <3>1. sock' = sock
      BY <1>5, <2>3 DEF Management, PushRequest, PushDue, PushCancelled, PushBegin, PushEnd, DisconnectUnregister,
        streamVars
    <3> QED
      BY <3>1, <1>0
  <2> QED
    BY <2>1, <2>2, <2>3
<1>6. CASE Shutdown
  BY <1>6, <1>0 DEF Shutdown, streamVars
<1>7. CASE StreamNext
  <2>1. ASSUME NEW s \in Sub, Subscriber(s) PROVE SocketsTyped'
    <3>1. s \in Peer /\ DataOf(s) = StreamData /\ sock[s] \in Socket(StreamData)
      BY Peers, <1>2
    <3>2. CASE Subscribe(s)
      <4>1. sock' = [sock EXCEPT ![s] = Armed(Opened(sock[s]))]
        BY <3>2 DEF Subscribe
      <4>2. Armed(Opened(sock[s])) \in Socket(StreamData)
        BY <3>1, SocketOps
      <4> QED
        BY <4>1, <4>2, <3>1, <1>1
    <3>3. CASE Ping(s)
      <4>1. sock' = [sock EXCEPT ![s] = sock[s]]
        BY <3>3 DEF Ping, Written
      <4> QED
        BY <4>1, <3>1, <1>1
    <3>4. CASE StreamRead(s)
      <4>1. sock' = [sock EXCEPT ![s] = AfterRead(sock[s])] /\ sock[s].inbox # <<>>
        BY <3>4 DEF StreamRead, CanRead
      <4> QED
        BY <4>1, <3>1, <1>1, AfterReadIs
    <3>5. CASE StreamEnds(s)
      <4>1. sock' = [sock EXCEPT ![s] = Unread(sock[s])]
        BY <3>5 DEF StreamEnds
      <4> QED
        BY <4>1, <3>1, <1>1, SocketOps
    <3> QED
      BY <2>1, <3>2, <3>3, <3>4, <3>5 DEF Subscriber
  <2>2. ASSUME NEW e \in Bus, Broadcasting(e) \/ \E env \in Envelope : BroadcastBegin(e, env)
        PROVE  SocketsTyped'
    BY <2>2, <1>0, <1>3, Peers DEF Broadcasting, BroadcastEnd, BroadcastBegin
  <2>3. ASSUME NEW p \in Peer, PeerSends(p) \/ PeerLeaves(p) \/ Tick(p) PROVE SocketsTyped'
    <3> DEFINE w == sock[p]
    <3>1. w \in Socket(DataOf(p))
      BY <1>2
    <3>2. CASE PeerSends(p)
      <4> DEFINE v == [w EXCEPT !.inbox = Append(w.inbox, w.sent + 1), !.sent = w.sent + 1]
      <4>1. sock' = [sock EXCEPT ![p] = v]
        BY <3>2, <1>2 DEF PeerSends, SocketsTyped, Socket
      <4>2. Append(w.inbox, w.sent + 1) \in Seq(Nat)
        BY <3>1, AppendProperties DEF Socket
      <4>3. v \in Socket(DataOf(p))
        <5> DEFINE i == Append(w.inbox, w.sent + 1)
                   n == w.sent + 1
        <5>1. i \in Seq(Nat) /\ n \in Nat
          BY <3>1, <4>2 DEF Socket
        <5> HIDE DEF i, n, w
        <5>2. [w EXCEPT !.inbox = i, !.sent = n] \in Socket(DataOf(p))
          BY <3>1, <5>1 DEF Socket
        <5> QED
          BY <5>2 DEF i, n
      <4> HIDE DEF v
      <4> QED
        BY <4>1, <4>3, <1>1
    <3>3. CASE PeerLeaves(p)
      <4> DEFINE v == [w EXCEPT !.up = "gone"]
      <4>1. sock' = [sock EXCEPT ![p] = v]
        BY <3>3, <1>2 DEF PeerLeaves, SocketsTyped, Socket
      <4>2. v \in Socket(DataOf(p))
        BY <3>1 DEF Socket
      <4> HIDE DEF v
      <4> QED
        BY <4>1, <4>2, <1>1
    <3>4. CASE Tick(p)
      <4> DEFINE v == [w EXCEPT !.idle = w.idle + 1]
      <4>1. sock' = [sock EXCEPT ![p] = v]
        BY <3>4, <1>2 DEF Tick, SocketsTyped, Socket
      <4>2. v \in Socket(DataOf(p))
        <5>1. w.idle + 1 \in Nat
          BY <3>1 DEF Socket
        <5> HIDE DEF w
        <5> QED
          BY <3>1, <5>1 DEF Socket
      <4> HIDE DEF v
      <4> QED
        BY <4>1, <4>2, <1>1
    <3> QED
      BY <2>3, <3>2, <3>3, <3>4
  <2> QED
    BY <1>7, <2>1, <2>2, <2>3 DEF StreamNext, Environment
<1> QED
  BY <1>4, <1>5, <1>6, <1>7 DEF WsNext

(* Every step leaves the stream's variables well-typed. *)
LEMMA StreamTypedKept ==
  ASSUME StreamTyped, WsNext
  PROVE  StreamTyped'
<1>0. ASSUME UNCHANGED <<subs, handler, cast, emitted, since>> PROVE StreamTyped'
  BY <1>0 DEF StreamTyped
<1>1. ASSUME NEW e \in Emitter, NEW env \in Envelopes, Announce(e, env) PROVE StreamTyped'
  <2>1. emitted[e] \in Seq(Envelopes)
    BY DEF StreamTyped
  <2>2. Append(emitted[e], env) \in Seq(Envelopes) /\ Append(emitted[e], env) # <<>>
    BY <2>1, AppendProperties, EmptySeq
  <2> QED
    BY <1>1, <2>2 DEF StreamTyped, Announce
<1>2. ASSUME NEW e \in Emitter, Broadcasting(e) PROVE StreamTyped'
  <2>1. CASE BroadcastEnd(e)
    BY <2>1 DEF BroadcastEnd, StreamTyped, Resting
  <2>2. ASSUME NEW s \in Sub, BroadcastWrite(e, s) PROVE StreamTyped'
    BY <2>2 DEF BroadcastWrite, StreamTyped
  <2> QED
    BY <1>2, <2>1, <2>2 DEF Broadcasting
<1>3. ASSUME NEW c \in Conn, Handler(c) PROVE StreamTyped'
  <2>1. c \in Emitter
    BY Peers
  <2>2. Lifecycle(c, "connected") \in Envelopes /\ Lifecycle(c, "disconnected") \in Envelopes
    BY DEF Envelopes
  <2>3. CASE Upgrade(c) \/ ConnectHook(c) \/ EmitReceive(c) \/ Read(c) \/ Handle(c) \/ Unregister(c)
    BY <2>3, <1>0 DEF Upgrade, ConnectHook, EmitReceive, Read, Handle, Unregister, restOfStream, streamVars
  <2> QED
    BY <1>3, <2>1, <2>2, <2>3, <1>1, <1>2 DEF Handler, OnConnect, OnDisconnect
<1>4. ASSUME NEW t \in Call, Management(t) PROVE StreamTyped'
  BY <1>4, <1>0 DEF Management, PushRequest, PushDue, PushCancelled, PushBegin, PushEnd, PushWrite,
    DisconnectClose, DisconnectUnregister, streamVars, restOfStream
<1>5. CASE Shutdown
  BY <1>5, <1>0 DEF Shutdown, streamVars
<1>6. CASE StreamNext
  <2>1. ASSUME NEW s \in Sub, Subscriber(s) PROVE StreamTyped'
    <3>1. CASE Subscribe(s)
      <4>1. \A e \in Emitter : Len(emitted[e]) \in Nat
        BY LenProperties DEF StreamTyped
      <4> QED
        BY <3>1, <4>1 DEF Subscribe, StreamTyped
    <3>2. CASE Ping(s) \/ StreamRead(s)
      BY <3>2, <1>0 DEF Ping, StreamRead
    <3>3. CASE StreamEnds(s)
      BY <3>3 DEF StreamEnds, StreamTyped
    <3> QED
      BY <2>1, <3>1, <3>2, <3>3 DEF Subscriber
  <2>2. ASSUME NEW e \in Bus, NEW env \in Envelope, BroadcastBegin(e, env) PROVE StreamTyped'
    BY <2>2, <1>1, Peers DEF BroadcastBegin, Envelopes
  <2>3. ASSUME NEW e \in Bus, Broadcasting(e) PROVE StreamTyped'
    BY <2>3, <1>2, Peers
  <2> QED
    BY <1>6, <1>0, <2>1, <2>2, <2>3 DEF StreamNext
<1> QED
  BY <1>3, <1>4, <1>5, <1>6 DEF WsNext

(* Every step leaves the handlers and requests well-typed. *)
LEMMA ConsumersTypedKept ==
  ASSUME ConsumersTyped, SocketsTyped, RegistryAgrees, WsNext
  PROVE  ConsumersTyped'
<1>0. ASSUME UNCHANGED <<pc, id, message, call, forced>> PROVE ConsumersTyped'
  BY <1>0 DEF ConsumersTyped
<1>1. ASSUME NEW c \in Conn, Handler(c) PROVE ConsumersTyped'
  <2>1. CASE Upgrade(c)
    <3>1. autoID' \in Nat
      BY <2>1 DEF Upgrade, register, RegistryAgrees
    <3> QED
      BY <2>1, <3>1 DEF Upgrade, ConsumersTyped, Stage, callVars
  <2>2. CASE Read(c)
    <3>1. sock[c] \in Socket(ConsumerData)
      BY Peers DEF SocketsTyped
    <3>2. Head(sock[c].inbox) \in Nat
      BY <2>2, <3>1, HeadTailProperties DEF Read, CanRead, Socket
    <3> QED
      BY <2>2, <3>2 DEF Read, ConsumersTyped, Stage, callVars
  <2>3. CASE OnConnect(c) \/ ConnectHook(c) \/ EmitReceive(c) \/ Handle(c) \/ OnDisconnect(c) \/ Unregister(c)
    BY <2>3 DEF OnConnect, ConnectHook, EmitReceive, Handle, OnDisconnect, Unregister, ConsumersTyped, Stage, callVars
  <2> QED
    BY <1>0, <1>1, <2>1, <2>2, <2>3 DEF Handler, connVars, callVars
<1>2. ASSUME NEW t \in Call, Management(t) PROVE ConsumersTyped'
  <2>1. call \in [Call -> CallRecord] /\ call[t] \in CallRecord
    BY DEF ConsumersTyped
  <2>2. ASSUME NEW r \in CallRecord, call' = [call EXCEPT ![t] = r], UNCHANGED connVars, forced' \subseteq Conn
        PROVE  ConsumersTyped'
    BY <2>1, <2>2 DEF ConsumersTyped, connVars
  <2>3. ASSUME NEW r, call' = [call EXCEPT ![t] = r], r \in CallRecord, UNCHANGED <<connVars, forced>>
        PROVE  ConsumersTyped'
    BY <2>2, <2>3 DEF ConsumersTyped
  <2>4. ASSUME NEW ch \in {ChannelOf[c] : c \in Conn}, NEW target \in {0} \cup DOMAIN byID, PushRequest(t, ch, target)
        PROVE  ConsumersTyped'
    <3>1. target \in Nat
      BY DEF RegistryAgrees
    <3>2. PICK next \in {"waiting", "pushing"} :
            call' = [call EXCEPT ![t] = [NoCall EXCEPT !.pc = next, !.channel = ch, !.target = target]]
      BY <2>4 DEF PushRequest
    <3>3. [NoCall EXCEPT !.pc = next, !.channel = ch, !.target = target] \in CallRecord
      BY <3>1 DEF NoCall, CallRecord, CallStage
    <3> QED
      BY <3>2, <3>3, <2>3, <2>4 DEF PushRequest
  <2>5. CASE PushDue(t) \/ PushCancelled(t) \/ PushEnd(t)
    <3>1. PICK stage \in CallStage : call' = [call EXCEPT ![t] = [call[t] EXCEPT !.pc = stage]]
      BY <2>5, <2>1 DEF PushDue, PushCancelled, PushEnd, CallStage
    <3>2. [call[t] EXCEPT !.pc = stage] \in CallRecord
      BY <2>1 DEF CallRecord
    <3> QED
      BY <3>1, <3>2, <2>3, <2>5 DEF PushDue, PushCancelled, PushEnd
  <2>6. CASE PushBegin(t)
    <3> DEFINE T == Candidates(call[t].channel, call[t].target)
               A == {c \in Conn : Registered(c) /\ ChannelOf[c] = call[t].channel}
    <3>1. T \subseteq Conn
      BY DEF Candidates, RegistryAgrees
    <3>2. call' = [call EXCEPT ![t] = [call[t] EXCEPT !.pc = "writing", !.todo = T, !.all = A]]
      BY <2>6, <2>1 DEF PushBegin
    <3>3. A \subseteq Conn
      OBVIOUS
    <3> HIDE DEF T, A
    <3>4. [call[t] EXCEPT !.pc = "writing", !.todo = T, !.all = A] \in CallRecord
      BY <2>1, <3>1, <3>3 DEF CallRecord, CallStage
    <3> QED
      BY <3>2, <3>4, <2>3, <2>6 DEF PushBegin
  <2>7. ASSUME NEW c \in call[t].todo, PushWrite(t, c) PROVE ConsumersTyped'
    <3>1. call' = [call EXCEPT ![t] = [call[t] EXCEPT !.todo = call[t].todo \ {c}]]
      BY <2>7, <2>1 DEF PushWrite
    <3>2. [call[t] EXCEPT !.todo = call[t].todo \ {c}] \in CallRecord
      BY <2>1 DEF CallRecord
    <3> QED
      BY <3>1, <3>2, <2>3, <2>7 DEF PushWrite
  <2>8. ASSUME NEW i \in DOMAIN byID, DisconnectClose(t, i) PROVE ConsumersTyped'
    <3>1. call' = [call EXCEPT ![t] = [call[t] EXCEPT !.pc = "unregistering", !.target = i]]
      BY <2>8, <2>1 DEF DisconnectClose
    <3>2. [call[t] EXCEPT !.pc = "unregistering", !.target = i] \in CallRecord
      <4>1. i \in Nat
        BY DEF RegistryAgrees
      <4> QED
        BY <2>1, <4>1 DEF CallRecord, CallStage
    <3> QED
      BY <3>1, <3>2, <2>3, <2>8 DEF DisconnectClose
  <2>9. CASE DisconnectUnregister(t)
    <3>1. call' = [call EXCEPT ![t] = [call[t] EXCEPT !.pc = "ended"]]
      BY <2>9, <2>1 DEF DisconnectUnregister
    <3>2. [call[t] EXCEPT !.pc = "ended"] \in CallRecord
      BY <2>1 DEF CallRecord, CallStage
    <3>3. forced' \subseteq Conn
      BY <2>9 DEF DisconnectUnregister, ConsumersTyped
    <3> QED
      BY <3>1, <3>2, <3>3, <2>2, <2>9 DEF DisconnectUnregister
  <2> QED
    BY <1>2, <2>4, <2>5, <2>6, <2>7, <2>8, <2>9 DEF Management
<1>3. CASE Shutdown
  BY <1>3, <1>0 DEF Shutdown, connVars
<1>4. CASE UNCHANGED <<regVars, connVars, callVars>>
  BY <1>4, <1>0 DEF connVars, callVars
<1> QED
  BY <1>1, <1>2, <1>3, <1>4 DEF WsNext

-----------------------------------------------------------------------------
(* The registry, and what the stream is told. *)

(* What register does to both indexes. *)
LEMMA RegisterIs ==
  ASSUME RegistryAgrees, NEW c \in Conn, register(c)
  PROVE  /\ autoID' = autoID + 1
         /\ DOMAIN byID' = DOMAIN byID \cup {autoID + 1}
         /\ byID'[autoID + 1] = c
         /\ \A i \in DOMAIN byID : byID'[i] = byID[i]
         /\ \A ch : InChannel(ch)' = InChannel(ch) \cup (IF ch = ChannelOf[c] THEN {autoID + 1} ELSE {})
<1>1. autoID + 1 \notin DOMAIN byID
  BY DEF RegistryAgrees
<1>2. /\ autoID' = autoID + 1 /\ byID' = With(byID, autoID + 1, c)
      /\ byChan' = With(byChan, ChannelOf[c], InChannel(ChannelOf[c]) \cup {autoID + 1})
  BY DEF register
<1> QED
  BY <1>1, <1>2 DEF With, InChannel

(* What unregister does to both indexes. *)
LEMMA UnregisterIs ==
  ASSUME RegistryAgrees, NEW i, unregister(i)
  PROVE  /\ autoID' = autoID
         /\ DOMAIN byID' = DOMAIN byID \ {i}
         /\ \A j \in DOMAIN byID' : byID'[j] = byID[j]
         /\ \A ch : InChannel(ch)' = InChannel(ch) \ {i}
<1>0. \A ch : InChannel(ch) = {j \in DOMAIN byID : ChannelOf[byID[j]] = ch}
  BY DEF RegistryAgrees
<1>1. CASE i \notin DOMAIN byID
  <2>1. UNCHANGED regVars
    BY <1>1 DEF unregister
  <2>2. \A ch : InChannel(ch)' = InChannel(ch) /\ i \notin InChannel(ch)
    BY <1>0, <1>1, <2>1 DEF InChannel, regVars
  <2> QED
    BY <1>1, <2>1, <2>2 DEF regVars
<1>2. CASE i \in DOMAIN byID
  <2> DEFINE k == ChannelOf[byID[i]]
  <2>1. /\ byChan' = IF byChan[k] = {i} THEN Without(byChan, k) ELSE [byChan EXCEPT ![k] = @ \ {i}]
        /\ byID' = Without(byID, i) /\ autoID' = autoID
    BY <1>2 DEF unregister
  <2>2. i \in InChannel(k) /\ \A ch : ch # k => i \notin InChannel(ch)
    BY <1>0, <1>2
  <2>3. k \in DOMAIN byChan
    BY <2>2 DEF InChannel
  <2> HIDE DEF k
  <2>4. \A ch : InChannel(ch)' = InChannel(ch) \ {i}
    <3>1. CASE byChan[k] = {i}
      BY <2>1, <2>2, <2>3, <3>1 DEF InChannel, Without
    <3>2. CASE byChan[k] # {i}
      BY <2>1, <2>2, <2>3, <3>2 DEF InChannel
    <3> QED
      BY <3>1, <3>2
  <2>5. DOMAIN byID' = DOMAIN byID \ {i} /\ \A j \in DOMAIN byID' : byID'[j] = byID[j]
    BY <2>1 DEF Without
  <2> QED
    BY <2>1, <2>4, <2>5
<1> QED
  BY <1>1, <1>2

(* An id is of one consumer: when it is taken out, nobody else is out. *)
LEMMA RemovalKeeps ==
  ASSUME RegistryAgrees, ConsumersTyped, NEW i, unregister(i), id' = id
  PROVE  /\ autoID' \in Nat /\ autoID' = autoID
         /\ \A j \in DOMAIN byID' : byID'[j] \in Conn /\ j \in 1 .. autoID' /\ id'[byID'[j]] = j
         /\ \A ch : InChannel(ch)' = {j \in DOMAIN byID' : ChannelOf[byID'[j]] = ch}
         /\ \A c \in Conn : Registered(c)' <=> Registered(c) /\ id[c] # i
<1>u. /\ autoID' = autoID
      /\ DOMAIN byID' = DOMAIN byID \ {i}
      /\ \A j \in DOMAIN byID' : byID'[j] = byID[j]
      /\ \A ch : InChannel(ch)' = InChannel(ch) \ {i}
  BY UnregisterIs
<1>r. /\ autoID \in Nat
      /\ \A j \in DOMAIN byID : byID[j] \in Conn /\ j \in 1 .. autoID /\ id[byID[j]] = j
      /\ \A ch : InChannel(ch) = {j \in DOMAIN byID : ChannelOf[byID[j]] = ch}
  BY DEF RegistryAgrees
<1>1. \A j \in DOMAIN byID' : byID'[j] \in Conn /\ j \in 1 .. autoID' /\ id'[byID'[j]] = j
  BY <1>u, <1>r
<1>2. ASSUME NEW ch PROVE InChannel(ch)' = {j \in DOMAIN byID' : ChannelOf[byID'[j]] = ch}
  <2>1. InChannel(ch)' = {j \in DOMAIN byID : ChannelOf[byID[j]] = ch} \ {i}
    BY <1>u, <1>r
  <2> QED
    BY <1>u, <2>1
<1>3. ASSUME NEW c \in Conn PROVE Registered(c)' <=> Registered(c) /\ id[c] # i
  <2>1. Registered(c)' <=> \E j \in DOMAIN byID \ {i} : byID[j] = c
    BY <1>u DEF Registered
  <2> QED
    BY <1>r, <2>1 DEF Registered
<1> QED
  BY <1>u, <1>r, <1>1, <1>2, <1>3

(* Every step keeps the registry in agreement with the handlers. *)
LEMMA RegistryKept ==
  ASSUME RegistryAgrees, ConsumersTyped, WsNext
  PROVE  RegistryAgrees'
<1>t. pc \in [Conn -> Stage] /\ id \in [Conn -> Nat]
  BY DEF ConsumersTyped
<1>0. ASSUME UNCHANGED <<regVars, pc, id, forced>> PROVE RegistryAgrees'
  BY <1>0 DEF RegistryAgrees, InChannel, Registered, regVars
<1>1. ASSUME UNCHANGED <<regVars, id, forced>>, NEW c \in Conn, NEW stage \in Stage,
             pc' = [pc EXCEPT ![c] = stage], {pc[c], stage} \cap {"none", "ended"} = {}
      PROVE  RegistryAgrees'
  <2>1. pc'[c] = stage /\ \A d \in Conn : d # c => pc'[d] = pc[d]
    BY <1>1, <1>t
  <2>2. /\ byID' = byID /\ byChan' = byChan /\ autoID' = autoID /\ id' = id /\ forced' = forced
        /\ \A ch : InChannel(ch)' = InChannel(ch)
    BY <1>1 DEF regVars, InChannel
  <2>q. \A d \in Conn : Registered(d)' <=> Registered(d)
    BY <2>2 DEF Registered
  <2>s. autoID' = autoID /\ id' = id /\ forced' = forced
    BY <2>2
  <2>3. \A d \in Conn : /\ pc'[d] = "none" <=> pc[d] = "none"
                        /\ pc'[d] \in {"none", "ended"} <=> pc[d] \in {"none", "ended"}
    BY <1>1, <2>1
  <2>r. /\ \A d \in Conn : id[d] <= autoID /\ (pc[d] = "none" <=> id[d] = 0)
        /\ \A d \in Conn : IF pc[d] \in {"none", "ended"} THEN ~Registered(d)
                           ELSE Registered(d) \/ d \in forced
    BY DEF RegistryAgrees
  <2>4. \A d \in Conn : IF pc'[d] \in {"none", "ended"} THEN ~Registered(d)'
                        ELSE Registered(d)' \/ d \in forced'
    BY <2>s, <2>q, <2>3, <2>r
  <2>5. \A d \in Conn : id'[d] <= autoID' /\ (pc'[d] = "none" <=> id'[d] = 0)
    BY <2>s, <2>3, <2>r
  <2>6. \A ch : InChannel(ch)' = {i \in DOMAIN byID' : ChannelOf[byID'[i]] = ch}
    BY <2>2 DEF RegistryAgrees
  <2>7. /\ autoID' \in Nat
        /\ \A i \in DOMAIN byID' : byID'[i] \in Conn /\ i \in 1 .. autoID' /\ id'[byID'[i]] = i
        /\ \A d, e \in Conn : id'[d] = id'[e] /\ id'[d] # 0 => d = e
    BY <2>2 DEF RegistryAgrees
  <2> QED
    BY <2>4, <2>5, <2>6, <2>7 DEF RegistryAgrees
<1>2. ASSUME NEW c \in Conn, Handler(c) PROVE RegistryAgrees'
  <2>1. CASE Upgrade(c)
    <3> DEFINE n == autoID + 1
    <3>0. /\ pc[c] = "none" /\ register(c) /\ id' = [id EXCEPT ![c] = autoID']
          /\ pc' = [pc EXCEPT ![c] = "registered"] /\ UNCHANGED forced
      BY <2>1 DEF Upgrade, callVars
    <3>1. /\ autoID' = n
          /\ DOMAIN byID' = DOMAIN byID \cup {n}
          /\ byID'[n] = c
          /\ \A i \in DOMAIN byID : byID'[i] = byID[i]
          /\ \A ch : InChannel(ch)' = InChannel(ch) \cup (IF ch = ChannelOf[c] THEN {n} ELSE {})
      BY <3>0, RegisterIs
    <3>2. autoID \in Nat /\ n \in Nat /\ autoID < n /\ n # 0
      BY DEF RegistryAgrees
    <3> HIDE DEF n
    <3>3. /\ id'[c] = n /\ pc'[c] = "registered"
          /\ \A d \in Conn : d # c => id'[d] = id[d] /\ pc'[d] = pc[d]
      BY <3>0, <3>1, <1>t
    <3>4. ~Registered(c)
      BY <3>0 DEF RegistryAgrees
    <3>5. \A i \in DOMAIN byID : byID[i] # c
      BY <3>4 DEF Registered
    <3>6. \A i \in DOMAIN byID' : byID'[i] \in Conn /\ i \in 1 .. autoID' /\ id'[byID'[i]] = i
      BY <3>1, <3>2, <3>3, <3>5 DEF RegistryAgrees
    <3>7. \A ch : InChannel(ch)' = {i \in DOMAIN byID' : ChannelOf[byID'[i]] = ch}
      <4>1. n \notin DOMAIN byID
        BY <3>2 DEF RegistryAgrees
      <4> QED
        BY <3>1, <4>1 DEF RegistryAgrees
    <3>8. \A d \in Conn : id'[d] <= autoID' /\ (pc'[d] = "none" <=> id'[d] = 0)
      BY <3>1, <3>2, <3>3, <1>t DEF RegistryAgrees
    <3>9. \A d, e \in Conn : id'[d] = id'[e] /\ id'[d] # 0 => d = e
      BY <3>2, <3>3, <1>t DEF RegistryAgrees
    <3>10. \A d \in Conn : Registered(d)' <=> Registered(d) \/ d = c
      BY <3>1 DEF Registered
    <3>11. \A d \in Conn : IF pc'[d] \in {"none", "ended"} THEN ~Registered(d)'
                           ELSE Registered(d)' \/ d \in forced'
      BY <3>0, <3>3, <3>10 DEF RegistryAgrees
    <3> QED
      BY <3>1, <3>2, <3>6, <3>7, <3>8, <3>9, <3>11 DEF RegistryAgrees
  <2>2. CASE Unregister(c)
    <3>0. /\ pc[c] = "leaving" /\ unregister(id[c]) /\ id' = id
          /\ pc' = [pc EXCEPT ![c] = "ended"] /\ UNCHANGED forced
      BY <2>2 DEF Unregister, MayUnregister, callVars
    <3>1. /\ autoID' \in Nat /\ autoID' = autoID
          /\ \A j \in DOMAIN byID' : byID'[j] \in Conn /\ j \in 1 .. autoID' /\ id'[byID'[j]] = j
          /\ \A ch : InChannel(ch)' = {j \in DOMAIN byID' : ChannelOf[byID'[j]] = ch}
          /\ \A d \in Conn : Registered(d)' <=> Registered(d) /\ id[d] # id[c]
      BY <3>0, RemovalKeeps
    <3>2. pc'[c] = "ended" /\ id[c] # 0 /\ \A d \in Conn : d # c => pc'[d] = pc[d] /\ id[d] # id[c]
      BY <3>0, <1>t DEF RegistryAgrees
    <3>3. \A d \in Conn : IF pc'[d] \in {"none", "ended"} THEN ~Registered(d)'
                          ELSE Registered(d)' \/ d \in forced'
      BY <3>0, <3>1, <3>2 DEF RegistryAgrees
    <3>4. \A d \in Conn : id'[d] <= autoID' /\ (pc'[d] = "none" <=> id'[d] = 0)
      BY <3>0, <3>1, <3>2 DEF RegistryAgrees
    <3>5. \A d, e \in Conn : id'[d] = id'[e] /\ id'[d] # 0 => d = e
      BY <3>0 DEF RegistryAgrees
    <3> QED
      BY <3>1, <3>3, <3>4, <3>5 DEF RegistryAgrees
  <2>3. CASE Broadcasting(c) /\ UNCHANGED <<regVars, connVars, callVars>>
    BY <2>3, <1>0 DEF connVars, callVars
  <2>4. CASE OnConnect(c) \/ ConnectHook(c) \/ EmitReceive(c) \/ Read(c) \/ Handle(c) \/ OnDisconnect(c)
    <3>1. PICK stage \in Stage : pc' = [pc EXCEPT ![c] = stage] /\ {pc[c], stage} \cap {"none", "ended"} = {}
      BY <2>4 DEF OnConnect, ConnectHook, EmitReceive, Read, Handle, OnDisconnect, LoopEnds, Stage
    <3>2. UNCHANGED <<regVars, id, forced>>
      BY <2>4 DEF OnConnect, ConnectHook, EmitReceive, Read, Handle, OnDisconnect, callVars
    <3> QED
      BY <3>1, <3>2, <1>1
  <2> QED
    BY <1>2, <2>1, <2>2, <2>3, <2>4 DEF Handler
<1>3. ASSUME NEW t \in Call, Management(t) PROVE RegistryAgrees'
  <2>1. CASE DisconnectUnregister(t)
    <3> DEFINE i == call[t].target
    <3>0. unregister(i) /\ forced' = forced \cup {c \in Conn : id[c] = i} /\ id' = id /\ pc' = pc
      BY <2>1 DEF DisconnectUnregister, connVars
    <3> HIDE DEF i
    <3>1. /\ autoID' \in Nat /\ autoID' = autoID
          /\ \A j \in DOMAIN byID' : byID'[j] \in Conn /\ j \in 1 .. autoID' /\ id'[byID'[j]] = j
          /\ \A ch : InChannel(ch)' = {j \in DOMAIN byID' : ChannelOf[byID'[j]] = ch}
          /\ \A d \in Conn : Registered(d)' <=> Registered(d) /\ id[d] # i
      BY <3>0, RemovalKeeps
    <3>2. \A d \in Conn : IF pc'[d] \in {"none", "ended"} THEN ~Registered(d)'
                          ELSE Registered(d)' \/ d \in forced'
      BY <3>0, <3>1 DEF RegistryAgrees
    <3> QED
      BY <3>0, <3>1, <3>2 DEF RegistryAgrees
  <2>2. CASE ~DisconnectUnregister(t)
    BY <1>3, <2>2, <1>0 DEF Management, PushRequest, PushDue, PushCancelled, PushBegin, PushEnd, PushWrite,
      DisconnectClose, connVars
  <2> QED
    BY <2>1, <2>2
<1>4. CASE Shutdown
  BY <1>4, <1>0 DEF Shutdown, connVars
<1>5. CASE UNCHANGED <<regVars, connVars, callVars>>
  BY <1>5, <1>0 DEF connVars, callVars
<1> QED
  BY <1>2, <1>3, <1>4, <1>5 DEF WsNext

(* Two notifications, one after the other. *)
LEMMA AppendSecond == \A x, y : Append(<<x>>, y) = <<x, y>>
<1> TAKE x, y
<1> DEFINE E == {x, y}
           s == <<x>>
<1>1. s \in Seq(E) /\ y \in E /\ Len(s) = 1 /\ s[1] = x
  OBVIOUS
<1>0. <<x, y>> \in Seq(E)
  OBVIOUS
<1> HIDE DEF E, s
<1>2. /\ Append(s, y) \in Seq(E) /\ Len(Append(s, y)) = 2
      /\ Append(s, y)[2] = y /\ Append(s, y)[1] = s[1]
  <2>1. Append(s, y) \in Seq(E) /\ Len(Append(s, y)) = Len(s) + 1
    BY <1>1, AppendProperties
  <2>2. Append(s, y)[Len(s) + 1] = y
    BY <1>1, AppendProperties
  <2>3. Append(s, y)[1] = s[1]
    <3>1. \A i \in 1 .. Len(s) : Append(s, y)[i] = s[i]
      BY <1>1, AppendProperties
    <3> QED
      BY <1>1, <3>1
  <2> QED
    BY <1>1, <2>1, <2>2, <2>3
<1> DEFINE t == Append(s, y)
<1>3. t \in Seq(E) /\ Len(t) = 2 /\ t[1] = x /\ t[2] = y
  BY <1>1, <1>2
<1> HIDE DEF t
<1>4. \A i \in 1 .. Len(t) : t[i] = <<x, y>>[i]
  BY <1>3
<1>5. t = <<x, y>>
  BY <1>0, <1>3, <1>4, SeqEqual
<1> QED
  BY <1>5 DEF t, s

(* Only the handler of a consumer tells the stream of it. *)
LEMMA ToldKept ==
  ASSUME StreamTyped, ConsumersTyped, WsNext, NEW c \in Conn, ToldOf(c)
  PROVE  ToldOf(c)'
<1>t. pc \in [Conn -> Stage] /\ c \in Emitter /\ DOMAIN emitted = Emitter
  BY Peers DEF ConsumersTyped, StreamTyped
<1>0. ASSUME emitted'[c] = emitted[c], pc'[c] = pc[c] PROVE ToldOf(c)'
  BY <1>0 DEF ToldOf, Lifecycle
<1>1. ASSUME NEW d \in Conn, Handler(d) PROVE ToldOf(c)'
  <2>1. CASE d # c
    <3>1. emitted'[c] = emitted[c] /\ pc'[c] = pc[c]
      BY <1>1, <2>1, <1>t DEF Handler, Upgrade, OnConnect, ConnectHook, EmitReceive, Read, Handle, OnDisconnect,
        Unregister, Broadcasting, BroadcastEnd, BroadcastWrite, Announce, connVars, restOfStream, streamVars
    <3> QED
      BY <3>1, <1>0
  <2>2. CASE d = c
    <3>1. CASE OnConnect(c)
      <4>1. /\ pc[c] = "registered" /\ pc'[c] = "connected"
            /\ emitted'[c] = Append(emitted[c], Lifecycle(c, "connected"))
        BY <3>1, <1>t DEF OnConnect, Announce
      <4>2. emitted[c] = <<>>
        BY <4>1 DEF ToldOf
      <4>3. emitted'[c] = <<Lifecycle(c, "connected")>>
        BY <4>1, <4>2
      <4> QED
        BY <4>1, <4>3 DEF ToldOf, Lifecycle
    <3>2. CASE OnDisconnect(c)
      <4>1. /\ pc[c] = "reading" /\ pc'[c] = "leaving"
            /\ emitted'[c] = Append(emitted[c], Lifecycle(c, "disconnected"))
        BY <3>2, <1>t DEF OnDisconnect, LoopEnds, Announce
      <4>2. emitted[c] = <<Lifecycle(c, "connected")>>
        BY <4>1 DEF ToldOf
      <4>3. emitted'[c] = <<Lifecycle(c, "connected"), Lifecycle(c, "disconnected")>>
        BY <4>1, <4>2, AppendSecond
      <4> QED
        BY <4>1, <4>3 DEF ToldOf, Lifecycle
    <3>3. CASE Upgrade(c) \/ ConnectHook(c) \/ EmitReceive(c) \/ Read(c) \/ Handle(c) \/ Unregister(c)
      <4>1. emitted' = emitted
        BY <3>3 DEF Upgrade, ConnectHook, EmitReceive, Read, Handle, Unregister, restOfStream, streamVars
      <4> QED
        BY <3>3, <4>1, <1>t DEF ToldOf, Lifecycle, Upgrade, ConnectHook, EmitReceive, Read, Handle, Unregister,
          MayUnregister
    <3>4. CASE Broadcasting(c) /\ UNCHANGED <<regVars, connVars, callVars>>
      BY <3>4, <1>0 DEF Broadcasting, BroadcastEnd, BroadcastWrite, connVars
    <3> QED
      BY <1>1, <2>2, <3>1, <3>2, <3>3, <3>4 DEF Handler
  <2> QED
    BY <2>1, <2>2
<1>2. ASSUME NEW t \in Call, Management(t) PROVE ToldOf(c)'
  BY <1>2, <1>0 DEF Management, PushRequest, PushDue, PushCancelled, PushBegin, PushEnd, PushWrite,
    DisconnectClose, DisconnectUnregister, streamVars, restOfStream, connVars
<1>3. CASE Shutdown
  BY <1>3, <1>0 DEF Shutdown, streamVars, connVars
<1>4. CASE StreamNext /\ UNCHANGED <<regVars, connVars, callVars>>
  <2>1. \A e \in Bus : e # c
    BY Peers
  <2>2. emitted'[c] = emitted[c]
    BY <1>4, <1>t, <2>1 DEF StreamNext, Subscriber, Subscribe, Ping, StreamRead, StreamEnds, Broadcasting,
      BroadcastEnd, BroadcastWrite, BroadcastBegin, Announce
  <2> QED
    BY <1>0, <1>4, <2>2 DEF connVars
<1> QED
  BY <1>1, <1>2, <1>3, <1>4 DEF WsNext

-----------------------------------------------------------------------------
(* Pushes. *)

(* Only a push changes what a consumer has of it. *)
LEMMA OtherData ==
  ASSUME NEW w \in Socket(ConsumerData), NEW t \in Call, NEW data \in ConsumerData \cup {Nothing},
         data # [kind |-> "push", push |-> t]
  PROVE  Keep(Written(w, "text", data).out, PushFrame(t)) = Keep(w.out, PushFrame(t))
<1> DEFINE f == [kind |-> "text", data |-> data]
<1>1. CASE Drops(w, data)
  BY <1>1, WrittenIs
<1>2. CASE ~Drops(w, data)
  <2>1. data # Nothing
    BY <1>2 DEF Drops
  <2>2. f \in Frame(ConsumerData)
    BY <2>1 DEF Frame
  <2>3. f \notin PushFrame(t)
    <3>1. SUFFICES ASSUME f \in PushFrame(t) PROVE FALSE
      OBVIOUS
    <3>2. f.data \in [kind : {"push"}, push : {t}]
      BY <3>1 DEF PushFrame
    <3>3. data \in [kind : {"push"}, push : {t}]
      BY <3>2
    <3> QED
      BY <3>3
  <2>4. w.out \in Seq(Frame(ConsumerData))
    BY DEF Socket
  <2>5. Keep(Append(w.out, f), PushFrame(t)) = Keep(w.out, PushFrame(t))
    BY <2>2, <2>3, <2>4, KeepAppend
  <2> QED
    BY <1>2, <2>5, WrittenIs
<1> QED
  BY <1>1, <1>2

(* How many frames of a push a consumer has. *)
LEMMA PushCount ==
  ASSUME SocketsTyped, NEW t \in Call, NEW c \in Conn
  PROVE  PushesTo(c, t) \in Nat
<1>1. sock[c] \in Socket(ConsumerData)
  BY Peers DEF SocketsTyped
<1>2. sock[c].out \in Seq(Frame(ConsumerData))
  BY <1>1 DEF Socket
<1>3. Keep(sock[c].out, PushFrame(t)) \in Seq(Frame(ConsumerData) \cap PushFrame(t))
  BY <1>2, KeepRange
<1> QED
  BY <1>3, LenProperties DEF PushesTo

(* What a step that is not the write of push t does to what c has of it. *)
LEMMA NoPush ==
  ASSUME SocketsTyped, StreamTyped, ConsumersTyped, RegistryAgrees, WsNext, NEW t \in Call, NEW c \in Conn,
         Replies(pc[c], message[c], sock[c]), ~PushWrite(t, c)
  PROVE  /\ PushesTo(c, t)' = PushesTo(c, t)
         /\ Intact(sock'[c]) => Intact(sock[c])
<1> DEFINE w == sock[c]
           v == sock'[c]
           had == Keep(w.out, PushFrame(t))
           has == Keep(v.out, PushFrame(t))
<1>p. c \in Peer /\ w \in Socket(ConsumerData) /\ DOMAIN sock = Peer
  BY Peers DEF SocketsTyped
<1>s. SUFFICES has = had /\ (Intact(v) => Intact(w))
  BY DEF PushesTo
<1>1. CASE Quiet(w, v)
  BY <1>1 DEF Quiet
<1>2. ASSUME NEW data \in [kind : {"event", "example"}] \cup {Nothing}, Quiet(Written(w, "text", data), v)
      PROVE  has = had /\ (Intact(v) => Intact(w))
  <2>1. data \in ConsumerData \cup {Nothing} /\ data # [kind |-> "push", push |-> t]
    <3>1. [kind |-> "push", push |-> t] \in StreamData \cup ConsumerData
      BY DEF ConsumerData
    <3>2. [kind |-> "push", push |-> t] # Nothing
      BY <3>1, DataAssumption
    <3>3. data.kind # "push" \/ data = Nothing
      OBVIOUS
    <3> QED
      BY <3>2, <3>3 DEF ConsumerData
  <2> DEFINE u == Written(w, "text", data)
  <2>2. Keep(u.out, PushFrame(t)) = had
    BY <2>1, <1>p, OtherData
  <2>3. u.up = w.up /\ u.closing = w.closing
    BY <2>1, <1>p, WrittenIs
  <2> HIDE DEF u
  <2>4. Quiet(u, v)
    BY <1>2 DEF u
  <2> QED
    BY <2>2, <2>3, <2>4 DEF Quiet, Intact
<1>3. ASSUME NEW u \in Call, PushWrite(u, c) PROVE has = had /\ (Intact(v) => Intact(w))
  <2> DEFINE data == [kind |-> "push", push |-> u]
  <2>1. u # t
    BY <1>3
  <2>2. data \in ConsumerData /\ data # [kind |-> "push", push |-> t]
    BY <2>1 DEF ConsumerData
  <2>3. v = w \/ v = Written(w, "text", data)
    BY <1>3, <1>p DEF PushWrite
  <2> HIDE DEF data
  <2>4. Keep(Written(w, "text", data).out, PushFrame(t)) = had
    BY <2>2, <1>p, OtherData
  <2>5. Written(w, "text", data).up = w.up /\ Written(w, "text", data).closing = w.closing
    BY <2>2, <1>p, WrittenKeeps
  <2> QED
    BY <2>3, <2>4, <2>5 DEF Intact
<1>4. CASE Upgrade(c)
  <2>1. v = Opened(w) /\ w.up = "none"
    BY <1>4, <1>p DEF Upgrade, Replies
  <2>2. v.out = w.out /\ v.closing = w.closing
    BY <2>1, <1>p DEF Opened, Socket
  <2> QED
    BY <2>1, <2>2 DEF Intact
<1>5. CASE Read(c)
  <2>1. v = AfterRead(w) /\ w.inbox # <<>>
    BY <1>5, <1>p DEF Read, CanRead
  <2>2. v.up = w.up /\ v.closing = w.closing /\ v.out = w.out
    BY <2>1, <1>p, AfterReadIs
  <2> QED
    BY <2>2 DEF Intact
<1>6. CASE Handle(c)
  <2> DEFINE data == [kind |-> "answer", to |-> message[c]]
  <2>1. v = Written(w, "text", data)
    BY <1>6, <1>p DEF Handle, Answer
  <2>2. data \in ConsumerData /\ data # [kind |-> "push", push |-> t]
    <3>1. data.kind # "push"
      OBVIOUS
    <3> QED
      BY <3>1 DEF ConsumerData, ConsumersTyped
  <2> HIDE DEF data
  <2>3. has = had
    BY <2>1, <2>2, <1>p, OtherData
  <2>4. Written(w, "text", data).up = w.up /\ Written(w, "text", data).closing = w.closing
    BY <2>2, <1>p, WrittenKeeps
  <2> QED
    BY <2>1, <2>3, <2>4 DEF Intact
<1>7. CASE PeerSends(c)
  <2>1. v = [w EXCEPT !.inbox = Append(w.inbox, w.sent + 1), !.sent = w.sent + 1]
    BY <1>7, <1>p DEF PeerSends
  <2>2. v.up = w.up /\ v.closing = w.closing /\ v.out = w.out
    BY <2>1, <1>p DEF Socket
  <2> QED
    BY <2>2 DEF Intact
<1>8. ConsumerStep(c)
  BY ConsumerSteps
<1> QED
  BY <1>1, <1>2, <1>3, <1>4, <1>5, <1>6, <1>7, <1>8 DEF ConsumerStep

(* A consumer keeps its id. *)
LEMMA IdStays ==
  ASSUME ConsumersTyped, WsNext, NEW c \in Conn, pc[c] # "none"
  PROVE  pc'[c] # "none" /\ id'[c] = id[c]
<1>t. pc \in [Conn -> Stage] /\ id \in [Conn -> Nat]
  BY DEF ConsumersTyped
<1>1. ASSUME NEW d \in Conn, Handler(d) PROVE pc'[c] # "none" /\ id'[c] = id[c]
  BY <1>1, <1>t DEF Handler, Upgrade, OnConnect, ConnectHook, EmitReceive, Read, Handle, OnDisconnect,
    Unregister, connVars
<1>2. ASSUME NEW t \in Call, Management(t) PROVE pc'[c] # "none" /\ id'[c] = id[c]
  BY <1>2 DEF Management, PushRequest, PushDue, PushCancelled, PushBegin, PushEnd, PushWrite,
    DisconnectClose, DisconnectUnregister, connVars
<1>3. CASE Shutdown
  BY <1>3 DEF Shutdown, connVars
<1>4. CASE UNCHANGED <<regVars, connVars, callVars>>
  BY <1>4 DEF connVars
<1> QED
  BY <1>1, <1>2, <1>3, <1>4 DEF WsNext

(* What the copy of a push has: the consumers of its channel, or its target. *)
LEMMA CandidatesAre ==
  ASSUME RegistryAgrees, ConsumersTyped, NEW ch, NEW target, NEW c \in Conn
  PROVE  /\ c \in Candidates(ch, target) => /\ ChannelOf[c] = ch /\ target \in {0, id[c]}
                                            /\ pc[c] # "none"
         /\ target = 0 /\ Registered(c) /\ ChannelOf[c] = ch => c \in Candidates(ch, target)
<1>r. /\ InChannel(ch) = {i \in DOMAIN byID : ChannelOf[byID[i]] = ch}
      /\ \A i \in DOMAIN byID : id[byID[i]] = i
      /\ Registered(c) => pc[c] # "none"
  BY DEF RegistryAgrees
<1>1. ASSUME c \in Candidates(ch, target)
      PROVE  ChannelOf[c] = ch /\ target \in {0, id[c]} /\ pc[c] # "none"
  <2>1. PICK i \in InChannel(ch) : target \in {0, i} /\ byID[i] = c
    BY <1>1 DEF Candidates
  <2>2. Registered(c)
    BY <2>1, <1>r DEF Registered
  <2> QED
    BY <2>1, <2>2, <1>r
<1>2. ASSUME target = 0, Registered(c), ChannelOf[c] = ch PROVE c \in Candidates(ch, target)
  <2>1. PICK i \in DOMAIN byID : byID[i] = c
    BY <1>2 DEF Registered
  <2> QED
    BY <2>1, <1>2, <1>r DEF Candidates
<1> QED
  BY <1>1, <1>2

(* A push that writes nothing in a step. *)
LEMMA PushesSteady ==
  ASSUME SocketsTyped, StreamTyped, ConsumersTyped, RegistryAgrees, WsNext, NEW t \in Call, NEW c \in Conn,
         Replies(pc[c], message[c], sock[c]), Pushes(t, c),
         call'[t].channel = call[t].channel, call'[t].target = call[t].target,
         call'[t].all = call[t].all, call'[t].todo = call[t].todo,
         call'[t].pc = call[t].pc \/ (call[t].pc = "writing" /\ call'[t].pc = "ended" /\ call[t].todo = {}),
         ~PushWrite(t, c)
  PROVE  Pushes(t, c)'
<1>1. PushesTo(c, t)' = PushesTo(c, t) /\ (Intact(sock'[c]) => Intact(sock[c]))
  BY NoPush
<1>2. CASE pc[c] = "none"
  <2>1. Len(Keep(<<>>, PushFrame(t))) = 0
    BY KeepEmpty
  <2>2. PushesTo(c, t) = 0
    BY <1>2, <2>1 DEF Replies, PushesTo
  <2> QED
    BY <1>1, <1>2, <2>2 DEF Pushes
<1>3. CASE pc[c] # "none"
  <2>1. pc'[c] # "none" /\ id'[c] = id[c]
    BY <1>3, IdStays
  <2> QED
    BY <1>1, <2>1 DEF Pushes
<1> QED
  BY <1>2, <1>3

(* A request that has pushed nothing yet, or pushes nothing at all. *)
LEMMA PushesNothing ==
  ASSUME SocketsTyped, StreamTyped, ConsumersTyped, RegistryAgrees, WsNext, NEW t \in Call, NEW c \in Conn,
         Replies(pc[c], message[c], sock[c]), Pushes(t, c), ~PushWrite(t, c),
         call[t].pc \notin {"writing", "ended"},
         call'[t].all = call[t].all, call'[t].todo = call[t].todo,
         call'[t].pc = "unregistering" => call'[t].target # 0
  PROVE  Pushes(t, c)'
<1>1. PushesTo(c, t)' = PushesTo(c, t)
  BY NoPush
<1>2. PushesTo(c, t) = 0 /\ c \notin call[t].todo /\ c \notin call[t].all
  BY PushCount DEF Pushes
<1> QED
  BY <1>1, <1>2 DEF Pushes

(* The write of a push to a consumer. *)
LEMMA PushesWrite ==
  ASSUME SocketsTyped, StreamTyped, ConsumersTyped, RegistryAgrees, WsNext, NEW t \in Call, NEW c \in Conn,
         Replies(pc[c], message[c], sock[c]), Pushes(t, c), PushWrite(t, c)
  PROVE  Pushes(t, c)'
<1> DEFINE data == [kind |-> "push", push |-> t]
           f == [kind |-> "text", data |-> data]
           w == sock[c]
           v == sock'[c]
           had == Keep(w.out, PushFrame(t))
           has == Keep(v.out, PushFrame(t))
<1>p. c \in Peer /\ w \in Socket(ConsumerData) /\ DOMAIN sock = Peer /\ w.out \in Seq(Frame(ConsumerData))
  BY Peers DEF SocketsTyped, Socket
<1>c. call \in [Call -> CallRecord] /\ call[t] \in CallRecord
  BY DEF ConsumersTyped
<1>1. data \in ConsumerData /\ data # Nothing /\ f \in Frame(ConsumerData) /\ f \in PushFrame(t)
  <2>1. data \in ConsumerData
    BY DEF ConsumerData
  <2>2. data # Nothing
    BY <2>1, DataAssumption
  <2> QED
    BY <2>1, <2>2 DEF Frame, PushFrame
<1>2. /\ call[t].pc = "writing" /\ c \in call[t].todo
      /\ call'[t] = [call[t] EXCEPT !.todo = call[t].todo \ {c}]
      /\ (v = w /\ call[t].target # 0) \/ v = Written(w, "text", data)
  BY <1>c, <1>p DEF PushWrite
<1>3. /\ call'[t].pc = "writing" /\ c \notin call'[t].todo
      /\ call'[t].channel = call[t].channel /\ call'[t].target = call[t].target
  BY <1>2, <1>c DEF CallRecord
<1>4. pc[c] # "none" /\ ChannelOf[c] = call[t].channel /\ call[t].target \in {0, id[c]}
  BY <1>2 DEF Pushes
<1>5. pc'[c] # "none" /\ id'[c] = id[c]
  BY <1>4, IdStays
<1>6. had \in Seq(Frame(ConsumerData)) /\ Len(had) = 0
  <2>1. had \in Seq(Frame(ConsumerData) \cap PushFrame(t))
    BY <1>p, KeepRange
  <2>2. had \in Seq(Frame(ConsumerData)) /\ Len(had) \in Nat
    BY <2>1, SeqMonotonic, LenProperties
  <2>3. PushesTo(c, t) = 0
    BY <1>2, PushCount DEF Pushes
  <2> QED
    BY <2>2, <2>3 DEF PushesTo
<1> HIDE DEF data, f
<1>7. CASE v = w /\ call[t].target # 0
  <2>1. Len(has) = 0
    BY <1>6, <1>7
  <2> QED
    BY <1>3, <2>1, <1>7 DEF Pushes, PushesTo
<1>8. CASE v = Written(w, "text", data) /\ Drops(w, data)
  <2>1. v = w
    BY <1>8 DEF Drops, Written
  <2>2. ~Intact(w)
    BY <1>1, <1>4, <1>8 DEF Drops, Intact, Replies
  <2>3. Len(has) = 0 /\ ~Intact(v)
    BY <1>6, <2>1, <2>2
  <2> QED
    BY <1>3, <2>3 DEF Pushes, PushesTo
<1>9. CASE v = Written(w, "text", data) /\ ~Drops(w, data)
  <2>1. v.out = Append(w.out, f)
    BY <1>1, <1>9, <1>p, WrittenKeeps DEF f
  <2>2. has = Append(had, f)
    BY <1>1, <1>p, <2>1, KeepAppend
  <2>3. Len(has) = 1
    <3>1. Len(Append(had, f)) = Len(had) + 1
      BY <1>1, <1>6, AppendProperties
    <3> QED
      BY <1>6, <2>2, <3>1
  <2> QED
    BY <1>3, <1>4, <1>5, <2>3 DEF Pushes, PushesTo
<1> QED
  BY <1>2, <1>7, <1>8, <1>9

(* The frames of a push, after any step. *)
LEMMA PushesKept ==
  ASSUME SocketsTyped, StreamTyped, ConsumersTyped, RegistryAgrees, WsNext, NEW t \in Call, NEW c \in Conn,
         Replies(pc[c], message[c], sock[c]), Pushes(t, c)
  PROVE  Pushes(t, c)'
<1>c. call \in [Call -> CallRecord] /\ call[t] \in CallRecord
  BY DEF ConsumersTyped
<1>0. ASSUME call'[t] = call[t], ~PushWrite(t, c) PROVE Pushes(t, c)'
  BY <1>0, PushesSteady
<1>1. CASE PushWrite(t, c)
  BY <1>1, PushesWrite
<1>2. ASSUME NEW u \in Call, u # t, Management(u), ~PushWrite(t, c) PROVE Pushes(t, c)'
  <2>1. call'[t] = call[t]
    BY <1>2, <1>c DEF Management, PushRequest, PushDue, PushCancelled, PushBegin, PushEnd, PushWrite,
      DisconnectClose, DisconnectUnregister
  <2> QED
    BY <1>0, <1>2, <2>1
<1>3. ASSUME Management(t), ~PushWrite(t, c) PROVE Pushes(t, c)'
  <2>1. ASSUME NEW ch, NEW target, PushRequest(t, ch, target) PROVE Pushes(t, c)'
    <3>1. PICK next \in {"waiting", "pushing"} :
            call' = [call EXCEPT ![t] = [NoCall EXCEPT !.pc = next, !.channel = ch, !.target = target]]
      BY <2>1 DEF PushRequest
    <3>2. call'[t].todo = {} /\ call'[t].all = {} /\ call'[t].pc = next /\ call[t].pc = "none"
      BY <2>1, <3>1, <1>c DEF NoCall, PushRequest
    <3>3. PushesTo(c, t)' = PushesTo(c, t)
      BY <1>3, NoPush
    <3>4. PushesTo(c, t) = 0
      BY <3>2, PushCount DEF Pushes
    <3> QED
      BY <3>2, <3>3, <3>4 DEF Pushes
  <2>2. CASE PushDue(t) \/ PushCancelled(t)
    <3>1. /\ call'[t].todo = call[t].todo /\ call'[t].all = call[t].all
          /\ call[t].pc = "waiting" /\ call'[t].pc \in {"pushing", "ended"}
      BY <2>2, <1>c DEF PushDue, PushCancelled, CallRecord
    <3> QED
      BY <3>1, <1>3, PushesNothing
  <2>3. CASE PushBegin(t)
    <3> DEFINE T == Candidates(call[t].channel, call[t].target)
               A == {d \in Conn : Registered(d) /\ ChannelOf[d] = call[t].channel}
    <3>1. /\ call[t].pc = "pushing"
          /\ call'[t] = [call[t] EXCEPT !.pc = "writing", !.todo = T, !.all = A]
      BY <2>3, <1>c DEF PushBegin
    <3>2. /\ c \in T => ChannelOf[c] = call[t].channel /\ call[t].target \in {0, id[c]} /\ pc[c] # "none"
          /\ call[t].target = 0 /\ c \in A => c \in T
      BY CandidatesAre
    <3>3. PushesTo(c, t)' = PushesTo(c, t) /\ PushesTo(c, t) = 0
      BY <3>1, <1>3, NoPush, PushCount DEF Pushes
    <3>4. pc' = pc /\ id' = id
      BY <2>3 DEF PushBegin, connVars
    <3> HIDE DEF T, A
    <3>5. /\ call'[t].pc = "writing" /\ call'[t].todo = T /\ call'[t].all = A
          /\ call'[t].channel = call[t].channel /\ call'[t].target = call[t].target
      BY <3>1, <1>c DEF CallRecord
    <3> QED
      BY <3>2, <3>3, <3>4, <3>5 DEF Pushes
  <2>4. CASE PushEnd(t)
    <3>1. /\ call'[t].todo = call[t].todo /\ call'[t].all = call[t].all
          /\ call'[t].channel = call[t].channel /\ call'[t].target = call[t].target
          /\ call[t].pc = "writing" /\ call'[t].pc = "ended" /\ call[t].todo = {}
      BY <2>4, <1>c DEF PushEnd, CallRecord
    <3> QED
      BY <3>1, <1>3, PushesSteady
  <2>5. ASSUME NEW d \in call[t].todo, PushWrite(t, d) PROVE Pushes(t, c)'
    <3>1. d # c
      BY <2>5, <1>3
    <3>2. /\ call'[t].pc = call[t].pc /\ call'[t].todo = call[t].todo \ {d} /\ call'[t].all = call[t].all
          /\ call'[t].channel = call[t].channel /\ call'[t].target = call[t].target
      BY <2>5, <1>c DEF PushWrite, CallRecord
    <3>3. PushesTo(c, t)' = PushesTo(c, t) /\ (Intact(sock'[c]) => Intact(sock[c]))
      BY <1>3, NoPush
    <3>4. pc' = pc /\ id' = id
      BY <2>5 DEF PushWrite, connVars
    <3> QED
      BY <3>1, <3>2, <3>3, <3>4 DEF Pushes
  <2>6. ASSUME NEW i \in DOMAIN byID, DisconnectClose(t, i) PROVE Pushes(t, c)'
    <3>1. i # 0
      BY DEF RegistryAgrees
    <3>2. /\ call'[t].todo = call[t].todo /\ call'[t].all = call[t].all
          /\ call[t].pc = "none" /\ call'[t].target = i
      BY <2>6, <1>c DEF DisconnectClose, CallRecord
    <3> QED
      BY <3>1, <3>2, <1>3, PushesNothing
  <2>7. CASE DisconnectUnregister(t)
    <3>1. /\ call'[t].todo = call[t].todo /\ call'[t].all = call[t].all
          /\ call[t].pc = "unregistering" /\ call'[t].pc = "ended"
      BY <2>7, <1>c DEF DisconnectUnregister, CallRecord
    <3> QED
      BY <3>1, <1>3, PushesNothing
  <2> QED
    BY <1>3, <2>1, <2>2, <2>3, <2>4, <2>5, <2>6, <2>7 DEF Management
<1>4. ASSUME NEW d \in Conn, Handler(d), ~PushWrite(t, c) PROVE Pushes(t, c)'
  <2>1. call' = call
    BY <1>4 DEF Handler, Upgrade, OnConnect, ConnectHook, EmitReceive, Read, Handle, OnDisconnect, Unregister, callVars
  <2> QED
    BY <2>1, <1>4, <1>0
<1>5. CASE (Shutdown \/ UNCHANGED <<regVars, connVars, callVars>>) /\ ~PushWrite(t, c)
  BY <1>5, <1>0 DEF Shutdown, callVars
<1> QED
  BY <1>1, <1>2, <1>3, <1>4, <1>5 DEF WsNext

-----------------------------------------------------------------------------
(* The theorems. *)

(* Nobody is connected at first. *)
LEMMA WsInvInitially == WsInit => WsInv
<1> SUFFICES ASSUME WsInit PROVE WsInv
  OBVIOUS
<1>i. /\ sock = [p \in Peer |-> NoSocket] /\ subs = {}
      /\ handler = [s \in Sub |-> "none"] /\ cast = [e \in Emitter |-> Resting]
      /\ emitted = [e \in Emitter |-> <<>>] /\ since = [s \in Sub |-> [e \in Emitter |-> 0]]
      /\ byID = <<>> /\ byChan = <<>> /\ autoID = 0
      /\ pc = [c \in Conn |-> "none"] /\ id = [c \in Conn |-> 0] /\ message = [c \in Conn |-> 0]
      /\ call = [t \in Call |-> NoCall] /\ forced = {}
  BY DEF WsInit, StreamInit, SocketInit
<1>0. /\ \A D : NoSocket \in Socket(D)
      /\ NoSocket.up = "none" /\ NoSocket.out = <<>> /\ NoSocket.inbox = <<>> /\ NoSocket.sent = 0
  BY DEF NoSocket, Socket
<1>1. SocketsTyped
  BY <1>i, <1>0 DEF SocketsTyped
<1>2. StreamTyped
  BY <1>i DEF StreamTyped, Resting
<1>3. ConsumersTyped
  BY <1>i DEF ConsumersTyped, Stage, NoCall, CallRecord, CallStage
<1>4. RegistryAgrees
  <2>1. DOMAIN byID = {} /\ \A ch : InChannel(ch) = {}
    BY <1>i DEF InChannel
  <2> QED
    BY <1>i, <2>1 DEF RegistryAgrees, Registered
<1>5. ASSUME NEW c \in Conn PROVE ToldOf(c) /\ Replies(pc[c], message[c], sock[c])
  <2>1. c \in Peer /\ c \in Emitter
    BY Peers
  <2>2. Len(Keep(<<>>, AnswerFrame)) = 0
    BY KeepEmpty
  <2>3. Replies("none", 0, NoSocket)
    BY <1>0, <2>2 DEF Replies
  <2> QED
    BY <1>i, <2>1, <2>3 DEF ToldOf
<1>6. ASSUME NEW t \in Call, NEW c \in Conn PROVE Pushes(t, c)
  <2>1. c \in Peer
    BY Peers
  <2>2. PushesTo(c, t) = Len(Keep(<<>>, PushFrame(t)))
    BY <1>i, <1>0, <2>1 DEF PushesTo
  <2>3. PushesTo(c, t) = 0
    BY <2>2, KeepEmpty
  <2> QED
    BY <1>i, <2>3 DEF Pushes, NoCall
<1> QED
  BY <1>1, <1>2, <1>3, <1>4, <1>5, <1>6 DEF WsInv

(* A step that changes nothing the invariant speaks of. *)
LEMMA WsInvStutters == WsInv /\ UNCHANGED wsVars => WsInv'
<1> SUFFICES ASSUME WsInv, UNCHANGED wsVars PROVE WsInv'
  OBVIOUS
<1> USE DEF wsVars, streamVars, regVars, connVars, callVars
<1>1. SocketsTyped'
  BY DEF WsInv, SocketsTyped
<1>2. StreamTyped'
  BY DEF WsInv, StreamTyped
<1>3. ConsumersTyped'
  BY DEF WsInv, ConsumersTyped
<1>4. RegistryAgrees'
  BY DEF WsInv, RegistryAgrees, InChannel, Registered
<1>5. \A c \in Conn : ToldOf(c)' /\ Replies(pc'[c], message'[c], sock'[c])
  BY DEF WsInv, ToldOf, Lifecycle
<1>6. \A t \in Call, c \in Conn : Pushes(t, c)'
  BY DEF WsInv, Pushes, PushesTo
<1> QED
  BY <1>1, <1>2, <1>3, <1>4, <1>5, <1>6 DEF WsInv

(* No step breaks the invariant. *)
LEMMA ConsumerStays == WsInv /\ [WsNext]_wsVars => WsInv'
<1> SUFFICES ASSUME WsInv, WsNext PROVE WsInv'
  BY WsInvStutters
<1>i. /\ SocketsTyped /\ StreamTyped /\ ConsumersTyped /\ RegistryAgrees
      /\ \A c \in Conn : ToldOf(c) /\ Replies(pc[c], message[c], sock[c])
      /\ \A t \in Call, c \in Conn : Pushes(t, c)
  BY DEF WsInv
<1>1. SocketsTyped' /\ StreamTyped' /\ ConsumersTyped' /\ RegistryAgrees'
  BY <1>i, SocketsKept, StreamTypedKept, ConsumersTypedKept, RegistryKept
<1>2. \A c \in Conn : ToldOf(c)'
  BY <1>i, ToldKept
<1>3. \A c \in Conn : Replies(pc'[c], message'[c], sock'[c])
  BY <1>i, RepliesKept
<1>4. \A t \in Call, c \in Conn : Pushes(t, c)'
  BY <1>i, PushesKept
<1> QED
  BY <1>1, <1>2, <1>3, <1>4 DEF WsInv

(* The inductive invariant of consumers and management calls. *)
THEOREM ConsumerInvariant == WsSpec => []WsInv
BY WsInvInitially, ConsumerStays, PTL DEF WsSpec

(* A consumer is answered once for every message, in order, whatever is    *)
(* pushed meanwhile, for any number of consumers and messages              *)
(* (ws_adapter.go).                                                        *)
THEOREM ConsumersAnsweredInOrder == WsSpec => []AnsweredInOrder
<1>1. WsInv => AnsweredInOrder
  <2> SUFFICES ASSUME WsInv, NEW c \in Conn
               PROVE  /\ \A i \in 1 .. Len(Answers(c)) : Answers(c)[i].data.to = i
                      /\ pc[c] \in {"reading", "leaving", "ended"} /\ ~sock[c].closing
                           /\ sock[c].up # "aborted" => Len(Answers(c)) = message[c]
    BY DEF AnsweredInOrder
  <2>1. Replies(pc[c], message[c], sock[c])
    BY DEF WsInv
  <2> QED
    BY <2>1 DEF Replies, Answers, Intact
<1> QED
  BY <1>1, ConsumerInvariant, PTL

(* A push reaches each consumer it is for once and nobody else, however    *)
(* consumers come and go meanwhile (ws_adapter.go, management_async.go).   *)
THEOREM PushesReachOnce == WsSpec => []PushReachesOnce
<1>1. WsInv => PushReachesOnce
  <2> SUFFICES ASSUME WsInv, NEW t \in Call, NEW c \in Conn
               PROVE  /\ PushesTo(c, t) <= 1
                      /\ PushesTo(c, t) = 1 => /\ ChannelOf[c] = call[t].channel
                                               /\ call[t].target \in {0, id[c]}
                      /\ call[t].pc = "ended" /\ call[t].target = 0 /\ c \in call[t].all /\ Registered(c)
                           /\ ~sock[c].closing /\ sock[c].up # "aborted" => PushesTo(c, t) = 1
    BY DEF PushReachesOnce
  <2>1. Pushes(t, c)
    BY DEF WsInv
  <2> QED
    BY <2>1 DEF Pushes, Intact
<1> QED
  BY <1>1, ConsumerInvariant, PTL

(* What the stream reports of a consumer agrees with the registry, and     *)
(* with the life of its handler (ws_adapter.go, manage_ws.go).             *)
THEOREM ConnectedAreListed == WsSpec => []ConnectedMeansListed
<1>1. WsInv => ConnectedMeansListed
  <2> SUFFICES ASSUME WsInv, NEW c \in Conn
               PROVE  /\ Len(emitted[c]) = 1 => Registered(c) \/ c \in forced
                      /\ pc[c] \in {"reading", "handling"} => Len(emitted[c]) = 1
                      /\ pc[c] = "ended" =>
                           ~Registered(c) /\ emitted[c] = <<Lifecycle(c, "connected"), Lifecycle(c, "disconnected")>>
    BY DEF ConnectedMeansListed
  <2>1. /\ ToldOf(c) /\ pc[c] \in Stage
        /\ IF pc[c] \in {"none", "ended"} THEN ~Registered(c) ELSE Registered(c) \/ c \in forced
    BY DEF WsInv, RegistryAgrees, ConsumersTyped
  <2>2. Len(<<>>) = 0 /\ \A x, y : Len(<<x>>) = 1 /\ Len(<<x, y>>) = 2
    OBVIOUS
  <2>3. CASE pc[c] \in {"none", "registered"}
    <3>1. Len(emitted[c]) = 0
      BY <2>1, <2>2, <2>3 DEF ToldOf
    <3> QED
      BY <2>3, <3>1
  <2>4. CASE pc[c] \in {"leaving", "ended"}
    <3>1. /\ emitted[c] = <<Lifecycle(c, "connected"), Lifecycle(c, "disconnected")>>
          /\ Len(emitted[c]) = 2
      BY <2>1, <2>2, <2>4 DEF ToldOf
    <3> QED
      BY <2>1, <2>4, <3>1
  <2>5. CASE pc[c] \notin {"none", "registered", "leaving", "ended"}
    <3>1. Len(emitted[c]) = 1
      BY <2>1, <2>2, <2>5 DEF ToldOf
    <3> QED
      BY <2>1, <2>5, <3>1
  <2> QED
    BY <2>3, <2>4, <2>5
<1> QED
  BY <1>1, ConsumerInvariant, PTL

-----------------------------------------------------------------------------
(* What a subscriber receives. *)

(* A subscriber has the envelopes in the frames of the emitter. *)
LEMMA ReceivedIs ==
  ASSUME SocketsTyped, NEW s \in Sub, NEW e \in Emitter
  PROVE  Received(s, e) = Unpacked(Keep(sock[s].out, FramesOf(e)))
<1> DEFINE S == {f \in Range(sock[s].out) : f.kind = "text" /\ f.data.by = e}
<1>1. sock[s] \in Socket(StreamData)
  BY Peers DEF SocketsTyped
<1>2. sock[s].out \in Seq(Frame(StreamData))
  BY <1>1 DEF Socket
<1>3. \A f \in Range(sock[s].out) : f \in S <=> f \in FramesOf(e)
  <2> TAKE f \in Range(sock[s].out)
  <2>1. f \in Frame(StreamData)
    BY <1>2, ElementOfSeq, LenProperties DEF Range
  <2>2. f.kind = "text" /\ f.data \in StreamData
    BY <2>1 DEF Frame
  <2>3. f \in FramesOf(e) <=> f.data.by = e
    <3>1. ASSUME f.data.by = e PROVE f \in FramesOf(e)
      BY <2>1, <3>1 DEF Frame, StreamData, FramesOf
    <3>2. ASSUME f \in FramesOf(e) PROVE f.data.by = e
      BY <3>2 DEF FramesOf
    <3> QED
      BY <3>1, <3>2
  <2> QED
    BY <2>2, <2>3
<1>4. Keep(sock[s].out, S) = Keep(sock[s].out, FramesOf(e))
  <2> HIDE DEF S
  <2> QED
    BY <1>2, <1>3, KeepSame
<1> QED
  BY <1>4 DEF Received, Unpacked

(* One more frame is one more envelope. *)
LEMMA UnpackedAppend ==
  ASSUME NEW e \in Emitter, NEW m \in Seq(FramesOf(e)), NEW f \in FramesOf(e)
  PROVE  /\ Unpacked(m) \in Seq(Envelopes)
         /\ Unpacked(Append(m, f)) = Append(Unpacked(m), f.data.env)
<1> DEFINE n == Len(m)
           t == Append(m, f)
           u == Unpacked(m)
           v == Unpacked(t)
<1>1. n \in Nat /\ DOMAIN m = 1 .. n /\ \A i \in 1 .. n : m[i] \in FramesOf(e)
  BY LenProperties, ElementOfSeq
<1>2. t \in Seq(FramesOf(e)) /\ Len(t) = n + 1 /\ t[n + 1] = f /\ \A i \in 1 .. n : t[i] = m[i]
  BY AppendProperties
<1>3. DOMAIN t = 1 .. n + 1
  BY <1>2, LenProperties
<1>4. \A g \in FramesOf(e) : g.data.env \in Envelopes
  BY DEF FramesOf
<1> HIDE DEF t
<1>5. u = [i \in 1 .. n |-> m[i].data.env] /\ v = [i \in 1 .. n + 1 |-> t[i].data.env]
  BY <1>1, <1>3 DEF Unpacked
<1>6. u \in Seq(Envelopes) /\ Len(u) = n
  <2>1. \A i \in 1 .. n : m[i].data.env \in Envelopes
    BY <1>1, <1>4
  <2> HIDE DEF n
  <2> QED
    BY <1>1, <1>5, <2>1, IsASeq, LenProperties
<1>7. v \in Seq(Envelopes) /\ Len(v) = n + 1
  <2>1. \A i \in 1 .. n + 1 : t[i].data.env \in Envelopes
    BY <1>1, <1>2, <1>4
  <2> HIDE DEF n
  <2> QED
    BY <1>1, <1>5, <2>1, IsASeq, LenProperties
<1> DEFINE w == Append(u, f.data.env)
<1> HIDE DEF u, v, n
<1>8. /\ w \in Seq(Envelopes) /\ Len(w) = n + 1 /\ w[n + 1] = f.data.env
      /\ \A i \in 1 .. n : w[i] = u[i]
  BY <1>4, <1>6, AppendProperties
<1> HIDE DEF w
<1>9. \A i \in 1 .. Len(v) : v[i] = w[i]
  <2> TAKE i \in 1 .. Len(v)
  <2>1. CASE i = n + 1
    BY <1>1, <1>2, <1>5, <1>7, <1>8, <2>1
  <2>2. CASE i \in 1 .. n
    BY <1>1, <1>2, <1>5, <1>7, <1>8, <2>2
  <2> QED
    BY <1>1, <1>7, <2>1, <2>2
<1>10. v = w
  BY <1>7, <1>8, <1>9, SeqEqual
<1> QED
  BY <1>6, <1>10 DEF t, u, v, w

(* What is unpacked are envelopes. *)
LEMMA UnpackedIsSeq ==
  ASSUME NEW e \in Emitter, NEW m \in Seq(FramesOf(e))
  PROVE  Unpacked(m) \in Seq(Envelopes)
<1> DEFINE n == Len(m)
<1>1. n \in Nat /\ DOMAIN m = 1 .. n /\ \A i \in 1 .. n : m[i] \in FramesOf(e)
  BY LenProperties, ElementOfSeq
<1>2. \A i \in 1 .. n : m[i].data.env \in Envelopes
  BY <1>1 DEF FramesOf
<1> HIDE DEF n
<1> QED
  BY <1>1, <1>2, IsASeq DEF Unpacked

(* Nothing unpacked is nothing. *)
LEMMA UnpackedEmpty == Unpacked(<<>>) = <<>>
BY DEF Unpacked

(* What the emitter owes a subscriber is its share of what is written.     *)
LEMMA OwedIs ==
  ASSUME NEW s \in Sub, NEW e \in Emitter, emitted[e] \in Seq(Envelopes), since[s][e] \in Nat,
         WrittenTo(s, e) <= Len(emitted[e]), WrittenTo(s, e) \in Nat
  PROVE  Owed(s, e) = Share(s, emitted[e], since[s][e], WrittenTo(s, e))
<1> DEFINE all == SubSeq(emitted[e], since[s][e] + 1, WrittenTo(s, e))
           S == {env \in Range(all) : Wants(Filter[s], env)}
<1>1. all \in Seq(Envelopes)
  <2>1. \A i \in since[s][e] + 1 .. WrittenTo(s, e) : emitted[e][i] \in Envelopes
    BY ElementOfSeq, LenProperties
  <2> QED
    BY <2>1, SubSeqProperties
<1>2. \A env \in Range(all) : env \in S <=> env \in Wanted(s)
  <2>1. \A env \in Range(all) : env \in Envelopes
    <3> HIDE DEF all
    <3> QED
      BY <1>1, ElementOfSeq, LenProperties DEF Range
  <2> QED
    BY <2>1 DEF Wanted
<1>3. Keep(all, S) = Keep(all, Wanted(s))
  <2> HIDE DEF S, all
  <2> QED
    BY <1>1, <1>2, KeepSame
<1> QED
  BY <1>3 DEF Owed, Share, WrittenTo

(* A share begins empty, grows by what is wanted, and does not depend on   *)
(* what is emitted later.                                                  *)
LEMMA ShareGrows ==
  ASSUME NEW s \in Sub, NEW em \in Seq(Envelopes), NEW k \in Nat
  PROVE  /\ Share(s, em, k, k) = <<>>
         /\ \A n \in Nat : n <= Len(em) => Share(s, em, k, n) \in Seq(Envelopes)
         /\ \A n \in Nat : k <= n /\ n < Len(em) =>
               Share(s, em, k, n + 1) = IF em[n + 1] \in Wanted(s) THEN Append(Share(s, em, k, n), em[n + 1])
                                        ELSE Share(s, em, k, n)
         /\ \A n \in Nat, env \in Envelopes : n <= Len(em) =>
               Share(s, Append(em, env), k, n) = Share(s, em, k, n)
<1>1. Share(s, em, k, k) = <<>>
  <2>1. SubSeq(em, k + 1, k) = <<>>
    BY SubSeqEmpty
  <2> QED
    BY <2>1, KeepEmpty DEF Share
<1>2. ASSUME NEW n \in Nat, n <= Len(em) PROVE Share(s, em, k, n) \in Seq(Envelopes)
  <2>1. \A i \in k + 1 .. n : em[i] \in Envelopes
    BY <1>2, ElementOfSeq, LenProperties
  <2>2. SubSeq(em, k + 1, n) \in Seq(Envelopes)
    BY <2>1, SubSeqProperties
  <2>3. Share(s, em, k, n) \in Seq(Envelopes \cap Wanted(s))
    BY <2>2, KeepRange DEF Share
  <2> QED
    BY <2>3, SeqMonotonic
<1>3. ASSUME NEW n \in Nat, k <= n, n < Len(em)
      PROVE  Share(s, em, k, n + 1) = IF em[n + 1] \in Wanted(s) THEN Append(Share(s, em, k, n), em[n + 1])
                                      ELSE Share(s, em, k, n)
  <2>1. /\ SubSeq(em, k + 1, n) \in Seq(Envelopes)
        /\ SubSeq(em, k + 1, n + 1) = Append(SubSeq(em, k + 1, n), em[n + 1])
    BY <1>3, SubSeqNext
  <2>2. em[n + 1] \in Envelopes
    BY <1>3, ElementOfSeq, LenProperties
  <2> DEFINE p == SubSeq(em, k + 1, n)
             x == em[n + 1]
  <2>3. Share(s, em, k, n) = Keep(p, Wanted(s)) /\ Share(s, em, k, n + 1) = Keep(Append(p, x), Wanted(s))
    BY <2>1 DEF Share
  <2>4. p \in Seq(Envelopes) /\ x \in Envelopes
    BY <2>1, <2>2
  <2> HIDE DEF p, x
  <2>5. Keep(Append(p, x), Wanted(s)) = IF x \in Wanted(s) THEN Append(Keep(p, Wanted(s)), x) ELSE Keep(p, Wanted(s))
    BY <2>4, KeepAppend
  <2>6. Share(s, em, k, n + 1) = IF x \in Wanted(s) THEN Append(Share(s, em, k, n), x) ELSE Share(s, em, k, n)
    BY <2>3, <2>5
  <2> QED
    BY <2>6 DEF x
<1>4. ASSUME NEW n \in Nat, NEW env \in Envelopes, n <= Len(em)
      PROVE  Share(s, Append(em, env), k, n) = Share(s, em, k, n)
  BY <1>4, SubSeqOfAppend DEF Share
<1> QED
  BY <1>1, <1>2, <1>3, <1>4

(* A prefix stays one when the sequence grows. *)
LEMMA PrefixGrows ==
  ASSUME NEW E, NEW a \in Seq(E), NEW b \in Seq(E), NEW x \in E, IsPrefix(a, b)
  PROVE  IsPrefix(a, Append(b, x))
<1>1. Len(a) \in Nat /\ Len(b) \in Nat /\ Len(a) <= Len(b) /\ Len(Append(b, x)) = Len(b) + 1
  BY AppendProperties, LenProperties DEF IsPrefix
<1>2. SubSeq(Append(b, x), 0 + 1, Len(a)) = SubSeq(b, 0 + 1, Len(a))
  BY <1>1, SubSeqOfAppend
<1> QED
  BY <1>1, <1>2 DEF IsPrefix

(* A sequence is its own prefix. *)
LEMMA PrefixOfItself ==
  ASSUME NEW E, NEW a \in Seq(E)
  PROVE  IsPrefix(a, a)
BY LenProperties DEF IsPrefix

-----------------------------------------------------------------------------
(* A subscriber and an emitter in one step. *)

(* The subscriber's handler and registration stay as they are, and nothing *)
(* is written to it.                                                       *)
Idles(s) ==
  /\ handler'[s] = handler[s] /\ since'[s] = since[s]
  /\ s \in subs' <=> s \in subs
  /\ sock'[s].out = sock[s].out /\ sock'[s].closing = sock[s].closing
  /\ sock'[s].up = sock[s].up \/ (sock[s].up = "open" /\ sock'[s].up = "gone")

SubscriberStep(s) ==
  \/ Subscribe(s) \/ StreamEnds(s)
  \/ \E e \in Emitter : BroadcastWrite(e, s)
  \/ Idles(s)

EmitterStep(e) ==
  \/ cast'[e] = cast[e] /\ emitted'[e] = emitted[e]
  \/ BroadcastEnd(e)
  \/ \E s \in Sub : BroadcastWrite(e, s)
  \/ \E env \in Envelopes : Announce(e, env)

(* One peer's socket, and the rest of the stream's variables, are all that *)
(* a subscriber sees of others.                                            *)
LEMMA SubscriberSteps ==
  ASSUME SocketsTyped, StreamTyped, ConsumersTyped, RegistryAgrees, WsNext, NEW s \in Sub
  PROVE  SubscriberStep(s)
<1>p. s \in Peer /\ sock[s] \in Socket(StreamData) /\ DOMAIN sock = Peer /\ s \notin Conn
  BY Peers DEF SocketsTyped
<1>t. handler \in [Sub -> {"none", "reading", "ended"}] /\ since \in [Sub -> [Emitter -> Nat]]
  BY DEF StreamTyped
<1>0. ASSUME sock'[s] = sock[s], handler' = handler, subs' = subs, since' = since PROVE SubscriberStep(s)
  BY <1>0 DEF SubscriberStep, Idles
<1>1. ASSUME NEW e \in Emitter, Broadcasting(e) PROVE SubscriberStep(s)
  <2>1. CASE BroadcastWrite(e, s)
    BY <2>1 DEF SubscriberStep
  <2>2. ASSUME NEW r \in Sub, r # s, BroadcastWrite(e, r) PROVE SubscriberStep(s)
    <3>1. sock'[s] = sock[s]
      BY <2>2, <1>p DEF BroadcastWrite
    <3> QED
      BY <2>2, <3>1, <1>0 DEF BroadcastWrite
  <2>3. CASE BroadcastEnd(e)
    BY <2>3, <1>0 DEF BroadcastEnd
  <2> QED
    BY <1>1, <2>1, <2>2, <2>3 DEF Broadcasting
<1>2. ASSUME NEW c \in Conn, Handler(c) PROVE SubscriberStep(s)
  <2>1. c # s /\ c \in Emitter
    BY <1>p, Peers
  <2>2. CASE ~Broadcasting(c)
    <3>1. sock'[s] = sock[s]
      BY <1>2, <2>1, <2>2, <1>p DEF Handler, Upgrade, OnConnect, ConnectHook, EmitReceive, Read, Handle, OnDisconnect,
        Unregister, streamVars, Answer
    <3>2. handler' = handler /\ subs' = subs /\ since' = since
      BY <1>2, <2>2 DEF Handler, Upgrade, OnConnect, ConnectHook, EmitReceive, Read, Handle, OnDisconnect,
        Unregister, streamVars, restOfStream, Announce
    <3> QED
      BY <3>1, <3>2, <1>0
  <2> QED
    BY <2>1, <2>2, <1>1
<1>3. ASSUME NEW t \in Call, Management(t) PROVE SubscriberStep(s)
  <2>1. call[t].todo \subseteq Conn /\ \A i \in DOMAIN byID : byID[i] \in Conn
    BY DEF ConsumersTyped, CallRecord, RegistryAgrees
  <2>2. sock'[s] = sock[s]
    BY <1>3, <2>1, <1>p DEF Management, PushRequest, PushDue, PushCancelled, PushBegin, PushEnd, PushWrite,
      DisconnectClose, DisconnectUnregister, streamVars
  <2>3. handler' = handler /\ subs' = subs /\ since' = since
    BY <1>3 DEF Management, PushRequest, PushDue, PushCancelled, PushBegin, PushEnd, PushWrite,
      DisconnectClose, DisconnectUnregister, streamVars, restOfStream
  <2> QED
    BY <2>2, <2>3, <1>0
<1>4. CASE Shutdown
  BY <1>4, <1>0 DEF Shutdown, streamVars
<1>5. CASE StreamNext
  <2>1. ASSUME NEW r \in Sub, Subscriber(r) PROVE SubscriberStep(s)
    <3>1. CASE r # s
      <4>1. sock'[s] = sock[s]
        BY <2>1, <3>1, <1>p DEF Subscriber, Subscribe, Ping, StreamRead, StreamEnds
      <4>2. handler'[s] = handler[s] /\ (s \in subs' <=> s \in subs) /\ since'[s] = since[s]
        BY <2>1, <3>1, <1>t DEF Subscriber, Subscribe, Ping, StreamRead, StreamEnds
      <4> QED
        BY <4>1, <4>2 DEF SubscriberStep, Idles
    <3>2. CASE r = s
      <4>1. CASE Subscribe(s) \/ StreamEnds(s)
        BY <4>1 DEF SubscriberStep
      <4>2. CASE Ping(s)
        <5>1. sock'[s] = sock[s]
          BY <4>2, <1>p DEF Ping, Written
        <5> QED
          BY <4>2, <5>1, <1>0 DEF Ping
      <4>3. CASE StreamRead(s)
        <5>1. sock'[s] = AfterRead(sock[s]) /\ sock[s].inbox # <<>>
          BY <4>3, <1>p DEF StreamRead, CanRead
        <5>2. sock'[s].up = sock[s].up /\ sock'[s].out = sock[s].out /\ sock'[s].closing = sock[s].closing
          BY <5>1, <1>p, AfterReadIs
        <5> QED
          BY <4>3, <5>2 DEF StreamRead, SubscriberStep, Idles
      <4> QED
        BY <2>1, <3>2, <4>1, <4>2, <4>3 DEF Subscriber
    <3> QED
      BY <3>1, <3>2
  <2>2. ASSUME NEW e \in Bus, Broadcasting(e) PROVE SubscriberStep(s)
    BY <2>2, <1>1, Peers
  <2>3. ASSUME NEW e \in Bus, NEW env \in Envelope, BroadcastBegin(e, env) PROVE SubscriberStep(s)
    BY <2>3, <1>0 DEF BroadcastBegin, Announce
  <2>4. ASSUME NEW p \in Peer, PeerSends(p) \/ PeerLeaves(p) \/ Tick(p),
               UNCHANGED <<subs, handler, cast, emitted, since>>
        PROVE  SubscriberStep(s)
    <3>1. CASE p # s
      <4>1. sock'[s] = sock[s]
        BY <2>4, <3>1, <1>p DEF PeerSends, PeerLeaves, Tick
      <4> QED
        BY <2>4, <4>1, <1>0
    <3>2. CASE p = s
      <4>1. /\ sock'[s].out = sock[s].out /\ sock'[s].closing = sock[s].closing
            /\ sock'[s].up = sock[s].up \/ (sock[s].up = "open" /\ sock'[s].up = "gone")
        <5>1. CASE PeerSends(s)
          <6>1. sock'[s] = [sock[s] EXCEPT !.inbox = Append(sock[s].inbox, sock[s].sent + 1), !.sent = sock[s].sent + 1]
            BY <5>1, <1>p DEF PeerSends
          <6> QED
            BY <6>1, <1>p DEF Socket
        <5>2. CASE PeerLeaves(s)
          <6>1. sock'[s] = [sock[s] EXCEPT !.up = "gone"] /\ sock[s].up = "open"
            BY <5>2, <1>p DEF PeerLeaves
          <6> QED
            BY <6>1, <1>p DEF Socket
        <5>3. CASE Tick(s)
          <6>1. sock'[s] = [sock[s] EXCEPT !.idle = sock[s].idle + 1]
            BY <5>3, <1>p DEF Tick
          <6> QED
            BY <6>1, <1>p DEF Socket
        <5> QED
          BY <2>4, <3>2, <5>1, <5>2, <5>3
      <4> QED
        BY <2>4, <4>1 DEF SubscriberStep, Idles
    <3> QED
      BY <3>1, <3>2
  <2> QED
    BY <1>5, <2>1, <2>2, <2>3, <2>4 DEF StreamNext, Environment
<1> QED
  BY <1>2, <1>3, <1>4, <1>5 DEF WsNext

(* An emitter begins, writes or ends a broadcast, or does nothing.         *)
LEMMA EmitterSteps ==
  ASSUME StreamTyped, WsNext, NEW e \in Emitter
  PROVE  EmitterStep(e)
<1>t. DOMAIN cast = Emitter /\ DOMAIN emitted = Emitter
  BY DEF StreamTyped
<1>0. ASSUME cast'[e] = cast[e], emitted'[e] = emitted[e] PROVE EmitterStep(e)
  BY <1>0 DEF EmitterStep
<1>1. ASSUME NEW d \in Emitter, Broadcasting(d) PROVE EmitterStep(e)
  <2>1. CASE d = e
    BY <1>1, <2>1 DEF EmitterStep, Broadcasting
  <2>2. CASE d # e
    BY <1>1, <2>2, <1>t, <1>0 DEF Broadcasting, BroadcastEnd, BroadcastWrite
  <2> QED
    BY <2>1, <2>2
<1>2. ASSUME NEW d \in Emitter, NEW env \in Envelopes, Announce(d, env) PROVE EmitterStep(e)
  <2>1. CASE d = e
    BY <1>2, <2>1 DEF EmitterStep
  <2>2. CASE d # e
    BY <1>2, <2>2, <1>t, <1>0 DEF Announce
  <2> QED
    BY <2>1, <2>2
<1>3. ASSUME NEW c \in Conn, Handler(c) PROVE EmitterStep(e)
  <2>1. c \in Emitter /\ Lifecycle(c, "connected") \in Envelopes /\ Lifecycle(c, "disconnected") \in Envelopes
    BY Peers DEF Envelopes
  <2>2. CASE Upgrade(c) \/ ConnectHook(c) \/ EmitReceive(c) \/ Read(c) \/ Handle(c) \/ Unregister(c)
    BY <2>2, <1>0 DEF Upgrade, ConnectHook, EmitReceive, Read, Handle, Unregister, restOfStream, streamVars
  <2> QED
    BY <1>3, <2>1, <2>2, <1>1, <1>2 DEF Handler, OnConnect, OnDisconnect
<1>4. ASSUME NEW t \in Call, Management(t) PROVE EmitterStep(e)
  BY <1>4, <1>0 DEF Management, PushRequest, PushDue, PushCancelled, PushBegin, PushEnd, PushWrite,
    DisconnectClose, DisconnectUnregister, streamVars, restOfStream
<1>5. CASE Shutdown
  BY <1>5, <1>0 DEF Shutdown, streamVars
<1>6. CASE StreamNext
  <2>1. ASSUME NEW r \in Sub, Subscriber(r) PROVE EmitterStep(e)
    BY <2>1, <1>0 DEF Subscriber, Subscribe, Ping, StreamRead, StreamEnds
  <2>2. ASSUME NEW d \in Bus, Broadcasting(d) PROVE EmitterStep(e)
    BY <2>2, <1>1, Peers
  <2>3. ASSUME NEW d \in Bus, NEW env \in Envelope, BroadcastBegin(d, env) PROVE EmitterStep(e)
    BY <2>3, <1>2, Peers DEF BroadcastBegin, Envelopes
  <2> QED
    BY <1>6, <1>0, <2>1, <2>2, <2>3 DEF StreamNext
<1> QED
  BY <1>3, <1>4, <1>5, <1>6 DEF WsNext

(* A subscriber's broadcast reaches its socket: it is open, or open with   *)
(* nobody to read it.                                                      *)
LEMMA BroadcastReaches ==
  ASSUME SocketsTyped, StreamTyped, FiltersAgree, NEW s \in Sub, NEW d \in Emitter, BroadcastWrite(d, s), Streams(s, d)
  PROVE  LET env == emitted[d][Len(emitted[d])]
             f   == [kind |-> "text", data |-> [by |-> d, env |-> env]]
         IN /\ env \in Envelopes /\ f \in Frame(StreamData)
            /\ sock'[s].up = sock[s].up /\ sock'[s].closing = sock[s].closing
            /\ sock'[s].out = IF env \in Wanted(s) THEN Append(sock[s].out, f) ELSE sock[s].out
<1> DEFINE env == emitted[d][Len(emitted[d])]
           data == [by |-> d, env |-> env]
           f == [kind |-> "text", data |-> data]
<1>1. s \in cast[d].todo
  BY DEF BroadcastWrite
<1>2. env \in Envelopes /\ data \in StreamData
  BY <1>1, BroadcastData DEF Last
<1>3. data # Nothing
  BY <1>2, DataAssumption
<1>4. sock[s] \in Socket(StreamData) /\ s \in DOMAIN sock
  BY Peers DEF SocketsTyped
<1>5. sock' = IF filterMatches(Filter[s], env) THEN [sock EXCEPT ![s] = Written(@, "text", data)] ELSE sock
  BY DEF BroadcastWrite, Last
<1> HIDE DEF data
<1>6. ~Drops(sock[s], data)
  BY <1>1, <1>3 DEF Streams, Drops
<1>7. LET v == Written(sock[s], "text", data)
      IN /\ v.up = sock[s].up /\ v.closing = sock[s].closing
         /\ v.out = IF Drops(sock[s], data) THEN sock[s].out ELSE Append(sock[s].out, [kind |-> "text", data |-> data])
  BY <1>2, <1>4, WrittenIs
<1>8. env \in Wanted(s) <=> filterMatches(Filter[s], env)
  BY <1>2 DEF FiltersAgree, Wanted
<1>9. f \in Frame(StreamData)
  BY <1>2 DEF Frame
<1>10. /\ sock'[s].up = sock[s].up /\ sock'[s].closing = sock[s].closing
       /\ sock'[s].out = IF env \in Wanted(s) THEN Append(sock[s].out, f) ELSE sock[s].out
  <2>1. CASE filterMatches(Filter[s], env)
    <3>1. sock'[s] = Written(sock[s], "text", data)
      BY <1>4, <1>5, <2>1
    <3> QED
      BY <1>6, <1>7, <1>8, <2>1, <3>1
  <2>2. CASE ~filterMatches(Filter[s], env)
    <3>1. sock' = sock
      BY <1>5, <2>2
    <3> QED
      BY <1>8, <2>2, <3>1
  <2> QED
    BY <2>1, <2>2
<1> QED
  BY <1>2, <1>9, <1>10 DEF data

(* How much an emitter has done with a subscriber. *)
LEMMA WrittenToIs ==
  ASSUME StreamTyped, NEW s \in Sub, NEW e \in Emitter, Streams(s, e)
  PROVE  /\ emitted[e] \in Seq(Envelopes) /\ Len(emitted[e]) \in Nat /\ since[s][e] \in Nat
         /\ WrittenTo(s, e) \in Nat /\ WrittenTo(s, e) <= Len(emitted[e]) /\ since[s][e] <= WrittenTo(s, e)
<1>1. emitted[e] \in Seq(Envelopes) /\ Len(emitted[e]) \in Nat /\ since[s][e] \in Nat
  BY LenProperties DEF StreamTyped
<1>2. since[s][e] <= Len(emitted[e]) /\ (s \in cast[e].todo => since[s][e] < Len(emitted[e]))
  BY DEF Streams
<1> DEFINE l == Len(emitted[e])
           k == since[s][e]
<1>3. CASE s \in cast[e].todo
  <2>1. WrittenTo(s, e) = l - 1 /\ l \in Nat /\ k \in Nat /\ k < l
    BY <1>1, <1>2, <1>3 DEF WrittenTo
  <2> HIDE DEF l, k
  <2>2. WrittenTo(s, e) \in Nat /\ WrittenTo(s, e) <= l /\ k <= WrittenTo(s, e)
    BY <2>1
  <2> QED
    BY <1>1, <2>2 DEF l, k
<1>4. CASE s \notin cast[e].todo
  <2>1. WrittenTo(s, e) = l
    <3>1. l \in Int
      BY <1>1
    <3> QED
      BY <1>4, <3>1 DEF WrittenTo
  <2> QED
    BY <1>1, <1>2, <2>1
<1> QED
  BY <1>3, <1>4

(* A subscriber has envelopes of an emitter. *)
LEMMA SubscriberHas ==
  ASSUME SocketsTyped, NEW s \in Sub, NEW e \in Emitter
  PROVE  LET kept == Keep(sock[s].out, FramesOf(e))
         IN kept \in Seq(FramesOf(e)) /\ Unpacked(kept) \in Seq(Envelopes)
<1>1. sock[s].out \in Seq(Frame(StreamData))
  BY Peers DEF SocketsTyped, Socket
<1>2. Keep(sock[s].out, FramesOf(e)) \in Seq(Frame(StreamData) \cap FramesOf(e))
  BY <1>1, KeepRange
<1>3. Keep(sock[s].out, FramesOf(e)) \in Seq(FramesOf(e))
  BY <1>2, SeqMonotonic
<1> QED
  BY <1>3, UnpackedIsSeq

(* A subscriber that stays as it is, and any emitter. *)
LEMMA StreamsIdle ==
  ASSUME SocketsTyped, StreamTyped, NEW s \in Sub, NEW e \in Emitter, Streams(s, e),
         Idles(s), EmitterStep(e), ~BroadcastWrite(e, s)
  PROVE  Streams(s, e)'
<1> DEFINE em == emitted[e]
           k == since[s][e]
           has == Unpacked(Keep(sock[s].out, FramesOf(e)))
<1>w. /\ em \in Seq(Envelopes) /\ Len(em) \in Nat /\ k \in Nat
      /\ WrittenTo(s, e) \in Nat /\ WrittenTo(s, e) <= Len(em) /\ k <= WrittenTo(s, e)
  BY WrittenToIs
<1>c. cast \in [Emitter -> [on : BOOLEAN, todo : SUBSET Sub]] /\ emitted \in [Emitter -> Seq(Envelopes)]
  BY DEF StreamTyped
<1>h. /\ has' = has /\ since'[s][e] = k /\ handler'[s] = handler[s]
      /\ s \in subs' <=> s \in subs
      /\ ~sock'[s].closing
      /\ handler'[s] = "none" => sock'[s].out = <<>>
      /\ sock'[s].up \in (IF handler[s] = "none" THEN {"none"}
                         ELSE IF handler[s] = "reading" THEN {"open", "gone"} ELSE {"gone", "unread"})
  BY DEF Idles, Streams
<1> HIDE DEF has
<1>1. ASSUME emitted'[e] = em, s \in cast'[e].todo <=> s \in cast[e].todo,
             s \in cast'[e].todo => cast'[e].on
      PROVE  Streams(s, e)'
  <2>1. WrittenTo(s, e)' = WrittenTo(s, e)
    BY <1>1 DEF WrittenTo
  <2> QED
    BY <1>1, <1>h, <2>1 DEF Streams, has
<1>2. CASE cast'[e] = cast[e] /\ emitted'[e] = emitted[e]
  <2>1. s \in cast[e].todo => cast[e].on
    BY DEF Streams
  <2> QED
    BY <1>2, <2>1, <1>1
<1>3. CASE BroadcastEnd(e)
  <2>1. emitted'[e] = em /\ cast[e].todo = {} /\ cast'[e].todo = {}
    BY <1>3, <1>c DEF BroadcastEnd, Resting
  <2> QED
    BY <2>1, <1>1
<1>4. ASSUME NEW r \in Sub, BroadcastWrite(e, r) PROVE Streams(s, e)'
  <2>1. r # s
    BY <1>4
  <2>2. emitted'[e] = em /\ cast'[e].todo = cast[e].todo \ {r} /\ cast'[e].on = cast[e].on
    BY <1>4, <1>c DEF BroadcastWrite
  <2>3. s \in cast[e].todo => cast[e].on
    BY DEF Streams
  <2> QED
    BY <2>1, <2>2, <2>3, <1>1
<1>5. ASSUME NEW env \in Envelopes, Announce(e, env) PROVE Streams(s, e)'
  <2> DEFINE em2 == Append(em, env)
  <2>1. /\ ~cast[e].on /\ emitted'[e] = em2
        /\ cast'[e].on = TRUE /\ cast'[e].todo = subs
    BY <1>5, <1>c DEF Announce
  <2>2. s \notin cast[e].todo /\ WrittenTo(s, e) = Len(em)
    <3>1. s \notin cast[e].todo
      BY <2>1 DEF Streams
    <3> QED
      BY <3>1, <1>w DEF WrittenTo
  <2>3. em2 \in Seq(Envelopes) /\ Len(em2) = Len(em) + 1 /\ em2[Len(em) + 1] = env
    BY <1>w, AppendProperties
  <2>4. Share(s, em2, k, Len(em)) = Share(s, em, k, Len(em)) /\ Share(s, em, k, Len(em)) \in Seq(Envelopes)
    <3> HIDE DEF em, k
    <3>1. /\ \A n \in Nat : n <= Len(em) => Share(s, em, k, n) \in Seq(Envelopes)
          /\ \A n \in Nat, x \in Envelopes : n <= Len(em) =>
                Share(s, Append(em, x), k, n) = Share(s, em, k, n)
      BY <1>w, ShareGrows
    <3> QED
      BY <1>w, <3>1
  <2>5. Len(em) < Len(em2) /\ k <= Len(em)
    BY <1>w, <2>2, <2>3
  <2>6. Share(s, em2, k, Len(em) + 1) = IF em2[Len(em) + 1] \in Wanted(s)
                                       THEN Append(Share(s, em2, k, Len(em)), em2[Len(em) + 1])
                                       ELSE Share(s, em2, k, Len(em))
    <3> HIDE DEF em, k, em2
    <3>1. \A n \in Nat : k <= n /\ n < Len(em2) =>
            Share(s, em2, k, n + 1) = IF em2[n + 1] \in Wanted(s) THEN Append(Share(s, em2, k, n), em2[n + 1])
                                      ELSE Share(s, em2, k, n)
      BY <1>w, <2>3, ShareGrows
    <3> QED
      BY <1>w, <2>5, <3>1
  <2> HIDE DEF em2
  <2>7. CASE s \in subs
    <3>1. WrittenTo(s, e)' = Len(em)
      BY <1>w, <2>1, <2>3, <2>7 DEF WrittenTo
    <3>2. handler[s] = "reading" /\ has = Share(s, em, k, Len(em))
      BY <2>2, <2>7 DEF Streams, has
    <3> QED
      BY <1>h, <1>w, <2>1, <2>3, <2>4, <2>5, <2>7, <3>1, <3>2 DEF Streams, has
  <2>8. CASE s \notin subs
    <3>1. WrittenTo(s, e)' = Len(em) + 1
      BY <1>w, <2>1, <2>3, <2>8 DEF WrittenTo
    <3>2. handler[s] # "reading" /\ (handler[s] = "ended" => IsPrefix(has, Share(s, em, k, Len(em))))
      BY <2>2, <2>8 DEF Streams, has
    <3>3. has \in Seq(Envelopes)
      BY SubscriberHas DEF has
    <3>4. handler[s] = "ended" => IsPrefix(has, Share(s, em2, k, Len(em) + 1))
      BY <2>3, <2>4, <2>6, <3>2, <3>3, PrefixGrows
    <3> QED
      BY <1>h, <1>w, <2>1, <2>3, <2>5, <2>8, <3>1, <3>2, <3>4 DEF Streams, has
  <2> QED
    BY <2>7, <2>8
<1> QED
  BY <1>2, <1>3, <1>4, <1>5 DEF EmitterStep

(* Who subscribes has an open socket, and nothing is owed to it yet. *)
LEMMA StreamBegins ==
  ASSUME SocketsTyped, StreamTyped, NEW s \in Sub, NEW e \in Emitter, Streams(s, e), Subscribe(s)
  PROVE  Streams(s, e)'
<1> DEFINE em == emitted[e]
           has == Unpacked(Keep(sock[s].out, FramesOf(e)))
<1>1. sock[s] \in Socket(StreamData) /\ DOMAIN sock = Peer /\ s \in Peer
  BY Peers DEF SocketsTyped
<1>2. handler[s] = "none" /\ sock[s].out = <<>> /\ ~sock[s].closing /\ s \notin cast[e].todo
  BY DEF Streams, Subscribe
<1>3. handler'[s] = "reading" /\ s \in subs' /\ since'[s][e] = Len(em) /\ cast' = cast /\ emitted' = emitted
  BY DEF Subscribe, StreamTyped
<1>4. em \in Seq(Envelopes) /\ Len(em) \in Nat
  BY LenProperties DEF StreamTyped
<1>5. sock'[s].up = "open" /\ sock'[s].out = <<>> /\ ~sock'[s].closing
  <2> DEFINE w == Opened(sock[s])
  <2>1. sock'[s] = Armed(w)
    BY <1>1 DEF Subscribe
  <2>2. w \in Socket(StreamData) /\ w = [sock[s] EXCEPT !.up = "open"]
    BY <1>1, SocketOps
  <2>3. w.up = "open" /\ w.out = <<>> /\ ~w.closing
    BY <1>1, <1>2, <2>2 DEF Socket
  <2> HIDE DEF w
  <2>4. LET v == Armed(w) IN v.up = w.up /\ v.closing = w.closing /\ v.out = w.out
    <3>1. w \in Socket(StreamData)
      BY <2>2
    <3> QED
      BY <3>1 DEF Armed, Socket
  <2> QED
    BY <2>1, <2>3, <2>4
<1>6. WrittenTo(s, e)' = Len(em)
  <2>1. Len(em) \in Int
    BY <1>4
  <2> QED
    BY <1>2, <1>3, <2>1 DEF WrittenTo
<1>7. has' = <<>>
  BY <1>5, KeepEmpty, UnpackedEmpty
<1>8. Share(s, em, Len(em), Len(em)) = <<>>
  <2> HIDE DEF em
  <2> QED
    BY <1>4, ShareGrows
<1> QED
  BY <1>2, <1>3, <1>4, <1>5, <1>6, <1>7, <1>8 DEF Streams

(* Who leaves keeps what it has: a beginning of what it would be owed. *)
LEMMA StreamStops ==
  ASSUME SocketsTyped, StreamTyped, NEW s \in Sub, NEW e \in Emitter, Streams(s, e), StreamEnds(s)
  PROVE  Streams(s, e)'
<1> DEFINE has == Unpacked(Keep(sock[s].out, FramesOf(e)))
           due == Share(s, emitted[e], since[s][e], WrittenTo(s, e))
<1>1. sock[s] \in Socket(StreamData) /\ DOMAIN sock = Peer /\ s \in Peer
  BY Peers DEF SocketsTyped
<1>2. /\ handler[s] = "reading" /\ ~sock[s].closing /\ sock[s].up \in {"open", "gone"} /\ has = due
      /\ s \in cast[e].todo => cast[e].on /\ since[s][e] < Len(emitted[e])
      /\ since[s][e] <= Len(emitted[e])
  BY DEF Streams, StreamEnds
<1>3. handler'[s] = "ended" /\ s \notin subs' /\ UNCHANGED <<cast, emitted, since>>
  BY DEF StreamEnds, StreamTyped
<1>4. sock'[s].up \in {"gone", "unread"} /\ sock'[s].out = sock[s].out /\ ~sock'[s].closing
  <2>1. sock'[s] = Unread(sock[s])
    BY <1>1 DEF StreamEnds
  <2> QED
    BY <1>1, <1>2, <2>1, SocketOps
<1>5. has' = has /\ due' = due
  BY <1>3, <1>4 DEF WrittenTo, Share
<1>6. IsPrefix(has, due)
  <2>1. has \in Seq(Envelopes)
    BY SubscriberHas
  <2> QED
    BY <1>2, <2>1, PrefixOfItself
<1> QED
  <2> HIDE DEF has, due
  <2>1. has' = due' /\ IsPrefix(has', due')
    BY <1>2, <1>5, <1>6
  <2> QED
    BY <1>2, <1>3, <1>4, <2>1 DEF Streams, has, due

(* A broadcast that reaches a subscriber is of one emitter. *)
LEMMA StreamGrows ==
  ASSUME SocketsTyped, StreamTyped, FiltersAgree, NEW s \in Sub, NEW e \in Emitter, NEW d \in Emitter,
         Streams(s, e), Streams(s, d), BroadcastWrite(d, s)
  PROVE  Streams(s, e)'
<1> DEFINE em == emitted[d]
           env == em[Len(em)]
           f == [kind |-> "text", data |-> [by |-> d, env |-> env]]
           k == since[s][d]
           kept == Keep(sock[s].out, FramesOf(e))
<1>1. /\ env \in Envelopes /\ f \in Frame(StreamData)
      /\ sock'[s].up = sock[s].up /\ sock'[s].closing = sock[s].closing
      /\ sock'[s].out = IF env \in Wanted(s) THEN Append(sock[s].out, f) ELSE sock[s].out
  BY BroadcastReaches
<1>2. /\ s \in cast[d].todo /\ cast' = [cast EXCEPT ![d].todo = @ \ {s}]
      /\ UNCHANGED <<subs, handler, emitted, since>>
  BY DEF BroadcastWrite
<1>3. sock[s].out \in Seq(Frame(StreamData))
  BY Peers DEF SocketsTyped, Socket
<1>4. cast \in [Emitter -> [on : BOOLEAN, todo : SUBSET Sub]]
  BY DEF StreamTyped
<1>5. handler[s] # "none"
  BY <1>2 DEF Streams
<1>6. f.data.by = d /\ f.data.env = env
  OBVIOUS
<1>7. CASE d # e
  <2>1. cast'[e] = cast[e]
    BY <1>2, <1>4, <1>7
  <2>2. f \notin FramesOf(e)
    BY <1>6, <1>7 DEF FramesOf
  <2>3. Keep(sock'[s].out, FramesOf(e)) = kept
    <3> HIDE DEF f, env
    <3> QED
      BY <1>1, <1>3, <2>2, KeepAppend
  <2>4. WrittenTo(s, e)' = WrittenTo(s, e)
    BY <1>2, <2>1 DEF WrittenTo
  <2> HIDE DEF f, env, em
  <2> QED
    BY <1>1, <1>2, <1>5, <2>1, <2>3, <2>4 DEF Streams
<1>8. CASE d = e
  <2>1. cast'[e].todo = cast[e].todo \ {s} /\ cast'[e].on = cast[e].on
    BY <1>2, <1>4, <1>8
  <2>2. /\ em \in Seq(Envelopes) /\ Len(em) \in Nat /\ k \in Nat /\ k < Len(em)
        /\ Unpacked(kept) = Share(s, em, k, WrittenTo(s, e))
    BY <1>2, <1>8, WrittenToIs DEF Streams
  <2>3. WrittenTo(s, e) = Len(em) - 1 /\ WrittenTo(s, e)' = Len(em)
    <3>1. emitted'[e] = em /\ s \in cast[e].todo /\ s \notin cast'[e].todo
      BY <1>2, <1>8, <2>1
    <3>2. WrittenTo(s, e)' = Len(em) - 0
      BY <3>1 DEF WrittenTo
    <3>3. WrittenTo(s, e) = Len(em) - 1
      BY <1>8, <3>1 DEF WrittenTo
    <3> QED
      BY <2>2, <3>2, <3>3
  <2>4. Share(s, em, k, Len(em)) = IF env \in Wanted(s) THEN Append(Share(s, em, k, Len(em) - 1), env)
                                   ELSE Share(s, em, k, Len(em) - 1)
    <3> HIDE DEF em, k
    <3>1. \A n \in Nat : k <= n /\ n < Len(em) =>
            Share(s, em, k, n + 1) = IF em[n + 1] \in Wanted(s) THEN Append(Share(s, em, k, n), em[n + 1])
                                     ELSE Share(s, em, k, n)
      BY <2>2, ShareGrows
    <3>2. Len(em) - 1 \in Nat /\ k <= Len(em) - 1 /\ Len(em) - 1 < Len(em) /\ (Len(em) - 1) + 1 = Len(em)
      BY <2>2
    <3> QED
      BY <3>1, <3>2
  <2>5. Unpacked(Keep(sock'[s].out, FramesOf(e))) = IF env \in Wanted(s) THEN Append(Unpacked(kept), env)
                                                    ELSE Unpacked(kept)
    <3>1. f \in FramesOf(e)
      BY <1>1, <1>8 DEF FramesOf
    <3>2. kept \in Seq(FramesOf(e))
      BY SubscriberHas
    <3> HIDE DEF f, env, kept
    <3>3. CASE env \in Wanted(s)
      <4>1. Keep(sock'[s].out, FramesOf(e)) = Append(kept, f)
        BY <1>1, <1>3, <3>1, <3>3, KeepAppend DEF kept
      <4> QED
        BY <1>6, <3>1, <3>2, <3>3, <4>1, UnpackedAppend
    <3>4. CASE env \notin Wanted(s)
      BY <1>1, <3>4 DEF kept
    <3> QED
      BY <3>3, <3>4
  <2>6. Unpacked(Keep(sock'[s].out, FramesOf(e))) = Share(s, em, k, Len(em))
    <3> HIDE DEF f, env, kept, em, k
    <3> QED
      BY <2>2, <2>3, <2>4, <2>5
  <2>7. Share(s, em, k, Len(em)) \in Seq(Envelopes)
    <3> HIDE DEF em, k
    <3>1. \A n \in Nat : n <= Len(em) => Share(s, em, k, n) \in Seq(Envelopes)
      BY <2>2, ShareGrows
    <3> QED
      BY <2>2, <3>1
  <2>8. IsPrefix(Share(s, em, k, Len(em)), Share(s, em, k, Len(em)))
    <3> HIDE DEF em, k
    <3> QED
      BY <2>7, PrefixOfItself
  <2> HIDE DEF f, env, kept
  <2> QED
    BY <1>1, <1>2, <1>5, <1>8, <2>1, <2>2, <2>3, <2>6, <2>8 DEF Streams
<1> QED
  BY <1>7, <1>8

(* Whoever else joins and leaves, a subscriber has its share of each       *)
(* emitter.                                                                *)
LEMMA StreamsKept ==
  ASSUME SocketsTyped, StreamTyped, ConsumersTyped, RegistryAgrees, FiltersAgree, WsNext,
         NEW s \in Sub, \A d \in Emitter : Streams(s, d), NEW e \in Emitter
  PROVE  Streams(s, e)'
<1>1. SubscriberStep(s) /\ EmitterStep(e)
  BY SubscriberSteps, EmitterSteps
<1>2. CASE Subscribe(s)
  BY <1>2, StreamBegins
<1>3. CASE StreamEnds(s)
  BY <1>3, StreamStops
<1>4. ASSUME NEW d \in Emitter, BroadcastWrite(d, s) PROVE Streams(s, e)'
  BY <1>4, StreamGrows
<1>5. CASE Idles(s) /\ ~BroadcastWrite(e, s)
  BY <1>1, <1>5, StreamsIdle
<1> QED
  BY <1>1, <1>2, <1>3, <1>4, <1>5 DEF SubscriberStep

(* Nobody has subscribed and nothing is emitted at first. *)
LEMMA StreamsInitially ==
  ASSUME WsInit, NEW s \in Sub, NEW e \in Emitter
  PROVE  Streams(s, e)
<1>1. /\ sock = [p \in Peer |-> NoSocket] /\ subs = {}
      /\ handler = [r \in Sub |-> "none"] /\ cast = [d \in Emitter |-> Resting]
      /\ emitted = [d \in Emitter |-> <<>>] /\ since = [r \in Sub |-> [d \in Emitter |-> 0]]
  BY DEF WsInit, StreamInit, SocketInit
<1>2. s \in Peer /\ sock[s].up = "none" /\ sock[s].out = <<>> /\ ~sock[s].closing
  BY <1>1, Peers DEF NoSocket
<1>3. cast[e].todo = {} /\ since[s][e] = 0 /\ emitted[e] = <<>> /\ Len(<<>>) = 0
  BY <1>1 DEF Resting
<1>4. WrittenTo(s, e) = 0
  BY <1>3 DEF WrittenTo
<1> QED
  BY <1>1, <1>2, <1>3, <1>4 DEF Streams

-----------------------------------------------------------------------------
(* Globs.  Cuts(pattern, value, i, p): the first i characters of pattern   *)
(* stand for the first p of value.                                         *)
CutStep(pattern, value, i, a, b) ==
  IF pattern[i] = Star THEN b >= a ELSE b = a + 1 /\ value[b] = pattern[i]

Cuts(pattern, value, i, p) ==
  \E cut \in [0 .. i -> 0 .. Len(value)] :
    /\ cut[0] = 0 /\ cut[i] = p
    /\ \A j \in 1 .. i : CutStep(pattern, value, j, cut[j - 1], cut[j])

(* Nothing stands for nothing.                                             *)
LEMMA CutsNothing ==
  ASSUME NEW pattern, NEW value, Len(value) \in Nat, NEW p
  PROVE  Cuts(pattern, value, 0, p) <=> p = 0
<1>1. ASSUME p = 0 PROVE Cuts(pattern, value, 0, p)
  <2> DEFINE cut == [i \in 0 .. 0 |-> 0]
  <2>1. cut \in [0 .. 0 -> 0 .. Len(value)] /\ cut[0] = 0
    OBVIOUS
  <2>2. \A j \in 1 .. 0 : CutStep(pattern, value, j, cut[j - 1], cut[j])
    OBVIOUS
  <2> HIDE DEF cut
  <2> QED
    BY <1>1, <2>1, <2>2 DEF Cuts
<1> QED
  BY <1>1 DEF Cuts

(* One character more.                                                     *)
LEMMA CutsNext ==
  ASSUME NEW pattern, NEW value, Len(value) \in Nat, NEW i \in Nat \ {0}, NEW p \in 0 .. Len(value)
  PROVE  Cuts(pattern, value, i, p) <=>
           \E k \in 0 .. Len(value) : Cuts(pattern, value, i - 1, k) /\ CutStep(pattern, value, i, k, p)
<1>1. ASSUME Cuts(pattern, value, i, p)
      PROVE  \E k \in 0 .. Len(value) : Cuts(pattern, value, i - 1, k) /\ CutStep(pattern, value, i, k, p)
  <2>1. PICK cut \in [0 .. i -> 0 .. Len(value)] :
          /\ cut[0] = 0 /\ cut[i] = p
          /\ \A j \in 1 .. i : CutStep(pattern, value, j, cut[j - 1], cut[j])
    BY <1>1 DEF Cuts
  <2> DEFINE first == [j \in 0 .. i - 1 |-> cut[j]]
  <2>2. /\ first \in [0 .. i - 1 -> 0 .. Len(value)] /\ first[0] = 0 /\ first[i - 1] = cut[i - 1]
        /\ \A j \in 1 .. i - 1 : first[j] = cut[j] /\ first[j - 1] = cut[j - 1] /\ j \in 1 .. i
    BY <2>1
  <2> HIDE DEF first
  <2>3. \A j \in 1 .. i - 1 : CutStep(pattern, value, j, first[j - 1], first[j])
    BY <2>1, <2>2
  <2>4. Cuts(pattern, value, i - 1, cut[i - 1])
    BY <2>2, <2>3 DEF Cuts
  <2>5. cut[i - 1] \in 0 .. Len(value) /\ i \in 1 .. i
    BY <2>1
  <2> QED
    BY <2>1, <2>4, <2>5
<1>2. ASSUME NEW k \in 0 .. Len(value), Cuts(pattern, value, i - 1, k), CutStep(pattern, value, i, k, p)
      PROVE  Cuts(pattern, value, i, p)
  <2>1. PICK cut \in [0 .. i - 1 -> 0 .. Len(value)] :
          /\ cut[0] = 0 /\ cut[i - 1] = k
          /\ \A j \in 1 .. i - 1 : CutStep(pattern, value, j, cut[j - 1], cut[j])
    BY <1>2 DEF Cuts
  <2> DEFINE all == [j \in 0 .. i |-> IF j = i THEN p ELSE cut[j]]
  <2>2. /\ all \in [0 .. i -> 0 .. Len(value)] /\ all[0] = 0 /\ all[i] = p /\ all[i - 1] = k
        /\ \A j \in 1 .. i - 1 : all[j] = cut[j] /\ all[j - 1] = cut[j - 1]
    BY <2>1
  <2> HIDE DEF all
  <2>3. ASSUME NEW j \in 1 .. i PROVE CutStep(pattern, value, j, all[j - 1], all[j])
    <3>1. CASE j = i
      BY <1>2, <2>2, <3>1
    <3>2. CASE j # i
      <4>1. j \in 1 .. i - 1
        BY <3>2
      <4> QED
        BY <2>1, <2>2, <4>1
    <3> QED
      BY <3>1, <3>2
  <2> QED
    BY <2>2, <2>3 DEF Cuts
<1> QED
  BY <1>1, <1>2

(* A glob denotes what its characters stand for.                           *)
LEMMA DenotesIsCuts ==
  ASSUME NEW Char, NEW pattern \in Seq(Char), NEW value
  PROVE  Denotes(pattern, value) <=> Cuts(pattern, value, Len(pattern), Len(value))
<1>1. DOMAIN pattern = 1 .. Len(pattern)
  BY LenProperties
<1> QED
  BY <1>1 DEF Denotes, Cuts, CutStep

(* Where a segment stands for a part of value.                             *)
LEMMA CutsSegment ==
  ASSUME NEW Char, NEW pattern \in Seq(Char), NEW value, Len(value) \in Nat,
         NEW seg \in splitGlob(pattern), NEW p \in 0 .. Len(value)
  PROVE  Cuts(pattern, value, seg.to, p) <=>
           \E k \in Occurs(pattern, seg, value, 0) :
             p = k + Width(seg) /\ Cuts(pattern, value, seg.from - 1, k)
<1> DEFINE a == seg.from
           b == seg.to
           m == Len(value)
           In(i, q) == \E k \in 0 .. m : /\ q = k + (i - a + 1) /\ Cuts(pattern, value, a - 1, k)
                                         /\ \A j \in a .. i : value[k + 1 + (j - a)] = pattern[j]
           Ok(i) == \A q \in 0 .. m : Cuts(pattern, value, i, q) <=> In(i, q)
           T == {i \in a - 1 .. b : ~Ok(i)}
<1>1. /\ a \in Nat \ {0} /\ b \in Nat /\ a <= b /\ b <= Len(pattern) /\ m \in Nat
      /\ \A i \in a .. b : pattern[i] # Star
  BY LenProperties DEF splitGlob
<1> HIDE DEF a, b, m
<1>2. T = {}
  <2> SUFFICES ASSUME T # {} PROVE FALSE
    OBVIOUS
  <2>1. PICK i \in T : \A l \in T : i <= l
    <3>1. T \in SUBSET Nat
      BY <1>1
    <3> HIDE DEF T
    <3> QED
      BY <3>1, LeastNumber
  <2>2. i \in a - 1 .. b /\ ~Ok(i) /\ i \in Nat
    <3>1. i \in a - 1 .. b /\ ~Ok(i)
      OBVIOUS
    <3> QED
      BY <1>1, <3>1
  <2>3. CASE i = a - 1
    <3>1. ASSUME NEW q \in 0 .. m PROVE Cuts(pattern, value, i, q) <=> In(i, q)
      <4>1. \A k \in 0 .. m : k + (i - a + 1) = k /\ \A j \in a .. i : FALSE
        BY <1>1, <2>3
      <4> QED
        BY <2>3, <4>1
    <3> QED
      BY <2>2, <3>1
  <2>4. CASE i # a - 1
    <3>0. a \in Nat /\ i \in Nat /\ a <= i /\ m \in Nat
      BY ONLY <1>1, <2>2, <2>4
    <3>1. i - 1 \in a - 1 .. b /\ i \in a .. b /\ i \in Nat \ {0} /\ i - 1 \notin T
      <4>1. i - 1 \in a - 1 .. b /\ i \in a .. b /\ i \in Nat \ {0} /\ ~(i <= i - 1)
        BY ONLY <1>1, <2>2, <2>4
      <4> HIDE DEF T
      <4> QED
        BY <2>1, <4>1
    <3>2. Ok(i - 1)
      BY <3>1
    <3> HIDE DEF T
    <3>3. ASSUME NEW q \in 0 .. m PROVE Cuts(pattern, value, i, q) <=> In(i, q)
      <4>1. Cuts(pattern, value, i, q) <=>
              \E l \in 0 .. m : Cuts(pattern, value, i - 1, l) /\ q = l + 1 /\ value[q] = pattern[i]
        <5>1. pattern[i] # Star
          BY <1>1, <3>1
        <5>2. \A l \in 0 .. m : CutStep(pattern, value, i, l, q) <=> q = l + 1 /\ value[q] = pattern[i]
          BY <5>1 DEF CutStep
        <5>3. i \in Nat \ {0} /\ q \in 0 .. Len(value) /\ Len(value) \in Nat
          BY <3>1 DEF m
        <5>4. Cuts(pattern, value, i, q) <=>
                \E l \in 0 .. m : Cuts(pattern, value, i - 1, l) /\ CutStep(pattern, value, i, l, q)
          BY <5>3, CutsNext DEF m
        <5> QED
          BY <5>2, <5>4
      <4>2. Cuts(pattern, value, i, q) <=>
              \E l \in 0 .. m : In(i - 1, l) /\ q = l + 1 /\ value[q] = pattern[i]
        BY <3>2, <4>1
      <4> HIDE DEF Ok
      <4>3. ASSUME NEW l \in 0 .. m, In(i - 1, l), q = l + 1, value[q] = pattern[i]
            PROVE  In(i, q)
        <5>1. PICK k \in 0 .. m : /\ l = k + (i - 1 - a + 1) /\ Cuts(pattern, value, a - 1, k)
                                  /\ \A j \in a .. i - 1 : value[k + 1 + (j - a)] = pattern[j]
          BY <4>3
        <5>2. q = k + (i - a + 1) /\ k + 1 + (i - a) = q
          <6> HIDE DEF In
          <6>1. k \in Nat /\ l = k + (i - 1 - a + 1) /\ q = l + 1 /\ a \in Nat /\ i \in Nat
            BY <3>0, <4>3, <5>1
          <6> QED
            BY ONLY <6>1
        <5>3. \A j \in a .. i : j \in a .. i - 1 \/ j = i
          BY <1>1, <3>1
        <5>4. \A j \in a .. i : value[k + 1 + (j - a)] = pattern[j]
          BY <4>3, <5>1, <5>2, <5>3
        <5> QED
          BY <5>1, <5>2, <5>4
      <4>4. ASSUME In(i, q)
            PROVE  \E l \in 0 .. m : In(i - 1, l) /\ q = l + 1 /\ value[q] = pattern[i]
        <5>1. PICK k \in 0 .. m : /\ q = k + (i - a + 1) /\ Cuts(pattern, value, a - 1, k)
                                  /\ \A j \in a .. i : value[k + 1 + (j - a)] = pattern[j]
          BY <4>4
        <5>2. q - 1 \in 0 .. m /\ q - 1 = k + (i - 1 - a + 1) /\ q = q - 1 + 1 /\ k + 1 + (i - a) = q
          <6> HIDE DEF In
          <6>1. k \in Nat /\ q = k + (i - a + 1) /\ a \in Nat /\ i \in Nat /\ a <= i /\ m \in Nat /\ q \in Nat /\ q <= m
            BY <3>0, <5>1
          <6> QED
            BY ONLY <6>1
        <5>3. i \in a .. i /\ \A j \in a .. i - 1 : j \in a .. i
          BY ONLY <3>0
        <5>4. value[q] = pattern[i]
          BY <5>1, <5>2, <5>3
        <5>5. In(i - 1, q - 1)
          BY <5>1, <5>2, <5>3
        <5> QED
          BY <5>2, <5>4, <5>5
      <4> QED
        BY <4>2, <4>3, <4>4
    <3> QED
      BY <2>2, <3>3
  <2> QED
    BY <2>3, <2>4
<1>3. Cuts(pattern, value, b, p) <=> In(b, p)
  <2>1. b \in a - 1 .. b
    BY ONLY <1>1
  <2>2. Ok(b)
    BY <1>2, <2>1
  <2> QED
    BY <2>2 DEF m
<1>4. Width(seg) = b - a + 1 /\ b - a + 1 \in Nat
  <2>1. b - a + 1 \in Nat
    BY ONLY <1>1
  <2> QED
    BY <2>1 DEF Width, a, b
<1>5. \A k : k \in Occurs(pattern, seg, value, 0) <=>
        k \in 0 .. m - (b - a + 1) /\ \A j \in a .. b : value[k + 1 + (j - a)] = pattern[j]
  BY <1>4 DEF Occurs, a, b, m
<1>6. \A k \in 0 .. m : p = k + (b - a + 1) => k \in 0 .. m - (b - a + 1)
  <2>1. p \in 0 .. m /\ m \in Nat
    BY <1>1 DEF m
  <2> DEFINE w == b - a + 1
  <2>2. w \in Nat
    BY <1>4
  <2> HIDE DEF w
  <2>3. \A k \in 0 .. m : p = k + w => k \in 0 .. m - w
    BY ONLY <2>1, <2>2
  <2> QED
    BY <2>3 DEF w
<1>7. \A k \in 0 .. m - (b - a + 1) : k \in 0 .. m
  BY <1>1, <1>4
<1>8. In(b, p) <=> \E k \in Occurs(pattern, seg, value, 0) :
                     p = k + Width(seg) /\ Cuts(pattern, value, a - 1, k)
  BY <1>4, <1>5, <1>6, <1>7
<1> HIDE DEF In
<1> QED
  BY <1>3, <1>8 DEF a, b

(* The walk of globMatch, one character of the pattern at a time.          *)
PosStep(pattern, value, f, i) ==
  IF i = 0 THEN 0
  ELSE IF \E seg \in splitGlob(pattern) : seg.to = i
  THEN Walk(pattern, CHOOSE seg \in splitGlob(pattern) : seg.to = i, value, f[i - 1])
  ELSE f[i - 1]

PosUpTo(pattern, value, f, m) == f = [i \in 0 .. m |-> PosStep(pattern, value, f, i)]

(* The recursive function in globMatch exists.                             *)
LEMMA PosExists ==
  ASSUME NEW pattern, NEW value
  PROVE  \A m \in Nat : \E f : PosUpTo(pattern, value, f, m)
<1> DEFINE T == {m \in Nat : ~\E f : PosUpTo(pattern, value, f, m)}
<1>1. SUFFICES ASSUME T # {} PROVE FALSE
  OBVIOUS
<1>2. PICK m \in T : \A k \in T : m <= k
  BY <1>1, LeastNumber
<1>3. CASE m = 0
  <2> DEFINE g == [i \in 0 .. 0 |-> 0]
  <2>1. PosUpTo(pattern, value, g, 0)
    BY DEF PosUpTo, PosStep
  <2> QED BY <2>1, <1>3
<1>4. CASE m # 0
  <2>1. m - 1 \in Nat /\ m - 1 \notin T
    BY <1>2, <1>4
  <2>2. PICK f : PosUpTo(pattern, value, f, m - 1)
    BY <2>1
  <2> DEFINE g == [i \in 0 .. m |-> IF i = m THEN PosStep(pattern, value, f, i) ELSE f[i]]
  <2>3. ASSUME NEW i \in 0 .. m PROVE g[i] = PosStep(pattern, value, g, i)
    <3>1. i # 0 => g[i - 1] = f[i - 1]
      OBVIOUS
    <3>2. PosStep(pattern, value, g, i) = PosStep(pattern, value, f, i)
      BY <3>1 DEF PosStep
    <3>3. i # m => f[i] = PosStep(pattern, value, f, i)
      BY <2>2, <1>4 DEF PosUpTo
    <3> QED BY <3>2, <3>3
  <2>4. PosUpTo(pattern, value, g, m)
    BY <2>3 DEF PosUpTo
  <2> QED BY <2>4
<1> QED BY <1>3, <1>4

(* globMatch looks at its last value if there is a star.                   *)
LEMMA GlobUnfold ==
  ASSUME NEW Char, NEW pattern \in Seq(Char), NEW value, Has(pattern, Star)
  PROVE  \E f : /\ \A i \in 0 .. Len(pattern) : f[i] = PosStep(pattern, value, f, i)
                /\ globMatch(pattern, value) <=> f[Len(pattern)] # Miss(value)
<1> DEFINE F == CHOOSE f : PosUpTo(pattern, value, f, Len(pattern))
<1>1. \E f : PosUpTo(pattern, value, f, Len(pattern))
  BY PosExists, LenProperties
<1>2. PosUpTo(pattern, value, F, Len(pattern))
  BY <1>1, Zenon
<1>3. globMatch(pattern, value) <=> F[Len(pattern)] # Miss(value)
  BY DEF globMatch, PosStep, PosUpTo
<1> HIDE DEF F
<1>4. \A i \in 0 .. Len(pattern) : F[i] = PosStep(pattern, value, F, i)
  BY <1>2 DEF PosUpTo
<1> QED
  BY <1>3, <1>4

(* A segment ends where a star or the pattern's end follows, and only one. *)
LEMMA Segments ==
  ASSUME NEW Char, NEW pattern \in Seq(Char), NEW i \in 1 .. Len(pattern)
  PROVE  /\ (\E seg \in splitGlob(pattern) : seg.to = i) <=>
              pattern[i] # Star /\ (i = Len(pattern) \/ pattern[i + 1] = Star)
         /\ \A s, t \in splitGlob(pattern) : s.to = i /\ t.to = i => s = t
<1>1. DOMAIN pattern = 1 .. Len(pattern) /\ Len(pattern) \in Nat /\ i \in Nat
  BY LenProperties
<1>2. ASSUME NEW seg \in splitGlob(pattern), seg.to = i
      PROVE  pattern[i] # Star /\ (i = Len(pattern) \/ pattern[i + 1] = Star)
  <2>1. /\ seg.from \in 1 .. Len(pattern) /\ seg.from <= seg.to
        /\ \A j \in seg.from .. seg.to : pattern[j] # Star
        /\ seg.to = Len(pattern) \/ pattern[seg.to + 1] = Star
    BY <1>1 DEF splitGlob
  <2>2. i \in seg.from .. seg.to
    <3> DEFINE a == seg.from
    <3>1. a \in 1 .. Len(pattern) /\ a <= i /\ seg.to = i
      BY <1>2, <2>1
    <3> HIDE DEF a
    <3>2. i \in a .. i
      BY ONLY <1>1, <3>1
    <3> QED
      BY <3>1, <3>2 DEF a
  <2> QED
    BY <1>2, <2>1, <2>2
<1>3. ASSUME pattern[i] # Star, i = Len(pattern) \/ pattern[i + 1] = Star
      PROVE  \E seg \in splitGlob(pattern) : seg.to = i
  <2> DEFINE T == {a \in 1 .. i : \A j \in a .. i : pattern[j] # Star}
  <2>1. i \in T /\ T \in SUBSET Nat
    <3>1. i \in 1 .. i /\ (\A j \in i .. i : j = i) /\ 1 .. i \subseteq Nat
      BY <1>1
    <3>2. \A j \in i .. i : pattern[j] # Star
      BY <1>3, <3>1
    <3>3. i \in T
      BY <3>1, <3>2
    <3> QED
      BY <3>1, <3>3
  <2>2. PICK a \in T : \A b \in T : a <= b
    <3> HIDE DEF T
    <3> QED
      BY <2>1, LeastNumber
  <2>3. a \in 1 .. i /\ \A j \in a .. i : pattern[j] # Star
    OBVIOUS
  <2>4. a = 1 \/ pattern[a - 1] = Star
    <3> SUFFICES ASSUME a # 1, pattern[a - 1] # Star PROVE FALSE
      OBVIOUS
    <3>1. a - 1 \in 1 .. i /\ \A j \in a - 1 .. i : j = a - 1 \/ j \in a .. i
      BY <1>1, <2>3
    <3>2. a - 1 \in T
      BY <2>3, <3>1
    <3> QED
      BY <2>2, <2>3, <3>1, <3>2
  <2> HIDE DEF T
  <2> DEFINE seg == [from |-> a, to |-> i]
  <2>5. seg \in splitGlob(pattern)
    <3>1. a \in DOMAIN pattern /\ i \in DOMAIN pattern /\ a <= i
      BY <1>1, <2>3
    <3>2. seg.from = a /\ seg.to = i /\ seg \in [from : DOMAIN pattern, to : DOMAIN pattern]
      BY <3>1
    <3> HIDE DEF seg
    <3> QED
      BY <1>3, <2>3, <2>4, <3>1, <3>2 DEF splitGlob
  <2> QED
    BY <2>5
<1>4. ASSUME NEW s \in splitGlob(pattern), NEW t \in splitGlob(pattern), s.to = i, t.to = i
      PROVE  s = t
  <2>1. /\ s.from \in 1 .. i /\ t.from \in 1 .. i
        /\ \A j \in s.from .. i : pattern[j] # Star
        /\ \A j \in t.from .. i : pattern[j] # Star
        /\ s.from = 1 \/ pattern[s.from - 1] = Star
        /\ t.from = 1 \/ pattern[t.from - 1] = Star
    BY <1>1, <1>4 DEF splitGlob
  <2>2. ~(s.from < t.from)
    <3> SUFFICES ASSUME s.from < t.from PROVE FALSE
      OBVIOUS
    <3>1. t.from - 1 \in s.from .. i /\ t.from # 1
      BY <2>1
    <3> QED
      BY <2>1, <3>1
  <2>3. ~(t.from < s.from)
    <3> SUFFICES ASSUME t.from < s.from PROVE FALSE
      OBVIOUS
    <3>1. s.from - 1 \in t.from .. i /\ s.from # 1
      BY <2>1
    <3> QED
      BY <2>1, <3>1
  <2>4. s.from = t.from
    BY <2>1, <2>2, <2>3
  <2> QED
    BY <1>4, <2>4 DEF splitGlob
<1> QED
  BY <1>2, <1>3, <1>4

(* A walk ends behind the first candidate.                                 *)
LEMMA WalkIs ==
  ASSUME NEW Char, NEW pattern \in Seq(Char), NEW value, Len(value) \in Nat,
         NEW seg \in splitGlob(pattern), NEW pos \in Nat
  PROVE  LET found == CandidatesOf(pattern, seg, value, pos)
             end   == Walk(pattern, seg, value, pos)
         IN \/ found = {} /\ end = Miss(value)
            \/ /\ end \in 0 .. Len(value)
               /\ \E k \in found : end = k + Width(seg) /\ \A j \in found : k <= j
<1> DEFINE found == CandidatesOf(pattern, seg, value, pos)
           end == Walk(pattern, seg, value, pos)
           w == Width(seg)
           k == CHOOSE i \in found : \A j \in found : i <= j
<1>1. w \in Nat
  BY LenProperties DEF splitGlob, Width
<1>2. CASE found = {}
  BY <1>2 DEF Walk
<1>3. CASE found # {}
  <2>1. end = k + w
    BY <1>3 DEF Walk
  <2>2. \A i \in found : i \in pos .. Len(value) - w
    BY DEF CandidatesOf, Occurs
  <2>3. found \in SUBSET Nat
    <3> HIDE DEF w, found
    <3> QED
      BY <1>1, <2>2
  <2>4. \E i \in found : \A j \in found : i <= j
    <3> HIDE DEF found
    <3> QED
      BY <1>3, <2>3, LeastNumber
  <2>5. k \in found /\ \A j \in found : k <= j
    <3> HIDE DEF found
    <3> QED
      BY <2>4
  <2> HIDE DEF found, k, w
  <2>6. k + w \in 0 .. Len(value)
    BY <1>1, <2>2, <2>3, <2>5
  <2> QED
    BY <2>1, <2>5, <2>6 DEF found, w
<1> QED
  BY <1>2, <1>3

(* What stands for value up to p and ends in a star, stands for more of it. *)
LEMMA CutsStar ==
  ASSUME NEW pattern, NEW value, Len(value) \in Nat, NEW i \in Nat \ {0}, pattern[i] = Star,
         NEW p \in 0 .. Len(value), NEW q \in 0 .. Len(value), p <= q, Cuts(pattern, value, i, p)
  PROVE  Cuts(pattern, value, i, q)
<1>1. PICK k \in 0 .. Len(value) : Cuts(pattern, value, i - 1, k) /\ CutStep(pattern, value, i, k, p)
  BY CutsNext
<1>2. CutStep(pattern, value, i, k, q)
  BY <1>1 DEF CutStep
<1> QED
  BY <1>1, <1>2, CutsNext

(* The walk up to character i is as short as it can be.                    *)
Greedy(pattern, value, f, i) ==
  /\ f[i] \in 0 .. Miss(value)
  /\ f[i] # Miss(value) => Cuts(pattern, value, i, f[i])
  /\ \A p \in 0 .. Len(value) : Cuts(pattern, value, i, p) => f[i] <= p

(* Inside of a segment the walk stands still.                              *)
LEMMA InsideSegment ==
  ASSUME NEW Char, NEW pattern \in Seq(Char), NEW value, NEW f,
         \A i \in 0 .. Len(pattern) : f[i] = PosStep(pattern, value, f, i),
         NEW seg \in splitGlob(pattern)
  PROVE  f[seg.to - 1] = f[seg.from - 1]
<1> DEFINE a == seg.from
           b == seg.to
           n == Len(pattern)
           T == {j \in a - 1 .. b - 1 : f[j] # f[a - 1]}
<1>1. /\ a \in Nat \ {0} /\ b \in Nat /\ a <= b /\ b <= n /\ n \in Nat
      /\ \A i \in a .. b : pattern[i] # Star
  BY LenProperties DEF splitGlob
<1> HIDE DEF a, b, n
<1>2. T = {}
  <2> SUFFICES ASSUME T # {} PROVE FALSE
    OBVIOUS
  <2>1. PICK j \in T : \A l \in T : j <= l
    <3>1. T \in SUBSET Nat
      BY <1>1
    <3> HIDE DEF T
    <3> QED
      BY <3>1, LeastNumber
  <2>2. j \in a - 1 .. b - 1 /\ f[j] # f[a - 1]
    OBVIOUS
  <2>3. j \in Nat /\ j # a - 1 /\ a <= j /\ j < b
    BY <1>1, <2>2
  <2>4. j - 1 \in a - 1 .. b - 1 /\ ~(j <= j - 1) /\ j \in a .. b /\ j + 1 \in a .. b /\ j \in 1 .. n /\ j \in 0 .. n /\ j # n /\ j # 0
    BY ONLY <1>1, <2>3
  <2>5. f[j - 1] = f[a - 1]
    <3>1. j - 1 \notin T
      <4> HIDE DEF T
      <4> QED
        BY <2>1, <2>4
    <3> QED
      BY <2>4, <3>1
  <2>6. pattern[j + 1] # Star
    BY <1>1, <2>4
  <2>7. ~\E s \in splitGlob(pattern) : s.to = j
    <3>1. j \in 1 .. Len(pattern) /\ j # Len(pattern)
      BY <2>4 DEF n
    <3> QED
      BY <2>6, <3>1, Segments
  <2>8. f[j] = PosStep(pattern, value, f, j)
    BY <2>4 DEF n
  <2>9. f[j] = f[j - 1]
    BY <2>4, <2>7, <2>8 DEF PosStep
  <2> QED
    BY <2>2, <2>5, <2>9
<1>3. b - 1 \in a - 1 .. b - 1
  BY ONLY <1>1
<1>4. f[b - 1] = f[a - 1]
  BY <1>2, <1>3
<1> QED
  BY <1>4 DEF a, b

(* The candidates for a segment are the places where what precedes it may  *)
(* end, and, for the last one, what it ends with value.                    *)
LEMMA SegmentCandidates ==
  ASSUME NEW Char, NEW pattern \in Seq(Char), NEW value, Len(value) \in Nat, NEW f,
         NEW seg \in splitGlob(pattern),
         f[0] = 0, Greedy(pattern, value, f, seg.from - 1)
  PROVE  \A k : k \in CandidatesOf(pattern, seg, value, f[seg.from - 1]) <=>
                /\ k \in Occurs(pattern, seg, value, 0)
                /\ Cuts(pattern, value, seg.from - 1, k)
                /\ seg.to = Len(pattern) => k = Len(value) - Width(seg)
<1> DEFINE a == seg.from
           w == Width(seg)
           m == Len(value)
           pos == f[a - 1]
<1>1. /\ a \in Nat \ {0} /\ w \in Nat \ {0} /\ m \in Nat
      /\ a = 1 \/ pattern[a - 1] = Star
  BY LenProperties DEF splitGlob, Width
<1>2. /\ pos \in 0 .. m + 1
      /\ pos # m + 1 => Cuts(pattern, value, a - 1, pos)
      /\ \A p \in 0 .. m : Cuts(pattern, value, a - 1, p) => pos <= p
  BY DEF Greedy, Miss
<1>3. \A k, l : k \in Occurs(pattern, seg, value, l) <=>
             k \in l .. m - w /\ \A i \in a .. seg.to : value[k + 1 + (i - a)] = pattern[i]
  BY DEF Occurs
<1>4. \A k \in 0 .. m - w : k >= pos /\ (a = 1 => k = 0) <=> Cuts(pattern, value, a - 1, k)
  <2> TAKE k \in 0 .. m - w
  <2>1. k \in 0 .. m
    <3> HIDE DEF w, m, a
    <3> QED
      BY <1>1
  <2>2. CASE a = 1
    <3>1. Cuts(pattern, value, 0, k) <=> k = 0
      BY <1>1, CutsNothing
    <3>2. pos = 0 /\ a - 1 = 0
      BY <2>2
    <3> HIDE DEF a, w, m, pos
    <3> QED
      BY <2>1, <2>2, <3>1, <3>2
  <2>3. CASE a # 1
    <3>1. a - 1 \in Nat \ {0} /\ pattern[a - 1] = Star
      <4> HIDE DEF a, w, m
      <4> QED
        BY <1>1, <2>3
    <3>2. ASSUME k >= pos PROVE Cuts(pattern, value, a - 1, k)
      <4>1. pos \in 0 .. m /\ pos <= k /\ pos # m + 1
        <5> HIDE DEF a, w, m, pos
        <5> QED
          BY <1>1, <1>2, <2>1, <3>2
      <4>2. Cuts(pattern, value, a - 1, pos)
        BY <1>2, <4>1
      <4> HIDE DEF a, w, pos
      <4> QED
        BY <1>1, <2>1, <3>1, <4>1, <4>2, CutsStar
    <3> HIDE DEF a, w, m, pos
    <3> QED
      BY <1>1, <1>2, <2>1, <2>3, <3>2
  <2> QED
    BY <2>2, <2>3
<1>5. \A k : k \in pos .. m - w <=> k \in 0 .. m - w /\ k >= pos
  <2> HIDE DEF a, w, m, pos
  <2> QED
    BY <1>1, <1>2
<1>6. \A k : k \in CandidatesOf(pattern, seg, value, pos) <=>
             /\ k \in Occurs(pattern, seg, value, pos)
             /\ a = 1 => k = 0
             /\ seg.to = Len(pattern) => k = m - w
  BY DEF CandidatesOf
<1> HIDE DEF a, w, m, pos
<1>7. \A k : k \in CandidatesOf(pattern, seg, value, pos) <=>
             /\ k \in Occurs(pattern, seg, value, 0)
             /\ Cuts(pattern, value, a - 1, k)
             /\ seg.to = Len(pattern) => k = m - w
  BY <1>3, <1>4, <1>5, <1>6
<1> QED
  BY <1>7 DEF a, w, m, pos

(* Behind a segment the walk has found the least place, and behind the     *)
(* last one whether there is any.                                          *)
LEMMA BehindSegment ==
  ASSUME NEW Char, NEW pattern \in Seq(Char), NEW value, Len(value) \in Nat, NEW f,
         \A i \in 0 .. Len(pattern) : f[i] = PosStep(pattern, value, f, i),
         NEW seg \in splitGlob(pattern), Greedy(pattern, value, f, seg.from - 1)
  PROVE  /\ seg.to # Len(pattern) => Greedy(pattern, value, f, seg.to)
         /\ seg.to = Len(pattern) =>
              (f[seg.to] # Miss(value) <=> Cuts(pattern, value, seg.to, Len(value)))
<1> DEFINE a == seg.from
           b == seg.to
           n == Len(pattern)
           m == Len(value)
           w == Width(seg)
           pos == f[a - 1]
           found == CandidatesOf(pattern, seg, value, pos)
<1>1. b \in 1 .. n /\ b \in 0 .. n /\ 0 \in 0 .. n /\ b # 0 /\ m \in Nat /\ w \in Nat
  BY LenProperties DEF splitGlob, Width
<1>2. f[0] = 0
  BY <1>1 DEF PosStep
<1>3. f[b] = Walk(pattern, seg, value, pos)
  <2>1. seg = CHOOSE s \in splitGlob(pattern) : s.to = b
    <3>1. \A s, t \in splitGlob(pattern) : s.to = b /\ t.to = b => s = t
      <4> HIDE DEF b
      <4> QED
        BY <1>1, Segments
    <3> QED
      BY <3>1
  <2>2. f[b] = Walk(pattern, CHOOSE s \in splitGlob(pattern) : s.to = b, value, f[b - 1])
    BY <1>1 DEF PosStep
  <2>3. f[b - 1] = pos
    BY InsideSegment
  <2> QED
    BY <2>1, <2>2, <2>3
<1>4. \A k : k \in found <=>
             /\ k \in Occurs(pattern, seg, value, 0)
             /\ Cuts(pattern, value, a - 1, k)
             /\ b = n => k = m - w
  BY <1>2, SegmentCandidates
<1>5. \A p \in 0 .. m : Cuts(pattern, value, b, p) <=>
           \E k \in Occurs(pattern, seg, value, 0) : p = k + w /\ Cuts(pattern, value, a - 1, k)
  BY CutsSegment
<1>6. pos \in Nat
  BY <1>1 DEF Greedy, Miss
<1>7. \/ found = {} /\ f[b] = m + 1
      \/ /\ f[b] \in 0 .. m
         /\ \E k \in found : f[b] = k + w /\ \A j \in found : k <= j
  BY <1>3, <1>6, WalkIs DEF Miss
<1>8. \A k \in Occurs(pattern, seg, value, 0) : k \in 0 .. m - w
  BY DEF Occurs
<1> HIDE DEF a, b, n, m, w, pos, found
<1>9. ASSUME b # n PROVE Greedy(pattern, value, f, b)
  <2>1. \A p \in 0 .. m : Cuts(pattern, value, b, p) <=> \E k \in found : p = k + w
    BY <1>4, <1>5, <1>9
  <2>2. \A k \in found : k \in Nat
    BY <1>1, <1>4, <1>8
  <2>3. f[b] \in 0 .. m + 1
    BY <1>1, <1>7
  <2>4. f[b] # m + 1 => Cuts(pattern, value, b, f[b])
    BY <1>7, <2>1
  <2>5. ASSUME NEW p \in 0 .. m, Cuts(pattern, value, b, p) PROVE f[b] <= p
    <3>1. PICK j \in found : p = j + w
      BY <2>1, <2>5
    <3>2. PICK k \in found : f[b] = k + w /\ k <= j
      BY <1>7, <3>1
    <3> QED
      BY <1>1, <2>2, <3>1, <3>2
  <2> QED
    BY <2>3, <2>4, <2>5 DEF Greedy, Miss, m
<1>10. ASSUME b = n PROVE f[b] # m + 1 <=> Cuts(pattern, value, b, m)
  <2>1. Cuts(pattern, value, b, m) <=>
          \E k \in Occurs(pattern, seg, value, 0) : m = k + w /\ Cuts(pattern, value, a - 1, k)
    BY <1>1, <1>5
  <2>2. \A k \in Occurs(pattern, seg, value, 0) : m = k + w <=> k = m - w
    BY <1>1, <1>8
  <2>3. Cuts(pattern, value, b, m) <=> found # {}
    BY <1>4, <1>10, <2>1, <2>2
  <2>4. f[b] # m + 1 <=> found # {}
    BY <1>1, <1>7
  <2> QED
    BY <2>3, <2>4
<1> QED
  BY <1>9, <1>10 DEF b, n, m, Miss

(* A place between two characters of the pattern that is not inside of a   *)
(* segment.                                                                *)
Between(pattern, i) ==
  i = 0 \/ pattern[i] = Star \/ (i # Len(pattern) /\ pattern[i + 1] = Star)

(* There the walk is as short as it can be.                                *)
LEMMA WalkIsGreedy ==
  ASSUME NEW Char, NEW pattern \in Seq(Char), NEW value, Len(value) \in Nat, NEW f,
         \A i \in 0 .. Len(pattern) : f[i] = PosStep(pattern, value, f, i)
  PROVE  \A i \in 0 .. Len(pattern) : Between(pattern, i) => Greedy(pattern, value, f, i)
<1> DEFINE n == Len(pattern)
           T == {i \in 0 .. n : Between(pattern, i) /\ ~Greedy(pattern, value, f, i)}
<1>1. n \in Nat
  BY LenProperties
<1> SUFFICES ASSUME T # {} PROVE FALSE
  OBVIOUS
<1>2. PICK i \in T : \A l \in T : i <= l
  <2>1. T \in SUBSET Nat
    BY <1>1
  <2> HIDE DEF T
  <2> QED
    BY <2>1, LeastNumber
<1>3. i \in 0 .. n /\ Between(pattern, i) /\ ~Greedy(pattern, value, f, i)
  OBVIOUS
<1>4. \A l \in 0 .. n : l < i /\ Between(pattern, l) => Greedy(pattern, value, f, l)
  BY <1>1, <1>2, <1>3
<1> HIDE DEF T
<1>5. CASE i = 0
  <2>1. f[0] = 0
    BY <1>1 DEF PosStep
  <2>2. \A p : Cuts(pattern, value, 0, p) <=> p = 0
    BY CutsNothing
  <2>3. Greedy(pattern, value, f, 0)
    BY <2>1, <2>2 DEF Greedy, Miss
  <2> QED
    BY <1>3, <1>5, <2>3
<1>6. CASE i # 0 /\ pattern[i] = Star
  <2>1. i \in 1 .. n /\ i - 1 \in 0 .. n /\ i - 1 < i /\ i - 1 # n /\ (i - 1) + 1 = i /\ i \in Nat \ {0}
    BY <1>1, <1>3, <1>6
  <2>2. Between(pattern, i - 1)
    BY <1>6, <2>1 DEF Between
  <2>3. Greedy(pattern, value, f, i - 1)
    BY <1>4, <2>1, <2>2
  <2>4. ~\E seg \in splitGlob(pattern) : seg.to = i
    BY <1>6, <2>1, Segments
  <2>5. f[i] = f[i - 1]
    BY <1>3, <1>6, <2>4 DEF PosStep
  <2>6. \A p \in 0 .. Len(value) : Cuts(pattern, value, i, p) <=>
             \E k \in 0 .. Len(value) : Cuts(pattern, value, i - 1, k) /\ p >= k
    BY <1>6, <2>1, CutsNext DEF CutStep
  <2>7. Greedy(pattern, value, f, i)
    BY <2>3, <2>5, <2>6 DEF Greedy, Miss
  <2> QED
    BY <1>3, <2>7
<1>7. CASE i # 0 /\ pattern[i] # Star
  <2>1. i \in 1 .. n /\ i # n /\ pattern[i + 1] = Star
    BY <1>1, <1>3, <1>7 DEF Between
  <2>2. PICK seg \in splitGlob(pattern) : seg.to = i
    BY <1>7, <2>1, Segments
  <2> DEFINE a == seg.from
  <2>3. a \in 1 .. n /\ a <= i /\ (a = 1 \/ pattern[a - 1] = Star)
    BY <1>1, <2>2, LenProperties DEF splitGlob
  <2> HIDE DEF a
  <2>4. a - 1 \in 0 .. n /\ a - 1 < i /\ (a - 1 = 0 \/ pattern[a - 1] = Star)
    BY <1>1, <1>3, <2>3
  <2>5. Greedy(pattern, value, f, a - 1)
    BY <1>4, <2>4 DEF Between
  <2>6. Greedy(pattern, value, f, i)
    BY <2>1, <2>2, <2>5, BehindSegment DEF a
  <2> QED
    BY <1>3, <2>6
<1> QED
  BY <1>5, <1>6, <1>7

(* The walk that takes each segment at its first place decides whether the *)
(* glob denotes the value.                                                 *)
LEMMA StarGlob ==
  ASSUME NEW Char, NEW pattern \in Seq(Char), NEW value, Len(value) \in Nat, Has(pattern, Star)
  PROVE  globMatch(pattern, value) <=> Denotes(pattern, value)
<1> DEFINE n == Len(pattern)
<1>1. PICK f : /\ \A i \in 0 .. n : f[i] = PosStep(pattern, value, f, i)
               /\ globMatch(pattern, value) <=> f[n] # Miss(value)
  BY GlobUnfold
<1>2. Denotes(pattern, value) <=> Cuts(pattern, value, n, Len(value))
  BY DenotesIsCuts
<1>3. n \in Nat /\ n # 0 /\ DOMAIN pattern = 1 .. n
  BY LenProperties DEF Has
<1>4. \A i \in 0 .. n : Between(pattern, i) => Greedy(pattern, value, f, i)
  BY <1>1, WalkIsGreedy
<1>5. CASE pattern[n] = Star
  <2>1. Greedy(pattern, value, f, n)
    <3>1. n \in 0 .. n /\ Between(pattern, n)
      BY <1>3, <1>5 DEF Between
    <3> HIDE DEF n
    <3> QED
      BY <1>4, <3>1
  <2>2. n \in Nat \ {0}
    BY <1>3
  <2>3. ASSUME f[n] # Miss(value) PROVE Cuts(pattern, value, n, Len(value))
    <3>1. f[n] \in 0 .. Len(value) /\ f[n] <= Len(value) /\ Len(value) \in 0 .. Len(value) /\ Cuts(pattern, value, n, f[n])
      BY <2>1, <2>3 DEF Greedy, Miss
    <3> HIDE DEF n
    <3> QED
      BY <1>5, <2>2, <3>1, CutsStar
  <2>4. ASSUME Cuts(pattern, value, n, Len(value)) PROVE f[n] # Miss(value)
    BY <2>1, <2>4 DEF Greedy, Miss
  <2> QED
    BY <1>1, <1>2, <2>3, <2>4
<1>6. CASE pattern[n] # Star
  <2>1. n \in 1 .. n
    BY <1>3
  <2>2. PICK seg \in splitGlob(pattern) : seg.to = n
    BY <1>6, <2>1, Segments
  <2> DEFINE a == seg.from
  <2>3. a \in 1 .. n /\ (a = 1 \/ pattern[a - 1] = Star)
    BY <1>3, <2>2 DEF splitGlob
  <2> HIDE DEF a, n
  <2>4. a - 1 \in 0 .. n /\ (a - 1 = 0 \/ pattern[a - 1] = Star)
    BY <1>3, <2>3
  <2>5. Greedy(pattern, value, f, a - 1)
    BY <1>4, <2>4 DEF Between
  <2>6. f[n] # Miss(value) <=> Cuts(pattern, value, n, Len(value))
    BY <1>1, <2>2, <2>5, BehindSegment DEF a, n
  <2> QED
    BY <1>1, <1>2, <2>6
<1> QED
  BY <1>5, <1>6

(* A glob without a star means itself. *)
LEMMA PlainGlob ==
  ASSUME NEW Char, NEW pattern \in Seq(Char), NEW value \in Seq(Char), ~Has(pattern, Star)
  PROVE  globMatch(pattern, value) <=> Denotes(pattern, value)
<1> DEFINE n == Len(pattern)
<1>1. n \in Nat /\ DOMAIN pattern = 1 .. n /\ Len(value) \in Nat /\ \A i \in 1 .. n : pattern[i] # Star
  BY LenProperties DEF Has
<1>2. globMatch(pattern, value) <=> pattern = value
  BY DEF globMatch
<1>3. ASSUME pattern = value PROVE Denotes(pattern, value)
  <2> DEFINE cut == [i \in 0 .. n |-> i]
  <2>1. cut \in [0 .. Len(pattern) -> 0 .. Len(value)] /\ cut[0] = 0 /\ cut[Len(pattern)] = Len(value)
    BY <1>1, <1>3
  <2>2. \A i \in 1 .. n : cut[i] = cut[i - 1] + 1 /\ value[cut[i]] = pattern[i]
    BY <1>1, <1>3
  <2> HIDE DEF cut
  <2> QED
    BY <1>1, <2>1, <2>2 DEF Denotes
<1>4. ASSUME Denotes(pattern, value) PROVE pattern = value
  <2>1. PICK cut \in [0 .. n -> 0 .. Len(value)] :
          /\ cut[0] = 0 /\ cut[n] = Len(value)
          /\ \A i \in 1 .. n : cut[i] = cut[i - 1] + 1 /\ value[cut[i]] = pattern[i]
    BY <1>1, <1>4 DEF Denotes
  <2> DEFINE T == {i \in 0 .. n : cut[i] # i}
  <2>2. T = {}
    <3> SUFFICES ASSUME T # {} PROVE FALSE
      OBVIOUS
    <3>1. PICK m \in T : \A k \in T : m <= k
      <4>1. T \in SUBSET Nat
        BY <1>1
      <4> HIDE DEF T
      <4> QED
        BY <4>1, LeastNumber
    <3>2. m # 0 /\ m \in 1 .. n
      BY <1>1, <2>1, <3>1
    <3>3. cut[m - 1] = m - 1
      BY <1>1, <3>1, <3>2
    <3>4. cut[m] = m
      BY <1>1, <2>1, <3>2, <3>3
    <3> QED
      BY <3>1, <3>4
  <2>3. Len(value) = n /\ \A i \in 1 .. n : value[i] = pattern[i]
    <3>1. \A i \in 0 .. n : cut[i] = i
      BY <2>2
    <3>2. n \in 0 .. n /\ \A i \in 1 .. n : i \in 0 .. n
      BY <1>1
    <3>3. Len(value) = n
      BY <2>1, <3>1, <3>2
    <3>4. \A i \in 1 .. n : cut[i] = i
      BY <3>1, <3>2
    <3> QED
      BY <2>1, <3>3, <3>4
  <2> QED
    BY <2>3, SeqEqual
<1> QED
  BY <1>2, <1>3, <1>4

(* So does the comparison of one without.                                  *)
LEMMA GlobDecides ==
  ASSUME NEW Char, NEW pattern \in Seq(Char), NEW value \in Seq(Char)
  PROVE  globMatch(pattern, value) <=> Denotes(pattern, value)
BY PlainGlob, StarGlob, LenProperties

(* A filter decides of every envelope as its globs mean.                   *)
LEMMA FiltersDecide == FiltersAgree
<1> SUFFICES ASSUME NEW s \in Sub, NEW env \in Envelopes
             PROVE  filterMatches(Filter[s], env) <=> Wants(Filter[s], env)
  BY DEF FiltersAgree
<1> DEFINE ev == Filter[s].events
           ch == Filter[s].channels
           Char == Letter \cup {Star}
<1>0. Seq(Letter) \subseteq Seq(Char)
  BY SeqMonotonic
<1>1. \A p \in ev \cup ch, v \in Seq(Char) : globMatch(p, v) <=> Denotes(p, v)
  BY TextAssumption, GlobDecides
<1>2. IF env.type = "event" THEN env.name \in Seq(Letter)
      ELSE env.channel \in Seq(Letter)
  <2>1. CASE env \in Envelope
    BY <2>1, TextAssumption
  <2>2. CASE \E c \in Conn, a \in {"connected", "disconnected"} : env = Lifecycle(c, a)
    BY <2>2, WsAdapterAssumption DEF Lifecycle
  <2> QED
    BY <2>1, <2>2 DEF Envelopes
<1> HIDE DEF Char
<1>3. CASE env.type = "event"
  <2>1. ~HasChannel(env) /\ env.name \in Seq(Char)
    BY <1>0, <1>2, <1>3 DEF HasChannel, envelopeChannel
  <2>2. filterMatches(Filter[s], env) <=> (ev # {} => \E p \in ev : globMatch(p, env.name))
    BY <1>3, <2>1 DEF filterMatches, globMatchAny
  <2>3. Wants(Filter[s], env) <=> ev = {} \/ \E p \in ev : Denotes(p, env.name)
    BY <1>3 DEF Wants, Meets
  <2> QED
    BY <1>1, <2>1, <2>2, <2>3
<1>4. CASE env.type # "event"
  <2>1. /\ envelopeChannel(env) = env.channel /\ env.channel \in Seq(Char)
        /\ HasChannel(env) <=> env.channel # <<>>
    BY <1>0, <1>2, <1>4 DEF HasChannel, envelopeChannel
  <2>2. filterMatches(Filter[s], env) <=>
          (ch # {} /\ env.channel # <<>> => \E p \in ch : globMatch(p, env.channel))
    BY <1>4, <2>1 DEF filterMatches, globMatchAny
  <2>3. Wants(Filter[s], env) <=>
          ch = {} \/ (\E p \in ch : Denotes(p, env.channel)) \/ env.channel = <<>>
    BY <1>4 DEF Wants, Meets
  <2> QED
    BY <1>1, <2>1, <2>2, <2>3
<1> QED
  BY <1>3, <1>4

(* globMatch (manage_ws.go) takes every segment of a glob at its first     *)
(* occurrence and never goes back.  For patterns and values of any length, *)
(* over any characters, with any number of stars, that decides exactly     *)
(* whether the glob denotes the value, which is defined without a walk.    *)
THEOREM GlobsAreDecided == WsSpec => []GlobAgrees
<1>1. GlobsDecide
  <2> SUFFICES ASSUME NEW pattern \in SeqOf(Letter \cup {Star}, MaxPattern), NEW value \in SeqOf(Letter, MaxValue)
               PROVE  globMatch(pattern, value) <=> Denotes(pattern, value)
    BY DEF GlobsDecide
  <2> DEFINE Char == Letter \cup {Star}
  <2>1. /\ \E m \in 0 .. MaxPattern : pattern \in [1 .. m -> Char]
        /\ \E m \in 0 .. MaxValue : value \in [1 .. m -> Letter]
    BY DEF SeqOf
  <2>2. pattern \in Seq(Char) /\ value \in Seq(Char)
    BY <2>1, GlobAssumption
  <2> HIDE DEF Char
  <2> QED
    BY <2>2, GlobDecides
<1>2. GlobAgrees
  BY <1>1 DEF GlobAgrees
<1> QED
  BY <1>2, PTL

-----------------------------------------------------------------------------
(* A subscriber has received exactly what its filters ask for of what each *)
(* emitter sent since it joined, in order, and after its end a beginning   *)
(* of that, whoever joins and leaves meanwhile (manage_ws.go): the copy of *)
(* the registry that a broadcast works from never costs or repeats a       *)
(* frame.                                                                  *)
THEOREM StreamsComplete == WsSpec => []StreamComplete
<1> DEFINE Inv == WsInv /\ \A s \in Sub, e \in Emitter : Streams(s, e)
<1>1. WsInit => Inv
  BY WsInvInitially, StreamsInitially
<1>2. Inv /\ [WsNext]_wsVars => Inv'
  <2> SUFFICES ASSUME Inv, [WsNext]_wsVars PROVE Inv'
    OBVIOUS
  <2>1. WsInv'
    BY ConsumerStays
  <2>2. CASE WsNext
    BY <2>1, <2>2, FiltersDecide, StreamsKept DEF WsInv
  <2>3. CASE UNCHANGED wsVars
    <3>1. ASSUME NEW s \in Sub, NEW e \in Emitter PROVE Streams(s, e)'
      <4>1. Streams(s, e)
        OBVIOUS
      <4>2. sock' = sock /\ subs' = subs /\ handler' = handler /\ cast' = cast /\ emitted' = emitted /\ since' = since
        BY <2>3 DEF wsVars, streamVars
      <4> HIDE DEF Inv
      <4> QED
        BY <4>1, <4>2 DEF Streams, WrittenTo
    <3> QED
      BY <2>1, <3>1
  <2> QED
    BY <2>2, <2>3
<1>3. Inv => StreamComplete
  <2> SUFFICES ASSUME Inv, NEW s \in Sub, NEW e \in Emitter, handler[s] # "none"
               PROVE  IF handler[s] = "reading" THEN Received(s, e) = Owed(s, e)
                      ELSE IsPrefix(Received(s, e), Owed(s, e))
    BY DEF StreamComplete
  <2>1. Streams(s, e) /\ SocketsTyped /\ StreamTyped
    BY DEF WsInv
  <2>2. Received(s, e) = Unpacked(Keep(sock[s].out, FramesOf(e)))
    BY <2>1, ReceivedIs
  <2>3. Owed(s, e) = Share(s, emitted[e], since[s][e], WrittenTo(s, e))
    BY <2>1, WrittenToIs, OwedIs
  <2>4. handler[s] \in {"reading", "ended"}
    BY <2>1 DEF StreamTyped
  <2> QED
    BY <2>1, <2>2, <2>3, <2>4 DEF Streams
<1> QED
  BY <1>1, <1>2, <1>3, PTL DEF WsSpec
=============================================================================
