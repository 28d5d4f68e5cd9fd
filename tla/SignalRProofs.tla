---------------------------- MODULE SignalRProofs ----------------------------
(***************************************************************************)
(* For any number of hubs, clients, streams and pushes: ids are unique, no *)
(* push overtakes a snapshot, and a push reaches every stream that stays   *)
(* open for it once.                                                       *)
(***************************************************************************)
EXTENDS SignalRHub, FilterProofs, FiniteSetTheorems

(* The frames of the model, and the pushes. *)
Frame == [kind : {"handshake", "item", "completion", "invocation"},
          inv : Inv \cup {None}, by : Push \cup {None}]

PushRecord == [pc : {"idle", "writing", "choosing", "ended"}, kind : {"all", "each", "one", "connect"},
               chan : Chan \cup {None}, who : HubIndex \cup Client \cup {None},
               todo : SUBSET Client, out : SUBSET (Client \X Frame), open : SUBSET (Client \X Inv),
               opened : SUBSET Client]

Where == {"none", "upgrading", "connecting", "handshake", "reading", "opening", "completing", "leaving", "ended"}

HubTyped ==
  /\ idSeq \in [HubIndex -> Nat]
  /\ tokens \in [HubIndex -> SUBSET Nat]
  /\ DOMAIN conns = HubIndex /\ \A h \in HubIndex : IsFiniteSet(DOMAIN conns[h])
  /\ pc \in [Client -> Where]
  /\ DOMAIN id = Client /\ DOMAIN cur = Client
  /\ streams \in [Client -> [Inv -> Chan \cup {None}]]
  /\ sock \in [Client -> {"none", "open", "closing", "closed"}]
  /\ frames \in [Client -> Seq(Frame)]
  /\ push \in [Push -> PushRecord]

(* A client that has an id, and one that is upgraded. *)
Named(c)   == pc[c] # "none"
Started(c) == pc[c] \notin {"none", "upgrading"}

IdOfHub(h, x) == \E n \in 1 .. idSeq[h] : x = <<"signalr", n>> \/ x = <<"signalr-fresh", n>>

(* Ids come from the counter of the hub, each is a token or a client's,    *)
(* and the registry lists clients under their own.                         *)
IdsAgree ==
  /\ \A c \in Client : IF Named(c) THEN IdOfHub(HubOf[c], id[c]) ELSE id[c] = None
  /\ \A c, d \in Client : Named(c) /\ Named(d) /\ HubOf[c] = HubOf[d] /\ id[c] = id[d] => c = d
  /\ \A h \in HubIndex : \A n \in tokens[h] :
       /\ n \in 1 .. idSeq[h]
       /\ \A c \in Client : Named(c) /\ HubOf[c] = h => id[c] # <<"signalr", n>>
  /\ \A h \in HubIndex : \A x \in DOMAIN conns[h] :
       conns[h][x] \in Client /\ HubOf[conns[h][x]] = h /\ id[conns[h][x]] = x /\ Started(conns[h][x])

(* A stream has its snapshot, or a socket to which nothing is written any  *)
(* more.                                                                   *)
Ready(c, i) ==
  (\E k \in DOMAIN frames[c] : frames[c][k] = Item(i, None)) \/ sock[c] \in {"closing", "closed"}

SnapshotsFirst ==
  /\ \A c \in Client : ~Started(c) => sock[c] = "none"
  /\ \A c \in Client : sock[c] = "none" => pc[c] \in {"none", "upgrading", "ended"}
  /\ \A c \in Client, i \in Inv : streams[c][i] # None => Ready(c, i) /\ Started(c)
  /\ \A c \in Client : pc[c] = "opening" => cur[c] \in Inv \X Chan /\ Ready(c, cur[c][1])
  /\ \A c \in Client : pc[c] = "completing" => cur[c] \in Inv \X {None}
  /\ \A p \in Push : push[p].chan \in Chan \/ (push[p].todo = {} /\ push[p].open = {})
  /\ \A p \in Push : \A d \in push[p].out : d[2].kind = "item" => Ready(d[1], d[2].inv)
  /\ SnapshotComesFirst

(* What a push has written and has to write. *)
Told(c, p) == \E k \in DOMAIN frames[c] : frames[c][k].by = p

PushesOnce ==
  /\ \A p \in Push : /\ push[p].pc \in {"idle", "ended"} => push[p].out = {} /\ push[p].todo = {}
                     /\ push[p].pc = "writing" => push[p].todo = {}
  /\ \A p \in Push, c \in Client : push[p].pc = "idle" \/ c \in push[p].todo => ~Told(c, p)
  /\ \A p \in Push : \A c \in push[p].todo : Started(c)
  /\ \A p \in Push : \A d \in push[p].out :
       /\ d[2] = Invocation(p) \/ \E i \in Inv : d[2] = Item(i, p)
       /\ Started(d[1]) /\ d[1] \notin push[p].todo
       /\ \A k \in DOMAIN frames[d[1]] : frames[d[1]][k] # d[2]
  /\ OncePerStream

(* A stream that was not cancelled, nor its id answered or used again, on  *)
(* a registered connection.                                                *)
Kept(c, i) ==
  /\ sock[c] = "open" /\ Registered(c)
  /\ \A k \in DOMAIN frames[c] : frames[c][k] # Completion(i)
  /\ \A j, k \in DOMAIN frames[c] : frames[c][j] = Item(i, None) /\ frames[c][k] = Item(i, None) => j = k
  /\ ~(pc[c] = "completing" /\ cur[c][1] = i)

Reaches(p, c, i) ==
  /\ streams[c][i] = push[p].chan
  /\ \/ \E k \in DOMAIN frames[c] : frames[c][k] = Item(i, p)
     \/ <<c, Item(i, p)>> \in push[p].out
     \/ c \in push[p].todo

StreamsReached ==
  /\ \A c \in Client : pc[c] = "opening" /\ sock[c] = "open" /\ streams[c][cur[c][1]] # None =>
       \E j, k \in DOMAIN frames[c] : /\ j # k
                                      /\ frames[c][j] = Item(cur[c][1], None) /\ frames[c][k] = Item(cur[c][1], None)
  /\ \A p \in Push : push[p].kind = "all" => push[p].todo = {}
  /\ \A p \in Push : \A s \in push[p].open :
       /\ Started(s[1])
       /\ push[p].kind # "one" /\ Kept(s[1], s[2]) => Reaches(p, s[1], s[2])
       /\ push[p].kind = "all" => /\ \A d \in push[p].out : d[2] # Invocation(p)
                                  /\ \A d \in Client : \A k \in DOMAIN frames[d] : frames[d][k] # Invocation(p)

HubInv == HubTyped /\ IdsAgree /\ SnapshotsFirst /\ PushesOnce /\ StreamsReached
-----------------------------------------------------------------------------
(* Frames and ids. *)

(* A frame is added behind the others. *)
LEMMA FrameAdded ==
  ASSUME NEW s \in Seq(Frame), NEW f \in Frame
  PROVE  LET t == Append(s, f)
         IN /\ t \in Seq(Frame)
            /\ \E n \in Nat : /\ DOMAIN s = 1 .. n /\ DOMAIN t = 1 .. n + 1 /\ t[n + 1] = f
                              /\ \A k \in 1 .. n : t[k] = s[k]
<1> DEFINE t == Append(s, f)
           n == Len(s)
<1>1. /\ t \in Seq(Frame) /\ Len(t) = n + 1 /\ t[n + 1] = f /\ n \in Nat
      /\ \A k \in 1 .. n : t[k] = s[k]
  BY AppendProperties, LenProperties
<1> HIDE DEF t
<1>2. DOMAIN t = 1 .. n + 1 /\ DOMAIN s = 1 .. n
  BY <1>1, LenProperties
<1> QED
  BY <1>1, <1>2 DEF t

(* A write concerns one client, and nobody once its socket is closing.     *)
LEMMA WriteIs ==
  ASSUME frames \in [Client -> Seq(Frame)], NEW c \in Client, NEW f \in Frame, Write(c, f)
  PROVE  /\ frames' \in [Client -> Seq(Frame)]
         /\ \A d \in Client : d # c => frames'[d] = frames[d]
         /\ frames'[c] = IF sock[c] = "open" THEN Append(frames[c], f) ELSE frames[c]
<1>1. frames[c] \in Seq(Frame) /\ Append(frames[c], f) \in Seq(Frame)
  BY FrameAdded
<1> QED
  BY <1>1 DEF Write

(* What a client can find in its frames stays there. *)
LEMMA FramesKept ==
  ASSUME frames \in [Client -> Seq(Frame)], NEW c \in Client, NEW f \in Frame, Write(c, f), NEW d \in Client
  PROVE  /\ \A k \in DOMAIN frames[d] : k \in DOMAIN frames'[d] /\ frames'[d][k] = frames[d][k]
         /\ \A k \in DOMAIN frames'[d] \ DOMAIN frames[d] :
              d = c /\ sock[c] = "open" /\ frames'[d][k] = f /\ \A j \in DOMAIN frames[d] : j \in 1 .. k - 1
         /\ \A j, k \in DOMAIN frames'[d] \ DOMAIN frames[d] : j = k
         /\ d = c /\ sock[c] = "open" => \E k \in DOMAIN frames'[d] : k \notin DOMAIN frames[d] /\ frames'[d][k] = f
<1>1. CASE d = c /\ sock[c] = "open"
  <2>1. frames'[d] = Append(frames[d], f) /\ frames[d] \in Seq(Frame)
    BY <1>1, WriteIs
  <2>2. PICK n \in Nat : /\ DOMAIN frames[d] = 1 .. n /\ DOMAIN frames'[d] = 1 .. n + 1 /\ frames'[d][n + 1] = f
                         /\ \A k \in 1 .. n : frames'[d][k] = frames[d][k]
    BY <2>1, FrameAdded
  <2> QED
    BY <1>1, <2>2
<1>2. CASE ~(d = c /\ sock[c] = "open")
  <2>1. frames'[d] = frames[d]
    BY <1>2, WriteIs
  <2> QED
    BY <1>2, <2>1
<1> QED
  BY <1>1, <1>2

(* A write to an open socket is found in the client's frames. *)
LEMMA WriteArrives ==
  ASSUME frames \in [Client -> Seq(Frame)], NEW c \in Client, NEW f \in Frame, Write(c, f), sock[c] = "open"
  PROVE  \E k \in DOMAIN frames'[c] : frames'[c][k] = f
<1>1. frames'[c] = Append(frames[c], f) /\ frames[c] \in Seq(Frame)
  BY WriteIs
<1>2. PICK n \in Nat : DOMAIN frames'[c] = 1 .. n + 1 /\ frames'[c][n + 1] = f
  BY <1>1, FrameAdded
<1> QED
  BY <1>2

(* The frames of the model are frames, and all different. *)
LEMMA FrameKinds ==
  /\ HandshakeReply \in Frame
  /\ \A i \in Inv, p \in Push \cup {None} : Item(i, p) \in Frame
  /\ \A i \in Inv : Completion(i) \in Frame
  /\ \A p \in Push : Invocation(p) \in Frame
  /\ HandshakeReply.kind = "handshake" /\ HandshakeReply.by = None
  /\ \A i, p : Item(i, p).kind = "item" /\ Item(i, p).by = p /\ Item(i, p).inv = i
  /\ \A i : Completion(i).kind = "completion" /\ Completion(i).by = None /\ Completion(i).inv = i
  /\ \A p : Invocation(p).kind = "invocation" /\ Invocation(p).by = p
BY DEF HandshakeReply, Item, Completion, Invocation, Frame

(* The ids of the model take a number each. *)
LEMMA IdKinds ==
  /\ \A m, n : <<"signalr", m>> = <<"signalr", n>> => m = n
  /\ \A m, n : <<"signalr-fresh", m>> = <<"signalr-fresh", n>> => m = n
  /\ \A m, n : <<"signalr", m>> # <<"signalr-fresh", n>>
OBVIOUS

(* What a push has to write. *)
LEMMA DeliveriesAre ==
  ASSUME NEW p \in Push, NEW chan, NEW cs \in SUBSET Client
  PROVE  /\ buildStreamDeliveries(p, chan, cs) \in SUBSET (Client \X Frame)
         /\ \A d \in buildStreamDeliveries(p, chan, cs) :
              /\ d[1] \in cs
              /\ \/ d[2] = Invocation(p) /\ \A c \in cs : Streams(c, chan) = {}
                 \/ \E i \in Inv : d[2] = Item(i, p) /\ streams[d[1]][i] = chan
         /\ \A c \in cs, i \in Inv : streams[c][i] = chan => <<c, Item(i, p)>> \in buildStreamDeliveries(p, chan, cs)
<1> DEFINE items == Items(p, chan, cs)
           out == buildStreamDeliveries(p, chan, cs)
<1>1. \A d : d \in items <=> \E c \in cs : \E i \in Streams(c, chan) : d = <<c, Item(i, p)>>
  BY DEF Items
<1>2. \A c : \A i : i \in Streams(c, chan) <=> i \in Inv /\ streams[c][i] = chan
  BY DEF Streams
<1>3. CASE items # {}
  <2>1. out = items
    BY <1>3 DEF buildStreamDeliveries
  <2>2. \A d \in items : \E c \in cs, i \in Inv : d = <<c, Item(i, p)>> /\ streams[c][i] = chan
    BY <1>1, <1>2
  <2>3. \A d \in items : d \in Client \X Frame /\ d[1] \in cs /\ \E i \in Inv : d[2] = Item(i, p) /\ streams[d[1]][i] = chan
    BY <2>2, FrameKinds
  <2>4. \A c \in cs, i \in Inv : streams[c][i] = chan => <<c, Item(i, p)>> \in items
    BY <1>1, <1>2
  <2> HIDE DEF items, out
  <2> QED
    BY <2>1, <2>3, <2>4 DEF out
<1>4. CASE items = {}
  <2>1. out = {<<c, Invocation(p)>> : c \in cs}
    BY <1>4 DEF buildStreamDeliveries
  <2>2. \A c \in cs : Streams(c, chan) = {}
    BY <1>1, <1>4
  <2>3. \A c \in cs, i \in Inv : streams[c][i] # chan
    BY <1>2, <2>2
  <2>4. \A d \in out : d \in Client \X Frame /\ d[1] \in cs /\ d[2] = Invocation(p)
    BY <2>1, FrameKinds
  <2> HIDE DEF items, out
  <2> QED
    BY <2>2, <2>3, <2>4 DEF out
<1> QED
  BY <1>3, <1>4

(* The registry of a hub is finite, and so is what a push invokes. *)
LEMMA InvocationsCounted ==
  ASSUME NEW p \in Push, NEW chan, NEW cs \in SUBSET Client, IsFiniteSet(cs)
  PROVE  Invocations(buildStreamDeliveries(p, chan, cs)) \in Nat
<1> DEFINE out == buildStreamDeliveries(p, chan, cs)
           T == {d \in out : d[2].kind = "invocation"}
<1>1. IsFiniteSet(T)
  <2>1. CASE Items(p, chan, cs) # {}
    <3>1. \A d \in out : d[2].kind = "item"
      BY <2>1, FrameKinds DEF buildStreamDeliveries, Items
    <3>2. T = {}
      BY <3>1
    <3> QED
      BY <3>2, FS_EmptySet
  <2>2. CASE Items(p, chan, cs) = {}
    <3> DEFINE U == {<<c, Invocation(p)>> : c \in cs}
               f == [c \in cs |-> <<c, Invocation(p)>>]
    <3>1. out = U
      BY <2>2 DEF buildStreamDeliveries
    <3>2. f \in Surjection(cs, U)
      BY DEF Surjection
    <3>3. IsFiniteSet(U)
      BY <3>2, FS_Surjection
    <3>4. T \in SUBSET U
      BY <3>1
    <3> HIDE DEF T, U
    <3> QED
      BY <3>3, <3>4, FS_Subset
  <2> QED
    BY <2>1, <2>2
<1> HIDE DEF T
<1>2. Cardinality(T) \in Nat
  BY <1>1, FS_CardinalityType
<1> QED
  BY <1>2 DEF Invocations, T

(* The connections of a hub are finitely many clients. *)
LEMMA ConnectionsAre ==
  ASSUME HubTyped, IdsAgree, NEW h \in HubIndex
  PROVE  /\ Connections(h) \in SUBSET Client /\ IsFiniteSet(Connections(h))
         /\ \A c \in Client : c \in Connections(h) <=> HubOf[c] = h /\ Registered(c)
         /\ \A c \in Connections(h) : Started(c)
<1> DEFINE D == DOMAIN conns[h]
           f == [x \in D |-> conns[h][x]]
<1>1. IsFiniteSet(D) /\ \A x \in D : conns[h][x] \in Client /\ HubOf[conns[h][x]] = h /\ Started(conns[h][x])
  BY DEF HubTyped, IdsAgree
<1>2. f \in Surjection(D, Connections(h))
  BY DEF Surjection, Connections
<1>3. IsFiniteSet(Connections(h))
  <2> HIDE DEF f, D
  <2> QED
    BY <1>1, <1>2, FS_Surjection
<1> QED
  BY <1>1, <1>3 DEF Connections, Registered

(* A step of a forced disconnection is about one client, under its id:     *)
(* its socket closes, or it leaves its hub.                                *)
LEMMA DisconnectIs ==
  ASSUME HubTyped, IdsAgree, NEW c \in Client, Disconnect(c)
  PROVE  \E h \in HubIndex, v \in Client :
           /\ HubOf[v] = h /\ id[v] = id[c] /\ id[c] \in DOMAIN conns[h] /\ conns[h][id[c]] = v
           /\ Started(v)
           /\ sock' = sock \/ \E s \in {"closing", "closed"} : sock' = [sock EXCEPT ![v] = s]
           /\ conns' = conns \/ conns' = [conns EXCEPT ![h] = Without(@, id[c])]
<1> DEFINE holders == {h \in HubIndex : id[c] \in DOMAIN conns[h]}
           least == CHOOSE k \in holders : \A l \in holders : k <= l
<1>1. holders \in SUBSET Nat
  BY HubAssumption DEF HubIndex
<1>2. HubOf[c] \in holders /\ conns[HubOf[c]][id[c]] = c
  <2>1. PICK n \in DOMAIN conns[HubOf[c]] : conns[HubOf[c]][n] = c
    BY DEF Disconnect, DisconnectClose, DisconnectUnregister, Registered
  <2>2. HubOf[c] \in HubIndex
    BY HubAssumption DEF HubIndex
  <2>3. id[c] = n
    BY <2>1, <2>2 DEF IdsAgree
  <2> QED
    BY <2>1, <2>2, <2>3
<1>3. \E k \in holders : \A l \in holders : k <= l
  <2> HIDE DEF holders
  <2> QED
    BY <1>1, <1>2, LeastNumber
<1>4. least \in holders
  <2> HIDE DEF holders
  <2> QED
    BY <1>3
<1>5. CASE DisconnectUnregister(c)
  <2>1. Started(c)
    BY <1>2 DEF IdsAgree
  <2> QED
    BY <1>2, <1>5, <2>1 DEF DisconnectUnregister
<1>6. ASSUME NEW abrupt \in BOOLEAN, DisconnectClose(c, abrupt)
      PROVE  \E s \in {"closing", "closed"} : sock' = sock \/ sock' = [sock EXCEPT ![conns[least][id[c]]] = s]
  <2>1. /\ sock' = [sock EXCEPT ![conns[least][id[c]]] =
                      IF abrupt THEN "closed" ELSE IF @ = "open" THEN "closing" ELSE @]
        /\ sock \in [Client -> {"none", "open", "closing", "closed"}]
    BY <1>6 DEF DisconnectClose, HubTyped
  <2> HIDE DEF least
  <2> DEFINE v == conns[least][id[c]]
  <2>2. CASE abrupt
    BY <2>1, <2>2
  <2>3. CASE ~abrupt /\ sock[v] = "open"
    BY <2>1, <2>3
  <2>4. CASE ~abrupt /\ sock[v] # "open"
    <3>1. sock' = sock
      BY <2>1, <2>4
    <3> QED
      BY <3>1
  <2> QED
    BY <2>2, <2>3, <2>4
<1>7. ASSUME NEW abrupt \in BOOLEAN, DisconnectClose(c, abrupt) PROVE conns' = conns
  BY <1>7 DEF DisconnectClose, connVars
<1> HIDE DEF least
<1>8. least \in HubIndex /\ id[c] \in DOMAIN conns[least]
  BY <1>4
<1>9. LET v == conns[least][id[c]]
      IN v \in Client /\ HubOf[v] = least /\ id[v] = id[c] /\ Started(v)
  BY <1>8 DEF IdsAgree
<1> QED
  BY <1>5, <1>6, <1>7, <1>8, <1>9 DEF Disconnect

(* The maps of a registry stay finite. *)
LEMMA MapsStayFinite ==
  ASSUME NEW map, IsFiniteSet(DOMAIN map), NEW x, NEW c
  PROVE  IsFiniteSet(DOMAIN With(map, x, c)) /\ IsFiniteSet(DOMAIN Without(map, x))
<1>1. DOMAIN With(map, x, c) = DOMAIN map \cup {x} /\ DOMAIN Without(map, x) = DOMAIN map \ {x}
  BY DEF With, Without
<1> QED
  BY <1>1, FS_AddElement, FS_RemoveElement

(* A push whose step keeps its record one of the model. *)
LEMMA PushTyped ==
  ASSUME push \in [Push -> PushRecord], NEW p \in Push, NEW r \in PushRecord
  PROVE  [push EXCEPT ![p] = r] \in [Push -> PushRecord]
OBVIOUS

(* Every step keeps the types. *)
LEMMA TypesStay ==
  ASSUME HubTyped, IdsAgree, SnapshotsFirst, Next
  PROVE  HubTyped'
<1> USE DEF HubTyped
<1>h. HubOf \in [Client -> HubIndex] /\ None \notin Push /\ None \notin Chan
  BY HubAssumption DEF HubIndex
<1>p. \A p \in Push : push[p] \in PushRecord
  OBVIOUS
<1>1. ASSUME NEW h \in HubIndex, Negotiate(h) PROVE HubTyped'
  BY <1>1 DEF Negotiate
<1>2. ASSUME NEW c \in Client, NEW n \in 1 .. MaxToken, consumeToken(c, n) PROVE HubTyped'
  BY <1>h, <1>2 DEF consumeToken, Where
<1>3. ASSUME NEW c \in Client, freshToken(c) PROVE HubTyped'
  BY <1>h, <1>3 DEF freshToken, Where
<1>4. ASSUME NEW c \in Client, UpgradeFails(c) PROVE HubTyped'
  BY <1>4 DEF UpgradeFails, connVars, Where
<1>5. ASSUME NEW c \in Client, register(c) PROVE HubTyped'
  <2>1. conns' = [conns EXCEPT ![HubOf[c]] = With(@, id[c], c)]
    BY <1>5 DEF register
  <2>2. DOMAIN conns' = HubIndex /\ \A h \in HubIndex : IsFiniteSet(DOMAIN conns'[h])
    BY <1>h, <2>1, MapsStayFinite
  <2> QED
    BY <1>5, <2>2 DEF register, Where
<1>6. ASSUME NEW c \in Client, NEW p \in Push, NEW chan \in Chan, ConnectHook(c, p, chan) PROVE HubTyped'
  <2>1. [NoPush EXCEPT !.pc = "choosing", !.kind = "connect", !.chan = chan, !.who = c, !.todo = {c}] \in PushRecord
    BY DEF NoPush, PushRecord
  <2> QED
    BY <1>6, <2>1, PushTyped DEF ConnectHook, connVars
<1>7. ASSUME NEW c \in Client, HooksReturn(c) PROVE HubTyped'
  BY <1>7 DEF HooksReturn, connVars, Where
<1>8. ASSUME NEW c \in Client, NEW valid \in BOOLEAN, Handshake(c, valid) PROVE HubTyped'
  <2>1. frames' \in [Client -> Seq(Frame)]
    BY <1>8, WriteIs, FrameKinds DEF Handshake
  <2> QED
    BY <1>8, <2>1 DEF Handshake, connVars, Where
<1>9. ASSUME NEW c \in Client, NEW i \in Inv, NEW chan \in Chan, StreamSnapshot(c, i, chan) PROVE HubTyped'
  <2>1. frames' \in [Client -> Seq(Frame)]
    BY <1>9, WriteIs, FrameKinds DEF StreamSnapshot
  <2> QED
    BY <1>9, <2>1 DEF StreamSnapshot, Reads, Where
<1>10. ASSUME NEW c \in Client, NEW i \in Inv, Answer(c, i) PROVE HubTyped'
  <2>1. frames' \in [Client -> Seq(Frame)]
    BY <1>10, WriteIs, FrameKinds DEF Answer
  <2> QED
    BY <1>10, <2>1 DEF Answer
<1>11. ASSUME NEW c \in Client, NEW i \in Inv, CancelStream(c, i) PROVE HubTyped'
  <2>1. streams' \in [Client -> [Inv -> Chan \cup {None}]]
    BY <1>11 DEF CancelStream
  <2> QED
    BY <1>11, <2>1 DEF CancelStream, Where
<1>12. ASSUME NEW c \in Client, ReadFails(c) PROVE HubTyped'
  BY <1>12 DEF ReadFails, connVars, Where
<1>13. ASSUME NEW c \in Client, StreamRegister(c) PROVE HubTyped'
  <2>1. cur[c] \in Inv \X Chan
    BY <1>13 DEF StreamRegister, SnapshotsFirst
  <2>2. streams' \in [Client -> [Inv -> Chan \cup {None}]]
    BY <1>13, <2>1 DEF StreamRegister
  <2> QED
    BY <1>13, <2>2 DEF StreamRegister, Where
<1>14. ASSUME NEW c \in Client, CancelComplete(c) PROVE HubTyped'
  <2>1. cur[c] \in Inv \X {None}
    BY <1>14 DEF CancelComplete, SnapshotsFirst
  <2>2. frames' \in [Client -> Seq(Frame)]
    BY <1>14, <2>1, WriteIs, FrameKinds DEF CancelComplete
  <2> QED
    BY <1>14, <2>2 DEF CancelComplete, connVars, Where
<1>15. ASSUME NEW c \in Client, Leave(c) PROVE HubTyped'
  <2>1. conns' = [conns EXCEPT ![HubOf[c]] = Without(@, id[c])]
    BY <1>15 DEF Leave
  <2>2. DOMAIN conns' = HubIndex /\ \A h \in HubIndex : IsFiniteSet(DOMAIN conns'[h])
    BY <1>h, <2>1, MapsStayFinite
  <2> QED
    BY <1>15, <2>2 DEF Leave, Where
<1>16. ASSUME NEW c \in Client, Disconnect(c) PROVE HubTyped'
  <2>1. PICK h \in HubIndex, v \in Client :
          /\ HubOf[v] = h /\ id[v] = id[c] /\ id[c] \in DOMAIN conns[h] /\ conns[h][id[c]] = v
          /\ Started(v)
          /\ sock' = sock \/ \E s \in {"closing", "closed"} : sock' = [sock EXCEPT ![v] = s]
          /\ conns' = conns \/ conns' = [conns EXCEPT ![h] = Without(@, id[c])]
    <3> HIDE DEF HubTyped
    <3> QED
      BY <1>16, DisconnectIs
  <2>3. sock' \in [Client -> {"none", "open", "closing", "closed"}]
    BY <2>1
  <2>2. DOMAIN conns' = HubIndex /\ \A k \in HubIndex : IsFiniteSet(DOMAIN conns'[k])
    <3>1. CASE conns' = conns
      BY <3>1
    <3>2. CASE conns' = [conns EXCEPT ![h] = Without(@, id[c])]
      BY <3>2, MapsStayFinite
    <3> QED
      BY <2>1, <3>1, <3>2
  <2> QED
    BY <1>16, <2>2, <2>3 DEF Disconnect, DisconnectClose, DisconnectUnregister, connVars
<1>17. ASSUME NEW p \in Push, NEW h \in HubIndex, NEW chan \in Chan, SignalRPush(p, h, chan) PROVE HubTyped'
  <2> DEFINE out == buildStreamDeliveries(p, chan, Connections(h))
             open == OpenStreams(h, chan)
  <2>1. Invocations(out) \in Nat /\ out \in SUBSET (Client \X Frame)
    BY ConnectionsAre, InvocationsCounted, DeliveriesAre
  <2>2. open \in SUBSET (Client \X Inv)
    BY ConnectionsAre DEF OpenStreams
  <2>3. /\ idSeq' = [idSeq EXCEPT ![h] = @ + Invocations(out)]
        /\ push' = [push EXCEPT ![p] =
             [NoPush EXCEPT !.pc = "writing", !.kind = "all", !.chan = chan, !.who = h, !.out = out, !.open = open]]
    BY <1>17 DEF SignalRPush
  <2> HIDE DEF out, open
  <2>4. [NoPush EXCEPT !.pc = "writing", !.kind = "all", !.chan = chan, !.who = h, !.out = out, !.open = open] \in PushRecord
    BY <2>1, <2>2 DEF NoPush, PushRecord
  <2>5. push' \in [Push -> PushRecord] /\ idSeq' \in [HubIndex -> Nat]
    BY <2>1, <2>3, <2>4, PushTyped
  <2> QED
    BY <1>17, <2>5 DEF SignalRPush
<1>18. ASSUME NEW p \in Push, NEW h \in HubIndex, NEW chan \in Chan, NEW kind \in {"each", "one"},
              NEW target \in Client \cup {None}, kind = "one" => target \in Client,
              Candidates(p, h, chan, kind, target)
       PROVE  HubTyped'
  <2> DEFINE able == {c \in Connections(h) : Streams(c, chan) # {}}
             open == OpenStreams(h, chan)
             who  == IF kind = "one" THEN target ELSE h
             todo == IF kind = "one" THEN able \cap {target} ELSE able
  <2>1. todo \in SUBSET Client /\ open \in SUBSET (Client \X Inv) /\ who \in HubIndex \cup Client
    BY <1>18, ConnectionsAre DEF OpenStreams
  <2>2. push' = [push EXCEPT ![p] =
             [NoPush EXCEPT !.pc = "choosing", !.kind = kind, !.chan = chan, !.who = who, !.todo = todo, !.open = open]]
    BY <1>18 DEF Candidates
  <2> HIDE DEF able, open, who, todo
  <2>3. [NoPush EXCEPT !.pc = "choosing", !.kind = kind, !.chan = chan, !.who = who, !.todo = todo, !.open = open]
          \in PushRecord
    BY <2>1 DEF NoPush, PushRecord
  <2> QED
    BY <1>18, <2>2, <2>3, PushTyped DEF Candidates, connVars
<1>19. ASSUME NEW p \in Push, NEW c \in push[p].todo, PushTo(p, c) PROVE HubTyped'
  <2> DEFINE out == IF Registered(c) THEN buildStreamDeliveries(p, push[p].chan, {c}) ELSE {}
             todo == push[p].todo \ {c}
  <2>1. c \in Client /\ todo \in SUBSET Client
    BY DEF PushRecord
  <2>2. IsFiniteSet({c})
    BY FS_Singleton
  <2>3. Invocations({}) = 0
    <3>1. {d \in {} : d[2].kind = "invocation"} = {}
      OBVIOUS
    <3> QED
      BY <3>1, FS_EmptySet DEF Invocations
  <2>4. Invocations(out) \in Nat /\ out \in SUBSET (Client \X Frame)
    BY <2>1, <2>2, <2>3, InvocationsCounted, DeliveriesAre
  <2>5. /\ idSeq' = [idSeq EXCEPT ![HubOf[c]] = @ + Invocations(out)]
        /\ push' = [push EXCEPT ![p].out = out, ![p].todo = @ \ {c}]
    BY <1>19 DEF PushTo
  <2> HIDE DEF out
  <2>6. push' = [push EXCEPT ![p] = [push[p] EXCEPT !.out = out, !.todo = todo]]
    BY <2>5
  <2>7. [push[p] EXCEPT !.out = out, !.todo = todo] \in PushRecord
    <3> HIDE DEF HubTyped
    <3> QED
      BY <1>p, <2>1, <2>4 DEF PushRecord
  <2>8. push' \in [Push -> PushRecord] /\ idSeq' \in [HubIndex -> Nat]
    BY <1>h, <2>1, <2>4, <2>5, <2>6, <2>7, PushTyped
  <2> QED
    BY <1>19, <2>8 DEF PushTo
<1>20. ASSUME NEW p \in Push, NEW d \in push[p].out, PushWrite(p, d) PROVE HubTyped'
  <2>1. d \in Client \X Frame
    BY DEF PushRecord
  <2>2. frames' \in [Client -> Seq(Frame)]
    BY <1>20, <2>1, WriteIs DEF PushWrite
  <2>3. push' = [push EXCEPT ![p] = [push[p] EXCEPT !.out = push[p].out \ {d}]]
    BY <1>20 DEF PushWrite
  <2>4. [push[p] EXCEPT !.out = push[p].out \ {d}] \in PushRecord
    <3> HIDE DEF HubTyped
    <3> QED
      BY <1>p DEF PushRecord
  <2> QED
    BY <1>20, <2>2, <2>3, <2>4, PushTyped DEF PushWrite, connVars
<1>21. ASSUME NEW p \in Push, PushEnd(p) PROVE HubTyped'
  <2>3. push' = [push EXCEPT ![p] = [push[p] EXCEPT !.pc = "ended"]]
    BY <1>21 DEF PushEnd
  <2>4. [push[p] EXCEPT !.pc = "ended"] \in PushRecord
    <3> HIDE DEF HubTyped
    <3> QED
      BY <1>p DEF PushRecord
  <2> QED
    BY <1>21, <2>3, <2>4, PushTyped DEF PushEnd, connVars
<1> QED
  BY <1>1, <1>2, <1>3, <1>4, <1>5, <1>6, <1>7, <1>8, <1>9, <1>10, <1>11, <1>12, <1>13, <1>14, <1>15, <1>16,
     <1>17, <1>18, <1>19, <1>20, <1>21 DEF Next, ConnStep, PushStep

(* The ids are not disturbed by a step that only counts, lets clients go   *)
(* on, and takes clients out of the registry.                              *)
LEMMA IdsUndisturbed ==
  ASSUME HubTyped, IdsAgree, tokens' = tokens, id' = id,
         \A h \in HubIndex : idSeq'[h] \in Nat /\ idSeq'[h] >= idSeq[h],
         \A h \in HubIndex : \A x \in DOMAIN conns'[h] : x \in DOMAIN conns[h] /\ conns'[h][x] = conns[h][x],
         \A c \in Client : (Named(c)' <=> Named(c)) /\ (Started(c) => Started(c)')
  PROVE  IdsAgree'
<1>h. HubOf \in [Client -> HubIndex] /\ \A h \in HubIndex : idSeq[h] \in Nat
  BY HubAssumption DEF HubIndex, HubTyped
<1>1. \A c \in Client : IF Named(c)' THEN IdOfHub(HubOf[c], id[c])' ELSE id'[c] = None
  <2>1. \A h \in HubIndex : 1 .. idSeq[h] \subseteq 1 .. idSeq'[h]
    BY <1>h
  <2>2. \A c \in Client : IF Named(c)' THEN IdOfHub(HubOf[c], id[c]) ELSE id[c] = None
    BY DEF IdsAgree
  <2>3. \A h \in HubIndex : \A x : IdOfHub(h, x) => IdOfHub(h, x)'
    BY <2>1 DEF IdOfHub
  <2> QED
    BY <1>h, <2>2, <2>3
<1>2. \A c, d \in Client : Named(c)' /\ Named(d)' /\ HubOf[c] = HubOf[d] /\ id'[c] = id'[d] => c = d
  BY DEF IdsAgree
<1>3. \A h \in HubIndex : \A n \in tokens'[h] :
        /\ n \in 1 .. idSeq'[h]
        /\ \A c \in Client : Named(c)' /\ HubOf[c] = h => id'[c] # <<"signalr", n>>
  <2>1. \A h \in HubIndex : \A n \in tokens[h] :
          /\ n \in 1 .. idSeq[h]
          /\ \A c \in Client : Named(c) /\ HubOf[c] = h => id[c] # <<"signalr", n>>
    BY DEF IdsAgree
  <2>2. \A h \in HubIndex : \A n \in tokens'[h] : n \in 1 .. idSeq'[h]
    BY <1>h, <2>1
  <2> QED
    BY <2>1, <2>2
<1>4. \A h \in HubIndex : \A x \in DOMAIN conns'[h] :
        conns'[h][x] \in Client /\ HubOf[conns'[h][x]] = h /\ id'[conns'[h][x]] = x /\ Started(conns[h][x])'
  <2>1. \A h \in HubIndex : \A x \in DOMAIN conns[h] :
          conns[h][x] \in Client /\ HubOf[conns[h][x]] = h /\ id[conns[h][x]] = x /\ Started(conns[h][x])
    BY DEF IdsAgree
  <2> SUFFICES ASSUME NEW h \in HubIndex, NEW x \in DOMAIN conns'[h]
               PROVE  conns'[h][x] \in Client /\ HubOf[conns'[h][x]] = h /\ id'[conns'[h][x]] = x /\ Started(conns[h][x])'
    OBVIOUS
  <2>2. x \in DOMAIN conns[h] /\ conns'[h][x] = conns[h][x]
    OBVIOUS
  <2>3. \A c \in Client : Started(c) => Started(c)'
    OBVIOUS
  <2> DEFINE c == conns[h][x]
  <2>4. c \in Client /\ HubOf[c] = h /\ id[c] = x /\ Started(c)
    BY <2>1, <2>2
  <2>5. pc'[c] \notin {"none", "upgrading"}
    BY <2>3, <2>4 DEF Started
  <2>6. pc'[conns'[h][x]] \notin {"none", "upgrading"}
    BY <2>2, <2>5
  <2> QED
    BY <2>2, <2>4, <2>6 DEF Started
<1> QED
  BY <1>1, <1>2, <1>3, <1>4 DEF IdsAgree

(* Every step keeps the ids apart, and the registry true to them. *)
LEMMA IdsStay ==
  ASSUME HubTyped, IdsAgree, Next
  PROVE  IdsAgree'
<1>h. HubOf \in [Client -> HubIndex]
  BY HubAssumption DEF HubIndex
<1>t. /\ idSeq \in [HubIndex -> Nat] /\ tokens \in [HubIndex -> SUBSET Nat]
      /\ DOMAIN conns = HubIndex /\ pc \in [Client -> Where] /\ DOMAIN id = Client /\ push \in [Push -> PushRecord]
  BY DEF HubTyped
<1>i. /\ \A c \in Client : IF Named(c) THEN IdOfHub(HubOf[c], id[c]) ELSE id[c] = None
      /\ \A c, d \in Client : Named(c) /\ Named(d) /\ HubOf[c] = HubOf[d] /\ id[c] = id[d] => c = d
      /\ \A h \in HubIndex : \A n \in tokens[h] :
           /\ n \in 1 .. idSeq[h]
           /\ \A c \in Client : Named(c) /\ HubOf[c] = h => id[c] # <<"signalr", n>>
      /\ \A h \in HubIndex : \A x \in DOMAIN conns[h] :
           conns[h][x] \in Client /\ HubOf[conns[h][x]] = h /\ id[conns[h][x]] = x /\ Started(conns[h][x])
  BY DEF IdsAgree
<1>1. ASSUME NEW h \in HubIndex, Negotiate(h) PROVE IdsAgree'
  <2>1. /\ idSeq' = [idSeq EXCEPT ![h] = @ + 1] /\ tokens' = [tokens EXCEPT ![h] = @ \cup {idSeq[h] + 1}]
        /\ pc' = pc /\ id' = id /\ conns' = conns
    BY <1>1 DEF Negotiate
  <2>2. \A k \in HubIndex : idSeq'[k] \in Nat /\ idSeq'[k] >= idSeq[k] /\ 1 .. idSeq[k] \subseteq 1 .. idSeq'[k]
    BY <1>t, <2>1
  <2>3. \A k \in HubIndex : \A x : IdOfHub(k, x) => IdOfHub(k, x)'
    BY <2>2 DEF IdOfHub
  <2>4. \A c \in Client : IF Named(c)' THEN IdOfHub(HubOf[c], id[c])' ELSE id'[c] = None
    BY <1>h, <1>i, <2>1, <2>3 DEF Named
  <2>5. \A c \in Client : Named(c) /\ HubOf[c] = h => id[c] # <<"signalr", idSeq[h] + 1>>
    <3>1. \A n \in 1 .. idSeq[h] : n # idSeq[h] + 1
      BY <1>t
    <3> QED
      BY <1>i, <3>1, IdKinds DEF IdOfHub
  <2>6. \A k \in HubIndex : \A n \in tokens'[k] :
          /\ n \in 1 .. idSeq'[k]
          /\ \A c \in Client : Named(c)' /\ HubOf[c] = k => id'[c] # <<"signalr", n>>
    <3> SUFFICES ASSUME NEW k \in HubIndex, NEW n \in tokens'[k]
                 PROVE  /\ n \in 1 .. idSeq'[k]
                        /\ \A c \in Client : Named(c) /\ HubOf[c] = k => id[c] # <<"signalr", n>>
      BY <2>1 DEF Named
    <3>1. CASE n \in tokens[k]
      BY <1>i, <2>2, <3>1
    <3>2. CASE k = h /\ n = idSeq[h] + 1
      BY <1>t, <2>1, <2>5, <3>2
    <3> QED
      BY <1>t, <2>1, <3>1, <3>2
  <2> QED
    BY <1>i, <2>1, <2>4, <2>6 DEF IdsAgree, Named, Started
<1>2. ASSUME NEW c \in Client, NEW n \in 1 .. MaxToken, consumeToken(c, n) PROVE IdsAgree'
  <2> DEFINE h == HubOf[c]
  <2>1. /\ pc[c] = "none" /\ n \in tokens[h] /\ h \in HubIndex
        /\ tokens' = [tokens EXCEPT ![h] = @ \ {n}]
        /\ id' = [id EXCEPT ![c] = <<"signalr", n>>] /\ pc' = [pc EXCEPT ![c] = "upgrading"]
        /\ idSeq' = idSeq /\ conns' = conns
    BY <1>h, <1>2 DEF consumeToken
  <2>2. n \in 1 .. idSeq[h] /\ \A d \in Client : Named(d) /\ HubOf[d] = h => id[d] # <<"signalr", n>>
    BY <1>i, <2>1
  <2>3. IdOfHub(h, id[c])' /\ Named(c)' /\ ~Named(c)
    BY <1>t, <2>1, <2>2 DEF IdOfHub, Named
  <2>4. \A d \in Client \ {c} : (Named(d)' <=> Named(d)) /\ id'[d] = id[d]
    BY <1>t, <2>1 DEF Named
  <2>5. \A k : \A x : IdOfHub(k, x)' <=> IdOfHub(k, x)
    BY <2>1 DEF IdOfHub
  <2>6. \A d \in Client : IF Named(d)' THEN IdOfHub(HubOf[d], id[d])' ELSE id'[d] = None
    <3> SUFFICES ASSUME NEW d \in Client \ {c} PROVE IF Named(d)' THEN IdOfHub(HubOf[d], id[d])' ELSE id'[d] = None
      BY <2>3
    <3> QED
      BY <1>i, <2>4, <2>5
  <2>7. \A d, e \in Client : Named(d)' /\ Named(e)' /\ HubOf[d] = HubOf[e] /\ id'[d] = id'[e] => d = e
    BY <1>t, <1>i, <2>1, <2>2, <2>4
  <2>8. \A k \in HubIndex : \A m \in tokens'[k] :
          /\ m \in 1 .. idSeq'[k]
          /\ \A d \in Client : Named(d)' /\ HubOf[d] = k => id'[d] # <<"signalr", m>>
    <3> SUFFICES ASSUME NEW k \in HubIndex, NEW m \in tokens'[k]
                 PROVE  /\ m \in 1 .. idSeq'[k]
                        /\ \A d \in Client : Named(d)' /\ HubOf[d] = k => id'[d] # <<"signalr", m>>
      OBVIOUS
    <3>1. m \in tokens[k] /\ (k = h => m # n)
      BY <1>t, <2>1
    <3>2. id'[c] = <<"signalr", n>> /\ (k = h => <<"signalr", m>> # <<"signalr", n>>)
      BY <1>t, <2>1, <3>1, IdKinds
    <3> QED
      BY <1>i, <2>1, <2>4, <3>1, <3>2
  <2>9. \A k \in HubIndex : \A x \in DOMAIN conns'[k] :
          conns'[k][x] \in Client /\ HubOf[conns'[k][x]] = k /\ id'[conns'[k][x]] = x /\ Started(conns[k][x])'
    BY <1>t, <1>i, <2>1, <2>4 DEF Started
  <2> QED
    BY <2>6, <2>7, <2>8, <2>9 DEF IdsAgree
<1>3. ASSUME NEW c \in Client, freshToken(c) PROVE IdsAgree'
  <2> DEFINE h == HubOf[c]
             n == idSeq[h] + 1
  <2>1. /\ pc[c] = "none" /\ h \in HubIndex
        /\ idSeq' = [idSeq EXCEPT ![h] = @ + 1]
        /\ id' = [id EXCEPT ![c] = <<"signalr-fresh", n>>] /\ pc' = [pc EXCEPT ![c] = "upgrading"]
        /\ tokens' = tokens /\ conns' = conns
    BY <1>h, <1>3 DEF freshToken
  <2>a. \A k \in HubIndex : 1 .. idSeq[k] \subseteq 1 .. idSeq'[k]
    BY <1>t, <2>1
  <2>b. n \in 1 .. idSeq'[h] /\ \A m \in 1 .. idSeq[h] : m # n
    BY <1>t, <2>1
  <2> HIDE DEF n
  <2>2. \A d \in Client : Named(d) /\ HubOf[d] = h => id[d] # <<"signalr-fresh", n>>
    BY <1>i, <2>b, IdKinds DEF IdOfHub
  <2>3. IdOfHub(h, id[c])' /\ Named(c)' /\ ~Named(c)
    BY <1>t, <2>1, <2>b DEF IdOfHub, Named
  <2>4. \A d \in Client \ {c} : (Named(d)' <=> Named(d)) /\ id'[d] = id[d]
    BY <1>t, <2>1 DEF Named
  <2>5. \A k \in HubIndex : \A x : IdOfHub(k, x) => IdOfHub(k, x)'
    BY <2>a DEF IdOfHub
  <2>6. \A d \in Client : IF Named(d)' THEN IdOfHub(HubOf[d], id[d])' ELSE id'[d] = None
    <3> SUFFICES ASSUME NEW d \in Client \ {c} PROVE IF Named(d)' THEN IdOfHub(HubOf[d], id[d])' ELSE id'[d] = None
      BY <2>3
    <3>1. HubOf[d] \in HubIndex
      BY <1>h
    <3> QED
      BY <1>i, <2>4, <2>5, <3>1
  <2>7. \A d, e \in Client : Named(d)' /\ Named(e)' /\ HubOf[d] = HubOf[e] /\ id'[d] = id'[e] => d = e
    BY <1>t, <1>i, <2>1, <2>2, <2>4
  <2>8. \A k \in HubIndex : \A m \in tokens'[k] :
          /\ m \in 1 .. idSeq'[k]
          /\ \A d \in Client : Named(d)' /\ HubOf[d] = k => id'[d] # <<"signalr", m>>
    <3> SUFFICES ASSUME NEW k \in HubIndex, NEW m \in tokens'[k]
                 PROVE  /\ m \in 1 .. idSeq'[k]
                        /\ \A d \in Client : Named(d)' /\ HubOf[d] = k => id'[d] # <<"signalr", m>>
      OBVIOUS
    <3>1. m \in tokens[k]
      BY <2>1
    <3>2. id'[c] # <<"signalr", m>>
      BY <1>t, <2>1, IdKinds
    <3> QED
      BY <1>i, <2>a, <2>4, <3>1, <3>2
  <2>9. \A k \in HubIndex : \A x \in DOMAIN conns'[k] :
          conns'[k][x] \in Client /\ HubOf[conns'[k][x]] = k /\ id'[conns'[k][x]] = x /\ Started(conns[k][x])'
    BY <1>t, <1>i, <2>1, <2>4 DEF Started
  <2> QED
    BY <2>6, <2>7, <2>8, <2>9 DEF IdsAgree
<1>5. ASSUME NEW c \in Client, register(c) PROVE IdsAgree'
  <2> DEFINE h == HubOf[c]
  <2>1. /\ pc[c] = "upgrading" /\ h \in HubIndex
        /\ pc' = [pc EXCEPT ![c] = "connecting"]
        /\ conns' = [conns EXCEPT ![h] = With(@, id[c], c)]
        /\ id' = id /\ idSeq' = idSeq /\ tokens' = tokens
    BY <1>h, <1>5 DEF register
  <2>2. \A d \in Client : (Named(d)' <=> Named(d)) /\ (Started(d) => Started(d)') /\ Started(c)'
    BY <1>t, <2>1 DEF Named, Started
  <2>3. \A k \in HubIndex : \A x \in DOMAIN conns'[k] :
          (k = h /\ x = id[c] /\ conns'[k][x] = c) \/ (x \in DOMAIN conns[k] /\ conns'[k][x] = conns[k][x])
    BY <1>t, <2>1 DEF With
  <2>4. \A k \in HubIndex : \A x \in DOMAIN conns'[k] :
          conns'[k][x] \in Client /\ HubOf[conns'[k][x]] = k /\ id'[conns'[k][x]] = x /\ Started(conns[k][x])'
    <3> SUFFICES ASSUME NEW k \in HubIndex, NEW x \in DOMAIN conns'[k]
                 PROVE  /\ conns'[k][x] \in Client /\ HubOf[conns'[k][x]] = k /\ id'[conns'[k][x]] = x
                        /\ pc'[conns'[k][x]] \notin {"none", "upgrading"}
      BY DEF Started
    <3>1. CASE k = h /\ x = id[c] /\ conns'[k][x] = c
      BY <2>1, <2>2, <3>1 DEF Started
    <3>2. CASE x \in DOMAIN conns[k] /\ conns'[k][x] = conns[k][x]
      BY <1>i, <2>1, <2>2, <3>2 DEF Started
    <3> QED
      BY <2>3, <3>1, <3>2
  <2>5. \A k : \A x : IdOfHub(k, x)' <=> IdOfHub(k, x)
    BY <2>1 DEF IdOfHub
  <2>6. \A d \in Client : IF Named(d)' THEN IdOfHub(HubOf[d], id[d])' ELSE id'[d] = None
    BY <1>i, <2>1, <2>2, <2>5
  <2> QED
    BY <1>i, <2>1, <2>2, <2>4, <2>6 DEF IdsAgree
<1>6. ASSUME idSeq' = idSeq, tokens' = tokens, id' = id, conns' = conns,
             \A c \in Client : (Named(c)' <=> Named(c)) /\ (Started(c) => Started(c)')
      PROVE  IdsAgree'
  BY <1>t, <1>6, IdsUndisturbed
<1>7. ASSUME NEW c \in Client,
             \/ UpgradeFails(c) \/ HooksReturn(c) \/ StreamRegister(c) \/ CancelComplete(c) \/ ReadFails(c)
             \/ \E p \in Push, chan \in Chan : ConnectHook(c, p, chan)
             \/ \E valid \in BOOLEAN : Handshake(c, valid)
             \/ \E i \in Inv, chan \in Chan : StreamSnapshot(c, i, chan)
             \/ \E i \in Inv : Answer(c, i) \/ CancelStream(c, i)
      PROVE  IdsAgree'
  <2>1. idSeq' = idSeq /\ tokens' = tokens /\ id' = id /\ conns' = conns
    BY <1>7 DEF UpgradeFails, ConnectHook, HooksReturn, Handshake, StreamSnapshot, StreamRegister, Answer,
                CancelStream, CancelComplete, ReadFails, connVars, Reads
  <2>2. \/ pc' = pc
        \/ \E x \in Where \ {"none", "upgrading"} : pc[c] # "none" /\ pc' = [pc EXCEPT ![c] = x]
    BY <1>7 DEF UpgradeFails, ConnectHook, HooksReturn, Handshake, StreamSnapshot, StreamRegister, Answer,
                CancelStream, CancelComplete, ReadFails, Reads, Where
  <2>3. \A d \in Client : (Named(d)' <=> Named(d)) /\ (Started(d) => Started(d)')
    BY <1>t, <2>2 DEF Named, Started
  <2> QED
    BY <1>6, <2>1, <2>3
<1>15. ASSUME NEW c \in Client, Leave(c) PROVE IdsAgree'
  <2>1. /\ pc[c] = "leaving" /\ pc' = [pc EXCEPT ![c] = "ended"] /\ conns' = [conns EXCEPT ![HubOf[c]] = Without(@, id[c])]
        /\ idSeq' = idSeq /\ tokens' = tokens /\ id' = id
    BY <1>15 DEF Leave
  <2>2. \A h \in HubIndex : \A x \in DOMAIN conns'[h] : x \in DOMAIN conns[h] /\ conns'[h][x] = conns[h][x]
    BY <1>t, <2>1 DEF Without
  <2>3. \A d \in Client : (Named(d)' <=> Named(d)) /\ (Started(d) => Started(d)')
    BY <1>t, <2>1 DEF Named, Started
  <2> QED
    BY <1>t, <2>1, <2>2, <2>3, IdsUndisturbed
<1>16. ASSUME NEW c \in Client, Disconnect(c) PROVE IdsAgree'
  <2>1. PICK h \in HubIndex, v \in Client :
          /\ HubOf[v] = h /\ id[v] = id[c] /\ id[c] \in DOMAIN conns[h] /\ conns[h][id[c]] = v
          /\ Started(v)
          /\ sock' = sock \/ \E s \in {"closing", "closed"} : sock' = [sock EXCEPT ![v] = s]
          /\ conns' = conns \/ conns' = [conns EXCEPT ![h] = Without(@, id[c])]
    BY <1>16, DisconnectIs
  <2>2. \A k \in HubIndex : \A x \in DOMAIN conns'[k] : x \in DOMAIN conns[k] /\ conns'[k][x] = conns[k][x]
    BY <1>t, <2>1 DEF Without
  <2>3. idSeq' = idSeq /\ tokens' = tokens /\ id' = id /\ pc' = pc
    BY <1>16 DEF Disconnect, DisconnectClose, DisconnectUnregister, connVars
  <2>4. \A d \in Client : (Named(d)' <=> Named(d)) /\ (Started(d) => Started(d)')
    BY <2>3 DEF Named, Started
  <2> QED
    BY <1>t, <2>2, <2>3, <2>4, IdsUndisturbed
<1>17. ASSUME NEW p \in Push, NEW h \in HubIndex, NEW chan \in Chan, SignalRPush(p, h, chan) PROVE IdsAgree'
  <2> DEFINE n == Invocations(buildStreamDeliveries(p, chan, Connections(h)))
  <2>1. n \in Nat
    BY ConnectionsAre, InvocationsCounted
  <2>2. idSeq' = [idSeq EXCEPT ![h] = @ + n] /\ tokens' = tokens /\ id' = id /\ conns' = conns /\ pc' = pc
    BY <1>17 DEF SignalRPush
  <2> HIDE DEF n
  <2>3. \A k \in HubIndex : idSeq'[k] \in Nat /\ idSeq'[k] >= idSeq[k]
    BY <1>t, <2>1, <2>2
  <2>4. \A d \in Client : (Named(d)' <=> Named(d)) /\ (Started(d) => Started(d)')
    BY <2>2 DEF Named, Started
  <2> QED
    BY <2>2, <2>3, <2>4, IdsUndisturbed
<1>18. ASSUME NEW p \in Push, NEW h \in HubIndex, NEW chan \in Chan, NEW kind, NEW target,
              Candidates(p, h, chan, kind, target) PROVE IdsAgree'
  BY <1>6, <1>18 DEF Candidates, connVars, Named, Started
<1>19. ASSUME NEW p \in Push, NEW c \in push[p].todo, PushTo(p, c) PROVE IdsAgree'
  <2> DEFINE out == IF Registered(c) THEN buildStreamDeliveries(p, push[p].chan, {c}) ELSE {}
             n == Invocations(out)
  <2>1. c \in Client /\ IsFiniteSet({c})
    BY <1>t, FS_Singleton DEF PushRecord
  <2>2. Invocations({}) = 0
    <3>1. {d \in {} : d[2].kind = "invocation"} = {}
      OBVIOUS
    <3> QED
      BY <3>1, FS_EmptySet DEF Invocations
  <2>3. n \in Nat
    BY <2>1, <2>2, InvocationsCounted
  <2>4. idSeq' = [idSeq EXCEPT ![HubOf[c]] = @ + n] /\ tokens' = tokens /\ id' = id /\ conns' = conns /\ pc' = pc
    BY <1>19 DEF PushTo
  <2> HIDE DEF n
  <2>5. \A k \in HubIndex : idSeq'[k] \in Nat /\ idSeq'[k] >= idSeq[k]
    BY <1>t, <1>h, <2>1, <2>3, <2>4
  <2>6. \A d \in Client : (Named(d)' <=> Named(d)) /\ (Started(d) => Started(d)')
    BY <2>4 DEF Named, Started
  <2> QED
    BY <2>4, <2>5, <2>6, IdsUndisturbed
<1>20. ASSUME NEW p \in Push, NEW d \in push[p].out, PushWrite(p, d) PROVE IdsAgree'
  BY <1>6, <1>20 DEF PushWrite, connVars, Named, Started
<1>21. ASSUME NEW p \in Push, PushEnd(p) PROVE IdsAgree'
  BY <1>6, <1>21 DEF PushEnd, connVars, Named, Started
<1>22. CASE \E c \in Client : ConnStep(c)
  BY <1>7, <1>15, <1>22 DEF ConnStep
<1>23. CASE \E p \in Push : PushStep(p)
  BY <1>19, <1>20, <1>21, <1>23 DEF PushStep
<1> QED
  BY <1>1, <1>2, <1>3, <1>5, <1>7, <1>15, <1>16, <1>17, <1>18, <1>22, <1>23 DEF Next

(* A push that begins changes nothing but its own record and the counter.  *)
LEMMA PushBegins ==
  ASSUME NEW p, NEW h, NEW chan, \/ SignalRPush(p, h, chan)
                                 \/ \E kind, target : Candidates(p, h, chan, kind, target)
  PROVE  /\ tokens' = tokens /\ conns' = conns /\ pc' = pc /\ id' = id /\ cur' = cur /\ streams' = streams
         /\ sock' = sock /\ frames' = frames /\ sent' = sent
<1>1. ASSUME SignalRPush(p, h, chan)
      PROVE  /\ tokens' = tokens /\ conns' = conns /\ pc' = pc /\ id' = id /\ cur' = cur /\ streams' = streams
             /\ sock' = sock /\ frames' = frames /\ sent' = sent
  BY <1>1 DEF SignalRPush
<1>2. ASSUME NEW kind, NEW target, Candidates(p, h, chan, kind, target)
      PROVE  /\ tokens' = tokens /\ conns' = conns /\ pc' = pc /\ id' = id /\ cur' = cur /\ streams' = streams
             /\ sock' = sock /\ frames' = frames /\ sent' = sent
  BY <1>2 DEF Candidates, connVars
<1> QED
  BY <1>1, <1>2

(* A step writes nothing, or one frame to one client: a push writes what   *)
(* it still has to write, and everybody else what belongs to no push.      *)
LEMMA StepsWrite ==
  ASSUME HubTyped, SnapshotsFirst, Next
  PROVE  \/ frames' = frames
         \/ \E c \in Client, f \in Frame : Write(c, f) /\ (f.by = None \/ \E p \in Push : <<c, f>> \in push[p].out)
<1>1. ASSUME NEW c \in Client, NEW valid \in BOOLEAN, Handshake(c, valid)
      PROVE  \E d \in Client, f \in Frame : Write(d, f) /\ f.by = None
  BY <1>1, FrameKinds DEF Handshake
<1>2. ASSUME NEW c \in Client, NEW i \in Inv, NEW chan \in Chan, StreamSnapshot(c, i, chan)
      PROVE  \E d \in Client, f \in Frame : Write(d, f) /\ f.by = None
  BY <1>2, FrameKinds DEF StreamSnapshot
<1>3. ASSUME NEW c \in Client, NEW i \in Inv, Answer(c, i)
      PROVE  \E d \in Client, f \in Frame : Write(d, f) /\ f.by = None
  BY <1>3, FrameKinds DEF Answer
<1>4. ASSUME NEW c \in Client, CancelComplete(c)
      PROVE  \E d \in Client, f \in Frame : Write(d, f) /\ f.by = None
  <2>1. cur[c] \in Inv \X {None} /\ Write(c, Completion(cur[c][1]))
    BY <1>4 DEF CancelComplete, SnapshotsFirst
  <2>2. Completion(cur[c][1]) \in Frame /\ Completion(cur[c][1]).by = None
    BY <2>1, FrameKinds
  <2> QED
    BY <2>1, <2>2
<1>5. ASSUME NEW p \in Push, NEW d \in push[p].out, PushWrite(p, d)
      PROVE  \E c \in Client, f \in Frame : Write(c, f) /\ \E q \in Push : <<c, f>> \in push[q].out
  <2>1. d \in Client \X Frame
    BY DEF HubTyped, PushRecord
  <2> QED
    BY <1>5, <2>1 DEF PushWrite
<1>6. ASSUME NEW c \in Client, \/ UpgradeFails(c) \/ HooksReturn(c) \/ StreamRegister(c) \/ ReadFails(c) \/ Leave(c)
                               \/ freshToken(c) \/ register(c)
                               \/ \E n \in 1 .. MaxToken : consumeToken(c, n)
                               \/ \E p \in Push, chan \in Chan : ConnectHook(c, p, chan)
                               \/ \E i \in Inv : CancelStream(c, i)
                               \/ Disconnect(c)
      PROVE  frames' = frames
  BY <1>6 DEF UpgradeFails, HooksReturn, StreamRegister, ReadFails, Leave, freshToken, register, consumeToken,
              ConnectHook, CancelStream, Disconnect, DisconnectClose, DisconnectUnregister, connVars
<1>7. CASE \E h \in HubIndex : Negotiate(h)
  BY <1>7 DEF Negotiate
<1>8. CASE \E p \in Push, h \in HubIndex, chan \in Chan :
             \/ SignalRPush(p, h, chan)
             \/ Candidates(p, h, chan, "each", None)
             \/ \E target \in Client : Candidates(p, h, chan, "one", target)
  BY <1>8, PushBegins
<1>9. CASE \E p \in Push : PushStep(p)
  <2>1. ASSUME NEW p \in Push, PushEnd(p) \/ \E c \in push[p].todo : PushTo(p, c) PROVE frames' = frames
    BY <2>1 DEF PushEnd, PushTo
  <2> QED
    BY <1>5, <1>9, <2>1 DEF PushStep
<1> QED
  BY <1>1, <1>2, <1>3, <1>4, <1>6, <1>7, <1>8, <1>9 DEF Next, ConnStep

(* Frames stay, a socket does not open again, and a client that is         *)
(* upgraded stays upgraded.                                                *)
LEMMA StepsKeep ==
  ASSUME HubTyped, IdsAgree, SnapshotsFirst, Next
  PROVE  /\ \A d \in Client : \A k \in DOMAIN frames[d] : k \in DOMAIN frames'[d] /\ frames'[d][k] = frames[d][k]
         /\ \A d \in Client : sock[d] \in {"closing", "closed"} => sock'[d] \in {"closing", "closed"}
         /\ \A d \in Client : Started(d) => Started(d)'
         /\ \A d \in Client : \A i : Ready(d, i) => Ready(d, i)'
<1>t. /\ pc \in [Client -> Where] /\ frames \in [Client -> Seq(Frame)]
      /\ sock \in [Client -> {"none", "open", "closing", "closed"}]
  BY DEF HubTyped
<1>1. \A d \in Client : \A k \in DOMAIN frames[d] : k \in DOMAIN frames'[d] /\ frames'[d][k] = frames[d][k]
  <2>1. CASE frames' = frames
    BY <2>1
  <2>2. CASE \E c \in Client, f \in Frame : Write(c, f)
    BY <1>t, <2>2, FramesKept
  <2> QED
    BY <2>1, <2>2, StepsWrite
<1>2. \A d \in Client : sock[d] \in {"closing", "closed"} => sock'[d] \in {"closing", "closed"}
  <2>1. ASSUME NEW c \in Client, register(c) PROVE \A d \in Client : sock[d] \in {"closing", "closed"} => sock'[d] = sock[d]
    <3>1. sock[c] = "none"
      BY <2>1 DEF register, SnapshotsFirst, Started
    <3> QED
      BY <1>t, <2>1, <3>1 DEF register
  <2>2. ASSUME NEW c \in Client, NEW valid \in BOOLEAN, Handshake(c, valid)
        PROVE  \A d \in Client : sock'[d] = sock[d] \/ sock'[d] = "closed"
    BY <1>t, <2>2 DEF Handshake
  <2>3. ASSUME NEW c \in Client, Leave(c)
        PROVE  \A d \in Client : sock'[d] = sock[d] \/ sock'[d] = "closed"
    BY <1>t, <2>3 DEF Leave
  <2>4. ASSUME NEW c \in Client, Disconnect(c)
        PROVE  \A d \in Client : sock'[d] = sock[d] \/ sock'[d] \in {"closing", "closed"}
    <3>1. PICK h \in HubIndex, v \in Client :
            /\ HubOf[v] = h /\ id[v] = id[c] /\ id[c] \in DOMAIN conns[h] /\ conns[h][id[c]] = v
            /\ Started(v)
            /\ sock' = sock \/ \E s \in {"closing", "closed"} : sock' = [sock EXCEPT ![v] = s]
            /\ conns' = conns \/ conns' = [conns EXCEPT ![h] = Without(@, id[c])]
      BY <2>4, DisconnectIs
    <3> QED
      BY <1>t, <3>1
  <2>5. ASSUME NEW c \in Client, \/ UpgradeFails(c) \/ HooksReturn(c) \/ StreamRegister(c) \/ ReadFails(c)
                                 \/ CancelComplete(c) \/ freshToken(c)
                                 \/ \E n \in 1 .. MaxToken : consumeToken(c, n)
                                 \/ \E p \in Push, chan \in Chan : ConnectHook(c, p, chan)
                                 \/ \E i \in Inv, chan \in Chan : StreamSnapshot(c, i, chan)
                                 \/ \E i \in Inv : Answer(c, i) \/ CancelStream(c, i)
        PROVE  sock' = sock
    BY <2>5 DEF UpgradeFails, HooksReturn, StreamRegister, ReadFails, CancelComplete, freshToken, consumeToken,
                ConnectHook, CancelStream, StreamSnapshot, Answer
  <2>6. CASE \E h \in HubIndex : Negotiate(h)
    BY <2>6 DEF Negotiate
  <2>7. CASE \E p \in Push, h \in HubIndex, chan \in Chan :
               \/ SignalRPush(p, h, chan)
               \/ Candidates(p, h, chan, "each", None)
               \/ \E target \in Client : Candidates(p, h, chan, "one", target)
    BY <2>7, PushBegins
  <2>8. CASE \E p \in Push : PushStep(p)
    BY <2>8 DEF PushStep, PushEnd, PushTo, PushWrite
  <2> QED
    BY <2>1, <2>2, <2>3, <2>4, <2>5, <2>6, <2>7, <2>8 DEF Next, ConnStep
<1>3. \A d \in Client : Started(d) => Started(d)'
  <2>1. ASSUME NEW c \in Client, freshToken(c) \/ \E n \in 1 .. MaxToken : consumeToken(c, n)
        PROVE  \A d \in Client : Started(d) => Started(d)'
    BY <1>t, <2>1 DEF freshToken, consumeToken, Started
  <2>2. ASSUME NEW c \in Client, \/ UpgradeFails(c) \/ HooksReturn(c) \/ StreamRegister(c) \/ ReadFails(c)
                                 \/ CancelComplete(c) \/ register(c) \/ Leave(c)
                                 \/ \E p \in Push, chan \in Chan : ConnectHook(c, p, chan)
                                 \/ \E i \in Inv, chan \in Chan : StreamSnapshot(c, i, chan)
                                 \/ \E i \in Inv : Answer(c, i) \/ CancelStream(c, i)
                                 \/ \E valid \in BOOLEAN : Handshake(c, valid)
                                 \/ Disconnect(c)
        PROVE  pc' = pc \/ \E x \in Where \ {"none", "upgrading"} : pc' = [pc EXCEPT ![c] = x]
    BY <2>2 DEF UpgradeFails, HooksReturn, StreamRegister, ReadFails, CancelComplete, register, Leave,
                ConnectHook, CancelStream, StreamSnapshot, Answer, Handshake, Disconnect, DisconnectClose, DisconnectUnregister, connVars, Where
  <2>3. ASSUME NEW c \in Client, pc' = pc \/ \E x \in Where \ {"none", "upgrading"} : pc' = [pc EXCEPT ![c] = x]
        PROVE  \A d \in Client : Started(d) => Started(d)'
    BY <1>t, <2>3 DEF Started
  <2>6. ASSUME pc' = pc PROVE \A d \in Client : Started(d) => Started(d)'
    BY <2>6 DEF Started
  <2>4. CASE \E h \in HubIndex : Negotiate(h)
    BY <2>4, <2>6 DEF Negotiate
  <2>7. CASE \E p \in Push, h \in HubIndex, chan \in Chan :
               \/ SignalRPush(p, h, chan)
               \/ Candidates(p, h, chan, "each", None)
               \/ \E target \in Client : Candidates(p, h, chan, "one", target)
    BY <2>6, <2>7, PushBegins
  <2>8. CASE \E p \in Push : PushStep(p)
    BY <2>6, <2>8 DEF PushStep, PushEnd, PushTo, PushWrite
  <2> QED
    BY <2>1, <2>2, <2>3, <2>4, <2>7, <2>8 DEF Next, ConnStep
<1> QED
  BY <1>1, <1>2, <1>3 DEF Ready

(* What a push has to write after a step it had to write before, or has    *)
(* just looked up: an item for an open stream, or an invocation.           *)
LEMMA DeliveriesFollow ==
  ASSUME HubTyped, IdsAgree, SnapshotsFirst, Next, NEW p \in Push
  PROVE  \A d \in push'[p].out :
           \/ d \in push[p].out
           \/ d[1] \in Client /\ d[2] = Invocation(p)
           \/ d[1] \in Client /\ \E i \in Inv : d[2] = Item(i, p) /\ streams[d[1]][i] # None
<1>t. push \in [Push -> PushRecord] /\ None \notin Chan
  BY HubAssumption DEF HubTyped
<1>1. ASSUME NEW h \in HubIndex, NEW chan \in Chan, SignalRPush(p, h, chan)
      PROVE  \A d \in push'[p].out :
               \/ d[1] \in Client /\ d[2] = Invocation(p)
               \/ d[1] \in Client /\ \E i \in Inv : d[2] = Item(i, p) /\ streams[d[1]][i] # None
  <2> DEFINE out == buildStreamDeliveries(p, chan, Connections(h))
  <2>1. push'[p].out = out
    BY <1>t, <1>1 DEF SignalRPush, NoPush
  <2>2. \A d \in out : /\ d[1] \in Connections(h)
                       /\ d[2] = Invocation(p) \/ \E i \in Inv : d[2] = Item(i, p) /\ streams[d[1]][i] = chan
    BY ConnectionsAre, DeliveriesAre
  <2> HIDE DEF out
  <2> QED
    BY <1>t, <2>1, <2>2, ConnectionsAre
<1>2. ASSUME NEW c \in push[p].todo, PushTo(p, c)
      PROVE  \A d \in push'[p].out :
               \/ d[1] \in Client /\ d[2] = Invocation(p)
               \/ d[1] \in Client /\ \E i \in Inv : d[2] = Item(i, p) /\ streams[d[1]][i] # None
  <2> DEFINE out == buildStreamDeliveries(p, push[p].chan, {c})
  <2>1. push'[p].out = IF Registered(c) THEN out ELSE {}
    BY <1>t, <1>2 DEF PushTo
  <2>2. c \in Client /\ push[p].chan # None
    BY <1>t DEF PushRecord, SnapshotsFirst
  <2>3. \A d \in out : /\ d[1] \in {c}
                       /\ d[2] = Invocation(p) \/ \E i \in Inv : d[2] = Item(i, p) /\ streams[d[1]][i] = push[p].chan
    BY <2>2, DeliveriesAre
  <2> HIDE DEF out
  <2> QED
    BY <2>1, <2>2, <2>3
<1>3. ASSUME NEW q \in Push, NEW d \in push[q].out, PushWrite(q, d) PROVE push'[p].out \subseteq push[p].out
  BY <1>t, <1>3 DEF PushWrite
<1>4. ASSUME NEW q \in Push, PushEnd(q) PROVE push'[p].out = push[p].out
  BY <1>t, <1>4 DEF PushEnd
<1>5. ASSUME NEW q \in Push, NEW h, NEW chan, NEW kind, NEW target, Candidates(q, h, chan, kind, target)
      PROVE  push'[p].out = push[p].out \/ push'[p].out = {}
  BY <1>t, <1>5 DEF Candidates, NoPush
<1>6. ASSUME NEW c \in Client, NEW q \in Push, NEW chan \in Chan, ConnectHook(c, q, chan)
      PROVE  push'[p].out = push[p].out \/ push'[p].out = {}
  BY <1>t, <1>6 DEF ConnectHook, NoPush
<1>7. ASSUME NEW q \in Push \ {p}, NEW h \in HubIndex, NEW chan \in Chan, SignalRPush(q, h, chan)
      PROVE  push'[p] = push[p]
  BY <1>t, <1>7 DEF SignalRPush
<1>8. ASSUME NEW q \in Push \ {p}, NEW c \in push[q].todo, PushTo(q, c) PROVE push'[p] = push[p]
  BY <1>t, <1>8 DEF PushTo
<1>9. ASSUME NEW c \in Client, \/ UpgradeFails(c) \/ HooksReturn(c) \/ StreamRegister(c) \/ ReadFails(c) \/ Leave(c)
                               \/ freshToken(c) \/ register(c) \/ CancelComplete(c)
                               \/ \E n \in 1 .. MaxToken : consumeToken(c, n)
                               \/ \E valid \in BOOLEAN : Handshake(c, valid)
                               \/ \E i \in Inv, chan \in Chan : StreamSnapshot(c, i, chan)
                               \/ \E i \in Inv : Answer(c, i) \/ CancelStream(c, i)
                               \/ Disconnect(c)
      PROVE  push' = push
  BY <1>9 DEF UpgradeFails, HooksReturn, StreamRegister, ReadFails, Leave, freshToken, register, consumeToken,
              CancelComplete, Handshake, StreamSnapshot, Answer, CancelStream, Disconnect, DisconnectClose, DisconnectUnregister, connVars
<1>10. CASE \E h \in HubIndex : Negotiate(h)
  BY <1>10 DEF Negotiate
<1>11. CASE \E q \in Push, h \in HubIndex, chan \in Chan :
              \/ SignalRPush(q, h, chan)
              \/ Candidates(q, h, chan, "each", None)
              \/ \E target \in Client : Candidates(q, h, chan, "one", target)
  BY <1>1, <1>5, <1>7, <1>11
<1>12. CASE \E q \in Push : PushStep(q)
  BY <1>2, <1>3, <1>4, <1>8, <1>12 DEF PushStep
<1> QED
  BY <1>6, <1>9, <1>10, <1>11, <1>12 DEF Next, ConnStep

(* A frame that does not overtake keeps the order of a client's frames.    *)
LEMMA ComesFirstStays ==
  ASSUME HubTyped, SnapshotsFirst, NEW c \in Client, NEW f \in Frame, Write(c, f),
         f.kind = "item" /\ f.by # None => Ready(c, f.inv)
  PROVE  SnapshotComesFirst'
<1>t. frames \in [Client -> Seq(Frame)]
  BY DEF HubTyped
<1> SUFFICES ASSUME NEW d \in Client, NEW k \in DOMAIN frames'[d], frames'[d][k].kind = "item", frames'[d][k].by # None
             PROVE  \E j \in 1 .. k - 1 : frames'[d][j] = Item(frames'[d][k].inv, None)
  BY DEF SnapshotComesFirst
<1>1. CASE k \in DOMAIN frames[d]
  <2>1. frames'[d][k] = frames[d][k]
    BY <1>t, <1>1, FramesKept
  <2>2. PICK j \in 1 .. k - 1 : frames[d][j] = Item(frames[d][k].inv, None)
    BY <1>1, <2>1 DEF SnapshotsFirst, SnapshotComesFirst
  <2>3. j \in DOMAIN frames[d]
    <3>1. DOMAIN frames[d] = 1 .. Len(frames[d]) /\ Len(frames[d]) \in Nat
      BY <1>t, LenProperties
    <3> QED
      BY <1>1, <3>1
  <2> QED
    BY <1>t, <2>1, <2>2, <2>3, FramesKept
<1>2. CASE k \notin DOMAIN frames[d]
  <2>1. d = c /\ sock[c] = "open" /\ frames'[d][k] = f /\ \A j \in DOMAIN frames[d] : j \in 1 .. k - 1
    BY <1>t, <1>2, FramesKept
  <2>2. PICK j \in DOMAIN frames[c] : frames[c][j] = Item(f.inv, None)
    BY <2>1 DEF Ready
  <2> QED
    BY <1>t, <2>1, <2>2, FramesKept
<1> QED
  BY <1>1, <1>2

(* No step lets a push overtake a snapshot. *)
LEMMA SnapshotsStay ==
  ASSUME HubTyped, IdsAgree, SnapshotsFirst, HubTyped', IdsAgree', Next
  PROVE  SnapshotsFirst'
<1>h. HubOf \in [Client -> HubIndex] /\ None \notin Chan /\ None \notin Inv /\ None \notin Push
  BY HubAssumption DEF HubIndex
<1>t. /\ pc \in [Client -> Where] /\ DOMAIN cur = Client /\ DOMAIN id = Client
      /\ streams \in [Client -> [Inv -> Chan \cup {None}]]
      /\ sock \in [Client -> {"none", "open", "closing", "closed"}]
      /\ frames \in [Client -> Seq(Frame)] /\ push \in [Push -> PushRecord]
  BY DEF HubTyped
<1>r. /\ \A d \in Client : Started(d) => Started(d)'
      /\ \A d \in Client : \A i : Ready(d, i) => Ready(d, i)'
      /\ \A d \in Client : \A k \in DOMAIN frames[d] : k \in DOMAIN frames'[d] /\ frames'[d][k] = frames[d][k]
  BY StepsKeep
<1>s. /\ \A c \in Client : ~Started(c) => sock[c] = "none"
      /\ \A c \in Client : sock[c] = "none" => pc[c] \in {"none", "upgrading", "ended"}
      /\ \A c \in Client, i \in Inv : streams[c][i] # None => Ready(c, i) /\ Started(c)
      /\ \A c \in Client : pc[c] = "opening" => cur[c] \in Inv \X Chan /\ Ready(c, cur[c][1])
      /\ \A c \in Client : pc[c] = "completing" => cur[c] \in Inv \X {None}
      /\ \A p \in Push : push[p].chan \in Chan \/ (push[p].todo = {} /\ push[p].open = {})
      /\ \A p \in Push : \A d \in push[p].out : d[2].kind = "item" => Ready(d[1], d[2].inv)
  BY DEF SnapshotsFirst
<1>o. \A p \in Push : \A d \in push'[p].out : d[2].kind = "item" => Ready(d[1], d[2].inv)'
  <2> SUFFICES ASSUME NEW p \in Push, NEW d \in push'[p].out, d[2].kind = "item" PROVE Ready(d[1], d[2].inv)'
    OBVIOUS
  <2>1. CASE d \in push[p].out
    <3>1. d[1] \in Client
      BY <1>t, <2>1 DEF PushRecord
    <3> QED
      BY <1>r, <1>s, <2>1, <3>1
  <2>2. CASE d[1] \in Client /\ d[2] = Invocation(p)
    BY <2>2, FrameKinds
  <2>3. CASE d[1] \in Client /\ \E i \in Inv : d[2] = Item(i, p) /\ streams[d[1]][i] # None
    BY <1>r, <1>s, <2>3, FrameKinds
  <2> QED
    BY <2>1, <2>2, <2>3, DeliveriesFollow
<1>f. SnapshotComesFirst'
  <2>1. CASE frames' = frames
    BY <2>1 DEF SnapshotsFirst, SnapshotComesFirst
  <2>2. ASSUME NEW c \in Client, NEW f \in Frame, Write(c, f), f.by = None PROVE SnapshotComesFirst'
    BY <2>2, ComesFirstStays
  <2>3. ASSUME NEW c \in Client, NEW f \in Frame, NEW p \in Push, Write(c, f), <<c, f>> \in push[p].out
        PROVE  SnapshotComesFirst'
    BY <1>s, <2>3, ComesFirstStays
  <2> QED
    BY <2>1, <2>2, <2>3, StepsWrite
<1>u. ASSUME pc' = pc, cur' = cur, streams' = streams, sock' = sock,
             \A p \in Push : push'[p].chan \in Chan \/ (push'[p].todo = {} /\ push'[p].open = {})
      PROVE  SnapshotsFirst'
  <2>1. \A c \in Client : /\ ~Started(c)' => sock'[c] = "none"
                          /\ sock'[c] = "none" => pc'[c] \in {"none", "upgrading", "ended"}
    BY <1>s, <1>u DEF Started
  <2>2. \A c \in Client, i \in Inv : streams'[c][i] # None => Ready(c, i)' /\ Started(c)'
    BY <1>s, <1>r, <1>u
  <2>3. \A c \in Client : pc'[c] = "opening" => cur'[c] \in Inv \X Chan /\ Ready(c, cur[c][1])'
    BY <1>s, <1>r, <1>u
  <2> QED
    BY <1>s, <1>o, <1>f, <1>u, <2>1, <2>2, <2>3 DEF SnapshotsFirst
<1>c. ASSUME NEW c \in Client, push' = push,
             \A d \in Client \ {c} : pc'[d] = pc[d] /\ cur'[d] = cur[d] /\ streams'[d] = streams[d] /\ sock'[d] = sock[d],
             ~Started(c)' => sock'[c] = "none",
             sock'[c] = "none" => pc'[c] \in {"none", "upgrading", "ended"},
             \A i \in Inv : streams'[c][i] # None => Ready(c, i)' /\ Started(c)',
             pc'[c] = "opening" => cur'[c] \in Inv \X Chan /\ Ready(c, cur[c][1])',
             pc'[c] = "completing" => cur'[c] \in Inv \X {None}
      PROVE  SnapshotsFirst'
  <2>1. \A d \in Client : /\ ~Started(d)' => sock'[d] = "none"
                          /\ sock'[d] = "none" => pc'[d] \in {"none", "upgrading", "ended"}
    BY <1>s, <1>c DEF Started
  <2>2. \A d \in Client, i \in Inv : streams'[d][i] # None => Ready(d, i)' /\ Started(d)'
    BY <1>s, <1>r, <1>c
  <2>3. \A d \in Client : pc'[d] = "opening" => cur'[d] \in Inv \X Chan /\ Ready(d, cur[d][1])'
    BY <1>s, <1>r, <1>c
  <2>4. \A d \in Client : pc'[d] = "completing" => cur'[d] \in Inv \X {None}
    BY <1>s, <1>c
  <2> QED
    BY <1>s, <1>o, <1>f, <1>c, <2>1, <2>2, <2>3, <2>4 DEF SnapshotsFirst
<1>k. \A c \in Client : streams'[c] = streams[c] => \A i \in Inv : streams'[c][i] # None => Ready(c, i)' /\ Started(c)'
  BY <1>r, <1>s
<1>1. ASSUME NEW h \in HubIndex, Negotiate(h) PROVE SnapshotsFirst'
  BY <1>s, <1>u, <1>1 DEF Negotiate
<1>2. ASSUME NEW c \in Client, freshToken(c) \/ \E n \in 1 .. MaxToken : consumeToken(c, n) PROVE SnapshotsFirst'
  <2>1. /\ pc[c] = "none" /\ pc' = [pc EXCEPT ![c] = "upgrading"]
        /\ cur' = cur /\ streams' = streams /\ sock' = sock /\ push' = push
    BY <1>2 DEF freshToken, consumeToken
  <2>2. pc'[c] = "upgrading" /\ sock'[c] = "none"
    BY <1>t, <1>s, <2>1 DEF Started
  <2> QED
    BY <1>t, <1>k, <1>c, <2>1, <2>2
<1>3. ASSUME NEW c \in Client, register(c) PROVE SnapshotsFirst'
  <2>1. /\ pc' = [pc EXCEPT ![c] = "connecting"] /\ sock' = [sock EXCEPT ![c] = "open"]
        /\ cur' = cur /\ streams' = streams /\ push' = push
    BY <1>3 DEF register
  <2>2. pc'[c] = "connecting" /\ Started(c)'
    BY <1>t, <2>1 DEF Started
  <2> QED
    BY <1>t, <1>k, <1>c, <2>1, <2>2
<1>4. ASSUME NEW c \in Client, \/ UpgradeFails(c) \/ HooksReturn(c) \/ CancelComplete(c) \/ ReadFails(c) \/ Leave(c)
                               \/ \E valid \in BOOLEAN : Handshake(c, valid)
      PROVE  SnapshotsFirst'
  <2>1. /\ \E x \in Where \ {"none", "upgrading", "opening", "completing"} : pc' = [pc EXCEPT ![c] = x]
        /\ cur' = cur \/ cur' = [cur EXCEPT ![c] = None]
        /\ sock' = sock \/ sock' = [sock EXCEPT ![c] = "closed"]
        /\ streams' = streams /\ push' = push
        /\ pc[c] \in {"none", "upgrading", "ended"} => pc' = [pc EXCEPT ![c] = "ended"]
    BY <1>4 DEF UpgradeFails, HooksReturn, CancelComplete, ReadFails, Leave, Handshake, connVars, Where
  <2>2. /\ pc'[c] \notin {"none", "upgrading", "opening", "completing"} /\ Started(c)'
        /\ sock'[c] = "none" => pc'[c] = "ended"
    BY <1>t, <1>s, <2>1 DEF Started
  <2> QED
    BY <1>t, <1>k, <1>c, <2>1, <2>2
<1>5. ASSUME NEW c \in Client, NEW p \in Push, NEW chan \in Chan, ConnectHook(c, p, chan) PROVE SnapshotsFirst'
  <2>1. /\ pc' = pc /\ cur' = cur /\ streams' = streams /\ sock' = sock
        /\ \A q \in Push \ {p} : push'[q] = push[q]
        /\ push'[p].chan = chan
    BY <1>t, <1>5 DEF ConnectHook, connVars, NoPush
  <2> QED
    BY <1>s, <1>u, <2>1
<1>6. ASSUME NEW c \in Client, NEW i \in Inv, NEW chan \in Chan, StreamSnapshot(c, i, chan) PROVE SnapshotsFirst'
  <2>1. /\ pc[c] = "reading" /\ pc' = [pc EXCEPT ![c] = "opening"] /\ cur' = [cur EXCEPT ![c] = <<i, chan>>]
        /\ sock[c] # "closed" /\ Write(c, Item(i, None))
        /\ streams' = streams /\ sock' = sock /\ push' = push
    BY <1>6 DEF StreamSnapshot, Reads
  <2>2. pc'[c] = "opening" /\ Started(c)' /\ cur'[c] = <<i, chan>> /\ sock'[c] # "none"
    BY <1>t, <1>s, <2>1 DEF Started
  <2>3. Ready(c, i)'
    <3>1. CASE sock[c] = "open"
      <4>0. Item(i, None) \in Frame
        BY FrameKinds
      <4>2. Write(c, Item(i, None))
        BY <2>1
      <4>1. \E k \in DOMAIN frames'[c] : frames'[c][k] = Item(i, None)
        BY <1>t, <3>1, <4>0, <4>2, WriteArrives
      <4> QED
        BY <4>1 DEF Ready
    <3>2. CASE sock[c] \in {"closing", "closed"}
      BY <2>1, <3>2 DEF Ready
    <3>3. sock[c] # "none"
      BY <1>s, <2>1
    <3> QED
      BY <1>t, <3>1, <3>2, <3>3
  <2>4. cur'[c] \in Inv \X Chan /\ cur'[c][1] = i
    BY <2>2
  <2> QED
    BY <1>t, <1>k, <1>c, <2>1, <2>2, <2>3, <2>4
<1>7. ASSUME NEW c \in Client, StreamRegister(c) PROVE SnapshotsFirst'
  <2>1. /\ pc[c] = "opening" /\ pc' = [pc EXCEPT ![c] = "reading"] /\ cur' = [cur EXCEPT ![c] = None]
        /\ streams' = [streams EXCEPT ![c][cur[c][1]] = cur[c][2]]
        /\ sock' = sock /\ push' = push
    BY <1>7 DEF StreamRegister
  <2>2. sock'[c] # "none" /\ pc'[c] = "reading" /\ Started(c)' /\ Ready(c, cur[c][1]) /\ cur[c] \in Inv \X Chan
    BY <1>t, <1>s, <2>1 DEF Started
  <2> DEFINE i == cur[c][1]
  <2>3. i \in Inv /\ Ready(c, i)
    BY <2>2
  <2>4. streams' = [streams EXCEPT ![c][i] = cur[c][2]]
    BY <2>1
  <2> HIDE DEF i
  <2>5. \A j \in Inv : streams'[c][j] # None => Ready(c, j)' /\ Started(c)'
    BY <1>t, <1>r, <1>s, <2>2, <2>3, <2>4
  <2>6. \A d \in Client \ {c} : streams'[d] = streams[d]
    BY <1>t, <2>4
  <2> QED
    BY <1>t, <1>c, <2>1, <2>2, <2>5, <2>6
<1>8. ASSUME NEW c \in Client, NEW i \in Inv, Answer(c, i) PROVE SnapshotsFirst'
  BY <1>s, <1>u, <1>8 DEF Answer
<1>9. ASSUME NEW c \in Client, NEW i \in Inv, CancelStream(c, i) PROVE SnapshotsFirst'
  <2>1. /\ pc[c] = "reading" /\ pc' = [pc EXCEPT ![c] = "completing"] /\ cur' = [cur EXCEPT ![c] = <<i, None>>]
        /\ streams' = [streams EXCEPT ![c][i] = IF Registered(c) THEN None ELSE @]
        /\ sock' = sock /\ push' = push
    BY <1>9 DEF CancelStream, Reads
  <2>2. pc'[c] = "completing" /\ Started(c)' /\ cur'[c] = <<i, None>> /\ sock'[c] # "none"
    BY <1>t, <1>s, <2>1 DEF Started
  <2>3. \A j \in Inv : streams'[c][j] # None => streams[c][j] # None
    BY <1>t, <2>1
  <2>4. \A j \in Inv : streams'[c][j] # None => Ready(c, j)' /\ Started(c)'
    BY <1>r, <1>s, <2>3
  <2>5. \A d \in Client \ {c} : streams'[d] = streams[d]
    BY <1>t, <2>1
  <2> QED
    BY <1>t, <1>c, <2>1, <2>2, <2>4, <2>5
<1>10. ASSUME NEW c \in Client, Disconnect(c) PROVE SnapshotsFirst'
  <2>1. PICK h \in HubIndex, v \in Client :
          /\ HubOf[v] = h /\ id[v] = id[c] /\ id[c] \in DOMAIN conns[h] /\ conns[h][id[c]] = v
          /\ Started(v)
          /\ sock' = sock \/ \E s \in {"closing", "closed"} : sock' = [sock EXCEPT ![v] = s]
          /\ conns' = conns \/ conns' = [conns EXCEPT ![h] = Without(@, id[c])]
    BY <1>10, DisconnectIs
  <2>2. pc' = pc /\ cur' = cur /\ streams' = streams /\ push' = push
    BY <1>10 DEF Disconnect, DisconnectClose, DisconnectUnregister, connVars
  <2>3. /\ Started(v)' /\ \A d \in Client \ {v} : sock'[d] = sock[d]
        /\ sock'[v] = "none" => pc'[v] \in {"none", "upgrading", "ended"}
    BY <1>t, <1>r, <1>s, <2>1, <2>2
  <2>4. /\ pc'[v] = "opening" => cur'[v] \in Inv \X Chan /\ Ready(v, cur[v][1])'
        /\ pc'[v] = "completing" => cur'[v] \in Inv \X {None}
    BY <1>r, <1>s, <2>2
  <2> QED
    BY <1>k, <1>c, <2>2, <2>3, <2>4
<1>11. ASSUME NEW p \in Push, NEW h \in HubIndex, NEW chan \in Chan,
              \/ SignalRPush(p, h, chan)
              \/ Candidates(p, h, chan, "each", None)
              \/ \E target \in Client : Candidates(p, h, chan, "one", target)
       PROVE  SnapshotsFirst'
  <2>1. pc' = pc /\ cur' = cur /\ streams' = streams /\ sock' = sock
    BY <1>11, PushBegins
  <2>2. ASSUME SignalRPush(p, h, chan)
        PROVE  push'[p].chan = chan /\ \A q \in Push \ {p} : push'[q] = push[q]
    BY <1>t, <2>2 DEF SignalRPush, NoPush
  <2>3. ASSUME NEW kind, NEW target, Candidates(p, h, chan, kind, target)
        PROVE  push'[p].chan = chan /\ \A q \in Push \ {p} : push'[q] = push[q]
    BY <1>t, <2>3 DEF Candidates, NoPush
  <2> QED
    BY <1>s, <1>u, <1>11, <2>1, <2>2, <2>3
<1>12. ASSUME NEW p \in Push, PushStep(p) PROVE SnapshotsFirst'
  <2>1. pc' = pc /\ cur' = cur /\ streams' = streams /\ sock' = sock
    BY <1>12 DEF PushStep, PushEnd, PushTo, PushWrite, connVars
  <2>2. ASSUME NEW c \in push[p].todo, PushTo(p, c)
        PROVE  \A q \in Push : push'[q].chan = push[q].chan /\ push'[q].todo \subseteq push[q].todo /\ push'[q].open = push[q].open
    BY <1>t, <2>2 DEF PushTo
  <2>3. ASSUME NEW d \in push[p].out, PushWrite(p, d)
        PROVE  \A q \in Push : push'[q].chan = push[q].chan /\ push'[q].todo \subseteq push[q].todo /\ push'[q].open = push[q].open
    BY <1>t, <2>3 DEF PushWrite
  <2>5. ASSUME PushEnd(p)
        PROVE  \A q \in Push : push'[q].chan = push[q].chan /\ push'[q].todo \subseteq push[q].todo /\ push'[q].open = push[q].open
    BY <1>t, <2>5 DEF PushEnd
  <2>4. \A q \in Push : push'[q].chan = push[q].chan /\ push'[q].todo \subseteq push[q].todo /\ push'[q].open = push[q].open
    BY <1>12, <2>2, <2>3, <2>5 DEF PushStep
  <2> QED
    BY <1>s, <1>u, <2>1, <2>4
<1> QED
  BY <1>1, <1>2, <1>3, <1>4, <1>5, <1>6, <1>7, <1>8, <1>9, <1>10, <1>11, <1>12 DEF Next, ConnStep

(* What a client finds in its frames after a write. *)
LEMMA WriteFinds ==
  ASSUME frames \in [Client -> Seq(Frame)], NEW c \in Client, NEW f \in Frame, Write(c, f), NEW d \in Client
  PROVE  \A k \in DOMAIN frames'[d] :
           (\E j \in DOMAIN frames[d] : frames[d][j] = frames'[d][k]) \/ (d = c /\ frames'[d][k] = f)
BY FramesKept

(* No step lets a push tell a stream twice. *)
LEMMA PushesStay ==
  ASSUME HubTyped, IdsAgree, SnapshotsFirst, PushesOnce, HubTyped', Next
  PROVE  PushesOnce'
<1>h. None \notin Push
  BY HubAssumption
<1>t. frames \in [Client -> Seq(Frame)] /\ push \in [Push -> PushRecord]
  BY DEF HubTyped
<1>r. \A d \in Client : Started(d) => Started(d)'
  BY StepsKeep
<1>s. /\ \A p \in Push : /\ push[p].pc \in {"idle", "ended"} => push[p].out = {} /\ push[p].todo = {}
                         /\ push[p].pc = "writing" => push[p].todo = {}
      /\ \A p \in Push, c \in Client : push[p].pc = "idle" \/ c \in push[p].todo => ~Told(c, p)
      /\ \A p \in Push : \A c \in push[p].todo : Started(c)
      /\ \A p \in Push : \A d \in push[p].out :
           /\ d[2] = Invocation(p) \/ \E i \in Inv : d[2] = Item(i, p)
           /\ Started(d[1]) /\ d[1] \notin push[p].todo
           /\ \A k \in DOMAIN frames[d[1]] : frames[d[1]][k] # d[2]
  BY DEF PushesOnce
<1>b. \A p \in Push : \A d \in push[p].out : d[2].by = p
  BY <1>s, FrameKinds
<1>d. \A p \in Push : \A d \in push[p].out : d[1] \in Client /\ d[2] \in Frame /\ d = <<d[1], d[2]>>
  BY <1>t DEF PushRecord
<1>e. \A p \in Push : push[p].todo \in SUBSET Client
  BY <1>t DEF PushRecord
<1>o. ASSUME NEW c \in Client, NEW f \in Frame, Write(c, f),
             f.by # None => \A k \in DOMAIN frames[c] : frames[c][k] # f
      PROVE  OncePerStream'
  <2> SUFFICES ASSUME NEW d \in Client, NEW j \in DOMAIN frames'[d], NEW k \in DOMAIN frames'[d],
                      j # k, frames'[d][j].by # None, frames'[d][j] = frames'[d][k]
               PROVE  FALSE
    BY DEF OncePerStream
  <2>1. CASE j \in DOMAIN frames[d] /\ k \in DOMAIN frames[d]
    <3>1. frames'[d][j] = frames[d][j] /\ frames'[d][k] = frames[d][k]
      BY <1>t, <1>o, <2>1, FramesKept
    <3>2. OncePerStream
      BY DEF PushesOnce
    <3>3. frames[d][j].by # None /\ frames[d][j] = frames[d][k]
      BY <3>1
    <3> QED
      BY <2>1, <3>2, <3>3 DEF OncePerStream
  <2>2. CASE j \notin DOMAIN frames[d] /\ k \in DOMAIN frames[d]
    <3>1. d = c /\ frames'[d][j] = f /\ frames'[d][k] = frames[d][k]
      BY <1>t, <1>o, <2>2, FramesKept
    <3> QED
      BY <1>o, <2>2, <3>1
  <2>3. CASE j \in DOMAIN frames[d] /\ k \notin DOMAIN frames[d]
    <3>1. d = c /\ frames'[d][k] = f /\ frames'[d][j] = frames[d][j]
      BY <1>t, <1>o, <2>3, FramesKept
    <3> QED
      BY <1>o, <2>3, <3>1
  <2>4. CASE j \notin DOMAIN frames[d] /\ k \notin DOMAIN frames[d]
    BY <1>t, <1>o, <2>4, FramesKept
  <2> QED
    BY <2>1, <2>2, <2>3, <2>4
<1>1. ASSUME frames' = frames, push' = push PROVE PushesOnce'
  <2>1. \A p \in Push, c \in Client : Told(c, p)' <=> Told(c, p)
    BY <1>1 DEF Told
  <2>2. OncePerStream'
    BY <1>1 DEF PushesOnce, OncePerStream
  <2>3. \A p \in Push : \A c \in push[p].todo : Started(c)'
    BY <1>r, <1>s, <1>e
  <2>4. \A p \in Push : \A d \in push[p].out : Started(d[1])'
    BY <1>r, <1>s, <1>d
  <2> QED
    BY <1>1, <1>s, <2>1, <2>2, <2>3, <2>4 DEF PushesOnce
<1>2. ASSUME NEW c \in Client, NEW f \in Frame, Write(c, f), f.by = None, push' = push PROVE PushesOnce'
  <2>1. \A p \in Push, d \in Client : Told(d, p)' => Told(d, p)
    <3> SUFFICES ASSUME NEW p \in Push, NEW d \in Client, NEW k \in DOMAIN frames'[d], frames'[d][k].by = p
                 PROVE  \E j \in DOMAIN frames[d] : frames[d][j].by = p
      BY DEF Told
    <3>1. frames'[d][k] # f
      BY <1>h, <1>2
    <3>2. PICK j \in DOMAIN frames[d] : frames[d][j] = frames'[d][k]
      BY <1>t, <1>2, <3>1, WriteFinds
    <3> QED
      BY <3>2
  <2>2. OncePerStream'
    BY <1>o, <1>2
  <2>3. \A p \in Push : \A d \in push[p].out : \A k \in DOMAIN frames'[d[1]] : frames'[d[1]][k] # d[2]
    <3> SUFFICES ASSUME NEW p \in Push, NEW d \in push[p].out, NEW k \in DOMAIN frames'[d[1]], frames'[d[1]][k] = d[2]
                 PROVE  FALSE
      OBVIOUS
    <3>1. d[2] # f
      BY <1>h, <1>b, <1>2
    <3>2. PICK j \in DOMAIN frames[d[1]] : frames[d[1]][j] = frames'[d[1]][k]
      BY <1>t, <1>d, <1>2, <3>1, WriteFinds
    <3> QED
      BY <1>s, <3>2
  <2>4. \A p \in Push : \A d \in push[p].todo : Started(d)'
    BY <1>r, <1>s, <1>e
  <2>5. \A p \in Push : \A d \in push[p].out : Started(d[1])'
    BY <1>r, <1>s, <1>d
  <2> QED
    BY <1>2, <1>s, <2>1, <2>2, <2>3, <2>4, <2>5 DEF PushesOnce
<1>3. ASSUME NEW p \in Push, frames' = frames, pc' = pc, \A q \in Push \ {p} : push'[q] = push[q],
             push'[p].pc \in {"idle", "ended"} => push'[p].out = {} /\ push'[p].todo = {},
             push'[p].pc = "writing" => push'[p].todo = {},
             \A c \in Client : push'[p].pc = "idle" \/ c \in push'[p].todo => ~Told(c, p),
             \A c \in push'[p].todo : Started(c),
             \A d \in push'[p].out :
               /\ d[2] = Invocation(p) \/ \E i \in Inv : d[2] = Item(i, p)
               /\ Started(d[1]) /\ d[1] \notin push'[p].todo
               /\ \A k \in DOMAIN frames[d[1]] : frames[d[1]][k] # d[2]
      PROVE  PushesOnce'
  <2>1. \A q, c : Told(c, q)' <=> Told(c, q)
    BY <1>3 DEF Told
  <2>2. OncePerStream'
    BY <1>3 DEF PushesOnce, OncePerStream
  <2>3. \A c : Started(c)' <=> Started(c)
    BY <1>3 DEF Started
  <2> DEFINE Right(q) ==
               /\ push'[q].pc \in {"idle", "ended"} => push'[q].out = {} /\ push'[q].todo = {}
               /\ push'[q].pc = "writing" => push'[q].todo = {}
               /\ \A c \in Client : push'[q].pc = "idle" \/ c \in push'[q].todo => ~Told(c, q)'
               /\ \A c \in push'[q].todo : Started(c)'
               /\ \A d \in push'[q].out :
                    /\ d[2] = Invocation(q) \/ \E i \in Inv : d[2] = Item(i, q)
                    /\ Started(d[1])' /\ d[1] \notin push'[q].todo
                    /\ \A k \in DOMAIN frames'[d[1]] : frames'[d[1]][k] # d[2]
  <2>4. Right(p)
    BY <1>3, <2>1, <2>3
  <2>5. \A q \in Push \ {p} : Right(q)
    <3> SUFFICES ASSUME NEW q \in Push \ {p} PROVE Right(q)
      OBVIOUS
    <3>1. push'[q] = push[q]
      BY <1>3
    <3> QED
      BY <1>3, <1>s, <2>1, <2>3, <3>1
  <2> QED
    BY <2>2, <2>4, <2>5 DEF PushesOnce
<1>4. ASSUME NEW c \in Client, NEW p \in Push, NEW chan \in Chan, ConnectHook(c, p, chan) PROVE PushesOnce'
  <2>1. /\ push[p].pc = "idle" /\ pc[c] = "connecting" /\ frames' = frames /\ pc' = pc
        /\ \A q \in Push \ {p} : push'[q] = push[q]
        /\ push'[p].pc = "choosing" /\ push'[p].out = {} /\ push'[p].todo = {c}
    BY <1>t, <1>4 DEF ConnectHook, connVars, NoPush
  <2>2. Started(c) /\ ~Told(c, p)
    BY <1>s, <2>1 DEF Started
  <2> QED
    BY <1>3, <2>1, <2>2
<1>5. ASSUME NEW p \in Push, NEW h \in HubIndex, NEW chan \in Chan, SignalRPush(p, h, chan) PROVE PushesOnce'
  <2> DEFINE out == buildStreamDeliveries(p, chan, Connections(h))
  <2>1. push[p].pc = "idle" /\ push'[p].pc = "writing" /\ push'[p].out = out /\ push'[p].todo = {}
        /\ frames' = frames /\ pc' = pc /\ \A q \in Push \ {p} : push'[q] = push[q]
    BY <1>t, <1>5 DEF SignalRPush, NoPush
  <2>2. \A d \in out : /\ d[1] \in Connections(h)
                       /\ d[2] = Invocation(p) \/ \E i \in Inv : d[2] = Item(i, p)
    BY ConnectionsAre, DeliveriesAre
  <2>3. \A d \in out : Started(d[1]) /\ d[1] \in Client /\ d[2].by = p
    BY <2>2, ConnectionsAre, FrameKinds
  <2>4. \A d \in out : \A k \in DOMAIN frames[d[1]] : frames[d[1]][k] # d[2]
    BY <1>s, <2>1, <2>3 DEF Told
  <2> HIDE DEF out
  <2> QED
    BY <1>3, <2>1, <2>2, <2>3, <2>4
<1>6. ASSUME NEW p \in Push, NEW h \in HubIndex, NEW chan \in Chan, NEW kind, NEW target,
             Candidates(p, h, chan, kind, target) PROVE PushesOnce'
  <2> DEFINE able == {c \in Connections(h) : Streams(c, chan) # {}}
             todo == IF kind = "one" THEN able \cap {target} ELSE able
  <2>1. /\ push[p].pc = "idle" /\ push'[p].pc = "choosing" /\ push'[p].out = {} /\ push'[p].todo = todo
        /\ \A q \in Push \ {p} : push'[q] = push[q]
    BY <1>t, <1>6 DEF Candidates, NoPush
  <2>2. todo \subseteq Connections(h)
    OBVIOUS
  <2>3. frames' = frames /\ pc' = pc
    BY <1>6, PushBegins
  <2> HIDE DEF todo
  <2>4. \A c \in todo : c \in Client /\ Started(c) /\ ~Told(c, p)
    BY <1>s, <2>1, <2>2, ConnectionsAre
  <2> QED
    BY <1>3, <2>1, <2>3, <2>4
<1>7. ASSUME NEW p \in Push, NEW c \in push[p].todo, PushTo(p, c) PROVE PushesOnce'
  <2> DEFINE full == buildStreamDeliveries(p, push[p].chan, {c})
             out == IF Registered(c) THEN full ELSE {}
  <2>1. /\ push[p].pc = "choosing" /\ push'[p].pc = "choosing" /\ push'[p].out = out /\ push'[p].todo = push[p].todo \ {c}
        /\ frames' = frames /\ pc' = pc /\ \A q \in Push \ {p} : push'[q] = push[q]
    BY <1>t, <1>7 DEF PushTo
  <2>2. c \in Client /\ Started(c) /\ ~Told(c, p)
    BY <1>e, <1>s
  <2>3. \A d \in full : d[1] \in {c} /\ (d[2] = Invocation(p) \/ \E i \in Inv : d[2] = Item(i, p))
    BY <2>2, DeliveriesAre
  <2> HIDE DEF full
  <2>4. \A d \in out : d[1] = c /\ (d[2] = Invocation(p) \/ \E i \in Inv : d[2] = Item(i, p))
    BY <2>3
  <2> HIDE DEF out
  <2>5. \A d \in out : \A k \in DOMAIN frames[d[1]] : frames[d[1]][k] # d[2]
    <3>1. \A d \in out : d[2].by = p
      BY <2>4, FrameKinds
    <3> QED
      BY <2>2, <2>4, <3>1 DEF Told
  <2>6. \A d \in out : Started(d[1]) /\ d[1] \notin push'[p].todo
    BY <2>1, <2>2, <2>4
  <2>7. \A e \in Client : e \in push'[p].todo => ~Told(e, p) /\ Started(e)
    BY <1>s, <2>1
  <2>8. push'[p].todo \in SUBSET Client
    BY <1>e, <2>1
  <2> QED
    BY <1>3, <2>1, <2>4, <2>5, <2>6, <2>7, <2>8
<1>8. ASSUME NEW p \in Push, PushEnd(p) PROVE PushesOnce'
  <2>1. /\ push'[p].pc = "ended" /\ push'[p].out = {} /\ push'[p].todo = {}
        /\ frames' = frames /\ pc' = pc /\ \A q \in Push \ {p} : push'[q] = push[q]
    BY <1>t, <1>8 DEF PushEnd, connVars
  <2> QED
    BY <1>3, <2>1
<1>9. ASSUME NEW p \in Push, NEW d \in push[p].out, PushWrite(p, d) PROVE PushesOnce'
  <2> DEFINE c == d[1]
             f == d[2]
  <2>1. /\ c \in Client /\ f \in Frame /\ Write(c, f) /\ pc' = pc
        /\ \A q \in Push \ {p} : push'[q] = push[q]
        /\ push'[p] = [push[p] EXCEPT !.out = @ \ {d}]
    BY <1>t, <1>d, <1>9 DEF PushWrite, connVars
  <2>2. \A q \in Push : /\ push'[q].pc = push[q].pc /\ push'[q].todo = push[q].todo /\ push'[q].out \subseteq push[q].out
                        /\ push[q].out = {} => push'[q].out = {}
    <3>1. push[p] \in PushRecord
      BY <1>t
    <3>2. push'[p].pc = push[p].pc /\ push'[p].todo = push[p].todo /\ push'[p].out = push[p].out \ {d}
      BY <2>1, <3>1 DEF PushRecord
    <3> QED
      BY <2>1, <3>2
  <2>3. d \notin push'[p].out
    <3>1. push[p] \in PushRecord
      BY <1>t
    <3> QED
      BY <2>1, <3>1 DEF PushRecord
  <2>4. f.by = p /\ \A k \in DOMAIN frames[c] : frames[c][k] # f
    BY <1>s, <1>b
  <2>5. OncePerStream'
    BY <1>o, <2>1, <2>4
  <2>6. \A q \in Push, e \in Client : Told(e, q)' => Told(e, q) \/ (q = p /\ e = c)
    BY <1>t, <2>1, <2>4, WriteFinds DEF Told
  <2>7. \A q \in Push, e \in Client : push'[q].pc = "idle" \/ e \in push'[q].todo => ~Told(e, q)'
    <3>1. push[p].pc # "idle" /\ c \notin push[p].todo
      BY <1>s
    <3> QED
      BY <1>s, <2>2, <2>6, <3>1
  <2>8. \A q \in Push : \A e \in push'[q].out : \A k \in DOMAIN frames'[e[1]] : frames'[e[1]][k] # e[2]
    <3> SUFFICES ASSUME NEW q \in Push, NEW e \in push'[q].out, NEW k \in DOMAIN frames'[e[1]], frames'[e[1]][k] = e[2]
                 PROVE  FALSE
      OBVIOUS
    <3>1. e \in push[q].out /\ e[1] \in Client /\ e = <<e[1], e[2]>> /\ e[2].by = q
      BY <1>b, <1>d, <2>2
    <3>2. ~(e[1] = c /\ e[2] = f)
      <4>1. CASE q = p
        BY <1>d, <2>3, <3>1, <4>1
      <4>2. CASE q # p
        BY <2>4, <3>1, <4>2
      <4> QED
        BY <4>1, <4>2
    <3>3. PICK j \in DOMAIN frames[e[1]] : frames[e[1]][j] = frames'[e[1]][k]
      BY <1>t, <2>1, <3>1, <3>2, WriteFinds
    <3> QED
      BY <1>s, <3>1, <3>3
  <2>9. \A q \in Push : /\ \A e \in push'[q].todo : Started(e)'
                        /\ \A e \in push'[q].out : Started(e[1])' /\ e[1] \notin push'[q].todo
    BY <1>r, <1>s, <1>d, <1>e, <2>2
  <2>10. \A q \in Push : \A e \in push'[q].out : e[2] = Invocation(q) \/ \E i \in Inv : e[2] = Item(i, q)
    BY <1>s, <2>2
  <2>11. \A q \in Push : /\ push'[q].pc \in {"idle", "ended"} => push'[q].out = {} /\ push'[q].todo = {}
                         /\ push'[q].pc = "writing" => push'[q].todo = {}
    BY <1>s, <2>2
  <2> QED
    BY <2>5, <2>7, <2>8, <2>9, <2>10, <2>11 DEF PushesOnce
<1>10. ASSUME NEW c \in Client, \/ UpgradeFails(c) \/ HooksReturn(c) \/ StreamRegister(c) \/ ReadFails(c) \/ Leave(c)
                                \/ freshToken(c) \/ register(c)
                                \/ \E n \in 1 .. MaxToken : consumeToken(c, n)
                                \/ \E i \in Inv : CancelStream(c, i)
                                \/ Disconnect(c)
       PROVE  PushesOnce'
  <2>1. frames' = frames /\ push' = push
    BY <1>10 DEF UpgradeFails, HooksReturn, StreamRegister, ReadFails, Leave, freshToken, register, consumeToken,
                 CancelStream, Disconnect, DisconnectClose, DisconnectUnregister, connVars
  <2> QED
    BY <1>1, <2>1
<1>11. ASSUME NEW c \in Client, \/ \E valid \in BOOLEAN : Handshake(c, valid)
                                \/ \E i \in Inv, chan \in Chan : StreamSnapshot(c, i, chan)
                                \/ \E i \in Inv : Answer(c, i)
       PROVE  PushesOnce'
  <2>1. push' = push /\ \E f \in Frame : Write(c, f) /\ f.by = None
    BY <1>11, FrameKinds DEF Handshake, StreamSnapshot, Answer
  <2> QED
    BY <1>2, <2>1
<1>12. ASSUME NEW c \in Client, CancelComplete(c) PROVE PushesOnce'
  <2>1. cur[c] \in Inv \X {None} /\ Write(c, Completion(cur[c][1])) /\ push' = push
    BY <1>12 DEF CancelComplete, SnapshotsFirst
  <2>2. Completion(cur[c][1]) \in Frame /\ Completion(cur[c][1]).by = None
    BY <2>1, FrameKinds
  <2> QED
    BY <1>2, <2>1, <2>2
<1>13. ASSUME NEW h \in HubIndex, Negotiate(h) PROVE PushesOnce'
  BY <1>1, <1>13 DEF Negotiate
<1>14. CASE \E p \in Push : PushStep(p)
  BY <1>7, <1>8, <1>9, <1>14 DEF PushStep
<1> QED
  BY <1>4, <1>5, <1>6, <1>10, <1>11, <1>12, <1>13, <1>14 DEF Next, ConnStep

(* The steps that change where a client is, its stream in hand, its        *)
(* streams or its place in the registry.                                   *)
LEMMA KeptStays ==
  ASSUME HubTyped, IdsAgree, SnapshotsFirst, StreamsReached, Next,
         NEW c \in Client, NEW i \in Inv, Started(c), Kept(c, i)'
  PROVE  Kept(c, i) /\ (streams[c][i] # None => streams'[c][i] = streams[c][i])
<1>h. HubOf \in [Client -> HubIndex]
  BY HubAssumption DEF HubIndex
<1>t. /\ pc \in [Client -> Where] /\ DOMAIN cur = Client /\ DOMAIN conns = HubIndex
      /\ streams \in [Client -> [Inv -> Chan \cup {None}]]
      /\ sock \in [Client -> {"none", "open", "closing", "closed"}]
      /\ frames \in [Client -> Seq(Frame)]
  BY DEF HubTyped
<1>f. \A k \in DOMAIN frames[c] : k \in DOMAIN frames'[c] /\ frames'[c][k] = frames[c][k]
  BY StepsKeep
<1>1. \A k \in DOMAIN frames[c] : frames[c][k] # Completion(i)
  BY <1>f DEF Kept, Completion
<1>2. \A j, k \in DOMAIN frames[c] : frames[c][j] = Item(i, None) /\ frames[c][k] = Item(i, None) => j = k
  BY <1>f DEF Kept, Item
<1>3. sock'[c] = "open" /\ Registered(c)' /\ ~(pc'[c] = "completing" /\ cur'[c][1] = i)
      /\ \A k \in DOMAIN frames'[c] : frames'[c][k] # Completion(i)
  BY DEF Kept, Completion
<1>o. ASSUME \A j, k \in DOMAIN frames[c] : frames[c][j] = Item(i, None) /\ frames[c][k] = Item(i, None) => j = k,
             sock[c] = "open", pc[c] = "opening", cur[c][1] = i
      PROVE  streams[c][i] = None
  BY <1>o DEF StreamsReached
<1> DEFINE Goal == /\ sock[c] = "open" /\ Registered(c) /\ ~(pc[c] = "completing" /\ cur[c][1] = i)
                   /\ streams[c][i] # None => streams'[c][i] = streams[c][i]
<1>4. ASSUME pc'[c] = pc[c], cur' = cur, streams' = streams, sock' = sock, conns' = conns PROVE Goal
  BY <1>3, <1>4 DEF Registered
<1>5. ASSUME NEW d \in Client \ {c}, register(d) PROVE Goal
  <2>1. /\ pc'[c] = pc[c] /\ cur' = cur /\ streams' = streams /\ sock'[c] = sock[c]
        /\ conns' = [conns EXCEPT ![HubOf[d]] = With(@, id[d], d)]
    BY <1>t, <1>5 DEF register
  <2>2. PICK n \in DOMAIN conns'[HubOf[c]] : conns'[HubOf[c]][n] = c
    BY <1>3 DEF Registered
  <2>3. n \in DOMAIN conns[HubOf[c]] /\ conns[HubOf[c]][n] = c
    BY <1>h, <1>t, <2>1, <2>2 DEF With
  <2> QED
    BY <1>3, <2>1, <2>3 DEF Registered
<1>6. ~register(c) /\ ~freshToken(c) /\ \A n : ~consumeToken(c, n)
  BY DEF register, freshToken, consumeToken, Started
<1>7. ASSUME NEW d \in Client, freshToken(d) \/ \E n \in 1 .. MaxToken : consumeToken(d, n) PROVE Goal
  <2>1. d # c
    BY <1>6, <1>7
  <2>2. pc' = [pc EXCEPT ![d] = "upgrading"] /\ cur' = cur /\ streams' = streams /\ sock' = sock /\ conns' = conns
    BY <1>7 DEF freshToken, consumeToken
  <2> QED
    BY <1>t, <1>4, <2>1, <2>2
<1>8. ASSUME NEW d \in Client, \/ UpgradeFails(d) \/ HooksReturn(d) \/ ReadFails(d)
                               \/ \E valid \in BOOLEAN : Handshake(d, valid)
      PROVE  Goal
  <2>1. /\ cur' = cur /\ streams' = streams /\ conns' = conns
        /\ sock' = sock \/ sock' = [sock EXCEPT ![d] = "closed"]
        /\ \E x : pc' = [pc EXCEPT ![d] = x]
        /\ pc[d] # "completing"
    BY <1>8 DEF UpgradeFails, HooksReturn, ReadFails, Handshake, connVars
  <2>2. sock[c] = "open" /\ Registered(c)
    BY <1>t, <1>3, <2>1 DEF Registered
  <2>3. ~(pc[c] = "completing" /\ cur[c][1] = i)
    BY <1>t, <1>3, <2>1
  <2> QED
    BY <2>1, <2>2, <2>3
<1>9. ASSUME NEW d \in Client, NEW j \in Inv, NEW chan \in Chan, StreamSnapshot(d, j, chan) PROVE Goal
  <2>1. /\ pc[d] = "reading" /\ pc' = [pc EXCEPT ![d] = "opening"] /\ cur' = [cur EXCEPT ![d] = <<j, chan>>]
        /\ streams' = streams /\ sock' = sock /\ conns' = conns
    BY <1>9 DEF StreamSnapshot, Reads
  <2>2. ~(pc[c] = "completing" /\ cur[c][1] = i)
    BY <1>t, <1>3, <2>1
  <2> QED
    BY <1>3, <2>1, <2>2 DEF Registered
<1>10. ASSUME NEW d \in Client, StreamRegister(d) PROVE Goal
  <2>1. /\ pc[d] = "opening" /\ pc' = [pc EXCEPT ![d] = "reading"] /\ cur' = [cur EXCEPT ![d] = None]
        /\ streams' = [streams EXCEPT ![d][cur[d][1]] = cur[d][2]]
        /\ sock' = sock /\ conns' = conns
    BY <1>10 DEF StreamRegister
  <2>2. /\ ~(pc[c] = "completing" /\ cur[c][1] = i)
        /\ sock[c] = "open" /\ Registered(c)
    BY <1>t, <1>3, <2>1 DEF Registered
  <2>3. CASE d = c /\ cur[c][1] = i
    BY <1>2, <1>o, <2>1, <2>2, <2>3
  <2>4. CASE ~(d = c /\ cur[c][1] = i)
    BY <1>t, <2>1, <2>2, <2>4
  <2> QED
    BY <2>3, <2>4
<1>11. ASSUME NEW d \in Client, NEW j \in Inv, CancelStream(d, j) PROVE Goal
  <2>1. /\ pc[d] = "reading" /\ pc' = [pc EXCEPT ![d] = "completing"] /\ cur' = [cur EXCEPT ![d] = <<j, None>>]
        /\ streams' = [streams EXCEPT ![d][j] = IF Registered(d) THEN None ELSE @]
        /\ sock' = sock /\ conns' = conns
    BY <1>11 DEF CancelStream, Reads
  <2>2. ~(d = c /\ i = j) /\ ~(pc[c] = "completing" /\ cur[c][1] = i)
    BY <1>t, <1>3, <2>1
  <2>3. streams'[c][i] = streams[c][i]
    BY <1>t, <2>1, <2>2
  <2> QED
    BY <1>3, <2>1, <2>2, <2>3 DEF Registered
<1>12. ASSUME NEW d \in Client, CancelComplete(d) PROVE Goal
  <2>1. /\ pc[d] = "completing" /\ pc' = [pc EXCEPT ![d] = "reading"] /\ cur' = [cur EXCEPT ![d] = None]
        /\ Write(d, Completion(cur[d][1])) /\ cur[d] \in Inv \X {None}
        /\ streams' = streams /\ sock' = sock /\ conns' = conns
    BY <1>12 DEF CancelComplete, connVars, SnapshotsFirst
  <2>2. sock[c] = "open" /\ Registered(c)
    BY <1>3, <2>1 DEF Registered
  <2>3. ~(d = c /\ cur[c][1] = i)
    <3> SUFFICES ASSUME d = c, cur[c][1] = i PROVE FALSE
      OBVIOUS
    <3>1. Write(c, Completion(i)) /\ Completion(i) \in Frame
      BY <2>1, FrameKinds
    <3>2. \E k \in DOMAIN frames'[c] : frames'[c][k] = Completion(i)
      BY <1>t, <2>2, <3>1, WriteArrives
    <3> QED
      BY <1>3, <3>2
  <2>4. ~(pc[c] = "completing" /\ cur[c][1] = i)
    BY <1>t, <1>3, <2>1, <2>3
  <2> QED
    BY <2>1, <2>2, <2>4
<1>13. ASSUME NEW d \in Client, Leave(d) PROVE Goal
  <2>1. /\ pc[d] = "leaving" /\ pc' = [pc EXCEPT ![d] = "ended"] /\ cur' = cur /\ streams' = streams
        /\ sock' = [sock EXCEPT ![d] = "closed"] /\ conns' = [conns EXCEPT ![HubOf[d]] = Without(@, id[d])]
    BY <1>13 DEF Leave
  <2>2. sock[c] = "open" /\ ~(pc[c] = "completing" /\ cur[c][1] = i)
    BY <1>t, <1>3, <2>1
  <2>3. Registered(c)
    BY <1>h, <1>t, <1>3, <2>1 DEF Registered, Without
  <2> QED
    BY <2>1, <2>2, <2>3
<1>14. ASSUME NEW d \in Client, Disconnect(d) PROVE Goal
  <2>1. PICK h \in HubIndex, v \in Client :
          /\ HubOf[v] = h /\ id[v] = id[d] /\ id[d] \in DOMAIN conns[h] /\ conns[h][id[d]] = v
          /\ Started(v)
          /\ sock' = sock \/ \E s \in {"closing", "closed"} : sock' = [sock EXCEPT ![v] = s]
          /\ conns' = conns \/ conns' = [conns EXCEPT ![h] = Without(@, id[d])]
    BY <1>14, DisconnectIs
  <2>2. pc' = pc /\ cur' = cur /\ streams' = streams
    BY <1>14 DEF Disconnect, DisconnectClose, DisconnectUnregister, connVars
  <2>3. sock[c] = "open"
    BY <1>t, <1>3, <2>1
  <2>4. Registered(c)
    BY <1>h, <1>t, <1>3, <2>1 DEF Registered, Without
  <2> QED
    BY <1>3, <2>2, <2>3, <2>4
<1>15. ASSUME NEW d \in Client, \/ \E p \in Push, chan \in Chan : ConnectHook(d, p, chan)
                                \/ \E j \in Inv : Answer(d, j)
       PROVE  Goal
  <2>1. pc' = pc /\ cur' = cur /\ streams' = streams /\ sock' = sock /\ conns' = conns
    BY <1>15 DEF ConnectHook, Answer, connVars
  <2> QED
    BY <1>4, <2>1
<1>16. ASSUME \E h \in HubIndex : Negotiate(h) PROVE Goal
  <2>1. pc' = pc /\ cur' = cur /\ streams' = streams /\ sock' = sock /\ conns' = conns
    BY <1>16 DEF Negotiate
  <2> QED
    BY <1>4, <2>1
<1>17. ASSUME \E p \in Push, h \in HubIndex, chan \in Chan :
                \/ SignalRPush(p, h, chan)
                \/ Candidates(p, h, chan, "each", None)
                \/ \E target \in Client : Candidates(p, h, chan, "one", target)
       PROVE  Goal
  BY <1>4, <1>17, PushBegins
<1>18. ASSUME \E p \in Push : PushStep(p) PROVE Goal
  <2>1. pc' = pc /\ cur' = cur /\ streams' = streams /\ sock' = sock /\ conns' = conns
    BY <1>18 DEF PushStep, PushEnd, PushTo, PushWrite, connVars
  <2> QED
    BY <1>4, <2>1
<1>20. ASSUME NEW d \in Client, register(d) PROVE Goal
  BY <1>5, <1>6, <1>20
<1>19. Goal
  <2> HIDE DEF Goal
  <2> QED
    BY <1>20, <1>7, <1>8, <1>9, <1>10, <1>11, <1>12, <1>13, <1>14, <1>15, <1>16, <1>17, <1>18 DEF Next, ConnStep
<1> QED
  BY <1>1, <1>2, <1>19 DEF Kept

(* A client that is opening a stream on an open socket has just written    *)
(* its snapshot, or nothing has changed for it.                            *)
LEMMA OpeningIs ==
  ASSUME HubTyped, IdsAgree, SnapshotsFirst, Next, NEW c \in Client, pc'[c] = "opening", sock'[c] = "open"
  PROVE  \/ pc[c] = "opening" /\ cur'[c] = cur[c] /\ streams'[c] = streams[c] /\ sock[c] = "open"
         \/ \E i \in Inv, chan \in Chan : StreamSnapshot(c, i, chan)
<1>t. /\ pc \in [Client -> Where] /\ DOMAIN cur = Client
      /\ streams \in [Client -> [Inv -> Chan \cup {None}]]
      /\ sock \in [Client -> {"none", "open", "closing", "closed"}]
  BY DEF HubTyped
<1> DEFINE Same == pc[c] = "opening" /\ cur'[c] = cur[c] /\ streams'[c] = streams[c] /\ sock[c] = "open"
<1>1. ASSUME NEW d \in Client, NEW x \in Where \ {"opening"}, pc' = [pc EXCEPT ![d] = x],
             \A e \in Client \ {d} : cur'[e] = cur[e] /\ streams'[e] = streams[e] /\ sock'[e] = sock[e]
      PROVE  Same
  BY <1>t, <1>1
<1>2. ASSUME pc' = pc, cur' = cur, streams' = streams, sock' = sock PROVE Same
  BY <1>2
<1>3. ASSUME NEW d \in Client, \/ UpgradeFails(d) \/ HooksReturn(d) \/ CancelComplete(d) \/ ReadFails(d) \/ Leave(d)
                               \/ freshToken(d) \/ register(d) \/ StreamRegister(d)
                               \/ \E n \in 1 .. MaxToken : consumeToken(d, n)
                               \/ \E valid \in BOOLEAN : Handshake(d, valid)
                               \/ \E i \in Inv : CancelStream(d, i)
      PROVE  Same
  <2>1. \E x \in Where \ {"opening"} : pc' = [pc EXCEPT ![d] = x]
    BY <1>3 DEF UpgradeFails, HooksReturn, CancelComplete, ReadFails, Leave, freshToken, register, StreamRegister,
                consumeToken, Handshake, CancelStream, Where
  <2>2. /\ cur' = cur \/ \E y : cur' = [cur EXCEPT ![d] = y]
        /\ sock' = sock \/ \E y : sock' = [sock EXCEPT ![d] = y]
        /\ streams' = streams \/ \E j, y : streams' = [streams EXCEPT ![d][j] = y]
    <3>1. ASSUME StreamRegister(d) PROVE <2>2!:
      BY <3>1 DEF StreamRegister
    <3>2. ASSUME NEW i \in Inv, CancelStream(d, i) PROVE <2>2!:
      BY <3>2 DEF CancelStream
    <3>3. ASSUME \/ UpgradeFails(d) \/ HooksReturn(d) \/ CancelComplete(d) \/ ReadFails(d) \/ Leave(d)
                 \/ freshToken(d) \/ register(d)
                 \/ \E n \in 1 .. MaxToken : consumeToken(d, n)
                 \/ \E valid \in BOOLEAN : Handshake(d, valid)
          PROVE <2>2!:
      BY <3>3 DEF UpgradeFails, HooksReturn, CancelComplete, ReadFails, Leave, freshToken, register,
                  consumeToken, Handshake, connVars
    <3> QED
      BY <1>3, <3>1, <3>2, <3>3
  <2>3. \A e \in Client \ {d} : cur'[e] = cur[e] /\ streams'[e] = streams[e] /\ sock'[e] = sock[e]
    BY <1>t, <2>2
  <2> QED
    BY <1>1, <2>1, <2>3
<1>4. ASSUME NEW d \in Client, NEW i \in Inv, NEW chan \in Chan, StreamSnapshot(d, i, chan), d # c PROVE Same
  BY <1>t, <1>4 DEF StreamSnapshot
<1>5. ASSUME NEW d \in Client, Disconnect(d) PROVE Same
  <2>1. PICK h \in HubIndex, v \in Client :
          /\ HubOf[v] = h /\ id[v] = id[d] /\ id[d] \in DOMAIN conns[h] /\ conns[h][id[d]] = v
          /\ Started(v)
          /\ sock' = sock \/ \E s \in {"closing", "closed"} : sock' = [sock EXCEPT ![v] = s]
          /\ conns' = conns \/ conns' = [conns EXCEPT ![h] = Without(@, id[d])]
    BY <1>5, DisconnectIs
  <2>2. pc' = pc /\ cur' = cur /\ streams' = streams
    BY <1>5 DEF Disconnect, DisconnectClose, DisconnectUnregister, connVars
  <2> QED
    BY <1>t, <2>1, <2>2
<1>6. ASSUME NEW d \in Client, \/ \E p \in Push, chan \in Chan : ConnectHook(d, p, chan)
                               \/ \E j \in Inv : Answer(d, j)
      PROVE  Same
  <2>1. pc' = pc /\ cur' = cur /\ streams' = streams /\ sock' = sock
    BY <1>6 DEF ConnectHook, Answer, connVars
  <2> QED
    BY <1>2, <2>1
<1>7. ASSUME \E h \in HubIndex : Negotiate(h) PROVE Same
  BY <1>2, <1>7 DEF Negotiate
<1>8. ASSUME \E p \in Push, h \in HubIndex, chan \in Chan :
               \/ SignalRPush(p, h, chan)
               \/ Candidates(p, h, chan, "each", None)
               \/ \E target \in Client : Candidates(p, h, chan, "one", target)
      PROVE  Same
  BY <1>2, <1>8, PushBegins
<1>9. ASSUME \E p \in Push : PushStep(p) PROVE Same
  <2>1. pc' = pc /\ cur' = cur /\ streams' = streams /\ sock' = sock
    BY <1>9 DEF PushStep, PushEnd, PushTo, PushWrite, connVars
  <2> QED
    BY <1>2, <2>1
<1> HIDE DEF Same
<1>10. Same \/ \E i \in Inv, chan \in Chan : StreamSnapshot(c, i, chan)
  BY <1>3, <1>4, <1>5, <1>6, <1>7, <1>8, <1>9 DEF Next, ConnStep
<1> QED
  BY <1>10 DEF Same

(* No step lets a push miss a stream that stays open for it. *)
LEMMA ReachedStays ==
  ASSUME HubTyped, IdsAgree, SnapshotsFirst, PushesOnce, StreamsReached, HubTyped', SnapshotsFirst', Next
  PROVE  StreamsReached'
<1>h. HubOf \in [Client -> HubIndex] /\ None \notin Chan /\ None \notin Push
  BY HubAssumption DEF HubIndex
<1>t. /\ pc \in [Client -> Where] /\ DOMAIN cur = Client
      /\ streams \in [Client -> [Inv -> Chan \cup {None}]]
      /\ sock \in [Client -> {"none", "open", "closing", "closed"}]
      /\ frames \in [Client -> Seq(Frame)] /\ push \in [Push -> PushRecord]
  BY DEF HubTyped
<1>r. /\ \A d \in Client : Started(d) => Started(d)'
      /\ \A d \in Client : \A k \in DOMAIN frames[d] : k \in DOMAIN frames'[d] /\ frames'[d][k] = frames[d][k]
  BY StepsKeep
<1>s. \A p \in Push : \A s \in push[p].open :
        /\ s \in Client \X Inv /\ s[1] \in Client /\ s[2] \in Inv
        /\ Started(s[1])
        /\ push[p].kind # "one" /\ Kept(s[1], s[2]) => Reaches(p, s[1], s[2])
        /\ push[p].kind = "all" => /\ \A d \in push[p].out : d[2] # Invocation(p)
                                   /\ \A d \in Client : \A k \in DOMAIN frames[d] : frames[d][k] # Invocation(p)
  BY <1>t DEF StreamsReached, PushRecord
<1>a. \A p \in Push : push[p].kind = "all" => push[p].todo = {}
  BY DEF StreamsReached
<1>c. \A p \in Push : push[p].todo # {} \/ push[p].open # {} => push[p].chan \in Chan /\ push[p].chan # None
  BY <1>h DEF SnapshotsFirst
<1>1. \A c \in Client : pc'[c] = "opening" /\ sock'[c] = "open" /\ streams'[c][cur'[c][1]] # None =>
        \E j, k \in DOMAIN frames'[c] : /\ j # k
                                        /\ frames'[c][j] = Item(cur'[c][1], None) /\ frames'[c][k] = Item(cur'[c][1], None)
  <2> SUFFICES ASSUME NEW c \in Client, pc'[c] = "opening", sock'[c] = "open", streams'[c][cur'[c][1]] # None
               PROVE  \E j, k \in DOMAIN frames'[c] :
                        /\ j # k
                        /\ frames'[c][j] = Item(cur'[c][1], None) /\ frames'[c][k] = Item(cur'[c][1], None)
    OBVIOUS
  <2>1. CASE pc[c] = "opening" /\ cur'[c] = cur[c] /\ streams'[c] = streams[c] /\ sock[c] = "open"
    <3>1. \E j, k \in DOMAIN frames[c] : /\ j # k
                                         /\ frames[c][j] = Item(cur[c][1], None) /\ frames[c][k] = Item(cur[c][1], None)
      BY <2>1 DEF StreamsReached
    <3> QED
      BY <1>r, <2>1, <3>1
  <2>2. ASSUME NEW i \in Inv, NEW chan \in Chan, StreamSnapshot(c, i, chan)
        PROVE  \E j, k \in DOMAIN frames'[c] :
                 /\ j # k
                 /\ frames'[c][j] = Item(cur'[c][1], None) /\ frames'[c][k] = Item(cur'[c][1], None)
    <3>1. cur'[c] = <<i, chan>> /\ streams' = streams /\ sock' = sock /\ Write(c, Item(i, None))
      BY <1>t, <2>2 DEF StreamSnapshot
    <3>2. cur'[c][1] = i /\ streams[c][i] # None /\ sock[c] = "open"
      BY <3>1
    <3>3. PICK j \in DOMAIN frames[c] : frames[c][j] = Item(i, None)
      BY <3>2 DEF SnapshotsFirst, Ready
    <3> DEFINE f == Item(i, None)
    <3>4. f \in Frame /\ Write(c, f)
      BY <3>1, FrameKinds
    <3>5. PICK k \in DOMAIN frames'[c] : k \notin DOMAIN frames[c] /\ frames'[c][k] = f
      <4> HIDE DEF f
      <4> QED
        BY <1>t, <3>2, <3>4, FramesKept
    <3>6. j \in DOMAIN frames'[c] /\ frames'[c][j] = f /\ j # k
      BY <1>r, <3>3, <3>5
    <3> QED
      BY <3>2, <3>5, <3>6
  <2> QED
    BY <2>1, <2>2, OpeningIs
<1> DEFINE Right(p) == \A s \in push'[p].open :
                         /\ Started(s[1])'
                         /\ push'[p].kind # "one" /\ Kept(s[1], s[2])' => Reaches(p, s[1], s[2])'
                         /\ push'[p].kind = "all" =>
                              /\ \A d \in push'[p].out : d[2] # Invocation(p)
                              /\ \A d \in Client : \A k \in DOMAIN frames'[d] : frames'[d][k] # Invocation(p)
<1>k. \A p \in Push : \A s \in push[p].open :
        push[p].kind # "one" /\ Kept(s[1], s[2])' => Reaches(p, s[1], s[2]) /\ streams'[s[1]][s[2]] = push[p].chan
  <2> SUFFICES ASSUME NEW p \in Push, NEW s \in push[p].open, push[p].kind # "one", Kept(s[1], s[2])'
               PROVE  Reaches(p, s[1], s[2]) /\ streams'[s[1]][s[2]] = push[p].chan
    OBVIOUS
  <2> DEFINE c == s[1]
             i == s[2]
  <2>1. c \in Client /\ i \in Inv /\ Started(c) /\ push[p].chan # None
    BY <1>s, <1>c
  <2>2. Kept(c, i) /\ (streams[c][i] # None => streams'[c][i] = streams[c][i])
    <3> HIDE DEF c, i
    <3>1. Kept(c, i)'
      BY DEF c, i
    <3> QED
      BY <2>1, <3>1, KeptStays
  <2>3. Reaches(p, c, i)
    BY <1>s, <2>2
  <2> QED
    BY <2>1, <2>2, <2>3 DEF Reaches
(* What is written that belongs to no push, or to another, does not        *)
(* concern this one.                                                       *)
<1>2. ASSUME NEW p \in Push, push'[p] = push[p],
             frames' = frames \/ \E c \in Client, f \in Frame : Write(c, f) /\ f.by # p
      PROVE  Right(p)
  <2>1. \A d \in Client : \A k \in DOMAIN frames'[d] : frames'[d][k] = Invocation(p) =>
          \E j \in DOMAIN frames[d] : frames[d][j] = Invocation(p)
    <3>1. CASE frames' = frames
      BY <3>1
    <3>2. ASSUME NEW c \in Client, NEW f \in Frame, Write(c, f), f.by # p
          PROVE  \A d \in Client : \A k \in DOMAIN frames'[d] : frames'[d][k] = Invocation(p) =>
                   \E j \in DOMAIN frames[d] : frames[d][j] = Invocation(p)
      <4>1. f # Invocation(p)
        BY <3>2, FrameKinds
      <4> SUFFICES ASSUME NEW d \in Client, NEW k \in DOMAIN frames'[d], frames'[d][k] = Invocation(p)
                   PROVE  \E j \in DOMAIN frames[d] : frames[d][j] = frames'[d][k]
        OBVIOUS
      <4> QED
        BY <1>t, <3>2, <4>1, WriteFinds
    <3> QED
      BY <1>2, <3>1, <3>2
  <2>2. \A s \in push[p].open : push[p].kind # "one" /\ Kept(s[1], s[2])' => Reaches(p, s[1], s[2])'
    <3> SUFFICES ASSUME NEW s \in push[p].open, push[p].kind # "one", Kept(s[1], s[2])'
                 PROVE  Reaches(p, s[1], s[2])'
      OBVIOUS
    <3>1. Reaches(p, s[1], s[2]) /\ streams'[s[1]][s[2]] = push[p].chan /\ s[1] \in Client
      BY <1>k, <1>s
    <3>2. \/ \E k \in DOMAIN frames'[s[1]] : frames'[s[1]][k] = Item(s[2], p)
          \/ <<s[1], Item(s[2], p)>> \in push[p].out
          \/ s[1] \in push[p].todo
      BY <1>r, <3>1 DEF Reaches
    <3> QED
      BY <1>2, <3>1, <3>2 DEF Reaches
  <2>3. \A s \in push[p].open : Started(s[1])'
    BY <1>r, <1>s
  <2> QED
    BY <1>2, <1>s, <2>1, <2>2, <2>3
<1>3. ASSUME push' = push, frames' = frames \/ \E c \in Client, f \in Frame : Write(c, f) /\ f.by = None
      PROVE  \A p \in Push : Right(p)
  BY <1>h, <1>2, <1>3
<1>q. ASSUME push' = push PROVE \A p \in Push : push'[p].kind = "all" => push'[p].todo = {}
  BY <1>a, <1>q
(* A push that begins. *)
<1>4. ASSUME NEW p \in Push, NEW h \in HubIndex, NEW chan \in Chan, SignalRPush(p, h, chan)
      PROVE  Right(p) /\ push'[p].todo = {}
  <2> DEFINE out == buildStreamDeliveries(p, chan, Connections(h))
             open == OpenStreams(h, chan)
  <2>1. /\ push[p].pc = "idle" /\ push'[p].out = out /\ push'[p].open = open /\ push'[p].kind = "all"
        /\ push'[p].chan = chan /\ push'[p].todo = {}
    BY <1>t, <1>4 DEF SignalRPush, NoPush
  <2>2. frames' = frames /\ streams' = streams /\ pc' = pc
    BY <1>4, PushBegins
  <2>3. \A s \in open : s[1] \in Connections(h) /\ s[1] \in Client /\ s[2] \in Inv /\ streams[s[1]][s[2]] = chan
                        /\ Started(s[1])
    BY ConnectionsAre DEF OpenStreams
  <2>4. /\ \A d \in out : d[2] = Invocation(p) => \A c \in Connections(h) : Streams(c, chan) = {}
        /\ \A c \in Connections(h), i \in Inv : streams[c][i] = chan => <<c, Item(i, p)>> \in out
    BY ConnectionsAre, DeliveriesAre, FrameKinds
  <2>5. \A s \in open : s[2] \in Streams(s[1], chan)
    BY <2>3 DEF Streams
  <2>6. \A d \in Client : \A k \in DOMAIN frames[d] : frames[d][k] # Invocation(p)
    <3>1. \A d \in Client : ~Told(d, p)
      BY <2>1 DEF PushesOnce
    <3> QED
      BY <3>1, FrameKinds DEF Told
  <2> HIDE DEF out, open
  <2>7. \A s \in open : <<s[1], Item(s[2], p)>> \in out /\ \A d \in out : d[2] # Invocation(p)
    BY <2>3, <2>4, <2>5
  <2>8. \A s \in open : Reaches(p, s[1], s[2])'
    BY <2>1, <2>2, <2>3, <2>7 DEF Reaches
  <2>9. \A s \in open : Started(s[1])'
    BY <2>2, <2>3 DEF Started
  <2> QED
    BY <2>1, <2>2, <2>6, <2>7, <2>8, <2>9
<1>5. ASSUME NEW p \in Push, NEW h \in HubIndex, NEW chan \in Chan, NEW kind, NEW target, kind # "all",
             Candidates(p, h, chan, kind, target)
      PROVE  Right(p) /\ push'[p].kind # "all"
  <2> DEFINE able == {c \in Connections(h) : Streams(c, chan) # {}}
             open == OpenStreams(h, chan)
  <2>1. /\ push'[p].open = open /\ push'[p].kind = kind /\ push'[p].chan = chan
        /\ kind # "one" => push'[p].todo = able
    BY <1>t, <1>5 DEF Candidates, NoPush
  <2>2. frames' = frames /\ streams' = streams /\ pc' = pc
    BY <1>5, PushBegins
  <2>3. \A s \in open : s[1] \in Connections(h) /\ s[1] \in Client /\ s[2] \in Inv /\ streams[s[1]][s[2]] = chan
                        /\ Started(s[1])
    BY ConnectionsAre DEF OpenStreams
  <2>5. \A s \in open : s[1] \in able
    BY <2>3 DEF Streams
  <2> HIDE DEF able, open
  <2>8. \A s \in open : kind # "one" => Reaches(p, s[1], s[2])'
    BY <2>1, <2>2, <2>3, <2>5 DEF Reaches
  <2>9. \A s \in open : Started(s[1])'
    BY <2>2, <2>3 DEF Started
  <2> QED
    BY <1>5, <2>1, <2>8, <2>9
<1>6. ASSUME NEW c \in Client, NEW p \in Push, NEW chan \in Chan, ConnectHook(c, p, chan)
      PROVE  Right(p) /\ push'[p].kind # "all" /\ frames' = frames /\ \A q \in Push \ {p} : push'[q] = push[q]
  <2>1. push'[p].open = {} /\ push'[p].kind = "connect"
    BY <1>t, <1>6 DEF ConnectHook, NoPush
  <2>2. frames' = frames /\ \A q \in Push \ {p} : push'[q] = push[q]
    BY <1>t, <1>6 DEF ConnectHook, connVars
  <2> QED
    BY <2>1, <2>2
(* A push that goes on. *)
<1>7. ASSUME NEW p \in Push, NEW c \in push[p].todo, PushTo(p, c)
      PROVE  Right(p) /\ push'[p].kind # "all"
  <2> DEFINE full == buildStreamDeliveries(p, push[p].chan, {c})
             out == IF Registered(c) THEN full ELSE {}
  <2>1. /\ push[p].out = {} /\ push'[p].out = out /\ push'[p].todo = push[p].todo \ {c}
        /\ push'[p].kind = push[p].kind /\ push'[p].chan = push[p].chan /\ push'[p].open = push[p].open
        /\ frames' = frames /\ streams' = streams /\ pc' = pc
    BY <1>t, <1>7 DEF PushTo
  <2>2. c \in Client /\ push[p].kind # "all"
    BY <1>t, <1>a DEF PushRecord
  <2>3. \A i \in Inv : streams[c][i] = push[p].chan => <<c, Item(i, p)>> \in full
    BY <2>2, DeliveriesAre
  <2> HIDE DEF full
  <2>4. \A s \in push[p].open : push[p].kind # "one" /\ Kept(s[1], s[2])' => Reaches(p, s[1], s[2])'
    <3> SUFFICES ASSUME NEW s \in push[p].open, push[p].kind # "one", Kept(s[1], s[2])'
                 PROVE  Reaches(p, s[1], s[2])'
      OBVIOUS
    <3>1. Reaches(p, s[1], s[2]) /\ s[1] \in Client /\ s[2] \in Inv
      BY <1>k, <1>s
    <3>2. CASE s[1] = c
      <4>1. Registered(c)
        <5>1. Registered(c)'
          BY <3>2 DEF Kept
        <5>2. conns' = conns
          BY <1>7 DEF PushTo
        <5> QED
          BY <5>1, <5>2 DEF Registered
      <4>2. <<s[1], Item(s[2], p)>> \in push'[p].out
        BY <2>1, <2>3, <3>1, <3>2, <4>1 DEF Reaches
      <4> QED
        BY <2>1, <3>1, <4>2 DEF Reaches
    <3>3. CASE s[1] # c
      BY <2>1, <3>1, <3>3 DEF Reaches
    <3> QED
      BY <3>2, <3>3
  <2>5. \A s \in push[p].open : Started(s[1])'
    BY <1>r, <1>s
  <2> QED
    BY <2>1, <2>2, <2>4, <2>5
<1>8. ASSUME NEW p \in Push, NEW d \in push[p].out, PushWrite(p, d)
      PROVE  \A q \in Push : Right(q) /\ (push'[q].kind = "all" => push'[q].todo = {})
  <2> DEFINE c == d[1]
             f == d[2]
  <2>1. /\ d \in Client \X Frame /\ c \in Client /\ f \in Frame /\ d = <<c, f>> /\ Write(c, f) /\ f.by = p
        /\ \A q \in Push \ {p} : push'[q] = push[q]
    <3>1. d \in Client \X Frame
      BY <1>t DEF PushRecord
    <3>2. f.by = p
      BY FrameKinds DEF PushesOnce
    <3>3. Write(d[1], d[2]) /\ \A q \in Push \ {p} : push'[q] = push[q]
      BY <1>t, <1>8 DEF PushWrite
    <3> QED
      BY <3>1, <3>2, <3>3
  <2>2. /\ push'[p].out = push[p].out \ {d} /\ push'[p].todo = push[p].todo /\ push'[p].kind = push[p].kind
        /\ push'[p].chan = push[p].chan /\ push'[p].open = push[p].open
    BY <1>t, <1>8 DEF PushWrite
  <2>3. \A q \in Push \ {p} : Right(q)
    BY <1>2, <2>1
  <2>4. \A s \in push[p].open : push[p].kind # "one" /\ Kept(s[1], s[2])' => Reaches(p, s[1], s[2])'
    <3> SUFFICES ASSUME NEW s \in push[p].open, push[p].kind # "one", Kept(s[1], s[2])'
                 PROVE  Reaches(p, s[1], s[2])'
      OBVIOUS
    <3>1. Reaches(p, s[1], s[2]) /\ streams'[s[1]][s[2]] = push[p].chan /\ s[1] \in Client
      BY <1>k, <1>s
    <3>2. CASE d = <<s[1], Item(s[2], p)>>
      <4>1. sock[c] = "open" /\ c = s[1] /\ f = Item(s[2], p)
        <5>1. sock'[s[1]] = "open" /\ sock' = sock
          BY <1>8 DEF Kept, PushWrite
        <5> QED
          BY <3>2, <5>1
      <4>2. \E k \in DOMAIN frames'[c] : frames'[c][k] = f
        <5> HIDE DEF c, f
        <5> QED
          BY <1>t, <2>1, <4>1, WriteArrives
      <4> QED
        BY <2>2, <3>1, <4>1, <4>2 DEF Reaches
    <3>3. CASE d # <<s[1], Item(s[2], p)>>
      <4>1. \/ \E k \in DOMAIN frames'[s[1]] : frames'[s[1]][k] = Item(s[2], p)
            \/ <<s[1], Item(s[2], p)>> \in push'[p].out
            \/ s[1] \in push'[p].todo
        BY <1>r, <2>2, <3>1, <3>3 DEF Reaches
      <4> QED
        BY <2>2, <3>1, <4>1 DEF Reaches
    <3> QED
      BY <3>2, <3>3
  <2>5. \A s \in push[p].open : Started(s[1])'
    BY <1>r, <1>s
  <2>6. push[p].kind = "all" /\ push[p].open # {} => \A e \in Client : \A k \in DOMAIN frames'[e] : frames'[e][k] # Invocation(p)
    <3> SUFFICES ASSUME push[p].kind = "all", push[p].open # {}, NEW e \in Client, NEW k \in DOMAIN frames'[e],
                        frames'[e][k] = Invocation(p)
                 PROVE  FALSE
      OBVIOUS
    <3>1. f # Invocation(p) /\ \A j \in DOMAIN frames[e] : frames[e][j] # Invocation(p)
      BY <1>s
    <3> HIDE DEF f, c
    <3> QED
      BY <1>t, <2>1, <3>1, WriteFinds
  <2>7. \A e \in push'[p].out : e \in push[p].out
    BY <2>2
  <2>8. Right(p)
    BY <1>s, <2>2, <2>4, <2>5, <2>6, <2>7
  <2> QED
    BY <1>a, <2>1, <2>2, <2>3, <2>8
<1>9. ASSUME NEW p \in Push, PushEnd(p)
      PROVE  Right(p) /\ (push'[p].kind = "all" => push'[p].todo = {})
  <2>1. /\ push'[p].out = push[p].out /\ push'[p].todo = push[p].todo /\ push'[p].kind = push[p].kind
        /\ push'[p].chan = push[p].chan /\ push'[p].open = push[p].open
        /\ frames' = frames
    BY <1>t, <1>9 DEF PushEnd, connVars
  <2>2. \A s \in push[p].open : push[p].kind # "one" /\ Kept(s[1], s[2])' => Reaches(p, s[1], s[2])'
    <3> SUFFICES ASSUME NEW s \in push[p].open, push[p].kind # "one", Kept(s[1], s[2])'
                 PROVE  Reaches(p, s[1], s[2])'
      OBVIOUS
    <3>1. Reaches(p, s[1], s[2]) /\ streams'[s[1]][s[2]] = push[p].chan
      BY <1>k
    <3> QED
      BY <2>1, <3>1 DEF Reaches
  <2>3. \A s \in push[p].open : Started(s[1])'
    BY <1>r, <1>s
  <2> QED
    BY <1>a, <1>s, <2>1, <2>2, <2>3
(* Every step. *)
<1> DEFINE All == \A p \in Push : Right(p) /\ (push'[p].kind = "all" => push'[p].todo = {})
<1>10. ASSUME NEW p \in Push, frames' = frames, \A q \in Push \ {p} : push'[q] = push[q],
              Right(p), push'[p].kind = "all" => push'[p].todo = {}
       PROVE  All
  <2>1. \A q \in Push \ {p} : Right(q)
    BY <1>2, <1>10
  <2> HIDE DEF Right
  <2> QED
    BY <1>a, <1>10, <2>1
<1>11. ASSUME push' = push, frames' = frames \/ \E c \in Client, f \in Frame : Write(c, f) /\ f.by = None
       PROVE  All
  <2>1. \A p \in Push : Right(p)
    BY <1>3, <1>11
  <2> HIDE DEF Right
  <2> QED
    BY <1>q, <1>11, <2>1
<1>12. ASSUME NEW c \in Client, \/ UpgradeFails(c) \/ HooksReturn(c) \/ StreamRegister(c) \/ ReadFails(c) \/ Leave(c)
                                \/ freshToken(c) \/ register(c)
                                \/ \E n \in 1 .. MaxToken : consumeToken(c, n)
                                \/ \E i \in Inv : CancelStream(c, i)
                                \/ Disconnect(c)
       PROVE  All
  <2>1. frames' = frames /\ push' = push
    BY <1>12 DEF UpgradeFails, HooksReturn, StreamRegister, ReadFails, Leave, freshToken, register, consumeToken,
                 CancelStream, Disconnect, DisconnectClose, DisconnectUnregister, connVars
  <2> HIDE DEF All
  <2> QED
    BY <1>11, <2>1
<1>13. ASSUME NEW c \in Client, \/ \E valid \in BOOLEAN : Handshake(c, valid)
                                \/ \E i \in Inv, chan \in Chan : StreamSnapshot(c, i, chan)
                                \/ \E i \in Inv : Answer(c, i)
       PROVE  All
  <2>1. push' = push /\ \E f \in Frame : Write(c, f) /\ f.by = None
    BY <1>13, FrameKinds DEF Handshake, StreamSnapshot, Answer
  <2> HIDE DEF All
  <2> QED
    BY <1>11, <2>1
<1>14. ASSUME NEW c \in Client, CancelComplete(c) PROVE All
  <2>1. cur[c] \in Inv \X {None} /\ Write(c, Completion(cur[c][1])) /\ push' = push
    BY <1>14 DEF CancelComplete, SnapshotsFirst
  <2>2. Completion(cur[c][1]) \in Frame /\ Completion(cur[c][1]).by = None
    BY <2>1, FrameKinds
  <2> HIDE DEF All
  <2> QED
    BY <1>11, <2>1, <2>2
<1>15. ASSUME NEW h \in HubIndex, Negotiate(h) PROVE All
  <2>1. frames' = frames /\ push' = push
    BY <1>15 DEF Negotiate
  <2> HIDE DEF All
  <2> QED
    BY <1>11, <2>1
<1>16. ASSUME NEW p \in Push, NEW h \in HubIndex, NEW chan \in Chan,
              \/ SignalRPush(p, h, chan)
              \/ Candidates(p, h, chan, "each", None)
              \/ \E target \in Client : Candidates(p, h, chan, "one", target)
       PROVE  All
  <2>1. frames' = frames
    BY <1>16, PushBegins
  <2>2. ASSUME SignalRPush(p, h, chan) PROVE \A q \in Push \ {p} : push'[q] = push[q]
    BY <1>t, <2>2 DEF SignalRPush
  <2>3. ASSUME NEW kind, NEW target, Candidates(p, h, chan, kind, target)
        PROVE  \A q \in Push \ {p} : push'[q] = push[q]
    BY <1>t, <2>3 DEF Candidates
  <2>4. \A q \in Push \ {p} : push'[q] = push[q]
    BY <1>16, <2>2, <2>3
  <2>5. Right(p) /\ (push'[p].kind = "all" => push'[p].todo = {})
    <3> HIDE DEF Right
    <3> QED
      BY <1>4, <1>5, <1>16
  <2> HIDE DEF All, Right
  <2> QED
    BY <1>10, <2>1, <2>4, <2>5
<1>17. ASSUME NEW p \in Push, PushStep(p) PROVE All
  <2>1. ASSUME NEW c \in push[p].todo, PushTo(p, c)
        PROVE  frames' = frames /\ \A q \in Push \ {p} : push'[q] = push[q]
    BY <1>t, <2>1 DEF PushTo
  <2>2. ASSUME PushEnd(p) PROVE frames' = frames /\ \A q \in Push \ {p} : push'[q] = push[q]
    BY <1>t, <2>2 DEF PushEnd, connVars
  <2>3. ASSUME NEW d \in push[p].out, PushWrite(p, d) PROVE All
    <3> HIDE DEF Right
    <3> QED
      BY <1>8, <2>3
  <2> HIDE DEF All, Right
  <2> QED
    BY <1>7, <1>9, <1>10, <1>17, <2>1, <2>2, <2>3 DEF PushStep
<1>18. ASSUME NEW c \in Client, NEW p \in Push, NEW chan \in Chan, ConnectHook(c, p, chan) PROVE All
  <2> HIDE DEF All, Right
  <2> QED
    BY <1>6, <1>10, <1>18
<1>19. All
  <2> HIDE DEF All
  <2> QED
    BY <1>12, <1>13, <1>14, <1>15, <1>16, <1>17, <1>18 DEF Next, ConnStep
<1> QED
  BY <1>1, <1>19 DEF StreamsReached

-----------------------------------------------------------------------------
(* The invariant holds initially, *)
LEMMA HubInit == Init => HubInv
<1> SUFFICES ASSUME Init PROVE HubInv
  OBVIOUS
<1>h. HubOf \in [Client -> HubIndex]
  BY HubAssumption DEF HubIndex
<1>i. /\ idSeq = [h \in HubIndex |-> 0] /\ tokens = [h \in HubIndex |-> {}] /\ conns = [h \in HubIndex |-> <<>>]
      /\ pc = [c \in Client |-> "none"] /\ id = [c \in Client |-> None] /\ cur = [c \in Client |-> None]
      /\ streams = [c \in Client |-> [j \in Inv |-> None]] /\ sock = [c \in Client |-> "none"]
      /\ frames = [c \in Client |-> <<>>] /\ push = [p \in Push |-> NoPush]
  BY DEF Init
<1>d. DOMAIN <<>> = {} /\ IsFiniteSet({}) /\ <<>> \in Seq(Frame)
  BY FS_EmptySet, LenProperties
<1>p. \A p \in Push : /\ push[p] \in PushRecord /\ push[p].pc = "idle" /\ push[p].out = {} /\ push[p].todo = {}
                      /\ push[p].open = {}
  BY <1>i DEF NoPush, PushRecord
<1>f. \A c \in Client : DOMAIN frames[c] = {}
  BY <1>i, <1>d
<1>1. HubTyped
  <2>1. push \in [Push -> PushRecord]
    BY <1>i, <1>p
  <2>2. frames \in [Client -> Seq(Frame)]
    BY <1>i, <1>d
  <2>3. DOMAIN conns = HubIndex /\ \A h \in HubIndex : IsFiniteSet(DOMAIN conns[h])
    BY <1>i, <1>d
  <2> QED
    BY <1>i, <2>1, <2>2, <2>3 DEF HubTyped, Where
<1>2. IdsAgree
  <2>1. \A h \in HubIndex : DOMAIN conns[h] = {} /\ tokens[h] = {}
    BY <1>i, <1>d
  <2>2. \A c \in Client : ~Named(c) /\ id[c] = None
    BY <1>i DEF Named
  <2> QED
    BY <2>1, <2>2 DEF IdsAgree
<1>3. SnapshotsFirst
  BY <1>i, <1>p, <1>f DEF SnapshotsFirst, SnapshotComesFirst, Started
<1>4. PushesOnce
  BY <1>i, <1>p, <1>f DEF PushesOnce, OncePerStream, Told
<1>5. StreamsReached
  BY <1>i, <1>p, <1>f DEF StreamsReached
<1> QED
  BY <1>1, <1>2, <1>3, <1>4, <1>5 DEF HubInv

(* and every step and stutter keeps it. *)
LEMMA HubStep == HubInv /\ [Next]_vars => HubInv'
<1>1. ASSUME HubInv, Next PROVE HubInv'
  <2>1. HubTyped /\ IdsAgree /\ SnapshotsFirst /\ PushesOnce /\ StreamsReached
    BY <1>1 DEF HubInv
  <2>2. HubTyped'
    BY <1>1, <2>1, TypesStay
  <2>3. IdsAgree'
    BY <1>1, <2>1, IdsStay
  <2>4. SnapshotsFirst'
    BY <1>1, <2>1, <2>2, <2>3, SnapshotsStay
  <2>5. PushesOnce'
    BY <1>1, <2>1, <2>2, PushesStay
  <2>6. StreamsReached'
    BY <1>1, <2>1, <2>2, <2>4, ReachedStays
  <2> QED
    BY <2>2, <2>3, <2>4, <2>5, <2>6 DEF HubInv
<1>2. ASSUME HubInv, UNCHANGED vars PROVE HubInv'
  <2>1. /\ idSeq' = idSeq /\ tokens' = tokens /\ conns' = conns /\ pc' = pc /\ id' = id /\ cur' = cur
        /\ streams' = streams /\ sock' = sock /\ frames' = frames /\ push' = push
    BY <1>2 DEF vars
  <2>2. HubTyped'
    BY <1>2, <2>1 DEF HubInv, HubTyped
  <2>3. IdsAgree'
    BY <1>2, <2>1 DEF HubInv, IdsAgree, Named, Started, IdOfHub
  <2>4. SnapshotsFirst'
    BY <1>2, <2>1 DEF HubInv, SnapshotsFirst, Started, Ready, SnapshotComesFirst
  <2>5. PushesOnce'
    BY <1>2, <2>1 DEF HubInv, PushesOnce, Told, Started, OncePerStream
  <2>6. StreamsReached'
    <3>1. \A c, i : (Kept(c, i)' <=> Kept(c, i)) /\ (Started(c)' <=> Started(c))
      BY <2>1 DEF Kept, Registered, Started
    <3>2. \A p, c, i : Reaches(p, c, i)' <=> Reaches(p, c, i)
      BY <2>1 DEF Reaches
    <3> QED
      BY <1>2, <2>1, <3>1, <3>2 DEF HubInv, StreamsReached
  <2> QED
    BY <2>2, <2>3, <2>4, <2>5, <2>6 DEF HubInv
<1> QED
  BY <1>1, <1>2

(* In every state that the hubs reach, the invariant holds. *)
THEOREM HubInvariant == Spec => []HubInv
<1> QED
  BY HubInit, HubStep, PTL DEF Spec

(* Type correctness of counters, tokens, registry, connections and pushes; *)
(* a registered id carries a number that its hub has handed out.           *)
THEOREM HubTypes == Spec => []TypeOK
<1>1. ASSUME HubInv, NEW h \in HubIndex PROVE tokens[h] \subseteq 1 .. idSeq[h]
  BY <1>1 DEF HubInv, IdsAgree
<1>2. ASSUME HubInv, NEW h \in HubIndex, NEW x \in DOMAIN conns[h]
      PROVE x[2] \in 1 .. idSeq[h] /\ id[conns[h][x]] = x
  <2>1. /\ conns[h][x] \in Client /\ HubOf[conns[h][x]] = h
        /\ id[conns[h][x]] = x /\ Started(conns[h][x])
    BY <1>2 DEF HubInv, IdsAgree
  <2>2. Named(conns[h][x])
    BY <2>1 DEF Named, Started
  <2>3. IdOfHub(h, x)
    BY <1>2, <2>1, <2>2 DEF HubInv, IdsAgree
  <2> QED
    BY <2>1, <2>3 DEF IdOfHub
<1>3. ASSUME HubInv, NEW p \in Push PROVE push[p].pc \in {"idle", "writing", "choosing", "ended"}
  BY <1>3 DEF HubInv, HubTyped, PushRecord
<1>4. HubInv => TypeOK
  BY <1>1, <1>2, <1>3 DEF TypeOK, HubInv, HubTyped, Where
<1> QED
  BY <1>4, HubInvariant, PTL

(* SnapshotComesFirst: no push overtakes the snapshot of the stream it is  *)
(* pushed into, although both write outside of the registry's mutex,       *)
(* because a stream is registered only when its snapshot is written.       *)
THEOREM SnapshotsComeFirst == Spec => []SnapshotComesFirst
<1>1. HubInv => SnapshotComesFirst
  BY DEF HubInv, SnapshotsFirst
<1> QED
  BY <1>1, HubInvariant, PTL

(* StreamsReceiveOnce: ids are unique in a hub however upgrades race, and  *)
(* a push reaches every stream that stays open for it, once.               *)
THEOREM PushesReachStreams == Spec => []StreamsReceiveOnce
<1>1. ASSUME HubInv PROVE TokenBindsOne
  <2>1. \A c \in Client : id[c] # None => Named(c)
    BY <1>1 DEF HubInv, IdsAgree
  <2>2. \A c, d \in Client : Named(c) /\ Named(d) /\ HubOf[c] = HubOf[d] /\ id[c] = id[d] => c = d
    BY <1>1 DEF HubInv, IdsAgree
  <2> QED
    BY <2>1, <2>2 DEF TokenBindsOne
<1>2. ASSUME HubInv PROVE OncePerStream
  BY <1>2 DEF HubInv, PushesOnce
<1>3. ASSUME HubInv PROVE OpenStreamReceives
  <2> SUFFICES ASSUME NEW p \in Push, push[p].pc = "ended", push[p].kind # "one", NEW s \in push[p].open,
                      sock[s[1]] = "open", Registered(s[1]),
                      \A k \in DOMAIN frames[s[1]] : frames[s[1]][k] # Completion(s[2]),
                      \A j, k \in DOMAIN frames[s[1]] :
                        frames[s[1]][j] = Item(s[2], None) /\ frames[s[1]][k] = frames[s[1]][j] => j = k,
                      pc[s[1]] # "completing"
               PROVE  /\ \E k \in DOMAIN frames[s[1]] : frames[s[1]][k] = Item(s[2], p)
                      /\ push[p].kind = "all" => \A d \in Client :
                           \A k \in DOMAIN frames[d] : frames[d][k] # Invocation(p)
    BY DEF OpenStreamReceives
  <2>1. Kept(s[1], s[2])
    BY DEF Kept
  <2>2. push[p].out = {} /\ push[p].todo = {}
    BY <1>3 DEF HubInv, PushesOnce
  <2>3. Reaches(p, s[1], s[2])
    BY <1>3, <2>1 DEF HubInv, StreamsReached
  <2>4. push[p].kind = "all" => \A d \in Client : \A k \in DOMAIN frames[d] : frames[d][k] # Invocation(p)
    BY <1>3 DEF HubInv, StreamsReached
  <2> QED
    BY <2>2, <2>3, <2>4 DEF Reaches
<1>4. HubInv => StreamsReceiveOnce
  BY <1>1, <1>2, <1>3 DEF StreamsReceiveOnce
<1> QED
  BY <1>4, HubInvariant, PTL
=============================================================================
