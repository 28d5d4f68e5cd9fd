--------------------------- MODULE ComponentProofs ---------------------------
(***************************************************************************)
(* Proofs about four components that keep their state to themselves.  The  *)
(* schema cache: its invariants are inductive together, for any number of  *)
(* calls, schemas and any capacity.  The JSON-RPC gateway, for every set   *)
(* of requests and bodies and every table of procedures: what a batch is   *)
(* answered with, which of its calls take effect and what they see.  The   *)
(* match of requests, for every set of examples, sources and schemas: the  *)
(* value of an expression is what its author means, and an example matches *)
(* exactly if all of its conditions hold.  The interval scheduler, for     *)
(* every set of jobs and ids: every stop channel is closed at most once, a *)
(* running loop can always be stopped, and a stopped loop makes at most    *)
(* one more delivery.                                                      *)
(***************************************************************************)
EXTENDS Scheduler, Matching, JsonRpc, FilterProofs, FiniteSetTheorems, TLAPS

-----------------------------------------------------------------------------
(* The schema cache. *)

Inv == CacheTypeOK /\ OrderIsStore /\ OldestIsEvicted

(* A put of a new key into a full cache shifts the list by one. *)
LEMMA TailOfAppend ==
  ASSUME NEW s \in Seq(Key), NEW k \in Key, Len(s) >= 1
  PROVE  /\ Tail(Append(s, k)) \in Seq(Key)
         /\ Len(Tail(Append(s, k))) = Len(s)
         /\ \A i \in 1 .. Len(s) : Tail(Append(s, k))[i] = IF i = Len(s) THEN k ELSE s[i + 1]
         /\ Head(Append(s, k)) = s[1]
<1> DEFINE t == Append(s, k)
<1>1. t \in Seq(Key) /\ Len(t) = Len(s) + 1 /\ t # <<>>
  OBVIOUS
<1>2. \A i \in 1 .. Len(s) + 1 : t[i] = IF i = Len(s) + 1 THEN k ELSE s[i]
  OBVIOUS
<1>3. Tail(t) \in Seq(Key) /\ Len(Tail(t)) = Len(t) - 1
      /\ \A i \in 1 .. Len(Tail(t)) : Tail(t)[i] = t[i + 1]
  BY <1>1, HeadTailProperties
<1>4. Head(t) = t[1]
  BY <1>1
<1> HIDE DEF t
<1>5. \A i \in 1 .. Len(s) : Tail(t)[i] = IF i = Len(s) THEN k ELSE s[i + 1]
  BY <1>1, <1>2, <1>3
<1>6. Head(t) = s[1]
  BY <1>1, <1>2, <1>4
<1> QED
  BY <1>1, <1>3, <1>5, <1>6 DEF t

(* PlacesOfTail in the list as places in the history. *)
LEMMA PlacesOfTail ==
  ASSUME NEW m \in Nat, NEW n \in Nat, n <= m, NEW i \in 1 .. n, i # n
  PROVE  (m + 1) - n + i = m - n + (i + 1) /\ m - n + (i + 1) \in 1 .. m
OBVIOUS

(* The empty cache satisfies the invariant. *)
LEMMA InvInit == CacheInit => Inv
<1> SUFFICES ASSUME CacheInit PROVE Inv
  OBVIOUS
<1>1. CacheTypeOK
  BY CacheAssumption DEF CacheInit, CacheTypeOK
<1>2. OrderIsStore /\ OldestIsEvicted
  BY DEF CacheInit, OrderIsStore, OldestIsEvicted
<1> QED
  BY <1>1, <1>2 DEF Inv

(* Nothing but the calls changes. *)
LEMMA QuietStep ==
  ASSUME Inv, UNCHANGED <<store, order, puts>>,
         call' \in [Call -> [pc : {"asked", "missed", "compiled", "done"}, key : Key]]
  PROVE  Inv'
BY DEF Inv, CacheTypeOK, OrderIsStore, OldestIsEvicted

(* There is room: the list, the map and the history gain the key. *)
LEMMA RoomForPut ==
  ASSUME Inv, NEW k \in Key, k \notin store, Len(order) < Capacity,
         order' = Append(order, k), puts' = Append(puts, k), store' = store \cup {k},
         call' \in [Call -> [pc : {"asked", "missed", "compiled", "done"}, key : Key]]
  PROVE  Inv'
<1>1. order \in Seq(Key) /\ puts \in Seq(Key)
  BY DEF Inv, CacheTypeOK
<1>2. order' \in Seq(Key) /\ Len(order') = Len(order) + 1
      /\ \A i \in 1 .. Len(order) + 1 : order'[i] = IF i = Len(order) + 1 THEN k ELSE order[i]
  BY <1>1
<1>3. CacheTypeOK'
  BY <1>1, <1>2, CacheAssumption DEF Inv, CacheTypeOK
<1>4. DOMAIN order = 1 .. Len(order) /\ DOMAIN order' = 1 .. Len(order')
  BY <1>1, <1>2
<1>5. OrderIsStore'
  <2>1. \A i, j \in DOMAIN order' : i # j => order'[i] # order'[j]
    BY <1>1, <1>2, <1>4 DEF Inv, OrderIsStore
  <2>2. \A x \in store' : x \in {order'[i] : i \in DOMAIN order'}
    BY <1>1, <1>2, <1>4 DEF Inv, OrderIsStore
  <2>3. \A i \in DOMAIN order' : order'[i] \in store'
    BY <1>1, <1>2, <1>4 DEF Inv, OrderIsStore
  <2>4. store' = {order'[i] : i \in DOMAIN order'}
    BY <2>2, <2>3
  <2> QED
    BY <2>1, <2>4 DEF OrderIsStore
<1>6. OldestIsEvicted'
  <2>1. order = puts
    BY DEF Inv, OldestIsEvicted
  <2>2. order' = puts'
    BY <2>1
  <2>3. Len(order') <= Len(puts') /\ \A i \in DOMAIN order' : Len(puts') - Len(order') + i = i
    BY <1>2, <1>4, <2>2
  <2>4. \A i \in DOMAIN order' : order'[i] = puts'[Len(puts') - Len(order') + i]
    BY <2>2, <2>3
  <2> QED
    BY <2>2, <2>3, <2>4 DEF OldestIsEvicted
<1> QED
  BY <1>3, <1>5, <1>6 DEF Inv

(* There is none: the oldest key of the list leaves the map, which is what *)
(* takes no other key with it because no key is listed twice.              *)
LEMMA FullPut ==
  ASSUME Inv, NEW k \in Key, k \notin store, Len(order) >= Capacity,
         order' = Tail(Append(order, k)), puts' = Append(puts, k),
         store' = (store \cup {k}) \ {Head(Append(order, k))},
         call' \in [Call -> [pc : {"asked", "missed", "compiled", "done"}, key : Key]]
  PROVE  Inv'
<1>1. order \in Seq(Key) /\ puts \in Seq(Key) /\ Len(order) = Capacity /\ Len(order) \in Nat \ {0}
  BY CacheAssumption DEF Inv, CacheTypeOK
<1>2. /\ order' \in Seq(Key) /\ Len(order') = Len(order)
      /\ \A i \in 1 .. Len(order) : order'[i] = IF i = Len(order) THEN k ELSE order[i + 1]
      /\ Head(Append(order, k)) = order[1]
  BY <1>1, TailOfAppend
<1>3. puts' \in Seq(Key) /\ Len(puts') = Len(puts) + 1
      /\ \A i \in 1 .. Len(puts) + 1 : puts'[i] = IF i = Len(puts) + 1 THEN k ELSE puts[i]
  BY <1>1
<1>4. DOMAIN order = 1 .. Len(order) /\ DOMAIN order' = 1 .. Len(order)
  BY <1>1, <1>2
<1>5. store' = (store \cup {k}) \ {order[1]}
  BY <1>2
<1>6. CacheTypeOK'
  BY <1>1, <1>2, <1>3, <1>5, CacheAssumption DEF Inv, CacheTypeOK
<1>7. \A i \in 1 .. Len(order) : order[i] \in store
  BY <1>4 DEF Inv, OrderIsStore
<1>8. \A i, j \in 1 .. Len(order) : i # j => order[i] # order[j]
  BY <1>4 DEF Inv, OrderIsStore
<1>9. OrderIsStore'
  <2>1. \A i, j \in DOMAIN order' : i # j => order'[i] # order'[j]
    BY <1>1, <1>2, <1>4, <1>7, <1>8
  <2>2. ASSUME NEW x \in store' PROVE \E i \in DOMAIN order' : x = order'[i]
    <3>1. CASE x = k
      <4>1. Len(order) \in DOMAIN order' /\ order'[Len(order)] = k
        BY <1>1, <1>2, <1>4
      <4> QED
        BY <3>1, <4>1
    <3>2. CASE x # k
      <4>1. PICK j \in 1 .. Len(order) : x = order[j]
        BY <3>2, <2>2, <1>4, <1>5 DEF Inv, OrderIsStore
      <4>2. j # 1
        BY <4>1, <2>2, <1>5
      <4>3. j - 1 \in 1 .. Len(order) /\ j - 1 # Len(order) /\ (j - 1) + 1 = j
        BY <4>2, <1>1
      <4>4. order'[j - 1] = order[j]
        BY <4>3, <1>2
      <4> QED
        BY <4>1, <4>3, <4>4, <1>4
    <3> QED
      BY <3>1, <3>2
  <2>3. ASSUME NEW i \in DOMAIN order' PROVE order'[i] \in store'
    <3>1. CASE i = Len(order)
      BY <3>1, <1>1, <1>2, <1>4, <1>5, <1>7
    <3>2. CASE i # Len(order)
      BY <3>2, <2>3, <1>1, <1>2, <1>4, <1>5, <1>7, <1>8
    <3> QED
      BY <3>1, <3>2
  <2>4. store' = {order'[i] : i \in DOMAIN order'}
    BY <2>2, <2>3
  <2> QED
    BY <2>1, <2>4 DEF OrderIsStore
<1>10. OldestIsEvicted'
  <2>1. Len(order') <= Len(puts')
    BY <1>1, <1>2, <1>3 DEF Inv, OldestIsEvicted
  <2>2. Len(order) <= Len(puts) /\ \A n \in 1 .. Len(order) : order[n] = puts[Len(puts) - Len(order) + n]
    BY <1>4 DEF Inv, OldestIsEvicted
  <2>3. Len(puts) \in Nat
    BY <1>1
  <2>4. ASSUME NEW i \in 1 .. Len(order)
        PROVE  order'[i] = puts'[(Len(puts) + 1) - Len(order) + i]
    <3>1. CASE i = Len(order)
      <4>1. (Len(puts) + 1) - Len(order) + i = Len(puts) + 1
        BY <3>1, <2>3, <1>1
      <4> QED
        BY <3>1, <4>1, <2>3, <1>2, <1>3
    <3>2. CASE i # Len(order)
      <4>1. i + 1 \in 1 .. Len(order)
        BY <3>2, <1>1
      <4>2. order'[i] = puts[Len(puts) - Len(order) + (i + 1)]
        BY <4>1, <2>2, <3>2, <1>2
      <4>3. /\ (Len(puts) + 1) - Len(order) + i = Len(puts) - Len(order) + (i + 1)
            /\ Len(puts) - Len(order) + (i + 1) \in 1 .. Len(puts)
        <5>1. Len(order) <= Len(puts) /\ Len(order) \in Nat
          BY <2>2, <1>1
        <5> QED
          BY <5>1, <2>3, <2>4, <3>2, PlacesOfTail
      <4> QED
        BY <4>2, <4>3, <2>3, <1>3
    <3> QED
      BY <3>1, <3>2
  <2>5. \A i \in DOMAIN order' : order'[i] = puts'[Len(puts') - Len(order') + i]
    BY <2>4, <1>2, <1>3, <1>4
  <2>6. ~(Len(order') < Capacity)
    BY <1>1, <1>2
  <2> QED
    BY <2>1, <2>5, <2>6 DEF OldestIsEvicted
<1> QED
  BY <1>6, <1>9, <1>10 DEF Inv

(* Every step of a call keeps it. *)
LEMMA InvStep == Inv /\ [CacheNext]_cacheVars => Inv'
<1> SUFFICES ASSUME Inv, [CacheNext]_cacheVars PROVE Inv'
  OBVIOUS
<1>1. CASE UNCHANGED cacheVars
  BY <1>1, QuietStep DEF cacheVars, Inv, CacheTypeOK
<1>2. ASSUME NEW c \in Call, Get(c) \/ Compile(c) \/ (\E k \in Key : Ask(c, k)) PROVE Inv'
  <2>1. call \in [Call -> [pc : {"asked", "missed", "compiled", "done"}, key : Key]]
    BY DEF Inv, CacheTypeOK
  <2>2. ASSUME NEW k \in Key, Ask(c, k) PROVE Inv'
    BY <2>1, <2>2, QuietStep DEF Ask
  <2>3. CASE Get(c)
    BY <2>1, <2>3, QuietStep DEF Get
  <2>4. CASE Compile(c)
    BY <2>1, <2>4, QuietStep DEF Compile
  <2> QED
    BY <1>2, <2>2, <2>3, <2>4
<1>3. ASSUME NEW c \in Call, Put(c) PROVE Inv'
  <2> DEFINE k == call[c].key
  <2>1. k \in Key
    BY DEF Inv, CacheTypeOK
  <2>2. call' \in [Call -> [pc : {"asked", "missed", "compiled", "done"}, key : Key]]
    BY <1>3 DEF Put, Inv, CacheTypeOK
  <2>3. Len(order) \in Nat
    BY DEF Inv, CacheTypeOK
  <2>4. CASE k \in store
    BY <1>3, <2>2, <2>4, QuietStep DEF Put, Present
  <2>5. CASE k \notin store /\ Len(order) >= Capacity
    <3>1. /\ order' = Tail(Append(order, k)) /\ puts' = Append(puts, k)
          /\ store' = (store \cup {k}) \ {Head(Append(order, k))}
      BY <1>3, <2>5 DEF Put, Present, Overflows
    <3> HIDE DEF k
    <3> QED
      BY <3>1, <2>1, <2>2, <2>5, FullPut
  <2>6. CASE k \notin store /\ ~(Len(order) >= Capacity)
    <3>1. order' = Append(order, k) /\ puts' = Append(puts, k) /\ store' = store \cup {k}
      BY <1>3, <2>6 DEF Put, Present, Overflows
    <3>2. Len(order) < Capacity
      BY <2>3, <2>6, CacheAssumption
    <3> HIDE DEF k
    <3> QED
      BY <3>1, <3>2, <2>1, <2>2, <2>6, RoomForPut
  <2> QED
    BY <2>4, <2>5, <2>6
<1> QED
  BY <1>1, <1>2, <1>3 DEF CacheNext

(* For any capacity and any schemas: the list and the map of the cache     *)
(* (schemaCacheStore.order and .store) never disagree.                     *)
THEOREM CacheConsistent == CacheSpec => [](CacheTypeOK /\ OrderIsStore)
<1>1. Inv => CacheTypeOK /\ OrderIsStore
  BY DEF Inv
<1> QED
  BY <1>1, InvInit, InvStep, PTL DEF CacheSpec

(* For any capacity and any schemas: what schemaCacheStore.put evicts is   *)
(* always the oldest entry, from the list and from the map.                *)
THEOREM EvictsOldest == CacheSpec => []CacheHoldsNewest
<1>1. Inv => CacheHoldsNewest
  BY DEF Inv, CacheHoldsNewest
<1> QED
  BY <1>1, InvInit, InvStep, PTL DEF CacheSpec

-----------------------------------------------------------------------------
(* The JSON-RPC gateway. *)

(* What an item of a body, at place i, is answered with if it is answered. *)
Outcome(item, i) ==
  LET e == parseSingle(item, i)
  IN IF e.kind = "error" THEN e
     ELSE IF e.proc \notin DOMAIN Procedure THEN ErrorResponse(NotFound, e.id)
     ELSE Result(e)

ItemEntries(body)  == [i \in DOMAIN body.items |-> parseSingle(body.items[i], i)]
ItemOutcomes(body) == [i \in DOMAIN body.items |-> Outcome(body.items[i], i)]

ItemsOwing(body)     == {i \in DOMAIN body.items : Owes(body.items[i])}
ItemsKnown(body)     == {i \in DOMAIN body.items : Known(body.items[i])}
ItemsEffective(body) == {i \in DOMAIN body.items : Effective(body.items[i])}

CallsOf(body) == Keep(Upto(Len(body.items)), ItemsKnown(body))
Called(body, k) == body.items[CallsOf(body)[k]]

(* Those of the places that the request has dealt with. *)
Past(q, S) == Keep(Upto(q.next - 1), S)

Along(s, f) == [k \in DOMAIN s |-> f[s[k]]]

ItemOf(q) == q.body.items[q.next]

BodyIsRead(q) ==
  /\ IF q.pc = "idle" THEN q.entries = <<>> ELSE q.body \in Body
  /\ q.pc \in {"calling", "running"} => q.entries # <<>>
  /\ q.entries = <<>> => ~q.batch /\ q.next = 1
  /\ q.entries # <<>> => /\ q.body \in Body
                         /\ q.entries = ItemEntries(q.body)
                         /\ q.batch = (q.body.form = "array")
  /\ q.next <= Len(q.entries) + 1
  /\ q.pc = "running" => q.next <= Len(q.entries) /\ Known(ItemOf(q))
  /\ q.pc = "answered" => q.next = Len(q.entries) + 1

ResultsOfPast(q) == q.results = Along(Past(q, ItemsOwing(q.body)), ItemOutcomes(q.body))

Begun(q) == IF q.pc = "running" THEN 1 ELSE 0

(* What the calls of a request have seen, against the count it is now: a   *)
(* call that has taken effect has left more than it saw.                   *)
SeenInOrder(q, c) ==
  /\ Len(q.seen) = Len(Past(q, ItemsKnown(q.body))) + Begun(q)
  /\ \A j \in DOMAIN q.seen : \A p \in DOMAIN Procedure : q.seen[j][p] <= c[p]
  /\ \A k \in 1 .. Len(Past(q, ItemsKnown(q.body))) :
       Effective(Called(q.body, k)) =>
         c[Called(q.body, k).proc] > q.seen[k][Called(q.body, k).proc]
  /\ \A j \in DOMAIN q.seen : \A k \in 1 .. j - 1 :
       Effective(Called(q.body, k)) =>
         q.seen[j][Called(q.body, k).proc] > q.seen[k][Called(q.body, k).proc]

AnswerIsFinal(q) ==
  q.pc = "answered" =>
    /\ q.answer # <<>>
    /\ q.batch => q.answer = IF q.results = <<>> THEN Reply(204, <<>>, 0)
                             ELSE Reply(200, Marshalled(q.results), 0)

RequestInv(q, e, c) ==
  /\ BodyIsRead(q)
  /\ ResultsOfPast(q)
  /\ e = Past(q, ItemsEffective(q.body))
  /\ SeenInOrder(q, c)
  /\ AnswerIsFinal(q)

Outcomes == [kind : {"error"}, code : {ParseError, Invalid, NotFound, Internal}, id : Nat]
              \cup [kind : {"result", "empty"}, id : Nat]
Mocks   == {0} \cup {Procedure[p].status : p \in DOMAIN Procedure}
Replies == [status : {200, 204}, content : Seq(Outcomes), mocked : Mocks \ {200}]

RequestRecord ==
  [pc : {"idle", "calling", "running", "answered"}, body : Body \cup {<<>>}, batch : BOOLEAN,
   entries : {ItemEntries(body) : body \in Body} \cup {<<>>}, next : Nat \ {0},
   seen : Seq([DOMAIN Procedure -> Nat]), results : Seq(Outcomes), mocked : Mocks,
   answer : Replies \cup {<<>>}]

RpcTyped ==
  /\ rpc \in [Req -> RequestRecord]
  /\ count \in [DOMAIN Procedure -> Nat]
  /\ effects \in Seq(Req \X Nat)

RpcInv == RpcTyped /\ \A r \in Req : RequestInv(rpc[r], EffectsOf(r), count)

(* One more place; and the places are the numbers up to n. *)
LEMMA UptoNext ==
  ASSUME NEW n \in Nat
  PROVE  /\ Upto(n) \in Seq(Nat) /\ Len(Upto(n)) = n /\ Range(Upto(n)) = 1 .. n
         /\ Upto(n + 1) = Append(Upto(n), n + 1)
<1>1. Upto(n) \in Seq(Nat) /\ Len(Upto(n)) = n /\ \A i \in 1 .. n : Upto(n)[i] = i
  BY DEF Upto
<1>2. Range(Upto(n)) = 1 .. n
  BY DEF Upto, Range
<1>3. /\ Append(Upto(n), n + 1) \in Seq(Nat)
      /\ Len(Append(Upto(n), n + 1)) = n + 1
      /\ \A i \in 1 .. n : Append(Upto(n), n + 1)[i] = i
      /\ Append(Upto(n), n + 1)[n + 1] = n + 1
  BY <1>1, AppendProperties
<1>4. \A i \in 1 .. n + 1 : Append(Upto(n), n + 1)[i] = i
  BY <1>3
<1>5. Upto(n + 1) \in Seq(Nat) /\ Len(Upto(n + 1)) = n + 1 /\ \A i \in 1 .. n + 1 : Upto(n + 1)[i] = i
  BY DEF Upto
<1>6. Upto(n + 1) = Append(Upto(n), n + 1)
  BY <1>3, <1>4, <1>5, SeqEqual
<1> QED
  BY <1>1, <1>2, <1>6

(* The places up to n that pass a test, and one more of them. *)
LEMMA PlacesNext ==
  ASSUME NEW n \in Nat, NEW S
  PROVE  /\ Keep(Upto(n), S) \in Seq(Nat)
         /\ Range(Keep(Upto(n), S)) = (1 .. n) \cap S
         /\ Keep(Upto(n + 1), S) = IF n + 1 \in S THEN Append(Keep(Upto(n), S), n + 1)
                                   ELSE Keep(Upto(n), S)
<1>1. Keep(Upto(n), S) \in Seq(Nat \cap S) /\ Range(Keep(Upto(n), S)) = Range(Upto(n)) \cap S
  BY UptoNext, KeepRange
<1>2. Keep(Upto(n), S) \in Seq(Nat)
  BY <1>1
<1>3. Keep(Append(Upto(n), n + 1), S)
        = IF n + 1 \in S THEN Append(Keep(Upto(n), S), n + 1) ELSE Keep(Upto(n), S)
  <2>1. n + 1 \in Nat /\ Upto(n) \in Seq(Nat)
    BY UptoNext
  <2> QED
    BY ONLY <2>1, KeepAppend, ZenonT(30)
<1> QED
  BY <1>1, <1>2, <1>3, UptoNext

(* Without any place there is none that passes a test. *)
LEMMA NoPlaces == \A S : Keep(Upto(0), S) = <<>>
BY KeepEmpty DEF Upto

(* The places up to m that pass a test begin those up to n. *)
LEMMA PlacesPrefix ==
  ASSUME NEW m \in Nat, NEW S
  PROVE  \A n \in Nat : m <= n =>
           /\ Len(Keep(Upto(m), S)) <= Len(Keep(Upto(n), S))
           /\ \A k \in 1 .. Len(Keep(Upto(m), S)) : Keep(Upto(n), S)[k] = Keep(Upto(m), S)[k]
<1> DEFINE K(n) == Keep(Upto(n), S)
           P(n) == /\ Len(K(m)) <= Len(K(n))
                   /\ \A k \in 1 .. Len(K(m)) : K(n)[k] = K(m)[k]
           T == {n \in Nat : m <= n /\ ~P(n)}
<1>1. SUFFICES ASSUME T # {} PROVE FALSE
  OBVIOUS
<1>2. T \in SUBSET Nat
  OBVIOUS
<1>3. PICK n \in T : \A k \in T : n <= k
  <2> HIDE DEF T
  <2> QED
    BY <1>1, <1>2, LeastNumber
<1>4. \A i \in Nat : K(i) \in Seq(Nat) /\ Len(K(i)) \in Nat
  BY PlacesNext, LenProperties
<1>5. P(m)
  BY <1>4
<1>6. n # m /\ n - 1 \in Nat /\ m <= n - 1
  BY <1>5
<1>7. P(n - 1)
  <2>1. n - 1 \notin T
    <3> HIDE DEF T
    <3> QED
      BY <1>2, <1>3, <1>6
  <2> QED
    BY <2>1, <1>6
<1>8. K(n) = IF n \in S THEN Append(K(n - 1), n) ELSE K(n - 1)
  <2> HIDE DEF T
  <2>1. PICK l \in Nat : n = l + 1
    BY <1>6, <1>2
  <2>2. n - 1 = l
    BY <2>1
  <2>3. Keep(Upto(l + 1), S)
          = IF l + 1 \in S THEN Append(Keep(Upto(l), S), l + 1) ELSE Keep(Upto(l), S)
    BY ONLY l \in Nat, PlacesNext
  <2> QED
    BY <2>1, <2>2, <2>3
<1>9. P(n)
  <2>1. K(n - 1) \in Seq(Nat) /\ Len(K(n - 1)) \in Nat /\ Len(K(m)) \in Nat
    BY <1>4, <1>6
  <2>2. CASE n \notin S
    BY <2>2, <1>7, <1>8
  <2>3. CASE n \in S
    <3>1. /\ Len(Append(K(n - 1), n)) = Len(K(n - 1)) + 1
          /\ \A k \in 1 .. Len(K(n - 1)) : Append(K(n - 1), n)[k] = K(n - 1)[k]
      BY <2>1, AppendProperties, <1>2
    <3> HIDE DEF K
    <3>2. K(n) = Append(K(n - 1), n)
      BY <2>3, <1>8
    <3> QED
      BY <2>1, <3>1, <3>2, <1>7
  <2> QED
    BY <2>2, <2>3
<1> QED
  BY <1>9

(* What stands at the places of a sequence, and at one more. *)
LEMMA AlongNext ==
  ASSUME NEW E, NEW s \in Seq(E), NEW x \in E, NEW f
  PROVE  /\ Len(Along(s, f)) = Len(s)
         /\ Along(Append(s, x), f) = Along(s, f) \o <<f[x]>>
<1> DEFINE V == {f[e] : e \in E}
<1>1. Len(s) \in Nat /\ \A i \in 1 .. Len(s) : s[i] \in E
  BY ElementOfSeq, LenProperties
<1>2. Along(s, f) \in Seq(V) /\ Len(Along(s, f)) = Len(s)
      /\ \A i \in 1 .. Len(s) : Along(s, f)[i] = f[s[i]]
  BY <1>1, LenProperties DEF Along
<1>3. /\ Append(s, x) \in Seq(E) /\ Len(Append(s, x)) = Len(s) + 1
      /\ \A i \in 1 .. Len(s) : Append(s, x)[i] = s[i]
      /\ Append(s, x)[Len(s) + 1] = x
  BY AppendProperties
<1>4. /\ Along(Append(s, x), f) \in Seq(V) /\ Len(Along(Append(s, x), f)) = Len(s) + 1
      /\ \A i \in 1 .. Len(s) + 1 : Along(Append(s, x), f)[i] = f[Append(s, x)[i]]
  <2>1. \A i \in 1 .. Len(s) + 1 : Append(s, x)[i] \in E
    BY <1>1, <1>3
  <2> QED
    BY <2>1, <1>1, <1>3, LenProperties DEF Along
<1>5. f[x] \in V
  OBVIOUS
<1>6. /\ Along(s, f) \o <<f[x]>> \in Seq(V)
      /\ Len(Along(s, f) \o <<f[x]>>) = Len(s) + 1
      /\ \A i \in 1 .. Len(s) : (Along(s, f) \o <<f[x]>>)[i] = Along(s, f)[i]
      /\ (Along(s, f) \o <<f[x]>>)[Len(s) + 1] = f[x]
  <2>1. <<f[x]>> \in Seq(V) /\ Len(<<f[x]>>) = 1 /\ <<f[x]>>[1] = f[x]
    BY <1>5
  <2> HIDE DEF V
  <2> QED
    BY <1>1, <1>2, <2>1, ConcatProperties
<1>7. \A i \in 1 .. Len(s) + 1 : Along(Append(s, x), f)[i] = (Along(s, f) \o <<f[x]>>)[i]
  <2> TAKE i \in 1 .. Len(s) + 1
  <2>1. CASE i = Len(s) + 1
    BY <2>1, <1>1, <1>3, <1>4, <1>6
  <2>2. CASE i # Len(s) + 1
    <3>1. i \in 1 .. Len(s)
      BY <2>2, <1>1
    <3> QED
      BY <3>1, <1>2, <1>3, <1>4, <1>6
  <2> QED
    BY <2>1, <2>2
<1> HIDE DEF V
<1> QED
  BY <1>1, <1>2, <1>4, <1>6, <1>7, SeqEqual

(* The items of a body and the entries they become. *)
LEMMA ItemsOfBody ==
  ASSUME NEW body \in Body
  PROVE  /\ Len(body.items) \in Nat /\ DOMAIN body.items = 1 .. Len(body.items)
         /\ \A i \in DOMAIN body.items : /\ body.items[i].shape \in Shape
                                         /\ body.items[i].id \in {"given", "null", "absent"}
         /\ Len(ItemEntries(body)) = Len(body.items)
         /\ DOMAIN ItemEntries(body) = DOMAIN body.items
         /\ body.form \in Form
         /\ body.form = "object" => Len(body.items) = 1
<1>1. /\ body.items \in Seq({body.items[i] : i \in DOMAIN body.items})
      /\ \A i \in DOMAIN body.items : /\ body.items[i].shape \in Shape
                                      /\ body.items[i].id \in {"given", "null", "absent"}
      /\ body.form \in Form
      /\ body.form = "object" => Len(body.items) = 1
  BY JsonRpcAssumption
<1>2. Len(body.items) \in Nat /\ DOMAIN body.items = 1 .. Len(body.items)
  BY <1>1, LenProperties
<1>3. DOMAIN ItemEntries(body) = 1 .. Len(body.items)
  BY <1>2 DEF ItemEntries
<1>4. Len(ItemEntries(body)) = Len(body.items)
  <2>1. ItemEntries(body) = [i \in 1 .. Len(body.items) |-> parseSingle(body.items[i], i)]
    BY <1>2 DEF ItemEntries
  <2> QED
    BY <1>2, <2>1
<1> QED
  BY <1>1, <1>2, <1>3, <1>4

(* What the parser makes of an item, and what the item is answered with. *)
LEMMA EntryOfItem ==
  ASSUME NEW item, NEW i \in Nat, item.shape \in Shape, item.id \in {"given", "null", "absent"}
  PROVE  /\ parseSingle(item, i).kind = "error" <=> item.shape # "call"
         /\ parseSingle(item, i).kind \in {"error", "call"}
         /\ item.shape = "call" =>
              /\ parseSingle(item, i).proc = item.proc
              /\ parseSingle(item, i).id = i
              /\ parseSingle(item, i).hasID = (item.id = "given")
         /\ parseSingle(item, i).kind = "error" =>
              /\ parseSingle(item, i) \in Outcomes
              /\ parseSingle(item, i).code # 0
<1>1. ErrorId(item, i) \in Nat
  BY DEF ErrorId, NullId
<1>2. CASE item.shape \in {"no object", "malformed"}
  <2>1. parseSingle(item, i) = [kind |-> "error", code |-> Invalid, id |-> ErrorId(item, i)]
    BY <1>2 DEF parseSingle, ErrorResponse
  <2>2. Invalid # 0
    BY DEF Invalid
  <2>3. parseSingle(item, i) \in Outcomes
    BY <2>1, <1>1 DEF Outcomes
  <2>4. /\ parseSingle(item, i).kind = "error" /\ parseSingle(item, i).code # 0
        /\ item.shape # "call"
    <3>1. parseSingle(item, i).kind = "error"
      BY <2>1
    <3>2. parseSingle(item, i).code = Invalid
      BY <2>1
    <3>3. item.shape # "call"
      BY <1>2
    <3> QED
      BY <3>1, <3>2, <3>3, <2>2
  <2> QED
    BY <2>3, <2>4
<1>3. CASE item.shape = "nameless"
  <2>1. parseSingle(item, i) = [kind |-> "error", code |-> ParseError, id |-> ErrorId(item, i)]
    BY <1>3 DEF parseSingle, ErrorResponse
  <2> QED
    BY <2>1, <1>1, <1>3 DEF Outcomes, ParseError
<1>4. CASE item.shape = "call"
  <2>1. parseSingle(item, i)
          = [kind |-> "call", proc |-> item.proc, id |-> i, hasID |-> item.id = "given"]
    BY <1>4 DEF parseSingle
  <2> QED
    BY <2>1, <1>4
<1> QED
  BY <1>2, <1>3, <1>4 DEF Shape

(* The outcome of an item is what the item is owed, if it is owed any. *)
LEMMA OutcomeOfItem ==
  ASSUME NEW item, NEW i \in Nat, item.shape \in Shape, item.id \in {"given", "null", "absent"}
  PROVE  /\ Outcome(item, i) \in Outcomes
         /\ Outcome(item, i).kind \in {"error", "result", "empty"}
         /\ Owes(item) =>
              /\ Outcome(item, i).id = Owed(item, i).id
              /\ Owed(item, i).code =
                   IF Outcome(item, i).kind = "error" THEN Outcome(item, i).code ELSE 0
              /\ Outcome(item, i).kind = "empty" =>
                   /\ item.shape = "call" /\ item.id = "given"
                   /\ item.proc \in DOMAIN Procedure /\ Procedure[item.proc].fate = "bodiless"
<1>1. CASE item.shape # "call"
  <2>1. parseSingle(item, i) \in Outcomes /\ parseSingle(item, i).kind = "error"
    BY <1>1, EntryOfItem
  <2>2. Outcome(item, i) = parseSingle(item, i)
    BY <2>1 DEF Outcome
  <2>3. /\ parseSingle(item, i).id = Owed(item, i).id
        /\ parseSingle(item, i).code = Owed(item, i).code
    BY <1>1 DEF parseSingle, Owed, Shape, ErrorResponse, ErrorId
  <2> QED
    BY <2>1, <2>2, <2>3
<1>2. CASE item.shape = "call"
  <2> DEFINE made == parseSingle(item, i)
  <2>1. made = [kind |-> "call", proc |-> item.proc, id |-> i, hasID |-> item.id = "given"]
    BY <1>2 DEF parseSingle
  <2>2. /\ made.kind = "call" /\ made.proc = item.proc /\ made.id = i
    BY <2>1
  <2>3. Outcome(item, i) = IF item.proc \notin DOMAIN Procedure THEN ErrorResponse(NotFound, i)
                           ELSE Result(made)
    BY <2>2 DEF Outcome
  <2>4. Owed(item, i) = [code |-> IF item.proc \notin DOMAIN Procedure THEN NotFound
                                  ELSE IF Fails(item.proc) THEN Internal ELSE 0,
                         id |-> i]
    BY <1>2 DEF Owed
  <2>5. Owes(item) => item.id = "given"
    BY <1>2 DEF Owes
  <2> HIDE DEF made
  <2>6. CASE item.proc \notin DOMAIN Procedure
    <3>1. Outcome(item, i) = ErrorResponse(NotFound, i)
      BY <2>3, <2>6
    <3>2. ErrorResponse(NotFound, i) \in Outcomes
      BY DEF ErrorResponse, Outcomes
    <3> QED
      BY <3>1, <3>2, <2>4, <2>6 DEF ErrorResponse
  <2>7. CASE item.proc \in DOMAIN Procedure
    <3>1. Procedure[item.proc].fate \in Fate
      BY <2>7, JsonRpcAssumption
    <3>2. Outcome(item, i) = Result(made)
      BY <2>3, <2>7
    <3>3. Result(made) = IF Fails(item.proc) THEN ErrorResponse(Internal, i)
                         ELSE IF Procedure[item.proc].fate = "ok" THEN [kind |-> "result", id |-> i]
                         ELSE [kind |-> "empty", id |-> i]
      <4>1. Fails(item.proc) => Procedure[item.proc].fate # "ok"
        BY DEF Fails
      <4> QED
        BY <2>2, <4>1 DEF Result
    <3>4. CASE Fails(item.proc)
      <4>1. Outcome(item, i) = ErrorResponse(Internal, i)
        BY <3>2, <3>3, <3>4
      <4>2. ErrorResponse(Internal, i) \in Outcomes
        BY DEF ErrorResponse, Outcomes
      <4> QED
        BY <4>1, <4>2, <2>4, <2>7, <3>4 DEF ErrorResponse
    <3>5. CASE ~Fails(item.proc) /\ Procedure[item.proc].fate = "ok"
      <4>1. Outcome(item, i) = [kind |-> "result", id |-> i]
        BY <3>2, <3>3, <3>5
      <4> QED
        BY <4>1, <2>4, <2>7, <3>5 DEF Outcomes
    <3>6. CASE ~Fails(item.proc) /\ Procedure[item.proc].fate # "ok"
      <4>1. Outcome(item, i) = [kind |-> "empty", id |-> i]
        BY <3>2, <3>3, <3>6
      <4>2. Procedure[item.proc].fate = "bodiless"
        BY <3>1, <3>6 DEF Fails, Fate
      <4> QED
        BY <4>1, <4>2, <2>4, <2>5, <2>7, <3>6, <1>2 DEF Outcomes
    <3> QED
      BY <3>4, <3>5, <3>6
  <2> QED
    BY <2>6, <2>7
<1> QED
  BY <1>1, <1>2

(* What a call has seen stays below a count that only grows. *)
LEMMA CountGrows ==
  ASSUME NEW q \in RequestRecord, NEW e,
         NEW c \in [DOMAIN Procedure -> Nat], NEW d \in [DOMAIN Procedure -> Nat],
         RequestInv(q, e, c), \A p \in DOMAIN Procedure : c[p] <= d[p]
  PROVE  RequestInv(q, e, d)
<1>1. q.seen \in Seq([DOMAIN Procedure -> Nat])
  BY DEF RequestRecord
<1>2. \A j \in DOMAIN q.seen : q.seen[j] \in [DOMAIN Procedure -> Nat]
  BY <1>1, ElementOfSeq, LenProperties
<1>3. SeenInOrder(q, c)
  BY DEF RequestInv
<1>4. \A j \in DOMAIN q.seen : \A p \in DOMAIN Procedure : q.seen[j][p] <= d[p]
  <2> SUFFICES ASSUME NEW j \in DOMAIN q.seen, NEW p \in DOMAIN Procedure
               PROVE  q.seen[j][p] <= d[p]
    OBVIOUS
  <2>1. q.seen[j][p] <= c[p] /\ c[p] <= d[p]
    BY <1>3 DEF SeenInOrder
  <2>2. q.seen[j][p] \in Nat /\ c[p] \in Nat /\ d[p] \in Nat
    BY <1>2
  <2> QED
    BY <2>1, <2>2
<1>5. Len(q.seen) \in Nat /\ DOMAIN q.seen = 1 .. Len(q.seen)
  BY <1>1, LenProperties
<1>6. /\ q.next - 1 \in Nat
      /\ Len(Past(q, ItemsKnown(q.body))) \in Nat
  <2>1. q.next - 1 \in Nat
    BY DEF RequestRecord
  <2> QED
    BY <2>1, PlacesNext, LenProperties DEF Past
<1>7. Begun(q) \in Nat
  BY DEF Begun
<1>8. \A k \in 1 .. Len(Past(q, ItemsKnown(q.body))) :
        Effective(Called(q.body, k)) =>
          d[Called(q.body, k).proc] > q.seen[k][Called(q.body, k).proc]
  <2> SUFFICES ASSUME NEW k \in 1 .. Len(Past(q, ItemsKnown(q.body))), Effective(Called(q.body, k))
               PROVE  d[Called(q.body, k).proc] > q.seen[k][Called(q.body, k).proc]
    OBVIOUS
  <2> DEFINE p == Called(q.body, k).proc
  <2>1. p \in DOMAIN Procedure
    BY DEF Effective, Known
  <2>2. c[p] > q.seen[k][p]
    BY <1>3 DEF SeenInOrder
  <2>3. k \in DOMAIN q.seen
    BY <1>3, <1>5, <1>6, <1>7 DEF SeenInOrder
  <2> HIDE DEF p
  <2>4. q.seen[k][p] \in Nat /\ c[p] \in Nat /\ d[p] \in Nat /\ c[p] <= d[p]
    BY <1>2, <2>1, <2>3
  <2>5. d[p] > q.seen[k][p]
    BY <2>2, <2>4
  <2> QED
    BY <2>5 DEF p
<1>9. SeenInOrder(q, d)
  BY <1>3, <1>4, <1>8 DEF SeenInOrder
<1> QED
  BY <1>9 DEF RequestInv

(* The item that a request is at. *)
LEMMA ItemAt ==
  ASSUME NEW q \in RequestRecord, BodyIsRead(q), q.next <= Len(q.entries),
         q.pc \in {"calling", "running"}
  PROVE  /\ q.body \in Body /\ q.next \in DOMAIN q.body.items
         /\ q.entries = ItemEntries(q.body) /\ Len(q.entries) = Len(q.body.items)
         /\ q.next <= Len(q.body.items) /\ Len(q.body.items) \in Nat
         /\ q.entries[q.next] = parseSingle(ItemOf(q), q.next)
         /\ q.next - 1 \in Nat /\ (q.next - 1) + 1 = q.next /\ q.next \in Nat
<1>1. q.entries # <<>> /\ q.body \in Body /\ q.entries = ItemEntries(q.body)
  BY DEF BodyIsRead
<1>2. q.next \in Nat \ {0}
  BY DEF RequestRecord
<1>3. /\ Len(q.body.items) \in Nat /\ DOMAIN q.body.items = 1 .. Len(q.body.items)
      /\ Len(q.entries) = Len(q.body.items)
  BY <1>1, ItemsOfBody
<1>4. q.next \in DOMAIN q.body.items
  BY <1>2, <1>3
<1>5. q.entries[q.next] = parseSingle(ItemOf(q), q.next)
  BY <1>1, <1>4 DEF ItemEntries, ItemOf
<1> QED
  BY <1>1, <1>2, <1>3, <1>4, <1>5

(* A call is the next of the calls that begin with those dealt with. *)
LEMMA NextCall ==
  ASSUME NEW body \in Body, NEW n \in Nat, n + 1 <= Len(body.items), Len(body.items) \in Nat,
         n + 1 \in ItemsKnown(body)
  PROVE  LET l == Len(Keep(Upto(n), ItemsKnown(body)))
         IN  /\ l \in Nat
             /\ Len(Keep(Upto(n + 1), ItemsKnown(body))) = l + 1
             /\ Called(body, l + 1) = body.items[n + 1]
<1> DEFINE S == ItemsKnown(body)
           k == Keep(Upto(n), S)
<1> HIDE DEF S
<1>1. k \in Seq(Nat) /\ Len(k) \in Nat
  BY PlacesNext, LenProperties
<1>2. Keep(Upto(n + 1), S) = Append(k, n + 1)
  BY PlacesNext DEF S
<1>3. /\ Len(Append(k, n + 1)) = Len(k) + 1
      /\ Append(k, n + 1)[Len(k) + 1] = n + 1
  BY <1>1, AppendProperties
<1>4. Keep(Upto(Len(body.items)), S)[Len(k) + 1] = Keep(Upto(n + 1), S)[Len(k) + 1]
  <2>1. n + 1 \in Nat /\ Len(k) + 1 \in 1 .. Len(Keep(Upto(n + 1), S))
    BY <1>1, <1>2, <1>3
  <2> QED
    BY <2>1, PlacesPrefix
<1> QED
  BY <1>1, <1>2, <1>3, <1>4 DEF Called, CallsOf, S

(* An item is dealt with: a malformed one or an unknown procedure at once, *)
(* a call of a known one when it ends.                                     *)
LEMMA ItemEnds ==
  ASSUME NEW q \in RequestRecord, NEW w \in RequestRecord, NEW e,
         NEW c \in [DOMAIN Procedure -> Nat], NEW d \in [DOMAIN Procedure -> Nat],
         RequestInv(q, e, c), q.pc \in {"calling", "running"}, q.next <= Len(q.entries),
         Known(ItemOf(q)) <=> q.pc = "running",
         w.pc = "calling", w.body = q.body, w.batch = q.batch, w.entries = q.entries,
         w.seen = q.seen, w.next = q.next + 1,
         w.results = q.results \o (IF Owes(ItemOf(q)) THEN <<Outcome(ItemOf(q), q.next)>> ELSE <<>>),
         \A p \in DOMAIN Procedure : c[p] <= d[p],
         Effective(ItemOf(q)) => c[ItemOf(q).proc] < d[ItemOf(q).proc],
         NEW f, f = IF Effective(ItemOf(q)) THEN Append(e, q.next) ELSE e
  PROVE  RequestInv(w, f, d)
<1> DEFINE n == q.next - 1
           body == q.body
           item == ItemOf(q)
<1>1. /\ body \in Body /\ q.next \in DOMAIN body.items
      /\ Len(q.entries) = Len(body.items)
      /\ q.next <= Len(body.items) /\ Len(body.items) \in Nat
      /\ n \in Nat /\ n + 1 = q.next /\ q.next \in Nat
  BY ItemAt DEF RequestInv
<1>2. w.next - 1 = n + 1 /\ w.next = n + 2
  BY <1>1
<1>3. RequestInv(q, e, d)
  BY CountGrows
<1>4. \A S : Past(q, S) = Keep(Upto(n), S) /\ Past(w, S) = Keep(Upto(n + 1), S)
  BY <1>2 DEF Past
<1>0. /\ item = body.items[q.next] /\ (Known(item) <=> q.pc = "running")
      /\ w.results = q.results \o (IF Owes(item) THEN <<Outcome(item, q.next)>> ELSE <<>>)
      /\ Effective(item) => c[item.proc] < d[item.proc]
      /\ f = IF Effective(item) THEN Append(e, q.next) ELSE e
  BY DEF ItemOf
<1> HIDE DEF n, body, item
<1>5. \A S : /\ Past(q, S) \in Seq(Nat)
             /\ Past(w, S) = IF q.next \in S THEN Append(Past(q, S), q.next) ELSE Past(q, S)
  <2> TAKE S
  <2>1. /\ Keep(Upto(n), S) \in Seq(Nat)
        /\ Keep(Upto(n + 1), S) = IF n + 1 \in S THEN Append(Keep(Upto(n), S), n + 1)
                                  ELSE Keep(Upto(n), S)
    BY <1>1, PlacesNext
  <2> QED
    BY <2>1, <1>1, <1>4
<1>6. BodyIsRead(w)
  <2>1. BodyIsRead(q) /\ q.entries # <<>>
    BY DEF RequestInv, BodyIsRead
  <2> QED
    BY <2>1, <1>1, <1>2 DEF BodyIsRead
<1>7. ResultsOfPast(w)
  <2> DEFINE S == ItemsOwing(body)
             g == ItemOutcomes(body)
  <2>1. q.results = Along(Past(q, S), g)
    BY DEF RequestInv, ResultsOfPast, body
  <2>2. q.next \in S <=> Owes(item)
    BY <1>0, <1>1 DEF ItemsOwing, body
  <2>3. g[q.next] = Outcome(item, q.next)
    BY <1>0, <1>1 DEF ItemOutcomes, body
  <2> HIDE DEF S, g
  <2>4. Along(Append(Past(q, S), q.next), g) = Along(Past(q, S), g) \o <<g[q.next]>>
    <3>1. Past(q, S) \in Seq(Nat) /\ q.next \in Nat
      BY <1>1, <1>5
    <3> QED
      BY ONLY <3>1, AlongNext
  <2>5. q.results \o <<>> = q.results
    <3>1. q.results \in Seq(Outcomes)
      BY DEF RequestRecord
    <3> QED
      BY <3>1, ConcatEmptySeq
  <2>6. Past(w, S) = IF Owes(item) THEN Append(Past(q, S), q.next) ELSE Past(q, S)
    BY <1>5, <2>2
  <2>7. w.results = Along(Past(w, S), g)
    BY <1>0, <2>1, <2>3, <2>4, <2>5, <2>6
  <2> QED
    BY <2>7 DEF ResultsOfPast, S, g, body
<1>8. f = Past(w, ItemsEffective(w.body))
  <2>1. q.next \in ItemsEffective(body) <=> Effective(item)
    BY <1>0, <1>1 DEF ItemsEffective, body
  <2>2. e = Past(q, ItemsEffective(body))
    BY DEF RequestInv, body
  <2>3. w.body = body
    BY DEF body
  <2> QED
    BY <1>0, <1>5, <2>1, <2>2, <2>3
<1>9. SeenInOrder(w, d)
  <2> DEFINE S == ItemsKnown(body)
             l == Len(Past(q, S))
  <2>1. l \in Nat
    BY <1>5, LenProperties
  <2>2. q.next \in S <=> Known(item)
    BY <1>0, <1>1 DEF ItemsKnown, body
  <2>3. SeenInOrder(q, d) /\ SeenInOrder(q, c)
    BY <1>3 DEF RequestInv
  <2>4. Len(Past(w, S)) = IF Known(item) THEN l + 1 ELSE l
    BY <1>5, <2>2, AppendProperties, <1>1
  <2>5. Known(item) => Called(body, l + 1) = item
    <3> SUFFICES ASSUME Known(item) PROVE Called(body, l + 1) = item
      OBVIOUS
    <3>1. Called(body, Len(Keep(Upto(n), ItemsKnown(body))) + 1) = body.items[n + 1]
      BY <1>1, <2>2, NextCall
    <3> QED
      BY <1>0, <3>1, <1>1, <1>4 DEF body
  <2>6. Len(q.seen) = Len(Past(w, S)) /\ Begun(w) = 0
    BY <1>0, <2>1, <2>3, <2>4, SMTT(30) DEF SeenInOrder, Begun, body
  <2>7. \A k \in 1 .. l : Effective(Called(body, k)) =>
          d[Called(body, k).proc] > q.seen[k][Called(body, k).proc]
    BY <2>3 DEF SeenInOrder, body
  <2>8. Known(item) /\ Effective(item) => d[item.proc] > q.seen[l + 1][item.proc]
    <3> SUFFICES ASSUME Known(item), Effective(item) PROVE d[item.proc] > q.seen[l + 1][item.proc]
      OBVIOUS
    <3>1. item.proc \in DOMAIN Procedure
      BY DEF Known
    <3>2. q.seen \in Seq([DOMAIN Procedure -> Nat])
      BY DEF RequestRecord
    <3>3. l + 1 \in DOMAIN q.seen
      <4>1. Len(q.seen) = l + 1
        BY <2>4, <2>6
      <4> QED
        BY <4>1, <2>1, <3>2, LenProperties
    <3>4. q.seen[l + 1] \in [DOMAIN Procedure -> Nat]
      BY <3>2, <3>3, ElementOfSeq, LenProperties
    <3>5. q.seen[l + 1][item.proc] <= c[item.proc]
      BY <2>3, <3>1, <3>3 DEF SeenInOrder
    <3>6. c[item.proc] < d[item.proc]
      BY <1>0
    <3>7. q.seen[l + 1][item.proc] \in Nat /\ c[item.proc] \in Nat /\ d[item.proc] \in Nat
      BY <3>1, <3>4
    <3>8. \A x, y, z \in Nat : x <= y /\ y < z => z > x
      OBVIOUS
    <3> QED
      BY ONLY <3>5, <3>6, <3>7, <3>8
  <2>9. \A k \in 1 .. Len(Past(w, S)) : Effective(Called(body, k)) =>
          d[Called(body, k).proc] > q.seen[k][Called(body, k).proc]
    <3> SUFFICES ASSUME NEW k \in 1 .. Len(Past(w, S)), Effective(Called(body, k))
                 PROVE  d[Called(body, k).proc] > q.seen[k][Called(body, k).proc]
      OBVIOUS
    <3> HIDE DEF l, S
    <3>1. k \in 1 .. l \/ (Known(item) /\ k = l + 1)
      BY <2>1, <2>4
    <3> QED
      BY <3>1, <2>5, <2>7, <2>8
  <2>10. w.body = body /\ w.seen = q.seen
    BY DEF body
  <2> QED
    <3>1. Len(w.seen) = Len(Past(w, ItemsKnown(w.body))) + Begun(w)
      <4>1. Len(Past(w, S)) \in Nat
        BY <2>1, <2>4
      <4> QED
        BY <4>1, <2>6, <2>10
    <3>2. \A j \in DOMAIN w.seen : \A p \in DOMAIN Procedure : w.seen[j][p] <= d[p]
      BY <2>3, <2>10 DEF SeenInOrder
    <3>3. \A j \in DOMAIN w.seen : \A k \in 1 .. j - 1 :
            Effective(Called(w.body, k)) =>
              w.seen[j][Called(w.body, k).proc] > w.seen[k][Called(w.body, k).proc]
      BY <2>3, <2>10 DEF SeenInOrder
    <3>4. \A k \in 1 .. Len(Past(w, ItemsKnown(w.body))) :
            Effective(Called(w.body, k)) =>
              d[Called(w.body, k).proc] > w.seen[k][Called(w.body, k).proc]
      BY <2>9, <2>10
    <3> QED
      BY <3>1, <3>2, <3>3, <3>4 DEF SeenInOrder
<1>10. AnswerIsFinal(w)
  BY DEF AnswerIsFinal
<1> QED
  BY <1>6, <1>7, <1>8, <1>9, <1>10 DEF RequestInv

(* A call of a known procedure begins: it has seen the count as it is.     *)
LEMMA CallBegins ==
  ASSUME NEW q \in RequestRecord, NEW w \in RequestRecord, NEW e,
         NEW c \in [DOMAIN Procedure -> Nat],
         RequestInv(q, e, c), q.pc = "calling", q.next <= Len(q.entries),
         Known(ItemOf(q)),
         w.pc = "running", w.body = q.body, w.batch = q.batch, w.entries = q.entries,
         w.seen = Append(q.seen, c), w.next = q.next, w.results = q.results
  PROVE  RequestInv(w, e, c)
<1> DEFINE body == q.body
           S == ItemsKnown(body)
           l == Len(Past(q, S))
<1>1. \A T : Past(w, T) = Past(q, T)
  BY DEF Past
<1>2. BodyIsRead(q) /\ SeenInOrder(q, c) /\ ResultsOfPast(q) /\ e = Past(q, ItemsEffective(q.body))
  BY DEF RequestInv
<1>3. BodyIsRead(w)
  BY <1>2 DEF BodyIsRead, ItemOf
<1>4. ResultsOfPast(w) /\ e = Past(w, ItemsEffective(w.body))
  BY <1>1, <1>2 DEF ResultsOfPast
<1>5. l \in Nat
  <2>1. q.next - 1 \in Nat
    BY DEF RequestRecord
  <2> QED
    BY <2>1, PlacesNext, LenProperties DEF Past
<1>6. q.seen \in Seq([DOMAIN Procedure -> Nat]) /\ Len(q.seen) = l /\ DOMAIN q.seen = 1 .. l
  <2>1. q.seen \in Seq([DOMAIN Procedure -> Nat])
    BY DEF RequestRecord
  <2>2. Len(q.seen) = l
    BY <1>2, <1>5 DEF SeenInOrder, Begun
  <2> QED
    BY <2>1, <2>2, LenProperties
<1>7. /\ Len(w.seen) = l + 1 /\ DOMAIN w.seen = 1 .. l + 1
      /\ \A j \in 1 .. l : w.seen[j] = q.seen[j]
      /\ w.seen[l + 1] = c
  <2> HIDE DEF l
  <2> QED
    BY <1>5, <1>6, AppendProperties, LenProperties
<1>8. w.body = body /\ Begun(w) = 1
  BY DEF Begun
<1>9. Len(w.seen) = Len(Past(w, ItemsKnown(w.body))) + Begun(w)
  BY <1>1, <1>7, <1>8
<1>10. \A j \in DOMAIN w.seen : \A p \in DOMAIN Procedure : w.seen[j][p] <= c[p]
  <2> SUFFICES ASSUME NEW j \in 1 .. l + 1, NEW p \in DOMAIN Procedure
               PROVE  w.seen[j][p] <= c[p]
    BY <1>7
  <2>1. CASE j = l + 1
    BY <2>1, <1>7
  <2>2. CASE j # l + 1
    <3>1. j \in 1 .. l
      BY <2>2, <1>5
    <3>2. w.seen[j] = q.seen[j] /\ j \in DOMAIN q.seen
      BY <3>1, <1>6, <1>7
    <3> QED
      BY <3>2, <1>2 DEF SeenInOrder
  <2> QED
    BY <2>1, <2>2
<1>11. \A k \in 1 .. l : Effective(Called(body, k)) =>
         c[Called(body, k).proc] > q.seen[k][Called(body, k).proc]
  BY <1>2 DEF SeenInOrder
<1>12. \A k \in 1 .. Len(Past(w, ItemsKnown(w.body))) : Effective(Called(w.body, k)) =>
         c[Called(w.body, k).proc] > w.seen[k][Called(w.body, k).proc]
  <2>1. Len(Past(w, ItemsKnown(w.body))) = l
    BY <1>1, <1>8
  <2>2. \A k \in 1 .. l : Effective(Called(body, k)) =>
          c[Called(body, k).proc] > w.seen[k][Called(body, k).proc]
    BY <1>7, <1>11
  <2> HIDE DEF l, body
  <2> QED
    BY <2>1, <2>2, <1>8
<1>13. \A j \in DOMAIN w.seen : \A k \in 1 .. j - 1 : Effective(Called(w.body, k)) =>
         w.seen[j][Called(w.body, k).proc] > w.seen[k][Called(w.body, k).proc]
  <2> SUFFICES ASSUME NEW j \in 1 .. l + 1, NEW k \in 1 .. j - 1, Effective(Called(body, k))
               PROVE  w.seen[j][Called(body, k).proc] > w.seen[k][Called(body, k).proc]
    BY <1>7, <1>8
  <2>1. k \in 1 .. l /\ w.seen[k] = q.seen[k]
    BY <1>5, <1>7
  <2>2. CASE j = l + 1
    BY <2>1, <2>2, <1>7, <1>11
  <2>3. CASE j # l + 1
    <3>1. j \in DOMAIN q.seen /\ w.seen[j] = q.seen[j]
      BY <2>3, <1>5, <1>6, <1>7
    <3> QED
      BY <2>1, <3>1, <1>2 DEF SeenInOrder
  <2> QED
    BY <2>2, <2>3
<1>14. SeenInOrder(w, c)
  BY <1>9, <1>10, <1>12, <1>13 DEF SeenInOrder
<1>15. AnswerIsFinal(w)
  BY DEF AnswerIsFinal
<1> QED
  BY <1>3, <1>4, <1>14, <1>15 DEF RequestInv

(* The last item dealt with, a request is answered. *)
LEMMA AnswerEnds ==
  ASSUME NEW q \in RequestRecord, NEW w \in RequestRecord, NEW e, NEW c,
         RequestInv(q, e, c), q.pc = "calling", q.next > Len(q.entries),
         w.pc = "answered", w.body = q.body, w.batch = q.batch, w.entries = q.entries,
         w.seen = q.seen, w.next = q.next, w.results = q.results, w.answer # <<>>,
         w.batch => w.answer = IF w.results = <<>> THEN Reply(204, <<>>, 0)
                               ELSE Reply(200, Marshalled(w.results), 0)
  PROVE  RequestInv(w, e, c)
<1>1. \A T : Past(w, T) = Past(q, T)
  BY DEF Past
<1>2. Begun(w) = Begun(q)
  BY DEF Begun
<1>3. BodyIsRead(q) /\ SeenInOrder(q, c) /\ ResultsOfPast(q) /\ e = Past(q, ItemsEffective(q.body))
  BY DEF RequestInv
<1>4. BodyIsRead(w)
  <2>1. q.entries # <<>> /\ q.next <= Len(q.entries) + 1
    BY <1>3 DEF BodyIsRead
  <2>2. q.next \in Nat /\ Len(q.entries) \in Nat
    <3>1. q.body \in Body /\ q.entries = ItemEntries(q.body)
      BY <1>3, <2>1 DEF BodyIsRead
    <3> QED
      BY <3>1, ItemsOfBody DEF RequestRecord
  <2>3. q.next = Len(q.entries) + 1
    BY <2>1, <2>2
  <2> QED
    BY <1>3, <2>1, <2>3 DEF BodyIsRead
<1>5. ResultsOfPast(w) /\ e = Past(w, ItemsEffective(w.body))
  BY <1>1, <1>3 DEF ResultsOfPast
<1>6. SeenInOrder(w, c)
  BY <1>1, <1>2, <1>3 DEF SeenInOrder
<1>7. AnswerIsFinal(w)
  BY DEF AnswerIsFinal
<1> QED
  BY <1>4, <1>5, <1>6, <1>7 DEF RequestInv

(* A request that has dealt with nothing, whether or not its body is read. *)
LEMMA NothingDone ==
  ASSUME NEW q \in RequestRecord, NEW c,
         q.next = 1, q.results = <<>>, q.seen = <<>>, q.pc # "running",
         BodyIsRead(q), AnswerIsFinal(q)
  PROVE  RequestInv(q, <<>>, c)
<1>1. \A S : Past(q, S) = <<>>
  <2>1. q.next - 1 = 0
    OBVIOUS
  <2> QED
    BY <2>1, NoPlaces DEF Past
<1>2. Along(<<>>, ItemOutcomes(q.body)) = <<>>
  BY DEF Along
<1>3. Begun(q) = 0 /\ Len(<<>>) = 0 /\ DOMAIN <<>> = {}
  BY DEF Begun
<1>4. ResultsOfPast(q)
  BY <1>1, <1>2 DEF ResultsOfPast
<1>5. SeenInOrder(q, c)
  BY <1>1, <1>3 DEF SeenInOrder
<1> QED
  BY <1>1, <1>4, <1>5 DEF RequestInv

(* A call that takes effect is entered for its own request only.           *)
LEMMA EffectEntered ==
  ASSUME effects \in Seq(Req \X Nat), NEW r \in Req, NEW n \in Nat,
         effects' = Append(effects, <<r, n>>)
  PROVE  /\ EffectsOf(r)' = Append(EffectsOf(r), n)
         /\ \A q \in Req \ {r} : EffectsOf(q)' = EffectsOf(q)
<1>1. <<r, n>> \in Req \X Nat
  OBVIOUS
<1>2. \A q \in Req : Keep(effects', {q} \X Nat)
        = IF q = r THEN Append(Keep(effects, {q} \X Nat), <<r, n>>) ELSE Keep(effects, {q} \X Nat)
  <2> TAKE q \in Req
  <2> DEFINE S == {q} \X Nat
             x == <<r, n>>
             P == Req \X Nat
  <2>1. Keep(Append(effects, x), S)
          = IF x \in S THEN Append(Keep(effects, S), x) ELSE Keep(effects, S)
    <3>1. effects \in Seq(P) /\ x \in P
      BY <1>1
    <3> HIDE DEF S, x, P
    <3> QED
      BY ONLY <3>1, KeepAppend
  <2>2. <<r, n>> \in {q} \X Nat <=> q = r
    OBVIOUS
  <2> QED
    BY <2>1, <2>2
<1>3. \A q \in Req \ {r} : EffectsOf(q)' = EffectsOf(q)
  BY <1>2 DEF EffectsOf
<1>4. EffectsOf(r)' = Append(EffectsOf(r), n)
  <2> DEFINE mine == Keep(effects, {r} \X Nat)
  <2>1. mine \in Seq((Req \X Nat) \cap ({r} \X Nat))
    BY KeepRange
  <2>2. mine \in Seq({r} \X Nat)
    <3>1. (Req \X Nat) \cap ({r} \X Nat) = {r} \X Nat
      OBVIOUS
    <3> QED
      BY <2>1, <3>1
  <2>3. Keep(effects', {r} \X Nat) = Append(mine, <<r, n>>)
    BY <1>2
  <2> HIDE DEF mine
  <2>4. Len(mine) \in Nat /\ DOMAIN mine = 1 .. Len(mine) /\ \A i \in 1 .. Len(mine) : mine[i] \in {r} \X Nat
    BY <2>2, LenProperties, ElementOfSeq
  <2> DEFINE f == [i \in DOMAIN mine |-> mine[i][2]]
             g == [i \in DOMAIN Append(mine, <<r, n>>) |-> Append(mine, <<r, n>>)[i][2]]
  <2>5. /\ DOMAIN Append(mine, <<r, n>>) = 1 .. Len(mine) + 1
        /\ \A i \in 1 .. Len(mine) : Append(mine, <<r, n>>)[i] = mine[i]
        /\ Append(mine, <<r, n>>)[Len(mine) + 1] = <<r, n>>
    BY <2>2, AppendProperties, LenProperties, <2>4, <1>1
  <2>6. f \in Seq(Nat) /\ Len(f) = Len(mine) /\ \A i \in 1 .. Len(mine) : f[i] = mine[i][2]
    BY <2>4
  <2>7. g \in Seq(Nat) /\ Len(g) = Len(mine) + 1
        /\ (\A i \in 1 .. Len(mine) : g[i] = mine[i][2]) /\ g[Len(mine) + 1] = n
    <3>1. \A i \in 1 .. Len(mine) + 1 : Append(mine, <<r, n>>)[i][2] \in Nat
      <4> TAKE i \in 1 .. Len(mine) + 1
      <4>1. i \in 1 .. Len(mine) \/ i = Len(mine) + 1
        BY <2>4
      <4> QED
        BY <4>1, <2>4, <2>5
    <3>2. g = [i \in 1 .. Len(mine) + 1 |-> Append(mine, <<r, n>>)[i][2]]
      BY <2>5
    <3>3. Len(mine) + 1 \in Nat
      BY <2>4
    <3>4. g \in Seq(Nat) /\ Len(g) = Len(mine) + 1
      BY <3>1, <3>2, <3>3
    <3>5. \A i \in 1 .. Len(mine) : g[i] = mine[i][2]
      BY <2>4, <2>5, <3>2
    <3>6. g[Len(mine) + 1] = n
      BY <2>4, <2>5, <3>2
    <3> QED
      BY <3>4, <3>5, <3>6
  <2> HIDE DEF f, g
  <2>8. /\ Append(f, n) \in Seq(Nat) /\ Len(Append(f, n)) = Len(mine) + 1
        /\ \A i \in 1 .. Len(mine) : Append(f, n)[i] = f[i]
        /\ Append(f, n)[Len(mine) + 1] = n
    BY <2>6, AppendProperties
  <2>9. \A i \in 1 .. Len(mine) + 1 : g[i] = Append(f, n)[i]
    <3> TAKE i \in 1 .. Len(mine) + 1
    <3>1. i \in 1 .. Len(mine) \/ i = Len(mine) + 1
      BY <2>4
    <3> QED
      BY <3>1, <2>6, <2>7, <2>8
  <2>10. g = Append(f, n)
    BY <2>7, <2>8, <2>9, SeqEqual
  <2>11. EffectsOf(r) = f
    BY DEF EffectsOf, f, mine
  <2>12. EffectsOf(r)' = g
    BY <2>3 DEF EffectsOf, g
  <2> QED
    BY <2>10, <2>11, <2>12
<1> QED
  BY <1>3, <1>4

(* A step of one request, which leaves the others what they have.          *)
LEMMA RequestMoves ==
  ASSUME RpcInv, NEW r \in Req,
         rpc' \in [Req -> RequestRecord], \A q \in Req \ {r} : rpc'[q] = rpc[q],
         count' \in [DOMAIN Procedure -> Nat], \A p \in DOMAIN Procedure : count[p] <= count'[p],
         effects' \in Seq(Req \X Nat), \A q \in Req \ {r} : EffectsOf(q)' = EffectsOf(q),
         RequestInv(rpc'[r], EffectsOf(r)', count')
  PROVE  RpcInv'
<1>1. \A q \in Req : RequestInv(rpc'[q], EffectsOf(q)', count')
  <2> TAKE q \in Req
  <2>1. CASE q = r
    BY <2>1
  <2>2. CASE q # r
    <3>1. rpc'[q] = rpc[q] /\ EffectsOf(q)' = EffectsOf(q) /\ rpc[q] \in RequestRecord
      BY <2>2 DEF RpcInv, RpcTyped
    <3>2. RequestInv(rpc[q], EffectsOf(q), count) /\ count \in [DOMAIN Procedure -> Nat]
      BY DEF RpcInv, RpcTyped
    <3>3. RequestInv(rpc[q], EffectsOf(q), count')
      BY ONLY <3>1, <3>2, CountGrows, count' \in [DOMAIN Procedure -> Nat],
              \A p \in DOMAIN Procedure : count[p] <= count'[p]
    <3> QED
      BY <3>1, <3>3
  <2> QED
    BY <2>1, <2>2
<1> QED
  BY <1>1 DEF RpcInv, RpcTyped

(* A request that has not come. *)
LEMMA FreshRequest == Fresh \in RequestRecord
BY DEF RequestRecord, Fresh, Mocks

(* At first. *)
LEMMA RpcBegins == RpcInit => RpcInv
<1> SUFFICES ASSUME RpcInit PROVE RpcInv
  OBVIOUS
<1>1. Fresh \in RequestRecord /\ Fresh.next = 1 /\ Fresh.results = <<>> /\ Fresh.seen = <<>>
      /\ Fresh.pc = "idle" /\ Fresh.entries = <<>> /\ ~Fresh.batch
  BY FreshRequest DEF Fresh
<1>2. RpcTyped
  BY <1>1 DEF RpcInit, RpcTyped
<1>3. \A r \in Req : rpc[r] = Fresh /\ EffectsOf(r) = <<>>
  <2> TAKE r \in Req
  <2>1. Keep(effects, {r} \X Nat) = <<>> /\ DOMAIN <<>> = {}
    BY KeepEmpty DEF RpcInit
  <2>2. EffectsOf(r) = <<>>
    <3>1. EffectsOf(r) = [i \in DOMAIN Keep(effects, {r} \X Nat) |-> Keep(effects, {r} \X Nat)[i][2]]
      BY DEF EffectsOf
    <3>2. EffectsOf(r) = [i \in {} |-> Keep(effects, {r} \X Nat)[i][2]]
      BY <2>1, <3>1
    <3> QED
      BY <3>2
  <2> QED
    BY <2>2 DEF RpcInit
<1>4. BodyIsRead(Fresh) /\ AnswerIsFinal(Fresh)
  BY <1>1 DEF BodyIsRead, AnswerIsFinal
<1>5. RequestInv(Fresh, <<>>, count)
  BY <1>1, <1>4, NothingDone
<1> QED
  BY <1>2, <1>3, <1>5 DEF RpcInv

(* What is parsed without a fatal error has one entry for every item.      *)
LEMMA ParsedBody ==
  ASSUME NEW body \in Body
  PROVE  /\ ParseBody(body).fatal = 0 =>
              /\ ParseBody(body).entries # <<>>
              /\ ParseBody(body).entries = ItemEntries(body)
         /\ ParseBody(body).fatal # 0 =>
              ParseBody(body).fatal \in {ParseError, Invalid, NotFound, Internal}
<1> DEFINE e == parseSingle(body.items[1], 1)
<1>1. /\ body.form \in Form /\ Len(body.items) \in Nat /\ DOMAIN body.items = 1 .. Len(body.items)
      /\ \A i \in DOMAIN body.items : /\ body.items[i].shape \in Shape
                                      /\ body.items[i].id \in {"given", "null", "absent"}
      /\ body.form = "object" => Len(body.items) = 1
  BY ItemsOfBody
<1>2. CASE body.form = "garbage"
  <2>1. ParseBody(body) = [fatal |-> ParseError, entries |-> <<>>]
    BY <1>2 DEF ParseBody
  <2> QED
    BY <2>1 DEF ParseError
<1>3. CASE body.form = "scalar"
  <2>1. ParseBody(body) = [fatal |-> Invalid, entries |-> <<>>]
    BY <1>3 DEF ParseBody
  <2> QED
    BY <2>1 DEF Invalid
<1>4. CASE body.form = "array"
  <2>1. ParseBody(body) = IF body.items = <<>> THEN [fatal |-> Invalid, entries |-> <<>>]
                          ELSE [fatal |-> 0, entries |-> ItemEntries(body)]
    BY <1>4 DEF ParseBody, parseBatch, ItemEntries
  <2>2. CASE body.items = <<>>
    BY <2>1, <2>2 DEF Invalid
  <2>3. CASE body.items # <<>>
    <3>1. ParseBody(body).fatal = 0 /\ ParseBody(body).entries = ItemEntries(body)
      BY <2>1, <2>3
    <3>2. ItemEntries(body) # <<>>
      <4>1. body.items \in Seq({body.items[i] : i \in DOMAIN body.items})
        BY JsonRpcAssumption
      <4>2. Len(body.items) # 0
        BY <2>3, <4>1, EmptySeq
      <4>3. Len(ItemEntries(body)) = Len(body.items)
        BY ItemsOfBody
      <4> QED
        BY <4>2, <4>3
    <3> QED
      BY <3>1, <3>2
  <2> QED
    BY <2>2, <2>3
<1>5. CASE body.form = "object"
  <2>1. 1 \in DOMAIN body.items /\ Len(body.items) = 1
    BY <1>1, <1>5
  <2>2. ParseBody(body) = IF e.kind = "error" THEN [fatal |-> e.code, entries |-> <<>>]
                          ELSE [fatal |-> 0, entries |-> <<e>>]
    BY <1>5 DEF ParseBody
  <2>3. e.kind = "error" => e \in Outcomes /\ e.code # 0
    BY <1>1, <2>1, EntryOfItem
  <2> HIDE DEF e
  <2>4. CASE e.kind = "error"
    <3>1. ParseBody(body).fatal = e.code
      BY <2>2, <2>4
    <3>2. e.code \in {ParseError, Invalid, NotFound, Internal}
      <4>1. e \in [kind : {"error"}, code : {ParseError, Invalid, NotFound, Internal}, id : Nat]
        BY <2>3, <2>4 DEF Outcomes
      <4> QED
        BY <4>1
    <3> QED
      BY <3>1, <3>2, <2>3, <2>4
  <2>5. CASE e.kind # "error"
    <3>1. ParseBody(body).fatal = 0 /\ ParseBody(body).entries = <<e>>
      BY <2>2, <2>5
    <3>2. ItemEntries(body) = [i \in 1 .. 1 |-> e]
      BY <1>1, <2>1 DEF ItemEntries, e
    <3>3. ItemEntries(body) = <<e>> /\ <<e>> # <<>>
      BY <3>2
    <3> QED
      BY <3>1, <3>3
  <2> QED
    BY <2>4, <2>5
<1> QED
  BY <1>1, <1>2, <1>3, <1>4, <1>5 DEF Form

(* A body arrives. *)
LEMMA PostKeeps ==
  ASSUME RpcInv, NEW r \in Req, NEW body \in Body, Post(r, body)
  PROVE  RpcInv'
<1> DEFINE parsed == ParseBody(body)
           refusal == Reply(200, <<ErrorResponse(parsed.fatal, NullId)>>, 0)
           bad  == [Fresh EXCEPT !.pc = "answered", !.body = body, !.answer = refusal]
           good == [Fresh EXCEPT !.pc = "calling", !.body = body, !.batch = body.form = "array",
                                 !.entries = parsed.entries]
           w == IF parsed.fatal # 0 THEN bad ELSE good
<1>1. rpc' = [rpc EXCEPT ![r] = w] /\ count' = count /\ effects' = effects /\ rpc[r].pc = "idle"
  BY DEF Post
<1>2. RpcTyped /\ RequestInv(rpc[r], EffectsOf(r), count)
  BY DEF RpcInv
<1>3. EffectsOf(r) = <<>> /\ \A q \in Req : EffectsOf(q)' = EffectsOf(q)
  <2>1. rpc[r].entries = <<>> /\ rpc[r].next - 1 = 0
    <3>1. BodyIsRead(rpc[r]) /\ rpc[r].next \in Nat \ {0}
      BY <1>2 DEF RequestInv, RpcTyped, RequestRecord
    <3> QED
      BY <3>1, <1>1 DEF BodyIsRead
  <2> QED
    BY <1>1, <1>2, <2>1, NoPlaces DEF RequestInv, Past, EffectsOf
<1>4. CASE parsed.fatal # 0
  <2>1. parsed.fatal \in {ParseError, Invalid, NotFound, Internal}
    BY <1>4, ParsedBody
  <2>2. refusal \in Replies
    BY <2>1 DEF Reply, ErrorResponse, NullId, Replies, Outcomes, Mocks
  <2>3. refusal # <<>>
    BY DEF refusal, Reply
  <2> HIDE DEF refusal, parsed
  <2>4. w = [Fresh EXCEPT !.pc = "answered", !.body = body, !.answer = refusal]
    BY <1>4
  <2> HIDE DEF bad, w
  <2>5. w \in RequestRecord
    BY <2>2, <2>4, FreshRequest DEF RequestRecord
  <2>6. /\ w.pc = "answered" /\ w.body = body /\ w.answer = refusal /\ w.next = 1
        /\ w.seen = <<>> /\ w.results = <<>> /\ ~w.batch /\ w.entries = <<>>
    BY <2>4 DEF Fresh
  <2>7. BodyIsRead(w) /\ AnswerIsFinal(w)
    BY <2>3, <2>6 DEF BodyIsRead, AnswerIsFinal
  <2>8. RequestInv(w, <<>>, count)
    BY <2>5, <2>6, <2>7, NothingDone
  <2>9. rpc' \in [Req -> RequestRecord] /\ rpc'[r] = w /\ \A q \in Req \ {r} : rpc'[q] = rpc[q]
    BY <1>1, <1>2, <2>5 DEF RpcTyped
  <2>10. \A p \in DOMAIN Procedure : count[p] <= count'[p]
    BY <1>1, <1>2 DEF RpcTyped
  <2> QED
    BY <1>1, <1>2, <1>3, <2>8, <2>9, <2>10, RequestMoves DEF RpcTyped
<1>5. CASE parsed.fatal = 0
  <2>1. parsed.entries # <<>> /\ parsed.entries = ItemEntries(body)
    BY <1>5, ParsedBody
  <2> HIDE DEF refusal, bad, parsed
  <2>2. Len(ItemEntries(body)) \in Nat
    BY ItemsOfBody
  <2>3. w = [Fresh EXCEPT !.pc = "calling", !.body = body, !.batch = body.form = "array",
                          !.entries = parsed.entries]
    BY <1>5
  <2> HIDE DEF good, w
  <2>4. w \in RequestRecord
    BY <2>1, <2>3, FreshRequest DEF RequestRecord
  <2>5. /\ w.pc = "calling" /\ w.body = body /\ w.next = 1 /\ w.entries = ItemEntries(body)
        /\ w.seen = <<>> /\ w.results = <<>>
    BY <2>1, <2>3 DEF Fresh
  <2>6. w.batch = (body.form = "array")
    BY <2>3 DEF Fresh
  <2>7. BodyIsRead(w) /\ AnswerIsFinal(w)
    BY <2>1, <2>2, <2>5, <2>6 DEF BodyIsRead, AnswerIsFinal
  <2>8. RequestInv(w, <<>>, count)
    BY <2>4, <2>5, <2>7, NothingDone
  <2>9. rpc' \in [Req -> RequestRecord] /\ rpc'[r] = w /\ \A q \in Req \ {r} : rpc'[q] = rpc[q]
    BY <1>1, <1>2, <2>4 DEF RpcTyped
  <2>10. \A p \in DOMAIN Procedure : count[p] <= count'[p]
    BY <1>1, <1>2 DEF RpcTyped
  <2> QED
    BY <1>1, <1>2, <1>3, <2>8, <2>9, <2>10, RequestMoves DEF RpcTyped
<1> QED
  BY <1>4, <1>5

(* The entries of the response that a call's outcome adds.                 *)
LEMMA AnswerOfCall ==
  ASSUME NEW item, NEW i \in Nat, item.shape = "call", item.id \in {"given", "null", "absent"}
  PROVE  /\ Answered(parseSingle(item, i), Outcome(item, i))
              = IF Owes(item) THEN <<Outcome(item, i)>> ELSE <<>>
         /\ item.proc \notin DOMAIN Procedure => Outcome(item, i) = ErrorResponse(NotFound, i)
         /\ item.proc \in DOMAIN Procedure => Outcome(item, i) = Result(parseSingle(item, i))
<1>1. /\ parseSingle(item, i).hasID = (item.id = "given")
      /\ parseSingle(item, i).proc = item.proc /\ parseSingle(item, i).id = i
      /\ parseSingle(item, i).kind = "call"
  <2>1. parseSingle(item, i)
          = [kind |-> "call", proc |-> item.proc, id |-> i, hasID |-> item.id = "given"]
    BY DEF parseSingle
  <2> QED
    BY <2>1
<1>2. Owes(item) <=> item.id = "given"
  BY DEF Owes
<1>3. Answered(parseSingle(item, i), Outcome(item, i))
        = IF Owes(item) THEN <<Outcome(item, i)>> ELSE <<>>
  BY <1>1, <1>2 DEF Answered
<1> QED
  BY <1>1, <1>3 DEF Outcome

(* One more of them, and none less. *)
LEMMA OneMore ==
  ASSUME NEW P, NEW c \in [P -> Nat], NEW p \in P, NEW d, d = [c EXCEPT ![p] = @ + 1]
  PROVE  d \in [P -> Nat] /\ c[p] < d[p] /\ \A x \in P : c[x] <= d[x]
<1>1. \A x \in P : c[x] \in Nat /\ d[x] = IF x = p THEN c[x] + 1 ELSE c[x]
  OBVIOUS
<1> QED
  BY <1>1

(* A request is past an item and nothing else of the system has changed.   *)
LEMMA ItemAdvances ==
  ASSUME RpcInv, NEW r \in Req, NEW w \in RequestRecord,
         rpc[r].pc \in {"calling", "running"}, rpc[r].next <= Len(rpc[r].entries),
         Known(ItemOf(rpc[r])) <=> rpc[r].pc = "running",
         rpc' = [rpc EXCEPT ![r] = w],
         w.pc = "calling", w.body = rpc[r].body, w.batch = rpc[r].batch,
         w.entries = rpc[r].entries, w.seen = rpc[r].seen, w.next = rpc[r].next + 1,
         w.results = rpc[r].results \o
           (IF Owes(ItemOf(rpc[r])) THEN <<Outcome(ItemOf(rpc[r]), rpc[r].next)>> ELSE <<>>),
         IF Effective(ItemOf(rpc[r]))
         THEN /\ count' = [count EXCEPT ![ItemOf(rpc[r]).proc] = @ + 1]
              /\ effects' = Append(effects, <<r, rpc[r].next>>)
         ELSE count' = count /\ effects' = effects
  PROVE  RpcInv'
<1> DEFINE q == rpc[r]
           item == ItemOf(q)
           P == DOMAIN Procedure
<1>1. /\ RpcTyped /\ RequestInv(q, EffectsOf(r), count)
      /\ q \in RequestRecord /\ q.next \in Nat
      /\ count \in [P -> Nat] /\ effects \in Seq(Req \X Nat)
  BY DEF RpcInv, RpcTyped, RequestRecord
<1>0. IF Effective(item)
      THEN count' = [count EXCEPT ![item.proc] = @ + 1] /\ effects' = Append(effects, <<r, q.next>>)
      ELSE count' = count /\ effects' = effects
  OBVIOUS
<1>5. /\ q.pc \in {"calling", "running"} /\ q.next <= Len(q.entries)
      /\ Known(ItemOf(q)) <=> q.pc = "running"
      /\ w.body = q.body /\ w.batch = q.batch /\ w.entries = q.entries
      /\ w.seen = q.seen /\ w.next = q.next + 1
      /\ w.results = q.results \o (IF Owes(ItemOf(q)) THEN <<Outcome(ItemOf(q), q.next)>> ELSE <<>>)
  OBVIOUS
<1>4. rpc' \in [Req -> RequestRecord] /\ rpc'[r] = w /\ \A x \in Req \ {r} : rpc'[x] = rpc[x]
  BY <1>1 DEF RpcTyped
<1> HIDE DEF q
<1>2. /\ count' \in [P -> Nat] /\ \A p \in P : count[p] <= count'[p]
      /\ Effective(item) => count[item.proc] < count'[item.proc]
      /\ effects' \in Seq(Req \X Nat)
      /\ \A x \in Req \ {r} : EffectsOf(x)' = EffectsOf(x)
      /\ EffectsOf(r)' = IF Effective(item) THEN Append(EffectsOf(r), q.next) ELSE EffectsOf(r)
  <2>1. CASE Effective(item)
    <3>1. /\ count' = [count EXCEPT ![item.proc] = @ + 1]
          /\ effects' = Append(effects, <<r, q.next>>)
          /\ item.proc \in P
      BY ONLY <2>1, <1>0 DEF Effective, Known
    <3>2. effects' \in Seq(Req \X Nat)
      <4>1. <<r, q.next>> \in Req \X Nat
        BY <1>1
      <4> QED
        BY ONLY <1>1, <3>1, <4>1, AppendProperties
    <3>3. /\ EffectsOf(r)' = Append(EffectsOf(r), q.next)
          /\ \A x \in Req \ {r} : EffectsOf(x)' = EffectsOf(x)
      BY <1>1, <3>1, EffectEntered
    <3>4. count' \in [P -> Nat] /\ count[item.proc] < count'[item.proc]
          /\ \A x \in P : count[x] <= count'[x]
      <4> HIDE DEF P, item
      <4> QED
        BY ONLY <1>1, <3>1, OneMore
    <3> QED
      BY ONLY <2>1, <3>2, <3>3, <3>4
  <2>2. CASE ~Effective(item)
    <3>1. count' = count /\ effects' = effects
      BY <2>2, <1>0
    <3>2. \A x \in P : count[x] <= count[x]
      <4>1. \A x \in P : count[x] \in Nat
        BY <1>1
      <4> QED
        BY <4>1
    <3>3. \A x : EffectsOf(x)' = EffectsOf(x)
      BY <3>1 DEF EffectsOf
    <3> HIDE DEF P, item
    <3> QED
      BY ONLY <2>2, <3>1, <3>2, <3>3, <1>1
  <2> QED
    BY <2>1, <2>2
<1>3. RequestInv(w, EffectsOf(r)', count')
  BY ONLY <1>1, <1>2, <1>5, ItemEnds, w \in RequestRecord, w.pc = "calling"
<1> QED
  BY <1>2, <1>3, <1>4, RequestMoves

(* The record of a request that moves past an item. *)
Advanced(q, s, m) ==
  [q EXCEPT !.pc = "calling", !.next = @ + 1, !.results = @ \o s, !.mocked = m]

(* It has its type, and everything else of the request is as it was. *)
LEMMA AdvancedRecord ==
  ASSUME NEW q \in RequestRecord, NEW s \in Seq(Outcomes), NEW m \in Mocks
  PROVE  LET w == Advanced(q, s, m)
         IN
         /\ w \in RequestRecord
         /\ w.pc = "calling" /\ w.body = q.body /\ w.batch = q.batch /\ w.entries = q.entries
         /\ w.seen = q.seen /\ w.next = q.next + 1 /\ w.results = q.results \o s
<1>1. q.results \o s \in Seq(Outcomes)
  <2>1. q.results \in Seq(Outcomes)
    BY DEF RequestRecord
  <2> QED
    BY <2>1, ConcatProperties
<1>2. q.next + 1 \in Nat \ {0}
  BY DEF RequestRecord
<1> DEFINE w == Advanced(q, s, m)
           x == q.results \o s
           n == q.next + 1
<1>3. w = [q EXCEPT !.pc = "calling", !.next = n, !.results = x, !.mocked = m]
  BY DEF Advanced
<1> HIDE DEF x, n, w
<1>4. w \in RequestRecord
  BY <1>1, <1>2, <1>3 DEF RequestRecord, x, n
<1>5. /\ w.pc = "calling" /\ w.body = q.body /\ w.batch = q.batch /\ w.entries = q.entries
      /\ w.seen = q.seen /\ w.next = n /\ w.results = x
  BY <1>3 DEF RequestRecord
<1> QED
  BY <1>4, <1>5 DEF x, n, w

(* Advance, for a result or none, and with the status of an example or as  *)
(* it was.                                                                 *)
LEMMA AdvanceIs ==
  ASSUME RpcTyped, NEW r \in Req, NEW s
  PROVE  Advance(r, s) = [rpc EXCEPT ![r] = Advanced(rpc[r], s, rpc[r].mocked)]
<1> DEFINE a == [rpc[r] EXCEPT !.pc = "calling", !.next = @ + 1, !.results = @ \o s]
           b == Advanced(rpc[r], s, rpc[r].mocked)
<1>1. rpc[r] \in RequestRecord
  BY DEF RpcTyped
<1>2. a = b
  BY <1>1 DEF RequestRecord, Advanced
<1>3. Advance(r, s) = [rpc EXCEPT ![r] = a]
  BY DEF Advance, RpcTyped
<1> QED
  BY <1>2, <1>3

(* The entry that a request is at is that of its item. *)
LEMMA EntryAt ==
  ASSUME RpcInv, NEW r \in Req, rpc[r].pc \in {"calling", "running"},
         rpc[r].next <= Len(rpc[r].entries)
  PROVE  /\ rpc[r] \in RequestRecord /\ rpc[r].next \in Nat
         /\ Entry(r) = parseSingle(ItemOf(rpc[r]), rpc[r].next)
         /\ ItemOf(rpc[r]).shape \in Shape /\ ItemOf(rpc[r]).id \in {"given", "null", "absent"}
<1>1. rpc[r] \in RequestRecord /\ BodyIsRead(rpc[r])
  BY DEF RpcInv, RpcTyped, RequestInv
<1>2. /\ rpc[r].body \in Body /\ rpc[r].next \in DOMAIN rpc[r].body.items
      /\ rpc[r].entries[rpc[r].next] = parseSingle(ItemOf(rpc[r]), rpc[r].next)
      /\ rpc[r].next \in Nat
  BY <1>1, ItemAt
<1>3. /\ ItemOf(rpc[r]).shape \in Shape /\ ItemOf(rpc[r]).id \in {"given", "null", "absent"}
  BY <1>2, ItemsOfBody DEF ItemOf
<1> QED
  BY <1>1, <1>2, <1>3 DEF Entry

(* A malformed element of a batch is answered. *)
LEMMA EntryErrorKeeps == ASSUME RpcInv, NEW r \in Req, EntryError(r)  PROVE RpcInv'
<1> DEFINE q == rpc[r]
           item == ItemOf(q)
           w == Advanced(q, <<Entry(r)>>, q.mocked)
<1>1. /\ q.pc = "calling" /\ q.next <= Len(q.entries) /\ Entry(r).kind = "error"
      /\ rpc' = Advance(r, <<Entry(r)>>) /\ count' = count /\ effects' = effects
  BY DEF EntryError, HasNext
<1>2. /\ q \in RequestRecord /\ q.next \in Nat /\ Entry(r) = parseSingle(item, q.next)
      /\ item.shape \in Shape /\ item.id \in {"given", "null", "absent"}
  BY <1>1, EntryAt
<1>3. RpcTyped
  BY DEF RpcInv
<1>4. rpc' = [rpc EXCEPT ![r] = w]
  BY <1>1, <1>3, AdvanceIs
<1> HIDE DEF item
<1>5. item.shape # "call" /\ Entry(r) \in Outcomes
  BY <1>1, <1>2, EntryOfItem
<1>6. Owes(item) /\ ~Known(item) /\ ~Effective(item) /\ Outcome(item, q.next) = Entry(r)
  BY <1>1, <1>2, <1>5 DEF Owes, Known, Effective, Outcome
<1>7. q.mocked \in Mocks /\ <<Entry(r)>> \in Seq(Outcomes)
  BY <1>2, <1>5 DEF RequestRecord
<1>8. /\ w \in RequestRecord
      /\ w.pc = "calling" /\ w.body = q.body /\ w.batch = q.batch /\ w.entries = q.entries
      /\ w.seen = q.seen /\ w.next = q.next + 1 /\ w.results = q.results \o <<Entry(r)>>
  BY <1>2, <1>7, AdvancedRecord
<1>9. w.results = q.results \o (IF Owes(item) THEN <<Outcome(item, q.next)>> ELSE <<>>)
  BY <1>6, <1>8
<1> HIDE DEF w
<1> QED
  BY <1>1, <1>4, <1>6, <1>8, <1>9, ItemAdvances DEF item

(* A call of a procedure that the document does not have. *)
LEMMA UnknownCallKeeps == ASSUME RpcInv, NEW r \in Req, UnknownCall(r)  PROVE RpcInv'
<1> DEFINE q == rpc[r]
           item == ItemOf(q)
           s == Answered(Entry(r), ErrorResponse(NotFound, Entry(r).id))
           w == Advanced(q, s, q.mocked)
<1>1. /\ q.pc = "calling" /\ q.next <= Len(q.entries)
      /\ Entry(r).kind = "call" /\ Entry(r).proc \notin DOMAIN Procedure
      /\ rpc' = Advance(r, s) /\ count' = count /\ effects' = effects
  BY DEF UnknownCall, HasNext
<1>2. /\ q \in RequestRecord /\ q.next \in Nat /\ Entry(r) = parseSingle(item, q.next)
      /\ item.shape \in Shape /\ item.id \in {"given", "null", "absent"}
  BY <1>1, EntryAt
<1>3. RpcTyped
  BY DEF RpcInv
<1>4. rpc' = [rpc EXCEPT ![r] = w]
  BY <1>1, <1>3, AdvanceIs
<1> HIDE DEF item
<1>5. item.shape = "call" /\ Entry(r).proc = item.proc /\ Entry(r).id = q.next
  BY <1>1, <1>2, EntryOfItem
<1>6. ~Known(item) /\ ~Effective(item) /\ Outcome(item, q.next) = ErrorResponse(NotFound, q.next)
  BY <1>1, <1>2, <1>5, AnswerOfCall DEF Known, Effective
<1>7. s = IF Owes(item) THEN <<Outcome(item, q.next)>> ELSE <<>>
  BY <1>2, <1>5, <1>6, AnswerOfCall
<1>8. q.mocked \in Mocks /\ s \in Seq(Outcomes)
  <2>1. Outcome(item, q.next) \in Outcomes
    BY <1>2, OutcomeOfItem
  <2> QED
    BY <2>1, <1>2, <1>7 DEF RequestRecord
<1> HIDE DEF s
<1>9. /\ w \in RequestRecord
      /\ w.pc = "calling" /\ w.body = q.body /\ w.batch = q.batch /\ w.entries = q.entries
      /\ w.seen = q.seen /\ w.next = q.next + 1 /\ w.results = q.results \o s
  BY <1>2, <1>8, AdvancedRecord
<1>10. w.results = q.results \o (IF Owes(item) THEN <<Outcome(item, q.next)>> ELSE <<>>)
  BY <1>7, <1>9
<1> HIDE DEF w
<1> QED
  BY <1>1, <1>4, <1>6, <1>9, <1>10, ItemAdvances DEF item

(* A call of a known procedure ends. *)
LEMMA CallEndKeeps == ASSUME RpcInv, NEW r \in Req, CallEnd(r)  PROVE RpcInv'
<1> DEFINE q == rpc[r]
           item == ItemOf(q)
           made == Entry(r)
           s == Answered(made, Result(made))
           m == IF made.hasID /\ ~Fails(made.proc) THEN Procedure[made.proc].status ELSE q.mocked
           w == Advanced(q, s, m)
<1>0. /\ q.pc = "running" /\ q.next <= Len(q.entries) /\ Known(item) /\ q \in RequestRecord
      /\ RpcTyped
  BY DEF CallEnd, RpcInv, RequestInv, BodyIsRead, RpcTyped
<1>2. /\ q.next \in Nat /\ made = parseSingle(item, q.next)
      /\ item.shape = "call" /\ item.id \in {"given", "null", "absent"}
  BY <1>0, EntryAt DEF Known
<1>4. rpc' = [rpc EXCEPT ![r] = w]
  <2>1. rpc' = [Advance(r, s) EXCEPT ![r].mocked =
                  IF made.hasID /\ ~Fails(made.proc) THEN Procedure[made.proc].status ELSE @]
    BY DEF CallEnd
  <2>2. Advance(r, s) = [rpc EXCEPT ![r] = Advanced(q, s, q.mocked)]
    BY <1>0, AdvanceIs
  <2> DEFINE u == Advanced(q, s, q.mocked)
  <2>3. u.mocked = q.mocked /\ [u EXCEPT !.mocked = m] = w
    <3> HIDE DEF s, m, made
    <3> QED
      BY <1>0 DEF RequestRecord, Advanced
  <2>4. rpc' = [[rpc EXCEPT ![r] = u] EXCEPT ![r].mocked =
                  IF made.hasID /\ ~Fails(made.proc) THEN Procedure[made.proc].status ELSE @]
    BY <2>1, <2>2
  <2>5. r \in DOMAIN rpc
    BY <1>0 DEF RpcTyped
  <2>6. rpc' = [rpc EXCEPT ![r] = [u EXCEPT !.mocked =
                  IF made.hasID /\ ~Fails(made.proc) THEN Procedure[made.proc].status
                  ELSE u.mocked]]
    <3> HIDE DEF u, s, m, made
    <3> QED
      BY <2>4, <2>5
  <2>7. (IF made.hasID /\ ~Fails(made.proc) THEN Procedure[made.proc].status ELSE u.mocked) = m
    BY <2>3
  <2> HIDE DEF u, s, m, made, w
  <2> QED
    BY <2>3, <2>6, <2>7
<1>1. IF Procedure[made.proc].fate # "none"
      THEN /\ count' = [count EXCEPT ![made.proc] = @ + 1]
           /\ effects' = Append(effects, <<r, q.next>>)
      ELSE count' = count /\ effects' = effects
  BY DEF CallEnd, TakesEffect
<1> HIDE DEF item, made
<1>5. made.proc = item.proc /\ item.proc \in DOMAIN Procedure /\ item.shape \in Shape
  BY <1>0, <1>2, EntryOfItem DEF Known, Shape
<1>6. Outcome(item, q.next) = Result(made)
  BY <1>2, <1>5, AnswerOfCall
<1>7. s = IF Owes(item) THEN <<Outcome(item, q.next)>> ELSE <<>>
  BY <1>2, <1>6, AnswerOfCall
<1>8. m \in Mocks /\ s \in Seq(Outcomes)
  <2>1. Outcome(item, q.next) \in Outcomes
    BY <1>2, <1>5, OutcomeOfItem
  <2> QED
    BY <2>1, <1>0, <1>5, <1>7 DEF RequestRecord, Mocks
<1> HIDE DEF s, m
<1>9. /\ w \in RequestRecord
      /\ w.pc = "calling" /\ w.body = q.body /\ w.batch = q.batch /\ w.entries = q.entries
      /\ w.seen = q.seen /\ w.next = q.next + 1 /\ w.results = q.results \o s
  BY <1>0, <1>8, AdvancedRecord
<1>10. w.results = q.results \o (IF Owes(item) THEN <<Outcome(item, q.next)>> ELSE <<>>)
  BY <1>7, <1>9
<1>11. Effective(item) <=> Procedure[made.proc].fate # "none"
  BY <1>0, <1>5 DEF Effective
<1>12. IF Effective(item)
       THEN count' = [count EXCEPT ![item.proc] = @ + 1] /\ effects' = Append(effects, <<r, q.next>>)
       ELSE count' = count /\ effects' = effects
  BY <1>1, <1>5, <1>11
<1> HIDE DEF w
<1> QED
  BY <1>0, <1>4, <1>9, <1>10, <1>12, ItemAdvances DEF item

(* A call of a known procedure begins. *)
LEMMA CallBeginKeeps == ASSUME RpcInv, NEW r \in Req, CallBegin(r)  PROVE RpcInv'
<1> DEFINE q == rpc[r]
           w == [q EXCEPT !.pc = "running", !.seen = Append(@, count)]
<1>1. /\ q.pc = "calling" /\ q.next <= Len(q.entries)
      /\ Entry(r).kind = "call" /\ Entry(r).proc \in DOMAIN Procedure
      /\ rpc' = [rpc EXCEPT ![r].pc = "running", ![r].seen = Append(@, count)]
      /\ count' = count /\ effects' = effects
  BY DEF CallBegin, HasNext, SeenBy
<1>2. /\ q \in RequestRecord /\ q.next \in Nat /\ Entry(r) = parseSingle(ItemOf(q), q.next)
      /\ ItemOf(q).shape \in Shape /\ ItemOf(q).id \in {"given", "null", "absent"}
  BY <1>1, EntryAt
<1>3. RpcTyped /\ RequestInv(q, EffectsOf(r), count) /\ r \in DOMAIN rpc
      /\ count \in [DOMAIN Procedure -> Nat]
  BY DEF RpcInv, RpcTyped
<1>4. rpc' = [rpc EXCEPT ![r] = w]
  BY <1>1, <1>3
<1>5. Known(ItemOf(q))
  BY <1>1, <1>2, EntryOfItem DEF Known
<1>6. Append(q.seen, count) \in Seq([DOMAIN Procedure -> Nat])
  <2>1. q.seen \in Seq([DOMAIN Procedure -> Nat])
    BY <1>2 DEF RequestRecord
  <2> HIDE DEF q
  <2> QED
    BY <2>1, <1>3, AppendProperties
<1>7. w \in RequestRecord
  BY <1>2, <1>6 DEF RequestRecord
<1>8. /\ w.pc = "running" /\ w.body = q.body /\ w.batch = q.batch /\ w.entries = q.entries
      /\ w.seen = Append(q.seen, count) /\ w.next = q.next /\ w.results = q.results
  BY <1>2 DEF RequestRecord
<1>9. rpc' \in [Req -> RequestRecord] /\ rpc'[r] = w /\ \A x \in Req \ {r} : rpc'[x] = rpc[x]
  <2> HIDE DEF w
  <2> QED
    BY <1>3, <1>4, <1>7 DEF RpcTyped
<1> HIDE DEF q, w
<1>10. RequestInv(w, EffectsOf(r), count)
  BY <1>1, <1>2, <1>3, <1>5, <1>7, <1>8, CallBegins
<1>11. /\ \A x \in Req : EffectsOf(x)' = EffectsOf(x)
       /\ \A p \in DOMAIN Procedure : count[p] <= count'[p]
       /\ effects' \in Seq(Req \X Nat)
  BY <1>1, <1>3 DEF EffectsOf, RpcTyped
<1> QED
  BY <1>1, <1>3, <1>9, <1>10, <1>11, RequestMoves

(* A request is answered. *)
LEMMA AnswerKeeps == ASSUME RpcInv, NEW r \in Req, Answer(r)  PROVE RpcInv'
<1> DEFINE q == rpc[r]
           a == IF q.results = <<>> THEN Reply(204, <<>>, 0)
                ELSE IF q.batch THEN Reply(200, Marshalled(q.results), 0)
                ELSE Reply(200, Marshalled(<<q.results[1]>>), IF q.mocked = 200 THEN 0 ELSE q.mocked)
           w == [q EXCEPT !.pc = "answered", !.answer = a]
<1>1. /\ q.pc = "calling" /\ q.next > Len(q.entries)
      /\ rpc' = [rpc EXCEPT ![r].pc = "answered", ![r].answer = a]
      /\ count' = count /\ effects' = effects
  BY DEF Answer
<1>3. RpcTyped /\ RequestInv(q, EffectsOf(r), count) /\ r \in DOMAIN rpc
      /\ count \in [DOMAIN Procedure -> Nat] /\ q \in RequestRecord
  BY DEF RpcInv, RpcTyped
<1>4. rpc' = [rpc EXCEPT ![r] = w]
  <2> HIDE DEF a
  <2> QED
    BY <1>1, <1>3
<1>5. a \in Replies
  <2>1. q.results \in Seq(Outcomes) /\ q.mocked \in Mocks
    BY <1>3 DEF RequestRecord
  <2>2. \A t \in Seq(Outcomes) : Marshalled(t) \in Seq(Outcomes)
    BY DEF Marshalled
  <2>3. q.results # <<>> => <<q.results[1]>> \in Seq(Outcomes)
    <3>1. q.results # <<>> => q.results[1] \in Outcomes
      <4> HIDE DEF q
      <4> QED
        BY <2>1, EmptySeq, ElementOfSeq, LenProperties
    <3> QED
      BY <3>1
  <2>4. \A t \in Seq(Outcomes), m \in Mocks : m # 200 => Reply(200, t, m) \in Replies
    BY DEF Reply, Replies
  <2>5. Reply(204, <<>>, 0) \in Replies
    BY DEF Reply, Replies, Mocks
  <2>6. 0 \in Mocks /\ (IF q.mocked = 200 THEN 0 ELSE q.mocked) \in Mocks \ {200}
    BY <2>1 DEF Mocks
  <2> HIDE DEF q
  <2>7. CASE q.results = <<>>
    BY <2>5, <2>7
  <2>8. CASE q.results # <<>> /\ q.batch
    BY <2>1, <2>2, <2>4, <2>6, <2>8
  <2>9. CASE q.results # <<>> /\ ~q.batch
    <3> DEFINE t == Marshalled(<<q.results[1]>>)
               m == IF q.mocked = 200 THEN 0 ELSE q.mocked
    <3>1. t \in Seq(Outcomes)
      BY <2>2, <2>3, <2>9
    <3>2. m \in Mocks /\ m # 200
      BY <2>6
    <3>3. a = Reply(200, t, m)
      BY <2>9
    <3> HIDE DEF t, m, a
    <3> QED
      BY <2>4, <3>1, <3>2, <3>3
  <2> QED
    BY <2>7, <2>8, <2>9
<1>6. a # <<>>
  BY DEF Reply
<1>7. q.batch => a = IF q.results = <<>> THEN Reply(204, <<>>, 0)
                     ELSE Reply(200, Marshalled(q.results), 0)
  OBVIOUS
<1> HIDE DEF a
<1>8. w \in RequestRecord
  BY <1>3, <1>5 DEF RequestRecord
<1>9. /\ w.pc = "answered" /\ w.body = q.body /\ w.batch = q.batch /\ w.entries = q.entries
      /\ w.seen = q.seen /\ w.next = q.next /\ w.results = q.results /\ w.answer = a
  BY <1>3 DEF RequestRecord
<1>10. rpc' \in [Req -> RequestRecord] /\ rpc'[r] = w /\ \A x \in Req \ {r} : rpc'[x] = rpc[x]
  <2> HIDE DEF w
  <2> QED
    BY <1>3, <1>4, <1>8 DEF RpcTyped
<1> HIDE DEF q, w
<1>11. RequestInv(w, EffectsOf(r), count)
  BY <1>1, <1>3, <1>6, <1>7, <1>8, <1>9, AnswerEnds
<1>12. /\ \A x \in Req : EffectsOf(x)' = EffectsOf(x)
       /\ \A p \in DOMAIN Procedure : count[p] <= count'[p]
       /\ effects' \in Seq(Req \X Nat)
  BY <1>1, <1>3 DEF EffectsOf, RpcTyped
<1> QED
  BY <1>1, <1>3, <1>10, <1>11, <1>12, RequestMoves

(* Every step of the gateway. *)
LEMMA RpcStep == RpcInv /\ [RpcNext]_rpcVars => RpcInv'
<1> SUFFICES ASSUME RpcInv, [RpcNext]_rpcVars PROVE RpcInv'
  OBVIOUS
<1>1. ASSUME NEW r \in Req, Serve(r) PROVE RpcInv'
  BY <1>1, EntryErrorKeeps, UnknownCallKeeps, CallBeginKeeps, CallEndKeeps, AnswerKeeps DEF Serve
<1>2. ASSUME NEW r \in Req, NEW body \in Body, Post(r, body) PROVE RpcInv'
  BY <1>2, PostKeeps
<1>3. CASE UNCHANGED rpcVars
  <2>1. \A r : EffectsOf(r)' = EffectsOf(r)
    BY <1>3 DEF rpcVars, EffectsOf
  <2> QED
    BY <1>3, <2>1 DEF rpcVars, RpcInv, RpcTyped
<1> QED
  BY <1>1, <1>2, <1>3 DEF RpcNext

(* The inductive invariant of the gateway. *)
LEMMA RpcInvariant == RpcSpec => []RpcInv
<1>1. RpcInv /\ [RpcNext]_rpcVars => RpcInv'
  BY RpcStep
<1> QED
  BY RpcBegins, <1>1, PTL DEF RpcSpec

(* The records of the requests keep their types: a request is never past   *)
(* the end of its entries, and the status of an answer is 200 or 204,      *)
(* whatever status the example has.                                        *)
THEOREM RpcTypes == RpcSpec => []RpcTypeOK
<1>1. RpcInv => RpcTypeOK
  <2> SUFFICES ASSUME RpcInv PROVE RpcTypeOK
    OBVIOUS
  <2>1. ASSUME NEW r \in Req
        PROVE  /\ rpc[r].pc \in {"idle", "calling", "running", "answered"}
               /\ rpc[r].next \in 1 .. Len(rpc[r].entries) + 1
               /\ rpc[r].pc = "answered" =>
                    /\ rpc[r].answer.status \in {200, 204}
                    /\ rpc[r].answer.mocked # 200
    <3> DEFINE q == rpc[r]
    <3>1. q \in RequestRecord /\ BodyIsRead(q) /\ AnswerIsFinal(q)
      BY DEF RpcInv, RpcTyped, RequestInv
    <3> HIDE DEF q
    <3>2. q.pc \in {"idle", "calling", "running", "answered"} /\ q.next \in Nat \ {0}
          /\ q.answer \in Replies \cup {<<>>}
      BY <3>1 DEF RequestRecord
    <3>3. Len(q.entries) \in Nat
      <4>1. CASE q.entries = <<>>
        BY <4>1
      <4>2. CASE q.entries # <<>>
        BY <4>2, <3>1, ItemsOfBody DEF BodyIsRead
      <4> QED
        BY <4>1, <4>2
    <3>4. q.next <= Len(q.entries) + 1
      BY <3>1 DEF BodyIsRead
    <3>5. q.pc = "answered" => q.answer \in Replies
      BY <3>1, <3>2 DEF AnswerIsFinal
    <3>6. q.pc = "answered" => q.answer.status \in {200, 204} /\ q.answer.mocked # 200
      BY <3>5 DEF Replies
    <3>7. q.next \in 1 .. Len(q.entries) + 1
      BY <3>2, <3>3, <3>4
    <3> QED
      BY <3>2, <3>6, <3>7 DEF q
  <2>2. \A p \in DOMAIN Procedure : count[p] \in Nat
    BY DEF RpcInv, RpcTyped
  <2> QED
    BY <2>1, <2>2 DEF RpcTypeOK
<1> QED
  BY RpcInvariant, <1>1, PTL

(* A request that is answered without a fatal error has dealt with every   *)
(* item of its body.                                                       *)
LEMMA AllItemsPast ==
  ASSUME RpcInv, NEW r \in Req, rpc[r].pc = "answered", rpc[r].entries # <<>>
  PROVE  /\ rpc[r].body \in Body /\ Len(Items(r)) \in Nat /\ DOMAIN Items(r) = 1 .. Len(Items(r))
         /\ \A S : Past(rpc[r], S) = Keep(Upto(Len(Items(r))), S)
<1>1. BodyIsRead(rpc[r])
  BY DEF RpcInv, RequestInv
<1>2. /\ rpc[r].body \in Body /\ rpc[r].entries = ItemEntries(rpc[r].body)
      /\ rpc[r].next = Len(rpc[r].entries) + 1
  BY <1>1 DEF BodyIsRead
<1>3. /\ Len(Items(r)) \in Nat /\ DOMAIN Items(r) = 1 .. Len(Items(r))
      /\ Len(rpc[r].entries) = Len(Items(r))
  BY <1>2, ItemsOfBody DEF Items
<1>4. rpc[r].next - 1 = Len(Items(r))
  BY <1>2, <1>3
<1> QED
  BY <1>2, <1>3, <1>4 DEF Past

(* Exactly the calls that have an example take effect, each once and in    *)
(* the order of the body, whatever the other requests do meanwhile.        *)
THEOREM EveryCallTakesEffect == RpcSpec => []CallsTakeEffect
<1>1. RpcInv => CallsTakeEffect
  <2> SUFFICES ASSUME RpcInv, NEW r \in Req, rpc[r].pc = "answered", rpc[r].entries # <<>>
               PROVE  EffectsOf(r) = PlacesOf(r, [i \in DOMAIN Items(r) |-> Effective(Items(r)[i])])
    BY DEF CallsTakeEffect
  <2>1. EffectsOf(r) = Past(rpc[r], ItemsEffective(rpc[r].body))
    BY DEF RpcInv, RequestInv
  <2>2. {i \in DOMAIN Items(r) : [k \in DOMAIN Items(r) |-> Effective(Items(r)[k])][i]}
          = ItemsEffective(rpc[r].body)
    BY DEF ItemsEffective, Items
  <2> QED
    BY <2>1, <2>2, AllItemsPast DEF PlacesOf
<1> QED
  BY RpcInvariant, <1>1, PTL

(* A call of a batch sees what every earlier call of the batch that takes  *)
(* effect has left, however the calls of other requests interfere.         *)
THEOREM BatchSeesWhatItDid == RpcSpec => []BatchSeesItself
<1>1. RpcInv => BatchSeesItself
  <2> SUFFICES ASSUME RpcInv, NEW r \in Req, NEW j \in DOMAIN rpc[r].seen, NEW k \in 1 .. j - 1
               PROVE  LET calls == PlacesOf(r, [i \in DOMAIN Items(r) |-> Known(Items(r)[i])])
                          item  == Items(r)[calls[k]]
                      IN  Effective(item) => rpc[r].seen[j][item.proc] > rpc[r].seen[k][item.proc]
    BY DEF BatchSeesItself
  <2>1. {i \in DOMAIN Items(r) : [n \in DOMAIN Items(r) |-> Known(Items(r)[n])][i]}
          = ItemsKnown(rpc[r].body)
    BY DEF ItemsKnown, Items
  <2>2. Items(r)[PlacesOf(r, [i \in DOMAIN Items(r) |-> Known(Items(r)[i])])[k]]
          = Called(rpc[r].body, k)
    BY <2>1 DEF PlacesOf, Called, CallsOf, Items
  <2>3. SeenInOrder(rpc[r], count)
    BY DEF RpcInv, RequestInv
  <2>4. Effective(Called(rpc[r].body, k)) =>
          rpc[r].seen[j][Called(rpc[r].body, k).proc] > rpc[r].seen[k][Called(rpc[r].body, k).proc]
    BY <2>3 DEF SeenInOrder
  <2> QED
    BY <2>2, <2>4
<1> QED
  BY RpcInvariant, <1>1, PTL

(* A batch is answered with one entry for every item that is owed one,     *)
(* with its error or result, its id and in its place, unless an example    *)
(* has no value; and with 204 exactly if none is owed.                     *)
THEOREM BatchIsAnswered == RpcSpec => []BatchAnswered
<1>1. RpcInv => BatchAnswered
  <2> SUFFICES ASSUME RpcInv, NEW r \in Req, AnsweredBatch(r)
               PROVE  /\ ~Bodiless(r) => Given(r) = Expected(r)
                      /\ rpc[r].answer.status = IF Expected(r) = <<>> THEN 204 ELSE 200
    BY DEF BatchAnswered
  <2> DEFINE q == rpc[r]
             o == Owing(r)
             items == Items(r)
  <2>1. q \in RequestRecord /\ q.pc = "answered" /\ q.batch /\ BodyIsRead(q) /\ AnswerIsFinal(q)
        /\ ResultsOfPast(q)
    BY DEF AnsweredBatch, RpcInv, RpcTyped, RequestInv
  <2>2. q.entries # <<>>
    BY <2>1 DEF BodyIsRead
  <2>3. /\ q.body \in Body /\ Len(items) \in Nat /\ DOMAIN items = 1 .. Len(items)
        /\ \A S : Past(q, S) = Keep(Upto(Len(items)), S)
    BY <2>1, <2>2, AllItemsPast
  <2>4. o = Keep(Upto(Len(items)), ItemsOwing(q.body))
    <3>1. {i \in DOMAIN Items(r) : [k \in DOMAIN Items(r) |-> Owes(Items(r)[k])][i]}
            = ItemsOwing(q.body)
      BY DEF ItemsOwing, Items
    <3> QED
      BY <3>1 DEF Owing, PlacesOf
  <2>5. o \in Seq(Nat) /\ Range(o) = (1 .. Len(items)) \cap ItemsOwing(q.body)
    BY <2>3, <2>4, PlacesNext
  <2>6. q.results = [k \in DOMAIN o |-> ItemOutcomes(q.body)[o[k]]]
    BY <2>1, <2>3, <2>4 DEF ResultsOfPast, Along
  <2>7. \A k \in DOMAIN o : /\ o[k] \in DOMAIN items /\ Owes(items[o[k]])
                            /\ items[o[k]].shape \in Shape
                            /\ items[o[k]].id \in {"given", "null", "absent"}
                            /\ q.results[k] = Outcome(items[o[k]], o[k])
    <3> TAKE k \in DOMAIN o
    <3>1. o[k] \in (1 .. Len(items)) \cap ItemsOwing(q.body)
      BY <2>5 DEF Range
    <3>2. o[k] \in DOMAIN items /\ Owes(items[o[k]])
      BY <3>1, <2>3 DEF ItemsOwing, Items
    <3>3. items[o[k]].shape \in Shape /\ items[o[k]].id \in {"given", "null", "absent"}
      BY <2>3, <3>2, ItemsOfBody DEF Items
    <3>4. q.results[k] = Outcome(items[o[k]], o[k])
      BY <2>6, <3>2 DEF ItemOutcomes, Items
    <3> QED
      BY <3>2, <3>3, <3>4
  <2>8. Expected(r) = [k \in DOMAIN o |-> Owed(items[o[k]], o[k])]
    BY DEF Expected
  <2>9. q.results \in Seq(Outcomes) /\ DOMAIN q.results = DOMAIN o
    BY <2>1, <2>6 DEF RequestRecord
  <2>10. q.answer = IF q.results = <<>> THEN Reply(204, <<>>, 0)
                    ELSE Reply(200, Marshalled(q.results), 0)
    BY <2>1 DEF AnswerIsFinal
  <2>11. Expected(r) = <<>> <=> q.results = <<>>
    <3>1. Expected(r) = <<>> <=> DOMAIN o = {}
      <4>1. Expected(r) = <<>> => DOMAIN o = {}
        BY <2>8
      <4>2. DOMAIN o = {} => Expected(r) = <<>>
        <5> HIDE DEF items
        <5> QED
          BY <2>8
      <4> QED
        BY <4>1, <4>2
    <3>2. q.results = <<>> <=> DOMAIN q.results = {}
      <4> HIDE DEF q
      <4> QED
        BY <2>9
    <3> QED
      BY <3>1, <3>2, <2>9
  <2>12. q.answer.status = IF Expected(r) = <<>> THEN 204 ELSE 200
    BY <2>10, <2>11 DEF Reply
  <2>13. ASSUME ~Bodiless(r) PROVE Given(r) = Expected(r)
    <3>1. \A k \in DOMAIN q.results : q.results[k].kind # "empty"
      <4> SUFFICES ASSUME NEW k \in DOMAIN o, q.results[k].kind = "empty" PROVE FALSE
        BY <2>9
      <4>1. LET item == items[o[k]]
            IN  /\ item.shape = "call" /\ item.id = "given"
                /\ item.proc \in DOMAIN Procedure /\ Procedure[item.proc].fate = "bodiless"
        <5>1. o[k] \in Nat
          BY <2>3, <2>7
        <5> QED
          BY <5>1, <2>7, OutcomeOfItem
      <4> QED
        BY <4>1, <2>7, <2>13 DEF Bodiless
    <3>2. Marshalled(q.results) = q.results
      BY <3>1 DEF Marshalled
    <3>3. q.answer.content = q.results
      BY <2>10, <3>2 DEF Reply
    <3>4. Given(r) = [i \in DOMAIN o |->
                        [code |-> IF q.results[i].kind = "error" THEN q.results[i].code ELSE 0,
                         id |-> q.results[i].id]]
      BY <3>3, <2>9 DEF Given
    <3>5. \A k \in DOMAIN o :
            [code |-> IF q.results[k].kind = "error" THEN q.results[k].code ELSE 0,
             id |-> q.results[k].id] = Owed(items[o[k]], o[k])
      <4> TAKE k \in DOMAIN o
      <4> DEFINE item == items[o[k]]
                 x == q.results[k]
      <4>1. o[k] \in Nat /\ item.shape \in Shape /\ item.id \in {"given", "null", "absent"}
            /\ Owes(item) /\ x = Outcome(item, o[k])
        BY <2>3, <2>7
      <4>2. /\ x.id = Owed(item, o[k]).id
            /\ Owed(item, o[k]).code = IF x.kind = "error" THEN x.code ELSE 0
        BY <4>1, OutcomeOfItem
      <4>3. Owed(item, o[k]) = [code |-> Owed(item, o[k]).code, id |-> Owed(item, o[k]).id]
        <5> HIDE DEF item
        <5> QED
          BY <4>1 DEF Owed, Shape
      <4> HIDE DEF item, x, o
      <4>4. Owed(item, o[k]) = [code |-> IF x.kind = "error" THEN x.code ELSE 0, id |-> x.id]
        BY <4>2, <4>3
      <4> QED
        BY <4>4 DEF item, x
    <3> QED
      BY <3>4, <3>5, <2>8
  <2> QED
    BY <2>12, <2>13
<1> QED
  BY RpcInvariant, <1>1, PTL

-----------------------------------------------------------------------------
(* A text, a sign and a text.                                              *)
LEMMA Spliced ==
  ASSUME NEW E, NEW u \in Seq(E), NEW v \in Seq(E), NEW e \in E
  PROVE  /\ u \o <<e>> \o v \in Seq(E)
         /\ Len(u \o <<e>> \o v) = Len(u) + 1 + Len(v)
         /\ \A i \in 1 .. Len(u) + 1 + Len(v) :
              (u \o <<e>> \o v)[i] = IF i <= Len(u) THEN u[i]
                                     ELSE IF i = Len(u) + 1 THEN e ELSE v[i - (Len(u) + 1)]
<1> DEFINE w == u \o <<e>>
           m == Len(u)
           n == Len(v)
<1>1. m \in Nat /\ n \in Nat
  BY LenProperties
<1>2. <<e>> \in Seq(E) /\ Len(<<e>>) = 1 /\ <<e>>[1] = e
  OBVIOUS
<1>3. /\ w \in Seq(E) /\ Len(w) = m + 1
      /\ \A i \in 1 .. m + 1 : w[i] = IF i <= m THEN u[i] ELSE <<e>>[i - m]
  BY <1>2, ConcatProperties
<1>4. /\ w \o v \in Seq(E) /\ Len(w \o v) = m + 1 + n
      /\ \A i \in 1 .. m + 1 + n : (w \o v)[i] = IF i <= m + 1 THEN w[i] ELSE v[i - (m + 1)]
  BY <1>3, ConcatProperties
<1> HIDE DEF w, m, n
<1>5. ASSUME NEW i \in 1 .. m + 1 + n
      PROVE  (w \o v)[i] = IF i <= m THEN u[i] ELSE IF i = m + 1 THEN e ELSE v[i - (m + 1)]
  <2>1. CASE i <= m
    BY <1>1, <1>3, <1>4, <2>1
  <2>2. CASE i = m + 1
    <3>1. w[i] = <<e>>[i - m] /\ i - m = 1
      BY <1>1, <1>3, <2>2
    <3> QED
      BY <1>1, <1>2, <1>4, <2>2, <3>1
  <2>3. CASE i > m + 1
    <3>1. ~(i <= m + 1) /\ ~(i <= m) /\ i # m + 1
      BY <1>1, <2>3
    <3>2. (w \o v)[i] = v[i - (m + 1)]
      BY <1>4, <3>1
    <3> QED
      BY <3>1, <3>2
  <2>4. i <= m \/ (i = m + 1 /\ ~(i <= m)) \/ (i > m + 1 /\ ~(i <= m) /\ i # m + 1)
    BY <1>1
  <2> QED
    BY <2>1, <2>2, <2>3, <2>4
<1> QED
  BY <1>4, <1>5 DEF w, m, n

(* Where a text is cut at a sign that its first part does not have.        *)
LEMMA CutAt ==
  ASSUME NEW E, NEW u \in Seq(E), NEW v \in Seq(E), NEW sign \in E,
         ~Has(u, sign)
  PROVE  /\ Has(u \o <<sign>> \o v, sign)
         /\ Before(u \o <<sign>> \o v, sign) = u
         /\ After(u \o <<sign>> \o v, sign) = v
<1> DEFINE t == u \o <<sign>> \o v
           n == Len(u) + 1
<1>1. t \in Seq(E) /\ Len(t) = Len(u) + 1 + Len(v) /\ DOMAIN t = 1 .. Len(t)
      /\ Len(u) \in Nat /\ Len(v) \in Nat /\ n \in Nat
  BY Spliced, LenProperties
<1>2. \A i \in 1 .. Len(t) : t[i] = IF i <= Len(u) THEN u[i] ELSE IF i = n THEN sign ELSE v[i - n]
  BY Spliced
<1>3. \A i \in 1 .. Len(u) : u[i] # sign
  BY LenProperties DEF Has, Places
<1> HIDE DEF t
<1>4. n \in Places(t, sign) /\ \A i \in Places(t, sign) : i \in Nat /\ n <= i
  BY <1>1, <1>2, <1>3 DEF Places
<1>5. Min(Places(t, sign)) = n
  <2>1. \A m \in Places(t, sign) : (\A i \in Places(t, sign) : m <= i) => m = n
    BY <1>1, <1>4
  <2>2. Min(Places(t, sign)) = CHOOSE m \in Places(t, sign) : \A i \in Places(t, sign) : m <= i
    BY DEF Min
  <2> QED
    BY <1>4, <2>1, <2>2
<1>6. SubSeq(t, 1, n - 1) = u
  <2>1. \A i \in 1 .. n - 1 : t[i] \in E
    BY <1>1
  <2>2. /\ SubSeq(t, 1, n - 1) \in Seq(E) /\ Len(SubSeq(t, 1, n - 1)) = Len(u)
        /\ \A i \in 1 .. Len(u) : SubSeq(t, 1, n - 1)[i] = t[i]
    <3>1. /\ SubSeq(t, 1, n - 1) \in Seq(E)
          /\ Len(SubSeq(t, 1, n - 1)) = IF 1 <= n - 1 THEN n - 1 - 1 + 1 ELSE 0
          /\ \A i \in 1 .. n - 1 - 1 + 1 : SubSeq(t, 1, n - 1)[i] = t[1 + i - 1]
      BY <1>1, <2>1, SubSeqProperties
    <3> QED
      BY <1>1, <3>1
  <2> QED
    BY <1>1, <1>2, <2>2, SeqEqual
<1>7. SubSeq(t, n + 1, Len(t)) = v
  <2>1. \A i \in n + 1 .. Len(t) : t[i] \in E
    BY <1>1
  <2>2. /\ SubSeq(t, n + 1, Len(t)) \in Seq(E) /\ Len(SubSeq(t, n + 1, Len(t))) = Len(v)
        /\ \A i \in 1 .. Len(v) : SubSeq(t, n + 1, Len(t))[i] = t[n + i]
    <3>1. /\ SubSeq(t, n + 1, Len(t)) \in Seq(E)
          /\ Len(SubSeq(t, n + 1, Len(t))) = IF n + 1 <= Len(t) THEN Len(t) - (n + 1) + 1 ELSE 0
          /\ \A i \in 1 .. Len(t) - (n + 1) + 1 : SubSeq(t, n + 1, Len(t))[i] = t[n + 1 + i - 1]
      BY <1>1, <2>1, SubSeqProperties
    <3> QED
      BY <1>1, <3>1
  <2> QED
    BY <1>1, <1>2, <2>2, SeqEqual
<1> QED
  BY <1>4, <1>5, <1>6, <1>7 DEF Has, Before, After, t

(* The concatenation of sequences is the last of the partial ones.         *)
LEMMA FlatUnfold ==
  ASSUME NEW E, NEW ss \in Seq(Seq(E)), Len(ss) # 0
  PROVE  \E f : /\ FlatUpTo(ss, f, Len(ss))
                /\ FlattenSeq(ss) = f[Len(ss)]
                /\ \A i \in 1 .. Len(ss) : f[i] \in Seq(E)
<1> DEFINE F == CHOOSE f : FlatUpTo(ss, f, Len(ss))
<1>1. FlatUpTo(ss, F, Len(ss))
  <2>1. \E f : FlatUpTo(ss, f, Len(ss))
    BY FlatExists, LenProperties
  <2> QED
    BY <2>1, Zenon
<1>2. FlattenSeq(ss) = F[Len(ss)]
  BY DEF FlattenSeq, FlatUpTo, FlatStep
<1>3. \A i \in 1 .. Len(ss) : F[i] \in Seq(E)
  <2> DEFINE T == {i \in 1 .. Len(ss) : F[i] \notin Seq(E)}
  <2> SUFFICES ASSUME T # {} PROVE FALSE
    OBVIOUS
  <2>1. T \in SUBSET Nat
    BY LenProperties
  <2>2. PICK i \in T : \A l \in T : i <= l
    <3> HIDE DEF T
    <3> QED
      BY <2>1, LeastNumber
  <2>3. F[i] = FlatStep(ss, F, i) /\ ss[i] \in Seq(E)
    BY <1>1, LenProperties DEF FlatUpTo
  <2>4. i # 1 => F[i - 1] \in Seq(E)
    <3>1. i # 1 => i - 1 \in 1 .. Len(ss) /\ ~(i <= i - 1)
      BY LenProperties
    <3> QED
      BY <2>2, <3>1
  <2>5. i # 1 => F[i - 1] \o ss[i] \in Seq(E)
    BY <2>3, <2>4, ConcatProperties
  <2> QED
    BY <2>2, <2>3, <2>5 DEF FlatStep
<1> QED
  BY <1>1, <1>2, <1>3

LEMMA FlatSeq ==
  ASSUME NEW E, NEW ss \in Seq(Seq(E))
  PROVE  FlattenSeq(ss) \in Seq(E)
<1>1. CASE Len(ss) = 0
  <2>1. FlattenSeq(ss) = ss /\ ss = <<>>
    BY <1>1 DEF FlattenSeq
  <2> QED
    BY <2>1
<1>2. CASE Len(ss) # 0
  BY <1>2, FlatUnfold, LenProperties
<1> QED
  BY <1>1, <1>2

-----------------------------------------------------------------------------
(* Walking through the fields of a value, key by key. *)
NestStep(obj, parts, f, i) == IF i = 0 THEN obj ELSE Field(f[i - 1], parts[i])

NestUpTo(obj, parts, f, m) == f = [i \in 0 .. m |-> NestStep(obj, parts, f, i)]

(* The recursive function in getNested exists, for every length. *)
LEMMA NestExists ==
  ASSUME NEW obj, NEW parts
  PROVE  \A m \in Nat : \E f : NestUpTo(obj, parts, f, m)
<1> DEFINE T == {m \in Nat : ~\E f : NestUpTo(obj, parts, f, m)}
<1>1. SUFFICES ASSUME T # {} PROVE FALSE
  OBVIOUS
<1>2. PICK m \in T : \A k \in T : m <= k
  BY <1>1, LeastNumber
<1>3. CASE m = 0
  <2> DEFINE g == [i \in 0 .. 0 |-> obj]
  <2>1. NestUpTo(obj, parts, g, 0)
    BY DEF NestUpTo, NestStep
  <2> QED BY <2>1, <1>3
<1>4. CASE m # 0
  <2>1. m - 1 \in Nat /\ m - 1 \notin T
    BY <1>2, <1>4
  <2>2. PICK f : NestUpTo(obj, parts, f, m - 1)
    BY <2>1
  <2> DEFINE g == [i \in 0 .. m |-> IF i = m THEN NestStep(obj, parts, f, i) ELSE f[i]]
  <2>3. ASSUME NEW i \in 0 .. m PROVE g[i] = NestStep(obj, parts, g, i)
    <3>1. i # 0 => g[i - 1] = f[i - 1]
      OBVIOUS
    <3>2. NestStep(obj, parts, g, i) = NestStep(obj, parts, f, i)
      BY <3>1 DEF NestStep
    <3>3. i # m => f[i] = NestStep(obj, parts, f, i)
      BY <2>2, <1>4 DEF NestUpTo
    <3> QED BY <3>2, <3>3
  <2>4. NestUpTo(obj, parts, g, m)
    BY <2>3 DEF NestUpTo
  <2> QED BY <2>4
<1> QED BY <1>3, <1>4

(* getNested is the end of any walk. *)
LEMMA NestedIs ==
  ASSUME NEW obj, NEW parts, Len(parts) \in Nat, NEW g,
         \A i \in 0 .. Len(parts) : g[i] = NestStep(obj, parts, g, i)
  PROVE  getNested(obj, parts) = g[Len(parts)]
<1> DEFINE n == Len(parts)
           F == CHOOSE f : NestUpTo(obj, parts, f, n)
           T == {i \in 0 .. n : F[i] # g[i]}
<1>1. NestUpTo(obj, parts, F, n)
  <2>1. \E f : NestUpTo(obj, parts, f, n)
    BY NestExists
  <2> QED
    BY <2>1, Zenon
<1>2. getNested(obj, parts) = F[n]
  BY DEF getNested, NestUpTo, NestStep
<1> HIDE DEF F
<1>3. \A i \in 0 .. n : F[i] = NestStep(obj, parts, F, i)
  BY <1>1 DEF NestUpTo
<1>4. T = {}
  <2> SUFFICES ASSUME T # {} PROVE FALSE
    OBVIOUS
  <2>1. PICK i \in T : \A l \in T : i <= l
    <3>1. T \in SUBSET Nat
      OBVIOUS
    <3> HIDE DEF T
    <3> QED
      BY <3>1, LeastNumber
  <2>2. i # 0 => i - 1 \in 0 .. n /\ i - 1 \notin T
    BY <2>1
  <2>3. i # 0 => F[i - 1] = g[i - 1]
    BY <2>2
  <2> QED
    BY <1>3, <2>1, <2>3 DEF NestStep
<1> QED
  BY <1>2, <1>4

LEMMA NestedWalk ==
  ASSUME NEW obj, NEW parts, Len(parts) \in Nat
  PROVE  \E f : /\ \A i \in 0 .. Len(parts) : f[i] = NestStep(obj, parts, f, i)
                /\ getNested(obj, parts) = f[Len(parts)]
<1>1. PICK f : NestUpTo(obj, parts, f, Len(parts))
  BY NestExists
<1>2. \A i \in 0 .. Len(parts) : f[i] = NestStep(obj, parts, f, i)
  BY <1>1 DEF NestUpTo
<1> QED
  BY <1>2, NestedIs

(* The first key, then the others. *)
LEMMA NestedFirst ==
  ASSUME NEW E, NEW obj, NEW parts \in Seq(E), parts # <<>>
  PROVE  /\ Tail(parts) \in Seq(E) /\ Len(Tail(parts)) = Len(parts) - 1
         /\ getNested(obj, parts) = getNested(Field(obj, parts[1]), Tail(parts))
<1> DEFINE n == Len(parts)
           rest == Tail(parts)
<1>1. /\ n \in Nat /\ n # 0 /\ rest \in Seq(E) /\ Len(rest) = n - 1
      /\ \A i \in 1 .. n - 1 : rest[i] = parts[i + 1]
  BY HeadTailProperties, LenProperties, EmptySeq
<1>2. PICK f : /\ \A i \in 0 .. n : f[i] = NestStep(obj, parts, f, i)
               /\ getNested(obj, parts) = f[n]
  BY <1>1, NestedWalk
<1> DEFINE g == [i \in 0 .. n - 1 |-> f[i + 1]]
<1> HIDE DEF n, rest
<1>3. f[1] = Field(obj, parts[1])
  BY <1>1, <1>2 DEF NestStep
<1>4. ASSUME NEW i \in 0 .. n - 1 PROVE g[i] = NestStep(Field(obj, parts[1]), rest, g, i)
  <2>1. CASE i = 0
    BY <1>3, <2>1 DEF NestStep
  <2>2. CASE i # 0
    <3>1. f[i + 1] = Field(f[i], parts[i + 1])
      BY <1>1, <1>2, <2>2 DEF NestStep
    <3>2. g[i - 1] = f[i] /\ rest[i] = parts[i + 1]
      BY <1>1, <2>2
    <3> QED
      BY <2>2, <3>1, <3>2 DEF NestStep
  <2> QED
    BY <2>1, <2>2
<1>5. g[n - 1] = f[n]
  BY <1>1
<1>6. getNested(Field(obj, parts[1]), rest) = g[n - 1]
  <2> DEFINE first == Field(obj, parts[1])
  <2>1. Len(rest) \in Nat /\ Len(rest) = n - 1
    BY <1>1
  <2> HIDE DEF g, first
  <2>2. \A i \in 0 .. Len(rest) : g[i] = NestStep(first, rest, g, i)
    BY <1>4, <2>1 DEF first
  <2>3. getNested(first, rest) = g[Len(rest)]
    BY <2>1, <2>2, NestedIs
  <2> QED
    BY <2>1, <2>3 DEF first
<1> QED
  BY <1>1, <1>2, <1>5, <1>6 DEF n, rest

LEMMA NestedNone ==
  ASSUME NEW obj, NEW parts, Len(parts) = 0
  PROVE  getNested(obj, parts) = obj
<1>1. PICK f : /\ \A i \in 0 .. Len(parts) : f[i] = NestStep(obj, parts, f, i)
               /\ getNested(obj, parts) = f[Len(parts)]
  BY NestedWalk
<1> QED
  BY <1>1 DEF NestStep

(* There are no fields in what is no object. *)
LEMMA NestedDead ==
  ASSUME NEW E, NEW obj, NEW parts \in Seq(E), parts # <<>>, obj.t # "object"
  PROVE  getNested(obj, parts) = Missing
<1> DEFINE n == Len(parts)
<1>1. n \in Nat /\ n # 0
  BY LenProperties, EmptySeq
<1>2. PICK f : /\ \A i \in 0 .. n : f[i] = NestStep(obj, parts, f, i)
               /\ getNested(obj, parts) = f[n]
  BY <1>1, NestedWalk
<1> HIDE DEF n
<1> DEFINE T == {i \in 1 .. n : f[i] # Missing}
<1>3. T = {}
  <2> SUFFICES ASSUME T # {} PROVE FALSE
    OBVIOUS
  <2>1. PICK i \in T : \A l \in T : i <= l
    <3>1. T \in SUBSET Nat
      OBVIOUS
    <3> HIDE DEF T
    <3> QED
      BY <3>1, LeastNumber
  <2>2. f[i] = Field(f[i - 1], parts[i])
    BY <1>1, <1>2, <2>1 DEF NestStep
  <2>3. f[i - 1].t # "object"
    <3>1. CASE i = 1
      BY <1>1, <1>2, <3>1 DEF NestStep
    <3>2. CASE i # 1
      <4>1. i - 1 \in 1 .. n /\ i - 1 \notin T
        BY <1>1, <2>1, <3>2
      <4>2. f[i - 1] = Missing
        BY <4>1
      <4> QED
        BY <4>2 DEF Missing, Json
    <3> QED
      BY <3>1, <3>2
  <2> QED
    BY <2>1, <2>2, <2>3 DEF Field
<1> QED
  BY <1>1, <1>2, <1>3

(* Where the parts of a concatenation begin: behind those before them.     *)
LEMMA FlatPlaces ==
  ASSUME NEW E, NEW ss \in Seq(Seq(E))
  PROVE  /\ FlattenSeq(ss) \in Seq(E)
         /\ \E at \in [0 .. Len(ss) -> Nat] :
              /\ at[0] = 0 /\ at[Len(ss)] = Len(FlattenSeq(ss))
              /\ \A k \in 1 .. Len(ss) :
                   /\ at[k] = at[k - 1] + Len(ss[k]) /\ at[k] <= at[Len(ss)]
                   /\ \A m \in 1 .. Len(ss[k]) : FlattenSeq(ss)[at[k - 1] + m] = ss[k][m]
<1> DEFINE n == Len(ss)
           t == FlattenSeq(ss)
<1>1. n \in Nat /\ t \in Seq(E) /\ \A k \in 1 .. n : ss[k] \in Seq(E) /\ Len(ss[k]) \in Nat
  BY FlatSeq, LenProperties
<1>2. CASE n = 0
  <2> DEFINE at == [k \in 0 .. n |-> 0]
  <2>1. t = ss /\ Len(t) = 0
    BY <1>2 DEF FlattenSeq
  <2>2. at \in [0 .. n -> Nat] /\ at[0] = 0 /\ at[n] = 0
    BY <1>2
  <2> HIDE DEF at
  <2>3. \A k \in 1 .. n : FALSE
    BY <1>2
  <2> QED
    BY <1>1, <1>2, <2>1, <2>2, <2>3
<1>3. CASE n # 0
  <2>1. PICK f : FlatUpTo(ss, f, n) /\ t = f[n] /\ \A i \in 1 .. n : f[i] \in Seq(E)
    BY <1>3, FlatUnfold
  <2> DEFINE at == [k \in 0 .. n |-> IF k = 0 THEN 0 ELSE Len(f[k])]
  <2> HIDE DEF n, t
  <2>2. \A k \in 1 .. n : f[k] = FlatStep(ss, f, k) /\ Len(f[k]) \in Nat
    BY <2>1, LenProperties DEF FlatUpTo
  <2>3. at \in [0 .. n -> Nat] /\ at[0] = 0 /\ at[n] = Len(t) /\ \A k \in 1 .. n : at[k] = Len(f[k])
    BY <1>1, <1>3, <2>1, <2>2
  <2> HIDE DEF at
  <2>4. ASSUME NEW k \in 1 .. n
        PROVE  /\ at[k] = at[k - 1] + Len(ss[k])
               /\ \A m \in 1 .. Len(ss[k]) : f[k][at[k - 1] + m] = ss[k][m]
               /\ \A m \in 1 .. at[k - 1] : f[k][m] = f[k - 1][m]
    <3>1. CASE k = 1
      <4>1. f[k] = ss[k] /\ at[k - 1] = 0
        BY <2>2, <2>3, <3>1 DEF FlatStep
      <4>2. /\ at[k] = Len(ss[k]) /\ Len(ss[k]) \in Nat
            /\ \A m \in 1 .. Len(ss[k]) : 0 + m = m
        BY <1>1, <2>3, <4>1
      <4>3. \A m \in 1 .. 0 : FALSE
        OBVIOUS
      <4> QED
        BY <4>1, <4>2, <4>3
    <3>2. CASE k # 1
      <4>1. k - 1 \in 1 .. n /\ f[k - 1] \in Seq(E) /\ ss[k] \in Seq(E) /\ at[k - 1] = Len(f[k - 1])
        BY <1>1, <2>1, <2>3, <3>2
      <4>2. f[k] = f[k - 1] \o ss[k]
        BY <2>2, <3>2 DEF FlatStep
      <4> DEFINE u == f[k - 1]
                 v == ss[k]
                 w == f[k]
                 a == at[k - 1]
      <4>3. /\ Len(w) = a + Len(v) /\ a \in Nat /\ Len(v) \in Nat
            /\ \A i \in 1 .. a + Len(v) : w[i] = IF i <= a THEN u[i] ELSE v[i - a]
        <5>1. a \in Nat /\ a = Len(u) /\ u \in Seq(E) /\ v \in Seq(E) /\ Len(v) \in Nat /\ w = u \o v
          BY <1>1, <2>2, <4>1, <4>2
        <5> HIDE DEF u, v, w, a
        <5> QED
          BY <5>1, ConcatProperties
      <4>4. at[k] = Len(w)
        BY <2>3
      <4> HIDE DEF u, v, w, a
      <4>5. \A m \in 1 .. Len(v) : w[a + m] = v[m]
        <5> TAKE m \in 1 .. Len(v)
        <5>1. a + m \in 1 .. a + Len(v) /\ ~(a + m <= a) /\ a + m - a = m
          BY <4>3
        <5> QED
          BY <4>3, <5>1
      <4>6. \A m \in 1 .. a : w[m] = u[m]
        BY <4>3
      <4> QED
        BY <4>3, <4>4, <4>5, <4>6 DEF u, v, w, a
    <3> QED
      BY <3>1, <3>2
  <2>5. ASSUME NEW k \in 1 .. n
        PROVE  at[k] <= at[n] /\ \A m \in 1 .. at[k] : t[m] = f[k][m]
    <3> DEFINE T == {l \in k .. n : ~(at[k] <= at[l] /\ \A m \in 1 .. at[k] : f[l][m] = f[k][m])}
    <3>1. T = {}
      <4> SUFFICES ASSUME T # {} PROVE FALSE
        OBVIOUS
      <4>1. PICK l \in T : \A i \in T : l <= i
        <5>1. T \in SUBSET Nat
          OBVIOUS
        <5> HIDE DEF T
        <5> QED
          BY <5>1, LeastNumber
      <4>2. l # k
        BY <2>3
      <4>3. l \in 1 .. n /\ l - 1 \in k .. n /\ l - 1 \notin T
        BY <1>1, <4>1, <4>2
      <4>4. at[k] <= at[l - 1] /\ \A m \in 1 .. at[k] : f[l - 1][m] = f[k][m]
        BY <4>3
      <4>5. at[l] = at[l - 1] + Len(ss[l]) /\ \A m \in 1 .. at[l - 1] : f[l][m] = f[l - 1][m]
        BY <2>4, <4>3
      <4>6. at[k] \in Nat /\ at[l - 1] \in Nat /\ Len(ss[l]) \in Nat
        BY <1>1, <2>3, <4>3
      <4>7. at[k] <= at[l] /\ \A m \in 1 .. at[k] : f[l][m] = f[k][m]
        BY <4>4, <4>5, <4>6, SMTT(30)
      <4> QED
        BY <4>1, <4>7
    <3>2. n \in k .. n
      BY <1>1
    <3> QED
      BY <2>1, <3>1, <3>2
  <2>6. ASSUME NEW k \in 1 .. n, NEW m \in 1 .. Len(ss[k]) PROVE t[at[k - 1] + m] = ss[k][m]
    <3>1. at[k - 1] \in Nat /\ at[k] = at[k - 1] + Len(ss[k]) /\ Len(ss[k]) \in Nat
      <4>1. k - 1 \in 0 .. n
        BY <1>1
      <4>2. at[k - 1] \in Nat
        BY <2>3, <4>1
      <4>3. at[k] = at[k - 1] + Len(ss[k])
        BY <2>4
      <4>4. Len(ss[k]) \in Nat
        BY <1>1
      <4> QED
        BY <4>2, <4>3, <4>4
    <3>2. at[k - 1] + m \in 1 .. at[k]
      BY <3>1
    <3> QED
      BY <2>4, <2>5, <3>2, SMTT(30)
  <2> QED
    BY <1>1, <2>3, <2>4, <2>5, <2>6 DEF n, t
<1> QED
  BY <1>2, <1>3

-----------------------------------------------------------------------------
(* Reading a path, character by character. *)
ReadStep(path, f, i) ==
  IF i = 0 THEN [parts |-> <<>>, current |-> <<>>] ELSE Read(path, f[i - 1], i)

ReadUpTo(path, f, m) == f = [i \in 0 .. m |-> ReadStep(path, f, i)]

(* The recursive function in splitEscapedPath exists, for every length. *)
LEMMA ReadExists ==
  ASSUME NEW path
  PROVE  \A m \in Nat : \E f : ReadUpTo(path, f, m)
<1> DEFINE T == {m \in Nat : ~\E f : ReadUpTo(path, f, m)}
<1>1. SUFFICES ASSUME T # {} PROVE FALSE
  OBVIOUS
<1>2. PICK m \in T : \A k \in T : m <= k
  BY <1>1, LeastNumber
<1>3. CASE m = 0
  <2> DEFINE g == [i \in 0 .. 0 |-> [parts |-> <<>>, current |-> <<>>]]
  <2>1. ReadUpTo(path, g, 0)
    BY DEF ReadUpTo, ReadStep
  <2> QED BY <2>1, <1>3
<1>4. CASE m # 0
  <2>1. m - 1 \in Nat /\ m - 1 \notin T
    BY <1>2, <1>4
  <2>2. PICK f : ReadUpTo(path, f, m - 1)
    BY <2>1
  <2> DEFINE g == [i \in 0 .. m |-> IF i = m THEN ReadStep(path, f, i) ELSE f[i]]
  <2>3. ASSUME NEW i \in 0 .. m PROVE g[i] = ReadStep(path, g, i)
    <3>1. i # 0 => g[i - 1] = f[i - 1]
      OBVIOUS
    <3>2. ReadStep(path, g, i) = ReadStep(path, f, i)
      BY <3>1 DEF ReadStep
    <3>3. i # m => f[i] = ReadStep(path, f, i)
      BY <2>2, <1>4 DEF ReadUpTo
    <3> QED BY <3>2, <3>3
  <2>4. ReadUpTo(path, g, m)
    BY <2>3 DEF ReadUpTo
  <2> QED BY <2>4
<1> QED BY <1>3, <1>4

Closed(last) == IF last.current = <<>> THEN last.parts ELSE Append(last.parts, last.current)

LEMMA SplitUnfold ==
  ASSUME NEW path, Len(path) \in Nat
  PROVE  \E f : /\ \A i \in 0 .. Len(path) : f[i] = ReadStep(path, f, i)
                /\ splitEscapedPath(path) = Closed(f[Len(path)])
<1> DEFINE n == Len(path)
           F == CHOOSE f : ReadUpTo(path, f, n)
<1>1. ReadUpTo(path, F, n)
  <2>1. \E f : ReadUpTo(path, f, n)
    BY ReadExists
  <2> QED
    BY <2>1, Zenon
<1>2. splitEscapedPath(path) = Closed(F[n])
  BY DEF splitEscapedPath, ReadUpTo, ReadStep, Closed
<1> HIDE DEF F
<1>3. \A i \in 0 .. n : F[i] = ReadStep(path, F, i)
  BY <1>1 DEF ReadUpTo
<1> QED
  BY <1>2, <1>3

-----------------------------------------------------------------------------
(* A key as it is spelled. *)
Escapes(key) == [i \in DOMAIN key |-> IF key[i] = "." THEN <<"\\", ".">> ELSE <<key[i]>>]

Dots(E) == "." \in E /\ "\\" \in E

(* The k-th character is spelled behind the place at[k - 1]. *)
EscapedAt(key, at) ==
  /\ at[0] = 0 /\ at[Len(key)] = Len(Escaped(key))
  /\ \A k \in 1 .. Len(key) :
       /\ at[k] <= at[Len(key)]
       /\ key[k] = "." => /\ at[k] = at[k - 1] + 2
                          /\ Escaped(key)[at[k - 1] + 1] = "\\"
                          /\ Escaped(key)[at[k - 1] + 2] = "."
       /\ key[k] # "." => at[k] = at[k - 1] + 1 /\ Escaped(key)[at[k - 1] + 1] = key[k]

LEMMA EscapedPlaces ==
  ASSUME NEW E, Dots(E), NEW key \in Seq(E)
  PROVE  /\ Escaped(key) \in Seq(E)
         /\ \E at \in [0 .. Len(key) -> Nat] : EscapedAt(key, at)
<1>0. "." \in E /\ "\\" \in E
  BY DEF Dots
<1> DEFINE ss == Escapes(key)
           n == Len(key)
<1>1. n \in Nat /\ DOMAIN key = 1 .. n /\ \A i \in 1 .. n : key[i] \in E
  BY LenProperties, ElementOfSeq
<1>2. \A i \in 1 .. n : ss[i] = IF key[i] = "." THEN <<"\\", ".">> ELSE <<key[i]>>
  BY <1>1 DEF Escapes
<1>3. ss \in Seq(Seq(E)) /\ Len(ss) = n
  <2>1. ss \in [1 .. n -> Seq(E)]
    BY <1>0, <1>1 DEF Escapes
  <2> QED
    BY <1>1, <2>1, IsASeq
<1>4. Escaped(key) = FlattenSeq(ss)
  BY DEF Escaped, Escapes
<1>5. PICK at \in [0 .. Len(ss) -> Nat] :
        /\ at[0] = 0 /\ at[Len(ss)] = Len(FlattenSeq(ss))
        /\ \A k \in 1 .. Len(ss) :
             /\ at[k] = at[k - 1] + Len(ss[k]) /\ at[k] <= at[Len(ss)]
             /\ \A m \in 1 .. Len(ss[k]) : FlattenSeq(ss)[at[k - 1] + m] = ss[k][m]
  <2> HIDE DEF ss
  <2> QED
    BY <1>3, FlatPlaces
<1>8. /\ \A k \in 1 .. n : /\ at[k] = at[k - 1] + Len(ss[k]) /\ at[k] <= at[n]
                           /\ \A m \in 1 .. Len(ss[k]) : Escaped(key)[at[k - 1] + m] = ss[k][m]
      /\ at \in [0 .. n -> Nat] /\ at[0] = 0 /\ at[n] = Len(Escaped(key))
  <2> HIDE DEF ss, n
  <2> QED
    BY <1>3, <1>4, <1>5, Zenon
<1>6. Escaped(key) \in Seq(E)
  BY <1>3, <1>4, FlatSeq
<1> HIDE DEF ss, n
<1>7. ASSUME NEW k \in 1 .. n
      PROVE  /\ key[k] = "." => /\ at[k] = at[k - 1] + 2
                                /\ Escaped(key)[at[k - 1] + 1] = "\\"
                                /\ Escaped(key)[at[k - 1] + 2] = "."
             /\ key[k] # "." => at[k] = at[k - 1] + 1 /\ Escaped(key)[at[k - 1] + 1] = key[k]
  <2>1. CASE key[k] = "."
    <3>1. ss[k] = <<"\\", ".">>
      BY <1>2, <2>1
    <3>2. Len(ss[k]) = 2 /\ ss[k][1] = "\\" /\ ss[k][2] = "."
      BY <3>1
    <3>3. 1 \in 1 .. Len(ss[k]) /\ 2 \in 1 .. Len(ss[k])
      BY <3>2
    <3> QED
      BY <1>8, <2>1, <3>2, <3>3
  <2>2. CASE key[k] # "."
    <3>1. ss[k] = <<key[k]>>
      BY <1>2, <2>2
    <3>2. Len(ss[k]) = 1 /\ ss[k][1] = key[k]
      BY <3>1
    <3>3. 1 \in 1 .. Len(ss[k])
      BY <3>2
    <3> QED
      BY <1>8, <2>2, <3>2, <3>3
  <2> QED
    BY <2>1, <2>2
<1>9. \A k \in 1 .. n :
        /\ at[k] <= at[n]
        /\ key[k] = "." => /\ at[k] = at[k - 1] + 2
                           /\ Escaped(key)[at[k - 1] + 1] = "\\"
                           /\ Escaped(key)[at[k - 1] + 2] = "."
        /\ key[k] # "." => at[k] = at[k - 1] + 1 /\ Escaped(key)[at[k - 1] + 1] = key[k]
  BY <1>7, <1>8, Zenon
<1>10. EscapedAt(key, at)
  BY <1>8, <1>9 DEF n, EscapedAt
<1> QED
  BY <1>6, <1>8, <1>10, Zenon DEF n

(* An escaped key that is read in a path is the key. *)
EndsInBackslash(key) == key # <<>> /\ key[Len(key)] = "\\"

(* f reads the path, which has the key at o; what is read there. *)
Reading(path, f) ==
  Len(path) \in Nat /\ \A i \in 0 .. Len(path) : f[i] = ReadStep(path, f, i)

SpelledAt(path, o, key) ==
  /\ o + Len(Escaped(key)) <= Len(path)
  /\ \A m \in 1 .. Len(Escaped(key)) : path[o + m] = Escaped(key)[m]
  /\ EndsInBackslash(key) => o + Len(Escaped(key)) = Len(path)

Begins(f, o, P) == f[o] = [parts |-> P, current |-> <<>>]

Ends(path, f, o, P, key) ==
  /\ f[o + Len(Escaped(key))] = [parts |-> P, current |-> key]
  /\ key # <<>> => path[o + Len(Escaped(key))] = key[Len(key)]

LEMMA ReadKey ==
  ASSUME NEW E, Dots(E), NEW key \in Seq(E), NEW path, NEW f, Reading(path, f),
         NEW o \in Nat, SpelledAt(path, o, key), NEW P, Begins(f, o, P)
  PROVE  Ends(path, f, o, P, key)
<1>0. /\ o + Len(Escaped(key)) <= Len(path) /\ Len(path) \in Nat
      /\ \A i \in 0 .. Len(path) : f[i] = ReadStep(path, f, i)
      /\ \A m \in 1 .. Len(Escaped(key)) : path[o + m] = Escaped(key)[m]
      /\ f[o] = [parts |-> P, current |-> <<>>]
      /\ EndsInBackslash(key) => o + Len(Escaped(key)) = Len(path)
  BY DEF Reading, SpelledAt, Begins
<1> DEFINE n == Len(key)
           t == Escaped(key)
<1>1. n \in Nat /\ Len(path) \in Nat /\ o \in Nat /\ \A i \in 1 .. n : key[i] \in E
  BY <1>0, LenProperties, ElementOfSeq
<1>2. PICK at \in [0 .. n -> Nat] :
        /\ at[0] = 0 /\ at[n] = Len(t)
        /\ \A k \in 1 .. n :
             /\ at[k] <= at[n]
             /\ key[k] = "." => /\ at[k] = at[k - 1] + 2
                                /\ t[at[k - 1] + 1] = "\\"
                                /\ t[at[k - 1] + 2] = "."
             /\ key[k] # "." => at[k] = at[k - 1] + 1 /\ t[at[k - 1] + 1] = key[k]
  <2>1. PICK at \in [0 .. Len(key) -> Nat] : EscapedAt(key, at)
    BY EscapedPlaces
  <2> QED
    BY <2>1 DEF EscapedAt
<1> DEFINE N == Len(path)
<1> HIDE DEF n, t, N
<1>3. \A k \in 0 .. n : at[k] \in Nat /\ at[k] <= at[n]
  BY <1>1, <1>2
<1>4. /\ N \in Nat /\ o + at[n] <= N
      /\ \A m \in 1 .. at[n] : path[o + m] = t[m]
      /\ \A i \in 0 .. N : f[i] = ReadStep(path, f, i)
      /\ key # <<>> /\ key[n] = "\\" => o + at[n] = N
  BY <1>0, <1>1, <1>2 DEF n, t, N, EndsInBackslash
(* The characters of the path that spell the k-th of the key. *)
<1>5. ASSUME NEW k \in 1 .. n
      PROVE  /\ key[k] = "." => /\ at[k] = at[k - 1] + 2 /\ path[o + at[k - 1] + 1] = "\\"
                                /\ path[o + at[k - 1] + 2] = "."
             /\ key[k] # "." => at[k] = at[k - 1] + 1 /\ path[o + at[k - 1] + 1] = key[k]
  <2>1. k - 1 \in 0 .. n /\ at[k - 1] \in Nat /\ at[k] \in Nat /\ at[k] <= at[n] /\ at[n] \in Nat
    BY <1>1, <1>3
  <2>2. CASE key[k] = "."
    <3>1. at[k] = at[k - 1] + 2 /\ t[at[k - 1] + 1] = "\\" /\ t[at[k - 1] + 2] = "."
      BY <1>2, <2>2
    <3>2. at[k - 1] + 1 \in 1 .. at[n] /\ at[k - 1] + 2 \in 1 .. at[n]
      BY <2>1, <3>1
    <3>3. o + at[k - 1] + 1 = o + (at[k - 1] + 1) /\ o + at[k - 1] + 2 = o + (at[k - 1] + 2)
      BY <2>1
    <3>4. path[o + (at[k - 1] + 1)] = "\\" /\ path[o + (at[k - 1] + 2)] = "."
      BY <1>4, <3>1, <3>2
    <3> QED
      BY <2>2, <3>1, <3>3, <3>4
  <2>3. CASE key[k] # "."
    <3>1. at[k] = at[k - 1] + 1 /\ t[at[k - 1] + 1] = key[k]
      BY <1>2, <2>3
    <3>2. at[k - 1] + 1 \in 1 .. at[n]
      BY <2>1, <3>1
    <3>3. o + at[k - 1] + 1 = o + (at[k - 1] + 1)
      BY <2>1
    <3>4. path[o + (at[k - 1] + 1)] = key[k]
      BY <1>4, <3>1, <3>2
    <3> QED
      BY <2>3, <3>1, <3>3, <3>4
  <2> QED
    BY <2>2, <2>3
<1> DEFINE Read_(k) == [parts |-> P, current |-> SubSeq(key, 1, k)]
           T == {k \in 0 .. n : f[o + at[k]] # Read_(k)}
<1>6. ASSUME NEW k \in 1 .. n, f[o + at[k - 1]] = Read_(k - 1)
      PROVE  f[o + at[k]] = Read_(k)
  <2>1. k - 1 \in 0 .. n /\ at[k - 1] \in Nat /\ at[k] \in Nat /\ at[k] <= at[n] /\ at[n] \in Nat
    BY <1>1, <1>3
  <2> DEFINE i == o + at[k - 1] + 1
  <2>2. /\ i \in Nat /\ i # 0 /\ i - 1 = o + at[k - 1]
        /\ (i + 1) - 1 = i /\ i + 1 # 0 /\ i + 1 \in Nat /\ i + 1 # 1 /\ i + 1 = o + at[k - 1] + 2
    <3> DEFINE a == at[k - 1]
    <3>1. a \in Nat
      BY <2>1
    <3> HIDE DEF a
    <3>2. LET j == o + a + 1 IN
          /\ j \in Nat /\ j # 0 /\ j - 1 = o + a
          /\ (j + 1) - 1 = j /\ j + 1 # 0 /\ j + 1 \in Nat /\ j + 1 # 1 /\ j + 1 = o + a + 2
      BY <3>1
    <3> QED
      BY <3>2 DEF a
  <2>3. Append(SubSeq(key, 1, k - 1), key[k]) = SubSeq(key, 1, k)
    <3>1. k - 1 \in Nat /\ 0 \in Nat /\ 0 <= k - 1 /\ k - 1 < n /\ 0 + 1 = 1 /\ k - 1 + 1 = k
      BY <1>1
    <3>2. SubSeq(key, 0 + 1, k - 1 + 1) = Append(SubSeq(key, 0 + 1, k - 1), key[k - 1 + 1])
      BY <3>1, SubSeqNext DEF n
    <3> QED
      BY <3>1, <3>2
  <2>4. CASE key[k] = "."
    <3>1. at[k] = at[k - 1] + 2 /\ path[i] = "\\" /\ path[i + 1] = "."
      BY <1>5, <2>2, <2>4
    <3> HIDE DEF i
    <3>2. i \in 0 .. N /\ i + 1 \in 0 .. N /\ i < N
      <4> DEFINE a == at[k - 1]
                 b == at[k]
                 z == at[n]
      <4>1. /\ a \in Nat /\ b \in Nat /\ z \in Nat /\ b = a + 2 /\ b <= z /\ o + z <= N
            /\ i = o + a + 1 /\ i \in Nat
        BY <1>4, <2>1, <2>2, <3>1, Zenon DEF i
      <4> HIDE DEF a, b, z
      <4> QED
        BY <1>4, <4>1
    <3>3. f[i] = f[i - 1]
      BY <1>4, <2>2, <3>1, <3>2 DEF ReadStep, Read, N
    <3>4. f[i + 1] = [parts |-> f[i].parts, current |-> Append(f[i].current, ".")]
      <4>1. f[i + 1] = Read(path, f[i], i + 1)
        BY <1>4, <2>2, <3>2 DEF ReadStep
      <4> QED
        BY <2>2, <3>1, <4>1 DEF Read
    <3>5. f[i - 1] = [parts |-> P, current |-> SubSeq(key, 1, k - 1)]
      BY <1>6, <2>2
    <3>6. f[i + 1] = [parts |-> P, current |-> SubSeq(key, 1, k)]
      <4>1. f[i].parts = P /\ f[i].current = SubSeq(key, 1, k - 1)
        BY <3>3, <3>5
      <4> QED
        BY <2>3, <2>4, <3>4, <4>1
    <3>7. o + at[k] = i + 1
      BY <2>1, <2>2, <3>1
    <3> QED
      BY <3>6, <3>7
  <2>5. CASE key[k] # "."
    <3>1. at[k] = at[k - 1] + 1 /\ path[i] = key[k]
      BY <1>5, <2>2, <2>5
    <3>2. i \in 0 .. N
      <4> DEFINE a == at[k - 1]
                 b == at[k]
                 z == at[n]
      <4>1. /\ a \in Nat /\ b \in Nat /\ z \in Nat /\ b = a + 1 /\ b <= z /\ o + z <= N
            /\ i = o + a + 1
        BY <1>4, <2>1, <3>1, Zenon
      <4> HIDE DEF a, b, z, i
      <4> QED
        BY <1>1, <1>4, <2>2, <4>1
    <3>3. ~(path[i] = "\\" /\ i < N /\ path[i + 1] = ".")
      <4> SUFFICES ASSUME path[i] = "\\", i < N, path[i + 1] = "." PROVE FALSE
        OBVIOUS
      <4>1. CASE k = n
        <5>1. key # <<>> /\ key[n] = "\\"
          BY <1>1, <3>1, <4>1 DEF n
        <5> QED
          BY <1>4, <2>1, <3>1, <4>1, <5>1
      <4>2. CASE k # n
        <5>1. k + 1 \in 1 .. n /\ (k + 1) - 1 = k
          BY <1>1, <4>2
        <5>2. path[o + at[k] + 1] # "."
          BY <1>5, <5>1
        <5>3. o + at[k] + 1 = i + 1
          BY <2>1, <2>2, <3>1
        <5> QED
          BY <5>2, <5>3
      <4> QED
        BY <4>1, <4>2
    <3> HIDE DEF i
    <3>4. f[i] = Read(path, f[i - 1], i)
      BY <1>4, <2>2, <3>2 DEF ReadStep
    <3>5. f[i] = [parts |-> f[i - 1].parts, current |-> Append(f[i - 1].current, key[k])]
      BY <2>5, <3>1, <3>3, <3>4 DEF Read, N
    <3>6. f[i - 1] = [parts |-> P, current |-> SubSeq(key, 1, k - 1)]
      BY <1>6, <2>2
    <3>7. f[i] = [parts |-> P, current |-> SubSeq(key, 1, k)]
      <4>1. f[i - 1].parts = P /\ f[i - 1].current = SubSeq(key, 1, k - 1)
        BY <3>6
      <4> QED
        BY <2>3, <3>5, <4>1
    <3>8. o + at[k] = i
      BY <2>1, <3>1 DEF i
    <3> QED
      BY <3>7, <3>8
  <2> QED
    BY <2>4, <2>5
<1>7. T = {}
  <2> SUFFICES ASSUME T # {} PROVE FALSE
    OBVIOUS
  <2>1. PICK k \in T : \A l \in T : k <= l
    <3>1. T \in SUBSET Nat
      OBVIOUS
    <3> HIDE DEF T
    <3> QED
      BY <3>1, LeastNumber
  <2>2. k # 0
    <3>1. SubSeq(key, 1, 0) = <<>>
      OBVIOUS
    <3> QED
      BY <1>0, <1>1, <1>2, <2>1, <3>1
  <2>3. k \in 1 .. n /\ k - 1 \in 0 .. n /\ k - 1 \notin T
    <3>1. k \in 0 .. n
      BY <2>1
    <3>2. k \in 1 .. n /\ k - 1 \in 0 .. n /\ ~(k <= k - 1)
      BY <1>1, <2>2, <3>1
    <3> HIDE DEF T
    <3> QED
      BY <2>1, <3>2
  <2>4. f[o + at[k - 1]] = Read_(k - 1)
    BY <2>3
  <2> HIDE DEF Read_
  <2> QED
    BY <1>6, <2>1, <2>3, <2>4
<1>8. SubSeq(key, 1, n) = key
  BY SubSeqFull DEF n
<1>9. f[o + at[n]] = [parts |-> P, current |-> key]
  <2>1. n \in 0 .. n
    BY <1>1
  <2> QED
    BY <1>7, <1>8, <2>1
<1>10. ASSUME key # <<>> PROVE path[o + at[n]] = key[n]
  <2>1. n \in 1 .. n /\ n - 1 \in 0 .. n /\ at[n - 1] \in Nat
    BY <1>1, <1>3, <1>10, EmptySeq DEF n
  <2>2. key[n] = "." => o + at[n] = o + at[n - 1] + 2
    BY <1>5, <2>1
  <2>3. key[n] # "." => o + at[n] = o + at[n - 1] + 1
    BY <1>5, <2>1
  <2> QED
    BY <1>5, <2>1, <2>2, <2>3
<1> QED
  BY <1>2, <1>9, <1>10 DEF n, t, Ends

(* The keys with a dot before all but the first. *)
Pieces(keys) == [i \in DOMAIN keys |-> IF i = 1 THEN Escaped(keys[i]) ELSE <<".">> \o Escaped(keys[i])]

LEMMA DottedPieces ==
  ASSUME NEW E, Dots(E), NEW keys \in Seq(Seq(E))
  PROVE  /\ Pieces(keys) \in Seq(Seq(E)) /\ Len(Pieces(keys)) = Len(keys)
         /\ Dotted(keys) = FlattenSeq(Pieces(keys)) /\ Dotted(keys) \in Seq(E)
<1> DEFINE n == Len(keys)
<1>1. n \in Nat /\ DOMAIN keys = 1 .. n /\ \A i \in 1 .. n : keys[i] \in Seq(E)
  BY LenProperties, ElementOfSeq
<1>2. \A i \in 1 .. n : Escaped(keys[i]) \in Seq(E)
  BY <1>1, EscapedPlaces
<1>3. <<".">> \in Seq(E)
  BY DEF Dots
<1>4. \A i \in 1 .. n : <<".">> \o Escaped(keys[i]) \in Seq(E)
  BY <1>2, <1>3, ConcatProperties
<1>5. Pieces(keys) \in [1 .. n -> Seq(E)]
  BY <1>1, <1>2, <1>4 DEF Pieces
<1>6. Pieces(keys) \in Seq(Seq(E)) /\ Len(Pieces(keys)) = n
  <2> DEFINE ss == Pieces(keys)
             S == Seq(E)
  <2>1. n \in Nat /\ ss \in [1 .. n -> S]
    BY <1>1, <1>5
  <2> HIDE DEF n, ss, S
  <2>2. ss \in Seq(S) /\ Len(ss) = n
    BY <2>1, IsASeq
  <2> QED
    BY <2>2 DEF ss, S
<1>7. Dotted(keys) = FlattenSeq(Pieces(keys))
  <2> DEFINE parts == [i \in DOMAIN keys |-> Escaped(keys[i])]
  <2>1. [i \in DOMAIN parts |-> IF i = 1 THEN parts[i] ELSE <<".">> \o parts[i]] = Pieces(keys)
    BY DEF Pieces
  <2>2. Join(parts) = FlattenSeq(Pieces(keys))
    <3> HIDE DEF parts
    <3> QED
      BY <2>1 DEF Join
  <2> QED
    BY <2>2 DEF Dotted
<1> QED
  BY <1>6, <1>7, FlatSeq

(* Where the keys are in the path. *)
LEMMA DottedPlaces ==
  ASSUME NEW E, Dots(E), NEW keys \in Seq(Seq(E)), keys # <<>>
  PROVE  \E begin \in [1 .. Len(keys) -> Nat], end \in [1 .. Len(keys) -> Nat] :
           /\ begin[1] = 0 /\ end[Len(keys)] = Len(Dotted(keys))
           /\ \A k \in 1 .. Len(keys) :
                /\ end[k] = begin[k] + Len(Escaped(keys[k])) /\ end[k] <= Len(Dotted(keys))
                /\ \A m \in 1 .. Len(Escaped(keys[k])) : Dotted(keys)[begin[k] + m] = Escaped(keys[k])[m]
                /\ k # 1 => begin[k] = end[k - 1] + 1 /\ Dotted(keys)[begin[k]] = "."
<1> DEFINE n == Len(keys)
           ss == Pieces(keys)
           t == Dotted(keys)
<1>1. n \in Nat /\ n # 0 /\ \A i \in 1 .. n : keys[i] \in Seq(E)
  BY LenProperties, ElementOfSeq, EmptySeq
<1>2. \A i \in 1 .. n : Escaped(keys[i]) \in Seq(E) /\ Len(Escaped(keys[i])) \in Nat
  BY <1>1, EscapedPlaces, LenProperties
<1>3. ss \in Seq(Seq(E)) /\ Len(ss) = n /\ t = FlattenSeq(ss)
  BY DottedPieces
<1>4. \A i \in 1 .. n : ss[i] = IF i = 1 THEN Escaped(keys[i]) ELSE <<".">> \o Escaped(keys[i])
  BY LenProperties DEF Pieces
<1>5. \E at \in [0 .. Len(ss) -> Nat] :
        /\ at[0] = 0 /\ at[Len(ss)] = Len(FlattenSeq(ss))
        /\ \A k \in 1 .. Len(ss) :
             /\ at[k] = at[k - 1] + Len(ss[k]) /\ at[k] <= at[Len(ss)]
             /\ \A m \in 1 .. Len(ss[k]) : FlattenSeq(ss)[at[k - 1] + m] = ss[k][m]
  <2> HIDE DEF ss
  <2> QED
    BY <1>3, FlatPlaces
<1> HIDE DEF n, ss, t
<1>6. PICK at \in [0 .. n -> Nat] :
        /\ at[0] = 0 /\ at[n] = Len(t)
        /\ \A k \in 1 .. n :
             /\ at[k] = at[k - 1] + Len(ss[k]) /\ at[k] <= Len(t)
             /\ \A m \in 1 .. Len(ss[k]) : t[at[k - 1] + m] = ss[k][m]
  <2>1. PICK at \in [0 .. Len(ss) -> Nat] :
          /\ at[0] = 0 /\ at[Len(ss)] = Len(FlattenSeq(ss))
          /\ \A k \in 1 .. Len(ss) :
               /\ at[k] = at[k - 1] + Len(ss[k]) /\ at[k] <= at[Len(ss)]
               /\ \A m \in 1 .. Len(ss[k]) : FlattenSeq(ss)[at[k - 1] + m] = ss[k][m]
    BY <1>5
  <2> QED
    BY <1>3, <2>1, Zenon
<1> DEFINE begin == [k \in 1 .. n |-> IF k = 1 THEN 0 ELSE at[k - 1] + 1]
           end == [k \in 1 .. n |-> at[k]]
<1>7. ASSUME NEW k \in 1 .. n
      PROVE  /\ at[k] \in Nat /\ at[k] <= Len(t)
             /\ begin[k] \in Nat /\ end[k] = at[k] /\ end[k] = begin[k] + Len(Escaped(keys[k]))
             /\ \A m \in 1 .. Len(Escaped(keys[k])) : t[begin[k] + m] = Escaped(keys[k])[m]
             /\ k # 1 => begin[k] = end[k - 1] + 1 /\ t[begin[k]] = "."
  <2> DEFINE w == Escaped(keys[k])
             a == at[k - 1]
             l == Len(w)
  <2>1. w \in Seq(E) /\ l \in Nat /\ l = Len(w) /\ at[k] \in Nat /\ at[k] <= Len(t)
    <3>1. w \in Seq(E) /\ l \in Nat
      BY <1>2
    <3>2. k \in 0 .. n
      BY <1>1
    <3>3. at[k] \in Nat /\ at[k] <= Len(t)
      BY <1>6, <3>2
    <3> QED
      BY <3>1, <3>3
  <2>2. a \in Nat /\ at[k] = a + Len(ss[k]) /\ \A m \in 1 .. Len(ss[k]) : t[a + m] = ss[k][m]
    BY <1>1, <1>6
  <2>3. CASE k = 1
    <3>1. ss[k] = w /\ a = 0 /\ begin[k] = 0 /\ end[k] = at[k]
      BY <1>1, <1>4, <1>6, <2>3
    <3> QED
      BY <2>1, <2>2, <2>3, <3>1
  <2>4. CASE k # 1
    <3>1. begin[k] = a + 1 /\ end[k] = at[k] /\ end[k - 1] = a
      BY <1>1, <2>4
    <3>2. ss[k] = <<".">> \o w
      BY <1>4, <2>4
    <3>3. <<".">> \in Seq(E) /\ Len(<<".">>) = 1 /\ <<".">>[1] = "."
      BY DEF Dots
    <3> HIDE DEF w, a, l, begin, end
    <3>4. /\ Len(ss[k]) = 1 + l
          /\ \A m \in 1 .. 1 + l : ss[k][m] = IF m <= 1 THEN <<".">>[m] ELSE w[m - 1]
      BY <2>1, <3>2, <3>3, ConcatProperties
    <3>5. t[a + 1] = "."
      <4>1. 1 \in 1 .. 1 + l
        BY <2>1
      <4> QED
        BY <2>2, <3>3, <3>4, <4>1
    <3>6. ASSUME NEW m \in 1 .. l PROVE t[a + 1 + m] = w[m]
      <4>1. 1 + m \in 1 .. 1 + l /\ ~(1 + m <= 1) /\ 1 + m - 1 = m /\ a + 1 + m = a + (1 + m)
        BY <2>1, <2>2
      <4>2. ss[k][1 + m] = w[m]
        BY <3>4, <4>1
      <4>3. t[a + (1 + m)] = ss[k][1 + m]
        BY <2>2, <3>4, <4>1
      <4> QED
        BY <4>1, <4>2, <4>3
    <3>7. at[k] = a + 1 + l /\ a + 1 \in Nat
      BY <2>1, <2>2, <3>4
    <3>8. \A m \in 1 .. Len(w) : t[begin[k] + m] = w[m]
      BY <2>1, <3>1, <3>6
    <3> QED
      BY <2>1, <2>4, <3>1, <3>5, <3>7, <3>8 DEF w
  <2> QED
    BY <2>3, <2>4
<1>8. begin \in [1 .. n -> Nat] /\ end \in [1 .. n -> Nat] /\ begin[1] = 0 /\ end[n] = Len(t)
  <2>1. 1 \in 1 .. n /\ n \in 1 .. n
    BY <1>1
  <2>2. \A k \in 1 .. n : begin[k] \in Nat /\ at[k] \in Nat
    BY <1>7
  <2> QED
    BY <1>6, <2>1, <2>2
<1> HIDE DEF begin, end
<1>9. \A k \in 1 .. n :
        /\ end[k] = begin[k] + Len(Escaped(keys[k])) /\ end[k] <= Len(t)
        /\ \A m \in 1 .. Len(Escaped(keys[k])) : t[begin[k] + m] = Escaped(keys[k])[m]
        /\ k # 1 => begin[k] = end[k - 1] + 1 /\ t[begin[k]] = "."
  BY <1>7
<1> QED
  BY <1>8, <1>9, Zenon DEF n, t

LEMMA EscapedNothing ==
  ASSUME NEW E, Dots(E), NEW key \in Seq(E), key = <<>>
  PROVE  Len(Escaped(key)) = 0
<1>1. PICK at \in [0 .. Len(key) -> Nat] : EscapedAt(key, at)
  BY EscapedPlaces
<1>2. Len(key) = 0
  OBVIOUS
<1> QED
  BY <1>1, <1>2 DEF EscapedAt

(* A path that is written down is split into its keys. *)
LEMMA SplitDotted ==
  ASSUME NEW E, Dots(E), NEW keys \in Seq(Seq(E)), keys # <<>>,
         keys[Len(keys)] # <<>>,
         \A i \in 1 .. Len(keys) - 1 : keys[i] = <<>> \/ keys[i][Len(keys[i])] # "\\"
  PROVE  splitEscapedPath(Dotted(keys)) = keys
<1> DEFINE n == Len(keys)
           path == Dotted(keys)
           w(k) == Escaped(keys[k])
<1>1. n \in Nat /\ n # 0 /\ \A i \in 1 .. n : keys[i] \in Seq(E)
  BY LenProperties, ElementOfSeq, EmptySeq
<1>2. path \in Seq(E) /\ Len(path) \in Nat
  BY DottedPieces, LenProperties
<1>3. PICK begin \in [1 .. n -> Nat], end \in [1 .. n -> Nat] :
        /\ begin[1] = 0 /\ end[n] = Len(path)
        /\ \A k \in 1 .. n :
             /\ end[k] = begin[k] + Len(w(k)) /\ end[k] <= Len(path)
             /\ \A m \in 1 .. Len(w(k)) : path[begin[k] + m] = w(k)[m]
             /\ k # 1 => begin[k] = end[k - 1] + 1 /\ path[begin[k]] = "."
  BY DottedPlaces
<1>4. PICK f : /\ \A i \in 0 .. Len(path) : f[i] = ReadStep(path, f, i)
               /\ splitEscapedPath(path) = Closed(f[Len(path)])
  BY <1>2, SplitUnfold
<1> DEFINE P(k) == SubSeq(keys, 1, k - 1)
           Started(k) == f[begin[k]] = [parts |-> P(k), current |-> <<>>]
<1> HIDE DEF n, path
<1>5. ASSUME NEW k \in 1 .. n, Started(k)
      PROVE  /\ f[end[k]] = [parts |-> P(k), current |-> keys[k]]
             /\ keys[k] # <<>> => path[end[k]] = keys[k][Len(keys[k])]
  <2> DEFINE key == keys[k]
             o == begin[k]
             p == P(k)
  <2>1. key \in Seq(E) /\ o \in Nat /\ end[k] = o + Len(Escaped(key)) /\ end[k] <= Len(path)
        /\ \A m \in 1 .. Len(Escaped(key)) : path[o + m] = Escaped(key)[m]
    BY <1>1, <1>3
  <2>2. key # <<>> /\ key[Len(key)] = "\\" => end[k] = Len(path)
    <3>1. CASE k = n
      BY <1>3, <3>1
    <3>2. CASE k # n
      <4>1. k \in 1 .. n - 1
        BY <1>1, <3>2
      <4> QED
        BY <4>1 DEF n
    <3> QED
      BY <3>1, <3>2
  <2>3. f[o] = [parts |-> p, current |-> <<>>]
    BY <1>5
  <2> HIDE DEF key, o, p
  <2>4. Reading(path, f) /\ SpelledAt(path, o, key) /\ Begins(f, o, p)
    BY <1>2, <1>4, <2>1, <2>2, <2>3 DEF Reading, SpelledAt, Begins, EndsInBackslash
  <2>5. Ends(path, f, o, p, key)
    BY ONLY Dots(E), <2>1, <2>4, ReadKey, ZenonT(30)
  <2> QED
    BY <2>1, <2>5 DEF Ends, key, p
<1>6. ASSUME NEW k \in 1 .. n, k + 1 \in 1 .. n, Started(k) PROVE Started(k + 1)
  <2> DEFINE i == begin[k + 1]
  <2>1. i = end[k] + 1 /\ path[i] = "." /\ end[k] \in Nat /\ begin[k + 1] \in Nat /\ k + 1 # 1 /\ k + 1 - 1 = k
    <3>1. k + 1 # 1 /\ (k + 1) - 1 = k
      OBVIOUS
    <3>2. begin[k + 1] = end[(k + 1) - 1] + 1 /\ path[begin[k + 1]] = "."
      BY <1>3, <1>6, <3>1
    <3>3. end[k] \in Nat /\ begin[k + 1] \in Nat
      BY <1>3, <1>6
    <3> QED
      BY <3>1, <3>2, <3>3
  <2>2. i \in 0 .. Len(path) /\ i # 0 /\ i - 1 = end[k]
    <3> DEFINE l == Len(w(k + 1))
               z == end[k + 1]
               b == end[k]
    <3>1. z = i + l /\ z <= Len(path) /\ l \in Nat /\ i = b + 1 /\ b \in Nat
      BY <1>1, <1>3, <1>6, <2>1, EscapedPlaces, LenProperties
    <3> HIDE DEF i, l, z, b
    <3>2. i \in 0 .. Len(path) /\ i # 0 /\ i - 1 = b
      BY <1>2, <3>1
    <3> QED
      BY <3>2 DEF b
  <2>3. f[i - 1] = [parts |-> P(k), current |-> keys[k]]
    BY <1>5, <1>6, <2>2
  <2>4. i = 1 \/ path[i - 1] # "\\"
    <3>1. CASE keys[k] = <<>>
      <4>1. Len(w(k)) = 0
        BY <1>1, <3>1, EscapedNothing
      <4>2. end[k] = begin[k]
        <5>1. end[k] = begin[k] + Len(w(k)) /\ begin[k] \in Nat
          BY <1>3
        <5> QED
          BY <4>1, <5>1
      <4>3. CASE k = 1
        BY <1>3, <2>1, <4>2, <4>3
      <4>4. CASE k # 1
        <5>1. path[begin[k]] = "."
          BY <1>3, <4>4
        <5> QED
          BY <2>2, <4>2, <5>1
      <4> QED
        BY <4>3, <4>4
    <3>2. CASE keys[k] # <<>>
      <4>1. k \in 1 .. n - 1
        BY <1>1, <1>6
      <4>2. keys[k][Len(keys[k])] # "\\"
        BY <3>2, <4>1 DEF n
      <4>3. path[end[k]] = keys[k][Len(keys[k])]
        BY <1>5, <1>6, <3>2
      <4> QED
        BY <2>2, <4>2, <4>3
    <3> QED
      BY <3>1, <3>2
  <2>5. Append(P(k), keys[k]) = P(k + 1)
    <3>1. k - 1 \in Nat /\ 0 \in Nat /\ 0 <= k - 1 /\ k - 1 < n /\ 0 + 1 = 1 /\ k - 1 + 1 = k
      BY <1>1
    <3>2. SubSeq(keys, 0 + 1, k - 1 + 1) = Append(SubSeq(keys, 0 + 1, k - 1), keys[k - 1 + 1])
      BY <3>1, SubSeqNext DEF n
    <3> QED
      BY <2>1, <3>1, <3>2
  <2> HIDE DEF i
  <2>6. f[i] = Read(path, f[i - 1], i)
    BY <1>4, <2>2 DEF ReadStep
  <2>7. f[i] = [parts |-> Append(f[i - 1].parts, f[i - 1].current), current |-> <<>>]
    BY <2>1, <2>4, <2>6 DEF Read
  <2>8. f[i - 1].parts = P(k) /\ f[i - 1].current = keys[k]
    BY <2>3
  <2> HIDE DEF P
  <2>9. f[i] = [parts |-> P(k + 1), current |-> <<>>]
    BY <2>5, <2>7, <2>8
  <2> QED
    BY <2>9 DEF i
<1>7. \A k \in 1 .. n : Started(k)
  <2> DEFINE T == {k \in 1 .. n : ~Started(k)}
  <2> SUFFICES ASSUME T # {} PROVE FALSE
    OBVIOUS
  <2>1. PICK k \in T : \A l \in T : k <= l
    <3>1. T \in SUBSET Nat
      OBVIOUS
    <3> HIDE DEF T
    <3> QED
      BY <3>1, LeastNumber
  <2>2. k # 1
    <3>1. f[0] = [parts |-> <<>>, current |-> <<>>]
      BY <1>2, <1>4 DEF ReadStep
    <3>2. SubSeq(keys, 1, 1 - 1) = <<>>
      OBVIOUS
    <3> QED
      BY <1>3, <2>1, <3>1, <3>2
  <2>3. k - 1 \in 1 .. n /\ k - 1 \notin T /\ (k - 1) + 1 = k
    <3>1. k \in 1 .. n
      BY <2>1
    <3>2. k - 1 \in 1 .. n /\ (k - 1) + 1 = k /\ ~(k <= k - 1)
      BY <1>1, <2>2, <3>1
    <3> HIDE DEF T
    <3> QED
      BY <2>1, <3>2
  <2> HIDE DEF Started
  <2>4. Started(k - 1)
    BY <2>3
  <2> QED
    BY <1>6, <2>1, <2>3, <2>4
<1>8. f[Len(path)] = [parts |-> P(n), current |-> keys[n]]
  <2>1. n \in 1 .. n
    BY <1>1
  <2> QED
    BY <1>3, <1>5, <1>7, <2>1
<1>9. Append(P(n), keys[n]) = keys
  <2>1. n - 1 \in Nat /\ 0 \in Nat /\ 0 <= n - 1 /\ n - 1 < n /\ 0 + 1 = 1 /\ n - 1 + 1 = n
    BY <1>1
  <2>2. SubSeq(keys, 0 + 1, n - 1 + 1) = Append(SubSeq(keys, 0 + 1, n - 1), keys[n - 1 + 1])
    BY <2>1, SubSeqNext DEF n
  <2>3. SubSeq(keys, 1, n) = keys
    BY SubSeqFull DEF n
  <2> QED
    BY <2>1, <2>2, <2>3
<1>10. keys[n] # <<>>
  BY DEF n
<1> HIDE DEF P
<1> QED
  BY <1>4, <1>8, <1>9, <1>10 DEF Closed, path

-----------------------------------------------------------------------------
(* A text between two signs. *)
LEMMA Bracketed ==
  ASSUME NEW E, NEW x \in E, NEW b \in Seq(E), NEW y \in E
  PROVE  /\ <<x>> \o b \o <<y>> \in Seq(E) /\ Len(<<x>> \o b \o <<y>>) = Len(b) + 2
         /\ <<x>> \o b \o <<y>> # <<>>
         /\ Head(<<x>> \o b \o <<y>>) = x /\ Last(<<x>> \o b \o <<y>>) = y
         /\ SubSeq(<<x>> \o b \o <<y>>, 2, Len(<<x>> \o b \o <<y>>) - 1) = b
         /\ \A i \in 1 .. Len(b) + 2 :
              (<<x>> \o b \o <<y>>)[i] = IF i = 1 THEN x ELSE IF i = Len(b) + 2 THEN y ELSE b[i - 1]
<1> DEFINE u == <<x>> \o b
           w == u \o <<y>>
           n == Len(b)
<1>1. n \in Nat /\ \A i \in 1 .. n : b[i] \in E
  BY LenProperties, ElementOfSeq
<1>2. <<x>> \in Seq(E) /\ Len(<<x>>) = 1 /\ <<x>>[1] = x /\ <<y>> \in Seq(E) /\ Len(<<y>>) = 1 /\ <<y>>[1] = y
  OBVIOUS
<1>3. /\ u \in Seq(E) /\ Len(u) = 1 + n
      /\ \A i \in 1 .. 1 + n : u[i] = IF i <= 1 THEN <<x>>[i] ELSE b[i - 1]
  BY <1>2, ConcatProperties
<1> HIDE DEF u
<1>4. /\ w \in Seq(E) /\ Len(w) = n + 2
      /\ \A i \in 1 .. n + 2 : w[i] = IF i <= 1 + n THEN u[i] ELSE <<y>>[i - (1 + n)]
  <2>1. /\ w \in Seq(E) /\ Len(w) = 1 + n + 1
        /\ \A i \in 1 .. 1 + n + 1 : w[i] = IF i <= 1 + n THEN u[i] ELSE <<y>>[i - (1 + n)]
    BY <1>2, <1>3, ConcatProperties
  <2> QED
    BY <1>1, <2>1
<1> HIDE DEF w, n
<1>5. ASSUME NEW i \in 1 .. n + 2
      PROVE  w[i] = IF i = 1 THEN x ELSE IF i = n + 2 THEN y ELSE b[i - 1]
  <2>1. CASE i = 1
    BY <1>1, <1>2, <1>3, <1>4, <2>1
  <2>2. CASE i = n + 2
    <3>1. w[i] = <<y>>[i - (1 + n)] /\ i - (1 + n) = 1 /\ i # 1
      BY <1>1, <1>4, <2>2
    <3> QED
      BY <1>2, <2>2, <3>1
  <2>3. CASE i # 1 /\ i # n + 2
    BY <1>1, <1>3, <1>4, <2>3
  <2> QED
    BY <2>1, <2>2, <2>3
<1>6. w # <<>> /\ Head(w) = x /\ Last(w) = y
  <2>1. 1 \in 1 .. n + 2 /\ n + 2 \in 1 .. n + 2 /\ n + 2 # 1
    BY <1>1
  <2>2. w[1] = x /\ w[n + 2] = y
    BY <1>5, <2>1
  <2>3. w # <<>>
    BY <1>1, <1>4, EmptySeq
  <2> QED
    BY <1>4, <2>2, <2>3 DEF Last
<1>7. SubSeq(w, 2, Len(w) - 1) = b
  <2> DEFINE z == n + 1
             s == SubSeq(w, 2, z)
  <2>1. Len(w) - 1 = z /\ z \in Int /\ \A i \in 2 .. z : w[i] \in E
    BY <1>1, <1>4, <1>5
  <2> HIDE DEF z
  <2>2. /\ s \in Seq(E) /\ Len(s) = IF 2 <= z THEN z - 2 + 1 ELSE 0
        /\ \A i \in 1 .. z - 2 + 1 : s[i] = w[2 + i - 1]
    BY <1>4, <2>1, SubSeqProperties
  <2>3. Len(s) = n /\ n = Len(b)
    BY <1>1, <2>2 DEF n, z
  <2> HIDE DEF s
  <2>4. ASSUME NEW i \in 1 .. n PROVE s[i] = b[i]
    <3> DEFINE k == i + 1
    <3>1. /\ i \in 1 .. z - 2 + 1 /\ 2 + i - 1 = k
          /\ k \in 1 .. n + 2 /\ k # 1 /\ k # n + 2 /\ k - 1 = i
      BY <1>1 DEF z
    <3> HIDE DEF k
    <3>2. s[i] = w[k]
      BY <2>2, <3>1
    <3> QED
      BY <1>5, <3>1, <3>2
  <2>5. s = b
    BY <2>2, <2>3, <2>4, SeqEqual
  <2> QED
    BY <2>1, <2>5 DEF s
<1>8. w = <<x>> \o b \o <<y>>
  BY DEF w, u
<1> QED
  BY <1>4, <1>5, <1>6, <1>7, <1>8 DEF n

(* A text without the signs in Sign is over the other words. *)
LEMMA WritableOver ==
  ASSUME NEW E, NEW text \in Seq(E), Writable(text)
  PROVE  text \in Seq(E \ Sign)
<1>1. Len(text) \in Nat /\ DOMAIN text = 1 .. Len(text) /\ \A i \in 1 .. Len(text) : text[i] \in E
  BY LenProperties, ElementOfSeq
<1>2. text \in [1 .. Len(text) -> E \ Sign]
  <2>1. \A i \in 1 .. Len(text) : text[i] \in E \ Sign
    BY <1>1 DEF Writable
  <2>2. text = [i \in 1 .. Len(text) |-> text[i]]
    BY LenProperties
  <2> QED
    BY <2>1, <2>2
<1> QED
  BY <1>1, <1>2, IsASeq

LEMMA OverIsWritable ==
  ASSUME NEW E, NEW text \in Seq(E \ Sign)
  PROVE  /\ Writable(text) /\ text \in Seq(E)
         /\ ~Has(text, "|")
<1>1. Len(text) \in Nat /\ DOMAIN text = 1 .. Len(text) /\ \A i \in 1 .. Len(text) : text[i] \in E \ Sign
  BY LenProperties, ElementOfSeq
<1>2. "|" \in Sign
  BY DEF Sign
<1>3. text \in Seq(E)
  <2>1. E \ Sign \subseteq E
    OBVIOUS
  <2> QED
    BY <2>1, SeqMonotonic
<1> QED
  BY <1>1, <1>2, <1>3 DEF Writable, Has, Places

LEMMA KeysOver ==
  ASSUME NEW E, NEW keys \in Seq(Seq(E)), PlainKeys(keys)
  PROVE  keys \in Seq(Seq(E \ Sign))
<1>1. /\ Len(keys) \in Nat /\ DOMAIN keys = 1 .. Len(keys)
      /\ \A i \in 1 .. Len(keys) : keys[i] \in Seq(E) /\ Writable(keys[i])
  BY LenProperties, ElementOfSeq DEF PlainKeys
<1>2. \A i \in 1 .. Len(keys) : keys[i] \in Seq(E \ Sign)
  BY <1>1, WritableOver
<1> DEFINE A == Seq(E \ Sign)
<1>3. keys = [i \in 1 .. Len(keys) |-> keys[i]]
  BY LenProperties
<1> HIDE DEF A
<1>4. keys \in [1 .. Len(keys) -> A]
  BY <1>2, <1>3 DEF A
<1>5. keys \in Seq(A)
  <2> DEFINE n == Len(keys)
  <2>1. n \in Nat /\ keys \in [1 .. n -> A]
    BY <1>1, <1>4
  <2> HIDE DEF n
  <2> QED
    BY <2>1, IsASeq
<1> QED
  BY <1>5 DEF A

(* What a path that can be spelled looks like, and what is read of it. *)
LEMMA DottedPlain ==
  ASSUME NEW E, Dots(E), NEW keys \in Seq(Seq(E)), PlainKeys(keys)
  PROVE  /\ Dotted(keys) \in Seq(E \ Sign)
         /\ splitEscapedPath(Dotted(keys)) = keys
<1>1. keys \in Seq(Seq(E \ Sign))
  BY KeysOver
<1>2. Dots(E \ Sign)
  BY DEF Dots, Sign
<1>3. Dotted(keys) \in Seq(E \ Sign)
  <2> DEFINE D == E \ Sign
  <2> HIDE DEF D
  <2>1. keys \in Seq(Seq(D)) /\ Dots(D)
    BY <1>1, <1>2 DEF D
  <2>2. Dotted(keys) \in Seq(D)
    BY <2>1, DottedPieces
  <2> QED
    BY <2>2 DEF D
<1>4. keys # <<>> /\ keys[Len(keys)] # <<>>
      /\ \A i \in 1 .. Len(keys) - 1 : keys[i] = <<>> \/ keys[i][Len(keys[i])] # "\\"
  BY DEF PlainKeys, Last
<1>5. splitEscapedPath(Dotted(keys)) = keys
  BY <1>4, SplitDotted
<1> QED
  BY <1>3, <1>5

-----------------------------------------------------------------------------
(* A reference as it is written down: between the signs of an expression   *)
(* a path and what follows it.                                             *)
Alphabet(E) ==
  {"{$", "}", "|", ":", ".", "\\", "default", "getByPath", "name", "data"} \subseteq E

(* Those of them that are not braces. *)
Words(E) == {"|", ":", ".", "\\", "default", "getByPath"} \subseteq E

RefOver(ref, E) ==
  /\ ref.source \in Seq(E) /\ Len(ref.source) = 1 /\ ref.source[1] \notin Sign \cup {"."}
  /\ ref.keys \in Seq(Seq(E))
  /\ ref.mod = "default" => ref.arg \in Seq(E)
  /\ ref.mod = "getByPath" => ref.arg \in Seq(Seq(E))

PathOf(ref) == ref.source \o <<".">> \o Dotted(ref.keys)

ModifierOf(ref) ==
  CASE ref.mod = "none"      -> <<>>
    [] ref.mod = "default"   -> <<"default">> \o <<":">> \o ref.arg
    [] ref.mod = "getByPath" -> <<"getByPath">> \o <<":">> \o Dotted(ref.arg)

SuffixOf(ref) == IF ref.mod = "none" THEN <<>> ELSE <<"|">> \o ModifierOf(ref)

Associates(s, t, u) == (s \o t) \o u = s \o (t \o u)

LEMMA Associate ==
  ASSUME NEW E, NEW s \in Seq(E), NEW t \in Seq(E), NEW u \in Seq(E)
  PROVE  Associates(s, t, u)
BY ConcatAssociative DEF Associates

LEMMA Regrouped ==
  ASSUME NEW E, NEW a \in Seq(E), NEW b \in Seq(E), NEW c \in Seq(E), NEW d \in Seq(E), NEW e \in Seq(E)
  PROVE  /\ a \o b \o c \o d \o e = a \o ((b \o c \o d) \o e)
         /\ (b \o c \o d) \o e \in Seq(E)
<1> DEFINE f == b \o c
           g == f \o d
<1>1. f \in Seq(E) /\ g \in Seq(E) /\ g \o e \in Seq(E)
  <2>1. f \in Seq(E)
    BY ConcatProperties
  <2> HIDE DEF f
  <2>2. g \in Seq(E)
    BY <2>1, ConcatProperties
  <2> HIDE DEF g
  <2> QED
    BY <2>1, <2>2, ConcatProperties
<1>2. a \in Seq(E) /\ b \in Seq(E) /\ c \in Seq(E) /\ d \in Seq(E) /\ e \in Seq(E)
  OBVIOUS
<1>3. a \o b \o c = a \o f
  BY Associate, SMTT(30) DEF Associates
<1> HIDE DEF f, g
<1>4. Associates(a, f, d) /\ Associates(a, g, e)
  BY <1>1, Associate
<1> QED
  BY ONLY <1>1, <1>3, <1>4 DEF f, g, Associates

LEMMA ThreeAhead ==
  ASSUME NEW E, NEW x \in E, NEW y \in E, NEW z \in E, NEW w \in Seq(E)
  PROVE  <<x, y, z>> \o w = <<x>> \o (<<y>> \o <<z>> \o w)
<1>1. <<x>> \in Seq(E) /\ <<y>> \in Seq(E) /\ <<z>> \in Seq(E) /\ <<y>> \o <<z>> \in Seq(E)
  BY ConcatProperties
<1>2. <<x>> \o (<<y>> \o <<z>>) = <<x, y, z>>
  <2> DEFINE t == <<y>> \o <<z>>
             a == <<x>>
             r == <<x, y, z>>
  <2>1. t \in Seq(E) /\ Len(t) = 2 /\ t[1] = y /\ t[2] = z
    <3> DEFINE u == <<y>>
               v == <<z>>
    <3>1. u \in Seq(E) /\ Len(u) = 1 /\ u[1] = y /\ v \in Seq(E) /\ Len(v) = 1 /\ v[1] = z
      OBVIOUS
    <3> HIDE DEF u, v
    <3>2. /\ u \o v \in Seq(E) /\ Len(u \o v) = Len(u) + Len(v)
          /\ \A i \in 1 .. Len(u) + Len(v) : (u \o v)[i] = IF i <= Len(u) THEN u[i] ELSE v[i - Len(u)]
      BY <3>1, ConcatProperties
    <3>3. u \o v \in Seq(E) /\ Len(u \o v) = 2 /\ (u \o v)[1] = y /\ (u \o v)[2] = z
      BY <3>1, <3>2
    <3> QED
      BY <3>3 DEF u, v
  <2>2. t \in Seq(E) /\ a \in Seq(E) /\ r \in Seq(E) /\ Len(t) = 2 /\ t[1] = y /\ t[2] = z
        /\ Len(a) = 1 /\ a[1] = x /\ Len(r) = 3 /\ r[1] = x /\ r[2] = y /\ r[3] = z
    BY <2>1
  <2> HIDE DEF t, a, r
  <2>6. /\ a \o t \in Seq(E) /\ Len(a \o t) = Len(a) + Len(t)
        /\ \A i \in 1 .. Len(a) + Len(t) : (a \o t)[i] = IF i <= Len(a) THEN a[i] ELSE t[i - Len(a)]
    BY <2>2, ConcatProperties
  <2>3. /\ a \o t \in Seq(E) /\ Len(a \o t) = 3
        /\ \A i \in 1 .. 3 : (a \o t)[i] = IF i <= 1 THEN a[i] ELSE t[i - 1]
    BY <2>2, <2>6
  <2>4. \A i \in 1 .. 3 : (a \o t)[i] = r[i]
    BY <2>2, <2>3
  <2>5. a \o t = r
    BY <2>2, <2>3, <2>4, SeqEqual
  <2> QED
    BY <2>5 DEF a, t, r
<1>3. (<<x>> \o (<<y>> \o <<z>>)) \o w = <<x>> \o ((<<y>> \o <<z>>) \o w)
  BY <1>1, ConcatAssociative
<1> QED
  BY <1>2, <1>3

LEMMA ModifierTypes ==
  ASSUME NEW E, Words(E), NEW ref, RefOver(ref, E), Plain(ref)
  PROVE  ModifierOf(ref) \in Seq(E) /\ SuffixOf(ref) \in Seq(E)
<1>1. Dots(E) /\ "default" \in E /\ ":" \in E /\ "getByPath" \in E /\ "|" \in E
  BY DEF Words, Dots
<1>2. <<"default">> \in Seq(E) /\ <<":">> \in Seq(E) /\ <<"getByPath">> \in Seq(E) /\ <<"|">> \in Seq(E)
  BY <1>1
<1>3. <<"default">> \o <<":">> \in Seq(E) /\ <<"getByPath">> \o <<":">> \in Seq(E)
  BY <1>2, ConcatProperties
<1>4. ref.mod \in {"none", "default", "getByPath"}
  BY DEF Plain
<1>5. CASE ref.mod = "none"
  BY <1>5 DEF ModifierOf, SuffixOf
<1>6. CASE ref.mod = "default"
  <2>1. ref.arg \in Seq(E)
    BY <1>6 DEF RefOver
  <2>2. ModifierOf(ref) = <<"default">> \o <<":">> \o ref.arg
    BY <1>6 DEF ModifierOf
  <2>3. ModifierOf(ref) \in Seq(E)
    BY <1>3, <2>1, <2>2, ConcatProperties
  <2> QED
    BY <1>2, <1>6, <2>3, ConcatProperties DEF SuffixOf
<1>7. CASE ref.mod = "getByPath"
  <2>1. ref.arg \in Seq(Seq(E)) /\ PlainKeys(ref.arg)
    BY <1>7 DEF RefOver, Plain
  <2>2. Dotted(ref.arg) \in Seq(E)
    BY <1>1, <2>1, DottedPlain, OverIsWritable
  <2>3. ModifierOf(ref) = <<"getByPath">> \o <<":">> \o Dotted(ref.arg)
    BY <1>7 DEF ModifierOf
  <2>4. ModifierOf(ref) \in Seq(E)
    BY <1>3, <2>2, <2>3, ConcatProperties
  <2> QED
    BY <1>2, <1>7, <2>4, ConcatProperties DEF SuffixOf
<1> QED
  BY <1>4, <1>5, <1>6, <1>7

LEMMA PathParsed ==
  ASSUME NEW E, Alphabet(E), NEW ref, RefOver(ref, E), Plain(ref)
  PROVE  /\ PathOf(ref) \in Seq(E \ Sign)
         /\ Has(PathOf(ref), ".") /\ Before(PathOf(ref), ".") = ref.source
         /\ After(PathOf(ref), ".") = Dotted(ref.keys)
         /\ splitEscapedPath(Dotted(ref.keys)) = ref.keys
<1> DEFINE D == E \ Sign
           s == ref.source
           p == Dotted(ref.keys)
<1>1. Dots(E) /\ "." \in D
  BY DEF Alphabet, Dots, Sign
<1>2. p \in Seq(D) /\ splitEscapedPath(Dotted(ref.keys)) = ref.keys
  BY <1>1, DottedPlain DEF RefOver, Plain
<1>3. s \in Seq(D) /\ ~Has(s, ".")
  <2>1. s \in Seq(E) /\ Len(s) = 1 /\ s[1] \notin Sign /\ s[1] # "."
    BY DEF RefOver
  <2>2. DOMAIN s = 1 .. 1 /\ s[1] \in E
    BY <2>1, LenProperties, ElementOfSeq
  <2>3. Writable(s)
    BY <2>1, <2>2 DEF Writable
  <2>4. ~Has(s, ".")
    BY <2>1, <2>2 DEF Has, Places
  <2> QED
    BY <2>1, <2>3, <2>4, WritableOver
<1> HIDE DEF D, s, p
<1>4. /\ Has(s \o <<".">> \o p, ".")
      /\ Before(s \o <<".">> \o p, ".") = s
      /\ After(s \o <<".">> \o p, ".") = p
  BY <1>1, <1>2, <1>3, CutAt
<1>5. s \o <<".">> \o p \in Seq(D)
  BY <1>1, <1>2, <1>3, Spliced
<1> QED
  BY <1>2, <1>4, <1>5 DEF PathOf, D, s, p

(* The whole of it. *)
Shaped(open, s, dot, p, x, close) ==
  <<open>> \o s \o <<dot>> \o p \o x \o <<close>> = <<open>> \o ((s \o <<dot>> \o p) \o x) \o <<close>>

LEMMA SpellShape ==
  ASSUME NEW E, NEW open \in E, NEW dot \in E, NEW close \in E,
         NEW s \in Seq(E), NEW p \in Seq(E), NEW x \in Seq(E)
  PROVE  /\ Shaped(open, s, dot, p, x, close)
         /\ (s \o <<dot>> \o p) \o x \in Seq(E)
<1>1. <<open>> \in Seq(E) /\ <<dot>> \in Seq(E)
  OBVIOUS
<1>2. /\ <<open>> \o s \o <<dot>> \o p \o x = <<open>> \o ((s \o <<dot>> \o p) \o x)
      /\ (s \o <<dot>> \o p) \o x \in Seq(E)
  BY <1>1, Regrouped
<1> QED
  BY ONLY <1>2 DEF Shaped

(* A path and a modifier behind a bar are told apart. *)
LEMMA BarParsed ==
  ASSUME NEW E, NEW bar \in E, NEW path \in Seq(E), ~Has(path, bar), NEW m \in Seq(E)
  PROVE  /\ Has(path \o (<<bar>> \o m), bar)
         /\ Before(path \o (<<bar>> \o m), bar) = path
         /\ After(path \o (<<bar>> \o m), bar) = m
<1>1. <<bar>> \in Seq(E)
  OBVIOUS
<1>2. path \o (<<bar>> \o m) = path \o <<bar>> \o m
  BY <1>1, ConcatAssociative
<1>3. /\ Has(path \o <<bar>> \o m, bar)
      /\ Before(path \o <<bar>> \o m, bar) = path
      /\ After(path \o <<bar>> \o m, bar) = m
  BY CutAt
<1> QED
  BY <1>2, <1>3, Zenon

LEMMA SpellParsed ==
  ASSUME NEW E, Alphabet(E), NEW ref, RefOver(ref, E), Plain(ref)
  PROVE  /\ Spell(ref) = <<"{$">> \o (PathOf(ref) \o SuffixOf(ref)) \o <<"}">>
         /\ PathOf(ref) \o SuffixOf(ref) \in Seq(E)
         /\ Inner(PathOf(ref) \o SuffixOf(ref)) = PathOf(ref)
         /\ Modifier(PathOf(ref) \o SuffixOf(ref)) = ModifierOf(ref)
<1> DEFINE s == ref.source
           p == Dotted(ref.keys)
           m == ModifierOf(ref)
           x == SuffixOf(ref)
           path == PathOf(ref)
<1>1. Dots(E) /\ "default" \in E /\ ":" \in E /\ "getByPath" \in E /\ "|" \in E /\ "{$" \in E /\ "}" \in E /\ "." \in E
  BY DEF Alphabet, Dots
<1>2. m \in Seq(E) /\ x \in Seq(E)
  <2>1. Words(E)
    BY DEF Alphabet, Words
  <2> QED
    BY <2>1, ModifierTypes
<1>3. s \in Seq(E) /\ p \in Seq(E)
  BY <1>1, DottedPlain, OverIsWritable DEF RefOver, Plain
<1>4. path \in Seq(E) /\ ~Has(path, "|")
  BY PathParsed, OverIsWritable
<1>5. path = s \o <<".">> \o p
  BY DEF PathOf
<1>6. x = (CASE ref.mod = "none"      -> <<>>
             [] ref.mod = "default"   -> <<"|", "default", ":">> \o ref.arg
             [] ref.mod = "getByPath" -> <<"|", "getByPath", ":">> \o Dotted(ref.arg)
             [] OTHER                 -> <<"|", ref.mod>>)
  <2>1. CASE ref.mod = "none"
    BY <2>1 DEF SuffixOf
  <2>2. CASE ref.mod = "default"
    <3>1. ref.arg \in Seq(E)
      BY <2>2 DEF RefOver
    <3>2. <<"|", "default", ":">> \o ref.arg = <<"|">> \o (<<"default">> \o <<":">> \o ref.arg)
      <4> DEFINE bar == "|"
                 w == ref.arg
      <4>1. bar \in E /\ w \in Seq(E) /\ "default" \in E /\ ":" \in E
        BY <1>1, <3>1
      <4> HIDE DEF bar, w
      <4>2. <<bar, "default", ":">> \o w = <<bar>> \o (<<"default">> \o <<":">> \o w)
        BY <4>1, ThreeAhead, SMTT(30)
      <4> QED
        BY <4>2 DEF bar, w
    <3> QED
      BY <2>2, <3>2 DEF SuffixOf, ModifierOf
  <2>3. CASE ref.mod = "getByPath"
    <3>1. Dotted(ref.arg) \in Seq(E)
      BY <1>1, <2>3, DottedPlain, OverIsWritable DEF RefOver, Plain
    <3>2. <<"|", "getByPath", ":">> \o Dotted(ref.arg) = <<"|">> \o (<<"getByPath">> \o <<":">> \o Dotted(ref.arg))
      <4> DEFINE bar == "|"
                 w == Dotted(ref.arg)
      <4>1. bar \in E /\ w \in Seq(E) /\ "getByPath" \in E /\ ":" \in E
        BY <1>1, <3>1
      <4> HIDE DEF bar, w
      <4>2. <<bar, "getByPath", ":">> \o w = <<bar>> \o (<<"getByPath">> \o <<":">> \o w)
        BY <4>1, ThreeAhead, SMTT(30)
      <4> QED
        BY <4>2 DEF bar, w
    <3> QED
      BY <2>3, <3>2 DEF SuffixOf, ModifierOf
  <2> QED
    BY <2>1, <2>2, <2>3 DEF Plain
<1>7. Spell(ref) = <<"{$">> \o s \o <<".">> \o p \o x \o <<"}">>
  BY <1>6 DEF Spell
<1>8. /\ <<"{$">> \o s \o <<".">> \o p \o x \o <<"}">> = <<"{$">> \o (path \o x) \o <<"}">>
      /\ path \o x \in Seq(E)
  <2> DEFINE open == "{$"
             close == "}"
             dot == "."
  <2>1. open \in E /\ close \in E /\ dot \in E
    BY <1>1
  <2>2. path = s \o <<dot>> \o p
    BY DEF PathOf
  <2> HIDE DEF s, p, x, path, open, close, dot
  <2>3. /\ Shaped(open, s, dot, p, x, close)
        /\ (s \o <<dot>> \o p) \o x \in Seq(E)
    BY <1>2, <1>3, <2>1, SpellShape
  <2>4. /\ <<open>> \o s \o <<dot>> \o p \o x \o <<close>> = <<open>> \o (path \o x) \o <<close>>
        /\ path \o x \in Seq(E)
    BY <2>2, <2>3, Zenon DEF Shaped
  <2> QED
    BY <2>4 DEF open, close, dot
<1> HIDE DEF s, p, x, path, m
<1>9. Spell(ref) = <<"{$">> \o (path \o x) \o <<"}">>
  BY <1>7, <1>8, Zenon DEF s, p, x, path
<1>10. CASE ref.mod = "none"
  <2>1. x = <<>> /\ m = <<>>
    BY <1>10 DEF x, m, SuffixOf, ModifierOf
  <2>2. path \o x = path
    BY <1>4, <2>1, ConcatEmptySeq
  <2>3. Inner(path) = path /\ Modifier(path) = <<>>
    BY <1>4 DEF Inner, Modifier
  <2> QED
    BY <1>8, <1>9, <2>1, <2>2, <2>3, Zenon DEF x, path, m
<1>11. CASE ref.mod # "none"
  <2>1. x = <<"|">> \o m
    BY <1>11 DEF x, m, SuffixOf
  <2>2. /\ Has(path \o (<<"|">> \o m), "|")
        /\ Before(path \o (<<"|">> \o m), "|") = path
        /\ After(path \o (<<"|">> \o m), "|") = m
    BY <1>1, <1>2, <1>4, BarParsed, Zenon
  <2>4. Inner(path \o x) = path /\ Modifier(path \o x) = m
    BY <2>1, <2>2, Zenon DEF Inner, Modifier
  <2> QED
    BY <1>8, <1>9, <2>4, Zenon DEF x, path, m
<1> QED
  BY <1>10, <1>11

-----------------------------------------------------------------------------
(* What a modifier makes of a value. *)
BeginsWith(m, x, y, w) ==
  /\ m # <<>> /\ IsPrefix(<<x, y>>, m) /\ SubSeq(m, 3, Len(m)) = w
  /\ \A a, b : IsPrefix(<<a, b>>, m) => a = x

LEMMA TwoAhead ==
  ASSUME NEW E, NEW x \in E, NEW y \in E, NEW w \in Seq(E)
  PROVE  BeginsWith(<<x>> \o <<y>> \o w, x, y, w)
<1> DEFINE u == <<x>>
           m == <<x>> \o <<y>> \o w
           n == Len(w)
<1>1. n \in Nat /\ u \in Seq(E) /\ Len(u) = 1 /\ u[1] = x
  BY LenProperties
<1>2. /\ u \o <<y>> \o w \in Seq(E) /\ Len(u \o <<y>> \o w) = Len(u) + 1 + Len(w)
      /\ \A i \in 1 .. Len(u) + 1 + Len(w) :
           (u \o <<y>> \o w)[i] = IF i <= Len(u) THEN u[i]
                                  ELSE IF i = Len(u) + 1 THEN y ELSE w[i - (Len(u) + 1)]
  BY <1>1, Spliced
<1>3. m = u \o <<y>> \o w
  OBVIOUS
<1> HIDE DEF u, m
<1>4. /\ m \in Seq(E) /\ Len(m) = 2 + n /\ m[1] = x /\ m[2] = y
      /\ \A i \in 1 .. n : m[i + 2] = w[i]
  <2>1. m \in Seq(E) /\ Len(m) = 2 + n
    BY <1>1, <1>2, <1>3
  <2>2. 1 \in 1 .. Len(u) + 1 + n /\ 2 \in 1 .. Len(u) + 1 + n
    BY <1>1
  <2>3. m[1] = x /\ m[2] = y
    BY <1>1, <1>2, <1>3, <2>2
  <2>4. ASSUME NEW i \in 1 .. n PROVE m[i + 2] = w[i]
    <3> DEFINE k == i + 2
    <3>1. k \in 1 .. Len(u) + 1 + n /\ ~(k <= Len(u)) /\ k # Len(u) + 1 /\ k - (Len(u) + 1) = i
      BY <1>1
    <3> HIDE DEF k
    <3>2. m[k] = w[i]
      BY <1>2, <1>3, <3>1
    <3> QED
      BY <3>2 DEF k
  <2> QED
    BY <2>1, <2>3, <2>4
<1>5. m # <<>>
  BY <1>1, <1>4, EmptySeq
<1>6. SubSeq(m, 3, Len(m)) = w
  <2> DEFINE z == Len(m)
             s == SubSeq(m, 3, z)
  <2>1. z \in Int /\ z = 2 + n /\ \A i \in 3 .. z : m[i] \in E
    BY <1>1, <1>4, ElementOfSeq
  <2> HIDE DEF z
  <2>2. /\ s \in Seq(E) /\ Len(s) = IF 3 <= z THEN z - 3 + 1 ELSE 0
        /\ \A i \in 1 .. z - 3 + 1 : s[i] = m[3 + i - 1]
    BY <1>4, <2>1, SubSeqProperties
  <2>3. Len(s) = Len(w)
    BY <1>1, <2>1, <2>2
  <2> HIDE DEF s
  <2>4. ASSUME NEW i \in 1 .. n PROVE s[i] = w[i]
    <3> DEFINE k == i + 2
    <3>1. i \in 1 .. z - 3 + 1 /\ 3 + i - 1 = k
      BY <1>1, <2>1
    <3>2. m[k] = w[i]
      BY <1>4
    <3> HIDE DEF k
    <3> QED
      BY <2>2, <3>1, <3>2
  <2>5. s = w
    BY <2>2, <2>3, <2>4, SeqEqual
  <2> QED
    BY <2>5 DEF s, z
<1>7. /\ SubSeq(m, 1, 2) \in Seq(E) /\ Len(SubSeq(m, 1, 2)) = 2
      /\ SubSeq(m, 1, 2)[1] = x /\ SubSeq(m, 1, 2)[2] = y
  <2> DEFINE s == SubSeq(m, 1, 2)
  <2>1. 1 \in Int /\ 2 \in Int /\ \A i \in 1 .. 2 : m[i] \in E
    BY <1>4
  <2>2. /\ s \in Seq(E) /\ Len(s) = IF 1 <= 2 THEN 2 - 1 + 1 ELSE 0
        /\ \A i \in 1 .. 2 - 1 + 1 : s[i] = m[1 + i - 1]
    BY <1>4, <2>1, SubSeqProperties
  <2> HIDE DEF s
  <2>3. s[1] = m[1] /\ s[2] = m[2] /\ Len(s) = 2
    BY <2>2
  <2> QED
    BY <1>4, <2>2, <2>3 DEF s
<1>8. ASSUME NEW a, NEW b PROVE Len(<<a, b>>) = 2 /\ SubSeq(<<a, b>>, 1, 2) = <<a, b>>
  <2> DEFINE D == {a, b}
             t == <<a, b>>
  <2>1. t \in Seq(D) /\ Len(t) = 2
    OBVIOUS
  <2> HIDE DEF t, D
  <2>2. SubSeq(t, 1, Len(t)) = t
    BY <2>1, SubSeqFull
  <2> QED
    BY <2>1, <2>2 DEF t
<1>9. IsPrefix(<<x, y>>, m)
  <2>1. SubSeq(m, 1, 2) = <<x, y>>
    <3> DEFINE t == <<x, y>>
               s == SubSeq(m, 1, 2)
    <3>1. t \in Seq(E) /\ Len(t) = 2 /\ t[1] = x /\ t[2] = y
      OBVIOUS
    <3> HIDE DEF s, t
    <3>2. s \in Seq(E) /\ Len(s) = Len(t) /\ \A i \in 1 .. Len(t) : s[i] = t[i]
      BY <1>7, <3>1 DEF s
    <3>3. s = t
      BY <3>1, <3>2, SeqEqual
    <3> QED
      BY <3>3 DEF s, t
  <2>2. 2 <= Len(m)
    BY <1>1, <1>4
  <2> QED
    BY <1>8, <2>1, <2>2 DEF IsPrefix
<1>10. ASSUME NEW a, NEW b, IsPrefix(<<a, b>>, m) PROVE a = x
  <2>1. <<a, b>> = SubSeq(m, 1, 2)
    BY <1>8, <1>10 DEF IsPrefix
  <2>2. <<a, b>>[1] = x
    BY <1>7, <2>1
  <2> QED
    BY <2>2
<1> QED
  BY <1>5, <1>6, <1>9, <1>10 DEF m, BeginsWith

Applied(v, ref) ==
  CASE ref.mod = "none"      -> IF v = Missing THEN Null ELSE v
    [] ref.mod = "default"   -> IF v = Missing THEN Str(ref.arg) ELSE v
    [] ref.mod = "getByPath" -> getByPath(IF v = Missing THEN Null ELSE v, ref.arg)

NamedBefore(m, name, colon, w) ==
  Has(m, colon) /\ Before(m, colon) = <<name>> /\ After(m, colon) = w

LEMMA ColonParsed ==
  ASSUME NEW E, NEW name \in E, NEW colon \in E, name # colon, NEW w \in Seq(E)
  PROVE  NamedBefore(<<name>> \o <<colon>> \o w, name, colon, w)
<1> DEFINE u == <<name>>
<1>1. u \in Seq(E) /\ DOMAIN u = 1 .. 1 /\ u[1] = name
  OBVIOUS
<1> HIDE DEF u
<1>2. ~Has(u, colon)
  BY <1>1 DEF Has, Places
<1>3. Has(u \o <<colon>> \o w, colon) /\ Before(u \o <<colon>> \o w, colon) = u /\ After(u \o <<colon>> \o w, colon) = w
  BY <1>1, <1>2, CutAt
<1> QED
  BY <1>3 DEF u, NamedBefore

LEMMA ModifiedSpelled ==
  ASSUME NEW E, Alphabet(E), NEW ref, RefOver(ref, E), Plain(ref), NEW v
  PROVE  Modified(v, ModifierOf(ref)) = Applied(v, ref)
<1> DEFINE m == ModifierOf(ref)
           d == "default"
           g == "getByPath"
           colon == ":"
<1>1. Dots(E) /\ d \in E /\ colon \in E /\ g \in E /\ d # colon /\ g # colon /\ d # g
  BY DEF Alphabet, Dots
<1>2. CASE ref.mod = "none"
  <2>1. m = <<>>
    BY <1>2 DEF ModifierOf
  <2> QED
    BY <1>2, <2>1 DEF Modified, Applied
<1>3. CASE ref.mod = "default"
  <2> DEFINE arg == ref.arg
  <2>1. m = <<d>> \o <<colon>> \o arg /\ arg \in Seq(E)
    BY <1>3 DEF ModifierOf, RefOver
  <2> HIDE DEF arg, m, d, colon
  <2>2. /\ m # <<>> /\ Has(m, colon) /\ Before(m, colon) = <<d>>
        /\ IsPrefix(<<d, colon>>, m) /\ SubSeq(m, 3, Len(m)) = arg
    <3>1. NamedBefore(m, d, colon, arg)
      BY <1>1, <2>1, ColonParsed
    <3>2. BeginsWith(m, d, colon, arg)
      BY <1>1, <2>1, TwoAhead
    <3> QED
      BY <3>1, <3>2 DEF NamedBefore, BeginsWith
  <2>3. applyModifier(v, m) = v
    BY <2>2 DEF applyModifier, d, colon
  <2>4. CASE v = Missing
    <3>1. Modified(v, m) = Str(SubSeq(m, 3, Len(m)))
      BY <2>2, <2>4 DEF Modified, d, colon
    <3>2. Applied(v, ref) = Str(arg)
      BY <1>3, <2>4 DEF Applied, arg
    <3> QED
      BY <2>2, <3>1, <3>2 DEF m
  <2>5. CASE v # Missing
    <3>1. Modified(v, m) = applyModifier(v, m)
      BY <2>2, <2>5 DEF Modified
    <3>2. Applied(v, ref) = v
      BY <1>3, <2>5 DEF Applied
    <3> QED
      BY <2>3, <3>1, <3>2 DEF m
  <2> QED
    BY <2>4, <2>5
<1>4. CASE ref.mod = "getByPath"
  <2> DEFINE p == Dotted(ref.arg)
  <2>1. m = <<g>> \o <<colon>> \o p
    BY <1>4 DEF ModifierOf
  <2>2. p \in Seq(E) /\ splitEscapedPath(p) = ref.arg
    BY <1>1, <1>4, DottedPlain, OverIsWritable DEF RefOver, Plain
  <2> HIDE DEF p, m, d, g, colon
  <2>3. /\ m # <<>> /\ Has(m, colon) /\ Before(m, colon) = <<g>> /\ After(m, colon) = p
        /\ ~IsPrefix(<<d, colon>>, m)
    <3>1. NamedBefore(m, g, colon, p)
      BY <1>1, <2>1, <2>2, ColonParsed
    <3>2. BeginsWith(m, g, colon, p)
      BY <1>1, <2>1, <2>2, TwoAhead
    <3> QED
      BY <1>1, <3>1, <3>2 DEF NamedBefore, BeginsWith
  <2>4. <<g>> # <<d>>
    BY <1>1
  <2>5. \A value : applyModifier(value, m) = getByPath(value, ref.arg)
    BY <2>2, <2>3, <2>4 DEF applyModifier, d, g, colon
  <2>6. Modified(v, m) = applyModifier(IF v = Missing THEN Null ELSE v, m)
    BY <2>3 DEF Modified, d, colon
  <2>7. Applied(v, ref) = getByPath(IF v = Missing THEN Null ELSE v, ref.arg)
    BY <1>4 DEF Applied
  <2> QED
    BY <2>5, <2>6, <2>7 DEF m
<1> QED
  BY <1>2, <1>3, <1>4 DEF Plain

(* An expression is evaluated to what its source has at its keys. *)
Had(ref, sources) ==
  sourceGet(ref.source, sources[ref.source], Dotted(ref.keys), ref.keys)

LEMMA EvaluateSpelled ==
  ASSUME NEW E, Alphabet(E), NEW ref, RefOver(ref, E), Plain(ref), NEW sources
  PROVE  Evaluate(Spell(ref), sources) =
           IF ref.source \notin DOMAIN sources \/ Had(ref, sources) = Error THEN Error
           ELSE Applied(Had(ref, sources), ref)
<1> DEFINE b == PathOf(ref) \o SuffixOf(ref)
           expr == Spell(ref)
           open == "{$"
           close == "}"
<1>1. /\ expr = <<open>> \o b \o <<close>> /\ b \in Seq(E)
      /\ Inner(b) = PathOf(ref) /\ Modifier(b) = ModifierOf(ref)
  BY SpellParsed
<1>2. open \in E /\ close \in E
  BY DEF Alphabet
<1> HIDE DEF b, expr, open, close
<1>3. expr # <<>> /\ Head(expr) = open /\ Last(expr) = close /\ SubSeq(expr, 2, Len(expr) - 1) = b
  BY <1>1, <1>2, Bracketed
<1>4. /\ Has(PathOf(ref), ".") /\ Before(PathOf(ref), ".") = ref.source
      /\ After(PathOf(ref), ".") = Dotted(ref.keys)
      /\ splitEscapedPath(Dotted(ref.keys)) = ref.keys
  BY PathParsed
<1> DEFINE Of(text) == IF ~Has(text, ".") \/ Before(text, ".") \notin DOMAIN sources THEN Error
                       ELSE ValueOf(Before(text, "."), After(text, "."), sources)
           Made(value, modifier) == IF value = Error THEN Error ELSE Modified(value, modifier)
<1>5. Evaluate(expr, sources) = Made(Of(Inner(b)), Modifier(b))
  <2>1. ~(expr = <<>> \/ Head(expr) # "{$" \/ Last(expr) # "}")
    BY <1>3 DEF open, close
  <2> QED
    BY <1>3, <2>1 DEF Evaluate
<1>6. Of(Inner(b)) = IF ref.source \notin DOMAIN sources THEN Error ELSE Had(ref, sources)
  BY <1>1, <1>4 DEF ValueOf, Had
<1>7. Made(Of(Inner(b)), Modifier(b)) =
        IF ref.source \notin DOMAIN sources \/ Had(ref, sources) = Error THEN Error
        ELSE Applied(Had(ref, sources), ref)
  BY <1>1, <1>6, ModifiedSpelled
<1> QED
  BY <1>5, <1>7 DEF expr

-----------------------------------------------------------------------------
(* What a source has at its keys is what a walk through its fields finds.  *)
LEMMA JoinOne ==
  ASSUME NEW E, NEW parts \in Seq(Seq(E)), Len(parts) = 1
  PROVE  Join(parts) = parts[1]
<1> DEFINE ss == [i \in DOMAIN parts |-> IF i = 1 THEN parts[i] ELSE <<".">> \o parts[i]]
<1>1. parts[1] \in Seq(E) /\ DOMAIN parts = 1 .. 1 /\ Len(parts[1]) \in Nat
  BY LenProperties, ElementOfSeq
<1>2. ss \in Seq(Seq(E)) /\ Len(ss) = 1 /\ ss[1] = parts[1]
  <2> DEFINE S == Seq(E)
             n == 1
  <2>1. n \in Nat /\ ss \in [1 .. n -> S] /\ ss[1] = parts[1]
    BY <1>1
  <2> HIDE DEF ss, S, n
  <2>2. ss \in Seq(S) /\ Len(ss) = n
    BY <2>1, IsASeq
  <2> QED
    BY <2>1, <2>2 DEF S, n
<1>3. Join(parts) = FlattenSeq(ss)
  BY DEF Join
<1> HIDE DEF ss
<1>4. FlattenSeq(ss) \in Seq(E)
  BY <1>2, FlatSeq
<1>5. PICK at \in [0 .. Len(ss) -> Nat] :
        /\ at[0] = 0 /\ at[Len(ss)] = Len(FlattenSeq(ss))
        /\ \A k \in 1 .. Len(ss) :
             /\ at[k] = at[k - 1] + Len(ss[k]) /\ at[k] <= at[Len(ss)]
             /\ \A m \in 1 .. Len(ss[k]) : FlattenSeq(ss)[at[k - 1] + m] = ss[k][m]
  BY <1>2, FlatPlaces
<1>6. Len(FlattenSeq(ss)) = Len(parts[1]) /\ \A m \in 1 .. Len(parts[1]) : FlattenSeq(ss)[m] = parts[1][m]
  <2>1. 1 \in 1 .. Len(ss) /\ 1 - 1 = 0
    BY <1>2
  <2>2. at[1] = 0 + Len(parts[1]) /\ \A m \in 1 .. Len(parts[1]) : FlattenSeq(ss)[0 + m] = parts[1][m]
    BY <1>2, <1>5, <2>1, SMTT(30)
  <2> QED
    BY <1>1, <1>2, <1>5, <2>2
<1> QED
  BY <1>1, <1>3, <1>4, <1>6, SeqEqual

(* One word of a path that is no sign. *)
LEMMA DottedWord ==
  ASSUME NEW E, Dots(E), NEW x \in E, x # "."
  PROVE  Dotted(<<<<x>>>>) = <<x>>
<1> DEFINE k == <<x>>
           ss == Escapes(k)
<1>1. k \in Seq(E) /\ Len(k) = 1 /\ k[1] = x /\ DOMAIN k = 1 .. 1
  OBVIOUS
<1> HIDE DEF k
<1>3. Escaped(k) \in Seq(E) /\ \E at \in [0 .. Len(k) -> Nat] : EscapedAt(k, at)
  BY <1>1, EscapedPlaces
<1>2. PICK at \in [0 .. Len(k) -> Nat] : EscapedAt(k, at)
  BY <1>3
<1>4. Escaped(k) = k
  <2>1. 1 \in 1 .. Len(k) /\ 1 - 1 = 0 /\ k[1] # "."
    BY <1>1
  <2>2. at[1] = 0 + 1 /\ Escaped(k)[0 + 1] = k[1]
    BY <1>2, <2>1 DEF EscapedAt
  <2>3. Len(Escaped(k)) = 1 /\ Escaped(k)[1] = k[1]
    BY <1>1, <1>2, <2>2 DEF EscapedAt
  <2> QED
    BY <1>1, <1>3, <2>3, SeqEqual
<1> DEFINE keys == <<k>>
           parts == [i \in DOMAIN keys |-> Escaped(keys[i])]
<1>5. parts \in Seq(Seq(E)) /\ Len(parts) = 1 /\ parts[1] = k
  <2> DEFINE S == Seq(E)
  <2>1. DOMAIN keys = 1 .. 1 /\ keys[1] = k
    OBVIOUS
  <2>2. parts \in [1 .. 1 -> S] /\ parts[1] = k
    BY <1>1, <1>4, <2>1
  <2> HIDE DEF parts, S
  <2>3. parts \in Seq(S) /\ Len(parts) = 1
    BY <2>2, IsASeq
  <2> QED
    BY <2>2, <2>3 DEF S
<1>6. Dotted(keys) = Join(parts)
  BY DEF Dotted
<1> HIDE DEF parts
<1>7. Dotted(keys) = k
  BY <1>5, <1>6, JoinOne
<1> QED
  BY <1>7 DEF k

LEMMA WalkFirst ==
  ASSUME NEW S, NEW f, NEW keys \in Seq(S), keys # <<>>
  PROVE  /\ Tail(keys) \in Seq(S) /\ Len(Tail(keys)) = Len(keys) - 1
         /\ getNested(Obj(f), keys) = getNested(Lookup(f, keys[1]), Tail(keys))
<1>1. Field(Obj(f), keys[1]) = Lookup(f, keys[1])
  BY DEF Field, Obj, Json, Lookup
<1>2. /\ Tail(keys) \in Seq(S) /\ Len(Tail(keys)) = Len(keys) - 1
      /\ getNested(Obj(f), keys) = getNested(Field(Obj(f), keys[1]), Tail(keys))
  BY NestedFirst
<1> QED
  BY <1>1, <1>2

LEMMA WalkShort ==
  ASSUME NEW S, NEW f, NEW keys \in Seq(S), Len(keys) = 1
  PROVE  getNested(Obj(f), keys) = Lookup(f, keys[1])
<1>1. keys # <<>>
  BY EmptySeq
<1>2. Len(Tail(keys)) = 0 /\ getNested(Obj(f), keys) = getNested(Lookup(f, keys[1]), Tail(keys))
  BY <1>1, WalkFirst
<1> QED
  BY <1>2, NestedNone

LEMMA WalkTwo ==
  ASSUME NEW S, NEW f, NEW keys \in Seq(S), Len(keys) = 2
  PROVE  getNested(Obj(f), keys) = Field(Lookup(f, keys[1]), keys[2])
<1> DEFINE rest == Tail(keys)
           v == Lookup(f, keys[1])
<1>1. keys # <<>>
  BY EmptySeq
<1>2. rest \in Seq(S) /\ Len(rest) = 1 /\ getNested(Obj(f), keys) = getNested(v, rest)
  BY <1>1, WalkFirst
<1>3. rest[1] = keys[2]
  <2>1. \A i \in 1 .. Len(rest) : rest[i] = keys[i + 1]
    BY <1>1, HeadTailProperties
  <2>2. 1 \in 1 .. Len(rest) /\ 1 + 1 = 2
    BY <1>2
  <2> HIDE DEF rest
  <2>3. rest[1] = keys[1 + 1]
    BY <2>1, <2>2
  <2> QED
    BY <2>2, <2>3
<1> HIDE DEF rest, v
<1>4. rest # <<>>
  BY <1>2, EmptySeq
<1>5. Len(Tail(rest)) = 0 /\ getNested(v, rest) = getNested(Field(v, rest[1]), Tail(rest))
  BY <1>2, <1>4, NestedFirst
<1>6. getNested(Field(v, rest[1]), Tail(rest)) = Field(v, rest[1])
  BY <1>5, NestedNone
<1> QED
  BY <1>2, <1>3, <1>5, <1>6 DEF v

LEMMA WalkDead ==
  ASSUME NEW S, NEW f, NEW keys \in Seq(S), Len(keys) > 1, Lookup(f, keys[1]).t # "object"
  PROVE  getNested(Obj(f), keys) = Missing
<1> DEFINE rest == Tail(keys)
           v == Lookup(f, keys[1])
<1>1. keys # <<>> /\ Len(keys) \in Nat
  BY EmptySeq, LenProperties
<1>2. rest \in Seq(S) /\ Len(rest) = Len(keys) - 1 /\ getNested(Obj(f), keys) = getNested(v, rest)
  BY <1>1, WalkFirst
<1> HIDE DEF rest, v
<1>3. rest # <<>>
  BY <1>1, <1>2, EmptySeq
<1> QED
  BY <1>2, <1>3, NestedDead DEF v

LEMMA WalkNone ==
  ASSUME NEW S, NEW f, NEW keys \in Seq(S), keys # <<>>, Lookup(f, keys[1]) = Missing
  PROVE  getNested(Obj(f), keys) = Missing
<1>1. Len(keys) \in Nat /\ Len(keys) # 0
  BY LenProperties, EmptySeq
<1>2. CASE Len(keys) = 1
  BY <1>2, WalkShort
<1>3. CASE Len(keys) # 1
  <2>1. Len(keys) > 1
    BY <1>1, <1>3
  <2>2. Missing.t # "object"
    BY DEF Missing, Json
  <2>3. Lookup(f, keys[1]).t # "object"
    BY <2>2, Zenon
  <2> QED
    BY <2>1, <2>3, WalkDead
<1> QED
  BY <1>2, <1>3

LEMMA WalkFlat ==
  ASSUME NEW S, NEW f, NEW keys \in Seq(S), Len(keys) > 2, Flat(Lookup(f, keys[1]).f)
  PROVE  getNested(Obj(f), keys) = Missing
<1> DEFINE rest == Tail(keys)
           v == Lookup(f, keys[1])
<1>1. keys # <<>> /\ Len(keys) \in Nat
  BY EmptySeq, LenProperties
<1>2. rest \in Seq(S) /\ Len(rest) = Len(keys) - 1 /\ getNested(Obj(f), keys) = getNested(v, rest)
  BY <1>1, WalkFirst
<1>3. Flat(v.f)
  OBVIOUS
<1> HIDE DEF rest, v
<1>4. rest # <<>>
  BY <1>1, <1>2, EmptySeq
<1>5. /\ Tail(rest) \in Seq(S) /\ Len(Tail(rest)) = Len(rest) - 1
      /\ getNested(v, rest) = getNested(Field(v, rest[1]), Tail(rest))
  BY <1>2, <1>4, NestedFirst
<1>6. Tail(rest) # <<>>
  <2> DEFINE u == Tail(rest)
             n == Len(keys)
             l == Len(rest)
  <2>1. u \in Seq(S) /\ Len(u) = l - 1 /\ l = n - 1 /\ n \in Nat /\ n > 2
    BY <1>1, <1>2, <1>5
  <2> HIDE DEF u, n, l
  <2>2. Len(u) # 0
    BY <2>1
  <2>3. u # <<>>
    BY <2>1, <2>2, EmptySeq
  <2> QED
    BY <2>3 DEF u
<1>7. Field(v, rest[1]).t # "object"
  BY <1>3 DEF Field, Flat, Missing, Json
<1>8. getNested(Field(v, rest[1]), Tail(rest)) = Missing
  BY <1>5, <1>6, <1>7, NestedDead
<1> QED
  BY <1>2, <1>5, <1>8

(* A key that is spelled as a reserved word is that word. *)
LEMMA ReservedPath ==
  ASSUME NEW E, Alphabet(E), NEW ref, RefOver(ref, E), Plain(ref), ref.source = <<"event">>
  PROVE  /\ Dotted(ref.keys) \in Reserved <=> ref.keys[1] \in Reserved
         /\ Dotted(ref.keys) \in Reserved => Len(ref.keys) = 1 /\ Dotted(ref.keys) = ref.keys[1]
<1> DEFINE keys == ref.keys
           p == Dotted(keys)
<1>1. keys \in Seq(Seq(E)) /\ PlainKeys(keys) /\ Dots(E) /\ "name" \in E /\ "data" \in E
  BY DEF RefOver, Plain, Alphabet, Dots
<1>2. splitEscapedPath(p) = keys
  BY <1>1, DottedPlain
<1>3. ASSUME NEW x \in {"name", "data"}
      PROVE  Dotted(<<<<x>>>>) = <<x>> /\ splitEscapedPath(<<x>>) = <<<<x>>>>
  <2> DEFINE k == <<x>>
             one == <<k>>
  <2>1. x \in E /\ x # "." /\ x \notin Sign /\ x # "\\"
    BY <1>1 DEF Sign
  <2>2. k \in Seq(E) /\ Len(k) = 1 /\ k[1] = x /\ DOMAIN k = 1 .. 1 /\ k # <<>>
    BY <2>1
  <2>3. Writable(k)
    BY <2>1, <2>2 DEF Writable
  <2>4. Dotted(one) = k
    BY <1>1, <2>1, DottedWord
  <2> HIDE DEF k
  <2>5. one \in Seq(Seq(E)) /\ Len(one) = 1 /\ one[1] = k /\ DOMAIN one = 1 .. 1 /\ one # <<>>
    BY <2>2
  <2> HIDE DEF one
  <2>6. PlainKeys(one)
    BY <2>2, <2>3, <2>5 DEF PlainKeys, Last
  <2>7. splitEscapedPath(Dotted(one)) = one
    BY <1>1, <2>5, <2>6, DottedPlain
  <2> QED
    BY <2>4, <2>7 DEF one, k
<1>4. ASSUME NEW x \in {"name", "data"}, p = <<x>>
      PROVE  keys = <<<<x>>>>
  BY <1>2, <1>3, <1>4
<1>5. ASSUME NEW x \in {"name", "data"}, keys[1] = <<x>>
      PROVE  p = <<x>>
  <2>1. Len(keys) = 1
    BY <1>5 DEF Plain, Reaches, Reserved
  <2>2. keys = <<<<x>>>>
    <3> DEFINE one == <<<<x>>>>
    <3>1. one \in Seq(Seq(E)) /\ Len(one) = 1 /\ one[1] = <<x>>
      BY <1>1
    <3> HIDE DEF one, keys
    <3>2. \A i \in 1 .. Len(keys) : keys[i] = one[i]
      BY <1>5, <2>1, <3>1
    <3>3. keys = one
      BY <1>1, <2>1, <3>1, <3>2, SeqEqual
    <3> QED
      BY <3>3 DEF one
  <2> QED
    BY <1>3, <2>2
<1>6. Reserved = {<<x>> : x \in {"name", "data"}}
  BY DEF Reserved
<1>7. ASSUME p \in Reserved PROVE keys[1] = p /\ Len(keys) = 1
  <2>1. PICK x \in {"name", "data"} : p = <<x>>
    BY <1>6, <1>7
  <2>2. keys = <<<<x>>>>
    BY <1>4, <2>1
  <2> QED
    BY <2>1, <2>2
<1>8. ASSUME keys[1] \in Reserved PROVE p \in Reserved
  <2>1. PICK x \in {"name", "data"} : keys[1] = <<x>>
    BY <1>6, <1>8
  <2> QED
    BY <1>5, <1>8, <2>1
<1> QED
  BY <1>7, <1>8

(* Every source finds what a walk through its fields does. *)
LEMMA HadIsWalk ==
  ASSUME NEW E, Alphabet(E), NEW ref, RefOver(ref, E), Plain(ref),
         NEW src, IsSource(ref.source, src)
  PROVE  sourceGet(ref.source, src, Dotted(ref.keys), ref.keys) = Walk(ref.source, src, ref.keys)
<1> DEFINE name == ref.source
           keys == ref.keys
           p == Dotted(keys)
           n == Len(keys)
           k == keys[1]
           S == Seq(E)
           has == Lookup(src, k)
<1>1. keys \in Seq(S) /\ keys # <<>> /\ n \in Nat /\ n # 0 /\ n >= 1 /\ Reaches(ref)
  BY LenProperties, EmptySeq DEF RefOver, Plain, PlainKeys
<1>2. /\ Tail(keys) \in Seq(S) /\ Len(Tail(keys)) = n - 1
      /\ \A f : getNested(Obj(f), keys) = getNested(Lookup(f, k), Tail(keys))
  BY <1>1, WalkFirst
<1>3. n = 2 => Tail(keys)[1] = keys[2]
  <2>1. \A i \in 1 .. Len(Tail(keys)) : Tail(keys)[i] = keys[i + 1]
    BY <1>1, HeadTailProperties
  <2>2. n = 2 => 1 \in 1 .. Len(Tail(keys)) /\ 1 + 1 = 2
    <3>1. Len(Tail(keys)) = n - 1
      BY <1>2
    <3> DEFINE l == Len(Tail(keys))
    <3>2. l = n - 1
      BY <3>1
    <3> HIDE DEF n, l
    <3>3. n = 2 => 1 \in 1 .. l
      BY <3>2
    <3> QED
      BY <3>3 DEF l
  <2> HIDE DEF keys, n
  <2>3. n = 2 => Tail(keys)[1] = keys[1 + 1]
    BY <2>1, <2>2
  <2> QED
    BY <2>2, <2>3
<1>4. /\ name # <<"event">> => Fields(name, src) = src
      /\ ~(name = <<"request">> /\ k = <<"header">>) => Named(name, keys) = keys
  <2>1. name = <<"message">> => k # <<"header">>
    BY <1>1 DEF Reaches
  <2> QED
    BY <2>1 DEF Fields, Named
<1> HIDE DEF name, keys, p, n, k, S
<1>5. keys # <<>> /\ Len(keys) = n
  BY <1>1 DEF n
<1>6. sourceGet(name, src, p, keys) = Walk(name, src, keys)
  <2>1. CASE name = <<"state">>
    <3>1. sourceGet(name, src, p, keys) = getNested(has, Tail(keys))
      BY <1>1, <2>1 DEF sourceGet, StateGet, k
    <3> QED
      BY <1>2, <1>4, <2>1, <3>1 DEF Walk
  <2>2. CASE name \in {<<"env">>, <<"channel">>}
    <3>1. sourceGet(name, src, p, keys) = IF n # 1 THEN Missing ELSE has
      BY <1>5, <2>2 DEF sourceGet, FlatGet, k
    <3>2. Walk(name, src, keys) = getNested(Obj(src), keys)
      BY <1>4, <2>2 DEF Walk
    <3>3. n = 1 => getNested(Obj(src), keys) = has
      BY <1>1, WalkShort DEF n, k
    <3>4. has.t # "object"
      <4>1. Flat(src)
        BY <2>2 DEF IsSource, name
      <4> QED
        BY <4>1 DEF Lookup, Flat, Missing, Json
    <3>5. n # 1 => getNested(Obj(src), keys) = Missing
      <4>1. n # 1 => n > 1
        BY <1>1
      <4> QED
        BY <1>1, <3>4, <4>1, WalkDead DEF n, k
    <3> QED
      BY <3>1, <3>2, <3>3, <3>5
  <2>3. CASE name = <<"connection">>
    <3>1. sourceGet(name, src, p, keys) =
            IF k \in {<<"query">>, <<"header">>}
            THEN IF n = 2 THEN Field(has, keys[2]) ELSE Missing
            ELSE has
      BY <1>5, <2>3 DEF sourceGet, ConnectionGet, k
    <3>2. Walk(name, src, keys) = getNested(Obj(src), keys)
      BY <1>4, <2>3 DEF Walk
    <3>3. IF k \in {<<"query">>, <<"header">>} THEN n >= 2 ELSE n = 1
      BY <1>1, <2>3 DEF Reaches, name, k, n, keys
    <3>4. n = 1 => getNested(Obj(src), keys) = has
      BY <1>1, WalkShort DEF n, k
    <3>5. n = 2 => getNested(Obj(src), keys) = Field(has, keys[2])
      BY <1>1, WalkTwo DEF n, k
    <3>6. ASSUME n > 2, k \in {<<"query">>, <<"header">>}
          PROVE  getNested(Obj(src), keys) = Missing
      <4>1. CASE k \in DOMAIN src
        <5>1. has = src[k] /\ Flat(src[k].f)
          BY <2>3, <3>6, <4>1 DEF IsSource, name, Lookup
        <5> QED
          BY <1>1, <3>6, <5>1, WalkFlat DEF n, k
      <4>2. CASE k \notin DOMAIN src
        <5>1. has = Missing
          BY <4>2 DEF Lookup
        <5> QED
          BY <1>1, <5>1, WalkNone DEF k
      <4> QED
        BY <4>1, <4>2
    <3>7. n = 1 \/ n = 2 \/ n > 2
      BY <1>1
    <3> QED
      BY <3>1, <3>2, <3>3, <3>4, <3>5, <3>6, <3>7
  <2>4. CASE name = <<"message">>
    <3>1. n >= 2 /\ ~(n < 2)
      BY <1>1, <2>4 DEF Reaches, name, n, keys
    <3>2. sourceGet(name, src, p, keys) =
            CASE k = <<"payload">> -> getNested(has, Tail(keys))
              [] k = <<"headers">> /\ n = 2 -> Field(has, keys[2])
              [] OTHER -> Missing
      BY <1>5, <2>4, <3>1 DEF sourceGet, MessageGet, k
    <3>3. Walk(name, src, keys) = getNested(Obj(src), keys)
      BY <1>4, <2>4 DEF Walk
    <3>4. CASE k = <<"payload">>
      BY <1>2, <3>2, <3>3, <3>4
    <3>5. CASE k = <<"headers">>
      <4>1. n = 2 => getNested(Obj(src), keys) = Field(has, keys[2])
        BY <1>1, WalkTwo DEF n, k
      <4>2. ASSUME n > 2 PROVE getNested(Obj(src), keys) = Missing
        <5>1. CASE k \in DOMAIN src
          <6>1. has = src[k] /\ Flat(src[k].f)
            BY <2>4, <3>5, <5>1 DEF IsSource, name, Lookup
          <6> QED
            BY <1>1, <4>2, <6>1, WalkFlat DEF n, k
        <5>2. CASE k \notin DOMAIN src
          <6>1. has = Missing
            BY <5>2 DEF Lookup
          <6> QED
            BY <1>1, <6>1, WalkNone DEF k
        <5> QED
          BY <5>1, <5>2
      <4>3. n = 2 \/ n > 2
        BY <1>1, <3>1
      <4>4. <<"headers">> # <<"payload">>
        OBVIOUS
      <4> QED
        BY <3>2, <3>3, <3>5, <4>1, <4>2, <4>3, <4>4
    <3>6. CASE k \notin {<<"payload">>, <<"headers">>}
      <4>1. DOMAIN src \subseteq {<<"payload">>, <<"headers">>}
        BY <2>4 DEF IsSource, name
      <4>2. has = Missing
        BY <3>6, <4>1 DEF Lookup
      <4>3. getNested(Obj(src), keys) = Missing
        BY <1>1, <4>2, WalkNone DEF k
      <4> QED
        BY <3>2, <3>3, <3>6, <4>3
    <3> QED
      BY <3>4, <3>5, <3>6
  <2>5. CASE name = <<"request">>
    <3>1. n >= 2 /\ ~(n < 2) /\ (k # <<"body">> => n = 2)
      BY <1>1, <2>5 DEF Reaches, name, n, k, keys
    <3>2. sourceGet(name, src, p, keys) =
            CASE k = <<"body">>   -> getNested(has, Tail(keys))
              [] k = <<"header">> -> Field(has, ToLower(Join(Tail(keys))))
              [] OTHER            -> Field(has, Join(Tail(keys)))
      BY <1>5, <2>5, <3>1 DEF sourceGet, RequestGet, k
    <3>3. Walk(name, src, keys) = getNested(Obj(src), Named(name, keys))
      BY <1>4, <2>5 DEF Walk
    <3>4. n = 2 => Join(Tail(keys)) = keys[2]
      <4>1. n = 2 => Len(Tail(keys)) = 1 /\ Tail(keys) \in Seq(Seq(E))
        BY <1>2 DEF S
      <4> QED
        BY <1>3, <4>1, JoinOne
    <3>5. CASE k = <<"body">>
      BY <1>2, <1>4, <3>2, <3>3, <3>5
    <3>6. CASE k = <<"header">>
      <4> DEFINE named == Named(name, keys)
                 T == S \cup {ToLower(keys[2])}
      <4>1. n = 2 /\ DOMAIN keys = 1 .. 2 /\ k \in S
        BY <1>1, <3>1, <3>6, LenProperties, ElementOfSeq DEF n, k
      <4>2. named = [i \in 1 .. 2 |-> IF i = 2 THEN ToLower(keys[i]) ELSE keys[i]]
        BY <2>5, <3>6, <4>1 DEF Named, k
      <4>3. named \in Seq(T) /\ Len(named) = 2 /\ named[1] = k /\ named[2] = ToLower(keys[2])
        <5> DEFINE two == 2
        <5>1. two \in Nat /\ named \in [1 .. two -> T] /\ named[1] = k /\ named[2] = ToLower(keys[2])
          BY <4>1, <4>2 DEF k
        <5> HIDE DEF two, named, T
        <5>2. named \in Seq(T) /\ Len(named) = two
          BY <5>1, IsASeq
        <5> QED
          BY <5>1, <5>2 DEF two
      <4> HIDE DEF named, T
      <4>4. getNested(Obj(src), named) = Field(Lookup(src, named[1]), named[2])
        BY <4>3, WalkTwo
      <4>5. <<"header">> # <<"body">>
        OBVIOUS
      <4> QED
        BY <3>2, <3>3, <3>4, <3>6, <4>1, <4>3, <4>4, <4>5 DEF named
    <3>7. CASE k \notin {<<"body">>, <<"header">>}
      <4>1. getNested(Obj(src), keys) = Field(has, keys[2])
        BY <1>1, <3>1, <3>7, WalkTwo DEF n, k
      <4> QED
        BY <1>4, <3>1, <3>2, <3>3, <3>4, <3>7, <4>1
    <3> QED
      BY <3>5, <3>6, <3>7
  <2>6. CASE name = <<"event">>
    <3> DEFINE F == Fields(name, src)
               data == <<"data">>
               payload == src[data].f
    <3>1. /\ p \in Reserved <=> k \in Reserved
          /\ p \in Reserved => n = 1 /\ p = k
      BY <2>6, ReservedPath DEF name, p, k, n, keys
    <3>2. Walk(name, src, keys) = getNested(Obj(F), keys)
      BY <1>4, <2>6 DEF Walk
    <3>3. DOMAIN src \subseteq Reserved /\ (data \in DOMAIN src => src[data].t = "object")
      BY <2>6 DEF IsSource, name
    <3>4. /\ data \in DOMAIN src => F = [i \in DOMAIN src \cup (DOMAIN payload \ Reserved) |->
                                           IF i \in DOMAIN src THEN src[i] ELSE payload[i]]
          /\ data \notin DOMAIN src => F = src
      BY <2>6 DEF Fields
    <3>5. sourceGet(name, src, p, keys) =
            IF p \in Reserved THEN Lookup(src, p)
            ELSE IF Lookup(src, data) = Missing THEN Missing
            ELSE getNested(Lookup(payload, k), Tail(keys))
      BY <1>1, <2>6 DEF sourceGet, EventGet, StateGet, Reserved, k
    <3> HIDE DEF F, data, payload
    <3>6. CASE p \in Reserved
      <4>1. getNested(Obj(F), keys) = Lookup(F, k)
        BY <1>1, <3>1, <3>6, WalkShort DEF n, k
      <4>2. Lookup(F, k) = Lookup(src, k)
        BY <3>1, <3>4, <3>6 DEF Lookup
      <4> QED
        BY <3>1, <3>2, <3>5, <3>6, <4>1, <4>2
    <3>7. CASE p \notin Reserved
      <4>1. k \notin DOMAIN src
        BY <3>1, <3>3, <3>7
      <4>2. CASE data \in DOMAIN src
        <5>1. Lookup(src, data) # Missing
          BY <3>3, <4>2 DEF Lookup, Missing, Json
        <5>2. Lookup(F, k) = Lookup(payload, k)
          BY <3>1, <3>4, <3>7, <4>1, <4>2 DEF Lookup
        <5>3. getNested(Obj(F), keys) = getNested(Lookup(F, k), Tail(keys))
          BY <1>2
        <5> QED
          BY <3>2, <3>5, <3>7, <5>1, <5>2, <5>3
      <4>3. CASE data \notin DOMAIN src
        <5>1. Lookup(src, data) = Missing /\ Lookup(F, k) = Missing
          BY <3>4, <4>1, <4>3 DEF Lookup
        <5>2. getNested(Obj(F), keys) = Missing
          BY <1>1, <5>1, WalkNone DEF k
        <5> QED
          BY <3>2, <3>5, <3>7, <5>1, <5>2
      <4> QED
        BY <4>2, <4>3
    <3> QED
      BY <3>6, <3>7
  <2>7. name \in {<<"request">>, <<"state">>, <<"env">>, <<"channel">>, <<"connection">>, <<"message">>, <<"event">>}
    BY DEF IsSource, name
  <2> QED
    BY <2>1, <2>2, <2>3, <2>4, <2>5, <2>6, <2>7
<1> QED
  BY <1>6 DEF name, keys, p

TypedSources(sources) == \A name \in DOMAIN sources : IsSource(name, sources[name])

(* What the code takes for the value of a reference: a default stands in   *)
(* for nothing but what is missing, and no list is entered.                *)
Taken(ref, sources) ==
  IF ref.source \notin DOMAIN sources THEN Error
  ELSE LET found == Found(ref, sources)
           deep  == getNested(found, ref.arg)
       IN CASE ref.mod = "getByPath" -> IF deep = Missing THEN Error ELSE deep
            [] ref.mod = "default"   -> IF found = Missing THEN Str(ref.arg) ELSE found
            [] OTHER                 -> IF found = Missing THEN Null ELSE found

(* What is undisputed is taken for what it means. *)
LEMMA TakenIsMeant ==
  ASSUME NEW E, NEW ref, RefOver(ref, E), Plain(ref), NEW sources, Undisputed(ref, sources)
  PROVE  Taken(ref, sources) = Meaning(ref, sources)
<1> DEFINE found == Found(ref, sources)
<1>1. CASE ref.source \notin DOMAIN sources
  BY <1>1 DEF Taken, Meaning
<1>2. CASE ref.source \in DOMAIN sources /\ ref.mod = "getByPath"
  <2> DEFINE arg == ref.arg
             n == Len(arg)
             around == getNested(found, Front(arg))
  <2>1. arg \in Seq(Seq(E)) /\ arg # <<>>
    BY <1>2 DEF Plain, PlainKeys, RefOver
  <2>2. n \in Nat /\ n # 0
    BY <2>1, LenProperties, EmptySeq
  <2>3. Front(arg) = SubSeq(arg, 1, n - 1)
    BY DEF Front
  <2>4. \A i \in 0 .. n - 1 : getNested(found, SubSeq(arg, 1, i)).t # "list"
    BY <1>2 DEF Undisputed
  <2>5. n - 1 \in 0 .. n - 1
    BY <2>2
  <2> HIDE DEF n
  <2>6. around.t # "list"
    BY <2>3, <2>4, <2>5
  <2>7. PartOf(found, arg) = getNested(found, arg)
    BY <2>6 DEF PartOf
  <2> HIDE DEF found
  <2> QED
    BY <1>2, <2>7 DEF Taken, Meaning, found
<1>3. CASE ref.source \in DOMAIN sources /\ ref.mod = "default"
  <2>1. found = Missing \/ ~Empty(found)
    BY <1>3 DEF Undisputed
  <2>2. found = Missing => Empty(found)
    BY DEF Empty
  <2> HIDE DEF found
  <2> QED
    BY <1>3, <2>1, <2>2 DEF Taken, Meaning, found
<1>4. CASE ref.source \in DOMAIN sources /\ ref.mod = "none"
  BY <1>4 DEF Taken, Meaning
<1> QED
  BY <1>1, <1>2, <1>3, <1>4 DEF Plain

(* What the code makes of a spelled reference. *)
LEMMA EvaluateTakes ==
  ASSUME NEW E, Alphabet(E), NEW ref, RefOver(ref, E), Plain(ref), NEW sources, TypedSources(sources)
  PROVE  Evaluate(Spell(ref), sources) = Taken(ref, sources)
<1> DEFINE s == ref.source
           had == Had(ref, sources)
           found == Walk(s, sources[s], ref.keys)
           deep == getNested(found, ref.arg)
           e == Evaluate(Spell(ref), sources)
<1>1. e = IF s \notin DOMAIN sources \/ had = Error THEN Error ELSE Applied(had, ref)
  BY EvaluateSpelled
<1>2. CASE s \notin DOMAIN sources
  BY <1>1, <1>2 DEF Taken
<1>3. CASE s \in DOMAIN sources
  <2>1. had = found
    BY <1>3, HadIsWalk DEF Had, TypedSources
  <2>2. Taken(ref, sources) =
          CASE ref.mod = "getByPath" -> IF deep = Missing THEN Error ELSE deep
            [] ref.mod = "default"   -> IF found = Missing THEN Str(ref.arg) ELSE found
            [] OTHER                 -> IF found = Missing THEN Null ELSE found
    BY <1>3 DEF Taken, Found
  <2>3. Error # Missing
    BY DEF Error, Missing, Json
  <2>4. ref.mod \in {"none", "default", "getByPath"}
    BY DEF Plain
  <2>5. CASE ref.mod = "none"
    <3>1. Applied(found, ref) = IF found = Missing THEN Null ELSE found
      BY <2>5 DEF Applied
    <3> QED
      BY <1>1, <1>3, <2>1, <2>2, <2>3, <2>5, <3>1
  <2>6. CASE ref.mod = "default"
    <3>1. Applied(found, ref) = IF found = Missing THEN Str(ref.arg) ELSE found
      BY <2>6 DEF Applied
    <3> QED
      BY <1>1, <1>3, <2>1, <2>2, <2>3, <2>6, <3>1
  <2>7. CASE ref.mod = "getByPath"
    <3> DEFINE v == IF found = Missing THEN Null ELSE found
    <3>1. ref.arg \in Seq(Seq(E)) /\ ref.arg # <<>>
      BY <2>7 DEF Plain, PlainKeys, RefOver
    <3>2. \A x : x.t # "object" => getNested(x, ref.arg) = Missing
      BY <3>1, NestedDead
    <3>3. Missing.t # "object" /\ Null.t # "object" /\ Error.t # "object"
      BY DEF Missing, Null, Error, Json
    <3>4. /\ getNested(Missing, ref.arg) = Missing /\ getNested(Null, ref.arg) = Missing
          /\ getNested(Error, ref.arg) = Missing
      BY <3>2, <3>3
    <3>5. Applied(found, ref) = IF getNested(v, ref.arg) = Missing THEN Error ELSE getNested(v, ref.arg)
      BY <2>7, <3>1 DEF Applied, getByPath
    <3>6. Taken(ref, sources) = IF deep = Missing THEN Error ELSE deep
      BY <2>2, <2>7
    <3>7. CASE found = Missing
      BY <1>1, <1>3, <2>1, <2>3, <3>4, <3>5, <3>6, <3>7
    <3>8. CASE found = Error
      BY <1>1, <1>3, <2>1, <3>4, <3>6, <3>8
    <3>9. CASE found # Error /\ found # Missing
      BY <1>1, <1>3, <2>1, <3>5, <3>6, <3>9
    <3> QED
      BY <3>7, <3>8, <3>9
  <2> QED
    BY <2>4, <2>5, <2>6, <2>7
<1> QED
  BY <1>2, <1>3

LEMMA TextAlphabet == Alphabet(Token)
BY TokenAssumption DEF Alphabet

LEMMA ReferenceOver ==
  ASSUME NEW ref, IsReferenceTo(ref)
  PROVE  RefOver(ref, Token)
BY Zenon DEF IsReferenceTo, RefOver

LEMMA EvaluateReference ==
  ASSUME NEW ref, IsReferenceTo(ref), Plain(ref),
         NEW sources, TypedSources(sources), Undisputed(ref, sources)
  PROVE  Evaluate(Spell(ref), sources) = Meaning(ref, sources)
BY Zenon, ReferenceOver, TextAlphabet, EvaluateTakes, TakenIsMeant

(* What is between the braces has none. *)
LEMMA BodySealed ==
  ASSUME NEW E, Alphabet(E), NEW ref, RefOver(ref, E), Plain(ref)
  PROVE  PathOf(ref) \o SuffixOf(ref) \in Seq(E \ {"{$", "}"})
<1> DEFINE D == E \ {"{$", "}"}
<1>1. E \ Sign \subseteq D
  BY DEF Sign
<1>2. Seq(E \ Sign) \subseteq Seq(D)
  BY <1>1, SeqMonotonic
<1>3. Words(D)
  BY DEF Words, Alphabet
<1>4. PathOf(ref) \in Seq(D)
  BY <1>2, PathParsed
<1>5. RefOver(ref, D)
  <2>1. ref.keys \in Seq(Seq(D))
    <3>1. ref.keys \in Seq(Seq(E \ Sign))
      BY KeysOver DEF RefOver, Plain
    <3>2. Seq(Seq(E \ Sign)) \subseteq Seq(Seq(D))
      <4> DEFINE A == Seq(E \ Sign)
                 B == Seq(D)
      <4>1. A \subseteq B
        BY <1>2
      <4> HIDE DEF A, B
      <4>2. Seq(A) \subseteq Seq(B)
        BY <4>1, SeqMonotonic
      <4> QED
        BY <4>2 DEF A, B
    <3> QED
      BY <3>1, <3>2
  <2>2. ref.source \in Seq(D)
    <3>1. ref.source \in Seq(E) /\ Len(ref.source) = 1 /\ ref.source[1] \notin Sign
      BY DEF RefOver
    <3>2. Writable(ref.source)
      BY <3>1, LenProperties DEF Writable
    <3>3. ref.source \in Seq(E \ Sign)
      BY <3>1, <3>2, WritableOver
    <3> QED
      BY <1>2, <3>3
  <2>3. ref.mod = "default" => ref.arg \in Seq(D)
    <3>1. SUFFICES ASSUME ref.mod = "default" PROVE ref.arg \in Seq(D)
      OBVIOUS
    <3>2. ref.arg \in Seq(E \ Sign)
      BY <3>1, WritableOver DEF RefOver, Plain
    <3> QED
      BY <1>2, <3>2
  <2>4. ref.mod = "getByPath" => ref.arg \in Seq(Seq(D))
    <3>1. SUFFICES ASSUME ref.mod = "getByPath" PROVE ref.arg \in Seq(Seq(D))
      OBVIOUS
    <3>2. ref.arg \in Seq(Seq(E \ Sign))
      BY <3>1, KeysOver DEF RefOver, Plain
    <3>3. Seq(Seq(E \ Sign)) \subseteq Seq(Seq(D))
      <4> DEFINE A == Seq(E \ Sign)
                 B == Seq(D)
      <4>1. A \subseteq B
        BY <1>2
      <4> HIDE DEF A, B
      <4>2. Seq(A) \subseteq Seq(B)
        BY <4>1, SeqMonotonic
      <4> QED
        BY <4>2 DEF A, B
    <3> QED
      BY <3>2, <3>3
  <2>5. Len(ref.source) = 1 /\ ref.source[1] \notin Sign \cup {"."}
    BY DEF RefOver
  <2> HIDE DEF D
  <2> QED
    BY <2>1, <2>2, <2>3, <2>4, <2>5 DEF RefOver
<1>6. SuffixOf(ref) \in Seq(D)
  <2> HIDE DEF D
  <2> QED
    BY <1>3, <1>5, ModifierTypes
<1> HIDE DEF D
<1>7. PathOf(ref) \o SuffixOf(ref) \in Seq(D)
  BY <1>4, <1>6, ConcatProperties
<1> QED
  BY <1>7 DEF D

(* A reference is spelled as one expression, its source behind the brace. *)
LEMMA SpellIsFull ==
  ASSUME NEW E, Alphabet(E), NEW ref, RefOver(ref, E), Plain(ref)
  PROVE  isFullExpression(Spell(ref)) /\ Spell(ref)[2] = ref.source[1]
<1> DEFINE open == "{$"
           close == "}"
           b == PathOf(ref) \o SuffixOf(ref)
           t == Spell(ref)
           n == Len(b)
<1>1. open \in E /\ close \in E /\ open # close
  BY DEF Alphabet
<1>2. t = <<open>> \o b \o <<close>>
  BY SpellParsed
<1>3. b \in Seq(E \ {open})
  <2> DEFINE D == E \ {open, close}
             F == E \ {open}
  <2>1. b \in Seq(D)
    BY BodySealed
  <2>2. D \subseteq F
    OBVIOUS
  <2> HIDE DEF D, F, b
  <2>3. b \in Seq(F)
    BY <2>1, <2>2, SeqMonotonic
  <2> QED
    BY <2>3 DEF F
<1>4. b[1] = ref.source[1] /\ n >= 1
  <2> DEFINE s == ref.source
             d == <<".">>
             p == Dotted(ref.keys)
             x == SuffixOf(ref)
  <2>1. s \in Seq(E) /\ Len(s) = 1
    BY DEF RefOver
  <2>2. d \in Seq(E) /\ Len(d) = 1
    <3> DEFINE dot == "."
    <3>1. dot \in E
      BY DEF Alphabet
    <3>2. <<dot>> \in Seq(E) /\ Len(<<dot>>) = 1
      <4> HIDE DEF dot
      <4> QED
        BY <3>1
    <3> QED
      BY <3>2
  <2>3. p \in Seq(E) /\ x \in Seq(E)
    <3>1. Dots(E) /\ Words(E)
      BY DEF Dots, Alphabet, Words
    <3> QED
      BY <3>1, DottedPlain, OverIsWritable, ModifierTypes DEF RefOver, Plain
  <2>4. b = s \o d \o p \o x
    BY DEF PathOf
  <2> HIDE DEF s, d, p, x, b
  <2>5. s \o d \in Seq(E) /\ Len(s \o d) = 2 /\ (s \o d)[1] = s[1]
    BY <2>1, <2>2, ConcatProperties, SMTT(30)
  <2>6. /\ s \o d \o p \in Seq(E) /\ Len(s \o d \o p) = 2 + Len(p) /\ Len(p) \in Nat
        /\ (s \o d \o p)[1] = s[1]
    BY <2>3, <2>5, ConcatProperties, LenProperties
  <2>7. Len(b) = 2 + Len(p) + Len(x) /\ Len(x) \in Nat /\ b[1] = s[1]
    BY <2>3, <2>4, <2>6, ConcatProperties, LenProperties
  <2> QED
    BY <2>6, <2>7 DEF s
<1> HIDE DEF b, t
<1>5. /\ b \in Seq(E) /\ n \in Nat /\ \A i \in 1 .. n : b[i] # open
  <2> DEFINE D == E \ {open}
  <2>1. D \subseteq E /\ b \in Seq(D)
    BY <1>3
  <2> HIDE DEF D
  <2>2. b \in Seq(E) /\ n \in Nat /\ \A i \in 1 .. n : b[i] \in D
    BY <2>1, SeqMonotonic, LenProperties, ElementOfSeq
  <2> QED
    BY <2>2 DEF D
<1> HIDE DEF open, close
<1>6. /\ t # <<>> /\ Head(t) = open /\ Last(t) = close /\ t \in Seq(E) /\ Len(t) = n + 2
      /\ \A i \in 1 .. n + 2 : t[i] = IF i = 1 THEN open ELSE IF i = n + 2 THEN close ELSE b[i - 1]
  <2> DEFINE w == <<open>> \o b \o <<close>>
  <2>1. /\ w \in Seq(E) /\ Len(w) = Len(b) + 2
        /\ w # <<>> /\ Head(w) = open /\ Last(w) = close
    BY <1>1, <1>5, Bracketed
  <2>2. \A i \in 1 .. Len(b) + 2 : w[i] = IF i = 1 THEN open ELSE IF i = Len(b) + 2 THEN close ELSE b[i - 1]
    <3>1. open \in E /\ close \in E /\ b \in Seq(E)
      BY <1>1, <1>5
    <3> QED
      BY <3>1, Bracketed
  <2> HIDE DEF w
  <2> QED
    BY <1>2, <2>1, <2>2, Zenon DEF w
<1> HIDE DEF n
<1>7. t[2] = b[1]
  BY <1>4, <1>5, <1>6
<1>8. Places(t, open) = {1}
  <2>1. DOMAIN t = 1 .. n + 2
    BY <1>6, LenProperties
  <2>2. \A i \in 1 .. n + 2 : t[i] = open <=> i = 1
    <3> SUFFICES ASSUME NEW i \in 1 .. n + 2, i # 1 PROVE t[i] # open
      BY <1>5, <1>6
    <3>1. CASE i = n + 2
      BY <1>1, <1>5, <1>6, <3>1
    <3>2. CASE i # n + 2
      <4>1. i - 1 \in 1 .. n
        BY <1>5, <3>2
      <4> QED
        BY <1>5, <1>6, <3>2, <4>1
    <3> QED
      BY <3>1, <3>2
  <2> QED
    BY <1>5, <2>1, <2>2 DEF Places
<1>9. Cardinality(Places(t, open)) = 1
  BY <1>8, FS_Singleton
<1> QED
  BY <1>4, <1>6, <1>7, <1>9, Zenon DEF isFullExpression, open, close, t

-----------------------------------------------------------------------------
(* What a condition compares with. *)
Other(x, sources) ==
  IF Compares(x) THEN Meaning(CHOOSE r \in x.ref2 : TRUE, sources) ELSE CondOf(x)

LEMMA ReferenceIsFull ==
  ASSUME NEW ref, IsReferenceTo(ref), Plain(ref)
  PROVE  isFullExpression(Spell(ref)) /\ Spell(ref)[2] = ref.source[1]
BY Zenon, ReferenceOver, TextAlphabet, SpellIsFull

LEMMA NewContext ==
  ASSUME NEW ref, IsReferenceTo(ref), Plain(ref)
  PROVE  referencesNewMatchContext(Spell(ref)) <=> ref.source \in {<<"event">>, <<"connection">>}
<1>1. Spell(ref)[2] = ref.source[1]
  BY ReferenceIsFull
<1>2. ref.source \in Seq(Token) /\ Len(ref.source) = 1
  BY Zenon DEF IsReferenceTo
<1> DEFINE s == ref.source
<1>3. ASSUME NEW w, s[1] = w PROVE s = <<w>>
  <2> HIDE DEF s
  <2>1. DOMAIN s = 1 .. 1 /\ s = [i \in 1 .. 1 |-> s[i]]
    BY <1>2, LenProperties DEF s
  <2> QED
    BY <1>3, <2>1
<1>4. ASSUME NEW w, s = <<w>> PROVE s[1] = w
  BY <1>4
<1> HIDE DEF s
<1>5. s[1] \in {"event", "connection"} <=> s \in {<<"event">>, <<"connection">>}
  BY <1>3, <1>4
<1> QED
  BY <1>1, <1>5 DEF referencesNewMatchContext, s

(* Both sides of a condition are what they mean. *)
LEMMA SidesMean ==
  ASSUME NEW x, NEW sources, IsCondition(x), PlainCondition(x, sources), TypedSources(sources)
  PROVE  /\ Evaluate(Spell(x.ref), sources) = Meaning(x.ref, sources)
         /\ Resolved(x, sources) = Other(x, sources)
<1>1. /\ IsReferenceTo(x.ref) /\ Plain(x.ref) /\ Undisputed(x.ref, sources)
      /\ \A r \in x.ref2 : IsReferenceTo(r) /\ Plain(r) /\ Undisputed(r, sources)
  BY Zenon DEF IsCondition, PlainCondition
<1>2. Evaluate(Spell(x.ref), sources) = Meaning(x.ref, sources)
  BY <1>1, EvaluateReference
<1>3. referencesNewMatchContext(Spell(x.ref)) <=> x.ref.source \in {<<"event">>, <<"connection">>}
  BY <1>1, NewContext
<1>4. CASE x.ref2 = {}
  <2>1. x.cond.t = "string" => ~isFullExpression(x.cond.v)
    BY <1>4, Zenon DEF IsCondition
  <2> QED
    BY <1>2, <1>4, <2>1 DEF Resolved, Other, CondOf, Compares
<1>5. CASE x.ref2 # {}
  <2> DEFINE r == CHOOSE q \in x.ref2 : TRUE
  <2>1. r \in x.ref2
    BY <1>5
  <2>2. IsReferenceTo(r) /\ Plain(r) /\ Undisputed(r, sources)
    BY <1>1, <2>1
  <2> HIDE DEF r
  <2>3. isFullExpression(Spell(r)) /\ Evaluate(Spell(r), sources) = Meaning(r, sources)
    BY <2>2, ReferenceIsFull, EvaluateReference
  <2>4. CondOf(x) = Str(Spell(r))
    BY <1>5 DEF CondOf, r
  <2>5. CondOf(x).t = "string" /\ CondOf(x).v = Spell(r)
    BY <2>4 DEF Str, Json
  <2>6. Resolved(x, sources) = IF x.ref.source \in {<<"event">>, <<"connection">>}
                               THEN Meaning(r, sources) ELSE CondOf(x)
    BY <1>3, <2>3, <2>5 DEF Resolved
  <2>7. Other(x, sources) = IF x.ref.source \in {<<"event">>, <<"connection">>}
                            THEN Meaning(r, sources) ELSE CondOf(x)
    BY <1>5 DEF Other, Compares, r
  <2> QED
    BY <1>2, <2>6, <2>7
<1> QED
  BY <1>4, <1>5

(* A condition is taken for a schema if it is one, and compared otherwise. *)
LEMMA VerdictMeans ==
  ASSUME NEW x, NEW sources, IsCondition(x), PlainCondition(x, sources), TypedSources(sources),
         NEW value, value = Evaluate(Spell(x.ref), sources),
         NEW cond, cond = Resolved(x, sources)
  PROVE  /\ isSchema(value, cond) =>
              /\ x.cond.t = "schema"
              /\ Holds(x, sources) <=> x.cond.v \notin Broken /\ value.t \in Accepts[x.cond.v]
         /\ ~isSchema(value, cond) => (Compared(value, cond) <=> Holds(x, sources))
<1>1. value = Meaning(x.ref, sources) /\ cond = Other(x, sources)
  BY SidesMean
<1>2. Holds(x, sources) <=>
        /\ value # Error /\ cond # Error
        /\ IF cond.t = "schema" THEN Fits(x.ref, value, cond.v) ELSE equalJSON(value, cond)
  BY <1>1 DEF Holds, Other
<1>3. Error.t # "schema"
  BY DEF Error, Json
<1>4. ~isSchema(value, cond) => (Compared(value, cond) <=> Holds(x, sources))
  BY <1>2 DEF isSchema, Compared
<1>5. ASSUME isSchema(value, cond)
      PROVE  cond = x.cond /\ cond.t = "schema" /\ value # Error
  <2>1. value # Error /\ cond.t \in {"schema", "object"}
    BY <1>5 DEF isSchema
  <2>2. CASE x.ref2 = {}
    <3>1. cond = x.cond
      BY <1>1, <2>2 DEF Other, Compares, CondOf
    <3>2. x.cond.t # "object"
      BY <2>2, Zenon DEF IsCondition
    <3> QED
      BY <2>1, <3>1, <3>2
  <2>3. CASE x.ref2 # {} /\ Compares(x)
    <3>1. (CHOOSE r \in x.ref2 : TRUE) \in x.ref2
      BY <2>3
    <3>2. cond.t \notin {"object", "schema"}
      BY <1>1, <2>3, <3>1 DEF Other, PlainCondition
    <3> QED
      BY <2>1, <3>2
  <2>4. CASE x.ref2 # {} /\ ~Compares(x)
    <3>1. cond = Str(Spell(CHOOSE r \in x.ref2 : TRUE))
      BY <1>1, <2>4 DEF Other, CondOf
    <3> QED
      BY <2>1, <3>1 DEF Str, Json
  <2> QED
    BY <2>2, <2>3, <2>4
<1>6. ASSUME isSchema(value, cond)
      PROVE  /\ x.cond.t = "schema"
             /\ Holds(x, sources) <=> x.cond.v \notin Broken /\ value.t \in Accepts[x.cond.v]
  <2>1. cond = x.cond /\ cond.t = "schema" /\ value # Error
    BY <1>5, <1>6
  <2>2. ~MeantAsNumber(x.ref, value, x.cond.v)
    BY <1>1, <2>1 DEF PlainCondition, TypedParameter
  <2>3. Fits(x.ref, value, x.cond.v) <=> x.cond.v \notin Broken /\ value.t \in Accepts[x.cond.v]
    BY <2>2 DEF Fits
  <2> QED
    BY <1>2, <1>3, <2>1, <2>3
<1> QED
  BY <1>4, <1>6

-----------------------------------------------------------------------------
(* The requests keep their conditions.                                     *)
RequestShape ==
  /\ scene \in Scene
  /\ call \in [Call -> [pc : {"asked", "missed", "compiled", "done"}, key : Key]]
  /\ DOMAIN req = Call
  /\ \A c \in Call :
       /\ req[c] = [pc |-> req[c].pc, todo |-> req[c].todo, value |-> req[c].value, body |-> req[c].body,
                    rest |-> req[c].rest, read |-> req[c].read, headers |-> req[c].headers]
       /\ req[c].todo \subseteq ExampleOf(c).match

Looked(c) == ExampleOf(c).match \ req[c].todo
Held(c, conditions) == \A x \in conditions : Holds(x, SourcesOf(c))

(* What is known of the conditions that have been looked at: all of them   *)
(* hold, but for a schema whose verdict is open: the cache has been asked  *)
(* for it.                                                                 *)
Awaits(c, x) ==
  /\ x.cond.t = "schema" /\ call[c].key = x.cond.v
  /\ Holds(x, SourcesOf(c)) <=> x.cond.v \notin Broken /\ req[c].value.t \in Accepts[x.cond.v]
  /\ Held(c, Looked(c) \ {x})

Established(c) ==
  /\ req[c].pc = "match" => Held(c, Looked(c))
  /\ req[c].pc = "schema" => \E x \in Looked(c) : Awaits(c, x)
  /\ req[c].pc \in {"headers", "sent", "failed"} => Held(c, ExampleOf(c).match)
  /\ req[c].pc = "mismatch" => ~Held(c, ExampleOf(c).match)

PlainMatch(c) == \A x \in ExampleOf(c).match : PlainCondition(x, SourcesOf(c))

MatchInv ==
  /\ RequestShape
  /\ \A c \in Call : PlainMatch(c) => Established(c)

LEMMA SceneFacts ==
  ASSUME scene \in Scene, NEW c \in Call
  PROVE  /\ \A x \in ExampleOf(c).match : IsCondition(x)
         /\ TypedSources(SourcesOf(c))
<1>1. scene.example[c] \in DOMAIN scene.of
  BY SceneAssumption
<1> QED
  BY <1>1, SceneAssumption DEF ExampleOf, SourcesOf, TypedSources, IsExample

(* The cache is asked for keys. *)
LEMMA AsksForAKey ==
  ASSUME NEW x, IsCondition(x)
  PROVE  keyOf(x) \in Key
BY ObjectAssumption DEF keyOf, IsCondition

(* Nothing that is known of a request is lost while it stays as it is. *)
LEMMA KnownStays ==
  ASSUME NEW c, UNCHANGED scene, req'[c] = req[c], call'[c].key = call[c].key, PlainMatch(c) => Established(c)
  PROVE  (PlainMatch(c) => Established(c))'
BY DEF PlainMatch, Established, Held, Looked, Awaits, ExampleOf, SourcesOf

LEMMA MatchStarts ==
  ASSUME MatchInit
  PROVE  MatchInv
<1>1. scene \in Scene
  BY DEF MatchInit
<1>2. call \in [Call -> [pc : {"asked", "missed", "compiled", "done"}, key : Key]]
  BY CacheAssumption DEF MatchInit, CacheInit
<1>3. /\ DOMAIN req = Call
      /\ \A c \in Call : req[c] = [pc |-> "match", todo |-> ExampleOf(c).match, value |-> Null, body |-> Null,
                                   rest |-> {}, read |-> <<>>, headers |-> <<>>]
  BY DEF MatchInit
<1>4. RequestShape
  BY <1>1, <1>2, <1>3 DEF RequestShape
<1>5. \A c \in Call : Established(c)
  <2> SUFFICES ASSUME NEW c \in Call PROVE Established(c)
    OBVIOUS
  <2>1. req[c].pc = "match" /\ Looked(c) = {}
    BY <1>3 DEF Looked
  <2> QED
    BY <2>1 DEF Established, Held
<1> QED
  BY <1>4, <1>5 DEF MatchInv

(* One look at a condition. *)
LEMMA LooksAtOne ==
  ASSUME MatchInv, NEW c \in Call, NEW x \in req[c].todo, MatchCondition(c, x)
  PROVE  MatchInv'
<1> DEFINE value == Evaluate(Spell(x.ref), SourcesOf(c))
           cond == Resolved(x, SourcesOf(c))
           next == IF isSchema(value, cond) THEN "schema" ELSE IF Compared(value, cond) THEN "match" ELSE "mismatch"
<1>1. /\ UNCHANGED scene /\ req[c].pc = "match"
      /\ req' = [req EXCEPT ![c].todo = @ \ {x}, ![c].value = value, ![c].pc = next]
      /\ IF isSchema(value, cond) THEN call' = [call EXCEPT ![c] = [pc |-> "asked", key |-> keyOf(x)]]
                                  ELSE UNCHANGED call
  BY DEF MatchCondition, Ask, cacheVars
<1>2. RequestShape
  BY DEF MatchInv
<1> HIDE DEF value, cond, next
<1>3. /\ req'[c] = [pc |-> next, todo |-> req[c].todo \ {x}, value |-> value, body |-> req[c].body,
                    rest |-> req[c].rest, read |-> req[c].read, headers |-> req[c].headers]
      /\ DOMAIN req' = Call /\ \A d \in Call : d # c => req'[d] = req[d]
  <2> DEFINE left == req[c].todo \ {x}
             one == [req EXCEPT ![c].todo = left]
             two == [one EXCEPT ![c].value = value]
  <2>1. req' = [two EXCEPT ![c].pc = next]
    BY <1>1
  <2>2. /\ DOMAIN one = Call /\ \A d \in Call : d # c => one[d] = req[d]
        /\ one[c] = [pc |-> req[c].pc, todo |-> left, value |-> req[c].value, body |-> req[c].body,
                     rest |-> req[c].rest, read |-> req[c].read, headers |-> req[c].headers]
    <3>1. /\ DOMAIN req = Call
          /\ req[c] = [pc |-> req[c].pc, todo |-> req[c].todo, value |-> req[c].value, body |-> req[c].body,
                       rest |-> req[c].rest, read |-> req[c].read, headers |-> req[c].headers]
      BY <1>2 DEF RequestShape
    <3> HIDE DEF left
    <3> QED
      BY <3>1
  <2> HIDE DEF one
  <2>3. /\ DOMAIN two = Call /\ \A d \in Call : d # c => two[d] = req[d]
        /\ two[c] = [pc |-> req[c].pc, todo |-> left, value |-> value, body |-> req[c].body,
                     rest |-> req[c].rest, read |-> req[c].read, headers |-> req[c].headers]
    BY <2>2
  <2> HIDE DEF two, left
  <2>4. /\ req'[c] = [pc |-> next, todo |-> left, value |-> value, body |-> req[c].body,
                      rest |-> req[c].rest, read |-> req[c].read, headers |-> req[c].headers]
        /\ DOMAIN req' = Call /\ \A d \in Call : d # c => req'[d] = req[d]
    BY <2>1, <2>3
  <2> QED
    BY <2>4 DEF left
<1>4. RequestShape'
  <2>1. ASSUME NEW d \in Call
        PROVE  /\ req'[d] = [pc |-> req'[d].pc, todo |-> req'[d].todo, value |-> req'[d].value, body |-> req'[d].body,
                              rest |-> req'[d].rest, read |-> req'[d].read, headers |-> req'[d].headers]
               /\ req'[d].todo \subseteq ExampleOf(d).match
    <3>1. CASE d = c
      <4>1. req'[c].todo \subseteq ExampleOf(c).match
        BY <1>2, <1>3 DEF RequestShape
      <4> QED
        BY <1>3, <3>1, <4>1
    <3>2. CASE d # c
      BY <1>2, <1>3, <3>2 DEF RequestShape
    <3> QED
      BY <3>1, <3>2
  <2> QED
    <3>1. IsCondition(x)
      BY <1>2, SceneFacts DEF RequestShape
    <3>2. call' \in [Call -> [pc : {"asked", "missed", "compiled", "done"}, key : Key]]
      BY <1>1, <1>2, <3>1, AsksForAKey DEF RequestShape
    <3> QED
      BY <1>1, <1>2, <1>3, <2>1, <3>2 DEF RequestShape, ExampleOf
<1>5. ASSUME PlainMatch(c)' PROVE Established(c)'
  <2>1. PlainMatch(c) /\ Established(c)
    BY <1>1, <1>5 DEF PlainMatch, MatchInv, ExampleOf, SourcesOf
  <2>2. x \in ExampleOf(c).match /\ IsCondition(x) /\ PlainCondition(x, SourcesOf(c)) /\ TypedSources(SourcesOf(c))
    BY <1>2, <2>1, SceneFacts DEF RequestShape, PlainMatch
  <2>3. /\ isSchema(value, cond) =>
             /\ x.cond.t = "schema"
             /\ Holds(x, SourcesOf(c)) <=> x.cond.v \notin Broken /\ value.t \in Accepts[x.cond.v]
        /\ ~isSchema(value, cond) => (Compared(value, cond) <=> Holds(x, SourcesOf(c)))
    BY <2>2, VerdictMeans DEF value, cond
  <2>4. Held(c, Looked(c))
    BY <1>1, <2>1 DEF Established
  <2>5. Looked(c)' = Looked(c) \cup {x} /\ ExampleOf(c)' = ExampleOf(c) /\ SourcesOf(c)' = SourcesOf(c)
    BY <1>1, <1>3, <2>2 DEF Looked, ExampleOf, SourcesOf
  <2>6. req'[c].pc = next /\ req'[c].value = value
    BY <1>3
  <2>7. CASE isSchema(value, cond)
    <3>1. next = "schema"
      BY <2>7 DEF next
    <3>2. call'[c].key = x.cond.v
      BY <1>1, <1>2, <2>3, <2>7 DEF keyOf, RequestShape
    <3>3. Awaits(c, x)'
      BY <2>3, <2>4, <2>5, <2>6, <2>7, <3>2 DEF Awaits, Held
    <3> QED
      BY <2>5, <2>6, <3>1, <3>3 DEF Established
  <2>8. CASE ~isSchema(value, cond) /\ Compared(value, cond)
    <3>1. next = "match" /\ Holds(x, SourcesOf(c))
      BY <2>3, <2>8 DEF next
    <3> QED
      BY <2>4, <2>5, <2>6, <3>1 DEF Established, Held
  <2>9. CASE ~isSchema(value, cond) /\ ~Compared(value, cond)
    <3>1. next = "mismatch" /\ ~Holds(x, SourcesOf(c))
      BY <2>3, <2>9 DEF next
    <3> QED
      BY <2>2, <2>5, <2>6, <3>1 DEF Established, Held
  <2> QED
    BY <2>7, <2>8, <2>9
<1>6. ASSUME NEW d \in Call, d # c PROVE (PlainMatch(d) => Established(d))'
  <2>1. call'[d].key = call[d].key
    BY <1>1, <1>2, <1>6 DEF RequestShape
  <2> QED
    BY <1>1, <1>3, <1>6, <2>1, KnownStays DEF MatchInv
<1> QED
  BY <1>4, <1>5, <1>6 DEF MatchInv

(* The cache leaves requests alone. *)
LEMMA CacheLeaves ==
  ASSUME MatchInv, NEW c \in Call, SchemaStep(c)
  PROVE  MatchInv'
<1>1. UNCHANGED <<scene, req>>
  BY DEF SchemaStep, matchVars
<1>2. PICK p \in {"asked", "missed", "compiled", "done"} : call' = [call EXCEPT ![c].pc = p]
  BY DEF SchemaStep, Get, Compile, Put
<1>3. RequestShape'
  <2>1. call \in [Call -> [pc : {"asked", "missed", "compiled", "done"}, key : Key]]
    BY DEF MatchInv, RequestShape
  <2>2. /\ call' \in [Call -> [pc : {"asked", "missed", "compiled", "done"}, key : Key]]
        /\ \A d \in Call : call'[d].key = call[d].key
    BY <1>2, <2>1
  <2> QED
    BY <1>1, <2>2 DEF MatchInv, RequestShape, ExampleOf
<1>4. \A d \in Call : (PlainMatch(d) => Established(d))'
  <2>1. \A d \in Call : call'[d].key = call[d].key
    BY <1>2 DEF MatchInv, RequestShape
  <2> QED
    BY <1>1, <2>1, KnownStays DEF MatchInv
<1> QED
  BY <1>3, <1>4 DEF MatchInv

(* The verdict on a schema is that of the schema that was looked at. *)
LEMMA VerdictIsOfTheSchema ==
  ASSUME MatchInv, NEW c \in Call, SchemaVerdict(c)
  PROVE  MatchInv'
<1> DEFINE next == IF call[c].key \notin Broken /\ req[c].value.t \in Accepts[call[c].key] THEN "match" ELSE "mismatch"
<1>1. UNCHANGED <<scene, call>> /\ req[c].pc = "schema" /\ req' = [req EXCEPT ![c].pc = next]
  BY DEF SchemaVerdict, cacheVars
<1>2. RequestShape
  BY DEF MatchInv
<1> HIDE DEF next
<1>3. /\ req'[c] = [pc |-> next, todo |-> req[c].todo, value |-> req[c].value, body |-> req[c].body,
                    rest |-> req[c].rest, read |-> req[c].read, headers |-> req[c].headers]
      /\ DOMAIN req' = Call /\ \A d \in Call : d # c => req'[d] = req[d]
  BY <1>1, <1>2 DEF RequestShape
<1>4. RequestShape'
  BY <1>1, <1>2, <1>3 DEF RequestShape, ExampleOf
<1>5. ASSUME PlainMatch(c)' PROVE Established(c)'
  <2>1. PlainMatch(c) /\ Established(c)
    BY <1>1, <1>5 DEF PlainMatch, MatchInv, ExampleOf, SourcesOf
  <2>2. PICK x \in Looked(c) : Awaits(c, x)
    BY <1>1, <2>1 DEF Established
  <2>3. x \in ExampleOf(c).match /\ x.cond.t = "schema"
    BY <2>2 DEF Looked, Awaits
  <2>4. call[c].key = x.cond.v
    BY <2>2 DEF Awaits
  <2>5. next = IF Holds(x, SourcesOf(c)) THEN "match" ELSE "mismatch"
    BY <2>2, <2>4 DEF next, Awaits
  <2>6. Held(c, Looked(c) \ {x})
    BY <2>2 DEF Awaits
  <2>7. Looked(c)' = Looked(c) /\ ExampleOf(c)' = ExampleOf(c) /\ SourcesOf(c)' = SourcesOf(c)
    BY <1>1, <1>3 DEF Looked, ExampleOf, SourcesOf
  <2>8. req'[c].pc = next
    BY <1>3
  <2> QED
    BY <2>2, <2>3, <2>5, <2>6, <2>7, <2>8 DEF Established, Held
<1>6. ASSUME NEW d \in Call, d # c PROVE (PlainMatch(d) => Established(d))'
  BY <1>1, <1>3, <1>6, KnownStays DEF MatchInv
<1> QED
  BY <1>4, <1>5, <1>6 DEF MatchInv

(* Changes of a request that leave its conditions alone. *)
IsRequest(r) ==
  r = [pc |-> r.pc, todo |-> r.todo, value |-> r.value, body |-> r.body,
       rest |-> r.rest, read |-> r.read, headers |-> r.headers]

Moved(f, g, c, now) ==
  /\ DOMAIN g = Call /\ IsRequest(g[c]) /\ g[c].todo = f[c].todo /\ g[c].pc = now
  /\ \A d \in Call : d # c => g[d] = f[d]

LEMMA MovesByField ==
  ASSUME NEW f, DOMAIN f = Call, NEW c \in Call, IsRequest(f[c]), NEW v
  PROVE  /\ Moved(f, [f EXCEPT ![c].pc = v], c, v)
         /\ Moved(f, [f EXCEPT ![c].body = v], c, f[c].pc)
         /\ Moved(f, [f EXCEPT ![c].rest = v], c, f[c].pc)
         /\ Moved(f, [f EXCEPT ![c].read = v], c, f[c].pc)
         /\ Moved(f, [f EXCEPT ![c].headers = v], c, f[c].pc)
<1>1. Moved(f, [f EXCEPT ![c].pc = v], c, v)
  BY DEF Moved, IsRequest
<1>2. Moved(f, [f EXCEPT ![c].body = v], c, f[c].pc)
  BY DEF Moved, IsRequest
<1>3. Moved(f, [f EXCEPT ![c].rest = v], c, f[c].pc)
  BY DEF Moved, IsRequest
<1>4. Moved(f, [f EXCEPT ![c].read = v], c, f[c].pc)
  BY DEF Moved, IsRequest
<1>5. Moved(f, [f EXCEPT ![c].headers = v], c, f[c].pc)
  BY DEF Moved, IsRequest
<1> QED
  BY <1>1, <1>2, <1>3, <1>4, <1>5

LEMMA MovesOn ==
  ASSUME NEW f, NEW g, NEW h, NEW c, NEW p, NEW q, Moved(f, g, c, p), Moved(g, h, c, q)
  PROVE  Moved(f, h, c, q)
BY DEF Moved

(* Once every condition has been looked at, the rest of a request's way    *)
(* does not touch what is known of them.                                   *)
LEMMA AnsweringKeeps ==
  ASSUME MatchInv, NEW c \in Call, UNCHANGED <<scene, call>>, NEW p, Moved(req, req', c, p),
         p \in {"headers", "sent", "failed"},
         req[c].pc = "headers" \/ (req[c].pc = "match" /\ req[c].todo = {})
  PROVE  MatchInv'
<1>1. RequestShape'
  <2>1. ASSUME NEW d \in Call
        PROVE  IsRequest(req'[d]) /\ req'[d].todo \subseteq ExampleOf(d).match
    <3>1. IsRequest(req[d]) /\ req[d].todo \subseteq ExampleOf(d).match
      BY DEF MatchInv, RequestShape, IsRequest
    <3> QED
      BY <3>1 DEF Moved
  <2>2. DOMAIN req' = Call
    BY DEF Moved
  <2> QED
    BY <2>1, <2>2 DEF MatchInv, RequestShape, IsRequest, ExampleOf
<1>2. ASSUME PlainMatch(c)' PROVE Established(c)'
  <2>1. PlainMatch(c) /\ Established(c)
    BY <1>2 DEF PlainMatch, MatchInv, ExampleOf, SourcesOf
  <2>2. Held(c, ExampleOf(c).match)
    BY <2>1 DEF Established, Looked
  <2>3. req'[c].pc = p
    BY DEF Moved
  <2> QED
    BY <2>2, <2>3 DEF Established, Held, ExampleOf, SourcesOf
<1>3. ASSUME NEW d \in Call, d # c PROVE (PlainMatch(d) => Established(d))'
  <2>1. req'[d] = req[d]
    BY <1>3 DEF Moved
  <2> QED
    BY <2>1, KnownStays DEF MatchInv
<1> QED
  BY <1>1, <1>2, <1>3 DEF MatchInv

LEMMA AnswersKeep ==
  ASSUME MatchInv, NEW c \in Call,
         \/ GenerateBody(c) \/ (\E h \in req[c].rest : ReadHeader(c, h)) \/ WriteHeader(c) \/ Respond(c)
  PROVE  MatchInv'
<1>1. DOMAIN req = Call /\ IsRequest(req[c])
  BY DEF MatchInv, RequestShape, IsRequest
<1>2. CASE GenerateBody(c)
  <2>1. PICK body : 
          req' = [req EXCEPT ![c].pc   = IF body = Error THEN "failed" ELSE "headers",
                             ![c].body = body,
                             ![c].rest = IF ExampleOf(c).dynamic THEN DOMAIN ExampleOf(c).headers ELSE {}]
    BY <1>2 DEF GenerateBody
  <2> DEFINE p == IF body = Error THEN "failed" ELSE "headers"
             r == IF ExampleOf(c).dynamic THEN DOMAIN ExampleOf(c).headers ELSE {}
             one == [req EXCEPT ![c].pc = p]
             two == [one EXCEPT ![c].body = body]
             three == [two EXCEPT ![c].rest = r]
  <2>2. req' = three
    BY <2>1
  <2>3. p \in {"headers", "sent", "failed"}
    OBVIOUS
  <2> HIDE DEF p, r
  <2>4. Moved(req, one, c, p)
    BY <1>1, MovesByField
  <2> HIDE DEF one
  <2>5. DOMAIN one = Call /\ IsRequest(one[c]) /\ one[c].pc = p
    BY <2>4 DEF Moved
  <2>6. Moved(one, two, c, p)
    BY <2>5, MovesByField
  <2> HIDE DEF two
  <2>7. DOMAIN two = Call /\ IsRequest(two[c]) /\ two[c].pc = p
    BY <2>6 DEF Moved
  <2>8. Moved(two, three, c, p)
    BY <2>7, MovesByField
  <2> HIDE DEF three
  <2>9. Moved(req, req', c, p)
    BY <2>2, <2>4, <2>6, <2>8, MovesOn
  <2> QED
    BY <1>2, <2>3, <2>9, AnsweringKeeps DEF GenerateBody, cacheVars
<1>3. ASSUME NEW h \in req[c].rest, ReadHeader(c, h) PROVE MatchInv'
  <2> DEFINE w == <<h, shared[scene.example[c]][h]>>
             left == req[c].rest \ {h}
             one == [req EXCEPT ![c].read = w]
             two == [one EXCEPT ![c].rest = left]
  <2>0. req[c].pc = "headers" /\ UNCHANGED <<scene, call>>
    BY <1>3 DEF ReadHeader, cacheVars
  <2>1. req' = two
    <3>1. one[c].rest = req[c].rest
      BY <1>1 DEF IsRequest
    <3>2. req' = [one EXCEPT ![c].rest = one[c].rest \ {h}]
      BY <1>3 DEF ReadHeader
    <3> QED
      BY <3>1, <3>2
  <2> HIDE DEF w, left
  <2>2. Moved(req, one, c, "headers")
    <3>1. Moved(req, one, c, req[c].pc)
      BY <1>1, MovesByField
    <3> QED
      BY <3>1, <2>0
  <2> HIDE DEF one
  <2>3. DOMAIN one = Call /\ IsRequest(one[c]) /\ one[c].pc = "headers"
    BY <2>2 DEF Moved
  <2>4. Moved(one, two, c, "headers")
    <3>1. Moved(one, two, c, one[c].pc)
      BY <2>3, MovesByField
    <3> QED
      BY <3>1, <2>3
  <2> HIDE DEF two
  <2>5. Moved(req, req', c, "headers")
    BY <2>1, <2>2, <2>4, MovesOn
  <2> QED
    BY <2>0, <2>5, AnsweringKeeps
<1>4. CASE WriteHeader(c)
  <2>1. /\ req[c].pc = "headers" /\ UNCHANGED <<scene, call>>
        /\ req' = [req EXCEPT ![c].read = <<>>]
    BY <1>4 DEF WriteHeader, cacheVars
  <2>2. Moved(req, req', c, "headers")
    <3>1. Moved(req, req', c, req[c].pc)
      BY <1>1, <2>1, MovesByField
    <3> QED
      BY <3>1, <2>1
  <2> QED
    BY <2>1, <2>2, AnsweringKeeps
<1>5. CASE Respond(c)
  <2>1. /\ req[c].pc = "headers" /\ UNCHANGED <<scene, call>>
        /\ \E v : req' = [req EXCEPT ![c].pc = "sent", ![c].headers = v]
    BY <1>5 DEF Respond, cacheVars
  <2>2. PICK v : req' = [req EXCEPT ![c].pc = "sent", ![c].headers = v]
    BY <2>1
  <2> DEFINE one == [req EXCEPT ![c].pc = "sent"]
             two == [one EXCEPT ![c].headers = v]
  <2>3. req' = two
    BY <2>2
  <2>4. Moved(req, one, c, "sent")
    BY <1>1, MovesByField
  <2> HIDE DEF one
  <2>5. DOMAIN one = Call /\ IsRequest(one[c]) /\ one[c].pc = "sent"
    BY <2>4 DEF Moved
  <2>6. Moved(one, two, c, "sent")
    <3>1. Moved(one, two, c, one[c].pc)
      BY <2>5, MovesByField
    <3> QED
      BY <3>1, <2>5
  <2> HIDE DEF two
  <2>7. Moved(req, req', c, "sent")
    BY <2>3, <2>4, <2>6, MovesOn
  <2> QED
    BY <2>1, <2>7, AnsweringKeeps
<1> QED
  BY <1>2, <1>3, <1>4, <1>5

LEMMA MatchStutters ==
  ASSUME MatchInv, UNCHANGED <<scene, call, req>>
  PROVE  MatchInv'
<1>1. RequestShape'
  BY DEF MatchInv, RequestShape, ExampleOf
<1>2. \A d \in Call : (PlainMatch(d) => Established(d))'
  BY KnownStays DEF MatchInv
<1> QED
  BY <1>1, <1>2 DEF MatchInv

LEMMA MatchKeeps ==
  ASSUME MatchInv, [MatchNext]_allVars
  PROVE  MatchInv'
<1>1. CASE UNCHANGED allVars
  <2>1. UNCHANGED <<scene, call, req>>
    BY <1>1 DEF allVars, cacheVars, matchVars
  <2> QED
    BY <2>1, MatchStutters
<1>2. ASSUME NEW c \in Call, MapRace(c) PROVE MatchInv'
  <2>1. UNCHANGED <<scene, call, req>>
    BY <1>2 DEF MapRace, cacheVars
  <2> QED
    BY <2>1, MatchStutters
<1>3. CASE MatchNext
  BY <1>2, <1>3, LooksAtOne, CacheLeaves, VerdictIsOfTheSchema, AnswersKeep DEF MatchNext
<1> QED
  BY <1>1, <1>3

(* (EvaluateParamsMatch) A request is answered only if all conditions of   *)
(* its example hold of it, and turned away only if one does not: of every  *)
(* example whose conditions are plain for its sources, whatever the        *)
(* schemas and whatever other requests do.                                 *)
THEOREM MatchingMeansAll == MatchSpec => []MatchMeansAll
<1>1. MatchInit => MatchInv
  BY MatchStarts
<1>2. MatchInv /\ [MatchNext]_allVars => MatchInv'
  BY MatchKeeps
<1>3. MatchInv => MatchMeansAll
  <2> SUFFICES ASSUME MatchInv, NEW c \in Call, PlainMatch(c)
               PROVE  /\ req[c].pc \in {"headers", "sent", "failed"} =>
                           \A x \in ExampleOf(c).match : Holds(x, SourcesOf(c))
                      /\ req[c].pc = "mismatch" => \E x \in ExampleOf(c).match : ~Holds(x, SourcesOf(c))
    BY DEF MatchMeansAll, PlainMatch, Decided
  <2>1. Established(c)
    BY DEF MatchInv
  <2> QED
    BY <2>1 DEF Established, Held
<1> QED
  BY <1>1, <1>2, <1>3, PTL DEF MatchSpec

(* (getCachedSchema) The requests use the cache of schemas as its calls    *)
(* do: what the cache promises holds of them.                              *)
THEOREM MatchingUsesTheCache == MatchSpec => CacheSpec
<1>1. MatchInit => CacheInit /\ MatchInv
  BY MatchStarts DEF MatchInit
<1>2. MatchInv /\ [MatchNext]_allVars => MatchInv'
  BY MatchKeeps
<1>3. MatchInv /\ [MatchNext]_allVars => [CacheNext]_cacheVars
  <2> SUFFICES ASSUME MatchInv, [MatchNext]_allVars PROVE [CacheNext]_cacheVars
    OBVIOUS
  <2>1. ASSUME UNCHANGED allVars PROVE UNCHANGED cacheVars
    BY <2>1 DEF allVars
  <2>2. ASSUME NEW c \in Call, SchemaStep(c) PROVE CacheNext
    BY <2>2 DEF SchemaStep, CacheNext
  <2>3. ASSUME NEW c \in Call, NEW x \in req[c].todo, MatchCondition(c, x) PROVE [CacheNext]_cacheVars
    <3>1. IsCondition(x)
      BY SceneFacts DEF MatchInv, RequestShape
    <3>2. keyOf(x) \in Key
      BY <3>1, AsksForAKey
    <3>3. Ask(c, keyOf(x)) \/ UNCHANGED cacheVars
      BY <2>3 DEF MatchCondition
    <3> QED
      BY <3>2, <3>3 DEF CacheNext
  <2>4. ASSUME MatchNext PROVE [CacheNext]_cacheVars
    BY <2>2, <2>3, <2>4 DEF MatchNext, SchemaVerdict, GenerateBody, ReadHeader, WriteHeader, MapRace, Respond
  <2> QED
    BY <2>1, <2>4
<1> QED
  BY <1>1, <1>2, <1>3, PTL DEF MatchSpec, CacheSpec

-----------------------------------------------------------------------------
(* Texts are taken apart at an opening sign o and a closing sign c.        *)
OpensIn(t, from, o) == {i \in from .. Len(t) : t[i] = o}

ClosesAt(t, start, o, c) ==
  {j \in start + 1 .. Len(t) :
     /\ t[j] = c
     /\ Cardinality({i \in start .. j : t[i] = o}) = Cardinality({i \in start .. j : t[i] = c})}

(* The last n characters: where they and their first expression begin, and *)
(* where that ends.                                                        *)
FromOf(t, n) == Len(t) - n + 1
StartOf(t, n, o) == Min(OpensIn(t, FromOf(t, n), o))
EndOf(t, n, o, c) == Min(ClosesAt(t, StartOf(t, n, o), o, c))

Stops(t, n, o, c) == OpensIn(t, FromOf(t, n), o) = {} \/ ClosesAt(t, StartOf(t, n, o), o, c) = {}

ValueIn(expr, sources) == Replaced(expr, Evaluate(expr, sources))

ReplaceStep(t, sources, f, n, o, c) ==
  IF Stops(t, n, o, c) THEN SubSeq(t, FromOf(t, n), Len(t))
  ELSE SubSeq(t, FromOf(t, n), StartOf(t, n, o) - 1)
         \o ValueIn(SubSeq(t, StartOf(t, n, o), EndOf(t, n, o, c)), sources)
         \o f[Behind(t, EndOf(t, n, o, c))]

ReplaceUpTo(t, sources, f, m, o, c) == f = [n \in 0 .. m |-> ReplaceStep(t, sources, f, n, o, c)]

LEMMA MinLeast ==
  ASSUME NEW S, S \subseteq Nat, S # {}
  PROVE  Min(S) \in S /\ \A i \in S : Min(S) <= i
<1>1. \E m \in S : \A i \in S : m <= i
  BY LeastNumber
<1> QED
  BY <1>1, Zenon DEF Min

(* What is behind an expression is less than what was left. *)
LEMMA JumpsBack ==
  ASSUME NEW E, NEW t \in Seq(E), NEW o, NEW c, NEW n \in 0 .. Len(t), ~Stops(t, n, o, c)
  PROVE  /\ StartOf(t, n, o) \in FromOf(t, n) .. Len(t) /\ t[StartOf(t, n, o)] = o
         /\ EndOf(t, n, o, c) \in StartOf(t, n, o) + 1 .. Len(t)
         /\ Behind(t, EndOf(t, n, o, c)) \in 0 .. n - 1
<1> DEFINE from == FromOf(t, n)
           start == StartOf(t, n, o)
           end == EndOf(t, n, o, c)
<1>1. Len(t) \in Nat /\ from \in 1 .. Len(t) + 1 /\ from = Len(t) - n + 1
  BY LenProperties DEF FromOf
<1>2. OpensIn(t, from, o) # {} /\ ClosesAt(t, start, o, c) # {}
  BY DEF Stops
<1>3. start \in OpensIn(t, from, o)
  <2>1. OpensIn(t, from, o) \subseteq Nat
    BY <1>1 DEF OpensIn
  <2> QED
    BY <1>2, <2>1, MinLeast DEF StartOf
<1>4. start \in from .. Len(t) /\ t[start] = o
  BY <1>3 DEF OpensIn
<1>5. end \in ClosesAt(t, start, o, c)
  <2>1. ClosesAt(t, start, o, c) \subseteq Nat
    BY <1>1, <1>4 DEF ClosesAt
  <2> QED
    BY <1>2, <2>1, MinLeast DEF EndOf
<1>6. end \in start + 1 .. Len(t)
  BY <1>5 DEF ClosesAt
<1> HIDE DEF from, start, end
<1>7. Behind(t, end) \in 0 .. n - 1
  BY <1>1, <1>4, <1>6 DEF Behind
<1> QED
  BY <1>4, <1>6, <1>7 DEF from, start, end

(* The recursive function in replaceEmbeddedExpressions exists. *)
LEMMA ReplaceExists ==
  ASSUME NEW E, NEW t \in Seq(E), NEW sources, NEW o, NEW c
  PROVE  \A m \in 0 .. Len(t) : \E f : ReplaceUpTo(t, sources, f, m, o, c)
<1>0. Len(t) \in Nat
  BY LenProperties
<1> DEFINE T == {m \in 0 .. Len(t) : ~\E f : ReplaceUpTo(t, sources, f, m, o, c)}
<1>1. SUFFICES ASSUME T # {} PROVE FALSE
  OBVIOUS
<1>2. PICK m \in T : \A k \in T : m <= k
  <2>1. T \in SUBSET Nat
    BY <1>0
  <2> HIDE DEF T
  <2> QED
    BY <1>1, <2>1, LeastNumber
<1>3. PICK f : \A n \in 0 .. m - 1 : f[n] = ReplaceStep(t, sources, f, n, o, c)
  <2>1. CASE m = 0
    BY <2>1
  <2>2. CASE m # 0
    <3>1. m - 1 \in 0 .. Len(t) /\ m - 1 \notin T
      BY <1>0, <1>2, <2>2
    <3>2. PICK f : ReplaceUpTo(t, sources, f, m - 1, o, c)
      BY <3>1
    <3> QED
      BY <3>2 DEF ReplaceUpTo
  <2> QED
    BY <2>1, <2>2
<1> DEFINE g == [n \in 0 .. m |-> IF n = m THEN ReplaceStep(t, sources, f, n, o, c) ELSE f[n]]
<1>4. ASSUME NEW n \in 0 .. m PROVE g[n] = ReplaceStep(t, sources, g, n, o, c)
  <2>1. n \in 0 .. Len(t) /\ m \in Nat
    BY <1>0
  <2>2. ~Stops(t, n, o, c) => g[Behind(t, EndOf(t, n, o, c))] = f[Behind(t, EndOf(t, n, o, c))]
    <3> SUFFICES ASSUME ~Stops(t, n, o, c)
                 PROVE  g[Behind(t, EndOf(t, n, o, c))] = f[Behind(t, EndOf(t, n, o, c))]
      OBVIOUS
    <3> DEFINE j == Behind(t, EndOf(t, n, o, c))
    <3>1. j \in 0 .. n - 1
      BY <2>1, JumpsBack
    <3> HIDE DEF j
    <3>2. j \in 0 .. m /\ j # m
      BY <2>1, <3>1
    <3>3. g[j] = f[j]
      BY <3>2
    <3> QED
      BY <3>3 DEF j
  <2>3. ReplaceStep(t, sources, g, n, o, c) = ReplaceStep(t, sources, f, n, o, c)
    <3> HIDE DEF g
    <3> QED
      BY <2>2 DEF ReplaceStep
  <2>4. n # m => f[n] = ReplaceStep(t, sources, f, n, o, c)
    BY <1>3, <2>1
  <2> QED
    BY <2>3, <2>4
<1>5. ReplaceUpTo(t, sources, g, m, o, c)
  <2>1. g = [n \in 0 .. m |-> g[n]]
    OBVIOUS
  <2> HIDE DEF g
  <2> QED
    BY <1>4, <2>1 DEF ReplaceUpTo
<1> QED
  BY <1>5

LEMMA ReplaceUnfold ==
  ASSUME NEW E, NEW t \in Seq(E), NEW sources
  PROVE  \E f : /\ \A n \in 0 .. Len(t) : f[n] = ReplaceStep(t, sources, f, n, "{$", "}")
                /\ replaceEmbeddedExpressions(t, sources) = f[Len(t)]
<1> DEFINE F == CHOOSE f : ReplaceUpTo(t, sources, f, Len(t), "{$", "}")
<1>1. ReplaceUpTo(t, sources, F, Len(t), "{$", "}")
  <2>1. \E f : ReplaceUpTo(t, sources, f, Len(t), "{$", "}")
    <3>1. Len(t) \in 0 .. Len(t)
      BY LenProperties
    <3> DEFINE o == "{$"
               c == "}"
    <3> HIDE DEF o, c
    <3>2. \E f : ReplaceUpTo(t, sources, f, Len(t), o, c)
      BY <3>1, ReplaceExists
    <3> QED
      BY <3>2 DEF o, c
  <2> QED
    BY <2>1, Zenon
<1>2. replaceEmbeddedExpressions(t, sources) = F[Len(t)]
  BY Zenon DEF replaceEmbeddedExpressions, ReplaceUpTo, ReplaceStep, Stops, FromOf, StartOf, EndOf, OpensIn,
               ClosesAt, closings, ValueIn
<1> HIDE DEF F
<1>3. \A n \in 0 .. Len(t) : F[n] = ReplaceStep(t, sources, F, n, "{$", "}")
  <2> DEFINE o == "{$"
             c == "}"
  <2> HIDE DEF o, c
  <2>1. F = [n \in 0 .. Len(t) |-> ReplaceStep(t, sources, F, n, o, c)]
    BY <1>1 DEF ReplaceUpTo, o, c
  <2>2. \A n \in 0 .. Len(t) : F[n] = ReplaceStep(t, sources, F, n, o, c)
    BY <2>1
  <2> QED
    BY <2>2 DEF o, c
<1> QED
  BY <1>2, <1>3

(* The parts of a text: those that open nothing, and expressions without   *)
(* braces between theirs.                                                  *)
OpensNothing(p, o) == \A i \in 1 .. Len(p) : p[i] # o

SealedBy(p, o, c) ==
  /\ Len(p) >= 2 /\ p[1] = o /\ p[Len(p)] = c
  /\ \A i \in 2 .. Len(p) - 1 : p[i] # o /\ p[i] # c

IsPiece(p, o, c) == OpensNothing(p, o) \/ SealedBy(p, o, c)

Became(p, sources, o) == IF OpensNothing(p, o) THEN p ELSE ValueIn(p, sources)

(* f replaces; what it makes of the last n characters is a text, and so    *)
(* are the parts that it is put together from.                             *)
Replacing(t, sources, f, o, c) == \A n \in 0 .. Len(t) : f[n] = ReplaceStep(t, sources, f, n, o, c)

TextAt(t, sources, f, n, o, c, E) ==
  /\ f[n] \in Seq(E)
  /\ ~Stops(t, n, o, c) => /\ ValueIn(SubSeq(t, StartOf(t, n, o), EndOf(t, n, o, c)), sources) \in Seq(E)
                           /\ f[Behind(t, EndOf(t, n, o, c))] \in Seq(E)

(* p stands before the last n characters. *)
StandsBefore(t, p, n) ==
  /\ n + Len(p) <= Len(t)
  /\ \A m \in 1 .. Len(p) : t[Len(t) - n - Len(p) + m] = p[m]

LEMMA LiteralReplaced ==
  ASSUME NEW E, NEW o \in E, NEW c \in E, NEW t \in Seq(E), NEW sources, NEW f,
         Replacing(t, sources, f, o, c), NEW n \in Nat, NEW p \in Seq(E), StandsBefore(t, p, n),
         OpensNothing(p, o), TextAt(t, sources, f, n, o, c, E)
  PROVE  f[n + Len(p)] = p \o f[n] /\ TextAt(t, sources, f, n + Len(p), o, c, E)
<1> DEFINE m == n + Len(p)
           N == Len(t)
           from == FromOf(t, n)
           start == StartOf(t, n, o)
           end == EndOf(t, n, o, c)
<1>1. /\ Len(p) \in Nat /\ N \in Nat /\ m \in 0 .. N /\ n \in 0 .. N
      /\ from = N - n + 1 /\ FromOf(t, m) = N - m + 1 /\ from = FromOf(t, m) + Len(p)
  BY LenProperties DEF StandsBefore, FromOf
<1>2. \A i \in FromOf(t, m) .. from - 1 : t[i] = p[i - FromOf(t, m) + 1] /\ t[i] # o
  <2> SUFFICES ASSUME NEW i \in FromOf(t, m) .. from - 1
               PROVE  t[i] = p[i - FromOf(t, m) + 1] /\ t[i] # o
    OBVIOUS
  <2> DEFINE g == FromOf(t, m)
             k == i - g + 1
  <2>0. g \in Nat /\ from = g + Len(p) /\ N - n - Len(p) = g - 1 /\ i \in g .. from - 1
    <3>1. g = N - (n + Len(p)) + 1
      BY <1>1
    <3> QED
      BY <1>1, <3>1
  <2> HIDE DEF g, m, N, from
  <2>1. k \in 1 .. Len(p) /\ N - n - Len(p) + k = i
    BY <1>1, <2>0
  <2> HIDE DEF k
  <2>2. t[i] = p[k] /\ p[k] # o
    BY <2>1 DEF StandsBefore, OpensNothing, N
  <2> QED
    BY <2>2 DEF k, g
<1>3. OpensIn(t, FromOf(t, m), o) = OpensIn(t, from, o)
  <2> HIDE DEF m, from
  <2> QED
    BY <1>1, <1>2 DEF OpensIn
<1>4. StartOf(t, m, o) = start /\ EndOf(t, m, o, c) = end /\ (Stops(t, m, o, c) <=> Stops(t, n, o, c))
  BY <1>3, Zenon DEF StartOf, EndOf, Stops
<1>5. f[m] = ReplaceStep(t, sources, f, m, o, c) /\ f[n] = ReplaceStep(t, sources, f, n, o, c)
  BY <1>1 DEF Replacing
(* The stretch before i is p and what is before it in the last n.          *)
<1>6. ASSUME NEW i \in from - 1 .. N
      PROVE  /\ SubSeq(t, FromOf(t, m), i) = p \o SubSeq(t, from, i)
             /\ SubSeq(t, from, i) \in Seq(E)
  <2> DEFINE g == FromOf(t, m)
             w == SubSeq(t, g, i)
             v == SubSeq(t, from, i)
  <2>0. g \in Nat /\ from \in Nat /\ 1 <= g /\ from = g + Len(p) /\ from <= i + 1
    BY <1>1
  <2>1. w \in Seq(E) /\ Len(w) = i + 1 - g /\ \A k \in 1 .. i + 1 - g : w[k] = t[g + k - 1]
    <3>1. \A k \in g .. i : t[k] \in E
      BY <1>1, <2>0, ElementOfSeq
    <3> HIDE DEF g, N, from, m
    <3>2. i \in Int /\ g \in Int
      BY <1>1, <2>0
    <3> QED
      BY <1>1, <2>0, <3>1, <3>2, SubSeqProperties
  <2>2. v \in Seq(E) /\ Len(v) = i + 1 - from /\ \A k \in 1 .. i + 1 - from : v[k] = t[from + k - 1]
    <3>1. \A k \in from .. i : t[k] \in E
      BY <1>1, <2>0, ElementOfSeq
    <3> HIDE DEF g, N, from, m
    <3>2. i \in Int /\ from \in Int
      BY <1>1, <2>0
    <3> QED
      BY <1>1, <2>0, <3>1, <3>2, SubSeqProperties
  <2> HIDE DEF w, v
  <2>3. /\ p \o v \in Seq(E) /\ Len(p \o v) = Len(p) + Len(v)
        /\ \A k \in 1 .. Len(p) + Len(v) : (p \o v)[k] = IF k <= Len(p) THEN p[k] ELSE v[k - Len(p)]
    BY <2>2, ConcatProperties
  <2> HIDE DEF g, N, from, m
  <2>4. Len(w) = Len(p \o v)
    BY <1>1, <2>0, <2>1, <2>2, <2>3
  <2>5. ASSUME NEW k \in 1 .. Len(w) PROVE w[k] = (p \o v)[k]
    <3>0. /\ k \in Nat /\ 1 <= k /\ k <= i + 1 - g /\ i \in Nat /\ g \in Nat /\ from \in Nat
          /\ from = g + Len(p) /\ Len(p) \in Nat
      <4>1. i + 1 - g \in Nat /\ Len(w) = i + 1 - g /\ i \in Nat
        BY <1>1, <2>0, <2>1, SMTT(30)
      <4> QED
        BY <1>1, <2>0, <4>1
    <3>1. CASE k <= Len(p)
      <4>1. g + k - 1 \in g .. from - 1 /\ g + k - 1 - g + 1 = k
        BY <3>0, <3>1
      <4>2. t[g + k - 1] = p[k]
        <5> DEFINE j == g + k - 1
        <5> HIDE DEF j
        <5>1. j \in g .. from - 1 /\ j - g + 1 = k
          BY <3>0, <4>1 DEF j
        <5>2. t[j] = p[j - g + 1]
          BY <1>2, <5>1 DEF g
        <5> QED
          BY <5>1, <5>2 DEF j
      <4> QED
        BY <1>1, <2>0, <2>1, <2>2, <2>3, <2>4, <3>1, <4>2
    <3>2. CASE ~(k <= Len(p))
      <4>1. k - Len(p) \in 1 .. i + 1 - from /\ from + (k - Len(p)) - 1 = g + k - 1
        BY <3>0, <3>2
      <4> QED
        BY <1>1, <2>0, <2>1, <2>2, <2>3, <2>4, <3>2, <4>1
    <3> QED
      BY <3>1, <3>2
  <2>6. w = p \o v
    BY <2>1, <2>3, <2>4, <2>5, SeqEqual
  <2> QED
    BY <2>2, <2>6 DEF w, v, g
<1> HIDE DEF m, N, from, start, end
<1>7. CASE Stops(t, n, o, c)
  <2>1. f[m] = SubSeq(t, FromOf(t, m), N) /\ f[n] = SubSeq(t, from, N)
    BY <1>4, <1>5, <1>7 DEF ReplaceStep, N, from
  <2>2. N \in from - 1 .. N
    BY <1>1
  <2>3. f[m] = p \o f[n] /\ f[n] \in Seq(E)
    BY <1>6, <2>1, <2>2
  <2>4. f[m] \in Seq(E)
    BY <2>3, ConcatProperties
  <2> QED
    BY <1>4, <1>7, <2>3, <2>4 DEF TextAt, m
<1>8. CASE ~Stops(t, n, o, c)
  <2> DEFINE v == ValueIn(SubSeq(t, start, end), sources)
             r == f[Behind(t, end)]
             s == SubSeq(t, from, start - 1)
  <2>1. v \in Seq(E) /\ r \in Seq(E)
    BY <1>8 DEF TextAt, start, end
  <2>2. f[m] = SubSeq(t, FromOf(t, m), start - 1) \o v \o r /\ f[n] = s \o v \o r
    BY <1>4, <1>5, <1>8 DEF ReplaceStep, start, end, from
  <2>3. start - 1 \in from - 1 .. N
    <3>1. start \in from .. N
      BY <1>1, <1>8, JumpsBack DEF start, from, N
    <3> QED
      BY <1>1, <3>1
  <2> HIDE DEF v, r
  <2>4. SubSeq(t, FromOf(t, m), start - 1) = p \o s /\ s \in Seq(E)
    BY <1>6, <2>3
  <2> HIDE DEF s
  <2>5. f[m] = p \o f[n] /\ f[m] \in Seq(E)
    <3>1. s \o v \in Seq(E) /\ (p \o s) \o v = p \o (s \o v)
      <4>1. s \o v \in Seq(E)
        BY <2>1, <2>4, ConcatProperties
      <4>2. Associates(p, s, v)
        BY <2>1, <2>4, Associate
      <4> QED
        BY ONLY <4>1, <4>2 DEF Associates
    <3>2. (p \o (s \o v)) \o r = p \o ((s \o v) \o r) /\ (s \o v) \o r \in Seq(E)
      <4> DEFINE u == s \o v
      <4>1. u \in Seq(E)
        BY <3>1
      <4> HIDE DEF u
      <4>2. Associates(p, u, r) /\ u \o r \in Seq(E)
        BY <2>1, <4>1, Associate, ConcatProperties
      <4> QED
        BY ONLY <4>2 DEF Associates, u
    <3>3. p \o ((s \o v) \o r) \in Seq(E)
      BY <3>2, ConcatProperties
    <3> QED
      BY <2>2, <2>4, <3>1, <3>2, <3>3
  <2> QED
    BY <1>4, <2>1, <2>5 DEF TextAt, m, v, r
<1> QED
  BY <1>7, <1>8 DEF m

LEMMA SealedReplaced ==
  ASSUME NEW E, NEW o \in E, NEW c \in E, o # c, NEW t \in Seq(E), NEW sources, NEW f,
         Replacing(t, sources, f, o, c), NEW n \in Nat, NEW p \in Seq(E), StandsBefore(t, p, n),
         SealedBy(p, o, c), ValueIn(p, sources) \in Seq(E), TextAt(t, sources, f, n, o, c, E)
  PROVE  f[n + Len(p)] = ValueIn(p, sources) \o f[n] /\ TextAt(t, sources, f, n + Len(p), o, c, E)
<1> DEFINE N == Len(t)
           L == Len(p)
           m == n + L
           from == FromOf(t, m)
           close == from + L - 1
<1>1. /\ L \in Nat /\ L >= 2 /\ N \in Nat /\ m \in 0 .. N /\ from = N - m + 1 /\ from \in 1 .. N
      /\ close \in from + 1 .. N /\ N - close = n
  <2>1. L \in Nat /\ L >= 2 /\ N \in Nat /\ n + L <= N
    BY LenProperties DEF StandsBefore, SealedBy
  <2>2. from = N - m + 1
    BY DEF FromOf
  <2> HIDE DEF L, N, from
  <2> QED
    BY <2>1, <2>2
<1>2. \A k \in 1 .. L : t[from + k - 1] = p[k]
  <2> SUFFICES ASSUME NEW k \in 1 .. L PROVE t[from + k - 1] = p[k]
    OBVIOUS
  <2>1. from + k - 1 = N - n - L + k
    BY <1>1
  <2> QED
    BY <2>1 DEF StandsBefore
<1> HIDE DEF from
<1>3. /\ t[from] = o /\ t[close] = c
      /\ \A i \in from + 1 .. close - 1 : t[i] # o /\ t[i] # c
  <2>1. t[from] = o
    <3>1. 1 \in 1 .. L /\ from + 1 - 1 = from
      BY <1>1
    <3> QED
      BY <1>2, <3>1 DEF SealedBy
  <2>2. t[close] = c
    <3>1. L \in 1 .. L
      BY <1>1
    <3> QED
      BY <1>2, <3>1 DEF SealedBy
  <2>3. ASSUME NEW i \in from + 1 .. close - 1 PROVE t[i] # o /\ t[i] # c
    <3>1. i - from + 1 \in 2 .. L - 1 /\ i - from + 1 \in 1 .. L /\ from + (i - from + 1) - 1 = i
      BY <1>1
    <3> QED
      BY <1>2, <3>1 DEF SealedBy
  <2> QED
    BY <2>1, <2>2, <2>3
<1> HIDE DEF N, L, m, close
<1>4. StartOf(t, m, o) = from /\ OpensIn(t, from, o) # {}
  <2> DEFINE S == OpensIn(t, from, o)
  <2>1. from \in S /\ S \subseteq Nat /\ \A i \in S : from <= i
    BY <1>1, <1>3 DEF OpensIn, N
  <2>2. Min(S) \in S /\ Min(S) <= from
    BY <2>1, MinLeast
  <2> HIDE DEF S
  <2>3. Min(S) = from
    <3>1. Min(S) \in Nat /\ from \in Nat /\ from <= Min(S)
      BY <1>1, <2>1, <2>2
    <3> QED
      BY <2>2, <3>1
  <2> QED
    BY <2>1, <2>3 DEF StartOf, S, from
<1>5. EndOf(t, m, o, c) = close /\ ClosesAt(t, from, o, c) # {}
  <2> DEFINE S == ClosesAt(t, from, o, c)
  <2>1. {i \in from .. close : t[i] = o} = {from} /\ {i \in from .. close : t[i] = c} = {close}
    <3>1. t[close] # o /\ t[from] # c
      BY <1>3
    <3> QED
      BY <1>1, <1>3, <3>1, SMTT(30)
  <2>2. close \in S
    <3>1. close \in from + 1 .. Len(t)
      BY <1>1 DEF N
    <3>2. Cardinality({from}) = 1 /\ Cardinality({close}) = 1
      BY FS_Singleton
    <3> QED
      BY <1>3, <2>1, <3>1, <3>2 DEF ClosesAt
  <2>3. S \subseteq Nat /\ \A j \in S : close <= j
    BY <1>1, <1>3 DEF ClosesAt, N
  <2>4. Min(S) \in S /\ Min(S) <= close
    BY <2>2, <2>3, MinLeast
  <2> HIDE DEF S
  <2>5. Min(S) = close
    <3>1. Min(S) \in Nat /\ close <= Min(S)
      BY <2>3, <2>4
    <3>2. close \in Nat
      BY <1>1
    <3> QED
      BY <2>4, <3>1, <3>2
  <2> QED
    BY <1>4, <2>2, <2>5 DEF EndOf, S
<1>6. ~Stops(t, m, o, c)
  BY <1>4, <1>5 DEF Stops, from
<1>7. Behind(t, close) = n
  BY <1>1 DEF Behind, N
<1>8. SubSeq(t, from, close) = p
  <2> DEFINE w == SubSeq(t, from, close)
  <2>1. \A k \in from .. close : t[k] \in E
    BY <1>1, ElementOfSeq DEF N
  <2>2. w \in Seq(E) /\ Len(w) = L /\ \A k \in 1 .. L : w[k] = t[from + k - 1]
    <3>1. from \in Int /\ close \in Int /\ from <= close /\ close - from + 1 = L
      BY <1>1 DEF close
    <3> QED
      BY <2>1, <3>1, SubSeqProperties
  <2> HIDE DEF w
  <2>3. w = p
    BY <1>2, <2>2, SeqEqual DEF L
  <2> QED
    BY <2>3 DEF w
<1>9. SubSeq(t, from, from - 1) = <<>>
  <2>1. from \in Int /\ from - 1 \in Int /\ ~(from <= from - 1)
    BY <1>1
  <2>2. \A k \in from .. from - 1 : t[k] \in E
    BY <2>1
  <2>3. SubSeq(t, from, from - 1) \in Seq(E) /\ Len(SubSeq(t, from, from - 1)) = 0
    BY <2>1, <2>2, SubSeqProperties
  <2> QED
    BY <2>3, EmptySeq
<1>10. f[m] = (<<>> \o ValueIn(p, sources)) \o f[n]
  <2>1. f[m] = ReplaceStep(t, sources, f, m, o, c)
    BY <1>1 DEF Replacing, N
  <2> QED
    BY <1>4, <1>5, <1>6, <1>7, <1>8, <1>9, <2>1 DEF ReplaceStep, from
<1>11. <<>> \o ValueIn(p, sources) = ValueIn(p, sources)
  BY ConcatEmptySeq
<1>12. f[n] \in Seq(E)
  BY DEF TextAt
<1>13. f[m] \in Seq(E)
  BY <1>10, <1>11, <1>12, ConcatProperties
<1> QED
  BY <1>4, <1>5, <1>7, <1>8, <1>10, <1>11, <1>12, <1>13 DEF TextAt, m, L

BecomeAll(ss, sources, o) == [k \in 1 .. Len(ss) |-> Became(ss[k], sources, o)]

LEMMA PieceReplaced ==
  ASSUME NEW E, NEW o \in E, NEW c \in E, o # c, NEW t \in Seq(E), NEW sources, NEW f,
         Replacing(t, sources, f, o, c), NEW n \in Nat, NEW p \in Seq(E), StandsBefore(t, p, n),
         IsPiece(p, o, c), Became(p, sources, o) \in Seq(E), TextAt(t, sources, f, n, o, c, E)
  PROVE  /\ f[n + Len(p)] = Became(p, sources, o) \o f[n]
         /\ TextAt(t, sources, f, n + Len(p), o, c, E)
<1>1. CASE OpensNothing(p, o)
  BY <1>1, LiteralReplaced DEF Became
<1>2. CASE ~OpensNothing(p, o)
  <2>1. SealedBy(p, o, c)
    BY <1>2 DEF IsPiece
  <2>2. Became(p, sources, o) = ValueIn(p, sources)
    BY <1>2 DEF Became
  <2>3. ValueIn(p, sources) \in Seq(E)
    BY <2>2
  <2>4. /\ f[n + Len(p)] = ValueIn(p, sources) \o f[n]
        /\ TextAt(t, sources, f, n + Len(p), o, c, E)
    BY <2>1, <2>3, SealedReplaced
  <2> QED
    BY <2>2, <2>4
<1> QED
  BY <1>1, <1>2

LEMMA NothingLeft ==
  ASSUME NEW E, NEW t \in Seq(E), NEW sources, NEW f, NEW o, NEW c, Replacing(t, sources, f, o, c)
  PROVE  f[0] = <<>> /\ TextAt(t, sources, f, 0, o, c, E)
<1>1. Len(t) \in Nat /\ FromOf(t, 0) = Len(t) + 1
  BY LenProperties DEF FromOf
<1>2. OpensIn(t, FromOf(t, 0), o) = {}
  BY <1>1 DEF OpensIn
<1>3. Stops(t, 0, o, c)
  BY <1>2 DEF Stops
<1>4. f[0] = SubSeq(t, FromOf(t, 0), Len(t))
  <2>1. 0 \in 0 .. Len(t)
    BY <1>1
  <2> QED
    BY <1>3, <2>1 DEF Replacing, ReplaceStep
<1>5. SubSeq(t, FromOf(t, 0), Len(t)) = <<>>
  <2> DEFINE a == FromOf(t, 0)
             b == Len(t)
  <2>1. a \in Int /\ b \in Int /\ ~(a <= b) /\ \A k \in a .. b : t[k] \in E
    BY <1>1
  <2> HIDE DEF a, b
  <2>2. SubSeq(t, a, b) \in Seq(E) /\ Len(SubSeq(t, a, b)) = 0
    BY <2>1, SubSeqProperties
  <2>3. SubSeq(t, a, b) = <<>>
    BY <2>2, EmptySeq
  <2> QED
    BY <2>3 DEF a, b
<1> QED
  <2>1. f[0] = <<>> /\ f[0] \in Seq(E)
    <3>1. <<>> \in Seq(E)
      OBVIOUS
    <3>2. f[0] = <<>>
      BY <1>4, <1>5, Zenon
    <3> QED
      BY <3>1, <3>2, Zenon
  <2> QED
    BY <1>3, <2>1, Zenon DEF TextAt

(* Part by part: what becomes of a text is what becomes of its parts.      *)
LEMMA PiecesReplacing ==
  ASSUME NEW E, NEW o \in E, NEW c \in E, o # c, NEW ss \in Seq(Seq(E)), NEW sources, NEW f,
         \A k \in 1 .. Len(ss) : IsPiece(ss[k], o, c) /\ Became(ss[k], sources, o) \in Seq(E),
         Replacing(FlattenSeq(ss), sources, f, o, c)
  PROVE  f[Len(FlattenSeq(ss))] = FlattenSeq(BecomeAll(ss, sources, o))
<1> DEFINE N == Len(ss)
           t == FlattenSeq(ss)
           L == Len(t)
           B == BecomeAll(ss, sources, o)
<1>1. PICK at \in [0 .. N -> Nat] :
        /\ at[0] = 0 /\ at[N] = L
        /\ \A k \in 1 .. N :
             /\ at[k] = at[k - 1] + Len(ss[k]) /\ at[k] <= at[N]
             /\ \A m \in 1 .. Len(ss[k]) : t[at[k - 1] + m] = ss[k][m]
  BY FlatPlaces, ZenonT(30)
<1>2. t \in Seq(E) /\ N \in Nat /\ L \in Nat /\ \A k \in 1 .. N : ss[k] \in Seq(E) /\ Len(ss[k]) \in Nat
  BY FlatSeq, LenProperties
<1>3. B \in Seq(Seq(E)) /\ Len(B) = N /\ \A k \in 1 .. N : B[k] = Became(ss[k], sources, o)
  <2>1. B \in [1 .. N -> Seq(E)]
    BY DEF BecomeAll
  <2> QED
    BY <1>2, <2>1, IsASeq DEF BecomeAll
<1> HIDE DEF N, t, L, B
<1>4. \A k \in 0 .. N : at[k] \in Nat /\ at[k] <= L /\ L - at[k] \in Nat
  <2> TAKE k \in 0 .. N
  <2>1. at[k] \in Nat
    BY <1>1
  <2>2. at[k] <= L
    BY <1>1, <1>2
  <2> QED
    BY <1>2, <2>1, <2>2
<1>5. ASSUME NEW k \in 1 .. N
      PROVE  /\ k - 1 \in 0 .. N /\ StandsBefore(t, ss[k], L - at[k])
             /\ L - at[k - 1] = L - at[k] + Len(ss[k])
  <2>0. k - 1 \in 0 .. N /\ k \in 0 .. N
    BY <1>2
  <2>1. /\ at[k] = at[k - 1] + Len(ss[k]) /\ at[k] \in Nat /\ at[k - 1] \in Nat /\ Len(ss[k]) \in Nat
        /\ L \in Nat /\ at[k] <= L
    BY <1>1, <1>2, <1>4, <2>0
  <2>2. /\ L - at[k - 1] = L - at[k] + Len(ss[k]) /\ L - at[k] + Len(ss[k]) <= L
        /\ L - (L - at[k]) - Len(ss[k]) = at[k - 1]
    <3> DEFINE a == at[k - 1]
               b == at[k]
               l == Len(ss[k])
    <3> HIDE DEF a, b, l
    <3>1. b = a + l /\ b \in Nat /\ a \in Nat /\ l \in Nat /\ L \in Nat /\ b <= L
      BY <2>1 DEF a, b, l
    <3>2. L - a = L - b + l /\ L - b + l <= L /\ L - (L - b) - l = a
      BY <3>1
    <3> QED
      BY <3>2 DEF a, b, l
  <2>3. \A m \in 1 .. Len(ss[k]) : t[at[k - 1] + m] = ss[k][m]
    BY <1>1
  <2> QED
    BY <2>0, <2>2, <2>3 DEF StandsBefore, L
<1>6. ASSUME NEW k \in 1 .. N, TextAt(t, sources, f, L - at[k], o, c, E)
      PROVE  /\ f[L - at[k - 1]] = B[k] \o f[L - at[k]]
             /\ TextAt(t, sources, f, L - at[k - 1], o, c, E)
  <2> DEFINE n == L - at[k]
             p == ss[k]
  <2>1. n \in Nat
    <3>1. k \in 0 .. N
      BY <1>2
    <3> QED
      BY <1>4, <3>1
  <2>2. p \in Seq(E) /\ StandsBefore(t, p, n) /\ IsPiece(p, o, c) /\ Became(p, sources, o) \in Seq(E)
        /\ L - at[k - 1] = n + Len(p) /\ B[k] = Became(p, sources, o) /\ TextAt(t, sources, f, n, o, c, E)
        /\ Replacing(t, sources, f, o, c)
    BY <1>2, <1>3, <1>5, <1>6 DEF N, t
  <2> HIDE DEF n, p
  <2>3. f[n + Len(p)] = Became(p, sources, o) \o f[n] /\ TextAt(t, sources, f, n + Len(p), o, c, E)
    BY <1>2, <2>1, <2>2, PieceReplaced
  <2> QED
    BY <2>2, <2>3 DEF n
<1>7. f[0] = <<>> /\ TextAt(t, sources, f, 0, o, c, E)
  BY <1>2, NothingLeft DEF t
(* All that is left is a text, from the last part to the first.            *)
<1>8. \A k \in 0 .. N : TextAt(t, sources, f, L - at[k], o, c, E)
  <2> DEFINE T == {j \in 0 .. N : ~TextAt(t, sources, f, L - at[N - j], o, c, E)}
  <2>1. T = {}
    <3> SUFFICES ASSUME T # {} PROVE FALSE
      OBVIOUS
    <3>1. PICK j \in T : \A l \in T : j <= l
      <4>1. T \in SUBSET Nat
        <5>1. N \in Nat
          BY <1>2
        <5>2. \A k \in 0 .. N : k \in Nat
          BY <5>1
        <5> QED
          BY <5>2, Zenon
      <4> HIDE DEF T
      <4> QED
        BY <4>1, LeastNumber
    <3>2. j # 0
      <4>1. N - 0 = N /\ L - at[N] = 0
        BY <1>1, <1>2
      <4> QED
        BY <1>7, <3>1, <4>1
    <3>3. j - 1 \in 0 .. N /\ j - 1 \notin T /\ N - (j - 1) \in 1 .. N /\ N - (j - 1) - 1 = N - j
      <4>1. j \in 0 .. N
        BY <3>1
      <4>2. j - 1 \in 0 .. N /\ ~(j <= j - 1) /\ N - (j - 1) \in 1 .. N /\ N - (j - 1) - 1 = N - j
        BY <1>2, <3>2, <4>1
      <4> HIDE DEF T
      <4> QED
        BY <3>1, <4>2
    <3>4. TextAt(t, sources, f, L - at[N - (j - 1)], o, c, E)
      BY <3>3
    <3>5. TextAt(t, sources, f, L - at[N - (j - 1) - 1], o, c, E)
      BY <1>6, <3>3, <3>4
    <3>6. TextAt(t, sources, f, L - at[N - j], o, c, E)
      BY <3>3, <3>5
    <3> QED
      BY <3>1, <3>6
  <2> TAKE k \in 0 .. N
  <2>2. N - k \in 0 .. N /\ N - (N - k) = k
    BY <1>2
  <2>3. TextAt(t, sources, f, L - at[N - (N - k)], o, c, E)
    BY <2>1, <2>2
  <2> QED
    BY <2>2, <2>3
<1>9. ASSUME NEW k \in 1 .. N PROVE f[L - at[k - 1]] = B[k] \o f[L - at[k]] /\ f[L - at[k]] \in Seq(E)
  <2>1. k \in 0 .. N
    BY <1>2
  <2>2. TextAt(t, sources, f, L - at[k], o, c, E)
    BY <1>8, <2>1
  <2> QED
    BY <1>6, <2>2 DEF TextAt
<1>10. L - at[0] = L /\ L - at[N] = 0
  BY <1>1, <1>2
<1>11. CASE N = 0
  <2>1. B = <<>>
    BY <1>3, <1>11, EmptySeq
  <2>2. FlattenSeq(B) = <<>>
    BY <2>1 DEF FlattenSeq
  <2>3. f[L] = f[0]
    BY <1>10, <1>11
  <2> QED
    BY <1>7, <2>2, <2>3 DEF L, t, B
<1>12. CASE N # 0
  <2>1. PICK g : /\ FlatUpTo(B, g, N) /\ FlattenSeq(B) = g[N]
                 /\ \A i \in 1 .. N : g[i] \in Seq(E)
    BY <1>3, <1>12, FlatUnfold
  <2>2. \A i \in 1 .. N : g[i] = FlatStep(B, g, i) /\ B[i] \in Seq(E)
    <3>1. \A i \in 1 .. N : g[i] = FlatStep(B, g, i)
      BY <2>1 DEF FlatUpTo
    <3>2. \A i \in 1 .. N : B[i] \in Seq(E)
      BY <1>3, ElementOfSeq
    <3> QED
      BY <3>1, <3>2
  <2> DEFINE T == {k \in 1 .. N : f[L] # g[k] \o f[L - at[k]]}
  <2>3. T = {}
    <3> SUFFICES ASSUME T # {} PROVE FALSE
      OBVIOUS
    <3>1. PICK k \in T : \A l \in T : k <= l
      <4>1. T \in SUBSET Nat
        <5>1. N \in Nat
          BY <1>2
        <5>2. \A k \in 1 .. N : k \in Nat
          BY <5>1
        <5> QED
          BY <5>2, Zenon
      <4> HIDE DEF T
      <4> QED
        BY <4>1, LeastNumber
    <3>2. CASE k = 1
      <4>1. g[1] = B[1]
        BY <2>2, <3>1, <3>2 DEF FlatStep
      <4>0. 1 \in 1 .. N /\ 1 - 1 = 0
        BY <3>1, <3>2
      <4>2. f[L - at[1 - 1]] = B[1] \o f[L - at[1]] /\ 1 - 1 = 0
        BY <1>9, <4>0, Zenon
      <4>3. f[L] = B[1] \o f[L - at[1]]
        BY <1>10, <4>2
      <4> QED
        BY <3>1, <3>2, <4>1, <4>3
    <3>3. CASE k # 1
      <4>1. k \in 1 .. N /\ k - 1 \in 1 .. N /\ k - 1 \notin T
        <5>1. k \in 1 .. N
          BY <3>1
        <5>2. k - 1 \in 1 .. N /\ ~(k <= k - 1)
          BY <1>2, <3>3, <5>1
        <5> HIDE DEF T
        <5> QED
          BY <3>1, <5>1, <5>2
      <4> DEFINE u == g[k - 1]
                 v == B[k]
                 w == f[L - at[k]]
      <4>2. f[L] = u \o f[L - at[k - 1]]
        BY <4>1
      <4>3. f[L - at[k - 1]] = v \o w /\ w \in Seq(E)
        BY <1>9, <4>1
      <4>4. g[k] = u \o v /\ u \in Seq(E) /\ v \in Seq(E)
        BY <2>1, <2>2, <3>3, <4>1 DEF FlatStep
      <4>5. f[L] # g[k] \o w
        BY <3>1
      <4> HIDE DEF u, v, w
      <4>6. Associates(u, v, w)
        BY <4>3, <4>4, Associate
      <4> QED
        BY <4>2, <4>3, <4>4, <4>5, <4>6 DEF Associates
    <3> QED
      BY <3>2, <3>3
  <2>4. N \in 1 .. N
    BY <1>2, <1>12
  <2>5. f[L] = g[N] \o f[0]
    BY <1>10, <2>3, <2>4
  <2>6. g[N] \o <<>> = g[N]
    BY <2>1, <2>4, ConcatEmptySeq
  <2>7. f[L] = FlattenSeq(B)
    BY <1>7, <2>1, <2>5, <2>6
  <2> QED
    BY <2>7 DEF L, t, B
<1> QED
  BY <1>11, <1>12

(* A text is replaced part by part. *)
Opening == "{$"
Closing == "}"

LEMMA PiecesReplaced ==
  ASSUME NEW E, Opening \in E, Closing \in E, NEW ss \in Seq(Seq(E)), NEW sources,
         \A k \in 1 .. Len(ss) : IsPiece(ss[k], Opening, Closing) /\ Became(ss[k], sources, Opening) \in Seq(E)
  PROVE  replaceEmbeddedExpressions(FlattenSeq(ss), sources) = FlattenSeq(BecomeAll(ss, sources, Opening))
<1> DEFINE t == FlattenSeq(ss)
<1>1. t \in Seq(E)
  BY FlatSeq
<1>2. PICK f : /\ \A n \in 0 .. Len(t) : f[n] = ReplaceStep(t, sources, f, n, "{$", "}")
               /\ replaceEmbeddedExpressions(t, sources) = f[Len(t)]
  BY <1>1, ReplaceUnfold, Zenon
<1>3. Replacing(t, sources, f, Opening, Closing)
  BY <1>2, Zenon DEF Replacing, Opening, Closing
<1>4. Opening # Closing
  BY DEF Opening, Closing
<1>5. f[Len(FlattenSeq(ss))] = FlattenSeq(BecomeAll(ss, sources, Opening))
  BY <1>3, <1>4, PiecesReplacing
<1> QED
  BY <1>2, <1>5, Zenon

-----------------------------------------------------------------------------
(* What references mean are values, whose texts are inserted.              *)
ValuedSources(sources) ==
  \A name \in DOMAIN sources : \A k \in DOMAIN sources[name] : sources[name][k] \in Value

Knowable == Value \cup {Missing}

LEMMA FieldKnown ==
  ASSUME NEW x \in Knowable, NEW part
  PROVE  Field(x, part) \in Knowable
<1>1. CASE x \in Value
  BY <1>1, ValueAssumption DEF Field, Knowable
<1>2. CASE x = Missing
  <2>1. x.t # "object"
    BY <1>2 DEF Missing, Json
  <2> QED
    BY <2>1 DEF Field, Knowable
<1> QED
  BY <1>1, <1>2 DEF Knowable

LEMMA NestedKnown ==
  ASSUME NEW obj, NEW parts, Len(parts) \in Nat, \A part : Field(obj, part) \in Knowable, Len(parts) # 0
  PROVE  getNested(obj, parts) \in Knowable
<1> DEFINE n == Len(parts)
<1>1. PICK f : /\ \A i \in 0 .. n : f[i] = NestStep(obj, parts, f, i)
               /\ getNested(obj, parts) = f[n]
  BY NestedWalk
<1>2. n \in Nat /\ n # 0 /\ \A i \in 1 .. n : i \in Nat
  OBVIOUS
<1> HIDE DEF n
<1> DEFINE T == {i \in 1 .. n : f[i] \notin Knowable}
<1>3. T = {}
  <2> SUFFICES ASSUME T # {} PROVE FALSE
    OBVIOUS
  <2>1. PICK i \in T : \A l \in T : i <= l
    <3>1. T \in SUBSET Nat
      BY <1>2
    <3> HIDE DEF T
    <3> QED
      BY <3>1, LeastNumber
  <2>2. i \in 1 .. n /\ f[i] = Field(f[i - 1], parts[i])
    BY <1>1, <1>2, <2>1 DEF NestStep
  <2>3. CASE i = 1
    <3>1. f[i - 1] = obj
      BY <1>1, <1>2, <2>3 DEF NestStep
    <3> QED
      BY <2>1, <2>2, <3>1
  <2>4. CASE i # 1
    <3>1. i - 1 \in 1 .. n /\ i - 1 \notin T
      BY <1>2, <2>1, <2>4
    <3>2. f[i - 1] \in Knowable
      BY <3>1
    <3> QED
      BY <2>1, <2>2, <3>2, FieldKnown
  <2> QED
    BY <2>3, <2>4
<1>4. n \in 1 .. n
  BY <1>2
<1> QED
  BY <1>1, <1>3, <1>4

LEMMA ValueNested ==
  ASSUME NEW x \in Knowable, NEW parts, Len(parts) \in Nat
  PROVE  getNested(x, parts) \in Knowable
<1>1. CASE Len(parts) = 0
  BY <1>1, NestedNone
<1>2. CASE Len(parts) # 0
  BY <1>2, FieldKnown, NestedKnown
<1> QED
  BY <1>1, <1>2

LEMMA NamedLength ==
  ASSUME NEW E, NEW name, NEW keys \in Seq(E)
  PROVE  Len(Named(name, keys)) = Len(keys)
<1> DEFINE g == [i \in DOMAIN keys |-> IF i = 2 THEN ToLower(keys[i]) ELSE keys[i]]
           S == {g[i] : i \in 1 .. Len(keys)}
<1>1. DOMAIN keys = 1 .. Len(keys) /\ Len(keys) \in Nat
  BY LenProperties
<1>2. g \in [1 .. Len(keys) -> S]
  BY <1>1
<1> HIDE DEF g, S
<1>3. Len(g) = Len(keys)
  BY <1>1, <1>2, IsASeq
<1> DEFINE b == [i \in DOMAIN keys |-> IF i = 1 THEN <<"headers">> ELSE keys[i]]
           T == {b[i] : i \in 1 .. Len(keys)}
<1>4. b \in [1 .. Len(keys) -> T]
  BY <1>1
<1> HIDE DEF b, T
<1>5. Len(b) = Len(keys)
  BY <1>1, <1>4, IsASeq
<1>6. Named(name, keys) = g \/ Named(name, keys) = b \/ Named(name, keys) = keys
  BY DEF Named, g, b
<1> QED
  BY <1>3, <1>5, <1>6

LEMMA WalkKnown ==
  ASSUME NEW E, NEW name, NEW src, \A k \in DOMAIN src : src[k] \in Value,
         NEW keys \in Seq(E), keys # <<>>
  PROVE  Walk(name, src, keys) \in Knowable
<1> DEFINE all == Fields(name, src)
<1>1. \A k \in DOMAIN all : all[k] \in Value
  <2> DEFINE payload == src[<<"data">>].f
  <2>1. CASE name = <<"event">> /\ <<"data">> \in DOMAIN src
    <3>1. all = [k \in DOMAIN src \cup (DOMAIN payload \ Reserved) |->
                   IF k \in DOMAIN src THEN src[k] ELSE payload[k]]
      BY <2>1, Zenon DEF Fields
    <3>2. \A k \in DOMAIN payload : payload[k] \in Value
      <4>1. src[<<"data">>] \in Value
        BY <2>1, Zenon
      <4> QED
        BY <4>1, ValueAssumption, Zenon
    <3> HIDE DEF all, payload
    <3> QED
      BY <3>1, <3>2
  <2>2. CASE ~(name = <<"event">> /\ <<"data">> \in DOMAIN src)
    <3>1. all = src
      BY <2>2, Zenon DEF Fields
    <3> QED
      BY <3>1, Zenon
  <2> QED
    BY <2>1, <2>2, Zenon
<1> HIDE DEF all
<1>2. \A part : Field(Obj(all), part) \in Knowable
  BY <1>1 DEF Field, Obj, Json, Knowable
<1>3. Len(Named(name, keys)) \in Nat /\ Len(Named(name, keys)) # 0
  BY NamedLength, LenProperties, EmptySeq
<1> QED
  BY <1>2, <1>3, NestedKnown DEF Walk, all

(* What is inserted is a text. *)
LEMMA MeaningInserts ==
  ASSUME NEW ref, IsReferenceTo(ref), Plain(ref), NEW sources, ValuedSources(sources),
         Undisputed(ref, sources), Meaning(ref, sources) # Error
  PROVE  Inserted(Meaning(ref, sources)) \in Seq(Token)
<1> DEFINE value == Meaning(ref, sources)
           found == Walk(ref.source, sources[ref.source], ref.keys)
           deep == getNested(found, ref.arg)
<1>1. ref.source \in DOMAIN sources
  BY DEF Meaning
<1>2. ref.keys \in Seq(Seq(Token)) /\ ref.keys # <<>>
  BY Zenon DEF IsReferenceTo, Plain, PlainKeys
<1>3. found \in Knowable
  BY <1>1, <1>2, WalkKnown DEF ValuedSources
<1>4. ref.mod = "getByPath" => deep \in Knowable
  <2> HIDE DEF found
  <2>1. ref.mod = "getByPath" => Len(ref.arg) \in Nat
    BY LenProperties DEF IsReferenceTo
  <2> QED
    BY <1>3, <2>1, ValueNested
<1>5. value \in Value \/ value = Null \/ (value = Str(ref.arg) /\ ref.arg \in Seq(Token))
  <2>0. value = Taken(ref, sources)
    <3>1. RefOver(ref, Token)
      BY ReferenceOver
    <3> QED
      BY <3>1, TakenIsMeant
  <2>1. value = CASE ref.mod = "getByPath" -> IF deep = Missing THEN Error ELSE deep
                  [] ref.mod = "default"   -> IF found = Missing THEN Str(ref.arg) ELSE found
                  [] OTHER                 -> IF found = Missing THEN Null ELSE found
    BY <1>1, <2>0, Zenon DEF Taken, Found
  <2>2. value # Error
    OBVIOUS
  <2> HIDE DEF value, found, deep
  <2>3. ref.mod = "default" => ref.arg \in Seq(Token)
    BY Zenon DEF IsReferenceTo
  <2> QED
    BY <1>3, <1>4, <2>1, <2>2, <2>3 DEF Knowable
<1> HIDE DEF value
<1>6. "{...}" \in Token /\ "[...]" \in Token /\ "null" \in Token
  BY TokenAssumption
<1>7. <<"{...}">> \in Seq(Token) /\ <<"[...]">> \in Seq(Token) /\ <<"null">> \in Seq(Token)
  <2>1. ASSUME NEW x \in Token PROVE <<x>> \in Seq(Token)
    OBVIOUS
  <2> QED
    BY <1>6, <2>1, Zenon
<1>8. value.v \in Seq(Token)
  <2>1. value \in Value => value.v \in Seq(Token)
    BY ValueAssumption, Zenon
  <2>2. Null.v = <<"null">>
    BY DEF Null, Json
  <2>3. Str(ref.arg).v = ref.arg
    BY DEF Str, Json
  <2> QED
    BY <1>5, <1>7, <2>1, <2>2, <2>3, Zenon
<1>9. Inserted(value) \in {value.v, <<"{...}">>, <<"[...]">>}
  BY DEF Inserted, Marshal
<1> QED
  BY <1>7, <1>8, <1>9, Zenon DEF value

LEMMA SpellSealed ==
  ASSUME NEW ref, IsReferenceTo(ref), Plain(ref)
  PROVE  SealedBy(Spell(ref), Opening, Closing) /\ Spell(ref) \in Seq(Token)
<1> DEFINE b == PathOf(ref) \o SuffixOf(ref)
           D == Token \ {Opening, Closing}
           t == Spell(ref)
<1>1. Alphabet(Token) /\ RefOver(ref, Token)
  BY TextAlphabet, ReferenceOver
<1>2. t = <<Opening>> \o b \o <<Closing>>
  BY <1>1, SpellParsed, Zenon DEF Opening, Closing
<1>3. b \in Seq(D)
  BY <1>1, BodySealed, Zenon DEF Opening, Closing
<1>4. Opening \in Token /\ Closing \in Token
  BY TokenAssumption DEF Opening, Closing
<1>5. b \in Seq(Token) /\ Len(b) \in Nat /\ \A i \in 1 .. Len(b) : b[i] # Opening /\ b[i] # Closing
  <2>1. D \subseteq Token /\ \A x \in D : x # Opening /\ x # Closing
    OBVIOUS
  <2> HIDE DEF b, D
  <2>2. b \in Seq(Token) /\ Len(b) \in Nat /\ \A i \in 1 .. Len(b) : b[i] \in D
    BY <1>3, <2>1, SeqMonotonic, LenProperties, ElementOfSeq
  <2> QED
    BY <2>1, <2>2
<1> HIDE DEF b, t
<1>6. /\ t \in Seq(Token) /\ Len(t) = Len(b) + 2
      /\ \A i \in 1 .. Len(b) + 2 : t[i] = IF i = 1 THEN Opening ELSE IF i = Len(b) + 2 THEN Closing ELSE b[i - 1]
  <2> DEFINE w == <<Opening>> \o b \o <<Closing>>
  <2>1. w \in Seq(Token) /\ Len(w) = Len(b) + 2
    BY <1>4, <1>5, Bracketed
  <2>2. \A i \in 1 .. Len(b) + 2 :
          w[i] = IF i = 1 THEN Opening ELSE IF i = Len(b) + 2 THEN Closing ELSE b[i - 1]
    BY <1>4, <1>5, Bracketed
  <2> HIDE DEF w
  <2> QED
    BY <1>2, <2>1, <2>2, Zenon DEF w
<1> DEFINE n == Len(b)
<1> HIDE DEF n
<1>7. /\ n \in Nat /\ Len(t) = n + 2 /\ t[1] = Opening /\ t[n + 2] = Closing
      /\ \A i \in 2 .. n + 1 : t[i] = b[i - 1] /\ i - 1 \in 1 .. n
  BY <1>5, <1>6 DEF n
<1>8. \A i \in 2 .. n + 1 : t[i] # Opening /\ t[i] # Closing
  BY <1>5, <1>7 DEF n
<1>9. SealedBy(t, Opening, Closing)
  BY <1>7, <1>8 DEF SealedBy
<1> QED
  BY <1>6, <1>9 DEF t

LEMMA OpensOrHas ==
  ASSUME NEW E, NEW p \in Seq(E)
  PROVE  OpensNothing(p, Opening) <=> ~Has(p, "{$")
<1>1. DOMAIN p = 1 .. Len(p)
  BY LenProperties
<1> QED
  BY <1>1, Zenon DEF OpensNothing, Has, Places, Opening

(* A template part by part. *)
PlainParts(tpl, sources) ==
  \A i \in DOMAIN tpl : IF tpl[i].lit = <<>> THEN Plain(tpl[i].ref) /\ Undisputed(tpl[i].ref, sources)
                         ELSE ~Has(tpl[i].lit, "{$")

LEMMA TemplateParts ==
  ASSUME NEW tpl, IsTemplate(tpl)
  PROVE  /\ Len(tpl) \in Nat /\ DOMAIN tpl = 1 .. Len(tpl)
         /\ \A i \in DOMAIN tpl : IF tpl[i].lit = <<>> THEN IsReferenceTo(tpl[i].ref) ELSE tpl[i].lit \in Seq(Token)
<1>1. tpl \in Seq(Range(tpl))
  BY DEF IsTemplate
<1>2. Len(tpl) \in Nat /\ DOMAIN tpl = 1 .. Len(tpl)
  BY <1>1, LenProperties
<1>3. \A i \in DOMAIN tpl : tpl[i] \in Range(tpl)
  BY DEF Range
<1> QED
  BY <1>2, <1>3, Zenon DEF IsTemplate

(* A text that stands for a part: it opens nothing, or is the reference    *)
(* that the part is.                                                       *)
StandsFor(part, text) ==
  /\ text \in Seq(Token)
  /\ OpensNothing(text, Opening) \/ (part.lit = <<>> /\ text = Spell(part.ref))

Refilled(part, text, sources) ==
  IF OpensNothing(text, Opening) THEN text ELSE Shown(part, sources)

LEMMA PartRefilled ==
  ASSUME NEW part, NEW sources,
         IF part.lit = <<>> THEN IsReferenceTo(part.ref) /\ Plain(part.ref) /\ Undisputed(part.ref, sources) ELSE TRUE,
         NEW text, StandsFor(part, text), TypedSources(sources), ValuedSources(sources)
  PROVE  /\ IsPiece(text, Opening, Closing)
         /\ Became(text, sources, Opening) = Refilled(part, text, sources)
         /\ Became(text, sources, Opening) \in Seq(Token)
<1>1. CASE OpensNothing(text, Opening)
  BY <1>1 DEF IsPiece, Became, Refilled, StandsFor
<1>2. CASE ~OpensNothing(text, Opening)
  <2> DEFINE value == Meaning(part.ref, sources)
  <2>1. /\ part.lit = <<>> /\ text = Spell(part.ref)
        /\ IsReferenceTo(part.ref) /\ Plain(part.ref) /\ Undisputed(part.ref, sources)
    BY <1>2 DEF StandsFor
  <2>2. SealedBy(text, Opening, Closing) /\ text \in Seq(Token)
    BY <2>1, SpellSealed
  <2>3. Evaluate(text, sources) = value
    BY <2>1, EvaluateReference
  <2>4. ValueIn(text, sources) = IF value = Error THEN Spell(part.ref) ELSE Inserted(value)
    BY <2>1, <2>3 DEF ValueIn, Replaced
  <2>5. value # Error => Inserted(value) \in Seq(Token)
    BY <2>1, MeaningInserts
  <2>6. Shown(part, sources) = ValueIn(text, sources)
    BY <2>1, <2>4 DEF Shown
  <2>7. ValueIn(text, sources) \in Seq(Token)
    BY <2>1, <2>2, <2>4, <2>5
  <2> QED
    BY <1>2, <2>2, <2>6, <2>7 DEF IsPiece, Became, Refilled
<1> QED
  BY <1>1, <1>2

LEMMA PartsReplaced ==
  ASSUME NEW tpl, IsTemplate(tpl), NEW sources, PlainParts(tpl, sources), TypedSources(sources), ValuedSources(sources),
         NEW ss, DOMAIN ss = DOMAIN tpl, ss = [i \in DOMAIN ss |-> ss[i]],
         \A i \in DOMAIN tpl : StandsFor(tpl[i], ss[i])
  PROVE  /\ ss \in Seq(Seq(Token)) /\ Len(ss) = Len(tpl)
         /\ replaceEmbeddedExpressions(FlattenSeq(ss), sources)
              = FlattenSeq([i \in DOMAIN tpl |-> Refilled(tpl[i], ss[i], sources)])
<1>1. /\ Len(tpl) \in Nat /\ DOMAIN tpl = 1 .. Len(tpl)
      /\ \A i \in DOMAIN tpl : IF tpl[i].lit = <<>> THEN IsReferenceTo(tpl[i].ref) ELSE tpl[i].lit \in Seq(Token)
  BY TemplateParts
<1>2. ss \in Seq(Seq(Token)) /\ Len(ss) = Len(tpl)
  <2>1. \A i \in 1 .. Len(tpl) : ss[i] \in Seq(Token)
    BY <1>1 DEF StandsFor
  <2>2. ss \in [1 .. Len(tpl) -> Seq(Token)]
    BY <1>1, <2>1
  <2> QED
    BY <1>1, <2>2, IsASeq
<1>3. \A i \in DOMAIN tpl :
        /\ IsPiece(ss[i], Opening, Closing)
        /\ Became(ss[i], sources, Opening) = Refilled(tpl[i], ss[i], sources)
        /\ Became(ss[i], sources, Opening) \in Seq(Token)
  <2> TAKE i \in DOMAIN tpl
  <2> DEFINE part == tpl[i]
             text == ss[i]
  <2>1. IF part.lit = <<>> THEN IsReferenceTo(part.ref) /\ Plain(part.ref) /\ Undisputed(part.ref, sources) ELSE TRUE
    BY <1>1, Zenon DEF PlainParts
  <2>2. StandsFor(part, text)
    OBVIOUS
  <2> HIDE DEF part, text
  <2>3. /\ IsPiece(text, Opening, Closing)
        /\ Became(text, sources, Opening) = Refilled(part, text, sources)
        /\ Became(text, sources, Opening) \in Seq(Token)
    BY <2>1, <2>2, PartRefilled
  <2> QED
    BY <2>3 DEF part, text
<1>4. Opening \in Token /\ Closing \in Token
  BY TokenAssumption DEF Opening, Closing
<1>5. replaceEmbeddedExpressions(FlattenSeq(ss), sources) = FlattenSeq(BecomeAll(ss, sources, Opening))
  BY <1>1, <1>2, <1>3, <1>4, PiecesReplaced
<1>6. BecomeAll(ss, sources, Opening) = [i \in DOMAIN tpl |-> Refilled(tpl[i], ss[i], sources)]
  BY <1>1, <1>2, <1>3 DEF BecomeAll
<1> QED
  BY <1>2, <1>5, <1>6

LEMMA FlatOne ==
  ASSUME NEW E, NEW ss \in Seq(Seq(E)), Len(ss) = 1
  PROVE  FlattenSeq(ss) = ss[1]
<1>0. Len(ss) # 0
  OBVIOUS
<1>1. PICK f : FlatUpTo(ss, f, Len(ss)) /\ FlattenSeq(ss) = f[Len(ss)]
  BY <1>0, FlatUnfold, Zenon
<1>2. 1 \in 1 .. Len(ss)
  OBVIOUS
<1> QED
  BY <1>1, <1>2 DEF FlatUpTo, FlatStep

(* A template as it is written is replaced by what it means. *)
LEMMA WrittenReplaced ==
  ASSUME NEW tpl, IsTemplate(tpl), NEW sources, PlainParts(tpl, sources), TypedSources(sources), ValuedSources(sources)
  PROVE  /\ Written(tpl) \in Seq(Token)
         /\ replaceEmbeddedExpressions(Written(tpl), sources)
              = FlattenSeq([i \in DOMAIN tpl |-> Shown(tpl[i], sources)])
         /\ IsReference(tpl) => Written(tpl) = Spell(tpl[1].ref)
<1> DEFINE ss == [i \in DOMAIN tpl |-> IF tpl[i].lit = <<>> THEN Spell(tpl[i].ref) ELSE tpl[i].lit]
<1>1. /\ Len(tpl) \in Nat /\ DOMAIN tpl = 1 .. Len(tpl)
      /\ \A i \in DOMAIN tpl : IF tpl[i].lit = <<>> THEN IsReferenceTo(tpl[i].ref) ELSE tpl[i].lit \in Seq(Token)
  BY TemplateParts
<1>2. Written(tpl) = FlattenSeq(ss)
  BY DEF Written
<1>3. ASSUME NEW i \in DOMAIN tpl
      PROVE  StandsFor(tpl[i], ss[i]) /\ Refilled(tpl[i], ss[i], sources) = Shown(tpl[i], sources)
  <2> DEFINE part == tpl[i]
             text == ss[i]
  <2>1. text = IF part.lit = <<>> THEN Spell(part.ref) ELSE part.lit
    OBVIOUS
  <2>2. IF part.lit = <<>> THEN IsReferenceTo(part.ref) /\ Plain(part.ref)
        ELSE part.lit \in Seq(Token) /\ ~Has(part.lit, "{$")
    BY <1>1, Zenon DEF PlainParts
  <2> HIDE DEF part, text
  <2>3. CASE part.lit = <<>>
    <3>1. text = Spell(part.ref) /\ SealedBy(text, Opening, Closing) /\ text \in Seq(Token)
      BY <2>1, <2>2, <2>3, SpellSealed
    <3>2. ~OpensNothing(text, Opening)
      BY <3>1 DEF OpensNothing, SealedBy
    <3> QED
      BY <2>3, <3>1, <3>2 DEF StandsFor, Refilled, part, text
  <2>4. CASE part.lit # <<>>
    <3>1. text = part.lit /\ text \in Seq(Token) /\ OpensNothing(text, Opening)
      BY <2>1, <2>2, <2>4, OpensOrHas
    <3>2. Shown(part, sources) = text
      BY <2>4, <3>1 DEF Shown
    <3> QED
      BY <3>1, <3>2 DEF StandsFor, Refilled, part, text
  <2> QED
    BY <2>3, <2>4
<1>4. DOMAIN ss = DOMAIN tpl /\ ss = [i \in DOMAIN ss |-> ss[i]]
  OBVIOUS
<1>5. IsReference(tpl) => ss[1] = Spell(tpl[1].ref)
  <2>1. IsReference(tpl) => 1 \in DOMAIN tpl /\ tpl[1].lit = <<>>
    BY <1>1 DEF IsReference
  <2> QED
    BY <2>1
<1> HIDE DEF ss
<1>6. /\ ss \in Seq(Seq(Token)) /\ Len(ss) = Len(tpl)
      /\ replaceEmbeddedExpressions(FlattenSeq(ss), sources)
           = FlattenSeq([i \in DOMAIN tpl |-> Refilled(tpl[i], ss[i], sources)])
  BY <1>3, <1>4, PartsReplaced
<1>7. [i \in DOMAIN tpl |-> Refilled(tpl[i], ss[i], sources)] = [i \in DOMAIN tpl |-> Shown(tpl[i], sources)]
  BY <1>3
<1>8. Written(tpl) \in Seq(Token)
  BY <1>2, <1>6, FlatSeq
<1>9. IsReference(tpl) => Written(tpl) = Spell(tpl[1].ref)
  BY <1>2, <1>5, <1>6, FlatOne DEF IsReference
<1> QED
  BY <1>2, <1>6, <1>7, <1>8, <1>9

(* The value of a template's text is what the template means. *)
LEMMA TemplateMeans ==
  ASSUME NEW tpl, IsTemplate(tpl), NEW sources, PlainTemplate(tpl, sources), TypedSources(sources), ValuedSources(sources)
  PROVE  evaluateString(Written(tpl), sources) = Filled(tpl, sources)
<1>1. PlainParts(tpl, sources)
  BY Zenon DEF PlainTemplate, PlainParts
<1>2. /\ replaceEmbeddedExpressions(Written(tpl), sources)
           = FlattenSeq([i \in DOMAIN tpl |-> Shown(tpl[i], sources)])
      /\ IsReference(tpl) => Written(tpl) = Spell(tpl[1].ref)
  BY <1>1, WrittenReplaced
<1>3. CASE IsReference(tpl)
  <2> DEFINE ref == tpl[1].ref
  <2>1. IsReferenceTo(ref) /\ Plain(ref) /\ Undisputed(ref, sources)
    <3>1. 1 \in DOMAIN tpl /\ tpl[1].lit = <<>>
      BY <1>3, TemplateParts DEF IsReference
    <3> QED
      BY <1>1, <3>1, TemplateParts, Zenon DEF PlainParts
  <2>2. Written(tpl) = Spell(ref)
    BY <1>2, <1>3
  <2>3. Filled(tpl, sources) = Meaning(ref, sources)
    BY <1>3 DEF Filled
  <2> HIDE DEF ref
  <2>4. isFullExpression(Spell(ref)) /\ Evaluate(Spell(ref), sources) = Meaning(ref, sources)
    BY <2>1, ReferenceIsFull, EvaluateReference
  <2> QED
    BY <2>2, <2>3, <2>4 DEF evaluateString
<1>4. CASE ~IsReference(tpl)
  <2>1. ~isFullExpression(Written(tpl))
    BY <1>4, Zenon DEF PlainTemplate
  <2> QED
    BY <1>2, <1>4, <2>1 DEF evaluateString, Filled, Expanded
<1> QED
  BY <1>3, <1>4

-----------------------------------------------------------------------------
(* The values that are nested in a value, depth by depth, and what they    *)
(* are evaluated to, from the greatest depth.                              *)
LevelStep(val, f, d) == IF d = 0 THEN {val} ELSE UNION {Range(x.f) : x \in f[d - 1]}
LevelUpTo(val, f, m) == f = [d \in 0 .. m |-> LevelStep(val, f, d)]

DepthStep(nested, sources, g, h) ==
  [x \in nested[MaxDepth - h] |->
     evaluateValueDepth(x, sources, [k \in DOMAIN x.f |-> IF h = 0 THEN {Error} ELSE g[h - 1][x.f[k]]])]
DepthUpTo(nested, sources, g, m) == g = [h \in 0 .. m |-> DepthStep(nested, sources, g, h)]

LEMMA LevelExists ==
  ASSUME NEW val
  PROVE  \A m \in Nat : \E f : LevelUpTo(val, f, m)
<1> DEFINE T == {m \in Nat : ~\E f : LevelUpTo(val, f, m)}
<1>1. SUFFICES ASSUME T # {} PROVE FALSE
  OBVIOUS
<1>2. PICK m \in T : \A k \in T : m <= k
  BY <1>1, LeastNumber
<1>3. PICK f : \A d \in 0 .. m - 1 : f[d] = LevelStep(val, f, d)
  <2>1. CASE m = 0
    BY <2>1
  <2>2. CASE m # 0
    <3>1. m - 1 \in Nat /\ m - 1 \notin T
      BY <1>2, <2>2
    <3>2. PICK f : LevelUpTo(val, f, m - 1)
      BY <3>1
    <3> QED
      BY <3>2 DEF LevelUpTo
  <2> QED
    BY <2>1, <2>2
<1> DEFINE g == [d \in 0 .. m |-> IF d = m THEN LevelStep(val, f, d) ELSE f[d]]
<1>4. ASSUME NEW d \in 0 .. m PROVE g[d] = LevelStep(val, g, d)
  <2>1. d # 0 => g[d - 1] = f[d - 1]
    OBVIOUS
  <2>2. LevelStep(val, g, d) = LevelStep(val, f, d)
    <3> HIDE DEF g
    <3> QED
      BY <2>1 DEF LevelStep
  <2>3. d # m => f[d] = LevelStep(val, f, d)
    BY <1>3
  <2> QED
    BY <2>2, <2>3
<1>5. LevelUpTo(val, g, m)
  <2>1. g = [d \in 0 .. m |-> g[d]]
    OBVIOUS
  <2> HIDE DEF g
  <2> QED
    BY <1>4, <2>1 DEF LevelUpTo
<1> QED
  BY <1>5

LEMMA DepthExists ==
  ASSUME NEW nested, NEW sources
  PROVE  \A m \in Nat : \E g : DepthUpTo(nested, sources, g, m)
<1> DEFINE T == {m \in Nat : ~\E g : DepthUpTo(nested, sources, g, m)}
<1>1. SUFFICES ASSUME T # {} PROVE FALSE
  OBVIOUS
<1>2. PICK m \in T : \A k \in T : m <= k
  BY <1>1, LeastNumber
<1>3. PICK f : \A h \in 0 .. m - 1 : f[h] = DepthStep(nested, sources, f, h)
  <2>1. CASE m = 0
    BY <2>1
  <2>2. CASE m # 0
    <3>1. m - 1 \in Nat /\ m - 1 \notin T
      BY <1>2, <2>2
    <3>2. PICK f : DepthUpTo(nested, sources, f, m - 1)
      BY <3>1
    <3> QED
      BY <3>2 DEF DepthUpTo
  <2> QED
    BY <2>1, <2>2
<1> DEFINE g == [h \in 0 .. m |-> IF h = m THEN DepthStep(nested, sources, f, h) ELSE f[h]]
<1>4. ASSUME NEW h \in 0 .. m PROVE g[h] = DepthStep(nested, sources, g, h)
  <2>1. h # 0 => g[h - 1] = f[h - 1]
    OBVIOUS
  <2>2. DepthStep(nested, sources, g, h) = DepthStep(nested, sources, f, h)
    <3> HIDE DEF g
    <3> QED
      BY <2>1 DEF DepthStep
  <2>3. h # m => f[h] = DepthStep(nested, sources, f, h)
    BY <1>3
  <2> QED
    BY <2>2, <2>3
<1>5. DepthUpTo(nested, sources, g, m)
  <2>1. g = [h \in 0 .. m |-> g[h]]
    OBVIOUS
  <2> HIDE DEF g
  <2> QED
    BY <1>4, <2>1 DEF DepthUpTo
<1> QED
  BY <1>5

LEMMA ValueUnfold ==
  ASSUME NEW val, NEW sources
  PROVE  \E f, g : /\ \A d \in 0 .. MaxDepth : f[d] = LevelStep(val, f, d)
                   /\ \A h \in 0 .. MaxDepth : g[h] = DepthStep(f, sources, g, h)
                   /\ evaluateValue(val, sources) = g[MaxDepth][val]
<1> DEFINE F == CHOOSE f : LevelUpTo(val, f, MaxDepth)
           G == CHOOSE g : DepthUpTo(F, sources, g, MaxDepth)
<1>0. MaxDepth \in Nat
  BY DepthAssumption
<1>1. LevelUpTo(val, F, MaxDepth)
  <2>1. \E f : LevelUpTo(val, f, MaxDepth)
    BY <1>0, LevelExists
  <2> QED
    BY <2>1, Zenon
<1>2. DepthUpTo(F, sources, G, MaxDepth)
  <2>1. \E g : DepthUpTo(F, sources, g, MaxDepth)
    <3> HIDE DEF F
    <3> QED
      BY <1>0, DepthExists
  <2> QED
    BY <2>1, Zenon
<1>3. evaluateValue(val, sources) = G[MaxDepth][val]
  BY Zenon DEF evaluateValue, LevelUpTo, LevelStep, DepthUpTo, DepthStep
<1> HIDE DEF F, G
<1>4. \A d \in 0 .. MaxDepth : F[d] = LevelStep(val, F, d)
  BY <1>1 DEF LevelUpTo
<1>5. \A h \in 0 .. MaxDepth : G[h] = DepthStep(F, sources, G, h)
  BY <1>2 DEF DepthUpTo
<1> QED
  BY <1>3, <1>4, <1>5

LEMMA StringValued ==
  ASSUME NEW text, NEW sources
  PROVE  evaluateValue(Str(text), sources) = {evaluateString(text, sources)}
<1> DEFINE val == Str(text)
<1>1. val.t = "string" /\ val.v = text
  BY DEF Str, Json
<1> HIDE DEF val
<1>2. PICK f, g : /\ \A d \in 0 .. MaxDepth : f[d] = LevelStep(val, f, d)
                  /\ \A h \in 0 .. MaxDepth : g[h] = DepthStep(f, sources, g, h)
                  /\ evaluateValue(val, sources) = g[MaxDepth][val]
  BY ValueUnfold
<1>3. MaxDepth \in 0 .. MaxDepth /\ 0 \in 0 .. MaxDepth /\ MaxDepth - MaxDepth = 0
  BY DepthAssumption
<1>4. f[0] = {val}
  BY <1>2, <1>3 DEF LevelStep
<1>5. g[MaxDepth] = DepthStep(f, sources, g, MaxDepth)
  BY <1>2, <1>3
<1>6. \E item : g[MaxDepth][val] = evaluateValueDepth(val, sources, item)
  BY <1>3, <1>4, <1>5 DEF DepthStep
<1>7. g[MaxDepth][val] = {evaluateString(text, sources)}
  BY <1>1, <1>6 DEF evaluateValueDepth
<1> QED
  BY <1>2, <1>7 DEF val

(* A text or an error. *)
LEMMA TextOrError ==
  ASSUME NEW value
  PROVE  /\ AsText(value) = Error <=> value = Error
         /\ value # Error => AsText(value).v = Inserted(value)
<1>1. Str(Inserted(value)) # Error
  BY DEF Str, Error, Json
<1>2. Str(Inserted(value)).v = Inserted(value)
  BY DEF Str, Json
<1> QED
  BY <1>1, <1>2 DEF AsText

(* The objects of these keys, once they are evaluated, and of these items. *)
ObjectsBy(keys, key, item) ==
  IF \E k \in keys : key[k] = Error \/ Error \in item[k] THEN {Error}
  ELSE {Obj(f) : f \in {g \in [{key[k].v : k \in keys} -> UNION Range(item)] :
          \A n \in DOMAIN g : \E k \in keys : key[k].v = n /\ g[n] \in item[k]}}

(* An object with one key, whose value is one. *)
FieldGiven(name, text) == Obj([k \in {name} |-> Str(text)])

FieldMeant(key, value) ==
  IF Error \in {key, value} THEN Error ELSE Obj([k \in {Inserted(key)} |-> value])

LEMMA OneField ==
  ASSUME NEW name, NEW text, NEW sources,
         NEW key, key = evaluateString(name, sources), NEW value, value = evaluateString(text, sources)
  PROVE  evaluateValue(FieldGiven(name, text), sources) = {FieldMeant(key, value)}
<1> DEFINE fields == [k \in {name} |-> Str(text)]
           val == Obj(fields)
           leaf == Str(text)
<1>1. val.t = "object" /\ val.f = fields
  BY DEF Obj, Json
<1>2. DOMAIN fields = {name} /\ fields[name] = leaf /\ Range(fields) = {leaf}
  BY DEF Range
<1>3. leaf.t = "string" /\ leaf.v = text
  BY DEF Str, Json
<1> HIDE DEF val, fields, leaf
<1>4. PICK f, g : /\ \A d \in 0 .. MaxDepth : f[d] = LevelStep(val, f, d)
                  /\ \A h \in 0 .. MaxDepth : g[h] = DepthStep(f, sources, g, h)
                  /\ evaluateValue(val, sources) = g[MaxDepth][val]
  BY ValueUnfold
<1> DEFINE M == MaxDepth
<1>5. /\ M \in 0 .. M /\ 0 \in 0 .. M /\ 1 \in 0 .. M /\ M - 1 \in 0 .. M
      /\ M - M = 0 /\ M - (M - 1) = 1 /\ M # 0
  BY DepthAssumption
<1>6. f[0] = {val} /\ f[1] = {leaf}
  <2>1. f[0] = {val}
    BY <1>4, <1>5 DEF LevelStep
  <2>2. f[1] = UNION {Range(x.f) : x \in f[0]}
    <3>1. f[1] = LevelStep(val, f, 1)
      BY <1>4, <1>5
    <3>2. 1 # 0 /\ 1 - 1 = 0
      OBVIOUS
    <3> QED
      BY <3>1, <3>2 DEF LevelStep
  <2> QED
    BY <1>1, <1>2, <2>1, <2>2
<1>7. g[M - 1][leaf] = {value}
  <2>1. g[M - 1] = DepthStep(f, sources, g, M - 1)
    BY <1>4, <1>5
  <2>2. \E item : g[M - 1][leaf] = evaluateValueDepth(leaf, sources, item)
    BY <1>5, <1>6, <2>1 DEF DepthStep
  <2> QED
    BY <1>3, <2>2 DEF evaluateValueDepth
<1> DEFINE item == [k \in DOMAIN val.f |-> IF M = 0 THEN {Error} ELSE g[M - 1][val.f[k]]]
<1>8. g[M][val] = ObjectsOf(val, sources, item)
  <2>1. g[M] = DepthStep(f, sources, g, M)
    BY <1>4, <1>5
  <2>2. val \in f[M - M]
    BY <1>5, <1>6
  <2>3. g[M][val] = evaluateValueDepth(val, sources, item)
    BY <2>1, <2>2 DEF DepthStep
  <2> HIDE DEF item
  <2> QED
    BY <1>1, <2>3 DEF evaluateValueDepth
<1>9. DOMAIN val.f = {name} /\ item = [k \in {name} |-> {value}]
  BY <1>1, <1>2, <1>5, <1>7
<1> HIDE DEF item
<1> DEFINE spelled == [k \in {name} |-> AsText(key)]
           inserted == AsText(key).v
           Gs == {h \in [{spelled[k].v : k \in {name}} -> UNION Range(item)] :
                    \A n \in DOMAIN h : \E k \in {name} : spelled[k].v = n /\ h[n] \in item[k]}
<1>10. ObjectsOf(val, sources, item) =
         IF \E k \in {name} : spelled[k] = Error \/ Error \in item[k] THEN {Error} ELSE {Obj(h) : h \in Gs}
  <2>1. [k \in DOMAIN val.f |-> evaluateExpressionInString(k, sources)] = spelled
    BY <1>9 DEF evaluateExpressionInString
  <2>2. DOMAIN val.f = {name}
    BY <1>9
  <2>3. ObjectsOf(val, sources, item) =
          ObjectsBy(DOMAIN val.f, [k \in DOMAIN val.f |-> evaluateExpressionInString(k, sources)], item)
    BY Zenon DEF ObjectsOf, ObjectsBy
  <2>4. ObjectsOf(val, sources, item) = ObjectsBy({name}, spelled, item)
    BY <2>1, <2>2, <2>3, Zenon
  <2> QED
    BY <2>4, Zenon DEF ObjectsBy
<1>11. (\E k \in {name} : spelled[k] = Error \/ Error \in item[k]) <=> Error \in {key, value}
  BY <1>9, TextOrError
<1>12. Gs = {[k \in {inserted} |-> value]}
  <2>1. {spelled[k].v : k \in {name}} = {inserted} /\ UNION Range(item) = {value} /\ item[name] = {value}
    BY <1>9 DEF Range
  <2>2. Gs = {h \in [{inserted} -> {value}] : \A n \in {inserted} : h[n] = value}
    BY <2>1
  <2> HIDE DEF Gs, inserted
  <2>3. \A h \in [{inserted} -> {value}] : h = [k \in {inserted} |-> value]
    OBVIOUS
  <2>4. [k \in {inserted} |-> value] \in [{inserted} -> {value}]
    OBVIOUS
  <2> QED
    BY <2>2, <2>3, <2>4
<1> HIDE DEF Gs, inserted
<1>13. Error \notin {key, value} => ObjectsOf(val, sources, item) = {Obj([k \in {inserted} |-> value])}
  BY <1>10, <1>11, <1>12
<1>14. Error \in {key, value} => ObjectsOf(val, sources, item) = {Error}
  BY <1>10, <1>11
<1>15. Error \notin {key, value} => inserted = Inserted(key)
  BY TextOrError DEF inserted
<1>16. evaluateValue(val, sources) = {FieldMeant(key, value)}
  BY <1>4, <1>8, <1>13, <1>14, <1>15 DEF FieldMeant
<1> QED
  BY <1>16 DEF val, fields, FieldGiven

-----------------------------------------------------------------------------
(* The body of an example is evaluated to what is meant by it. *)
LEMMA BodyMeans ==
  ASSUME NEW ex, IsExample(ex), NEW sources, PlainExample(ex, sources), TypedSources(sources), ValuedSources(sources)
  PROVE  evaluateValue(BodyOf(ex), sources) = {BodyMeant(ex, sources)}
<1>1. evaluateString(Written(ex.body), sources) = Filled(ex.body, sources)
  BY TemplateMeans DEF IsExample, PlainExample
<1>2. evaluateString(Written(ex.field), sources) = Filled(ex.field, sources)
  BY TemplateMeans DEF IsExample, PlainExample
<1>3. CASE ex.field = <<>>
  BY <1>1, <1>3, StringValued DEF BodyOf, BodyMeant
<1>4. CASE ex.field # <<>>
  <2> DEFINE name == Written(ex.field)
             text == Written(ex.body)
             key == Filled(ex.field, sources)
             value == Filled(ex.body, sources)
  <2>1. BodyOf(ex) = FieldGiven(name, text)
    BY <1>4, Zenon DEF BodyOf, FieldGiven
  <2>2. BodyMeant(ex, sources) = FieldMeant(key, value)
    BY <1>4, Zenon DEF BodyMeant, FieldMeant
  <2>3. key = evaluateString(name, sources) /\ value = evaluateString(text, sources)
    BY <1>1, <1>2
  <2> HIDE DEF name, text, key, value
  <2>4. evaluateValue(FieldGiven(name, text), sources) = {FieldMeant(key, value)}
    BY <2>3, OneField
  <2> QED
    BY <2>1, <2>2, <2>4
<1> QED
  BY <1>3, <1>4

(* So is a header of a static example. *)
LEMMA HeaderMeans ==
  ASSUME NEW tpl, IsTemplate(tpl), NEW sources, PlainTemplate(tpl, sources), TypedSources(sources), ValuedSources(sources)
  PROVE  resolveHeaderValue(Str(Written(tpl)), sources) =
           IF Filled(tpl, sources) = Error THEN Missing ELSE Str(Inserted(Filled(tpl, sources)))
<1>1. evaluateString(Written(tpl), sources) = Filled(tpl, sources)
  BY TemplateMeans
<1>2. Str(Written(tpl)).t = "string" /\ Str(Written(tpl)).v = Written(tpl)
  BY DEF Str, Json
<1> QED
  BY <1>1, <1>2 DEF resolveHeaderValue, resolveStringHeader

-----------------------------------------------------------------------------
(* What the steps of a request change in it. *)
Untouched(f, g, c) == \A d \in Call : d # c => g[d] = f[d]

Generated(f, c, p, b, r) == [f EXCEPT ![c].pc = p, ![c].body = b, ![c].rest = r]
WasRead(f, c, w, h)      == [f EXCEPT ![c].read = w, ![c].rest = @ \ {h}]
Responded(f, c, p, v)    == [f EXCEPT ![c].pc = p, ![c].headers = v]

PutPc(f, c, p)   == [f EXCEPT ![c].pc = p]
PutBody(f, c, b) == [f EXCEPT ![c].body = b]
PutRest(f, c, r) == [f EXCEPT ![c].rest = r]
PutRead(f, c, w) == [f EXCEPT ![c].read = w]
PutHeaders(f, c, v) == [f EXCEPT ![c].headers = v]

LEMMA PutPcSets ==
  ASSUME NEW f, DOMAIN f = Call, NEW c \in Call, IsRequest(f[c]), NEW p
  PROVE  /\ DOMAIN PutPc(f, c, p) = Call /\ Untouched(f, PutPc(f, c, p), c)
         /\ IsRequest(PutPc(f, c, p)[c])
         /\ PutPc(f, c, p)[c] = [pc |-> p, todo |-> f[c].todo, value |-> f[c].value, body |-> f[c].body,
                rest |-> f[c].rest, read |-> f[c].read, headers |-> f[c].headers]
BY DEF IsRequest, Untouched, PutPc

LEMMA PutBodySets ==
  ASSUME NEW f, DOMAIN f = Call, NEW c \in Call, IsRequest(f[c]), NEW b
  PROVE  /\ DOMAIN PutBody(f, c, b) = Call /\ Untouched(f, PutBody(f, c, b), c)
         /\ IsRequest(PutBody(f, c, b)[c])
         /\ PutBody(f, c, b)[c] = [pc |-> f[c].pc, todo |-> f[c].todo, value |-> f[c].value, body |-> b,
                rest |-> f[c].rest, read |-> f[c].read, headers |-> f[c].headers]
BY DEF IsRequest, Untouched, PutBody

LEMMA PutRestSets ==
  ASSUME NEW f, DOMAIN f = Call, NEW c \in Call, IsRequest(f[c]), NEW r
  PROVE  /\ DOMAIN PutRest(f, c, r) = Call /\ Untouched(f, PutRest(f, c, r), c)
         /\ IsRequest(PutRest(f, c, r)[c])
         /\ PutRest(f, c, r)[c] = [pc |-> f[c].pc, todo |-> f[c].todo, value |-> f[c].value, body |-> f[c].body,
                rest |-> r, read |-> f[c].read, headers |-> f[c].headers]
BY DEF IsRequest, Untouched, PutRest

LEMMA PutReadSets ==
  ASSUME NEW f, DOMAIN f = Call, NEW c \in Call, IsRequest(f[c]), NEW w
  PROVE  /\ DOMAIN PutRead(f, c, w) = Call /\ Untouched(f, PutRead(f, c, w), c)
         /\ IsRequest(PutRead(f, c, w)[c])
         /\ PutRead(f, c, w)[c] = [pc |-> f[c].pc, todo |-> f[c].todo, value |-> f[c].value, body |-> f[c].body,
                rest |-> f[c].rest, read |-> w, headers |-> f[c].headers]
BY DEF IsRequest, Untouched, PutRead

LEMMA PutHeadersSets ==
  ASSUME NEW f, DOMAIN f = Call, NEW c \in Call, IsRequest(f[c]), NEW v
  PROVE  /\ DOMAIN PutHeaders(f, c, v) = Call /\ Untouched(f, PutHeaders(f, c, v), c)
         /\ IsRequest(PutHeaders(f, c, v)[c])
         /\ PutHeaders(f, c, v)[c] = [pc |-> f[c].pc, todo |-> f[c].todo, value |-> f[c].value, body |-> f[c].body,
                rest |-> f[c].rest, read |-> f[c].read, headers |-> v]
BY DEF IsRequest, Untouched, PutHeaders

LEMMA GenerateSets ==
  ASSUME NEW f, DOMAIN f = Call, NEW c \in Call, IsRequest(f[c]), NEW p, NEW b, NEW r
  PROVE  /\ Untouched(f, Generated(f, c, p, b, r), c)
         /\ Generated(f, c, p, b, r)[c] = [pc |-> p, todo |-> f[c].todo, value |-> f[c].value, body |-> b,
                                           rest |-> r, read |-> f[c].read, headers |-> f[c].headers]
<1> DEFINE one == PutPc(f, c, p)
           two == PutBody(one, c, b)
<1>1. Generated(f, c, p, b, r) = PutRest(two, c, r)
  BY DEF Generated, PutPc, PutBody, PutRest
<1>2. DOMAIN one = Call /\ Untouched(f, one, c) /\ IsRequest(one[c])
  BY PutPcSets
<1>3. DOMAIN two = Call /\ Untouched(one, two, c) /\ IsRequest(two[c])
  <2> HIDE DEF one
  <2> QED
    BY <1>2, PutBodySets
<1>4. Untouched(two, PutRest(two, c, r), c)
  BY <1>3, PutRestSets
<1>5. one[c] = [pc |-> p, todo |-> f[c].todo, value |-> f[c].value, body |-> f[c].body,
                rest |-> f[c].rest, read |-> f[c].read, headers |-> f[c].headers]
  BY PutPcSets
<1>6. two[c] = [pc |-> one[c].pc, todo |-> one[c].todo, value |-> one[c].value, body |-> b,
                rest |-> one[c].rest, read |-> one[c].read, headers |-> one[c].headers]
  <2> HIDE DEF one
  <2> QED
    BY <1>2, PutBodySets
<1>7. PutRest(two, c, r)[c] = [pc |-> two[c].pc, todo |-> two[c].todo, value |-> two[c].value, body |-> two[c].body,
                               rest |-> r, read |-> two[c].read, headers |-> two[c].headers]
  <2> HIDE DEF two
  <2> QED
    BY <1>3, PutRestSets
<1> HIDE DEF one, two
<1> QED
  BY <1>1, <1>2, <1>3, <1>4, <1>5, <1>6, <1>7 DEF Untouched

LEMMA ReadSets ==
  ASSUME NEW f, DOMAIN f = Call, NEW c \in Call, IsRequest(f[c]), NEW w, NEW h
  PROVE  /\ Untouched(f, WasRead(f, c, w, h), c)
         /\ WasRead(f, c, w, h)[c] = [pc |-> f[c].pc, todo |-> f[c].todo, value |-> f[c].value, body |-> f[c].body,
                                      rest |-> f[c].rest \ {h}, read |-> w, headers |-> f[c].headers]
<1> DEFINE one == PutRead(f, c, w)
           left == f[c].rest \ {h}
<1>1. DOMAIN one = Call /\ Untouched(f, one, c) /\ IsRequest(one[c])
  BY PutReadSets
<1>2. one[c] = [pc |-> f[c].pc, todo |-> f[c].todo, value |-> f[c].value, body |-> f[c].body,
                rest |-> f[c].rest, read |-> w, headers |-> f[c].headers]
  BY PutReadSets
<1>3. WasRead(f, c, w, h) = PutRest(one, c, left)
  <2>1. WasRead(f, c, w, h) = [one EXCEPT ![c].rest = @ \ {h}]
    BY DEF WasRead, PutRead
  <2>2. one[c].rest = f[c].rest
    BY <1>2
  <2> QED
    BY <2>1, <2>2 DEF PutRest
<1> HIDE DEF one, left
<1>4. /\ Untouched(one, PutRest(one, c, left), c)
      /\ PutRest(one, c, left)[c] = [pc |-> one[c].pc, todo |-> one[c].todo, value |-> one[c].value, body |-> one[c].body,
                                     rest |-> left, read |-> one[c].read, headers |-> one[c].headers]
  BY <1>1, PutRestSets
<1> QED
  BY <1>1, <1>2, <1>3, <1>4 DEF Untouched, left

LEMMA RespondSets ==
  ASSUME NEW f, DOMAIN f = Call, NEW c \in Call, IsRequest(f[c]), NEW p, NEW v
  PROVE  /\ Untouched(f, Responded(f, c, p, v), c)
         /\ Responded(f, c, p, v)[c] = [pc |-> p, todo |-> f[c].todo, value |-> f[c].value, body |-> f[c].body,
                                        rest |-> f[c].rest, read |-> f[c].read, headers |-> v]
<1> DEFINE one == PutPc(f, c, p)
<1>1. Responded(f, c, p, v) = PutHeaders(one, c, v)
  BY DEF Responded, PutPc, PutHeaders
<1>2. DOMAIN one = Call /\ Untouched(f, one, c) /\ IsRequest(one[c])
  BY PutPcSets
<1>3. one[c] = [pc |-> p, todo |-> f[c].todo, value |-> f[c].value, body |-> f[c].body,
                rest |-> f[c].rest, read |-> f[c].read, headers |-> f[c].headers]
  BY PutPcSets
<1> HIDE DEF one
<1>4. /\ Untouched(one, PutHeaders(one, c, v), c)
      /\ PutHeaders(one, c, v)[c] = [pc |-> one[c].pc, todo |-> one[c].todo, value |-> one[c].value, body |-> one[c].body,
                                     rest |-> one[c].rest, read |-> one[c].read, headers |-> v]
  BY <1>2, PutHeadersSets
<1> QED
  BY <1>1, <1>2, <1>3, <1>4 DEF Untouched

(* While its conditions are looked at, a request has no answer. *)
LEMMA LookingOnly ==
  ASSUME MatchInv, NEW c \in Call,
         (\E x \in req[c].todo : MatchCondition(c, x)) \/ SchemaVerdict(c)
  PROVE  /\ Untouched(req, req', c) /\ UNCHANGED <<scene, shared>>
         /\ req[c].pc \in {"match", "schema"} /\ req'[c].pc \in {"match", "schema", "mismatch"}
         /\ req'[c].read = req[c].read
<1>0. DOMAIN req = Call /\ IsRequest(req[c])
  BY DEF MatchInv, RequestShape, IsRequest
<1>1. ASSUME NEW x \in req[c].todo, MatchCondition(c, x)
      PROVE  /\ Untouched(req, req', c) /\ UNCHANGED <<scene, shared>>
             /\ req[c].pc \in {"match", "schema"} /\ req'[c].pc \in {"match", "schema", "mismatch"}
             /\ req'[c].read = req[c].read
  <2>1. PICK value : \E p \in {"match", "schema", "mismatch"} :
               req' = [req EXCEPT ![c].todo = @ \ {x}, ![c].value = value, ![c].pc = p]
    BY <1>1 DEF MatchCondition
  <2>2. PICK p \in {"match", "schema", "mismatch"} :
               req' = [req EXCEPT ![c].todo = @ \ {x}, ![c].value = value, ![c].pc = p]
    BY <2>1
  <2> DEFINE left == req[c].todo \ {x}
             one == [req EXCEPT ![c].todo = left]
             two == [one EXCEPT ![c].value = value]
  <2>3. req' = [two EXCEPT ![c].pc = p]
    BY <2>2
  <2> HIDE DEF left
  <2>4. /\ DOMAIN one = Call /\ Untouched(req, one, c)
        /\ IsRequest(one[c]) /\ one[c].read = req[c].read
    BY <1>0 DEF IsRequest, Untouched
  <2> HIDE DEF one
  <2>5. /\ DOMAIN two = Call /\ Untouched(req, two, c)
        /\ IsRequest(two[c]) /\ two[c].read = req[c].read
    BY <2>4 DEF IsRequest, Untouched
  <2> HIDE DEF two
  <2>6. Untouched(req, req', c) /\ req'[c].pc = p /\ req'[c].read = req[c].read
    BY <2>3, <2>5 DEF IsRequest, Untouched
  <2> QED
    BY <1>1, <2>6 DEF MatchCondition
<1>2. ASSUME SchemaVerdict(c)
      PROVE  /\ Untouched(req, req', c) /\ UNCHANGED <<scene, shared>>
             /\ req[c].pc \in {"match", "schema"} /\ req'[c].pc \in {"match", "schema", "mismatch"}
             /\ req'[c].read = req[c].read
  <2>1. PICK p \in {"match", "mismatch"} : req' = [req EXCEPT ![c].pc = p]
    BY <1>2 DEF SchemaVerdict
  <2>2. Untouched(req, req', c) /\ req'[c].pc = p /\ req'[c].read = req[c].read
    BY <1>0, <2>1 DEF IsRequest, Untouched
  <2> QED
    BY <1>2, <2>2 DEF SchemaVerdict
<1> QED
  BY <1>1, <1>2

LEMMA AnswerFacts ==
  ASSUME scene \in Scene, NEW c \in Call
  PROVE  /\ scene.example[c] \in DOMAIN scene.of /\ IsExample(ExampleOf(c))
         /\ TypedSources(SourcesOf(c)) /\ ValuedSources(SourcesOf(c))
<1>1. scene.example[c] \in DOMAIN scene.of
  BY SceneAssumption
<1> QED
  BY <1>1, SceneAssumption DEF ExampleOf, SourcesOf, TypedSources, ValuedSources

-----------------------------------------------------------------------------
(* What is answered to one request. *)
HeadersMeant(c) ==
  \A h \in DOMAIN ExampleOf(c).headers :
    HeaderMeant(ExampleOf(c), h, c) = IF h \in DOMAIN req[c].headers THEN req[c].headers[h] ELSE <<>>

Owned(c) ==
  PlainExample(ExampleOf(c), SourcesOf(c)) /\ req[c].pc \in {"headers", "sent", "failed"} =>
    /\ req[c].body = BodyMeant(ExampleOf(c), SourcesOf(c))
    /\ req[c].pc = "sent" /\ ~ExampleOf(c).dynamic => HeadersMeant(c)

OwnInv == MatchInv /\ \A c \in Call : Owned(c)

LEMMA OwnedStays ==
  ASSUME NEW d \in Call, Owned(d), UNCHANGED scene, req'[d] = req[d]
  PROVE  Owned(d)'
BY DEF Owned, HeadersMeant, HeaderMeant, ExampleOf, SourcesOf

LEMMA GeneratesOwn ==
  ASSUME OwnInv, NEW c \in Call, GenerateBody(c)
  PROVE  Owned(c)' /\ Untouched(req, req', c) /\ UNCHANGED scene
<1>0. DOMAIN req = Call /\ IsRequest(req[c]) /\ scene \in Scene
  BY DEF OwnInv, MatchInv, RequestShape, IsRequest
<1>1. PICK body \in evaluateValue(BodyOf(ExampleOf(c)), SourcesOf(c)) :
        req' = [req EXCEPT ![c].pc   = IF body = Error THEN "failed" ELSE "headers",
                           ![c].body = body,
                           ![c].rest = IF ExampleOf(c).dynamic THEN DOMAIN ExampleOf(c).headers ELSE {}]
  BY DEF GenerateBody
<1> DEFINE p == IF body = Error THEN "failed" ELSE "headers"
           r == IF ExampleOf(c).dynamic THEN DOMAIN ExampleOf(c).headers ELSE {}
<1>2. p # "sent" /\ req' = Generated(req, c, p, body, r)
  BY <1>1 DEF Generated
<1> HIDE DEF p, r
<1>3. Untouched(req, req', c) /\ req'[c].pc = p /\ req'[c].body = body
  <2>1. /\ Untouched(req, Generated(req, c, p, body, r), c)
        /\ Generated(req, c, p, body, r)[c] =
             [pc |-> p, todo |-> req[c].todo, value |-> req[c].value, body |-> body,
              rest |-> r, read |-> req[c].read, headers |-> req[c].headers]
    BY ONLY <1>0, c \in Call, GenerateSets
  <2> QED
    BY <1>2, <2>1
<1>4. UNCHANGED scene
  BY DEF GenerateBody
<1>5. PlainExample(ExampleOf(c), SourcesOf(c)) => body = BodyMeant(ExampleOf(c), SourcesOf(c))
  BY <1>0, <1>1, AnswerFacts, BodyMeans
<1>6. ExampleOf(c)' = ExampleOf(c) /\ SourcesOf(c)' = SourcesOf(c)
  BY <1>4 DEF ExampleOf, SourcesOf
<1>7. Owned(c)'
  BY <1>2, <1>3, <1>5, <1>6 DEF Owned
<1> QED
  BY <1>3, <1>4, <1>7

LEMMA RespondsOwn ==
  ASSUME OwnInv, NEW c \in Call, Respond(c)
  PROVE  Owned(c)' /\ Untouched(req, req', c) /\ UNCHANGED scene
<1>0. DOMAIN req = Call /\ IsRequest(req[c]) /\ scene \in Scene
  BY DEF OwnInv, MatchInv, RequestShape, IsRequest
<1> DEFINE ex == ExampleOf(c)
           own == [h \in DOMAIN ex.headers |-> resolveHeaderValue(Str(Written(ex.headers[h])), SourcesOf(c))]
           present == [h \in {g \in DOMAIN own : own[g] # Missing} |-> own[h].v]
           v == IF ex.dynamic THEN shared[scene.example[c]] ELSE present
<1>1. /\ req[c].pc = "headers" /\ UNCHANGED scene
      /\ req' = Responded(req, c, "sent", v)
  BY DEF Respond, Responded
<1> HIDE DEF v
<1>2. Untouched(req, req', c) /\ req'[c].pc = "sent" /\ req'[c].body = req[c].body /\ req'[c].headers = v
  <2>1. /\ Untouched(req, Responded(req, c, "sent", v), c)
        /\ Responded(req, c, "sent", v)[c] =
             [pc |-> "sent", todo |-> req[c].todo, value |-> req[c].value, body |-> req[c].body,
              rest |-> req[c].rest, read |-> req[c].read, headers |-> v]
    BY <1>0, RespondSets
  <2> QED
    BY <1>1, <2>1
<1>3. ASSUME PlainExample(ex, SourcesOf(c)), ~ex.dynamic, NEW h \in DOMAIN ex.headers
      PROVE  HeaderMeant(ex, h, c) = IF h \in DOMAIN v THEN v[h] ELSE <<>>
  <2> DEFINE tpl == ex.headers[h]
             value == Filled(tpl, SourcesOf(c))
  <2>1. IsTemplate(tpl) /\ PlainTemplate(tpl, SourcesOf(c)) /\ TypedSources(SourcesOf(c)) /\ ValuedSources(SourcesOf(c))
    BY <1>0, <1>3, AnswerFacts DEF IsExample, PlainExample
  <2>2. own[h] = IF value = Error THEN Missing ELSE Str(Inserted(value))
    <3> HIDE DEF ex
    <3> QED
      BY <2>1, HeaderMeans
  <2>3. HeaderMeant(ex, h, c) = IF value # Error THEN Inserted(value) ELSE <<>>
    BY <1>3 DEF HeaderMeant
  <2>4. v = present
    BY <1>3 DEF v
  <2>5. Str(Inserted(value)) # Missing /\ Str(Inserted(value)).v = Inserted(value)
    BY DEF Str, Missing, Json
  <2>6. h \in DOMAIN own
    OBVIOUS
  <2> HIDE DEF own, ex, value
  <2>7. /\ h \in DOMAIN present <=> own[h] # Missing
        /\ own[h] # Missing => present[h] = own[h].v
    BY <2>6
  <2> HIDE DEF present
  <2> QED
    BY <2>2, <2>3, <2>4, <2>5, <2>7
<1>4. ExampleOf(c)' = ex /\ SourcesOf(c)' = SourcesOf(c)
  BY <1>1 DEF ExampleOf, SourcesOf
<1> HIDE DEF ex
<1>5. PlainExample(ex, SourcesOf(c)) => req[c].body = BodyMeant(ex, SourcesOf(c))
  BY <1>1 DEF OwnInv, Owned, ex
<1>6. ASSUME PlainExample(ex, SourcesOf(c)), ~ex.dynamic PROVE HeadersMeant(c)'
  <2>1. \A h \in DOMAIN ex.headers : HeaderMeant(ex, h, c) = IF h \in DOMAIN v THEN v[h] ELSE <<>>
    BY <1>3, <1>6
  <2> QED
    BY <1>1, <1>2, <2>1 DEF HeadersMeant, HeaderMeant, ex, ExampleOf, SourcesOf
<1>7. Owned(c)'
  BY <1>2, <1>4, <1>5, <1>6 DEF Owned
<1> QED
  BY <1>1, <1>2, <1>7

LEMMA OwnKeeps ==
  ASSUME OwnInv, [MatchNext]_allVars
  PROVE  OwnInv'
<1>0. DOMAIN req = Call /\ \A c \in Call : IsRequest(req[c])
  BY DEF OwnInv, MatchInv, RequestShape, IsRequest
<1>1. MatchInv'
  BY MatchKeeps DEF OwnInv
<1>2. ASSUME NEW c \in Call, Owned(c)', Untouched(req, req', c), UNCHANGED scene
      PROVE  \A d \in Call : Owned(d)'
  BY <1>2, OwnedStays DEF OwnInv, Untouched
<1>3. ASSUME UNCHANGED <<scene, req>> PROVE \A d \in Call : Owned(d)'
  BY <1>3, OwnedStays DEF OwnInv
<1>4. ASSUME NEW c \in Call, (\E x \in req[c].todo : MatchCondition(c, x)) \/ SchemaVerdict(c)
      PROVE  \A d \in Call : Owned(d)'
  <2>1. /\ Untouched(req, req', c) /\ UNCHANGED scene
        /\ req'[c].pc \notin {"headers", "sent", "failed"}
    BY <1>4, LookingOnly DEF OwnInv
  <2>2. Owned(c)'
    BY <2>1 DEF Owned
  <2> QED
    BY <1>2, <2>1, <2>2
<1>5. ASSUME NEW c \in Call, (\E h \in req[c].rest : ReadHeader(c, h)) \/ WriteHeader(c)
      PROVE  \A d \in Call : Owned(d)'
  <2>1. /\ Untouched(req, req', c) /\ UNCHANGED scene
        /\ req[c].pc = "headers" /\ req'[c].pc = "headers" /\ req'[c].body = req[c].body
    <3>1. ASSUME NEW h, ReadHeader(c, h)
          PROVE  /\ Untouched(req, req', c) /\ UNCHANGED scene
                 /\ req[c].pc = "headers" /\ req'[c].pc = "headers" /\ req'[c].body = req[c].body
      <4> DEFINE w == <<h, shared[scene.example[c]][h]>>
      <4>1. req' = WasRead(req, c, w, h) /\ UNCHANGED scene /\ req[c].pc = "headers"
        BY <3>1 DEF ReadHeader, WasRead
      <4> HIDE DEF w
      <4>2. /\ Untouched(req, WasRead(req, c, w, h), c)
            /\ WasRead(req, c, w, h)[c] =
                 [pc |-> req[c].pc, todo |-> req[c].todo, value |-> req[c].value, body |-> req[c].body,
                  rest |-> req[c].rest \ {h}, read |-> w, headers |-> req[c].headers]
        BY ONLY <1>0, c \in Call, ReadSets
      <4> QED
        BY <4>1, <4>2
    <3>2. ASSUME WriteHeader(c)
          PROVE  /\ Untouched(req, req', c) /\ UNCHANGED scene
                 /\ req[c].pc = "headers" /\ req'[c].pc = "headers" /\ req'[c].body = req[c].body
      <4>1. req' = PutRead(req, c, <<>>) /\ UNCHANGED scene /\ req[c].pc = "headers"
        BY <3>2 DEF WriteHeader, PutRead
      <4>2. /\ Untouched(req, PutRead(req, c, <<>>), c)
            /\ PutRead(req, c, <<>>)[c] =
                 [pc |-> req[c].pc, todo |-> req[c].todo, value |-> req[c].value, body |-> req[c].body,
                  rest |-> req[c].rest, read |-> <<>>, headers |-> req[c].headers]
        BY ONLY <1>0, c \in Call, PutReadSets
      <4> QED
        BY <4>1, <4>2
    <3> QED
      BY <1>5, <3>1, <3>2
  <2>2. Owned(c)'
    BY <2>1 DEF OwnInv, Owned, ExampleOf, SourcesOf
  <2> QED
    BY <1>2, <2>1, <2>2
<1>6. ASSUME NEW c \in Call, GenerateBody(c) \/ Respond(c) PROVE \A d \in Call : Owned(d)'
  BY <1>2, <1>6, GeneratesOwn, RespondsOwn
<1>7. ASSUME NEW c \in Call, SchemaStep(c) \/ MapRace(c) PROVE \A d \in Call : Owned(d)'
  BY <1>3, <1>7 DEF SchemaStep, MapRace, matchVars
<1>8. CASE UNCHANGED allVars
  BY <1>1, <1>3, <1>8 DEF OwnInv, allVars, matchVars
<1>9. CASE MatchNext
  <2>1. \A d \in Call : Owned(d)'
    BY <1>4, <1>5, <1>6, <1>7, <1>9 DEF MatchNext
  <2> QED
    BY <1>1, <2>1 DEF OwnInv
<1> QED
  BY <1>8, <1>9

(* (generateResponse) The body that a request gets is its example's        *)
(* template, filled from that request, and so are the headers of a static  *)
(* example: of all examples and sources, whatever other requests do.       *)
THEOREM AnswersAreOwn == MatchSpec => []AnswerIsOwn
<1>1. MatchInit => OwnInv
  <2> SUFFICES ASSUME MatchInit PROVE OwnInv
    OBVIOUS
  <2>1. \A c \in Call : req[c].pc = "match"
    BY DEF MatchInit
  <2> QED
    BY <2>1, MatchStarts DEF OwnInv, Owned
<1>2. OwnInv /\ [MatchNext]_allVars => OwnInv'
  BY OwnKeeps
<1>3. OwnInv => AnswerIsOwn
  BY DEF OwnInv, Owned, HeadersMeant, AnswerIsOwn
<1> QED
  BY <1>1, <1>2, <1>3, PTL DEF MatchSpec

-----------------------------------------------------------------------------
(* What is gathered in a header, from request to request. *)

(* A text that neither opens an expression nor ends one. *)
Calm(text) == OpensNothing(text, Opening) /\ (text = <<>> \/ text[Len(text)] # Closing)

LEMMA QuietIsCalm ==
  ASSUME NEW E, NEW text \in Seq(E), Quiet(text)
  PROVE  Calm(text)
<1>1. OpensNothing(text, Opening)
  BY OpensOrHas, Zenon DEF Quiet
<1>2. text = <<>> \/ text[Len(text)] # Closing
  BY Zenon DEF Quiet, Last, Closing
<1> QED
  BY <1>1, <1>2 DEF Calm

LEMMA FullOpensOnce ==
  ASSUME NEW E, NEW text \in Seq(E), isFullExpression(text)
  PROVE  /\ Len(text) # 0 /\ text[1] = Opening /\ text[Len(text)] = Closing
         /\ \A i \in 1 .. Len(text) : text[i] = Opening => i = 1
<1>1. /\ text # <<>> /\ Head(text) = Opening /\ Last(text) = Closing
      /\ Cardinality(Places(text, Opening)) = 1
  BY Zenon DEF isFullExpression, Opening, Closing
<1>2. Len(text) # 0 /\ text[1] = Opening /\ text[Len(text)] = Closing
  BY <1>1 DEF Last
<1>3. IsFiniteSet(Places(text, Opening))
  <2>1. Places(text, Opening) \subseteq 1 .. Len(text)
    BY DEF Places
  <2> QED
    BY <2>1, FS_Interval, FS_Subset
<1>4. PICK x : Places(text, Opening) = {x}
  BY <1>1, <1>3, FS_Singleton
<1>5. 1 \in Places(text, Opening)
  BY <1>2 DEF Places
<1>6. ASSUME NEW i \in 1 .. Len(text), text[i] = Opening PROVE i = 1
  <2>1. i \in Places(text, Opening)
    BY <1>6 DEF Places
  <2> QED
    BY <1>4, <1>5, <2>1
<1> QED
  BY <1>2, <1>6

(* A text that is one expression is one of its parts. *)
LEMMA FullIsSealed ==
  ASSUME NEW E, NEW ss \in Seq(Seq(E)),
         \A k \in 1 .. Len(ss) : Calm(ss[k]) \/ SealedBy(ss[k], Opening, Closing),
         isFullExpression(FlattenSeq(ss))
  PROVE  \E k \in 1 .. Len(ss) : FlattenSeq(ss) = ss[k] /\ SealedBy(ss[k], Opening, Closing)
<1> DEFINE text == FlattenSeq(ss)
           L == Len(text)
<1>1. /\ text \in Seq(E)
      /\ L # 0 /\ text[1] = Opening /\ text[L] = Closing
      /\ \A i \in 1 .. L : text[i] = Opening => i = 1
  BY FlatSeq, FullOpensOnce
<1>2. PICK at \in [0 .. Len(ss) -> Nat] :
        /\ at[0] = 0 /\ at[Len(ss)] = L
        /\ \A k \in 1 .. Len(ss) :
             /\ at[k] = at[k - 1] + Len(ss[k]) /\ at[k] <= at[Len(ss)]
             /\ \A m \in 1 .. Len(ss[k]) : text[at[k - 1] + m] = ss[k][m]
  BY FlatPlaces
<1> HIDE DEF text
<1>3. Len(ss) \in Nat /\ L \in Nat
  BY <1>1
<1> HIDE DEF L
<1> DEFINE K == {k \in 0 .. Len(ss) : at[k] = L}
<1>4. PICK k \in K : \A j \in K : k <= j
  <2>1. K \subseteq Nat /\ Len(ss) \in K
    BY <1>2, <1>3
  <2> HIDE DEF K
  <2> QED
    BY <2>1, LeastNumber
<1>5. k \in 1 .. Len(ss) /\ at[k] = L /\ at[k - 1] # L
  BY <1>1, <1>2, <1>3, <1>4
<1> DEFINE p == ss[k]
           b == at[k - 1]
<1>6. p \in Seq(E) /\ Len(p) \in Nat /\ b \in Nat
  <2>1. k \in 1 .. Len(ss) /\ k - 1 \in 0 .. Len(ss)
    BY <1>3, <1>5
  <2>2. p \in Seq(E)
    BY <2>1, ElementOfSeq
  <2>3. at[k - 1] \in Nat
    BY <1>2, <2>1
  <2> QED
    BY <2>2, <2>3, LenProperties
<1>7. /\ b + Len(p) = L /\ \A m \in 1 .. Len(p) : text[b + m] = p[m]
  BY <1>2, <1>5
<1>8. Calm(p) \/ SealedBy(p, Opening, Closing)
  BY <1>5
<1>9. b # L
  BY <1>5
<1> HIDE DEF p, b
<1>10. Len(p) # 0 /\ p[Len(p)] = Closing
  BY <1>1, <1>6, <1>7, <1>9
<1>11. SealedBy(p, Opening, Closing)
  BY <1>6, <1>8, <1>10 DEF Calm
<1>12. b = 0
  <2>1. 1 \in 1 .. Len(p) /\ p[1] = Opening
    BY <1>6, <1>11 DEF SealedBy
  <2>2. text[b + 1] = Opening
    BY <1>7, <2>1
  <2>3. b + 1 \in 1 .. L
    <3>1. b + Len(p) = L /\ 1 <= Len(p)
      BY <1>6, <1>7, <2>1
    <3> QED
      BY <1>3, <1>6, <3>1
  <2> QED
    BY <1>1, <1>6, <2>2, <2>3
<1>13. Len(text) = Len(p) /\ \A m \in 1 .. Len(p) : text[m] = p[m]
  <2>1. Len(text) = Len(p)
    <3>1. b + Len(p) = L
      BY <1>7
    <3>2. L = Len(p)
      BY <1>6, <1>12, <3>1
    <3> QED
      BY <3>2 DEF L
  <2>2. ASSUME NEW m \in 1 .. Len(p) PROVE text[m] = p[m]
    <3>1. text[b + m] = p[m]
      BY <1>7
    <3>2. b + m = m
      BY <1>6, <1>12
    <3> QED
      BY <3>1, <3>2
  <2> QED
    BY <2>1, <2>2
<1>14. text = p
  BY <1>1, <1>6, <1>13
<1> QED
  BY <1>5, <1>11, <1>14 DEF text, p

(* The text that an evaluation leaves. *)
LEMMA ValueIsReplaced ==
  ASSUME NEW text \in Seq(Token), NEW sources,
         isFullExpression(text) =>
           SealedBy(text, Opening, Closing) /\ ValueIn(text, sources) \in Seq(Token),
         NEW value, value = evaluateString(text, sources)
  PROVE  replaceEmbeddedExpressions(text, sources) = IF value = Error THEN text ELSE Inserted(value)
<1>1. CASE isFullExpression(text)
  <2> DEFINE one == <<text>>
  <2>0. value = Evaluate(text, sources)
    BY <1>1 DEF evaluateString
  <2>1. one \in Seq(Seq(Token)) /\ Len(one) = 1 /\ one[1] = text
    OBVIOUS
  <2>2. ~OpensNothing(text, Opening)
    BY <1>1 DEF SealedBy, OpensNothing
  <2>3. Became(text, sources, Opening) = ValueIn(text, sources)
    BY <2>2 DEF Became
  <2>4. Opening \in Token /\ Closing \in Token
    BY TokenAssumption DEF Opening, Closing
  <2> HIDE DEF one
  <2>5. \A k \in 1 .. Len(one) : IsPiece(one[k], Opening, Closing) /\ Became(one[k], sources, Opening) \in Seq(Token)
    BY <1>1, <2>1, <2>3 DEF IsPiece
  <2>6. replaceEmbeddedExpressions(FlattenSeq(one), sources) = FlattenSeq(BecomeAll(one, sources, Opening))
    BY <2>1, <2>4, <2>5, PiecesReplaced
  <2>7. FlattenSeq(one) = text
    BY <2>1, FlatOne
  <2>8. /\ BecomeAll(one, sources, Opening) \in Seq(Seq(Token)) /\ Len(BecomeAll(one, sources, Opening)) = 1
        /\ BecomeAll(one, sources, Opening)[1] = ValueIn(text, sources)
    BY <2>1, <2>3, <2>5 DEF BecomeAll
  <2>9. FlattenSeq(BecomeAll(one, sources, Opening)) = ValueIn(text, sources)
    BY <2>8, FlatOne
  <2> QED
    BY <2>0, <2>6, <2>7, <2>9 DEF ValueIn, Replaced
<1>2. CASE ~isFullExpression(text)
  <2>1. value = Str(replaceEmbeddedExpressions(text, sources))
    BY <1>2 DEF evaluateString
  <2> QED
    BY <2>1 DEF Str, Error, Json, Inserted
<1> QED
  BY <1>1, <1>2

-----------------------------------------------------------------------------
(* The parts of a header, each filled from a request s.sources[from[i]].   *)
Sound(src) == TypedSources(src) /\ ValuedSources(src)
Parts(tpl, sources, from) == [i \in DOMAIN tpl |-> Shown(tpl[i], sources[from[i]])]
GatheredIn(tpl, text, sources, calls) ==
  \E from \in [DOMAIN tpl -> calls] : text = FlattenSeq(Parts(tpl, sources, from))
SettledIn(tpl, sources, calls) ==
  \A i \in DOMAIN tpl :
    IF tpl[i].lit # <<>> THEN Quiet(tpl[i].lit)
    ELSE \A d \in calls : Meaning(tpl[i].ref, sources[d]) # Error => Quiet(Inserted(Meaning(tpl[i].ref, sources[d])))

LEMMA GatheredIs ==
  ASSUME NEW tpl, NEW text, NEW calls
  PROVE  /\ Gathered(tpl, text, calls) <=> GatheredIn(tpl, text, scene.sources, calls)
         /\ Settled(tpl, calls) <=> SettledIn(tpl, scene.sources, calls)
BY DEF Gathered, GatheredIn, Mixed, Parts, SourcesOf, Settled, SettledIn

(* What a part is filled with stands for it, and is calm unless it is the  *)
(* reference.                                                              *)
LEMMA ShownStands ==
  ASSUME NEW part, NEW src, Sound(src),
         IF part.lit = <<>> THEN IsReferenceTo(part.ref) /\ Plain(part.ref) /\ Undisputed(part.ref, src)
         ELSE part.lit \in Seq(Token),
         IF part.lit # <<>> THEN Quiet(part.lit)
         ELSE Meaning(part.ref, src) # Error => Quiet(Inserted(Meaning(part.ref, src)))
  PROVE  /\ StandsFor(part, Shown(part, src))
         /\ OpensNothing(Shown(part, src), Opening) => Calm(Shown(part, src))
         /\ ~OpensNothing(Shown(part, src), Opening) =>
              SealedBy(Shown(part, src), Opening, Closing) /\ part.lit = <<>> /\ Shown(part, src) = Spell(part.ref)
<1> DEFINE value == Meaning(part.ref, src)
           text == Shown(part, src)
<1>1. CASE part.lit # <<>>
  <2>1. text = part.lit
    BY <1>1 DEF Shown
  <2>2. Calm(text) /\ text \in Seq(Token)
    BY <1>1, <2>1, QuietIsCalm
  <2> QED
    BY <2>2 DEF StandsFor, Calm
<1>2. CASE part.lit = <<>> /\ value # Error
  <2>1. text = Inserted(value)
    BY <1>2 DEF Shown
  <2>2. text \in Seq(Token)
    BY <1>2, <2>1, MeaningInserts DEF Sound
  <2>3. Calm(text)
    BY <1>2, <2>1, <2>2, QuietIsCalm
  <2> QED
    BY <2>2, <2>3 DEF StandsFor, Calm
<1>3. CASE part.lit = <<>> /\ value = Error
  <2>1. text = Spell(part.ref)
    BY <1>3 DEF Shown
  <2>2. SealedBy(text, Opening, Closing) /\ text \in Seq(Token)
    BY <1>3, <2>1, SpellSealed
  <2>3. ~OpensNothing(text, Opening)
    BY <2>2 DEF OpensNothing, SealedBy
  <2> QED
    BY <1>3, <2>1, <2>2, <2>3 DEF StandsFor
<1> QED
  BY <1>1, <1>2, <1>3

(* One more request fills the parts that are still open. *)
LEMMA MixedReplaced ==
  ASSUME NEW tpl, IsTemplate(tpl), NEW calls, NEW sources, \A d \in calls : PlainParts(tpl, sources[d]),
         \A d \in calls : Sound(sources[d]), SettledIn(tpl, sources, calls),
         NEW c \in calls, NEW text, GatheredIn(tpl, text, sources, calls)
  PROVE  /\ text \in Seq(Token)
         /\ GatheredIn(tpl, replaceEmbeddedExpressions(text, sources[c]), sources, calls)
         /\ isFullExpression(text) =>
              SealedBy(text, Opening, Closing) /\ ValueIn(text, sources[c]) \in Seq(Token)
<1>1. PICK from \in [DOMAIN tpl -> calls] : text = FlattenSeq(Parts(tpl, sources, from))
  BY DEF GatheredIn
<1> DEFINE ss == Parts(tpl, sources, from)
           src == sources[c]
<1>2. DOMAIN ss = DOMAIN tpl /\ ss = [i \in DOMAIN ss |-> ss[i]]
      /\ \A i \in DOMAIN tpl : ss[i] = Shown(tpl[i], sources[from[i]])
  BY DEF Parts
<1>3. Len(tpl) \in Nat /\ DOMAIN tpl = 1 .. Len(tpl)
  BY TemplateParts
<1>4. TypedSources(src) /\ ValuedSources(src) /\ PlainParts(tpl, src)
  BY DEF Sound
<1>5. ASSUME NEW i \in DOMAIN tpl
      PROVE  /\ IF tpl[i].lit = <<>> THEN IsReferenceTo(tpl[i].ref) /\ Plain(tpl[i].ref) /\ Undisputed(tpl[i].ref, src)
                ELSE tpl[i].lit \in Seq(Token)
             /\ StandsFor(tpl[i], ss[i])
             /\ OpensNothing(ss[i], Opening) => Calm(ss[i])
             /\ ~OpensNothing(ss[i], Opening) => SealedBy(ss[i], Opening, Closing)
  <2> DEFINE part == tpl[i]
             other == sources[from[i]]
  <2>1. from[i] \in calls /\ Sound(other)
    BY <1>1
  <2>2. IF part.lit = <<>>
        THEN IsReferenceTo(part.ref) /\ Plain(part.ref) /\ Undisputed(part.ref, src) /\ Undisputed(part.ref, other)
        ELSE part.lit \in Seq(Token)
    <3>1. PlainParts(tpl, src) /\ PlainParts(tpl, other)
      BY <1>4, <2>1
    <3> QED
      BY <3>1, TemplateParts, Zenon DEF PlainParts
  <2>3. IF part.lit # <<>> THEN Quiet(part.lit)
        ELSE Meaning(part.ref, other) # Error => Quiet(Inserted(Meaning(part.ref, other)))
    BY <2>1, Zenon DEF SettledIn
  <2>4. ss[i] = Shown(part, other)
    BY <1>2
  <2> HIDE DEF part, other
  <2>5. /\ StandsFor(part, Shown(part, other))
        /\ OpensNothing(Shown(part, other), Opening) => Calm(Shown(part, other))
        /\ ~OpensNothing(Shown(part, other), Opening) => SealedBy(Shown(part, other), Opening, Closing)
    BY <2>1, <2>2, <2>3, ShownStands
  <2> QED
    BY <2>2, <2>4, <2>5 DEF part
<1> HIDE DEF ss, src
<1>6. /\ ss \in Seq(Seq(Token)) /\ Len(ss) = Len(tpl)
      /\ replaceEmbeddedExpressions(FlattenSeq(ss), src)
           = FlattenSeq([i \in DOMAIN tpl |-> Refilled(tpl[i], ss[i], src)])
  BY <1>2, <1>4, <1>5, PartsReplaced
<1>7. text = FlattenSeq(ss)
  BY <1>1 DEF ss
<1> DEFINE next == [i \in DOMAIN tpl |-> IF OpensNothing(ss[i], Opening) THEN from[i] ELSE c]
<1>8. next \in [DOMAIN tpl -> calls]
  BY <1>1
<1>9. ASSUME NEW i \in DOMAIN tpl
      PROVE  Refilled(tpl[i], ss[i], src) = Shown(tpl[i], sources[next[i]])
  BY <1>2 DEF Refilled, src
<1>10. [i \in DOMAIN tpl |-> Refilled(tpl[i], ss[i], src)] = Parts(tpl, sources, next)
  BY <1>9 DEF Parts
<1> HIDE DEF next
<1>11. GatheredIn(tpl, replaceEmbeddedExpressions(text, src), sources, calls)
  BY <1>6, <1>7, <1>8, <1>10 DEF GatheredIn
<1>12. ASSUME isFullExpression(text)
       PROVE  SealedBy(text, Opening, Closing) /\ ValueIn(text, src) \in Seq(Token)
  <2>1. \A k \in 1 .. Len(ss) : Calm(ss[k]) \/ SealedBy(ss[k], Opening, Closing)
    BY <1>3, <1>5, <1>6
  <2>2. PICK k \in 1 .. Len(ss) : text = ss[k] /\ SealedBy(ss[k], Opening, Closing)
    BY <1>6, <1>7, <1>12, <2>1, FullIsSealed
  <2>3. ~OpensNothing(ss[k], Opening)
    BY <2>2 DEF SealedBy, OpensNothing
  <2> DEFINE part == tpl[k]
             word == ss[k]
  <2>4. /\ IF part.lit = <<>> THEN IsReferenceTo(part.ref) /\ Plain(part.ref) /\ Undisputed(part.ref, src) ELSE TRUE
        /\ StandsFor(part, word)
    BY <1>3, <1>5, <1>6
  <2> HIDE DEF part, word
  <2>5. Became(word, src, Opening) \in Seq(Token)
    BY <1>4, <2>4, PartRefilled
  <2> QED
    BY <2>2, <2>3, <2>5 DEF Became, word
<1> QED
  BY <1>6, <1>7, <1>11, <1>12, FlatSeq DEF src

(* A text that is kept for a header: as it was written, or gathered.       *)
KeptIn(tpl, text, sources, calls) == text = Written(tpl) \/ GatheredIn(tpl, text, sources, calls)

LEMMA WrittenFills ==
  ASSUME NEW tpl, IsTemplate(tpl), NEW calls, NEW sources, NEW c \in calls, PlainTemplate(tpl, sources[c]), Sound(sources[c])
  PROVE  /\ Written(tpl) \in Seq(Token)
         /\ GatheredIn(tpl, replaceEmbeddedExpressions(Written(tpl), sources[c]), sources, calls)
         /\ isFullExpression(Written(tpl)) =>
              /\ SealedBy(Written(tpl), Opening, Closing)
              /\ ValueIn(Written(tpl), sources[c]) \in Seq(Token)
<1> DEFINE src == sources[c]
           from == [i \in DOMAIN tpl |-> c]
<1>1. TypedSources(src) /\ ValuedSources(src) /\ PlainParts(tpl, src)
  BY Zenon DEF Sound, PlainTemplate, PlainParts
<1>2. from \in [DOMAIN tpl -> calls]
  OBVIOUS
<1>3. [i \in DOMAIN tpl |-> Shown(tpl[i], src)] = Parts(tpl, sources, from)
  BY DEF Parts
<1> HIDE DEF src, from
<1>4. /\ Written(tpl) \in Seq(Token)
      /\ replaceEmbeddedExpressions(Written(tpl), src) = FlattenSeq([i \in DOMAIN tpl |-> Shown(tpl[i], src)])
      /\ IsReference(tpl) => Written(tpl) = Spell(tpl[1].ref)
  BY <1>1, WrittenReplaced
<1>5. GatheredIn(tpl, replaceEmbeddedExpressions(Written(tpl), src), sources, calls)
  BY <1>2, <1>3, <1>4 DEF GatheredIn
<1>6. ASSUME isFullExpression(Written(tpl))
      PROVE  SealedBy(Written(tpl), Opening, Closing) /\ ValueIn(Written(tpl), src) \in Seq(Token)
  <2>1. IsReference(tpl)
    BY <1>6, Zenon DEF PlainTemplate
  <2> DEFINE ref == tpl[1].ref
             text == Spell(ref)
  <2>2. 1 \in DOMAIN tpl /\ tpl[1].lit = <<>>
    BY <2>1, TemplateParts DEF IsReference
  <2>3. IsReferenceTo(ref) /\ Plain(ref) /\ Undisputed(ref, src)
    BY <1>1, <2>2, TemplateParts, Zenon DEF PlainParts
  <2> HIDE DEF ref
  <2>4. SealedBy(text, Opening, Closing) /\ text \in Seq(Token)
    BY <2>3, SpellSealed
  <2>5. Evaluate(text, src) = Meaning(ref, src)
    BY <1>1, <2>3, EvaluateReference
  <2>6. ValueIn(text, src) \in Seq(Token)
    BY <1>1, <2>3, <2>4, <2>5, MeaningInserts DEF ValueIn, Replaced
  <2> QED
    BY <1>4, <2>1, <2>4, <2>6 DEF ref
<1> QED
  BY <1>4, <1>5, <1>6 DEF src

(* What a request makes of the text of a header, as written or gathered,   *)
(* is gathered; and so is the text if it cannot be evaluated.              *)
LEMMA GatherStep ==
  ASSUME NEW tpl, IsTemplate(tpl), NEW calls, NEW sources, \A d \in calls : PlainTemplate(tpl, sources[d]),
         \A d \in calls : Sound(sources[d]), SettledIn(tpl, sources, calls),
         NEW c \in calls, NEW text, KeptIn(tpl, text, sources, calls),
         NEW value, value = evaluateString(text, sources[c])
  PROVE  GatheredIn(tpl, IF value = Error THEN text ELSE Inserted(value), sources, calls)
<1>1. /\ text \in Seq(Token)
      /\ GatheredIn(tpl, replaceEmbeddedExpressions(text, sources[c]), sources, calls)
      /\ isFullExpression(text) => SealedBy(text, Opening, Closing) /\ ValueIn(text, sources[c]) \in Seq(Token)
  <2>1. CASE text = Written(tpl)
    BY <2>1, WrittenFills
  <2>2. CASE GatheredIn(tpl, text, sources, calls)
    <3>1. \A d \in calls : PlainParts(tpl, sources[d])
      BY Zenon DEF PlainTemplate, PlainParts
    <3> QED
      BY <2>2, <3>1, MixedReplaced
  <2> QED
    BY <2>1, <2>2 DEF KeptIn
<1>2. replaceEmbeddedExpressions(text, sources[c]) = IF value = Error THEN text ELSE Inserted(value)
  BY <1>1, ValueIsReplaced
<1> QED
  BY <1>1, <1>2

-----------------------------------------------------------------------------
(* The header h of example n, of which a request r knows what it has read. *)
CallersOf(s, n) == {d \in Call : s.example[d] = n}
Apt(s, n, h) ==
  /\ \A d \in CallersOf(s, n) : PlainTemplate(s.of[n].headers[h], s.sources[d])
  /\ SettledIn(s.of[n].headers[h], s.sources, CallersOf(s, n))
GatheredAt(s, n, h, text) == GatheredIn(s.of[n].headers[h], text, s.sources, CallersOf(s, n))
IsWritten(s, n, h, text)  == text = Written(s.of[n].headers[h])
Kept(s, n, h, text)       == IsWritten(s, n, h, text) \/ GatheredAt(s, n, h, text)

BeingRead(r, h) == r.read # <<>> /\ r.read[1] = h
Progress(s, n, h, r, text) ==
  /\ BeingRead(r, h) =>
       /\ Kept(s, n, h, r.read[2])
       /\ IsWritten(s, n, h, r.read[2]) \/ GatheredAt(s, n, h, text)
  /\ r.pc = "headers" /\ s.of[n].dynamic /\ h \notin r.rest /\ ~BeingRead(r, h) => GatheredAt(s, n, h, text)
  /\ r.pc = "sent" /\ s.of[n].dynamic => h \in DOMAIN r.headers /\ GatheredAt(s, n, h, r.headers[h])

AtHeader(s, n, h, rs, text) ==
  Apt(s, n, h) =>
    /\ Kept(s, n, h, text)
    /\ \A c \in CallersOf(s, n) : Progress(s, n, h, rs[c], text)

SharedShape ==
  /\ DOMAIN shared = DOMAIN scene.of
  /\ \A n \in DOMAIN scene.of : DOMAIN shared[n] = DOMAIN scene.of[n].headers

GatherInv ==
  /\ MatchInv /\ SharedShape
  /\ \A n \in DOMAIN scene.of : \A h \in DOMAIN scene.of[n].headers : AtHeader(scene, n, h, req, shared[n][h])

LEMMA SceneSound ==
  ASSUME scene \in Scene
  PROVE  /\ \A d \in Call : Sound(scene.sources[d])
         /\ \A n \in DOMAIN scene.of : IsExample(scene.of[n])
         /\ \A d \in Call : scene.example[d] \in DOMAIN scene.of
<1>1. ASSUME NEW d \in Call PROVE Sound(scene.sources[d]) /\ scene.example[d] \in DOMAIN scene.of
  BY <1>1, AnswerFacts DEF Sound, SourcesOf
<1> QED
  BY <1>1, SceneAssumption

(* The step of request c, seen from the header h of its example n, with    *)
(* what it was and is in the map.                                          *)
LEMMA ProgressKeeps ==
  ASSUME NEW s, NEW n, NEW h, NEW r, NEW text, Progress(s, n, h, r, text),
         NEW next, GatheredAt(s, n, h, text) => GatheredAt(s, n, h, next)
  PROVE  Progress(s, n, h, r, next)
BY DEF Progress

LEMMA OthersKeep ==
  ASSUME NEW s, NEW n, NEW h, NEW f, NEW g, NEW c \in Call, Untouched(f, g, c),
         NEW text, NEW next, AtHeader(s, n, h, f, text), Apt(s, n, h),
         Kept(s, n, h, next), GatheredAt(s, n, h, text) => GatheredAt(s, n, h, next),
         s.example[c] = n => Progress(s, n, h, g[c], next)
  PROVE  AtHeader(s, n, h, g, next)
<1>1. ASSUME NEW d \in CallersOf(s, n) PROVE Progress(s, n, h, g[d], next)
  <2>1. CASE d = c
    BY <1>1, <2>1 DEF CallersOf
  <2>2. CASE d # c
    <3>1. g[d] = f[d] /\ Progress(s, n, h, f[d], text)
      BY <1>1, <2>2 DEF CallersOf, Untouched, AtHeader
    <3> QED
      BY <3>1, ProgressKeeps
  <2> QED
    BY <2>1, <2>2
<1> QED
  BY <1>1 DEF AtHeader

LEMMA CallStep ==
  ASSUME GatherInv, MatchInv', NEW c \in Call, Untouched(req, req', c), UNCHANGED scene, SharedShape',
         \A n \in DOMAIN scene.of : \A h \in DOMAIN scene.of[n].headers : Apt(scene, n, h) =>
           /\ Kept(scene, n, h, shared'[n][h])
           /\ GatheredAt(scene, n, h, shared[n][h]) => GatheredAt(scene, n, h, shared'[n][h])
           /\ scene.example[c] = n => Progress(scene, n, h, req'[c], shared'[n][h])
  PROVE  GatherInv'
<1>1. ASSUME NEW n \in DOMAIN scene.of, NEW h \in DOMAIN scene.of[n].headers
      PROVE  AtHeader(scene, n, h, req', shared'[n][h])
  <2>1. AtHeader(scene, n, h, req, shared[n][h])
    BY DEF GatherInv
  <2>2. CASE ~Apt(scene, n, h)
    BY <2>2 DEF AtHeader
  <2>3. CASE Apt(scene, n, h)
    BY <2>1, <2>3, OthersKeep
  <2> QED
    BY <2>2, <2>3
<1> QED
  BY <1>1 DEF GatherInv

(* A step that leaves the map alone. *)
LEMMA MapStays ==
  ASSUME GatherInv, MatchInv', NEW c \in Call, Untouched(req, req', c), UNCHANGED <<scene, shared>>,
         NEW n, n = scene.example[c], n \in DOMAIN scene.of,
         \A h \in DOMAIN scene.of[n].headers :
           Apt(scene, n, h) /\ Kept(scene, n, h, shared[n][h]) /\ Progress(scene, n, h, req[c], shared[n][h]) =>
             Progress(scene, n, h, req'[c], shared[n][h])
  PROVE  GatherInv'
<1>1. SharedShape'
  BY DEF GatherInv, SharedShape
<1>2. ASSUME NEW m \in DOMAIN scene.of, NEW h \in DOMAIN scene.of[m].headers, Apt(scene, m, h)
      PROVE  /\ Kept(scene, m, h, shared[m][h])
             /\ scene.example[c] = m => Progress(scene, m, h, req'[c], shared[m][h])
  <2>1. AtHeader(scene, m, h, req, shared[m][h])
    BY DEF GatherInv
  <2>2. Kept(scene, m, h, shared[m][h])
    BY <1>2, <2>1 DEF AtHeader
  <2>3. ASSUME scene.example[c] = m PROVE Progress(scene, m, h, req[c], shared[m][h])
    BY <1>2, <2>1, <2>3 DEF AtHeader, CallersOf
  <2> QED
    BY <1>2, <2>2, <2>3
<1>3. shared' = shared
  OBVIOUS
<1> QED
  BY <1>1, <1>2, <1>3, CallStep

LEMMA GatherTypes ==
  ASSUME GatherInv, NEW c \in Call
  PROVE  /\ DOMAIN req = Call /\ IsRequest(req[c]) /\ scene \in Scene /\ MatchInv
         /\ scene.example[c] \in DOMAIN scene.of
BY SceneSound DEF GatherInv, MatchInv, RequestShape, IsRequest

LEMMA LookGathers ==
  ASSUME GatherInv, MatchInv', NEW c \in Call, (\E x \in req[c].todo : MatchCondition(c, x)) \/ SchemaVerdict(c)
  PROVE  GatherInv'
<1>1. /\ Untouched(req, req', c) /\ UNCHANGED <<scene, shared>>
      /\ req'[c].pc \in {"match", "schema", "mismatch"} /\ req'[c].read = req[c].read
  BY GatherTypes, LookingOnly
<1> DEFINE n == scene.example[c]
<1>2. n \in DOMAIN scene.of
  BY GatherTypes
<1>3. ASSUME NEW h, Progress(scene, n, h, req[c], shared[n][h])
      PROVE  Progress(scene, n, h, req'[c], shared[n][h])
  BY <1>1, <1>3 DEF Progress, BeingRead
<1> HIDE DEF n
<1>4. n = scene.example[c]
  BY DEF n
<1> QED
  BY <1>1, <1>2, <1>3, <1>4, MapStays

LEMMA GenerateGathers ==
  ASSUME GatherInv, MatchInv', NEW c \in Call, GenerateBody(c)
  PROVE  GatherInv'
<1>0. DOMAIN req = Call /\ IsRequest(req[c])
  BY GatherTypes
<1> DEFINE n == scene.example[c]
           r == IF ExampleOf(c).dynamic THEN DOMAIN ExampleOf(c).headers ELSE {}
<1>1. PICK body \in evaluateValue(BodyOf(ExampleOf(c)), SourcesOf(c)) :
        req' = [req EXCEPT ![c].pc   = IF body = Error THEN "failed" ELSE "headers",
                           ![c].body = body,
                           ![c].rest = IF ExampleOf(c).dynamic THEN DOMAIN ExampleOf(c).headers ELSE {}]
  BY DEF GenerateBody
<1> DEFINE p == IF body = Error THEN "failed" ELSE "headers"
<1>2. p # "sent" /\ req' = Generated(req, c, p, body, r) /\ UNCHANGED <<scene, shared>>
  BY <1>1 DEF Generated, GenerateBody
<1>3. n \in DOMAIN scene.of /\ n = scene.example[c]
  BY GatherTypes
<1>4. scene.of[n].dynamic => r = DOMAIN scene.of[n].headers
  BY DEF ExampleOf
<1> HIDE DEF p, r, n
<1>5. /\ Untouched(req, Generated(req, c, p, body, r), c)
      /\ Generated(req, c, p, body, r)[c] =
           [pc |-> p, todo |-> req[c].todo, value |-> req[c].value, body |-> body,
            rest |-> r, read |-> req[c].read, headers |-> req[c].headers]
  BY ONLY <1>0, c \in Call, GenerateSets
<1>6. /\ Untouched(req, req', c) /\ req'[c].pc # "sent" /\ req'[c].rest = r /\ req'[c].read = req[c].read
  BY <1>2, <1>5
<1>7. ASSUME NEW h \in DOMAIN scene.of[n].headers, Progress(scene, n, h, req[c], shared[n][h])
      PROVE  Progress(scene, n, h, req'[c], shared[n][h])
  BY <1>4, <1>6, <1>7 DEF Progress, BeingRead
<1> QED
  BY <1>2, <1>3, <1>6, <1>7, MapStays

LEMMA ReadGathers ==
  ASSUME GatherInv, MatchInv', NEW c \in Call, NEW g, ReadHeader(c, g)
  PROVE  GatherInv'
<1>0. DOMAIN req = Call /\ IsRequest(req[c])
  BY GatherTypes
<1> DEFINE n == scene.example[c]
           w == <<g, shared[n][g]>>
<1>1. /\ req[c].pc = "headers" /\ req[c].read = <<>> /\ req' = WasRead(req, c, w, g)
      /\ UNCHANGED <<scene, shared>>
  BY DEF ReadHeader, WasRead
<1>2. n \in DOMAIN scene.of /\ n = scene.example[c]
  BY GatherTypes
<1>3. w # <<>> /\ w[1] = g /\ w[2] = shared[n][g]
  OBVIOUS
<1> HIDE DEF w, n
<1>4. /\ Untouched(req, WasRead(req, c, w, g), c)
      /\ WasRead(req, c, w, g)[c] =
           [pc |-> req[c].pc, todo |-> req[c].todo, value |-> req[c].value, body |-> req[c].body,
            rest |-> req[c].rest \ {g}, read |-> w, headers |-> req[c].headers]
  BY ONLY <1>0, c \in Call, ReadSets
<1>5. /\ Untouched(req, req', c) /\ req'[c].pc = "headers" /\ req'[c].rest = req[c].rest \ {g} /\ req'[c].read = w
  BY <1>1, <1>4
<1>6. ASSUME NEW h, Kept(scene, n, h, shared[n][h]), Progress(scene, n, h, req[c], shared[n][h])
      PROVE  Progress(scene, n, h, req'[c], shared[n][h])
  <2>1. CASE h = g
    BY <1>3, <1>5, <1>6, <2>1 DEF Progress, BeingRead, Kept
  <2>2. CASE h # g
    <3>1. ~BeingRead(req[c], h) /\ ~BeingRead(req'[c], h)
      BY <1>1, <1>3, <1>5, <2>2 DEF BeingRead
    <3>2. h \notin req'[c].rest => h \notin req[c].rest
      BY <1>5, <2>2
    <3> QED
      BY <1>1, <1>5, <1>6, <3>1, <3>2 DEF Progress
  <2> QED
    BY <2>1, <2>2
<1> QED
  BY <1>1, <1>2, <1>5, <1>6, MapStays

LEMMA RespondGathers ==
  ASSUME GatherInv, MatchInv', NEW c \in Call, Respond(c)
  PROVE  GatherInv'
<1>0. DOMAIN req = Call /\ IsRequest(req[c])
  BY GatherTypes
<1> DEFINE n == scene.example[c]
           ex == ExampleOf(c)
           own == [h \in DOMAIN ex.headers |-> resolveHeaderValue(Str(Written(ex.headers[h])), SourcesOf(c))]
           present == [h \in {g \in DOMAIN own : own[g] # Missing} |-> own[h].v]
           v == IF ex.dynamic THEN shared[scene.example[c]] ELSE present
<1>1. /\ req[c].pc = "headers" /\ req[c].rest = {} /\ req[c].read = <<>>
      /\ req' = Responded(req, c, "sent", v) /\ UNCHANGED <<scene, shared>>
  BY DEF Respond, Responded
<1>2. n \in DOMAIN scene.of /\ n = scene.example[c]
  BY GatherTypes
<1>3. scene.of[n].dynamic => v = shared[n]
  BY DEF ExampleOf
<1> HIDE DEF v, n
<1>4. /\ Untouched(req, Responded(req, c, "sent", v), c)
      /\ Responded(req, c, "sent", v)[c] =
           [pc |-> "sent", todo |-> req[c].todo, value |-> req[c].value, body |-> req[c].body,
            rest |-> req[c].rest, read |-> req[c].read, headers |-> v]
  BY ONLY <1>0, c \in Call, RespondSets
<1>5. Untouched(req, req', c) /\ req'[c].pc = "sent" /\ req'[c].read = <<>> /\ req'[c].headers = v
  BY <1>1, <1>4
<1>6. ASSUME NEW h \in DOMAIN scene.of[n].headers, Progress(scene, n, h, req[c], shared[n][h])
      PROVE  Progress(scene, n, h, req'[c], shared[n][h])
  <2>1. ~BeingRead(req[c], h) /\ ~BeingRead(req'[c], h)
    BY <1>1, <1>5 DEF BeingRead
  <2>2. scene.of[n].dynamic => GatheredAt(scene, n, h, shared[n][h])
    BY <1>1, <1>6, <2>1 DEF Progress
  <2>3. h \in DOMAIN shared[n]
    BY <1>2 DEF GatherInv, SharedShape
  <2> QED
    BY <1>3, <1>5, <2>1, <2>2, <2>3 DEF Progress
<1> QED
  BY <1>1, <1>2, <1>5, <1>6, MapStays

Overwritten(sh, n, g, text) == [sh EXCEPT ![n][g] = text]

LEMMA OverwriteSets ==
  ASSUME NEW sh, NEW n, NEW g, NEW text
  PROVE  /\ DOMAIN Overwritten(sh, n, g, text) = DOMAIN sh
         /\ \A m \in DOMAIN sh : DOMAIN Overwritten(sh, n, g, text)[m] = DOMAIN sh[m]
         /\ \A m \in DOMAIN sh : \A h \in DOMAIN sh[m] :
              Overwritten(sh, n, g, text)[m][h] = IF m = n /\ h = g THEN text ELSE sh[m][h]
BY DEF Overwritten

(* What is written over a header that has been read is gathered, or the    *)
(* header already is.                                                      *)
LEMMA ReadIsGathered ==
  ASSUME GatherInv, NEW c \in Call, NEW n, n = scene.example[c], NEW h \in DOMAIN scene.of[n].headers,
         Apt(scene, n, h), BeingRead(req[c], h),
         NEW value, value = evaluateString(req[c].read[2], SourcesOf(c))
  PROVE  /\ value # Error => GatheredAt(scene, n, h, Inserted(value))
         /\ value = Error => GatheredAt(scene, n, h, shared[n][h])
<1> DEFINE tpl == scene.of[n].headers[h]
           calls == CallersOf(scene, n)
           text == req[c].read[2]
<1>1. scene \in Scene /\ n \in DOMAIN scene.of
  BY GatherTypes
<1>2. AtHeader(scene, n, h, req, shared[n][h])
  BY <1>1 DEF GatherInv
<1>3. c \in calls
  BY DEF CallersOf
<1>4. /\ Kept(scene, n, h, shared[n][h]) /\ Kept(scene, n, h, text)
      /\ IsWritten(scene, n, h, text) \/ GatheredAt(scene, n, h, shared[n][h])
  BY <1>2, <1>3 DEF AtHeader, Progress
<1>5. /\ IsTemplate(tpl) /\ \A d \in calls : PlainTemplate(tpl, scene.sources[d])
      /\ SettledIn(tpl, scene.sources, calls)
  BY <1>1, SceneSound DEF IsExample, Apt
<1>6. \A d \in calls : Sound(scene.sources[d])
  BY <1>1, SceneSound DEF CallersOf
<1>7. KeptIn(tpl, text, scene.sources, calls)
  BY <1>4 DEF Kept, KeptIn, IsWritten, GatheredAt
<1>8. value = evaluateString(text, scene.sources[c])
  BY DEF SourcesOf
<1> HIDE DEF tpl, calls, text
<1>9. GatheredIn(tpl, IF value = Error THEN text ELSE Inserted(value), scene.sources, calls)
  BY <1>3, <1>5, <1>6, <1>7, <1>8, GatherStep
<1>10. GatheredAt(scene, n, h, IF value = Error THEN text ELSE Inserted(value))
  BY <1>9 DEF GatheredAt, tpl, calls
<1>11. ASSUME value = Error PROVE GatheredAt(scene, n, h, shared[n][h])
  <2>1. GatheredAt(scene, n, h, text)
    BY <1>10, <1>11
  <2> QED
    BY <1>4, <2>1 DEF Kept, IsWritten
<1> QED
  BY <1>10, <1>11

LEMMA WriteGathers ==
  ASSUME GatherInv, MatchInv', NEW c \in Call, WriteHeader(c)
  PROVE  GatherInv'
<1>0. DOMAIN req = Call /\ IsRequest(req[c])
  BY GatherTypes
<1> DEFINE n == scene.example[c]
           g == req[c].read[1]
           value == evaluateString(req[c].read[2], SourcesOf(c))
<1>1. /\ req[c].pc = "headers" /\ req[c].read # <<>> /\ req' = PutRead(req, c, <<>>) /\ UNCHANGED scene
      /\ shared' = IF AsText(value) = Error THEN shared ELSE Overwritten(shared, n, g, AsText(value).v)
  BY DEF WriteHeader, PutRead, Overwritten, evaluateExpressionInString
<1>2. n \in DOMAIN scene.of /\ n = scene.example[c]
  BY GatherTypes
<1>3. g = req[c].read[1] /\ value = evaluateString(req[c].read[2], SourcesOf(c))
  OBVIOUS
<1> HIDE DEF n, g, value
<1>4. shared' = IF value = Error THEN shared ELSE Overwritten(shared, n, g, Inserted(value))
  BY <1>1, TextOrError
<1>5. /\ Untouched(req, PutRead(req, c, <<>>), c)
      /\ PutRead(req, c, <<>>)[c] =
           [pc |-> req[c].pc, todo |-> req[c].todo, value |-> req[c].value, body |-> req[c].body,
            rest |-> req[c].rest, read |-> <<>>, headers |-> req[c].headers]
  BY ONLY <1>0, c \in Call, PutReadSets
<1>6. /\ Untouched(req, req', c) /\ req'[c].pc = "headers" /\ req'[c].rest = req[c].rest /\ req'[c].read = <<>>
  BY <1>1, <1>5
<1>7. SharedShape
  BY DEF GatherInv
<1>8. /\ DOMAIN shared' = DOMAIN shared
      /\ \A m \in DOMAIN shared : DOMAIN shared'[m] = DOMAIN shared[m]
      /\ \A m \in DOMAIN shared : \A h \in DOMAIN shared[m] :
           shared'[m][h] = IF value # Error /\ m = n /\ h = g THEN Inserted(value) ELSE shared[m][h]
  <2>1. CASE value = Error
    BY <1>4, <2>1
  <2>2. CASE value # Error
    BY <1>4, <2>2, OverwriteSets
  <2> QED
    BY <2>1, <2>2
<1>9. SharedShape'
  BY <1>1, <1>7, <1>8 DEF SharedShape
<1>10. ASSUME NEW m \in DOMAIN scene.of, NEW h \in DOMAIN scene.of[m].headers, Apt(scene, m, h)
       PROVE  /\ Kept(scene, m, h, shared'[m][h])
              /\ GatheredAt(scene, m, h, shared[m][h]) => GatheredAt(scene, m, h, shared'[m][h])
              /\ scene.example[c] = m => Progress(scene, m, h, req'[c], shared'[m][h])
  <2>1. /\ Kept(scene, m, h, shared[m][h])
        /\ scene.example[c] = m => Progress(scene, m, h, req[c], shared[m][h])
    BY <1>10 DEF GatherInv, AtHeader, CallersOf
  <2>2. shared'[m][h] = IF value # Error /\ m = n /\ h = g THEN Inserted(value) ELSE shared[m][h]
    BY <1>7, <1>8 DEF SharedShape
  <2>3. ~BeingRead(req'[c], h)
    BY <1>6 DEF BeingRead
  <2>4. CASE m = n /\ h = g
    <3>1. BeingRead(req[c], h)
      BY <1>1, <1>3, <2>4 DEF BeingRead
    <3>2. /\ value # Error => GatheredAt(scene, m, h, Inserted(value))
          /\ value = Error => GatheredAt(scene, m, h, shared[m][h])
      BY <1>2, <1>3, <1>10, <2>4, <3>1, ReadIsGathered
    <3>3. GatheredAt(scene, m, h, shared'[m][h])
      BY <2>2, <2>4, <3>2
    <3> QED
      BY <1>6, <2>3, <3>3 DEF Kept, Progress
  <2>5. CASE ~(m = n /\ h = g)
    <3>1. shared'[m][h] = shared[m][h]
      BY <2>2, <2>5
    <3>2. scene.example[c] = m => ~BeingRead(req[c], h)
      BY <1>2, <1>3, <2>5 DEF BeingRead
    <3>3. scene.example[c] = m => Progress(scene, m, h, req'[c], shared[m][h])
      BY <1>1, <1>6, <2>1, <2>3, <3>2 DEF Progress
    <3> QED
      BY <2>1, <3>1, <3>3
  <2> QED
    BY <2>4, <2>5
<1> QED
  BY <1>1, <1>6, <1>9, <1>10, CallStep

LEMMA GatherStays ==
  ASSUME GatherInv, MatchInv', UNCHANGED <<scene, req, shared>>
  PROVE  GatherInv'
BY DEF GatherInv, SharedShape

LEMMA GatherKeeps ==
  ASSUME GatherInv, [MatchNext]_allVars
  PROVE  GatherInv'
<1>1. MatchInv'
  BY MatchKeeps DEF GatherInv
<1>2. ASSUME NEW c \in Call, SchemaStep(c) \/ MapRace(c) PROVE GatherInv'
  BY <1>1, <1>2, GatherStays DEF SchemaStep, MapRace, matchVars
<1>3. CASE UNCHANGED allVars
  BY <1>1, <1>3, GatherStays DEF allVars, matchVars
<1>4. CASE MatchNext
  BY <1>1, <1>2, <1>4, LookGathers, GenerateGathers, ReadGathers, WriteGathers, RespondGathers DEF MatchNext
<1> QED
  BY <1>3, <1>4

LEMMA GatherStarts == MatchInit => GatherInv
<1> SUFFICES ASSUME MatchInit PROVE GatherInv
  OBVIOUS
<1>1. MatchInv
  BY MatchStarts
<1>2. \A c \in Call : req[c].pc = "match" /\ req[c].read = <<>>
  BY DEF MatchInit
<1>3. /\ SharedShape
      /\ \A n \in DOMAIN scene.of : \A h \in DOMAIN scene.of[n].headers :
           shared[n][h] = Written(scene.of[n].headers[h])
  BY DEF MatchInit, SharedShape
<1>4. ASSUME NEW n \in DOMAIN scene.of, NEW h \in DOMAIN scene.of[n].headers
      PROVE  AtHeader(scene, n, h, req, shared[n][h])
  <2>1. Kept(scene, n, h, shared[n][h])
    BY <1>3 DEF Kept, IsWritten
  <2>2. \A c \in CallersOf(scene, n) : Progress(scene, n, h, req[c], shared[n][h])
    BY <1>2 DEF CallersOf, Progress, BeingRead
  <2> QED
    BY <2>1, <2>2 DEF AtHeader
<1> QED
  BY <1>1, <1>3, <1>4 DEF GatherInv

LEMMA GatherImplies == GatherInv => HeadersAreGathered
<1> SUFFICES ASSUME GatherInv, NEW c \in Call, req[c].pc = "sent", ExampleOf(c).dynamic,
                    NEW h \in DOMAIN ExampleOf(c).headers,
                    \A d \in {e \in Call : scene.example[e] = scene.example[c]} :
                      PlainTemplate(ExampleOf(c).headers[h], SourcesOf(d)),
                    Settled(ExampleOf(c).headers[h], {d \in Call : scene.example[d] = scene.example[c]})
             PROVE  /\ h \in DOMAIN req[c].headers
                    /\ Gathered(ExampleOf(c).headers[h], req[c].headers[h],
                                {d \in Call : scene.example[d] = scene.example[c]})
  BY DEF HeadersAreGathered
<1> DEFINE n == scene.example[c]
           tpl == scene.of[n].headers[h]
           calls == CallersOf(scene, n)
<1>1. n \in DOMAIN scene.of /\ h \in DOMAIN scene.of[n].headers /\ c \in calls
  BY GatherTypes DEF ExampleOf, CallersOf
<1>2. (\A d \in calls : PlainTemplate(tpl, scene.sources[d])) /\ Settled(tpl, calls) /\ scene.of[n].dynamic
  BY DEF ExampleOf, CallersOf, SourcesOf
<1>3. ExampleOf(c).headers[h] = tpl /\ {d \in Call : scene.example[d] = scene.example[c]} = calls
  BY DEF ExampleOf, CallersOf
<1> HIDE DEF calls, tpl
<1>4. SettledIn(tpl, scene.sources, calls)
  BY <1>2, GatheredIs
<1>5. Apt(scene, n, h)
  BY <1>2, <1>4 DEF Apt, tpl, calls
<1>6. Progress(scene, n, h, req[c], shared[n][h])
  BY <1>1, <1>5 DEF GatherInv, AtHeader, calls
<1>7. h \in DOMAIN req[c].headers /\ GatheredAt(scene, n, h, req[c].headers[h])
  BY <1>2, <1>6 DEF Progress
<1>8. GatheredIn(tpl, req[c].headers[h], scene.sources, calls)
  BY <1>7 DEF GatheredAt, tpl, calls
<1>9. Gathered(tpl, req[c].headers[h], calls)
  BY <1>8, GatheredIs
<1> QED
  BY <1>3, <1>7, <1>9

(* (generateResponse) Requests overwrite each other's headers in the map   *)
(* of a dynamic example: still, each part of a header that is answered is  *)
(* what one of them puts there, of all examples, sources and interleavings.*)
THEOREM HeadersGather == MatchSpec => []HeadersAreGathered
<1>1. MatchInit => GatherInv
  BY GatherStarts
<1>2. GatherInv /\ [MatchNext]_allVars => GatherInv'
  BY GatherKeeps
<1>3. GatherInv => HeadersAreGathered
  BY GatherImplies
<1> QED
  BY <1>1, <1>2, <1>3, PTL DEF MatchSpec

(* (generateResponse) An answer is what its example means to its request,  *)
(* but for the headers of a dynamic example, which are gathered.           *)
THEOREM ResponsesAreOwn == MatchSpec => []ResponseIsOwn
<1>1. AnswerIsOwn /\ HeadersAreGathered => ResponseIsOwn
  BY DEF ResponseIsOwn
<1> QED
  BY <1>1, AnswersAreOwn, HeadersGather, PTL

-----------------------------------------------------------------------------
(* The scheduler. *)

(* The job map agrees with the channels, and the locations of a loop that  *)
(* has already made its late delivery exclude the second select.           *)
IInv == TypeOK /\ RegisteredIffOpen /\ AtMostOneLateDelivery

USE IdOfAssumption, NoJobAssumption

(* NewScheduler: no job is known and nothing runs. *)
LEMMA InitInv == NewScheduler => IInv
<1> SUFFICES ASSUME NewScheduler
             PROVE  IInv
  OBVIOUS
<1>1. TypeOK
  BY DEF NewScheduler, TypeOK, Location
<1>2. RegisteredIffOpen
  BY DEF NewScheduler, RegisteredIffOpen, FiledUnderOwnId
<1>3. AtMostOneLateDelivery
  BY DEF NewScheduler, AtMostOneLateDelivery
<1> QED  BY <1>1, <1>2, <1>3 DEF IInv

(* Add hands its id over from the replaced job, whose channel it closes. *)
LEMMA AddInv == ASSUME IInv, NEW j \in Job, Add(j)  PROVE IInv'
<1> USE DEF Add
<1>1. TypeOK'
  BY DEF IInv, TypeOK, Location
<1>2. FiledUnderOwnId'
  BY DEF IInv, TypeOK, RegisteredIffOpen, FiledUnderOwnId
<1>3. ASSUME NEW k \in Job
      PROVE  /\ jobs'[IdOf[k]] = k => closes'[k] = 0 /\ pc'[k] # "new"
             /\ jobs'[IdOf[k]] # k => closes'[k] = IF pc'[k] = "new" THEN 0 ELSE 1
  <2>1. CASE k = j
    BY <2>1 DEF IInv, TypeOK, RegisteredIffOpen
  <2>2. CASE k # j /\ IdOf[k] = IdOf[j]
    BY <2>2 DEF IInv, TypeOK, RegisteredIffOpen
  <2>3. CASE IdOf[k] # IdOf[j]
    <3>1. jobs[IdOf[j]] # k
      BY <2>3 DEF IInv, TypeOK, RegisteredIffOpen, FiledUnderOwnId
    <3>2. closes'[k] = closes[k] /\ pc'[k] = pc[k] /\ jobs'[IdOf[k]] = jobs[IdOf[k]]
      BY <2>3, <3>1 DEF IInv, TypeOK
    <3> QED  BY <3>2 DEF IInv, RegisteredIffOpen
  <2> QED  BY <2>1, <2>2, <2>3
<1>4. AtMostOneLateDelivery'
  <2> SUFFICES ASSUME NEW k \in Job
               PROVE  (late[k] <= 1 /\ (late[k] = 1 => stopped(k) /\ pc[k] # "select"))'
    BY DEF AtMostOneLateDelivery
  <2>1. late'[k] = late[k] /\ (stopped(k) => stopped(k)')
    BY DEF IInv, TypeOK, stopped
  <2>2. pc'[k] = "select" => pc[k] = "select"
    BY DEF IInv, TypeOK
  <2> QED  BY <2>1, <2>2 DEF IInv, AtMostOneLateDelivery
<1> QED  BY <1>1, <1>2, <1>3, <1>4 DEF IInv, RegisteredIffOpen

(* Taking one id out of the map closes exactly the channel of its job. *)
LEMMA UnregisterInv ==
  ASSUME IInv, NEW id \in ID, Unregister(id),
         NEW f, pc' = f, f \in [Job -> Location], UNCHANGED <<ticked, late>>,
         \A k \in Job : f[k] = pc[k] \/ (pc[k] = "panicked" /\ f[k] = "ended")
  PROVE  IInv'
<1> USE DEF Unregister
<1>1. TypeOK'
  BY DEF IInv, TypeOK
<1>2. FiledUnderOwnId'
  BY DEF IInv, TypeOK, RegisteredIffOpen, FiledUnderOwnId
<1>3. ASSUME NEW k \in Job
      PROVE  /\ jobs'[IdOf[k]] = k => closes'[k] = 0 /\ pc'[k] # "new"
             /\ jobs'[IdOf[k]] # k => closes'[k] = IF pc'[k] = "new" THEN 0 ELSE 1
  <2>0. (pc'[k] = "new") = (pc[k] = "new")
    OBVIOUS
  <2>1. CASE IdOf[k] = id
    BY <2>0, <2>1 DEF IInv, TypeOK, RegisteredIffOpen
  <2>2. CASE IdOf[k] # id
    <3>1. jobs[id] # k
      BY <2>2 DEF IInv, TypeOK, RegisteredIffOpen, FiledUnderOwnId
    <3>2. closes'[k] = closes[k] /\ jobs'[IdOf[k]] = jobs[IdOf[k]]
      BY <2>2, <3>1 DEF IInv, TypeOK
    <3> QED  BY <2>0, <3>2 DEF IInv, RegisteredIffOpen
  <2> QED  BY <2>1, <2>2
<1>4. AtMostOneLateDelivery'
  <2> SUFFICES ASSUME NEW k \in Job
               PROVE  (late[k] <= 1 /\ (late[k] = 1 => stopped(k) /\ pc[k] # "select"))'
    BY DEF AtMostOneLateDelivery
  <2>1. late'[k] = late[k] /\ (stopped(k) => stopped(k)')
    BY DEF IInv, TypeOK, stopped
  <2>2. pc'[k] = "select" => pc[k] = "select"
    OBVIOUS
  <2> QED  BY <2>1, <2>2 DEF IInv, AtMostOneLateDelivery
<1> QED  BY <1>1, <1>2, <1>3, <1>4 DEF IInv, RegisteredIffOpen

(* Cancel removes the entry of a job and stops its goroutine. *)
LEMMA CancelInv == ASSUME IInv, NEW id \in ID, Cancel(id)  PROVE IInv'
BY UnregisterInv DEF Cancel, IInv, TypeOK

(* A callback that panicked leaves its job in place. *)
LEMMA RecoverInv == ASSUME IInv, NEW j \in Job, RunRecover(j)  PROVE IInv'
<1>1. /\ pc' \in [Job -> Location]
      /\ \A k \in Job : pc'[k] = pc[k] \/ (pc[k] = "panicked" /\ pc'[k] = "ended")
  BY DEF RunRecover, IInv, TypeOK, Location
<1>2. IdOf[j] \in ID
  OBVIOUS
<1> QED  BY <1>1, <1>2, UnregisterInv DEF RunRecover

(* Shutdown empties the map and closes the channels that were open. *)
LEMMA ShutdownInv == ASSUME IInv, Shutdown  PROVE IInv'
<1> USE DEF Shutdown
<1>1. TypeOK'
  BY DEF IInv, TypeOK
<1>2. RegisteredIffOpen'
  BY DEF IInv, TypeOK, RegisteredIffOpen, FiledUnderOwnId
<1>3. AtMostOneLateDelivery'
  <2> SUFFICES ASSUME NEW k \in Job
               PROVE  (late[k] <= 1 /\ (late[k] = 1 => stopped(k) /\ pc[k] # "select"))'
    BY DEF AtMostOneLateDelivery
  <2>1. late'[k] = late[k] /\ pc'[k] = pc[k] /\ (stopped(k) => stopped(k)')
    BY DEF IInv, TypeOK, stopped
  <2> QED  BY <2>1 DEF IInv, AtMostOneLateDelivery
<1> QED  BY <1>1, <1>2, <1>3 DEF IInv

(* The steps of the ticker loop: they touch neither the map nor a channel, *)
(* and only the second select can begin a delivery.                        *)
LEMMA LoopInv ==
  ASSUME IInv, NEW j \in Job,
         \/ RunStart(j) \/ RunCheck(j) \/ RunSelectStop(j) \/ RunSelectTick(j)
         \/ TickerFires(j) \/ DeliverReturns(j) \/ DeliverPanics(j)
  PROVE  IInv'
<1> USE DEF RunStart, RunCheck, RunSelectStop, RunSelectTick, TickerFires,
            DeliverReturns, DeliverPanics
<1>1. jobs' = jobs /\ closes' = closes
  OBVIOUS
<1>2. TypeOK'
  <2>1. pc' \in [Job -> Location]
    BY DEF IInv, TypeOK, Location
  <2>2. ticked' \in [Job -> BOOLEAN]
    BY DEF IInv, TypeOK
  <2>3. late' \in [Job -> Nat]
    <3>1. \A k \in Job : late[k] \in Nat /\ late[k] + 1 \in Nat
      BY DEF IInv, TypeOK
    <3>2. late' = late
          \/ late' = [late EXCEPT ![j] = IF stopped(j) THEN @ + 1 ELSE @]
      OBVIOUS
    <3> QED  BY <3>1, <3>2 DEF IInv, TypeOK
  <2> QED  BY <1>1, <2>1, <2>2, <2>3 DEF IInv, TypeOK
<1>3. \A k \in Job : (pc'[k] = "new") = (pc[k] = "new")
  BY DEF IInv, TypeOK
<1>4. RegisteredIffOpen'
  BY <1>1, <1>3 DEF IInv, RegisteredIffOpen, FiledUnderOwnId
<1>5. AtMostOneLateDelivery'
  <2> SUFFICES ASSUME NEW k \in Job
               PROVE  (late[k] <= 1 /\ (late[k] = 1 => stopped(k) /\ pc[k] # "select"))'
    BY DEF AtMostOneLateDelivery
  <2>1. late[k] \in Nat /\ late[k] <= 1
        /\ (late[k] = 1 => stopped(k) /\ pc[k] # "select")
    BY DEF IInv, TypeOK, AtMostOneLateDelivery
  <2>2. stopped(k)' = stopped(k)
    BY <1>1 DEF stopped
  <2>3. CASE RunSelectTick(j) /\ k = j
    <3>1. late[k] = 0 /\ pc'[k] = "deliver"
          /\ late'[k] = IF stopped(k) THEN 1 ELSE 0
      BY <2>1, <2>3 DEF IInv, TypeOK
    <3> QED  BY <3>1, <2>2
  <2>4. CASE ~(RunSelectTick(j) /\ k = j)
    <3>1. late'[k] = late[k]
      BY <2>4 DEF IInv, TypeOK
    <3>2. pc'[k] = "select" => pc[k] = "select" \/ ~stopped(k)
      BY <2>4 DEF IInv, TypeOK
    <3> QED  BY <2>1, <2>2, <3>1, <3>2
  <2> QED  BY <2>3, <2>4
<1> QED  BY <1>2, <1>4, <1>5 DEF IInv

(* Every step of the scheduler keeps the invariant. *)
LEMMA NextInv == IInv /\ [Next]_vars => IInv'
<1> SUFFICES ASSUME IInv, [Next]_vars
             PROVE  IInv'
  OBVIOUS
<1>1. CASE \E j \in Job : Add(j) \/ TickerFires(j) \/ Run(j)
  BY <1>1, AddInv, RecoverInv, LoopInv DEF Run
<1>2. CASE \E j \in Job : DeliverReturns(j) \/ DeliverPanics(j)
  BY <1>2, LoopInv
<1>3. CASE \E id \in ID : Cancel(id)
  BY <1>3, CancelInv
<1>4. CASE Shutdown
  BY <1>4, ShutdownInv
<1>5. CASE UNCHANGED vars
  BY <1>5 DEF vars, IInv, TypeOK, RegisteredIffOpen, FiledUnderOwnId,
              AtMostOneLateDelivery, stopped
<1> QED  BY <1>1, <1>2, <1>3, <1>4, <1>5 DEF Next

(* The inductive invariant of the scheduler. *)
LEMMA SpecInv == Spec => []IInv
BY InitInv, NextInv, PTL DEF Spec

(* The map, the counters and the goroutine locations have their types. *)
THEOREM TypeCorrect == Spec => []TypeOK
BY SpecInv, PTL DEF IInv

(* However Add, Cancel, Shutdown and recovering panics interleave, each    *)
(* job's stop channel is closed exactly when the job leaves the map, and   *)
(* never a second time.                                                    *)
THEOREM StopClosedExactlyOnce == Spec => []RegisteredIffOpen
BY SpecInv, PTL DEF IInv

(* A job whose channel is closed begins at most one more delivery. *)
THEOREM OneLateDelivery == Spec => []AtMostOneLateDelivery
BY SpecInv, PTL DEF IInv
=============================================================================
