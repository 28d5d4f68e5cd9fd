---------------------------- MODULE PipelineProofs ----------------------------
(***************************************************************************)
(* For any namespaces, keys and values: the map of maps is well formed,    *)
(* keeps no namespace without keys and implements StateStore.  The bound   *)
(* on numbers is a guard that only TLC needs; the proofs make no use of it.*)
(*                                                                         *)
(* For any requests, examples and triggers: what the pipeline counts,      *)
(* marks and fires when requests run concurrently.                         *)
(***************************************************************************)
EXTENDS MockPipeline, FilterProofs, FiniteSetTheorems, TLAPS

Stored == Value \cup [kind : {"number"}, n : Int]

(* A namespace that may be written: its keys and values are of the types. *)
LEMMA NamespaceTyped ==
  ASSUME TypeOK, NEW ns \in Namespace
  PROVE  /\ DOMAIN GetNamespace(ns) \subseteq Key
         /\ \A k \in DOMAIN GetNamespace(ns) : GetNamespace(ns)[k] \in Stored
  BY DEF TypeOK, GetNamespace, Empty, Stored

(* Setting one key keeps the types and leaves no namespace empty. *)
LEMMA SetPreserves ==
  ASSUME TypeOK, NoEmptyNamespace,
         NEW ns \in Namespace, NEW k \in Key, NEW v \in Stored, Set(ns, k, v)
  PROVE  TypeOK' /\ NoEmptyNamespace'
<1> DEFINE inner == Put(GetNamespace(ns), k, v)
<1>1. /\ DOMAIN inner = DOMAIN GetNamespace(ns) \cup {k}
      /\ \A j \in DOMAIN inner : inner[j] = IF j = k THEN v ELSE GetNamespace(ns)[j]
  BY DEF Put
<1>2. /\ DOMAIN inner \subseteq Key
      /\ DOMAIN inner # {}
      /\ \A j \in DOMAIN inner : inner[j] \in Stored
  BY <1>1, NamespaceTyped
<1>3. /\ DOMAIN state' = DOMAIN state \cup {ns}
      /\ \A m \in DOMAIN state' : state'[m] = IF m = ns THEN inner ELSE state[m]
  BY DEF Set, Put
<1> QED
  BY <1>2, <1>3 DEF TypeOK, NoEmptyNamespace, Stored

(* What an increment stores is a number. *)
LEMMA IncrementedTyped ==
  ASSUME TypeOK, NEW ns \in Namespace, NEW k \in Key, NEW d \in Delta
  PROVE  Incremented(Get(ns, k), d) \in Stored
<1>1. Get(ns, k) \in Stored \cup {Absent}
  BY NamespaceTyped DEF Get, Lookup
<1>2. Get(ns, k).n \in Int /\ d \in Int
  BY <1>1, ValueAssumption DEF Stored, Absent
<1> QED
  BY <1>2 DEF Incremented, Number, Stored

(* Deleting a key drops the namespace with its last one. *)
LEMMA DeletePreserves ==
  ASSUME TypeOK, NoEmptyNamespace, NEW ns \in Namespace, NEW k \in Key, Delete(ns, k)
  PROVE  TypeOK' /\ NoEmptyNamespace'
<1>1. CASE ns \notin DOMAIN state
  BY <1>1 DEF Delete, TypeOK, NoEmptyNamespace
<1>2. CASE ns \in DOMAIN state /\ DOMAIN state[ns] \subseteq {k}
  <2>1. state' = Drop(state, ns)
    BY <1>2 DEF Delete
  <2> QED
    BY <2>1 DEF Drop, TypeOK, NoEmptyNamespace
<1>3. CASE ns \in DOMAIN state /\ ~(DOMAIN state[ns] \subseteq {k})
  <2> DEFINE inner == Drop(state[ns], k)
  <2>1. state' = Put(state, ns, inner)
    BY <1>3 DEF Delete
  <2>2. /\ DOMAIN inner = DOMAIN state[ns] \ {k}
        /\ \A j \in DOMAIN inner : inner[j] = state[ns][j]
    BY DEF Drop
  <2>3. /\ DOMAIN inner \subseteq Key /\ DOMAIN inner # {}
        /\ \A j \in DOMAIN inner : inner[j] \in Stored
    BY <1>3, <2>2 DEF TypeOK, Stored
  <2>4. /\ DOMAIN state' = DOMAIN state \cup {ns}
        /\ \A m \in DOMAIN state' : state'[m] = IF m = ns THEN inner ELSE state[m]
    BY <2>1 DEF Put
  <2> QED
    BY <2>3, <2>4 DEF TypeOK, NoEmptyNamespace, Stored
<1> QED
  BY <1>1, <1>2, <1>3

(* Clearing drops the namespace. *)
LEMMA ClearPreserves ==
  ASSUME TypeOK, NoEmptyNamespace, NEW ns \in Namespace, ClearNamespace(ns)
  PROVE  TypeOK' /\ NoEmptyNamespace'
  BY DEF Drop, ClearNamespace, TypeOK, NoEmptyNamespace

(* Type correctness and no namespace without keys, for every store: an     *)
(* invariant of Set, Increment, Delete and ClearNamespace in any order.    *)
THEOREM WellFormed == Spec => [](TypeOK /\ NoEmptyNamespace)
<1>1. Init => TypeOK /\ NoEmptyNamespace
  BY DEF Init, NewManager, Empty, TypeOK, NoEmptyNamespace
<1>2. TypeOK /\ NoEmptyNamespace /\ [Next]_state => TypeOK' /\ NoEmptyNamespace'
  <2> SUFFICES ASSUME TypeOK, NoEmptyNamespace, [Next]_state
               PROVE  TypeOK' /\ NoEmptyNamespace'
    OBVIOUS
  <2>1. CASE UNCHANGED state
    BY <2>1 DEF TypeOK, NoEmptyNamespace
  <2>2. ASSUME NEW ns \in Namespace, ClearNamespace(ns)
        PROVE  TypeOK' /\ NoEmptyNamespace'
    BY <2>2, ClearPreserves
  <2>3. ASSUME NEW ns \in Namespace, NEW k \in Key, Delete(ns, k)
        PROVE  TypeOK' /\ NoEmptyNamespace'
    BY <2>3, DeletePreserves
  <2>4. ASSUME NEW ns \in Namespace, NEW k \in Key, NEW v \in Value, Set(ns, k, v)
        PROVE  TypeOK' /\ NoEmptyNamespace'
    <3>1. v \in Stored
      BY DEF Stored
    <3> QED
      BY <2>4, <3>1, SetPreserves
  <2>5. ASSUME NEW ns \in Namespace, NEW k \in Key, NEW d \in Delta, Increment(ns, k, d)
        PROVE  TypeOK' /\ NoEmptyNamespace'
    <3>1. Incremented(Get(ns, k), d) \in Stored
      BY IncrementedTyped
    <3>2. Set(ns, k, Incremented(Get(ns, k), d))
      BY <2>5 DEF Increment
    <3> QED
      BY <3>1, <3>2, SetPreserves
  <2> QED
    BY <2>1, <2>2, <2>3, <2>4, <2>5 DEF Next
<1> QED
  BY <1>1, <1>2, PTL DEF Spec

-----------------------------------------------------------------------------
(* The store seen through Get: what each method changes in it. *)
View == [p \in Namespace \X Key |-> Get(p[1], p[2])]

(* Set changes one value and no other. *)
LEMMA GetAfterSet ==
  ASSUME NEW ns, NEW k, NEW v, Set(ns, k, v)
  PROVE  \A m, j : Get(m, j)' = IF m = ns /\ j = k THEN v ELSE Get(m, j)
BY DEF Set, Get, Lookup, GetNamespace, Put, Empty

(* Delete takes one value and no other. *)
LEMMA GetAfterDelete ==
  ASSUME NEW ns, NEW k, Delete(ns, k)
  PROVE  \A m, j : Get(m, j)' = IF m = ns /\ j = k THEN Absent ELSE Get(m, j)
<1>1. CASE ns \notin DOMAIN state
  BY <1>1 DEF Delete, Get, Lookup, GetNamespace, Empty
<1>2. CASE ns \in DOMAIN state /\ DOMAIN state[ns] \subseteq {k}
  BY <1>2 DEF Delete, Get, Lookup, GetNamespace, Drop, Empty
<1>3. CASE ns \in DOMAIN state /\ ~(DOMAIN state[ns] \subseteq {k})
  BY <1>3 DEF Delete, Get, Lookup, GetNamespace, Put, Drop, Empty
<1> QED
  BY <1>1, <1>2, <1>3

(* The same of the whole view. *)
LEMMA ViewAfterSet ==
  ASSUME NEW ns \in Namespace, NEW k \in Key, NEW v, Set(ns, k, v)
  PROVE  View' = [View EXCEPT ![<<ns, k>>] = v]
<1>1. ASSUME NEW m \in Namespace, NEW j \in Key
      PROVE  Get(m, j)' = IF m = ns /\ j = k THEN v ELSE Get(m, j)
  BY GetAfterSet
<1>2. ASSUME NEW p \in Namespace \X Key
      PROVE  Get(p[1], p[2])' = IF p = <<ns, k>> THEN v ELSE Get(p[1], p[2])
  <2>1. PICK m \in Namespace, j \in Key : p = <<m, j>>
    OBVIOUS
  <2>2. p = <<ns, k>> <=> m = ns /\ j = k
    BY <2>1
  <2> QED
    BY <1>1, <2>1, <2>2
<1>3. View' = [p \in Namespace \X Key |-> IF p = <<ns, k>> THEN v ELSE View[p]]
  BY <1>2 DEF View
<1> QED
  BY <1>3 DEF View

(* The view after one key was deleted. *)
LEMMA ViewAfterDelete ==
  ASSUME NEW ns \in Namespace, NEW k \in Key, Delete(ns, k)
  PROVE  View' = [View EXCEPT ![<<ns, k>>] = Absent]
<1>1. ASSUME NEW m \in Namespace, NEW j \in Key
      PROVE  Get(m, j)' = IF m = ns /\ j = k THEN Absent ELSE Get(m, j)
  BY GetAfterDelete
<1>2. ASSUME NEW p \in Namespace \X Key
      PROVE  Get(p[1], p[2])' = IF p = <<ns, k>> THEN Absent ELSE Get(p[1], p[2])
  <2>1. PICK m \in Namespace, j \in Key : p = <<m, j>>
    OBVIOUS
  <2>2. p = <<ns, k>> <=> m = ns /\ j = k
    BY <2>1
  <2> QED
    BY <1>1, <2>1, <2>2
<1>3. View' = [p \in Namespace \X Key |-> IF p = <<ns, k>> THEN Absent ELSE View[p]]
  BY <1>2 DEF View
<1> QED
  BY <1>3 DEF View

(* The view after a namespace was cleared. *)
LEMMA ViewAfterClear ==
  ASSUME NEW ns \in Namespace, ClearNamespace(ns)
  PROVE  View' = [p \in Namespace \X Key |-> IF p[1] = ns THEN Absent ELSE View[p]]
<1>1. ASSUME NEW m \in Namespace, NEW j \in Key
      PROVE  Get(m, j)' = IF m = ns THEN Absent ELSE Get(m, j)
  BY DEF ClearNamespace, Get, Lookup, GetNamespace, Drop, Empty
<1> QED
  BY <1>1 DEF View

(* The map of maps implements the promised store: every method changes,    *)
(* through Get, exactly the keys that the operation of that name changes.  *)
THEOREM StateManagerImplementsStore == Spec => ImplementsStateStore
<1>1. Init => Store!Init
  BY DEF Init, NewManager, Empty, Store!Init, Store!Absent, Absent, Get, Lookup, GetNamespace
<1>2. [Next]_state => [Store!Next]_View
  <2> SUFFICES ASSUME [Next]_state PROVE [Store!Next]_View
    OBVIOUS
  <2>1. CASE UNCHANGED state
    BY <2>1 DEF View, Get, Lookup, GetNamespace
  <2>2. ASSUME NEW ns \in Namespace, ClearNamespace(ns)
        PROVE  Store!Next
    <3>1. Store!Clear(ns)
      BY <2>2, ViewAfterClear DEF Store!Clear, Store!Absent, Absent, View
    <3> QED
      BY <3>1 DEF Store!Next
  <2>3. ASSUME NEW ns \in Namespace, NEW k \in Key, Delete(ns, k)
        PROVE  Store!Next
    <3>1. Store!Delete(ns, k)
      BY <2>3, ViewAfterDelete DEF Store!Delete, Store!Absent, Absent, View
    <3> QED
      BY <3>1 DEF Store!Next
  <2>4. ASSUME NEW ns \in Namespace, NEW k \in Key, NEW v \in Value, Set(ns, k, v)
        PROVE  Store!Next
    <3>1. View' = [View EXCEPT ![<<ns, k>>] = v]
      BY <2>4, ViewAfterSet
    <3>2. Store!Set(ns, k, v)
      BY <3>1 DEF Store!Set, View
    <3> QED
      BY <3>2 DEF Store!Next
  <2>5. ASSUME NEW ns \in Namespace, NEW k \in Key, NEW d \in Delta, Increment(ns, k, d)
        PROVE  Store!Next
    <3>1. View' = [View EXCEPT ![<<ns, k>>] = Incremented(Get(ns, k), d)]
      BY <2>5, ViewAfterSet DEF Increment
    <3>2. View[<<ns, k>>] = Get(ns, k)
      BY DEF View
    <3>3. Store!Increment(ns, k, d)
      BY <3>1, <3>2 DEF Store!Increment, Store!Number, Incremented, Number, View
    <3> QED
      BY <3>3 DEF Store!Next
  <2> QED
    BY <2>1, <2>2, <2>3, <2>4, <2>5 DEF Next
<1> QED
  BY <1>1, <1>2, PTL DEF Spec, Store!Spec, ImplementsStateStore, View

-----------------------------------------------------------------------------
(* The record of a request in the pipeline. *)
Fields == {"pc", "snap", "next", "open", "pick", "todo", "done", "answer", "body", "before"}

IsSession(s) == s = [f \in Fields |-> s[f]]

Stages == {"idle", "sorting", "consider", "marking", "writing", "firing", "ended"}

(* How far a request is, and what it has selected, written and marked.     *)
SessionInv(r) ==
  LET s == req[r]
  IN /\ IsSession(s)
     /\ s.pc \in Stages
     /\ s.next \in Nat \ {0}
     /\ s.open \subseteq Range(Listed[r]) \ Skip
     /\ s.pc = "idle" => s = Idle
     /\ s.before \subseteq {q \in Req : Ended(q)}
     /\ s.pc \in {"idle", "sorting", "consider"} => s.pick = None
     /\ s.pc \in {"marking", "writing", "firing"} => s.pick # None
     /\ s.pick # None => s.pick \in Range(Listed[r])
     /\ s.pick = None \/ s.pc = "marking" => s.done = {} /\ s.todo = {}
     /\ s.pick # None /\ s.pc # "marking" =>
          /\ s.done \cup s.todo = DOMAIN SetState[s.pick]
          /\ s.done \cap s.todo = {}
          /\ s.pick \in Once => s.pick \in once
     /\ s.pc \in {"firing", "ended"} => s.todo = {}
     /\ s.pc = "firing" => s.answer = "example" /\ r \notin Async
     /\ s.pc = "ended" /\ s.answer = "example" => s.pick # None

(* The requests with an example that were over when r arrived. *)
Past(r) == {q \in req[r].before : req[q].pick # None}

Counted(r, k) ==
  {q \in Past(r) : Prefix[q] = Prefix[r] /\ k \in DOMAIN SetState[req[q].pick]}

(* A request knows what was marked and counted before it arrived. *)
PastInv(r) ==
  /\ \A q \in Past(r) : req[q].pick \in Once => req[q].pick \notin req[r].open \cup {req[r].pick}
  /\ \A k \in Key : OnlyIncremented(Prefix[r], k) =>
       Lookup(req[r].snap, k).n >= Cardinality(Counted(r, k))

(* The events of a request: none before it is through with the state, then *)
(* one after the other.                                                    *)
FiredInv(r) ==
  LET s == req[r]
  IN /\ s.pc \notin {"firing", "ended"} => FiredBy(r) = <<>>
     /\ s.pc = "firing" => /\ s.next \in 1 .. Len(Trigger[s.pick]) + 1
                           /\ FiredBy(r) = Told(r, s.next - 1)
     /\ s.pc = "ended" /\ s.answer = "example" /\ r \notin Async =>
          FiredBy(r) = Told(r, Len(Trigger[s.pick]))

Firing == [by : Req, event : Event]

PipeInv ==
  /\ req = [r \in Req |-> req[r]]
  /\ once \subseteq Once
  /\ fired \in Seq(Firing)
  /\ \A i \in DOMAIN fired : LET q == req[fired[i].by]
                             IN q.pc \in {"firing", "ended"} /\ q.answer = "example"
  /\ \A r \in Req : SessionInv(r) /\ PastInv(r) /\ FiredInv(r)
  /\ CountersExact

(* A step of r leaves the other requests as they are; the markers and the  *)
(* requests that are over only grow.                                       *)
LEMMA OthersKeep ==
  ASSUME PipeInv, NEW r \in Req, NEW s, req' = [req EXCEPT ![r] = s], ~Ended(r),
         once \subseteq once', NEW q \in Req, q # r
  PROVE  /\ req'[q] = req[q] /\ SessionInv(q)' /\ PastInv(q)'
         /\ FiredBy(q)' = FiredBy(q) => FiredInv(q)'
<1>1. SessionInv(q) /\ PastInv(q) /\ FiredInv(q)
  BY DEF PipeInv
<1>2. \A p \in Req : p # r => req'[p] = req[p]
  BY DEF PipeInv
<1>3. req'[q] = req[q]
  BY <1>2
<1>4. {p \in Req : Ended(p)} \subseteq {p \in Req : Ended(p)'}
  BY <1>2 DEF Ended
<1>5. SessionInv(q)'
  <2>1. {p \in Req : Ended(p)}' = {p \in Req : Ended(p)'}
    OBVIOUS
  <2> QED
    BY <1>1, <1>3, <1>4, <2>1 DEF SessionInv
<1>6. \A p \in req[q].before : p \in Req /\ p # r /\ req'[p] = req[p]
  BY <1>1, <1>2 DEF SessionInv
<1>7. Past(q)' = Past(q)
  BY <1>3, <1>6 DEF Past
<1>8. \A k : Counted(q, k)' = Counted(q, k)
  BY <1>6, <1>7 DEF Counted, Past
<1>9. PastInv(q)'
  <2>1. \A p \in Past(q) : req'[p] = req[p]
    BY <1>6 DEF Past
  <2>2. \A p \in Past(q)' : req'[p].pick \in Once => req'[p].pick \notin req'[q].open \cup {req'[q].pick}
    BY <1>1, <1>3, <1>7, <2>1 DEF PastInv
  <2>3. \A k \in Key : OnlyIncremented(Prefix[q], k) =>
          Lookup(req'[q].snap, k).n >= Cardinality(Counted(q, k)')
    BY <1>1, <1>3, <1>8 DEF PastInv
  <2> QED
    BY <2>2, <2>3 DEF PastInv, OnlyIncremented, Lookup
<1>10. ASSUME FiredBy(q)' = FiredBy(q) PROVE FiredInv(q)'
  BY <1>1, <1>3, <1>10 DEF FiredInv, Told
<1> QED
  BY <1>3, <1>5, <1>9, <1>10

(* A step of r that neither writes state nor fires anything keeps the      *)
(* invariant if r's own parts of it hold afterwards.                       *)
LEMMA SilentStep ==
  ASSUME PipeInv, NEW r \in Req, NEW s, req' = [req EXCEPT ![r] = s], ~Ended(r),
         once \subseteq once', once' \subseteq Once, UNCHANGED <<state, fired>>,
         s.done = req[r].done,
         req[r].pc = "firing" => s.pc \in {"firing", "ended"} /\ s.answer = "example",
         SessionInv(r)', PastInv(r)', FiredInv(r)'
  PROVE  PipeInv'
<1>1. req = [q \in Req |-> req[q]] /\ fired \in Seq(Firing) /\ CountersExact
  BY DEF PipeInv
<1>2. req' = [q \in Req |-> req'[q]] /\ req'[r] = s /\ \A q \in Req : q # r => req'[q] = req[q]
  BY <1>1
<1>3. \A q \in Req : FiredBy(q)' = FiredBy(q)
  BY DEF FiredBy
<1>4. \A q \in Req : SessionInv(q)' /\ PastInv(q)' /\ FiredInv(q)'
  <2> SUFFICES ASSUME NEW q \in Req, q # r PROVE SessionInv(q)' /\ PastInv(q)' /\ FiredInv(q)'
    OBVIOUS
  <2> QED
    BY <1>3, OthersKeep
<1>5. \A i \in DOMAIN fired' : LET q == req'[fired'[i].by]
                               IN q.pc \in {"firing", "ended"} /\ q.answer = "example"
  <2> SUFFICES ASSUME NEW i \in DOMAIN fired
               PROVE  /\ req'[fired[i].by].pc \in {"firing", "ended"}
                      /\ req'[fired[i].by].answer = "example"
    OBVIOUS
  <2>1. /\ fired[i].by \in Req /\ req[fired[i].by].pc \in {"firing", "ended"}
        /\ req[fired[i].by].answer = "example"
    <3>1. fired[i] \in Firing
      BY <1>1
    <3> QED
      BY <3>1 DEF PipeInv, Firing
  <2> QED
    BY <1>2, <2>1 DEF Ended
<1>6. CountersExact'
  <2>1. \A ns, k : Writers(ns, k)' = Writers(ns, k)
    BY <1>2 DEF Writers
  <2>2. \A ns, k : Get(ns, k)' = Get(ns, k)
    BY DEF Get, GetNamespace, Lookup
  <2> QED
    BY <1>1, <2>1, <2>2 DEF CountersExact, OnlyIncremented
<1> QED
  BY <1>1, <1>2, <1>4, <1>5, <1>6 DEF PipeInv

(* What a request that is not over yet knows of itself. *)
LEMMA SessionFacts ==
  ASSUME PipeInv, NEW r \in Req
  PROVE  /\ SessionInv(r) /\ PastInv(r) /\ FiredInv(r) /\ IsSession(req[r]) /\ once \subseteq Once
         /\ \A q \in req[r].before : q \in Req /\ Ended(q)
         /\ None \notin Range(Listed[r]) /\ Range(Listed[r]) \subseteq Example
<1>1. SessionInv(r) /\ PastInv(r) /\ FiredInv(r) /\ once \subseteq Once
  BY DEF PipeInv
<1>2. \A q \in req[r].before : q \in Req /\ Ended(q)
  BY <1>1 DEF SessionInv
<1>3. Range(Listed[r]) \subseteq Example
  BY PipelineAssumption, RangeOfSeq
<1> QED
  BY <1>1, <1>2, <1>3, PipelineAssumption DEF SessionInv

(* How PastInv follows a request that goes on. *)
LEMMA PastGoesOn ==
  ASSUME PipeInv, NEW r \in Req, NEW s, req' = [req EXCEPT ![r] = s], ~Ended(r),
         s.before = req[r].before, s.snap = req[r].snap,
         \A q \in Past(r) : req[q].pick \in Once => req[q].pick \notin s.open \cup {s.pick}
  PROVE  PastInv(r)'
<1>1. req'[r] = s /\ (\A q \in Req : q # r => req'[q] = req[q])
  BY DEF PipeInv
<1>2. PastInv(r) /\ r \notin req[r].before /\ \A q \in req[r].before : q \in Req
  BY SessionFacts
<1>3. \A q \in req[r].before : req'[q] = req[q]
  BY <1>1, <1>2
<1>4. Past(r)' = Past(r)
  BY <1>1, <1>3 DEF Past
<1>5. \A k : Counted(r, k)' = Counted(r, k)
  BY <1>3, <1>4 DEF Counted, Past
<1>6. \A q \in Past(r) : req'[q] = req[q]
  BY <1>3 DEF Past
<1>7. \A q \in Past(r)' : req'[q].pick \in Once => req'[q].pick \notin req'[r].open \cup {req'[r].pick}
  BY <1>1, <1>4, <1>6
<1>8. \A k \in Key : OnlyIncremented(Prefix[r], k) =>
        Lookup(req'[r].snap, k).n >= Cardinality(Counted(r, k)')
  BY <1>1, <1>2, <1>5 DEF PastInv
<1> QED
  BY <1>7, <1>8 DEF PastInv, OnlyIncremented, Lookup

(* The requests that are over have counted what their example counts. *)
LEMMA SnapCounts ==
  ASSUME PipeInv, NEW r \in Req, NEW k \in Key, NEW S \in SUBSET Req,
         OnlyIncremented(Prefix[r], k), S \subseteq Writers(Prefix[r], k)
  PROVE  Lookup(GetNamespace(Prefix[r]), k).n >= Cardinality(S)
<1> DEFINE W == Writers(Prefix[r], k)
<1>1. Prefix[r] \in Namespace /\ IsFiniteSet(Req) /\ W \in SUBSET Req
  BY PipelineAssumption DEF Writers
<1>2. IsFiniteSet(W)
  BY <1>1, FS_Subset
<1>3. Cardinality(S) <= Cardinality(W) /\ Cardinality(S) \in Nat /\ Cardinality(W) \in Nat
  <2>1. IsFiniteSet(S) /\ S \in SUBSET W
    BY <1>1, FS_Subset
  <2> HIDE DEF W
  <2> QED
    BY <1>2, <2>1, FS_Subset, FS_CardinalityType
<1>4. Get(Prefix[r], k) = IF W = {} THEN Absent ELSE Number(Cardinality(W))
  BY <1>1 DEF PipeInv, CountersExact
<1>5. W = {} => Cardinality(W) = 0
  BY FS_EmptySet
<1> HIDE DEF W
<1>6. Get(Prefix[r], k).n = Cardinality(W)
  BY <1>4, <1>5 DEF Absent, Number
<1> QED
  BY <1>3, <1>6 DEF Get

(* A request arrives and copies its namespace. *)
LEMMA ArriveKeepsInv ==
  ASSUME PipeInv, NEW r \in Req, Arrive(r)
  PROVE  PipeInv'
<1> DEFINE pc == IF r \in Async THEN "consider" ELSE "sorting"
           past == {q \in Req : Ended(q)}
           s == [Idle EXCEPT !.pc = pc, !.snap = GetNamespace(Prefix[r]), !.before = past]
<1>1. /\ SessionInv(r) /\ PastInv(r) /\ FiredInv(r) /\ req[r] = Idle /\ ~Ended(r)
      /\ UNCHANGED <<state, once, fired>> /\ once \subseteq Once
  BY SessionFacts DEF Arrive, SessionInv, Ended
<1>2. req' = [req EXCEPT ![r] = s]
  BY <1>1 DEF Arrive, PipeInv
<1>3. /\ IsSession(s) /\ s.pc = pc /\ s.snap = GetNamespace(Prefix[r]) /\ s.before = past /\ s.next = 1
      /\ s.open = {} /\ s.pick = None /\ s.todo = {} /\ s.done = {} /\ s.answer = None
  <2> HIDE DEF pc, past
  <2>1. /\ IsSession(Idle) /\ Idle.next = 1 /\ Idle.open = {} /\ Idle.pick = None /\ Idle.todo = {}
        /\ Idle.done = {} /\ Idle.answer = None
    BY DEF IsSession, Idle, Fields
  <2> QED
    BY <2>1 DEF IsSession, Fields
<1>4. s.done = req[r].done /\ req[r].pc = "idle"
  BY <1>1, <1>3 DEF Idle
<1> HIDE DEF s
<1>5. req'[r] = s /\ \A q \in Req : q # r => req'[q] = req[q]
  BY <1>2 DEF PipeInv
<1>6. SessionInv(r)'
  <2>1. past \subseteq {q \in Req : Ended(q)}'
    BY <1>1, <1>5 DEF Ended
  <2> QED
    BY <1>3, <1>5, <2>1 DEF SessionInv, Stages
<1>7. PastInv(r)'
  <2>1. r \notin past /\ \A q \in past : q \in Req /\ Ended(q) /\ req'[q] = req[q]
    BY <1>1, <1>5
  <2> HIDE DEF past
  <2>2. \A q \in Past(r)' : q \in past /\ req'[q] = req[q] /\ q \in Req /\ req[q].pick # None
    BY <1>3, <1>5, <2>1 DEF Past
  <2>3. \A q \in Past(r)' : req[q].pick \in Range(Listed[q]) /\ req[q].pick # None
    BY <2>2 DEF PipeInv, SessionInv
  <2>4. \A q \in Past(r)' : req'[q].pick \in Once => req'[q].pick \notin req'[r].open \cup {req'[r].pick}
    BY <1>3, <1>5, <2>2, PipelineAssumption
  <2>5. ASSUME NEW k \in Key, OnlyIncremented(Prefix[r], k)
        PROVE  Lookup(req'[r].snap, k).n >= Cardinality(Counted(r, k)')
    <3> DEFINE S == Counted(r, k)'
    <3>1. ASSUME NEW q \in S
          PROVE  q \in Req /\ Prefix[q] = Prefix[r] /\ k \in req[q].done
      <4>1. q \in Past(r)' /\ Prefix[q] = Prefix[r] /\ k \in DOMAIN SetState[req'[q].pick]
        BY DEF Counted
      <4>2. q \in Req /\ req'[q] = req[q] /\ req[q].pick # None /\ Ended(q) /\ SessionInv(q)
        BY <2>1, <2>2, <4>1 DEF PipeInv
      <4>3. req[q].done = DOMAIN SetState[req[q].pick]
        BY <4>2 DEF SessionInv, Ended
      <4> QED
        BY <4>1, <4>2, <4>3
    <3>2. S \in SUBSET Req /\ S \subseteq Writers(Prefix[r], k)
      BY <3>1 DEF Writers
    <3> HIDE DEF S
    <3>3. Lookup(GetNamespace(Prefix[r]), k).n >= Cardinality(S)
      BY <2>5, <3>2, SnapCounts
    <3> QED
      BY <1>3, <1>5, <3>3 DEF S
  <2> QED
    BY <2>4, <2>5 DEF PastInv, OnlyIncremented, Lookup
<1>8. FiredInv(r)'
  <2>1. FiredBy(r)' = FiredBy(r) /\ FiredBy(r) = <<>>
    BY <1>1, <1>4 DEF FiredBy, FiredInv
  <2> QED
    BY <1>3, <1>5, <2>1 DEF FiredInv
<1> QED
  BY <1>1, <1>2, <1>3, <1>4, <1>6, <1>7, <1>8, SilentStep

(* An injected example, or nothing to select from. *)
LEMMA AnswerOtherwiseKeepsInv ==
  ASSUME PipeInv, NEW r \in Req, AnswerOtherwise(r)
  PROVE  PipeInv'
<1> DEFINE s == [req[r] EXCEPT !.pc = "ended", !.answer = "other"]
<1>1. /\ SessionInv(r) /\ PastInv(r) /\ FiredInv(r) /\ req[r].pc \in {"sorting", "consider"} /\ ~Ended(r)
      /\ UNCHANGED <<state, once, fired>> /\ once \subseteq Once /\ IsSession(req[r])
  BY SessionFacts DEF AnswerOtherwise, Ended
<1>2. req' = [req EXCEPT ![r] = s]
  BY <1>1 DEF AnswerOtherwise, PipeInv
<1>3. /\ IsSession(s) /\ s.pc = "ended" /\ s.answer = "other" /\ s.snap = req[r].snap
      /\ s.before = req[r].before /\ s.next = req[r].next /\ s.open = req[r].open
      /\ s.pick = req[r].pick /\ s.todo = req[r].todo /\ s.done = req[r].done
  BY <1>1 DEF IsSession, Fields
<1> HIDE DEF s
<1>4. req'[r] = s /\ \A q \in Req : q # r => req'[q] = req[q]
  BY <1>2 DEF PipeInv
<1>5. SessionInv(r)'
  <2>1. {q \in Req : Ended(q)} \subseteq {q \in Req : Ended(q)}'
    BY <1>1, <1>4 DEF Ended
  <2> QED
    BY <1>1, <1>3, <1>4, <2>1 DEF SessionInv, Stages
<1>6. PastInv(r)'
  BY <1>1, <1>2, <1>3, PastGoesOn DEF PastInv
<1>7. FiredInv(r)'
  BY <1>3, <1>4 DEF FiredInv
<1> QED
  BY <1>1, <1>2, <1>3, <1>5, <1>6, <1>7, SilentStep

(* The first listed example of a set is in the set. *)
LEMMA FirstIsIn ==
  ASSUME NEW r \in Req, NEW S, S # {}, S \subseteq Range(Listed[r])
  PROVE  First(r, S) \in S
<1> DEFINE T == {i \in DOMAIN Listed[r] : Listed[r][i] \in S}
<1>1. DOMAIN Listed[r] = 1 .. Len(Listed[r]) /\ Len(Listed[r]) \in Nat
  BY PipelineAssumption, LenProperties
<1>2. T \in SUBSET Nat /\ T # {}
  BY <1>1 DEF Range
<1>3. PICK m \in T : \A i \in T : m <= i
  <2> HIDE DEF T
  <2> QED
    BY <1>2, LeastNumber
<1>4. m \in DOMAIN Listed[r] /\ Listed[r][m] \in S /\ \A j \in 1 .. m - 1 : Listed[r][j] \notin S
  <2>1. \A j \in 1 .. m - 1 : j \in DOMAIN Listed[r] /\ ~(m <= j)
    BY <1>1
  <2> QED
    BY <1>3, <2>1
<1> HIDE DEF T
<1>5. \E i \in DOMAIN Listed[r] : Listed[r][i] \in S /\ \A j \in 1 .. i - 1 : Listed[r][j] \notin S
  BY <1>4
<1> QED
  BY <1>5 DEF First

(* What a request passes over cannot have been given to an earlier one, so *)
(* what it does not pass over is new.                                      *)
LEMMA NotPassedIsNew ==
  ASSUME PipeInv, NEW r \in Req, NEW x, ~Passed(x), NEW q \in Past(r), req[q].pick \in Once
  PROVE  req[q].pick # x
<1>1. SessionInv(q) /\ Ended(q) /\ req[q].pick # None
  BY SessionFacts DEF Past, PipeInv
<1>2. req[q].pick \in once
  BY <1>1 DEF SessionInv, Ended
<1> QED
  BY <1>2 DEF Passed

(* The selection reads one marker after the other. *)
LEMMA CategorizeKeepsInv ==
  ASSUME PipeInv, NEW r \in Req, Categorize(r)
  PROVE  PipeInv'
<1> DEFINE x == Listed[r][req[r].next]
           open == IF Passed(x) THEN req[r].open ELSE req[r].open \cup {x}
           s == [req[r] EXCEPT !.next = req[r].next + 1, !.open = open]
<1>1. /\ SessionInv(r) /\ PastInv(r) /\ FiredInv(r) /\ req[r].pc = "sorting" /\ ~Ended(r)
      /\ UNCHANGED <<state, once, fired>> /\ once \subseteq Once /\ IsSession(req[r])
      /\ req[r].next <= Len(Listed[r])
  BY SessionFacts DEF Categorize, Ended
<1>2. req' = [req EXCEPT ![r] = s]
  BY <1>1 DEF Categorize, PipeInv
<1>3. /\ IsSession(s) /\ s.pc = "sorting" /\ s.answer = req[r].answer /\ s.snap = req[r].snap
      /\ s.before = req[r].before /\ s.next = req[r].next + 1 /\ s.open = open
      /\ s.pick = req[r].pick /\ s.todo = req[r].todo /\ s.done = req[r].done
  <2> HIDE DEF open
  <2> QED
    BY <1>1 DEF IsSession, Fields
<1> HIDE DEF s
<1>4. req'[r] = s /\ \A q \in Req : q # r => req'[q] = req[q]
  BY <1>2 DEF PipeInv
<1>5. open \subseteq Range(Listed[r]) \ Skip
  <2>1. DOMAIN Listed[r] = 1 .. Len(Listed[r]) /\ Len(Listed[r]) \in Nat
    BY PipelineAssumption, LenProperties
  <2>2. x \in Range(Listed[r])
    BY <1>1, <2>1 DEF SessionInv, Range
  <2> QED
    BY <1>1, <2>2 DEF SessionInv, Passed
<1>6. SessionInv(r)'
  <2>1. {q \in Req : Ended(q)} \subseteq {q \in Req : Ended(q)}'
    BY <1>1, <1>4 DEF Ended
  <2> HIDE DEF open
  <2> QED
    BY <1>1, <1>3, <1>4, <1>5, <2>1 DEF SessionInv, Stages
<1>7. PastInv(r)'
  <2>1. \A q \in Past(r) : req[q].pick \in Once => req[q].pick \notin open \cup {s.pick}
    BY <1>1, <1>3, NotPassedIsNew DEF PastInv
  <2> HIDE DEF open
  <2> QED
    BY <1>1, <1>2, <1>3, <2>1, PastGoesOn
<1>8. FiredInv(r)'
  BY <1>1, <1>3, <1>4 DEF FiredInv, FiredBy
<1> QED
  BY <1>1, <1>2, <1>3, <1>6, <1>7, <1>8, SilentStep

(* The selected example is marked as it is returned. *)
LEMMA SelectKeepsInv ==
  ASSUME PipeInv, NEW r \in Req, SelectExample(r)
  PROVE  PipeInv'
<1> DEFINE x == First(r, Bucket(r))
<1>1. /\ SessionInv(r) /\ PastInv(r) /\ FiredInv(r) /\ req[r].pc = "sorting" /\ ~Ended(r)
      /\ UNCHANGED <<state, fired>> /\ once \subseteq Once /\ IsSession(req[r])
  BY SessionFacts DEF SelectExample, Ended
<1>2. CASE Bucket(r) = {}
  <2> DEFINE s == [req[r] EXCEPT !.pc = "ended", !.answer = "none"]
  <2>1. req' = [req EXCEPT ![r] = s] /\ once' = once
    BY <1>1, <1>2 DEF SelectExample, PipeInv
  <2>2. /\ IsSession(s) /\ s.pc = "ended" /\ s.answer = "none" /\ s.snap = req[r].snap
        /\ s.before = req[r].before /\ s.next = req[r].next /\ s.open = req[r].open
        /\ s.pick = req[r].pick /\ s.todo = req[r].todo /\ s.done = req[r].done
    BY <1>1 DEF IsSession, Fields
  <2> HIDE DEF s
  <2>3. req'[r] = s /\ \A q \in Req : q # r => req'[q] = req[q]
    BY <2>1 DEF PipeInv
  <2>4. SessionInv(r)'
    <3>1. {q \in Req : Ended(q)} \subseteq {q \in Req : Ended(q)}'
      BY <1>1, <2>3 DEF Ended
    <3> QED
      BY <1>1, <2>1, <2>2, <2>3, <3>1 DEF SessionInv, Stages
  <2>5. PastInv(r)'
    BY <1>1, <2>1, <2>2, PastGoesOn DEF PastInv
  <2>6. FiredInv(r)'
    BY <2>2, <2>3 DEF FiredInv
  <2> QED
    BY <1>1, <2>1, <2>2, <2>4, <2>5, <2>6, SilentStep
<1>3. CASE Bucket(r) # {}
  <2>1. Bucket(r) \subseteq req[r].open
    BY DEF Bucket
  <2>2. x \in req[r].open /\ x \in Range(Listed[r])
    BY <1>1, <1>3, <2>1, FirstIsIn DEF SessionInv
  <2> DEFINE s == [req[r] EXCEPT !.pc = "writing", !.pick = x, !.todo = DOMAIN SetState[x]]
  <2>3. req' = [req EXCEPT ![r] = s] /\ once' = once \cup ({x} \cap Once)
    BY <1>1, <1>3 DEF SelectExample, PipeInv, Marked
  <2> HIDE DEF x
  <2>4. /\ IsSession(s) /\ s.pc = "writing" /\ s.answer = req[r].answer /\ s.snap = req[r].snap
        /\ s.before = req[r].before /\ s.next = req[r].next /\ s.open = req[r].open
        /\ s.pick = x /\ s.todo = DOMAIN SetState[x] /\ s.done = req[r].done
    BY <1>1 DEF IsSession, Fields
  <2> HIDE DEF s
  <2>5. req'[r] = s /\ \A q \in Req : q # r => req'[q] = req[q]
    BY <2>3 DEF PipeInv
  <2>6. SessionInv(r)'
    <3>1. {q \in Req : Ended(q)} \subseteq {q \in Req : Ended(q)}'
      BY <1>1, <2>5 DEF Ended
    <3>2. x # None /\ s.done = {}
      BY <1>1, <2>2, <2>4, SessionFacts DEF SessionInv
    <3> QED
      BY <1>1, <2>2, <2>3, <2>4, <2>5, <3>1, <3>2 DEF SessionInv, Stages
  <2>7. PastInv(r)'
    <3>1. \A q \in Past(r) : req[q].pick \in Once => req[q].pick \notin s.open \cup {s.pick}
      BY <1>1, <2>2, <2>4 DEF PastInv
    <3> QED
      BY <1>1, <2>3, <2>4, <3>1, PastGoesOn
  <2>8. FiredInv(r)'
    BY <1>1, <2>4, <2>5 DEF FiredInv, FiredBy
  <2> QED
    BY <1>1, <2>3, <2>4, <2>6, <2>7, <2>8, SilentStep
<1> QED
  BY <1>2, <1>3

(* A message is compared with one example after the other. *)
LEMMA ConsiderKeepsInv ==
  ASSUME PipeInv, NEW r \in Req, ConsiderAsync(r)
  PROVE  PipeInv'
<1> DEFINE x == Listed[r][req[r].next]
<1>1. /\ SessionInv(r) /\ PastInv(r) /\ FiredInv(r) /\ req[r].pc = "consider" /\ ~Ended(r)
      /\ UNCHANGED <<state, once, fired>> /\ once \subseteq Once /\ IsSession(req[r])
      /\ req[r].pick = None /\ req[r].next \in Nat \ {0} /\ req[r].done = {} /\ req[r].todo = {}
  BY SessionFacts DEF ConsiderAsync, Ended, SessionInv
<1>2. ASSUME {q \in Req : Ended(q)} \subseteq {q \in Req : Ended(q)}',
             NEW s, IsSession(s), req' = [req EXCEPT ![r] = s], s.pc \in {"ended", "consider"},
             s.pc = "ended" => s.answer = "none", s.next \in Nat \ {0},
             s.before = req[r].before, s.open = req[r].open, s.pick = None,
             s.todo = {}, s.done = {}, s.snap = req[r].snap
      PROVE  PipeInv'
  <2>1. req'[r] = s
    BY <1>2 DEF PipeInv
  <2>2. SessionInv(r)'
    BY <1>1, <1>2, <2>1 DEF SessionInv, Stages
  <2>3. PastInv(r)'
    <3>1. \A q \in Past(r) : req[q].pick \in Once => req[q].pick \notin s.open \cup {s.pick}
      BY <1>1, <1>2 DEF PastInv
    <3> QED
      BY <1>1, <1>2, <3>1, PastGoesOn
  <2>4. FiredInv(r)'
    BY <1>1, <1>2, <2>1 DEF FiredInv, FiredBy
  <2> QED
    BY <1>1, <1>2, <2>2, <2>3, <2>4, SilentStep
<1>3. ASSUME NEW s, req' = [req EXCEPT ![r] = s]
      PROVE  {q \in Req : Ended(q)} \subseteq {q \in Req : Ended(q)}'
  BY <1>1, <1>3 DEF PipeInv, Ended
<1>4. CASE req[r].next > Len(Listed[r])
  <2> DEFINE s == [req[r] EXCEPT !.pc = "ended", !.answer = "none"]
  <2>1. req' = [req EXCEPT ![r] = s]
    BY <1>1, <1>4 DEF ConsiderAsync, PipeInv
  <2>2. /\ IsSession(s) /\ s.pc = "ended" /\ s.answer = "none" /\ s.snap = req[r].snap
        /\ s.before = req[r].before /\ s.next = req[r].next /\ s.open = req[r].open
        /\ s.pick = req[r].pick /\ s.todo = req[r].todo /\ s.done = req[r].done
    BY <1>1 DEF IsSession, Fields
  <2> HIDE DEF s
  <2> QED
    BY <1>1, <1>2, <1>3, <2>1, <2>2
<1>5. CASE ~(req[r].next > Len(Listed[r])) /\ (Passed(x) \/ ~Matches(x, req[r].snap))
  <2> DEFINE s == [req[r] EXCEPT !.next = req[r].next + 1]
  <2>1. req' = [req EXCEPT ![r] = s]
    BY <1>1, <1>5 DEF ConsiderAsync, PipeInv
  <2>2. /\ IsSession(s) /\ s.pc = "consider" /\ s.answer = req[r].answer /\ s.snap = req[r].snap
        /\ s.before = req[r].before /\ s.next = req[r].next + 1 /\ s.open = req[r].open
        /\ s.pick = req[r].pick /\ s.todo = req[r].todo /\ s.done = req[r].done
    BY <1>1 DEF IsSession, Fields
  <2> HIDE DEF s
  <2>3. s.next \in Nat \ {0}
    BY <1>1, <2>2
  <2>4. {q \in Req : Ended(q)} \subseteq {q \in Req : Ended(q)}'
    BY <1>3, <2>1
  <2> QED
    BY <1>1, <1>2, <2>1, <2>2, <2>3, <2>4
<1>6. CASE ~(req[r].next > Len(Listed[r])) /\ ~(Passed(x) \/ ~Matches(x, req[r].snap))
  <2>1. x \in Range(Listed[r])
    <3>1. DOMAIN Listed[r] = 1 .. Len(Listed[r]) /\ Len(Listed[r]) \in Nat
      BY PipelineAssumption, LenProperties
    <3> QED
      BY <1>1, <1>6, <3>1 DEF Range
  <2>2. \A q \in Past(r) : req[q].pick \in Once => req[q].pick # x
    BY <1>6, NotPassedIsNew
  <2> DEFINE s == [req[r] EXCEPT !.pc = "marking", !.pick = x]
  <2>3. req' = [req EXCEPT ![r] = s]
    BY <1>1, <1>6 DEF ConsiderAsync, PipeInv
  <2> HIDE DEF x
  <2>4. /\ IsSession(s) /\ s.pc = "marking" /\ s.answer = req[r].answer /\ s.snap = req[r].snap
        /\ s.before = req[r].before /\ s.next = req[r].next /\ s.open = req[r].open
        /\ s.pick = x /\ s.todo = req[r].todo /\ s.done = req[r].done
    BY <1>1 DEF IsSession, Fields
  <2> HIDE DEF s
  <2>5. req'[r] = s
    BY <2>3 DEF PipeInv
  <2>6. x # None
    BY <2>1, SessionFacts
  <2>7. SessionInv(r)'
    <3>1. {q \in Req : Ended(q)} \subseteq {q \in Req : Ended(q)}'
      BY <1>3, <2>3
    <3> QED
      BY <1>1, <2>1, <2>4, <2>5, <2>6, <3>1 DEF SessionInv, Stages
  <2>8. PastInv(r)'
    <3>1. \A q \in Past(r) : req[q].pick \in Once => req[q].pick \notin s.open \cup {s.pick}
      BY <1>1, <2>2, <2>4 DEF PastInv
    <3> QED
      BY <1>1, <2>3, <2>4, <3>1, PastGoesOn
  <2>9. FiredInv(r)'
    BY <1>1, <2>4, <2>5 DEF FiredInv, FiredBy
  <2> QED
    BY <1>1, <2>3, <2>4, <2>7, <2>8, <2>9, SilentStep
<1> QED
  BY <1>4, <1>5, <1>6

(* The example of a message is marked in a step of its own. *)
LEMMA MarkKeepsInv ==
  ASSUME PipeInv, NEW r \in Req, MarkAsync(r)
  PROVE  PipeInv'
<1> DEFINE x == req[r].pick
           s == [req[r] EXCEPT !.pc = "writing", !.todo = DOMAIN SetState[x]]
<1>1. /\ SessionInv(r) /\ PastInv(r) /\ FiredInv(r) /\ req[r].pc = "marking" /\ ~Ended(r)
      /\ UNCHANGED <<state, fired>> /\ once \subseteq Once /\ IsSession(req[r])
      /\ once' = once \cup ({x} \cap Once)
  BY SessionFacts DEF MarkAsync, Ended, Marked
<1>2. req' = [req EXCEPT ![r] = s]
  BY <1>1 DEF MarkAsync, PipeInv
<1>3. /\ IsSession(s) /\ s.pc = "writing" /\ s.answer = req[r].answer /\ s.snap = req[r].snap
      /\ s.before = req[r].before /\ s.next = req[r].next /\ s.open = req[r].open
      /\ s.pick = x /\ s.todo = DOMAIN SetState[x] /\ s.done = req[r].done
  BY <1>1 DEF IsSession, Fields
<1> HIDE DEF s
<1>4. req'[r] = s /\ \A q \in Req : q # r => req'[q] = req[q]
  BY <1>2 DEF PipeInv
<1>5. SessionInv(r)'
  <2>1. {q \in Req : Ended(q)} \subseteq {q \in Req : Ended(q)}'
    BY <1>1, <1>4 DEF Ended
  <2> QED
    BY <1>1, <1>3, <1>4, <2>1 DEF SessionInv, Stages
<1>6. PastInv(r)'
  <2>1. \A q \in Past(r) : req[q].pick \in Once => req[q].pick \notin s.open \cup {s.pick}
    BY <1>1, <1>3 DEF PastInv
  <2> QED
    BY <1>1, <1>2, <1>3, <2>1, PastGoesOn
<1>7. FiredInv(r)'
  BY <1>1, <1>3, <1>4 DEF FiredInv, FiredBy
<1> QED
  BY <1>1, <1>2, <1>3, <1>5, <1>6, <1>7, SilentStep

(* The body is generated once all entries are written. *)
LEMMA GenerateKeepsInv ==
  ASSUME PipeInv, NEW r \in Req, Generate(r)
  PROVE  PipeInv'
<1>1. /\ SessionInv(r) /\ PastInv(r) /\ FiredInv(r) /\ req[r].pc = "writing" /\ ~Ended(r)
      /\ UNCHANGED <<state, once, fired>> /\ once \subseteq Once /\ IsSession(req[r])
      /\ req[r].todo = {} /\ req[r].pick # None /\ req[r].pick \in Example
  BY SessionFacts DEF Generate, Ended, SessionInv
<1>2. ASSUME NEW s, req' = [req EXCEPT ![r] = s], IsSession(s), s.before = req[r].before,
             s.open = req[r].open, s.pick = req[r].pick, s.todo = {}, s.done = req[r].done,
             s.snap = req[r].snap, s.next \in Nat \ {0}, s.pc \in {"firing", "ended"},
             s.pc = "firing" => s.answer = "example" /\ r \notin Async /\ s.next = 1,
             s.pc = "ended" => s.answer = "error" \/ r \in Async
      PROVE  PipeInv'
  <2>1. req'[r] = s /\ \A q \in Req : q # r => req'[q] = req[q]
    BY <1>2 DEF PipeInv
  <2>2. SessionInv(r)'
    <3>1. {q \in Req : Ended(q)} \subseteq {q \in Req : Ended(q)}'
      BY <1>1, <2>1 DEF Ended
    <3> QED
      BY <1>1, <1>2, <2>1, <3>1 DEF SessionInv, Stages
  <2>3. PastInv(r)'
    BY <1>1, <1>2, PastGoesOn DEF PastInv
  <2>4. FiredInv(r)'
    <3>1. FiredBy(r)' = <<>>
      BY <1>1 DEF FiredInv, FiredBy
    <3>2. Told(r, 0)' = <<>>
      BY DEF Told
    <3>3. Len(Trigger[s.pick]) \in Nat
      BY <1>1, <1>2, PipelineAssumption, LenProperties
    <3>4. s.pc = "firing" => s.next \in 1 .. Len(Trigger[s.pick]) + 1 /\ s.next - 1 = 0
      BY <1>2, <3>3
    <3> QED
      BY <1>2, <2>1, <3>1, <3>2, <3>4 DEF FiredInv, Told
  <2> QED
    BY <1>1, <1>2, <2>2, <2>3, <2>4, SilentStep
<1>3. CASE req[r].pick \in Broken
  <2> DEFINE s == [req[r] EXCEPT !.pc = "ended", !.answer = "error"]
  <2>1. req' = [req EXCEPT ![r] = s]
    BY <1>1, <1>3 DEF Generate, PipeInv
  <2>2. /\ IsSession(s) /\ s.pc = "ended" /\ s.answer = "error" /\ s.snap = req[r].snap
        /\ s.before = req[r].before /\ s.next = req[r].next /\ s.open = req[r].open
        /\ s.pick = req[r].pick /\ s.todo = req[r].todo /\ s.done = req[r].done
    BY <1>1 DEF IsSession, Fields
  <2> HIDE DEF s
  <2> QED
    BY <1>1, <1>2, <2>1, <2>2 DEF SessionInv
<1>4. CASE req[r].pick \notin Broken
  <2> DEFINE pc == IF r \in Async THEN "ended" ELSE "firing"
             s == [req[r] EXCEPT !.pc = pc, !.next = 1, !.answer = "example", !.body = Evaluated(r)]
  <2>1. req' = [req EXCEPT ![r] = s]
    BY <1>1, <1>4 DEF Generate, PipeInv
  <2>2. /\ IsSession(s) /\ s.pc = pc /\ s.answer = "example" /\ s.snap = req[r].snap
        /\ s.before = req[r].before /\ s.next = 1 /\ s.open = req[r].open
        /\ s.pick = req[r].pick /\ s.todo = req[r].todo /\ s.done = req[r].done
    <3> HIDE DEF pc
    <3> QED
      BY <1>1 DEF IsSession, Fields
  <2> HIDE DEF s
  <2>3. /\ s.pc = "firing" => s.answer = "example" /\ r \notin Async /\ s.next = 1
        /\ s.pc = "ended" => r \in Async
        /\ s.pc \in {"firing", "ended"} /\ s.todo = {} /\ s.next \in Nat \ {0}
    BY <1>1, <2>2
  <2> HIDE DEF pc
  <2> QED
    BY <1>1, <1>2, <2>1, <2>2, <2>3
<1> QED
  BY <1>3, <1>4

(* The events are fired one after the other. *)
LEMMA FireKeepsInv ==
  ASSUME PipeInv, NEW r \in Req, FireTrigger(r)
  PROVE  PipeInv'
<1> DEFINE events == Trigger[req[r].pick]
           i == req[r].next
           e == [by |-> r, event |-> events[i]]
<1>1. /\ SessionInv(r) /\ PastInv(r) /\ FiredInv(r) /\ req[r].pc = "firing" /\ ~Ended(r)
      /\ UNCHANGED <<state, once>> /\ once \subseteq Once /\ IsSession(req[r])
      /\ req[r].answer = "example" /\ r \notin Async
  BY SessionFacts DEF FireTrigger, Ended, SessionInv
<1>2. req[r].pick \in Example
  BY <1>1, SessionFacts DEF SessionInv
<1>3. /\ events \in Seq(Event) /\ Len(events) \in Nat /\ DOMAIN events = 1 .. Len(events)
      /\ i \in 1 .. Len(events) + 1 /\ FiredBy(r) = Told(r, i - 1)
  <2>1. events \in Seq(Event)
    BY <1>2, PipelineAssumption
  <2>2. Len(events) \in Nat /\ DOMAIN events = 1 .. Len(events)
    BY <2>1, LenProperties
  <2> QED
    BY <1>1, <2>1, <2>2 DEF FiredInv
<1>4. CASE ~(i <= Len(events))
  <2> DEFINE s == [req[r] EXCEPT !.pc = "ended"]
  <2>1. req' = [req EXCEPT ![r] = s] /\ UNCHANGED fired
    BY <1>1, <1>4 DEF FireTrigger, PipeInv
  <2>2. /\ IsSession(s) /\ s.pc = "ended" /\ s.answer = "example" /\ s.snap = req[r].snap
        /\ s.before = req[r].before /\ s.next = i /\ s.open = req[r].open
        /\ s.pick = req[r].pick /\ s.todo = req[r].todo /\ s.done = req[r].done
    BY <1>1 DEF IsSession, Fields
  <2> HIDE DEF s
  <2>3. req'[r] = s /\ \A q \in Req : q # r => req'[q] = req[q]
    BY <2>1 DEF PipeInv
  <2>4. SessionInv(r)'
    <3>1. {q \in Req : Ended(q)} \subseteq {q \in Req : Ended(q)}'
      BY <1>1, <2>3 DEF Ended
    <3> QED
      BY <1>1, <2>2, <2>3, <3>1 DEF SessionInv, Stages
  <2>5. PastInv(r)'
    BY <1>1, <2>1, <2>2, PastGoesOn DEF PastInv
  <2>6. FiredInv(r)'
    <3>1. i - 1 = Len(events)
      BY <1>3, <1>4
    <3>2. FiredBy(r)' = Told(r, Len(events))
      BY <1>3, <2>1, <3>1 DEF FiredBy
    <3> QED
      BY <2>2, <2>3, <3>2 DEF FiredInv, Told
  <2> QED
    BY <1>1, <2>1, <2>2, <2>4, <2>5, <2>6, SilentStep
<1>5. CASE i <= Len(events)
  <2> DEFINE s == [req[r] EXCEPT !.next = i + 1]
  <2>1. req' = [req EXCEPT ![r] = s] /\ fired' = Append(fired, e)
    BY <1>1, <1>5 DEF FireTrigger, PipeInv
  <2>2. /\ IsSession(s) /\ s.pc = "firing" /\ s.answer = "example" /\ s.snap = req[r].snap
        /\ s.before = req[r].before /\ s.next = i + 1 /\ s.open = req[r].open
        /\ s.pick = req[r].pick /\ s.todo = req[r].todo /\ s.done = req[r].done
    BY <1>1 DEF IsSession, Fields
  <2>3. e \in Firing /\ events[i] \in Event
    BY <1>3, <1>5, ElementOfSeq DEF Firing
  <2>4. e.by = r /\ e \in [by : {r}, event : Event] /\ \A q : q # r => e \notin [by : {q}, event : Event]
    BY <2>3
  <2> HIDE DEF s
  <2>5. req'[r] = s /\ (\A q \in Req : q # r => req'[q] = req[q]) /\ req' = [q \in Req |-> req'[q]]
    BY <2>1 DEF PipeInv
  <2>6. fired \in Seq(Firing)
    BY DEF PipeInv
  <2>7. \A q \in Req : FiredBy(q)' = IF q = r THEN Append(FiredBy(r), e) ELSE FiredBy(q)
    <3> HIDE DEF e
    <3>1. \A S : Keep(Append(fired, e), S) = IF e \in S THEN Append(Keep(fired, S), e) ELSE Keep(fired, S)
      BY <2>3, <2>6, KeepAppend
    <3>2. ASSUME NEW q \in Req
          PROVE  FiredBy(q)' = IF q = r THEN Append(FiredBy(r), e) ELSE FiredBy(q)
      <4> DEFINE S == [by : {q}, event : Event]
      <4>1. e \in S <=> q = r
        BY <2>4
      <4>2. FiredBy(q)' = Keep(Append(fired, e), S) /\ FiredBy(q) = Keep(fired, S)
        BY <2>1 DEF FiredBy
      <4> HIDE DEF S
      <4> QED
        BY <3>1, <4>1, <4>2
    <3> QED
      BY <3>2
  <2>8. SessionInv(r)'
    <3>1. {q \in Req : Ended(q)} \subseteq {q \in Req : Ended(q)}'
      BY <1>1, <2>5 DEF Ended
    <3> QED
      BY <1>1, <1>3, <2>2, <2>5, <3>1 DEF SessionInv, Stages
  <2>9. PastInv(r)'
    <3>1. \A q \in Past(r) : req[q].pick \in Once => req[q].pick \notin s.open \cup {s.pick}
      BY <1>1, <2>2 DEF PastInv
    <3> QED
      BY <1>1, <2>1, <2>2, <3>1, PastGoesOn
  <2>10. FiredInv(r)'
    <3> DEFINE tell == [j \in 1 .. i |-> [by |-> r, event |-> events[j]]]
    <3>1. i - 1 \in Nat /\ i \in Nat /\ i - 1 + 1 = i
      BY <1>3
    <3>2. FiredBy(r)' = Append([j \in 1 .. i - 1 |-> [by |-> r, event |-> events[j]]], e)
      BY <1>3, <2>7 DEF Told
    <3>3. Append([j \in 1 .. i - 1 |-> [by |-> r, event |-> events[j]]], e) = tell
      BY <3>1
    <3>4. s.next - 1 = i /\ s.next \in 1 .. Len(Trigger[s.pick]) + 1
      BY <1>3, <1>5, <2>2
    <3>5. tell = Told(r, req[r].next - 1)'
      BY <2>2, <2>5, <3>4 DEF Told
    <3>6. FiredBy(r)' = Told(r, req[r].next - 1)'
      BY <3>2, <3>3, <3>5
    <3> HIDE DEF tell, e, i
    <3> QED
      BY <2>2, <2>5, <3>4, <3>6 DEF FiredInv
  <2>11. \A q \in Req : SessionInv(q)' /\ PastInv(q)' /\ FiredInv(q)'
    <3> SUFFICES ASSUME NEW q \in Req, q # r PROVE SessionInv(q)' /\ PastInv(q)' /\ FiredInv(q)'
      BY <2>8, <2>9, <2>10
    <3>1. FiredBy(q)' = FiredBy(q)
      BY <2>7
    <3> QED
      BY <1>1, <2>1, <3>1, OthersKeep
  <2>12. fired' \in Seq(Firing)
    BY <2>1, <2>3, <2>6, AppendProperties
  <2>13. \A j \in DOMAIN fired' : LET q == req'[fired'[j].by]
                                  IN q.pc \in {"firing", "ended"} /\ q.answer = "example"
    <3> SUFFICES ASSUME NEW j \in DOMAIN fired'
                 PROVE  /\ req'[fired'[j].by].pc \in {"firing", "ended"}
                        /\ req'[fired'[j].by].answer = "example"
      OBVIOUS
    <3>1. CASE fired'[j] = e
      BY <2>2, <2>4, <2>5, <3>1
    <3>2. CASE j \in DOMAIN fired /\ fired'[j] = fired[j]
      <4>1. fired[j].by \in Req
        <5>1. fired[j] \in Firing
          BY <2>6, <3>2, ElementOfSeq, LenProperties
        <5> QED
          BY <5>1 DEF Firing
      <4>2. req[fired[j].by].pc \in {"firing", "ended"} /\ req[fired[j].by].answer = "example"
        BY <3>2 DEF PipeInv
      <4> QED
        BY <2>2, <2>5, <3>2, <4>1, <4>2
    <3>3. fired'[j] = e \/ (j \in DOMAIN fired /\ fired'[j] = fired[j])
      <4> HIDE DEF e
      <4> QED
        BY <2>1, <2>3, <2>6, AppendProperties, LenProperties
    <3> QED
      BY <3>1, <3>2, <3>3
  <2>14. CountersExact'
    <3>1. \A ns, k : Writers(ns, k)' = Writers(ns, k)
      BY <2>2, <2>5 DEF Writers
    <3>2. \A ns, k : Get(ns, k)' = Get(ns, k)
      BY <1>1 DEF Get, GetNamespace, Lookup
    <3>3. CountersExact
      BY DEF PipeInv
    <3> QED
      BY <3>1, <3>2, <3>3 DEF CountersExact, OnlyIncremented
  <2> QED
    BY <1>1, <2>5, <2>11, <2>12, <2>13, <2>14 DEF PipeInv
<1> QED
  BY <1>4, <1>5

(* An entry changes the value of its key only, by one if it counts.        *)
LEMMA EntryWritten ==
  ASSUME NEW ns, NEW k, NEW entry, NEW snap, WriteEntry(ns, k, entry, snap)
  PROVE  /\ \A m, j : m # ns \/ j # k => Get(m, j)' = Get(m, j)
         /\ entry = [op |-> "increment", n |-> 1] => Get(ns, k)' = Incremented(Get(ns, k), 1)
<1>1. ASSUME NEW v, Set(ns, k, v)
      PROVE  Get(ns, k)' = v /\ \A m, j : m # ns \/ j # k => Get(m, j)' = Get(m, j)
  BY <1>1, GetAfterSet
<1>2. CASE entry.op = "increment" /\ Increment(ns, k, entry.n)
  BY <1>1, <1>2 DEF Increment
<1>3. CASE entry.op = "delete" /\ Delete(ns, k)
  BY <1>3, GetAfterDelete
<1>4. CASE entry.op = "set" /\ Set(ns, k, entry.value)
  BY <1>1, <1>4
<1>5. CASE entry.op = "copy" /\ Set(ns, k, Lookup(snap, entry.from))
  BY <1>1, <1>5
<1>6. CASE entry.op = "invalid" /\ UNCHANGED state
  BY <1>6 DEF Get, GetNamespace, Lookup
<1> QED
  BY <1>2, <1>3, <1>4, <1>5, <1>6 DEF WriteEntry, WriteOther

(* A counter goes up by one with every request that counts, once for each. *)
LEMMA CountersStayExact ==
  ASSUME PipeInv, NEW r \in Req, NEW k \in req[r].todo, ApplySetState(r, k),
         NEW s, req' = [req EXCEPT ![r] = s], s.done = req[r].done \cup {k},
         k \notin req[r].done, req[r].pick \in Range(Listed[r]), k \in DOMAIN SetState[req[r].pick]
  PROVE  CountersExact'
<1> DEFINE ns == Prefix[r]
           entry == SetState[req[r].pick][k]
<1>1. WriteEntry(ns, k, entry, req[r].snap) /\ CountersExact
  BY DEF ApplySetState, PipeInv
<1>2. /\ \A m, j : m # ns \/ j # k => Get(m, j)' = Get(m, j)
      /\ entry = [op |-> "increment", n |-> 1] => Get(ns, k)' = Incremented(Get(ns, k), 1)
  BY <1>1, EntryWritten
<1>3. req'[r] = s /\ \A q \in Req : q # r => req'[q] = req[q]
  BY DEF PipeInv
<1>4. \A m, j : m # ns \/ j # k => Writers(m, j)' = Writers(m, j)
  BY <1>3 DEF Writers
<1>5. Writers(ns, k)' = Writers(ns, k) \cup {r} /\ r \notin Writers(ns, k)
  BY <1>3 DEF Writers
<1>6. ASSUME OnlyIncremented(ns, k), ns \in Namespace, k \in Key
      PROVE  Get(ns, k)' = Number(Cardinality(Writers(ns, k)'))
  <2>1. entry = [op |-> "increment", n |-> 1]
    BY <1>6 DEF OnlyIncremented, Range
  <2>2. Get(ns, k)' = Incremented(Get(ns, k), 1)
    BY <1>2, <2>1
  <2>3. IsFiniteSet(Writers(ns, k))
    <3>1. Writers(ns, k) \in SUBSET Req
      BY DEF Writers
    <3> QED
      BY <3>1, PipelineAssumption, FS_Subset
  <2>4. /\ Cardinality(Writers(ns, k)) \in Nat
        /\ Cardinality(Writers(ns, k) \cup {r}) = Cardinality(Writers(ns, k)) + 1
        /\ Writers(ns, k) = {} => Cardinality(Writers(ns, k)) = 0
    BY <1>5, <2>3, FS_CardinalityType, FS_AddElement, FS_EmptySet
  <2>5. Get(ns, k) = IF Writers(ns, k) = {} THEN Absent ELSE Number(Cardinality(Writers(ns, k)))
    BY <1>1, <1>6 DEF CountersExact
  <2>6. Incremented(Get(ns, k), 1) = Number(Cardinality(Writers(ns, k)) + 1)
    BY <2>4, <2>5 DEF Incremented, Number, Absent
  <2> QED
    BY <1>5, <2>2, <2>4, <2>6
<1>7. ASSUME NEW m \in Namespace, NEW j \in Key, OnlyIncremented(m, j)
      PROVE  Get(m, j)' = IF Writers(m, j)' = {} THEN Absent ELSE Number(Cardinality(Writers(m, j)'))
  <2>1. CASE m = ns /\ j = k
    <3>1. Get(ns, k)' = Number(Cardinality(Writers(ns, k)'))
      BY <1>6, <1>7, <2>1
    <3>2. Writers(ns, k)' # {}
      BY <1>5
    <3> QED
      BY <2>1, <3>1, <3>2
  <2>2. CASE m # ns \/ j # k
    <3>1. Get(m, j)' = Get(m, j) /\ Writers(m, j)' = Writers(m, j)
      BY <1>2, <1>4, <2>2
    <3> QED
      BY <1>1, <1>7, <3>1 DEF CountersExact
  <2> QED
    BY <2>1, <2>2
<1> QED
  BY <1>7 DEF CountersExact, OnlyIncremented

(* One entry of x-mock-set-state is written. *)
LEMMA ApplyKeepsInv ==
  ASSUME PipeInv, NEW r \in Req, NEW k \in req[r].todo, ApplySetState(r, k)
  PROVE  PipeInv'
<1> DEFINE s == [req[r] EXCEPT !.todo = req[r].todo \ {k}, !.done = req[r].done \cup {k}]
<1>1. /\ SessionInv(r) /\ PastInv(r) /\ FiredInv(r) /\ req[r].pc = "writing" /\ ~Ended(r)
      /\ UNCHANGED <<once, fired>> /\ once \subseteq Once /\ IsSession(req[r])
  BY SessionFacts DEF ApplySetState, Ended
<1>2. req' = [req EXCEPT ![r] = s]
  BY <1>1 DEF ApplySetState, PipeInv
<1>3. /\ IsSession(s) /\ s.pc = "writing" /\ s.answer = req[r].answer /\ s.snap = req[r].snap
      /\ s.before = req[r].before /\ s.next = req[r].next /\ s.open = req[r].open
      /\ s.pick = req[r].pick /\ s.todo = req[r].todo \ {k} /\ s.done = req[r].done \cup {k}
  BY <1>1 DEF IsSession, Fields
<1> HIDE DEF s
<1>4. req'[r] = s /\ (\A q \in Req : q # r => req'[q] = req[q]) /\ req' = [q \in Req |-> req'[q]]
  BY <1>2 DEF PipeInv
<1>5. SessionInv(r)'
  <2>1. {q \in Req : Ended(q)} \subseteq {q \in Req : Ended(q)}'
    BY <1>1, <1>4 DEF Ended
  <2> QED
    BY <1>1, <1>3, <1>4, <2>1 DEF SessionInv, Stages
<1>6. PastInv(r)'
  <2>1. \A q \in Past(r) : req[q].pick \in Once => req[q].pick \notin s.open \cup {s.pick}
    BY <1>1, <1>3 DEF PastInv
  <2> QED
    BY <1>1, <1>2, <1>3, <2>1, PastGoesOn
<1>7. \A q \in Req : FiredBy(q)' = FiredBy(q)
  BY <1>1 DEF FiredBy
<1>8. FiredInv(r)'
  BY <1>1, <1>3, <1>4, <1>7 DEF FiredInv
<1>9. \A q \in Req : SessionInv(q)' /\ PastInv(q)' /\ FiredInv(q)'
  <2> SUFFICES ASSUME NEW q \in Req, q # r PROVE SessionInv(q)' /\ PastInv(q)' /\ FiredInv(q)'
    BY <1>5, <1>6, <1>8
  <2> QED
    BY <1>1, <1>2, <1>7, OthersKeep
<1>10. \A i \in DOMAIN fired' : LET q == req'[fired'[i].by]
                                IN q.pc \in {"firing", "ended"} /\ q.answer = "example"
  <2> SUFFICES ASSUME NEW i \in DOMAIN fired
               PROVE  /\ req'[fired[i].by].pc \in {"firing", "ended"}
                      /\ req'[fired[i].by].answer = "example"
    BY <1>1
  <2>1. fired \in Seq(Firing) /\ req[fired[i].by].pc \in {"firing", "ended"}
        /\ req[fired[i].by].answer = "example"
    BY DEF PipeInv
  <2>2. fired[i].by \in Req /\ fired[i].by # r
    <3>1. fired[i] \in Firing
      BY <2>1, ElementOfSeq, LenProperties
    <3> QED
      BY <1>1, <2>1, <3>1 DEF Firing
  <2> QED
    BY <1>4, <2>1, <2>2
<1>11. CountersExact'
  <2>1. k \notin req[r].done /\ req[r].pick \in Range(Listed[r]) /\ k \in DOMAIN SetState[req[r].pick]
    BY <1>1 DEF SessionInv
  <2> QED
    BY <1>2, <1>3, <2>1, CountersStayExact
<1>12. once' \subseteq Once /\ fired' \in Seq(Firing)
  BY <1>1 DEF PipeInv
<1> QED
  BY <1>4, <1>9, <1>10, <1>11, <1>12, Zenon DEF PipeInv

(* Before the first request nothing is marked, counted or fired. *)
LEMMA PipeInitInv == PipeInit => PipeInv
<1> SUFFICES ASSUME PipeInit PROVE PipeInv
  OBVIOUS
<1>1. req = [r \in Req |-> Idle] /\ once = {} /\ fired = <<>> /\ state = Empty
  BY DEF PipeInit, Init, NewManager
<1>2. /\ IsSession(Idle) /\ Idle.pc = "idle" /\ Idle.next = 1 /\ Idle.open = {} /\ Idle.pick = None
      /\ Idle.todo = {} /\ Idle.done = {} /\ Idle.before = {} /\ Idle.snap = Empty
  BY DEF IsSession, Idle, Fields
<1>3. ASSUME NEW r \in Req
      PROVE  SessionInv(r) /\ PastInv(r) /\ FiredInv(r)
  <2>1. req[r] = Idle
    BY <1>1
  <2>2. SessionInv(r)
    BY <1>2, <2>1 DEF SessionInv, Stages
  <2>3. Past(r) = {} /\ \A k : Counted(r, k) = {}
    BY <1>2, <2>1 DEF Past, Counted
  <2>4. Lookup(Empty, 0) = Absent /\ \A k : Lookup(Empty, k).n = 0
    BY DEF Lookup, Empty, Absent
  <2>5. PastInv(r)
    <3>1. \A k \in Key : Lookup(req[r].snap, k).n >= Cardinality(Counted(r, k))
      BY <1>2, <2>1, <2>3, <2>4, FS_EmptySet
    <3> QED
      BY <2>3, <3>1 DEF PastInv
  <2>6. FiredBy(r) = <<>>
    BY <1>1, KeepEmpty DEF FiredBy
  <2> QED
    BY <1>2, <2>1, <2>2, <2>5, <2>6 DEF FiredInv
<1>4. CountersExact
  <2>1. \A ns, k : Get(ns, k) = Absent /\ Writers(ns, k) = {}
    BY <1>1, <1>2 DEF Get, Lookup, GetNamespace, Empty, Writers
  <2> QED
    BY <2>1 DEF CountersExact
<1>5. /\ req = [r \in Req |-> req[r]] /\ once \subseteq Once /\ fired \in Seq(Firing)
      /\ DOMAIN fired = {}
  BY <1>1
<1> QED
  BY <1>3, <1>4, <1>5 DEF PipeInv

(* Every step of a request keeps the invariant. *)
LEMMA PipeNextInv == PipeInv /\ [PipeNext]_pipeVars => PipeInv'
<1> SUFFICES ASSUME PipeInv, [PipeNext]_pipeVars PROVE PipeInv'
  OBVIOUS
<1>1. CASE UNCHANGED pipeVars
  <2>1. UNCHANGED <<state, req, once, fired>>
    BY <1>1 DEF pipeVars
  <2>2. ASSUME NEW r \in Req PROVE SessionInv(r)' /\ PastInv(r)' /\ FiredInv(r)'
    <3>1. SessionInv(r)'
      BY <2>1, SessionFacts DEF SessionInv, Ended
    <3>2. PastInv(r)'
      BY <2>1, SessionFacts DEF PastInv, Past, Counted, OnlyIncremented, Lookup
    <3>3. FiredInv(r)'
      BY <2>1, SessionFacts DEF FiredInv, FiredBy, Told
    <3> QED
      BY <3>1, <3>2, <3>3
  <2>3. CountersExact'
    <3>1. \A ns, k : Get(ns, k)' = Get(ns, k) /\ Writers(ns, k)' = Writers(ns, k)
      BY <2>1 DEF Get, GetNamespace, Lookup, Writers
    <3>2. CountersExact
      BY DEF PipeInv
    <3> QED
      BY <3>1, <3>2 DEF CountersExact, OnlyIncremented
  <2> QED
    BY <2>1, <2>2, <2>3 DEF PipeInv
<1>2. CASE PipeNext
  <2>1. PICK r \in Req : Arrive(r) \/ AnswerOtherwise(r) \/ Step(r)
    BY <1>2 DEF PipeNext
  <2> QED
    BY <2>1, ArriveKeepsInv, AnswerOtherwiseKeepsInv, CategorizeKeepsInv, SelectKeepsInv,
       ConsiderKeepsInv, MarkKeepsInv, ApplyKeepsInv, GenerateKeepsInv, FireKeepsInv DEF Step
<1> QED
  BY <1>1, <1>2

(* The inductive invariant of the pipeline, for any number of requests     *)
(* that run at the same time.                                              *)
THEOREM PipelineInvariant == PipeSpec => []PipeInv
BY PipeInitInv, PipeNextInv, PTL DEF PipeSpec

(* ApplySetState: no increment is lost, however the requests of all        *)
(* operations and schemas interleave.                                      *)
THEOREM CountsAreExact == PipeSpec => []CountersExact
<1>1. PipeInv => CountersExact
  BY DEF PipeInv
<1> QED
  BY <1>1, PipelineInvariant, PTL

(* A request that arrives after another was answered counts on from it and *)
(* is not given its one-time example.                                      *)
THEOREM LaterRequestsSee == PipeSpec => []LaterSeesEarlier
<1>1. PipeInv => LaterSeesEarlier
  <2> SUFFICES ASSUME PipeInv, NEW r \in Req
               PROVE  LET past == {q \in req[r].before : req[q].pick # None}
                      IN /\ req[r].pick \notin Once \cap {req[q].pick : q \in past}
                         /\ \A k \in Key : OnlyIncremented(Prefix[r], k) =>
                              Lookup(req[r].snap, k).n >=
                                Cardinality({q \in past : Prefix[q] = Prefix[r]
                                                           /\ k \in DOMAIN SetState[req[q].pick]})
    BY DEF LaterSeesEarlier
  <2>1. PastInv(r)
    BY SessionFacts
  <2> QED
    BY <2>1 DEF PastInv, Past, Counted
<1> QED
  BY <1>1, PipelineInvariant, PTL

(* fireExampleTriggers: a request that was answered with an example fired  *)
(* its triggers, each once and in order, after its state was written.      *)
THEOREM EventsFollow == PipeSpec => []EventsFollowState
<1>1. PipeInv => EventsFollowState
  <2> SUFFICES ASSUME PipeInv PROVE EventsFollowState
    OBVIOUS
  <2>1. ASSUME NEW i \in DOMAIN fired
        PROVE  LET q == req[fired[i].by] IN q.answer = "example" /\ q.done = DOMAIN SetState[q.pick]
    <3> DEFINE b == fired[i].by
    <3>1. fired \in Seq(Firing) /\ req[b].pc \in {"firing", "ended"} /\ req[b].answer = "example"
      BY DEF PipeInv
    <3>2. b \in Req
      <4>1. fired[i] \in Firing
        BY <3>1, ElementOfSeq, LenProperties
      <4> QED
        BY <4>1 DEF Firing
    <3>3. SessionInv(b)
      BY <3>2, SessionFacts
    <3> HIDE DEF b
    <3>4. req[b].done = DOMAIN SetState[req[b].pick]
      BY <3>1, <3>3 DEF SessionInv
    <3> QED
      BY <3>1, <3>4 DEF b
  <2>2. ASSUME NEW r \in Req, Ended(r), req[r].answer = "example", r \notin Async
        PROVE  FiredBy(r) = Told(r, Len(Trigger[req[r].pick]))
    BY <2>2, SessionFacts DEF FiredInv, Ended
  <2> QED
    BY <2>1, <2>2 DEF EventsFollowState
<1> QED
  BY <1>1, PipelineInvariant, PTL

(* ApplySetState writes to the namespace of the operation and to no other. *)
LEMMA NamespacesStay ==
  ASSUME DOMAIN state \subseteq Namespace, [PipeNext]_pipeVars
  PROVE  DOMAIN state' \subseteq Namespace
<1>1. CASE UNCHANGED state
  BY <1>1
<1>2. ASSUME NEW r \in Req, NEW k, ApplySetState(r, k)
      PROVE  DOMAIN state' \subseteq Namespace
  <2> DEFINE ns == Prefix[r]
  <2>1. ns \in Namespace
    BY PipelineAssumption
  <2>2. ASSUME NEW v, Set(ns, k, v)
        PROVE  DOMAIN state' \subseteq Namespace
    BY <2>1, <2>2 DEF Set, Put
  <2>3. ASSUME Delete(ns, k)
        PROVE  DOMAIN state' \subseteq Namespace
    BY <2>1, <2>3 DEF Delete, Put, Drop
  <2> HIDE DEF ns
  <2>4. WriteEntry(ns, k, SetState[req[r].pick][k], req[r].snap)
    BY <1>2 DEF ApplySetState, ns
  <2> QED
    BY <1>1, <2>2, <2>3, <2>4 DEF WriteEntry, WriteOther, Increment
<1>3. CASE PipeNext
  BY <1>1, <1>2, <1>3 DEF PipeNext, Step, Arrive, AnswerOtherwise, Categorize, SelectExample,
                          ConsiderAsync, MarkAsync, Generate, FireTrigger
<1> QED
  BY <1>1, <1>3 DEF pipeVars

(* The record of a request keeps its shape: a skipped example is never     *)
(* open, and an entry is never both written and still to be written.       *)
THEOREM PipelineTypes == PipeSpec => []PipeTypeOK
<1>1. PipeInit => DOMAIN state \subseteq Namespace
  BY DEF PipeInit, Init, NewManager, Empty
<1>2. PipeInv /\ DOMAIN state \subseteq Namespace => PipeTypeOK
  <2> SUFFICES ASSUME PipeInv, DOMAIN state \subseteq Namespace PROVE PipeTypeOK
    OBVIOUS
  <2>1. ASSUME NEW r \in Req
        PROVE  /\ req[r].pc \in Stages /\ req[r].pick \in Example \cup {None}
               /\ req[r].open \subseteq Example \ Skip /\ req[r].done \cap req[r].todo = {}
    BY SessionFacts DEF SessionInv
  <2>2. once \subseteq Once
    BY DEF PipeInv
  <2> QED
    BY <2>1, <2>2 DEF PipeTypeOK, Stages
<1>3. DOMAIN state \subseteq Namespace /\ [PipeNext]_pipeVars => (DOMAIN state \subseteq Namespace)'
  BY NamespacesStay
<1> QED
  BY <1>1, <1>2, <1>3, PipelineInvariant, PTL DEF PipeSpec
=============================================================================
