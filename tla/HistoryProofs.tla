---------------------------- MODULE HistoryProofs ----------------------------
(***************************************************************************)
(* For every capacity, every set of requests and every page size: the      *)
(* indices of the ring buffer stay consistent, the buffer implements the   *)
(* bounded log, and GET /_mock/requests sees exactly the newest requests   *)
(* whose middleware is through.                                            *)
(***************************************************************************)
EXTENDS RequestHistory, FilterProofs, FiniteSetTheorems, TLAPS

(* The inductive invariant: the fields have their types and the three      *)
(* indices of the struct agree.                                            *)
IInv == TypeOK /\ IndexConsistent

(* The code's (i + 1) % size of an index inside the array is Wrap(i + 1). *)
LEMMA ModIsWrap ==
  ASSUME Capacity # 0, NEW i \in 0 .. Capacity - 1
  PROVE  (i + 1) % Capacity = Wrap(i + 1)
<1>1. Capacity \in Nat /\ Capacity > 0
  BY CapacityAssumption
<1>2. CASE i + 1 < Capacity
  BY <1>1, <1>2 DEF Wrap
<1>3. CASE i + 1 = Capacity
  <2>1. Capacity % Capacity = 0
    BY <1>1
  <2> QED  BY <1>1, <1>3, <2>1 DEF Wrap
<1> QED  BY <1>1, <1>2, <1>3

(* The sum of two indices inside the array wraps to an index inside it. *)
LEMMA WrapInSlot ==
  ASSUME NEW a \in 0 .. Capacity - 1, NEW b \in 0 .. Capacity - 1
  PROVE  Wrap(a + b) \in Slot
BY CapacityAssumption DEF Wrap, Slot

(* A fresh buffer satisfies the invariant. *)
LEMMA InitInv == NewRingBuffer => IInv
BY CapacityAssumption DEF NewRingBuffer, IInv, TypeOK, IndexConsistent, Wrap, Slot

(* Add keeps the fields typed and the indices consistent, whether the      *)
(* buffer is off, filling up or full.                                      *)
LEMMA AddInv ==
  ASSUME IInv, NEW r \in Record, Add(r)
  PROVE  IInv'
<1>1. CASE Capacity = 0
  BY <1>1 DEF Add, bufVars, IInv, TypeOK, IndexConsistent, Slot, Wrap
<1>2. CASE Capacity # 0
  <2> USE CapacityAssumption, NoRecordAssumption
  <2>1. /\ head \in 0 .. Capacity - 1
        /\ tail \in 0 .. Capacity - 1
        /\ count \in 0 .. Capacity
        /\ tail = Wrap(head + count)
    BY <1>2 DEF IInv, TypeOK, IndexConsistent
  <2>2. /\ records' = [records EXCEPT ![tail] = r]
        /\ tail' = Wrap(tail + 1)
        /\ IF count < Capacity
           THEN count' = count + 1 /\ head' = head
           ELSE head' = Wrap(head + 1) /\ count' = count
    BY <1>2, <2>1, ModIsWrap DEF Add
  <2>3. TypeOK'
    BY <2>1, <2>2, <1>2 DEF IInv, TypeOK, Slot, Wrap
  <2>4. /\ count' <= Capacity
        /\ head' < Capacity
        /\ tail' < Capacity
        /\ tail' = Wrap(head' + count')
    BY <2>1, <2>2, <1>2 DEF Wrap
  <2>5. ASSUME NEW i \in Nat, i < count'
        PROVE  records'[Wrap(head' + i)] # NoRecord
    <3>1. CASE Wrap(head' + i) = tail
      BY <3>1, <2>1, <2>2 DEF IInv, TypeOK, Slot
    <3>2. CASE Wrap(head' + i) # tail
      <4>1. \E j \in 0 .. count - 1 : Wrap(head + j) = Wrap(head' + i)
        <5>1. CASE count < Capacity
          <6>1. head' = head /\ count' = count + 1
            BY <5>1, <2>2
          <6>2. i # count
            BY <6>1, <3>2, <2>1
          <6>3. i \in 0 .. count - 1
            BY <6>1, <6>2, <2>1, <2>5
          <6> QED
            BY <6>1, <6>3
        <5>2. CASE ~(count < Capacity)
          <6>1. count = Capacity /\ count' = count /\ head' = Wrap(head + 1)
                /\ tail = head
            BY <5>2, <2>1, <2>2, <1>2 DEF Wrap
          <6>2. i + 1 \in 0 .. count - 1
            BY <6>1, <3>2, <2>1, <2>5, <1>2 DEF Wrap
          <6>3. Wrap(head + (i + 1)) = Wrap(head' + i)
            BY <6>1, <6>2, <2>1, <1>2 DEF Wrap
          <6> QED  BY <6>2, <6>3
        <5> QED  BY <5>1, <5>2
      <4>2. Wrap(head' + i) \in Slot
        <5>1. head' \in Nat /\ count' \in Nat
          BY <2>3 DEF TypeOK
        <5>2. head' \in 0 .. Capacity - 1
          BY <5>1, <2>4
        <5>3. i \in 0 .. Capacity - 1
          BY <5>1, <2>4, <2>5
        <5> QED  BY <5>2, <5>3, WrapInSlot
      <4> QED
        BY <4>1, <4>2, <3>2, <2>1, <2>2 DEF IInv, TypeOK, IndexConsistent, Slot
    <3> QED  BY <3>1, <3>2
  <2> QED
    <3>1. \A i \in 0 .. count' - 1 : records'[Wrap(head' + i)] # NoRecord
      <4>1. count' \in Nat
        BY <2>3 DEF TypeOK
      <4> DEFINE n == count'
      <4>2. n \in Nat
        BY <4>1
      <4> HIDE DEF n
      <4>3. \A i \in 0 .. n - 1 : i \in Nat /\ i < n
        BY <4>2
      <4> QED  BY <4>3, <2>5 DEF n
    <3> QED  BY <1>2, <2>3, <2>4, <3>1 DEF IInv, IndexConsistent, Wrap
<1> QED  BY <1>1, <1>2

(* Clear keeps them too: it forgets the records by resetting the indices. *)
LEMMA ClearInv ==
  ASSUME IInv, Clear
  PROVE  IInv'
BY CapacityAssumption DEF Clear, IInv, TypeOK, IndexConsistent, Slot, Wrap

(* Every call of Add or Clear keeps the buffer indices consistent. *)
LEMMA NextInv == IInv /\ [BufNext]_bufVars => IInv'
<1> SUFFICES ASSUME IInv, [BufNext]_bufVars
             PROVE  IInv'
  OBVIOUS
<1>1. CASE Clear
  BY <1>1, ClearInv
<1>2. CASE \E r \in Record : Add(r)
  BY <1>2, AddInv
<1>3. CASE UNCHANGED bufVars
  BY <1>3 DEF bufVars, IInv, TypeOK, IndexConsistent, Slot, Wrap
<1> QED  BY <1>1, <1>2, <1>3 DEF BufNext

(* Whatever sequence of Add and Clear the server performs, the struct's    *)
(* fields have their types and head, tail and count agree, so an index     *)
(* never leaves the array and GetAll never returns an unwritten slot.      *)
THEOREM IndicesConsistent == BufSpec => [](TypeOK /\ IndexConsistent)
<1>1. BufSpec => []IInv
  BY InitInv, NextInv, PTL DEF BufSpec
<1> QED  BY <1>1, PTL DEF IInv

-----------------------------------------------------------------------------
(* The record at position i of GetAll is the one i - 1 slots after head.   *)
(* This is where the two copies of a wrapped buffer are joined.            *)
LEMMA GetAllAsSlots ==
  ASSUME IInv
  PROVE  GetAll = [i \in 1 .. count |-> records[Wrap(head + i - 1)]]
<1> USE CapacityAssumption
<1>1. CASE count = 0
  BY <1>1 DEF GetAll
<1>2. CASE count # 0
  <2>1. /\ Capacity # 0
        /\ count \in 1 .. Capacity
        /\ head \in 0 .. Capacity - 1
        /\ tail \in 0 .. Capacity - 1
        /\ tail = Wrap(head + count)
    BY <1>2 DEF IInv, TypeOK, IndexConsistent
  <2> DEFINE copied == IF head < tail
                       THEN Slice(head, tail)
                       ELSE Slice(head, Capacity) \o Slice(0, tail)
  <2>2. /\ Len(copied) = count
        /\ \A i \in 1 .. count : copied[i] = records[Wrap(head + i - 1)]
    <3>1. CASE head < tail
      BY <3>1, <2>1 DEF Slice, Wrap
    <3>2. CASE ~(head < tail)
      <4> DEFINE a == Slice(head, Capacity)
                 b == Slice(0, tail)
      <4>1. /\ a \in Seq(Record \cup {NoRecord})
            /\ Len(a) = Capacity - head
            /\ \A i \in 1 .. Capacity - head : a[i] = records[head + i - 1]
        BY <2>1 DEF Slice, IInv, TypeOK, Slot
      <4>2. /\ b \in Seq(Record \cup {NoRecord})
            /\ Len(b) = tail
            /\ \A i \in 1 .. tail : b[i] = records[i - 1]
        BY <2>1 DEF Slice, IInv, TypeOK, Slot
      <4>3. Capacity - head + tail = count
        BY <3>2, <2>1 DEF Wrap
      <4>4. copied = a \o b
        BY <3>2
      <4> HIDE DEF a, b, copied
      <4>5. Len(copied) = count
        <5>1. Len(a \o b) = Len(a) + Len(b)
          BY <4>1, <4>2, ConcatProperties
        <5> QED  BY <5>1, <4>1, <4>2, <4>3, <4>4
      <4>6. ASSUME NEW i \in 1 .. count
            PROVE  copied[i] = records[Wrap(head + i - 1)]
        <5>1. CASE i <= Capacity - head
          BY <5>1, <4>1, <4>2, <4>4, <4>6, <2>1 DEF Wrap
        <5>2. CASE ~(i <= Capacity - head)
          BY <5>2, <4>1, <4>2, <4>3, <4>4, <4>6, <2>1 DEF Wrap
        <5> QED  BY <5>1, <5>2
      <4> QED  BY <4>5, <4>6
    <3> QED  BY <3>1, <3>2
  <2>3. GetAll = [i \in 1 .. count |->
                    IF i <= Len(copied) THEN copied[i] ELSE NoRecord]
    BY <1>2 DEF GetAll
  <2> HIDE DEF copied
  <2> QED  BY <2>1, <2>2, <2>3
<1> QED  BY <1>1, <1>2

(* GetAll of a consistent buffer is a sequence of count records. *)
LEMMA GetAllType ==
  ASSUME IInv
  PROVE  /\ GetAll \in Seq(Record)
         /\ Len(GetAll) = count
         /\ \A i \in 1 .. count : GetAll[i] = records[Wrap(head + i - 1)]
<1> DEFINE f == [i \in 1 .. count |-> records[Wrap(head + i - 1)]]
<1>1. ASSUME NEW i \in 1 .. count
      PROVE  records[Wrap(head + i - 1)] \in Record
  <2>1. /\ Wrap(head + i - 1) \in Slot
        /\ i - 1 \in 0 .. count - 1
        /\ head + i - 1 = head + (i - 1)
    BY CapacityAssumption DEF IInv, TypeOK, IndexConsistent, Wrap, Slot
  <2> QED  BY <2>1 DEF IInv, TypeOK, IndexConsistent
<1>2. f \in Seq(Record) /\ Len(f) = count
  BY <1>1 DEF IInv, TypeOK
<1>3. GetAll = f
  BY GetAllAsSlots
<1> QED  BY <1>2, <1>3

(* An Add of the buffer is an Add of the bounded log. *)
LEMMA AddRefines ==
  ASSUME IInv, NEW r \in Record, Add(r)
  PROVE  Log!LAdd(r)
<1> DEFINE s == GetAll
           t == GetAll'
           u == Append(s, r)
<1> USE CapacityAssumption
<1>1. /\ s \in Seq(Record)
      /\ Len(s) = count
      /\ \A i \in 1 .. count : s[i] = records[Wrap(head + i - 1)]
  BY GetAllType
<1>2. IInv'
  BY AddInv
<1>3. /\ t \in Seq(Record)
      /\ Len(t) = count'
      /\ \A i \in 1 .. count' : t[i] = records'[Wrap(head' + i - 1)]
  <2>1. (IInv => /\ GetAll \in Seq(Record)
                 /\ Len(GetAll) = count
                 /\ \A i \in 1 .. count :
                      GetAll[i] = records[Wrap(head + i - 1)])'
    BY GetAllType, PTL
  <2> QED  BY <1>2, <2>1 DEF Wrap
<1> HIDE DEF s, t
<1>4. /\ u \in Seq(Record)
      /\ Len(u) = count + 1
      /\ \A i \in 1 .. count : u[i] = s[i]
      /\ u[count + 1] = r
  BY <1>1, AppendProperties DEF IInv, TypeOK
<1> HIDE DEF u
<1>5. CASE Capacity = 0
  <2>1. count = 0 /\ count' = 0
    BY <1>5, <1>2 DEF IInv, TypeOK, IndexConsistent
  <2>2. Tail(u) \in Seq(Record) /\ Len(Tail(u)) = 0
    BY <2>1, <1>4
  <2>3. t = Tail(u)
    BY <2>1, <2>2, <1>3, EmptySeq
  <2> QED  BY <2>1, <2>3, <1>4, <1>5 DEF Log!LAdd, Log!Newest, s, t, u
<1>6. CASE Capacity # 0
  <2>1. /\ head \in 0 .. Capacity - 1
        /\ tail \in Slot
        /\ count \in 0 .. Capacity
        /\ tail = Wrap(head + count)
    BY <1>6 DEF IInv, TypeOK, IndexConsistent, Slot
  <2>2. /\ records' = [records EXCEPT ![tail] = r]
        /\ IF count < Capacity
           THEN count' = count + 1 /\ head' = head
           ELSE head' = Wrap(head + 1) /\ count' = count
    BY <1>6, <2>1, ModIsWrap DEF Add, Slot
  <2>3. \A j \in Slot : records'[j] = IF j = tail THEN r ELSE records[j]
    BY <2>1, <2>2 DEF IInv, TypeOK
  <2>4. CASE count < Capacity
    <3>1. ASSUME NEW i \in 1 .. count + 1
          PROVE  t[i] = u[i]
      <4>1. CASE i = count + 1
        <5>1. Wrap(head' + i - 1) = tail
          BY <4>1, <2>1, <2>2, <2>4
        <5> QED  BY <5>1, <4>1, <1>3, <1>4, <2>1, <2>2, <2>3, <2>4
      <4>2. CASE i <= count
        <5>1. /\ Wrap(head + i - 1) \in Slot
              /\ Wrap(head + i - 1) # tail
          BY <4>2, <2>1, <2>4 DEF Wrap, Slot
        <5>2. t[i] = records[Wrap(head + i - 1)]
          BY <5>1, <4>2, <1>3, <2>1, <2>2, <2>3, <2>4, <3>1
        <5>3. u[i] = s[i] /\ s[i] = records[Wrap(head + i - 1)]
          BY <4>2, <1>1, <1>4, <2>1, <3>1
        <5> QED  BY <5>2, <5>3
      <4> QED  BY <4>1, <4>2, <2>1
    <3>2. Len(t) = count + 1 /\ Len(u) = count + 1
      BY <1>3, <1>4, <2>2, <2>4
    <3>3. t = u
      BY <3>1, <3>2, <1>3, <1>4, <2>1
    <3> QED
      BY <3>2, <3>3, <2>1, <2>4 DEF Log!LAdd, Log!Newest, s, t, u
  <2>5. CASE ~(count < Capacity)
    <3> DEFINE v == Tail(u)
    <3>0. count = Capacity /\ count' = count /\ head' = Wrap(head + 1)
          /\ tail = head
      BY <2>1, <2>2, <2>5, <1>6 DEF Wrap
    <3>1. /\ v \in Seq(Record)
          /\ Len(v) = count
          /\ \A i \in 1 .. count : v[i] = u[i + 1]
      BY <1>4, <1>6, <2>1
    <3> HIDE DEF v
    <3>2. ASSUME NEW i \in 1 .. count
          PROVE  t[i] = v[i]
      <4>1. CASE i = count
        <5>1. Wrap(head' + i - 1) = tail
          BY <4>1, <3>0, <2>1, <1>6 DEF Wrap
        <5> QED  BY <5>1, <4>1, <3>0, <3>1, <1>3, <1>4, <2>1, <2>3
      <4>2. CASE i < count
        <5>1. /\ Wrap(head' + i - 1) \in Slot
              /\ Wrap(head' + i - 1) # tail
              /\ Wrap(head' + i - 1) = Wrap(head + (i + 1) - 1)
              /\ i + 1 \in 1 .. count
          BY <4>2, <3>0, <2>1, <1>6 DEF Wrap, Slot
        <5>2. t[i] = records[Wrap(head + (i + 1) - 1)]
          BY <5>1, <3>0, <1>3, <2>3
        <5>3. v[i] = s[i + 1]
          BY <5>1, <3>1, <1>4
        <5> QED  BY <5>1, <5>2, <5>3, <1>1
      <4> QED  BY <4>1, <4>2, <2>1
    <3>3. t = v
      BY <3>0, <3>1, <3>2, <1>3, <2>1
    <3> QED
      BY <3>0, <3>3, <1>4, <2>1, <1>6 DEF Log!LAdd, Log!Newest, s, t, u, v
  <2> QED  BY <2>4, <2>5
<1> QED  BY <1>5, <1>6

(* For every capacity, the array with its two indices, read with GetAll,   *)
(* implements the bounded log: GetAll returns the newest Capacity records  *)
(* since the last Clear, in the order Add received them.                   *)
THEOREM RingBufferRefinesLog == BufSpec => ImplementsBoundedLog
<1>1. NewRingBuffer => Log!LInit
  BY DEF NewRingBuffer, Log!LInit, GetAll
<1>2. IInv /\ [BufNext]_bufVars => [Log!LNext]_GetAll
  <2> SUFFICES ASSUME IInv, [BufNext]_bufVars
               PROVE  [Log!LNext]_GetAll
    OBVIOUS
  <2>1. CASE Clear
    BY <2>1 DEF Clear, GetAll, Log!LNext, Log!LClear
  <2>2. CASE \E r \in Record : Add(r)
    BY <2>2, AddRefines DEF Log!LNext
  <2>3. CASE UNCHANGED bufVars
    BY <2>3 DEF bufVars, GetAll, Slice
  <2> QED  BY <2>1, <2>2, <2>3 DEF BufNext
<1>3. BufSpec => []IInv
  BY InitInv, NextInv, PTL DEF BufSpec
<1> QED
  BY <1>1, <1>2, <1>3, PTL DEF BufSpec, ImplementsBoundedLog, Log!LSpec

-----------------------------------------------------------------------------
Numbered == {q \in Req : pc[q] \in {"identified", "done"}}

(* Ids are given out one after the other, so no two requests share one and *)
(* there are never more of them than requests.                             *)
IdInv ==
  /\ nextRequestID = Cardinality(Numbered)
  /\ \A q \in Numbered : rid[q] \in 1 .. nextRequestID
  /\ \A p, q \in Numbered : rid[p] = rid[q] => p = q

(* The places of the Adds since the last Clear are 1, 2, 3, ... *)
PlaceInv ==
  /\ \A q \in Recorded : pc[q] = "done" /\ recordedAt[q] <= Cardinality(Recorded)
  /\ \A p, q \in Recorded : recordedAt[p] = recordedAt[q] => p = q

(* The i-th record that the buffer returns belongs to the i-th of the Adds *)
(* that it still holds: S are the requests that were recorded, at their    *)
(* places and rec their records.                                           *)
HoldsOf(all, S, at, rec) ==
  LET n == Cardinality(S)
  IN /\ all \in Seq(Record)
     /\ Len(all) = IF n < Capacity THEN n ELSE Capacity
     /\ \A i \in 1 .. Len(all) :
          /\ all[i].req \in S
          /\ all[i] = rec[all[i].req]
          /\ at[all[i].req] = n - Len(all) + i

AllRecords == [q \in Req |-> RequestRecord(q)]

Holds == HoldsOf(GetAll, Recorded, recordedAt, AllRecords)

HistoryInv == HistoryTypeOK /\ IndexConsistent /\ IdInv /\ PlaceInv /\ Holds

(* The numbers of requests that are numbered or recorded. *)
LEMMA CountsBounded ==
  ASSUME HistoryTypeOK
  PROVE  /\ IsFiniteSet(Numbered) /\ IsFiniteSet(Recorded)
         /\ Cardinality(Numbered) \in 0 .. Cardinality(Req)
         /\ Cardinality(Recorded) \in 0 .. Cardinality(Req)
         /\ Cardinality(Req) \in Nat
<1>1. Numbered \in SUBSET Req /\ Recorded \in SUBSET Req /\ IsFiniteSet(Req)
  BY ReqAssumption DEF Numbered, Recorded
<1>2. IsFiniteSet(Numbered) /\ IsFiniteSet(Recorded)
  BY <1>1, FS_Subset
<1>3. Cardinality(Numbered) <= Cardinality(Req) /\ Cardinality(Recorded) <= Cardinality(Req)
  BY <1>1, FS_Subset
<1>4. Cardinality(Numbered) \in Nat /\ Cardinality(Recorded) \in Nat /\ Cardinality(Req) \in Nat
  BY <1>1, <1>2, FS_CardinalityType
<1> QED
  BY <1>2, <1>3, <1>4

(* The record of a numbered request is one that the buffer can hold. *)
LEMMA RecordTyped ==
  ASSUME HistoryTypeOK, IdInv, NEW q \in Numbered
  PROVE  RequestRecord(q) \in Records /\ RequestRecord(q) \in Record
<1>1. rid[q] \in 1 .. nextRequestID /\ nextRequestID \in 0 .. Cardinality(Req) /\ q \in Req
  BY DEF IdInv, HistoryTypeOK, Numbered
<1>2. rid[q] \in 1 .. Cardinality(Req)
  BY <1>1, CountsBounded
<1>3. start[q] \in 0 .. MaxTime
  BY <1>1 DEF HistoryTypeOK
<1> HIDE DEF Recorded
<1>4. RequestRecord(q) \in Records
  BY <1>1, <1>2, <1>3 DEF RequestRecord, Records
<1> QED
  BY <1>4, RecordAssumption

(* The part of the invariant that is about the buffer alone. *)
LEMMA HistoryBuffer ==
  ASSUME HistoryInv
  PROVE  IInv /\ TypeOK
BY DEF HistoryInv, HistoryTypeOK, IInv

(* A step that leaves the buffer, the ids and the places alone. *)
LEMMA QuietStep ==
  ASSUME HistoryInv, HistoryTypeOK', UNCHANGED <<bufVars, rid, nextRequestID, recordedAt>>,
         Numbered' = Numbered,
         \A q \in Recorded : pc'[q] = pc[q] /\ start'[q] = start[q]
  PROVE  HistoryInv'
<1>1. GetAll' = GetAll /\ Recorded' = Recorded
  BY DEF bufVars, GetAll, Slice, Recorded
<1>2. IndexConsistent'
  BY DEF HistoryInv, IndexConsistent, bufVars, Wrap
<1>3. IdInv' /\ PlaceInv'
  BY <1>1 DEF HistoryInv, IdInv, PlaceInv
<1>4. Holds'
  <2>1. HoldsOf(GetAll, Recorded, recordedAt, AllRecords) /\ Recorded \subseteq Req
    BY DEF HistoryInv, Holds, Recorded
  <2>2. \A q \in Recorded : AllRecords'[q] = AllRecords[q]
    BY <2>1 DEF AllRecords, RequestRecord
  <2> DEFINE new == AllRecords'
             old == AllRecords
  <2>3. HoldsOf(GetAll, Recorded, recordedAt, new)
    <3>1. HoldsOf(GetAll, Recorded, recordedAt, old) /\ \A q \in Recorded : new[q] = old[q]
      BY <2>1, <2>2
    <3> HIDE DEF new, old
    <3> QED
      BY <3>1 DEF HoldsOf
  <2> QED
    BY <1>1, <2>3 DEF Holds, HoldsOf
<1> QED
  BY <1>2, <1>3, <1>4 DEF HistoryInv

(* Every record of the history has an id the counter gave out and a time   *)
(* the clock showed.                                                       *)
LEMMA HistoryRecords ==
  ASSUME HistoryInv
  PROVE  GetAll \in Seq(Records)
<1> DEFINE all == GetAll
<1>1. all \in Seq(Record) /\ \A i \in 1 .. Len(all) : all[i] \in Records
  <2>1. HistoryTypeOK /\ IdInv /\ Recorded \subseteq Numbered
    BY DEF HistoryInv, PlaceInv, Numbered, Recorded
  <2> HIDE DEF Recorded
  <2> QED
    BY <2>1, RecordTyped DEF HistoryInv, Holds, HoldsOf, AllRecords, Numbered
<1> HIDE DEF all
<1>2. Len(all) \in Nat /\ DOMAIN all = 1 .. Len(all) /\ all = [i \in 1 .. Len(all) |-> all[i]]
  BY <1>1, LenProperties
<1> QED
  BY <1>1, <1>2 DEF all

(* A page of the history consists of its records. *)
LEMMA PageTyped ==
  ASSUME HistoryInv, NEW query \in Query
  PROVE  RequestsPage(GetAll, query) \in Seq(Records)
<1> DEFINE all == GetAll
           found == filterRecords(all, query)
<1>1. all \in Seq(Records)
  BY HistoryRecords
<1> HIDE DEF all
<1>2. found \in Seq(Records) /\ Len(found) \in Nat
  <2>1. Keep(all, {rec \in Range(all) : recordMatchesFilter(rec, query)}) \in
          Seq(Records \cap {rec \in Range(all) : recordMatchesFilter(rec, query)})
    BY <1>1, KeepRange
  <2>2. found \in Seq(Records)
    BY <2>1, SeqMonotonic DEF filterRecords
  <2> QED
    BY <2>2, LenProperties
<1> HIDE DEF found
<1>3. ASSUME NEW o \in Nat, NEW l \in Nat PROVE paginateRecords(found, o, l) \in Seq(Records)
  <2> DEFINE lo == IF o < 0 THEN 0 ELSE IF o > Len(found) THEN Len(found) ELSE o
             end == lo + (IF l < 0 THEN 0 ELSE l)
             hi == IF end > Len(found) THEN Len(found) ELSE end
  <2>1. paginateRecords(found, o, l) = SubSeq(found, lo + 1, hi)
    BY DEF paginateRecords
  <2>2. lo + 1 \in 1 .. Len(found) + 1 /\ hi \in 0 .. Len(found)
    <3>1. lo \in 0 .. Len(found)
      BY <1>2
    <3> HIDE DEF lo
    <3>2. end \in Nat
      BY <1>2, <3>1
    <3> HIDE DEF end
    <3>3. hi \in 0 .. Len(found)
      BY <1>2, <3>2
    <3> QED
      BY <1>2, <3>1, <3>3
  <2> HIDE DEF lo, hi
  <2> QED
    BY <1>2, <2>1, <2>2, SubSeqProperties
<1>4. /\ (IF query.offset < 0 THEN 0 ELSE query.offset) \in Nat
      /\ (IF query.limit <= 0 \/ query.limit > MaxPage THEN MaxPage ELSE query.limit) \in Nat
  BY ReqAssumption DEF Query
<1> QED
  BY <1>3, <1>4 DEF RequestsPage, found, all

(* Arrivals, handlers and the clock are such steps. *)
LEMMA ServingKeepsHistory ==
  ASSUME HistoryInv,
         \/ Tick
         \/ \E q \in Req : Arrive(q) \/ ServeOther(q)
         \/ \E q \in Listers, query \in Query : handleGetRequests(q, query)
  PROVE  HistoryInv'
<1> HistoryTypeOK /\ PlaceInv
  BY DEF HistoryInv
<1> USE ReqAssumption
<1>1. UNCHANGED <<bufVars, rid, nextRequestID, recordedAt>>
  BY DEF Tick, Arrive, ServeOther, handleGetRequests
<1>2. Recorded' = Recorded /\ TypeOK'
  BY <1>1 DEF Recorded, HistoryTypeOK, TypeOK, bufVars
<1>3. CASE Tick
  <2>1. HistoryTypeOK'
    BY <1>2, <1>3 DEF HistoryTypeOK, Tick
  <2> QED
    BY <1>1, <1>3, <2>1, QuietStep DEF Tick, Numbered
<1>4. ASSUME NEW q \in Req, Arrive(q) PROVE HistoryInv'
  <2>1. HistoryTypeOK'
    BY <1>2, <1>4 DEF HistoryTypeOK, Arrive
  <2>2. Numbered' = Numbered
    BY <1>4 DEF Arrive, Numbered, HistoryTypeOK
  <2>3. \A r \in Recorded : pc'[r] = pc[r] /\ start'[r] = start[r]
    BY <1>4 DEF Arrive, HistoryTypeOK, PlaceInv, Recorded
  <2> QED
    BY <1>1, <2>1, <2>2, <2>3, QuietStep
<1>5. ASSUME NEW q \in Req, ServeOther(q) PROVE HistoryInv'
  <2>1. HistoryTypeOK'
    BY <1>2, <1>5 DEF HistoryTypeOK, ServeOther
  <2>2. Numbered' = Numbered
    BY <1>5 DEF ServeOther, Numbered, HistoryTypeOK
  <2>3. \A r \in Recorded : pc'[r] = pc[r] /\ start'[r] = start[r]
    BY <1>5 DEF ServeOther, HistoryTypeOK, PlaceInv, Recorded
  <2> QED
    BY <1>1, <2>1, <2>2, <2>3, QuietStep
<1>6. ASSUME NEW q \in Listers, NEW query \in Query, handleGetRequests(q, query) PROVE HistoryInv'
  <2> DEFINE page == RequestsPage(GetAll, query)
  <2>1. page \in Seq(Records) /\ q \in Req
    BY PageTyped
  <2>2. /\ pc[q] = "serving" /\ pc' = [pc EXCEPT ![q] = "served"]
        /\ answer' = [answer EXCEPT ![q] = page] /\ UNCHANGED <<start, clock>>
    BY <1>6 DEF handleGetRequests
  <2> HIDE DEF page
  <2>3. HistoryTypeOK'
    BY <1>1, <1>2, <2>1, <2>2 DEF HistoryTypeOK
  <2>4. Numbered' = Numbered
    BY <2>1, <2>2 DEF Numbered, HistoryTypeOK
  <2>5. \A r \in Recorded : pc'[r] = pc[r] /\ start'[r] = start[r]
    BY <2>2 DEF HistoryTypeOK, PlaceInv, Recorded
  <2> QED
    BY <1>1, <2>3, <2>4, <2>5, QuietStep
<1> QED
  BY <1>3, <1>4, <1>5, <1>6

(* The atomic counter gives a request an id that no other has. *)
LEMMA TakeIDKeepsHistory ==
  ASSUME HistoryInv, NEW q \in Req, TakeID(q)
  PROVE  HistoryInv'
<1> HistoryTypeOK /\ IdInv /\ PlaceInv /\ Holds /\ IndexConsistent
  BY DEF HistoryInv
<1>1. /\ pc[q] = "served" /\ pc' = [pc EXCEPT ![q] = "identified"]
      /\ nextRequestID' = nextRequestID + 1 /\ rid' = [rid EXCEPT ![q] = nextRequestID + 1]
      /\ UNCHANGED <<bufVars, start, clock, answer, recordedAt>>
  BY DEF TakeID
<1>2. q \notin Numbered /\ Numbered' = Numbered \cup {q} /\ q \notin Recorded /\ Recorded' = Recorded
  BY <1>1 DEF Numbered, HistoryTypeOK, PlaceInv, Recorded
<1>3. /\ Numbered' \in SUBSET Req /\ IsFiniteSet(Req) /\ IsFiniteSet(Numbered)
      /\ Cardinality(Req) \in Nat /\ Cardinality(Numbered) \in Nat
  BY CountsBounded, ReqAssumption DEF Numbered
<1>4. Cardinality(Numbered') = Cardinality(Numbered) + 1
  BY <1>2, <1>3, FS_AddElement
<1>5. Cardinality(Numbered') <= Cardinality(Req)
  BY <1>3, FS_Subset
<1>6. nextRequestID = Cardinality(Numbered) /\ nextRequestID + 1 \in 0 .. Cardinality(Req)
  BY <1>3, <1>4, <1>5 DEF IdInv
<1>7. HistoryTypeOK'
  <2>1. TypeOK'
    BY <1>1 DEF HistoryTypeOK, TypeOK, bufVars
  <2> QED
    BY <1>1, <1>6, <2>1 DEF HistoryTypeOK
<1>8. IdInv'
  <2>1. nextRequestID' = Cardinality(Numbered')
    BY <1>1, <1>4, <1>6
  <2>2. \A r \in Numbered : rid'[r] = rid[r] /\ rid[r] \in 1 .. nextRequestID
    BY <1>1, <1>2 DEF HistoryTypeOK, IdInv, Numbered
  <2>3. rid'[q] = nextRequestID + 1
    BY <1>1 DEF HistoryTypeOK
  <2> QED
    BY <1>1, <1>2, <1>3, <1>6, <2>1, <2>2, <2>3 DEF IdInv
<1>9. PlaceInv'
  BY <1>1, <1>2 DEF PlaceInv, HistoryTypeOK, Recorded
<1>10. GetAll' = GetAll /\ IndexConsistent'
  BY <1>1 DEF bufVars, GetAll, Slice, IndexConsistent, Wrap
<1>11. Holds'
  <2> DEFINE new == AllRecords'
             old == AllRecords
  <2>1. HoldsOf(GetAll, Recorded, recordedAt, old) /\ Recorded \subseteq Req
    BY DEF Holds, Recorded
  <2>2. \A r \in Recorded : new[r] = old[r]
    BY <1>1, <1>2, <2>1 DEF AllRecords, RequestRecord, HistoryTypeOK
  <2>3. HoldsOf(GetAll, Recorded, recordedAt, new)
    <3> HIDE DEF new, old
    <3> QED
      BY <2>1, <2>2 DEF HoldsOf
  <2> QED
    BY <1>1, <1>2, <1>10, <2>3 DEF Holds, HoldsOf
<1> QED
  BY <1>7, <1>8, <1>9, <1>10, <1>11 DEF HistoryInv

(* A finished request takes the next place, and its record the last one of *)
(* the buffer; a full buffer lets go of its oldest.                        *)
LEMMA RecordKeepsHolds ==
  ASSUME NEW all, NEW S, NEW at, NEW rec, HoldsOf(all, S, at, rec), IsFiniteSet(S),
         NEW q, q \notin S, rec[q] \in Record, rec[q].req = q,
         NEW new, new = LET u == Append(all, rec[q])
                        IN IF Len(u) <= Capacity THEN u ELSE Tail(u),
         NEW at2, at2[q] = 1 + Cardinality(S), \A p \in S : at2[p] = at[p]
  PROVE  HoldsOf(new, S \cup {q}, at2, rec)
<1> USE CapacityAssumption
<1> DEFINE r == rec[q]
           u == Append(all, r)
           n == Cardinality(S)
           c == Len(all)
           Good(x, i) == x.req \in S \cup {q} /\ x = rec[x.req] /\ at2[x.req] = n - c + i
<1>1. n \in Nat /\ Cardinality(S \cup {q}) = n + 1
  BY FS_AddElement, FS_CardinalityType
<1>2. /\ all \in Seq(Record) /\ c \in Nat /\ c = IF n < Capacity THEN n ELSE Capacity
      /\ \A i \in 1 .. c : Good(all[i], i)
  BY LenProperties DEF HoldsOf
<1>3. u \in Seq(Record) /\ Len(u) = c + 1 /\ u[c + 1] = r /\ \A i \in 1 .. c : u[i] = all[i]
  BY <1>2, AppendProperties
<1>4. Good(r, c + 1)
  <2>1. n - c + (c + 1) = 1 + n
    BY <1>1, <1>2
  <2> QED
    BY <2>1
<1>5. new = IF Len(u) <= Capacity THEN u ELSE Tail(u)
  OBVIOUS
<1> HIDE DEF r, u
<1>6. \A i \in 1 .. c + 1 : Good(u[i], i)
  <2> HIDE DEF Good, c
  <2>1. \A i \in 1 .. c + 1 : i = c + 1 \/ i \in 1 .. c
    BY <1>2
  <2> QED
    BY <1>2, <1>3, <1>4, <2>1
<1> HIDE DEF n, c
<1> DEFINE m == Len(new)
<1>7. ASSUME m \in Nat, m = IF n + 1 < Capacity THEN n + 1 ELSE Capacity,
             new \in Seq(Record), \A i \in 1 .. m : Good(new[i], i + c + 1 - m)
      PROVE  HoldsOf(new, S \cup {q}, at2, rec)
  <2> HIDE DEF m
  <2>1. \A i \in 1 .. m : n - c + (i + c + 1 - m) = n + 1 - m + i
    BY <1>1, <1>2, <1>7
  <2>2. \A i \in 1 .. m : new[i].req \in S \cup {q} /\ new[i] = rec[new[i].req]
                          /\ at2[new[i].req] = n + 1 - m + i
    BY <1>7, <2>1
  <2>3. new \in Seq(Record) /\ Cardinality(S \cup {q}) = n + 1 /\ m = IF n + 1 < Capacity THEN n + 1 ELSE Capacity
    BY <1>1, <1>7
  <2> HIDE DEF Good
  <2>4. m = (IF Cardinality(S \cup {q}) < Capacity THEN Cardinality(S \cup {q}) ELSE Capacity)
    BY <2>3
  <2>5. \A i \in 1 .. m : /\ new[i].req \in S \cup {q} /\ new[i] = rec[new[i].req]
                          /\ at2[new[i].req] = Cardinality(S \cup {q}) - m + i
    <3>1. Cardinality(S \cup {q}) = n + 1
      BY <2>3
    <3>2. ASSUME NEW i \in 1 .. m
          PROVE  at2[new[i].req] = Cardinality(S \cup {q}) - m + i
      <4> DEFINE k == Cardinality(S \cup {q})
      <4>1. k = n + 1 /\ n \in Nat /\ m \in Nat /\ i \in Nat
        BY <1>1, <1>7, <3>1
      <4> HIDE DEF k
      <4>2. k - m + i = n + 1 - m + i
        BY <4>1
      <4>3. at2[new[i].req] = n + 1 - m + i
        BY <2>2, Zenon
      <4>4. at2[new[i].req] = k - m + i
        BY <4>2, <4>3, Zenon
      <4> QED
        BY <4>4 DEF k
    <3> QED
      BY <2>2, <3>2, Zenon
  <2> QED
    BY <2>3, <2>4, <2>5, Zenon DEF HoldsOf, m
<1> HIDE DEF Good
<1>8. CASE Len(u) <= Capacity
  <2>1. new = u
    BY <1>5, <1>8
  <2>2. c + 1 \in Nat /\ c + 1 = IF n + 1 < Capacity THEN n + 1 ELSE Capacity
    BY <1>1, <1>2, <1>3, <1>8
  <2>3. \A i \in 1 .. c + 1 : i + c + 1 - (c + 1) = i
    BY <1>2
  <2>4. \A i \in 1 .. c + 1 : Good(new[i], i + c + 1 - (c + 1))
    BY <1>6, <2>1, <2>3
  <2>5. c + 1 = Len(new) /\ new \in Seq(Record)
    BY <1>3, <2>1
  <2> QED
    BY <1>7, <2>2, <2>4, <2>5, Zenon
<1>9. CASE ~(Len(u) <= Capacity)
  <2>1. new = Tail(u)
    BY <1>5, <1>9
  <2>2. c \in Nat /\ c = IF n + 1 < Capacity THEN n + 1 ELSE Capacity
    BY <1>1, <1>2, <1>3, <1>9
  <2>3. u # <<>>
    BY <1>2, <1>3
  <2>4. new \in Seq(Record) /\ Len(new) = c /\ \A i \in 1 .. c : new[i] = u[i + 1]
    <3>1. new \in Seq(Record) /\ Len(new) = Len(u) - 1 /\ \A i \in 1 .. Len(new) : new[i] = u[i + 1]
      <4>1. Tail(u) \in Seq(Record) /\ Len(Tail(u)) = Len(u) - 1
            /\ \A i \in 1 .. Len(Tail(u)) : Tail(u)[i] = u[i + 1]
        BY <1>3, <2>3, HeadTailProperties
      <4> QED
        BY <2>1, <4>1, Zenon
    <3>2. Len(u) - 1 = c
      BY <1>2, <1>3
    <3> QED
      BY <3>1, <3>2
  <2>5. \A i \in 1 .. c : i + 1 \in 1 .. c + 1 /\ i + c + 1 - c = i + 1
    BY <1>2
  <2>6. \A i \in 1 .. c : Good(new[i], i + c + 1 - c)
    BY <1>6, <2>4, <2>5
  <2> QED
    BY <1>7, <2>2, <2>4, <2>6
<1> QED
  BY <1>8, <1>9

(* historyStore.Add keeps the invariant. *)
LEMMA RecordKeepsHistory ==
  ASSUME HistoryInv, NEW q \in Req, RecordRequest(q)
  PROVE  HistoryInv'
<1> HistoryTypeOK /\ IdInv /\ PlaceInv /\ Holds /\ IInv
  BY HistoryBuffer DEF HistoryInv
<1>1. /\ pc[q] = "identified" /\ pc' = [pc EXCEPT ![q] = "done"] /\ Add(RequestRecord(q))
      /\ recordedAt' = [recordedAt EXCEPT ![q] = 1 + Cardinality(Recorded)]
      /\ UNCHANGED <<start, rid, nextRequestID, clock, answer>>
  BY DEF RecordRequest
<1>2. q \in Numbered /\ Numbered' = Numbered /\ q \notin Recorded
  BY <1>1 DEF Numbered, HistoryTypeOK, PlaceInv
<1>3. RequestRecord(q) \in Record
  BY <1>2, RecordTyped
<1>4. IInv' /\ Log!LAdd(RequestRecord(q))
  BY <1>1, <1>3, AddInv, AddRefines
<1>5. IsFiniteSet(Recorded) /\ Cardinality(Recorded) \in Nat
  BY CountsBounded
<1>6. /\ recordedAt'[q] = 1 + Cardinality(Recorded)
      /\ \A p \in Req \ {q} : recordedAt'[p] = recordedAt[p]
  BY <1>1 DEF HistoryTypeOK
<1>7. Recorded' = Recorded \cup {q} /\ Cardinality(Recorded') = Cardinality(Recorded) + 1
  <2>1. recordedAt'[q] > 0
    BY <1>5, <1>6
  <2>2. Recorded' = Recorded \cup {q}
    BY <1>6, <2>1 DEF Recorded
  <2> QED
    BY <1>2, <1>5, <2>2, FS_AddElement
<1>8. Holds'
  <2> DEFINE all == GetAll
             new == GetAll'
             rec == AllRecords
             at2 == recordedAt'
             n == Cardinality(Recorded)
  <2>1. rec' = rec
    BY <1>1 DEF AllRecords, RequestRecord
  <2>2. rec[q] = RequestRecord(q) /\ rec[q].req = q
    BY DEF AllRecords, RequestRecord
  <2>3. new = LET u == Append(all, rec[q]) IN IF Len(u) <= Capacity THEN u ELSE Tail(u)
    BY <1>4, <2>2 DEF Log!LAdd, Log!Newest
  <2>4. HoldsOf(all, Recorded, recordedAt, rec)
    BY DEF Holds
  <2>5. at2[q] = 1 + n /\ \A p \in Recorded : at2[p] = recordedAt[p]
    BY <1>2, <1>6 DEF Recorded
  <2>6. HoldsOf(new, Recorded \cup {q}, at2, rec)
    <3> HIDE DEF all, new, rec, at2
    <3> QED
      BY <1>2, <1>3, <1>5, <2>2, <2>3, <2>4, <2>5, RecordKeepsHolds
  <2> QED
    BY <1>7, <2>1, <2>6 DEF Holds, HoldsOf
<1>9. /\ Cardinality(Recorded) \in Nat /\ Cardinality(Req) \in Nat
      /\ Cardinality(Recorded) + 1 \in 0 .. Cardinality(Req)
  <2>1. Recorded' \in SUBSET Req /\ IsFiniteSet(Req)
    BY <1>7, ReqAssumption DEF Recorded
  <2>2. Cardinality(Recorded') <= Cardinality(Req)
    BY <2>1, FS_Subset
  <2> QED
    BY <1>7, <2>2, CountsBounded
<1>10. HistoryTypeOK'
  BY <1>1, <1>4, <1>9 DEF HistoryTypeOK, IInv
<1>11. IdInv'
  BY <1>1, <1>2 DEF IdInv
<1>12. PlaceInv'
  <2>1. \A p \in Recorded : /\ p # q /\ pc'[p] = "done" /\ recordedAt'[p] = recordedAt[p]
                            /\ recordedAt[p] <= Cardinality(Recorded) /\ recordedAt[p] \in Nat
    <3>1. Recorded \subseteq Req
      BY DEF Recorded
    <3> QED
      BY <1>1, <1>2, <3>1, CountsBounded DEF HistoryTypeOK, PlaceInv
  <2>2. pc'[q] = "done" /\ recordedAt'[q] = 1 + Cardinality(Recorded)
    BY <1>1 DEF HistoryTypeOK
  <2>3. \A p \in Recorded : recordedAt'[p] # recordedAt'[q]
    BY <1>9, <2>1, <2>2
  <2>4. \A p, r \in Recorded : recordedAt[p] = recordedAt[r] => p = r
    BY DEF PlaceInv
  <2>5. ASSUME NEW p \in Recorded' PROVE pc'[p] = "done" /\ recordedAt'[p] <= Cardinality(Recorded')
    BY <1>7, <1>9, <2>1, <2>2
  <2>6. ASSUME NEW p \in Recorded', NEW r \in Recorded', recordedAt'[p] = recordedAt'[r] PROVE p = r
    BY <1>7, <2>1, <2>3, <2>4, <2>6
  <2> QED
    BY <2>5, <2>6 DEF PlaceInv
<1> QED
  BY <1>4, <1>8, <1>10, <1>11, <1>12 DEF HistoryInv, IInv

(* Clear forgets all places. *)
LEMMA ClearKeepsHistory ==
  ASSUME HistoryInv, ClearHistory
  PROVE  HistoryInv'
<1> HistoryTypeOK /\ IdInv /\ PlaceInv /\ IInv
  BY HistoryBuffer DEF HistoryInv
<1>1. /\ Clear /\ recordedAt' = [q \in Req |-> 0]
      /\ UNCHANGED <<pc, start, rid, nextRequestID, clock, answer>>
  BY DEF ClearHistory
<1>2. IInv' /\ GetAll' = <<>>
  BY <1>1, ClearInv DEF Clear, GetAll
<1>3. Recorded' = {} /\ Cardinality(Recorded') = 0 /\ Numbered' = Numbered
  BY <1>1, FS_EmptySet DEF Recorded, Numbered
<1>4. HistoryTypeOK'
  <2>1. 0 \in 0 .. Cardinality(Req)
    BY CountsBounded
  <2> QED
    BY <1>1, <1>2, <2>1 DEF HistoryTypeOK, IInv
<1>5. IdInv' /\ PlaceInv'
  BY <1>1, <1>3 DEF IdInv, PlaceInv
<1>6. Holds'
  <2>1. Len(<<>>) = 0 /\ <<>> \in Seq(Record) /\ 1 .. 0 = {}
    BY EmptySeq
  <2>2. 0 = IF 0 < Capacity THEN 0 ELSE Capacity
    BY CapacityAssumption
  <2> QED
    BY <1>2, <1>3, <2>1, <2>2 DEF Holds, HoldsOf
<1> QED
  BY <1>2, <1>4, <1>5, <1>6 DEF HistoryInv, IInv

(* Before the first request nothing is numbered or recorded. *)
LEMMA HistoryInitInv == Init => HistoryInv
<1> SUFFICES ASSUME Init PROVE HistoryInv
  OBVIOUS
<1>1. IInv /\ GetAll = <<>>
  BY InitInv DEF Init, NewRingBuffer, GetAll
<1>2. Recorded = {} /\ Numbered = {} /\ Cardinality({}) = 0
  BY FS_EmptySet DEF Init, Recorded, Numbered
<1>3. HistoryTypeOK
  <2>1. Cardinality(Req) \in Nat /\ <<>> \in Seq(Records)
    BY ReqAssumption, FS_CardinalityType, EmptySeq
  <2> QED
    BY <1>1, <2>1, ReqAssumption DEF Init, HistoryTypeOK, IInv
<1>4. IdInv /\ PlaceInv
  BY <1>2 DEF IdInv, PlaceInv, Init
<1>5. Holds
  <2>1. Len(<<>>) = 0 /\ <<>> \in Seq(Record) /\ 1 .. 0 = {}
    BY EmptySeq
  <2>2. 0 = IF 0 < Capacity THEN 0 ELSE Capacity
    BY CapacityAssumption
  <2> QED
    BY <1>1, <1>2, <2>1, <2>2 DEF Holds, HoldsOf
<1> QED
  BY <1>1, <1>3, <1>4, <1>5 DEF HistoryInv, IInv

(* Every step of the middleware keeps the invariant. *)
LEMMA HistoryNextInv == HistoryInv /\ [Next]_vars => HistoryInv'
<1> SUFFICES ASSUME HistoryInv, [Next]_vars PROVE HistoryInv'
  OBVIOUS
<1>1. CASE \/ Tick
           \/ \E q \in Req : Arrive(q) \/ ServeOther(q)
           \/ \E q \in Listers, query \in Query : handleGetRequests(q, query)
  BY <1>1, ServingKeepsHistory
<1>2. CASE ClearHistory
  BY <1>2, ClearKeepsHistory
<1>3. CASE \E q \in Req : TakeID(q)
  BY <1>3, TakeIDKeepsHistory
<1>4. CASE \E q \in Req : RecordRequest(q)
  BY <1>4, RecordKeepsHistory
<1>5. CASE UNCHANGED vars
  <2>1. UNCHANGED <<bufVars, rid, nextRequestID, recordedAt, pc, start, clock, answer>>
    BY <1>5 DEF vars, reqVars
  <2>2. HistoryTypeOK'
    BY <2>1 DEF HistoryInv, HistoryTypeOK, TypeOK, bufVars
  <2> QED
    BY <2>1, <2>2, QuietStep DEF Numbered
<1> QED
  BY <1>1, <1>2, <1>3, <1>4, <1>5 DEF Next

(* The invariant says what GET /_mock/requests sees. *)
LEMMA HistoryInvMeansNewest == HistoryInv => ExactlyNewestCompleted
<1> SUFFICES ASSUME HistoryInv PROVE ExactlyNewestCompleted
  OBVIOUS
<1> DEFINE all == GetAll
           n == Cardinality(Recorded)
           c == Len(all)
<1> USE CapacityAssumption
<1>1. n \in Nat
  BY CountsBounded DEF HistoryInv
<1>2. /\ all \in Seq(Record) /\ c \in Nat /\ DOMAIN all = 1 .. c
      /\ c = IF n < Capacity THEN n ELSE Capacity
      /\ \A i \in 1 .. c : /\ all[i].req \in Recorded /\ all[i] = RequestRecord(all[i].req)
                           /\ recordedAt[all[i].req] = n - c + i
  BY LenProperties DEF HistoryInv, Holds, HoldsOf, AllRecords, Recorded
<1>3. \A q \in Recorded : q \in Numbered /\ recordedAt[q] \in 1 .. n
  <2>1. \A q \in Recorded : recordedAt[q] \in Nat /\ recordedAt[q] > 0
    BY CountsBounded DEF HistoryInv, HistoryTypeOK, Recorded
  <2> QED
    BY <1>1, <2>1 DEF HistoryInv, PlaceInv, Numbered, Recorded
<1>4. \A p, q \in Recorded : recordedAt[p] = recordedAt[q] => p = q
  BY DEF HistoryInv, PlaceInv
<1>5. \A p, q \in Numbered : rid[p] = rid[q] => p = q
  BY DEF HistoryInv, IdInv
<1> HIDE DEF all, n, c
<1>6. ASSUME NEW i \in 1 .. c PROVE n - recordedAt[all[i].req] < Capacity
  <2>1. recordedAt[all[i].req] = n - c + i /\ n - (n - c + i) = c - i /\ c <= Capacity /\ i >= 1
    BY <1>1, <1>2
  <2> QED
    BY <1>2, <2>1
<1>7. ASSUME NEW q \in Recorded, n - recordedAt[q] < Capacity
      PROVE  \E i \in 1 .. c : q = all[i].req
  <2> DEFINE i == recordedAt[q] - (n - c)
  <2>1. recordedAt[q] \in 1 .. n
    BY <1>3
  <2>2. i \in 1 .. c /\ n - c + i = recordedAt[q]
    BY <1>1, <1>2, <1>7, <2>1
  <2> HIDE DEF i
  <2>3. recordedAt[all[i].req] = recordedAt[q] /\ all[i].req \in Recorded
    BY <1>2, <2>2
  <2>4. all[i].req = q
    BY <1>4, <2>3
  <2> QED
    BY <2>2, <2>4
<1>8. {all[i].req : i \in 1 .. c} = {q \in Recorded : n - recordedAt[q] < Capacity}
  BY <1>2, <1>6, <1>7
<1>9. ASSUME NEW i \in 1 .. c, NEW j \in 1 .. c, i # j
      PROVE  all[i].id # all[j].id /\ all[i].req # all[j].req
  <2>1. n - c + i # n - c + j
    BY <1>1, <1>2, <1>9
  <2>2. all[i].req # all[j].req
    BY <1>2, <2>1
  <2>3. all[i].id = rid[all[i].req] /\ all[j].id = rid[all[j].req]
    <3>1. \A x, y : x = RequestRecord(y) => x.id = rid[y]
      BY DEF RequestRecord
    <3> QED
      BY <1>2, <3>1
  <2> QED
    BY <1>2, <1>3, <1>5, <2>2, <2>3
<1> QED
  BY <1>2, <1>8, <1>9 DEF ExactlyNewestCompleted, all, n, c

-----------------------------------------------------------------------------
(* Paging.  With pages of `step' records, page k of n records ends at      *)
(* PageEnd(n, step, k): the page after the last full one is short, and     *)
(* those after it are empty.                                               *)
PageEnd(n, step, k) == IF k * step > n THEN n ELSE k * step

(* Each page begins where the one before it ended, and as many pages as    *)
(* there are records reach the last of them.                               *)
LEMMA PageEnds ==
  ASSUME NEW n \in Nat, NEW step \in Nat \ {0}, NEW k \in Nat \ {0}
  PROVE  /\ (k - 1) * step \in Nat
         /\ k * step = (k - 1) * step + step
         /\ PageEnd(n, step, 0) = 0
         /\ PageEnd(n, step, k) \in 0 .. n
         /\ PageEnd(n, step, k - 1) \in 0 .. PageEnd(n, step, k)
         /\ k >= n => PageEnd(n, step, k) = n
<1>1. \A i \in Nat : i * step \in Nat
  OBVIOUS
<1>2. k - 1 \in Nat /\ k \in Nat
  OBVIOUS
<1>3. (k - 1) * step \in Nat /\ k * step \in Nat
  BY <1>1, <1>2
<1>4. k * step = (k - 1) * step + step
  OBVIOUS
<1>5. 0 * step = 0
  OBVIOUS
<1>6. k * step >= k
  <2>1. k * (step - 1) \in Nat
    <3>1. \A i \in Nat, j \in Nat : i * j \in Nat
      OBVIOUS
    <3>2. step - 1 \in Nat
      OBVIOUS
    <3> QED
      BY <1>2, <3>1, <3>2
  <2>2. k * step = k * (step - 1) + k
    OBVIOUS
  <2> QED
    BY <2>1, <2>2
<1> DEFINE a == (k - 1) * step
           b == k * step
<1>7. a \in Nat /\ b \in Nat /\ b = a + step /\ b >= k
  BY <1>3, <1>4, <1>6
<1>8. PageEnd(n, step, k - 1) = (IF a > n THEN n ELSE a) /\ PageEnd(n, step, k) = (IF b > n THEN n ELSE b)
  BY DEF PageEnd
<1>9. PageEnd(n, step, 0) = 0
  BY <1>5 DEF PageEnd
<1> HIDE DEF a, b
<1>10. /\ PageEnd(n, step, k) \in 0 .. n
       /\ PageEnd(n, step, k - 1) \in 0 .. PageEnd(n, step, k)
       /\ k >= n => PageEnd(n, step, k) = n
  BY <1>7, <1>8
<1> QED
  BY <1>3, <1>4, <1>9, <1>10

(* paginateRecords with the offset of page k answers page k.               *)
LEMMA PageIsSlice ==
  ASSUME NEW E, NEW F \in Seq(E), NEW step \in Nat \ {0}, NEW k \in Nat \ {0}
  PROVE  paginateRecords(F, (k - 1) * step, step) =
           SubSeq(F, PageEnd(Len(F), step, k - 1) + 1, PageEnd(Len(F), step, k))
<1> DEFINE n == Len(F)
           a == (k - 1) * step
           b == k * step
           lo == IF a < 0 THEN 0 ELSE IF a > n THEN n ELSE a
           hi == lo + (IF step < 0 THEN 0 ELSE step)
           last == IF hi > n THEN n ELSE hi
<1>1. n \in Nat
  BY LenProperties
<1>2. a \in Nat /\ b = a + step
  BY <1>1, PageEnds
<1>3. PageEnd(n, step, k - 1) = (IF a > n THEN n ELSE a) /\ PageEnd(n, step, k) = (IF b > n THEN n ELSE b)
  BY DEF PageEnd
<1>4. paginateRecords(F, a, step) = SubSeq(F, lo + 1, last)
  BY DEF paginateRecords
<1> HIDE DEF n, a, b
<1>5. lo = PageEnd(n, step, k - 1) /\ last = PageEnd(n, step, k)
  BY <1>1, <1>2, <1>3
<1> HIDE DEF lo, hi, last
<1> QED
  BY <1>4, <1>5 DEF n, a

(* The pages, one after the other, are the records, once there are as      *)
(* many pages as records.                                                  *)
LEMMA PagesJoin ==
  ASSUME NEW E, NEW F \in Seq(E), NEW step \in Nat \ {0}, NEW m \in Nat \ {0}, m >= Len(F)
  PROVE  FlattenSeq([k \in 1 .. m |-> paginateRecords(F, (k - 1) * step, step)]) = F
<1> DEFINE pages == [k \in 1 .. m |-> paginateRecords(F, (k - 1) * step, step)]
           end(k) == PageEnd(Len(F), step, k)
           G == CHOOSE f : FlatUpTo(pages, f, m)
<1>1. Len(F) \in Nat /\ m \in Nat /\ m \in 1 .. m /\ \A i \in 1 .. Len(F) : F[i] \in E
  BY LenProperties, ElementOfSeq
<1>2. \A k \in 1 .. m : pages[k] = SubSeq(F, end(k - 1) + 1, end(k))
  <2> TAKE k \in 1 .. m
  <2>1. k \in Nat \ {0}
    BY <1>1
  <2> QED
    BY <2>1, PageIsSlice
<1>3. \A k \in 1 .. m : /\ end(k) \in 0 .. Len(F)
                        /\ end(k - 1) \in 0 .. end(k)
                        /\ end(0) = 0 /\ end(m) = Len(F)
  <2> TAKE k \in 1 .. m
  <2>1. k \in Nat \ {0}
    BY <1>1
  <2> QED
    BY <1>1, <2>1, PageEnds
<1>4. Len(pages) = m
  <2>1. DOMAIN pages = 1 .. m
    OBVIOUS
  <2>2. \A k \in 1 .. m : pages[k] \in Seq(E)
    <3> HIDE DEF pages, end
    <3> TAKE k \in 1 .. m
    <3> DEFINE a == end(k - 1)
               b == end(k)
    <3>1. b \in 0 .. Len(F) /\ a \in 0 .. b
      BY <1>3
    <3> HIDE DEF a, b
    <3>2. a + 1 \in Int /\ b \in Int /\ \A i \in a + 1 .. b : i \in 1 .. Len(F)
      BY ONLY <1>1, <3>1
    <3>3. \A i \in a + 1 .. b : F[i] \in E
      BY <1>1, <3>2
    <3>4. SubSeq(F, a + 1, b) \in Seq(E)
      BY <3>2, <3>3, SubSeqProperties
    <3> QED
      BY <1>2, <3>4 DEF a, b
  <2>3. pages \in Seq(Seq(E))
    <3> HIDE DEF end
    <3>1. pages = [k \in 1 .. m |-> pages[k]]
      OBVIOUS
    <3> HIDE DEF pages
    <3> QED
      BY <1>1, <2>2, <3>1
  <2> HIDE DEF pages
  <2> QED
    BY <1>1, <2>1, <2>3, LenProperties
<1> HIDE DEF pages, end
<1>5. FlatUpTo(pages, G, m)
  <2>1. \E f : FlatUpTo(pages, f, m)
    BY <1>1, FlatExists
  <2> QED
    BY <2>1, Zenon
<1>6. FlattenSeq(pages) = G[m]
  BY <1>4 DEF FlattenSeq, FlatUpTo, FlatStep
<1>7. \A k \in 1 .. m : G[k] = FlatStep(pages, G, k)
  BY <1>5 DEF FlatUpTo
<1> HIDE DEF G
<1> DEFINE T == {k \in 1 .. m : G[k] # SubSeq(F, 1, end(k))}
<1>8. T = {}
  <2> SUFFICES ASSUME T # {} PROVE FALSE
    OBVIOUS
  <2>1. PICK k \in T : \A l \in T : k <= l
    <3>1. T \in SUBSET Nat
      BY <1>1
    <3> HIDE DEF T
    <3> QED
      BY <3>1, LeastNumber
  <2>2. k \in 1 .. m /\ k \in Nat /\ G[k] # SubSeq(F, 1, end(k))
    BY <1>1
  <2>3. CASE k = 1
    <3>1. G[1] = pages[1] /\ pages[1] = SubSeq(F, end(1 - 1) + 1, end(1))
      BY <1>2, <1>7, <2>2, <2>3 DEF FlatStep
    <3>2. end(1 - 1) + 1 = 1
      BY <1>1, <1>3
    <3> QED
      BY <2>2, <2>3, <3>1, <3>2
  <2>4. CASE k # 1
    <3>1. k - 1 \in 1 .. m /\ k - 1 \notin T
      BY <1>1, <2>1, <2>2, <2>4
    <3>2. G[k] = SubSeq(F, 1, end(k - 1)) \o SubSeq(F, end(k - 1) + 1, end(k))
      BY <1>2, <1>7, <2>2, <2>4, <3>1 DEF FlatStep
    <3> DEFINE a == end(k - 1)
               b == end(k)
    <3>3. b \in 0 .. Len(F) /\ a \in 0 .. b
      BY <1>3, <2>2
    <3> HIDE DEF a, b
    <3>4. 1 \in 1 .. Len(F) + 1 /\ a \in 1 - 1 .. Len(F) /\ b \in a .. Len(F)
      BY ONLY <1>1, <3>3
    <3>5. SubSeq(F, 1, a) \o SubSeq(F, a + 1, b) = SubSeq(F, 1, b)
      BY <3>4, ConcatAdjacentSubSeq
    <3> QED
      BY <2>2, <3>2, <3>5 DEF a, b
  <2> QED
    BY <2>3, <2>4
<1>9. G[m] = SubSeq(F, 1, Len(F))
  BY <1>1, <1>3, <1>8
<1> QED
  BY <1>6, <1>9, SubSeqFull DEF pages

(* What a request for a page of one path finds: the records of that path,  *)
(* whatever the time bounds of an absent `from' and `till'.                *)
LEMMA FoundIsOfThePath ==
  ASSUME NEW all \in Seq(Records), NEW path \in Path \cup {AnyPath}, NEW query,
         query.path = path, query.from = 0, query.till = MaxTime
  PROVE  filterRecords(all, query) =
           Keep(all, {rec \in Records : path = AnyPath \/ PathOf[rec.req] = path})
<1> DEFINE S == {rec \in Range(all) : recordMatchesFilter(rec, query)}
           T == {rec \in Records : path = AnyPath \/ PathOf[rec.req] = path}
<1>1. Range(all) \subseteq Records
  BY LenProperties, ElementOfSeq DEF Range
<1>2. \A x \in Range(all) : x \in S <=> x \in T
  <2> TAKE x \in Range(all)
  <2>1. x \in Records /\ PathOf[x.req] \in Path /\ x.ts \in 0 .. MaxTime
    BY <1>1, ReqAssumption DEF Records
  <2>2. recordMatchesFilter(x, query) <=> path = AnyPath \/ PathOf[x.req] = path
    BY <2>1, ReqAssumption DEF recordMatchesFilter
  <2> QED
    BY <2>1, <2>2
<1> HIDE DEF S, T
<1>3. Keep(all, S) = Keep(all, T)
  BY <1>2, KeepSame
<1> QED
  BY <1>3 DEF S, T, filterRecords

(* The pages of a history in which the invariant holds.                    *)
LEMMA HistoryInvMeansPages == HistoryInv => PagesPartition
<1> SUFFICES ASSUME HistoryInv,
                    NEW path \in Path \cup {AnyPath}, NEW limit \in -1 .. MaxPage + 1
             PROVE  LET query == [NoQuery EXCEPT !.path = path, !.limit = limit]
                        step  == IF limit \in 1 .. MaxPage THEN limit ELSE MaxPage
                        pages == [k \in 1 .. Capacity + 1 |->
                                    RequestsPage(GetAll,
                                      [query EXCEPT !.offset = (k - 1) * step])]
                    IN  FlattenSeq(pages) =
                          Keep(GetAll, {rec \in Records :
                                          path = AnyPath \/ PathOf[rec.req] = path})
  BY DEF PagesPartition
<1> DEFINE all == GetAll
           step == IF limit \in 1 .. MaxPage THEN limit ELSE MaxPage
           F == Keep(all, {rec \in Records : path = AnyPath \/ PathOf[rec.req] = path})
           query == [NoQuery EXCEPT !.path = path, !.limit = limit]
           asked(k) == [query EXCEPT !.offset = (k - 1) * step]
<1>1. all \in Seq(Records) /\ Len(all) <= Capacity
  <2>1. IInv /\ count \in 0 .. Capacity /\ Capacity \in Nat
    BY HistoryBuffer, CapacityAssumption DEF IInv, TypeOK, IndexConsistent
  <2>2. Len(all) = count
    BY <2>1, GetAllType
  <2> QED
    BY <2>1, <2>2, HistoryRecords
<1> HIDE DEF all
<1>2. step \in Nat \ {0}
  BY ReqAssumption
<1>3. F \in Seq(Records) /\ Len(F) \in Nat /\ Capacity + 1 \in Nat \ {0} /\ Capacity + 1 >= Len(F)
  <2>1. F \in Seq(Records)
    <3> DEFINE T == {rec \in Records : path = AnyPath \/ PathOf[rec.req] = path}
    <3>1. Keep(all, T) \in Seq(Records \cap T)
      BY <1>1, KeepRange
    <3> HIDE DEF T
    <3>2. Keep(all, T) \in Seq(Records)
      BY <3>1, SeqMonotonic
    <3> QED
      BY <3>2 DEF T
  <2>2. Len(F) <= Len(all)
    BY <1>1, KeepLen
  <2> HIDE DEF F
  <2> QED
    BY <1>1, <2>1, <2>2, LenProperties, CapacityAssumption
<1>4. ASSUME NEW k \in 1 .. Capacity + 1
      PROVE  RequestsPage(all, asked(k)) = paginateRecords(F, (k - 1) * step, step)
  <2> DEFINE off == (k - 1) * step
  <2>1. off \in Nat
    <3>1. k \in Nat \ {0}
      BY CapacityAssumption
    <3> HIDE DEF step
    <3> QED
      BY <1>2, <3>1, PageEnds
  <2> HIDE DEF off
  <2> DEFINE ask == [query EXCEPT !.offset = off]
  <2>2. /\ ask.path = path /\ ask.from = 0 /\ ask.till = MaxTime
        /\ ask.offset = off /\ ask.limit = limit
    BY DEF NoQuery
  <2> HIDE DEF ask
  <2>3. filterRecords(all, ask) = F
    BY <1>1, <2>2, FoundIsOfThePath
  <2>4. (IF ask.offset < 0 THEN 0 ELSE ask.offset) = off
    BY <2>1, <2>2
  <2>5. (IF ask.limit <= 0 \/ ask.limit > MaxPage THEN MaxPage ELSE ask.limit) = step
    BY <2>2, ReqAssumption
  <2> HIDE DEF F, step, query
  <2>6. RequestsPage(all, ask) = paginateRecords(F, off, step)
    BY <2>3, <2>4, <2>5 DEF RequestsPage
  <2> QED
    BY <2>6 DEF ask, off
<1> HIDE DEF F, asked, step
<1>5. FlattenSeq([k \in 1 .. Capacity + 1 |-> paginateRecords(F, (k - 1) * step, step)]) = F
  BY <1>2, <1>3, PagesJoin
<1>6. [k \in 1 .. Capacity + 1 |-> RequestsPage(all, asked(k))]
        = [k \in 1 .. Capacity + 1 |-> paginateRecords(F, (k - 1) * step, step)]
  BY <1>4
<1>7. FlattenSeq([k \in 1 .. Capacity + 1 |-> RequestsPage(all, asked(k))]) = F
  BY <1>5, <1>6
<1> QED
  BY <1>7 DEF F, asked, step, all

(* Type correctness of the middleware, its counter and the pages it wrote: *)
(* an id never exceeds the number of requests.                             *)
THEOREM HistoryTypes == Spec => []HistoryTypeOK
<1>1. HistoryInv => HistoryTypeOK
  BY DEF HistoryInv
<1> QED
  BY <1>1, HistoryInitInv, HistoryNextInv, PTL DEF Spec

(* However the goroutines of the requests interleave between taking an id  *)
(* and adding the record, GET /_mock/requests sees exactly the newest      *)
(* Capacity requests whose middleware finished since the last Clear, with  *)
(* distinct ids: for any number of requests and any --history-size.        *)
THEOREM HistoryIsNewest == Spec => []ExactlyNewestCompleted
BY HistoryInitInv, HistoryNextInv, HistoryInvMeansNewest, PTL DEF Spec

(* A client that reads GET /_mock/requests page by page, with any limit it *)
(* may send and for any path or none, is given every record of the history *)
(* that matches exactly once and in order: no page repeats or skips one,   *)
(* whatever --history-size and maxRequestsPage are.                        *)
THEOREM PagesCoverTheHistory == Spec => []PagesPartition
BY HistoryInitInv, HistoryNextInv, HistoryInvMeansPages, PTL DEF Spec

(* The buffer keeps its promise when the middleware drives it, too. *)
THEOREM HistoryRefinesLog == Spec => ImplementsBoundedLog
<1>1. Init => Log!LInit
  BY DEF Init, NewRingBuffer, Log!LInit, GetAll
<1>2. HistoryInv /\ [Next]_vars => [Log!LNext]_GetAll
  <2> SUFFICES ASSUME HistoryInv, [Next]_vars PROVE [Log!LNext]_GetAll
    OBVIOUS
  <2>1. CASE ClearHistory
    BY <2>1 DEF ClearHistory, Clear, GetAll, Log!LNext, Log!LClear
  <2>2. ASSUME NEW q \in Req, RecordRequest(q) PROVE [Log!LNext]_GetAll
    <3>1. q \in Numbered /\ HistoryTypeOK /\ IdInv /\ IInv
      BY <2>2, HistoryBuffer DEF RecordRequest, HistoryInv, Numbered
    <3>2. RequestRecord(q) \in Record /\ Add(RequestRecord(q))
      BY <2>2, <3>1, RecordTyped DEF RecordRequest
    <3> QED
      BY <3>1, <3>2, AddRefines DEF Log!LNext
  <2>3. CASE UNCHANGED bufVars
    BY <2>3 DEF bufVars, GetAll, Slice
  <2>4. \/ ClearHistory \/ UNCHANGED bufVars
        \/ \E q \in Req : RecordRequest(q)
    BY DEF Next, vars, Tick, Arrive, ServeOther, TakeID, handleGetRequests
  <2> QED
    BY <2>1, <2>2, <2>3, <2>4
<1> QED
  BY <1>1, <1>2, HistoryInitInv, HistoryNextInv, PTL DEF Spec, ImplementsBoundedLog, Log!LSpec
=============================================================================
