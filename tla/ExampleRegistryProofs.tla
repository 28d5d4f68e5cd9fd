------------------------ MODULE ExampleRegistryProofs ------------------------
(***************************************************************************)
(* Theorems about where examples are kept: the registry of dynamic         *)
(* examples, for every number of examples and concurrent requests, and     *)
(* what the construction of a server makes of its documents and of the     *)
(* examples that are added to it, for every list of documents.             *)
(***************************************************************************)
EXTENDS ExampleRegistry, Startup, FilterProofs, TLAPS

(* What was registered before, in the sense of the history variables. *)
LiveInv ==
  /\ \A x \in Range(live) : addedAt[x] # None /\ x \notin deleted
  /\ \A x \in deleted \cup once : addedAt[x] # None

Array == heap[slice.arr]

(* The in-place filter has looked at the first i - 1 elements: those it    *)
(* keeps are at the front, the others are where they were.                 *)
Filtering ==
  LET done == SubSeq(live, 1, remover.i - 1)
  IN /\ slice.len = Len(live)
     /\ remover.i \in 1 .. slice.len + 1
     /\ remover.kept \in 0 .. remover.i - 1
     /\ SubSeq(Array, 1, remover.kept) = Keep(done, Ex \ {remover.id})
     /\ \A j \in remover.i .. slice.len : Array[j] = live[j]

SliceInv ==
  /\ slice.len <= Len(Array)
  /\ remover.id = None => remover = Idle /\ Elements(slice) = live
  /\ remover.id # None => Filtering

(* What a selection may come across. *)
Known(q) == {x \in Ex : addedAt[x] # None /\ x \notin seen[q].deleted}

(* Walking the array, disturbed or not. *)
WalkInv(q) ==
  LET s == sel[q]
  IN /\ s.len <= Len(heap[s.arr])
     /\ \A j \in 1 .. s.len : heap[s.arr][j] \in Known(q)
     /\ s.i \in 1 .. s.len + 1
     /\ s.pc # "scan" => s.i <= s.len
     /\ s.pc = "half" => s.id \in Known(q) \cup {None} /\ s.content \in Known(q) \cup {None}
     /\ s.pc \in {"check", "mark"} => s.id \in Known(q) /\ s.content \in Known(q)
     /\ s.pc = "mark" => s.id \in Once

(* Walking the array while nothing is removed: it is as it was. *)
UndisturbedInv(q) ==
  LET s == sel[q]
      e == seen[q].elements
  IN /\ remover.id = None
     /\ s.len = Len(e)
     /\ \A j \in 1 .. s.len : heap[s.arr][j] = e[j]
     /\ slice.len > 0 /\ s.arr = slice.arr => s.len <= slice.len
     /\ \A j \in 1 .. s.i - 1 : ~AlwaysEligible(q, e[j])
     /\ s.pc = "half" => s.id \in {e[s.i], None} /\ s.content \in {e[s.i], None}
     /\ s.pc \in {"check", "mark"} => s.id = e[s.i] /\ s.content = e[s.i]
     /\ s.pc = "mark" => s.content \in Once /\ s.content \notin seen[q].spent
     /\ \A x \in seen[q].spent : addedAt[x] # None /\ (x \in once \/ isExpired(x))

DoneInv(q) ==
  /\ sel[q].result \in Known(q) \cup {None}
  /\ ~seen[q].raced =>
       /\ SelectsFirst(q) /\ sel[q].result \notin seen[q].spent
       /\ sel[q].result \in (Once \cap Range(live)) \ {remover.id} => sel[q].result \in once

SelectInv(q) ==
  /\ sel[q].pc = "idle" => sel[q] = NoSelection
  /\ seen[q].deleted \subseteq deleted
  /\ q \in InProgress => WalkInv(q) /\ (~seen[q].raced => UndisturbedInv(q))
  /\ sel[q].pc = "done" => DoneInv(q)

RegistryInv ==
  /\ TypeOK
  /\ LiveInv
  /\ SliceInv
  /\ \A q \in Req : SelectInv(q)

-----------------------------------------------------------------------------
Cell == Ex \cup {None}

Selection == [pc : {"idle", "scan", "half", "check", "mark", "done"},
              arr : Addr, len : Nat, i : Nat, id : Cell, content : Cell, result : Cell]

Sight == [elements : Seq(Ex), spent : SUBSET Ex, deleted : SUBSET Ex, raced : BOOLEAN]

(* The array that make or append allocates is one that neither the         *)
(* registry nor a running selection refers to.                             *)
LEMMA FreshIsUnused ==
  ASSUME TypeOK
  PROVE  Fresh \in Addr /\ Fresh \notin Reachable
<1> DEFINE used == [q \in Req |-> sel[q].arr]
<1>1. used \in [Req -> Addr] /\ slice.arr \in Addr
  BY DEF TypeOK
<1>2. PICK b \in Addr : b # slice.arr /\ \A q \in Req : b # used[q]
  BY <1>1, MemoryAssumption
<1>3. b \notin Reachable
  BY <1>2 DEF Reachable, InProgress
<1> QED
  BY <1>2, <1>3, Zenon DEF Fresh

(* Allocating an array leaves the arrays that somebody refers to as they   *)
(* are.                                                                    *)
LEMMA AllocProperties ==
  ASSUME TypeOK, NEW array \in Seq(Cell)
  PROVE  /\ Alloc(array) \in [Addr -> Seq(Cell)]
         /\ Alloc(array)[Fresh] = array
         /\ \A a \in Reachable : Alloc(array)[a] = heap[a]
<1>1. Fresh \in Addr /\ Fresh \notin Reachable
  BY FreshIsUnused
<1>2. heap \in [Addr -> Seq(Cell)] /\ Reachable \subseteq Addr
  BY DEF TypeOK, Cell, Reachable, InProgress
<1>3. <<>> \in Seq(Cell)
  BY EmptySeq
<1> HIDE DEF Reachable, Fresh
<1> QED
  BY <1>1, <1>2, <1>3 DEF Alloc

(* The front of an array, after a write at or behind it. *)
LEMMA FrontOfWrite ==
  ASSUME NEW E, NEW a \in Seq(E), NEW n \in Nat, n < Len(a), NEW x \in E
  PROVE  /\ [a EXCEPT ![n + 1] = x] \in Seq(E)
         /\ Len([a EXCEPT ![n + 1] = x]) = Len(a)
         /\ SubSeq([a EXCEPT ![n + 1] = x], 1, n + 1) = Append(SubSeq(a, 1, n), x)
<1> DEFINE b == [a EXCEPT ![n + 1] = x]
<1>1. /\ Len(a) \in Nat /\ n + 1 \in 1 .. Len(a)
      /\ a \in [1 .. Len(a) -> E]
  BY LenProperties
<1>2. /\ b \in Seq(E) /\ Len(b) = Len(a)
      /\ \A j \in 1 .. Len(a) : b[j] = IF j = n + 1 THEN x ELSE a[j]
  BY <1>1, ExceptSeq
<1> HIDE DEF b
<1>3. /\ SubSeq(b, 1, n + 1) \in Seq(E) /\ Len(SubSeq(b, 1, n + 1)) = n + 1
      /\ \A j \in 1 .. n + 1 : SubSeq(b, 1, n + 1)[j] = b[j]
  BY <1>1, <1>2
<1>4. /\ SubSeq(a, 1, n) \in Seq(E) /\ Len(SubSeq(a, 1, n)) = n
      /\ \A j \in 1 .. n : SubSeq(a, 1, n)[j] = a[j]
  BY <1>1
<1> DEFINE c == SubSeq(a, 1, n)
           d == Append(c, x)
<1>5. /\ d \in Seq(E) /\ Len(d) = n + 1 /\ d[n + 1] = x /\ \A j \in 1 .. n : d[j] = a[j]
  <2> HIDE DEF c
  <2> QED
    BY <1>4, AppendProperties DEF c
<1> HIDE DEF d
<1>6. SubSeq(b, 1, n + 1) = d
  <2>1. \A j \in 1 .. n + 1 : SubSeq(b, 1, n + 1)[j] = d[j]
    BY <1>1, <1>2, <1>3, <1>5
  <2> DEFINE u == SubSeq(b, 1, n + 1)
  <2> HIDE DEF u
  <2>2. u \in Seq(E) /\ Len(u) = Len(d) /\ \A j \in 1 .. Len(u) : u[j] = d[j]
    BY <1>3, <1>5, <2>1 DEF u
  <2>3. u = d
    BY <2>2, <1>5, SeqEqual
  <2> QED
    BY <2>3 DEF u
<1> QED
  BY <1>2, <1>6 DEF b, d

(* The front of an array that begins with s. *)
LEMMA FrontOfConcat ==
  ASSUME NEW E, NEW s \in Seq(E), NEW t \in Seq(E)
  PROVE  SubSeq(s \o t, 1, Len(s)) = s
BY SubSeqOfConcat1, ConcatProperties, SubSeqFull, LenProperties

(* The next element of the walk of the filter. *)
LEMMA FrontGrows ==
  ASSUME NEW E, NEW s \in Seq(E), NEW i \in 1 .. Len(s)
  PROVE  SubSeq(s, 1, i) = Append(SubSeq(s, 1, i - 1), s[i])
<1>1. Len(s) \in Nat /\ i \in Nat
  BY LenProperties
<1> QED
  BY <1>1, SubSeqRecursiveSecond

-----------------------------------------------------------------------------
AddedGrows == \A x \in Ex : addedAt[x] # None => addedAt'[x] # None

(* A step of somebody else leaves a running selection's walk sound when    *)
(* the array keeps its length and whatever the step writes in front of the *)
(* walk is an example that the walk may meet anyway.                       *)
LEMMA WalkFrame ==
  ASSUME TypeOK, NEW q \in Req, WalkInv(q), AddedGrows,
         sel'[q] = sel[q], seen'[q].deleted = seen[q].deleted,
         Len(heap'[sel[q].arr]) = Len(heap[sel[q].arr]),
         \A j \in 1 .. sel[q].len : \/ heap'[sel[q].arr][j] = heap[sel[q].arr][j]
                                    \/ heap'[sel[q].arr][j] \in Known(q)'
  PROVE  WalkInv(q)'
<1>1. Known(q) \subseteq Known(q)'
  BY DEF Known, AddedGrows
<1> QED
  BY <1>1 DEF WalkInv

(* A step that removes nothing, keeps the part of the array the selection  *)
(* walks and loses no used or expired example leaves the selection         *)
(* undisturbed.                                                            *)
LEMMA UndisturbedFrame ==
  ASSUME TypeOK, NEW q \in Req, UndisturbedInv(q), AddedGrows,
         sel'[q] = sel[q], seen'[q] = seen[q], remover'.id = None,
         \A j \in 1 .. sel[q].len : heap'[sel[q].arr][j] = heap[sel[q].arr][j],
         slice'.len > 0 /\ sel[q].arr = slice'.arr => sel[q].len <= slice'.len,
         \A x \in Ex : addedAt[x] # None /\ (x \in once \/ isExpired(x)) => x \in once' \/ isExpired(x)'
  PROVE  UndisturbedInv(q)'
<1>1. seen[q].spent \subseteq Ex
  BY DEF TypeOK
<1> QED
  BY <1>1 DEF UndisturbedInv, AddedGrows, AlwaysEligible

(* A finished selection stays sound as long as no marker of a registered   *)
(* one-time example is lost.                                               *)
LEMMA DoneFrame ==
  ASSUME TypeOK, NEW q \in Req, DoneInv(q), AddedGrows,
         sel'[q] = sel[q], seen'[q] = seen[q],
         \A x \in Ex : /\ addedAt[x] # None
                       /\ x \in (Once \cap Range(live')) \ {remover'.id}
                       /\ x \in (Once \cap Range(live)) \ {remover.id} => x \in once
                       => x \in once'
  PROVE  DoneInv(q)'
<1>1. Known(q) \subseteq Known(q)'
  BY DEF Known, AddedGrows
<1>2. SelectsFirst(q) => SelectsFirst(q)'
  BY DEF SelectsFirst, AlwaysEligible
<1>3. sel[q].result \in Ex => sel[q].result \in Known(q)
  BY RegistryAssumption DEF DoneInv
<1>4. sel[q].result \in Ex \/ sel[q].result = None
  BY DEF TypeOK
<1>5. None \notin Once
  BY RegistryAssumption
<1> QED
  BY <1>1, <1>2, <1>3, <1>4, <1>5 DEF DoneInv, Known

(* The parts of the type invariant that the provers need, one by one. *)
LEMMA TypeFacts ==
  ASSUME TypeOK
  PROVE  /\ heap \in [Addr -> Seq(Cell)] /\ slice \in [arr : Addr, len : Nat]
         /\ slice.arr \in Addr /\ slice.len \in Nat /\ Array \in Seq(Cell) /\ Len(Array) \in Nat
         /\ live \in Seq(Ex) /\ Len(live) \in Nat /\ clock \in Nat /\ None \notin Nat
         /\ addedAt \in [Ex -> 0 .. MaxTime \cup {None}]
         /\ sel \in [Req -> Selection] /\ seen \in [Req -> Sight]
         /\ \A q \in Req : /\ sel[q].arr \in Addr /\ sel[q].len \in Nat /\ sel[q].i \in Nat
                           /\ seen[q].deleted \subseteq Ex /\ seen[q].spent \subseteq Ex
                           /\ seen[q].elements \in Seq(Ex) /\ seen[q].raced \in BOOLEAN
<1>1. heap \in [Addr -> Seq(Cell)] /\ slice \in [arr : Addr, len : Nat] /\ live \in Seq(Ex)
  BY DEF TypeOK, Cell
<1>2. slice.arr \in Addr /\ slice.len \in Nat /\ Array \in Seq(Cell)
  BY <1>1 DEF Array
<1>3. Len(Array) \in Nat /\ Len(live) \in Nat
  BY <1>1, <1>2, LenProperties
<1>4. clock \in Nat /\ None \notin Nat
  BY RegistryAssumption DEF TypeOK
<1>5. addedAt \in [Ex -> 0 .. MaxTime \cup {None}] /\ sel \in [Req -> Selection] /\ seen \in [Req -> Sight]
  BY DEF TypeOK, Selection, Sight, Cell
<1>6. \A q \in Req : /\ sel[q].arr \in Addr /\ sel[q].len \in Nat /\ sel[q].i \in Nat
                     /\ seen[q].deleted \subseteq Ex /\ seen[q].spent \subseteq Ex
                     /\ seen[q].elements \in Seq(Ex) /\ seen[q].raced \in BOOLEAN
  BY <1>5 DEF Selection, Sight
<1> QED
  BY <1>1, <1>2, <1>3, <1>4, <1>5, <1>6

(* The slice with one more element, in either way append goes. *)
LEMMA AppendToSlice ==
  ASSUME RegistryInv, NEW x \in Ex, addDynamic(x)
  PROVE  /\ heap' \in [Addr -> Seq(Cell)] /\ slice' \in [arr : Addr, len : Nat]
         /\ slice'.len <= Len(heap'[slice'.arr])
         /\ SubSeq(heap'[slice'.arr], 1, slice'.len) = Append(live, x)
         /\ \A q \in InProgress :
              /\ Len(heap'[sel[q].arr]) = Len(heap[sel[q].arr])
              /\ \A j \in 1 .. sel[q].len :
                   \/ heap'[sel[q].arr][j] = heap[sel[q].arr][j]
                   \/ heap'[sel[q].arr][j] = x /\ sel[q].arr = slice.arr /\ slice.len > 0 /\ j > slice.len
              /\ slice'.len > 0 /\ sel[q].arr = slice'.arr =>
                   slice.len > 0 /\ sel[q].arr = slice.arr /\ slice'.len > slice.len
<1> DEFINE n == slice.len
           old == heap[slice.arr]
<1> TypeOK /\ SliceInv
  BY DEF RegistryInv
<1>1. /\ heap \in [Addr -> Seq(Cell)] /\ slice \in [arr : Addr, len : Nat] /\ slice.arr \in Addr
      /\ n \in Nat /\ old \in Seq(Cell) /\ Len(old) \in Nat /\ old \in [1 .. Len(old) -> Cell]
      /\ x \in Cell /\ n <= Len(old)
  BY TypeFacts, LenProperties DEF Array, Cell, SliceInv
<1>2. SubSeq(old, 1, n) = live /\ live \in Seq(Cell)
  <2>1. Elements(slice) = live
    BY DEF SliceInv, addDynamic, Idle
  <2>2. live \in Seq(Ex) /\ Ex \subseteq Cell
    BY TypeFacts DEF Cell
  <2> QED
    BY <2>1, <2>2, SeqMonotonic DEF Elements
<1>3. \A q \in InProgress : sel[q].arr \in Addr /\ sel[q].arr \in Reachable /\ sel[q].len \in Nat
  BY TypeFacts DEF InProgress, Reachable
<1>4. CASE n > 0 /\ n < Len(old)
  <2> DEFINE b == [old EXCEPT ![n + 1] = x]
  <2>1. heap' = [heap EXCEPT ![slice.arr] = b] /\ slice' = [slice EXCEPT !.len = n + 1]
    BY <1>4 DEF addDynamic
  <2>2. /\ b \in Seq(Cell) /\ Len(b) = Len(old) /\ SubSeq(b, 1, n + 1) = Append(live, x)
        /\ \A j \in 1 .. Len(old) : b[j] = IF j = n + 1 THEN x ELSE old[j]
    BY <1>1, <1>2, <1>4, FrontOfWrite
  <2> HIDE DEF b
  <2>3. heap'[slice.arr] = b /\ \A a \in Addr : a # slice.arr => heap'[a] = heap[a]
    BY <1>1, <2>1
  <2>4. slice'.arr = slice.arr /\ slice'.len = n + 1 /\ slice' \in [arr : Addr, len : Nat]
    BY <1>1, <2>1
  <2>5. heap' \in [Addr -> Seq(Cell)]
    BY <1>1, <2>1, <2>2
  <2>6. ASSUME NEW q \in InProgress
        PROVE  /\ Len(heap'[sel[q].arr]) = Len(heap[sel[q].arr])
               /\ \A j \in 1 .. sel[q].len :
                    \/ heap'[sel[q].arr][j] = heap[sel[q].arr][j]
                    \/ heap'[sel[q].arr][j] = x /\ sel[q].arr = slice.arr /\ j > n
    <3>1. CASE sel[q].arr # slice.arr
      BY <1>3, <2>3, <3>1
    <3>2. CASE sel[q].arr = slice.arr
      <4>1. sel[q].len <= Len(old)
        BY <3>2 DEF RegistryInv, SelectInv, WalkInv, InProgress
      <4>2. heap'[sel[q].arr] = b /\ heap[sel[q].arr] = old
        BY <2>3, <3>2
      <4>3. \A j \in 1 .. sel[q].len : j \in 1 .. Len(old) /\ j \in Nat /\ (j = n + 1 => j > n)
        BY <1>1, <1>3, <4>1
      <4> HIDE DEF n, old
      <4> QED
        BY <2>2, <3>2, <4>2, <4>3
    <3> QED
      BY <3>1, <3>2
  <2> QED
    BY <1>1, <1>4, <2>2, <2>3, <2>4, <2>5, <2>6
<1>5. CASE ~(n > 0 /\ n < Len(old))
  <2> DEFINE room == IF n = 0 THEN 0 ELSE n - 1
             pad == [i \in 1 .. room |-> None]
             b == SubSeq(old, 1, n) \o <<x>> \o pad
  <2>1. heap' = Alloc(b) /\ slice' = [arr |-> Fresh, len |-> n + 1]
    BY <1>5 DEF addDynamic
  <2>2. pad \in Seq(Cell)
    BY <1>1 DEF Cell
  <2>3. /\ b = Append(live, x) \o pad /\ Append(live, x) \in Seq(Cell)
        /\ Len(Append(live, x)) = n + 1
    <3>1. Append(live, x) = live \o <<x>> /\ Append(live, x) \in Seq(Cell)
      BY <1>1, <1>2, AppendIsConcat, AppendProperties
    <3>2. Len(live) = n
      BY <1>1, <1>2
    <3>3. Len(Append(live, x)) = n + 1
      BY <1>1, <1>2, <3>2, AppendProperties
    <3>4. b = Append(live, x) \o pad
      BY <1>2, <3>1
    <3> QED
      BY <3>1, <3>3, <3>4
  <2> DEFINE c == Append(live, x)
  <2> HIDE DEF pad, c
  <2>4. b = c \o pad /\ c \in Seq(Cell) /\ Len(c) = n + 1
    BY <2>3 DEF c
  <2> HIDE DEF b
  <2>5. b \in Seq(Cell) /\ Len(c) <= Len(b) /\ SubSeq(b, 1, n + 1) = c
    BY <2>2, <2>4, ConcatProperties, FrontOfConcat, LenProperties
  <2>6. /\ heap' \in [Addr -> Seq(Cell)] /\ heap'[Fresh] = b
        /\ \A a \in Reachable : heap'[a] = heap[a]
    BY <2>1, <2>5, AllocProperties
  <2>7. Fresh \in Addr /\ Fresh \notin Reachable
    BY FreshIsUnused
  <2>8. slice'.arr = Fresh /\ slice'.len = n + 1 /\ slice' \in [arr : Addr, len : Nat]
    BY <1>1, <2>1, <2>7
  <2>9. \A q \in InProgress : heap'[sel[q].arr] = heap[sel[q].arr] /\ sel[q].arr # slice'.arr
    BY <1>3, <2>6, <2>7, <2>8
  <2> QED
    BY <1>1, <2>4, <2>5, <2>6, <2>8, <2>9 DEF c
<1> QED
  BY <1>4, <1>5

(* POST of an example keeps the invariant, in place and with a new array. *)
LEMMA AddKeepsInv ==
  ASSUME RegistryInv, NEW x \in Ex, addDynamic(x)
  PROVE  RegistryInv'
<1> TypeOK /\ LiveInv /\ SliceInv
  BY DEF RegistryInv
<1> USE TypeFacts
<1>1. /\ addedAt[x] = None /\ addedAt' = [addedAt EXCEPT ![x] = clock] /\ live' = Append(live, x)
      /\ UNCHANGED <<once, clock, remover, sel, deleted, seen>> /\ remover = Idle /\ remover.id = None
  BY DEF addDynamic, Idle
<1>2. addedAt'[x] = clock /\ clock # None /\ \A y \in Ex : y # x => addedAt'[y] = addedAt[y]
  BY <1>1
<1>3. AddedGrows
  BY <1>1, <1>2 DEF AddedGrows
<1>4. live' \in Seq(Ex) /\ Range(live') = Range(live) \cup {x} /\ Range(live) \subseteq Ex
  BY <1>1, AppendProperties, AppendRange, RangeOfSeq
<1>5. TypeOK'
  <2>1. heap' \in [Addr -> Seq(Ex \cup {None})] /\ slice' \in [arr : Addr, len : Nat]
    BY AppendToSlice DEF Cell
  <2>2. clock \in 0 .. MaxTime
    BY DEF TypeOK
  <2>3. addedAt' \in [Ex -> 0 .. MaxTime \cup {None}]
    BY <1>1, <2>2
  <2> QED
    BY <1>1, <1>4, <2>1, <2>3 DEF TypeOK
<1>6. LiveInv'
  BY <1>1, <1>2, <1>4 DEF LiveInv, TypeOK
<1>7. SliceInv'
  BY <1>1, AppendToSlice DEF SliceInv, Elements, Array
<1>8. ASSUME NEW q \in Req PROVE SelectInv(q)'
  <2>1. SelectInv(q) /\ sel'[q] = sel[q] /\ seen'[q] = seen[q] /\ (q \in InProgress' <=> q \in InProgress)
    BY <1>1 DEF RegistryInv, InProgress
  <2>2. x \in Known(q)'
    BY <1>1, <1>2, <2>1 DEF Known, SelectInv, LiveInv
  <2>3. ASSUME q \in InProgress PROVE WalkInv(q)'
    <3>1. /\ Len(heap'[sel[q].arr]) = Len(heap[sel[q].arr])
          /\ \A j \in 1 .. sel[q].len : \/ heap'[sel[q].arr][j] = heap[sel[q].arr][j]
                                        \/ heap'[sel[q].arr][j] = x
      BY <2>3, AppendToSlice
    <3>2. WalkInv(q) /\ seen'[q].deleted = seen[q].deleted
      BY <2>1, <2>3 DEF SelectInv
    <3> QED
      BY <1>3, <2>1, <2>2, <3>1, <3>2, WalkFrame
  <2>4. ASSUME q \in InProgress, ~seen[q].raced PROVE UndisturbedInv(q)'
    <3>1. UndisturbedInv(q)
      BY <2>1, <2>4 DEF SelectInv
    <3>2. \A j \in 1 .. sel[q].len : heap'[sel[q].arr][j] = heap[sel[q].arr][j]
      BY <2>4, <3>1, AppendToSlice DEF UndisturbedInv
    <3>3. slice'.len > 0 /\ sel[q].arr = slice'.arr => sel[q].len <= slice'.len
      <4>1. slice'.len \in Nat /\ slice.len \in Nat /\ sel[q].len \in Nat
        BY AppendToSlice
      <4>2. slice'.len > 0 /\ sel[q].arr = slice'.arr =>
              slice.len > 0 /\ sel[q].arr = slice.arr /\ slice'.len > slice.len
        BY <2>4, AppendToSlice
      <4>3. slice.len > 0 /\ sel[q].arr = slice.arr => sel[q].len <= slice.len
        BY <3>1 DEF UndisturbedInv
      <4> QED
        BY <4>1, <4>2, <4>3
    <3>4. \A y \in Ex : addedAt[y] # None /\ (y \in once \/ isExpired(y)) => y \in once' \/ isExpired(y)'
      BY <1>1, <1>2 DEF isExpired
    <3> QED
      BY <1>1, <1>3, <2>1, <3>1, <3>2, <3>3, <3>4, UndisturbedFrame
  <2>5. sel[q].pc = "done" => DoneInv(q)'
    <3>1. \A y \in Ex : addedAt[y] # None /\ y \in Range(live') => y \in Range(live)
      BY <1>1, <1>4
    <3> QED
      BY <1>1, <1>3, <2>1, <3>1, DoneFrame DEF SelectInv
  <2> QED
    BY <1>1, <2>1, <2>3, <2>4, <2>5 DEF SelectInv
<1> QED
  BY <1>5, <1>6, <1>7, <1>8 DEF RegistryInv

(* DELETE takes the lock: from here on the selections under way count as   *)
(* disturbed.                                                              *)
LEMMA RemoveKeepsInv ==
  ASSUME RegistryInv, NEW x \in Ex, removeDynamic(x)
  PROVE  RegistryInv'
<1> TypeOK /\ LiveInv /\ SliceInv
  BY DEF RegistryInv
<1> USE TypeFacts
<1>1. /\ remover.id = None /\ remover' = [id |-> x, i |-> 1, kept |-> 0]
      /\ seen' = [q \in Req |-> IF q \in InProgress THEN [seen[q] EXCEPT !.raced = TRUE] ELSE seen[q]]
      /\ UNCHANGED <<heap, slice, once, clock, addedAt, sel, live, deleted>>
  BY DEF removeDynamic, Idle
<1>2. remover'.id = x /\ remover'.i = 1 /\ remover'.kept = 0 /\ x # None
  BY <1>1, RegistryAssumption
<1>3. \A q \in Req : /\ seen'[q].elements = seen[q].elements /\ seen'[q].spent = seen[q].spent
                     /\ seen'[q].deleted = seen[q].deleted
                     /\ q \in InProgress => seen'[q].raced
                     /\ q \notin InProgress => seen'[q] = seen[q]
                     /\ seen'[q] \in Sight
  <2> TAKE q \in Req
  <2>1. seen[q] \in Sight
    OBVIOUS
  <2>2. CASE q \notin InProgress
    BY <1>1, <2>1, <2>2
  <2>3. CASE q \in InProgress
    <3> DEFINE s == [seen[q] EXCEPT !.raced = TRUE]
    <3>1. seen'[q] = s
      BY <1>1, <2>3
    <3>2. s \in Sight /\ s.raced = TRUE /\ s.elements = seen[q].elements
          /\ s.spent = seen[q].spent /\ s.deleted = seen[q].deleted
      BY <2>1 DEF Sight
    <3> HIDE DEF s
    <3> QED
      BY <2>3, <3>1, <3>2
  <2> QED
    BY <2>2, <2>3
<1>4. TypeOK'
  <2>1. seen' \in [Req -> Sight]
    BY <1>1, <1>3
  <2> QED
    BY <1>1, <2>1 DEF TypeOK, Sight
<1>5. LiveInv'
  BY <1>1 DEF LiveInv
<1>6. SliceInv'
  <2>1. Elements(slice) = live /\ slice.len <= Len(Array)
    BY <1>1 DEF SliceInv
  <2>2. Len(live) = slice.len /\ \A j \in 1 .. slice.len : Array[j] = live[j]
    BY <2>1 DEF Elements, Array
  <2>3. SubSeq(live, 1, 0) = <<>> /\ SubSeq(Array, 1, 0) = <<>>
    BY SubSeqEmpty
  <2>4. Keep(SubSeq(live, 1, 0), Ex \ {x}) = <<>>
    BY <2>3, KeepEmpty
  <2>5. Filtering'
    <3>1. remover'.i - 1 = 0
      BY <1>2
    <3>2. Array' = Array /\ live' = live /\ slice' = slice
      BY <1>1 DEF Array
    <3>3. SubSeq(Array, 1, 0) = Keep(SubSeq(live, 1, 0), Ex \ {x})
      BY <2>3, <2>4
    <3>4. 1 \in 1 .. slice.len + 1 /\ 0 \in 0 .. 0
      OBVIOUS
    <3> QED
      BY <1>2, <2>2, <3>1, <3>2, <3>3, <3>4 DEF Filtering
  <2> QED
    BY <1>1, <1>2, <2>1, <2>5 DEF SliceInv, Array
<1>7. ASSUME NEW q \in Req PROVE SelectInv(q)'
  <2>1. SelectInv(q) /\ sel'[q] = sel[q] /\ (q \in InProgress' <=> q \in InProgress)
    BY <1>1 DEF RegistryInv, InProgress
  <2>2. q \in InProgress => WalkInv(q)' /\ seen'[q].raced
    BY <1>1, <1>3, <2>1 DEF SelectInv, WalkInv, Known
  <2>3. sel[q].pc = "done" => DoneInv(q)'
    <3> SUFFICES ASSUME sel[q].pc = "done" PROVE DoneInv(q)'
      OBVIOUS
    <3>1. seen'[q] = seen[q] /\ DoneInv(q)
      BY <1>3, <2>1 DEF InProgress, SelectInv
    <3>2. AddedGrows
      BY <1>1 DEF AddedGrows
    <3>3. None \notin Once
      BY RegistryAssumption
    <3> QED
      BY <1>1, <2>1, <3>1, <3>2, <3>3, DoneFrame
  <2> QED
    BY <1>1, <1>3, <2>1, <2>2, <2>3 DEF SelectInv
<1> QED
  BY <1>4, <1>5, <1>6, <1>7 DEF RegistryInv

(* One more element is looked at: it is left out or moved to the front. *)
LEMMA FilterGoesOn ==
  ASSUME RegistryInv, RemoveStep
  PROVE  /\ heap' \in [Addr -> Seq(Cell)] /\ slice.len <= Len(heap'[slice.arr])
         /\ Filtering'
         /\ \A a \in Addr : Len(heap'[a]) = Len(heap[a])
         /\ \A a \in Addr : \A j \in 1 .. Len(heap[a]) :
              heap'[a][j] = heap[a][j] \/ heap'[a][j] \in Range(live)
         /\ \A y \in once : y # remover.id => y \in once'
<1> TypeOK /\ SliceInv
  BY DEF RegistryInv
<1> USE TypeFacts
<1> DEFINE i == remover.i
           k == remover.kept
           S == Ex \ {remover.id}
           a == heap[slice.arr]
           x == heap[slice.arr][i]
<1>1. /\ remover.id # None /\ i <= slice.len /\ Filtering
      /\ UNCHANGED <<slice, clock, addedAt, sel, live, deleted, seen>>
  BY DEF RemoveStep, SliceInv
<1>2. /\ remover \in [id : Cell, i : Nat, kept : Nat] /\ slice.len = Len(live)
      /\ i \in 1 .. Len(live) /\ k \in 0 .. i - 1 /\ slice.len <= Len(a)
      /\ i \in Nat /\ k \in Nat
      /\ SubSeq(a, 1, k) = Keep(SubSeq(live, 1, i - 1), S)
      /\ \A j \in i .. Len(live) : a[j] = live[j]
  <2>1. remover \in [id : Cell, i : Nat, kept : Nat]
    BY DEF TypeOK, Cell
  <2>2. i \in Nat /\ k \in Nat
    BY <2>1
  <2>3. slice.len = Len(live) /\ slice.len <= Len(a) /\ i <= Len(live) /\ i \in 1 .. Len(live)
    BY <1>1, <2>2 DEF Filtering, Array, SliceInv
  <2>4. /\ k \in 0 .. i - 1 /\ SubSeq(a, 1, k) = Keep(SubSeq(live, 1, i - 1), S)
        /\ \A j \in i .. slice.len : a[j] = live[j]
    BY <1>1 DEF Filtering, Array
  <2> HIDE DEF i, k, S, a
  <2> QED
    BY <2>1, <2>2, <2>3, <2>4
<1>3. x = live[i] /\ x \in Ex /\ x \in Range(live) /\ x \in Cell
  BY <1>2, LenProperties DEF Range, Cell
<1>4. SubSeq(live, 1, i) = Append(SubSeq(live, 1, i - 1), x)
  BY <1>2, <1>3, FrontGrows
<1>5. SubSeq(live, 1, i - 1) \in Seq(Ex)
  BY <1>2
<1>6. Keep(SubSeq(live, 1, i), S) = IF x \in S THEN Append(SubSeq(a, 1, k), x) ELSE SubSeq(a, 1, k)
  <2> DEFINE f == SubSeq(live, 1, i - 1)
             g == SubSeq(live, 1, i)
             h == SubSeq(a, 1, k)
  <2>1. f \in Seq(Ex) /\ g = Append(f, x) /\ h = Keep(f, S) /\ x \in Ex
    BY <1>2, <1>3, <1>4, <1>5
  <2> HIDE DEF f, g, h, S, x
  <2>2. Keep(Append(f, x), S) = IF x \in S THEN Append(Keep(f, S), x) ELSE Keep(f, S)
    BY <2>1, KeepAppend
  <2>3. Keep(g, S) = IF x \in S THEN Append(h, x) ELSE h
    BY <2>1, <2>2
  <2> QED
    BY <2>3 DEF g, h
<1>7. a \in Seq(Cell) /\ Len(a) \in Nat /\ slice.arr \in Addr /\ heap \in [Addr -> Seq(Cell)]
  BY DEF Array
<1>8. CASE x = remover.id
  <2>1. /\ once' = once \ {x} /\ UNCHANGED heap
        /\ remover'.i = i + 1 /\ remover'.kept = k /\ remover'.id = remover.id
    BY <1>2, <1>8 DEF RemoveStep
  <2>2. Filtering'
    <3>1. SubSeq(a, 1, k) = Keep(SubSeq(live, 1, i), S)
      BY <1>6, <1>8
    <3>2. (i + 1) - 1 = i /\ i + 1 \in 1 .. Len(live) + 1 /\ k \in 0 .. i
          /\ \A j \in i + 1 .. Len(live) : a[j] = live[j]
      BY <1>2
    <3> HIDE DEF i, k, S, a
    <3>3. Array' = a /\ live' = live /\ slice' = slice
      BY <1>1, <2>1 DEF Array, a
    <3>4. slice'.len = Len(live)
      BY <1>2, <3>3
    <3> QED
      BY <2>1, <3>1, <3>2, <3>3, <3>4 DEF Filtering, S
  <2> QED
    BY <1>2, <1>7, <1>8, <2>1, <2>2
<1>9. CASE x # remover.id
  <2> DEFINE b == [a EXCEPT ![k + 1] = x]
  <2>1. /\ once' = once /\ heap' = [heap EXCEPT ![slice.arr] = b]
        /\ remover'.i = i + 1 /\ remover'.kept = k + 1 /\ remover'.id = remover.id
    BY <1>2, <1>9 DEF RemoveStep
  <2>2. k < Len(a) /\ k + 1 \in 1 .. Len(a)
    BY <1>2, <1>7
  <2>3. /\ b \in Seq(Cell) /\ Len(b) = Len(a) /\ SubSeq(b, 1, k + 1) = Append(SubSeq(a, 1, k), x)
        /\ \A j \in 1 .. Len(a) : b[j] = IF j = k + 1 THEN x ELSE a[j]
    <3> HIDE DEF x, k, a
    <3> QED
      BY <1>2, <1>3, <1>7, <2>2, FrontOfWrite, ExceptSeq
  <2> HIDE DEF b
  <2>4. heap'[slice.arr] = b /\ \A c \in Addr : c # slice.arr => heap'[c] = heap[c]
    BY <1>7, <2>1
  <2>5. Filtering'
    <3>1. SubSeq(b, 1, k + 1) = Keep(SubSeq(live, 1, i), S)
      BY <1>3, <1>6, <1>9, <2>3
    <3>2. (i + 1) - 1 = i /\ i + 1 \in 1 .. Len(live) + 1 /\ k + 1 \in 0 .. i
          /\ \A j \in i + 1 .. Len(live) : j \in 1 .. Len(a) /\ j # k + 1 /\ a[j] = live[j]
      BY <1>2, <1>7
    <3> HIDE DEF i, k, S, a
    <3>3. Array' = b /\ live' = live /\ slice' = slice
      BY <1>1, <2>4 DEF Array
    <3>4. slice'.len = Len(live)
      BY <1>2, <3>3
    <3>5. \A j \in i + 1 .. Len(live) : b[j] = live[j]
      BY <2>3, <3>2
    <3> QED
      BY <2>1, <3>1, <3>2, <3>3, <3>4, <3>5 DEF Filtering, S
  <2>6. heap' \in [Addr -> Seq(Cell)]
    BY <1>7, <2>1, <2>3
  <2>7. \A c \in Addr : /\ Len(heap'[c]) = Len(heap[c])
                        /\ \A j \in 1 .. Len(heap[c]) : heap'[c][j] = heap[c][j] \/ heap'[c][j] \in Range(live)
    BY <1>3, <2>3, <2>4
  <2> QED
    BY <1>2, <2>1, <2>3, <2>4, <2>5, <2>6, <2>7
<1> QED
  BY <1>8, <1>9

(* One step of the in-place filter keeps the invariant, although           *)
(* selections walk the same array.                                         *)
LEMMA RemoveStepKeepsInv ==
  ASSUME RegistryInv, RemoveStep
  PROVE  RegistryInv'
<1> TypeOK /\ LiveInv /\ SliceInv
  BY DEF RegistryInv
<1> USE TypeFacts
<1>1. /\ remover.id # None /\ UNCHANGED <<slice, clock, addedAt, sel, live, deleted, seen>>
      /\ once' \subseteq once
  BY DEF RemoveStep
<1>2. /\ remover' \in [id : Ex \cup {None}, i : Nat, kept : Nat] /\ remover'.id = remover.id
  <2>1. remover \in [id : Ex \cup {None}, i : Nat, kept : Nat]
    BY DEF TypeOK
  <2>2. \/ remover' = [remover EXCEPT !.i = @ + 1]
        \/ remover' = [remover EXCEPT !.i = @ + 1, !.kept = @ + 1]
    BY DEF RemoveStep
  <2>3. remover.i + 1 \in Nat /\ remover.kept + 1 \in Nat
    BY <2>1
  <2> QED
    BY <2>1, <2>2, <2>3
<1>3. TypeOK'
  BY <1>1, <1>2, FilterGoesOn DEF TypeOK, Cell
<1>4. LiveInv'
  BY <1>1 DEF LiveInv
<1>5. SliceInv'
  BY <1>1, <1>2, FilterGoesOn DEF SliceInv, Array
<1>6. ASSUME NEW q \in Req PROVE SelectInv(q)'
  <2>1. SelectInv(q) /\ sel'[q] = sel[q] /\ seen'[q] = seen[q] /\ (q \in InProgress' <=> q \in InProgress)
    BY <1>1 DEF RegistryInv, InProgress
  <2>2. AddedGrows
    BY <1>1 DEF AddedGrows
  <2>3. ASSUME q \in InProgress PROVE WalkInv(q)' /\ seen'[q].raced
    <3>1. Range(live) \subseteq Known(q)'
      BY <1>1, <2>1, RangeOfSeq DEF LiveInv, Known, SelectInv
    <3>2. WalkInv(q) /\ sel[q].len <= Len(heap[sel[q].arr])
      BY <2>1, <2>3 DEF SelectInv, WalkInv
    <3>3. Len(heap[sel[q].arr]) \in Nat /\ sel[q].len \in Nat
      BY LenProperties
    <3>4. \A j \in 1 .. sel[q].len : j \in 1 .. Len(heap[sel[q].arr])
      BY <3>2, <3>3
    <3>5. /\ Len(heap'[sel[q].arr]) = Len(heap[sel[q].arr])
          /\ \A j \in 1 .. sel[q].len : \/ heap'[sel[q].arr][j] = heap[sel[q].arr][j]
                                        \/ heap'[sel[q].arr][j] \in Known(q)'
      BY <3>1, <3>4, FilterGoesOn
    <3>6. seen[q].raced
      BY <1>1, <2>1, <2>3 DEF SelectInv, UndisturbedInv
    <3> QED
      BY <2>1, <2>2, <3>2, <3>5, <3>6, WalkFrame
  <2>4. sel[q].pc = "done" => DoneInv(q)'
    <3>1. \A x \in Ex : x \in once /\ x # remover.id => x \in once'
      BY FilterGoesOn
    <3> QED
      BY <1>1, <1>2, <2>1, <2>2, <3>1, DoneFrame DEF SelectInv
  <2> QED
    BY <1>1, <2>1, <2>3, <2>4 DEF SelectInv
<1> QED
  BY <1>3, <1>4, <1>5, <1>6 DEF RegistryInv

(* The nil slice is a slice without elements. *)
LEMMA EmptySlice ==
  ASSUME NEW h
  PROVE  /\ Empty \in [arr : Addr, len : Nat] /\ Empty.len = 0
         /\ SubSeq(h, 1, Empty.len) = <<>>
BY MemoryAssumption, SubSeqEmpty DEF Empty

(* The end of a removal keeps the invariant: what the filter left at the   *)
(* front is the registry without the removed example.                      *)
LEMMA RemoveEndKeepsInv ==
  ASSUME RegistryInv, RemoveEnd
  PROVE  RegistryInv'
<1> TypeOK /\ LiveInv /\ SliceInv
  BY DEF RegistryInv
<1> USE TypeFacts
<1> DEFINE S == Ex \ {remover.id}
           k == remover.kept
<1>1. /\ remover.id # None /\ remover.i > slice.len /\ Filtering
      /\ slice' = IF k = 0 THEN Empty ELSE [slice EXCEPT !.len = k]
      /\ remover' = Idle /\ live' = Keep(live, S)
      /\ deleted' = deleted \cup ({remover.id} \cap Range(live))
      /\ UNCHANGED <<heap, once, clock, addedAt, sel, seen>>
  BY DEF RemoveEnd, SliceInv
<1>2. remover'.id = None /\ remover' \in [id : Ex \cup {None}, i : Nat, kept : Nat]
  BY <1>1 DEF Idle
<1>3. live' \in Seq(Ex) /\ Range(live') = Range(live) \cap S /\ Range(live) \subseteq Ex
  <2>1. Ex \cap S \subseteq Ex
    OBVIOUS
  <2>2. live' \in Seq(Ex \cap S) /\ Range(live') = Range(live) \cap S
    BY <1>1, KeepRange
  <2>3. live' \in Seq(Ex)
    <3> HIDE DEF S
    <3> QED
      BY <2>1, <2>2, SeqMonotonic
  <2> QED
    BY <2>2, <2>3, RangeOfSeq
<1>4. k \in Nat /\ k <= slice.len /\ SubSeq(Array, 1, k) = live'
  <2>1. remover.i = slice.len + 1 /\ slice.len = Len(live) /\ k \in 0 .. slice.len
    BY <1>1 DEF Filtering
  <2>2. SubSeq(live, 1, remover.i - 1) = live
    BY <2>1, SubSeqFull
  <2>3. SubSeq(Array, 1, k) = Keep(SubSeq(live, 1, remover.i - 1), S)
    BY <1>1 DEF Filtering
  <2>4. SubSeq(Array, 1, k) = live'
    BY <1>1, <2>2, <2>3
  <2> QED
    BY <2>1, <2>4
<1>5. /\ slice' \in [arr : Addr, len : Nat] /\ slice'.len <= Len(heap'[slice'.arr])
      /\ SubSeq(heap'[slice'.arr], 1, slice'.len) = live'
  <2>1. CASE k = 0
    <3>1. slice' = Empty /\ live' = <<>>
      BY <1>1, <1>4, <2>1, SubSeqEmpty
    <3>2. Len(heap[Empty.arr]) \in Nat /\ Empty.len = 0 /\ Empty \in [arr : Addr, len : Nat]
      BY EmptySlice, LenProperties
    <3> QED
      BY <1>1, <3>1, <3>2, EmptySlice
  <2>2. CASE k # 0
    <3>1. slice' = [slice EXCEPT !.len = k] /\ slice'.arr = slice.arr /\ slice'.len = k
      BY <1>1, <2>2
    <3>2. slice' \in [arr : Addr, len : Nat]
      BY <1>4, <3>1
    <3>3. heap'[slice'.arr] = Array
      BY <1>1, <3>1 DEF Array
    <3>4. k <= Len(Array)
      BY <1>4 DEF SliceInv
    <3> QED
      BY <1>4, <3>1, <3>2, <3>3, <3>4
  <2> QED
    BY <2>1, <2>2
<1>6. TypeOK'
  BY <1>1, <1>2, <1>3, <1>5 DEF TypeOK
<1>7. LiveInv'
  BY <1>1, <1>3 DEF LiveInv
<1>8. SliceInv'
  BY <1>1, <1>2, <1>5 DEF SliceInv, Array, Elements
<1>9. ASSUME NEW q \in Req PROVE SelectInv(q)'
  <2>1. SelectInv(q) /\ sel'[q] = sel[q] /\ seen'[q] = seen[q] /\ (q \in InProgress' <=> q \in InProgress)
    BY <1>1 DEF RegistryInv, InProgress
  <2>2. AddedGrows
    BY <1>1 DEF AddedGrows
  <2>3. q \in InProgress => WalkInv(q)' /\ seen'[q].raced
    BY <1>1, <2>1, <2>2, WalkFrame DEF SelectInv, UndisturbedInv
  <2>4. sel[q].pc = "done" => DoneInv(q)'
    <3>1. \A x \in Ex : x \in Range(live') => x \in Range(live) /\ x # remover.id
      BY <1>3
    <3> QED
      BY <1>1, <1>2, <2>1, <2>2, <3>1, DoneFrame DEF SelectInv
  <2> QED
    BY <1>1, <2>1, <2>3, <2>4 DEF SelectInv
<1> QED
  BY <1>6, <1>7, <1>8, <1>9 DEF RegistryInv

(* The sweep moves what has not expired to a new array. *)
LEMMA SweepMoves ==
  ASSUME RegistryInv, sweepExpired
  PROVE  /\ heap' \in [Addr -> Seq(Cell)] /\ slice' \in [arr : Addr, len : Nat]
         /\ slice'.len <= Len(heap'[slice'.arr])
         /\ SubSeq(heap'[slice'.arr], 1, slice'.len) = live'
         /\ live' \in Seq(Ex) /\ Range(live') = Unexpired(live)
         /\ \A a \in Reachable : heap'[a] = heap[a]
         /\ slice'.len > 0 => slice'.arr \notin Reachable
<1> TypeOK /\ SliceInv
  BY DEF RegistryInv
<1> USE TypeFacts
<1> DEFINE kept == Keep(live, Unexpired(live))
           pad == [i \in 1 .. slice.len - Len(kept) |-> None]
<1>1. Elements(slice) = live /\ remover = Idle
  BY DEF SliceInv, sweepExpired, Idle
<1>2. /\ heap' = Alloc(kept \o pad) /\ live' = kept
      /\ slice' = IF kept = <<>> THEN Empty ELSE [arr |-> Fresh, len |-> Len(kept)]
  BY <1>1 DEF sweepExpired
<1>3. Len(live) = slice.len
  <2>1. SubSeq(Array, 1, slice.len) = live /\ slice.len <= Len(Array)
    BY <1>1 DEF SliceInv, Elements, Array
  <2> QED
    BY <2>1
<1>4. /\ kept \in Seq(Ex) /\ Range(kept) = Unexpired(live) /\ Len(kept) <= Len(live)
      /\ kept \in Seq(Cell) /\ Len(kept) \in Nat
  <2> DEFINE U == Unexpired(live)
  <2>1. U \subseteq Range(live) /\ Ex \cap U \subseteq Ex /\ Ex \cap U \subseteq Cell
    BY DEF Unexpired, Cell
  <2> HIDE DEF U
  <2>2. /\ Keep(live, U) \in Seq(Ex \cap U) /\ Range(Keep(live, U)) = Range(live) \cap U
        /\ Len(Keep(live, U)) <= Len(live)
    BY KeepRange, KeepLen
  <2>3. Keep(live, U) \in Seq(Ex) /\ Keep(live, U) \in Seq(Cell)
    BY <2>1, <2>2, SeqMonotonic
  <2>4. Len(Keep(live, U)) \in Nat
    BY <2>3, LenProperties
  <2> QED
    BY <2>1, <2>2, <2>3, <2>4 DEF U
<1>5. pad \in Seq(Cell)
  <2>1. slice.len - Len(kept) \in Nat
    BY <1>3, <1>4
  <2> HIDE DEF kept
  <2> QED
    BY <2>1 DEF Cell
<1> HIDE DEF kept, pad
<1>6. /\ kept \o pad \in Seq(Cell) /\ SubSeq(kept \o pad, 1, Len(kept)) = kept
      /\ Len(kept) <= Len(kept \o pad)
  BY <1>4, <1>5, ConcatProperties, FrontOfConcat, LenProperties
<1> DEFINE b == kept \o pad
<1> HIDE DEF b
<1>7. /\ heap' \in [Addr -> Seq(Cell)] /\ heap'[Fresh] = b
      /\ \A a \in Reachable : heap'[a] = heap[a]
  BY <1>2, <1>6, AllocProperties DEF b
<1>8. Fresh \in Addr /\ Fresh \notin Reachable
  BY FreshIsUnused
<1>9. CASE kept = <<>>
  <2>1. slice' = Empty /\ Empty.len = 0 /\ Empty \in [arr : Addr, len : Nat]
        /\ SubSeq(heap'[Empty.arr], 1, Empty.len) = <<>>
    BY <1>2, <1>9, EmptySlice
  <2>2. Len(heap'[Empty.arr]) \in Nat
    BY <1>7, <2>1, LenProperties
  <2> QED
    BY <1>2, <1>4, <1>7, <1>9, <2>1, <2>2
<1>10. CASE kept # <<>>
  <2>1. slice'.arr = Fresh /\ slice'.len = Len(kept) /\ slice' \in [arr : Addr, len : Nat]
    BY <1>2, <1>4, <1>8, <1>10
  <2> QED
    BY <1>2, <1>4, <1>6, <1>7, <1>8, <2>1 DEF b
<1> QED
  BY <1>9, <1>10

(* The sweep keeps the invariant: it drops only markers of examples that   *)
(* it drops as well and that have expired.                                 *)
LEMMA SweepKeepsInv ==
  ASSUME RegistryInv, sweepExpired
  PROVE  RegistryInv'
<1> TypeOK /\ LiveInv /\ SliceInv
  BY DEF RegistryInv
<1> USE TypeFacts
<1>1. /\ once' = once \ {x \in Range(Elements(slice)) : isExpired(x)} /\ remover = Idle
      /\ Elements(slice) = live
      /\ UNCHANGED <<clock, addedAt, remover, sel, deleted, seen>>
  BY DEF sweepExpired, SliceInv, Idle
<1>2. remover'.id = None
  BY <1>1 DEF Idle
<1>3. Range(live') \subseteq Range(live) /\ \A x \in Range(live') : ~isExpired(x)
  BY SweepMoves DEF Unexpired
<1>4. TypeOK'
  BY <1>1, SweepMoves DEF TypeOK, Cell
<1>5. LiveInv'
  BY <1>1, <1>3 DEF LiveInv
<1>6. SliceInv'
  BY <1>1, <1>2, SweepMoves DEF SliceInv, Array, Elements
<1>7. ASSUME NEW q \in Req PROVE SelectInv(q)'
  <2>1. SelectInv(q) /\ sel'[q] = sel[q] /\ seen'[q] = seen[q] /\ (q \in InProgress' <=> q \in InProgress)
    BY <1>1 DEF RegistryInv, InProgress
  <2>2. AddedGrows
    BY <1>1 DEF AddedGrows
  <2>3. q \in InProgress => heap'[sel[q].arr] = heap[sel[q].arr] /\ (slice'.len > 0 => sel[q].arr # slice'.arr)
    BY SweepMoves DEF Reachable
  <2>4. q \in InProgress => WalkInv(q)'
    BY <2>1, <2>2, <2>3, WalkFrame DEF SelectInv
  <2>5. ASSUME q \in InProgress, ~seen[q].raced PROVE UndisturbedInv(q)'
    <3>1. UndisturbedInv(q)
      BY <2>1, <2>5 DEF SelectInv
    <3>2. \A x \in Ex : isExpired(x)' <=> isExpired(x)
      BY <1>1 DEF isExpired
    <3>3. \A x \in Ex : addedAt[x] # None /\ (x \in once \/ isExpired(x)) => x \in once' \/ isExpired(x)'
      BY <1>1, <3>2
    <3> QED
      BY <1>2, <2>1, <2>2, <2>3, <2>5, <3>1, <3>3, UndisturbedFrame
  <2>6. sel[q].pc = "done" => DoneInv(q)'
    <3>1. \A x \in Ex : x \in once /\ x \in Range(live') => x \in once'
      BY <1>1, <1>3
    <3> QED
      BY <1>1, <1>3, <2>1, <2>2, <3>1, DoneFrame DEF SelectInv
  <2> QED
    BY <1>1, <2>1, <2>4, <2>5, <2>6 DEF SelectInv
<1> QED
  BY <1>4, <1>5, <1>6, <1>7 DEF RegistryInv

(* Time passes: what was spent stays spent. *)
LEMMA TickKeepsInv ==
  ASSUME RegistryInv, Tick
  PROVE  RegistryInv'
<1> TypeOK /\ LiveInv /\ SliceInv
  BY DEF RegistryInv
<1> USE TypeFacts
<1>1. /\ clock < MaxTime /\ clock' = clock + 1
      /\ UNCHANGED <<heap, slice, once, addedAt, remover, sel, live, deleted, seen>>
  BY DEF Tick
<1>2. TypeOK'
  <2>1. clock' \in 0 .. MaxTime
    BY <1>1, RegistryAssumption
  <2> QED
    BY <1>1, <2>1 DEF TypeOK
<1>3. LiveInv' /\ SliceInv'
  BY <1>1 DEF LiveInv, SliceInv, Filtering, Array, Elements
<1>4. ASSUME NEW q \in Req PROVE SelectInv(q)'
  <2>1. SelectInv(q) /\ sel'[q] = sel[q] /\ seen'[q] = seen[q] /\ (q \in InProgress' <=> q \in InProgress)
    BY <1>1 DEF RegistryInv, InProgress
  <2>2. AddedGrows
    BY <1>1 DEF AddedGrows
  <2>3. q \in InProgress => WalkInv(q)'
    BY <1>1, <2>1, <2>2, WalkFrame DEF SelectInv
  <2>4. ASSUME q \in InProgress, ~seen[q].raced PROVE UndisturbedInv(q)'
    <3>1. UndisturbedInv(q)
      BY <2>1, <2>4 DEF SelectInv
    <3>2. \A x \in Ex : addedAt[x] # None /\ isExpired(x) => isExpired(x)'
      <4> SUFFICES ASSUME NEW x \in Ex, addedAt[x] # None, isExpired(x) PROVE isExpired(x)'
        OBVIOUS
      <4>1. addedAt[x] \in Nat /\ TTL[x] \in Nat /\ clock \in Nat
        BY RegistryAssumption
      <4> QED
        BY <1>1, <4>1 DEF isExpired
    <3> QED
      BY <1>1, <2>1, <2>2, <3>1, <3>2, UndisturbedFrame DEF UndisturbedInv
  <2>5. sel[q].pc = "done" => DoneInv(q)'
    BY <1>1, <2>1, <2>2, DoneFrame DEF SelectInv
  <2> QED
    BY <1>1, <2>1, <2>3, <2>4, <2>5 DEF SelectInv
<1> QED
  BY <1>2, <1>3, <1>4 DEF RegistryInv

-----------------------------------------------------------------------------
(* Only the selection of q goes on; markers may be set. *)
LEMMA SelectionMoves ==
  ASSUME RegistryInv, NEW q \in Req, NEW s \in Selection, sel' = [sel EXCEPT ![q] = s],
         once \subseteq once', once' \subseteq Once, \A x \in once' : addedAt[x] # None,
         seen' \in [Req -> Sight], \A r \in Req \ {q} : seen'[r] = seen[r],
         UNCHANGED <<heap, slice, clock, addedAt, remover, live, deleted>>,
         SelectInv(q)'
  PROVE  RegistryInv'
<1> TypeOK /\ LiveInv /\ SliceInv
  BY DEF RegistryInv
<1> USE TypeFacts
<1>1. TypeOK'
  BY DEF TypeOK, Selection, Sight, Cell
<1>2. LiveInv' /\ SliceInv'
  BY DEF LiveInv, SliceInv, Filtering, Array, Elements
<1>3. ASSUME NEW r \in Req PROVE SelectInv(r)'
  <2>1. CASE r = q
    BY <2>1
  <2>2. CASE r # q
    <3>1. SelectInv(r) /\ sel'[r] = sel[r] /\ seen'[r] = seen[r] /\ (r \in InProgress' <=> r \in InProgress)
      BY <2>2 DEF RegistryInv, InProgress
    <3>2. AddedGrows
      BY DEF AddedGrows
    <3>3. r \in InProgress => WalkInv(r)'
      BY <3>1, <3>2, WalkFrame DEF SelectInv
    <3>4. ASSUME r \in InProgress, ~seen[r].raced PROVE UndisturbedInv(r)'
      <4>1. UndisturbedInv(r)
        BY <3>1, <3>4 DEF SelectInv
      <4>2. \A x \in Ex : isExpired(x)' <=> isExpired(x)
        BY DEF isExpired
      <4> QED
        BY <3>1, <3>2, <4>1, <4>2, UndisturbedFrame DEF UndisturbedInv
    <3>5. sel[r].pc = "done" => DoneInv(r)'
      BY <3>1, <3>2, DoneFrame DEF SelectInv
    <3> QED
      BY <3>1, <3>3, <3>4, <3>5 DEF SelectInv
  <2> QED
    BY <2>1, <2>2
<1> QED
  BY <1>1, <1>2, <1>3 DEF RegistryInv

(* A selection begins with the slice header it read under the lock. *)
LEMMA SelectBeginKeepsInv ==
  ASSUME RegistryInv, NEW q \in Req, SelectBegin(q)
  PROVE  RegistryInv'
<1> TypeOK /\ LiveInv /\ SliceInv /\ SelectInv(q)
  BY DEF RegistryInv
<1> USE TypeFacts
<1> DEFINE s == [sel[q] EXCEPT !.pc = "scan", !.arr = slice.arr, !.len = slice.len]
           v == [elements |-> Elements(slice),
                 spent    |-> once \cup {x \in Range(live) : isExpired(x)},
                 deleted  |-> deleted,
                 raced    |-> FALSE]
<1>1. /\ sel[q] = NoSelection /\ remover = Idle /\ remover.id = None
      /\ sel' = [sel EXCEPT ![q] = s] /\ seen' = [seen EXCEPT ![q] = v]
      /\ UNCHANGED <<heap, slice, once, clock, addedAt, remover, live, deleted>>
  BY DEF SelectBegin, SelectInv, Idle
<1>2. /\ s \in Selection /\ s.pc = "scan" /\ s.arr = slice.arr /\ s.len = slice.len /\ s.i = 1
  <2>1. sel[q] \in Selection /\ sel[q].i = 1
    BY <1>1 DEF NoSelection
  <2> QED
    BY <2>1 DEF Selection
<1>3. Elements(slice) = live /\ slice.len <= Len(Array) /\ Range(live) \subseteq Ex
  BY <1>1, RangeOfSeq DEF SliceInv
<1>4. Len(live) = slice.len /\ \A j \in 1 .. slice.len : heap[slice.arr][j] = live[j] /\ live[j] \in Range(live)
  <2>1. SubSeq(Array, 1, slice.len) = live
    BY <1>3 DEF Elements, Array
  <2>2. Len(live) = slice.len /\ \A j \in 1 .. slice.len : Array[j] = live[j]
    BY <1>3, <2>1
  <2> QED
    BY <2>2, LenProperties DEF Range, Array
<1>5. /\ v \in Sight /\ v.elements = live /\ v.deleted = deleted /\ v.raced = FALSE
      /\ v.spent = once \cup {x \in Range(live) : isExpired(x)}
  <2>1. once \subseteq Ex /\ deleted \subseteq Ex
    BY RegistryAssumption DEF TypeOK
  <2> QED
    BY <1>3, <2>1 DEF Sight
<1> HIDE DEF s, v
<1>6. sel'[q] = s /\ seen'[q] = v
  BY <1>1
<1>7. WalkInv(q)'
  <2>1. Range(live) \subseteq Known(q)'
    BY <1>1, <1>3, <1>5, <1>6 DEF Known, LiveInv
  <2>2. 1 \in 1 .. slice.len + 1
    OBVIOUS
  <2> QED
    BY <1>1, <1>2, <1>3, <1>4, <1>6, <2>1, <2>2 DEF WalkInv, Array
<1>8. UndisturbedInv(q)'
  <2>1. 1 .. 1 - 1 = {}
    OBVIOUS
  <2>2. \A x \in v.spent : addedAt'[x] # None /\ (x \in once' \/ isExpired(x)')
    <3>1. \A x \in once : addedAt[x] # None
      BY DEF LiveInv
    <3> QED
      BY <1>1, <1>5, <3>1 DEF LiveInv, isExpired
  <2> QED
    BY <1>1, <1>2, <1>4, <1>5, <1>6, <2>1, <2>2 DEF UndisturbedInv
<1>9. SelectInv(q)'
  BY <1>1, <1>2, <1>5, <1>6, <1>7, <1>8 DEF SelectInv
<1>10. once \subseteq Once /\ seen' \in [Req -> Sight] /\ \A x \in once : addedAt[x] # None
  BY <1>1, <1>5 DEF TypeOK, LiveInv
<1> QED
  BY <1>1, <1>2, <1>9, <1>10, SelectionMoves

(* What a selection in progress knows. *)
LEMMA WalkFacts ==
  ASSUME RegistryInv, NEW q \in Req, sel[q].pc \in {"scan", "half", "check", "mark"}
  PROVE  /\ q \in InProgress /\ SelectInv(q) /\ WalkInv(q)
         /\ ~seen[q].raced => UndisturbedInv(q)
         /\ sel[q] \in Selection /\ sel \in [Req -> Selection] /\ seen \in [Req -> Sight]
         /\ once \subseteq Once /\ \A x \in once : addedAt[x] # None
         /\ seen[q].elements \in Seq(Ex) /\ None \notin Ex
BY TypeFacts, RegistryAssumption DEF RegistryInv, InProgress, SelectInv, TypeOK, LiveInv

(* Reading either half of an element keeps the invariant, even when a      *)
(* removal writes between the two.                                         *)
LEMMA SelectReadKeepsInv ==
  ASSUME RegistryInv, NEW q \in Req, NEW half \in {"id", "content"},
         SelectReadHalf(q, half) \/ SelectReadRest(q)
  PROVE  RegistryInv'
<1> DEFINE x == heap[sel[q].arr][sel[q].i]
<1>1. sel[q].pc \in {"scan", "half"}
  BY DEF SelectReadHalf, SelectReadRest
<1>2. /\ q \in InProgress /\ SelectInv(q) /\ WalkInv(q)
      /\ ~seen[q].raced => UndisturbedInv(q)
      /\ sel[q] \in Selection /\ sel \in [Req -> Selection] /\ seen \in [Req -> Sight]
      /\ once \subseteq Once /\ (\A y \in once : addedAt[y] # None) /\ None \notin Ex
  BY <1>1, WalkFacts
<1>3. sel[q].i \in 1 .. sel[q].len /\ x \in Known(q) /\ x \in Ex /\ x # None
  <2>1. sel[q].i \in Nat /\ sel[q].len \in Nat
    BY <1>2 DEF Selection
  <2>2. sel[q].i \in 1 .. sel[q].len
    BY <1>2, <2>1 DEF WalkInv, SelectReadHalf, SelectReadRest
  <2> QED
    BY <1>2, <2>2 DEF WalkInv, Known
<1>4. ~seen[q].raced => x = seen[q].elements[sel[q].i]
  BY <1>2, <1>3 DEF UndisturbedInv
<1> HIDE DEF x
<1>5. PICK step \in {"half", "check"}, id \in Known(q) \cup {None}, content \in Known(q) \cup {None} :
        /\ sel' = [sel EXCEPT ![q] = [sel[q] EXCEPT !.pc = step, !.id = id, !.content = content]]
        /\ step = "check" => id # None /\ content # None
        /\ ~seen[q].raced => id \in {x, None} /\ content \in {x, None}
  <2>1. CASE SelectReadHalf(q, half)
    <3> DEFINE id == IF half = "id" THEN x ELSE None
               content == IF half = "content" THEN x ELSE None
    <3>1. sel' = [sel EXCEPT ![q] = [sel[q] EXCEPT !.pc = "half", !.id = id, !.content = content]]
      BY <1>2, <2>1 DEF SelectReadHalf, x
    <3>2. id \in {x, None} /\ content \in {x, None}
      OBVIOUS
    <3> HIDE DEF id, content
    <3> QED
      BY <1>3, <3>1, <3>2
  <2>2. CASE SelectReadRest(q)
    <3> DEFINE id == IF sel[q].id = None THEN x ELSE sel[q].id
               content == IF sel[q].content = None THEN x ELSE sel[q].content
    <3>1. sel' = [sel EXCEPT ![q] = [sel[q] EXCEPT !.pc = "check", !.id = id, !.content = content]]
      BY <1>2, <2>2 DEF SelectReadRest, x
    <3>2. sel[q].id \in Known(q) \cup {None} /\ sel[q].content \in Known(q) \cup {None}
      BY <1>2, <2>2 DEF SelectReadRest, WalkInv
    <3>3. ~seen[q].raced => sel[q].id \in {x, None} /\ sel[q].content \in {x, None}
      BY <1>2, <1>4, <2>2 DEF SelectReadRest, UndisturbedInv
    <3>4. id \in Known(q) /\ content \in Known(q) /\ id # None /\ content # None
      BY <1>2, <1>3, <3>2 DEF Known
    <3>5. ~seen[q].raced => id \in {x, None} /\ content \in {x, None}
      BY <3>3
    <3> HIDE DEF id, content
    <3> QED
      BY <3>1, <3>4, <3>5
  <2> QED
    BY <2>1, <2>2
<1> DEFINE s == [sel[q] EXCEPT !.pc = step, !.id = id, !.content = content]
<1>6. /\ s \in Selection /\ s.pc = step /\ s.id = id /\ s.content = content /\ s.arr = sel[q].arr
      /\ s.len = sel[q].len /\ s.i = sel[q].i /\ s.result = sel[q].result
  BY <1>2 DEF Selection, Cell, Known
<1>7. UNCHANGED <<heap, slice, once, clock, addedAt, remover, live, deleted, seen>>
  BY DEF SelectReadHalf, SelectReadRest
<1> HIDE DEF s
<1>8. sel'[q] = s /\ sel' = [sel EXCEPT ![q] = s]
  BY <1>2, <1>5 DEF s
<1>9. WalkInv(q)'
  <2>1. Known(q)' = Known(q)
    BY <1>7 DEF Known
  <2> QED
    BY <1>2, <1>3, <1>5, <1>6, <1>7, <1>8, <2>1 DEF WalkInv
<1>10. ASSUME ~seen[q].raced PROVE UndisturbedInv(q)'
  <2>1. \A y : isExpired(y)' <=> isExpired(y)
    BY <1>7 DEF isExpired
  <2>2. UndisturbedInv(q)
    BY <1>2, <1>10
  <2>3. /\ step = "half" => id \in {seen[q].elements[sel[q].i], None} /\ content \in {seen[q].elements[sel[q].i], None}
        /\ step = "check" => id = seen[q].elements[sel[q].i] /\ content = seen[q].elements[sel[q].i]
    BY <1>4, <1>5, <1>10
  <2> QED
    BY <1>5, <1>6, <1>7, <1>8, <2>1, <2>2, <2>3 DEF UndisturbedInv, AlwaysEligible
<1>11. SelectInv(q)'
  BY <1>2, <1>5, <1>6, <1>7, <1>8, <1>9, <1>10 DEF SelectInv
<1> QED
  BY <1>2, <1>6, <1>7, <1>8, <1>11, SelectionMoves

(* What a selection that returned x looks like. *)
LEMMA ReturnedFields ==
  ASSUME NEW x \in Cell
  PROVE  Returned(x) \in Selection /\ Returned(x).pc = "done" /\ Returned(x).result = x
BY EmptySlice DEF Returned, NoSelection, Selection, Cell

(* A selection returns. *)
LEMMA ReturnKeepsInv ==
  ASSUME RegistryInv, NEW q \in Req, NEW x \in Cell, sel' = [sel EXCEPT ![q] = Returned(x)],
         once \subseteq once', once' \subseteq Once, \A y \in once' : addedAt[y] # None,
         UNCHANGED <<heap, slice, clock, addedAt, remover, live, deleted, seen>>,
         x \in Known(q) \cup {None},
         ~seen[q].raced =>
            /\ \A i \in DOMAIN seen[q].elements :
                 AlwaysEligible(q, seen[q].elements[i]) => \E j \in 1 .. i : x = seen[q].elements[j]
            /\ x \notin seen[q].spent
            /\ x \in Once => x \in once'
  PROVE  RegistryInv'
<1>1. sel \in [Req -> Selection] /\ seen \in [Req -> Sight] /\ SelectInv(q)
  BY TypeFacts DEF RegistryInv
<1>2. sel'[q] = Returned(x) /\ sel'[q].result = x /\ sel'[q].pc = "done" /\ Returned(x) \in Selection
  BY <1>1, ReturnedFields
<1>3. DoneInv(q)'
  <2>1. Known(q)' = Known(q)
    BY DEF Known
  <2> QED
    BY <1>2, <2>1 DEF DoneInv, SelectsFirst, AlwaysEligible
<1>4. SelectInv(q)'
  BY <1>1, <1>2, <1>3 DEF SelectInv, InProgress
<1> QED
  BY <1>1, <1>2, <1>4, SelectionMoves

(* The eligibility check keeps the invariant: it skips only what is not    *)
(* eligible all along and goes on only with what was not spent at the      *)
(* beginning.                                                              *)
LEMMA SelectCheckKeepsInv ==
  ASSUME RegistryInv, NEW q \in Req, SelectCheck(q)
  PROVE  RegistryInv'
<1> DEFINE s == sel[q]
           e == seen[q].elements
<1>1. /\ s.pc = "check"
      /\ UNCHANGED <<heap, slice, once, clock, addedAt, remover, live, deleted, seen>>
  BY DEF SelectCheck
<1>2. /\ q \in InProgress /\ SelectInv(q) /\ WalkInv(q)
      /\ ~seen[q].raced => UndisturbedInv(q)
      /\ s \in Selection /\ sel \in [Req -> Selection] /\ seen \in [Req -> Sight]
      /\ once \subseteq Once /\ (\A y \in once : addedAt[y] # None) /\ None \notin Ex /\ e \in Seq(Ex)
  BY <1>1, WalkFacts
<1>3. /\ s.id \in Known(q) /\ s.content \in Known(q) /\ s.i \in 1 .. s.len + 1 /\ s.i <= s.len
      /\ s.i \in Nat /\ s.len \in Nat /\ s.i \in 1 .. s.len
  <2>1. s.i \in Nat /\ s.len \in Nat
    BY <1>2 DEF Selection
  <2>2. s.id \in Known(q) /\ s.content \in Known(q) /\ s.i \in 1 .. s.len + 1 /\ s.i <= s.len
    BY <1>1, <1>2 DEF WalkInv
  <2> QED
    BY <2>1, <2>2
<1>4. ~seen[q].raced => /\ s.id = e[s.i] /\ s.content = e[s.i] /\ s.len = Len(e)
                        /\ \A j \in 1 .. s.i - 1 : ~AlwaysEligible(q, e[j])
  BY <1>1, <1>2 DEF UndisturbedInv
<1>5. Known(q)' = Known(q) /\ \A y : isExpired(y)' <=> isExpired(y)
  BY <1>1 DEF Known, isExpired
<1>6. ASSUME ~seen[q].raced, exampleEligible(q) PROVE s.content \notin seen[q].spent
  <2>1. s.id = s.content /\ ~(s.id \in Once /\ s.id \in once) /\ ~isExpired(s.content)
    BY <1>4, <1>6 DEF exampleEligible
  <2> QED
    BY <1>2, <1>6, <2>1 DEF UndisturbedInv
<1>7. CASE ~exampleEligible(q)
  <2> DEFINE r == [s EXCEPT !.pc = "scan", !.i = s.i + 1, !.id = None, !.content = None]
  <2>1. sel' = [sel EXCEPT ![q] = r]
    BY <1>7 DEF SelectCheck
  <2>2. r \in Selection /\ r.pc = "scan" /\ r.i = s.i + 1 /\ r.arr = s.arr /\ r.len = s.len
    <3> DEFINE n == s.i + 1
    <3>1. n \in Nat
      BY <1>3
    <3> HIDE DEF n, s
    <3>2. r = [s EXCEPT !.pc = "scan", !.i = n, !.id = None, !.content = None]
      BY DEF n
    <3> HIDE DEF r
    <3>3. r \in Selection
      BY <1>2, <3>1, <3>2 DEF Selection, Cell
    <3>4. r.pc = "scan" /\ r.i = n /\ r.arr = s.arr /\ r.len = s.len
      BY <1>2, <3>2 DEF Selection
    <3> QED
      BY <3>3, <3>4 DEF n
  <2> HIDE DEF r
  <2>3. sel'[q] = r
    BY <1>2, <2>1
  <2>4. WalkInv(q)'
    <3>1. r.i \in 1 .. r.len + 1
      BY <1>3, <2>2
    <3>2. s.len <= Len(heap[s.arr]) /\ \A j \in 1 .. s.len : heap[s.arr][j] \in Known(q)
      BY <1>2 DEF WalkInv
    <3> HIDE DEF s, e
    <3> QED
      BY <1>1, <1>5, <2>2, <2>3, <3>1, <3>2 DEF WalkInv
  <2>5. ASSUME ~seen[q].raced PROVE UndisturbedInv(q)'
    <3>1. UndisturbedInv(q)
      BY <1>2, <2>5
    <3>2. ~AlwaysEligible(q, e[s.i])
      <4>1. s.content = e[s.i] /\ s.id = e[s.i] /\ e[s.i] \in Ex
        BY <1>3, <1>4, <2>5 DEF Known
      <4>2. TTL[e[s.i]] = 0 => ~isExpired(e[s.i])
        BY DEF isExpired
      <4> QED
        BY <1>7, <4>1, <4>2 DEF exampleEligible, AlwaysEligible
    <3>3. \A j \in 1 .. r.i - 1 : ~AlwaysEligible(q, e[j])
      <4>1. \A j \in 1 .. r.i - 1 : j = s.i \/ j \in 1 .. s.i - 1
        BY <1>3, <2>2
      <4> HIDE DEF s, e
      <4> QED
        BY <1>4, <2>5, <3>2, <4>1
    <3> QED
      BY <1>1, <1>5, <2>2, <2>3, <3>1, <3>3 DEF UndisturbedInv, AlwaysEligible
  <2>6. SelectInv(q)'
    BY <1>1, <1>2, <2>2, <2>3, <2>4, <2>5 DEF SelectInv
  <2> QED
    BY <1>1, <1>2, <2>1, <2>2, <2>6, SelectionMoves
<1>8. CASE exampleEligible(q) /\ s.id \in Once
  <2> DEFINE r == [s EXCEPT !.pc = "mark"]
  <2>1. sel' = [sel EXCEPT ![q] = r]
    BY <1>2, <1>8 DEF SelectCheck
  <2>2. r \in Selection /\ r.pc = "mark" /\ r.i = s.i /\ r.arr = s.arr /\ r.len = s.len
        /\ r.id = s.id /\ r.content = s.content
    BY <1>2 DEF Selection
  <2> HIDE DEF r
  <2>3. sel'[q] = r
    BY <1>2, <2>1
  <2>4. WalkInv(q)'
    BY <1>1, <1>2, <1>3, <1>5, <1>8, <2>2, <2>3 DEF WalkInv
  <2>5. ASSUME ~seen[q].raced PROVE UndisturbedInv(q)'
    <3>1. UndisturbedInv(q)
      BY <1>2, <2>5
    <3>2. s.content \in Once /\ s.content \notin seen[q].spent
      BY <1>4, <1>6, <1>8, <2>5
    <3> QED
      BY <1>1, <1>4, <1>5, <2>2, <2>3, <2>5, <3>1, <3>2 DEF UndisturbedInv, AlwaysEligible
  <2>6. SelectInv(q)'
    BY <1>1, <1>2, <2>2, <2>3, <2>4, <2>5 DEF SelectInv
  <2> QED
    BY <1>1, <1>2, <2>1, <2>2, <2>6, SelectionMoves
<1>9. CASE exampleEligible(q) /\ s.id \notin Once
  <2>1. sel' = [sel EXCEPT ![q] = Returned(s.content)]
    BY <1>2, <1>9 DEF SelectCheck
  <2>2. s.content \in Cell
    BY <1>3 DEF Known, Cell
  <2>3. ASSUME ~seen[q].raced
        PROVE  /\ \A i \in DOMAIN e : AlwaysEligible(q, e[i]) => \E j \in 1 .. i : s.content = e[j]
               /\ s.content \notin seen[q].spent /\ s.content \notin Once
    <3>1. \A i \in DOMAIN e : i \in Nat /\ i \in 1 .. Len(e)
      BY <1>2, LenProperties
    <3>2. \A i \in DOMAIN e : AlwaysEligible(q, e[i]) => s.i \in 1 .. i
      <4>1. \A i \in DOMAIN e : i \in 1 .. s.i - 1 \/ s.i \in 1 .. i
        BY <1>3, <3>1
      <4> HIDE DEF s, e
      <4> QED
        BY <1>4, <2>3, <4>1
    <3>3. s.content = e[s.i] /\ s.content \notin Once /\ s.content \notin seen[q].spent
      BY <1>4, <1>6, <1>9, <2>3
    <3> HIDE DEF s, e
    <3> QED
      BY <3>2, <3>3
  <2> QED
    BY <1>1, <1>2, <1>3, <2>1, <2>2, <2>3, ReturnKeepsInv
<1> QED
  BY <1>7, <1>8, <1>9

(* Marking a one-time example and returning it keeps the invariant. *)
LEMMA SelectMarkKeepsInv ==
  ASSUME RegistryInv, NEW q \in Req, SelectMark(q)
  PROVE  RegistryInv'
<1> DEFINE s == sel[q]
           e == seen[q].elements
<1>1. /\ s.pc = "mark" /\ once' = once \cup {s.id} /\ sel' = [sel EXCEPT ![q] = Returned(s.content)]
      /\ UNCHANGED <<heap, slice, clock, addedAt, remover, live, deleted, seen>>
  BY DEF SelectMark
<1>2. /\ WalkInv(q) /\ (~seen[q].raced => UndisturbedInv(q)) /\ s \in Selection
      /\ once \subseteq Once /\ (\A y \in once : addedAt[y] # None) /\ e \in Seq(Ex)
  BY <1>1, WalkFacts
<1>3. s.i \in Nat /\ s.len \in Nat
  BY <1>2 DEF Selection
<1>4. s.id \in Known(q) /\ s.content \in Known(q) /\ s.id \in Once /\ s.i \in 1 .. s.len
  BY <1>1, <1>2, <1>3 DEF WalkInv
<1>5. s.content \in Cell /\ once' \subseteq Once /\ \A y \in once' : addedAt[y] # None
  BY <1>1, <1>2, <1>4 DEF Known, Cell
<1>6. ASSUME ~seen[q].raced
      PROVE  /\ \A i \in DOMAIN e : AlwaysEligible(q, e[i]) => \E j \in 1 .. i : s.content = e[j]
             /\ s.content \notin seen[q].spent /\ s.content \in once'
  <2>1. /\ s.id = e[s.i] /\ s.content = e[s.i] /\ s.content \notin seen[q].spent
        /\ \A j \in 1 .. s.i - 1 : ~AlwaysEligible(q, e[j])
    BY <1>1, <1>2, <1>6 DEF UndisturbedInv
  <2>2. \A i \in DOMAIN e : i \in Nat /\ i \in 1 .. Len(e)
    BY <1>2, LenProperties
  <2>3. \A i \in DOMAIN e : i \in 1 .. s.i - 1 \/ s.i \in 1 .. i
    BY <1>3, <1>4, <2>2
  <2>4. s.content \in once'
    BY <1>1, <2>1
  <2> HIDE DEF s, e
  <2> QED
    BY <2>1, <2>3, <2>4
<1> QED
  BY <1>1, <1>4, <1>5, <1>6, ReturnKeepsInv

(* A walk that came to the end of the slice found nothing eligible all     *)
(* along.                                                                  *)
LEMMA SelectNoneKeepsInv ==
  ASSUME RegistryInv, NEW q \in Req, SelectNone(q)
  PROVE  RegistryInv'
<1> DEFINE s == sel[q]
           e == seen[q].elements
<1>1. /\ s.pc = "scan" /\ s.i > s.len /\ sel' = [sel EXCEPT ![q] = Returned(None)]
      /\ UNCHANGED <<heap, slice, once, clock, addedAt, remover, live, deleted, seen>>
  BY DEF SelectNone
<1>2. /\ (~seen[q].raced => UndisturbedInv(q)) /\ s \in Selection /\ seen \in [Req -> Sight]
      /\ once \subseteq Once /\ (\A y \in once : addedAt[y] # None) /\ e \in Seq(Ex) /\ None \notin Ex
  BY <1>1, WalkFacts
<1>3. s.i \in Nat /\ s.len \in Nat
  BY <1>2 DEF Selection
<1>4. None \in Cell /\ None \notin Once /\ None \notin seen[q].spent
  BY <1>2, RegistryAssumption DEF Cell, Sight
<1>5. ASSUME ~seen[q].raced, NEW i \in DOMAIN e PROVE ~AlwaysEligible(q, e[i])
  <2>1. s.len = Len(e) /\ \A j \in 1 .. s.i - 1 : ~AlwaysEligible(q, e[j])
    BY <1>2, <1>5 DEF UndisturbedInv
  <2>2. i \in Nat /\ i \in 1 .. Len(e)
    BY <1>2, LenProperties
  <2>3. i \in 1 .. s.i - 1
    BY <1>1, <1>3, <2>1, <2>2
  <2> QED
    BY <2>1, <2>3
<1> QED
  BY <1>1, <1>2, <1>4, <1>5, ReturnKeepsInv

-----------------------------------------------------------------------------
(* The empty registry satisfies the invariant. *)
LEMMA RegistryInitInv == Init => RegistryInv
<1> SUFFICES ASSUME Init PROVE RegistryInv
  OBVIOUS
<1>1. Empty \in [arr : Addr, len : Nat] /\ Empty.len = 0
  BY EmptySlice
<1>2. NoSelection \in Selection /\ NoSelection.pc = "idle"
  BY EmptySlice DEF NoSelection, Selection, Cell
<1>3. <<>> \in Seq(Cell) /\ <<>> \in Seq(Ex) /\ Len(<<>>) = 0
  BY EmptySeq
<1>4. TypeOK
  <2>1. /\ heap \in [Addr -> Seq(Cell)] /\ slice \in [arr : Addr, len : Nat] /\ live \in Seq(Ex)
        /\ sel \in [Req -> Selection] /\ seen \in [Req -> Sight]
    BY <1>1, <1>2, <1>3 DEF Init, Sight
  <2>2. remover \in [id : Ex \cup {None}, i : Nat, kept : Nat]
    BY DEF Init, Idle
  <2>3. once \subseteq Once /\ clock \in 0 .. MaxTime /\ deleted \subseteq Ex
        /\ addedAt \in [Ex -> 0 .. MaxTime \cup {None}]
    BY RegistryAssumption DEF Init
  <2> QED
    BY <2>1, <2>2, <2>3 DEF TypeOK, Selection, Sight, Cell
<1>5. Range(live) = {}
  BY EmptyRange DEF Init
<1>6. LiveInv
  BY <1>5 DEF LiveInv, Init
<1>7. SliceInv
  <2>1. slice.arr \in Addr /\ slice.len = 0 /\ heap[slice.arr] = <<>> /\ remover.id = None
    BY <1>1 DEF Init, Idle
  <2>2. Elements(slice) = <<>>
    BY <2>1, <1>3 DEF Elements
  <2> QED
    BY <1>3, <2>1, <2>2 DEF SliceInv, Array, Init
<1>8. ASSUME NEW q \in Req PROVE SelectInv(q)
  BY <1>2 DEF SelectInv, Init, InProgress
<1> QED
  BY <1>4, <1>6, <1>7, <1>8 DEF RegistryInv

(* Every step of the registry keeps the invariant. *)
LEMMA RegistryNextInv == RegistryInv /\ [Next]_vars => RegistryInv'
<1> SUFFICES ASSUME RegistryInv, [Next]_vars PROVE RegistryInv'
  OBVIOUS
<1>1. ASSUME NEW x \in Ex, addDynamic(x) PROVE RegistryInv'
  BY <1>1, AddKeepsInv
<1>2. ASSUME NEW x \in Ex, removeDynamic(x) PROVE RegistryInv'
  BY <1>2, RemoveKeepsInv
<1>3. CASE RemoveStep
  BY <1>3, RemoveStepKeepsInv
<1>4. CASE RemoveEnd
  BY <1>4, RemoveEndKeepsInv
<1>5. CASE sweepExpired
  BY <1>5, SweepKeepsInv
<1>6. CASE Tick
  BY <1>6, TickKeepsInv
<1>7. ASSUME NEW q \in Req, SelectBegin(q) PROVE RegistryInv'
  BY <1>7, SelectBeginKeepsInv
<1>8. ASSUME NEW q \in Req, NEW half \in {"id", "content"}, SelectReadHalf(q, half) PROVE RegistryInv'
  BY <1>8, SelectReadKeepsInv
<1>9. ASSUME NEW q \in Req, SelectReadRest(q) PROVE RegistryInv'
  BY <1>9, SelectReadKeepsInv
<1>10. ASSUME NEW q \in Req, SelectCheck(q) PROVE RegistryInv'
  BY <1>10, SelectCheckKeepsInv
<1>11. ASSUME NEW q \in Req, SelectMark(q) PROVE RegistryInv'
  BY <1>11, SelectMarkKeepsInv
<1>12. ASSUME NEW q \in Req, SelectNone(q) PROVE RegistryInv'
  BY <1>12, SelectNoneKeepsInv
<1>13. CASE UNCHANGED vars
  <2>1. TypeOK' /\ LiveInv' /\ SliceInv'
    BY <1>13 DEF vars, RegistryInv, TypeOK, LiveInv, SliceInv, Filtering, Array, Elements
  <2>2. ASSUME NEW q \in Req PROVE SelectInv(q)'
    <3>1. SelectInv(q) /\ (q \in InProgress' <=> q \in InProgress) /\ Known(q)' = Known(q)
      BY <1>13 DEF vars, RegistryInv, InProgress, Known
    <3>2. WalkInv(q) => WalkInv(q)'
      BY <1>13, <3>1 DEF vars, WalkInv
    <3>3. UndisturbedInv(q) => UndisturbedInv(q)'
      BY <1>13 DEF vars, UndisturbedInv, AlwaysEligible, isExpired
    <3>4. DoneInv(q) => DoneInv(q)'
      BY <1>13, <3>1 DEF vars, DoneInv, SelectsFirst, AlwaysEligible
    <3> QED
      BY <1>13, <3>1, <3>2, <3>3, <3>4 DEF vars, SelectInv
  <2> QED
    BY <2>1, <2>2 DEF RegistryInv
<1> QED
  BY <1>1, <1>2, <1>3, <1>4, <1>5, <1>6, <1>7, <1>8, <1>9, <1>10, <1>11, <1>12, <1>13 DEF Next

(* The inductive invariant holds throughout, for any number of examples,   *)
(* requests and arrays.                                                    *)
THEOREM RegistryInvariant == Spec => []RegistryInv
BY RegistryInitInv, RegistryNextInv, PTL DEF Spec

(* Type correctness of the registry. *)
THEOREM RegistryTypes == Spec => []TypeOK
<1>1. RegistryInv => TypeOK
  BY DEF RegistryInv
<1> QED
  BY <1>1, RegistryInvariant, PTL

(* Whenever dyMu is free, the slice that registry.go keeps holds exactly   *)
(* the registered examples in the order of their POSTs, whatever append,   *)
(* the in-place filter of removeDynamic and the sweep did to the backing   *)
(* arrays.                                                                 *)
THEOREM SliceIsTheRegistry == Spec => []SliceHoldsLive
<1>1. RegistryInv => SliceHoldsLive
  BY DEF RegistryInv, SliceInv, SliceHoldsLive, Idle
<1> QED
  BY <1>1, RegistryInvariant, PTL

(* selectDynamic returns nothing whose DELETE had returned before it       *)
(* began, although it walks the array without the lock; undisturbed by     *)
(* deletions it returns the first example that is eligible all along or an *)
(* earlier one, nothing that was used up or expired when it began, and its *)
(* one-time example stays marked.                                          *)
THEOREM SelectionsAreSound == Spec => []SelectionIsSound
<1>1. RegistryInv => SelectionIsSound
  <2> SUFFICES ASSUME RegistryInv, NEW q \in Req, sel[q].pc = "done"
               PROVE  /\ sel[q].result \notin seen[q].deleted
                      /\ ~seen[q].raced =>
                           /\ SelectsFirst(q) /\ sel[q].result \notin seen[q].spent
                           /\ sel[q].result \in (Once \cap Range(live)) \ {remover.id}
                                => sel[q].result \in once
    BY DEF SelectionIsSound
  <2>1. DoneInv(q) /\ seen[q].deleted \subseteq Ex
    BY TypeFacts DEF RegistryInv, SelectInv
  <2>2. sel[q].result \notin seen[q].deleted
    BY <2>1, RegistryAssumption DEF DoneInv, Known
  <2> QED
    BY <2>1, <2>2 DEF DoneInv
<1> QED
  BY <1>1, RegistryInvariant, PTL

-----------------------------------------------------------------------------
(* The registration of triggers. *)

(* The identity under which an example is subscribed. *)
IsIdentityOf(x, identity) ==
  \/ identity \notin NoText /\ [key |-> "event.name", val |-> identity] \in x.match
  \/ identity = AnyIdentity /\ \A cond \in x.match : cond.key = "event.name" => cond.val \in NoText

(* The faults of an example that the code looks for. *)
Faulty(x) == Misdeclared(x) \/ (BadDelay(x) /\ ~IsPeriodic(x))

Identities == {AnyIdentity} \cup UNION {{cond.val : cond \in Of(ref).match} : ref \in Refs}

Subscriptions == [ref : Refs, identity : Identities]

SetupTyped ==
  /\ docs \in Documents
  /\ schema \in 1 .. Len(docs) + 1
  /\ next \in Nat \ {0}
  /\ pc \in {"classify", "schedule", "done", "failed"}
  /\ subs \in Seq(Subscriptions) /\ broker \in Seq(Subscriptions)
  /\ periodic \in Seq(Nat)
  /\ \A j \in DOMAIN jobs : jobs[j] \in Refs

(* What has been classified, and committed. *)
IsClassified(ref) == ref[1] < schema \/ (ref[1] = schema /\ ref[2] < next)
IsCommitted(ref)  == ref[1] < schema \/ (ref[1] = schema /\ pc = "schedule")

Right(s) ==
  /\ \A i \in DOMAIN s : IsIdentityOf(Of(s[i].ref), s[i].identity)
  /\ \A i, j \in DOMAIN s : s[i].ref = s[j].ref => i = j

RefsIn(s) == {s[i].ref : i \in DOMAIN s}

(* Where the registration is in the documents. *)
SetupPlace ==
  /\ pc = "schedule" => InSchema /\ next > Len(Examples) /\ subs = <<>>
  /\ pc = "done" => ~InSchema
  /\ pc = "failed" => \E ref \in Refs : ref[1] = schema /\ Faulty(Of(ref))
  /\ pc # "failed" => \A ref \in Refs : IsClassified(ref) => ~Faulty(Of(ref))

SubscribedSoFar ==
  /\ Right(subs) /\ Right(broker)
  /\ RefsIn(broker) = {ref \in Refs : IsCommitted(ref) /\ IsEvent(Of(ref))}
  /\ pc = "classify" =>
       RefsIn(subs) = {ref \in Refs : ref[1] = schema /\ ref[2] < next /\ IsEvent(Of(ref))}

ScheduledSoFar ==
  /\ \A j \in DOMAIN jobs : /\ IdOf(jobs[j]) = j
                            /\ IsPeriodic(Of(jobs[j])) /\ IsCommitted(jobs[j])
  /\ pc \in {"classify", "schedule"} =>
       \A i \in Range(periodic) : <<schema, i>> \in Refs /\ IsPeriodic(Of(<<schema, i>>))
  /\ pc = "classify" =>
       \A ref \in Refs : ref[1] = schema /\ ref[2] < next /\ IsPeriodic(Of(ref)) => ref[2] \in Range(periodic)
  /\ \A ref \in Refs : IsCommitted(ref) /\ IsPeriodic(Of(ref)) =>
       IdOf(ref) \in DOMAIN jobs \/ (ref[1] = schema /\ ref[2] \in Range(periodic))

SetupInv == SetupTyped /\ SetupPlace /\ SubscribedSoFar /\ ScheduledSoFar

(* A document's list is indexed by its places, whatever it holds. *)
LEMMA SeqElements ==
  ASSUME NEW s, IsSeq(s)
  PROVE  /\ Len(s) \in Nat /\ DOMAIN s = 1 .. Len(s)
         /\ \A i \in DOMAIN s : s[i] \in Range(s)
BY LenProperties DEF IsSeq, Range

(* What an example refers to, as the specification and the code see it. *)
LEMMA ContextsOf ==
  ASSUME NEW x
  PROVE  /\ "event" \in Contexts(x) <=> MatchReferencesEvent(x.match)
         /\ "reply" \in Contexts(x) <=> \E cond \in x.match : ReferencesNonEventContext(cond)
<1> DEFINE keys == {IF cond.key = "event.name" THEN "event" ELSE cond.key : cond \in x.match}
           events == {"event" : cond \in {c \in x.match : c.val = "$event"}}
           replies == {"reply" : cond \in {c \in x.match : c.val = "$reply"}}
<1>1. Contexts(x) = keys \cup events \cup replies
  BY DEF Contexts
<1>2. "event" \in keys <=> \E c \in x.match : c.key \in {"event.name", "event"}
  OBVIOUS
<1>3. "reply" \in keys <=> \E c \in x.match : c.key = "reply"
  OBVIOUS
<1>4. /\ "event" \in events <=> \E c \in x.match : c.val = "$event"
      /\ "event" \notin replies
  OBVIOUS
<1>5. /\ "reply" \in replies <=> \E c \in x.match : c.val = "$reply"
      /\ "reply" \notin events
  OBVIOUS
<1> HIDE DEF keys, events, replies
<1>6. "event" \in Contexts(x) <=> MatchReferencesEvent(x.match)
  BY <1>1, <1>2, <1>4 DEF MatchReferencesEvent, ReferencesEvent
<1>7. "reply" \in Contexts(x) <=> \E cond \in x.match : ReferencesNonEventContext(cond)
  BY <1>1, <1>3, <1>5 DEF ReferencesNonEventContext
<1> QED
  BY <1>6, <1>7

(* The identity of a match is the value of its condition on the event's    *)
(* name, if it has one.                                                    *)
LEMMA IdentityIsNamed ==
  ASSUME NEW x,
         \A c \in x.match : c = [key |-> c.key, val |-> c.val],
         \A c, e \in x.match : c.key = "event.name" /\ e.key = "event.name" => c = e
  PROVE  /\ IsIdentityOf(x, EventIdentity(x.match))
         /\ EventIdentity(x.match) \in {AnyIdentity} \cup {c.val : c \in x.match}
         /\ isFullExpression(EventIdentity(x.match)) <=>
              \E c \in x.match : c.key = "event.name" /\ c.val \in Expression
<1> DEFINE id == EventIdentity(x.match)
<1>1. CASE \A c \in x.match : c.key = "event.name" => c.val \in NoText
  <2> DEFINE named == {e.val : e \in {d \in x.match : d.key = "event.name"}} \ NoText
  <2>1. named = {}
    BY <1>1
  <2>2. id = IF named = {} THEN AnyIdentity ELSE CHOOSE v \in named : TRUE
    BY DEF EventIdentity
  <2> HIDE DEF named
  <2>3. id = AnyIdentity
    BY <2>1, <2>2
  <2>4. AnyIdentity \notin Expression /\ \A v \in NoText : v \notin Expression
    BY DEF AnyIdentity, Expression, NoText
  <2> QED
    BY <1>1, <2>3, <2>4 DEF IsIdentityOf, isFullExpression
<1>2. ASSUME NEW c \in x.match, c.key = "event.name", c.val \notin NoText
      PROVE  /\ id = c.val
             /\ IsIdentityOf(x, id)
             /\ isFullExpression(id) <=> \E e \in x.match : e.key = "event.name" /\ e.val \in Expression
  <2> DEFINE named == {e.val : e \in {d \in x.match : d.key = "event.name"}} \ NoText
  <2>1. named = {c.val}
    BY <1>2
  <2>2. id = IF named = {} THEN AnyIdentity ELSE CHOOSE v \in named : TRUE
    BY DEF EventIdentity
  <2> HIDE DEF named
  <2>3. id = c.val
    BY <2>1, <2>2
  <2>4. c = [key |-> "event.name", val |-> c.val]
    BY <1>2
  <2>5. IsIdentityOf(x, id)
    BY <1>2, <2>3, <2>4 DEF IsIdentityOf
  <2>6. isFullExpression(id) <=> \E e \in x.match : e.key = "event.name" /\ e.val \in Expression
    BY <2>3, <1>2 DEF isFullExpression
  <2> HIDE DEF id
  <2> QED
    BY <2>3, <2>5, <2>6
<1> HIDE DEF id
<1>3. CASE \E c \in x.match : c.key = "event.name" /\ c.val \notin NoText
  <2> PICK c \in x.match : c.key = "event.name" /\ c.val \notin NoText
    BY <1>3
  <2> QED
    BY <1>2 DEF id
<1> QED
  BY <1>1, <1>3

(* ClassifyTrigger refuses what the specification refuses, and tells       *)
(* examples that events drive from periodic ones and replies.              *)
LEMMA TriggerKinds ==
  ASSUME NEW x,
         \A c \in x.match : c = [key |-> c.key, val |-> c.val],
         \A c, e \in x.match : c.key = "event.name" /\ e.key = "event.name" => c = e
  PROVE  LET t == ClassifyTrigger(x)
         IN /\ t.kind = "error" <=> Faulty(x)
            /\ t.kind = "event" <=> ~Faulty(x) /\ IsEvent(x)
            /\ t.kind = "periodic" <=> ~Faulty(x) /\ IsPeriodic(x)
            /\ t.kind = "event" => /\ IsIdentityOf(x, t.identity)
                                   /\ t.identity \in {AnyIdentity} \cup {c.val : c \in x.match}
<1> DEFINE t == ClassifyTrigger(x)
           id == EventIdentity(x.match)
<1>1. /\ IsEvent(x) <=> MatchReferencesEvent(x.match)
      /\ {"event", "reply"} \subseteq Contexts(x) <=> MatchMixedContext(x.match)
  BY ContextsOf DEF IsEvent, MatchMixedContext
<1>2. isFullExpression(id) <=> \E c \in x.match : c.key = "event.name" /\ c.val \in Expression
  BY IdentityIsNamed
<1>3. \A c \in x.match : c.key = "event.name" => MatchReferencesEvent(x.match)
  BY DEF MatchReferencesEvent, ReferencesEvent
<1>4. Faulty(x) <=> \/ MatchMixedContext(x.match)
                    \/ x.interval = "good" /\ x.match # {}
                    \/ x.interval \notin {"absent", "good"}
                    \/ x.interval = "absent" /\ x.delay \notin {"absent", "good"}
                    \/ isFullExpression(id)
  BY <1>1, <1>2 DEF Faulty, Misdeclared, BadDelay, IsPeriodic
<1>5. isFullExpression(id) => MatchReferencesEvent(x.match) /\ x.match # {}
  BY <1>2, <1>3
<1>6. MatchReferencesEvent(x.match) => x.match # {}
  BY DEF MatchReferencesEvent
<1>7. t = IF MatchMixedContext(x.match) THEN MisTriggered
          ELSE IF x.interval = "good" THEN
            IF x.match # {} THEN MisTriggered ELSE Trigger("periodic", AnyIdentity)
          ELSE IF x.interval # "absent" \/ x.delay \notin {"absent", "good"} THEN MisTriggered
          ELSE IF MatchReferencesEvent(x.match) THEN EventTrigger(id)
          ELSE Trigger("reply", AnyIdentity)
  BY DEF ClassifyTrigger
<1>8. /\ \A k, i : Trigger(k, i).kind = k /\ Trigger(k, i).identity = i
      /\ MisTriggered.kind = "error"
      /\ EventTrigger(id) = IF isFullExpression(id) THEN MisTriggered ELSE Trigger("event", id)
  BY DEF Trigger, MisTriggered, EventTrigger
<1> HIDE DEF t, id
<1>9. /\ t.kind = IF Faulty(x) THEN "error" ELSE IF x.interval = "good" THEN "periodic"
                  ELSE IF MatchReferencesEvent(x.match) THEN "event" ELSE "reply"
      /\ t.kind = "event" => t.identity = id
  BY <1>4, <1>5, <1>7, <1>8
<1>10. Faulty(x) \/ x.interval # "good" \/ ~MatchReferencesEvent(x.match)
  BY <1>4, <1>6
<1>11. t.kind = "event" => /\ IsIdentityOf(x, t.identity)
                           /\ t.identity \in {AnyIdentity} \cup {c.val : c \in x.match}
  BY <1>9, IdentityIsNamed DEF id
<1>12. IsEvent(x) <=> MatchReferencesEvent(x.match)
  BY <1>1
<1>13. IsPeriodic(x) <=> x.interval = "good"
  BY DEF IsPeriodic
<1>14. t.kind = "error" <=> Faulty(x)
  BY <1>9
<1>15. t.kind = "event" <=> ~Faulty(x) /\ IsEvent(x)
  BY <1>9, <1>10, <1>12
<1>16. t.kind = "periodic" <=> ~Faulty(x) /\ IsPeriodic(x)
  BY <1>9, <1>13
<1> QED
  BY <1>11, <1>14, <1>15, <1>16 DEF t

(* The places of the examples, and what is assumed of each. *)
LEMMA RefsOf ==
  ASSUME docs \in Documents
  PROVE  /\ Len(docs) \in Nat /\ DOMAIN docs = 1 .. Len(docs)
         /\ \A s \in DOMAIN docs : /\ Len(docs[s].examples) \in Nat
                                   /\ DOMAIN docs[s].examples = 1 .. Len(docs[s].examples)
         /\ \A ref \in Refs : /\ ref = <<ref[1], ref[2]>>
                              /\ ref[1] \in DOMAIN docs /\ ref[2] \in DOMAIN docs[ref[1]].examples
                              /\ ref[1] \in Nat /\ ref[2] \in Nat \ {0}
         /\ \A s \in DOMAIN docs : \A i \in DOMAIN docs[s].examples : <<s, i>> \in Refs
         /\ \A ref \in Refs :
              /\ \A c \in Of(ref).match : c = [key |-> c.key, val |-> c.val]
              /\ \A c, e \in Of(ref).match : c.key = "event.name" /\ e.key = "event.name" => c = e
<1>1. /\ docs \in Seq(Range(docs))
      /\ \A d \in Range(docs) : d.examples \in Seq(Range(d.examples))
      /\ \A d \in Range(docs) : \A x \in Range(d.examples) :
           /\ \A c \in x.match : c = [key |-> c.key, val |-> c.val]
           /\ \A c, e \in x.match : c.key = "event.name" /\ e.key = "event.name" => c = e
  BY DocumentsAssumption
<1>2. Len(docs) \in Nat /\ DOMAIN docs = 1 .. Len(docs) /\ \A s \in DOMAIN docs : docs[s] \in Range(docs)
  BY <1>1, SeqElements DEF IsSeq
<1>3. ASSUME NEW s \in DOMAIN docs
      PROVE  /\ Len(docs[s].examples) \in Nat
             /\ DOMAIN docs[s].examples = 1 .. Len(docs[s].examples)
             /\ \A i \in DOMAIN docs[s].examples : docs[s].examples[i] \in Range(docs[s].examples)
  BY <1>1, <1>2, SeqElements DEF IsSeq
<1>4. ASSUME NEW ref \in Refs
      PROVE  /\ ref = <<ref[1], ref[2]>>
             /\ ref[1] \in DOMAIN docs /\ ref[2] \in DOMAIN docs[ref[1]].examples
  BY DEF Refs
<1>5. \A s \in DOMAIN docs : \A i \in DOMAIN docs[s].examples : <<s, i>> \in Refs
  BY DEF Refs
<1>6. ASSUME NEW ref \in Refs
      PROVE  /\ \A c \in Of(ref).match : c = [key |-> c.key, val |-> c.val]
             /\ \A c, e \in Of(ref).match : c.key = "event.name" /\ e.key = "event.name" => c = e
             /\ ref[1] \in Nat /\ ref[2] \in Nat \ {0}
  <2>1. Of(ref) \in Range(docs[ref[1]].examples) /\ docs[ref[1]] \in Range(docs)
    BY <1>2, <1>3, <1>4 DEF Of
  <2>2. ref[1] \in Nat /\ ref[2] \in Nat \ {0}
    BY <1>2, <1>3, <1>4
  <2> QED
    BY <1>1, <2>1, <2>2
<1> QED
  BY <1>2, <1>3, <1>4, <1>5, <1>6

(* Nothing of the documents changes. *)
LEMMA RefsStay ==
  ASSUME docs' = docs
  PROVE  /\ Refs' = Refs /\ Subscriptions' = Subscriptions
         /\ \A ref : Of(ref)' = Of(ref) /\ IdOf(ref)' = IdOf(ref)
BY DEF Refs, Subscriptions, Identities, Of, IdOf

LEMMA SetupBegins == SetupInit => SetupInv
<1> SUFFICES ASSUME SetupInit PROVE SetupInv
  OBVIOUS
<1> USE DEF SetupInit
<1>1. \A ref \in Refs : ~IsClassified(ref) /\ ~IsCommitted(ref)
  BY RefsOf DEF IsClassified, IsCommitted
<1>2. SetupTyped
  BY RefsOf DEF SetupTyped
<1>3. SetupPlace
  BY <1>1 DEF SetupPlace
<1>4. SubscribedSoFar
  BY <1>1, RefsOf DEF SubscribedSoFar, Right, RefsIn
<1>5. ScheduledSoFar
  BY <1>1, RefsOf DEF ScheduledSoFar, Range
<1> QED
  BY <1>2, <1>3, <1>4, <1>5 DEF SetupInv

(* Subscriptions that are appended, one or many. *)
LEMMA SubscriptionAdded ==
  ASSUME NEW s \in Seq(Subscriptions), NEW e \in Subscriptions
  PROVE  /\ RefsIn(Append(s, e)) = RefsIn(s) \cup {e.ref}
         /\ Right(s) /\ IsIdentityOf(Of(e.ref), e.identity) /\ e.ref \notin RefsIn(s) => Right(Append(s, e))
<1> DEFINE t == Append(s, e)
           n == Len(s)
<1>1. /\ n \in Nat /\ DOMAIN s = 1 .. n /\ DOMAIN t = 1 .. n + 1
      /\ t[n + 1] = e /\ \A i \in 1 .. n : t[i] = s[i]
  BY AppendProperties, LenProperties
<1> HIDE DEF t, n
<1>2. RefsIn(t) = RefsIn(s) \cup {e.ref}
  BY <1>1 DEF RefsIn
<1>3. ASSUME Right(s), IsIdentityOf(Of(e.ref), e.identity), e.ref \notin RefsIn(s)
      PROVE  Right(t)
  <2>1. \A i \in DOMAIN t : i \in DOMAIN s \/ i = n + 1
    BY <1>1
  <2>2. \A i \in DOMAIN s : t[i] = s[i] /\ s[i].ref # e.ref
    BY <1>1, <1>3 DEF RefsIn
  <2> QED
    BY <1>1, <1>3, <2>1, <2>2 DEF Right
<1> QED
  BY <1>2, <1>3 DEF t

LEMMA SubscriptionsJoined ==
  ASSUME NEW s \in Seq(Subscriptions), NEW t \in Seq(Subscriptions)
  PROVE  /\ RefsIn(s \o t) = RefsIn(s) \cup RefsIn(t)
         /\ Right(s) /\ Right(t) /\ RefsIn(s) \cap RefsIn(t) = {} => Right(s \o t)
<1> DEFINE u == s \o t
           n == Len(s)
           m == Len(t)
<1>1. /\ n \in Nat /\ m \in Nat /\ DOMAIN s = 1 .. n /\ DOMAIN t = 1 .. m /\ DOMAIN u = 1 .. n + m
      /\ \A i \in 1 .. n + m : u[i] = IF i <= n THEN s[i] ELSE t[i - n]
  BY ConcatProperties, LenProperties
<1> HIDE DEF u, n, m
<1>2. \A i \in DOMAIN u : \/ i \in DOMAIN s /\ u[i] = s[i]
                          \/ i - n \in DOMAIN t /\ u[i] = t[i - n] /\ i \notin DOMAIN s
  BY <1>1
<1>3. /\ \A i \in DOMAIN s : i \in DOMAIN u /\ u[i] = s[i]
      /\ \A i \in DOMAIN t : n + i \in DOMAIN u /\ u[n + i] = t[i]
  BY <1>1
<1>4. RefsIn(u) = RefsIn(s) \cup RefsIn(t)
  <2>1. RefsIn(u) \subseteq RefsIn(s) \cup RefsIn(t)
    BY <1>2 DEF RefsIn
  <2>2. RefsIn(s) \cup RefsIn(t) \subseteq RefsIn(u)
    BY <1>3 DEF RefsIn
  <2> QED
    BY <2>1, <2>2
<1>5. ASSUME Right(s), Right(t), RefsIn(s) \cap RefsIn(t) = {}
      PROVE  Right(u)
  <2>1. \A i \in DOMAIN s, j \in DOMAIN t : s[i].ref # t[j].ref
    BY <1>5 DEF RefsIn
  <2>2. \A i \in DOMAIN u : IsIdentityOf(Of(u[i].ref), u[i].identity)
    BY <1>2, <1>5 DEF Right
  <2>3. ASSUME NEW i \in DOMAIN u, NEW j \in DOMAIN u, u[i].ref = u[j].ref
        PROVE  i = j
    <3>1. \/ i \in DOMAIN s /\ j \in DOMAIN s /\ s[i].ref = s[j].ref
          \/ i - n \in DOMAIN t /\ j - n \in DOMAIN t /\ t[i - n].ref = t[j - n].ref
      BY <1>2, <2>1, <2>3
    <3>2. i = j \/ i - n = j - n
      BY <1>5, <3>1 DEF Right
    <3>3. i \in Int /\ j \in Int /\ n \in Int
      BY <1>1
    <3> QED
      BY <3>2, <3>3
  <2> QED
    BY <2>2, <2>3 DEF Right
<1> QED
  BY <1>4, <1>5 DEF u

(* An example that is no error: it is a subscription, a job or a reply.    *)
LEMMA ClassifyStep == SetupInv /\ Classify => SetupInv'
<1> SUFFICES ASSUME SetupInv, Classify PROVE SetupInv'
  OBVIOUS
<1> DEFINE x == Examples[next]
           t == ClassifyTrigger(x)
           this == <<schema, next>>
<1>1. SetupTyped /\ SetupPlace /\ SubscribedSoFar /\ ScheduledSoFar
  BY DEF SetupInv
<1>2. /\ pc = "classify" /\ InSchema /\ next <= Len(Examples)
      /\ pc' = IF t.kind = "error" THEN "failed" ELSE pc
      /\ IF t.kind = "error" THEN UNCHANGED <<subs, broker>> ELSE Classified(next, t)
      /\ periodic' = IF t.kind = "periodic" THEN Append(periodic, next) ELSE periodic
      /\ next' = next + 1
      /\ docs' = docs /\ schema' = schema /\ jobs' = jobs
  BY DEF Classify
<1>3. /\ docs \in Documents /\ schema \in Nat \ {0} /\ next \in Nat \ {0}
      /\ subs \in Seq(Subscriptions) /\ broker \in Seq(Subscriptions) /\ periodic \in Seq(Nat)
      /\ schema <= Len(docs) + 1
  BY <1>1, RefsOf DEF SetupTyped
<1>4. /\ this \in Refs /\ Of(this) = x /\ this[1] = schema /\ this[2] = next
      /\ schema \in DOMAIN docs
  BY <1>2, <1>3, RefsOf DEF InSchema, Examples, Of
<1>5. /\ Refs' = Refs /\ Subscriptions' = Subscriptions
      /\ \A ref : Of(ref)' = Of(ref) /\ IdOf(ref)' = IdOf(ref)
  BY <1>2, RefsStay
<1>6. /\ t.kind = "error" <=> Faulty(x)
      /\ t.kind = "event" <=> ~Faulty(x) /\ IsEvent(x)
      /\ t.kind = "periodic" <=> ~Faulty(x) /\ IsPeriodic(x)
      /\ t.kind = "event" => /\ IsIdentityOf(x, t.identity)
                             /\ t.identity \in {AnyIdentity} \cup {c.val : c \in x.match}
  <2> HIDE DEF x, this
  <2>1. /\ \A c \in x.match : c = [key |-> c.key, val |-> c.val]
        /\ \A c, e \in x.match : c.key = "event.name" /\ e.key = "event.name" => c = e
    BY <1>3, <1>4, RefsOf
  <2> QED
    BY <2>1, TriggerKinds
<1> HIDE DEF x, t, this
<1>7. \A ref \in Refs : /\ IsClassified(ref)' <=> IsClassified(ref) \/ ref = this
                        /\ ref[1] = schema /\ ref[2] < next' <=>
                             (ref[1] = schema /\ ref[2] < next) \/ ref = this
                        /\ IsCommitted(ref)' <=> IsCommitted(ref)
                        /\ IsCommitted(ref) <=> ref[1] < schema
  BY <1>2, <1>3, <1>4, RefsOf DEF IsClassified, IsCommitted, this
<1>8. SetupPlace'
  <2>1. t.kind = "error" => \E ref \in Refs : ref[1] = schema /\ Faulty(Of(ref))
    BY <1>4, <1>6
  <2>2. t.kind # "error" => \A ref \in Refs : IsClassified(ref)' => ~Faulty(Of(ref))
    BY <1>1, <1>2, <1>4, <1>6, <1>7 DEF SetupPlace
  <2> QED
    BY <1>2, <1>5, <2>1, <2>2 DEF SetupPlace
<1>9. /\ broker' = broker
      /\ subs' = IF t.kind = "event" THEN Append(subs, [ref |-> this, identity |-> t.identity]) ELSE subs
  BY <1>2 DEF Classified, Ref, this
<1>10. ASSUME t.kind = "event"
       PROVE  [ref |-> this, identity |-> t.identity] \in Subscriptions
  BY <1>4, <1>6, <1>10 DEF Subscriptions, Identities
<1>11. subs' \in Seq(Subscriptions) /\ periodic' \in Seq(Nat)
  BY <1>2, <1>3, <1>9, <1>10
<1>12. SetupTyped'
  BY <1>1, <1>2, <1>3, <1>5, <1>9, <1>11 DEF SetupTyped
<1>13. SubscribedSoFar'
  <2>1. RefsIn(broker) = {ref \in Refs : IsCommitted(ref)' /\ IsEvent(Of(ref))}
    BY <1>1, <1>7 DEF SubscribedSoFar
  <2>2. t.kind # "error" =>
          RefsIn(subs') = {ref \in Refs : ref[1] = schema /\ ref[2] < next' /\ IsEvent(Of(ref))}
    <3>1. RefsIn(subs) = {ref \in Refs : ref[1] = schema /\ ref[2] < next /\ IsEvent(Of(ref))}
      BY <1>1, <1>2 DEF SubscribedSoFar
    <3>2. CASE t.kind = "event"
      <4>1. RefsIn(subs') = RefsIn(subs) \cup {this}
        BY <1>3, <1>9, <1>10, <3>2, SubscriptionAdded
      <4> QED
        BY <3>1, <3>2, <4>1, <1>4, <1>6, <1>7
    <3>3. CASE t.kind \notin {"event", "error"}
      BY <3>1, <3>3, <1>4, <1>6, <1>7, <1>9
    <3> QED
      BY <3>2, <3>3
  <2>3. Right(subs')
    <3>1. CASE t.kind = "event"
      <4>1. this \notin RefsIn(subs)
        BY <1>1, <1>2, <1>3, <1>4 DEF SubscribedSoFar
      <4> QED
        BY <1>1, <1>3, <1>4, <1>6, <1>9, <1>10, <3>1, <4>1, SubscriptionAdded DEF SubscribedSoFar
    <3>2. CASE t.kind # "event"
      BY <1>1, <1>9, <3>2 DEF SubscribedSoFar
    <3> QED
      BY <3>1, <3>2
  <2>4. Right(subs)' /\ Right(broker)'
    BY <1>1, <1>5, <1>9, <2>3 DEF SubscribedSoFar, Right
  <2> QED
    BY <1>1, <1>2, <1>5, <1>9, <2>1, <2>2, <2>4 DEF SubscribedSoFar, RefsIn
<1>14. ScheduledSoFar'
  <2>1. Range(periodic') = IF t.kind = "periodic" THEN Range(periodic) \cup {next} ELSE Range(periodic)
    BY <1>2, <1>3, AppendRange
  <2>2. \A i \in Range(periodic) : <<schema, i>> \in Refs /\ IsPeriodic(Of(<<schema, i>>))
    BY <1>1, <1>2 DEF ScheduledSoFar
  <2>3. \A i \in Range(periodic') : <<schema, i>> \in Refs /\ IsPeriodic(Of(<<schema, i>>))
    BY <1>4, <1>6, <2>1, <2>2 DEF this
  <2>4. t.kind # "error" => \A ref \in Refs :
          ref[1] = schema /\ ref[2] < next' /\ IsPeriodic(Of(ref)) => ref[2] \in Range(periodic')
    BY <1>1, <1>2, <1>4, <1>6, <1>7, <2>1 DEF ScheduledSoFar
  <2>5. \A ref \in Refs : IsCommitted(ref)' /\ IsPeriodic(Of(ref)) => IdOf(ref) \in DOMAIN jobs
    BY <1>1, <1>3, <1>7, RefsOf DEF ScheduledSoFar
  <2>6. \A j \in DOMAIN jobs : IdOf(jobs[j]) = j /\ IsPeriodic(Of(jobs[j])) /\ IsCommitted(jobs[j])'
    BY <1>1, <1>2, <1>7 DEF ScheduledSoFar, SetupTyped, IsCommitted
  <2>7. Range(periodic)' = Range(periodic')
    BY DEF Range
  <2> QED
    BY <1>2, <1>5, <2>3, <2>4, <2>5, <2>6, <2>7 DEF ScheduledSoFar
<1> QED
  BY <1>8, <1>12, <1>13, <1>14 DEF SetupInv

(* All of the schema passed: its subscriptions join those of the others.   *)
LEMMA AddSubscriptionsStep == SetupInv /\ AddSubscriptions => SetupInv'
<1> SUFFICES ASSUME SetupInv, AddSubscriptions PROVE SetupInv'
  OBVIOUS
<1>1. SetupTyped /\ SetupPlace /\ SubscribedSoFar /\ ScheduledSoFar
  BY DEF SetupInv
<1>2. /\ pc = "classify" /\ InSchema /\ next > Len(Examples)
      /\ broker' = broker \o subs /\ subs' = <<>> /\ pc' = "schedule"
      /\ docs' = docs /\ schema' = schema /\ next' = next /\ periodic' = periodic /\ jobs' = jobs
  BY DEF AddSubscriptions
<1>3. /\ docs \in Documents /\ schema \in Nat \ {0} /\ next \in Nat \ {0}
      /\ subs \in Seq(Subscriptions) /\ broker \in Seq(Subscriptions) /\ periodic \in Seq(Nat)
      /\ schema \in DOMAIN docs
  BY <1>1, <1>2, RefsOf DEF SetupTyped, InSchema
<1>4. /\ Refs' = Refs /\ Subscriptions' = Subscriptions
      /\ \A ref : Of(ref)' = Of(ref) /\ IdOf(ref)' = IdOf(ref)
  BY <1>2, RefsStay
<1>5. \A ref \in Refs : /\ IsCommitted(ref) <=> ref[1] < schema
                        /\ IsCommitted(ref)' <=> ref[1] < schema \/ ref[1] = schema
                        /\ IsClassified(ref)' <=> IsClassified(ref)
                        /\ ref[1] = schema => ref[2] < next
                        /\ ~(ref[1] = schema /\ ref[1] < schema)
  BY <1>2, <1>3, RefsOf DEF IsCommitted, IsClassified, Examples
<1>6. /\ RefsIn(subs) = {ref \in Refs : ref[1] = schema /\ IsEvent(Of(ref))}
      /\ RefsIn(broker) = {ref \in Refs : ref[1] < schema /\ IsEvent(Of(ref))}
      /\ Right(subs) /\ Right(broker)
  BY <1>1, <1>2, <1>5 DEF SubscribedSoFar
<1>7. /\ RefsIn(broker \o subs) = RefsIn(broker) \cup RefsIn(subs)
      /\ Right(broker \o subs)
  <2>1. RefsIn(broker) \cap RefsIn(subs) = {}
    BY <1>5, <1>6
  <2> QED
    BY <1>3, <1>6, <2>1, SubscriptionsJoined
<1>8. SetupTyped'
  BY <1>1, <1>2, <1>3, <1>4, ConcatProperties DEF SetupTyped
<1>9. SetupPlace'
  BY <1>1, <1>2, <1>4, <1>5 DEF SetupPlace, InSchema, Examples
<1>10. SubscribedSoFar'
  <2>1. RefsIn(broker)' = RefsIn(broker \o subs)
    BY <1>2 DEF RefsIn
  <2>2. Right(subs)' /\ Right(broker)'
    BY <1>2, <1>4, <1>7 DEF Right
  <2>3. RefsIn(broker)' = {ref \in Refs : IsCommitted(ref)' /\ IsEvent(Of(ref))}
    BY <1>5, <1>6, <1>7, <2>1
  <2> QED
    BY <1>2, <1>4, <2>2, <2>3 DEF SubscribedSoFar
<1>11. ScheduledSoFar'
  <2>1. \A j \in DOMAIN jobs : IdOf(jobs[j]) = j /\ IsPeriodic(Of(jobs[j])) /\ IsCommitted(jobs[j])'
    BY <1>1, <1>2, <1>5 DEF ScheduledSoFar, SetupTyped, IsCommitted
  <2>2. \A ref \in Refs : IsCommitted(ref)' /\ IsPeriodic(Of(ref)) =>
          IdOf(ref) \in DOMAIN jobs \/ (ref[1] = schema /\ ref[2] \in Range(periodic))
    BY <1>1, <1>2, <1>5 DEF ScheduledSoFar
  <2>3. Range(periodic)' = Range(periodic)
    BY <1>2 DEF Range
  <2> QED
    BY <1>1, <1>2, <1>4, <2>1, <2>2, <2>3 DEF ScheduledSoFar
<1> QED
  BY <1>8, <1>9, <1>10, <1>11 DEF SetupInv

(* A job replaces one that has its id.                                     *)
LEMMA RegisterPeriodicStep == SetupInv /\ registerPeriodic => SetupInv'
<1> SUFFICES ASSUME SetupInv, registerPeriodic PROVE SetupInv'
  OBVIOUS
<1> DEFINE i == Head(periodic)
           this == <<schema, i>>
<1>1. SetupTyped /\ SetupPlace /\ SubscribedSoFar /\ ScheduledSoFar
  BY DEF SetupInv
<1>2. /\ pc = "schedule" /\ periodic # <<>>
      /\ periodic' = Tail(periodic)
      /\ docs' = docs /\ schema' = schema /\ next' = next /\ subs' = subs /\ pc' = pc /\ broker' = broker
  BY DEF registerPeriodic
<1>3. /\ docs \in Documents /\ schema \in Nat \ {0} /\ next \in Nat \ {0}
      /\ periodic \in Seq(Nat) /\ schema \in DOMAIN docs
  BY <1>1, <1>2, RefsOf DEF SetupTyped, SetupPlace, InSchema
<1>4. /\ Refs' = Refs /\ Subscriptions' = Subscriptions
      /\ \A ref : Of(ref)' = Of(ref) /\ IdOf(ref)' = IdOf(ref)
  BY <1>2, RefsStay
<1>5. /\ Tail(periodic) \in Seq(Nat)
      /\ Range(periodic) = Range(Tail(periodic)) \cup {i}
  <2>1. /\ Len(periodic) \in Nat \ {0} /\ DOMAIN periodic = 1 .. Len(periodic)
        /\ i = periodic[1]
        /\ Tail(periodic) \in Seq(Nat) /\ Len(Tail(periodic)) = Len(periodic) - 1
        /\ DOMAIN Tail(periodic) = 1 .. Len(periodic) - 1
        /\ \A k \in 1 .. Len(periodic) - 1 : Tail(periodic)[k] = periodic[k + 1]
    BY <1>2, <1>3, HeadTailProperties, EmptySeq, LenProperties
  <2> HIDE DEF i
  <2>2. ASSUME NEW k \in DOMAIN periodic, k # 1
        PROVE  k - 1 \in DOMAIN Tail(periodic) /\ Tail(periodic)[k - 1] = periodic[k]
    <3>1. k - 1 \in 1 .. Len(periodic) - 1 /\ (k - 1) + 1 = k
      BY <2>1, <2>2
    <3> QED
      BY <2>1, <3>1
  <2>3. \A k \in DOMAIN Tail(periodic) : k + 1 \in DOMAIN periodic /\ Tail(periodic)[k] = periodic[k + 1]
    BY <2>1
  <2>4. 1 \in DOMAIN periodic
    BY <2>1
  <2>5. \A v \in Range(periodic) : v = i \/ v \in Range(Tail(periodic))
    <3> SUFFICES ASSUME NEW k \in DOMAIN periodic PROVE periodic[k] = i \/ periodic[k] \in Range(Tail(periodic))
      BY DEF Range
    <3>1. CASE k = 1
      BY <2>1, <3>1
    <3>2. CASE k # 1
      BY <2>2, <3>2 DEF Range
    <3> QED
      BY <3>1, <3>2
  <2>6. Range(Tail(periodic)) \subseteq Range(periodic) /\ i \in Range(periodic)
    BY <2>1, <2>3, <2>4 DEF Range
  <2> QED
    BY <2>1, <2>5, <2>6
<1>6. /\ this \in Refs /\ IsPeriodic(Of(this)) /\ this[1] = schema /\ this[2] = i
      /\ JobID(Examples[i]) = IdOf(this)
  BY <1>1, <1>2, <1>5 DEF ScheduledSoFar, JobID, IdOf, Of, Examples
<1>7. jobs' = [j \in DOMAIN jobs \cup {IdOf(this)} |-> IF j = IdOf(this) THEN this ELSE jobs[j]]
  BY <1>6 DEF registerPeriodic, Ref
<1> HIDE DEF this, i
<1>8. \A ref \in Refs : /\ IsCommitted(ref)' <=> IsCommitted(ref)
                        /\ IsClassified(ref)' <=> IsClassified(ref)
                        /\ ref[1] = schema => IsCommitted(ref)
  BY <1>2 DEF IsCommitted, IsClassified
<1>9. SetupTyped'
  <2>1. \A j \in DOMAIN jobs' : jobs'[j] \in Refs
    BY <1>1, <1>6, <1>7 DEF SetupTyped
  <2> QED
    BY <1>1, <1>2, <1>4, <1>5, <2>1 DEF SetupTyped
<1>10. SetupPlace'
  BY <1>1, <1>2, <1>4, <1>8 DEF SetupPlace, InSchema, Examples
<1>11. SubscribedSoFar'
  <2>1. RefsIn(broker)' = RefsIn(broker) /\ RefsIn(broker) = {ref \in Refs : IsCommitted(ref)' /\ IsEvent(Of(ref))}
    BY <1>1, <1>2, <1>8 DEF SubscribedSoFar, RefsIn
  <2>2. Right(subs)' /\ Right(broker)'
    BY <1>1, <1>2, <1>4 DEF SubscribedSoFar, Right
  <2> QED
    BY <1>2, <1>4, <2>1, <2>2 DEF SubscribedSoFar
<1>12. ScheduledSoFar'
  <2>1. \A j \in DOMAIN jobs' : IdOf(jobs'[j]) = j /\ IsPeriodic(Of(jobs'[j])) /\ jobs'[j] \in Refs /\ IsCommitted(jobs'[j])
    BY <1>1, <1>6, <1>7, <1>8 DEF ScheduledSoFar, SetupTyped
  <2>2. \A j \in DOMAIN jobs' : IsCommitted(jobs[j])'
    BY <1>2, <2>1 DEF IsCommitted
  <2>3. \A k \in Range(periodic') : <<schema, k>> \in Refs /\ IsPeriodic(Of(<<schema, k>>))
    BY <1>1, <1>2, <1>5 DEF ScheduledSoFar
  <2>4. \A ref \in Refs : IsCommitted(ref) /\ IsPeriodic(Of(ref)) =>
          IdOf(ref) \in DOMAIN jobs' \/ (ref[1] = schema /\ ref[2] \in Range(periodic'))
    <3> SUFFICES ASSUME NEW ref \in Refs, IsCommitted(ref), IsPeriodic(Of(ref))
                 PROVE  IdOf(ref) \in DOMAIN jobs' \/ (ref[1] = schema /\ ref[2] \in Range(periodic'))
      OBVIOUS
    <3>1. IdOf(ref) \in DOMAIN jobs \/ (ref[1] = schema /\ ref[2] \in Range(periodic))
      BY <1>1 DEF ScheduledSoFar
    <3>2. ref[1] = schema /\ ref[2] = i => ref = this
      BY <1>3, RefsOf DEF this
    <3> QED
      BY <1>2, <1>5, <1>7, <3>1, <3>2
  <2>5. Range(periodic)' = Range(periodic')
    BY DEF Range
  <2> QED
    BY <1>2, <1>4, <1>8, <2>1, <2>2, <2>3, <2>4, <2>5 DEF ScheduledSoFar
<1> QED
  BY <1>9, <1>10, <1>11, <1>12 DEF SetupInv

(* All of the schema is committed. *)
LEMMA NextSchemaStep == SetupInv /\ NextSchema => SetupInv'
<1> SUFFICES ASSUME SetupInv, NextSchema PROVE SetupInv'
  OBVIOUS
<1>1. SetupTyped /\ SetupPlace /\ SubscribedSoFar /\ ScheduledSoFar
  BY DEF SetupInv
<1>2. /\ pc = "schedule" /\ periodic = <<>>
      /\ schema' = schema + 1 /\ next' = 1 /\ pc' = "classify"
      /\ docs' = docs /\ subs' = subs /\ periodic' = periodic /\ broker' = broker /\ jobs' = jobs
  BY DEF NextSchema
<1>3. /\ docs \in Documents /\ schema \in Nat \ {0} /\ next \in Nat \ {0}
      /\ schema \in DOMAIN docs /\ subs = <<>> /\ next > Len(docs[schema].examples)
      /\ schema + 1 \in 1 .. Len(docs) + 1
  BY <1>1, <1>2, RefsOf DEF SetupTyped, SetupPlace, InSchema, Examples
<1>4. /\ Refs' = Refs /\ Subscriptions' = Subscriptions
      /\ \A ref : Of(ref)' = Of(ref) /\ IdOf(ref)' = IdOf(ref)
  BY <1>2, RefsStay
<1>5. \A ref \in Refs : /\ IsCommitted(ref)' <=> IsCommitted(ref)
                        /\ IsClassified(ref)' <=> IsClassified(ref)
                        /\ ~(ref[1] = schema' /\ ref[2] < next')
                        /\ ref[1] = schema + 1 => ~IsCommitted(ref)
  BY <1>2, <1>3, RefsOf DEF IsCommitted, IsClassified
<1>6. SetupTyped'
  BY <1>1, <1>2, <1>3, <1>4 DEF SetupTyped
<1>7. SetupPlace'
  BY <1>1, <1>2, <1>4, <1>5 DEF SetupPlace
<1>8. SubscribedSoFar'
  <2>1. RefsIn(broker)' = RefsIn(broker) /\ RefsIn(broker) = {ref \in Refs : IsCommitted(ref)' /\ IsEvent(Of(ref))}
    BY <1>1, <1>2, <1>5 DEF SubscribedSoFar, RefsIn
  <2>2. Right(subs)' /\ Right(broker)'
    BY <1>1, <1>2, <1>4 DEF SubscribedSoFar, Right
  <2>3. RefsIn(subs)' = {}
    BY <1>2, <1>3 DEF RefsIn
  <2>4. RefsIn(subs)' = {ref \in Refs : ref[1] = schema' /\ ref[2] < next' /\ IsEvent(Of(ref))}
    BY <1>5, <2>3
  <2> QED
    BY <1>4, <2>1, <2>2, <2>4 DEF SubscribedSoFar
<1>9. ScheduledSoFar'
  <2>1. Range(periodic)' = {} /\ Range(periodic) = {}
    BY <1>2 DEF Range
  <2>2. \A j \in DOMAIN jobs : IdOf(jobs[j]) = j /\ IsPeriodic(Of(jobs[j])) /\ IsCommitted(jobs[j])'
    BY <1>1, <1>2, <1>5 DEF ScheduledSoFar, SetupTyped, IsCommitted
  <2>3. \A ref \in Refs : IsCommitted(ref) /\ IsPeriodic(Of(ref)) => IdOf(ref) \in DOMAIN jobs
    BY <1>1, <2>1 DEF ScheduledSoFar
  <2> QED
    BY <1>2, <1>4, <1>5, <2>1, <2>2, <2>3 DEF ScheduledSoFar
<1> QED
  BY <1>6, <1>7, <1>8, <1>9 DEF SetupInv

LEMMA DoneStep == SetupInv /\ Done => SetupInv'
<1> SUFFICES ASSUME SetupInv, Done PROVE SetupInv'
  OBVIOUS
<1>1. SetupTyped /\ SetupPlace /\ SubscribedSoFar /\ ScheduledSoFar
  BY DEF SetupInv
<1>2. /\ pc = "classify" /\ ~InSchema /\ pc' = "done"
      /\ UNCHANGED <<docs, schema, next, subs, periodic, broker, jobs>>
  BY DEF Done
<1>3. /\ Refs' = Refs /\ Subscriptions' = Subscriptions
      /\ \A ref : Of(ref)' = Of(ref) /\ IdOf(ref)' = IdOf(ref)
  BY <1>2, RefsStay
<1>4. \A ref \in Refs : /\ IsCommitted(ref)' <=> IsCommitted(ref)
                        /\ IsClassified(ref)' <=> IsClassified(ref)
  BY <1>2 DEF IsCommitted, IsClassified
<1>5. SetupTyped'
  BY <1>1, <1>2, <1>3 DEF SetupTyped
<1>6. SetupPlace'
  BY <1>1, <1>2, <1>3, <1>4 DEF SetupPlace, InSchema
<1>7. SubscribedSoFar'
  <2>1. RefsIn(broker)' = RefsIn(broker) /\ RefsIn(broker) = {ref \in Refs : IsCommitted(ref)' /\ IsEvent(Of(ref))}
    BY <1>1, <1>2, <1>4 DEF SubscribedSoFar, RefsIn
  <2>2. Right(subs)' /\ Right(broker)'
    BY <1>1, <1>2, <1>3 DEF SubscribedSoFar, Right
  <2> QED
    BY <1>2, <1>3, <2>1, <2>2 DEF SubscribedSoFar
<1>8. ScheduledSoFar'
  <2>1. \A j \in DOMAIN jobs : IdOf(jobs[j]) = j /\ IsPeriodic(Of(jobs[j])) /\ IsCommitted(jobs[j])'
    BY <1>1, <1>2, <1>4 DEF ScheduledSoFar, SetupTyped, IsCommitted
  <2>2. Range(periodic)' = Range(periodic)
    BY <1>2 DEF Range
  <2> QED
    BY <1>1, <1>2, <1>3, <1>4, <2>1, <2>2 DEF ScheduledSoFar
<1> QED
  BY <1>5, <1>6, <1>7, <1>8 DEF SetupInv

LEMMA SetupStays == SetupInv /\ UNCHANGED setupVars => SetupInv'
<1> SUFFICES ASSUME SetupInv, UNCHANGED setupVars PROVE SetupInv'
  OBVIOUS
<1>1. /\ docs' = docs /\ schema' = schema /\ next' = next /\ subs' = subs
      /\ periodic' = periodic /\ pc' = pc /\ broker' = broker /\ jobs' = jobs
  BY DEF setupVars
<1>2. /\ Refs' = Refs /\ Subscriptions' = Subscriptions
      /\ \A ref : Of(ref)' = Of(ref) /\ IdOf(ref)' = IdOf(ref)
  BY <1>1, RefsStay
<1>3. SetupTyped'
  BY <1>1, <1>2 DEF SetupInv, SetupTyped
<1>4. SetupPlace'
  BY <1>1, <1>2 DEF SetupInv, SetupPlace, InSchema, Examples, IsClassified
<1>5. SubscribedSoFar'
  BY <1>1, <1>2 DEF SetupInv, SubscribedSoFar, Right, RefsIn, IsCommitted
<1>6. ScheduledSoFar'
  BY <1>1, <1>2 DEF SetupInv, ScheduledSoFar, IsCommitted, Range
<1> QED
  BY <1>3, <1>4, <1>5, <1>6 DEF SetupInv

LEMMA SetupStep == SetupInv /\ SetupNext => SetupInv'
BY ClassifyStep, AddSubscriptionsStep, RegisterPeriodicStep, NextSchemaStep, DoneStep DEF SetupNext

(* Nothing of a schema that is rejected is registered, and all of the      *)
(* others is: what follows from the invariant.                             *)
LEMMA SetupIsAllOrNothing == SetupInv => SetupTypeOK /\ TriggersAllOrNothing
<1> SUFFICES ASSUME SetupInv PROVE SetupTypeOK /\ TriggersAllOrNothing
  OBVIOUS
<1>1. SetupTyped /\ SetupPlace /\ SubscribedSoFar /\ ScheduledSoFar
  BY DEF SetupInv
<1>2. /\ SubscribedRefs = RefsIn(broker) /\ \A ref \in ScheduledRefs : \E j \in DOMAIN jobs : ref = jobs[j]
  BY DEF SubscribedRefs, RefsIn, ScheduledRefs
<1>3. docs \in Documents /\ schema \in Nat \ {0}
  BY <1>1, RefsOf DEF SetupTyped
<1>4. /\ SubscribedRefs = {ref \in Refs : IsCommitted(ref) /\ IsEvent(Of(ref))}
      /\ \A ref \in ScheduledRefs : ref \in Refs /\ IsCommitted(ref) /\ IsPeriodic(Of(ref))
  BY <1>1, <1>2 DEF SubscribedSoFar, ScheduledSoFar, SetupTyped
<1>5. SetupTypeOK
  BY <1>1, <1>4 DEF SetupTypeOK, SetupTyped
<1>6. CASE pc = "failed"
  <2>1. \A ref \in Refs : IsCommitted(ref) <=> ref[1] < schema
    BY <1>6 DEF IsCommitted
  <2>2. \A ref \in Refs : Faulty(Of(ref)) => Rejected(Of(ref))
    BY DEF Faulty, Rejected
  <2> QED
    BY <1>1, <1>4, <1>5, <1>6, <2>1, <2>2 DEF TriggersAllOrNothing, SetupPlace
<1>7. CASE pc = "done"
  <2>1. schema = Len(docs) + 1
    BY <1>1, <1>3, <1>7, RefsOf DEF SetupPlace, SetupTyped, InSchema
  <2>2. \A ref \in Refs : IsCommitted(ref) /\ IsClassified(ref) /\ ref[1] # schema
    BY <1>3, <2>1, RefsOf DEF IsCommitted, IsClassified
  <2>3. \A ref \in Refs : ~Misdeclared(Of(ref)) /\ (BadDelay(Of(ref)) => IsPeriodic(Of(ref)))
    BY <1>1, <1>7, <2>2 DEF SetupPlace, Faulty
  <2>4. SubscribedRefs = {ref \in Refs : IsEvent(Of(ref))}
    BY <1>4, <2>2
  <2>5. /\ \A i, j \in DOMAIN broker : broker[i].ref = broker[j].ref => i = j
        /\ \A i \in DOMAIN broker :
            \/ /\ broker[i].identity \notin NoText
               /\ [key |-> "event.name", val |-> broker[i].identity] \in Of(broker[i].ref).match
            \/ /\ broker[i].identity = AnyIdentity
               /\ \A cond \in Of(broker[i].ref).match : cond.key = "event.name" => cond.val \in NoText
    BY <1>1 DEF SubscribedSoFar, Right, IsIdentityOf
  <2>6. ScheduledRefs \subseteq {ref \in Refs : IsPeriodic(Of(ref))}
    BY <1>4
  <2>7. ASSUME NEW ref \in Refs, IsPeriodic(Of(ref)), \A other \in Refs \ {ref} : IdOf(other) # IdOf(ref)
        PROVE  ref \in ScheduledRefs
    <3>1. IdOf(ref) \in DOMAIN jobs
      BY <1>1, <2>2, <2>7 DEF ScheduledSoFar
    <3>2. jobs[IdOf(ref)] \in Refs /\ IdOf(jobs[IdOf(ref)]) = IdOf(ref)
      BY <1>1, <3>1 DEF ScheduledSoFar, SetupTyped
    <3> QED
      BY <2>7, <3>1, <3>2 DEF ScheduledRefs
  <2> QED
    BY <1>5, <1>7, <2>3, <2>4, <2>5, <2>6, <2>7 DEF TriggersAllOrNothing
<1>8. CASE pc \notin {"failed", "done"}
  BY <1>5, <1>8 DEF TriggersAllOrNothing
<1> QED
  BY <1>6, <1>7, <1>8

-----------------------------------------------------------------------------
(* Sequences of sequences.                                                 *)

(* FlattenSeq holds what the sequences hold, and nothing else.             *)
LEMMA FlattenRange ==
  ASSUME NEW E, NEW ss \in Seq(Seq(E))
  PROVE  /\ FlattenSeq(ss) \in Seq(E)
         /\ \A v : v \in Range(FlattenSeq(ss)) <=> \E i \in DOMAIN ss : v \in Range(ss[i])
<1> DEFINE k == Len(ss)
           F == CHOOSE f : FlatUpTo(ss, f, k)
<1>1. k \in Nat /\ DOMAIN ss = 1 .. k /\ \A i \in 1 .. k : ss[i] \in Seq(E)
  BY LenProperties, ElementOfSeq
<1>2. CASE k = 0
  <2>1. ss = <<>> /\ FlattenSeq(ss) = ss
    BY <1>2, EmptySeq DEF FlattenSeq
  <2>2. DOMAIN ss = {} /\ FlattenSeq(ss) = <<>> /\ Range(FlattenSeq(ss)) = {} /\ <<>> \in Seq(E)
    BY <1>1, <1>2, <2>1, EmptyRange
  <2> QED
    BY <2>2
<1>3. CASE k # 0
  <2>1. FlatUpTo(ss, F, k)
    <3>1. \E f : FlatUpTo(ss, f, k)
      BY <1>1, FlatExists
    <3> QED
      BY <3>1, Zenon
  <2>2. FlattenSeq(ss) = F[k]
    BY <1>3 DEF FlattenSeq, FlatUpTo, FlatStep
  <2>3. \A n \in 1 .. k : F[n] = FlatStep(ss, F, n)
    BY <2>1 DEF FlatUpTo
  <2> HIDE DEF F, k
  <2> DEFINE Ok(n) == /\ F[n] \in Seq(E)
                      /\ \A v : v \in Range(F[n]) <=> \E i \in 1 .. n : v \in Range(ss[i])
             T == {n \in 1 .. k : ~Ok(n)}
  <2>4. T = {}
    <3> SUFFICES ASSUME T # {} PROVE FALSE
      OBVIOUS
    <3>1. PICK n \in T : \A l \in T : n <= l
      <4>1. T \in SUBSET Nat
        BY <1>1
      <4> HIDE DEF T
      <4> QED
        BY <4>1, LeastNumber
    <3>2. n \in 1 .. k /\ ~Ok(n)
      OBVIOUS
    <3>3. n - 1 \in 1 .. k => Ok(n - 1)
      <4> HIDE DEF Ok
      <4> QED
        BY <1>1, <3>1, <3>2
    <3>4. CASE n = 1
      <4>1. F[1] = ss[1] /\ ss[1] \in Seq(E)
        BY <1>1, <2>3, <3>2, <3>4 DEF FlatStep
      <4> QED
        BY <3>2, <3>4, <4>1
    <3>5. CASE n # 1
      <4>1. n - 1 \in 1 .. k /\ n \in 1 .. k /\ n \in Nat
        BY <1>1, <3>2, <3>5
      <4>2. F[n - 1] \in Seq(E) /\ \A v : v \in Range(F[n - 1]) <=> \E i \in 1 .. n - 1 : v \in Range(ss[i])
        BY <3>3, <4>1
      <4>3. F[n] = F[n - 1] \o ss[n] /\ ss[n] \in Seq(E)
        BY <1>1, <2>3, <3>5, <4>1 DEF FlatStep
      <4>4. F[n] \in Seq(E) /\ Range(F[n]) = Range(F[n - 1]) \cup Range(ss[n])
        BY <4>2, <4>3, RangeConcatenation, ConcatProperties
      <4>5. \A i : i \in 1 .. n <=> i \in 1 .. n - 1 \/ i = n
        BY <4>1, <1>1
      <4>6. Ok(n)
        BY <4>2, <4>4, <4>5
      <4> QED
        BY <3>2, <4>6
    <3> QED
      BY <3>4, <3>5
  <2>5. k \in 1 .. k
    BY <1>1, <1>3
  <2>6. Ok(k)
    <3> HIDE DEF Ok
    <3> QED
      BY <2>4, <2>5
  <2> QED
    BY <1>1, <2>2, <2>6
<1> QED
  BY <1>2, <1>3

-----------------------------------------------------------------------------
(* Documents. *)

IsPath(p) ==
  /\ IsSeq(p) /\ p # <<>> /\ Head(p) = Slash
  /\ Len(p) > 1 => p[2] # Slash

IsDocument(d) ==
  /\ IsSeq(d.prefix) /\ IsSeq(d.paths) /\ IsSeq(d.channels) /\ IsSeq(d.operations)
  /\ \A ch \in Range(d.channels) : isAsync(d) /\ IsSeq(ch.address) /\ IsSeq(ch.protocols)
  /\ \A op \in Range(d.operations) : IsSeq(op.protocols)
  /\ d.kind \in {"openapi", "asyncapi"} /\ IsSeq(d.gateway)
  /\ \A entry \in Range(d.paths) : IsPath(entry.path)

LEMMA DocumentsAre ==
  ASSUME docs \in Documents
  PROVE  /\ docs \in Seq(Range(docs)) /\ Len(docs) \in Nat /\ DOMAIN docs = 1 .. Len(docs)
         /\ \A s \in DOMAIN docs : docs[s] \in Range(docs) /\ IsDocument(docs[s])
<1>1. IsSeq(docs)
  BY DocumentsAssumption DEF IsSeq
<1>2. \A d \in Range(docs) : IsDocument(d)
  BY StartupAssumption DEF IsDocument, IsPath
<1> QED
  BY <1>1, <1>2, SeqElements DEF IsSeq

LEMMA WiderSeq ==
  ASSUME NEW A, NEW B, A \subseteq B, NEW s \in Seq(A)
  PROVE  s \in Seq(B)
<1>1. Len(s) \in Nat /\ s \in [1 .. Len(s) -> A]
  BY LenProperties, ElementOfSeq
<1>2. s \in [1 .. Len(s) -> B]
  BY <1>1
<1> QED
  BY <1>1, <1>2, SeqDef

LEMMA NoElements ==
  ASSUME NEW E, NEW s \in Seq(E)
  PROVE  s = <<>> <=> \A v : v \notin Range(s)
<1>1. Len(s) \in Nat /\ DOMAIN s = 1 .. Len(s)
  BY LenProperties
<1>2. ASSUME s # <<>> PROVE s[1] \in Range(s)
  BY <1>1, <1>2, EmptySeq DEF Range
<1> QED
  BY <1>2, EmptyRange

LEMMA OperationsOf ==
  ASSUME NEW d, IsDocument(d), NEW ch
  PROVE  /\ opsOf(d, ch) \in Seq(Range(d.operations))
         /\ \A op : op \in Range(opsOf(d, ch)) <=> op \in Range(d.operations) /\ op.channel = ch.id
<1> DEFINE E == Range(d.operations)
           S == {op \in E : op.channel = ch.id}
<1>1. d.operations \in Seq(E)
  BY DEF IsDocument, IsSeq
<1>2. opsOf(d, ch) = Keep(d.operations, S)
  BY DEF opsOf
<1> HIDE DEF E
<1>3. Keep(d.operations, S) \in Seq(E \cap S) /\ Range(Keep(d.operations, S)) = Range(d.operations) \cap S
  BY <1>1, KeepRange
<1>4. Keep(d.operations, S) \in Seq(E)
  <2>1. E \cap S \subseteq E
    OBVIOUS
  <2> HIDE DEF S
  <2> QED
    BY <1>3, <2>1, WiderSeq
<1>5. Range(d.operations) = E
  BY DEF E
<1> QED
  BY <1>2, <1>3, <1>4, <1>5

(* The bindings of a channel are its own and those of its operations.      *)
LEMMA BindingsOf ==
  ASSUME NEW d, IsDocument(d), NEW ch \in Range(d.channels)
  PROVE  /\ bindingsOf(d, ch) \in Seq(Range(bindingsOf(d, ch)))
         /\ \A p : p \in Range(bindingsOf(d, ch)) <=> Declares(d, ch, p)
<1> DEFINE ops == opsOf(d, ch)
           ss == [i \in DOMAIN ops |-> ops[i].protocols]
           E == Range(ch.protocols) \cup UNION {Range(op.protocols) : op \in Range(d.operations)}
<1>1. /\ ops \in Seq(Range(d.operations))
      /\ \A op : op \in Range(ops) <=> op \in Range(d.operations) /\ op.channel = ch.id
  BY OperationsOf
<1>2. /\ Len(ops) \in Nat /\ DOMAIN ops = 1 .. Len(ops)
      /\ \A i \in DOMAIN ops : ops[i] \in Range(ops) /\ ops[i] \in Range(d.operations)
  BY <1>1, LenProperties DEF Range
<1>3. ch.protocols \in Seq(E)
  <2>1. ch.protocols \in Seq(Range(ch.protocols))
    BY DEF IsDocument, IsSeq
  <2>2. Range(ch.protocols) \subseteq E
    OBVIOUS
  <2> HIDE DEF E
  <2> QED
    BY <2>1, <2>2, WiderSeq
<1>4. \A op \in Range(d.operations) : op.protocols \in Seq(E)
  <2> TAKE op \in Range(d.operations)
  <2>1. op.protocols \in Seq(Range(op.protocols))
    BY DEF IsDocument, IsSeq
  <2>2. Range(op.protocols) \subseteq E
    OBVIOUS
  <2> HIDE DEF E
  <2> QED
    BY <2>1, <2>2, WiderSeq
<1>5. bindingsOf(d, ch) = ch.protocols \o FlattenSeq(ss)
  BY DEF bindingsOf
<1> HIDE DEF ops, E
<1>6. ss \in Seq(Seq(E)) /\ DOMAIN ss = DOMAIN ops
  BY <1>2, <1>4
<1>7. \A i \in DOMAIN ops : ss[i] = ops[i].protocols
  OBVIOUS
<1> HIDE DEF ss
<1>8. /\ FlattenSeq(ss) \in Seq(E)
      /\ \A v : v \in Range(FlattenSeq(ss)) <=> \E i \in DOMAIN ss : v \in Range(ss[i])
  BY <1>6, FlattenRange
<1>9. /\ bindingsOf(d, ch) \in Seq(E)
      /\ Range(bindingsOf(d, ch)) = Range(ch.protocols) \cup Range(FlattenSeq(ss))
  BY <1>3, <1>5, <1>8, RangeConcatenation, ConcatProperties
<1>10. \A p : p \in Range(FlattenSeq(ss)) <=>
               \E op \in Range(d.operations) : op.channel = ch.id /\ p \in Range(op.protocols)
  <2> TAKE p
  <2>1. p \in Range(FlattenSeq(ss)) <=> \E op \in Range(ops) : p \in Range(op.protocols)
    <3>1. p \in Range(FlattenSeq(ss)) <=> \E i \in DOMAIN ops : p \in Range(ops[i].protocols)
      BY <1>6, <1>7, <1>8
    <3>2. \A op : op \in Range(ops) <=> \E i \in DOMAIN ops : op = ops[i]
      BY DEF Range
    <3> QED
      BY <3>1, <3>2
  <2> QED
    BY <1>1, <2>1
<1>11. \A p : Declares(d, ch, p) <=>
               \/ p \in Range(ch.protocols)
               \/ \E op \in Range(d.operations) : op.channel = ch.id /\ p \in Range(op.protocols)
  BY DEF Declares, Range
<1>12. bindingsOf(d, ch) \in Seq(Range(bindingsOf(d, ch)))
  BY <1>9, SeqOfRange
<1> QED
  BY <1>9, <1>10, <1>11, <1>12

(* The protocol of a channel is a supported one that it declares, if it    *)
(* declares any.                                                           *)
LEMMA ProtocolOf ==
  ASSUME NEW d, IsDocument(d), NEW ch \in Range(d.channels)
  PROVE  /\ protocolOf(d, ch) = "" <=> \A p \in {"http", "ws"} : ~Declares(d, ch, p)
         /\ protocolOf(d, ch) # "" => protocolOf(d, ch) \in {"http", "ws"} /\ Declares(d, ch, protocolOf(d, ch))
<1> DEFINE prots == bindingsOf(d, ch)
           usable == Keep(prots, Supported)
           E == Range(prots)
<1>1. /\ prots \in Seq(E)
      /\ \A p : p \in E <=> Declares(d, ch, p)
  BY BindingsOf
<1>2. protocolOf(d, ch) = IF usable = <<>> THEN "" ELSE Head(usable)
  BY DEF protocolOf, routeProtocol
<1>3. /\ usable \in Seq(E \cap Supported)
      /\ Range(usable) = E \cap Supported
  <2> HIDE DEF prots, E
  <2>1. Keep(prots, Supported) \in Seq(E \cap Supported)
        /\ Range(Keep(prots, Supported)) = Range(prots) \cap Supported
    BY <1>1, KeepRange
  <2> QED
    BY <2>1 DEF E
<1> HIDE DEF prots, usable, E
<1>4. usable = <<>> <=> \A p \in Supported : p \notin E
  BY <1>3, NoElements
<1>5. usable # <<>> => Head(usable) \in E \cap Supported
  BY <1>3, HeadTailProperties
<1>6. "" \notin Supported /\ Supported = {"http", "ws"}
  BY DEF Supported
<1> QED
  BY <1>1, <1>2, <1>4, <1>5, <1>6

(* The loader and the router refuse the documents that cannot be used.     *)
LEMMA UnusableIsRefused ==
  ASSUME NEW d, IsDocument(d)
  PROVE  UnusableDocument(d) <=>
           ~validate(d) \/ \E i \in DOMAIN d.channels : channelError(d, d.channels[i])
<1>1. /\ DOMAIN d.channels = 1 .. Len(d.channels) /\ Len(d.channels) \in Nat
      /\ \A i \in DOMAIN d.channels : d.channels[i] \in Range(d.channels)
      /\ d.channels = <<>> \/ 1 \in DOMAIN d.channels
  <2>1. d.channels = <<>> \/ Len(d.channels) # 0
    BY EmptySeq DEF IsDocument, IsSeq
  <2> QED
    BY <2>1, SeqElements DEF IsDocument
<1>2. ASSUME NEW ch \in Range(d.channels)
      PROVE  channelError(d, ch) <=> \/ \A j \in DOMAIN d.operations : d.operations[j].channel # ch.id
                                     \/ \A p \in {"http", "ws"} : ~Declares(d, ch, p)
                                     \/ ch.address = <<>> /\ ~ofHub(d, ch)
  <2>1. opsOf(d, ch) = <<>> <=> \A op \in Range(d.operations) : op.channel # ch.id
    BY OperationsOf, NoElements
  <2>2. opsOf(d, ch) = <<>> <=> \A j \in DOMAIN d.operations : d.operations[j].channel # ch.id
    BY <2>1 DEF Range
  <2> QED
    BY <2>2, ProtocolOf DEF channelError
<1>3. validateProtocols(d) <=>
        \A i \in DOMAIN d.channels : \/ d.channels[i].protocols = <<>>
                                     \/ \E j \in DOMAIN d.channels[i].protocols :
                                          d.channels[i].protocols[j] \in {"http", "ws"}
  BY DEF validateProtocols, Supported
<1>4. ASSUME d.operations = <<>>, d.channels # <<>>
      PROVE  channelError(d, d.channels[1]) /\ 1 \in DOMAIN d.channels
  BY <1>1, <1>2, <1>4
<1>5. UnusableDocument(d) <=>
        \/ d.version \in {"", "2"} \/ d.channels = <<>>
        \/ ~validateProtocols(d)
        \/ \E i \in DOMAIN d.channels : channelError(d, d.channels[i])
  BY <1>1, <1>2, <1>3 DEF UnusableDocument
<1> QED
  BY <1>4, <1>5 DEF validate

-----------------------------------------------------------------------------
(* Paths. *)

LEMMA BoundsIn ==
  ASSUME NEW n \in Nat, NEW S, S \subseteq 1 .. n, S # {}
  PROVE  /\ Min(S) \in S /\ \A i \in S : Min(S) <= i
         /\ Max(S) \in S /\ \A i \in S : i <= Max(S)
<1>0. \A i \in S : i \in 1 .. n /\ i \in Int /\ n - i \in Nat
  <2>1. \A i \in 1 .. n : i \in Int /\ n - i \in Nat
    OBVIOUS
  <2> QED
    BY <2>1
<1>1. \E m \in S : \A i \in S : m <= i
  <2>1. S \in SUBSET Nat
    OBVIOUS
  <2> QED
    BY <2>1, LeastNumber
<1>2. \E m \in S : \A i \in S : m >= i
  <2> DEFINE T == {n - i : i \in S}
  <2>1. T \in SUBSET Nat /\ T # {}
    BY <1>0
  <2>2. PICK k \in T : \A l \in T : k <= l
    <3> HIDE DEF T
    <3> QED
      BY <2>1, LeastNumber
  <2>3. PICK m \in S : k = n - m
    OBVIOUS
  <2>4. \A i \in S : n - m <= n - i
    BY <2>2, <2>3
  <2>5. \A i \in S : m >= i
    BY <1>0, <2>4
  <2> QED
    BY <2>5
<1>3. Min(S) \in S /\ \A i \in S : Min(S) <= i
  BY <1>1, Zenon DEF Min
<1>4. Max(S) \in S /\ \A i \in S : Max(S) >= i
  BY <1>2, Zenon DEF Max
<1> QED
  BY <1>0, <1>3, <1>4

LEMMA TrimTyped ==
  ASSUME NEW E, NEW p \in Seq(E)
  PROVE  Trim(p) \in Seq(E)
<1> DEFINE solid == {i \in DOMAIN p : p[i] # Slash}
<1>1. Len(p) \in Nat /\ DOMAIN p = 1 .. Len(p) /\ \A i \in 1 .. Len(p) : p[i] \in E
  BY LenProperties, ElementOfSeq
<1>2. CASE solid = {}
  <2>1. Trim(p) = <<>>
    BY <1>2 DEF Trim
  <2> QED
    BY <2>1
<1>3. CASE solid # {}
  <2>1. Trim(p) = SubSeq(p, Min(solid), Max(solid))
    BY <1>3 DEF Trim
  <2>2. solid \subseteq 1 .. Len(p)
    BY <1>1
  <2> HIDE DEF solid
  <2>3. Min(solid) \in 1 .. Len(p) /\ Max(solid) \in 1 .. Len(p)
    BY <1>1, <1>3, <2>2, BoundsIn
  <2> DEFINE a == Min(solid)
             b == Max(solid)
  <2> HIDE DEF a, b
  <2>4. a \in 1 .. Len(p) /\ b \in 1 .. Len(p)
    BY <2>3 DEF a, b
  <2>5. a \in Int /\ b \in Int /\ \A i \in a .. b : p[i] \in E
    BY <1>1, <2>4
  <2>6. SubSeq(p, a, b) \in Seq(E)
    BY <2>5, SubSeqProperties
  <2> QED
    BY <2>1, <2>6 DEF a, b
<1> QED
  BY <1>2, <1>3

(* A trailing slash more or less is nothing to a path that is trimmed.     *)
LEMMA TrimOfTrimSuffix ==
  ASSUME NEW E, NEW p \in Seq(E)
  PROVE  Trim(TrimSuffix(p)) = Trim(p)
<1>1. Len(p) \in Nat /\ DOMAIN p = 1 .. Len(p) /\ \A i \in 1 .. Len(p) : p[i] \in E
  BY LenProperties, ElementOfSeq
<1>2. SUFFICES ASSUME p # <<>>, p[Len(p)] = Slash
               PROVE  Trim(SubSeq(p, 1, Len(p) - 1)) = Trim(p)
  BY DEF TrimSuffix, Last, Front
<1> DEFINE n == Len(p) - 1
           q == SubSeq(p, 1, n)
           solid(s) == {i \in DOMAIN s : s[i] # Slash}
<1>3. n \in Nat /\ Len(p) = n + 1
  BY <1>1, <1>2, EmptySeq
<1>4. q \in Seq(E) /\ DOMAIN q = 1 .. n /\ \A i \in 1 .. n : q[i] = p[i]
  <2> HIDE DEF n
  <2>1. 1 \in Int /\ n \in Int /\ \A i \in 1 .. n : p[i] \in E
    BY <1>1, <1>3
  <2>2. q \in Seq(E) /\ Len(q) = (IF 1 <= n THEN n - 1 + 1 ELSE 0) /\ \A i \in 1 .. n - 1 + 1 : q[i] = p[1 + i - 1]
    BY <2>1, SubSeqProperties
  <2>3. Len(q) = n /\ DOMAIN q = 1 .. Len(q)
    BY <1>3, <2>2, LenProperties
  <2>4. \A i \in 1 .. n : i \in 1 .. n - 1 + 1 /\ 1 + i - 1 = i
    BY <1>3
  <2> QED
    BY <2>2, <2>3, <2>4
<1> HIDE DEF q, n
<1>5. solid(q) = solid(p)
  BY <1>1, <1>2, <1>3, <1>4
<1>6. solid(p) \subseteq 1 .. n
  BY <1>1, <1>2, <1>3
<1>7. CASE solid(p) = {}
  <2>1. Trim(p) = <<>> /\ Trim(q) = <<>>
    BY <1>5, <1>7 DEF Trim
  <2> QED
    BY <2>1 DEF q, n
<1>8. CASE solid(p) # {}
  <2> DEFINE a == Min(solid(p))
             b == Max(solid(p))
  <2>1. Trim(p) = SubSeq(p, a, b) /\ Trim(q) = SubSeq(q, a, b)
    BY <1>5, <1>8 DEF Trim
  <2>2. a \in 1 .. n /\ b \in 1 .. n
    <3> DEFINE S == solid(p)
    <3>1. S \subseteq 1 .. n /\ S # {}
      BY <1>6, <1>8
    <3> HIDE DEF S
    <3>2. Min(S) \in S /\ Max(S) \in S
      BY <1>3, <3>1, BoundsIn
    <3>3. a \in S /\ b \in S
      BY <3>2 DEF S
    <3> QED
      BY <3>1, <3>3
  <2> HIDE DEF a, b
  <2>3. \A i \in 1 .. 1 + b - a : i + a - 1 \in 1 .. n
    BY <1>3, <2>2
  <2>4. \A i \in a .. b : p[i] \in E /\ q[i] \in E /\ i \in 1 .. n
    BY <1>1, <1>3, <1>4, <2>2
  <2>5. /\ SubSeq(p, a, b) \in Seq(E) /\ Len(SubSeq(p, a, b)) = (IF a <= b THEN b - a + 1 ELSE 0)
        /\ \A i \in 1 .. b - a + 1 : SubSeq(p, a, b)[i] = p[a + i - 1]
    BY <1>3, <2>2, <2>4, SubSeqProperties
  <2>6. /\ SubSeq(q, a, b) \in Seq(E) /\ Len(SubSeq(q, a, b)) = (IF a <= b THEN b - a + 1 ELSE 0)
        /\ \A i \in 1 .. b - a + 1 : SubSeq(q, a, b)[i] = q[a + i - 1]
    BY <1>3, <2>2, <2>4, SubSeqProperties
  <2> DEFINE u == SubSeq(p, a, b)
             v == SubSeq(q, a, b)
  <2>7. \A i \in 1 .. Len(u) : i \in 1 .. b - a + 1 /\ a + i - 1 \in 1 .. n
    BY <1>3, <2>2, <2>5
  <2>8. \A i \in 1 .. Len(u) : u[i] = v[i]
    BY <1>4, <2>5, <2>6, <2>7
  <2>9. u = v
    <3> HIDE DEF u, v
    <3>1. u \in Seq(E) /\ v \in Seq(E) /\ Len(u) = Len(v)
      BY <2>5, <2>6 DEF u, v
    <3> QED
      BY <3>1, <2>8, SeqEqual
  <2> QED
    BY <2>1, <2>9 DEF q, n
<1> QED
  BY <1>7, <1>8

LEMMA RootedIs ==
  ASSUME NEW E, NEW p \in Seq(E)
  PROVE  /\ Rooted(p) \in Seq(E \cup {Slash})
         /\ Rooted(p) # <<>> /\ Head(Rooted(p)) = Slash
         /\ \A r \in Seq(E \cup {Slash}) : /\ Rooted(p) \o r \in Seq(E \cup {Slash})
                                           /\ Head(Rooted(p) \o r) = Slash
                                           /\ Rooted(p) \o r # <<>>
<1> DEFINE F == E \cup {Slash}
           t == Trim(p)
<1>1. t \in Seq(F) /\ <<Slash>> \in Seq(F) /\ Len(<<Slash>>) = 1 /\ <<Slash>>[1] = Slash
  <2>1. t \in Seq(E) /\ E \subseteq F /\ Slash \in F
    BY TrimTyped
  <2> HIDE DEF F, t
  <2> QED
    BY <2>1, WiderSeq
<1> HIDE DEF F, t
<1>2. \A r \in Seq(F) : LET u == <<Slash>> \o r
                        IN u \in Seq(F) /\ u[1] = Slash /\ Len(u) = Len(r) + 1 /\ u # <<>> /\ Head(u) = Slash
  <2> TAKE r \in Seq(F)
  <2> DEFINE u == <<Slash>> \o r
  <2>1. u \in Seq(F) /\ Len(u) = 1 + Len(r) /\ Len(r) \in Nat
    BY <1>1, ConcatProperties, LenProperties
  <2>2. u[1] = Slash
    BY <1>1, <2>1, ConcatProperties
  <2>3. u # <<>>
    BY <2>1, EmptySeq
  <2> QED
    BY <2>1, <2>2, <2>3 DEF Head
<1>3. Rooted(p) = <<Slash>> \o t
  BY DEF Rooted, t
<1>4. \A r \in Seq(F) : Rooted(p) \o r = <<Slash>> \o (t \o r) /\ t \o r \in Seq(F)
  BY <1>1, <1>3, ConcatAssociative, ConcatProperties
<1> QED
  BY <1>1, <1>2, <1>3, <1>4 DEF F

(* The address of a route is the one that hubs, events and jobs use.       *)
LEMMA AddressesAgree ==
  ASSUME NEW prefix, IsSeq(prefix), prefix # <<Slash>>, NEW address, IsSeq(address)
  PROVE  /\ applyAddressPrefix(TrimSuffix(prefix), address) = asyncAddressWithPrefix(prefix, address)
         /\ Head(asyncAddressWithPrefix(prefix, address)) = Slash
         /\ asyncAddressWithPrefix(prefix, address) # <<>>
<1> DEFINE E == Range(prefix) \cup Range(address)
<1>1. prefix \in Seq(E) /\ address \in Seq(E)
  BY WiderSeq DEF IsSeq
<1> HIDE DEF E
<1>2. Rooted(TrimSuffix(prefix)) = Rooted(prefix)
  BY <1>1, TrimOfTrimSuffix DEF Rooted
<1>3. TrimSuffix(prefix) = <<>> <=> prefix = <<>>
  <2>1. TrimSuffix(<<>>) = <<>>
    BY DEF TrimSuffix
  <2>2. ASSUME prefix # <<>>, TrimSuffix(prefix) = <<>> PROVE FALSE
    <3>1. Len(prefix) \in Nat \ {0} /\ \A i \in 1 .. Len(prefix) : prefix[i] \in E
      BY <1>1, <2>2, EmptySeq, LenProperties, ElementOfSeq
    <3>2. Last(prefix) = Slash /\ SubSeq(prefix, 1, Len(prefix) - 1) = <<>>
      BY <2>2 DEF TrimSuffix, Front
    <3>3. Len(SubSeq(prefix, 1, Len(prefix) - 1)) = IF 1 <= Len(prefix) - 1 THEN Len(prefix) - 1 - 1 + 1 ELSE 0
      <4> DEFINE n == Len(prefix) - 1
      <4>1. 1 \in Int /\ n \in Int /\ \A i \in 1 .. n : prefix[i] \in E
        BY <3>1
      <4> HIDE DEF n
      <4>2. Len(SubSeq(prefix, 1, n)) = IF 1 <= n THEN n - 1 + 1 ELSE 0
        BY <4>1, SubSeqProperties
      <4> QED
        BY <4>2 DEF n
    <3>4. Len(prefix) = 1
      <4>1. Len(SubSeq(prefix, 1, Len(prefix) - 1)) = 0
        BY <3>2
      <4> DEFINE n == Len(prefix)
                 l == Len(SubSeq(prefix, 1, Len(prefix) - 1))
      <4>2. n \in Nat /\ n # 0 /\ l = 0 /\ l = IF 1 <= n - 1 THEN n - 1 - 1 + 1 ELSE 0
        BY <3>1, <3>3, <4>1
      <4> HIDE DEF n, l
      <4>3. n = 1
        BY <4>2
      <4> QED
        BY <4>3 DEF n
    <3>5. prefix = <<prefix[1]>>
      <4>1. <<prefix[1]>> \in Seq(E) /\ Len(<<prefix[1]>>) = 1
        BY <3>1, <3>4
      <4>2. \A i \in 1 .. Len(prefix) : prefix[i] = <<prefix[1]>>[i]
        BY <3>4
      <4> QED
        BY <1>1, <3>4, <4>1, <4>2, SeqEqual
    <3> QED
      BY <3>2, <3>4, <3>5 DEF Last
  <2> QED
    BY <2>1, <2>2
<1>4. applyAddressPrefix(TrimSuffix(prefix), address) = asyncAddressWithPrefix(prefix, address)
  BY <1>2, <1>3 DEF applyAddressPrefix, asyncAddressWithPrefix, normalizeAddress
<1>5. Rooted(address) \in Seq(E \cup {Slash})
  BY <1>1, RootedIs
<1>6. Head(asyncAddressWithPrefix(prefix, address)) = Slash /\ asyncAddressWithPrefix(prefix, address) # <<>>
  BY <1>1, <1>5, RootedIs DEF asyncAddressWithPrefix
<1> QED
  BY <1>4, <1>6

(* One sequence begins with another, place by place. *)
Begins(s, t) == Len(s) <= Len(t) /\ \A i \in 1 .. Len(s) : s[i] = t[i]

LEMMA PrefixIsBegins ==
  ASSUME NEW E, NEW s \in Seq(E), NEW t \in Seq(E)
  PROVE  IsPrefix(s, t) <=> Begins(s, t)
<1>1. /\ Len(s) \in Nat /\ Len(t) \in Nat
      /\ \A i \in 1 .. Len(s) : s[i] \in E
      /\ \A i \in 1 .. Len(t) : t[i] \in E
  BY LenProperties, ElementOfSeq
<1> DEFINE n == Len(s)
           u == SubSeq(s, 1, n)
           v == SubSeq(t, 1, n)
<1>2. CASE n <= Len(t)
  <2>1. /\ 1 \in Int /\ n \in Int
        /\ \A i \in 1 .. n : s[i] \in E /\ t[i] \in E
    BY <1>1, <1>2
  <2>2. n \in Nat
    BY <1>1
  <2> HIDE DEF n
  <2>3. /\ u \in Seq(E) /\ Len(u) = (IF 1 <= n THEN n - 1 + 1 ELSE 0)
        /\ \A i \in 1 .. n - 1 + 1 : u[i] = s[1 + i - 1]
    BY <2>1, SubSeqProperties
  <2>4. /\ v \in Seq(E) /\ Len(v) = (IF 1 <= n THEN n - 1 + 1 ELSE 0)
        /\ \A i \in 1 .. n - 1 + 1 : v[i] = t[1 + i - 1]
    BY <2>1, SubSeqProperties
  <2>5. \A i \in 1 .. n : i \in 1 .. n - 1 + 1 /\ 1 + i - 1 = i
    BY <2>2
  <2>6. Len(u) = n /\ Len(v) = n /\ \A i \in 1 .. n : u[i] = s[i] /\ v[i] = t[i]
    <3> HIDE DEF u, v
    <3> QED
      BY <2>2, <2>3, <2>4, <2>5
  <2>7. u = v <=> \A i \in 1 .. n : s[i] = t[i]
    <3>1. ASSUME \A i \in 1 .. n : s[i] = t[i] PROVE u = v
      <4> HIDE DEF u, v
      <4>1. \A i \in 1 .. Len(u) : u[i] = v[i]
        BY <2>6, <3>1
      <4> QED
        BY <2>3, <2>4, <2>6, <4>1, SeqEqual
    <3>2. ASSUME u = v PROVE \A i \in 1 .. n : s[i] = t[i]
      <4> HIDE DEF u, v
      <4> QED
        BY <2>6, <3>2
    <3> QED
      BY <3>1, <3>2
  <2> QED
    BY <1>2, <2>7 DEF IsPrefix, Begins, n
<1>3. CASE ~(n <= Len(t))
  BY <1>3 DEF IsPrefix, Begins
<1> QED
  BY <1>2, <1>3

(* What remains of a path that is trimmed, place by place. *)
LEMMA TrimIs ==
  ASSUME NEW E, NEW p \in Seq(E)
  PROVE  \/ Trim(p) = <<>> /\ \A i \in 1 .. Len(p) : p[i] = Slash
         \/ \E a, b \in 1 .. Len(p) :
              /\ a <= b /\ p[a] # Slash /\ p[b] # Slash
              /\ \A i \in 1 .. Len(p) : i < a \/ i > b => p[i] = Slash
              /\ Len(Trim(p)) = b - a + 1
              /\ \A i \in 1 .. b - a + 1 : Trim(p)[i] = p[a + i - 1]
<1> DEFINE solid == {i \in DOMAIN p : p[i] # Slash}
<1>1. Len(p) \in Nat /\ DOMAIN p = 1 .. Len(p) /\ \A i \in 1 .. Len(p) : p[i] \in E
  BY LenProperties, ElementOfSeq
<1>2. CASE solid = {}
  <2>1. Trim(p) = <<>>
    BY <1>2 DEF Trim
  <2>2. \A i \in 1 .. Len(p) : p[i] = Slash
    BY <1>1, <1>2
  <2> QED
    BY <2>1, <2>2
<1>3. CASE solid # {}
  <2> DEFINE a == Min(solid)
             b == Max(solid)
  <2>1. Trim(p) = SubSeq(p, a, b)
    BY <1>3 DEF Trim
  <2>2. /\ a \in solid /\ \A i \in solid : a <= i
        /\ b \in solid /\ \A i \in solid : i <= b
    <3>1. solid \subseteq 1 .. Len(p)
      BY <1>1
    <3> HIDE DEF solid
    <3> QED
      BY <1>1, <1>3, <3>1, BoundsIn
  <2> HIDE DEF a, b
  <2>3. a \in 1 .. Len(p) /\ b \in 1 .. Len(p) /\ a <= b /\ p[a] # Slash /\ p[b] # Slash
    BY <1>1, <2>2
  <2>4. \A i \in 1 .. Len(p) : i < a \/ i > b => p[i] = Slash
    BY <1>1, <2>2, <2>3
  <2>5. \A i \in a .. b : p[i] \in E
    BY <1>1, <2>3
  <2>6. /\ Len(SubSeq(p, a, b)) = (IF a <= b THEN b - a + 1 ELSE 0)
        /\ \A i \in 1 .. b - a + 1 : SubSeq(p, a, b)[i] = p[a + i - 1]
    BY <2>3, <2>5, SubSeqProperties
  <2>7. /\ Len(Trim(p)) = b - a + 1
        /\ \A i \in 1 .. b - a + 1 : Trim(p)[i] = p[a + i - 1]
    BY <2>1, <2>3, <2>6
  <2> QED
    BY <2>3, <2>4, <2>7
<1> QED
  BY <1>2, <1>3

(* A path before another one, and a slash after it. *)
LEMMA ConcatIs ==
  ASSUME NEW E, NEW s \in Seq(E), NEW t \in Seq(E)
  PROVE  /\ s \o t \in Seq(E) /\ Len(s \o t) = Len(s) + Len(t)
         /\ \A i \in 1 .. Len(s) : (s \o t)[i] = s[i]
         /\ \A i \in 1 .. Len(t) : (s \o t)[Len(s) + i] = t[i]
<1>1. Len(s) \in Nat /\ Len(t) \in Nat
  BY LenProperties
<1>2. /\ s \o t \in Seq(E) /\ Len(s \o t) = Len(s) + Len(t)
      /\ \A i \in 1 .. Len(s) + Len(t) : (s \o t)[i] = IF i <= Len(s) THEN s[i] ELSE t[i - Len(s)]
  BY ConcatProperties
<1> DEFINE u == s \o t
           m == Len(s)
           n == Len(t)
<1> HIDE DEF u, m, n
<1>3. m \in Nat /\ n \in Nat /\ \A i \in 1 .. m + n : u[i] = IF i <= m THEN s[i] ELSE t[i - m]
  BY <1>1, <1>2 DEF u, m, n
<1>4. ASSUME NEW i \in 1 .. m PROVE u[i] = s[i]
  BY <1>3
<1>5. ASSUME NEW i \in 1 .. n PROVE u[m + i] = t[i]
  <2>1. m + i \in 1 .. m + n /\ ~(m + i <= m) /\ m + i - m = i
    BY <1>3
  <2> QED
    BY <1>3, <2>1
<1> QED
  BY <1>2, <1>4, <1>5 DEF u, m, n

LEMMA SlashedIs ==
  ASSUME NEW E, NEW s \in Seq(E), Slash \in E
  PROVE  /\ s \o <<Slash>> \in Seq(E) /\ Len(s \o <<Slash>>) = Len(s) + 1
         /\ \A i \in 1 .. Len(s) : (s \o <<Slash>>)[i] = s[i]
         /\ (s \o <<Slash>>)[Len(s) + 1] = Slash
         /\ <<Slash>> \o s \in Seq(E) /\ Len(<<Slash>> \o s) = Len(s) + 1
         /\ (<<Slash>> \o s)[1] = Slash
         /\ \A i \in 1 .. Len(s) : (<<Slash>> \o s)[1 + i] = s[i]
<1>1. <<Slash>> \in Seq(E) /\ Len(<<Slash>>) = 1 /\ <<Slash>>[1] = Slash
  OBVIOUS
<1>2. 1 \in 1 .. 1 /\ Len(s) \in Nat
  BY LenProperties
<1> DEFINE u == <<Slash>>
<1>3. u \in Seq(E) /\ Len(u) = 1 /\ u[1] = Slash
  BY <1>1
<1> HIDE DEF u
<1>4. /\ s \o u \in Seq(E) /\ Len(s \o u) = Len(s) + 1
      /\ \A i \in 1 .. Len(s) : (s \o u)[i] = s[i]
      /\ (s \o u)[Len(s) + 1] = Slash
  <2>1. /\ s \o u \in Seq(E) /\ Len(s \o u) = Len(s) + 1
        /\ \A i \in 1 .. Len(s) : (s \o u)[i] = s[i]
        /\ \A i \in 1 .. 1 : (s \o u)[Len(s) + i] = u[i]
    BY <1>3, ConcatIs
  <2> QED
    BY <1>2, <1>3, <2>1
<1>5. /\ u \o s \in Seq(E) /\ Len(u \o s) = Len(s) + 1
      /\ (u \o s)[1] = Slash
      /\ \A i \in 1 .. Len(s) : (u \o s)[1 + i] = s[i]
  <2>1. /\ u \o s \in Seq(E) /\ Len(u \o s) = 1 + Len(s)
        /\ \A i \in 1 .. 1 : (u \o s)[i] = u[i]
        /\ \A i \in 1 .. Len(s) : (u \o s)[1 + i] = s[i]
    BY <1>3, ConcatIs
  <2> QED
    BY <1>2, <1>3, <2>1
<1> QED
  BY <1>4, <1>5 DEF u

(* What stands before both takes no part in it. *)
LEMMA BeginsBehind ==
  ASSUME NEW E, NEW r \in Seq(E), NEW s \in Seq(E), NEW t \in Seq(E)
  PROVE  /\ Begins(r \o s, r \o t) <=> Begins(s, t)
         /\ r \o s = r \o t <=> s = t
<1>1. Len(r) \in Nat /\ Len(s) \in Nat /\ Len(t) \in Nat
  BY LenProperties
<1> DEFINE u == r \o s
           v == r \o t
           k == Len(r)
           m == Len(s)
           n == Len(t)
<1>2. /\ u \in Seq(E) /\ Len(u) = k + m
      /\ \A i \in 1 .. k : u[i] = r[i]
      /\ \A i \in 1 .. m : u[k + i] = s[i]
  BY ConcatIs
<1>3. /\ v \in Seq(E) /\ Len(v) = k + n
      /\ \A i \in 1 .. k : v[i] = r[i]
      /\ \A i \in 1 .. n : v[k + i] = t[i]
  BY ConcatIs
<1>4. k \in Nat /\ m \in Nat /\ n \in Nat
  BY <1>1
<1>5. /\ Begins(u, v) <=> Len(u) <= Len(v) /\ \A i \in 1 .. Len(u) : u[i] = v[i]
      /\ Begins(s, t) <=> m <= n /\ \A i \in 1 .. m : s[i] = t[i]
  BY DEF Begins
<1> HIDE DEF u, v, k, m, n
<1>6. ASSUME m <= n PROVE (\A i \in 1 .. k + m : u[i] = v[i]) <=> \A i \in 1 .. m : s[i] = t[i]
  <2>1. ASSUME \A i \in 1 .. k + m : u[i] = v[i], NEW i \in 1 .. m PROVE s[i] = t[i]
    <3>1. i \in 1 .. n /\ k + i \in 1 .. k + m
      BY <1>4, <1>6
    <3> QED
      BY <1>2, <1>3, <2>1, <3>1
  <2>2. ASSUME \A i \in 1 .. m : s[i] = t[i], NEW i \in 1 .. k + m PROVE u[i] = v[i]
    <3>1. CASE i <= k
      <4>1. i \in 1 .. k
        BY <1>4, <3>1
      <4> QED
        BY <1>2, <1>3, <4>1
    <3>2. CASE i > k
      <4> DEFINE j == i - k
      <4>1. j \in 1 .. m /\ j \in 1 .. n /\ i = k + j
        BY <1>4, <1>6, <3>2
      <4> HIDE DEF j
      <4> QED
        BY <1>2, <1>3, <2>2, <4>1
    <3> QED
      BY <1>4, <3>1, <3>2
  <2> QED
    BY <2>1, <2>2
<1>7. k + m <= k + n <=> m <= n
  BY <1>4
<1>8. Begins(u, v) <=> Begins(s, t)
  BY <1>2, <1>3, <1>5, <1>6, <1>7
<1>9. ASSUME u = v PROVE s = t
  <2>1. m = n
    BY <1>2, <1>3, <1>4, <1>9
  <2>2. Len(s) = Len(t) /\ \A i \in 1 .. Len(s) : s[i] = t[i]
    BY <1>2, <1>3, <1>9, <2>1 DEF m, n
  <2> QED
    BY <2>2, SeqEqual
<1> QED
  BY <1>8, <1>9 DEF u, v

LEMMA ConcatCancels ==
  ASSUME NEW E, NEW r \in Seq(E), NEW s \in Seq(E), NEW t \in Seq(E), r \o s = r \o t
  PROVE  s = t
<1> QED
  BY BeginsBehind

Joined(s, t) == s \o t

LEMMA JoinedFour ==
  ASSUME NEW E, NEW r \in Seq(E), NEW s \in Seq(E), NEW t \in Seq(E)
  PROVE  Joined(Joined(r, Joined(s, t)), s) = Joined(r, Joined(s, Joined(t, s)))
<1> DEFINE u == s \o t
           y == t \o s
<1>1. u \in Seq(E)
  BY ConcatProperties
<1>2. u \o s = s \o y
  BY ONLY r \in Seq(E), s \in Seq(E), t \in Seq(E), ConcatAssociative
<1> HIDE DEF u
<1>3. (r \o u) \o s = r \o (u \o s)
  BY ONLY r \in Seq(E), s \in Seq(E), <1>1, ConcatAssociative
<1> HIDE DEF y
<1>4. (r \o u) \o s = r \o (s \o y)
  BY <1>2, <1>3
<1> QED
  BY <1>4 DEF u, y, Joined

(* The gateway of a document with a prefix: what is compared is the        *)
(* trimmed path, behind the prefix.                                        *)
LEMMA GatewayBehindPrefix ==
  ASSUME NEW E, Slash \in E,
         NEW prefix \in Seq(E), prefix # <<>>, NEW path \in Seq(E), NEW gateway \in Seq(E)
  PROVE  isUnderGateway(PrefixPath(prefix, path), gateway, prefix) <=> Beneath(path, gateway)
<1> DEFINE R == Rooted(prefix)
           g == Trim(gateway)
           p == Trim(path)
           full == PrefixPath(prefix, path)
           gw == PrefixPath(prefix, gateway)
<1>1. R \in Seq(E) /\ g \in Seq(E) /\ p \in Seq(E)
  <2>1. Rooted(prefix) \in Seq(E \cup {Slash}) /\ E \cup {Slash} = E
    BY RootedIs
  <2> QED
    BY <2>1, TrimTyped
<1>2. /\ full = IF p = <<>> THEN R ELSE R \o (<<Slash>> \o p)
      /\ gw = IF g = <<>> THEN R ELSE R \o (<<Slash>> \o g)
      /\ isUnderGateway(full, gateway, prefix) <=> full = gw \/ IsPrefix(gw \o <<Slash>>, full)
      /\ Beneath(path, gateway) <=> g = <<>> \/ g = p \/ IsPrefix(g \o <<Slash>>, p)
  BY DEF PrefixPath, Rooted, isUnderGateway, Beneath
<1>0. SUFFICES isUnderGateway(full, gateway, prefix) <=> Beneath(path, gateway)
  OBVIOUS
<1> HIDE DEF R, g, p, full, gw
<1>3. /\ Len(R) \in Nat /\ Len(g) \in Nat /\ Len(p) \in Nat
      /\ \A s \in Seq(E) : /\ s \o <<Slash>> \in Seq(E) /\ Len(s \o <<Slash>>) = Len(s) + 1
                           /\ <<Slash>> \o s \in Seq(E) /\ Len(<<Slash>> \o s) = Len(s) + 1
                           /\ (<<Slash>> \o s)[1] = Slash
  BY <1>1, SlashedIs, LenProperties
<1> DEFINE sl == <<Slash>>
<1>4. sl \in Seq(E) /\ Len(sl) = 1 /\ sl[1] = Slash
  OBVIOUS
<1> HIDE DEF sl
<1>5. CASE g = <<>>
  <2>1. gw = R
    BY <1>2, <1>5
  <2>2. CASE p = <<>>
    BY <1>2, <1>5, <2>1, <2>2
  <2>3. CASE p # <<>>
    <3>1. full = R \o (sl \o p)
      BY <1>2, <2>3 DEF sl
    <3>2. sl \o p \in Seq(E) /\ Len(sl \o p) = Len(p) + 1 /\ (sl \o p)[1] = Slash
      BY <1>1, <1>3 DEF sl
    <3>3. Begins(sl, sl \o p)
      BY <1>3, <1>4, <3>2 DEF Begins
    <3>4. Begins(R \o sl, R \o (sl \o p))
      BY <1>1, <1>4, <3>2, <3>3, BeginsBehind
    <3>5. R \o sl \in Seq(E) /\ R \o (sl \o p) \in Seq(E)
      BY <1>1, <1>4, <3>2, ConcatProperties
    <3>6. IsPrefix(R \o sl, R \o (sl \o p))
      BY <3>4, <3>5, PrefixIsBegins
    <3> QED
      BY <1>2, <1>5, <2>1, <3>1, <3>6 DEF sl
  <2> QED
    BY <2>2, <2>3
<1>6. CASE g # <<>>
  <2> DEFINE q == g \o sl
  <2>1. q \in Seq(E) /\ Len(q) = Len(g) + 1
    BY <1>1, <1>3 DEF sl
  <2> HIDE DEF q
  <2>2. /\ sl \o g \in Seq(E) /\ Len(sl \o g) = Len(g) + 1
        /\ sl \o p \in Seq(E) /\ sl \o q \in Seq(E)
    BY <1>1, <1>3, <2>1 DEF sl
  <2>3. gw = R \o (sl \o g) /\ gw \in Seq(E) /\ Len(gw) = Len(R) + (Len(g) + 1)
    <3>1. gw = R \o (sl \o g)
      BY <1>2, <1>6 DEF sl
    <3> DEFINE h == sl \o g
    <3>2. h \in Seq(E) /\ Len(h) = Len(g) + 1
      BY <2>2
    <3> HIDE DEF h
    <3>3. R \o h \in Seq(E) /\ Len(R \o h) = Len(R) + Len(h)
      BY <1>1, <3>2, ConcatIs
    <3> QED
      BY <3>1, <3>2, <3>3 DEF h
  <2>4. gw \o sl = R \o (sl \o q)
    <3>1. gw = R \o (sl \o g)
      BY <2>3
    <3>2. q = g \o sl
      BY DEF q
    <3>3. R \in Seq(E) /\ sl \in Seq(E) /\ g \in Seq(E)
      BY <1>1, <1>4
    <3>4. Joined(Joined(R, Joined(sl, g)), sl) = Joined(R, Joined(sl, Joined(g, sl)))
      BY ONLY <3>3, JoinedFour
    <3>5. Joined(gw, sl) = Joined(R, Joined(sl, q))
      <4>1. gw = Joined(R, Joined(sl, g)) /\ q = Joined(g, sl)
        BY <3>1, <3>2 DEF Joined
      <4> HIDE DEF gw, q
      <4> QED
        BY ONLY <3>4, <4>1, Zenon
    <3> QED
      BY <3>5 DEF Joined
  <2>5. gw \o sl \in Seq(E) /\ Len(gw \o sl) = Len(gw) + 1
    BY <1>3, <2>3 DEF sl
  <2>6. CASE p = <<>>
    <3>1. full = R /\ Len(p) = 0
      BY <1>2, <2>6
    <3>2. full # gw
      BY <1>3, <2>3, <3>1
    <3>3. ~IsPrefix(gw \o sl, full)
      BY <1>3, <2>3, <2>5, <3>1 DEF IsPrefix
    <3>4. ~IsPrefix(q, p)
      BY <1>3, <2>1, <3>1 DEF IsPrefix
    <3> QED
      BY <1>2, <1>6, <2>6, <3>2, <3>3, <3>4 DEF q, sl
  <2>7. CASE p # <<>>
    <3>1. full = R \o (sl \o p)
      BY <1>2, <2>7 DEF sl
    <3>2. full = gw <=> g = p
      <4>1. R \o (sl \o p) = R \o (sl \o g) => sl \o p = sl \o g
        BY <1>1, <2>2, ConcatCancels
      <4>2. sl \o p = sl \o g => p = g
        BY <1>1, <1>4, ConcatCancels
      <4> QED
        BY <2>3, <3>1, <4>1, <4>2
    <3>3. IsPrefix(gw \o sl, full) <=> IsPrefix(q, p)
      <4>1. Begins(R \o (sl \o q), R \o (sl \o p)) <=> Begins(sl \o q, sl \o p)
        BY <1>1, <2>2, BeginsBehind
      <4>2. Begins(sl \o q, sl \o p) <=> Begins(q, p)
        BY <1>1, <1>4, <2>1, BeginsBehind
      <4>3. full \in Seq(E)
        BY <1>1, <2>2, <3>1, ConcatProperties
      <4>4. IsPrefix(gw \o sl, full) <=> Begins(gw \o sl, full)
        BY <2>5, <4>3, PrefixIsBegins
      <4>5. IsPrefix(q, p) <=> Begins(q, p)
        BY <1>1, <2>1, PrefixIsBegins
      <4> QED
        BY <2>4, <3>1, <4>1, <4>2, <4>4, <4>5
    <3> QED
      BY <1>2, <1>6, <3>2, <3>3 DEF q, sl
  <2> QED
    BY <2>6, <2>7
<1> QED
  BY <1>5, <1>6 DEF full

(* Without a prefix the code takes no path for a procedure that is not     *)
(* beneath the gateway ...                                                 *)
LEMMA GatewayWithoutPrefix ==
  ASSUME NEW E, Slash \in E, NEW path \in Seq(E), NEW gateway \in Seq(E),
         path = gateway \/ IsPrefix(gateway \o <<Slash>>, path)
  PROVE  Beneath(path, gateway)
<1> SUFFICES ASSUME path # gateway, Trim(gateway) # <<>> PROVE Beneath(path, gateway)
  BY DEF Beneath
<1> DEFINE k == Len(gateway)
           n == Len(path)
           g == Trim(gateway)
           p == Trim(path)
           gs == gateway \o <<Slash>>
           q == g \o <<Slash>>
<1>1. k \in Nat /\ n \in Nat
  BY LenProperties
<1>2. gs \in Seq(E) /\ Len(gs) = k + 1 /\ (\A i \in 1 .. k : gs[i] = gateway[i]) /\ gs[k + 1] = Slash
  BY SlashedIs
<1>3. k + 1 <= n /\ (\A i \in 1 .. k : path[i] = gateway[i]) /\ path[k + 1] = Slash
  <2>1. Begins(gs, path)
    BY <1>2, PrefixIsBegins
  <2> HIDE DEF gs
  <2>2. Len(gs) <= n /\ \A i \in 1 .. Len(gs) : gs[i] = path[i]
    BY <2>1 DEF Begins
  <2>3. \A i \in 1 .. k : i \in 1 .. k + 1
    BY <1>1
  <2>4. k + 1 \in 1 .. k + 1
    BY <1>1
  <2> QED
    BY <1>2, <2>2, <2>3, <2>4
<1>4. PICK a, b \in 1 .. k :
         /\ a <= b /\ gateway[a] # Slash /\ gateway[b] # Slash
         /\ \A i \in 1 .. k : i < a \/ i > b => gateway[i] = Slash
         /\ Len(g) = b - a + 1
         /\ \A i \in 1 .. b - a + 1 : g[i] = gateway[a + i - 1]
  BY TrimIs
<1>5. a \in 1 .. n /\ path[a] = gateway[a]
  BY <1>1, <1>3
<1>6. PICK c, d \in 1 .. n :
         /\ c <= d /\ path[c] # Slash /\ path[d] # Slash
         /\ \A i \in 1 .. n : i < c \/ i > d => path[i] = Slash
         /\ Len(p) = d - c + 1
         /\ \A i \in 1 .. d - c + 1 : p[i] = path[c + i - 1]
  <2>1. ~(\A i \in 1 .. n : path[i] = Slash)
    BY <1>4, <1>5
  <2> QED
    BY <2>1, TrimIs
<1>7. q \in Seq(E) /\ Len(q) = Len(g) + 1 /\ (\A i \in 1 .. Len(g) : q[i] = g[i]) /\ q[Len(g) + 1] = Slash
      /\ g \in Seq(E) /\ p \in Seq(E)
  BY TrimTyped, SlashedIs
<1> HIDE DEF k, n, g, p, gs, q
<1>8. c = a
  <2>1. c <= a
    BY <1>1, <1>4, <1>5, <1>6
  <2>2. c \in 1 .. k
    BY <1>1, <1>4, <1>6, <2>1
  <2>3. gateway[c] # Slash
    BY <1>3, <1>6, <2>2
  <2>4. ~(c < a)
    BY <1>4, <2>2, <2>3
  <2> QED
    BY <1>4, <1>6, <2>1, <2>4
<1>9. b <= d
  <2>1. b \in 1 .. n /\ path[b] # Slash
    BY <1>1, <1>3, <1>4
  <2> QED
    BY <1>6, <2>1
<1>10. \A i \in 1 .. Len(g) : /\ i \in 1 .. d - c + 1 /\ i \in 1 .. b - a + 1
                              /\ a + i - 1 \in 1 .. k /\ c + i - 1 = a + i - 1
  BY <1>1, <1>4, <1>6, <1>8, <1>9
<1>11. \A i \in 1 .. Len(g) : g[i] = p[i]
  <2> TAKE i \in 1 .. Len(g)
  <2>1. g[i] = gateway[a + i - 1] /\ p[i] = path[c + i - 1]
    BY <1>4, <1>6, <1>10
  <2>2. path[a + i - 1] = gateway[a + i - 1]
    BY <1>3, <1>10
  <2> QED
    BY <1>10, <2>1, <2>2
<1>12. CASE b = d
  <2>1. Len(g) = Len(p)
    BY <1>4, <1>6, <1>8, <1>12
  <2>2. g = p
    BY <1>7, <1>11, <2>1, SeqEqual
  <2> QED
    BY <2>2 DEF Beneath, g, p
<1>13. CASE b # d
  <2>1. Len(g) \in Nat /\ Len(g) + 1 <= Len(p) /\ Len(g) + 1 \in 1 .. d - c + 1
    BY <1>4, <1>6, <1>8, <1>9, <1>13
  <2>2. c + (Len(g) + 1) - 1 = b + 1
    BY <1>4, <1>6, <1>8
  <2>3. p[Len(g) + 1] = path[b + 1]
    BY <1>6, <2>1, <2>2
  <2>4. path[b + 1] = Slash
    <3>1. CASE b = k
      BY <1>3, <3>1
    <3>2. CASE b # k
      <4>1. b + 1 \in 1 .. k /\ b + 1 > b
        BY <1>1, <1>4, <3>2
      <4> QED
        BY <1>3, <1>4, <4>1
    <3> QED
      BY <3>1, <3>2
  <2>5. Begins(q, p)
    <3>1. \A i \in 1 .. Len(q) : i \in 1 .. Len(g) \/ i = Len(g) + 1
      BY <1>7, <2>1
    <3>2. \A i \in 1 .. Len(q) : q[i] = p[i]
      BY <1>7, <1>11, <2>3, <2>4, <3>1
    <3> QED
      BY <1>7, <2>1, <3>2 DEF Begins
  <2>6. IsPrefix(q, p)
    BY <1>7, <2>5, PrefixIsBegins
  <2> QED
    BY <2>6 DEF Beneath, q, p, g
<1> QED
  BY <1>12, <1>13

(* ... and takes every path that is, if the gateway is spelled as a path.  *)
LEMMA GatewaySpelledAsPath ==
  ASSUME NEW E, Slash \in E, NEW path \in Seq(E), IsPath(path),
         NEW gateway \in Seq(E), gateway = Rooted(gateway), Trim(gateway) # <<>>,
         Beneath(path, gateway)
  PROVE  path = gateway \/ IsPrefix(gateway \o <<Slash>>, path)
<1> DEFINE n == Len(path)
           g == Trim(gateway)
           p == Trim(path)
           gs == gateway \o <<Slash>>
           q == g \o <<Slash>>
           m == Len(g)
<1>1. g \in Seq(E) /\ p \in Seq(E)
  BY TrimTyped
<1>2. /\ n \in Nat /\ m \in Nat /\ Len(p) \in Nat /\ m # 0
      /\ g = p \/ Begins(q, p)
  <2>1. q \in Seq(E)
    BY <1>1, SlashedIs
  <2>2. g = p \/ IsPrefix(q, p)
    BY DEF Beneath
  <2>3. m # 0
    BY <1>1, EmptySeq
  <2> QED
    BY <1>1, <2>1, <2>2, <2>3, LenProperties, PrefixIsBegins
<1>3. q \in Seq(E) /\ Len(q) = m + 1 /\ (\A i \in 1 .. m : q[i] = g[i]) /\ q[m + 1] = Slash
  BY <1>1, SlashedIs
<1>4. gateway = <<Slash>> \o g
  BY DEF Rooted
<1>5. Len(gateway) = m + 1 /\ gateway[1] = Slash /\ \A i \in 1 .. m : gateway[1 + i] = g[i]
  <2> HIDE DEF g
  <2> DEFINE h == <<Slash>> \o g
  <2>1. Len(h) = Len(g) + 1 /\ h[1] = Slash /\ \A i \in 1 .. Len(g) : h[1 + i] = g[i]
    BY <1>1, SlashedIs
  <2> HIDE DEF h
  <2>2. gateway = h
    BY <1>4 DEF h
  <2> QED
    BY <2>1, <2>2
<1>6. gs \in Seq(E) /\ Len(gs) = Len(gateway) + 1 /\ (\A i \in 1 .. Len(gateway) : gs[i] = gateway[i])
      /\ gs[Len(gateway) + 1] = Slash
  BY SlashedIs
<1>7. m <= Len(p) /\ \A i \in 1 .. m : p[i] = g[i]
  <2>1. CASE g = p
    BY <1>2, <2>1
  <2>2. CASE Begins(q, p)
    <3> HIDE DEF g, p, q, m
    <3>1. \A i \in 1 .. m : i \in 1 .. m + 1
      BY <1>2
    <3> QED
      BY <1>2, <1>3, <2>2, <3>1 DEF Begins
  <2> QED
    BY <1>2, <2>1, <2>2
<1>8. p # <<>>
  BY <1>2, <1>7
<1>9. PICK c, d \in 1 .. n :
         /\ c <= d /\ path[c] # Slash /\ path[d] # Slash
         /\ \A i \in 1 .. n : i < c \/ i > d => path[i] = Slash
         /\ Len(p) = d - c + 1
         /\ \A i \in 1 .. d - c + 1 : p[i] = path[c + i - 1]
  BY <1>8, TrimIs
<1>10. path[1] = Slash /\ (n > 1 => path[2] # Slash) /\ n # 0
  <2>1. n # 0
    BY <1>9, <1>2
  <2> QED
    BY <2>1, EmptySeq DEF IsPath, Head
<1> HIDE DEF n, g, p, gs, q, m
<1>11. c = 2 /\ 1 \in 1 .. n /\ 2 \in 1 .. n
  <2>1. c # 1
    BY <1>9, <1>10
  <2>2. c \in Nat /\ 2 <= c /\ n > 1
    BY <1>2, <1>9, <2>1
  <2>3. 2 \in 1 .. n /\ 1 \in 1 .. n
    BY <1>2, <2>2
  <2>4. ~(2 < c)
    BY <1>9, <1>10, <2>2, <2>3
  <2> QED
    BY <2>2, <2>3, <2>4
<1>12. \A i \in 1 .. m : i \in 1 .. d - c + 1 /\ c + i - 1 = 1 + i
  BY <1>2, <1>7, <1>9, <1>11
<1>13. \A i \in 1 .. m : path[1 + i] = gateway[1 + i]
  <2> TAKE i \in 1 .. m
  <2>1. p[i] = path[c + i - 1] /\ c + i - 1 = 1 + i
    BY <1>9, <1>12
  <2>2. path[1 + i] = p[i]
    BY <2>1
  <2>3. p[i] = g[i] /\ gateway[1 + i] = g[i]
    BY <1>5, <1>7
  <2> QED
    BY <2>2, <2>3
<1>14. m + 1 <= n /\ \A i \in 1 .. m + 1 : path[i] = gateway[i]
  <2>1. \A i \in 1 .. m + 1 : i = 1 \/ \E j \in 1 .. m : i = 1 + j
    <3> TAKE i \in 1 .. m + 1
    <3>1. i = 1 \/ (i - 1 \in 1 .. m /\ i = 1 + (i - 1))
      BY <1>2
    <3> QED
      BY <3>1
  <2>2. m + 1 <= n
    BY <1>2, <1>7, <1>9, <1>11
  <2> QED
    BY <1>5, <1>10, <1>13, <2>1, <2>2
<1>15. CASE n = m + 1
  <2>1. Len(path) = Len(gateway) /\ \A i \in 1 .. Len(path) : path[i] = gateway[i]
    BY <1>5, <1>14, <1>15 DEF n
  <2> QED
    BY <2>1, SeqEqual
<1>16. CASE n # m + 1
  <2>1. m + 2 \in 1 .. n
    BY <1>2, <1>14, <1>16
  <2>2. path[m + 2] = Slash
    <3>1. CASE g = p
      <4>1. m = d - c + 1
        BY <1>9, <3>1 DEF m
      <4>2. m + 2 > d
        BY <1>9, <1>11, <4>1
      <4> QED
        BY <1>9, <2>1, <4>2
    <3>2. CASE Begins(q, p)
      <4>1. m + 1 <= Len(p) /\ p[m + 1] = Slash
        <5>1. m + 1 \in 1 .. m + 1
          BY <1>2
        <5> QED
          BY <1>3, <3>2, <5>1 DEF Begins
      <4>2. m + 1 \in 1 .. d - c + 1 /\ c + (m + 1) - 1 = m + 2
        BY <1>2, <1>9, <1>11, <4>1
      <4> QED
        BY <1>9, <4>1, <4>2
    <3> QED
      BY <1>2, <3>1, <3>2
  <2>3. Len(gs) = m + 2 /\ m + 2 <= n
    BY <1>2, <1>5, <1>6, <2>1
  <2>4. \A i \in 1 .. m + 2 : i \in 1 .. m + 1 \/ i = m + 2
    BY <1>2
  <2>5. \A i \in 1 .. m + 2 : gs[i] = path[i]
    <3>1. gs[m + 2] = Slash /\ \A i \in 1 .. m + 1 : gs[i] = gateway[i]
      <4>1. Len(gateway) + 1 = m + 2
        BY <1>2, <1>5
      <4> QED
        BY <1>5, <1>6, <4>1
    <3> QED
      BY <1>14, <2>2, <2>4, <3>1
  <2>6. Begins(gs, path)
    BY <2>3, <2>5 DEF Begins, n
  <2> QED
    BY <1>6, <2>6, PrefixIsBegins DEF gs
<1> QED
  BY <1>15, <1>16

(* A path of a document and the gateway, by the code and by the documents. *)
LEMMA UnderIsBeneath ==
  ASSUME NEW d, IsDocument(d), NEW entry \in Range(d.paths), NEW gateway, IsSeq(gateway)
  PROVE  LET under == isUnderGateway(PrefixPath(d.prefix, entry.path), gateway, d.prefix)
         IN /\ under => Beneath(entry.path, gateway)
            /\ /\ d.prefix # <<>> \/ (gateway = Rooted(gateway) /\ Trim(gateway) # <<>>)
               /\ Beneath(entry.path, gateway)
               => under
<1> DEFINE E == Range(d.prefix) \cup Range(entry.path) \cup Range(gateway) \cup {Slash}
           under == isUnderGateway(PrefixPath(d.prefix, entry.path), gateway, d.prefix)
<1>1. IsPath(entry.path) /\ IsSeq(d.prefix) /\ IsSeq(entry.path)
  BY DEF IsDocument, IsPath
<1>2. /\ Range(d.prefix) \subseteq E /\ Range(entry.path) \subseteq E
      /\ Range(gateway) \subseteq E /\ Slash \in E
  OBVIOUS
<1> HIDE DEF E
<1>3. d.prefix \in Seq(E) /\ entry.path \in Seq(E) /\ gateway \in Seq(E)
  BY <1>1, <1>2, WiderSeq DEF IsSeq
<1>4. CASE d.prefix # <<>>
  BY <1>2, <1>3, <1>4, GatewayBehindPrefix
<1>5. CASE d.prefix = <<>>
  <2>1. under <=> entry.path = gateway \/ IsPrefix(gateway \o <<Slash>>, entry.path)
    BY <1>5 DEF isUnderGateway, PrefixPath
  <2>2. under => Beneath(entry.path, gateway)
    BY <1>2, <1>3, <2>1, GatewayWithoutPrefix
  <2>3. gateway = Rooted(gateway) /\ Trim(gateway) # <<>> /\ Beneath(entry.path, gateway) => under
    BY <1>1, <1>2, <1>3, <2>1, GatewaySpelledAsPath
  <2> QED
    BY <1>5, <2>2, <2>3
<1> QED
  BY <1>4, <1>5

-----------------------------------------------------------------------------
(* The construction of the server. *)

(* The x-rpc that the code reads is that of the first document with one.   *)
LEMMA FirstRpc ==
  ASSUME docs \in Documents, NEW s \in DOMAIN docs
  PROVE  IsFirstRpc(s) <=> hasRpc(docs) /\ s = Min(rpcSchemas(docs))
<1> DEFINE S == rpcSchemas(docs)
           n == Len(docs)
<1>1. n \in Nat /\ DOMAIN docs = 1 .. n /\ \A t \in DOMAIN docs : docs[t].kind \in {"openapi", "asyncapi"}
  BY DocumentsAre DEF IsDocument
<1>2. \A t \in DOMAIN docs : t \in S <=> HasRpc(t)
  BY <1>1 DEF rpcSchemas, isAsync, HasRpc
<1>3. S \subseteq 1 .. n
  BY <1>1 DEF rpcSchemas
<1>4. hasRpc(docs) <=> S # {}
  BY DEF hasRpc
<1> HIDE DEF S, n
<1>5. S # {} => Min(S) \in S /\ \A t \in S : Min(S) <= t
  BY <1>1, <1>3, BoundsIn
<1>6. \A t \in 1 .. n : t \in Nat
  BY <1>1
<1>7. IsFirstRpc(s) <=> s \in S /\ \A t \in 1 .. n : t < s => t \notin S
  BY <1>1, <1>2 DEF IsFirstRpc
<1>8. ASSUME s \in S, \A t \in 1 .. n : t < s => t \notin S
      PROVE  s = Min(S)
  <2>1. Min(S) \in 1 .. n /\ Min(S) <= s /\ ~(Min(S) < s)
    BY <1>3, <1>5, <1>8
  <2> QED
    BY <1>1, <1>6, <2>1
<1>9. ASSUME S # {}, s = Min(S), NEW t \in 1 .. n, t < s
      PROVE  t \notin S
  BY <1>1, <1>5, <1>6, <1>9
<1> QED
  BY <1>4, <1>5, <1>7, <1>8, <1>9 DEF S

(* The procedures of the code are named under the gateway, and those of    *)
(* the documents that know it are procedures of the code.                  *)
Named(gateway, chosen) ==
  {p \in UNION {{s} \X DOMAIN docs[s].paths : s \in chosen} :
     LET entry == docs[p[1]].paths[p[2]]
     IN /\ docs[p[1]].kind = "openapi" /\ entry.method = "POST" /\ entry.op # ""
        /\ Beneath(entry.path, gateway)}

LEMMA ProceduresAreNamed ==
  ASSUME docs \in Documents, NEW gateway, IsSeq(gateway), gatewayOf(docs) = gateway
  PROVE  /\ procedures(docs) \subseteq Named(gateway, DOMAIN docs)
         /\ Named(gateway, KnowGateway(gateway)) \subseteq procedures(docs)
<1> DEFINE pairs == UNION {{s} \X DOMAIN docs[s].paths : s \in DOMAIN docs}
           known == UNION {{s} \X DOMAIN docs[s].paths : s \in KnowGateway(gateway)}
           entry(p) == docs[p[1]].paths[p[2]]
           under(p) == isUnderGateway(PrefixPath(docs[p[1]].prefix, entry(p).path), gateway, docs[p[1]].prefix)
<1>1. \A p \in pairs : p[1] \in DOMAIN docs /\ p[2] \in DOMAIN docs[p[1]].paths
  OBVIOUS
<1>2. \A p \in known : p \in pairs /\ p[1] \in KnowGateway(gateway)
  BY DEF KnowGateway
<1>3. \A s \in DOMAIN docs : IsDocument(docs[s]) /\ docs[s].kind \in {"openapi", "asyncapi"}
  BY DocumentsAre DEF IsDocument
<1>4. ASSUME NEW p \in pairs
      PROVE  /\ under(p) => Beneath(entry(p).path, gateway)
             /\ p[1] \in KnowGateway(gateway) /\ Beneath(entry(p).path, gateway) => under(p)
             /\ ~isAsync(docs[p[1]]) <=> docs[p[1]].kind = "openapi"
  <2>1. IsDocument(docs[p[1]]) /\ entry(p) \in Range(docs[p[1]].paths)
    BY <1>1, <1>3 DEF Range
  <2>2. p[1] \in KnowGateway(gateway) =>
          docs[p[1]].prefix # <<>> \/ (gateway = Rooted(gateway) /\ Trim(gateway) # <<>>)
    BY DEF KnowGateway
  <2>3. ~isAsync(docs[p[1]]) <=> docs[p[1]].kind = "openapi"
    BY <1>1, <1>3 DEF isAsync
  <2> HIDE DEF entry
  <2> DEFINE d == docs[p[1]]
             e == entry(p)
  <2>4. /\ under(p) => Beneath(e.path, gateway)
        /\ /\ d.prefix # <<>> \/ (gateway = Rooted(gateway) /\ Trim(gateway) # <<>>)
           /\ Beneath(e.path, gateway)
           => under(p)
    <3>1. IsDocument(d) /\ e \in Range(d.paths)
      BY <2>1
    <3> HIDE DEF d, e
    <3> QED
      BY <3>1, UnderIsBeneath DEF d, e
  <2> QED
    BY <2>2, <2>3, <2>4
<1>5. \A p : p \in procedures(docs) <=>
        p \in pairs /\ ~isAsync(docs[p[1]]) /\ under(p) /\ entry(p).method = "POST" /\ entry(p).op # ""
  BY DEF procedures
<1>6. /\ \A p : p \in Named(gateway, DOMAIN docs) <=>
           /\ p \in pairs /\ docs[p[1]].kind = "openapi"
           /\ entry(p).method = "POST" /\ entry(p).op # "" /\ Beneath(entry(p).path, gateway)
      /\ \A p : p \in Named(gateway, KnowGateway(gateway)) <=>
           /\ p \in known /\ docs[p[1]].kind = "openapi"
           /\ entry(p).method = "POST" /\ entry(p).op # "" /\ Beneath(entry(p).path, gateway)
  BY DEF Named
<1> HIDE DEF pairs, known, entry, under
<1> QED
  BY <1>2, <1>4, <1>5, <1>6

(* What the code finds in x-rpc is a fault, and it finds those that are    *)
(* refused.                                                                *)
RpcError == parseRpcError(docs) \/ (hasRpc(docs) /\ duplicateProcedure(docs))

LEMMA RpcFaults ==
  ASSUME docs \in Documents
  PROVE  /\ RpcError => Refused \/ Overlooked
         /\ (\E s \in DOMAIN docs : /\ IsFirstRpc(s)
                                    /\ \/ docs[s].rpc = "bad"
                                       \/ NamedTwice(docs[s].gateway, KnowGateway(docs[s].gateway)))
            => RpcError
<1>1. \A g, chosen : NamedTwice(g, chosen) <=>
        \E p, q \in Named(g, chosen) : p # q /\ docs[p[1]].paths[p[2]].op = docs[q[1]].paths[q[2]].op
  BY DEF NamedTwice, Named
<1>2. duplicateProcedure(docs) <=>
        \E p, q \in procedures(docs) : p # q /\ docs[p[1]].paths[p[2]].op = docs[q[1]].paths[q[2]].op
  BY DEF duplicateProcedure, entryOf
<1>3. hasRpc(docs) => Min(rpcSchemas(docs)) \in DOMAIN docs
  <2> DEFINE S == rpcSchemas(docs)
  <2>1. Len(docs) \in Nat /\ DOMAIN docs = 1 .. Len(docs) /\ S \subseteq 1 .. Len(docs)
    BY DocumentsAre DEF rpcSchemas
  <2> HIDE DEF S
  <2>2. S # {} => Min(S) \in S
    BY <2>1, BoundsIn
  <2> QED
    BY <2>1, <2>2 DEF hasRpc, S
<1>4. ASSUME NEW s \in DOMAIN docs, IsFirstRpc(s)
      PROVE  /\ hasRpc(docs) /\ s = Min(rpcSchemas(docs))
             /\ parseRpcError(docs) <=> docs[s].rpc = "bad"
             /\ procedures(docs) \subseteq Named(docs[s].gateway, DOMAIN docs)
             /\ Named(docs[s].gateway, KnowGateway(docs[s].gateway)) \subseteq procedures(docs)
  <2>1. hasRpc(docs) /\ s = Min(rpcSchemas(docs))
    BY <1>4, FirstRpc
  <2>2. gatewayOf(docs) = docs[s].gateway /\ (parseRpcError(docs) <=> docs[s].rpc = "bad")
    BY <2>1 DEF gatewayOf, parseRpcError
  <2>3. IsSeq(docs[s].gateway)
    BY DocumentsAre DEF IsDocument
  <2> QED
    BY <2>1, <2>2, <2>3, ProceduresAreNamed
<1>5. ASSUME RpcError PROVE Refused \/ Overlooked
  <2> DEFINE s == Min(rpcSchemas(docs))
  <2>1. hasRpc(docs) /\ s \in DOMAIN docs
    BY <1>3, <1>5 DEF RpcError, parseRpcError
  <2>2. IsFirstRpc(s)
    BY <2>1, FirstRpc
  <2> HIDE DEF s
  <2>3. CASE parseRpcError(docs)
    BY <1>4, <2>1, <2>2, <2>3 DEF Refused
  <2>4. CASE duplicateProcedure(docs)
    <3>1. procedures(docs) \subseteq Named(docs[s].gateway, DOMAIN docs)
      BY <1>4, <2>1, <2>2
    <3>2. NamedTwice(docs[s].gateway, DOMAIN docs)
      BY <1>1, <1>2, <2>4, <3>1
    <3> QED
      BY <2>1, <2>2, <3>2 DEF Overlooked
  <2> QED
    BY <1>5, <2>3, <2>4 DEF RpcError
<1>6. ASSUME NEW s \in DOMAIN docs, IsFirstRpc(s),
             docs[s].rpc = "bad" \/ NamedTwice(docs[s].gateway, KnowGateway(docs[s].gateway))
      PROVE  RpcError
  <2>1. CASE docs[s].rpc = "bad"
    BY <1>4, <1>6, <2>1 DEF RpcError
  <2>2. CASE NamedTwice(docs[s].gateway, KnowGateway(docs[s].gateway))
    <3>1. Named(docs[s].gateway, KnowGateway(docs[s].gateway)) \subseteq procedures(docs) /\ hasRpc(docs)
      BY <1>4, <1>6
    <3>2. duplicateProcedure(docs)
      BY <1>1, <1>2, <2>2, <3>1
    <3> QED
      BY <3>1, <3>2 DEF RpcError
  <2> QED
    BY <1>6, <2>1, <2>2
<1> QED
  BY <1>5, <1>6

(* Every error of the construction is a fault, and what is refused is one  *)
(* of its errors.                                                          *)
LEMMA FaultsAreRefused ==
  ASSUME docs \in Documents
  PROVE  /\ (\E s \in DOMAIN docs : isAsync(docs[s]) /\ ~validate(docs[s])) => Refused \/ Overlooked
         /\ routeError(docs) => Refused \/ Overlooked
         /\ (\E ref \in Refs : Faulty(Of(ref))) => Refused \/ Overlooked
         /\ RpcError => Refused \/ Overlooked
         /\ Refused => \/ \E s \in DOMAIN docs : isAsync(docs[s]) /\ ~validate(docs[s])
                       \/ routeError(docs)
                       \/ \E ref \in Refs : Faulty(Of(ref))
                       \/ RpcError
<1>1. \A s \in DOMAIN docs : UnusableDocument(docs[s]) <=>
        ~validate(docs[s]) \/ \E i \in DOMAIN docs[s].channels : channelError(docs[s], docs[s].channels[i])
  BY DocumentsAre, UnusableIsRefused
<1>2. (\E s \in DOMAIN docs : docs[s].kind = "asyncapi" /\ UnusableDocument(docs[s])) <=>
        (\E s \in DOMAIN docs : isAsync(docs[s]) /\ ~validate(docs[s])) \/ routeError(docs)
  BY <1>1 DEF routeError, isAsync
<1>3. \A ref \in Refs : Faulty(Of(ref)) <=> Misdeclared(Of(ref)) \/ (BadDelay(Of(ref)) /\ ~IsPeriodic(Of(ref)))
  BY DEF Faulty
<1>4. RpcError => Refused \/ Overlooked
  BY RpcFaults
<1>5. Refused <=>
        \/ \E s \in DOMAIN docs : docs[s].kind = "asyncapi" /\ UnusableDocument(docs[s])
        \/ \E ref \in Refs : Misdeclared(Of(ref)) \/ (BadDelay(Of(ref)) /\ ~IsPeriodic(Of(ref)))
        \/ \E s \in DOMAIN docs : /\ IsFirstRpc(s)
                                  /\ \/ docs[s].rpc = "bad"
                                     \/ NamedTwice(docs[s].gateway, KnowGateway(docs[s].gateway))
  BY DEF Refused
<1>6. (\E ref \in Refs : Faulty(Of(ref))) => Refused
  BY <1>3, <1>5
<1>7. (\E s \in DOMAIN docs : isAsync(docs[s]) /\ ~validate(docs[s])) \/ routeError(docs) => Refused
  BY <1>2, <1>5
<1>8. Refused => \/ \E s \in DOMAIN docs : isAsync(docs[s]) /\ ~validate(docs[s])
                 \/ routeError(docs)
                 \/ \E ref \in Refs : Faulty(Of(ref))
                 \/ RpcError
  BY <1>2, <1>3, <1>5, RpcFaults
<1> QED
  BY <1>4, <1>6, <1>7, <1>8

(* An example that was added has the mapping that was found for it.        *)
IsMapped(x) ==
  LET m == Head(resolveExampleTarget(x.req))
  IN /\ x.req \in Request /\ decodeAddExampleRequest(x.req)
     /\ resolveExampleTarget(x.req) # <<>>
     /\ x.key = routeKey(m) /\ x.prefix = m.prefix /\ x.protocol = m.protocol

Stages == {"load", "rpc", "routes", "events", "router", "up", "failed", "panicked"}

DocumentsLoaded ==
  /\ stage \notin {"load", "failed"} => \A s \in DOMAIN docs : isAsync(docs[s]) => validate(docs[s])
  /\ stage \notin {"load", "rpc", "failed"} => ~RpcError
  /\ stage \notin {"load", "rpc", "routes", "failed"} => ~routeError(docs)
  /\ stage \in {"router", "up", "panicked"} => pc = "done"
  /\ stage = "failed" => Refused \/ Overlooked

StartupInv ==
  /\ SetupInv
  /\ stage \in Stages
  /\ DocumentsLoaded
  /\ stage # "up" => added = {}
  /\ \A x \in added : IsMapped(x)

LEMMA StartupBegins == StartupInit => StartupInv
<1> SUFFICES ASSUME StartupInit PROVE StartupInv
  OBVIOUS
<1>1. SetupInv /\ stage = "load" /\ added = {}
  BY SetupBegins DEF StartupInit
<1> QED
  BY <1>1 DEF StartupInv, Stages, DocumentsLoaded

(* What only looks at the documents stays. *)
LEMMA DocumentsStay ==
  ASSUME docs' = docs
  PROVE  /\ Refused' = Refused /\ Overlooked' = Overlooked /\ RpcError' = RpcError
         /\ \A x : IsMapped(x)' = IsMapped(x)
<1>1. Refs' = Refs /\ \A ref : Of(ref)' = Of(ref)
  BY RefsStay
<1>2. /\ \A s : HasRpc(s)' = HasRpc(s)
      /\ \A s : IsFirstRpc(s)' = IsFirstRpc(s)
  BY DEF IsFirstRpc, HasRpc
<1>4. \A g : /\ KnowGateway(g)' = KnowGateway(g)
            /\ \A chosen : NamedTwice(g, chosen)' = NamedTwice(g, chosen)
  BY DEF KnowGateway, NamedTwice
<1>5. Refused' = Refused
  BY <1>1, <1>2, <1>4 DEF Refused
<1>6. Overlooked' = Overlooked
  BY <1>1, <1>2, <1>4 DEF Overlooked
<1>7. RpcError' = RpcError
  BY DEF RpcError
<1>3. \A x : IsMapped(x)' = IsMapped(x)
  BY DEF IsMapped, resolveExampleTarget, findAsyncRouteMapping, hubRouteMapping
<1> QED
  BY <1>3, <1>5, <1>6, <1>7

LEMMA AdvanceStep ==
  ASSUME StartupInv, NEW error \in BOOLEAN, NEW after \in {"rpc", "routes", "events"},
         stage \in {"load", "rpc", "routes"},
         Advance(error, after),
         error => Refused \/ Overlooked,
         after = "rpc" => stage = "load"
           /\ (~error => \A s \in DOMAIN docs : isAsync(docs[s]) => validate(docs[s])),
         after = "routes" => stage = "rpc"
           /\ (~error => ~RpcError),
         after = "events" => stage = "routes" /\ (~error => ~routeError(docs))
  PROVE  StartupInv'
<1>1. /\ stage' = IF error THEN "failed" ELSE after
      /\ UNCHANGED setupVars /\ added' = added
  BY DEF Advance
<1>2. SetupInv' /\ docs' = docs /\ pc' = pc
  BY <1>1, SetupStays DEF StartupInv, setupVars
<1>3. added = {}
  BY DEF StartupInv
<1>4. Refused' = Refused /\ Overlooked' = Overlooked /\ RpcError' = RpcError
  BY <1>2, DocumentsStay
<1>5. DocumentsLoaded'
  <2>1. DocumentsLoaded
    BY DEF StartupInv
  <2>2. CASE error
    BY <1>1, <1>4, <2>2 DEF DocumentsLoaded
  <2>3. CASE ~error /\ after = "rpc"
    BY <1>1, <1>2, <2>3 DEF DocumentsLoaded
  <2>4. CASE ~error /\ after = "routes"
    BY <1>1, <1>2, <1>4, <2>1, <2>4 DEF DocumentsLoaded
  <2>5. CASE ~error /\ after = "events"
    BY <1>1, <1>2, <1>4, <2>1, <2>5 DEF DocumentsLoaded
  <2> QED
    BY <2>2, <2>3, <2>4, <2>5
<1> QED
  BY <1>1, <1>2, <1>3, <1>5 DEF StartupInv, Stages

LEMMA StartupStep == StartupInv /\ [StartupNext]_upVars => StartupInv'
<1> SUFFICES ASSUME StartupInv, [StartupNext]_upVars PROVE StartupInv'
  OBVIOUS
<1>1. SetupInv /\ DocumentsLoaded /\ docs \in Documents
  BY DEF StartupInv, SetupInv, SetupTyped
<1>2. CASE LoadSchemas
  <2> DEFINE error == \E s \in DOMAIN docs : isAsync(docs[s]) /\ ~validate(docs[s])
  <2>1. stage = "load" /\ Advance(error, "rpc")
    BY <1>2 DEF LoadSchemas
  <2>2. error => Refused \/ Overlooked
    BY <1>1, FaultsAreRefused
  <2> QED
    BY <2>1, <2>2, AdvanceStep
<1>3. CASE BuildRpc
  <2>1. stage = "rpc" /\ Advance(RpcError, "routes") /\ RpcError \in BOOLEAN
    BY <1>3 DEF BuildRpc, RpcError
  <2>2. RpcError => Refused \/ Overlooked
    BY <1>1, FaultsAreRefused
  <2> QED
    BY <2>1, <2>2, AdvanceStep
<1>4. CASE BuildRoutes
  <2>1. stage = "routes" /\ Advance(routeError(docs), "events")
    BY <1>4 DEF BuildRoutes
  <2>2. routeError(docs) => Refused \/ Overlooked
    BY <1>1, FaultsAreRefused
  <2>3. routeError(docs) \in BOOLEAN
    BY DEF routeError
  <2> QED
    BY <2>1, <2>2, <2>3, AdvanceStep
<1>5. CASE RegisterEvents
  <2>1. /\ stage = "events" /\ SetupNext /\ added' = added
        /\ stage' = CASE pc' = "done" -> "router" [] pc' = "failed" -> "failed" [] OTHER -> stage
    BY <1>5 DEF RegisterEvents
  <2>2. SetupInv' /\ docs' = docs
    BY <1>1, <2>1, SetupStep DEF SetupNext, Classify, AddSubscriptions, registerPeriodic, NextSchema, Done
  <2>3. /\ Refused' = Refused /\ Overlooked' = Overlooked /\ RpcError' = RpcError
        /\ pc' = "failed" => Refused \/ Overlooked
    <3>1. Refs' = Refs /\ \A ref : Of(ref)' = Of(ref)
      BY <2>2, RefsStay
    <3>2. \A ref : Faulty(Of(ref))' = Faulty(Of(ref))
      BY <3>1 DEF Faulty, Misdeclared, BadDelay, IsPeriodic, Contexts
    <3>3. pc' = "failed" => \E ref \in Refs : Faulty(Of(ref))
      BY <2>2, <3>1, <3>2 DEF SetupInv, SetupPlace
    <3> QED
      BY <1>1, <2>2, <3>3, DocumentsStay, FaultsAreRefused
  <2>4. stage' \in {"router", "failed", "events"} /\ (stage' = "router" => pc' = "done")
        /\ (stage' = "failed" => pc' = "failed")
    BY <2>1
  <2>5. DocumentsLoaded'
    BY <1>1, <2>1, <2>2, <2>3, <2>4 DEF DocumentsLoaded
  <2>6. added' = {}
    BY <2>1 DEF StartupInv
  <2> QED
    BY <2>2, <2>4, <2>5, <2>6 DEF StartupInv, Stages
<1>6. CASE SetupRouter
  <2>1. stage = "router" /\ stage' \in {"panicked", "up"} /\ UNCHANGED setupVars /\ added' = added
    BY <1>6 DEF SetupRouter
  <2>2. SetupInv' /\ docs' = docs /\ pc' = pc
    BY <1>1, <2>1, SetupStays DEF setupVars
  <2>3. DocumentsLoaded'
    BY <1>1, <2>1, <2>2, DocumentsStay DEF DocumentsLoaded
  <2>4. added' = {}
    BY <2>1 DEF StartupInv
  <2> QED
    BY <2>1, <2>2, <2>3, <2>4 DEF StartupInv, Stages
<1>7. ASSUME NEW req \in Request, AddExample(req) PROVE StartupInv'
  <2> DEFINE m == Head(resolveExampleTarget(req))
             x == [req    |-> req,
                   kind   |-> IF needsRuntimeRegistration(req, m) THEN "runtime" ELSE "dynamic",
                   key    |-> routeKey(m),
                   prefix |-> m.prefix,
                   protocol |-> m.protocol]
  <2>1. /\ stage = "up" /\ decodeAddExampleRequest(req) /\ resolveExampleTarget(req) # <<>>
        /\ added' = added \cup {x}
        /\ UNCHANGED setupVars /\ stage' = stage
    BY <1>7 DEF AddExample
  <2>2. SetupInv' /\ docs' = docs /\ pc' = pc
    BY <1>1, <2>1, SetupStays DEF setupVars
  <2>3. IsMapped(x)
    BY <2>1 DEF IsMapped
  <2>4. \A y \in added' : IsMapped(y)'
    BY <2>1, <2>2, <2>3, DocumentsStay DEF StartupInv
  <2>5. DocumentsLoaded'
    BY <1>1, <2>1, <2>2, DocumentsStay DEF DocumentsLoaded
  <2> QED
    BY <2>1, <2>2, <2>4, <2>5 DEF StartupInv, Stages
<1>8. CASE UNCHANGED upVars
  <2>1. UNCHANGED setupVars /\ stage' = stage /\ added' = added
    BY <1>8 DEF upVars
  <2>2. SetupInv' /\ docs' = docs /\ pc' = pc
    BY <1>1, <2>1, SetupStays DEF setupVars
  <2>3. DocumentsLoaded'
    BY <1>1, <2>1, <2>2, DocumentsStay DEF DocumentsLoaded
  <2>4. \A y \in added' : IsMapped(y)'
    BY <2>1, <2>2, DocumentsStay DEF StartupInv
  <2> QED
    BY <2>1, <2>2, <2>3, <2>4 DEF StartupInv
<1> QED
  BY <1>2, <1>3, <1>4, <1>5, <1>6, <1>7, <1>8 DEF StartupNext

LEMMA StartupInvariant == StartupSpec => []StartupInv
<1> QED
  BY StartupBegins, StartupStep, PTL DEF StartupSpec

(* No server is built from documents with a fault that is refused, and     *)
(* none is given up for documents without a fault; a server that is built  *)
(* has the subscriptions and jobs of all triggers, and one that is given   *)
(* up has no router and no example (New and newServerWithDriver,           *)
(* registerEventSubscriptions).                                            *)
THEOREM ServerIsBuiltUnlessFaulty == StartupSpec => []BuiltUnlessFaulty
<1>1. StartupInv => BuiltUnlessFaulty
  <2> SUFFICES ASSUME StartupInv PROVE BuiltUnlessFaulty
    OBVIOUS
  <2>1. SetupInv /\ DocumentsLoaded /\ docs \in Documents
    BY DEF StartupInv, SetupInv, SetupTyped
  <2>2. TriggersAllOrNothing
    BY <2>1, SetupIsAllOrNothing
  <2>3. stage \in {"up", "panicked"} => ~Refused
    <3> SUFFICES ASSUME stage \in {"up", "panicked"} PROVE ~Refused
      OBVIOUS
    <3>1. pc = "done"
      BY <2>1 DEF DocumentsLoaded
    <3>2. \A ref \in Refs : ~Faulty(Of(ref))
      BY <2>2, <3>1 DEF TriggersAllOrNothing, Faulty
    <3> QED
      BY <2>1, <3>2, FaultsAreRefused DEF DocumentsLoaded
  <2>4. stage = "failed" => (Refused \/ Overlooked) /\ added = {}
    BY <2>1 DEF StartupInv, DocumentsLoaded
  <2> QED
    BY <2>2, <2>3, <2>4 DEF BuiltUnlessFaulty
<1> QED
  BY <1>1, StartupInvariant, PTL

(* The router (applyAddressPrefix) and the events, hubs and interval jobs  *)
(* (asyncAddressWithPrefix) compute one rooted address of a channel,       *)
(* however prefix and address are spelled, but for a bare slash.           *)
THEOREM EveryChannelHasOneAddress == StartupSpec => []SpellingsAgree
<1>1. StartupInv => SpellingsAgree
  <2> SUFFICES ASSUME NEW prefix \in Spelling \ {<<Slash>>}, NEW address \in Spelling
               PROVE  /\ applyAddressPrefix(TrimSuffix(prefix), address) = asyncAddressWithPrefix(prefix, address)
                      /\ Head(applyAddressPrefix(TrimSuffix(prefix), address)) = Slash
    BY DEF SpellingsAgree, routeAddress
  <2>1. IsSeq(prefix) /\ IsSeq(address)
    BY StartupAssumption
  <2> QED
    BY <2>1, AddressesAgree
<1> QED
  BY <1>1, StartupInvariant, PTL

-----------------------------------------------------------------------------
(* Route mappings. *)

IsRouteOf(m, d, ch) ==
  /\ ch \in Range(d.channels) /\ ~ofHub(d, ch)
  /\ \E op \in Range(d.operations) : op.channel = ch.id /\ m = asyncRoute(d, ch, op)

(* A sequence made of another one, place by place, has what is made of its *)
(* elements.                                                               *)
LEMMA MapRange ==
  ASSUME NEW s, IsSeq(s), NEW f
  PROVE  /\ [i \in DOMAIN s |-> f[s[i]]] \in Seq({f[v] : v \in Range(s)})
         /\ \A w : w \in Range([i \in DOMAIN s |-> f[s[i]]]) <=> \E v \in Range(s) : w = f[v]
<1> DEFINE t == [i \in DOMAIN s |-> f[s[i]]]
<1>1. Len(s) \in Nat /\ DOMAIN s = 1 .. Len(s) /\ \A i \in DOMAIN s : s[i] \in Range(s)
  BY SeqElements
<1>2. t \in Seq({f[v] : v \in Range(s)}) /\ DOMAIN t = DOMAIN s
  BY <1>1
<1>3. \A w : w \in Range(t) <=> \E i \in DOMAIN s : w = f[s[i]]
  BY DEF Range
<1>4. \A w : (\E i \in DOMAIN s : w = f[s[i]]) <=> \E v \in Range(s) : w = f[v]
  BY <1>1 DEF Range
<1> QED
  BY <1>2, <1>3, <1>4

LEMMA ChannelMappings ==
  ASSUME NEW d, IsDocument(d), NEW ch
  PROVE  LET ops == opsOf(d, ch)
             t   == [j \in DOMAIN ops |-> asyncRoute(d, ch, ops[j])]
         IN /\ t \in Seq(Range(t))
            /\ \A m : m \in Range(t) <=>
                 \E op \in Range(d.operations) : op.channel = ch.id /\ m = asyncRoute(d, ch, op)
<1> DEFINE ops == opsOf(d, ch)
           f == [op \in Range(d.operations) |-> asyncRoute(d, ch, op)]
           t == [j \in DOMAIN ops |-> asyncRoute(d, ch, ops[j])]
           u == [j \in DOMAIN ops |-> f[ops[j]]]
<1>1. /\ ops \in Seq(Range(d.operations))
      /\ \A op : op \in Range(ops) <=> op \in Range(d.operations) /\ op.channel = ch.id
  BY OperationsOf
<1>2. IsSeq(ops) /\ \A j \in DOMAIN ops : ops[j] \in Range(d.operations)
  <2>1. ops \in Seq(Range(ops)) /\ DOMAIN ops = 1 .. Len(ops) /\ \A j \in 1 .. Len(ops) : ops[j] \in Range(d.operations)
    <3> HIDE DEF ops
    <3> QED
      BY <1>1, SeqOfRange, LenProperties, ElementOfSeq
  <2> QED
    BY <2>1 DEF IsSeq
<1>3. t = u
  <2>1. \A j \in DOMAIN ops : f[ops[j]] = asyncRoute(d, ch, ops[j])
    BY <1>2
  <2> QED
    BY <2>1
<1> HIDE DEF ops
<1>4. /\ u \in Seq({f[v] : v \in Range(ops)})
      /\ \A w : w \in Range(u) <=> \E v \in Range(ops) : w = f[v]
  <2> HIDE DEF f
  <2> QED
    BY <1>2, MapRange
<1>5. u \in Seq(Range(u))
  <2> HIDE DEF u
  <2> QED
    BY <1>4, SeqOfRange
<1>6. \A m : (\E v \in Range(ops) : m = f[v]) <=>
         \E op \in Range(d.operations) : op.channel = ch.id /\ m = asyncRoute(d, ch, op)
  BY <1>1
<1>7. t \in Seq(Range(t)) /\ \A w : w \in Range(t) <=> \E v \in Range(ops) : w = f[v]
  <2> HIDE DEF f, u, t
  <2> QED
    BY <1>3, <1>4, <1>5
<1>8. \A m : m \in Range(t) <=>
         \E op \in Range(d.operations) : op.channel = ch.id /\ m = asyncRoute(d, ch, op)
  <2> HIDE DEF f, u, t
  <2> QED
    BY <1>6, <1>7
<1> QED
  BY <1>7, <1>8 DEF ops

LEMMA AsyncMappings ==
  ASSUME NEW d, IsDocument(d)
  PROVE  /\ IsSeq(buildAsyncRouteMappings(d))
         /\ \A m : m \in Range(buildAsyncRouteMappings(d)) <=> \E ch : IsRouteOf(m, d, ch)
<1> DEFINE S == {ch \in Range(d.channels) : ~ofHub(d, ch)}
           routed == Keep(d.channels, S)
           t(ch) == LET ops == opsOf(d, ch) IN [j \in DOMAIN ops |-> asyncRoute(d, ch, ops[j])]
           E == UNION {Range(t(ch)) : ch \in Range(d.channels)}
           ss == [i \in DOMAIN routed |-> t(routed[i])]
<1>1. \A ch : /\ t(ch) \in Seq(Range(t(ch)))
              /\ \A m : m \in Range(t(ch)) <=>
                   \E op \in Range(d.operations) : op.channel = ch.id /\ m = asyncRoute(d, ch, op)
  BY ChannelMappings
<1>2. /\ routed \in Seq(Range(d.channels) \cap S)
      /\ Range(routed) = Range(d.channels) \cap S
  <2>1. d.channels \in Seq(Range(d.channels))
    BY DEF IsDocument, IsSeq
  <2> HIDE DEF S
  <2> QED
    BY <2>1, KeepRange
<1>3. buildAsyncRouteMappings(d) = FlattenSeq(ss)
  BY DEF buildAsyncRouteMappings
<1>4. \A ch : ch \in Range(routed) <=> ch \in Range(d.channels) /\ ~ofHub(d, ch)
  BY <1>2
<1>5. Len(routed) \in Nat /\ DOMAIN routed = 1 .. Len(routed) /\ \A i \in DOMAIN routed : routed[i] \in Range(routed)
  <2> HIDE DEF routed
  <2> QED
    BY <1>2, LenProperties DEF Range
<1> HIDE DEF routed, S, t
<1>6. \A ch \in Range(d.channels) : t(ch) \in Seq(E)
  <2> TAKE ch \in Range(d.channels)
  <2>1. Range(t(ch)) \subseteq E
    OBVIOUS
  <2> HIDE DEF E
  <2> QED
    BY <2>1, <1>1, WiderSeq
<1> HIDE DEF E
<1>7. ss \in Seq(Seq(E)) /\ DOMAIN ss = DOMAIN routed /\ \A i \in DOMAIN routed : ss[i] = t(routed[i])
  BY <1>4, <1>5, <1>6
<1> HIDE DEF ss
<1>8. /\ FlattenSeq(ss) \in Seq(E)
      /\ \A m : m \in Range(FlattenSeq(ss)) <=> \E i \in DOMAIN ss : m \in Range(ss[i])
  BY <1>7, FlattenRange
<1>9. \A m : m \in Range(FlattenSeq(ss)) <=> \E ch \in Range(routed) : m \in Range(t(ch))
  <2> TAKE m
  <2>1. m \in Range(FlattenSeq(ss)) <=> \E i \in DOMAIN routed : m \in Range(t(routed[i]))
    BY <1>7, <1>8
  <2>2. \A ch : ch \in Range(routed) <=> \E i \in DOMAIN routed : ch = routed[i]
    BY DEF Range
  <2> QED
    BY <2>1, <2>2
<1>10. \A m : m \in Range(FlattenSeq(ss)) <=> \E ch : IsRouteOf(m, d, ch)
  BY <1>1, <1>4, <1>9 DEF IsRouteOf
<1>11. FlattenSeq(ss) \in Seq(Range(FlattenSeq(ss)))
  BY <1>8, SeqOfRange
<1> QED
  BY <1>3, <1>10, <1>11 DEF IsSeq

LEMMA PathMappings ==
  ASSUME NEW d, IsDocument(d)
  PROVE  /\ IsSeq(buildOpenAPIRouteMappings(d))
         /\ \A m : m \in Range(buildOpenAPIRouteMappings(d)) <=>
              \E entry \in Range(d.paths) : m = openAPIRoute(d, TrimSuffix(d.prefix), entry)
<1> DEFINE f == [entry \in Range(d.paths) |-> openAPIRoute(d, TrimSuffix(d.prefix), entry)]
           u == [i \in DOMAIN d.paths |-> f[d.paths[i]]]
<1>1. IsSeq(d.paths) /\ \A i \in DOMAIN d.paths : d.paths[i] \in Range(d.paths)
  BY SeqElements DEF IsDocument
<1>2. buildOpenAPIRouteMappings(d) = u
  <2>1. \A i \in DOMAIN d.paths : f[d.paths[i]] = openAPIRoute(d, TrimSuffix(d.prefix), d.paths[i])
    BY <1>1
  <2> QED
    BY <2>1 DEF buildOpenAPIRouteMappings
<1>3. /\ u \in Seq({f[v] : v \in Range(d.paths)})
      /\ \A w : w \in Range(u) <=> \E v \in Range(d.paths) : w = f[v]
  <2> DEFINE ps == d.paths
  <2>1. IsSeq(ps)
    BY <1>1
  <2> HIDE DEF f, ps
  <2>2. /\ [i \in DOMAIN ps |-> f[ps[i]]] \in Seq({f[v] : v \in Range(ps)})
        /\ \A w : w \in Range([i \in DOMAIN ps |-> f[ps[i]]]) <=> \E v \in Range(ps) : w = f[v]
    BY <2>1, MapRange
  <2> QED
    BY <2>2 DEF ps
<1>4. u \in Seq(Range(u))
  <2> HIDE DEF u
  <2> QED
    BY <1>3, SeqOfRange
<1>5. \A m : (\E v \in Range(d.paths) : m = f[v]) <=>
         \E entry \in Range(d.paths) : m = openAPIRoute(d, TrimSuffix(d.prefix), entry)
  OBVIOUS
<1> HIDE DEF u, f
<1> QED
  BY <1>2, <1>3, <1>4, <1>5 DEF IsSeq

(* The mappings of a server are those of its documents.                    *)
LEMMA MappingsOf ==
  ASSUME docs \in Documents
  PROVE  /\ BuildRouteMappings(docs) \in Seq(Range(BuildRouteMappings(docs)))
         /\ \A m : m \in Range(BuildRouteMappings(docs)) <=>
              \E s \in DOMAIN docs :
                \/ isAsync(docs[s]) /\ \E ch : IsRouteOf(m, docs[s], ch)
                \/ ~isAsync(docs[s]) /\ \E entry \in Range(docs[s].paths) :
                     m = openAPIRoute(docs[s], TrimSuffix(docs[s].prefix), entry)
<1> DEFINE t(d) == IF isAsync(d) THEN buildAsyncRouteMappings(d) ELSE buildOpenAPIRouteMappings(d)
           ss == [s \in DOMAIN docs |-> t(docs[s])]
           E == UNION {Range(t(docs[s])) : s \in DOMAIN docs}
<1>1. /\ Len(docs) \in Nat /\ DOMAIN docs = 1 .. Len(docs)
      /\ \A s \in DOMAIN docs : IsDocument(docs[s])
  BY DocumentsAre
<1>2. ASSUME NEW s \in DOMAIN docs
      PROVE  /\ t(docs[s]) \in Seq(Range(t(docs[s])))
             /\ \A m : m \in Range(t(docs[s])) <=>
                  \/ isAsync(docs[s]) /\ \E ch : IsRouteOf(m, docs[s], ch)
                  \/ ~isAsync(docs[s]) /\ \E entry \in Range(docs[s].paths) :
                       m = openAPIRoute(docs[s], TrimSuffix(docs[s].prefix), entry)
  <2>1. IsDocument(docs[s])
    BY <1>1
  <2>2. CASE isAsync(docs[s])
    BY <2>1, <2>2, AsyncMappings DEF IsSeq
  <2>3. CASE ~isAsync(docs[s])
    BY <2>1, <2>3, PathMappings DEF IsSeq
  <2> QED
    BY <2>2, <2>3
<1>3. BuildRouteMappings(docs) = FlattenSeq(ss)
  BY DEF BuildRouteMappings
<1> HIDE DEF t
<1>4. \A s \in DOMAIN docs : t(docs[s]) \in Seq(E)
  <2> TAKE s \in DOMAIN docs
  <2>1. Range(t(docs[s])) \subseteq E
    OBVIOUS
  <2> HIDE DEF E
  <2> QED
    BY <2>1, <1>2, WiderSeq
<1> HIDE DEF E
<1>5. ss \in Seq(Seq(E)) /\ DOMAIN ss = DOMAIN docs /\ \A s \in DOMAIN docs : ss[s] = t(docs[s])
  BY <1>1, <1>4
<1> HIDE DEF ss
<1>6. /\ FlattenSeq(ss) \in Seq(E)
      /\ \A m : m \in Range(FlattenSeq(ss)) <=> \E s \in DOMAIN ss : m \in Range(ss[s])
  BY <1>5, FlattenRange
<1>7. \A m : m \in Range(FlattenSeq(ss)) <=> \E s \in DOMAIN docs : m \in Range(t(docs[s]))
  BY <1>5, <1>6
<1>8. FlattenSeq(ss) \in Seq(Range(FlattenSeq(ss)))
  BY <1>6, SeqOfRange
<1>9. \A m : m \in Range(BuildRouteMappings(docs)) <=>
         \E s \in DOMAIN docs : m \in Range(t(docs[s]))
  BY <1>3, <1>7
<1>10. ASSUME NEW m, NEW s \in DOMAIN docs
       PROVE  m \in Range(t(docs[s])) <=>
                \/ isAsync(docs[s]) /\ \E ch : IsRouteOf(m, docs[s], ch)
                \/ ~isAsync(docs[s]) /\ \E entry \in Range(docs[s].paths) :
                     m = openAPIRoute(docs[s], TrimSuffix(docs[s].prefix), entry)
  BY <1>2
<1>11. BuildRouteMappings(docs) \in Seq(Range(BuildRouteMappings(docs)))
  BY <1>3, <1>8
<1> HIDE DEF ss
<1> QED
  BY <1>9, <1>10, <1>11, Zenon

(* The mappings of channels are those with a protocol.                     *)
LEMMA RouteOfChannel ==
  ASSUME docs \in Documents, ~routeError(docs),
         NEW s \in DOMAIN docs, NEW ch, NEW m, IsRouteOf(m, docs[s], ch)
  PROVE  /\ isAsync(docs[s])
         /\ m.protocol # "" /\ m.protocol # "signalr" /\ Declares(docs[s], ch, m.protocol)
         /\ m.path = routeAddress(docs[s], ch) /\ m.prefix = TrimSuffix(docs[s].prefix)
         /\ \E i \in DOMAIN docs[s].channels : ch = docs[s].channels[i]
<1>1. IsDocument(docs[s]) /\ ch \in Range(docs[s].channels)
  BY DocumentsAre DEF IsRouteOf
<1>2. \E i \in DOMAIN docs[s].channels : ch = docs[s].channels[i]
  BY <1>1 DEF Range
<1>3. isAsync(docs[s])
  BY <1>1 DEF IsDocument
<1>4. ~channelError(docs[s], ch)
  BY <1>2, <1>3 DEF routeError
<1>5. m.protocol = protocolOf(docs[s], ch) /\ m.path = routeAddress(docs[s], ch) /\ m.prefix = TrimSuffix(docs[s].prefix)
  BY DEF IsRouteOf, asyncRoute
<1>6. protocolOf(docs[s], ch) # ""
  BY <1>4 DEF channelError
<1> QED
  BY <1>1, <1>2, <1>3, <1>5, <1>6, ProtocolOf

LEMMA ChannelRoutes ==
  ASSUME docs \in Documents, ~routeError(docs), NEW m
  PROVE  m \in Range(BuildRouteMappings(docs)) /\ m.protocol # "" <=>
           \E s \in DOMAIN docs : \E ch : IsRouteOf(m, docs[s], ch)
<1>1. ASSUME NEW s \in DOMAIN docs, NEW ch, IsRouteOf(m, docs[s], ch)
      PROVE  m \in Range(BuildRouteMappings(docs)) /\ m.protocol # ""
  <2>1. isAsync(docs[s]) /\ m.protocol # ""
    BY <1>1, RouteOfChannel
  <2> QED
    BY <1>1, <2>1, MappingsOf
<1>2. ASSUME m \in Range(BuildRouteMappings(docs)), m.protocol # ""
      PROVE  \E s \in DOMAIN docs : \E ch : IsRouteOf(m, docs[s], ch)
  <2>1. PICK s \in DOMAIN docs :
                \/ isAsync(docs[s]) /\ \E ch : IsRouteOf(m, docs[s], ch)
                \/ ~isAsync(docs[s]) /\ \E entry \in Range(docs[s].paths) :
                     m = openAPIRoute(docs[s], TrimSuffix(docs[s].prefix), entry)
    BY <1>2, MappingsOf
  <2>2. \A entry : openAPIRoute(docs[s], TrimSuffix(docs[s].prefix), entry).protocol = ""
    BY DEF openAPIRoute
  <2> QED
    BY <1>2, <2>1, <2>2
<1> QED
  BY <1>1, <1>2

LEMMA HeadOfConcat ==
  ASSUME NEW E, NEW F, NEW s \in Seq(E), s # <<>>, NEW t \in Seq(F)
  PROVE  Head(s \o t) \in E
<1>1. s \in Seq(E \cup F) /\ t \in Seq(E \cup F)
  BY WiderSeq
<1>2. Len(s) \in Nat /\ Len(s) # 0 /\ \A i \in 1 .. Len(s) : s[i] \in E
  BY EmptySeq, LenProperties, ElementOfSeq
<1>3. s \o t \in Seq(E \cup F) /\ (s \o t)[1] = s[1] /\ Len(s \o t) = Len(s) + Len(t) /\ Len(t) \in Nat
  BY <1>1, <1>2, ConcatProperties, LenProperties
<1>4. Head(s \o t) = s[1]
  BY <1>2, <1>3, EmptySeq DEF Head
<1> QED
  BY <1>2, <1>4

(* What a request is resolved to: the mapping of a path or of a channel,   *)
(* or the channel of a hub.                                                *)
LEMMA TargetOf ==
  ASSUME docs \in Documents, NEW x, IsMapped(x)
  PROVE  LET req == x.req
             m   == Head(resolveExampleTarget(req))
         IN \/ /\ m \in Range(BuildRouteMappings(docs))
               /\ req.channel # <<>> => /\ m.protocol # "" /\ m.path = req.channel
                                        /\ req.protocol \in {"", m.protocol}
                                        /\ req.method \in {m.method, DefaultMethod}
               /\ req.channel = <<>> => m.pattern = req.path /\ m.method = req.method
            \/ /\ req.channel # <<>> /\ m.protocol = "signalr"
               /\ \E c \in hubChannels(docs) : c.address = req.channel /\ m.prefix = c.prefix
<1> DEFINE req == x.req
           m   == Head(resolveExampleTarget(req))
           B   == BuildRouteMappings(docs)
           S   == {r \in Range(B) : /\ r.protocol # ""
                                    /\ req.protocol \in {"", r.protocol}
                                    /\ r.path = req.channel
                                    /\ req.method \in {r.method, DefaultMethod}}
           P   == {r \in Range(B) : r.pattern = req.path /\ r.method = req.method}
<1>1. B \in Seq(Range(B))
  BY MappingsOf
<1>2. resolveExampleTarget(req) # <<>>
  BY DEF IsMapped
<1> HIDE DEF B, req
<1>3. CASE req.channel = <<>>
  <2>1. resolveExampleTarget(req) = Keep(B, P)
    BY <1>3 DEF resolveExampleTarget, B
  <2>2. Keep(B, P) \in Seq(Range(B) \cap P)
    <3> HIDE DEF P
    <3> QED
      BY <1>1, KeepRange
  <2>3. m \in Range(B) \cap P
    <3> HIDE DEF P
    <3> QED
      BY <1>2, <2>1, <2>2, HeadTailProperties
  <2> QED
    BY <1>3, <2>3 DEF req, B
<1>4. CASE req.channel # <<>> /\ Keep(B, S) # <<>>
  <2> DEFINE h == hubRouteMapping(req)
  <2>1. resolveExampleTarget(req) = Keep(B, S) \o h
    BY <1>4 DEF resolveExampleTarget, findAsyncRouteMapping, B
  <2>2. Keep(B, S) \in Seq(Range(B) \cap S)
    <3> HIDE DEF S
    <3> QED
      BY <1>1, KeepRange
  <2>3. PICK F : h \in Seq(F)
    <3> DEFINE v == [method |-> "GET", path |-> req.channel, pattern |-> req.channel,
                     prefix |-> (CHOOSE c \in {d \in hubChannels(docs) : d.address = req.channel} : TRUE).prefix,
                     protocol |-> "signalr"]
    <3>1. h = <<>> \/ h = <<v>>
      BY DEF hubRouteMapping
    <3>2. <<>> \in Seq({v}) /\ <<v>> \in Seq({v})
      <4> HIDE DEF v
      <4> QED
        OBVIOUS
    <3> HIDE DEF h, v
    <3> QED
      BY <3>1, <3>2
  <2>4. m \in Range(B) \cap S
    <3> DEFINE k == Keep(B, S)
               G == Range(B) \cap S
    <3>1. k \in Seq(G) /\ k # <<>> /\ resolveExampleTarget(req) = k \o h
      BY <1>4, <2>1, <2>2
    <3> HIDE DEF k, h, G
    <3>2. m \in G
      BY <2>3, <3>1, HeadOfConcat
    <3> QED
      BY <3>2 DEF G
  <2>5. m \in S
    BY <2>4
  <2> QED
    BY <1>4, <2>5 DEF req, B
<1>5. CASE req.channel # <<>> /\ Keep(B, S) = <<>>
  <2> DEFINE of == {c \in hubChannels(docs) : c.address = req.channel}
             h == [method |-> "GET", path |-> req.channel, pattern |-> req.channel,
                   prefix |-> (CHOOSE c \in of : TRUE).prefix, protocol |-> "signalr"]
  <2>1. resolveExampleTarget(req) = <<>> \o hubRouteMapping(req)
    BY <1>5 DEF resolveExampleTarget, findAsyncRouteMapping, B
  <2>2. of # {} /\ hubRouteMapping(req) = <<h>>
    <3>1. \/ hubRouteMapping(req) = <<>>
          \/ of # {} /\ hubRouteMapping(req) = <<h>>
      BY DEF hubRouteMapping
    <3>2. hubRouteMapping(req) # <<>>
      BY <1>2, <2>1
    <3> QED
      BY <3>1, <3>2
  <2>3. m = h
    BY <2>1, <2>2
  <2>4. (CHOOSE c \in of : TRUE) \in of
    BY <2>2
  <2>5. m.protocol = "signalr" /\ m.prefix = (CHOOSE c \in of : TRUE).prefix
    BY <2>3
  <2> QED
    BY <1>5, <2>4, <2>5 DEF req
<1> QED
  BY <1>3, <1>4, <1>5

(* What POST /_mock/examples accepts for a path or a channel is kept under *)
(* a pattern that setupRouter registered, with the channel, the method and *)
(* the protocol of the request.                                            *)
THEOREM ExamplesAreFound == StartupSpec => []ExamplesFindTheirHandler
<1>1. StartupInv => ExamplesFindTheirHandler
  <2> SUFFICES ASSUME StartupInv, NEW x \in added, x.protocol # "signalr"
               PROVE  /\ \/ handlerOf(docs, x.key) \in {"mock", "rpc"}
                         \/ x.key \in registerSignalRHubs(docs) \cup registerManagementRoutes
                         \/ x.key[1] # "POST" /\ \E p \in rpcMappings(docs) : p.path = x.key[2]
                      /\ x.req.channel # <<>> => x.key[2] = x.req.channel
                      /\ x.req.method # DefaultMethod => x.key[1] = x.req.method
                      /\ x.req.protocol # "" =>
                           \E s \in DOMAIN docs : \E i \in DOMAIN docs[s].channels :
                             /\ routeAddress(docs[s], docs[s].channels[i]) = x.req.channel
                             /\ Declares(docs[s], docs[s].channels[i], x.req.protocol)
    BY DEF ExamplesFindTheirHandler
  <2>1. /\ docs \in Documents /\ DocumentsLoaded /\ IsMapped(x)
        /\ stage = "up"
    BY DEF StartupInv, SetupInv, SetupTyped
  <2>2. ~routeError(docs)
    BY <2>1 DEF DocumentsLoaded
  <2> DEFINE m == Head(resolveExampleTarget(x.req))
  <2>3. /\ x.key = <<m.method, m.path>> /\ x.protocol = m.protocol
        /\ x.key[1] = m.method /\ x.key[2] = m.path
        /\ decodeAddExampleRequest(x.req)
    BY <2>1 DEF IsMapped, routeKey
  <2>4. /\ m \in Range(BuildRouteMappings(docs))
        /\ x.req.channel # <<>> => /\ m.protocol # "" /\ m.path = x.req.channel
                                   /\ x.req.protocol \in {"", m.protocol}
                                   /\ x.req.method \in {m.method, DefaultMethod}
        /\ x.req.channel = <<>> => m.pattern = x.req.path /\ m.method = x.req.method
    BY <2>1, <2>3, TargetOf
  <2> HIDE DEF m
  <2>5. \/ handlerOf(docs, x.key) \in {"mock", "rpc"}
        \/ x.key \in registerSignalRHubs(docs) \cup registerManagementRoutes
        \/ x.key[1] # "POST" /\ \E p \in rpcMappings(docs) : p.path = x.key[2]
    <3>1. SUFFICES ASSUME x.key \notin registerSignalRHubs(docs), x.key \notin registerManagementRoutes,
                          x.key \notin registerRpc(docs), x.key \notin registerMockRoutes(docs)
                   PROVE  x.key[1] # "POST" /\ \E p \in rpcMappings(docs) : p.path = x.key[2]
      BY DEF handlerOf
    <3>2. \E p \in rpcMappings(docs) : p.path = m.path
      BY <2>3, <2>4, <3>1 DEF registerMockRoutes, routeKey
    <3>3. hasRpc(docs)
      BY <3>2 DEF rpcMappings
    <3>4. x.key # <<"POST", m.path>>
      BY <3>1, <3>2, <3>3 DEF registerRpc
    <3> QED
      BY <2>3, <3>2, <3>4
  <2>6. x.req.protocol # "" =>
          \E s \in DOMAIN docs : \E i \in DOMAIN docs[s].channels :
            /\ routeAddress(docs[s], docs[s].channels[i]) = x.req.channel
            /\ Declares(docs[s], docs[s].channels[i], x.req.protocol)
    <3> SUFFICES ASSUME x.req.protocol # ""
                 PROVE  \E s \in DOMAIN docs : \E i \in DOMAIN docs[s].channels :
                          /\ routeAddress(docs[s], docs[s].channels[i]) = x.req.channel
                          /\ Declares(docs[s], docs[s].channels[i], x.req.protocol)
      OBVIOUS
    <3>1. x.req.channel # <<>>
      BY <2>3 DEF decodeAddExampleRequest
    <3>2. m.protocol = x.req.protocol /\ m.path = x.req.channel
      BY <2>4, <3>1
    <3>3. PICK s \in DOMAIN docs : \E ch : IsRouteOf(m, docs[s], ch)
      BY <2>1, <2>2, <2>4, <3>2, ChannelRoutes
    <3>4. PICK ch : IsRouteOf(m, docs[s], ch)
      BY <3>3
    <3>5. /\ Declares(docs[s], ch, m.protocol) /\ m.path = routeAddress(docs[s], ch)
          /\ \E i \in DOMAIN docs[s].channels : ch = docs[s].channels[i]
      BY <2>1, <2>2, <3>4, RouteOfChannel
    <3> QED
      BY <3>2, <3>5
  <2> QED
    BY <2>3, <2>4, <2>5, <2>6
<1> QED
  BY <1>1, StartupInvariant, PTL

(* The documents that have a channel of this address.                      *)
Sharing(address) ==
  {t \in DOMAIN docs : \E j \in DOMAIN docs[t].channels :
     address \in {routeAddress(docs[t], docs[t].channels[j]),
                  asyncAddressWithPrefix(docs[t].prefix, docs[t].channels[j].address)}}

(* A channel that is served has a route or belongs to a hub.               *)
LEMMA ServedChannel ==
  ASSUME docs \in Documents, ~routeError(docs),
         NEW s \in DOMAIN docs, NEW i \in DOMAIN docs[s].channels, docs[s].prefix # <<Slash>>,
         docs[s].signalr => s \in hubs(docs)
  PROVE  LET address == asyncAddressWithPrefix(docs[s].prefix, docs[s].channels[i].address)
         IN \/ \E m \in Range(BuildRouteMappings(docs)) : m.protocol # "" /\ m.path = address
            \/ \E c \in hubChannels(docs) : c.address = address
<1> DEFINE d == docs[s]
           ch == docs[s].channels[i]
           address == asyncAddressWithPrefix(d.prefix, ch.address)
<1>1. IsDocument(d) /\ ch \in Range(d.channels)
  BY DocumentsAre DEF Range
<1>2. isAsync(d) /\ IsSeq(d.prefix) /\ IsSeq(ch.address)
  BY <1>1 DEF IsDocument
<1>3. CASE ofHub(d, ch)
  <2>1. s \in hubs(docs)
    BY <1>3 DEF ofHub
  <2>2. [address |-> address, prefix |-> d.prefix] \in hubChannels(docs)
    BY <2>1 DEF hubChannels
  <2> QED
    BY <2>2
<1>4. CASE ~ofHub(d, ch)
  <2>1. opsOf(d, ch) # <<>>
    <3>1. ~channelError(d, ch)
      BY <1>2 DEF routeError
    <3> QED
      BY <3>1 DEF channelError
  <2>2. PICK op \in Range(d.operations) : op.channel = ch.id
    BY <1>1, <2>1, OperationsOf, NoElements
  <2> DEFINE m == asyncRoute(d, ch, op)
  <2>3. IsRouteOf(m, d, ch)
    BY <1>1, <1>4, <2>2 DEF IsRouteOf
  <2> HIDE DEF m
  <2>4. m \in Range(BuildRouteMappings(docs)) /\ m.protocol # ""
    BY <2>3, ChannelRoutes
  <2>5. m.path = routeAddress(d, ch)
    BY <2>3, RouteOfChannel
  <2>6. routeAddress(d, ch) = address
    BY <1>2, AddressesAgree DEF routeAddress
  <2> QED
    BY <2>4, <2>5, <2>6
<1> QED
  BY <1>3, <1>4

(* A mapping has the prefix of a document that has a channel there.        *)
LEMMA RouteShares ==
  ASSUME docs \in Documents, ~routeError(docs),
         NEW m \in Range(BuildRouteMappings(docs)), m.protocol # ""
  PROVE  \E t \in Sharing(m.path) : m.prefix = TrimSuffix(docs[t].prefix)
<1>1. PICK t \in DOMAIN docs : \E ch : IsRouteOf(m, docs[t], ch)
  BY ChannelRoutes
<1>2. PICK ch : IsRouteOf(m, docs[t], ch)
  BY <1>1
<1>3. /\ m.path = routeAddress(docs[t], ch) /\ m.prefix = TrimSuffix(docs[t].prefix)
      /\ \E j \in DOMAIN docs[t].channels : ch = docs[t].channels[j]
  BY <1>2, RouteOfChannel
<1>4. t \in Sharing(m.path)
  BY <1>3 DEF Sharing
<1> QED
  BY <1>3, <1>4

(* The prefix that buildChannelPrefix finds for a channel, and that of the *)
(* examples added there, is the one under which its own document's         *)
(* examples are subscribed.                                                *)
THEOREM SubscribersAreOfTheSchema == StartupSpec => []OwnSchemaHears
<1>1. StartupInv => OwnSchemaHears
  <2> SUFFICES ASSUME StartupInv, stage = "up",
                      NEW s \in DOMAIN docs, NEW i \in DOMAIN docs[s].channels,
                      Sharing(asyncAddressWithPrefix(docs[s].prefix, docs[s].channels[i].address)) = {s},
                      docs[s].signalr => s \in hubs(docs),
                      docs[s].prefix = <<>> \/ Last(docs[s].prefix) # Slash
               PROVE  LET address == asyncAddressWithPrefix(docs[s].prefix, docs[s].channels[i].address)
                      IN /\ channelPrefix(docs, address) = docs[s].prefix
                         /\ \A x \in added : x.req.channel = address => x.prefix = docs[s].prefix
    BY DEF OwnSchemaHears, Sharing
  <2> DEFINE prefix == docs[s].prefix
             address == asyncAddressWithPrefix(prefix, docs[s].channels[i].address)
  <2>1. docs \in Documents /\ DocumentsLoaded /\ ~routeError(docs)
    BY DEF StartupInv, SetupInv, SetupTyped, DocumentsLoaded
  <2>2. TrimSuffix(prefix) = prefix /\ prefix # <<Slash>>
    <3>1. Last(<<Slash>>) = Slash
      BY DEF Last
    <3> QED
      BY <3>1 DEF TrimSuffix
  <2>3. address # <<>>
    <3>1. IsSeq(prefix) /\ IsSeq(docs[s].channels[i].address)
      BY <2>1, DocumentsAre DEF IsDocument, Range
    <3> QED
      BY <2>2, <3>1, AddressesAgree
  <2>4. ASSUME NEW m \in Range(BuildRouteMappings(docs)), m.protocol # "", m.path = address
        PROVE  m.prefix = prefix
    <3>1. PICK t \in Sharing(address) : m.prefix = TrimSuffix(docs[t].prefix)
      BY <2>1, <2>4, RouteShares
    <3> QED
      BY <2>2, <3>1
  <2>5. ASSUME NEW c \in hubChannels(docs), c.address = address
        PROVE  c.prefix = prefix
    <3>1. PICK t \in hubs(docs) : \E j \in DOMAIN docs[t].channels :
            c = [address |-> asyncAddressWithPrefix(docs[t].prefix, docs[t].channels[j].address),
                 prefix  |-> docs[t].prefix]
      BY DEF hubChannels
    <3>2. /\ t \in DOMAIN docs /\ c.prefix = docs[t].prefix
          /\ \E j \in DOMAIN docs[t].channels :
               c.address = asyncAddressWithPrefix(docs[t].prefix, docs[t].channels[j].address)
      BY <3>1 DEF hubs
    <3>3. t \in Sharing(address)
      BY <2>5, <3>2 DEF Sharing
    <3> QED
      BY <3>2, <3>3
  <2> HIDE DEF address
  <2>6. channelPrefix(docs, address) = prefix
    <3> DEFINE B == BuildRouteMappings(docs)
               S == {m \in Range(B) : m.protocol # "" /\ m.path = address}
               routes == Keep(B, S)
               ofHubs == {c \in hubChannels(docs) : c.address = address}
    <3>1. routes \in Seq(Range(B) \cap S) /\ Range(routes) = Range(B) \cap S
      <4>1. B \in Seq(Range(B))
        BY <2>1, MappingsOf
      <4> HIDE DEF S, B
      <4> QED
        BY <4>1, KeepRange
    <3>2. channelPrefix(docs, address) =
            IF routes # <<>> THEN Last(routes).prefix
            ELSE IF ofHubs # {} THEN (CHOOSE c \in ofHubs : TRUE).prefix ELSE <<>>
      BY DEF channelPrefix, channelMappings
    <3>3. CASE routes # <<>>
      <4>1. Last(routes) \in Range(routes)
        <5> HIDE DEF routes
        <5>1. Len(routes) \in Nat /\ Len(routes) # 0 /\ DOMAIN routes = 1 .. Len(routes)
          BY <3>1, <3>3, EmptySeq, LenProperties
        <5> QED
          BY <5>1 DEF Last, Range
      <4>2. Last(routes) \in S
        <5> HIDE DEF routes, S
        <5> QED
          BY <3>1, <4>1
      <4>3. Last(routes).prefix = prefix
        <5> DEFINE l == Last(routes)
        <5>1. l \in Range(BuildRouteMappings(docs)) /\ l.protocol # "" /\ l.path = address
          BY <4>2
        <5> HIDE DEF l
        <5>2. l.prefix = prefix
          BY <5>1, <2>4
        <5> QED
          BY <5>2 DEF l
      <4> QED
        BY <3>2, <3>3, <4>3
    <3>4. CASE routes = <<>>
      <4>1. \A m : m \notin S
        <5>1. \A m : m \notin Range(B) \cap S
          <6> HIDE DEF routes, B, S
          <6> QED
            BY <3>1, <3>4, NoElements
        <5> QED
          BY <5>1
      <4>2. ofHubs # {}
        <5>1. \/ \E m \in Range(BuildRouteMappings(docs)) : m.protocol # "" /\ m.path = address
              \/ \E c \in hubChannels(docs) : c.address = address
          BY <2>1, <2>2, ServedChannel DEF address
        <5> QED
          BY <4>1, <5>1
      <4>3. (CHOOSE c \in ofHubs : TRUE) \in ofHubs
        BY <4>2
      <4>4. (CHOOSE c \in ofHubs : TRUE).prefix = prefix
        BY <4>3, <2>5
      <4> QED
        BY <3>2, <3>4, <4>2, <4>4
    <3> QED
      BY <3>3, <3>4
  <2>7. ASSUME NEW x \in added, x.req.channel = address
        PROVE  x.prefix = prefix
    <3> DEFINE m == Head(resolveExampleTarget(x.req))
    <3>1. IsMapped(x)
      BY DEF StartupInv
    <3>2. x.prefix = m.prefix
      BY <3>1 DEF IsMapped
    <3>3. \/ m \in Range(BuildRouteMappings(docs)) /\ m.protocol # "" /\ m.path = address
          \/ \E c \in hubChannels(docs) : c.address = address /\ m.prefix = c.prefix
      BY <2>1, <2>3, <2>7, <3>1, TargetOf
    <3> HIDE DEF m
    <3> QED
      BY <2>4, <2>5, <3>2, <3>3
  <2> QED
    BY <2>6, <2>7 DEF address
<1> QED
  BY <1>1, StartupInvariant, PTL

(* Type correctness of the registration of triggers while the server is    *)
(* built.                                                                  *)
THEOREM SetupTypes == StartupSpec => []SetupTypeOK
<1>1. StartupInv => SetupTypeOK
  BY SetupIsAllOrNothing DEF StartupInv
<1> QED
  BY <1>1, StartupInvariant, PTL
=============================================================================
