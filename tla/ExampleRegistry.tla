--------------------------- MODULE ExampleRegistry ---------------------------
(***************************************************************************)
(* The dynamic examples of one route key (internal/server/registry.go):    *)
(* POST adds one, DELETE removes one, the sweep drops the expired ones,    *)
(* and requests select one concurrently.                                   *)
(*                                                                         *)
(* A selection takes the slice header under dyMu and walks the backing     *)
(* array without the lock, while removeDynamic filters that same array in  *)
(* place.  The arrays are therefore modelled: heap maps an address to an   *)
(* array, a slice is an address and a length.  Copying an element out of   *)
(* the array is not atomic: the loop reads it in two halves, in either     *)
(* order, the identity (onceID, once) and the content (addedAt, ttl,       *)
(* conditions, response), and a write may come between.                    *)
(*                                                                         *)
(* Operators whose name starts with Faulty are deliberate misreadings.     *)
(***************************************************************************)
EXTENDS Naturals, Sequences, SequencesExt, FiniteSets, Filter

CONSTANTS Ex,       \* dynamic examples, each added at most once
          Once,     \* those with once: true
          TTL,      \* the ttl of each example, 0 for none
          Matches,  \* the pairs <<request, example>> whose conditions hold
          Req,      \* requests for the route
          Addr,     \* addresses of backing arrays
          None,     \* no example, and the zero value of an array element
          MaxTime   \* bound on the clock

ASSUME RegistryAssumption ==
  /\ Once \subseteq Ex
  /\ TTL \in [Ex -> Nat]
  /\ Matches \subseteq Req \X Ex
  /\ None \notin Ex \cup Nat
  /\ MaxTime \in Nat

(* There is always memory for one more array. *)
ASSUME MemoryAssumption ==
  /\ Addr # {}
  /\ \A used \in [Req -> Addr], a \in Addr : \E b \in Addr : b # a /\ \A q \in Req : b # used[q]

VARIABLES heap,     \* address -> backing array
          slice,    \* dynamicExamples[key]
          once,     \* onceExamples: the ids marked as used
          clock,    \* time.Now(), in seconds
          addedAt,  \* dynamicExample.addedAt, None before the POST
          remover,  \* the removeDynamic call that holds dyMu, if any
          sel,      \* one selectDynamic call per request
          live,     \* history variable: the registered examples, in order
          deleted,  \* history variable: the examples whose DELETE is over
          seen      \* history variable: what held when a selection began

vars == <<heap, slice, once, clock, addedAt, remover, sel, live,
          deleted, seen>>

Empty == [arr |-> CHOOSE a \in Addr : TRUE, len |-> 0]
Idle  == [id |-> None, i |-> 0, kept |-> 0]

(* The elements of a slice, in order. *)
Elements(s) == SubSeq(heap[s.arr], 1, s.len)

isExpired(x) == TTL[x] > 0 /\ addedAt[x] + TTL[x] <= clock

Unexpired(s) == {x \in Range(s) : ~isExpired(x)}

InProgress == {q \in Req : sel[q].pc \notin {"idle", "done"}}

Reachable == {slice.arr} \cup {sel[q].arr : q \in InProgress}

(* An address nobody refers to: make and append allocate there. *)
Fresh == CHOOSE a \in Addr : a \notin Reachable

(* The heap after allocating an array; garbage is collected. *)
Alloc(array) == [a \in Addr |-> IF a = Fresh THEN array
                               ELSE IF a \in Reachable THEN heap[a] ELSE <<>>]

NoSelection == [pc |-> "idle", arr |-> Empty.arr, len |-> 0, i |-> 1,
                id |-> None, content |-> None, result |-> None]

Returned(x) == [NoSelection EXCEPT !.pc = "done", !.result = x]

Init ==
  /\ heap = [a \in Addr |-> <<>>]
  /\ slice = Empty
  /\ once = {}
  /\ clock = 0
  /\ addedAt = [x \in Ex |-> None]
  /\ remover = Idle
  /\ sel = [q \in Req |-> NoSelection]
  /\ live = <<>>
  /\ deleted = {}
  /\ seen = [q \in Req |-> [elements |-> <<>>, spent |-> {}, deleted |-> {},
                            raced |-> FALSE]]

-----------------------------------------------------------------------------
(* append writes in place when the array has room and otherwise copies to  *)
(* one twice as large; a missing map entry is a nil slice without array.   *)
addDynamic(x) ==
  /\ remover = Idle
  /\ addedAt[x] = None
  /\ addedAt' = [addedAt EXCEPT ![x] = clock]
  /\ live' = Append(live, x)
  /\ LET old == heap[slice.arr]
         n   == slice.len
     IN IF n > 0 /\ n < Len(old)
        THEN /\ heap' = [heap EXCEPT ![slice.arr][n + 1] = x]
             /\ slice' = [slice EXCEPT !.len = n + 1]
        ELSE LET room == IF n = 0 THEN 0 ELSE n - 1
             IN /\ heap' = Alloc(SubSeq(old, 1, n) \o <<x>>
                                   \o [i \in 1 .. room |-> None])
                /\ slice' = [arr |-> Fresh, len |-> n + 1]
  /\ UNCHANGED <<once, clock, remover, sel, deleted, seen>>

(* removeDynamic takes dyMu ...  (For an id that is not registered the     *)
(* filter only writes every element over itself; DELETE answers 404.)      *)
removeDynamic(x) ==
  /\ remover = Idle
  /\ x \in Range(live)
  /\ remover' = [id |-> x, i |-> 1, kept |-> 0]
  /\ seen' = [q \in Req |-> IF q \in InProgress THEN [seen[q] EXCEPT !.raced = TRUE]
                                                 ELSE seen[q]]
  /\ UNCHANGED <<heap, slice, once, clock, addedAt, sel, live, deleted>>

(* Counts the elements it keeps but does not move them. *)
FaultyRemoveStepKeepsSlot ==
  LET x == heap[slice.arr][remover.i]
  IN /\ remover.id # None
     /\ remover.i <= slice.len
     /\ IF x = remover.id
        THEN /\ once' = once \ {x}
             /\ remover' = [remover EXCEPT !.i = @ + 1]
        ELSE /\ UNCHANGED once
             /\ remover' = [remover EXCEPT !.i = @ + 1, !.kept = @ + 1]
     /\ UNCHANGED <<heap, slice, clock, addedAt, sel, live, deleted, seen>>

(* Drops the once markers of the examples it keeps. *)
FaultyRemoveStepClearsMarkers ==
  LET x == heap[slice.arr][remover.i]
  IN /\ remover.id # None
     /\ remover.i <= slice.len
     /\ once' = once \ {x}
     /\ IF x = remover.id
        THEN /\ remover' = [remover EXCEPT !.i = @ + 1]
             /\ UNCHANGED heap
        ELSE /\ heap' = [heap EXCEPT ![slice.arr][remover.kept + 1] = x]
             /\ remover' = [remover EXCEPT !.i = @ + 1, !.kept = @ + 1]
     /\ UNCHANGED <<slice, clock, addedAt, sel, live, deleted, seen>>

(* ... filters the slice in place, kept := examples[:0], ... *)
RemoveStep ==
  LET x == heap[slice.arr][remover.i]
  IN /\ remover.id # None
     /\ remover.i <= slice.len
     /\ IF x = remover.id
        THEN /\ once' = once \ {x}
             /\ remover' = [remover EXCEPT !.i = @ + 1]
             /\ UNCHANGED heap
        ELSE /\ heap' = [heap EXCEPT ![slice.arr][remover.kept + 1] = x]
             /\ remover' = [remover EXCEPT !.i = @ + 1, !.kept = @ + 1]
             /\ UNCHANGED once
     /\ UNCHANGED <<slice, clock, addedAt, sel, live, deleted, seen>>

(* ... stores the shorter slice and releases dyMu. *)
RemoveEnd ==
  /\ remover.id # None
  /\ remover.i > slice.len
  /\ slice' = IF remover.kept = 0 THEN Empty ELSE [slice EXCEPT !.len = remover.kept]
  /\ remover' = Idle
  /\ live' = Keep(live, Ex \ {remover.id})
  /\ deleted' = deleted \cup ({remover.id} \cap Range(live))
  /\ UNCHANGED <<heap, once, clock, addedAt, sel, seen>>

(* Forgets to remove anything that has been used. *)
FaultySweepSkipsUsed ==
  LET kept == Keep(Elements(slice), Unexpired(Elements(slice)) \cup once)
  IN /\ remover = Idle
     /\ slice.len > 0
     /\ heap' = Alloc(kept \o [i \in 1 .. slice.len - Len(kept) |-> None])
     /\ slice' = IF kept = <<>> THEN Empty ELSE [arr |-> Fresh, len |-> Len(kept)]
     /\ live' = Keep(live, Unexpired(live) \cup once)
     /\ UNCHANGED <<once, clock, addedAt, remover, sel, deleted, seen>>

(* The sweep builds a new array.  A selection that runs meanwhile can      *)
(* observe only the markers it deletes, and those belong to examples that  *)
(* the selection's own expiry check refuses, so the sweep is one step.     *)
sweepExpired ==
  LET kept == Keep(Elements(slice), Unexpired(Elements(slice)))
  IN /\ remover = Idle
     /\ slice.len > 0
     /\ heap' = Alloc(kept \o [i \in 1 .. slice.len - Len(kept) |-> None])
     /\ slice' = IF kept = <<>> THEN Empty ELSE [arr |-> Fresh, len |-> Len(kept)]
     /\ once' = once \ {x \in Range(Elements(slice)) : isExpired(x)}
     /\ live' = Keep(live, Unexpired(live))
     /\ UNCHANGED <<clock, addedAt, remover, sel, deleted, seen>>

Tick ==
  /\ clock < MaxTime
  /\ clock' = clock + 1
  /\ UNCHANGED <<heap, slice, once, addedAt, remover, sel, live, deleted, seen>>

-----------------------------------------------------------------------------
(* selectDynamic copies the slice header under dyMu.RLock. *)
SelectBegin(q) ==
  /\ sel[q].pc = "idle"
  /\ remover = Idle
  /\ sel' = [sel EXCEPT ![q].pc = "scan", ![q].arr = slice.arr, ![q].len = slice.len]
  /\ seen' = [seen EXCEPT ![q] =
                [elements |-> Elements(slice),
                 spent    |-> once \cup {x \in Range(live) : isExpired(x)},
                 deleted  |-> deleted,
                 raced    |-> FALSE]]
  /\ UNCHANGED <<heap, slice, once, clock, addedAt, remover, live, deleted>>

(* The range clause copies one half of the element at the index, ... *)
SelectReadHalf(q, half) ==
  LET x == heap[sel[q].arr][sel[q].i]
  IN /\ sel[q].pc = "scan"
     /\ sel[q].i <= sel[q].len
     /\ sel' = [sel EXCEPT ![q].pc = "half",
                           ![q].id = IF half = "id" THEN x ELSE None,
                           ![q].content = IF half = "content" THEN x ELSE None]
     /\ UNCHANGED <<heap, slice, once, clock, addedAt, remover, live,
                    deleted, seen>>

(* ... then the other. *)
SelectReadRest(q) ==
  LET x == heap[sel[q].arr][sel[q].i]
  IN /\ sel[q].pc = "half"
     /\ sel' = [sel EXCEPT ![q].pc = "check",
                           ![q].id = IF @ = None THEN x ELSE @,
                           ![q].content = IF @ = None THEN x ELSE @]
     /\ UNCHANGED <<heap, slice, once, clock, addedAt, remover, live,
                    deleted, seen>>

exampleEligible(q) ==
  /\ ~(sel[q].id \in Once /\ sel[q].id \in once)
  /\ ~isExpired(sel[q].content)
  /\ <<q, sel[q].content>> \in Matches

(* A match that is not one-time is returned; a one-time match goes on to   *)
(* be marked; anything else is skipped.                                    *)
SelectCheck(q) ==
  /\ sel[q].pc = "check"
  /\ sel' = [sel EXCEPT ![q] =
       IF ~exampleEligible(q)
       THEN [sel[q] EXCEPT !.pc = "scan", !.i = @ + 1, !.id = None, !.content = None]
       ELSE IF sel[q].id \in Once
            THEN [sel[q] EXCEPT !.pc = "mark"]
            ELSE Returned(sel[q].content)]
  /\ UNCHANGED <<heap, slice, once, clock, addedAt, remover, live,
                 deleted, seen>>

(* markOnceUsed, then return. *)
SelectMark(q) ==
  /\ sel[q].pc = "mark"
  /\ once' = once \cup {sel[q].id}
  /\ sel' = [sel EXCEPT ![q] = Returned(sel[q].content)]
  /\ UNCHANGED <<heap, slice, clock, addedAt, remover, live, deleted, seen>>

(* The walk ends one element early. *)
FaultySelectEndsEarly(q) ==
  /\ sel[q].pc = "scan"
  /\ sel[q].i >= sel[q].len
  /\ sel' = [sel EXCEPT ![q] = Returned(None)]
  /\ UNCHANGED <<heap, slice, once, clock, addedAt, remover, live,
                 deleted, seen>>

(* No dynamic example matched: the request falls through to the document's *)
(* own examples.                                                           *)
SelectNone(q) ==
  /\ sel[q].pc = "scan"
  /\ sel[q].i > sel[q].len
  /\ sel' = [sel EXCEPT ![q] = Returned(None)]
  /\ UNCHANGED <<heap, slice, once, clock, addedAt, remover, live,
                 deleted, seen>>

Next ==
  \/ \E x \in Ex : addDynamic(x) \/ removeDynamic(x)
  \/ RemoveStep
  \/ RemoveEnd
  \/ sweepExpired
  \/ Tick
  \/ \E q \in Req :
       \/ SelectBegin(q)
       \/ \E half \in {"id", "content"} : SelectReadHalf(q, half)
       \/ SelectReadRest(q)
       \/ SelectCheck(q)
       \/ SelectMark(q)
       \/ SelectNone(q)

Spec == Init /\ [][Next]_vars

(* startSweep's goroutine calls sweepExpired every second until stopSweep, *)
(* so the specification is about a server that is not shut down.  A        *)
(* removal that holds the lock goes on.  Nobody is obliged to send a       *)
(* request or to let time pass.                                            *)
Fairness == WF_vars(sweepExpired) /\ WF_vars(RemoveStep) /\ WF_vars(RemoveEnd)

-----------------------------------------------------------------------------
(* Type correctness. *)
TypeOK ==
  /\ heap \in [Addr -> Seq(Ex \cup {None})]
  /\ slice \in [arr : Addr, len : Nat]
  /\ once \subseteq Once
  /\ clock \in 0 .. MaxTime
  /\ addedAt \in [Ex -> 0 .. MaxTime \cup {None}]
  /\ remover \in [id : Ex \cup {None}, i : Nat, kept : Nat]
  /\ sel \in [Req -> [pc : {"idle", "scan", "half", "check", "mark", "done"},
                      arr : Addr, len : Nat, i : Nat, id : Ex \cup {None},
                      content : Ex \cup {None}, result : Ex \cup {None}]]
  /\ live \in Seq(Ex)
  /\ deleted \subseteq Ex
  /\ seen \in [Req -> [elements : Seq(Ex), spent : SUBSET Ex, deleted : SUBSET Ex,
                       raced : BOOLEAN]]

(* Between two lock holders the slice holds exactly the registered         *)
(* examples in the order they were added, although append, the in-place    *)
(* filter and the sweep share and replace backing arrays.                  *)
SliceHoldsLive == remover = Idle => Elements(slice) = live

(* x is eligible for q whenever q looks at it: never used up, no expiry. *)
AlwaysEligible(q, x) == x \notin Once /\ TTL[x] = 0 /\ <<q, x>> \in Matches

(* The selection returned an example at or before the first one that was   *)
(* eligible all along.                                                     *)
SelectsFirst(q) ==
  \A i \in DOMAIN seen[q].elements :
    AlwaysEligible(q, seen[q].elements[i]) =>
      \E j \in 1 .. i : sel[q].result = seen[q].elements[j]

(* A request during whose selection nothing was deleted gets the first     *)
(* registered example that matches, even if others are added or swept      *)
(* meanwhile; what it gets was not expired when it began,                  *)
(* and no one-time example that was already used when it began.  Even a    *)
(* request that deletions disturb gets nothing whose DELETE had returned   *)
(* before it began.  A one-time example that an undisturbed request got    *)
(* stays marked while it is registered, whatever is deleted or swept.      *)
SelectionIsSound ==
  \A q \in Req : sel[q].pc = "done" =>
    /\ sel[q].result \notin seen[q].deleted
    /\ ~seen[q].raced =>
         /\ SelectsFirst(q) /\ sel[q].result \notin seen[q].spent
         /\ sel[q].result \in (Once \cap Range(live)) \ {remover.id} => sel[q].result \in once

(* RS.MSC.44: an example whose TTL has elapsed leaves the store, even if   *)
(* requests and deletions keep interfering.                                *)
ExpiredIsSwept ==
  \A x \in Ex : (x \in Range(live) /\ isExpired(x)) ~> (x \notin Range(live))

(* RS.MAPI.4: a one-time example is disposed of after its first match. *)
OnceServedOnce ==
  \A x \in Once :
    Cardinality({q \in Req : sel[q].pc = "done" /\ sel[q].result = x}) <= 1

(* The comment on selectDynamic: it returns the first example that         *)
(* matches.  Required only when that example stays registered throughout.  *)
FirstMatchSelected ==
  \A q \in Req : sel[q].pc = "done" =>
    \A i \in DOMAIN seen[q].elements :
      LET x == seen[q].elements[i]
      IN x \in Range(live) /\ AlwaysEligible(q, x) /\
         (\A j \in 1 .. i - 1 : <<q, seen[q].elements[j]>> \notin Matches)
           => sel[q].result = x
=============================================================================
