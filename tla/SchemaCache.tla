----------------------------- MODULE SchemaCache -----------------------------
(***************************************************************************)
(* The cache of compiled JSON schemas: schemaCacheStore and                *)
(* getCachedSchema of internal/extensions/match.go.                        *)
(*                                                                         *)
(* A caller asks for one schema after the other: it looks the schema up,   *)
(* compiles it on a miss and puts it into the cache; the lock is held for  *)
(* the lookup and for the put, not in between.                             *)
(* A schema stands for the hash of its text.                               *)
(***************************************************************************)
EXTENDS Naturals, Sequences

CONSTANTS Call,      \* callers: evaluations of the conditions of an example
          Key,       \* schemas
          Broken,    \* those that do not compile
          Capacity   \* schemaCacheCapacity

ASSUME CacheAssumption ==
  /\ Capacity \in Nat \ {0}
  /\ Key # {} /\ Broken \subseteq Key

VARIABLES store,     \* the keys of the map; the entry of k is k compiled
          order,     \* the keys in the order they were put
          call,      \* what a caller asks for, or did: [pc, key]
          puts       \* history: every key that was put, in order

cacheVars == <<store, order, call, puts>>

CacheInit ==
  /\ store = {}
  /\ order = <<>>
  /\ call = [c \in Call |-> [pc |-> "done", key |-> CHOOSE k \in Key : TRUE]]
  /\ puts = <<>>

Ask(c, k) ==
  /\ call[c].pc = "done"
  /\ call' = [call EXCEPT ![c] = [pc |-> "asked", key |-> k]]
  /\ UNCHANGED <<store, order, puts>>

(* get: a hit ends the call. *)
Get(c) ==
  /\ call[c].pc = "asked"
  /\ call' = [call EXCEPT ![c].pc = IF call[c].key \in store THEN "done" ELSE "missed"]
  /\ UNCHANGED <<store, order, puts>>

(* The schema is compiled without the lock; an error is returned. *)
Compile(c) ==
  /\ call[c].pc = "missed"
  /\ call' = [call EXCEPT ![c].pc = IF call[c].key \in Broken THEN "done" ELSE "compiled"]
  /\ UNCHANGED <<store, order, puts>>

(* Does not look again for a key that another call has put meanwhile. *)
FaultyPresent(k) == FALSE

Present(k) == k \in store

(* After the append there are more than Capacity keys. *)
Overflows == Len(order) >= Capacity

(* Starts again from nothing when there is no room. *)
FaultyPut(c) ==
  LET k == call[c].key
  IN /\ call[c].pc = "compiled"
     /\ call' = [call EXCEPT ![c].pc = "done"]
     /\ IF Present(k)
        THEN UNCHANGED <<store, order, puts>>
        ELSE /\ puts' = Append(puts, k)
             /\ order' = IF Overflows THEN <<k>> ELSE Append(order, k)
             /\ store' = IF Overflows THEN {k} ELSE store \cup {k}

(* put: nothing if the key is there; otherwise the oldest goes if there is *)
(* no room.                                                                *)
Put(c) ==
  LET k == call[c].key
  IN /\ call[c].pc = "compiled"
     /\ call' = [call EXCEPT ![c].pc = "done"]
     /\ IF Present(k)
        THEN UNCHANGED <<store, order, puts>>
        ELSE /\ puts' = Append(puts, k)
             /\ IF Overflows
                THEN /\ order' = Tail(Append(order, k))
                     /\ store' = (store \cup {k}) \ {Head(Append(order, k))}
                ELSE /\ order' = Append(order, k)
                     /\ store' = store \cup {k}

CacheNext ==
  \E c \in Call :
    \/ \E k \in Key : Ask(c, k)
    \/ Get(c) \/ Compile(c) \/ Put(c)

CacheSpec == CacheInit /\ [][CacheNext]_cacheVars

-----------------------------------------------------------------------------
(* Types; and the bound: "cannot grow it without limit". *)
CacheTypeOK ==
  /\ store \subseteq Key
  /\ order \in Seq(Key)
  /\ puts \in Seq(Key)
  /\ call \in [Call -> [pc : {"asked", "missed", "compiled", "done"}, key : Key]]
  /\ Len(order) <= Capacity

(* The list that decides on eviction and the map agree, and no key is      *)
(* listed twice, however calls that missed the same key put it: a key      *)
(* listed twice would be evicted while it is in use as a new one, and a    *)
(* key that is not listed would never leave.                               *)
OrderIsStore ==
  /\ store = {order[i] : i \in DOMAIN order}
  /\ \A i, j \in DOMAIN order : i # j => order[i] # order[j]

(* "On overflow the least-recently-inserted entry is evicted": the cache   *)
(* holds exactly the newest of the keys that were ever put.                *)
OldestIsEvicted ==
  /\ Len(order) <= Len(puts)
  /\ \A i \in DOMAIN order : order[i] = puts[Len(puts) - Len(order) + i]
  /\ Len(order) < Capacity => order = puts

(* Both together, for the code that uses the cache. *)
CacheHoldsNewest == OrderIsStore /\ OldestIsEvicted
=============================================================================
