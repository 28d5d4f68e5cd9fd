---------------------------- MODULE StateManager ----------------------------
(***************************************************************************)
(* The state store (internal/state/state.go): a map of maps behind one     *)
(* mutex.  A namespace is created by its first key and removed with its    *)
(* last.  Every method holds the mutex throughout, so each is one step.    *)
(*                                                                         *)
(* A value is a number, a string that spells a number, or anything else;   *)
(* the wrappers of internal/server/wrappers.go only pass calls on.         *)
(* Operators whose name starts with Faulty are deliberate misreadings.     *)
(***************************************************************************)
EXTENDS Integers

CONSTANTS Namespace,  \* the schemas' prefixes
          Key,        \* state keys
          Value,      \* the values that are set
          Delta,      \* what increments add
          MaxNumber   \* bound on the numbers in the store

ASSUME ValueAssumption ==
  /\ Value \subseteq [kind : {"number", "string", "other"}, n : Int]
  /\ Delta \subseteq Int
  /\ MaxNumber \in Nat

VARIABLE state  \* Manager.state: namespace -> key -> value

Absent    == [kind |-> "absent", n |-> 0]
Number(i) == [kind |-> "number", n |-> i]

Empty == [x \in {} |-> Absent]

Put(map, x, v) == [y \in DOMAIN map \cup {x} |-> IF y = x THEN v ELSE map[y]]
Drop(map, x)   == [y \in DOMAIN map \ {x} |-> map[y]]

NewManager == Empty

(* GetNamespace: a deep copy, or nothing. *)
GetNamespace(ns) == IF ns \in DOMAIN state THEN state[ns] ELSE Empty

Lookup(map, k) == IF k \in DOMAIN map THEN map[k] ELSE Absent

Get(ns, k) == Lookup(GetNamespace(ns), k)

Set(ns, k, v) == state' = Put(state, ns, Put(GetNamespace(ns), k, v))

(* A number is added to; anything else is replaced by the delta. *)
Incremented(old, d) == Number(IF old.kind = "number" THEN old.n + d ELSE d)

Increment(ns, k, d) == Set(ns, k, Incremented(Get(ns, k), d))

(* Resets the key to zero instead of removing it. *)
FaultyDeleteStoresZero(ns, k) == Set(ns, k, Number(0))

Delete(ns, k) ==
  state' = IF ns \in DOMAIN state
           THEN IF DOMAIN state[ns] \subseteq {k}
                THEN Drop(state, ns)
                ELSE Put(state, ns, Drop(state[ns], k))
           ELSE state

ClearNamespace(ns) == state' = Drop(state, ns)

-----------------------------------------------------------------------------
(* Any calls in any order, while numbers are within the bound. *)
Init == state = NewManager

Next ==
  \E ns \in Namespace :
    \/ ClearNamespace(ns)
    \/ \E k \in Key :
         \/ Delete(ns, k)
         \/ \E v \in Value : Set(ns, k, v)
         \/ \E d \in Delta : /\ Incremented(Get(ns, k), d).n \in -MaxNumber .. MaxNumber
                             /\ Increment(ns, k, d)

Spec == Init /\ [][Next]_state

-----------------------------------------------------------------------------
(* Type correctness: a map from some namespaces to maps from some keys. *)
TypeOK ==
  /\ DOMAIN state \subseteq Namespace
  /\ \A ns \in DOMAIN state :
       /\ DOMAIN state[ns] \subseteq Key
       /\ \A k \in DOMAIN state[ns] :
            state[ns][k] \in Value \cup [kind : {"number"}, n : Int]

(* Namespaces do not pile up: one without keys is not kept, however keys   *)
(* are set, incremented and deleted.                                       *)
NoEmptyNamespace == \A ns \in DOMAIN state : DOMAIN state[ns] # {}

(* Seen through Get, the map of maps is the promised store: creating and   *)
(* removing namespaces never touches another key.                          *)
Store == INSTANCE StateStore WITH content <- [p \in Namespace \X Key |-> Get(p[1], p[2])]

ImplementsStateStore == Store!Spec

(* RS.MSC.22: an increment adds to a stored value that is a number "in     *)
(* string or number form".                                                 *)
IncrementAddsToNumbers ==
  \A ns \in Namespace, k \in Key, d \in Delta :
    Get(ns, k).kind \in {"number", "string"} =>
      Incremented(Get(ns, k), d) = Number(Get(ns, k).n + d)
=============================================================================
