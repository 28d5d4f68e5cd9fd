----------------------------- MODULE StateStore -----------------------------
(***************************************************************************)
(* What the state of the mock server promises: a value or nothing for      *)
(* every key of every namespace, changed by one operation at a time.       *)
(***************************************************************************)
EXTENDS Integers

CONSTANTS Namespace,  \* the schemas' prefixes
          Key,        \* state keys
          Value,      \* a kind and a number, see StateManager
          Delta       \* what increments add

VARIABLE content

Absent    == [kind |-> "absent", n |-> 0]
Number(i) == [kind |-> "number", n |-> i]

Init == content = [p \in Namespace \X Key |-> Absent]

Set(ns, k, v) == content' = [content EXCEPT ![<<ns, k>>] = v]

Increment(ns, k, d) ==
  content' = [content EXCEPT ![<<ns, k>>] =
                Number(IF @.kind = "number" THEN @.n + d ELSE d)]

Delete(ns, k) == content' = [content EXCEPT ![<<ns, k>>] = Absent]

Clear(ns) ==
  content' = [p \in Namespace \X Key |-> IF p[1] = ns THEN Absent ELSE content[p]]

Next ==
  \E ns \in Namespace :
    \/ Clear(ns)
    \/ \E k \in Key :
         \/ Delete(ns, k)
         \/ \E v \in Value : Set(ns, k, v)
         \/ \E d \in Delta : Increment(ns, k, d)

Spec == Init /\ [][Next]_content
=============================================================================
