------------------------------ MODULE MCJsonRpc ------------------------------
(* One request with a body of up to MaxItems elements of every shape, or   *)
(* two with batches of calls.                                              *)
EXTENDS JsonRpc

CONSTANTS MaxItems

Item(shape, proc, id) == [shape |-> shape, proc |-> proc, id |-> id]

Items0 ==
  {Item("no object", "", "absent"), Item("malformed", "", "given"), Item("nameless", "", "null")}
    \cup {Item("call", p, i) : p \in {"a", "b", "c", "d", "x"}, i \in {"given", "null"}}
    \cup {Item("call", "a", "absent")}

(* Batches of three calls of known procedures, for their effect on others. *)
CallBatches ==
  {[form |-> "array", items |-> s] :
     s \in [1 .. 3 -> {Item("call", "a", "given"), Item("call", "b", "absent")}]}

MCBody ==
  CallBatches \cup
  {[form |-> f, items |-> <<>>] : f \in {"garbage", "scalar"}}
    \cup {[form |-> "object", items |-> <<i>>] : i \in Items0 \ {Item("no object", "", "absent")}}
    \cup {[form |-> "array", items |-> s] : s \in UNION {[1 .. n -> Items0] : n \in 0 .. MaxItems}}

(* Succeeds, fails when it is rendered, has no matching example, has an    *)
(* example without a value.                                                *)
MCProcedure ==
  [p \in {"a", "b", "c", "d"} |->
     [fate |-> CASE p = "a" -> "ok" [] p = "b" -> "fails" [] p = "c" -> "none"
                 [] p = "d" -> "bodiless",
      status |-> 502]]

(* A second request comes only if both are such batches. *)
BodiesFor(r) ==
  IF \A q \in Req : rpc[q].pc = "idle" THEN Body
  ELSE IF \A q \in Req \ {r} : rpc[q].body \in CallBatches THEN CallBatches ELSE {}

MCSpec == RpcInit /\ [][\E r \in Req : Serve(r) \/ \E body \in BodiesFor(r) : Post(r, body)]_rpcVars
=============================================================================
