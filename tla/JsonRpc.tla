------------------------------- MODULE JsonRpc -------------------------------
(***************************************************************************)
(* The JSON-RPC gateway: ServeHTTP and handleCall of                       *)
(* internal/server/jsonrpc.go over the parser of jsonrpc_protocol.go.      *)
(*                                                                         *)
(* A request runs the calls of its body one after the other, each through  *)
(* the mock pipeline; requests run concurrently.  A call reads the state   *)
(* when it begins and has written it when it ends (MockPipeline has the    *)
(* steps in between); here every procedure counts its calls.  The id of a  *)
(* call is its place in the body, and a result is taken to echo it, as the *)
(* examples of a JSON-RPC schema do.                                       *)
(***************************************************************************)
EXTENDS Naturals, Integers, Sequences, Filter

CONSTANTS Req,        \* HTTP requests
          Body,       \* the bodies they may have
          Procedure   \* procedureMap: name -> [fate, status] of its example:
                      \* fate is "ok", "none" (no example matches), "fails"
                      \* (the example cannot be rendered) or "bodiless" (it
                      \* has no value)

Form  == {"garbage", "scalar", "object", "array"}
Shape == {"no object", "malformed", "nameless", "call"}
Fate  == {"ok", "none", "fails", "bodiless"}

(* An object is the one item of its body. *)
ASSUME JsonRpcAssumption ==
  /\ \A body \in Body :
       /\ body.form \in Form
       /\ body.items \in Seq({body.items[i] : i \in DOMAIN body.items})
       /\ \A i \in DOMAIN body.items : /\ body.items[i].shape \in Shape
                                       /\ body.items[i].id \in {"given", "null", "absent"}
       /\ body.form = "object" => Len(body.items) = 1
  /\ \A p \in DOMAIN Procedure : Procedure[p].fate \in Fate

VARIABLES rpc,      \* the requests
          count,    \* state: calls of each procedure
          effects   \* the calls that took effect, in order

rpcVars == <<rpc, count, effects>>

ParseError == -32700
Invalid    == -32600
NotFound   == -32601
Internal   == -32603
NullId     == 0

Fresh == [pc |-> "idle", body |-> <<>>, batch |-> FALSE, entries |-> <<>>, next |-> 1,
          seen |-> <<>>, results |-> <<>>, mocked |-> 0, answer |-> <<>>]

RpcInit ==
  /\ rpc = [r \in Req |-> Fresh]
  /\ count = [p \in DOMAIN Procedure |-> 0]
  /\ effects = <<>>

-----------------------------------------------------------------------------
(* The body: [form, items] with form "garbage", "scalar", "object" or      *)
(* "array".  An item is [shape, proc, id]: shape "no object", "malformed"  *)
(* (version or method), "nameless" (nothing at the configured path) or     *)
(* "call"; id "given", "null" or "absent".                                 *)

ErrorResponse(code, id) == [kind |-> "error", code |-> code, id |-> id]

(* The id of an error: what the object has under "id", null included. *)
ErrorId(item, i) == IF item.shape # "no object" /\ item.id = "given" THEN i ELSE NullId

(* parseSingle: a null id makes a notification too; a name that is not     *)
(* found is an error without a code, which counts as a parse error.        *)
parseSingle(item, i) ==
  CASE item.shape \in {"no object", "malformed"} -> ErrorResponse(Invalid, ErrorId(item, i))
    [] item.shape = "nameless" -> ErrorResponse(ParseError, ErrorId(item, i))
    [] OTHER -> [kind |-> "call", proc |-> item.proc, id |-> i, hasID |-> item.id = "given"]

(* ParseBody: entries, or one error for the whole body. *)
parseBatch(items) ==
  IF items = <<>> THEN [fatal |-> Invalid, entries |-> <<>>]
  ELSE [fatal |-> 0, entries |-> [i \in DOMAIN items |-> parseSingle(items[i], i)]]

ParseBody(body) ==
  CASE body.form = "garbage" -> [fatal |-> ParseError, entries |-> <<>>]
    [] body.form = "scalar"  -> [fatal |-> Invalid, entries |-> <<>>]
    [] body.form = "array"   -> parseBatch(body.items)
    [] body.form = "object"  ->
         LET e == parseSingle(body.items[1], 1)
         IN IF e.kind = "error" THEN [fatal |-> e.code, entries |-> <<>>]
            ELSE [fatal |-> 0, entries |-> <<e>>]

-----------------------------------------------------------------------------
Reply(status, content, mocked) == [status |-> status, content |-> content, mocked |-> mocked]

Post(r, body) ==
  LET parsed == ParseBody(body)
  IN /\ rpc[r].pc = "idle"
     /\ rpc' = [rpc EXCEPT ![r] =
          IF parsed.fatal # 0
          THEN [Fresh EXCEPT !.pc = "answered", !.body = body,
                             !.answer = Reply(200, <<ErrorResponse(parsed.fatal, NullId)>>, 0)]
          ELSE [Fresh EXCEPT !.pc = "calling", !.body = body,
                             !.batch = body.form = "array", !.entries = parsed.entries]]
     /\ UNCHANGED <<count, effects>>

Entry(r) == rpc[r].entries[rpc[r].next]
HasNext(r) == rpc[r].pc = "calling" /\ rpc[r].next <= Len(rpc[r].entries)

Advance(r, results) ==
  [rpc EXCEPT ![r].pc = "calling", ![r].next = @ + 1, ![r].results = @ \o results]

EntryError(r) ==
  /\ HasNext(r)
  /\ Entry(r).kind = "error"
  /\ rpc' = Advance(r, <<Entry(r)>>)
  /\ UNCHANGED <<count, effects>>

(* Answers notifications as well. *)
FaultyAnswered(call, result) == <<result>>

(* Only calls with an id have an entry in the response. *)
Answered(call, result) == IF call.hasID THEN <<result>> ELSE <<>>

UnknownCall(r) ==
  /\ HasNext(r)
  /\ Entry(r).kind = "call" /\ Entry(r).proc \notin DOMAIN Procedure
  /\ rpc' = Advance(r, Answered(Entry(r), ErrorResponse(NotFound, Entry(r).id)))
  /\ UNCHANGED <<count, effects>>

(* Reads the state once for the whole batch. *)
FaultySeenBy(r) ==
  IF rpc[r].seen = <<>> THEN count ELSE rpc[r].seen[Len(rpc[r].seen)]

(* The copy of the state that a call's expressions read. *)
SeenBy(r) == count

CallBegin(r) ==
  /\ HasNext(r)
  /\ Entry(r).kind = "call" /\ Entry(r).proc \in DOMAIN Procedure
  /\ rpc' = [rpc EXCEPT ![r].pc = "running", ![r].seen = Append(@, SeenBy(r))]
  /\ UNCHANGED <<count, effects>>

(* Leaves out the pipeline of notifications. *)
FaultyTakesEffect(call) == Procedure[call.proc].fate # "none" /\ call.hasID

(* The pipeline gives up before it writes the state if no example matches, *)
(* and after it if the example cannot be rendered.                         *)
TakesEffect(call) == Procedure[call.proc].fate # "none"

Fails(proc) == Procedure[proc].fate \in {"none", "fails"}

Result(call) ==
  CASE Fails(call.proc) -> ErrorResponse(Internal, call.id)
    [] Procedure[call.proc].fate = "ok" -> [kind |-> "result", id |-> call.id]
    [] OTHER -> [kind |-> "empty", id |-> call.id]

CallEnd(r) ==
  LET call == Entry(r)
      ok   == call.hasID /\ ~Fails(call.proc)
  IN /\ rpc[r].pc = "running"
     /\ rpc' = [Advance(r, Answered(call, Result(call))) EXCEPT
                  ![r].mocked = IF ok THEN Procedure[call.proc].status ELSE @]
     /\ IF TakesEffect(call)
        THEN /\ count' = [count EXCEPT ![call.proc] = @ + 1]
             /\ effects' = Append(effects, <<r, rpc[r].next>>)
        ELSE UNCHANGED <<count, effects>>

(* json.Marshal of the results fails on an empty one; the error is dropped *)
(* and nothing is written.                                                 *)
Marshalled(results) ==
  IF \E i \in DOMAIN results : results[i].kind = "empty" THEN <<>> ELSE results

(* The transport's status is 200 or 204; the example's own is a header of  *)
(* a single call's answer.                                                 *)
Answer(r) ==
  LET results == rpc[r].results
      mocked  == rpc[r].mocked
  IN /\ rpc[r].pc = "calling"
     /\ rpc[r].next > Len(rpc[r].entries)
     /\ rpc' = [rpc EXCEPT ![r].pc = "answered", ![r].answer =
          IF results = <<>> THEN Reply(204, <<>>, 0)
          ELSE IF rpc[r].batch THEN Reply(200, Marshalled(results), 0)
               ELSE Reply(200, Marshalled(<<results[1]>>), IF mocked = 200 THEN 0 ELSE mocked)]
     /\ UNCHANGED <<count, effects>>

Serve(r) ==
  EntryError(r) \/ UnknownCall(r) \/ CallBegin(r) \/ CallEnd(r) \/ Answer(r)

RpcNext == \E r \in Req : Serve(r) \/ \E body \in Body : Post(r, body)

RpcSpec == RpcInit /\ [][RpcNext]_rpcVars

-----------------------------------------------------------------------------
Items(r) == rpc[r].body.items

(* What JSON-RPC 2.0 and RS.JRP.18-23, 33 say of an item: its error or     *)
(* result, and nothing for a call without an id.                           *)
Owes(item) == item.shape = "call" => item.id = "given"

Owed(item, i) ==
  CASE item.shape = "no object" -> [code |-> Invalid, id |-> NullId]
    [] item.shape = "malformed" -> [code |-> Invalid, id |-> ErrorId(item, i)]
    [] item.shape = "nameless"  -> [code |-> ParseError, id |-> ErrorId(item, i)]
    [] item.shape = "call" ->
         [code |-> IF item.proc \notin DOMAIN Procedure THEN NotFound
                   ELSE IF Fails(item.proc) THEN Internal ELSE 0,
          id |-> i]

Upto(n) == [i \in 1 .. n |-> i]

(* The places of a body's items that pass a test, in their order. *)
PlacesOf(r, test) == Keep(Upto(Len(Items(r))), {i \in DOMAIN Items(r) : test[i]})

Owing(r) == PlacesOf(r, [i \in DOMAIN Items(r) |-> Owes(Items(r)[i])])

Expected(r) == [k \in DOMAIN Owing(r) |-> Owed(Items(r)[Owing(r)[k]], Owing(r)[k])]

Given(r) ==
  LET c == rpc[r].answer.content
  IN [i \in DOMAIN c |-> [code |-> IF c[i].kind = "error" THEN c[i].code ELSE 0, id |-> c[i].id]]

Bodiless(r) ==
  \E i \in DOMAIN Items(r) : /\ Items(r)[i].shape = "call" /\ Items(r)[i].id = "given"
                             /\ Items(r)[i].proc \in DOMAIN Procedure
                             /\ Procedure[Items(r)[i].proc].fate = "bodiless"

AnsweredBatch(r) == rpc[r].pc = "answered" /\ rpc[r].batch

(* The types; and RS.JRP.35-36: an example's status is never the answer's, *)
(* which is 200 or 204.                                                    *)
RpcTypeOK ==
  /\ \A r \in Req : /\ rpc[r].pc \in {"idle", "calling", "running", "answered"}
                    /\ rpc[r].next \in 1 .. Len(rpc[r].entries) + 1
                    /\ rpc[r].pc = "answered" =>
                         /\ rpc[r].answer.status \in {200, 204}
                         /\ rpc[r].answer.mocked # 200
  /\ \A p \in DOMAIN Procedure : count[p] \in Nat

(* RS.JRP.19-22, RS.JRP.33: a batch is answered with one entry for every   *)
(* call with an id and every malformed element, with its id and in its     *)
(* place, unless the example of one has no value; and with 204 if there is *)
(* none, 200 otherwise, whatever status the examples have.                 *)
BatchAnswered ==
  \A r \in Req : AnsweredBatch(r) =>
    /\ ~Bodiless(r) => Given(r) = Expected(r)
    /\ rpc[r].answer.status = IF Expected(r) = <<>> THEN 204 ELSE 200

EffectsOf(r) ==
  LET mine == Keep(effects, {r} \X Nat)
  IN [i \in DOMAIN mine |-> mine[i][2]]

(* Whether the item is a call of a procedure, and one that has an example. *)
Known(item) == item.shape = "call" /\ item.proc \in DOMAIN Procedure

Effective(item) == Known(item) /\ Procedure[item.proc].fate # "none"

(* RS.JRP.23-24, RS.JRP.33: every call that has an example takes effect    *)
(* exactly once and in its order, notifications and the neighbours of      *)
(* malformed or failing elements included, and nothing else does.          *)
CallsTakeEffect ==
  \A r \in Req : rpc[r].pc = "answered" /\ rpc[r].entries # <<>> =>
    EffectsOf(r) = PlacesOf(r, [i \in DOMAIN Items(r) |-> Effective(Items(r)[i])])

(* A call of a batch sees the state that the earlier calls of the batch    *)
(* have left, however other requests interfere.                            *)
BatchSeesItself ==
  \A r \in Req : \A j \in DOMAIN rpc[r].seen : \A k \in 1 .. j - 1 :
    LET calls == PlacesOf(r, [i \in DOMAIN Items(r) |-> Known(Items(r)[i])])
        item  == Items(r)[calls[k]]
    IN Effective(item) => rpc[r].seen[j][item.proc] > rpc[r].seen[k][item.proc]

(* RS.JRP.19: "the response is a JSON array of corresponding number of     *)
(* response envelopes with matching ids", whatever the examples are.       *)
BatchComplete ==
  \A r \in Req : AnsweredBatch(r) => Given(r) = Expected(r)

(* "error slots with no id produce no response entry".                     *)
NoEntryWithoutId ==
  \A r \in Req : AnsweredBatch(r) =>
    \A i \in DOMAIN rpc[r].answer.content : rpc[r].answer.content[i].id # NullId
=============================================================================
