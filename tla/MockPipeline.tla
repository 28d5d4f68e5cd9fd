---------------------------- MODULE MockPipeline ----------------------------
(***************************************************************************)
(* How a request is answered from the examples of a document: the OpenAPI  *)
(* pipeline (internal/server/server_http.go, engine.go) and its AsyncAPI   *)
(* twin (engine_async.go), over the state store and the one-time markers.  *)
(*                                                                         *)
(* A request copies its namespace first and evaluates everything against   *)
(* the copy.  It then reads markers, marks its example, writes the entries *)
(* of x-mock-set-state one by one in any order, generates the body and     *)
(* fires triggers, with no lock held in between.  Examples injected at     *)
(* run time are the subject of ExampleRegistry; here a request may be      *)
(* answered by one, which touches neither state nor triggers.              *)
(* Operators whose name starts with Faulty are deliberate misreadings.     *)
(***************************************************************************)
EXTENDS StateManager, Sequences, FiniteSets, Filter

CONSTANTS Req,       \* requests
          Prefix,    \* the namespace of each request's operation
          Async,     \* the requests that are AsyncAPI messages
          Example,   \* example keys
          Listed,    \* the examples of each request's operation, in order
          Skip,      \* examples with x-mock-skip
          Once,      \* examples with x-mock-once
          Match,     \* example -> what it demands of the state: key -> value
          SetState,  \* example -> what it writes: key -> entry
          Broken,    \* examples whose body cannot be evaluated
          Event,     \* events
          Trigger,   \* example -> the events it fires, a sequence
          None       \* no example, no answer

ASSUME PipelineAssumption ==
  /\ IsFiniteSet(Req)
  /\ Prefix \in [Req -> Namespace]
  /\ Async \subseteq Req
  /\ Skip \cup Once \cup Broken \subseteq Example
  /\ \A r \in Req : Listed[r] \in Seq(Example)
  /\ \A x \in Example : Trigger[x] \in Seq(Event)
  /\ None \notin Example

VARIABLES req,    \* the requests
          once,   \* exampleRegistry.onceExamples
          fired   \* the events that were fired, with the request

pipeVars == <<state, req, once, fired>>

Idle == [pc |-> "idle", snap |-> Empty, next |-> 1, open |-> {}, pick |-> None,
         todo |-> {}, done |-> {}, answer |-> None, body |-> Empty,
         before |-> {}]

PipeInit ==
  /\ Init
  /\ req = [r \in Req |-> Idle]
  /\ once = {}
  /\ fired = <<>>

Ended(r) == req[r].pc = "ended"

(* NewStateSource: the copy that all expressions of the request read.      *)
(* ("before" remembers which requests were over by then.)                 *)
Arrive(r) ==
  /\ req[r].pc = "idle"
  /\ req' = [req EXCEPT ![r].pc = IF r \in Async THEN "consider" ELSE "sorting",
                        ![r].snap = GetNamespace(Prefix[r]),
                        ![r].before = {q \in Req : Ended(q)}]
  /\ UNCHANGED <<state, once, fired>>

(* An injected example, or no response or no examples at all: answered     *)
(* without any of the steps below.                                         *)
AnswerOtherwise(r) ==
  /\ req[r].pc \in {"sorting", "consider"} /\ req[r].next = 1
  /\ req' = [req EXCEPT ![r].pc = "ended", ![r].answer = "other"]
  /\ UNCHANGED <<state, once, fired>>

HasMatch(x) == DOMAIN Match[x] # {}
Matches(x, snap) == \A k \in DOMAIN Match[x] : Lookup(snap, k) = Match[x][k]

(* shouldSkipExample: x-mock-skip, or a marker that is set by now. *)
Passed(x) == x \in Skip \/ x \in Once \cap once

(* categorizeExamples reads the marker of one example after the other. *)
Categorize(r) ==
  LET i == req[r].next
      x == Listed[r][i]
  IN /\ req[r].pc = "sorting"
     /\ i <= Len(Listed[r])
     /\ req' = [req EXCEPT ![r].next = i + 1,
                           ![r].open = IF Passed(x) THEN @ ELSE @ \cup {x}]
     /\ UNCHANGED <<state, once, fired>>

First(r, S) ==
  LET i == CHOOSE i \in DOMAIN Listed[r] :
             Listed[r][i] \in S /\ \A j \in 1 .. i - 1 : Listed[r][j] \notin S
  IN Listed[r][i]

(* selectExample prefers the examples whose conditions hold to those       *)
(* without conditions.                                                     *)
Bucket(r) ==
  LET matched == {x \in req[r].open : HasMatch(x) /\ Matches(x, req[r].snap)}
  IN IF matched # {} THEN matched ELSE {x \in req[r].open : ~HasMatch(x)}

(* Marks nothing. *)
FaultyMarkNone(x) == once

(* markOnceUsed, for an example with x-mock-once. *)
Marked(x) == once \cup ({x} \cap Once)

(* selectFromBucket marks the example it returns; without one the answer   *)
(* is 501.                                                                 *)
SelectExample(r) ==
  LET x == First(r, Bucket(r))
  IN /\ req[r].pc = "sorting"
     /\ req[r].next > Len(Listed[r])
     /\ IF Bucket(r) = {}
        THEN /\ req' = [req EXCEPT ![r].pc = "ended", ![r].answer = "none"]
             /\ UNCHANGED once
        ELSE /\ req' = [req EXCEPT ![r].pc = "writing", ![r].pick = x,
                                   ![r].todo = DOMAIN SetState[x]]
             /\ once' = Marked(x)
     /\ UNCHANGED <<state, fired>>

(* SelectAsyncExample looks at one example after the other and stops at    *)
(* the first that is neither passed over nor has conditions that fail.     *)
ConsiderAsync(r) ==
  LET i == req[r].next
      x == Listed[r][i]
  IN /\ req[r].pc = "consider"
     /\ IF i > Len(Listed[r])
        THEN req' = [req EXCEPT ![r].pc = "ended", ![r].answer = "none"]
        ELSE IF Passed(x) \/ ~Matches(x, req[r].snap)
             THEN req' = [req EXCEPT ![r].next = i + 1]
             ELSE req' = [req EXCEPT ![r].pc = "marking", ![r].pick = x]
     /\ UNCHANGED <<state, once, fired>>

MarkAsync(r) ==
  /\ req[r].pc = "marking"
  /\ once' = Marked(req[r].pick)
  /\ req' = [req EXCEPT ![r].pc = "writing", ![r].todo = DOMAIN SetState[req[r].pick]]
  /\ UNCHANGED <<state, fired>>

(* An entry that is no increment: null deletes, a value or an object with  *)
(* a value is set, possibly from an expression over the copy (null if the   *)
(* key is missing there); a key or a delta that cannot be evaluated is    *)
(* left out.                                                               *)
WriteOther(ns, k, entry, snap) ==
  \/ entry.op = "delete" /\ Delete(ns, k)
  \/ entry.op = "set" /\ Set(ns, k, entry.value)
  \/ entry.op = "copy" /\ Set(ns, k, Lookup(snap, entry.from))
  \/ entry.op = "invalid" /\ UNCHANGED state

(* Adds to the value that the request copied when it arrived. *)
FaultyWriteFromCopy(ns, k, entry, snap) ==
  \/ entry.op = "increment" /\ Set(ns, k, Incremented(Lookup(snap, k), entry.n))
  \/ WriteOther(ns, k, entry, snap)

(* An increment is added to the live value, under the store's mutex. *)
WriteEntry(ns, k, entry, snap) ==
  \/ entry.op = "increment" /\ Increment(ns, k, entry.n)
  \/ WriteOther(ns, k, entry, snap)

(* ApplySetState ranges over a map: one entry after the other, in any      *)
(* order, each under the mutex of the store.                               *)
ApplySetState(r, k) ==
  /\ req[r].pc = "writing"
  /\ k \in req[r].todo
  /\ WriteEntry(Prefix[r], k, SetState[req[r].pick][k], req[r].snap)
  /\ req' = [req EXCEPT ![r].todo = @ \ {k}, ![r].done = @ \cup {k}]
  /\ UNCHANGED <<once, fired>>

(* The values of expressions in the body and in headers. *)
Evaluated(r) == req[r].snap

(* generateResponse or RenderAsyncPayload: answers 500 if the body cannot  *)
(* be evaluated.  Only OpenAPI examples have triggers.                     *)
Generate(r) ==
  /\ req[r].pc = "writing"
  /\ req[r].todo = {}
  /\ IF req[r].pick \in Broken
     THEN req' = [req EXCEPT ![r].pc = "ended", ![r].answer = "error"]
     ELSE req' = [req EXCEPT ![r].pc = IF r \in Async THEN "ended" ELSE "firing",
                             ![r].next = 1,
                             ![r].answer = "example", ![r].body = Evaluated(r)]
  /\ UNCHANGED <<state, once, fired>>

(* Stops one trigger short of the list. *)
FaultyFireTrigger(r) ==
  LET events == Trigger[req[r].pick]
      i      == req[r].next
  IN /\ req[r].pc = "firing"
     /\ IF i < Len(events)
        THEN /\ fired' = Append(fired, [by |-> r, event |-> events[i]])
             /\ req' = [req EXCEPT ![r].next = i + 1]
        ELSE /\ req' = [req EXCEPT ![r].pc = "ended"]
             /\ UNCHANGED fired
     /\ UNCHANGED <<state, once>>

(* fireExampleTriggers, then the response is written. *)
FireTrigger(r) ==
  LET events == Trigger[req[r].pick]
      i      == req[r].next
  IN /\ req[r].pc = "firing"
     /\ IF i <= Len(events)
        THEN /\ fired' = Append(fired, [by |-> r, event |-> events[i]])
             /\ req' = [req EXCEPT ![r].next = i + 1]
        ELSE /\ req' = [req EXCEPT ![r].pc = "ended"]
             /\ UNCHANGED fired
     /\ UNCHANGED <<state, once>>

Step(r) ==
  \/ Categorize(r)
  \/ SelectExample(r)
  \/ ConsiderAsync(r)
  \/ MarkAsync(r)
  \/ \E k \in req[r].todo : ApplySetState(r, k)
  \/ Generate(r)
  \/ FireTrigger(r)

PipeNext == \E r \in Req : Arrive(r) \/ AnswerOtherwise(r) \/ Step(r)

PipeSpec == PipeInit /\ [][PipeNext]_pipeVars

-----------------------------------------------------------------------------
(* Type correctness of the requests and of the store below them. *)
PipeTypeOK ==
  /\ DOMAIN state \subseteq Namespace
  /\ once \subseteq Once
  /\ \A r \in Req :
       /\ req[r].pc \in {"idle", "sorting", "consider", "marking", "writing",
                         "firing", "ended"}
       /\ req[r].pick \in Example \cup {None}
       /\ req[r].open \subseteq Example \ Skip
       /\ req[r].done \cap req[r].todo = {}

(* Whether a key of a namespace only ever counts requests, and which.      *)
OnlyIncremented(ns, k) ==
  \A r \in Req : Prefix[r] = ns =>
    \A i \in DOMAIN Listed[r] :
      k \in DOMAIN SetState[Listed[r][i]] => SetState[Listed[r][i]][k] = [op |-> "increment", n |-> 1]

Writers(ns, k) == {r \in Req : Prefix[r] = ns /\ k \in req[r].done}

(* RS.MSC.22, RS.MSC.26: a counter holds the number of requests that have  *)
(* counted, whatever else they and the requests of other schemas do        *)
(* meanwhile: no increment is lost.                                        *)
CountersExact ==
  \A ns \in Namespace, k \in Key : OnlyIncremented(ns, k) =>
    Get(ns, k) = IF Writers(ns, k) = {} THEN Absent ELSE Number(Cardinality(Writers(ns, k)))

(* RS.EXT.4-6 "can be used later in conditions": a request that arrives    *)
(* after another was answered sees what that one has counted, and is not   *)
(* given the one-time example that it was given.                           *)
LaterSeesEarlier ==
  \A r \in Req :
    LET past == {q \in req[r].before : req[q].pick # None}
    IN /\ req[r].pick \notin Once \cap {req[q].pick : q \in past}
       /\ \A k \in Key : OnlyIncremented(Prefix[r], k) =>
            Lookup(req[r].snap, k).n >=
              Cardinality({q \in past : Prefix[q] = Prefix[r]
                                         /\ k \in DOMAIN SetState[req[q].pick]})

(* What a request has fired, in order, and its first n events.             *)
FiredBy(r) == Keep(fired, [by : {r}, event : Event])

Told(r, n) == [i \in 1 .. n |-> [by |-> r, event |-> Trigger[req[r].pick][i]]]

(* Events tell of responses: an event is fired at most once per trigger    *)
(* and request, after all of the request's state is written, and a request *)
(* that is answered with an error fires none.                              *)
EventsFollowState ==
  /\ \A i \in DOMAIN fired :
       LET q == req[fired[i].by]
       IN q.answer = "example" /\ q.done = DOMAIN SetState[q.pick]
  /\ \A r \in Req : Ended(r) /\ req[r].answer = "example" /\ r \notin Async =>
       FiredBy(r) = Told(r, Len(Trigger[req[r].pick]))

(* RS.MSC.12, RS.ATM.10: a one-time example is removed from future         *)
(* consideration when it is selected.                                      *)
OnceSelectedOnce ==
  \A x \in Once : Cardinality({r \in Req : req[r].pick = x}) <= 1

(* "triggered whenever that example is selected for a response": a request *)
(* that selected an example has fired its triggers when it is over.        *)
SelectedExampleFires ==
  \A r \in Req : Ended(r) /\ r \notin Async /\ req[r].pick # None =>
    \A i \in DOMAIN Trigger[req[r].pick] :
      \E j \in DOMAIN fired : fired[j] = [by |-> r, event |-> Trigger[req[r].pick][i]]
=============================================================================
