# A TLA+ verification of oasmock

oasmock is a mock server for OpenAPI and AsyncAPI documents: it answers HTTP
requests, JSON-RPC calls, WebSocket messages and SignalR invocations with the
examples of the documents, keeps state between them, fires events, pushes
messages to consumers, and is steered at run time through `/_mock/...`. All of
this runs in goroutines that share a handful of registries. This directory holds
TLA+ modules of those registries and of the handlers that use them, the TLC
configurations that check them, and TLAPS proofs of what matters most.

Every definition that models code is listed under `map` in `PROJECT.json` with
the lines it stands for. Operators named `Faulty...` are deliberate misreadings
of the code: `mutants` in `PROJECT.json` pairs each property with those that it
rejects. The specifications do not use them.

## 1. Inventory

Paths are relative to `src/internal/` unless they say otherwise.

| Component (source) | State | Operations | Hard behaviour | What makes it correct |
|---|---|---|---|---|
| Ring buffer (`history/history.go`) | array, head, tail, count | Add, GetAll, Clear | wrap-around; full looks like empty | GetAll is the newest `Capacity` records since Clear |
| History middleware, `GET /_mock/requests` (`server/server_http.go`, `server_requests.go`) | `nextRequestID`, the buffer | record a request, list with filters and pages | the record is added when the handler has returned, so concurrent requests add in another order than they came | the history is exactly the newest completed requests; pages partition it |
| Interval scheduler (`eventbus/scheduler.go`) | `jobs`, a stop channel and a goroutine per job | Add, Cancel, Shutdown, Run | cancellation between two selects; panicking deliveries; replaced ids | a stop channel is closed once; a stopped job delivers at most once more and ends |
| Dynamic examples (`server/registry.go`) | `dynamicExamples`, `onceExamples` | add, remove, sweep, select | selection walks a slice that removal filters in place; check-then-mark | the slice is the registered examples in order; undisturbed selections take the first match |
| Event driver (`eventbus/broker.go`, `server/event_server.go`, `message_delivery.go`, `server_runtime_example.go`) | `byEvent`, jobs, `runtimeExamples`, delayed goroutines | POST and DELETE of examples, fire, delayed emission, shutdown | delays that outlive their subscriptions; two registries changed one after the other; shutdown in three steps | each standing subscriber in scope is emitted once; a deleted one is silent; every goroutine ends |
| Recipients of an event (`server/message_delivery.go`, `extensions/match.go`) | connected consumers, the state | deliverExample | conditions are evaluated in two phases on copies of different age | the pushed-to consumers are the ones the whole match means |
| Registration of triggers (`server/event_server.go`, `extensions/classify.go`) | broker, jobs | registerEventSubscriptions per schema | a fault late in a document; identifiers of unnamed examples | a document with a fault that is refused registers nothing, a good one everything |
| SignalR hubs (`server/signalr_*.go`, `hubmanager.go`, `management_async.go`) | tokens, connections, streams | negotiate, upgrade, handshake, stream, invoke, cancel, push, disconnect | frames are written outside the mutex; connections are known before their handshake | ids are unique; no item twice; open streams are not missed; lost connections leave |
| State store (`state/state.go`) | namespace -> key -> value | Set, Get, Increment, Delete, ClearNamespace | namespaces appear with the first key and go with the last | it is a store of one value per namespace and key |
| Mock pipeline (`server/engine*.go`, `server_http.go`) | the state store, once-markers, fired events | match, mark, set-state, render, trigger | each request reads a copy of the state and writes key by key | counters are exact; events follow the state; later requests see earlier ones |
| Raw WebSocket consumers (`server/ws_adapter.go`, `management_async.go`) | `byID`, `byChan`, read deadlines | connect, answer, push, delayed push, disconnect | several writers on a socket; deadlines; management races | pushes reach the right consumers once; answers keep their order; gone consumers leave |
| Management stream (`server/manage_ws.go`) | subscribers with filters | subscribe, broadcast, ping | a broadcast goes to a copy of the subscribers; pings do not help | complete, ordered and duplicate-free per emitter; idle subscribers are removed |
| JSON-RPC gateway (`server/jsonrpc*.go`) | none of its own | single and batch calls | elements of a batch fail in different ways | every call takes effect once and in order; the answer has the entries it owes |
| Conditions and responses (`runtime/expression.go`, `extensions/match.go`, `server/engine_expr.go`, `engine.go`) | the schema cache: a map and an insertion list; the header maps of dynamic examples | evaluate an expression, match, look up and compile a schema, fill body and headers | conditions in the random order of a map; escapes; braces; compilation outside the lock; header maps shared by all requests | an example matches exactly if each of its conditions holds; an answer is its template filled from its own request; the cache holds the newest schemas |
| Loading and routing (`loader/router.go`, `rpc.go`, `asyncapi/parse.go`, `server/server_routes.go`, `server.go`) | the documents, route mappings, procedures, hubs, the router | LoadSchemas, New, setupRouter | four places compute the address of a channel; faults late in a list of documents; procedures, hubs and routes on one path | no server from a schema that is refused, no failure without a fault; the addresses agree; an event stays in its schema |
| Adding examples (`server/server_management.go`) | the registry or the event driver | POST /_mock/examples | the target is found by another rule than the handler uses | an accepted example is kept where a handler looks |
| Server lifecycle and command line (`server/server.go`, `src/cmd/oasmock/`) | the main goroutine, Serve, the signal channel, the drain | resolve the settings, Listen, Serve, Shutdown, exit | the event driver stops before the HTTP server; signals at any time; clients that never end | the exit code tells what happened; a signal ends the process; what is under way settles |
| Extension readers (`extensions/extract.go`, `example_value.go`), mapping of AsyncAPI documents, adapters and payload encoding, control-schema generator, vendored go-asyncapi | | | copying of fields, encoding, or build-time code | not modelled, see section 8 |

How the parts meet: an HTTP request or a message goes through the pipeline, which
reads and writes the state store, takes dynamic examples from the registry, and
fires triggers on the event driver. The driver resolves subscribers in the
broker and emits each, at once or after a delay; an emission picks its recipients
and pushes to them through the WebSocket adapter or a SignalR hub. The scheduler
emits periodic examples the same way. The adapters report connections, messages
and pushes to the management stream. The history middleware wraps all of HTTP.
The shared state is behind one mutex per registry, and **no operation holds two
of them**: the interleavings between two locks of one operation are what
the models are about.

Every place where this can go wrong is listed in `hazards` of `PROJECT.json`, with
the properties that would catch it.

## 2. Modules

```
BoundedLog <-refines- RingBuffer <-extends- RequestHistory      HistoryProofs
StateStore <-refines- StateManager <-extends- MockPipeline      PipelineProofs
EventDriver <-extends- ServerLifecycle                          ServerLifecycleProofs
ExampleRegistry                                                 ExampleRegistryProofs
TriggerSetup, Routing <-extends- Startup                        ExampleRegistryProofs
Scheduler                                                       ComponentProofs
SchemaCache, Expression <-extends- Matching                     ComponentProofs
EventDelivery                                                   ServerLifecycleProofs
JsonRpc                                                         ComponentProofs
Glob, WebSocket <-extends- ManageStream <-extends- WsAdapter    ConsumerProofs
SignalRHub                                                      SignalRProofs
Filter: what a loop that filters keeps, in most of the above    FilterProofs
```

`BoundedLog` and `StateStore` say what a component promises and nothing else. The
`...Proofs` modules hold the theorems of the modules to their left and of those that
these extend. The `MC...` modules define constants for TLC and, where section 4 says so, a bound on
what the environment asks in one behaviour; `Glob` states next to the walk of the code
what a pattern denotes, and `ws_adapter` compares the two.

| Module | Variables and the fields they stand for | Actions and their code |
|---|---|---|
| RingBuffer | `records`, `head`, `tail`, `count` of RingBuffer | `NewRingBuffer`, `Add`, `Clear`: one each, all under the mutex; `GetAll` is an operator |
| RequestHistory | `pc`, `start`, `rid` per request, `nextRequestID`, `clock`, `answer` | middleware: `Arrive`, `ServeOther` or `handleGetRequests`, `TakeID`, `RecordRequest`; `ClearHistory` at any point |
| Scheduler | `jobs`, `closes` (closings of a stop channel), `pc`, `ticked` (the one-place channel of a ticker) | `Add`, `Cancel`, `Shutdown`; `Run` (its two selects), `DeliverReturns`, `DeliverPanics` with the recover |
| ExampleRegistry | `heap` and `slice` (Go arrays and slice headers), `once`, `addedAt`, `remover`, `sel` | `addDynamic`, `removeDynamic` with a `RemoveStep` per element and `RemoveEnd`, `sweepExpired`, and the steps of `selectDynamic`, in which copying an element is two reads |
| EventDriver | `byEvent`, `jobs`, `runtimeExamples`, `client` (POST and DELETE in progress), `fire` (fires and their emissions), `shutdown`; of a job only its place in the scheduler | `Post...`, `Delete...`, `JobPanics` (the recover of a periodic delivery), `FireBegin`, `FireStep`, `EmissionStep`, timers, `ShutdownJobs`, `ShutdownDelivery`, `StopBroker` |
| EventDelivery | `connected`, `owner` (the state), `em` | `deliverExample` step by step against `Connect`, `Disconnect`, `RequestSets` |
| TriggerSetup | `schema`, `next`, `subs`, `periodic`, `broker`, `jobs` | `Classify`, `AddSubscriptions`, `registerPeriodic`, `NextSchema` |
| SignalRHub | `idSeq`, `tokens`, `conns`, `streams`, `pc`, `id`, `sock`, `frames`, `push` | `Negotiate`, `consumeToken`, `freshToken`, `register`, `ConnectHook`, `Handshake`, `StreamSnapshot`, `Answer`, `CancelStream`, `ConnStep`, `Disconnect` in its two steps (`DisconnectClose` of the socket, `DisconnectUnregister`), `SignalRPush`, `Candidates`, `PushStep` |
| StateManager | `state` | `Set`, `Increment`, `Delete`, `ClearNamespace` |
| MockPipeline | `state`, `once`, `fired`, `req` | `Arrive` (copies the state), then a `Step` for selection, marker, each set-state entry, rendering and triggers |
| WebSocket | `sock`: open or not, queued input, idle time, output | (external: gorilla/websocket as the code uses it) |
| ManageStream | `subs`, `handler`, `cast`; `emitted` and `since` are history variables | `handleManageStream`, broadcasts, `servePings`; `Glob` is the filter |
| WsAdapter | `byID`, `byChan`, `autoID`, `pc`, `id`, `message`, `call`, `down` | `Handler` per connection, `Management` per call (push, delayed push, disconnect), `Shutdown` |
| JsonRpc | `rpc`, `count`, `effects` | `Post`, `Serve` (one element, or the answer) |
| SchemaCache | `store`, `order`, `call` | `Ask`, `Get`, `Compile`, `Put` |
| Expression | none: pure operators on texts of tokens and JSON values | `splitEscapedPath`, the `...Get` of the sources, `Evaluate`, `equalJSON`, `replaceEmbeddedExpressions`, `evaluateValue`, `resolveHeaderValue` |
| Matching | `scene` (requests and examples, fixed), `req`, `shared` (the registry's header maps), `fatal` | `MatchCondition`, `SchemaStep` (the cache's), `SchemaVerdict`, `GenerateBody`, `ReadHeader`, `WriteHeader`, `MapRace`, `Respond` |
| Routing | none: pure operators on schemas and paths | `validate`, `BuildRouteMappings`, `rpcMappings`, `hubs`, `setupRouter`, `channelPrefix` |
| Startup | `stage`, `added`, and the variables of TriggerSetup | `LoadSchemas`, `BuildRpc`, `BuildRoutes`, `RegisterEvents` (a step of TriggerSetup), `SetupRouter`; `AddExample` |
| ServerLifecycle | `main`, `serve`, `sigChan`, `slow`, `code`; `cause` is a history variable; the variables of EventDriver | the steps of runMock and Shutdown: `Configure` ... `Notify`, `SelectSignal`, `StopEvents`, `StopHTTP`, `Drained`, `DrainTimesOut`; `Signal`, `ServeFails`, `SlowBegins`; requests and goroutines are those of EventDriver |

Variables whose comment says "history variable" record what a property compares
with and never guard an action.

Conventions. A method that holds its mutex throughout is one action. A method
that takes several locks, or does I/O between them, has one action per section.
A Go `select` with two ready cases is a nondeterministic choice. A
client is an environment that may connect, send, leave or keep silent. Payloads
are model values; outside `Matching`, which evaluates them, conditions are predicates
on the state they read. `Matching` and `MCMatching` begin with what an author means (a
source, keys, a modifier) and spell it out as the text that the code reads; the
properties compare what the code makes of the text with what was meant.

## 3. Runs

| Run | What it shows |
|---|---|
| `request_history` | The ring buffer implements `BoundedLog` through wrap-around and Clear (`ImplementsBoundedLog`); the history is exactly the newest completed requests (`ExactlyNewestCompleted`), and successive pages list each record once (`PagesPartition`). |
| `scheduler` | A job is registered with an open stop channel or unregistered with one that was closed once (`RegisteredIffOpen`); at most one late delivery (`AtMostOneLateDelivery`); a stopped job's loop ends (`StoppedJobEnds`) and a registered one keeps delivering (`RegisteredJobKeepsDelivering`). |
| `scheduler_panic` | Violated: the recover of a replaced job cancels its replacement, section 7. |
| `example_registry` | The slice holds the live examples in order although arrays are shared and filtered in place (`SliceHoldsLive`); no example deleted before a request began is served to it, and a selection that no deletion disturbs finds the first match and, if that is a one-time example, leaves it used for as long as it is registered (`SelectionIsSound`); expired examples are swept (`ExpiredIsSwept`). |
| `server_lifecycle` | From its arguments to its exit, with POST, DELETE, events, a slow client, a failing Serve and signals at any point: broker, jobs and runtime ids agree, but for a job whose delivery panicked (`RegistriesInStep`); one emission per standing subscriber in scope, none for a deleted one (`EmittedOnceInScope`); nobody is lost (`NoSubscriberLost`); the exit code names the fault, and 0 means that every request was answered (`ExitCodeTells`); fires and their goroutines end, also those that begin during the drain (`EventsSettle`); a signal ends the process (`SignalEndsProcess`). |
| `event_delivery` | The two-phase match reaches the consumers that the whole match means, once (`RightRecipients`). |
| `startup` | No server is built from a schema with a fault that is refused (`Refused`), and none is given up without a fault of some schema (`Refused` or `Overlooked`; section 7 has what is overlooked); a server has every trigger registered, a refused document leaves nothing (`BuiltUnlessFaulty`). Route, event, hub and management API compute one address, for every spelling of prefix and address but a bare slash as prefix (`SpellingsAgree`); an event is heard in the schema of its channel (`OwnSchemaHears`); an added example is stored where a registered handler looks (`ExamplesFindTheirHandler`). |
| `signalr_hub` | The snapshot item precedes pushes (`SnapshotComesFirst`); a token binds one connection, no item comes twice on a stream, and a stream that is open throughout a push receives it unless its client used the id for another stream meanwhile (`StreamsReceiveOnce`); lost connections leave the registry (`LostConnectionIsUnregistered`). |
| `mock_pipeline` | Counters are exact (`CountersExact`); events follow the state (`EventsFollowState`); later requests see earlier ones (`LaterSeesEarlier`); under concurrent handlers the nested maps implement `StateStore` (`ImplementsStateStore`). |
| `ws_adapter` | Answers keep their order (`AnsweredInOrder`); a push reaches the right consumers once (`PushReachesOnce`); the registry and the lives that the stream reported agree (`ConnectedMeansListed`); the stream gives each subscriber every notification it asked for and, but for those with an empty channel (section 7), no other, in the order of each emitter (`StreamComplete`); globs are decided correctly (`GlobAgrees`); who leaves or falls silent is removed (`ConnectionsAreReaped`). |
| `json_rpc` | Every body is answered with the entries it owes (`BatchAnswered`); every call takes effect once and in order (`CallsTakeEffect`); a call sees the earlier calls of its batch, whatever other requests do (`BatchSeesItself`). |
| `matching` | In whatever order the conditions are taken, an example matches if and only if each of them holds, as the documents mean it, of what it refers to, and one that cannot be evaluated does not; references that cannot be spelled plainly and four cases in which the code departs from the documents are excepted by name (`MatchMeansAll`); a body, keys included, is its template filled from its own request, and so are the headers of a static example (`AnswerIsOwn`), while each part of a dynamic one's is filled from some request that it answers, as long as nothing that is filled in looks like an expression (`HeadersAreGathered`; both are `ResponseIsOwn`); list and map of the cache agree within the bound and hold the newest schemas (`CacheHoldsNewest`). |

Each module also states a type invariant, which documents its variables. Those of
all modules with a proof module are proved (section 6). The others hold in the runs
when they are named in the cfg.

`request_history` and `scheduler` never rest and are checked for deadlock. The other
cfgs say `CHECK_DEADLOCK FALSE`: requests, connections and calls are finite
in number, and when all are served and everybody has left the system rests.

## 4. Bounds, and why they are enough

Where many things may meet, bounding each of them separately is either too large
or too small. `MCExampleRegistry`, `MCServerLifecycle`, `MCSignalRHub`,
`MCMockPipeline` and `MCWsAdapter` therefore bound the *sum* of what the environment asks in one
behaviour (`Load`, `MaxArrived`): any combination of requests, connections,
deletions, pushes, departures and seconds up to that number, at any time.
The steps by which the server answers are never bounded, so liveness is not
affected: no step of the server raises the load.

* `request_history`: capacity 2 with 3 requests, the third of them listing, and Clear at any
  point: every position of head and tail, partial, full, overwritten and
  cleared buffers. `MaxPage` 1 stands for the limit of 1000, so a history longer
  than a page exists; `MaxTime` 1 separates times. The ring buffer's proofs
  cover every capacity.
* `scheduler`: 3 jobs on 2 ids, so a job is replaced while another runs; proof for
  any number.
* `example_registry`: a one-time example that expires, a conditional and a plain one,
  2 requests, load 4: two POSTs, a DELETE and a selection; two selections that race
  for the one-time example before or after its expiry. 4 addresses let every
  `append` allocate.
* `server_lifecycle`: a document example, a wildcard with a delay, a named and a
  periodic one, two schemas, one fire, one slow client, load 3: a fire with POST and
  DELETE of an example or with two POSTs, all of it before, during and after the
  shutdown. The periodic one may panic in a delivery. Two fires share only the broker, which each reads once. The settings
  are all counts of flags up to two and all numbers around their limits.
* `event_delivery`: 3 consumers on 2 channels and one example per kind of
  condition. 
* `signalr_hub`: 2 clients of a hub with 2 channels, 2 invocations, 1 push, load 4: two
  connections with a stream and a push, or one with two streams (of one channel or two,
  under one id or two), a push and a disconnection.
  `MaxToken` and `MaxSent` bound tokens and client frames.
* `mock_pipeline`: any 3 of 3 requests and 2 messages, of two schemas, with examples
  that between them have conditions, one-time markers, all kinds of state
  entries, events and a body that cannot be evaluated. `MaxNumber` bounds numbers,
  which the code keeps as `float64`.
* `ws_adapter`: 3 consumers on 2 channels, 2 subscribers with one filter each, the event
  bus, 1 management call, load 3: a push or a disconnection meets two consumers,
  or one that leaves, is silent or sends; a broadcast meets two subscribers.
  `IdleBound` is the read deadline in ticks; `MaxIn` and `MaxEmitted` bound messages
  of a client and events. Some notifications have the empty channel of a hub. `GlobAgrees` takes patterns of up to 5 and values of
  up to 4 characters over two letters and the star: prefix, suffix and two inner
  segments that may overlap.
* `json_rpc`: every body of up to 3 elements of every shape, alone; two requests of 3
  calls each for the interleavings.
* `startup`: two documents, the second with up to two examples of every kind, a periodic one
  with a bad delay and event names that are no text among them; documents with every fault,
  of versions 2, 3.0, 3.1 and 3.2; an AsyncAPI document with a ws channel, an http
  channel or a hub beside an OpenAPI one, with five spellings of the prefix; two
  OpenAPI documents with procedures, sound, bad and incomplete, under a gateway that is rooted,
  relative, ends in a slash or is only one. `MaxAdded` 1: an added example does not change
  where the next one goes. `Spelling` has all texts of up to four slashes and
  segments, which is enough for two slashes at each end.
* `matching`: conditions with every pair of an expression and a value, over the
  sources of a request, an event and a message, with empty values behind a default, a path
  to the last item of a list, a schema for numbers on a parameter and `{$message.header.a}`; templates of up to three parts;
  three requests with all combinations of four schemas, one of which does not
  compile, on a cache of two (evictions between a miss and its put; the proof
  covers any number), one of them with two schemas; two requests that one example answers,
  with a header that can be filled in part for one of them; an empty body. Headers with
  several values (`resolveSliceHeader`) are in `Expression` but in no run. `MaxDepth` 4 stands for
  256 and is deeper than the templates.

## 5. Fairness

Assumed only of what the program or its runtime does by itself, never of users:
nobody is obliged to connect, send, leave, fire, register, cancel or shut down.

* Scheduler: a runnable goroutine runs, a ticker ticks, and a delivery returns or
  panics (its writes have deadlines).
* ExampleRegistry: the sweep runs again and again (a ticker); a removal that
  holds the lock finishes.
* ServerLifecycle: as long as some goroutine of the process can run or some timer
  can elapse, the ten seconds of the drain included, something of that happens
  (`WF(ServerStep)`). This is weaker than fairness to each goroutine. No client is
  obliged to end its request.
* SignalRHub: a connection's goroutine proceeds; a read on a socket that is not
  open fails (the idle bound or the close); writes of a push end (10 s deadline).
* WsAdapter: as long as a handler, a management call or a broadcast that has begun can
  go on, or a deadline can come nearer, something of that happens (`Running`). This
  is weaker than fairness to each goroutine, and enough.

All of it is weak fairness: each of these steps stays enabled until it is taken.

## 6. Proofs

Checked by TLAPS for every value of the constants that satisfies the named
assumptions: any number of requests, examples, jobs and calls, any capacity, any
documents. All safety invariants that `request_history`, `scheduler`,
`example_registry`, `server_lifecycle`, `mock_pipeline`, `ws_adapter`,
`signalr_hub`, `event_delivery`, `json_rpc`, `startup` and `matching` check are proved,
and so are the two refinements.

* `FilterProofs`. What `Keep` (the code's filter loops) returns: the empty sequence,
  an appended element, the range, order and distinctness. There is no
  induction rule with a predicate to cite, so the lemmas about sequences go through
  `SeqInduction`: a *set* of sequences that has the empty one and every extension
  of its members is the set of all. `Keep` is a recursive function over positions
  for the same reason; nothing is known of the library's `SelectSeq`.
* `HistoryProofs`, from `CapacityAssumption` (a natural number, zero included),
  `NoRecordAssumption`, `ReqAssumption` (finitely many requests) and
  `RecordAssumption`. `IndicesConsistent`: tail is `count` slots after head modulo the
  capacity and the slots between hold records, which is what makes a full and an
  empty buffer distinguishable. `RingBufferRefinesLog` uses it: `Add` appends to what
  `GetAll` shows and drops the first if the buffer is full. `HistoryIsNewest`
  (`ExactlyNewestCompleted`) needs more: `HistoryInv` adds that ids are distinct
  numbers up to the counter (`IdInv`), that the places in `recordedAt` are 1 to their number
  (`PlaceInv`), and that the buffer is the tail of the records in that order (`Holds`).
  Then the newest `Capacity` places are the buffer, for any order in which
  requests finish. `HistoryRefinesLog`: the middleware uses the buffer in no other
  way than the log allows. `PagesCoverTheHistory` (`PagesPartition`): page k ends at the
  lesser of k steps and the number of records found (`PageEnd`), where the next begins
  (`PageEnds`, `PageIsSlice`), so that the first k pages are the records up to there
  (`PagesJoin`); the history never holds more records than there are pages.
* `ComponentProofs`: four components that share nothing. Of `Scheduler`, from
  `IdOfAssumption` and `NoJobAssumption`: the inductive invariant is `TypeOK /\
  RegisteredIffOpen /\ AtMostOneLateDelivery`, with `TypeCorrect`, `StopClosedExactlyOnce`
  (a second close would panic the process) and `OneLateDelivery`: after the channel
  is closed the loop can pass only the second select, since the first sees the closing.
  Of `SchemaCache`, from `CacheAssumption`: `CacheTypeOK /\ OrderIsStore /\
  OldestIsEvicted`. `CacheConsistent` needs that the length of the list is the
  cardinality of the map's keys, or the bound test, which looks at the list, would not
  bound the map. `EvictsOldest`: `CacheHoldsNewest`, the list is the tail of the puts.
  Of `JsonRpc`, from `JsonRpcAssumption` (the forms of a body and of its items; an object
  is one item): `RpcTypes`, `EveryCallTakesEffect` (`CallsTakeEffect`), `BatchSeesWhatItDid`
  (`BatchSeesItself`) and `BatchIsAnswered` (`BatchAnswered`). `RpcInv` says of every request,
  at every item, that results, effects and sights are functions of the places that
  it has dealt with: `PlacesNext` and `PlacesPrefix` say how those grow by one
  item. The only thing that another request can change under it is the count of a procedure,
  which grows.
  Of `Matching`, from `TokenAssumption`, `ValueAssumption` (JSON values are made of texts and
  JSON values), `ObjectAssumption`, `DepthAssumption` (some nesting is evaluated) and
  `SceneAssumption` (references, conditions and templates as an author can write them, sources by
  their Go types):
  `MatchingMeansAll` (`MatchMeansAll`), for every set of examples, sources, schemas and requests, of
  references that `PlainCondition` allows: with no modifier, `default` or `getByPath` (not `toJWT` or an
  unknown one), with keys that can be spelled (`PlainKeys`), and on which code and documents
  agree (`Undisputed`, `TypedParameter`, `Reaches`). `Meaning` is read off the documents, so that these exceptions
  are what the code does otherwise, and section 7 names each. The proof goes
  from text to meaning and back. `SpellParsed`: what the evaluator cuts out of a reference as
  written, its source, path and modifier, is what was meant. `SplitDotted`: reading a path back character by
  character gives the keys that were escaped, since a backslash stands before a dot
  exactly where a dot belongs to a key. `HadIsWalk`: every `...Get` finds what a walk
  along the keys finds. Together they are `EvaluateMeans`, and `SidesMean` and
  `VerdictMeans` say it of the two sides of a condition. `MatchInv` then holds of
  every request that the conditions it has looked at hold, but for one whose schema the cache has been
  asked for (`Awaits`). `MatchingUsesTheCache`: to the cache the requests are its
  callers, so that `EvictsOldest` holds of them.
  `ResponsesAreOwn` (`ResponseIsOwn`) has two parts. `AnswersAreOwn` is about the text that a template is written as, of any length.
  The code goes through it from expression to expression by counting braces; the proof,
  part by part from the end. A part opens nothing (`LiteralReplaced`), or it is a reference as written, with
  no brace between its own (`SpellSealed`, `SealedReplaced`); hence a text is replaced by what becomes of
  its parts (`PiecesReplaced`), and a template by what it means (`TemplateMeans`). Values of any
  nesting are evaluated from the greatest depth, of which a body has one
  level with a key (`OneField`, `BodyMeans`).
  `HeadersGather` (`HeadersAreGathered`) adds that what requests leave in the map
  has parts of the same two kinds, so that the next evaluation fills the open ones and keeps
  the others (`MixedReplaced`, `GatherStep`), and that a text which has become one expression is
  a single part of it (`FullIsSealed`). `GatherInv` says of each header
  that it is as it was written or gathered, and of each request that what it has read is
  too; if that is gathered, the map's is, whoever wrote it since (`Progress`). A request may thus
  put back an older text, but never one that is not evaluated: that is what `sent` needs.
* `ExampleRegistryProofs`, from `MemoryAssumption` (there is always a free array).
  `RegistryInv` says of a removal that is half done what the array holds: the
  kept prefix, a gap, the rest not yet looked at, all of it the registered examples
  without the removed one. `SliceIsTheRegistry` is the case without a removal.
  `SelectionsAreSound` rests on `SelectInv`: an undisturbed selection reads an array
  whose cells up to the length it remembers nobody writes, because `append` writes
  behind it and the sweep allocates; so what it has passed over was not eligible.
  The module also proves the construction of a server, from `DocumentsAssumption` and
  `StartupAssumption` (lists and paths are sequences, a match names the event at
  most once, only AsyncAPI documents have channels). `SetupInv` says of the
  registration of triggers which examples are subscribed or scheduled so far, by
  their place in the documents, with commit and rejection by document; `StartupInv`
  adds what each stage has already found sound (`DocumentsLoaded`) and that every example that
  was added has the mapping that was found for it (`IsMapped`). From it follow `SetupTypes`,
  `ServerIsBuiltUnlessFaulty` (`BuiltUnlessFaulty`; `UnusableIsRefused` and `FaultsAreRefused` compare the
  checks of the code, in their order, with what the documents say of a schema: each of `Refused` fails a check, and what
  fails one is in `Refused` or `Overlooked`), `ExamplesAreFound`
  (`ExamplesFindTheirHandler`) and `SubscribersAreOfTheSchema` (`OwnSchemaHears`). The lemmas say what
  `FlattenSeq` holds (`FlattenRange`), which mappings a list of documents has (`MappingsOf`)
  and what a request is resolved to (`TargetOf`). `EveryChannelHasOneAddress` (`SpellingsAgree`) is
  about paths of any length: `TrimOfTrimSuffix`, a slash more at the end does not
  change what is trimmed.
* `ServerLifecycleProofs`, from `SettingsAssumption`, the sequence `SpecSeq` of the
  documents' examples without repetition, and a call to be made at all. `LifeInv`
  is `LifeTypeOK /\ DriverInv` with two links between the main goroutine and the
  event driver: it is shut down as far as the step of `main` says, and untouched
  unless the server was started. `DriverInv` has, per example, its place in the broker
  (once, under its own key, from its POST to the end of its DELETE) and, per fire, what
  its snapshot holds and how far each subscription is. From it follow
  `RegistriesStayInStep`, `EmittedAtMostOnce`, `SubscribersKept` and `ExitCodesTell`,
  for the event driver as part of the process. The module also holds the proofs about the
  recipients of an event:
  of `EventDelivery`, from `DeliveryAssumption` (no consumer is called `NoConn`, a
  condition looks at a source, an event is about a consumer or nobody):
  `RecipientsAreRight` (`RightRecipients`). `TwoPhases` is why matching in two
  phases is matching once: a condition that does not mention the connection has the
  same value for every consumer. `DeliveryInv` adds what is true half way: nobody was
  sent anything before the common conditions held and the payload was rendered, and a
  wanted consumer that was there when the loop began and stayed is in `sent` or in `todo`.
* `PipelineProofs`, from `ValueAssumption` and `PipelineAssumption`. `WellFormed`
  (`TypeOK /\ NoEmptyNamespace`) and `StateManagerImplementsStore`: with `Get` as the
  refinement mapping every method is a step of `StateStore`. Of the pipeline:
  `CountsAreExact`, `LaterRequestsSee`, `EventsFollow` and `PipelineTypes`. `PipeInv`
  describes a request in each stage (`SessionInv`: what it wrote and has to write are
  disjoint and together the entries of its example, so it counts once; its one-time
  example is marked from then on), what it knows of the requests that were
  over when it arrived (`PastInv`: neither its open examples nor its choice is a
  one-time example of theirs, and its copy has their counts) and what it has fired
  (`FiredInv`: the first `next - 1` triggers). `CountersExact` is part of it: the
  value read by an increment is the number of those that counted before.
* `ConsumerProofs`, from `WsAdapterAssumption`, `ManageStreamAssumption`, `TextAssumption`,
  `GlobAssumption` and `DataAssumption` (an empty payload is no payload). `WsInv` is what is typed of sockets,
  registry, stream and calls, with `RegistryAgrees` (the two maps hold the same ids, each
  under the channel of its consumer, for exactly the consumers between their upgrade
  and their end, except those that management unregistered), and per consumer `ToldOf` (what the
  stream was told, by the step of the handler), `Replies` (the answers are numbered
  from 1 up to the messages taken, without the one in hand) and, per management call,
  `Pushes` (a frame was written to those of `all` that are no longer in `todo`). Most of the work
  is that a socket has many writers: `ConsumerSteps` reduces every step of the system
  to what it can do to one consumer, and an answer is told from pushes, greetings and
  examples by the frame (`AnswersAre`, `PushCount`). From it follow `ConsumersAnsweredInOrder`,
  `PushesReachOnce` and `ConnectedAreListed`. `StreamsComplete` (`StreamComplete`) adds, per
  subscriber and emitter, `Streams`: the envelopes in the frames of the emitter are the
  subscriber's share of what was emitted since it joined, without the one
  for which it is still in `todo`; who has left has a prefix. It needs that the filters decide
  as their globs mean (`FiltersDecide`, from `TextAssumption`: filters are globs, and names and
  channels texts), which is `GlobsAreDecided` (`GlobAgrees`) without its bounds. `Cuts` says what the
  first i characters of a glob can stand for. Between segments the walk is at the least
  such place if there is one (`Greedy`, `WalkIsGreedy`): a star passes on what precedes it and
  everything behind (`CutsStar`), so the candidates for the next segment are the
  places where it can begin (`SegmentCandidates`), and the first is the best. The last segment
  needs no least place but the end of the value.
* `SignalRProofs`, from `HubAssumption` (each client goes to one of the hubs, and `None` is
  not one of the names). `HubInv` is the conjunction of `HubTyped`; `IdsAgree` (every id comes from the
  counter of its hub, is still a token or belongs to one client, and the registry lists
  clients under their own); `SnapshotsFirst` (a stream that is known, is being opened
  or is about to be written to has its snapshot in the frames, or a socket to which
  nothing is written any more); `PushesOnce` (what a push still has to write is not
  among the frames, and no client is both in `out` and in `todo`) and `StreamsReached` (a
  stream that was open when the push began, and is `Kept`, has the item in its frames, in
  `out` or in `todo`). The frames are written outside of the mutex, so the argument is by
  what one step writes (`StepsWrite`, `StepsKeep`) and not by what it locks. From it
  follow `HubTypes`, `SnapshotsComeFirst` and `PushesReachStreams`.

TLC checked each inductive invariant on the run of its module before it was proved.
Some attempts at a proof said something about the code or the model: `EmittedOnceInScope` is
not inductive for an event called `*` (section 7); `OnlyIncremented` has to
speak of increments by one, which is what a counter of requests is; and
`OpenStreamReceives` has to except a client that uses the id of an open stream for
another channel while a push is under way. The hub then replaces the stream without
a Completion, and the push, which looks streams up by channel, may miss it. A
hub with one channel never shows this, so the run now has two. Of the
construction of a server they showed that the order in which `ClassifyTrigger` tests its
conditions matters (they overlap, so it is an IF chain and no CASE), that only a hub may have a
channel without an address, that a bare slash as the prefix of another document can make
two addresses equal, and that a hub or the management API can take the pattern
of a path: the run now has a hub with the path of an OpenAPI document. Of the expressions they
showed that the payload fields `name` and `data` of an event cannot be reached even through
`data` (section 7), and which references cannot be satisfied at all (`Reaches`); and that a
header of a dynamic example need not come from one request, because what could not be
filled for one is filled for the next.

`StateManager.ClearNamespace`, which no handler calls, is covered by the proofs only.

Only model-checked is every liveness property (`LostConnectionIsUnregistered` of the hubs among them): the
prover has no rules for `ENABLED` and fairness.

## 7. Where the code and its documents disagree

The run `scheduler_panic` shows one of these disagreements: the recover handler of
`Scheduler.Run` calls `Cancel(job.ID)` (`eventbus/scheduler.go:66`), which removes
whatever job has that id. A job that was replaced while it delivered, and panics
in that last delivery, stops its replacement, although "A panic inside a delivery
is contained" (`PanicIsContained`).

The others are stated in the modules beside the properties that do hold, and are
not among the runs: TLC refutes each when it is named in a cfg. Documents are under
`src/openspec/specs/`.

| Definition (module) | The code | What is said of it |
|---|---|---|
| `DefaultPageIsMostRecent` (RequestHistory) | the default page is the oldest one, `server/server_requests.go:121` | `management-api/spec.md:61` "most recent requests" |
| `Chronological` (RequestHistory) | records are added in the order of completion with their start time, `server/server_http.go:337` | `history/history.go:64` "in chronological order" |
| `NoDeliveryAfterCancel` (Scheduler) | the second select may take a tick that is due at the Cancel, `eventbus/scheduler.go:77` | `eventbus/scheduler.go:54-56` "a cancelled job does not run further deliveries" |
| `OnceServedOnce` (ExampleRegistry), `OnceSelectedOnce` (MockPipeline) | marker tested and set in two critical sections, `server/registry.go:119`, `server/engine.go:182` | `management-api/spec.md:27` "disposed after first match"; `mock-server-core/spec.md:75-77` |
| `FirstMatchSelected` (ExampleRegistry) | removal in place lets a concurrent selection skip an example, `server/registry.go:88` | `server/registry.go:108-110` "returns the first dynamic example matching" |
| `NoDelayedDeliveryAfterShutdown` (EventDriver, in the run of MCServerLifecycle) | timer and done both ready: either, `server/message_delivery.go:93` | `asyncapi-management/spec.md:110-112` |
| `WildcardNeverCollides` (EventDriver, in the run of MCServerLifecycle; `EmittedOnceInScope` excepts it) | an event may be fired under the name `*`, which resolves the wildcard list twice, `eventbus/broker.go:162`, `server/fire_event.go:35` | `eventbus/broker.go:18-19` "never collide with user-chosen event identities" |
| `ConnectOnItsChannel` (EventDelivery) | a connect event reaches the examples of all channels of its schema, `server/builtin_triggers.go:22` | `extensions/spec.md:121` |
| `DistinctExamplesNeverCollide` (TriggerSetup, in the run of MCStartup) | jobs of unnamed examples of a channel share an id, `server/event_server.go:287` | `server/event_server.go:280-282` |
| `TargetedPushReceived` (SignalRHub) | a push that names a client without a stream is accepted and dropped, `server/management_async.go:154` | `asyncapi-management/spec.md:34-35` |
| `HandshakeComesFirst` (SignalRHub) | connect examples precede the handshake reply, `server/signalr_hub.go:231` | `signalr-hub-runtime/spec.md:74` |
| `DisconnectEndsTheNamed` with `TwoHubs` and `OwnHub` (SignalRHub) | ids of two hubs collide, `server/management_async.go:249` | `asyncapi-management/spec.md:80-81` |
| `IncrementAddsToNumbers` with strings among the values (StateManager) | an increment of a numeric string replaces it, `state/state.go:71` | `mock-server-core/spec.md:125-128` |
| `SelectedExampleFires` (MockPipeline) | no trigger fires if the body cannot be evaluated, `server/server_http.go:248` | `event-driver/spec.md:7` "whenever that example is selected" |
| `BatchComplete` (JsonRpc) | an example without a value loses the answers of its batch, `server/jsonrpc.go:85` | `json-rpc/spec.md:96` |
| `NoJobAfterShutdown` (ServerLifecycle) | a handler that drains may register a job after the scheduler was shut down, `server/server.go:256` | `server/event_server.go:112-113` "so no delivery happens after shutdown" |
| `SignalIsGraceful` (ServerLifecycle) | signals are asked for after "Mock server started" is logged, `src/cmd/oasmock/mock.go:199-204` | `src/docs/architecture.md:147` "Handle interrupt signals for graceful shutdown" |
| `InvalidFlagExitsWithTwo` (ServerLifecycle) | an error of cobra is no `cliError` and exits with 1, `src/cmd/oasmock/root.go:50` | `cli/spec.md:90-92` "exits with code 2" |
| `AnySpellingAgrees` (Startup) | the route drops the prefix `/`, the hubs and events turn it into a second slash, `loader/router.go:61`, `server/hubmanager.go:18` | `mock-server-core/spec.md:24-26` |
| `AnyPrefixHears` (Startup) | the routes trim a trailing slash of the prefix, the subscriptions do not: events of such a schema are not heard, `loader/router.go:61`, `server/event_server.go:142` | `mock-server-core/spec.md:24-26` |
| `NeverPanics` (Startup) | a hub under a prefix without a leading slash, or a relative gateway, panics in the router, `server/signalr_hub.go:125`, `server/server.go:175` | `cli/spec.md:94-96` exit code 3 |
| `EveryOperationServed` (Startup) | other methods on the path of a procedure are left out, `server/server_routes.go:97` | `mock-server-core/spec.md:28-29` |
| `EveryChannelServed` (Startup) | with an `x-signalr` that has no path neither hub nor route serves a ws channel, `loader/router.go:88`, `server/signalr_hub.go:254` | `mock-server-core/spec.md:24-26` |
| `EveryExampleUsed` (Startup) | an example without a trigger is stored for a hub channel, a procedure's path or a channel's default method, where no handler looks, `server/server_management.go:287`, `368` | `management-api/spec.md:109-115` |
| `ReplyConditionsAccepted` (Startup) | conditions on the reply are refused, `server/server_management.go:241` | `management-api/spec.md:162-164` "async `conditions` are honored" |
| `HeadersAreOwn` (Matching) | the headers of a dynamic example are evaluated in the registry's map: the second request gets the values of the first, `server/engine.go:131` | `extensions/spec.md:48-51` |
| `NoMapRace` (Matching) | and concurrent requests write that map while it is walked through, which ends the process, `server/engine.go:133-136` | `management-api/spec.md:98-100` |
| `AnyKeyMatches` (Matching) | a key that ends in a backslash cannot be followed by a dot, `runtime/expression.go:40-44` | `extensions/spec.md:103-105` |
| `ShadowedFieldsReached` (Matching) | the payload's fields are taken without the prefix `data`, so that `name` and `data` among them are not found behind it, `runtime/expression.go:253-262` | `src/docs/extensions.md:36` "reachable via `{$event.data.<field>}`" |
| `AnyTemplateFilled` (Matching) | a text that begins with an expression and ends in a literal brace is taken for one expression, `server/engine_expr.go:127` | `server/engine_expr.go:126` "single runtime expression (no other characters)" |
| `AnyMatchHolds` (Matching) | a condition that is resolved to an object is taken for a JSON schema, `extensions/match.go:121` | `extensions/match.go:98` "compares resolved values" |
| `DefaultReplacesEmpty` (Matching) | a default stands in for a missing value only, not for an empty or null one, `runtime/expression.go:401-421` | `extensions/spec.md:90-92` "evaluates to empty", `src/docs/extensions.md:209` |
| `ListsAreEntered` (Matching) | `getByPath` does not lead into a list, `runtime/expression.go:63-79` | `extensions/spec.md:94-97` "some.example.array.last", `src/docs/extensions.md:210` "part of an object or array" |
| `ParametersAreTyped` (Matching) | a parameter is a text, which no schema of type number takes, `extensions/match.go:119-122` | `src/docs/extensions.md:16-20` a query parameter with `type: number`, `extensions/spec.md:15-18` |
| `MessageHeaderRead` (Matching) | the category is `headers`; `header` gives null, `runtime/expression.go:288` | `asyncapi-templating/spec.md:26-29` `{$message.header.trace}` |
| `OnlyMatching` (ManageStream) | a notification with an empty channel, as of a hub's consumer, passes every channel filter, `server/manage_ws.go:131`, `server/signalr_hub.go:215-225` | `asyncapi-management/spec.md:117-119` "only for matching events and channels" |
| `KnownIsScheduled` (ServerLifecycle) | a periodic example whose delivery panicked has no job, but is still known to DELETE by its id, `eventbus/scheduler.go:66` | `extensions/spec.md:164-166` emitted "until the example is removed or the server shuts down" |
| `EveryFaultyExampleRejected` (TriggerSetup), `EveryFaultRefused` (Startup) | the delay of a periodic example is not looked at, `extensions/classify.go:53-60` | `extensions/spec.md:162,172-174`, `src/docs/extensions.md:105`, `extensions/classify.go:37-41` |
| same | the name of an event that is no text, or empty, counts as none: the example is subscribed to every event, `extensions/match.go:245` | `extensions/spec.md:124` "the identity must be a literal string" |
| `EveryFaultRefused` (Startup) | a binding that is not supported passes beside one that is, `asyncapi/parse.go:71-94` | `asyncapi-protocols/spec.md:21-23` |
| same | a channel without bindings is served by those of its operations, `loader/router.go:105-112` | `asyncapi-protocols/spec.md:25-27` |
| same | only the first `x-rpc` is read, a bad one behind it is not, `server/server.go:79-91` | `json-rpc/spec.md:18-28` "fails to start with an error" |
| same | an empty gateway, and a procedure without call or match, are accepted, `loader/rpc.go:32-36,60-66` | `json-rpc/spec.md:18-24`, `src/docs/json-rpc.md:22-28` |
| same | procedures are looked for under the gateway as it is spelled, so that duplicates under one that is relative or ends in a slash pass, `loader/rpc.go:134-137` | `json-rpc/spec.md:41-43` |
| `NoEntryWithoutId` (JsonRpc) | malformed elements without an id get an entry, `server/jsonrpc.go:67` | `server/jsonrpc.go:77-80` |

Five more were met while modelling and need no model to see: no ping of the
management stream is ever written, since `writeFrame` drops empty data
(`server/manage_ws.go:270`, `ws_adapter.go:48`); control frames do not move the read
deadline, since `ReadMessage` returns data messages only (`server/ws_adapter.go:284`
against lines 24-25); management pushes are not reported to the stream
(`server/management_async.go:153` against `asyncapi-management/spec.md:126-127`); the
payload of a delayed push is evaluated when it is requested
(`server/management_async.go:56` against `asyncapi-management/spec.md:66`); and `toJWT`
gives a constant (`runtime/expression.go:450` against `extensions/spec.md:99-101`).

## 8. Not modelled

* The readers of `x-mock-*` fields and of the parts of a request (`extensions/extract.go`,
  `example_value.go`, `server/server_eval.go`, `pathparams.go`) and the mapping of AsyncAPI
  documents (`asyncapi/parse.go` after `validate`): they copy fields into the records
  with which the models begin. There is no state and no order to get wrong.
* Loading of files, YAML and JSON parsing, path parameters in patterns: chi decides
  among overlapping patterns; `Routing` compares patterns as they are written.
* JSON schemas: `Accepts` says which types a schema takes; the validation itself is
  gojsonschema's.
* Encoding of frames, envelopes and payloads, header formatting, logging. In
  `Expression` the JSON texts of objects are not told apart.
* Data races as such: a selection that reads an element while it is moved is in
  `ExampleRegistry`, the header maps are in `Matching`; the unlocked map read of verbose
  mode (`server/registry.go:113`) is a hazard without a property.
* Write deadlines. `writeFrame` sets one of ten seconds and ignores the error
  (`server/ws_adapter.go:53-54`): in `WebSocket` a write fails only if the socket is closed, so
  a peer that does not read, and loses frames while its socket stays open, is not shown;
  `StreamComplete` and `PushReachesOnce` hold of peers that read.
* The read deadline of a SignalR connection (`server/signalr_conn.go:17`): there is no time in `SignalRHub`.
  `LostConnectionIsUnregistered` is about sockets that are lost or closed, not about a client
  that falls silent on an open one; for raw WebSockets `ConnectionsAreReaped` has that case.
* Control-schema generator (a build-time tool), vendored go-asyncapi.

## 9. Plan

The order so far: the registries with their own lock (ring buffer, scheduler,
state, dynamic examples), the handlers over them (history, pipeline, event
driver), the connections (SignalR, WebSocket, stream), then recipients, JSON-RPC
and the cache; then the life of the process around the event driver, the
construction of the server with its routes, and expressions with the match and the
response of an example. Next:

1. Composition: EventDriver with EventDelivery and StateManager; SignalRHub with
   WsAdapter (`PushTo`, `Candidates` over both).
