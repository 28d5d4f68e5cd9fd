------------------------------- MODULE Startup -------------------------------
(***************************************************************************)
(* The construction of a server from its schemas (New and                  *)
(* newServerWithDriver of internal/server/server.go, after LoadSchemas)     *)
(* and what POST /_mock/examples may then add to it                        *)
(* (internal/server/server_management.go).  The registration of triggers   *)
(* is that of TriggerSetup, the routes are those of Routing.               *)
(*                                                                         *)
(* A request to add an example is [path, channel, protocol, method,        *)
(* conditions, interval, body, validate]: path or channel is <<>> if not   *)
(* given, conditions are "none" or the context they refer to ("event",     *)
(* "reply" or "both"), body says whether it fits the response's schema.    *)
(***************************************************************************)
EXTENDS TriggerSetup, Routing

CONSTANTS Request,   \* requests to add an example
          MaxAdded,  \* bound on the examples added
          Spelling   \* paths that are compared

(* Paths and lists are sequences; an OpenAPI document has no channels, and *)
(* its paths begin with one slash.                                         *)
IsSeq(s) == s \in Seq(Range(s))

ASSUME StartupAssumption ==
  /\ \A p \in Spelling : IsSeq(p)
  /\ \A ds \in Documents : \A d \in Range(ds) :
       /\ IsSeq(d.prefix) /\ IsSeq(d.paths) /\ IsSeq(d.channels) /\ IsSeq(d.operations)
       /\ d.kind \in {"openapi", "asyncapi"} /\ IsSeq(d.gateway)
       /\ \A ch \in Range(d.channels) : isAsync(d) /\ IsSeq(ch.address) /\ IsSeq(ch.protocols)
       /\ \A op \in Range(d.operations) : IsSeq(op.protocols)
       /\ \A entry \in Range(d.paths) : /\ IsSeq(entry.path) /\ entry.path # <<>>
                                        /\ Head(entry.path) = Slash
                                        /\ Len(entry.path) > 1 => entry.path[2] # Slash

VARIABLES stage,   \* "load", "rpc", "routes", "events", "router", "up", "failed" or "panicked"
          added    \* the examples accepted: [req, kind, key, prefix, protocol]

upVars == <<setupVars, stage, added>>

StartupInit == SetupInit /\ stage = "load" /\ added = {}

Advance(error, after) ==
  /\ stage' = IF error THEN "failed" ELSE after
  /\ UNCHANGED <<setupVars, added>>

(* Every AsyncAPI document is validated when it is loaded. *)
LoadSchemas ==
  /\ stage = "load"
  /\ Advance(\E s \in DOMAIN docs : isAsync(docs[s]) /\ ~validate(docs[s]), "rpc")

BuildRpc ==
  /\ stage = "rpc"
  /\ Advance(parseRpcError(docs) \/ (hasRpc(docs) /\ duplicateProcedure(docs)), "routes")

BuildRoutes ==
  /\ stage = "routes"
  /\ Advance(routeError(docs), "events")

(* registerEventSubscriptions, an example at a time. *)
RegisterEvents ==
  /\ stage = "events"
  /\ SetupNext
  /\ stage' = CASE pc' = "done" -> "router" [] pc' = "failed" -> "failed" [] OTHER -> stage
  /\ UNCHANGED added

SetupRouter ==
  /\ stage = "router"
  /\ stage' = IF routerPanics(docs) THEN "panicked" ELSE "up"
  /\ UNCHANGED <<setupVars, added>>

-----------------------------------------------------------------------------
DefaultMethod == "GET"

(* The schema of the request (one target, no async field on a path) and    *)
(* the single-trigger rule.                                                *)
decodeAddExampleRequest(req) ==
  /\ (req.path = <<>>) # (req.channel = <<>>)
  /\ req.path # <<>> => req.protocol = "" /\ ~req.interval
  /\ ~(req.conditions \in {"event", "both"} /\ req.interval)

(* Takes the first mapping of the channel, whatever its protocol. *)
FaultyFindAsyncRouteMapping(req) ==
  channelMappings(docs, req.channel)

(* The candidates of findAsyncRouteMapping; it returns the first.  The     *)
(* default method fits every mapping.                                      *)
findAsyncRouteMapping(req) ==
  Keep(BuildRouteMappings(docs),
       {m \in Range(BuildRouteMappings(docs)) : /\ m.protocol # ""
                                               /\ req.protocol \in {"", m.protocol}
                                               /\ m.path = req.channel
                                               /\ req.method \in {m.method, DefaultMethod}})

hubRouteMapping(req) ==
  LET of == {c \in hubChannels(docs) : c.address = req.channel}
  IN IF req.protocol \in {"", "signalr"} /\ of # {}
     THEN <<[method |-> "GET", path |-> req.channel, pattern |-> req.channel,
             prefix |-> (CHOOSE c \in of : TRUE).prefix, protocol |-> "signalr"]>>
     ELSE <<>>

(* A path is compared with the patterns, which have no prefix. *)
resolveExampleTarget(req) ==
  IF req.channel # <<>>
  THEN findAsyncRouteMapping(req) \o hubRouteMapping(req)
  ELSE Keep(BuildRouteMappings(docs),
            {m \in Range(BuildRouteMappings(docs)) : m.pattern = req.path /\ m.method = req.method})

(* rejectNonEventAsyncConditions, then the schema of the response for a    *)
(* path, then the classification of a trigger.                             *)
accepts(req, mapping) ==
  /\ mapping.protocol # "" => req.conditions # "reply"
  /\ mapping.protocol = "" => ~req.validate \/ req.body = "fits"
  /\ mapping.protocol # "" => req.conditions # "both"

needsRuntimeRegistration(req, mapping) ==
  mapping.protocol # "" /\ (req.conditions # "none" \/ req.interval)

(* Stored for its route's key, or registered with the event driver. *)
AddExample(req) ==
  /\ stage = "up" /\ Cardinality(added) < MaxAdded
  /\ decodeAddExampleRequest(req)
  /\ resolveExampleTarget(req) # <<>>
  /\ LET mapping == Head(resolveExampleTarget(req))
     IN /\ accepts(req, mapping)
        /\ added' = added \cup
             {[req    |-> req,
               kind   |-> IF needsRuntimeRegistration(req, mapping) THEN "runtime" ELSE "dynamic",
               key    |-> routeKey(mapping),
               prefix |-> mapping.prefix,
               protocol |-> mapping.protocol]}
  /\ UNCHANGED <<setupVars, stage>>

StartupNext ==
  \/ LoadSchemas \/ BuildRpc \/ BuildRoutes \/ RegisterEvents \/ SetupRouter
  \/ \E req \in Request : AddExample(req)

StartupSpec == StartupInit /\ [][StartupNext]_upVars

-----------------------------------------------------------------------------
(* What the documents say of a schema that cannot be used: RS.AAL for      *)
(* AsyncAPI documents, RS.ASP for channels, RS.JRP for x-rpc, RS.EXT for   *)
(* examples.                                                               *)
Declares(d, ch, p) ==
  \/ \E i \in DOMAIN ch.protocols : ch.protocols[i] = p
  \/ \E i \in DOMAIN d.operations :
       d.operations[i].channel = ch.id /\ \E j \in DOMAIN d.operations[i].protocols :
                                                 d.operations[i].protocols[j] = p

UnusableDocument(d) ==
  \/ d.version \in {"", "2"}
  \/ d.channels = <<>>
  \/ \E i \in DOMAIN d.channels :
       LET ch == d.channels[i]
       IN \/ \A j \in DOMAIN d.operations : d.operations[j].channel # ch.id
          \/ \A p \in {"http", "ws"} : ~Declares(d, ch, p)
          \/ ch.protocols # <<>> /\ \A j \in DOMAIN ch.protocols : ch.protocols[j] \notin {"http", "ws"}
          \/ ch.address = <<>> /\ ~ofHub(d, ch)

(* RS.ASP.4-5: a binding that is not supported, whatever is declared       *)
(* beside it, and a channel without bindings of its own.                   *)
DoubtfulDocument(d) ==
  \E i \in DOMAIN d.channels :
    LET prots == d.channels[i].protocols
    IN prots = <<>> \/ \E j \in DOMAIN prots : prots[j] \notin {"http", "ws", "amqp"}

(* The x-rpc of a document; the first one is that of the server.           *)
HasRpc(s) == docs[s].kind = "openapi" /\ docs[s].rpc # "none"
IsFirstRpc(s) == HasRpc(s) /\ \A t \in DOMAIN docs : t < s => ~HasRpc(t)

(* A path that is the gateway, or leads from it; both are paths of one     *)
(* document, whose prefix they share.                                      *)
Beneath(path, gateway) ==
  \/ Trim(gateway) \in {<<>>, Trim(path)}
  \/ IsPrefix(Trim(gateway) \o <<Slash>>, Trim(path))

(* Two POST operations under the gateway with one name (RS.JRP.8), in the  *)
(* documents chosen.                                                       *)
NamedTwice(gateway, chosen) ==
  LET named == {p \in UNION {{s} \X DOMAIN docs[s].paths : s \in chosen} :
                  LET entry == docs[p[1]].paths[p[2]]
                  IN /\ docs[p[1]].kind = "openapi" /\ entry.method = "POST" /\ entry.op # ""
                     /\ Beneath(entry.path, gateway)}
  IN \E p, q \in named : p # q /\ docs[p[1]].paths[p[2]].op = docs[q[1]].paths[q[2]].op

(* A document without a prefix knows no gateway but one that is spelled as *)
(* its paths are.                                                          *)
KnowGateway(gateway) ==
  {s \in DOMAIN docs : docs[s].prefix # <<>> \/ (gateway = Rooted(gateway) /\ Trim(gateway) # <<>>)}

(* What the documents refuse, and the code does. *)
Refused ==
  \/ \E s \in DOMAIN docs : docs[s].kind = "asyncapi" /\ UnusableDocument(docs[s])
  \/ \E ref \in Refs : Misdeclared(Of(ref)) \/ (BadDelay(Of(ref)) /\ ~IsPeriodic(Of(ref)))
  \/ \E s \in DOMAIN docs : /\ IsFirstRpc(s)
                            /\ \/ docs[s].rpc = "bad"
                               \/ NamedTwice(docs[s].gateway, KnowGateway(docs[s].gateway))

(* What the documents refuse, and the code may overlook: a bad delay of a  *)
(* periodic example, the name of an event that is no text, doubtful        *)
(* bindings, an x-rpc that is incomplete or behind the first one, and a    *)
(* procedure whose gateway is not spelled as its path is.                  *)
Overlooked ==
  \/ \E ref \in Refs : Rejected(Of(ref))
  \/ \E s \in DOMAIN docs : docs[s].kind = "asyncapi" /\ DoubtfulDocument(docs[s])
  \/ \E s \in DOMAIN docs : HasRpc(s) /\ docs[s].rpc \in {"bad", "incomplete"}
  \/ \E s \in DOMAIN docs : IsFirstRpc(s) /\ NamedTwice(docs[s].gateway, DOMAIN docs)

(* No server is built from a schema that is refused, and none is given up  *)
(* for a schema that has no fault; whatever the fault, no router and no    *)
(* example exists before all were looked at.  Subscriptions and jobs are   *)
(* those of the documents before the faulty one, or of all of them         *)
(* (TriggersAllOrNothing).  Faults that are only overlooked do pass        *)
(* (EveryFaultRefused).                                                    *)
BuiltUnlessFaulty ==
  /\ TriggersAllOrNothing
  /\ stage \in {"up", "panicked"} => ~Refused
  /\ stage = "failed" => (Refused \/ Overlooked) /\ added = {}

(* The route of a channel and the event driver, the hubs and the           *)
(* management API, which compute its address on their own, agree on it,    *)
(* however prefix and address are spelled, unless the prefix is a bare     *)
(* slash; and the address is rooted.  Documents take no part in this: it   *)
(* is evaluated on all spellings, in the server that has no schema.        *)
SpellingsAgree ==
  stage = "load" /\ docs = <<>> =>
    \A prefix \in Spelling \ {<<Slash>>}, address \in Spelling :
      LET route == routeAddress([prefix |-> prefix], [address |-> address])
      IN route = asyncAddressWithPrefix(prefix, address) /\ Head(route) = Slash

(* With a prefix that does not end in a slash an event that is fired on a  *)
(* channel is resolved in the schema whose examples are subscribed there,  *)
(* also if they were added at run time, as long as the address is the      *)
(* channel's own.                                                          *)
OwnSchemaHears ==
  stage = "up" =>
    \A s \in DOMAIN docs : \A i \in DOMAIN docs[s].channels :
      LET address == asyncAddressWithPrefix(docs[s].prefix, docs[s].channels[i].address)
          sharing == {t \in DOMAIN docs : \E j \in DOMAIN docs[t].channels :
                        address \in {routeAddress(docs[t], docs[t].channels[j]),
                                     asyncAddressWithPrefix(docs[t].prefix, docs[t].channels[j].address)}}
          served  == docs[s].channels[i].address # <<>> /\ (docs[s].signalr => s \in hubs(docs))
      IN sharing = {s} /\ served /\ (docs[s].prefix = <<>> \/ Last(docs[s].prefix) # Slash) =>
           /\ channelPrefix(docs, address) = docs[s].prefix
           /\ \A x \in added : x.req.channel = address => x.prefix = docs[s].prefix

(* An example that was accepted for a path or for a ws or http channel is  *)
(* kept where a handler that is registered looks for it, under the channel *)
(* and the method that the request names, and on a channel that has the    *)
(* protocol it names; unless a hub or the management API is registered     *)
(* under its pattern, or it is for another method of a procedure's path,   *)
(* or for the default method of a channel.                                 *)
ExamplesFindTheirHandler ==
  \A x \in {y \in added : y.protocol # "signalr"} :
    /\ \/ handlerOf(docs, x.key) \in {"mock", "rpc"}
       \/ x.key \in registerSignalRHubs(docs) \cup registerManagementRoutes
       \/ x.key[1] # "POST" /\ \E p \in rpcMappings(docs) : p.path = x.key[2]
    /\ x.req.channel # <<>> => x.key[2] = x.req.channel
    /\ x.req.method # DefaultMethod => x.key[1] = x.req.method
    /\ x.req.protocol # "" =>
         \E s \in DOMAIN docs : \E i \in DOMAIN docs[s].channels :
           /\ routeAddress(docs[s], docs[s].channels[i]) = x.req.channel
           /\ Declares(docs[s], docs[s].channels[i], x.req.protocol)

(* Stronger claims that the code refutes.  Every fault that the documents  *)
(* name is refused.                                                        *)
EveryFaultRefused == stage \in {"up", "panicked"} => ~Refused /\ ~Overlooked

(* Prefixes of any spelling give one address; a local event is heard with  *)
(* every prefix; no setting makes the construction panic.                  *)
AnySpellingAgrees ==
  stage = "load" /\ docs = <<>> =>
    \A prefix, address \in Spelling :
      routeAddress([prefix |-> prefix], [address |-> address]) = asyncAddressWithPrefix(prefix, address)

AnyPrefixHears ==
  stage = "up" =>
    \A s \in hubs(docs) \cup {t \in DOMAIN docs : isAsync(docs[t]) /\ ~docs[t].signalr} :
      \A i \in DOMAIN docs[s].channels :
        channelPrefix(docs, routeAddress(docs[s], docs[s].channels[i])) = docs[s].prefix

NeverPanics == stage # "panicked"

(* Every operation of a document is served, those beside a procedure too. *)
EveryOperationServed ==
  stage = "up" => \A m \in Range(BuildRouteMappings(docs)) : handlerOf(docs, routeKey(m)) # "none"

(* RS.MSC.51: the channels of a document are served. *)
EveryChannelServed ==
  stage = "up" =>
    \A s \in DOMAIN docs : \A i \in DOMAIN docs[s].channels :
      ofHub(docs[s], docs[s].channels[i]) => s \in hubs(docs)

(* RS.MAPI.20 and RS.MAPI.36: what is accepted is used, and conditions on  *)
(* the reply are accepted.                                                 *)
EveryExampleUsed == \A x \in added : x.kind = "dynamic" => handlerOf(docs, x.key) \in {"mock", "rpc"}

ReplyConditionsAccepted ==
  \A req \in Request :
    stage = "up" /\ req.channel # <<>> /\ req.conditions = "reply" /\ resolveExampleTarget(req) # <<>> =>
      accepts(req, Head(resolveExampleTarget(req)))
=============================================================================
