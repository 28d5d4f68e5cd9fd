------------------------------- MODULE Routing -------------------------------
(***************************************************************************)
(* What the loader and the router make of the schemas: route mappings      *)
(* (internal/loader/router.go), procedures (loader/rpc.go), the validation *)
(* of AsyncAPI documents (internal/asyncapi/parse.go) and the table that   *)
(* setupRouter fills (internal/server/server_routes.go).                   *)
(*                                                                         *)
(* A path is a sequence of slashes and segments, as the code's operations  *)
(* on paths take off and put on slashes only; <<>> is the empty string.    *)
(* A schema is                                                             *)
(*   [kind, prefix, paths, rpc, gateway, version, channels, operations,    *)
(*    signalr, hub]                                                        *)
(* where paths are [path, method, op] in the order of the code; x-rpc is   *)
(* "none", "bad", "good", or "incomplete" if its gateway is empty or its   *)
(* procedure has no call or no match; channels are [id, address,          *)
(* protocols], operations [channel, protocols, method]; signalr says       *)
(* whether there is an x-signalr, and hub is its path, <<>> without one.   *)
(***************************************************************************)
EXTENDS Naturals, Sequences, SequencesExt, FiniteSetsExt, Filter

Slash == "/"

(* strings.Trim(p, "/") and strings.TrimSuffix(p, "/"). *)
Trim(p) ==
  LET solid == {i \in DOMAIN p : p[i] # Slash}
  IN IF solid = {} THEN <<>> ELSE SubSeq(p, Min(solid), Max(solid))

TrimSuffix(p) == IF p # <<>> /\ Last(p) = Slash THEN Front(p) ELSE p

Rooted(p) == <<Slash>> \o Trim(p)

PrefixPath(prefix, path) ==
  IF prefix = <<>> THEN path
  ELSE IF Trim(path) = <<>> THEN Rooted(prefix) ELSE Rooted(prefix) \o Rooted(path)

normalizeAddress(address) == Rooted(address)

(* Leaves the slashes of the prefix as they are. *)
FaultyApplyAddressPrefix(prefix, address) == prefix \o normalizeAddress(address)

applyAddressPrefix(prefix, address) ==
  IF prefix = <<>> THEN normalizeAddress(address) ELSE Rooted(prefix) \o normalizeAddress(address)

(* The address of a channel in its route, and the one that hubs, events    *)
(* and interval jobs use.                                                  *)
routeAddress(schema, ch) == applyAddressPrefix(TrimSuffix(schema.prefix), ch.address)

asyncAddressWithPrefix(prefix, address) ==
  IF prefix = <<>> THEN Rooted(address) ELSE Rooted(prefix) \o Rooted(address)

-----------------------------------------------------------------------------
Supported == {"http", "ws"}

isAsync(schema) == schema.kind = "asyncapi"

(* A channel that declares bindings, none of them supported. *)
validateProtocols(schema) ==
  \A i \in DOMAIN schema.channels :
    LET prots == schema.channels[i].protocols
    IN prots = <<>> \/ \E j \in DOMAIN prots : prots[j] \in Supported

(* validate; a version is "2", "3.0.0", one of the other versions 3.x, or  *)
(* "" if there is none.                                                    *)
validate(schema) ==
  /\ schema.version \notin {"", "2"}
  /\ schema.channels # <<>>
  /\ schema.version = "3.0.0" => schema.operations # <<>>
  /\ validateProtocols(schema)

(* The operations that refer to a channel, and all their bindings. *)
opsOf(schema, ch) ==
  Keep(schema.operations, {op \in Range(schema.operations) : op.channel = ch.id})

bindingsOf(schema, ch) ==
  LET ops == opsOf(schema, ch)
  IN ch.protocols \o FlattenSeq([i \in DOMAIN ops |-> ops[i].protocols])

(* The first supported one; "" if there is none. *)
routeProtocol(prots) ==
  LET usable == Keep(prots, Supported)
  IN IF usable = <<>> THEN "" ELSE Head(usable)

protocolOf(schema, ch) == routeProtocol(bindingsOf(schema, ch))

(* The hub serves the ws channels of its document. *)
ofHub(schema, ch) == schema.signalr /\ protocolOf(schema, ch) = "ws"

channelError(schema, ch) ==
  \/ opsOf(schema, ch) = <<>>
  \/ protocolOf(schema, ch) = ""
  \/ ~ofHub(schema, ch) /\ ch.address = <<>>

asyncRoute(schema, ch, op) ==
  [method   |-> IF protocolOf(schema, ch) = "http" THEN op.method ELSE "GET",
   path     |-> routeAddress(schema, ch),
   pattern  |-> ch.address,
   prefix   |-> TrimSuffix(schema.prefix),
   protocol |-> protocolOf(schema, ch)]

buildAsyncRouteMappings(schema) ==
  LET routed == Keep(schema.channels, {ch \in Range(schema.channels) : ~ofHub(schema, ch)})
  IN FlattenSeq([i \in DOMAIN routed |->
       LET ops == opsOf(schema, routed[i])
       IN [j \in DOMAIN ops |-> asyncRoute(schema, routed[i], ops[j])]])

openAPIRoute(schema, prefix, entry) ==
  [method   |-> entry.method,
   path     |-> PrefixPath(prefix, entry.path),
   pattern  |-> entry.path,
   prefix   |-> prefix,
   protocol |-> ""]

buildOpenAPIRouteMappings(schema) ==
  [i \in DOMAIN schema.paths |->
     openAPIRoute(schema, TrimSuffix(schema.prefix), schema.paths[i])]

(* BuildRouteMappings and its error. *)
routeError(schemas) ==
  \E s \in DOMAIN schemas :
    /\ isAsync(schemas[s])
    /\ \E i \in DOMAIN schemas[s].channels : channelError(schemas[s], schemas[s].channels[i])

BuildRouteMappings(schemas) ==
  FlattenSeq([s \in DOMAIN schemas |->
    IF isAsync(schemas[s]) THEN buildAsyncRouteMappings(schemas[s])
                           ELSE buildOpenAPIRouteMappings(schemas[s])])

-----------------------------------------------------------------------------
(* New parses x-rpc schema by schema until one has it. *)
rpcSchemas(schemas) ==
  {s \in DOMAIN schemas : ~isAsync(schemas[s]) /\ schemas[s].rpc # "none"}

hasRpc(schemas) == rpcSchemas(schemas) # {}
parseRpcError(schemas) ==
  hasRpc(schemas) /\ schemas[Min(rpcSchemas(schemas))].rpc = "bad"
gatewayOf(schemas) == schemas[Min(rpcSchemas(schemas))].gateway

isUnderGateway(path, gateway, prefix) ==
  LET gwPath == PrefixPath(prefix, gateway)
  IN path = gwPath \/ IsPrefix(gwPath \o <<Slash>>, path)

(* The entries of a schema that are procedures: [schema, entry]. *)
procedures(schemas) ==
  {p \in UNION {{s} \X DOMAIN schemas[s].paths : s \in DOMAIN schemas} :
     LET schema == schemas[p[1]]
         entry  == schema.paths[p[2]]
     IN /\ ~isAsync(schema)
        /\ isUnderGateway(PrefixPath(schema.prefix, entry.path), gatewayOf(schemas), schema.prefix)
        /\ entry.method = "POST" /\ entry.op # ""}

entryOf(schemas, p) == schemas[p[1]].paths[p[2]]

(* BuildRpcMappings and its error; the mapping keeps the whole prefix. *)
duplicateProcedure(schemas) ==
  \E p, q \in procedures(schemas) : p # q /\ entryOf(schemas, p).op = entryOf(schemas, q).op

rpcMappings(schemas) ==
  IF ~hasRpc(schemas) THEN {}
  ELSE {openAPIRoute(schemas[p[1]], schemas[p[1]].prefix, entryOf(schemas, p)) :
          p \in procedures(schemas)}

(* The gateway's own path has the prefix of the first schema. *)
gatewayPath(schemas) == PrefixPath(schemas[1].prefix, gatewayOf(schemas))

-----------------------------------------------------------------------------
(* normalizeHubPath: a leading slash, no trailing ones. *)
normalizeHubPath(path) ==
  IF Trim(path) = <<>> THEN <<>>
  ELSE (IF Head(path) = Slash THEN <<>> ELSE <<Slash>>)
         \o SubSeq(path, 1, Max({i \in DOMAIN path : path[i] # Slash}))

(* Hubs: the documents whose x-signalr has a path. *)
hubs(schemas) ==
  {s \in DOMAIN schemas :
     isAsync(schemas[s]) /\ schemas[s].signalr /\ normalizeHubPath(schemas[s].hub) # <<>>}

hubPath(schema) == TrimSuffix(schema.prefix) \o normalizeHubPath(schema.hub)

hubChannels(schemas) ==
  UNION {{[address |-> asyncAddressWithPrefix(schemas[s].prefix, schemas[s].channels[i].address),
           prefix  |-> schemas[s].prefix] : i \in DOMAIN schemas[s].channels} :
         s \in hubs(schemas)}

routeKey(m) == <<m.method, m.path>>

(* registerMockRoutes leaves out what has the pattern of a procedure. *)
registerMockRoutes(schemas) ==
  LET taken == {p.path : p \in rpcMappings(schemas)}
  IN {routeKey(m) : m \in {x \in Range(BuildRouteMappings(schemas)) : x.path \notin taken}}

registerSignalRHubs(schemas) ==
  UNION {{<<"POST", hubPath(schemas[s]) \o <<Slash, "negotiate">>>>, <<"GET", hubPath(schemas[s])>>} :
         s \in hubs(schemas)}

registerRpc(schemas) ==
  IF ~hasRpc(schemas) THEN {}
  ELSE {<<"POST", path>> : path \in {gatewayPath(schemas)} \cup {m.path : m \in rpcMappings(schemas)}}

registerManagementRoutes == {"POST", "GET"} \X {<<Slash, "_mock">>}

(* setupRouter: what each of them registers, [method, pattern].  chi       *)
(* refuses a relative pattern with a panic.                                *)
setupRouter(schemas) ==
  registerMockRoutes(schemas) \cup registerSignalRHubs(schemas)
    \cup registerRpc(schemas) \cup registerManagementRoutes

routerPanics(schemas) ==
  \E key \in setupRouter(schemas) : key[2] = <<>> \/ Head(key[2]) # Slash

(* Of several handlers with one method and pattern chi keeps the last.     *)
handlerOf(schemas, key) ==
  IF key \in registerManagementRoutes THEN "manage"
  ELSE IF key \in registerRpc(schemas) THEN "rpc"
  ELSE IF key \in registerSignalRHubs(schemas) THEN "hub"
  ELSE IF key \in registerMockRoutes(schemas) THEN "mock" ELSE "none"

(* The mappings of an address, for any protocol. *)
channelMappings(schemas, address) ==
  Keep(BuildRouteMappings(schemas),
       {m \in Range(BuildRouteMappings(schemas)) : m.protocol # "" /\ m.path = address})

(* Knows the channels of routes only. *)
FaultyChannelPrefix(schemas, address) ==
  LET routes == channelMappings(schemas, address)
  IN IF routes # <<>> THEN Last(routes).prefix ELSE <<>>

(* buildChannelPrefix: a later mapping of an address replaces an earlier   *)
(* one, a hub does not.                                                    *)
channelPrefix(schemas, address) ==
  LET routes == channelMappings(schemas, address)
      ofHubs == {c \in hubChannels(schemas) : c.address = address}
  IN IF routes # <<>> THEN Last(routes).prefix
     ELSE IF ofHubs # {} THEN (CHOOSE c \in ofHubs : TRUE).prefix ELSE <<>>
=============================================================================
