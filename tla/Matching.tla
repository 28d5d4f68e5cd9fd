------------------------------- MODULE Matching -------------------------------
(***************************************************************************)
(* Requests that are matched against the conditions of an example          *)
(* (EvaluateParamsMatch, internal/extensions/match.go) and answered from   *)
(* its templates (generateResponse, internal/server/engine.go), several at *)
(* a time.  Conditions that are JSON schemas go through the cache of       *)
(* SchemaCache, whose callers are the requests.                            *)
(*                                                                         *)
(* An author of examples refers to a value as [source, keys, mod, arg]     *)
(* and writes it down as an expression (Spell); a template is a sequence   *)
(* of such references and of literal texts.  What the code makes of the    *)
(* texts is compared with what the author means.                           *)
(***************************************************************************)
EXTENDS SchemaCache, Expression

CONSTANTS Token,     \* words and signs, of which texts are sequences
          Value,     \* the JSON values that sources hold
          Scene,     \* [example : Call -> names, of : names -> examples, sources : Call -> sources]
          Accepts    \* gojsonschema: the types of the values that a schema accepts

-----------------------------------------------------------------------------
(* What requests and examples are made of; a source is one word.           *)
Sign == {"{$", "}", "|"}
Writable(text) == \A i \in DOMAIN text : text[i] \notin Sign

IsReferenceTo(ref) ==
  /\ ref.source \in Seq(Token) /\ Len(ref.source) = 1 /\ ref.source[1] \notin Sign \cup {"."}
  /\ ref.keys \in Seq(Seq(Token))
  /\ ref.mod = "default" => ref.arg \in Seq(Token)
  /\ ref.mod = "getByPath" => ref.arg \in Seq(Seq(Token))

(* A condition compares with a reference, or with a literal that is no     *)
(* expression; an object is a schema.                                      *)
IsCondition(x) ==
  /\ IsReferenceTo(x.ref) /\ \A r \in x.ref2 : IsReferenceTo(r)
  /\ x.ref2 = {} => x.cond.t # "object" /\ (x.cond.t = "string" => ~isFullExpression(x.cond.v))
  /\ x.cond.t = "schema" => x.ref2 = {} /\ x.cond.v \in Key

(* Literal texts, and references between them. *)
IsTemplate(tpl) ==
  /\ tpl \in Seq(Range(tpl))
  /\ \A part \in Range(tpl) : IF part.lit = <<>> THEN IsReferenceTo(part.ref) ELSE part.lit \in Seq(Token)

IsExample(ex) ==
  /\ \A x \in ex.match : IsCondition(x)
  /\ IsTemplate(ex.body) /\ IsTemplate(ex.field)
  /\ \A h \in DOMAIN ex.headers : IsTemplate(ex.headers[h])

(* The sources by their Go types: parameters, headers, address parameters  *)
(* and environment variables are texts or lists of texts, the payload of   *)
(* an event is a map.  An event has nothing but its name and its payload.  *)
Reserved == {<<"name">>, <<"data">>}

Flat(values) == \A k \in DOMAIN values : values[k].t # "object"

IsSource(name, src) ==
  CASE name \in {<<"request">>, <<"state">>} -> TRUE
    [] name \in {<<"env">>, <<"channel">>}   -> Flat(src)
    [] name = <<"connection">> -> \A k \in {<<"query">>, <<"header">>} \cap DOMAIN src : Flat(src[k].f)
    [] name = <<"message">> -> /\ DOMAIN src \subseteq {<<"payload">>, <<"headers">>}
                               /\ <<"headers">> \in DOMAIN src => Flat(src[<<"headers">>].f)
    [] name = <<"event">> -> /\ DOMAIN src \subseteq Reserved
                             /\ <<"data">> \in DOMAIN src => src[<<"data">>].t = "object"
    [] OTHER -> FALSE

ASSUME TokenAssumption ==
  {"{$", "}", "|", ":", ".", "\\", "default", "getByPath", "name", "data", "null", "{...}", "[...]"} \subseteq Token

(* JSON values are made of texts and of JSON values. *)
ASSUME ValueAssumption ==
  \A x \in Value : x.v \in Seq(Token) /\ \A k \in DOMAIN x.f : x.f[k] \in Value

ASSUME ObjectAssumption == Marshal(Obj(<<>>)) \in Key

ASSUME SceneAssumption ==
  \A s \in Scene :
    /\ s.example \in [Call -> DOMAIN s.of]
    /\ \A n \in DOMAIN s.of : IsExample(s.of[n])
    /\ \A c \in Call : \A name \in DOMAIN s.sources[c] :
         /\ \A k \in DOMAIN s.sources[c][name] : s.sources[c][name][k] \in Value
         /\ IsSource(name, s.sources[c][name])

VARIABLES scene,     \* what is requested of which examples, fixed
          req,       \* the requests: [pc, todo, value, body, rest, read, headers]
          shared,    \* the header maps that the registry keeps for dynamic examples
          fatal      \* the runtime has ended the process

matchVars == <<scene, req, shared, fatal>>
allVars == <<cacheVars, matchVars>>

-----------------------------------------------------------------------------
(* How an author writes a reference: dots that belong to a key are escaped *)
(* (RS.EXT.17), a modifier follows a bar.                                  *)
Escaped(key) ==
  FlattenSeq([i \in DOMAIN key |-> IF key[i] = "." THEN <<"\\", ".">> ELSE <<key[i]>>])

Dotted(keys) == Join([i \in DOMAIN keys |-> Escaped(keys[i])])

Spell(ref) ==
  <<"{$">> \o ref.source \o <<".">> \o Dotted(ref.keys)
    \o (CASE ref.mod = "none"      -> <<>>
          [] ref.mod = "default"   -> <<"|", "default", ":">> \o ref.arg
          [] ref.mod = "getByPath" -> <<"|", "getByPath", ":">> \o Dotted(ref.arg)
          [] OTHER                 -> <<"|", ref.mod>>)
    \o <<"}">>

Written(tpl) ==
  FlattenSeq([i \in DOMAIN tpl |-> IF tpl[i].lit = <<>> THEN Spell(tpl[i].ref) ELSE tpl[i].lit])

(* The condition of a match as it stands in the document. *)
CondOf(x) == IF x.ref2 = {} THEN x.cond ELSE Str(Spell(CHOOSE r \in x.ref2 : TRUE))

BodyOf(ex) ==
  IF ex.field = <<>> THEN Str(Written(ex.body))
  ELSE Obj([k \in {Written(ex.field)} |-> Str(Written(ex.body))])

-----------------------------------------------------------------------------
ExampleOf(c) == scene.of[scene.example[c]]
SourcesOf(c) == scene.sources[c]

(* The text of a condition that is a schema, or is resolved to an object. *)
keyOf(x) == IF x.cond.t = "schema" THEN x.cond.v ELSE Marshal(Obj(<<>>))

MatchInit ==
  /\ scene \in Scene
  /\ CacheInit
  /\ req = [c \in Call |-> [pc |-> "match", todo |-> ExampleOf(c).match, value |-> Null, body |-> Null,
                            rest |-> {}, read |-> <<>>, headers |-> <<>>]]
  /\ shared = [n \in DOMAIN scene.of |->
                 [h \in DOMAIN scene.of[n].headers |-> Written(scene.of[n].headers[h])]]
  /\ fatal = FALSE

referencesNewMatchContext(expr) == expr[2] \in {"event", "connection"}

(* The value of a condition is evaluated only for these contexts. *)
Resolved(x, sources) ==
  LET cond == CondOf(x)
  IN IF cond.t = "string" /\ isFullExpression(cond.v) /\ referencesNewMatchContext(Spell(x.ref))
     THEN Evaluate(cond.v, sources) ELSE cond

(* A condition that cannot be evaluated is passed over. *)
FaultyCompared(value, cond) == value = Error \/ equalJSON(value, cond)

(* A failure to evaluate is a mismatch. *)
Compared(value, cond) == value # Error /\ cond # Error /\ equalJSON(value, cond)

(* A condition that is an object, or has been resolved to one, is a schema. *)
isSchema(value, cond) == value # Error /\ cond.t \in {"schema", "object"}

(* Conditions are taken in the order of a map, that is in any. *)
MatchCondition(c, x) ==
  /\ req[c].pc = "match" /\ x \in req[c].todo
  /\ \E value \in {Evaluate(Spell(x.ref), SourcesOf(c))}, cond \in {Resolved(x, SourcesOf(c))} :
       /\ req' = [req EXCEPT ![c].todo  = @ \ {x},
                             ![c].value = value,
                             ![c].pc    = IF isSchema(value, cond) THEN "schema"
                                          ELSE IF Compared(value, cond) THEN "match" ELSE "mismatch"]
       /\ IF isSchema(value, cond) THEN Ask(c, keyOf(x)) ELSE UNCHANGED cacheVars
  /\ UNCHANGED <<scene, shared, fatal>>

(* getCachedSchema. *)
SchemaStep(c) ==
  /\ req[c].pc = "schema"
  /\ Get(c) \/ Compile(c) \/ Put(c)
  /\ UNCHANGED matchVars

(* A schema that does not compile is an error, which every caller takes    *)
(* for a mismatch.                                                         *)
SchemaVerdict(c) ==
  /\ req[c].pc = "schema" /\ call[c].pc = "done"
  /\ req' = [req EXCEPT ![c].pc =
               IF call[c].key \notin Broken /\ req[c].value.t \in Accepts[call[c].key]
               THEN "match" ELSE "mismatch"]
  /\ UNCHANGED <<cacheVars, scene, shared, fatal>>

-----------------------------------------------------------------------------
(* generateResponse: the body first. *)
GenerateBody(c) ==
  /\ req[c].pc = "match" /\ req[c].todo = {}
  /\ \E body \in evaluateValue(BodyOf(ExampleOf(c)), SourcesOf(c)) :
       req' = [req EXCEPT ![c].pc   = IF body = Error THEN "failed" ELSE "headers",
                          ![c].body = body,
                          ![c].rest = IF ExampleOf(c).dynamic THEN DOMAIN ExampleOf(c).headers ELSE {}]
  /\ UNCHANGED <<cacheVars, scene, shared, fatal>>

(* The headers of a dynamic example are evaluated in the map of the        *)
(* registry, one after the other.                                          *)
ReadHeader(c, h) ==
  /\ req[c].pc = "headers" /\ req[c].read = <<>> /\ h \in req[c].rest
  /\ req' = [req EXCEPT ![c].read = <<h, shared[scene.example[c]][h]>>, ![c].rest = @ \ {h}]
  /\ UNCHANGED <<cacheVars, scene, shared, fatal>>

WriteHeader(c) ==
  /\ req[c].pc = "headers" /\ req[c].read # <<>>
  /\ req' = [req EXCEPT ![c].read = <<>>]
  /\ \E value \in {evaluateExpressionInString(req[c].read[2], SourcesOf(c))} :
       shared' = IF value = Error THEN shared
                 ELSE [shared EXCEPT ![scene.example[c]][req[c].read[1]] = value.v]
  /\ UNCHANGED <<cacheVars, scene, fatal>>

(* Go ends a process in which it notices that one map is walked through    *)
(* and written to at a time.                                               *)
MapRace(c) ==
  /\ req[c].pc = "headers" /\ req[c].read # <<>>
  /\ \E d \in Call \ {c} : /\ scene.example[d] = scene.example[c]
                           /\ req[d].pc = "headers"
  /\ fatal' = TRUE
  /\ UNCHANGED <<cacheVars, scene, req, shared>>

(* The answer is written; a static example has headers of its own. *)
Respond(c) ==
  LET ex  == ExampleOf(c)
      own == [h \in DOMAIN ex.headers |-> resolveHeaderValue(Str(Written(ex.headers[h])), SourcesOf(c))]
      present(f) == [h \in {g \in DOMAIN f : f[g] # Missing} |-> f[h].v]
  IN /\ req[c].pc = "headers" /\ req[c].rest = {} /\ req[c].read = <<>>
     /\ req' = [req EXCEPT ![c].pc = "sent",
                           ![c].headers = IF ex.dynamic THEN shared[scene.example[c]] ELSE present(own)]
     /\ UNCHANGED <<cacheVars, scene, shared, fatal>>

MatchNext ==
  /\ ~fatal
  /\ \E c \in Call :
       \/ \E x \in req[c].todo : MatchCondition(c, x)
       \/ SchemaStep(c) \/ SchemaVerdict(c)
       \/ GenerateBody(c)
       \/ \E h \in req[c].rest : ReadHeader(c, h)
       \/ WriteHeader(c) \/ MapRace(c) \/ Respond(c)

MatchSpec == MatchInit /\ [][MatchNext]_allVars

-----------------------------------------------------------------------------
(* What a reference means, read off docs/extensions.md, RS.EXT.9-19 and    *)
(* RS.ATM.1-5: a walk through the fields of its source.  The fields of an  *)
(* event's payload are the event's, but for those that are called as its   *)
(* name and its data are.                                                  *)
Fields(name, src) ==
  LET payload == src[<<"data">>].f
  IN IF name = <<"event">> /\ <<"data">> \in DOMAIN src
     THEN [k \in DOMAIN src \cup (DOMAIN payload \ Reserved) |->
             IF k \in DOMAIN src THEN src[k] ELSE payload[k]]
     ELSE src

(* The names of request headers have no case; those of a message are its   *)
(* header (RS.ATM.2).                                                      *)
Named(name, keys) ==
  CASE name = <<"request">> /\ keys[1] = <<"header">> ->
         [i \in DOMAIN keys |-> IF i = 2 THEN ToLower(keys[i]) ELSE keys[i]]
    [] name = <<"message">> /\ keys[1] = <<"header">> ->
         [i \in DOMAIN keys |-> IF i = 1 THEN <<"headers">> ELSE keys[i]]
    [] OTHER -> keys

Walk(name, src, keys) == getNested(Obj(Fields(name, src)), Named(name, keys))

(* RS.EXT.14: a default stands in for what is empty. *)
Empty(x) == x \in {Missing, Null, Str(<<>>), Obj(<<>>), Arr(<<>>)}

(* RS.EXT.15: a path leads through objects, and to the last item of a list *)
(* ("some.example.array.last").                                            *)
PartOf(value, keys) ==
  LET around == getNested(value, Front(keys))
  IN IF around.t = "list" /\ around.f # <<>> /\ Last(keys) = <<"last">>
     THEN Last(around.f) ELSE getNested(value, keys)

Found(ref, sources) == Walk(ref.source, sources[ref.source], ref.keys)

Meaning(ref, sources) ==
  IF ref.source \notin DOMAIN sources THEN Error
  ELSE LET found == Found(ref, sources)
           part  == PartOf(found, ref.arg)
       IN CASE ref.mod = "getByPath" -> IF part = Missing THEN Error ELSE part
            [] ref.mod = "default"   -> IF Empty(found) THEN Str(ref.arg) ELSE found
            [] OTHER                 -> IF found = Missing THEN Null ELSE found

(* The keys that can be spelled: none has a brace or a bar in it, the last *)
(* is not empty, and no backslash stands before a separator.               *)
PlainKeys(keys) ==
  /\ keys # <<>> /\ Last(keys) # <<>>
  /\ \A i \in DOMAIN keys : Writable(keys[i])
  /\ \A i \in 1 .. Len(keys) - 1 : keys[i] = <<>> \/ Last(keys[i]) # "\\"

(* How many keys a source takes.  A request and a message are not given as *)
(* a whole, nor a category of them; one field of a request's parameters is *)
(* asked for, and what is reserved in an event has no fields.  The code    *)
(* calls the header of a message "headers" (MessageHeaderRead).            *)
Reaches(ref) ==
  LET n == Len(ref.keys)
      first == ref.keys[1]
  IN CASE ref.source = <<"request">>    -> n >= 2 /\ (first # <<"body">> => n = 2)
       [] ref.source = <<"message">>    -> n >= 2 /\ first # <<"header">>
       [] ref.source = <<"connection">> -> IF first \in {<<"query">>, <<"header">>} THEN n >= 2 ELSE n = 1
       [] ref.source = <<"event">>      -> first \in Reserved => n = 1
       [] OTHER                         -> TRUE

(* The spellings that have a meaning.                                      *)
Plain(ref) ==
  /\ PlainKeys(ref.keys) /\ Reaches(ref)
  /\ ref.mod \in {"none", "default", "getByPath"}
  /\ ref.mod = "default" => Writable(ref.arg)
  /\ ref.mod = "getByPath" => PlainKeys(ref.arg)

(* The values on which the code and the documents agree: nothing that is   *)
(* empty without being missing has a default (DefaultReplacesEmpty), and   *)
(* no path meets a list (ListsAreEntered).                                 *)
Undisputed(ref, sources) ==
  ref.source \in DOMAIN sources =>
    LET found == Found(ref, sources)
    IN /\ ref.mod = "default" => found = Missing \/ ~Empty(found)
       /\ ref.mod = "getByPath" =>
            \A i \in 0 .. Len(ref.arg) - 1 : getNested(found, SubSeq(ref.arg, 1, i)).t # "list"

(* Parameters are given as texts.  A schema for a number is meant for the  *)
(* number that such a text stands for (docs/extensions.md:16-20).          *)
IsParameter(ref) ==
  \/ ref.source = <<"channel">>
  \/ ref.source = <<"request">> /\ ref.keys[1] \in {<<"path">>, <<"query">>, <<"header">>, <<"cookie">>}
  \/ ref.source = <<"connection">> /\ ref.keys[1] \in {<<"query">>, <<"header">>}

MeantAsNumber(ref, value, key) == IsParameter(ref) /\ Numeric(value) /\ "number" \in Accepts[key]

Fits(ref, value, key) ==
  key \notin Broken /\ (value.t \in Accepts[key] \/ MeantAsNumber(ref, value, key))

Compares(x) == x.ref2 # {} /\ x.ref.source \in {<<"event">>, <<"connection">>}

Holds(x, sources) ==
  LET value == Meaning(x.ref, sources)
      other == IF Compares(x) THEN Meaning(CHOOSE r \in x.ref2 : TRUE, sources) ELSE CondOf(x)
  IN /\ value # Error /\ other # Error
     /\ IF other.t = "schema" THEN Fits(x.ref, value, other.v) ELSE equalJSON(value, other)

(* A schema for a number is not applied to a parameter (ParametersAreTyped). *)
TypedParameter(x, sources) ==
  x.cond.t = "schema" /\ MeantAsNumber(x.ref, Meaning(x.ref, sources), x.cond.v)

(* The conditions on whose references the code and the documents agree.    *)
(* The two contexts do not resolve a condition to an object.               *)
PlainCondition(x, sources) ==
  /\ Plain(x.ref) /\ Undisputed(x.ref, sources) /\ ~TypedParameter(x, sources)
  /\ \A r \in x.ref2 : /\ Plain(r) /\ Undisputed(r, sources)
                       /\ Compares(x) => Meaning(r, sources).t \notin {"object", "schema"}

(* A request is answered from an example only if every one of its          *)
(* conditions holds of that request, and turned away only if one of them   *)
(* does not.                                                               *)
Decided(c) ==
  LET match == ExampleOf(c).match
  IN /\ req[c].pc \in {"headers", "sent", "failed"} => \A x \in match : Holds(x, SourcesOf(c))
     /\ req[c].pc = "mismatch" => \E x \in match : ~Holds(x, SourcesOf(c))

(* Whatever is compared with whatever, through dots that are escaped,      *)
(* defaults, paths and schemas, in whichever order the conditions are      *)
(* looked at and however other requests fill the cache of schemas, the     *)
(* match means what the documents say of it, but for the four cases that   *)
(* Undisputed, TypedParameter and Reaches name and for what cannot be      *)
(* spelled plainly.                                                        *)
MatchMeansAll ==
  \A c \in Call : (\A x \in ExampleOf(c).match : PlainCondition(x, SourcesOf(c))) => Decided(c)

-----------------------------------------------------------------------------
(* What a template means: the value itself if it is one reference, else    *)
(* its parts one after the other, a reference that fails left as written.  *)
Shown(part, sources) ==
  IF part.lit # <<>> THEN part.lit
  ELSE LET value == Meaning(part.ref, sources)
       IN IF value = Error THEN Spell(part.ref) ELSE Inserted(value)

Expanded(tpl, sources) ==
  Str(FlattenSeq([i \in DOMAIN tpl |-> Shown(tpl[i], sources)]))

(* The same, part i filled from request from[i]. *)
Mixed(tpl, from) ==
  FlattenSeq([i \in DOMAIN tpl |-> Shown(tpl[i], SourcesOf(from[i]))])

IsReference(tpl) == Len(tpl) = 1 /\ tpl[1].lit = <<>>

Filled(tpl, sources) ==
  IF IsReference(tpl) THEN Meaning(tpl[1].ref, sources) ELSE Expanded(tpl, sources)

(* No literal opens an expression, and the template does not begin with    *)
(* the only reference and end with a literal brace.                        *)
PlainTemplate(tpl, sources) ==
  /\ \A i \in DOMAIN tpl : IF tpl[i].lit = <<>> THEN Plain(tpl[i].ref) /\ Undisputed(tpl[i].ref, sources)
                           ELSE ~Has(tpl[i].lit, "{$")
  /\ IsReference(tpl) \/ ~isFullExpression(Written(tpl))

BodyMeant(ex, sources) ==
  IF ex.field = <<>> THEN Filled(ex.body, sources)
  ELSE LET key == Filled(ex.field, sources)
       IN IF Error \in {key, Filled(ex.body, sources)} THEN Error
          ELSE Obj([k \in {Inserted(key)} |-> Filled(ex.body, sources)])

(* The header of an example as request c should see it: without a value    *)
(* that of a static example is left out, that of a dynamic one stays.      *)
HeaderMeant(ex, h, c) ==
  LET value == Filled(ex.headers[h], SourcesOf(c))
  IN IF value # Error THEN Inserted(value)
     ELSE IF ex.dynamic THEN Written(ex.headers[h]) ELSE <<>>

(* The headers of a dynamic example keep what the first request put into   *)
(* them, and a part that failed for it is filled by the next one for which *)
(* it succeeds: each part comes from one of the requests they answered.    *)
Gathered(tpl, text, calls) ==
  \E from \in [DOMAIN tpl -> calls] : text = Mixed(tpl, from)

PlainExample(ex, sources) ==
  /\ PlainTemplate(ex.body, sources) /\ PlainTemplate(ex.field, sources)
  /\ \A h \in DOMAIN ex.headers : PlainTemplate(ex.headers[h], sources)

(* The body that a request gets, keys included, is the template filled     *)
(* from that request alone, and so are the headers of a static example.    *)
AnswerIsOwn ==
  \A c \in Call :
    LET ex == ExampleOf(c)
    IN PlainExample(ex, SourcesOf(c)) /\ req[c].pc \in {"headers", "sent", "failed"} =>
         /\ req[c].body = BodyMeant(ex, SourcesOf(c))
         /\ req[c].pc = "sent" /\ ~ex.dynamic =>
              \A h \in DOMAIN ex.headers :
                HeaderMeant(ex, h, c) = IF h \in DOMAIN req[c].headers THEN req[c].headers[h] ELSE <<>>

(* Neither the literals of a template nor what requests put between them   *)
(* is taken for an expression, or for the end of one.                      *)
Quiet(text) == ~Has(text, "{$") /\ (text = <<>> \/ Last(text) # "}")

Settled(tpl, calls) ==
  \A i \in DOMAIN tpl :
    IF tpl[i].lit # <<>> THEN Quiet(tpl[i].lit)
    ELSE \A d \in calls : LET value == Meaning(tpl[i].ref, SourcesOf(d))
                         IN value # Error => Quiet(Inserted(value))

(* The headers of a dynamic example are evaluated again and again in one   *)
(* map, by requests that overwrite each other's: still, each part of a     *)
(* header that is answered is what some request of that example puts       *)
(* there, and nothing is lost, repeated or left unevaluated for all.       *)
HeadersAreGathered ==
  \A c \in Call :
    LET ex   == ExampleOf(c)
        same == {d \in Call : scene.example[d] = scene.example[c]}
    IN req[c].pc = "sent" /\ ex.dynamic =>
         \A h \in DOMAIN ex.headers :
           (\A d \in same : PlainTemplate(ex.headers[h], SourcesOf(d))) /\ Settled(ex.headers[h], same) =>
             /\ h \in DOMAIN req[c].headers
             /\ Gathered(ex.headers[h], req[c].headers[h], same)

(* What generateResponse answers is what the example means to the request, *)
(* but for the headers of a dynamic example, which are gathered.           *)
ResponseIsOwn == AnswerIsOwn /\ HeadersAreGathered

(* Stronger claims that the code refutes.  RS.EXT.7: the headers of an     *)
(* answer come from its request.                                           *)
HeadersAreOwn ==
  \A c \in Call : req[c].pc = "sent" =>
    \A h \in DOMAIN req[c].headers : req[c].headers[h] = HeaderMeant(ExampleOf(c), h, c)

NoMapRace == ~fatal

(* Every key can be written down (RS.EXT.17). *)
AnyKeyMatches ==
  \A c \in Call :
    LET match == ExampleOf(c).match
    IN (\A x \in match : x.ref.mod = "none" /\ x.ref2 = {} /\ x.ref.source = <<"request">>) =>
         (req[c].pc = "mismatch" => \E x \in match : ~Holds(x, SourcesOf(c)))

(* The fields of an event's payload are reached through its data (docs/    *)
(* extensions.md:36), those that are called name and data among them.      *)
ShadowedFieldsReached ==
  \A c \in Call :
    LET match == ExampleOf(c).match
    IN (\A x \in match : /\ x.ref.source = <<"event">> /\ x.ref.mod = "none" /\ x.ref2 = {}
                         /\ PlainKeys(x.ref.keys)) =>
         (req[c].pc = "mismatch" => \E x \in match : ~Holds(x, SourcesOf(c)))

(* Every template is filled part by part. *)
AnyTemplateFilled ==
  \A c \in Call :
    LET ex == ExampleOf(c)
    IN /\ req[c].pc \in {"headers", "sent", "failed"}
       /\ \A i \in DOMAIN ex.body :
            ex.body[i].lit = <<>> => Plain(ex.body[i].ref) /\ Undisputed(ex.body[i].ref, SourcesOf(c))
       /\ ex.field = <<>>
       => req[c].body = BodyMeant(ex, SourcesOf(c))

(* Conditions compare what they are resolved to (RS.EXT.24). *)
AnyMatchHolds ==
  \A c \in Call :
    LET match == ExampleOf(c).match
    IN /\ req[c].pc = "sent"
       /\ \A x \in match : \A r \in {x.ref} \cup x.ref2 : Plain(r) /\ Undisputed(r, SourcesOf(c))
       => \A x \in match : Holds(x, SourcesOf(c))

(* The documents on the four cases that PlainCondition leaves out.         *)
(* RS.EXT.14 and docs/extensions.md:209: a default stands in for a value   *)
(* that is empty too.                                                      *)
DefaultReplacesEmpty ==
  \A c \in Call :
    (\A x \in ExampleOf(c).match :
       Plain(x.ref) /\ x.ref.mod = "default" /\ x.ref2 = {} /\ x.cond.t # "schema") => Decided(c)

(* RS.EXT.15 and docs/extensions.md:210: a path leads into an array. *)
ListsAreEntered ==
  \A c \in Call :
    (\A x \in ExampleOf(c).match :
       Plain(x.ref) /\ x.ref.mod = "getByPath" /\ x.ref2 = {} /\ x.cond.t # "schema") => Decided(c)

(* RS.EXT.2 and docs/extensions.md:16-20: the number that a parameter      *)
(* stands for is validated against a schema for numbers.                   *)
ParametersAreTyped ==
  \A c \in Call :
    (\A x \in ExampleOf(c).match :
       Plain(x.ref) /\ x.ref.mod = "none" /\ x.ref2 = {} /\ x.cond.t = "schema") => Decided(c)

(* RS.ATM.2: {$message.header.trace} is the header of the message. *)
MessageHeaderRead ==
  \A c \in Call :
    (\A x \in ExampleOf(c).match :
       /\ x.ref.source = <<"message">> /\ x.ref.mod = "none" /\ x.ref2 = {} /\ x.cond.t # "schema"
       /\ PlainKeys(x.ref.keys) /\ Len(x.ref.keys) = 2) => Decided(c)
=============================================================================
