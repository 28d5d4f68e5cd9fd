------------------------------ MODULE Expression ------------------------------
(***************************************************************************)
(* Runtime expressions: their grammar, the data sources and the modifiers  *)
(* of internal/runtime/expression.go, the comparison of JSON values of     *)
(* internal/extensions/match.go and the templates of                       *)
(* internal/server/engine_expr.go.                                         *)
(*                                                                         *)
(* A text is a sequence of tokens: the signs "{$", "}", "|", ":", "." and  *)
(* "\\", and words.  A JSON value is [t, v, f]: its type, the text of a    *)
(* string or number, the fields of an object or the items of a list.       *)
(* Missing and Error stand for the second results of the Go functions.     *)
(***************************************************************************)
EXTENDS Naturals, Sequences, SequencesExt, FiniteSetsExt

CONSTANTS FloatOf,    \* strconv.ParseFloat: the numbers that texts stand for
          Lower,      \* strings.ToLower: the words it changes
          MaxDepth    \* maxEvaluationDepth

ASSUME DepthAssumption == MaxDepth \in Nat \ {0}

Json(t, v, f) == [t |-> t, v |-> v, f |-> f]
Str(v)  == Json("string", v, <<>>)
Num(v)  == Json("number", v, <<>>)
Obj(f)  == Json("object", <<>>, f)
Arr(f)  == Json("list", <<>>, f)
Null    == Json("null", <<"null">>, <<>>)
Missing == Json("missing", <<>>, <<>>)
Error   == Json("error", <<>>, <<>>)

(* strings.Index of a sign: its place, or none. *)
Places(text, sign) == {i \in DOMAIN text : text[i] = sign}
Has(text, sign) == Places(text, sign) # {}
Before(text, sign) == SubSeq(text, 1, Min(Places(text, sign)) - 1)
After(text, sign) == SubSeq(text, Min(Places(text, sign)) + 1, Len(text))

(* What is read of a path up to its i-th character: separators are the     *)
(* dots without a backslash before them; the backslash of an escaped dot   *)
(* is left out.                                                            *)
Read(path, acc, i) ==
  LET separates == path[i] = "." /\ (i = 1 \/ path[i - 1] # "\\")
      escapes   == path[i] = "\\" /\ i < Len(path) /\ path[i + 1] = "."
  IN IF separates THEN [parts |-> Append(acc.parts, acc.current), current |-> <<>>]
     ELSE IF escapes THEN acc
     ELSE [parts |-> acc.parts, current |-> Append(acc.current, path[i])]

(* An empty last part is left out. *)
splitEscapedPath(path) ==
  LET read[i \in 0 .. Len(path)] ==
        IF i = 0 THEN [parts |-> <<>>, current |-> <<>>] ELSE Read(path, read[i - 1], i)
      last == read[Len(path)]
  IN IF last.current = <<>> THEN last.parts ELSE Append(last.parts, last.current)

Join(parts) ==
  FlattenSeq([i \in DOMAIN parts |-> IF i = 1 THEN parts[i] ELSE <<".">> \o parts[i]])

Field(obj, part) ==
  IF obj.t = "object" /\ part \in DOMAIN obj.f THEN obj.f[part] ELSE Missing

getNested(obj, parts) ==
  LET found[i \in 0 .. Len(parts)] == IF i = 0 THEN obj ELSE Field(found[i - 1], parts[i])
  IN found[Len(parts)]

-----------------------------------------------------------------------------
(* The data sources.  Every one is a function from the categories or keys  *)
(* of its struct to values; several values of one header or parameter are  *)
(* a list.                                                                 *)
Lookup(src, part) == IF part \in DOMAIN src THEN src[part] ELSE Missing

ToLower(text) ==
  [i \in DOMAIN text |-> IF text[i] \in DOMAIN Lower THEN Lower[text[i]] ELSE text[i]]

(* stringLookup and sliceLookup take the rest of the path as one key. *)
RequestGet(src, parts) ==
  IF Len(parts) < 2 THEN Missing
  ELSE LET category == Lookup(src, parts[1])
       IN CASE parts[1] = <<"body">>   -> getNested(category, Tail(parts))
            [] parts[1] = <<"header">> -> Field(category, ToLower(Join(Tail(parts))))
            [] OTHER                   -> Field(category, Join(Tail(parts)))

(* StateSource, and getMapNested for the payload of an event. *)
StateGet(src, parts) ==
  IF parts = <<>> THEN Missing ELSE getNested(Lookup(src, parts[1]), Tail(parts))

EventGet(src, path, parts) ==
  IF path \in {<<"name">>, <<"data">>} THEN Lookup(src, path)
  ELSE IF Lookup(src, <<"data">>) = Missing THEN Missing
       ELSE StateGet(src[<<"data">>].f, parts)

(* id, channel and path take no part after them into account. *)
ConnectionGet(src, parts) ==
  IF parts = <<>> THEN Missing
  ELSE IF parts[1] \in {<<"query">>, <<"header">>}
       THEN IF Len(parts) = 2 THEN Field(Lookup(src, parts[1]), parts[2]) ELSE Missing
       ELSE Lookup(src, parts[1])

MessageGet(src, parts) ==
  IF Len(parts) < 2 THEN Missing
  ELSE CASE parts[1] = <<"payload">> -> getNested(Lookup(src, parts[1]), Tail(parts))
         [] parts[1] = <<"headers">> /\ Len(parts) = 2 -> Field(Lookup(src, parts[1]), parts[2])
         [] OTHER -> Missing

(* Address parameters and environment variables. *)
FlatGet(src, parts) == IF Len(parts) # 1 THEN Missing ELSE Lookup(src, parts[1])

(* Get of a source; every one splits its path, which is done here.  An     *)
(* event compares the whole path first.                                    *)
sourceGet(name, src, path, parts) ==
  CASE name = <<"request">>    -> RequestGet(src, parts)
    [] name = <<"state">>      -> StateGet(src, parts)
    [] name = <<"event">>      -> EventGet(src, path, parts)
    [] name = <<"connection">> -> ConnectionGet(src, parts)
    [] name = <<"message">>    -> MessageGet(src, parts)
    [] OTHER                   -> FlatGet(src, parts)

-----------------------------------------------------------------------------
getByPath(value, parts) ==
  LET found(result) == IF parts = <<>> \/ result = Missing THEN Error ELSE result
  IN found(getNested(value, parts))

applyModifier(value, modifier) ==
  IF ~Has(modifier, ":")
  THEN IF modifier = <<"toJWT">> THEN Str(<<"[JWT stub]">>) ELSE Error
  ELSE CASE Before(modifier, ":") = <<"default">>   -> value
         [] Before(modifier, ":") = <<"getByPath">> ->
              getByPath(value, splitEscapedPath(After(modifier, ":")))
         [] OTHER -> Error

(* A default stands in for what is not found; without a modifier that is   *)
(* null, and the other modifiers are applied to null.                      *)
Modified(value, modifier) ==
  CASE modifier = <<>> -> IF value = Missing THEN Null ELSE value
    [] modifier # <<>> /\ value = Missing /\ IsPrefix(<<"default", ":">>, modifier) ->
         Str(SubSeq(modifier, 3, Len(modifier)))
    [] OTHER -> applyModifier(IF value = Missing THEN Null ELSE value, modifier)

(* Before a bar and after it; the modifier is <<>> without a bar. *)
Inner(text) == IF Has(text, "|") THEN Before(text, "|") ELSE text
Modifier(text) == IF Has(text, "|") THEN After(text, "|") ELSE <<>>

(* The value of a path in a source. *)
ValueOf(name, path, sources) == sourceGet(name, sources[name], path, splitEscapedPath(path))

Evaluate(expr, sources) ==
  LET inner(text) ==
        IF ~Has(text, ".") \/ Before(text, ".") \notin DOMAIN sources THEN Error
        ELSE ValueOf(Before(text, "."), After(text, "."), sources)
      modified(value, modifier) == IF value = Error THEN Error ELSE Modified(value, modifier)
      parsed(text) == modified(inner(Inner(text)), Modifier(text))
  IN IF expr = <<>> \/ Head(expr) # "{$" \/ Last(expr) # "}" THEN Error
     ELSE parsed(SubSeq(expr, 2, Len(expr) - 1))

(* equalJSON: as numbers if both are, strings of digits included. *)
Numeric(x) == x.t \in {"string", "number"} /\ x.v \in DOMAIN FloatOf

equalJSON(a, b) ==
  IF Numeric(a) /\ Numeric(b) THEN FloatOf[a.v] = FloatOf[b.v] ELSE a = b

-----------------------------------------------------------------------------
(* json.Marshal; the texts of objects and lists are not told apart. *)
Marshal(x) ==
  CASE x.t = "object" -> <<"{...}">>
    [] x.t = "list"   -> <<"[...]">>
    [] OTHER          -> x.v

(* A string without quotes, any other value as JSON. *)
Inserted(x) == IF x.t = "string" THEN x.v ELSE Marshal(x)

(* The brace that closes the expression at start: the first one at which   *)
(* there are as many closing as opening ones.                              *)
closings(text, start) ==
  {j \in start + 1 .. Len(text) :
     /\ text[j] = "}"
     /\ Cardinality({i \in start .. j : text[i] = "{$"}) = Cardinality({i \in start .. j : text[i] = "}"})}

(* An expression that cannot be evaluated is lost. *)
FaultyReplaced(expr, value) == Inserted(value)

(* An expression that cannot be evaluated stays as it is. *)
Replaced(expr, value) == IF value = Error THEN expr ELSE Inserted(value)

(* How many characters are left behind an expression. *)
FaultyBehind(text, end) == Len(text) - end + 1
Behind(text, end) == Len(text) - end

(* The last n characters of the text, from the last to all of them: what   *)
(* is before the first expression, its value, and what is behind it.       *)
replaceEmbeddedExpressions(text, sources) ==
  LET opens(from) == {i \in from .. Len(text) : text[i] = "{$"}
      value(expr) == Replaced(expr, Evaluate(expr, sources))
      replaced[n \in 0 .. Len(text)] ==
        LET from  == Len(text) - n + 1
            start == Min(opens(from))
            end   == Min(closings(text, start))
        IN IF opens(from) = {} \/ closings(text, start) = {} THEN SubSeq(text, from, Len(text))
           ELSE SubSeq(text, from, start - 1) \o value(SubSeq(text, start, end))
                  \o replaced[Behind(text, end)]
  IN replaced[Len(text)]

isFullExpression(text) ==
  text # <<>> /\ Head(text) = "{$" /\ Last(text) = "}" /\ Cardinality(Places(text, "{$")) = 1

(* The value of a string: that of the expression if it is one, else a text *)
(* in which the expressions are replaced.                                  *)
evaluateString(text, sources) ==
  IF isFullExpression(text) THEN Evaluate(text, sources)
  ELSE Str(replaceEmbeddedExpressions(text, sources))

(* That value as a text, or an error. *)
AsText(value) == IF value = Error THEN Error ELSE Str(Inserted(value))

evaluateExpressionInString(text, sources) == AsText(evaluateString(text, sources))

(* The values that a template may give, from those of its fields or items. *)
(* An object whose keys are evaluated to one key keeps the one that comes  *)
(* last in the order of the map.                                           *)
ObjectsOf(val, sources, item) ==
  LET key == [k \in DOMAIN val.f |-> evaluateExpressionInString(k, sources)]
  IN IF \E k \in DOMAIN val.f : key[k] = Error \/ Error \in item[k] THEN {Error}
     ELSE {Obj(f) : f \in {g \in [{key[k].v : k \in DOMAIN val.f} -> UNION Range(item)] :
             \A n \in DOMAIN g : \E k \in DOMAIN val.f : key[k].v = n /\ g[n] \in item[k]}}

ListsOf(val, item) ==
  IF \E k \in DOMAIN val.f : Error \in item[k] THEN {Error}
  ELSE {Arr(f) : f \in {g \in [DOMAIN val.f -> UNION Range(item)] : \A k \in DOMAIN g : g[k] \in item[k]}}

evaluateValueDepth(val, sources, item) ==
  CASE val.t = "string" -> {evaluateString(val.v, sources)}
    [] val.t = "object" -> ObjectsOf(val, sources, item)
    [] val.t = "list"   -> ListsOf(val, item)
    [] OTHER            -> {val}

(* Depth by depth, from the greatest one; what is deeper is an error.      *)
evaluateValue(val, sources) ==
  LET nested[d \in 0 .. MaxDepth] ==
        IF d = 0 THEN {val} ELSE UNION {Range(x.f) : x \in nested[d - 1]}
      evaluated[h \in 0 .. MaxDepth] ==
        [x \in nested[MaxDepth - h] |->
           evaluateValueDepth(x, sources,
             [k \in DOMAIN x.f |-> IF h = 0 THEN {Error} ELSE evaluated[h - 1][x.f[k]]])]
  IN evaluated[MaxDepth][val]

(* resolveHeaderValue of an example's headers; Missing if the header is    *)
(* left out.  Of a list the first item counts, if its value is a string.   *)
resolveStringHeader(text, sources) ==
  LET shown(value) == IF value = Error THEN Missing ELSE Str(Inserted(value))
  IN shown(evaluateString(text, sources))

resolveSliceHeader(items, sources) ==
  LET shown(value) == IF value.t = "string" THEN value ELSE Missing
  IN IF items = <<>> \/ items[1].t # "string" THEN Missing
     ELSE shown(evaluateString(items[1].v, sources))

resolveHeaderValue(val, sources) ==
  CASE val.t = "string" -> resolveStringHeader(val.v, sources)
    [] val.t = "list"   -> resolveSliceHeader(val.f, sources)
    [] OTHER            -> Missing
=============================================================================
