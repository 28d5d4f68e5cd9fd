------------------------------ MODULE MCMatching ------------------------------
(***************************************************************************)
(* Three families: three requests whose conditions are schemas, equal,     *)
(* different and broken ones, on a cache of two; one request against every *)
(* expression over six sources; two requests that one dynamic or static    *)
(* example answers.                                                        *)
(***************************************************************************)
EXTENDS Matching

Ref(source, keys, mod, arg) == [source |-> <<source>>, keys |-> keys, mod |-> mod, arg |-> arg]
Simple(source, keys) == Ref(source, keys, "none", <<>>)

Equals(ref, cond) == [ref |-> ref, cond |-> cond, ref2 |-> {}]
Same(ref, other) == [ref |-> ref, cond |-> Null, ref2 |-> {other}]

A == <<"a">>
AdotB == <<"a", ".", "b">>
Back == <<"a", "\\">>

(* What differs between requests is the parameter a. *)
Request(a) ==
  (<<"path">> :> Obj(A :> Str(a))) @@ (<<"query">> :> Obj(AdotB :> Arr(<<Str(a), Str(<<"y">>)>>)))
  @@ (<<"header">> :> Obj(A :> Str(a))) @@ (<<"cookie">> :> Obj(AdotB :> Str(<<"y">>)))
  @@ (<<"body">> :> Obj((<<"h">> :> IF a = <<"y">> THEN Null ELSE Obj(A :> Str(a))) @@ (A :> Obj((AdotB :> Num(<<"1">>)) @@ (Back :> Obj(A :> Str(<<"y">>))))) @@ (Back :> Obj(A :> Num(<<"1">>)))))

Http(a) ==
  (<<"request">> :> Request(a))
  @@ (<<"state">> :> ((A :> Obj(AdotB :> Str(<<"1.0">>))) @@ (<<"b">> :> Null) @@ (<<"c">> :> Str(<<>>))
                      @@ (<<"l">> :> Arr(<<Str(a), Str(<<"y">>)>>))))
  @@ (<<"env">> :> (AdotB :> Str(<<"y">>)))

Emission(a) ==
  (<<"event">> :> ((<<"name">> :> Str(<<"y">>)) @@
                   (<<"data">> :> Obj((<<"name">> :> Str(<<"1">>)) @@ (A :> Obj(A :> Str(a)))))))
  @@ (<<"connection">> :> ((<<"id">> :> Str(a)) @@ (<<"query">> :> Obj(AdotB :> Str(<<"y">>)))))
  @@ (<<"state">> :> (A :> Str(a)))

Message(a) ==
  (<<"message">> :> ((<<"payload">> :> Obj(A :> Obj(AdotB :> Str(a)))) @@ (<<"headers">> :> Obj(A :> Str(<<"y">>)))))
  @@ (<<"channel">> :> (A :> Str(a)))

Sources == {Http(<<"y">>), Http(<<"2">>), Emission(<<"y">>), Message(<<"y">>)}

Refs ==
  UNION {
    {Simple("request", <<<<cat>>, key>>) : cat \in {"path", "query", "header", "cookie"}, key \in {A, <<"A">>, AdotB}},
    {Simple("request", <<<<"body">>>> \o keys) :
            keys \in {<<A>>, <<A, AdotB>>, <<Back, A>>, <<A, Back, A>>, <<A, A>>}},
    {Simple("state", keys) : keys \in {<<A>>, <<A, AdotB>>, <<<<"b">>>>, <<<<"b">>, A>>}},
    {Simple("env", <<AdotB>>), Simple("channel", <<A>>), Simple("channel", <<AdotB>>)},
    {Simple("event", keys) :
            keys \in {<<<<"name">>>>, <<<<"data">>>>, <<A>>, <<A, A>>, <<AdotB>>, <<<<"data">>, <<"name">>>>}},
    {Simple("connection", keys) : keys \in {<<<<"id">>>>, <<<<"id">>, A>>, <<<<"query">>, AdotB>>, <<<<"path">>>>}},
    {Simple("message", keys) : keys \in {<<<<"payload">>, A, AdotB>>, <<<<"payload">>, A>>, <<<<"headers">>, A>>, <<<<"headers">>, A, A>>,
                                            <<<<"header">>, A>>}},
    {Ref(s, <<A>>, "default", <<"y">>) : s \in {"state", "env", "event", "channel"}},
    {Ref("state", <<key>>, "default", <<"y">>) : key \in {<<"b">>, <<"c">>}},
    {Ref("state", <<A>>, "getByPath", keys) : keys \in {<<AdotB>>, <<A>>}},
    {Ref("state", <<<<"l">>>>, "getByPath", <<<<"last">>>>)},
    {Ref("event", <<<<"data">>>>, "getByPath", <<A, A>>), Ref("state", <<A>>, "toJWT", <<>>), Ref("state", <<A>>, "other", <<>>)}}

Literals == {Str(<<"y">>), Str(<<"1">>), Num(<<"1">>), Num(<<"2">>), Null}
Schema(k) == [t |-> "schema", v |-> <<k>>, f |-> <<>>]

Lit(text) == [lit |-> text, ref |-> Simple("state", <<A>>)]
Fill(ref) == [lit |-> <<>>, ref |-> ref]

Path == Simple("request", <<<<"path">>, A>>)
Count == Simple("request", <<<<"body">>, A, AdotB>>)
Half == Ref("request", <<<<"body">>, <<"h">>>>, "getByPath", <<A>>)
Deep == Ref("state", <<A>>, "getByPath", <<A>>)

MCExample(match, field, body, headers, dynamic) ==
  [match |-> match, field |-> field, body |-> body, headers |-> headers, dynamic |-> dynamic]

Bare(match) == MCExample(match, <<>>, <<Lit(<<"x">>)>>, <<>>, FALSE)

(* All requests but c1 have an example that no one matches. *)
Alone(ex, sources) ==
  [example |-> [c \in Call |-> IF c = "c1" THEN "it" ELSE "other"],
   of |-> ("it" :> ex) @@ ("other" :> Bare({Equals(Simple("none", <<A>>), Null)})),
   sources |-> [c \in Call |-> sources]]

Conditions ==
  UNION {
    {{Equals(r, v)} : r \in Refs, v \in Literals},
    {{Same(r, q)} : r \in Refs, q \in {x \in Refs : x.source[1] \in {"event", "connection", "state"}}},
    {{Equals(r, Str(<<"y">>)), Equals(q, Schema(k))} :
       r \in {Path, Simple("env", <<AdotB>>), Simple("event", <<A, A>>)}, q \in {Path, Simple("state", <<A>>)},
       k \in {"k1", "k3"}},
    {{Equals(Count, Schema(k))} : k \in {"k1", "k3"}},
    {{Equals(Path, Schema(k)), Equals(q, Schema(j))} :
       q \in {Path, Simple("env", <<AdotB>>), Simple("state", <<A>>)}, k, j \in {"k1", "k3", "k4"}}}

Texts ==
  UNION {
    {<<>>} \cup {<<p>> : p \in {Lit(<<"x">>), Lit(<<"{">>), Lit(<<"}">>)} \cup {Fill(r) : r \in Refs}},
    {<<p, q>> : p \in {Lit(<<"x">>), Lit(<<"}">>), Fill(Path), Fill(Deep)}, q \in {Lit(<<"{", "x", "}">>), Fill(Path), Fill(Deep)}},
    {<<p, Lit(<<"}">>), q>> : p, q \in {Fill(Path), Fill(Deep), Lit(<<"x">>)}}}

Templates ==
  {MCExample({}, <<>>, t, A :> t, d) : t \in Texts, d \in BOOLEAN}
  \cup {MCExample({}, u, t, <<>>, FALSE) :
          t \in {<<Fill(Path)>>, <<Fill(Deep)>>, <<Lit(<<"x">>), Fill(Path)>>},
          u \in {<<Lit(<<"x">>)>>, <<Fill(Path)>>, <<Fill(Deep)>>, <<Fill(Simple("state", <<A>>))>>, <<Fill(Path), Lit(<<"x">>)>>}}

ThreeSchemas ==
  {[example |-> [c \in Call |-> c],
    of |-> [c \in Call |-> Bare({Equals(Path, Schema(k[c])),
                                 Equals(Simple("env", <<AdotB>>), IF c = "c1" THEN Schema("k2") ELSE Str(<<"y">>))})],
    sources |-> [c \in Call |-> Http(<<"y">>)]] : k \in [Call -> {"k1", "k2", "k3", "k4"}]}

Shared ==
  {[example |-> [c \in Call |-> IF c = "c3" THEN "other" ELSE "it"],
    of |-> ("it" :> MCExample({}, <<>>, <<Lit(<<"x">>), Fill(Path)>>,
                              (A :> <<Fill(Path)>>) @@ (AdotB :> t), d))
           @@ ("other" :> Bare({Equals(Simple("none", <<A>>), Null)})),
    sources |-> [c \in Call |-> Http(IF c = "c1" THEN <<"y">> ELSE <<"2">>)]] :
     t \in {<<Fill(Deep)>>, <<Lit(<<"x">>), Fill(Path)>>, <<Fill(Path), Fill(Half)>>}, d \in BOOLEAN}

MCScene ==
  {Alone(ex, s) : ex \in {Bare(m) : m \in Conditions} \cup Templates, s \in Sources}
  \cup (ThreeSchemas \cup Shared)

Within(values) == values \cup UNION {Range(x.f) : x \in values}
MCValue == Within(Within(Within(Within(UNION {UNION {Range(s[name]) : name \in DOMAIN s} : s \in Sources}))))

MCToken == STRING
MCKey == {<<"k1">>, <<"k2">>, <<"k3">>, <<"k4">>, <<"{...}">>}
MCBroken == {<<"k4">>}
MCAccepts == [k \in MCKey |-> IF k = <<"{...}">> THEN {"string", "number", "null", "object", "list"}
                              ELSE IF k = <<"k3">> THEN {"number"} ELSE {"string"}]
MCFloatOf == (<<"1">> :> 1) @@ (<<"1.0">> :> 1) @@ (<<"2">> :> 2)
MCLower == "A" :> "a"
=============================================================================
