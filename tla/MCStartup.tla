------------------------------ MODULE MCStartup ------------------------------
(***************************************************************************)
(* A server without schemas, and five families: two documents with         *)
(* examples of every kind, named or not; an AsyncAPI document beside an    *)
(* OpenAPI one, the prefix spelled in different ways; two OpenAPI          *)
(* documents with procedures; documents with a fault.                      *)
(***************************************************************************)
EXTENDS Startup

Cond(k, v) == [key |-> k, val |-> v]

Matches ==
  {{}, {Cond("event.name", "order")}, {Cond("event.name", "$state")},
   {Cond("connection", "$event")}, {Cond("reply", "x")}, {Cond("reply", "x"), Cond("event", "y")},
   {Cond("event.name", "order"), Cond("state", "$reply")}, {Cond("connection", "z")},
   {Cond("event.name", "<none>")}, {Cond("event.name", "")}}

Kind ==
  {[match |-> m, interval |-> i, delay |-> "absent"] : m \in Matches, i \in {"absent", "good"}}
    \cup {[match |-> m, interval |-> "fraction", delay |-> "absent"] : m \in {{}, {Cond("event.name", "order")}}}
    \cup {[match |-> {Cond("event.name", "order")}, interval |-> "absent", delay |-> d] : d \in {"good", "negative", "fraction"}}
    \cup {[match |-> {}, interval |-> "good", delay |-> d] : d \in {"negative", "fraction"}}

MCExample(names) ==
  {[address |-> "a", name |-> n, match |-> k.match, interval |-> k.interval, delay |-> k.delay] :
     n \in names, k \in Kind}

P(name) == <<Slash, name>>

Channel(id, address, protocols) == [id |-> id, address |-> address, protocols |-> protocols]
Op(ch, protocols, method) == [channel |-> ch, protocols |-> protocols, method |-> method]

AsyncDoc == [kind |-> "asyncapi", prefix |-> <<>>, paths |-> <<>>, rpc |-> "none", gateway |-> <<>>,
             version |-> "3.0.0", channels |-> <<Channel("a", P("a"), <<"ws">>)>>,
             operations |-> <<Op("a", <<>>, "GET")>>, signalr |-> FALSE, hub |-> <<>>, examples |-> <<>>]

Doc(prefix, examples) ==
  [AsyncDoc EXCEPT !.prefix = prefix, !.examples = examples, !.channels[1].address = P("t")]

WithExamples ==
  {<<Doc(P("p"), <<x>>), Doc(P("q"), s)>> :
     x \in {y \in MCExample({"n1"}) : y.delay = "absent" /\ y.interval # "fraction" /\ Cardinality(y.match) < 2},
     s \in {<<>>} \cup {<<y>> : y \in MCExample({"n1"})}
            \cup {<<y, z>> : y \in MCExample({"n1"}), z \in MCExample({"n1", "n2"})}}

(* The examples of one channel, named or not. *)
Unnamed ==
  {<<Doc(P("p"), s)>> : s \in [1 .. 2 -> {x \in MCExample({"", "n1"}) : x.interval = "good"}]}

SpelledPrefix == {<<>>, P("p"), P("p") \o <<Slash>>, <<"p">>, <<Slash>>}

(* A ws channel, an http channel with two methods, or both in one. *)
Bound ==
  {[AsyncDoc EXCEPT !.prefix = p, !.channels[1].address = a, !.signalr = h[1], !.hub = h[2]] :
     p \in SpelledPrefix, a \in {P("a"), <<"a">>},
     h \in {<<FALSE, <<>>>>, <<TRUE, P("a")>>, <<TRUE, <<>>>>}}
  \cup
  {[AsyncDoc EXCEPT !.prefix = p, !.channels[1].protocols = c,
                    !.operations = <<Op("a", <<"http">>, "POST"), Op("a", <<"http">>, "GET")>>] :
     p \in SpelledPrefix, c \in {<<>>, <<"ws">>}}

Entry(path, method, op) == [path |-> path, method |-> method, op |-> op]

OpenDoc == [AsyncDoc EXCEPT !.kind = "openapi", !.version = "", !.channels = <<>>, !.operations = <<>>]

Entries(op) ==
  <<Entry(P("a"), "GET", ""), Entry(P("r"), "POST", ""), Entry(P("r") \o P("a"), "GET", ""),
    Entry(P("r") \o P("a"), "POST", op)>>

Open(prefix, rpc, gateway, op) ==
  [OpenDoc EXCEPT !.prefix = prefix, !.rpc = rpc, !.gateway = gateway, !.paths = Entries(op)]

Mixed ==
  UNION {{<<o, b>>, <<b, o>>} :
           o \in {Open(p, rpc, P("r"), "x") : p \in {<<>>, P("p"), P("q") \o <<Slash>>}, rpc \in {"none", "good"}},
           b \in Bound}

Procedures ==
  {<<Open(p, r1, g, "x"), Open(q, r2, P("r"), op)>> :
     p \in {<<>>, P("p"), <<Slash>>}, q \in {P("q"), P("p")}, r1 \in {"none", "good", "bad"},
     r2 \in {"none", "good", "bad", "incomplete"},
     g \in {P("r"), <<"r">>, P("r") \o <<Slash>>, <<Slash>>}, op \in {"x", "y", ""}}

WithFault ==
  {<<d>> : d \in
    {[AsyncDoc EXCEPT !.version = v, !.operations = o, !.channels = c, !.signalr = h] : h \in BOOLEAN,
       v \in {"", "2", "3.0.0", "3.1.0", "3.2.0"}, o \in {<<>>, <<Op("a", <<>>, "GET")>>, <<Op("b", <<"ws">>, "GET"), Op("a", <<"ws">>, "GET")>>},
       c \in {<<>>} \cup {<<Channel("a", a, prots)>> :
                a \in {<<>>, P("a")}, prots \in {<<>>, <<"ws">>, <<"kafka">>, <<"kafka", "http">>}}}}

MCDocuments == {<<>>} \cup WithExamples \cup Unnamed \cup Mixed \cup Procedures \cup WithFault

MCRequest ==
  {r \in [path : {<<>>, P("a"), P("r") \o P("a")}, channel : {<<>>, P("a"), P("p") \o P("a")},
          protocol : {"", "ws", "http", "signalr"}, method : {"GET", "POST"},
          conditions : {"none", "event", "reply", "both"}, interval : BOOLEAN,
          body : {"fits", "wrong"}, validate : {TRUE}] :
     r.path # <<>> => r.channel = <<>> /\ r.conditions = "none"}

MCSpelling == UNION {[1 .. n -> {Slash, "a"}] : n \in 0 .. 4}
=============================================================================
