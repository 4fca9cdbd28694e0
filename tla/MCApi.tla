------------------------------- MODULE MCApi -------------------------------
(* Documents of one or two paths, each with a trait that a route or a merge may
   stumble over. *)
EXTENDS Api

L(t) == <<Text(t)>>
P(n) == <<Placeholder(n)>>
Param(name, in) == [name |-> name, in |-> in, required |-> in = "path", ref |-> FALSE]
Op(method, params) == [method |-> method, params |-> params, security |-> FALSE]
Get(params) == Op("get", params)
Item(path, params, ops) == [path |-> path, params |-> params, ops |-> ops]

Id == Param("id", "path")
QueryQ == [Param("q", "query") EXCEPT !.required = TRUE]
Dangling == Param("", Nowhere)

MCItems == {
    Item(<<L("a")>>, <<>>, <<Get(<<QueryQ>>), [Op("post", <<>>) EXCEPT !.security = TRUE]>>),
    Item(<<L("a"), P("id")>>, <<>>, <<Get(<<Id>>), Op("post", <<Id, Param("type", "query")>>)>>),
    Item(<<L("a"), L("a")>>, <<>>, <<Get(<<Param("h", "header"), Param("k", "cookie"), Dangling>>)>>),
    Item(<<L("a") \o L("-") \o L("a")>>, <<>>, <<Get(<<>>)>>),
    Item(<<L("a"), P("type")>>, <<>>, <<Get(<<Param("type", "path")>>)>>),
    Item(<<P("x"), L("a")>>, <<>>, <<Get(<<Param("x", "path")>>)>>),
    Item(<<L("b"), P("id")>>, <<Id, Dangling>>, <<Get(<<Param("q", "query")>>), Op("trace", <<>>)>>),
    Item(<<L("b"), P("x"), P("y")>>, <<Param("y", "path"), [QueryQ EXCEPT !.ref = TRUE]>>,
         <<Get(<<Param("x", "path"), QueryQ>>)>>),
    Item(<<L("c"), P("x"), L("d"), P("y")>>, <<>>, <<Get(<<Param("x", "path"), Param("y", "path")>>)>>),
    Item(<<L("c"), P("id") \o L(".json")>>, <<>>, <<Get(<<Id>>)>>),
    Item(<<<<>>>>, <<[Id EXCEPT !.in = "query"]>>, <<Get(<<>>)>>)}

MCDocuments ==
    {[paths |-> <<i, j>>, schemes |-> {}, security |-> FALSE] : i \in MCItems, j \in MCItems}
    \cup {[paths |-> <<i>>, schemes |-> c, security |-> s] :
            i \in MCItems, c \in {{"apiKey", "bearer"}, {"other"}}, s \in BOOLEAN}

MCUniquePaths == {d \in MCDocuments : Len(d.paths) = 2 => d.paths[1] # d.paths[2]}

MCRenamed == [n \in {"type"} |-> "param_type"]
MCMethods == {"get", "post"}
MCOtherKeys == {"trace"}
MCValues == {L("v"), L("a"), L("v") \o <<Slash>> \o L("w")}
MCTargets ==
    {<<s>> : s \in {L("a"), L("b"), <<>>}}
    \cup {<<s, t>> : s \in {L("a"), L("b")}, t \in {L("a"), L("v"), <<>>}}
    \cup {<<L("c"), L("v") \o L(".json")>>, <<L("c"), <<>>, L("d"), L("v")>>, <<L("c"), L("v"), L("d"), <<>>>>}
=============================================================================
