----------------------------- MODULE Endpoints -----------------------------
(* parseEndpoints (generator/src/IR/EndpointIR.cpp): the operations of an
   OpenAPI document become the endpoints that every back end consumes.

   The document's paths are read one after the other into `collected`, the
   parameters declared at a path into path_params_map; then each collected
   operation is built into an endpoint.  Summaries, schemas, request bodies and
   descriptions are left out. *)
EXTENDS PathTemplates, FiniteSets

CONSTANTS
    Documents,   \* [paths, schemes, security]: see DocumentsAssumption
    Methods,     \* the methods isSupportedMethod accepts
    OtherKeys    \* other keys of a path object

Locations == {"path", "query", "header", "cookie"}
Nowhere == ""
Schemes == {"apiKey", "bearer", "other"}

(* A document: its path objects in order, the types of its securitySchemes and
   whether it has a global `security`.  A path object has a path, the parameters
   of all its operations, and operations with parameters of their own; a
   parameter is given in place or by $ref to a component (ref).  A $ref that leads
   nowhere is read like a parameter given in place, but has no key `in`.  As
   OpenAPI demands, a path parameter is required. *)
IsParam(p) ==
    /\ p \in [name : STRING, in : Locations \cup {Nowhere}, required : BOOLEAN, ref : BOOLEAN]
    /\ p.in = "path" => p.required

IsDocument(d) ==
    /\ d.schemes \subseteq Schemes
    /\ d.security \in BOOLEAN
    /\ d.paths \in Seq(ToSet(d.paths))
    /\ \A i \in DOMAIN d.paths :
          /\ IsPath(d.paths[i].path)
          /\ d.paths[i].params \in Seq(ToSet(d.paths[i].params))
          /\ d.paths[i].ops \in Seq(ToSet(d.paths[i].ops))
          /\ \A j \in DOMAIN d.paths : d.paths[i].path = d.paths[j].path => i = j
          /\ \A k \in DOMAIN d.paths[i].params : IsParam(d.paths[i].params[k])
          /\ \A o \in DOMAIN d.paths[i].ops :
                /\ d.paths[i].ops[o].method \in Methods \cup OtherKeys
                /\ d.paths[i].ops[o].security \in BOOLEAN
                /\ d.paths[i].ops[o].params \in Seq(ToSet(d.paths[i].ops[o].params))
                /\ \A k \in DOMAIN d.paths[i].ops[o].params : IsParam(d.paths[i].ops[o].params[k])

ASSUME DocumentsAssumption == \A d \in Documents : IsDocument(d)
ASSUME MethodsAssumption == Methods \cap OtherKeys = {}

VARIABLES
    doc,              \* the document
    read,             \* the number of its paths that are read
    path_params_map,  \* path-level parameters by name
    collected,        \* the operations read
    order,            \* the iteration order of path_params_map
    scheme,           \* *security_schemes.begin(), or "none"
    built,            \* the number of collected operations that are done
    endpoints,        \* the result
    phase             \* "collect", "build" or "done"

parseVars == <<doc, read, path_params_map, collected, order, scheme, built, endpoints, phase>>

(* Parameters here are strings; parameters that come by $ref are copies of the
   components', for which nobody sets is_string_type. *)
ResolveParameter(p) ==
    [name |-> p.name, wire_name |-> p.name, location |-> p.in, required |-> p.required,
     is_string_type |-> ~p.ref]

(* A map filled in the order of ps: the last one of a name stays. *)
ByName(ps) ==
    [n \in {ps[k].name : k \in DOMAIN ps} |->
        ps[CHOOSE k \in DOMAIN ps : ps[k].name = n /\ \A m \in k + 1..Len(ps) : ps[m].name # n]]

(* operator[] for every entry of m: they replace those of old. *)
Put(m, old) ==
    [n \in DOMAIN m \cup DOMAIN old |-> IF n \in DOMAIN m THEN m[n] ELSE old[n]]

Resolved(ps) == [k \in DOMAIN ps |-> ResolveParameter(ps[k])]

Init ==
    /\ doc \in Documents
    /\ read = 0
    /\ path_params_map = <<>>
    /\ collected = <<>>
    /\ order = <<>>
    /\ scheme = "none"
    /\ built = 0
    /\ endpoints = <<>>
    /\ phase = "collect"

ReadPathForgetful ==
    /\ phase = "collect"
    /\ read < Len(doc.paths)
    /\ LET item == doc.paths[read + 1]
       IN /\ path_params_map' = Put(ByName(Resolved(item.params)), path_params_map)
          /\ collected' = [k \in DOMAIN item.ops |->
                              [path |-> item.path, method |-> item.ops[k].method,
                               op_params |-> Resolved(item.ops[k].params),
                               hasOpSecurity |-> item.ops[k].security]]
    /\ read' = read + 1
    /\ UNCHANGED <<doc, order, scheme, built, endpoints, phase>>

(* One path object: its parameters join those of the paths before it. *)
ReadPath ==
    /\ phase = "collect"
    /\ read < Len(doc.paths)
    /\ LET item == doc.paths[read + 1]
       IN /\ path_params_map' = Put(ByName(Resolved(item.params)), path_params_map)
          /\ collected' = collected \o
                [k \in DOMAIN item.ops |->
                    [path |-> item.path, method |-> item.ops[k].method,
                     op_params |-> Resolved(item.ops[k].params),
                     hasOpSecurity |-> item.ops[k].security]]
    /\ read' = read + 1
    /\ UNCHANGED <<doc, order, scheme, built, endpoints, phase>>

(* Both hash maps are complete: their iteration orders are given, in any way. *)
EndOfPaths ==
    /\ phase = "collect"
    /\ read = Len(doc.paths)
    /\ order' \in SetToSeqs(DOMAIN path_params_map)
    /\ scheme' \in IF doc.schemes = {} THEN {"none"} ELSE doc.schemes
    /\ phase' = "build"
    /\ UNCHANGED <<doc, read, path_params_map, collected, built, endpoints>>

(* The names that get an argument: path-level ones, then the operation's own. *)
ParamOrder(co) ==
    LET own == co.op_params
        New(k) == /\ own[k].name \notin DOMAIN path_params_map
                  /\ \A m \in 1..k - 1 : own[m].name # own[k].name
    IN order \o FlattenSeq([k \in DOMAIN own |-> IF New(k) THEN <<own[k].name>> ELSE <<>>])

LookupPathLevel(co, name) ==
    IF name \in DOMAIN path_params_map THEN path_params_map[name] ELSE ByName(co.op_params)[name]

Lookup(co, name) ==
    LET op_overrides == ByName(co.op_params)
    IN IF name \in DOMAIN op_overrides THEN op_overrides[name] ELSE path_params_map[name]

At(params, location) == Keep(params, {p \in ToSet(params) : p.location = location})

(* Path, then query, then header parameters, under names C++ accepts. *)
MergedParams(co) ==
    LET names == ParamOrder(co)
        all == [k \in DOMAIN names |-> Lookup(co, names[k])]
        ordered == At(all, "path") \o At(all, "query") \o At(all, "header")
    IN [k \in DOMAIN ordered |-> [ordered[k] EXCEPT !.name = SanitizeParamName(@)]]

AuthType(co) ==
    IF (co.hasOpSecurity \/ doc.security) /\ scheme \in {"apiKey", "bearer"} THEN scheme ELSE "none"

EndpointOf(co) ==
    LET params == MergedParams(co)
    IN [method |-> co.method,
        path |-> co.path,
        function_name |-> GenerateFunctionName(co.method, co.path),
        params |-> params,
        auth_type |-> AuthType(co),
        path_template |-> PathTemplate(co.path, {p.name : p \in ToSet(At(params, "path"))})]

BuildEveryEndpoint ==
    /\ phase = "build"
    /\ built < Len(collected)
    /\ endpoints' = Append(endpoints, EndpointOf(collected[built + 1]))
    /\ built' = built + 1
    /\ UNCHANGED <<doc, read, path_params_map, collected, order, scheme, phase>>

BuildEndpoint ==
    /\ phase = "build"
    /\ built < Len(collected)
    /\ LET co == collected[built + 1]
       IN endpoints' = IF co.method \in Methods THEN Append(endpoints, EndpointOf(co)) ELSE endpoints
    /\ built' = built + 1
    /\ UNCHANGED <<doc, read, path_params_map, collected, order, scheme, phase>>

EndOfBuild ==
    /\ phase = "build"
    /\ built = Len(collected)
    /\ phase' = "done"
    /\ UNCHANGED <<doc, read, path_params_map, collected, order, scheme, built, endpoints>>

Parse == ReadPath \/ EndOfPaths \/ BuildEndpoint \/ EndOfBuild

-----------------------------------------------------------------------------
(* What the document says, for comparison. *)

(* The operations of the document in order, with the parameters that apply to
   each: its own, and those of its path that it does not declare itself. *)
Operations ==
    FlattenSeq([i \in DOMAIN doc.paths |->
        LET item == doc.paths[i]
        IN FlattenSeq([o \in DOMAIN item.ops |->
            LET op == item.ops[o]
                Key(p) == <<p.name, p.in>>
                own == {Key(p) : p \in ToSet(op.params)}
            IN IF op.method \notin Methods THEN <<>>
               ELSE <<[method |-> op.method, path |-> item.path,
                       params |-> ToSet(op.params)
                                    \cup {p \in ToSet(item.params) : Key(p) \notin own}]>>])])

(* The document uses each parameter name for one location only, and at path level
   and within an operation for one parameter only. *)
NamesAreUnambiguous ==
    LET shared == UNION {ToSet(item.params) : item \in ToSet(doc.paths)}
        owns == UNION {{ToSet(op.params) : op \in ToSet(item.ops)} : item \in ToSet(doc.paths)}
        all == shared \cup UNION owns
    IN /\ \A p, q \in all : p.name = q.name => p.in = q.in
       /\ \A ps \in owns \cup {shared} : \A p, q \in ps : p.name = q.name => p = q

Arguments(e) == {[name |-> p.wire_name, in |-> p.location, required |-> p.required,
                  ref |-> ~p.is_string_type] : p \in ToSet(e.params)}
Passable(ps) == {p \in ps : p.in \notin {"cookie", Nowhere}}

(* Type invariant: what the data members hold, and that an endpoint has a method
   that http::verb has, parameters in known places and a known kind of auth. *)
ParseTypeOK ==
    /\ doc \in Documents
    /\ read \in 0..Len(doc.paths)
    /\ \A n \in DOMAIN path_params_map : path_params_map[n].name = n
    /\ built \in 0..Len(collected)
    /\ ToSet(order) \subseteq DOMAIN path_params_map
    /\ scheme \in Schemes \cup {"none"}
    /\ phase \in {"collect", "build", "done"}
    /\ \A e \in ToSet(endpoints) :
          /\ e.method \in Methods
          /\ e.auth_type \in {"none", "apiKey", "bearer"}
          /\ \A p \in ToSet(e.params) : p.location \in Locations \ {"cookie"}

(* parseEndpoints loses no operation and adds none: its result lists the document's
   operations with a supported method, in their order, across all paths. *)
EndpointsComplete ==
    phase = "done" =>
        /\ Len(endpoints) = Len(Operations)
        /\ \A k \in DOMAIN endpoints :
              /\ endpoints[k].method = Operations[k].method
              /\ endpoints[k].path = Operations[k].path

(* The merge of path-level and operation-level parameters (lines 153-184) keeps
   every path, query and header parameter that applies to the operation, once and
   in the operation's own version, whatever the order of the hash map is;
   provided that the document does not use one name for two locations. *)
OwnParamsKept ==
    phase = "done" /\ NamesAreUnambiguous =>
        \A k \in DOMAIN endpoints :
            /\ Passable(Operations[k].params) \subseteq Arguments(endpoints[k])
            /\ Len(endpoints[k].params) = Cardinality(Arguments(endpoints[k]))

(* README.md:71, "Path, query, and header parameters become function arguments":
   the arguments of an operation's method are the parameters of that operation. *)
ArgumentsAreParameters ==
    phase = "done" =>
        \A k \in DOMAIN endpoints : Arguments(endpoints[k]) = Passable(Operations[k].params)

(* The emitted client has a member for one kind of credentials, that of the first
   endpoint with any (detectAuth); every endpoint that sends credentials sends
   those.  It holds because one scheme is taken for all operations. *)
OneKindOfAuth ==
    \A d, e \in ToSet(endpoints) : "none" \notin {d.auth_type, e.auth_type} => d.auth_type = e.auth_type
=============================================================================
