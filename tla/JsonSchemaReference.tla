------------------------- MODULE JsonSchemaReference -------------------------
(***************************************************************************)
(* What a schema means, after the JSON Schema specification, and how far    *)
(* the verdicts of JsonSchema agree with it. A schema is taken to be one:   *)
(* a keyword has the type of value the specification gives it, an object no *)
(* two fields of one name, and no name a # in it.                           *)
(***************************************************************************)
EXTENDS JsonSchema

CONSTANT Chars(_)   \* the length of a text in characters

Fields(s) == ToSet(s.fields)
Members(v) == ToSet(v.items)
Has(s, key) == key \in Keys(s)

\* A value and all the values in it.
RECURSIVE Parts(_)
Parts(v) ==
  {v} \cup CASE IsArray(v) -> UNION {Parts(x) : x \in Members(v)}
             [] IsObject(v) -> UNION {Parts(f.value) : f \in Fields(v)}
             [] OTHER -> {}

\* Numbers are equal by value, objects whatever the order of their fields.
RECURSIVE Same(_, _)
Same(a, b) ==
  CASE IsNumber(a) -> IsNumber(b) /\ a.num = b.num
    [] IsArray(a) -> /\ IsArray(b) /\ Len(a.items) = Len(b.items)
                     /\ \A i \in DOMAIN a.items : Same(a.items[i], b.items[i])
    [] IsObject(a) -> /\ IsObject(b) /\ Keys(a) = Keys(b)
                      /\ \A k \in Keys(a) : Same(Get(a, k), Get(b, k))
    [] OTHER -> a = b

TypesOf(v) ==
  CASE v.t = "bool" -> {"boolean"}
    [] IsNumber(v) -> {"number"} \cup (IF v.num % Unit = 0 THEN {"integer"} ELSE {})
    [] OTHER -> {v.t}

\* n is a whole number of times m.
Multiple(n, m) == \E k \in (IF n < 0 THEN n .. -n ELSE -n .. n) : n = k * m

\* A limit between two numbers or sizes, for the instances it is about.
Bounded(key, arg, v) ==
  /\ IsNumber(v) => /\ key = "maximum" => v.num <= arg.num
                    /\ key = "minimum" => arg.num <= v.num
                    /\ key = "exclusiveMaximum" => v.num < arg.num
                    /\ key = "exclusiveMinimum" => arg.num < v.num
                    /\ key = "multipleOf" => Multiple(v.num, arg.num)
  /\ IsString(v) => /\ key = "maxLength" => Unit * Chars(v.str) <= arg.num
                    /\ key = "minLength" => arg.num <= Unit * Chars(v.str)
                    /\ key = "pattern" => PatternFound(arg.str, v.str)
  /\ IsArray(v) => /\ key = "maxItems" => Unit * Len(v.items) <= arg.num
                   /\ key = "minItems" => arg.num <= Unit * Len(v.items)
                   /\ (key = "uniqueItems" /\ arg.b) =>
                        \A i, j \in DOMAIN v.items : i # j => ~Same(v.items[i], v.items[j])
  /\ IsObject(v) => /\ key = "maxProperties" => Unit * Len(v.fields) <= arg.num
                    /\ key = "minProperties" => arg.num <= Unit * Len(v.fields)
                    /\ key = "required" => {r.str : r \in Members(arg)} \subseteq Keys(v)

\* The schema at a JSON pointer "#/...".
Pointer(rs, uri) == FoldLeft(Get, rs, Tail(uri))

\* Does schema s, inside document rs, accept v?
RECURSIVE Accepts(_, _, _)
Accepts(rs, s, v) ==
  LET Acc(sub, w) == Accepts(rs, sub, w)
      Holds(key, arg) ==
        CASE key = "type" ->
               TypesOf(v) \cap (IF IsArray(arg) THEN {x.str : x \in Members(arg)}
                                                ELSE {arg.str}) # {}
          [] key = "enum" -> \E x \in Members(arg) : Same(v, x)
          [] key = "const" -> Same(v, arg)
          [] key = "allOf" -> \A sub \in Members(arg) : Acc(sub, v)
          [] key = "anyOf" -> \E sub \in Members(arg) : Acc(sub, v)
          [] key = "oneOf" -> Cardinality({i \in DOMAIN arg.items : Acc(arg.items[i], v)}) = 1
          [] key = "not" -> ~Acc(arg, v)
          [] key = "if" -> LET branch == IF Acc(arg, v) THEN "then" ELSE "else"
                           IN Has(s, branch) => Acc(Get(s, branch), v)
          [] key = "properties" -> IsObject(v) =>
               \A p \in Fields(arg) : p.key \in Keys(v) => Acc(p.value, Get(v, p.key))
          [] key = "patternProperties" -> IsObject(v) =>
               \A p \in Fields(arg), f \in Fields(v) :
                 PatternFound(p.key, f.key) => Acc(p.value, f.value)
          [] key = "additionalProperties" -> IsObject(v) =>
               \A f \in Fields(v) :
                 \/ Has(s, "properties") /\ f.key \in Keys(Get(s, "properties"))
                 \/ Has(s, "patternProperties") /\
                      \E p \in Keys(Get(s, "patternProperties")) : PatternFound(p, f.key)
                 \/ Acc(arg, f.value)
          [] key = "items" -> IsArray(v) =>
               \A i \in DOMAIN v.items :
                 \/ Has(s, "prefixItems") /\ i <= Len(Get(s, "prefixItems").items)
                 \/ Acc(arg, v.items[i])
          [] key = "prefixItems" -> IsArray(v) =>
               \A i \in DOMAIN v.items \cap DOMAIN arg.items : Acc(arg.items[i], v.items[i])
          [] key = "contains" -> IsArray(v) =>
               LET n == Cardinality({i \in DOMAIN v.items : Acc(arg, v.items[i])})
               IN /\ Unit * n >= IF Has(s, "minContains") THEN Get(s, "minContains").num ELSE Unit
                  /\ Has(s, "maxContains") => Unit * n <= Get(s, "maxContains").num
          [] key = "dependentSchemas" -> IsObject(v) =>
               \A p \in Fields(arg) : p.key \in Keys(v) => Acc(p.value, v)
          [] key = "dependentRequired" -> IsObject(v) =>
               \A p \in Fields(arg) :
                 p.key \in Keys(v) => {r.str : r \in Members(p.value)} \subseteq Keys(v)
          [] key = "$ref" -> Acc(Pointer(rs, arg.uri), v)
          [] OTHER -> Bounded(key, arg, v)
  IN IF IsObject(s) THEN \A f \in Fields(s) : Holds(f.key, f.value) ELSE s.b

-----------------------------------------------------------------------------
(* The schemas the validator treats as the specification does. *)

Annotations == {"$schema", "title", "description", "default", "deprecated", "readOnly",
                "writeOnly", "contentEncoding", "contentMediaType", "contentSchema",
                "maxContains"}

Within(v, tags) == \A p \in Parts(v) : p.t \in tags

\* A value that is no schema, but that build_schema_tree would read as one.
Inert(v) == \A p \in Parts(v) : IsObject(p) => Keys(p) \cap KnownKeywords = {}

PlainField(f, constTags) ==
  /\ f.key \in PlainKeywords
  /\ f.key \in {"enum", "const"} => Within(f.value, constTags) /\ Inert(f.value)
  /\ IsNumber(f.value) /\ f.key # "minimum" => f.value.num >= 0

Annotation(f) ==
  f.key \in Annotations /\ f.value.t # "bool" /\ Inert(f.value)

\* A name that is found again behind the last slash of a URI.
WholeName(name) == Pieces(name) = <<name>>

\* The code counts a text of the instance in bytes, and takes numbers that are
\* very close for equal: where that makes no difference.
NarrowTexts == \A p \in Parts(instance) : IsString(p) => Bytes(p.str) = Chars(p.str)
CoarseNumbers(arg) ==
  \A p \in Parts(instance) \cup {arg} : IsNumber(p) => p.num % (Tolerance + 1) = 0

SizeKeywords == {"maxLength", "minLength", "maxItems", "minItems", "maxProperties",
                 "minProperties"}

\* Plain keywords, sizes being integers without a fraction; properties and the
\* like of such schemas; items, contains and not of such a schema with one
\* keyword, the only one the code applies.
RECURSIVE Exact(_)
Exact(s) ==
  /\ IsObject(s)
  /\ \A f \in Fields(s) :
       \/ /\ PlainField(f, {"string", "bool", "null", "array"})
          /\ f.key # "uniqueItems"
          /\ f.key \in SizeKeywords => f.value.t = "int64"
          /\ f.key \in {"maxLength", "minLength"} => NarrowTexts
          /\ f.key = "multipleOf" => CoarseNumbers(f.value)
       \/ /\ f.key \in {"properties", "patternProperties", "dependentSchemas"}
          /\ \A p \in Fields(f.value) : WholeName(p.key) /\ Exact(p.value)
       \/ /\ f.key \in {"items", "contains", "not"}
          /\ Exact(f.value) /\ Len(f.value.fields) = 1
          /\ \A g \in Fields(f.value) : g.key \notin DefsKeywords
       \/ f.key = "$ref" /\ f.value.uri = <<"#">>
       \/ f.key \in DefsKeywords /\ \A p \in Fields(f.value) : Exact(p.value)
       \/ Annotation(f) /\ f.key # "maxContains"

\* The references a schema makes about the instance it is applied to.
RECURSIVE OwnRefs(_)
OwnRefs(s) ==
  IF ~IsObject(s) THEN {}
  ELSE UNION {CASE f.key = "$ref" -> {f.value.uri}
                [] f.key \in {"allOf", "anyOf", "oneOf"} ->
                     UNION {OwnRefs(x) : x \in Members(f.value)}
                [] f.key \in {"not", "if", "then", "else"} -> OwnRefs(f.value)
                [] f.key = "dependentSchemas" ->
                     UNION {OwnRefs(p.value) : p \in Fields(f.value)}
                [] OTHER -> {} : f \in Fields(s)}

AllRefs(v) ==
  UNION {{f.value.uri : f \in {g \in Fields(p) : g.key = "$ref"}} :
           p \in {q \in Parts(v) : IsObject(q)}}

\* The schemas whose keywords are enforced or ignored, but never misread: also
\* the combinators (of schemas that are objects), if at the root, and
\* additionalProperties after the properties it is about.
RECURSIVE NotMisread(_, _)
NotMisread(s, atRoot) ==
  \/ s.t = "bool"
  \/ /\ IsObject(s)
     /\ \A i \in DOMAIN s.fields :
          LET f == s.fields[i] IN
          \/ /\ PlainField(f, {"string", "bool", "null", "array", "object"})
             /\ f.key = "maxLength" => NarrowTexts
          \/ /\ f.key \in {"properties", "patternProperties", "dependentSchemas"}
             /\ \A p \in Fields(f.value) : WholeName(p.key) /\ NotMisread(p.value, FALSE)
          \/ f.key = "items" /\ NotMisread(f.value, FALSE) /\ ~Has(s, "prefixItems")
          \/ f.key = "contains" /\ NotMisread(f.value, FALSE) /\ ~Has(s, "minContains")
          \/ f.key = "not" /\ Exact([t |-> "object", fields |-> <<f>>]) /\ AllRefs(f.value) = {}
          \/ /\ f.key = "additionalProperties" /\ NotMisread(f.value, FALSE)
             /\ \A j \in DOMAIN s.fields :
                  s.fields[j].key \in {"properties", "patternProperties"} => j < i
          \/ f.key \in ListedKeywords
             /\ \A x \in Members(f.value) : IsObject(x) /\ NotMisread(x, FALSE)
          \/ f.key = "if" /\ atRoot /\ NotMisread(f.value, FALSE)
          \/ f.key \in {"then", "else", "contentSchema"}
             /\ IsObject(f.value) /\ NotMisread(f.value, FALSE)
          \/ f.key \in {"$ref", "dependentRequired"}
          \/ f.key \in DefsKeywords /\ \A p \in Fields(f.value) : NotMisread(p.value, FALSE)
          \/ Annotation(f)

\* References go to the root or to a definition, and none leads back to the
\* schema that makes it with the same instance.
Productive(s) ==
  LET defs == UNION {{<<"#", k, name>> : name \in {n \in Keys(Get(s, k)) : WholeName(n)}} :
                       k \in DefsKeywords \cap Keys(s)}
  IN /\ AllRefs(s) \subseteq {<<"#">>} \cup defs
     /\ <<"#">> \notin OwnRefs(s)
     /\ \A d \in defs : OwnRefs(Pointer(s, d)) = {}

-----------------------------------------------------------------------------
(* What validate_node calls itself for. *)

\* The nodes it may go to from node with the same instance, and those it goes to
\* whatever the instance is.
SameInstance(node) ==
  CASE node.keyword = "$schema" -> ToSet(node.children)
    [] node.keyword \in {"not", "if"} -> {node.children[i] : i \in DOMAIN node.children \cap {1}}
    [] node.keyword = "$ref" ->
         LET target == find_ref(root, node.value.uri)
         IN IF target.found = "node" THEN {target.node} ELSE {}
    [] OTHER -> {}
MaySameInstance(node) ==
  SameInstance(node) \cup
  IF node.keyword = "dependentSchemas"
  THEN UNION {ToSet(p.children) : p \in ToSet(node.children)} ELSE {}

RECURSIVE Closure(_, _)
Closure(nodes, step) ==
  LET more == nodes \cup UNION {step[n] : n \in nodes}
  IN IF more = nodes THEN nodes ELSE Closure(more, step)

OnCycle(node, step) == node \in Closure(step[node], step)

-----------------------------------------------------------------------------
(* Properties. *)

Accepted == result.errors = 0
MayReject == result.ub \/ ~Accepted
Verdict == phase = "done" /\ ~result.overflow

\* For a schema of the exact fragment the verdict of validate is the one of the
\* specification: the errors of a trial (not, contains) never leak into the
\* verdict, recursion through "#" ends with the instance, and no stale pointer
\* is followed.
VerdictIsExact ==
  Verdict /\ Exact(schema) =>
    ~result.ub /\ (Accepted <=> Accepts(schema, schema, instance))

\* Many keywords are ignored or only partly applied (the combinators, then and
\* else, all but the first keyword of a subschema, a false additionalProperties,
\* the target of a $ref to a definition), so an instance may be accepted wrongly.
\* As long as no keyword is misread, none is rejected wrongly.
RejectionsAreRight ==
  Verdict /\ MayReject /\ NotMisread(schema, TRUE) /\ Productive(schema) =>
    ~Accepts(schema, schema, instance)

\* build_schema_tree makes parent and ids_ point to variables and into vectors
\* that are moved. What validate follows of these pointers is good unless an if
\* or an additionalItems is below the root, or a $ref names a $id: root_node_
\* stays where it is, and collect_anchors registers what is in its place.
StaleOnlyBelowRoot ==
  phase = "done" /\ result.ub =>
    \/ \E p \in Parts(schema) \ {schema} :
         IsObject(p) /\ (Has(p, "if") \/ Has(p, "additionalItems"))
    \/ \E p \in Parts(schema) :
         IsObject(p) /\ Has(p, "$id") /\ Get(p, "$id").uri \in AllRefs(schema)

\* validate_node has no guard against references that lead back to themselves.
\* It fails to return only where some reference does so without a step into the
\* instance; and always, when the root gets to one whatever the instance is.
DivergesExactly ==
  phase = "done" =>
    LET nodes == ToSet(Preorder(root))
        may == [n \in nodes |-> MaySameInstance(n)]
        must == [n \in nodes |-> SameInstance(n)]
    IN /\ result.overflow => \E n \in nodes : OnCycle(n, may)
       /\ (\E n \in Closure({root}, must) : OnCycle(n, must)) => result.overflow
=============================================================================
