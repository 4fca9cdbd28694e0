----------------------------- MODULE JsonSchema -----------------------------
(***************************************************************************)
(* The JSON schema validator of jsonschema/: compile builds a tree of       *)
(* keyword nodes from a schema, validate walks it with an instance, and     *)
(* the program calls each of them once.                                     *)
(*                                                                          *)
(* JSON is a record tagged t; an object is the sequence of its fields,      *)
(* since the order of keywords matters to the code; numbers are counted in  *)
(* units of 1 / Unit. A URI is the sequence of its tokens, as a slash and   *)
(* the first # separate them: "x#/a" is <<"x", "#", "a">>, and the anchor   *)
(* "#a" is <<"#", "&", "a">>. The texts of errors are left out: what the    *)
(* code reads of errors_ is its size.                                       *)
(***************************************************************************)
EXTENDS Integers, Sequences, FiniteSets, SequencesExt

CONSTANTS
  Schemas, Instances,    \* the documents the program is given
  PatternFound(_, _),    \* std::regex_search (or find, for a bad pattern)
  Pieces(_),             \* a name, cut at its slashes
  Bytes(_),              \* std::string::size of a text (in UTF-8)
  Unit, Tolerance,       \* how many units make 1, and 1e-10
  MaxDepth,              \* frames of validate_node the stack holds
  SizeMod                \* 2^64 in the code: size_t, in the limits of sizes

VARIABLES
  phase,     \* "start", "compiled", "done" or "failed" (exit without verdict)
  schema,    \* the schema document
  root,      \* root_node_
  instance,  \* the instance document
  result     \* what validate_node left: errors and context

vars == <<phase, schema, root, instance, result>>

None == [t |-> "none"]

-----------------------------------------------------------------------------
(* JSON values (simdjson's element). *)

IsObject(v) == v.t = "object"
IsArray(v) == v.t = "array"
IsString(v) == v.t = "string"
IsNumber(v) == v.t \in {"int64", "double"}
Keys(v) == {v.fields[i].key : i \in DOMAIN v.fields}
Get(v, key) == v.fields[CHOOSE i \in DOMAIN v.fields : v.fields[i].key = key].value

\* Numbers are compared with a tolerance.
Near(a, b) == a - b \in -Tolerance .. Tolerance

\* Fields compared one by one, in the order they are written.
RECURSIVE json_equal_ordered(_, _)
json_equal_ordered(a, b) ==
  /\ a.t = b.t
  /\ CASE IsArray(a) -> /\ Len(a.items) = Len(b.items)
                        /\ \A i \in DOMAIN a.items : json_equal_ordered(a.items[i], b.items[i])
       [] IsObject(a) -> /\ Len(a.fields) <= Len(b.fields)
                         /\ \A i \in DOMAIN a.fields :
                              /\ a.fields[i].key = b.fields[i].key
                              /\ json_equal_ordered(a.fields[i].value, b.fields[i].value)
       [] IsNumber(a) -> Near(a.num, b.num)
       [] OTHER -> a = b

RECURSIVE json_equal(_, _)
json_equal(a, b) ==
  /\ a.t = b.t
  /\ CASE IsArray(a) -> /\ Len(a.items) = Len(b.items)
                        /\ \A i \in DOMAIN a.items : json_equal(a.items[i], b.items[i])
       [] IsObject(a) -> \A k \in Keys(a) :   \* the fields of b are not counted
                           k \in Keys(b) /\ json_equal(Get(a, k), Get(b, k))
       [] IsNumber(a) -> Near(a.num, b.num)
       [] OTHER -> a = b

check_type_match(v, type) ==
  CASE v.t = "int64" -> type \in {"integer", "number"}
    [] v.t = "double" -> type = "number" \/ (type = "integer" /\ v.num % Unit = 0)
    [] v.t = "bool" -> type = "boolean"
    [] OTHER -> type = v.t

-----------------------------------------------------------------------------
(* URIs. *)

HasFragment(uri) == \E i \in DOMAIN uri : uri[i] = "#"
HashAt(uri) == CHOOSE i \in DOMAIN uri : uri[i] = "#" /\ \A j \in 1..(i-1) : uri[j] # "#"
Fragment(uri) == SubSeq(uri, HashAt(uri), Len(uri))
BaseOf(uri) == IF HasFragment(uri) THEN SubSeq(uri, 1, HashAt(uri) - 1) ELSE uri

-----------------------------------------------------------------------------
(* compile. *)

NamedKeywords == {"properties", "patternProperties", "dependentRequired",
                  "dependentSchemas"}
ListedKeywords == {"allOf", "anyOf", "oneOf", "prefixItems"}
DefsKeywords == {"$defs", "definitions"}
OtherKeywords ==
  {"$schema", "$id", "$anchor", "$ref", "$dynamicRef", "$dynamicAnchor", "type",
   "enum", "const", "multipleOf", "maximum", "minimum", "exclusiveMaximum",
   "exclusiveMinimum", "maxLength", "minLength", "pattern", "maxItems",
   "minItems", "uniqueItems", "maxContains", "minContains", "maxProperties",
   "minProperties", "required", "additionalProperties",
   "unevaluatedProperties", "propertyNames", "items", "additionalItems",
   "unevaluatedItems", "contains", "not", "if", "then", "else", "title",
   "description", "default", "deprecated", "readOnly", "writeOnly",
   "contentEncoding", "contentMediaType", "contentSchema"}
KnownKeywords == NamedKeywords \cup ListedKeywords \cup DefsKeywords \cup OtherKeywords

\* parent is "null", "root" (root_node_, which stays where it is) or "stale":
\* the variable of build_schema_tree that held the parent before it was moved
\* into the tree.
Node(keyword, value, uri, parent, children) ==
  [keyword |-> keyword, value |-> value, uri |-> uri, parent |-> parent,
   children |-> children]

\* build_schema_tree(elem, node, uri): the children it gives to node, and the
\* base of root_node_.uri afterwards. isRoot: node is root_node_; noParent:
\* node.parent is null. A $id moves the URI of the fields after it.
RECURSIVE build_schema_tree(_, _, _, _, _)
build_schema_tree(elem, isRoot, noParent, startUri, startBase) ==
  LET parent == IF isRoot THEN "root" ELSE "stale"

      \* One node for each member of value, whose keyword is kw and which is
      \* built at uriOf(name); shared: the value all of them keep, or None.
      Members(members, kw, parentOf, shared, uriOf(_), base) ==
        FoldLeft(LAMBDA acc, m :
                   LET sub == build_schema_tree(m.value, FALSE, parentOf = "null",
                                                uriOf(m.key), acc.base)
                   IN [nodes |-> Append(acc.nodes,
                         Node(kw, IF shared = None THEN m.value ELSE shared,
                              uriOf(m.key), parentOf, sub.nodes)),
                       base |-> sub.base],
                 [nodes |-> <<>>, base |-> base], members)

      Field(acc, f) ==
        LET own == Append(acc.uri, f.key)
            add(r, uri) == [nodes |-> acc.nodes \o r.nodes, uri |-> uri, base |-> r.base]
        IN CASE f.key \notin KnownKeywords -> acc
             [] f.key = "$id" ->
                  add([nodes |-> <<Node("$id", f.value, own, parent, <<>>)>>,
                       base |-> IF noParent THEN f.value.uri ELSE acc.base],
                      f.value.uri)
             [] f.key = "$anchor" ->
                  add([nodes |-> <<Node("$anchor", f.value,
                                        BaseOf(own) \o <<"#", "&", f.value.str>>,
                                        parent, <<>>)>>,
                       base |-> acc.base], acc.uri)
             [] f.key \in DefsKeywords ->
                  LET uriOf(name) ==
                        IF acc.uri # <<>> /\ ~HasFragment(acc.uri) /\ noParent
                        THEN acc.uri \o <<"#", "definitions">> \o Pieces(name)
                        ELSE own \o Pieces(name)
                  IN add(Members(f.value.fields, f.key, parent, f.value, uriOf, acc.base),
                         acc.uri)
             [] f.key \in NamedKeywords ->
                  LET uriOf(name) == own \o Pieces(name)
                      props == Members(f.value.fields, "", "null", None, uriOf, acc.base)
                  IN add([nodes |-> <<Node(f.key, f.value, own, "null", props.nodes)>>,
                          base |-> props.base], acc.uri)
             [] f.key \in ListedKeywords ->   \* no node has such a keyword
                  LET uriOf(i) == Append(own, i)
                      items == [i \in DOMAIN f.value.items |->
                                  [key |-> ToString(i - 1), value |-> f.value.items[i]]]
                  IN add(Members(items, "", "null", None, uriOf, acc.base), acc.uri)
             [] OTHER ->
                  LET sub == build_schema_tree(f.value, FALSE, FALSE, own, acc.base)
                  IN add([nodes |-> <<Node(f.key, f.value, own, parent, sub.nodes)>>,
                          base |-> sub.base], acc.uri)
  IN IF IsObject(elem)
     THEN FoldLeft(Field, [nodes |-> <<>>, uri |-> startUri, base |-> startBase],
                   elem.fields)
     ELSE [nodes |-> <<>>, uri |-> startUri, base |-> startBase]

\* A root that is built in a variable and moved to its place.
compileMovesRoot(s) ==
  LET built == build_schema_tree(s, FALSE, TRUE, <<"#">>, <<>>)
  IN Node("$schema", s, built.base \o <<"#">>, "null", built.nodes)

compile(s) ==
  LET built == build_schema_tree(s, TRUE, TRUE, <<"#">>, <<>>)
  IN Node("$schema", s, built.base \o <<"#">>, "null", built.nodes)

\* The nodes in the order collect_anchors meets them: the first one registered
\* under a URI keeps it.
RECURSIVE Preorder(_)
Preorder(node) ==
  <<node>> \o FlattenSeq([i \in DOMAIN node.children |-> Preorder(node.children[i])])

AnchorKeys(node) ==
  {node.uri} \cup (IF node.keyword = "$dynamicAnchor"
                   THEN {<<"#", "&", node.value.str>>} ELSE {})

\* find_ref: the node, "stale" (the entry of ids_ points to a variable that is
\* gone) or "null".
find_ref(rt, uri) ==
  LET nodes == Preorder(rt)
      has(key) == \E i \in DOMAIN nodes : key \in AnchorKeys(nodes[i])
      first(key) == nodes[CHOOSE i \in DOMAIN nodes :
                            /\ key \in AnchorKeys(nodes[i])
                            /\ \A j \in 1..(i-1) : key \notin AnchorKeys(nodes[j])]
      isId == \E i \in DOMAIN nodes :
                nodes[i].keyword = "$id" /\ nodes[i].value.uri = uri
      resolved == BaseOf(rt.uri) \o Fragment(uri)
  IN CASE has(uri) -> [found |-> "node", node |-> first(uri)]
       [] ~has(uri) /\ isId -> [found |-> "stale"]
       [] OTHER -> IF HasFragment(uri) /\ has(Fragment(uri))
                   THEN [found |-> "node", node |-> first(Fragment(uri))]
                   ELSE IF HasFragment(uri) /\ has(resolved)
                        THEN [found |-> "node", node |-> first(resolved)]
                        ELSE [found |-> "null"]

-----------------------------------------------------------------------------
(* validate. *)

\* errors_.size() and the evaluation context of one validate: the properties
\* and the number of items evaluated, in whatever object or array they are.
\* ub: a stale pointer was followed; overflow: the recursion did not end.
Clean == [errors |-> 0, properties |-> {}, items |-> 0, ub |-> FALSE, overflow |-> FALSE]

FailIf(cond, st) == IF cond THEN [st EXCEPT !.errors = @ + 1] ELSE st

\* The comparison of a size with static_cast<size_t>(limit).
SizeExceeds(kw, size, limit) ==
  LET cast == (limit.num \div Unit) % SizeMod
  IN limit.t = "int64" /\ IF kw \in {"maxItems", "maxProperties"} THEN size > cast
                                                                  ELSE size < cast

\* The keywords that look at the instance alone: arg is the keyword's value.
ValueViolates(kw, arg, v) ==
  CASE kw = "type" ->
         /\ IsString(arg) => ~check_type_match(v, arg.str)
         /\ IsArray(arg) => \A i \in DOMAIN arg.items :
                              ~(IsString(arg.items[i]) /\ check_type_match(v, arg.items[i].str))
         /\ arg.t \in {"string", "array"}
    [] kw = "enum" -> \A i \in DOMAIN arg.items : ~json_equal(v, arg.items[i])
    [] kw = "const" -> ~json_equal(v, arg)

\* The remainder has the sign of the dividend.
fmod(a, b) ==
  LET abs(n) == IF n < 0 THEN -n ELSE n
      rem == abs(a) % abs(b)
  IN IF a < 0 THEN -rem ELSE rem

NumberViolates(kw, arg, v) ==
  /\ IsNumber(arg)
  /\ IsNumber(v)
  /\ CASE kw = "multipleOf" ->
            /\ arg.num # 0
            /\ ~Near(fmod(v.num, arg.num), 0)
            /\ ~Near(fmod(v.num, arg.num), arg.num)
       [] kw = "maximum" -> v.num > arg.num
       [] kw = "minimum" -> v.num < arg.num
       [] kw = "exclusiveMaximum" -> v.num >= arg.num
       [] kw = "exclusiveMinimum" -> v.num <= arg.num

StringViolates(kw, arg, v) ==
  /\ IsString(v)
  /\ CASE kw = "maxLength" -> arg.t = "int64" /\ Unit * Bytes(v.str) > arg.num
       [] kw = "minLength" -> arg.t = "int64" /\ Unit * Bytes(v.str) < arg.num
       [] kw = "pattern" -> IsString(arg) /\ ~PatternFound(arg.str, v.str)

\* uniqueItems compares the items as minified text.
ContainerViolates(kw, arg, v) ==
  CASE kw \in {"maxItems", "minItems"} -> IsArray(v) /\ SizeExceeds(kw, Len(v.items), arg)
    [] kw \in {"maxProperties", "minProperties"} ->
         IsObject(v) /\ SizeExceeds(kw, Len(v.fields), arg)
    [] kw = "uniqueItems" ->
         /\ arg.t = "bool" /\ arg.b
         /\ IsArray(v)
         /\ \E i, j \in DOMAIN v.items : i < j /\ v.items[i] = v.items[j]
    [] kw = "required" ->
         IsObject(v) /\ \E i \in DOMAIN arg.items :
                          IsString(arg.items[i]) /\ arg.items[i].str \notin Keys(v)

ValueKeywords == {"type", "enum", "const"}
NumberKeywords ==
  {"multipleOf", "maximum", "minimum", "exclusiveMaximum", "exclusiveMinimum"}
StringKeywords == {"maxLength", "minLength", "pattern"}
ContainerKeywords ==
  {"maxItems", "minItems", "maxProperties", "minProperties", "uniqueItems", "required"}
PlainKeywords == ValueKeywords \cup NumberKeywords \cup StringKeywords \cup ContainerKeywords

Violates(kw, arg, v) ==
  CASE kw \in ValueKeywords -> ValueViolates(kw, arg, v)
    [] kw \in NumberKeywords -> NumberViolates(kw, arg, v)
    [] kw \in StringKeywords -> StringViolates(kw, arg, v)
    [] kw \in ContainerKeywords -> ContainerViolates(kw, arg, v)

\* propertyNames looks at the values that are strings, with the children of the
\* first keyword of its schema.
NameViolates(node, v) ==
  \E f \in ToSet(v.fields), sub \in ToSet(node.children[1].children) :
    /\ IsString(f.value)
    /\ \/ sub.keyword \in {"pattern", "maxLength", "minLength", "enum"}
       \/ sub.keyword = "const" /\ IsString(sub.value)
    /\ Violates(sub.keyword, sub.value, f.value)

\* A member's name is what follows the last slash of its URI.
NameOf(node) == Last(node.uri)

\* dependentRequired looks for names in the children of the member's first
\* keyword; an array of names has none.
DependencyViolates(node, v) ==
  \E dep \in ToSet(node.children) :
    /\ NameOf(dep) \in Keys(v)
    /\ dep.children # <<>>
    /\ \E req \in ToSet(dep.children[1].children) : NameOf(req) \notin Keys(v)

\* What the schema of a property is applied to.
prop_value_missed(v, name) == v
prop_value(v, name) == Get(v, name)

\* validate_node(node, v, ctx), with d frames of it below.
RECURSIVE validate_node(_, _, _, _, _)

trialKeepsErrors(rt, node, v, st, d) ==
  LET after == validate_node(rt, node, v, st, d)
  IN [matched |-> after.errors = st.errors, st |-> after]

\* A trial of a schema: its errors are dropped, what it evaluated is kept.
trial(rt, node, v, st, d) ==
  LET after == validate_node(rt, node, v, st, d)
  IN [matched |-> after.errors = st.errors,
      st |-> [after EXCEPT !.errors = st.errors]]

\* Nodes applied to one instance, one after the other.
OnAll(rt, d, st, nodes, w) ==
  FoldLeft(LAMBDA s, n : validate_node(rt, n, w, s, d + 1), st, nodes)

\* Schemas tried on the instance itself. After if, a stale parent is read for
\* then and else.
validate_choice(rt, node, v, st, d) ==
  LET kids == node.children
      kw == node.keyword
      Try(s, child) == trial(rt, child, v, s, d + 1)
  IN
  CASE kw = "anyOf" ->
         LET step(a, n) == IF a.matched THEN a ELSE Try(a.st, n)
             end == FoldLeft(step, [matched |-> FALSE, st |-> st], kids)
         IN FailIf(~end.matched, end.st)
    [] kw = "oneOf" ->
         LET step(a, n) == LET t == Try(a.st, n)
                           IN [count |-> a.count + IF t.matched THEN 1 ELSE 0, st |-> t.st]
             end == FoldLeft(step, [count |-> 0, st |-> st], kids)
         IN FailIf(end.count # 1, end.st)
    [] kw = "not" ->
         IF kids = <<>> THEN st
         ELSE LET t == Try(st, kids[1]) IN FailIf(t.matched, t.st)
    [] kw = "if" ->
         IF kids = <<>> THEN st
         ELSE LET t == Try(st, kids[1])
                  branch == IF t.matched THEN "then" ELSE "else"
                  branches == SelectSeq(rt.children, LAMBDA n : n.keyword = branch)
              IN IF node.parent = "stale" THEN [t.st EXCEPT !.ub = TRUE]
                 ELSE IF branches = <<>> THEN t.st
                 ELSE validate_node(rt, Last(branches), v, t.st, d + 1)

\* The first child, on every property not evaluated so far.
OnOtherMembers(rt, node, v, st, d) ==
  FoldLeft(LAMBDA s, f : IF f.key \in s.properties THEN s
                         ELSE validate_node(rt, node.children[1], f.value, s, d + 1),
           st, v.fields)

Evaluated(st, key) == [st EXCEPT !.properties = @ \cup {key}]

\* Schemas applied to the members of an object.
validate_members(rt, node, v, st, d) ==
  CASE node.keyword = "properties" ->
         FoldLeft(LAMBDA s, p :
                    LET name == NameOf(p)
                    IN IF name \in Keys(v)
                       THEN Evaluated(OnAll(rt, d, s, p.children, prop_value(v, name)), name)
                       ELSE s,
                  st, node.children)
    [] node.keyword = "additionalProperties" ->
         IF node.children = <<>> THEN st ELSE OnOtherMembers(rt, node, v, st, d)

\* Every pattern in turn, on every member whose name it is found in.
validate_patterns(rt, node, v, st, d) ==
  LET OnField(s, p, f) == IF PatternFound(NameOf(p), f.key)
                          THEN Evaluated(OnAll(rt, d, s, p.children, f.value), f.key)
                          ELSE s
  IN FoldLeft(LAMBDA s, p : FoldLeft(LAMBDA a, f : OnField(a, p, f), s, v.fields),
              st, node.children)

\* The schemas of the members that are present, on the object itself.
validate_dependents(rt, node, v, st, d) ==
  FoldLeft(LAMBDA s, p : IF NameOf(p) \in Keys(v) THEN OnAll(rt, d, s, p.children, v)
                                                    ELSE s, st, node.children)

NextItem(st) == [st EXCEPT !.items = @ + 1]

\* Schemas applied to the items of an array. prefixItems takes the last schema
\* again for the items left.
validate_items(rt, node, v, st, d) ==
  LET kids == node.children
      SubAt(s, child, w) == validate_node(rt, child, w, s, d + 1)
  IN
  CASE node.keyword = "prefixItems" ->
         FoldLeftDomain(LAMBDA s, i :
                          NextItem(IF kids = <<>> THEN s
                                   ELSE SubAt(s, kids[IF i > Len(kids) THEN Len(kids) ELSE i],
                                              v.items[i])),
                        st, v.items)
    [] node.keyword = "items" /\ kids # <<>> ->
         FoldLeft(LAMBDA s, w : NextItem(SubAt(s, kids[1], w)), st, v.items)
    [] node.keyword = "contains" /\ kids # <<>> ->
         LET step(a, w) == LET t == trial(rt, kids[1], w, a.st, d + 1)
                           IN [matched |-> a.matched \/ t.matched, st |-> t.st]
             end == FoldLeft(step, [matched |-> FALSE, st |-> st], v.items)
         IN FailIf(~end.matched, end.st)
    [] OTHER -> st

\* What other keywords have left over, as the context or, for additionalItems,
\* the number of keywords of the parent tells it.
validate_leftover(rt, node, v, st, d) ==
  LET OnItemsFrom(from(_)) ==
        FoldLeftDomain(LAMBDA s, i : IF i - 1 < from(s) THEN s
                                     ELSE validate_node(rt, node.children[1], v.items[i], s, d + 1),
                       st, v.items)
  IN
  CASE node.keyword = "unevaluatedProperties" /\ IsObject(v) ->
         OnOtherMembers(rt, node, v, st, d)
    [] node.keyword = "unevaluatedItems" /\ IsArray(v) -> OnItemsFrom(LAMBDA s : s.items)
    [] node.keyword = "additionalItems" /\ IsArray(v) ->
         IF v.items = <<>> THEN st
         ELSE IF node.parent = "stale" THEN [st EXCEPT !.ub = TRUE]
         ELSE OnItemsFrom(LAMBDA s : Len(rt.children))
    [] OTHER -> st

\* The node a reference leads to, on the same instance.
validate_ref(rt, node, v, st, d) ==
  LET target == find_ref(rt, node.value.uri)
  IN CASE target.found = "node" -> validate_node(rt, target.node, v, st, d + 1)
       [] target.found = "stale" -> [st EXCEPT !.ub = TRUE]
       [] target.found = "null" -> FailIf(TRUE, st)

\* Keywords for objects (arrays) do nothing to other instances. Any other
\* keyword is taken for a schema that is false when its value is.
validate_node(rt, node, v, st, d) ==
  LET kw == node.keyword
  IN
  IF st.overflow \/ d > MaxDepth THEN [st EXCEPT !.overflow = TRUE] ELSE
  CASE kw \in {"$schema", "allOf"} -> OnAll(rt, d, st, node.children, v)
    [] kw \in PlainKeywords -> FailIf(Violates(kw, node.value, v), st)
    [] kw \in {"maxContains", "minContains"} -> st    \* stored, never read
    [] kw \in {"anyOf", "oneOf", "not", "if"} -> validate_choice(rt, node, v, st, d)
    [] kw \in {"items", "prefixItems", "contains"} ->
         IF IsArray(v) THEN validate_items(rt, node, v, st, d) ELSE st
    [] kw \in {"additionalItems", "unevaluatedItems", "unevaluatedProperties"} ->
         IF node.children = <<>> THEN st ELSE validate_leftover(rt, node, v, st, d)
    [] kw \in {"properties", "additionalProperties", "patternProperties",
               "dependentSchemas", "dependentRequired", "propertyNames"} ->
         IF ~IsObject(v) THEN st
         ELSE CASE kw = "patternProperties" -> validate_patterns(rt, node, v, st, d)
                [] kw = "dependentSchemas" -> validate_dependents(rt, node, v, st, d)
                [] kw = "dependentRequired" -> FailIf(DependencyViolates(node, v), st)
                [] kw = "propertyNames" ->
                     FailIf(node.children # <<>> /\ NameViolates(node, v), st)
                [] OTHER -> validate_members(rt, node, v, st, d)
    [] kw = "$ref" -> validate_ref(rt, node, v, st, d)
    [] OTHER -> FailIf(node.value.t = "bool" /\ ~node.value.b, st)

-----------------------------------------------------------------------------
(* The program: compile, validate, exit. *)

Init ==
  /\ phase = "start"
  /\ schema = None /\ root = None /\ instance = None
  /\ result = Clean

Compile ==
  /\ phase = "start"
  /\ \E s \in Schemas : schema' = s /\ root' = compile(s)
  /\ phase' = "compiled"
  /\ UNCHANGED <<instance, result>>

\* Text that is not JSON: compile returns false and the program exits.
CompileFails ==
  /\ phase = "start"
  /\ phase' = "failed"
  /\ UNCHANGED <<schema, root, instance, result>>

Validate ==
  /\ phase = "compiled"
  /\ \E v \in Instances :
       /\ instance' = v
       /\ result' = validate_node(root, root, v, Clean, 1)
  /\ phase' = "done"
  /\ UNCHANGED <<schema, root>>

\* An instance that is not JSON is one error.
ValidateFails ==
  /\ phase = "compiled"
  /\ result' = FailIf(TRUE, Clean)
  /\ phase' = "failed"
  /\ UNCHANGED <<schema, root, instance>>

Next == Compile \/ CompileFails \/ Validate \/ ValidateFails

Spec == Init /\ [][Next]_vars
=============================================================================
