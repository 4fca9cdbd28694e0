------------------------- MODULE GeneratorReference -------------------------
(***************************************************************************)
(* The types of the AST against the schemas they come from: what the parser *)
(* makes of a document, by recursion over its schemas.                      *)
(***************************************************************************)
EXTENDS Generator, SchemaParser

\* The inline structs below a schema, by the name each should have: the path.
RECURSIVE InlineNames(_, _)
InlineNames(schema, name) ==
  LET self(s, n) == (IF s.k = "object" /\ s.oneOf = <<>> THEN <<sanitize(n)>> ELSE <<>>)
                    \o InlineNames(s, n)
  IN CASE schema.k = "object" ->
            FlattenSeq([i \in DOMAIN schema.props |->
                          self(schema.props[i].schema, name \o schema.props[i].name)])
            \o FlattenSeq([i \in DOMAIN schema.oneOf |->
                          self(schema.oneOf[i], name \o <<"alt", Number(i - 1)>>)])
       [] schema.k = "array" -> self(schema.items, Append(name, "entry"))
       [] OTHER -> <<>>

\* Schemas the parser has a type for: not an untyped schema, a oneOf or an array
\* of arrays inside another schema, nor an object inside an alternative.
RECURSIVE Supported(_, _)
Supported(schema, top) ==
  CASE schema.k = "object" ->
         /\ \A i \in DOMAIN schema.props : Supported(schema.props[i].schema, FALSE)
         /\ \A i \in DOMAIN schema.allOf : Names(schema.allOf[i])
         /\ schema.oneOf # <<>> => top
         /\ \A i \in DOMAIN schema.oneOf :
              /\ Supported(schema.oneOf[i], FALSE)
              /\ Len(InlineNames(schema.oneOf[i], <<>>)) = 0
    [] schema.k = "array" -> schema.items.k # "array" /\ Supported(schema.items, FALSE)
    [] schema.k \in {"untyped", "invalid"} -> FALSE
    [] schema.k = "ref" -> ~top /\ Names(schema)
    [] OTHER -> TRUE

\* cpp is a C++ type for the values the schema describes.
RECURSIVE Represents(_, _)
StructFor(type, schema) ==
  /\ type.k = "struct"
  /\ type.bases = [i \in DOMAIN schema.allOf |-> sanitize(schema.allOf[i].to)]
  /\ DOMAIN type.fields = DOMAIN schema.props
  /\ \A i \in DOMAIN type.fields :
       /\ type.fields[i].name = sanitize(schema.props[i].name)
       /\ Represents(type.fields[i].type.cpp, schema.props[i].schema)
Represents(cpp, schema) ==
  CASE schema.k = "ref" -> cpp = Cpp(FALSE, sanitize(schema.to))
    [] schema.k = "prim" -> cpp = Cpp(FALSE, <<schema.cpp>>)
    [] schema.k = "array" -> cpp.vec /\ Represents(Cpp(FALSE, cpp.name), schema.items)
    [] schema.k = "object" -> ~cpp.vec /\ cpp.name \in DOMAIN ast
                              /\ StructFor(ast[cpp.name], schema)

ComponentFor(type, schema) ==
  CASE schema.k = "prim" -> type = Prim(schema.cpp, schema.enum)
    [] schema.k = "array" -> type.k = "array" /\ Represents(type.elem.cpp, schema.items)
    [] schema.k = "object" /\ schema.oneOf = <<>> -> StructFor(type, schema)
    [] OTHER -> /\ type.k = "variant"
                /\ DOMAIN type.alts = DOMAIN schema.oneOf
                /\ \A i \in DOMAIN type.alts : Represents(type.alts[i].cpp, schema.oneOf[i])

\* A document whose schemas are Supported, and in which no two types, declared
\* or inline, get the same name, becomes an AST whose types represent the
\* schemas field by field and base by base: no inline type is lost or replaced
\* by another one, however deep it is nested (parseSchema and addType).
FaithfulTypes ==
  LET declared == [i \in DOMAIN document |-> sanitize(document[i].name)]
      inline == FlattenSeq([i \in DOMAIN document |->
                              InlineNames(document[i].schema, declared[i])])
  IN /\ phase \notin {"start", "failed"}
     /\ \A i \in DOMAIN document : Supported(document[i].schema, TRUE)
     /\ IsInjective(declared \o inline)
     => \A i \in DOMAIN document : ComponentFor(ast[declared[i]], document[i].schema)
=============================================================================
