---------------------------- MODULE SchemaParser ----------------------------
(***************************************************************************)
(* From the schemas of an OpenAPI document to the types of the normalized   *)
(* AST: generator/src/Frontend/SchemaParser.cpp, and parseSchemas of        *)
(* Driver.cpp.                                                              *)
(*                                                                          *)
(* A schema is [k |-> "ref", to], [k |-> "prim", cpp, enum] for the four    *)
(* primitive types, [k |-> "array", items], or, for "object" and for a      *)
(* schema without type, [k |-> "object" or "untyped", props, allOf, oneOf]; *)
(* struct tells whether an untyped one has a key properties, allOf or       *)
(* additionalProperties. anyOf is treated like oneOf. A member of allOf or  *)
(* oneOf that is no JSON object is [k |-> "invalid"]. What the AST keeps of *)
(* them is a struct, a variant, an array or a primitive; maps and enum      *)
(* types are never made.                                                    *)
(***************************************************************************)
EXTENDS NormalizedAST

CONSTANTS
  Parts(_),      \* the words of a word, cut at the characters that become "_"
  Reserved,      \* the names that are reserved words
  Digits         \* the words that begin with a digit

NoName == <<"">>
sanitize(name) ==
  LET clean == FlattenSeq([i \in DOMAIN name |-> Parts(name[i])])
      free == IF clean \in Reserved THEN Append(clean, "") ELSE clean
  IN IF free[1] \in Digits THEN <<"">> \o free ELSE free

Inline(cpp) == [cpp |-> cpp, inline |-> TRUE]
\* A $ref without a slash names nothing.
extractTypeRef(schema) == [cpp |-> Cpp(FALSE, sanitize(schema.to)), inline |-> FALSE]
IsRef(schema) == schema.k = "ref"

\* The state of the parser: the types of the AST (a function from names),
\* added_types, the names of the inline types in it, and whether an exception is
\* on its way to parseSchemas: then no type is added any more.
Empty == [ast |-> <<>>, added |-> {}, thrown |-> FALSE]
addType(st, name, type) == [st EXCEPT !.ast = (name :> type) @@ @]

\* An inline struct gets a name of its own, unless there is one of that name.
addInline(st, name, struct) ==
  IF name \in st.added \/ st.thrown THEN st
  ELSE [addType(st, name, [struct EXCEPT !.name = name]) EXCEPT !.added = @ \cup {name}]

\* What a property or an array element becomes, given the type its schema was
\* parsed to and the name it has if that is a struct.
propertyType(type, name) ==
  CASE type.k = "prim" -> Inline(Cpp(FALSE, <<type.cpp>>))
    [] type.k = "array" -> Inline(Cpp(TRUE, IF type.elem.cpp.name = NoName THEN String.name
                                           ELSE type.elem.cpp.name))
    [] type.k = "struct" -> Inline(Cpp(FALSE, name))
    [] type.k = "variant" -> Inline(String)
elementType(type, name) ==
  IF type.k \in {"prim", "struct"} THEN propertyType(type, name) ELSE Inline(String)

Number(n) == ToString(n)

\* The name under which the schema of property p of an object is parsed, and
\* the one its struct gets.
propertyNameAlone(name, p) == p
propertyName(name, p) == name \o p

parsePrimitiveSchema(schema) == Prim(schema.cpp, schema.enum)

RECURSIVE parseSchema(_, _, _)

\* The fields of an object, one property after the other; the schema of a property
\* without $ref is parsed under its own name (named) or under the empty one.
parseFields(props, name, named, st0) ==
  LET Property(acc, p) ==
        IF IsRef(p.schema)
        THEN [acc EXCEPT !.fields = Append(@, [name |-> sanitize(p.name),
                                               type |-> extractTypeRef(p.schema)])]
        ELSE LET r == parseSchema(p.schema, IF named THEN propertyName(name, p.name) ELSE NoName,
                                  acc.st)
                 mangled == sanitize(propertyName(name, p.name))
             IN [st |-> IF r.type.k = "struct" THEN addInline(r.st, mangled, r.type) ELSE r.st,
                 fields |-> Append(acc.fields, [name |-> sanitize(p.name),
                                                type |-> propertyType(r.type, mangled)])]
  IN FoldLeft(Property, [st |-> st0, fields |-> <<>>], props)

Names(schema) == IsRef(schema) /\ schema.to # NoName
RefsOf(schemas) == SelectSeq(schemas, Names)
Invalid(schema) == schema.k = "invalid"

\* type: object. Only the members of allOf that are references count.
parseObjectSchema(schema, name, st) ==
  LET refs == RefsOf(schema.allOf)
      throws == \E i \in DOMAIN schema.allOf : Invalid(schema.allOf[i])
      r == parseFields(schema.props, name, TRUE, [st EXCEPT !.thrown = @ \/ throws])
  IN [type |-> Struct(name, r.fields, [i \in DOMAIN refs |-> sanitize(refs[i].to)]), st |-> r.st]

\* No type, but properties or allOf: an inline member of allOf becomes a base if
\* it is a struct, and the properties are parsed under the empty name.
parseImplicitObject(schema, name, st) ==
  LET Base(acc, s) ==
        IF Names(s) THEN [acc EXCEPT !.bases = Append(@, sanitize(s.to))]
        ELSE IF IsRef(s) THEN acc
        ELSE LET r == parseSchema(s, name \o <<"base", Number(Len(acc.bases))>>, acc.st)
             IN IF r.type.k # "struct" THEN [acc EXCEPT !.st = r.st]
                ELSE [st |-> addInline(r.st, sanitize(r.type.name), r.type),
                      bases |-> Append(acc.bases, sanitize(r.type.name))]
      b == FoldLeft(Base, [st |-> st, bases |-> <<>>], schema.allOf)
      r == parseFields(schema.props, name, FALSE, b.st)
  IN [type |-> Struct(name, r.fields, b.bases), st |-> r.st]

parseArraySchema(schema, name, st) ==
  IF IsRef(schema.items) THEN [type |-> ArrayOf(extractTypeRef(schema.items)), st |-> st]
  ELSE LET elem == IF name = NoName
                   THEN <<"ArrayEntry", Number(Cardinality(DOMAIN st.ast))>>
                   ELSE Append(name, "entry")
           r == parseSchema(schema.items, elem, st)
       IN [type |-> ArrayOf(elementType(r.type, sanitize(elem))),
           st |-> IF r.type.k = "struct" THEN addInline(r.st, sanitize(elem), r.type) ELSE r.st]

\* The alternatives of a variant in an alternative are its own.
buildVariant(schemas, name, st) ==
  LET Alternative(acc, s) ==
        IF Names(s) THEN [acc EXCEPT !.alts = Append(@, extractTypeRef(s))]
        ELSE LET r == parseSchema(s, Append(name, "inline"), acc.st)
                 mangled == sanitize(name \o <<"alt", Number(Len(acc.alts))>>)
             IN CASE r.type.k = "variant" -> [st |-> r.st, alts |-> acc.alts \o r.type.alts]
                  [] r.type.k = "struct" ->
                       [st |-> addInline(r.st, mangled, r.type),
                        alts |-> Append(acc.alts, propertyType(r.type, mangled))]
                  [] OTHER -> [st |-> r.st,
                               alts |-> Append(acc.alts, propertyType(r.type, mangled))]
      r == FoldLeft(Alternative, [st |-> st, alts |-> <<>>], schemas)
  IN [type |-> Variant(name, r.alts), st |-> r.st]

\* A $ref has no type: parsed by itself it is a string. Reading a member that is no
\* object throws.
parseSchema(schema, name, st) ==
  CASE schema.k \in {"object", "untyped"} /\ schema.oneOf # <<>> ->
         buildVariant(schema.oneOf, name, st)
    [] schema.k = "object" /\ schema.oneOf = <<>> -> parseObjectSchema(schema, name, st)
    [] schema.k = "untyped" /\ schema.oneOf = <<>> /\ schema.struct ->
         parseImplicitObject(schema, name, st)
    [] schema.k = "array" -> parseArraySchema(schema, name, st)
    [] schema.k = "prim" -> [type |-> parsePrimitiveSchema(schema), st |-> st]
    [] OTHER -> [type |-> Prim("std::string", FALSE),
                 st |-> [st EXCEPT !.thrown = @ \/ Invalid(schema)]]

\* parseSchemas: the components in the order of the document. One that throws is
\* left out, but the inline types it had so far stay.
parseSchemas(components) ==
  FoldLeft(LAMBDA st, c : LET name == sanitize(c.name)
                              r == parseSchema(c.schema, name, st)
                          IN IF r.st.thrown THEN [r.st EXCEPT !.thrown = FALSE]
                             ELSE addType(r.st, name, r.type),
           Empty, components).ast
=============================================================================
