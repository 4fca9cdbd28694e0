---------------------------- MODULE MCJsonSchema ----------------------------
(***************************************************************************)
(* JsonSchemaReference for TLC: every keyword alone and in the pairs and    *)
(* nestings in which the code behaves differently, on instances of every    *)
(* type.                                                                    *)
(***************************************************************************)
EXTENDS JsonSchemaReference

Whole(n) == [t |-> "int64", num |-> 4 * n]
Half(n) == [t |-> "double", num |-> 2 * n]
NearlyHalf(n) == [t |-> "double", num |-> 2 * n + 1]
Str(s) == [t |-> "string", str |-> s]
Uri(u) == [t |-> "string", uri |-> u]
Bool(b) == [t |-> "bool", b |-> b]
Null == [t |-> "null"]
Arr(xs) == [t |-> "array", items |-> xs]
Obj(fs) == [t |-> "object", fields |-> fs]
F(k, v) == [key |-> k, value |-> v]

\* "ab" as a pattern is in "ab" and "abc", and so on: substrings.
MCPatternFound(p, s) ==
  <<p, s>> \in {<<"a", "a">>, <<"a", "ab">>, <<"b", "ab">>, <<"b", "b">>, <<"ab", "ab">>,
                <<"a", "a/b">>, <<"b", "a/b">>, <<"a/b", "a/b">>}

MCPieces(name) == IF name = "a/b" THEN <<"a", "b">> ELSE <<name>>

\* "e'" stands for a letter that takes two bytes.
MCBytes(s) == Len(s)
MCChars(s) == IF s = "e'" THEN 1 ELSE Len(s)

MCInstances ==
  {Null, Bool(TRUE), Bool(FALSE), Whole(0), Whole(1), Whole(3), Whole(-1), Half(2), Half(3),
   NearlyHalf(2), NearlyHalf(3), Str("a"), Str("ab"), Str("c"), Str("e'"),
   Arr(<<>>), Arr(<<Whole(1)>>), Arr(<<Whole(1), Whole(1)>>), Arr(<<Whole(1), Half(2)>>),
   Arr(<<Str("a"), Whole(3), Null>>), Arr(<<Arr(<<Str("ab")>>)>>),
   Obj(<<>>), Obj(<<F("a/b", Whole(3)), F("b", Whole(1))>>), Obj(<<F("a", Whole(1))>>), Obj(<<F("b", Str("ab"))>>),
   Obj(<<F("a", Whole(3)), F("b", Str("c"))>>), Obj(<<F("b", Null), F("a", Str("a"))>>),
   Obj(<<F("b", Null), F("a", Obj(<<F("b", Whole(1))>>))>>),
   Obj(<<F("a", Obj(<<F("a", Str("a"))>>)), F("ab", Arr(<<Whole(3)>>))>>)}

\* A field for every plain keyword.
Plain ==
  {F("type", Str("integer")), F("type", Str("object")),
   F("type", Arr(<<Str("string"), Str("number")>>)),
   F("enum", Arr(<<Null, Str("a"), Bool(FALSE)>>)), F("const", Str("ab")),
   F("const", Whole(1)), F("const", Obj(<<F("a", Whole(1)), F("b", Null)>>)),
   F("const", Obj(<<F("a", Str("a")), F("b", Null)>>)),
   F("multipleOf", Half(3)), F("maximum", Whole(1)), F("minimum", Half(-1)),
   F("exclusiveMaximum", Whole(3)), F("exclusiveMinimum", Whole(0)),
   F("maxLength", Whole(1)), F("minLength", Whole(2)), F("pattern", Str("b")),
   F("maxItems", Whole(1)), F("minItems", Whole(1)), F("maxItems", Whole(-1)),
   F("maxProperties", Whole(1)), F("minProperties", Whole(1)), F("minProperties", Whole(-1)),
   F("maxLength", Half(2)), F("minLength", Half(4)), F("maxItems", Half(2)),
   F("minItems", Half(2)), F("maxProperties", Half(2)), F("minProperties", Half(2)),
   F("multipleOf", Whole(1)), F("multipleOf", NearlyHalf(2)), F("const", Half(2)),
   F("uniqueItems", Bool(TRUE)), F("required", Arr(<<Str("a")>>))}

One == {Obj(<<f>>) : f \in Plain}
Few == {Obj(<<F("type", Str("integer"))>>), Obj(<<F("const", Str("ab"))>>),
        Obj(<<F("maximum", Whole(1)), F("type", Str("integer"))>>),
        Obj(<<F("not", Obj(<<F("type", Str("string"))>>))>>),
        Obj(<<F("properties", Obj(<<F("b", Obj(<<F("type", Str("integer"))>>))>>))>>),
        Obj(<<F("items", Obj(<<F("minimum", Whole(3))>>))>>),
        Obj(<<>>), Bool(FALSE), Bool(TRUE)}
Objects == {s \in Few : IsObject(s)}

\* Keywords with a schema, with named schemas, with a list of schemas.
Unary == {"items", "contains", "not", "if", "additionalProperties", "propertyNames",
          "unevaluatedProperties", "unevaluatedItems", "additionalItems", "contentSchema",
          "then", "else"}
Nested ==
  {F(k, s) : k \in {"items", "contains", "not"}, s \in One} \cup
  {F(k, s) : k \in Unary, s \in Few} \cup
  {F(k, Obj(<<F(n, s)>>)) : k \in {"properties", "patternProperties", "dependentSchemas"},
                            n \in {"a", "b", "a/b"}, s \in Few} \cup
  {F(k, Arr(<<s, r>>)) : k \in ListedKeywords, s \in Few, r \in Few} \cup
  {F(k, Obj(<<F(l, s)>>)) : k \in Unary, l \in Unary, s \in {Obj(<<F("type", Str("integer"))>>)}} \cup
  {F("dependentRequired", Obj(<<F("a", Arr(<<Str("b")>>))>>)),
   F("propertyNames", Obj(<<F("not", Obj(<<F("pattern", Str("b"))>>))>>))}

Refs == {<<"#">>, <<"#", "$defs", "d">>, <<"#", "properties", "a">>, <<"#", "not">>,
         <<"#", "$ref">>, <<"#", "nowhere">>, <<"#", "&", "anchor">>, <<"x">>,
         <<"x", "#">>, <<"x", "#", "definitions", "d">>}
Ref(u) == F("$ref", Uri(u))
D == F("$defs", Obj(<<F("d", Obj(<<F("type", Str("integer"))>>)),
                      F("e", Obj(<<F("not", Obj(<<Ref(<<"#">>)>>))>>))>>))

\* A reference at the root, in a property, in the items, under not and behind
\* the presence of a property; with and without a $id and anchors.
Referring ==
  UNION {{<<Ref(u), D>>,
          <<D, F("properties", Obj(<<F("a", Obj(<<Ref(u)>>))>>)), F("type", Str("object"))>>,
          <<F("items", Obj(<<Ref(u)>>)), F("maxItems", Whole(1))>>,
          <<F("not", Obj(<<Ref(u)>>))>>,
          <<F("dependentSchemas", Obj(<<F("a", Obj(<<Ref(u)>>))>>))>>,
          <<F("allOf", Arr(<<Obj(<<Ref(u)>>)>>))>>,
          <<F("$id", Uri(<<"x">>)), D, F("$anchor", Str("anchor")), Ref(u)>>,
          <<F("$dynamicAnchor", Str("anchor")),
            F("properties", Obj(<<F("a", Obj(<<F("$id", Uri(<<"x">>)), D>>))>>)), Ref(u)>>}
         : u \in Refs}

\* Pairs whose order or company matters.
Pairs ==
  {<<f, g>> : f \in {F("properties", Obj(<<F("a", s)>>)) : s \in Few},
              g \in {F(k, s) : k \in {"additionalProperties", "unevaluatedProperties"},
                               s \in Few}} \cup
  {<<F("additionalProperties", s), F("patternProperties", Obj(<<F("a", r)>>))>> :
     s \in Few, r \in Few} \cup
  {<<F("if", s), F("then", r), F("else", Obj(<<F("type", Str("string"))>>))>> :
     s \in Few, r \in Few} \cup
  {<<F("prefixItems", Arr(<<s>>)), F("items", r), F("unevaluatedItems", s)>> :
     s \in Few, r \in Few} \cup
  {<<F("contains", s), F(k, Whole(n))>> :
     s \in Few, k \in {"minContains", "maxContains"}, n \in {0, 1}} \cup
  {<<f, g>> : f \in Plain, g \in {F("title", Str("a")), F("readOnly", Bool(FALSE)),
                                  F("format", Str("a")), F("minimum", Whole(1))}}

MCSchemas ==
  One \cup {Obj(<<f>>) : f \in Nested} \cup {Obj(s) : s \in Referring \cup Pairs} \cup
  {Obj(<<F("properties", Obj(<<F("a", Obj(<<f>>))>>))>>) : f \in Nested} \cup
  {Bool(TRUE), Bool(FALSE)}
=============================================================================
