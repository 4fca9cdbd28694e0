---------------------------- MODULE NormalizedAST ----------------------------
(***************************************************************************)
(* The types of a NormalizedAST (generator/src/Frontend/AST.hpp): a         *)
(* function from their names. validate, and what each type must come after  *)
(* (DependencyGraph::buildDependencies).                                    *)
(*                                                                          *)
(* A name is the sequence of its words, joined by "_": <<"A", "x">> is A_x, *)
(* <<"">> the empty name. Maps and enum types are never made.               *)
(***************************************************************************)
EXTENDS Naturals, Sequences, FiniteSets, SequencesExt

Name == Seq(STRING)

\* A C++ type: a name, or a std::vector of one. TypeRef adds is_inline.
Cpp(vec, name) == [vec |-> vec, name |-> name]
String == Cpp(FALSE, <<"std::string">>)
CppType == [vec : BOOLEAN, name : Name]
TypeRef == [cpp : CppType, inline : BOOLEAN]

Primitives == {"std::string", "int32_t", "int64_t", "uint32_t", "uint64_t",
               "float", "double", "bool"}
Builtin == {<<p>> : p \in Primitives}

Struct(name, fields, bases) == [k |-> "struct", name |-> name, fields |-> fields, bases |-> bases]
Variant(name, alts) == [k |-> "variant", name |-> name, alts |-> alts]
ArrayOf(elem) == [k |-> "array", elem |-> elem]
Prim(cpp, enum) == [k |-> "prim", cpp |-> cpp, enum |-> enum]

StructType == [k : {"struct"}, name : Name, fields : Seq([name : Name, type : TypeRef]),
               bases : Seq(Name)]
VariantType == [k : {"variant"}, name : Name, alts : Seq(TypeRef)]
ArrayType == [k : {"array"}, elem : TypeRef]
PrimitiveType == [k : {"prim"}, cpp : Primitives, enum : BOOLEAN]

TypeRefs(type) ==
  CASE type.k = "struct" -> {type.fields[i].type : i \in DOMAIN type.fields}
    [] type.k = "variant" -> ToSet(type.alts)
    [] type.k = "array" -> {type.elem}
    [] type.k = "prim" -> {}
Bases(type) == IF type.k = "struct" THEN ToSet(type.bases) ELSE {}

\* The ASTs the parser makes. No name has a colon; a variant has alternatives and
\* knows its name; only an inline type is a vector, and one that is none is built
\* in or a type of the AST.
ASTOK(types) ==
  /\ IsFiniteSet(DOMAIN types) /\ String.name \notin DOMAIN types
  /\ \A n \in DOMAIN types :
       /\ n \in Name
       /\ types[n] \in StructType \cup VariantType \cup ArrayType \cup PrimitiveType
       /\ types[n].k = "variant" => types[n].name = n /\ types[n].alts # <<>>
       /\ \A ref \in TypeRefs(types[n]) :
            IF ref.inline THEN ref.cpp.vec \/ ref.cpp.name \in Builtin \cup DOMAIN types
            ELSE ~ref.cpp.vec

\* Types with a reference that is not inline to a type the AST does not have.
\* A $ref behind an array property has become inline.
validate(types) ==
  {n \in DOMAIN types :
     \/ \E ref \in TypeRefs(types[n]) : ~ref.inline /\ ref.cpp.name \notin DOMAIN types
     \/ ~(Bases(types[n]) \subseteq DOMAIN types)}

\* The types of the AST that must be defined before type n.
DependenciesWithoutBases(types, n) ==
  {ref.cpp.name : ref \in TypeRefs(types[n])} \cap DOMAIN types
Dependencies(types, n) ==
  ({ref.cpp.name : ref \in TypeRefs(types[n])} \cup Bases(types[n])) \cap DOMAIN types
=============================================================================
