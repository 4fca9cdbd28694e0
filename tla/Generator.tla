------------------------------ MODULE Generator ------------------------------
(***************************************************************************)
(* generateFromOpenAPI (generator/src/Driver/Driver.cpp) and DefsGenerator  *)
(* (generator/src/IR/DefsGenerator.cpp): from a document to the generated   *)
(* files. The header openapi_defs.hpp is the sequence of its definitions,   *)
(* and openapi_defs.cpp the sequence of the types whose tag_invoke it       *)
(* defines; the other files are known by their namespace and Python module. *)
(*                                                                          *)
(* sortTypes is module DependencyGraph: here it gives any order in which    *)
(* every type comes after those it depends on, or finds a cycle. The        *)
(* iteration order of unordered_maps is open.                               *)
(***************************************************************************)
EXTENDS NormalizedAST

CONSTANTS
  Documents,   \* component lists: sequences of [name, schema]
  Parsed,      \* the AST of each document
  Options,     \* [mode, python, ns] of the command line; ns is <<>> if not given
  Title        \* the sanitized title of the document, a name

ASSUME ParsedAssumption ==
  /\ DOMAIN Parsed = Documents
  /\ \A d \in Documents : ASTOK(Parsed[d])

VARIABLES
  phase,       \* "start", "ast", "valid", "header", "client", "server",
               \* "cmake", "done" or "failed"
  options,
  document,
  operations,  \* parseEndpoints finds operations: endpoints is not empty
  ast,
  order,       \* order.ordered_types, as far as the header is written
  emit,        \* DefsEmitState of generateDefsHpp
  header,      \* the definitions of openapi_defs.hpp
  source,      \* the types with tag_invoke definitions in openapi_defs.cpp
  files,       \* the files written: [file, ns, module]
  args,        \* CodegenArgs: module_name and ns
  locals       \* the driver's ns and server_module: <<>> when moved from

vars == <<phase, options, document, operations, ast, order, emit, header, source, files,
          args, locals>>
input == <<options, document, operations, ast>>
defs == <<order, emit, header, source>>
naming == <<args, locals>>

-----------------------------------------------------------------------------
(* Type names. *)

\* The end of the path x, f[x], f[f[x]], ... after at most n steps.
Follow(f, x, n) ==
  LET at[i \in 0 .. n] ==
        IF i = 0 THEN x
        ELSE IF at[i - 1] \in DOMAIN f THEN f[at[i - 1]] ELSE at[i - 1]
  IN at[n]

\* The end of the typedef chain that begins at a type. Chains have no cycles.
chainEnd(types, chain, cpp) == Follow(chain, cpp, Cardinality(DOMAIN types))

\* The variant at the end of a type's chain, if its only alternative is a $ref:
\* its type is the one to resolve next.
Forwards(types, chain, name) ==
  LET current == chainEnd(types, chain, Cpp(FALSE, name))
  IN /\ ~current.vec /\ current.name \in DOMAIN types
     /\ types[current.name].k = "variant"
     /\ Len(types[current.name].alts) = 1
     /\ ~types[current.name].alts[1].inline
forward(types, chain) ==
  [name \in {n \in DOMAIN types : Forwards(types, chain, n)} |->
     types[chainEnd(types, chain, Cpp(FALSE, name)).name].alts[1].cpp.name]

\* A plain primitive counts as std::string, whatever it is.
resolveTypeNameFirst(types, chain, name) ==
  LET current == chainEnd(types, chain, Cpp(FALSE, name))
  IN IF ~current.vec /\ current.name \in DOMAIN types /\ types[current.name].k = "variant"
     THEN types[current.name].alts[1].cpp ELSE current
resolveTypeName(types, chain, name) ==
  LET last == Follow(forward(types, chain), name, Cardinality(DOMAIN types))
      current == chainEnd(types, chain, Cpp(FALSE, last))
  IN IF current.vec \/ current.name \notin DOMAIN types THEN current
     ELSE LET type == types[current.name]
          IN CASE type.k = "prim" /\ ~type.enum -> String
               [] type.k = "variant" /\ Len(type.alts) = 1 -> type.alts[1].cpp
               [] OTHER -> current

\* The distinct alternatives of a variant.
processVariantAlternatives(types, chain, v) ==
  {IF alt.inline THEN alt.cpp ELSE resolveTypeName(types, chain, alt.cpp.name) :
     alt \in ToSet(v.alts)}

-----------------------------------------------------------------------------
(* generateDefsHpp, one type after the other. *)

Alias(name, cpp) == [def |-> "alias", name |-> name, to |-> cpp]
NewState == [signatures |-> <<>>, chain |-> <<>>]
Insert(map, key, value) ==
  [k \in DOMAIN map \cup {key} |-> IF k = key THEN value ELSE map[k]]

\* alternatives lists the distinct alternatives in the order the map has them:
\* that is the signature. A variant is an alias of an earlier one with the same
\* signature, or of its only alternative.
emitVariant(v, alternatives, state) ==
  LET self == Cpp(FALSE, v.name)
      aliasOf(target, sigs) ==
        [def |-> Alias(v.name, target),
         state |-> [signatures |-> sigs, chain |-> Insert(state.chain, self, target)]]
      known == alternatives \in DOMAIN state.signatures
      sigs == Insert(state.signatures, alternatives, self)
  IN CASE known -> aliasOf(state.signatures[alternatives], state.signatures)
       [] ~known /\ Len(alternatives) = 1 -> aliasOf(alternatives[1], sigs)
       [] OTHER -> [def |-> [def |-> "variant", name |-> v.name, alts |-> ToSet(alternatives)],
                    state |-> [state EXCEPT !.signatures = sigs]]

\* The definition of a type that is no variant.
emitOther(name, type) ==
  CASE type.k = "struct" -> [def |-> "struct", name |-> name, fields |-> type.fields,
                             bases |-> type.bases]
    [] type.k = "array" -> Alias(name, Cpp(TRUE, type.elem.cpp.name))
    [] type.k = "prim" /\ type.enum -> [def |-> "enum", name |-> name]
    [] type.k = "prim" /\ ~type.enum -> Alias(name, Cpp(FALSE, <<type.cpp>>))

-----------------------------------------------------------------------------
(* generateDefsCpp: with a new DefsEmitState, so that no variant is known to  *)
(* be an alias of an earlier one.                                             *)

HasSerializationNoEnum(types, name) ==
  types[name].k \in {"struct", "variant"}
HasSerialization(types, name) ==
  CASE types[name].k = "variant" ->
         Cardinality(processVariantAlternatives(types, <<>>, types[name])) # 1
    [] types[name].k = "struct" -> TRUE
    [] types[name].k = "prim" -> types[name].enum
    [] OTHER -> FALSE

generateDefsCpp(types, sorted) ==
  FlattenSeq([i \in DOMAIN sorted |->
                IF HasSerialization(types, sorted[i]) THEN <<sorted[i]>> ELSE <<>>])

-----------------------------------------------------------------------------
(* generateFromOpenAPI. *)

Init ==
  /\ phase = "start"
  /\ options \in Options
  /\ document = <<>> /\ operations = FALSE /\ ast = <<>> /\ order = <<>>
  /\ emit = NewState
  /\ header = <<>> /\ source = <<>> /\ files = {}
  /\ args = [module |-> <<>>, ns |-> <<>>]
  /\ locals = [ns |-> <<>>, server_module |-> <<>>]

\* The backend is unknown, the file cannot be read or is not of version 3.
Reject ==
  /\ phase = "start"
  /\ phase' = "failed"
  /\ UNCHANGED <<input, defs, files, naming>>

BuildAST ==
  /\ phase = "start"
  /\ document' \in Documents
  /\ operations' \in BOOLEAN
  /\ ast' = Parsed[document']
  /\ phase' = "ast"
  /\ UNCHANGED <<options, defs, files, naming>>

ValidateAST ==
  /\ phase = "ast"
  /\ phase' = IF validate(ast) = {} THEN "valid" ELSE "failed"
  /\ UNCHANGED <<input, defs, files, naming>>

\* A dependency on itself, through any number of types.
Cyclic ==
  \E S \in (SUBSET DOMAIN ast) \ {{}} : \A n \in S : Dependencies(ast, n) \cap S # {}

\* A cycle ends the program. Otherwise the names are set up, and ns is moved
\* into the arguments of the backends.
Sort ==
  /\ phase = "valid"
  /\ IF Cyclic THEN phase' = "failed" /\ UNCHANGED naming
     ELSE /\ phase' = "header"
          /\ args' = [module |-> Title, ns |-> IF options.ns = <<>> THEN Title ELSE options.ns]
          /\ locals' = [ns |-> <<>>, server_module |-> Append(Title, "server")]
  /\ UNCHANGED <<input, defs, files>>

\* The next type of the order: its definition in the header.
EmitType ==
  /\ phase = "header"
  /\ \E n \in DOMAIN ast \ ToSet(order) :
       /\ Dependencies(ast, n) \subseteq ToSet(order)
       /\ order' = Append(order, n)
       /\ IF ast[n].k = "variant"
          THEN \E alternatives \in
                 SetToSeqs(processVariantAlternatives(ast, emit.chain, ast[n])) :
                 LET r == emitVariant(ast[n], alternatives, emit)
                 IN header' = Append(header, r.def) /\ emit' = r.state
          ELSE header' = Append(header, emitOther(n, ast[n])) /\ UNCHANGED emit
  /\ UNCHANGED <<phase, input, source, files, naming>>

File(name, module) == [file |-> name, ns |-> args.ns, module |-> module]
When(cond, set) == IF cond THEN set ELSE {}

GenerateDefsCpp ==
  /\ phase = "header"
  /\ ToSet(order) = DOMAIN ast
  /\ source' = generateDefsCpp(ast, order)
  /\ files' = {File("openapi_defs.hpp", <<>>), File("openapi_defs.cpp", <<>>)}
  /\ phase' = "client"
  /\ UNCHANGED <<input, order, emit, header, naming>>

WantsClient == options.mode \in {"client", "both"}
WantsServer == options.mode \in {"server", "both"}

\* No back end writes anything for a document without operations.
GenerateClient ==
  /\ phase = "client"
  /\ LET wanted == WantsClient /\ operations
     IN files' = files \cup When(wanted, {File("client.hpp", <<>>)})
                       \cup When(wanted /\ options.python, {File("py_module.cpp", args.module)})
  /\ phase' = "server"
  /\ UNCHANGED <<input, defs, naming>>

\* server_args takes the namespace from the variable it was moved out of.
GenerateServer ==
  /\ phase = "server"
  /\ LET wanted == WantsServer /\ operations
     IN files' = files \cup When(wanted, {File("server.hpp", <<>>), File("server.cpp", <<>>)})
                       \cup When(wanted /\ options.python,
                                 {[file |-> "server_py.cpp", ns |-> locals.ns,
                                   module |-> locals.server_module]})
  /\ locals' = [locals EXCEPT !.server_module = IF WantsServer /\ options.python THEN <<>> ELSE @]
  /\ phase' = "cmake"
  /\ UNCHANGED <<input, defs, args>>

\* The module names in siesta_info.cmake are copies made before the moves.
CMakeModules ==
  When(options.python /\ WantsClient, {Title})
  \cup When(options.python /\ WantsServer, {Append(Title, "server")})

WriteCMake ==
  /\ phase = "cmake"
  /\ files' = files \cup {[file |-> "siesta_info.cmake", ns |-> <<>>, module |-> m] : m \in CMakeModules}
  /\ phase' = "done"
  /\ UNCHANGED <<input, defs, naming>>

Next == Reject \/ BuildAST \/ ValidateAST \/ Sort \/ EmitType \/ GenerateDefsCpp
        \/ GenerateClient \/ GenerateServer \/ WriteCMake

Spec == Init /\ [][Next]_vars

-----------------------------------------------------------------------------
(* Properties. *)

\* The types a definition mentions.
Mentioned(d) ==
  CASE d.def = "struct" -> {d.fields[i].type.cpp : i \in DOMAIN d.fields} \cup
                           {Cpp(FALSE, b) : b \in ToSet(d.bases)}
    [] d.def = "variant" -> d.alts
    [] d.def = "alias" -> {d.to}
    [] d.def = "enum" -> {}

\* Every definition of openapi_defs.hpp mentions only types that are built in or
\* defined before it, also where a variant was folded into another or resolved
\* through aliases. The one exception is the element of an array whose $ref
\* leads nowhere, which NormalizedAST::validate does not see in a property.
CompleteTypes ==
  \A i \in DOMAIN header : \A cpp \in Mentioned(header[i]) :
    \/ cpp.name \in Builtin
    \/ \E j \in 1 .. (i - 1) : header[j].name = cpp.name
    \/ cpp.vec /\ cpp.name \notin DOMAIN ast

\* The choice between types: duplicates count once, and one type is no choice.
OneOf(types) == IF Cardinality(types) = 1 THEN CHOOSE x \in types : TRUE
                ELSE [choice |-> types]

\* The C++ type behind a type, given the definitions of a header: aliases are
\* followed, variants are choices. A definition says nothing of later ones.
DefinedAt(lines, cpp) == {i \in DOMAIN lines : ~cpp.vec /\ lines[i].name = cpp.name}
CanonicalIn(lines, cpp) ==
  LET meaning[i \in DOMAIN lines] ==
        LET at(c) == {j \in DefinedAt(lines, c) : j < i}
            of(c) == IF at(c) = {} THEN c ELSE meaning[CHOOSE j \in at(c) : TRUE]
        IN CASE lines[i].def = "alias" -> of(lines[i].to)
             [] lines[i].def = "variant" -> OneOf({of(c) : c \in lines[i].alts})
             [] OTHER -> Cpp(FALSE, lines[i].name)
  IN IF DefinedAt(lines, cpp) = {} THEN cpp
     ELSE meaning[CHOOSE j \in DefinedAt(lines, cpp) : TRUE]
Canonical(cpp) == CanonicalIn(header, cpp)

\* However emitVariant folds variants into earlier ones and resolves aliases, the
\* type it emits for a oneOf or anyOf is the choice between the alternatives the
\* AST lists, no more and no less. It takes a named number or boolean for a
\* string (resolveTypeName), so documents that name one are left out.
AlternativesKept ==
  (\A n \in DOMAIN ast : ast[n].k = "prim" => ast[n].enum \/ ast[n].cpp = "std::string") =>
    \A n \in ToSet(order) : ast[n].k = "variant" =>
      Canonical(Cpp(FALSE, n)) = OneOf({Canonical(alt.cpp) : alt \in ToSet(ast[n].alts)})

\* What openapi_defs.hpp declares tag_invoke for and is a type of its own (a
\* struct, an enum or a variant that is no alias) has a body in openapi_defs.cpp,
\* although generateDefsCpp starts from a new DefsEmitState and folds variants
\* differently from generateDefsHpp. An inline alternative is a struct, unless a
\* component has the very name the parser makes up for it (C_alt_0) and takes its
\* place: if that is a variant folded into another, a body may be missing.
InlineAreStructs(types) ==
  \A n \in DOMAIN types : types[n].k = "variant" =>
    \A alt \in ToSet(types[n].alts) :
      alt.inline /\ ~alt.cpp.vec /\ alt.cpp.name \in DOMAIN types =>
        types[alt.cpp.name].k = "struct"
BodiesComplete ==
  phase \in {"client", "server", "cmake", "done"} /\ InlineAreStructs(ast) =>
    \A d \in ToSet(header) : d.def # "alias" => d.name \in ToSet(source)

-----------------------------------------------------------------------------
(* The names in the generated files. *)

\* ARCHITECTURE.md, 10: all types, client, server, and Python bindings live in the
\* same namespace per schema.
OneNamespace ==
  \A f \in files : f.file # "siesta_info.cmake" => f.ns = args.ns
=============================================================================
