----------------------------- MODULE MCGenerator -----------------------------
EXTENDS GeneratorReference

R(n) == [k |-> "ref", to |-> n]
Str == [k |-> "prim", cpp |-> "std::string", enum |-> FALSE]
Num == [k |-> "prim", cpp |-> "int64_t", enum |-> FALSE]
Enum == [k |-> "prim", cpp |-> "std::string", enum |-> TRUE]
Arr(s) == [k |-> "array", items |-> s]
Obj(kind, props, allOf, oneOf) ==
  [k |-> kind, props |-> props, allOf |-> allOf, oneOf |-> oneOf,
   struct |-> props # <<>> \/ allOf # <<>>]
Object(props) == Obj("object", props, <<>>, <<>>)
Derived(props, bases) == Obj("object", props, bases, <<>>)
Implicit(props, allOf) == Obj("untyped", props, allOf, <<>>)
Choice(alts) == Obj("object", <<>>, <<>>, alts)
P(name, schema) == [name |-> name, schema |-> schema]
NoSlash == R(<<"">>)
NoObject == [k |-> "invalid"]

A == <<"A">>
B == <<"B">>
C == <<"C">>
Class == <<"class">>
C_alt_0 == <<"C", "alt", "0">>
x86_64 == <<"x86", "64">>
Hyphen == <<"x86-64">>
x == <<"x">>
y == <<"y">>

\* Properties: every kind of schema, one or two objects deep.
Leaves == {R(A), R(C), Str, Num, Arr(Str), Arr(R(A)), Arr(R(C)), Arr(Arr(Str))}
Nested == {Object(<<P(x, s)>>) : s \in {Str, Arr(Object(<<P(y, Num)>>))}}
          \cup {Choice(<<R(A), Str>>), Arr(Object(<<P(x, Num)>>)),
                Implicit(<<P(x, Object(<<P(y, Str)>>))>>, <<>>)}

\* Variants: over the types A and B, themselves, and each other.
Alternatives == {<<R(A)>>, <<R(A), R(B)>>, <<R(B), R(A)>>, <<R(A), R(A)>>,
                 <<R(C), R(A)>>, <<R(C), R(C)>>, <<Str, R(A)>>, <<Num>>,
                 <<Choice(<<R(A), Str>>), R(B)>>,
                 <<Object(<<P(x, Str)>>), Object(<<P(x, Num)>>)>>, <<Arr(R(A)), R(A)>>}

\* A nests objects or is an enum; B refers to it or nests what A nests. C is missing.
Objects ==
  {<<P(A, a), P(B, b)>> : a \in {Object(<<P(x, Object(<<P(y, Num)>>))>>), Enum},
     b \in {Object(<<P(x, s)>>) : s \in Leaves \cup Nested}
           \cup {Derived(<<P(y, Str)>>, <<R(A)>>), Derived(<<P(x, Str)>>, <<R(B)>>),
                 Implicit(<<P(y, Num)>>, <<R(A), Object(<<P(x, Str)>>)>>),
                 R(A), Arr(R(A))}}
Clashes ==
  {<<P(A, Object(<<P(x, Object(<<P(y, Num)>>))>>)), P(A \o x, s)>> : s \in {Str, Object(<<>>)}}
  \cup {<<P(Class, Object(<<P(Class, Str)>>)),
          P(B, Derived(<<P(x, R(Class))>>, <<R(Class)>>))>>,
        <<P(A, Object(<<>>)), P(B, Choice(<<R(C_alt_0)>>)),
          P(C, Choice(<<Object(<<P(x, Str)>>), R(B)>>)),
          P(y, Choice(<<R(A), Str>>)), P(C_alt_0, Choice(<<R(A), Str>>))>>}
\* Names that sanitize changes, and that meet then; references without a slash;
\* members that are no objects, before and after an inline type.
Spellings ==
  {<<P(Hyphen, Object(<<P(x, Str)>>)), P(<<"9">>, Object(<<P(<<"x-9">>, Object(<<>>)), P(x, R(Hyphen))>>))>>,
   <<P(Hyphen, Object(<<P(x, Str)>>)), P(x86_64, Num)>>,
   <<P(A, Object(<<P(<<"x-9">>, Object(<<P(x, Str)>>)), P(<<"x", "9">>, Object(<<P(y, Str)>>))>>))>>}
Faulty ==
  {<<P(A, a), P(B, Object(<<P(x, Object(<<P(y, Num)>>))>>))>> :
     a \in {Object(<<P(x, NoSlash)>>), Object(<<P(x, Arr(NoSlash))>>), Derived(<<>>, <<NoSlash>>),
            Choice(<<NoSlash, Num>>), Arr(NoSlash), Implicit(<<>>, <<NoSlash, Object(<<>>)>>),
            Choice(<<Object(<<P(x, Num)>>), NoObject, Object(<<>>)>>),
            Derived(<<P(x, Object(<<>>))>>, <<NoObject>>),
            Implicit(<<P(x, Num)>>, <<Object(<<P(y, Str)>>), NoObject>>),
            Object(<<P(x, Object(<<>>)), P(y, Object(<<P(x, Choice(<<NoObject>>))>>))>>)}}
Variants ==
  {<<P(A, a), P(B, b), P(C, Choice(c)), P(y, Choice(d))>> :
     a \in {Object(<<>>), Num}, b \in {Enum, Choice(<<R(A)>>)},
     c \in Alternatives,
     d \in {<<R(A)>>, <<R(A), R(B)>>, <<R(B), R(A)>>, <<R(C), R(A)>>, <<R(C), R(C)>>}}
Documents1 == Objects \cup Clashes \cup Spellings \cup Faulty
              \cup Variants \cup {<<>>}
Parsed1 == [d \in Documents1 |-> parseSchemas(d)]

Option(mode, python, ns) == [mode |-> mode, python |-> python, ns |-> ns]
Options1 == {Option("both", TRUE, <<>>), Option("client", TRUE, <<"shop">>),
             Option("server", TRUE, <<"shop">>), Option("both", FALSE, <<>>)}
Title1 == <<"Pet", "Store">>
Parts1(word) == CASE word = "x86-64" -> x86_64
                  [] word = "x-9" -> <<"x", "9">>
                  [] OTHER -> <<word>>
Reserved1 == {Class, x86_64}
Digits1 == {"9"}
=============================================================================
