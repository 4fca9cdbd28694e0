--------------------------- MODULE PathTemplates ---------------------------
(* Paths of an OpenAPI document and the functions on them that the generator
   runs (sanitizeParamName, generateFunctionName, the path template) or emits
   (match_path, the replacement of placeholders).

   A path is a sequence of segments, a segment a sequence of pieces: a literal
   text or a placeholder {name}.  The route patterns and the request targets are
   sequences of tokens, the pieces with a slash before each segment.  Texts are
   atoms: no two of them put together make a third one. *)
EXTENDS Naturals, Sequences, SequencesExt

(* The parameter names that sanitizeParamName changes (identifiers the emitted
   code uses itself, names with brackets or dots), with what they become. *)
CONSTANT Renamed

Token == [ph : BOOLEAN, text : STRING]
Text(t) == [ph |-> FALSE, text |-> t]
Placeholder(n) == [ph |-> TRUE, text |-> n]
Hole == Placeholder("")   \* the "{}" of a path template
Slash == Text("/")
Mark == Text("?")

(* What stands between two slashes has none itself, and a path has no query. *)
IsPath(path) == path \in Seq(Seq(Token \ {Slash, Mark}))

(* The elements of s that are in S, in their order. *)
Keep(s, S) == FlattenSeq([k \in DOMAIN s |-> IF s[k] \in S THEN <<s[k]>> ELSE <<>>])

Tokens(path) == FlattenSeq([i \in DOMAIN path |-> <<Slash>> \o path[i]])

SanitizeParamName(name) == IF name \in DOMAIN Renamed THEN Renamed[name] ELSE name

(* What is left of a path in an identifier: '/', '{', '-' and ':' become an
   underscore, except slashes before the first other character. *)
GenerateFunctionName(method, path) ==
    LET tokens == Tokens(path)
        Dash(t) == ~t.ph /\ t.text \in {"-", ":"}
        Begun(k) == \E j \in 1..k : tokens[j] # Slash /\ ~Dash(tokens[j])
        Letters(k) == CASE tokens[k] = Slash -> IF Begun(k) THEN <<"_">> ELSE <<>>
                        [] Dash(tokens[k])   -> <<"_">>
                        [] tokens[k].ph      -> <<"_", tokens[k].text>>
                        [] OTHER             -> <<tokens[k].text>>
    IN <<method>> \o FlattenSeq([k \in DOMAIN tokens |-> Letters(k)])

(* The path with the placeholders of the given names replaced by "{}". *)
PathTemplate(path, names) ==
    [i \in DOMAIN path |->
        [k \in DOMAIN path[i] |->
            IF path[i][k].ph /\ path[i][k].text \in names THEN Hole ELSE path[i][k]]]

FillLastHole(tokens, value) ==
    Reverse(ReplaceFirstSubSeq(Reverse(value), <<Hole>>, Reverse(tokens)))

(* target_path.find("{}") and replace: the first one that is left. *)
FillHole(tokens, value) ==
    LET holes == {k \in DOMAIN tokens : tokens[k] = Hole}
        first == CHOOSE k \in holes : \A m \in holes : k <= m
    IN IF holes = {} THEN tokens
       ELSE SubSeq(tokens, 1, first - 1) \o value \o SubSeq(tokens, first + 1, Len(tokens))

NextSlash(s, i) ==
    LET at == {k \in i..Len(s) : s[k] = Slash}
    IN IF at = {} THEN Len(s) + 1 ELSE CHOOSE k \in at : \A m \in at : k <= m

(* A match_path that is content when one side is used up. *)
MatchPathPrefix(pattern, target) ==
    LET match[rest \in (1..Len(pattern) + 1) \X (1..Len(target) + 1)] ==
            LET i == rest[1]
                j == rest[2]
                pp == NextSlash(pattern, i)
                tp == NextSlash(target, j)
                ps == SubSeq(pattern, i, pp - 1)
                ts == SubSeq(target, j, tp - 1)
            IN IF i > Len(pattern) \/ j > Len(target)
                 THEN TRUE
                 ELSE IF pattern[i] = Slash /\ target[j] = Slash
                   THEN match[<<i + 1, j + 1>>]
                   ELSE (ps = <<Hole>> \/ ps = ts) /\ match[<<pp, tp>>]
    IN match[<<1, 1>>]

(* match_path: i and j are where the rests of pattern and target begin. *)
MatchPath(pattern, target) ==
    LET match[rest \in (1..Len(pattern) + 1) \X (1..Len(target) + 1)] ==
            LET i == rest[1]
                j == rest[2]
                pp == NextSlash(pattern, i)
                tp == NextSlash(target, j)
                ps == SubSeq(pattern, i, pp - 1)
                ts == SubSeq(target, j, tp - 1)
            IN IF i > Len(pattern) \/ j > Len(target)
                 THEN SubSeq(pattern, i, Len(pattern)) = SubSeq(target, j, Len(target))
                 ELSE IF pattern[i] = Slash /\ target[j] = Slash
                   THEN match[<<i + 1, j + 1>>]
                   ELSE (ps = <<Hole>> \/ ps = ts) /\ match[<<pp, tp>>]
    IN match[<<1, 1>>]

-----------------------------------------------------------------------------
(* Reference definitions. *)

(* The segments of a target: what follows each slash, up to the next one. *)
Segments(tokens) ==
    FlattenSeq([k \in DOMAIN tokens |->
        IF tokens[k] = Slash THEN <<SubSeq(tokens, k + 1, NextSlash(tokens, k + 1) - 1)>> ELSE <<>>])

(* As many segments, each the pattern's or anything for a hole; only the last
   hole needs a segment that is not empty. *)
MatchesSegments(pattern, segments) ==
    /\ Len(pattern) = Len(segments)
    /\ \A i \in DOMAIN pattern :
          \/ pattern[i] = segments[i]
          \/ pattern[i] = <<Hole>> /\ (i < Len(pattern) \/ segments[i] # <<>>)

(* The document's meaning of a path: one text for every placeholder. *)
Fits(path, segments) ==
    /\ Len(path) = Len(segments)
    /\ \A i \in DOMAIN path :
          /\ Len(path[i]) = Len(segments[i])
          /\ \A k \in DOMAIN path[i] : path[i][k].ph \/ path[i][k] = segments[i][k]

PlaceholderNames(path) ==
    LET places == Keep(Tokens(path), {t \in ToSet(Tokens(path)) : t.ph})
    IN [k \in DOMAIN places |-> places[k].text]

(* Every placeholder is a segment of its own. *)
WholeSegments(path) ==
    \A i \in DOMAIN path : (\E k \in DOMAIN path[i] : path[i][k].ph) => Len(path[i]) = 1
=============================================================================
