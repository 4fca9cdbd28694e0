-------------------------------- MODULE Api --------------------------------
(* The emitted client and the emitted server of one document at work: a method
   of the client makes a request (BeastClientGen.cpp, emitMethodBody), the server
   routes it (BeastServerGen.cpp, handle_request).  Requests of other clients of
   the server come in too. *)
EXTENDS Endpoints

CONSTANTS
    Values,    \* the values of arguments, as token sequences
    Targets    \* the targets of other clients, as segment sequences

NotFound == <<"404">>

ASSUME RequestsAssumption == Values \subseteq Seq(Token) /\ Targets \subseteq Seq(Seq(Token))
ASSUME NotFoundAssumption == "404" \notin Methods

VARIABLES
    request,   \* the request that the session is at
    reply      \* <<>>, the function_name of the method called, or NotFound

vars == <<doc, read, path_params_map, collected, order, scheme, built, endpoints, phase,
          request, reply>>

NoRequest == [from |-> 0, args |-> <<>>, target |-> <<>>, headers |-> {}, verb |-> "none"]

(* What a C++ compiler wants of the emitted code: one method per name, one
   argument per name, and no std::to_string of a string (emitPathParams). *)
Compiles ==
    /\ \A j, k \in DOMAIN endpoints : endpoints[j].function_name = endpoints[k].function_name => j = k
    /\ \A e \in ToSet(endpoints) :
          /\ \A j, k \in DOMAIN e.params : e.params[j].name = e.params[k].name => j = k
          /\ \A p \in ToSet(At(e.params, "path")) : p.is_string_type

(* <<>> is the empty string for a path parameter, an empty list for a required
   query parameter, and nothing for an optional one. *)
ArgumentLists(e) ==
    {args \in [DOMAIN e.params -> Values \cup {<<>>}] :
        \A k \in DOMAIN args :
            e.params[k].location # "path" =>
                /\ Len(args[k]) <= 1
                /\ args[k] = <<>> => ~e.params[k].required \/ e.params[k].location = "query"}

Places(e, location) ==
    Keep([k \in DOMAIN e.params |-> k], {k \in DOMAIN e.params : e.params[k].location = location})

(* emitPathParams: the arguments go into the placeholders one after the other. *)
TargetPath(e, args) ==
    LET places == Places(e, "path")
        filled[n \in 0..Len(places)] ==
            IF n = 0 THEN Tokens(e.path_template) ELSE FillHole(filled[n - 1], args[places[n]])
    IN filled[Len(places)]

(* emitQueryParams: name and value of what is given. *)
Query(e, args) ==
    FlattenSeq([n \in DOMAIN Places(e, "query") |->
        LET k == Places(e, "query")[n]
        IN IF args[k] = <<>> THEN <<>> ELSE <<Text(e.params[k].wire_name)>> \o args[k]])

(* emitMethodBody: the path, and behind a question mark what query there is. *)
Call(n, args) ==
    LET e == endpoints[n]
        query == Query(e, args)
        queried == ToSet(At(e.params, "query"))
        always == At(e.params, "path") = <<>> /\ queried # {} /\ \A p \in queried : p.required
    IN /\ request = NoRequest
       /\ phase = "done" /\ Compiles
       /\ request' = [from |-> n, args |-> args, verb |-> e.method,
                      target |-> TargetPath(e, args)
                                    \o (IF query # <<>> \/ always THEN <<Mark>> \o query ELSE <<>>),
                      headers |-> {<<e.params[k].wire_name, args[k]>> :
                                      k \in {m \in ToSet(Places(e, "header")) : args[m] # <<>>}}]
       /\ UNCHANGED <<reply, parseVars>>

OtherClient(segments, verb, query) ==
    /\ request = NoRequest
    /\ phase = "done" /\ Compiles
    /\ request' = [NoRequest EXCEPT !.verb = verb, !.target = Tokens(segments) \o query]
    /\ UNCHANGED <<reply, parseVars>>

(* The two tables that emitServerCpp writes. *)
ParamPaths == Keep(endpoints, {e \in ToSet(endpoints) : Contains(Tokens(e.path_template), Hole)})
StaticPaths == {e \in ToSet(endpoints) : ~Contains(Tokens(e.path_template), Hole)}

(* The target up to the question mark. *)
Path(target) ==
    LET marks == {k \in DOMAIN target : target[k] = Mark}
    IN IF marks = {} THEN target ELSE SubSeq(target, 1, (CHOOSE k \in marks : \A m \in marks : k <= m) - 1)

RouteAnyVerb(target, verb) ==
    LET path == Path(target)
        static == {e \in StaticPaths : Tokens(e.path) = path /\ e.method = verb}
        param == SelectInSeq(ParamPaths, LAMBDA e : MatchPath(Tokens(e.path_template), path))
    IN IF static # {} THEN (CHOOSE e \in static : TRUE).function_name
       ELSE IF param # 0 THEN ParamPaths[param].function_name ELSE NotFound

Route(target, verb) ==
    LET path == Path(target)
        static == {e \in StaticPaths : Tokens(e.path) = path /\ e.method = verb}
        param == SelectInSeq(ParamPaths,
                     LAMBDA e : MatchPath(Tokens(e.path_template), path) /\ e.method = verb)
    IN IF static # {} THEN (CHOOSE e \in static : TRUE).function_name
       ELSE IF param # 0 THEN ParamPaths[param].function_name ELSE NotFound

HandleRequest ==
    /\ request # NoRequest /\ reply = <<>>
    /\ reply' = Route(request.target, request.verb)
    /\ UNCHANGED <<request, parseVars>>

(* The session has written the reply and reads the next request. *)
Written ==
    /\ reply # <<>>
    /\ request' = NoRequest
    /\ reply' = <<>>
    /\ UNCHANGED parseVars

ApiInit == Init /\ request = NoRequest /\ reply = <<>>

ApiNext ==
    \/ Parse /\ UNCHANGED <<request, reply>>
    \/ \E n \in DOMAIN endpoints : \E args \in ArgumentLists(endpoints[n]) : Call(n, args)
    \/ \E s \in Targets, m \in Methods, q \in {<<>>, <<Mark>>} : OtherClient(s, m, q)
    \/ HandleRequest
    \/ Written

ApiSpec == ApiInit /\ [][ApiNext]_vars

-----------------------------------------------------------------------------
Routed == reply # <<>>
RequestSegments == Segments(Path(request.target))

(* The arguments for the placeholders come in the order of the placeholders, and
   under their names. *)
InPathOrder(e) ==
    LET sent == At(e.params, "path")
    IN /\ [k \in DOMAIN sent |-> sent[k].wire_name] = PlaceholderNames(e.path)
       /\ \A p \in ToSet(sent) : p.name = p.wire_name

(* A value that is a text without slashes, question marks and braces. *)
PlainText(value) == Len(value) = 1 /\ ~value[1].ph /\ value[1] \notin {Slash, Mark}

(* The type invariant: parseEndpoints' and the form of request and reply. *)
TypeOK ==
    /\ ParseTypeOK
    /\ request.from \in 0..Len(endpoints)
    /\ request.verb \in Methods \cup {"none"}
    /\ reply \in {<<>>, NotFound} \cup {e.function_name : e \in ToSet(endpoints)}

(* match_path, whose loop strips slashes and segments off both sides and exits
   when one is used up, decides what the segment-wise definition says, for the
   templates of the document and every target that comes in. *)
MatchPathIsSegmentwise ==
    \A e \in ToSet(endpoints) :
        request.verb # "none" =>
            (MatchPath(Tokens(e.path_template), Path(request.target))
                <=> MatchesSegments(e.path_template, RequestSegments))

(* handle_request calls a method of the request's verb whose path matches; the
   method of a path without placeholders gets the requests for exactly that path,
   also where a parametrised one matches; and a 404 means that no path fits whose
   placeholders are whole segments and were found by parseEndpoints. *)
RoutedRight ==
    Routed =>
        /\ reply # NotFound =>
              \E e \in ToSet(endpoints) : /\ e.function_name = reply
                                          /\ e.method = request.verb
                                          /\ MatchesSegments(e.path_template, RequestSegments)
        /\ \A e \in StaticPaths :
              e.method = request.verb /\ Tokens(e.path) = Path(request.target) => reply = e.function_name
        /\ reply = NotFound =>
              \A e \in ToSet(endpoints) :
                  /\ e.method = request.verb
                  /\ WholeSegments(e.path)
                  /\ \A n \in DOMAIN PlaceholderNames(e.path_template) : PlaceholderNames(e.path_template)[n] = ""
                  => ~Fits(e.path, RequestSegments)

(* What stands in segment i of the path of e when its method is called: the
   argument that has the placeholder's name, or the segment as it is written. *)
Meant(e, args, i) ==
    IF e.path[i] # <<>> /\ e.path[i][1].ph
      THEN args[CHOOSE k \in ToSet(Places(e, "path")) : e.params[k].wire_name = e.path[i][1].text]
      ELSE e.path[i]

(* A call on the client arrives as the call it was: with the arguments for the
   path in their own placeholders and the others under the names the document
   gives them, at the method of the endpoint or of another one that matches as
   well.  Provided that the arguments are in the order of the placeholders (the
   client fills them in by position), that placeholders are whole segments, and
   that values are plain texts (they are not encoded, and braces would be filled in). *)
RoundTrip ==
    Routed /\ request.from # 0 =>
        LET e == endpoints[request.from]
            args == request.args
        IN InPathOrder(e) /\ WholeSegments(e.path)
             /\ (\A k \in ToSet(Places(e, "path")) : PlainText(args[k])) =>
             /\ RequestSegments = [i \in DOMAIN e.path |-> Meant(e, args, i)]
             /\ \E d \in ToSet(endpoints) : /\ d.function_name = reply
                                            /\ d.method = e.method
                                            /\ MatchesSegments(d.path_template, RequestSegments)
             /\ \A k \in ToSet(Places(e, "query")) :
                   args[k] # <<>> => LET sent == Text(e.params[k].wire_name)
                                     IN \E i \in 1..Len(request.target) - 1 :
                                            request.target[i] = sent /\ request.target[i + 1] = args[k][1]
             /\ \A k \in ToSet(Places(e, "header")) :
                   args[k] # <<>> => <<e.params[k].wire_name, args[k]>> \in request.headers

(* README.md:79, "incoming requests are routed to the correct virtual method by
   path and verb": a request that fits the path of one operation only, and has its
   verb, gets to the method of that operation. *)
RoutedByPathAndVerb ==
    Routed =>
        \A k \in DOMAIN endpoints :
            (\A m \in DOMAIN endpoints : 
                (m = k) <=> (endpoints[m].method = request.verb /\ Fits(endpoints[m].path, RequestSegments)))
            => reply = endpoints[k].function_name
=============================================================================
