# A TLA+ verification of siesta

siesta generates C++ clients and servers (and Python bindings for both) from
OpenAPI v3 descriptions. This directory holds TLA+ models of the parts that carry
its logic, the TLC configurations that check them on small instances, and TLAPS
proofs for instances of any size. `PROJECT.json` maps every definition to the
lines it models and lists runs, mutants, findings, hazards and theorems.

Check a model with `tlc -config MCX.cfg MCX`, a proof module with
`tlapm XProofs.tla`.

## The system

| part | source | state | operations | hard because |
|---|---|---|---|---|
| `async_queue` | `include/siesta/asio/queue.hpp` | a `std::queue`, a timer that never expires with the pollers waiting on it | `async_push`, `async_emplace`, `async_poll`, the completion `wait_op` | completions are posted and run later, in any order |
| `async_condition_variable` | `include/siesta/asio/condition_variable.hpp` | a timer | `async_wait`, `notify_one`, `notify_all` | as above; two constructors leave the timer expired |
| `ServerBase`, `Session` | `include/siesta/beast/server.hpp`, `src/beast/server.cpp` | acceptor; per connection stream, buffer, request, response | `start`, `on_accept`, `run`, `do_read`, `on_read`, `write`, `on_write`, `do_close` | lifetime by `shared_ptr`, timeouts, pipelining, handlers that answer later or never |
| `ClientBase` | `include/siesta/beast/client.hpp`, `src/beast/client.cpp`, `error.cpp` | resolver, stream, one request, response and buffer | `start`, `stop`, `on_resolve`, `on_connect`, `async_submit_request`, `is_transient` | calls share members; late answers; stop racing the resolver |
| front end | `generator/src/Frontend` | `NormalizedAST`: types and paths by name | `SchemaParser::parseSchema`, `validate` | names made up for inline types may collide |
| dependency graph | `generator/src/IR/DependencyGraph` | `adjacency_` | `buildFromAST`, `detectCycles`, `topologicalSort`, `sortTypes` | recursion, repeated edges, unordered maps |
| endpoint IR | `generator/src/IR/EndpointIR` | `vector<Endpoint>` | `parseEndpoints` | state carried from path to path |
| back ends | `generator/src/Backend/Beast`, `IR/DefsGenerator` | the emitted text | one generator per file emitted | the emitted server's routing; the emitted Python server's thread and GIL |
| driver | `generator/src/Driver` | the strings handed on | parse, validate, sort, emit | exits on failure; values moved and used again |
| JSON schema validator | `jsonschema/src` | the compiled tree, anchors | `compile`, `validate` | references, nested evaluation contexts |
| `path_tree`, `url_encode`, ... | `include/siesta` | a trie; none | `insert`, `at_wildcard`, ... | wildcards against literal segments |

How they interact: the driver calls the front end, the dependency graph, the
endpoint IR and the back ends one after the other, in one thread. The emitted
server derives from `ServerBase` (routing in `handle_request`), the emitted
client from `ClientBase` (one `async_submit_request` per endpoint). The run-time
library is asynchronous: handlers on strands of an `io_context` that any number
of threads may run.

What makes each part correct: values leave a queue once and in order and no
poller is forgotten; a session has one owner at a time, its replies come in
order, it ends; a call returns, with its own answer; the type order has
dependencies first, is complete, and cycles are reported; every declared
endpoint is reachable; the validator accepts exactly what the schema allows.

## Modules

| module | models | extends |
|---|---|---|
| `FifoQueue` | what a queue promises: `Put` and `Take` at the two ends of a sequence | |
| `AsyncQueue` | `async_queue` | instance of `FifoQueue` |
| `AsyncQueueProofs` | its proofs | `AsyncQueue` |
| `Server` | `ServerBase`, `Session`, what generated handlers do to a session | |
| `ServerProofs` | its proofs | `Server` |
| `Client` | `ClientBase`, `make_error_code` | |
| `ClientProofs` | its proofs | `Client` |
| `DependencyGraph` | `DependencyGraph`, `sortTypes` | |
| `DependencyGraphProofs` | its proofs | `DependencyGraph` |
| `PathTemplates` | paths, templates, `match_path`, `sanitizeParamName`, `generateFunctionName` | |
| `Endpoints` | `parseEndpoints` | `PathTemplates` |
| `Api` | the emitted client's requests, the emitted server's `handle_request` | `Endpoints` |
| `SequenceFacts` | lemmas about sequences, `FlattenSeq` and filters, and induction | |
| `ApiProofs` | the proofs about `parseEndpoints`, credentials, requests, `match_path`, routing and calls | `Api`, `SequenceFacts` |
| `PythonServer` | the emitted `PyServer`: its thread, handlers and the interpreter lock | |
| `PythonServerProofs` | its proofs | `PythonServer` |
| `NormalizedAST` | `NormalizedAST`: its types, `validate`, `buildDependencies` | |
| `SchemaParser` | `SchemaParser`: from schemas to an AST | `NormalizedAST` |
| `Generator` | `generateFromOpenAPI`, `DefsGenerator` | `NormalizedAST` |
| `GeneratorProofs` | the proofs about `openapi_defs.hpp` | `Generator`, `SequenceFacts` |
| `GeneratorReference` | what the types of an AST should be for a document | `Generator`, `SchemaParser` |
| `JsonSchema` | `SchemaCompiler`: `compile`, `validate` | |
| `JsonSchemaReference` | what JSON Schema means, and the properties that compare the two | `JsonSchema` |
| `MC...` | the instances TLC checks | the module of that name |

A definition whose name extends another's by a fault (`CancelAll`,
`OnWriteResent`, ...) stands directly before the one it is a faulty version of.
It is used by no specification; it is there to show that a property fails when
the code has that fault.

### AsyncQueue

`queue` is `_queue`, `waiters` the waits in progress on `_timer`, `aborted` the
pollers whose wait was cancelled and whose `wait_op` is posted. `AsyncPush`
stores and wakes at most one, `AsyncPushThrows` is the `catch` branches,
`AsyncPoll` always sleeps first, `WaitOp` takes the head or sleeps again.
`pushed`, `delivered` and `unnoticed` are histories. A timer whose expiry is
`time_point::max()` completes only by cancellation, so `wait_op`'s first branch
(any other code) does not occur. A push and a completion are atomic: the model is
of one thread, or of users that bring their own strand. Posted completions form a
set because they may go to different executors.

The invariant that carries the proofs is `BacklogIsUnnoticed`: `Len(queue) =
Cardinality(aborted) + unnoticed`. It is what makes `wait_op`'s re-wait
unreachable (`WokenFindsValue`), and it says at the same time what is peculiar
to this queue: a value pushed while nobody waits does not end a later poll by
itself. The comment at queue.hpp:92 ("the returned value may be nonsense if the
error is non-zero") does not fit line 116, where the handler always gets
`operation_aborted` together with a good value.

### Server

Per connection: `posts`, `reads`, `writes` count the lambdas in progress that
hold a `shared_ptr` to the session, `held` the pointers that handlers keep;
`Refs` is the use count, and `LastRefCloses` runs `~Session`. `deadline` is the
timeout armed last. `response` is the status and the origin of the body of
`_response`, which nothing clears. `taken` and `wire` are histories of requests
and replies. A handler may answer at once, keep the session and answer later, or
drop it; one that both answers and keeps the pointer to answer again breaks the
interface and is left out, as are handlers that throw out of `handle_request`
(the exception leaves `io_context::run`). Errors happen where they may: the peer
is gone, the message is malformed, a timer is armed.

A Session's socket is accepted on `make_strand(*_ctx)`, so its callbacks are
serialised (generator/ARCHITECTURE.md:282 says "no explicit strand"), and
`do_close` closes (line 284 there says `shutdown(send)`).

### Client

`start` and `stop` change `resolves`, `link` and `server`. A lookup is asked for,
begun by the resolver's one thread (`ResolverBegins`) and answered
(`ResolverAnswers`). asio looks at a cancellation before it begins a lookup and
never again, so `stop` makes those that wait fail and leaves the one that runs:
if it succeeds, `on_resolve` connects after `stop` (`begun` in
`StopCancelsStart`). A call is `Submit`
(the request goes into `_request`) and `Send` (the operation starts), because a
completion token such as `use_awaitable` starts it later. `Doom` marks the
operation whose socket is closed or reopened. A response has two pieces, so that
a connection can break within a header; what a parser makes of half a header
followed by another response is left open (`Parse`). Operations start one after
the other: two async writes on one stream at a time are not allowed by beast.
`_host_value` is set by `start` before anything is connected
(ARCHITECTURE.md:267 says "the connected host"). `is_transient`, a
function of the error a call ends with, is left out.

### DependencyGraph

The recursion of `dfsDetectCycle` is the stack `frames`; `path` and `rec_stack`
are its nodes. Loops over unordered maps take any order (`Orderings`, `\E n`).
`Init` is any assignment of up to `MaxRefs` references to each type. A reference
is the name `buildDependencies` gets out of a field, base, alternative, element or
value type; it never sees containers of containers, which the parser turns into
strings.

### PathTemplates, Endpoints, Api

A path is a sequence of segments, a segment a sequence of literal texts and
placeholders; patterns and targets are token sequences with slashes. `{type}` that
was not replaced stays a token of its own, and `{}` is the placeholder without a
name, as in the code. `Endpoints` reads the paths into `path_params_map` and
`collected`, fixes the iteration order of the maps (any order), and builds
endpoints. `Compiles` says which results are C++ programs: distinct method names,
distinct argument names, no `std::to_string` of a string (parameters that come by
`$ref` have `is_string_type` unset, so a string path parameter by `$ref` does not
compile). A parameter whose `$ref` leads nowhere has neither name nor location, and
is dropped when the arguments are put in order. `Call` is a method of the emitted client, `OtherClient` any other
request, `Route` is `handle_request`. Path values are not encoded, so a value may
bring a slash with it. Request bodies are left out; a body that is a `$ref` is sent
with an empty content type, because `body_content_type` is only set for the others.

### PythonServer

Two threads and one lock. The Python thread calls `listen`, `shutdown` and the
destructor (`caller`); the server's thread is in `ctx.run()` (`thread`,
`handler`). `shutdown` has no `call_guard`, so it stops the context and joins with
the interpreter lock held. `Listen` covers what goes wrong silently or for good:
`start` that gives up half-way, `_thread` assigned while joinable
(`std::terminate`), a context that is stopped and never restarted, so that a
server listens again after a shutdown and serves nothing. `CallerYields`,
`CallerAcquires` and `HandlerYields` are the interpreter's. A connection's
operations are in `Server`; here a request is one handler, and `AcceptFails` leaves
the acceptor deaf: the connections there are go on, and `run` returns when the last
of them has ended. A method that is not overridden answers 501 after it has released
the lock (`HandlerAnswers`). `shutdown` called from
a handler (a thread that joins itself) is left out. The default host "localhost"
is no address for `make_address`, which throws before anything changes.

### NormalizedAST, SchemaParser, Generator

A name is a sequence of words, so that the names the parser makes up
(`A` and `x` give `A_x`) can clash with declared ones as they do in the code.
`parseSchemas` folds the components into `[ast, added, thrown]`, the AST,
`added_types` and an exception on its way. The accessors are `noexcept`; what throws
is a member of `allOf` or `oneOf` that is no object, and the component is then left
out while its inline types stay. `sanitize` cuts words where a character becomes "_"
(`Parts`), so that `x86-64` is `x86_64`, a reserved word, and gets "_" at its end, or
at its front if it begins with a digit. A `$ref` without a slash names nothing: no
base, a string as an alternative or an element, an unknown type as a property. `Generator` is the driver, one action per phase. It takes the ASTs
of its documents as a constant, `Parsed`, of which it assumes what the parser sees
to (`ASTOK`: references that are not inline are no vectors, inline ones are
built in, vectors or types of the AST, variants have alternatives); the instance
gives it `parseSchemas` of each document, so TLC evaluates the assumption on what
the parser model makes. The header is
written type by type (`EmitType`) in any order that respects the dependencies,
which is what `DependencyGraph` shows of `sortTypes`, and alternatives come in any
order, as from the `unordered_map` they are collected in. `emit` is
`DefsEmitState`. Map types, `EnumType`, nullable and empty variants are never
made by the parser, so the code for them is not reached. `locals` are the
driver's strings: a string moved from is empty. `operations` tells whether
`parseEndpoints` found any; without them the back ends write nothing.

What the model shows besides the properties, as facts of the code: a component
that is only a `$ref`, an inline variant and an array in an array become
`std::string`; below a schema without `type` nested properties are parsed under
the empty name, so inline types of different components share names like `_q`; a
named number in a variant is taken for a string (DefsGenerator.cpp:51); the keys
in JSON are the sanitized names (DefsGenerator.cpp:628); a `$ref` in an array
property is not validated, and a dangling one reaches the header; a variant that
is an alias of another gets a second body in `openapi_defs.cpp`, because the state
in which aliases are recorded is a new one there (DefsGenerator.cpp:356, 677).
A component may have the name the parser makes up for an inline alternative
(`C_alt_0`) and then takes its place. If it is a variant folded into another, and the
other alternative of `C` is an alias of it, `C` is a variant of two types in the
header and of one in `openapi_defs.cpp`, which therefore lacks its body. `BodiesComplete`
leaves such documents out (`InlineAreStructs`); the instance has one.

### JsonSchema, JsonSchemaReference

Values carry simdjson's type; numbers are counted in units of 1/`Unit`, so that 2
and 2.0, and 1.5, are told apart, and two that differ by no more than `Tolerance`
units are the same to `json_equal` and `multipleOf`, as those within 1e-10 are in
the code. URIs are token sequences: a name with a slash adds several (`Pieces`), and
`NameOf` gets back the last one only, as `rfind('/')` does. A text has a length in
bytes (`Bytes`, which the code takes) and one in characters (`Chars`, which is meant).
`build_schema_tree` gives every node its
keyword, value, URI, children and whether `parent` is good: pointers into a vector
that was moved are "stale", and following one is undefined behaviour (`ub`).
`validate_node` threads the number of errors and the one evaluation context
through the recursion, and gives up at `MaxDepth`, which stands for the end of the
stack (`overflow`). Regular expressions are an oracle, `PatternFound`.

`Accepts` is the meaning of the keywords, written from the JSON Schema
specification and independent of the code. The validator is far from it: items of
`allOf`, `anyOf`, `oneOf` and `prefixItems` get no keyword and are ignored; of
`items`, `not`, `contains`, `additionalProperties` and `if` only the first keyword
of the subschema is applied; `then`, `else`, `dependentRequired`, `minContains`,
`maxContains` and a false `additionalProperties` are never enforced; a `$ref` to a
definition accepts everything; `propertyNames` looks at the values; `false` as a
root accepts, and `false` as the value of any keyword without a case of its own
(`readOnly`, `default`, `then`) rejects everything; negative limits on sizes become
huge. Limits on sizes that are not written as integers are ignored, lengths are in
bytes, names with a slash are looked up by their last part, and numbers that are very
close are equal. So the properties are about fragments: `Exact` is what the validator
implements, `NotMisread` what it may ignore but does not turn around. Both take
schemas to be ones (a keyword has a value of its type, no field comes twice) and ask
for names without slashes (`WholeName`) and, where a length or a multiple is
compared, for texts of one byte per character (`NarrowTexts`) and numbers further
apart than the tolerance (`CoarseNumbers`). `Exact` has plain keywords with integer
size limits, `properties`, `patternProperties`, `dependentSchemas`, definitions,
references to the root, and `items`, `contains` and `not` of a schema with one
keyword; `NotMisread` adds the combinators, `additionalProperties` behind what it is
about, and `if` at the root only. A nested `if` and a nested `additionalItems` follow
a pointer to a node that was moved, and a `$ref` that names a `$id` one into a vector
that was: `StaleOnlyBelowRoot` says that nothing else does.

## Runs

| run | checks | instance |
|---|---|---|
| `async_queue` | `InOrderOnce`, `BacklogIsUnnoticed`, `WokenFindsValue`, `WokenIsServed`, refinement of `FifoQueue` | 3 pollers, 2 values, a few pushes: enough for several woken pollers at a time and for a backlog |
| `server` | `OneOwner`, `TimeoutFitsOperation`, `RepliesInOrder`, `BodyFromOwnConnection`, `SessionEnds`, `QueuedIsAccepted` | 2 connections, 2 requests each: pipelining, and a status-only reply after a full one |
| `client` | `OwnAnswer`, `AtMostOnce`, `StopCancelsStart`, `EveryCallReturns` | 3 calls one at a time, 2 starts: a call that times out, a reconnection, a call after it |
| `client_overlap` | violation of `CallsAreIndependent` | two calls submitted together |
| `dependency_graph` | `CyclesAreExact`, `DependenciesFirst`, `OrderIsComplete`, `Terminates` | 3 types, 1 unknown name, 2 references per type: self references, repeated edges, cycles sharing nodes, all orders |
| `api` | `EndpointsComplete`, `OwnParamsKept`, `MatchPathIsSegmentwise`, `RoutedRight`, `RoundTrip` | all pairs of 11 path objects (overlapping, parametrised, reserved names, part-segment placeholders, path-level and overridden parameters, the root), values that equal a literal or have a slash, targets with empty segments |
| `api_routing` | violation of `RoutedByPathAndVerb` | the same |
| `api_arguments` | violation of `ArgumentsAreParameters` | the same |
| `python_server` | `QuietAfterShutdown`, `ShutdownReturns`, `GilCycleIsForever` | 2 requests, 2 calls of `listen`: a second `listen` before and after a shutdown, a handler that waits, runs, answers or is done when it comes, an accept that fails |
| `jsonschema` | `VerdictIsExact`, `RejectionsAreRight`, `DivergesExactly`, `StaleOnlyBelowRoot` | some hundred schemas (every keyword, pairs, subschemas two deep, references to the root, to definitions and to anchors, limits with a fraction, names with a slash) times instances of every type, a text with a character of two bytes and numbers within the tolerance; recursion to depth 9, more than the deepest that ends |
| `generator` | `CompleteTypes`, `AlternativesKept`, `BodiesComplete`, `FaithfulTypes` | 274 documents of up to 5 components, with and without operations, 4 sets of options |
| `generator_namespace` | violation of `OneNamespace` | the same |

The runs of `AsyncQueue`, `Server`, `Client`, `DependencyGraph` and `Api` also check
`TypeOK`. Deadlock is not checked where the
system may stop: a server all of whose clients are gone, a client all of whose
calls are made, a generator or validator that is done, a Python program that
never calls the server again, or hangs in `shutdown` as the run shows.

Fairness: weak fairness of the completions that the event loop has ready and of
timers that are armed (asio runs what is posted, and timers expire); of a handler
that keeps a session, which answers or lets go of it some time; of the
generator's next step. In `PythonServer` it is strong for taking the interpreter
lock (CPython makes a running thread hand it over on request, so a thread that
waits is not passed over for ever) and for a Python method's return. Clients, users, servers and the network owe nothing: a
silent client is a behaviour, and `SessionEnds` holds because of the timeouts.

What the violations show:

- `client_overlap`: o1 is submitted, o2 is submitted (`_request` is now o2's), o1's
  operation starts and sends o2's request; o1 returns the answer to it.
- `api_routing`: `/c/{id}.json` is never matched, since only a whole segment `{}`
  stands for anything; `/a/{type}` is a static path with braces in it.
- `api_arguments`: of two paths one declares a parameter for its operations; the
  other one's operation has it as an argument too. If it is a path parameter, its
  value goes into the other path's placeholder.
- `generator_namespace`: `ns` is moved into the arguments of the generators
  (Driver.cpp:191) and used again for the Python server's (205): `server_py.cpp`
  names `::Server`.

Known and not among the runs: the error of a 404 has the category "HTTP status codes"
(error.cpp:8), while `is_transient` looks for "beast.http" (client.hpp:125) and so
calls it transient, against the comment at 122-123; the cycles reported for a schema
need not be all of them (DependencyGraph.cpp:163, against ARCHITECTURE.md:146), but
the generator always stops with an error.

`RoundTrip` and `OwnParamsKept` hold under conditions they state: the code does not
ensure them, and without them they fail. `RoundTrip`'s are that the arguments come
in the order of the placeholders and under their names (`InPathOrder`), that a
placeholder is a whole segment, and that a value is a text without slashes,
question marks and braces (`PlainText`): values are not encoded, and a value `{}`
would be filled in by the next one. `OwnParamsKept`'s is that a name is used for one thing.

## Proofs

All proofs are for every value of the constants, under the assumptions named in
the modules (bounds are natural numbers, sets of pollers and names are finite,
the "no such thing" value is none of the others).

- `AsyncQueueProofs`: the invariant is type correctness, `OneWaitEach`, `BacklogIsUnnoticed` and
  `InOrderOnce`. `WokenFindsValue` alone is not inductive: that a push wakes at
  most one poller must be balanced against the value it adds, which is the
  accounting equation. `ImplementsFifo` maps `queue` to `contents`, `delivered`
  to `received`: a push is a `Put`, a `WaitOp` a `Take` (the invariant rules out
  the re-wait), a poll a stutter.
- `ServerProofs`: the invariant is `TypeOK` and `ConnInv` of every connection. A
  step on one connection leaves the others alone (`OthersSame`), so each action
  is proved for its own connection only. `AcceptedOnce` and `Prepared` are the
  strengthening: a connection is accepted while it has no session, and
  `_response` holds the body of the reply being written or of the last one.
- `DependencyGraphProofs`: `PathInv` says that the frames are a path of the graph;
  `NoCycleInv` that, as long as no cycle is found, finished nodes lead only to
  finished nodes and no nonempty set of them depends on itself; `KahnInv` that a
  node's degree counts its dependencies that are not out yet, and that a node is queued or
  out exactly if the count is zero. From these: `CycleDetection`,
  `TopologicalOrder`, and `CompleteSort` (what is left when the queue is empty
  would be a set that depends on itself, and the search has excluded those).

- `ClientProofs`: `TypeInv` strengthens the types; `ReceivedInv` says that a server
  has a call's request at most once, and only of a call that is over or reads its
  response; `AnswersInv` that servers send and `_buffer` holds answers to such
  requests only; `CleanInv` that nothing is left in `_buffer` or on a good connection
  when no call reads, so that all a reading call can get is its own answer, unless
  an operation was cut off within a header (`cutShort`). `StopCancels` rests on
  `StopInv`, `CallsCompleteOnce` on `UnderWayInv`. `RequestsArriveOnce` and
  `AnswersAreOwn` have `MaxSubmitted = 1` as a hypothesis: calls submitted together
  share `_request`, and `client_overlap` shows what comes of that. The other
  theorems need no such thing.
- `SequenceFacts`: `FlattenSeq` is a recursive function; that it has the course its
  definition says, what it holds, and that a filter (`Chosen`) keeps the order, is
  shown once. Induction is over the set of the numbers for which a statement holds
  (`SetInduction`, from `<` being well-founded), since the library's induction
  theorems take an operator.
- `ApiProofs`, first part: a place `<<i, o>>` is operation `o` of path `i`. `CollectInv` says
  that while paths are read, `collected` are the places of the paths so far and
  `path_params_map` their parameters, the last of a name (`MapOf`); `BuildInv` that
  the endpoints are made from the supported ones among the places built so far.
  `NoOperationLost` and `NoParameterLost` follow. The latter's proof attempt found
  that `NamesAreUnambiguous` has to say that an operation declares a name once,
  whatever its location: `op_params` is a map by name (`op_overrides`, EndpointIR.cpp:155).
- `ApiProofs`, second part: `FromOneScheme` says that endpoints are built only after the scheme
  is taken and send its credentials or none; `CredentialsFit` follows. `RequestInv`
  gives `ApiTypeOK`. For `match_path`, `IsCut` says where the slashes of a token
  sequence are; `MatchBetween` is one round of the loop from one slash to the next
  on both sides, `MatchCut` the whole of it, by induction from the last segment.
  The tokens of a path have one cut (`TokensCut`, `CutUnique`), and so does what
  comes in front of a target's question mark (`PathOfTarget`, `SegmentsCut`).
  `RouteInv` says that requests come when the endpoints are all there, with such a
  target, and that a reply is what `Route` gives; `MatchesBySegment` and
  `RoutedAsDeclared` follow. The assumptions used are the form of paths (no slash and
  no question mark inside a segment: `IsDocument`), of values and other clients'
  targets (tokens: `RequestsAssumption`), and that no verb is called "404".
  `RoutedRight` says that the path without placeholders wins of the endpoints in the
  table of such paths (`StaticPaths`): a placeholder that no parameter declares stays in
  the template as a text, and a request may bring that text.
  `CallsArrive` puts client and server together: under `RoundTrip`'s conditions every
  placeholder is a hole of the template (`PlaceholdersInOrder`), filling the holes one by
  one puts the n-th value into the n-th hole (`FilledInOrder`), so the path has the
  cuts of the endpoint's path with the values in their segments
  (`TargetPathSegments`); `CallInv` carries that from the call to its reply, which
  cannot be a 404 by `RoutedRight`. That an endpoint's parameters have different
  names, which makes a placeholder's argument unique, comes from the first part.
- `GeneratorProofs`: `HeaderOK` is the state of `generateDefsHpp` after any number of
  types: the order has each type once and after its dependencies (`OrderOK`), typedef
  chains lead to types that may be used where they begin (`ChainOK`), signatures are
  those of earlier variants (`SignaturesOK`), and each definition mentions only what
  is built in or `Before` it (`LinesOK`). A chain is followed by a recursive function
  (`Follow`); a set it does not leave is not left (`FollowStays`), so neither the end
  of a chain nor a resolved name (`ResolveBefore`) can come later in the order.
  `TypesAreComplete` follows. `ChoicesOK` is the same for what a type stands for:
  each variant is the choice between its alternatives (`VariantsOK`), each signature
  that between its types, and chains do not change what a type stands for. A new
  definition has a meaning that earlier ones do not depend on (`CanonicalGrows`), and
  resolving keeps it (`ResolveKeeps`); `VariantsKeepAlternatives` follows. `BodiesOK`
  relates the two files: `Final` is the end of a type's chain, with a named primitive
  taken for a string. A variant with one alternative is always an alias
  (`LoneFolded`), so for the header resolving a name is `Final` (`FoldedResolves`);
  without chains it follows the single alternatives themselves (`UnchainedResolves`),
  and `SameEnds` says that both lead to the same `Final`. So a variant that is one type
  for `generateDefsCpp` was an alias for the header (`StandsApart`), and
  `BodiesAreComplete` follows. From the assumption on `Parsed` the proofs use all of
  `ASTOK`. The attempt to prove `BodiesComplete` of every document failed, and TLC
  found the document for it: see `InlineAreStructs` above.
- `PythonServerProofs`: `LockHeld` says that the lock is with the side that runs
  Python, `ThreadInv` that a thread being joined exists and one that is not running
  has no handler. `Quiet` follows, and `CycleIsForever`: in the cycle the thread
  to be joined runs and the lock is not free, so neither side has a step.

Only model-checked:

- liveness and termination (`SessionEnds`, `QueuedIsAccepted`, `EveryCallReturns`,
  `Terminates`, `ShutdownReturns`, `WokenIsServed`): fairness and ENABLED are out of
  the prover's reach;
- `FaithfulTypes` (`GeneratorReference`) and `JsonSchema`: they rest on recursive
  operators over schemas, which the prover cannot use.

## Not modelled

OpenAPI accessors (data access through simdjson), the text the back ends emit
(formatting), the client-Python backend (text from the endpoint IR, calls of
`Client` one at a time), `path_tree` and the condition variable (used by no other
part), `simple_blocking_queue` (does not compile when instantiated), `parsePaths`
(its result is never read), tests, examples, vendored code. Data races on a queue
used from several threads. Request bodies in `Endpoints`. Files that cannot be
written. The client back end's branch for path parameters that are not required
(BeastClientGen.cpp:119-129): OpenAPI demands `required` of them, and `IsParam` does.
In `JsonSchema`: unsigned numbers beyond 2^63, the rounding of doubles other than the
tolerance, names with a `#`. The false values of keywords without a case of their own
reject every instance in the model as in the code; no property says more of them.

## Plan

What is left: `path_tree` as a pure algorithm against its reference definition, once
some part of the program uses it.
