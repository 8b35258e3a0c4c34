# Starlette in TLA+

Starlette is an ASGI toolkit: an application is a coroutine that is called once per
connection with a `scope`, and exchanges messages with the server through `receive()` and
`send()`. Nearly all of its difficult behaviour is about *which* messages pass through these
two channels, in which order, when several tasks, layers of middleware, worker threads and an
unreliable client share them. These modules model that behaviour as the code in
`src/starlette` has it, check it with TLC, and prove the core of it with TLAPS.

`PROJECT.json` lists the components, the runs, the source lines behind every definition, the
hazards and the findings. This file explains how the parts fit.

## 1. Inventory

| Component (source) | State | Operations | Interacts with | Hard part |
|---|---|---|---|---|
| `Request` (`requests.py`) | `_stream_consumed`, `_is_disconnected`, `_body`, `_form` | `stream`, `body`, `form`, `is_disconnected`, `close` | `receive()`, the form parsers | several readers of one channel |
| `BaseHTTPMiddleware` (`middleware/base.py`) | `_CachedRequest` flags, `response_sent`, `app_exc`, a memory stream | `__call__`, `call_next`, `wrapped_receive`, `body_stream` | user `dispatch()`, the inner application in a second task | interleaving, cancellation, failure half way |
| Responses (`responses.py`) | position in file or iterator | `__call__` of each class | `send()`, worker threads, files, background tasks | disconnect racing the stream, files that change, range arithmetic |
| `BackgroundTasks` (`background.py`) | list of tasks | `__call__` | responses | runs after what exactly |
| Exception layers (`_exception_handler.py`, `middleware/exceptions.py`, `middleware/errors.py`) | `response_started` per layer, handlers in `scope` | `wrapped_app`, `__call__` | user handlers, mounted applications | errors in handlers, errors after the start |
| `Starlette` (`applications.py`) | middleware stack, handlers | `build_middleware_stack`, `__call__` | all layers | which handler belongs to which layer |
| `WebSocket` (`websockets.py`) | `client_state`, `application_state` | `receive`, `send`, `accept`, `close`, ... | server, several user tasks | state read before an await and used after it |
| Endpoints (`endpoints.py`) | `close_code` | `dispatch`, `decode`, hooks | `WebSocket`, exception layers | every way the loop can end |
| `Router` and routes (`routing.py`) | `routes`, `scope` | `app`, `matches`, `handle`, `url_path_for` | endpoints, mounts | partial matches, redirects, nested scopes |
| Lifespan (`routing.py`, `testclient.py`) | `started`, state | `lifespan`, `startup`, `shutdown`, `wait_startup`, `wait_shutdown` | server or test client | errors before and after start |
| Form parsers (`formparsers.py`) | parts, lists of files | callbacks, `parse`, `FormData.close` | `Request.stream()`, worker threads | limits, files left open on errors |
| `GZipMiddleware` (`middleware/gzip.py`) | withheld start, buffer | `send_with_compression` | application, server | the start is withheld, headers follow the body |
| Sessions, CORS, trusted hosts, HTTPS redirect, authentication (`middleware/*.py`) | per request | `__call__`, `send` wrappers | application | headers changed on the way out |
| `WSGIMiddleware` (`middleware/wsgi.py`) | stream, `exc_info`, `response_started` | `wsgi`, `sender`, `start_response` | a WSGI application in a worker thread | errors of a thread and of a task that share a stream |
| `StaticFiles` (`staticfiles.py`) | `config_checked` | `get_response`, `lookup_path`, `file_response` | `FileResponse`, worker threads, the file system | fallbacks over several directories, 304 for a file that changes |
| `datastructures.py` | `_dict` beside `_list`, header lists | mutators of `MultiDict`, `MutableHeaders` | everything | two representations of one thing |
| `TestClient` (`testclient.py`) | events, streams, portal | `handle_request`, `WebSocketTestSession`, lifespan | application in another thread | blocking calls into an event loop, errors told to the right caller |
| `schemas.py`, `templating.py`, `config.py`, `convertors.py`, `status.py`, `types.py` | none that changes between calls | formatting and parsing | | none for a model checker |

The properties that make each correct are in its module, with the runs below, and, by the
line where they could go wrong, under `hazards` in `PROJECT.json`.

## 2. Modules

Each module models the handlers named in `PROJECT.json` under `map`, one action per step
between two awaits. Where the code is user code (an endpoint, a hook, a handler, a
`dispatch()`, an iterator, a background task) the action is "anything such code may do".
`MC*` modules only give bounds and values to TLC.

| Module | Models | Its state ↔ the code | Composes |
|---|---|---|---|
| `ResponseProtocol` | what the server may be sent for one HTTP request | `wire` ↔ the messages passed to the server's `send` | abstract |
| `WebSocketMessages`, `WebSocketProtocol` | the same for a WebSocket; the two state machines of `WebSocket.send` and `.receive` | `wire` | abstract |
| `CachedRequest` | `Request.stream/body/is_disconnected` called by `dispatch()`, `_CachedRequest.wrapped_receive` called downstream | `req` ↔ `_stream_consumed`, `_is_disconnected`, `_body` and the `_wrapped_rcv_*` flags; `queue` ↔ the server's receive channel; `mid`, `rcv` ↔ the two suspended readers | |
| `BaseHTTPMiddleware` | `__call__`, `call_next`, `coro`, `receive_or_disconnect`, `send_no_error`, `body_stream`, `_StreamingResponse` | `main`, `app` ↔ the two tasks; `box` ↔ what the unbuffered stream has handed over; `response_sent`, `app_exc`, `exception_already_raised`; `given` ↔ what `receive_or_disconnect` returned to the application | extends `CachedRequest`; implements `ResponseProtocol` |
| `ExceptionHandling` | `wrap_app_handling_exceptions`, `ExceptionMiddleware`, `ServerErrorMiddleware`, `build_middleware_stack`, for any nesting | `response_started[layer]`; `scope_handlers` ↔ `scope["starlette.exception_handlers"]`, `held[layer]` ↔ the handlers that a layer has taken from it; `control` ↔ where the way in, the exception or the endpoint is | implements `ResponseProtocol` |
| `WebSocket` | one `WebSocket` object used by any number of tasks | `client_state`, `application_state`; `task[t]` ↔ the await a task is in | implements `WebSocketProtocol` |
| `WebSocketEndpoint` | a route, its function or class endpoint, `dispatch`, `decode`, hooks, `ExceptionMiddleware` around it | `session` ↔ the states of the two `WebSocket` objects of one connection; `close_code` | `WebSocketProtocol` |
| `WebSocketSessions` | a connection: its endpoint, or tasks that share its `WebSocket` | the variables of both, one `wire` | extends `WebSocketEndpoint`, instance of `WebSocket` |
| `FileResponse` | stat, `_should_use_range`, `_parse_range_header` with its merging, the four ways to answer | `ranges`, `start`, `part` ↔ local variables; `file` ↔ the file as others change it | implements `ResponseProtocol` |
| `StaticFiles` | `__call__`, `check_config`, `get_response`, `lookup_path`, `file_response`, `is_not_modified`, for a client with a cache and files that others change | `request` ↔ the local variables of one call and its thread; `config_checked`; `tree` ↔ the file system, a file with its mtime and size; `copies` ↔ the client's cache | |
| `FileAnswers` | what serves files | the variables of both | extends `FileResponse`, instance of `StaticFiles` |
| `StreamingResponse` | `stream_response`, `listen_for_disconnect`, `wrap`, both kinds of server, `iterate_in_threadpool`, background tasks | `stream`, `call` ↔ the two tasks; `iterator` | implements `ResponseProtocol` |
| `WSGI` | `WSGIResponder`: the body read first, `wsgi` in its thread, `start_response`, `sender` | `caller`, `thread`, `sender` ↔ the three control flows; `stream`, `exc_info`, `response_started` | implements `ResponseProtocol` |
| `StreamedAnswers` | what answers with a stream | the variables of both | extends `StreamingResponse`, instance of `WSGI` |
| `FormParsing` | `MultiPartParser`, `UploadFile`, `form()` as a block | `items`, `toWrite`, `toFinish`, `files`, `counts` ↔ the attributes of the parser | |
| `UrlEncodedForm` | `FormParser`: the callbacks, the loop of `parse()` over the messages | `parser` ↔ the state of python-multipart (external); `messages`, `parse` | |
| `MultiDict` | `MultiDict` with all that changes it, and its constructor | `list`, `dict` ↔ `_list`, `_dict` | |
| `Forms` | `Request.form()` for both content types, and an endpoint that edits the fields | the variables of the three | extends `FormParsing`, `UrlEncodedForm`, `MultiDict` |
| `GZip` | both responders of `GZipMiddleware` | `started`, `passes`, `file`, `headers` ↔ the attributes of the responder and the shared header list | implements `ResponseProtocol` |
| `HeaderMiddleware` | `SessionMiddleware`, `CORSMiddleware`, `TrustedHostMiddleware`, `HTTPSRedirectMiddleware`, `AuthenticationMiddleware`, stacked in any order around an application | `request[slot]` ↔ one request in flight: its scope, its session, where it is in the stack, the headers that the endpoint has given and those of its answer; `jar` ↔ the cookie of the browser | |
| `ResponseMiddleware` | what rewrites responses | the variables of both | extends `GZip`, instance of `HeaderMiddleware` |
| `Lifespan` | `Router.lifespan/startup/shutdown`, the default context, `TestClient.__enter__/__exit__` and its task | `pc`, `started`, `context`; `inbox`, `outbox` ↔ the two streams; `task`, `client` | |
| `Routing` | `Router.app`, `matches`/`handle` of `Route`, `WebSocketRoute`, `Mount`, `Host`, `HTTPEndpoint.dispatch`, `get_route_path`, `compile_path` | `scope` ↔ the dict that mounts update on the way down; `router`, `next`, `partial` ↔ the loop of the router that runs; a path is the sequence of what follows its slashes, a host that of its labels, beside its port | |
| `UrlFor` | `url_path_for` of every route, `replace_params`, `base_url`, `url_for`: operators on the tables, no state | | extends `Routing` |
| `TestTransport` | `handle_request` with its `receive` and `send`, for an application of two tasks that sends anything | `nonlocals` ↔ `request_complete`, `response_started`, `response_complete`; `raw` ↔ `raw_kwargs`; `wire` ↔ what `send` accepted | its server side enforces `ResponseProtocol` |
| `TestSession` | `WebSocketTestSession`: `__enter__`, `_run`, `send`, `receive`, `close` by the test in its block and by the `ExitStack` of `__exit__` | `test`, `run` ↔ the thread of the test and the task; `toApp`, `toTest` ↔ the two streams | application: `WebSocketProtocol` |
| `Application` | one router in both roles, and all that a `TestClient` does with it: its lifespan, and in the block requests to the router, requests to any application, and WebSocket sessions | the variables of all | extends `Lifespan`, `UrlFor`, `TestTransport`, `TestSession` |
| `*_proof` | theorems about the module they extend (section 5) | | |

Two abstract specifications are shared by all: `ResponseProtocol` and `WebSocketProtocol`
have one variable, the messages that the server has accepted, and say which may come next.
Every component that sends is shown to implement them (property `WireInOrder`), by
instantiating them with its own `wire`. `GZip` answers several requests, and
`WebSocketEndpoint` has two known exceptions, so there it is the step `Next` of the protocol
that is implemented, under the condition written with the property.

The request side of `BaseHTTPMiddleware` is that of `CachedRequest`, step by step; what is to be
asked of the middleware is what reaches the application below, and that is not what
`wrapped_receive()` returns. `receive_or_disconnect()` looks at `response_sent` again when the
message is there, and throws it away if the main task has set it meanwhile (`base.py:127`).
`given` is what comes out, and `RequestGiven` says what may be missing in it, and when.

`WebSocketSessions`, `FileAnswers`, `StreamedAnswers`, `ResponseMiddleware` and `Forms` put two components that
share a place in the program, but no state, beside each other: a behaviour follows one of
them, chosen in the initial state (`shares`, `finds`, `mounted`, `bodies`, `content_type`), as a request
does. Nothing is interleaved that the program does not interleave, and each half keeps its own
fairness. `Application` and `BaseHTTPMiddleware` are compositions proper: their components
run one inside of the other or at the same time.

Variables called *history* in a comment record what happened; no guard of the code reads
them, only properties do. `beside` (dispatch() read the body beside downstream), `raced` (two
tasks waited for the connect message), `stale` (a Response object was compressed before),
`unanswered`, `polled`, `refused` (`start_response()` raised before it sent the start), `left`
being "unknown" (responses that overlapped) and `quiet` (no file changed during the request)
mark cases in which a property is not promised.

## 3. Runs

| Run | Distinct states | Bounds | Shows |
|---|---|---|---|
| `cached_request` | 17 thousand | 3 upload messages | `BodyDelivered`: no chunk is lost, doubled, invented; `EndIsTrue`, `NothingAfterTheEnd`: or handed on after the end; `EndReachesDownstream` |
| `base_middleware` | 1.3 million | 1 upload message, 2 response chunks | `WireInOrder`, `BodyComplete`: the response is one response, all of it if `__call__` returns, and an exception of the application is raised once; `NobodyWaits` for the other task; `RequestGiven`: the application is told no end and no disconnect that is not true, although a message taken for it may be thrown away |
| `exceptions` | 2.2 million | 2 nested applications, 5 layers, all sets of handlers | one response in order; `RightHandler`: the most specific of the layer's own application, also when the one inside has overwritten the handlers in the scope, and once by each layer; `NoHandlerAfterStart`; `ErrorIsTold` to client and server |
| `websocket` | 0.10 million | 2 tasks; both kinds of endpoint; 2 messages of the client, 4 of the application | the protocol is kept by any interleaving and by any endpoint under its wrappers; `NothingLost`; `SilentOnceLost`: no task sends after a failed `send()`, and after a failed `accept()` or denial only what would follow it; `ReaderReturns`; `EndingTold`: `on_disconnect` once and with the right code, errors shown; `Disconnects` |
| `websocket_late_denial` | violation | | an HTTP response on an accepted WebSocket (finding) |
| `file_response` | 1.6 million | files up to 3 bytes, chunks of 2, up to 3 ranges (2 for GET); two directories, 2 changes, 2 requests of a client with a cache | `BodyAsAnnounced`: merging keeps the bytes, chunks add up, the length of a simple or single-range answer is true, ranges never overshoot; `Finishes`; `RightFile`: the first directory that has the file, or the right fallback, and a 304 leaves an old copy in use only if mtime and size, or the time in seconds, do not tell it from the new one |
| `file_multipart_length` | violation | | the announced length of a multipart body is one short (finding) |
| `streaming` | 5 thousand | 3 chunks, 2 background tasks, 2 request messages; for WSGI 1 upload message, 2 chunks, 2 calls of `start_response()` | `AfterTheStream`: background tasks after the stream only, errors raised; `AnswerEnds`: a disconnect ends the stream, a WSGI application that comes back ends its request; `ThreadTold`: no error of a thread lost, no thread outlives its request; `AnswerInOrder` |
| `forms` | 1.0 million | 4 parts, 6 units of data, files of 2 units in memory; 2 urlencoded fields of up to 2 units; 5 entries of a `MultiDict`, 2 in a call | `FormTrue`: uploads whole and rewound, fields as sent however the body is cut; `ResourcesBounded`: limits, files closed; `DiskInThread`; `DictAgrees`: `_list` and `_dict` after any calls |
| `gzip` | 1.1 million | 2 requests, 3 units in 3 messages; 3 requests of a browser, 2 at a time, 2 stacks, 3 policies, 2 values, 4 sets of headers of the endpoint | `BodyTrue`: the body of a Response that is sent once decodes, length and Vary are true, what is missing between two bodies is in the compressor; `SessionCarried` from response to request; `CorsTrue` for browsers and caches, whatever the endpoint says itself; `WireInOrder` |
| `gzip_sent_again` | violation | | a Response that is sent a second time does not decode (finding) |
| `application` | 0.58 million | 2 handlers of each kind; two tables of five routers, nested three deep; all paths of 3 segments over 5, and 27 of four; hosts of one to three labels, with and without a port; one session or request to any application, 3 body messages, 2 and 4 WebSocket messages | `LifeInOrder`: told once, served inside of the context only; `RightRoute`: first match wins at each level, 404 and redirects where nothing fits, `root_path` and the rest are the path, redirects settle; `OwnUrl`: an own URL leads back, but for the port behind a `Host`; `ClientTold`: what `handle_request` and a session give is what the application did, also when the test closes the session itself; `AcceptedInOrder`; `ClientReturns` |

The symmetry of `gzip` is over session values and slots: neither is compared by order or
chosen by name, and the run checks no liveness. `application` explores the calls that do not
depend on each other one at a time (`MaxCalls = 1`): a second call starts from the state that
the first has left, since `ForgetExchange` and `ForgetSession` return to the initial one.

Why the bounds are enough: what the code tells apart is first, middle and last message (so
three messages, or two where first and last are told apart by another flag), equal, less and
more than a limit (so sizes one below and one above: chunks of two bytes for files of up to
three), and for the range merge the relations of three intervals. Two tasks show every race on
one attribute; the theorems extend the result to any number. Two nested applications are entered
with one scope: the inner one overwrites the handlers there (`exceptions.py:52`), after the outer
one's layers have taken theirs, and both may catch what comes out; the theorems hold for any nesting.
A compressor may give out what it has or keep it at each write, and does give it all when it is
closed: so each amount that waits in it occurs. For a `Host`, a parameter takes any labels with the
dots between them (`[^/]+`), so the hosts have one label more than the patterns.
For routing, the segments are those the tables tell apart (a literal, another mount's literal,
a number, the same number written otherwise, an empty one), and the tables have each kind of
route before and after each kind that can hide it. The first of two directories has a
file, a directory with or without its page, nothing, or something it may not read at the URL,
the second has what can be hidden by it and the `404.html`: each order of fallbacks occurs. Two
changes put one between the look-up and the opening and one between two requests. Two requests in
flight at a browser, and a third, are the least that make a cookie stale and show it. Three
texts are enough as keys and values of a `MultiDict`: one that is changed, one that is not, and
one that is new; the theorem is for any.

The abstract promises of routing are two. `RightRoute` computes, from the request as it came in
and the patterns of the mounts alone, where in the path each router of the way stands, and says
which route must have been taken there; the model gets there as the code does, through
`root_path` in the scope. `OwnUrl` relates two directions of the code that share nothing but
the patterns: matching on the way down, and `url_path_for()`.

`CHECK_DEADLOCK FALSE` stands where the system really stops: the request, the connection or
the bounded client is done (`CachedRequest`, `BaseHTTPMiddleware`, `ExceptionHandling`,
`WebSocket`, `WebSocketEndpoint`, `FormParsing`, `GZip`). The others have an explicit step for
"over", so a deadlock in them would be found (`Application` has it from `Lifespan`).

**Fairness.** Only what the event loop and the worker threads guarantee: a task whose await is
over is resumed. Weak fairness is put on the steps of Starlette's own tasks. User code owes
nothing (it may hang) unless a comment says otherwise: hooks of a `WebSocketEndpoint` return,
lifespan handlers return or raise, background tasks of a stream end. A WSGI application need not
come back: `AnswerEnds` promises the end of a request whose application has. The client owes
nothing, but for WebSockets, where it leaves one day (`ClientLeaves`): that is the assumption
under which a reader must return. `StreamCancelled` has strong fairness, since a cancellation is
delivered at the next await and the stream is in an await again and again, in between steps in
which it is not. For `FileResponse` it is `__call__` that goes on; `StaticFiles` has only safety
properties. In `Application` the server side of the lifespan goes on, the router finds a route,
and a test or an application that can take a step in a call takes one (a test that receives
what is never sent, and an application that waits for a disconnect before it has answered, are
`Stuck`, and `ClientReturns` excludes them).

Where a run checks a conjunction of properties that tell one story (`BodyDelivered`,
`RightHandler`, `FormTrue`, `EndingTold`, `ClientTold`, `RightRoute`, ...), each conjunct has its
own name and comment, and a counterexample of TLC shows which one fails; the type invariant of a
module is a conjunct of one of them, or proved.

Every property has a mutant: a definition next to the original, marked as a mutant in its comment, that has a
plausible bug (a missing reset, an off-by-one, a swapped order). With it in place TLC finds the
property violated; the definitions are in the same module and no specification uses them.

## 4. Findings and observations

Findings are the runs that expect a violation; they are quoted in `PROJECT.json`:

- an `HTTPException` raised after `accept()` sends an HTTP denial response on the accepted
  WebSocket (`_exception_handler.py:63`), against what `websockets.py:81` requires;
- the `content-length` of a `multipart/byteranges` answer is one byte short
  (`responses.py:541`, `responses.py:450`);
- a Response object that goes through `GZipMiddleware` a second time is told as `gzip` and sent as
  it is, since its header list was changed in place the first time (`middleware/gzip.py:91`).

Seen while modelling, in the models as the code has it, and stated as conditions of the
properties where they touch one:

- `body()` after a `stream()` that was left early returns the rest as if it were all
  (`requests.py:240`; `docs/requests.md:104` says it raises). `is_disconnected()` drops a
  message of the body (`requests.py:310`).
- In `wrapped_receive()` a `dispatch()` that has seen the disconnect makes downstream wait for
  another one (`middleware/base.py:83`), which some servers repeat and some do not. A `body()`
  of `dispatch()` that runs beside a downstream reader hands chunks on out of order.
- A failed `accept()` and a failed denial leave `application_state` as if they had been sent
  (`websockets.py:76`, `:96`): other tasks go on with data, or with the body of the denial, where
  a failed `send()` stops them.
- A second concurrent reader of a `WebSocket` waits for ever after the first took the
  disconnect; of two tasks that wait for the connect message one raises and loses a message.
  A `WebSocketException` handler closes a connection that the endpoint has closed already
  (`middleware/exceptions.py:73`).
- Merged ranges are not disjoint for `bytes=0-0,2-2,1-2` (`responses.py:503`); the branch
  marked "THIS IS NOT REACHED" is reached by `bytes=2-2,0-0` (`responses.py:500`);
  `bytes=1-0` is answered by an empty 206 (`responses.py:486`). A multipart answer reads for
  ever when the file is cut short (`responses.py:442`).
- The background tasks of a streaming response run although the client has left
  (`responses.py:280`); an `OSError` of the iterator itself becomes `ClientDisconnect`
  (`responses.py:267`); those of a file response do not run after a 400 or 416.
- The temporary files of a form stay open when the client leaves, the body is malformed, the
  disk fails or the task is cancelled: only a `MultiPartException` closes them
  (`formparsers.py:269`). A body that stops half way is accepted, without its last part
  (`formparsers.py:275`). `max_part_size` is for fields, not for files.
- `GZipMiddleware` does not flush its compressor (`middleware/gzip.py:133`): what a stream has
  sent may wait there until it ends, as `docs/middleware.md:206` says of streaming. A first body
  message without `"body"` raises a `KeyError` (`middleware/gzip.py:76`, `:89`) after `started`
  was set; messages of other types, as `http.response.debug`, are dropped (`middleware/gzip.py:104`).
- The `TestClient` returns an empty body for a response that was cut off, with its status and
  headers (`testclient.py:340`, `:365`). `handle_request()` never returns for an application
  that waits for the disconnect before it answers (`testclient.py:302`). Types of messages that
  its `send()` does not know are ignored. In a WebSocket session, what the application sent
  before it raised is lost to the test (`testclient.py:139`), and `receive()` waits for ever
  once the application has returned (`testclient.py:146`). A test that calls `close()` in its block
  sends the disconnect twice: the end of the block sends it again (`testclient.py:124`).
- `start_response()` of the WSGI bridge sets `response_started` before it converts status and
  headers: an application that catches the error and answers again has its body sent without a
  start (`middleware/wsgi.py:125`; in the models `refused`). A second call with `exc_info` after
  the start does not raise, as PEP 3333 asks, but goes on: the wire ends as if complete, and the
  error is raised afterwards. A client that leaves during the upload has the application run on a
  body that was cut (`middleware/wsgi.py:98`). `close()` of the iterable is never called.
  Messages that are buffered when the thread raises may not be sent.
- A request that only reads the session, in flight during a logout, brings the session back:
  every response writes the cookie (`middleware/sessions.py:59`). What is changed after the start
  of the response, in a WebSocket, or by a request that ends in a 500 is not saved.
- Responses to requests without an origin, or with one that is not allowed, have no
  `Vary: Origin` (`middleware/cors.py:152`); responses of the `ServerErrorMiddleware` have no CORS
  headers. `add_vary_header()` takes the first `Vary` line, and drops the others when it writes the
  extended one (`datastructures.py:660`). An `Access-Control-Allow-Origin` that the endpoint sets
  reaches origins that `CORSMiddleware` does not allow (`middleware/cors.py:159`).
- The ETag of a file is a hash of its mtime and size (`responses.py:340`): of a file that was
  replaced by one with the same two, an old copy stays in use. `If-Modified-Since` knows only seconds.
- `StaticFiles`: a `PermissionError` for `index.html` or `404.html` is not caught, and gives 500
  where the file itself gives 401. A directory in an earlier directory hides a file in a later
  one. A `Range` for a missing file in HTML mode is answered by 206 and a part of `404.html`.
  `If-Modified-Since` gives 304 although `If-None-Match` does not match.
- `MultiDict.popitem()` removes all values of the newest key and returns one
  (`datastructures.py:338`); after `setlist()` the order of `keys()` is not that of
  `multi_items()`.
- A context manager that swallows the `RuntimeError` about the state has
  `lifespan.shutdown.complete` sent without a startup (`routing.py:710`); `on_shutdown`
  handlers after one that raises are not called (`routing.py:679`).
- `replace_params()` leaves a parameter that was not given in the path (`routing.py:111`): a
  `Mount("/{x}", name="m")` answers `url_path_for("m", path="/a")` with `/{x}/a`. A route that
  has a parameter of the same name as a mount above it hides the outer value, and has no URL
  (`NamesDiffer`). `url_path_for()` of a mounted application drops leading slashes of its
  path, and a `Host` below a `Mount` loses its host (`routing.py:456`). The parameter of a `Host`
  matches dots (`convertors.py:21`): `Host("{domain}")` is for any host, `Host("{sub}.org")` for
  any below `org`. A `Host` matches with any port, and the URLs of its routes have its own, not that
  of the request (`datastructures.py:203`; `docs/routing.md:215` has one with a port).

## 5. Theorems

`tlapm` proves, for every value of the constants under the named `ASSUME`s of the modules
(which TLC evaluates in the runs):

| Module | Theorem | Argument |
|---|---|---|
| `BaseHTTPMiddleware_proof` | of the request side, `TypeCorrect`, `Invariant`, `Safe` (`EndIsTrue`), `AfterTheEnd` (`NothingAfterTheEnd`), `Delivers` (`BodyDelivered`) | induction on `IInv`, then on `DeliveryInv` |
| | of the middleware, `MiddlewareInvariant`, `MiddlewareInOrder` (`WireInOrder`), `MiddlewareComplete` (`BodyComplete`), `MiddlewareGives` (`RequestGiven`), `MiddlewareSafe` (`EndIsTrue`), `MiddlewareDelivers` (`BodyDelivered`) | induction on `ResponseInv`, composed with the request side |
| `WebSocketSessions_proof` | `Invariant`, `Refinement` (`WireInOrder`), `EndingIsTold` (`EndingTold`), `QuietOnceLost` (`SilentOnceLost`), `Delivered` (`NothingLost`) | induction on `SessionsInv`, for any set of tasks, any endpoint and any number of messages |
| `ExceptionHandling_proof` | `Safe`, `Refinement` (`WireInOrder`), `NoLateHandler` (`NoHandlerAfterStart`), `Specific`, `Right` (`RightHandler`), `Told` (`ErrorIsTold`) | induction on `IInv`, for any list of layers |
| `FileAnswers_proof` | `Invariant`, `Announced` (`BodyAsAnnounced`), `FileInOrder` (`WireInOrder`), `Right` (`RightFile`) | induction on `IInv` of the response and on `SInv` of the site, for any file, any header, any directories |
| `StreamedAnswers_proof` | `Invariant`, `Refinement` (`AnswerInOrder`), `Behind` (`AfterTheStream`), `Told` (`ThreadTold`) | induction on `IInv`, for both answers, then on `ToldInv` |
| `Application_proof` | `Invariant`, `InOrder` (`LifeInOrder`), `InContext` (`CalledInContext`), `Accepted` (`AcceptedInOrder`), `Told` (`ClientTold`), `Routed` (`RightRoute`) | induction on `IInv`, for any number of handlers, calls and messages, any routers and requests |
| `Forms_proof` | `Intact` (`FormTrue`), `Bounds` (`ResourcesBounded`), `InThread` (`DiskInThread`), `CopyAgrees`, `DictInvariant` (`DictAgrees`) | induction on `IInv`, for any form, any limits, any cutting of the body |
| `ResponseMiddleware_proof` | `Invariant`, `Intact` (`BodyTrue`), `GZipInOrder` (`WireInOrder`), `Carried` (`SessionCarried`), `OriginsTold` (`CorsTrue`) | induction on `FollowInv`, for any response, any stack of layers, any number of requests in flight |

*CachedRequest.* `EndIsTrue` (`NoFalseEnd` and `OnlyDisconnectLeft`) is not inductive: what may be in the
server's queue depends on what the client has sent, and on what each reader has taken. `IInv`
adds to `TypeOK`: `UploadInv` (what the client has sent agrees with its state), `QueueInv` (the
queue is what it sent and nobody took: after the last message of the body there is at most a
disconnect), `ConsumedInv` (the flags of the request agree with that), `WaitInv` (what a
suspended reader relies on) and `DownInv` (what downstream was told is backed by the flags). `EndIsTrue` is their
consequence.
`AfterTheEnd` is an action property and follows from `IInv` and the step. `BodyDelivered` says
where every chunk goes, so its invariant `DeliveryInv` is an account: the queue is in the order
of the upload and behind all that was taken from it (`OrderInv`); what `dispatch()` has collected
or cached and what downstream has are disjoint and each in order (`KeptInv`, and `BesideInv` for a
`dispatch()` that reads beside downstream); and as long as the end of the body may still come,
each chunk is in the queue, with a suspended reader, handed out, or was dropped by a
`dispatch()` that read it and did not keep it (`AccountInv`).

*BaseHTTPMiddleware.* `ChunksInOrder`, that a response that is sent to its end has all chunks of
the application, needs to know where each chunk is. `ResponseInv` adds to the types: `FlagsInv`
(what the attributes of the main task say, by where it is), `ExceptionInv` (an exception of the
application is kept, raised by `call_next()` at most once, and then answered or passed on),
`StreamInv` (what the two ends of the stream are doing fits), `WireInv` (what has been sent, by
where the main task is), `HeldInv` (the chunks it holds are those that come next), `FlowInv` (as
long as the main task reads: the chunks it took, the one in `box` and the one the application is
blocked with are, in this order, all that the application has sent) and `TakenInv` (once it has
stopped: it took all of them, and the application had finished or ended). A step of the
middleware is a step of `CachedRequest` or leaves its variables alone, so the lemmas
about steps of `CachedRequest` carry over (`InvariantStep`, `DeliveryStep`), and give `EndIsTrue`
and `BodyDelivered` of what `wrapped_receive()` returns below the middleware: an upload that was
broken off is never complete there, and its `RuntimeError` is never raised. What the application is
given is `RequestGiven`, by two more invariants: `GoneInv` (who knows of a disconnect, the server
included, is right) and `GivenInv` (until `response_sent` is set, the application is given what was
returned, but for a receive that is under way; told of the end of the body, all of it; and a
disconnect only if there was one, or once `response_sent` is set).

*WebSocketSessions.* For the tasks, `SharedInv` is the types and `WireInv`: `application_state` tells
which message the protocol allows next, also between `self.application_state = ...` and the end
of the await, because the state is assigned first. With it each step is a step of
`WebSocketProtocol` or leaves `wire` alone (`Refinement`), whichever tasks are in which await.
`ReadInv` (what the server's inbox, the handshake and the readers have agrees, without a race) gives
`Delivered`. For the endpoint, `IInv` has `ControlInv` (by where control is: which hooks have been
called, what was raised and not yet answered, and what `on_disconnect` was told), and `SentInv` and
`EndpointInv`: the endpoint's `WebSocket` object agrees with the wire until a wrapper around it
answers with an object of its own, which is still in CONNECTING. With it `EndingTold` follows,
and each step is one of `WebSocketProtocol` but for the two exceptions that the property names.

*ExceptionHandling.* `IInv` has `ControlInv` (control is at a layer that exists), `StartedInv`
(once something is on the wire every layer that control can still reach on its way out has
`response_started` set), `PhaseInv` (the phase of the response that is being sent says what is
on the wire), `CallsInv` (the layers that have called a handler are inside of the layer where
control is) and `NoHandlerLoop`. It is stated for any sequence of layers, so nesting is not
bounded. That a layer calls the right handler is a matter of the way in: every application writes its
handlers into the one scope, and each `wrapped_app()` reads them from there before it calls what is
inside. `HeldInv` says that what a layer holds are the handlers of its own application, whatever has been
written since; it needs `RouteAssumption`, that the `ExceptionMiddleware` of an application is the
last before its routes (`EnterAction`, `HeldStep`). `Told` adds `AnsweredInv` (an exception on its way
out of the last layer has an answer, or the client has gone, or `unanswered`) and `RaisedInv` (a
response by a `ServerErrorMiddleware` has the error on its way out), and `OutermostAssumption`: the
first layer is a `ServerErrorMiddleware`, as `build_middleware_stack()` has it.

*FileAnswers.* For the `FileResponse`, `IInv` follows the call. `SizeInv`: the size is that of the
file until it changes, and all ranges lie in it. `MergeInv`: the ranges that are merged and those
that are still to be have, together, the bytes of the header. One turn of the merge (`Merged`) either
puts the range among the others (`Inserted`, `SameBytes`) or makes one range of it and the first
that it touches (`HullBytes`); the merged ranges need not be disjoint, nor in order, and the invariant
does not say so. `ChoiceInv`: the response that was chosen fits the ranges. `WireInv`: what may be
sent next, by where the call is. `ReadInv` and `PartsInv`: the bytes that were sent are those
from the start of the range up to the next that is read, and parts before the current one are
complete, since `while start < end` ends at `end` and at no other position. `WholeInv`: what was
sent is a beginning of what has to be, and its length is counted. A file that is
cut, grown or replaced breaks none of this for ranges; what it breaks of a simple answer is
behind `file.changes = 0`. For `StaticFiles`, `SInv` has `WalkInv` (when no change overlaps the
request, the directories that were passed by have nothing at the place, and there is a reason to look
for the index, or for `404.html`), `SendInv` (the ETag that was taken is of a file that was there, and
still is without a change) and `CopyInv`: versions only grow, so a copy is the file that its headers are
of, or that file has gone for good. When an ETag matches, then, the file is that of the copy, or another
with the same mtime and size: nothing is assumed of the two, and `NotModifiedTrue` names the case, as
it does for times in seconds. That the first
directory with something at a place is the one where the walk stops is an instance of
`WellFoundedInduction` (`Smallest`, `FirstIs`).

*StreamedAnswers.* For the `StreamingResponse`: `TasksInv` (how the two tasks stand to each other),
`OutcomeInv` (background tasks and the end of `__call__` are behind the end of the stream) and
`StreamWire` (where the stream is says what may be sent next). For the WSGI bridge: `ThreadInv`, and
`BridgeWire`, that the messages in the stream, the one the sender holds and the one the thread
will send continue the wire, in protocol order, unless `start_response()` was `refused`.
`ThreadTold` needs `ToldInv`: the messages on their way (on the wire, held, in the stream) hold
all chunks that the application has yielded, the last of them is the final one once the thread has
returned (`WayInv`), and what the application reported is `exc_info`, by who ended (`EndsInv`).

*Application.* `LifespanInv` says of each point of `lifespan()` where the context is and what was
raised, that what has been sent is a function of that point, and what the client has taken of it
and the task's result. `AnswerInv`: what `handle_request()` has collected is what its server side
accepted, one response in order. `SessionInv`: the two streams of a session hold what was sent and
not yet taken, in order, and where the two sides are fits. `CallingInv`: every call is made in the
block of the client, while `lifespan()` waits in its context. The test may close a session at any
point of its block: from then on (`test.closed`) the application may be told of the disconnect twice,
and `Delivery` promises when the first comes only without it. A step of one part leaves the others
alone (`PartSteps`), so that each is proved by itself.

*Routing.* The tables are any function from routers to sequences of routes of `RouteSet` that are
`WellMade`: what the constructors make, with a mount's own parameter at the end of its pattern and a
path convertor nowhere else; routers may contain one another in any way. A `Host` may match in
several ways, since a parameter takes any number of labels; which it is (`Greedy`) matters to the
parameters, and no theorem depends on it. Requests are any whose
`root_path` is where the path begins and has no last slash, as ASGI has it. `RightRoute` compares
what each router has done with what it should have done for `ScopeAt(k)`, a function of the request
and of the mounts passed. `ScopeInv` makes them the same: `root_path` is as long as the one of the
server and all that the mounts matched, and what it holds is the path; `Taken` counts this as a
cardinality, so that a mount that is passed adds its part (`TakenStep`), and no induction over the
way is needed. `WayInv`: every route on the way was the first to match, and leads to the next router.
`LookInv`: none of the routes that were looked at matches in full, and none before the `partial`
one at all. A match reads only what is left of the path (`MatchesSame`), so what was looked at in the
scope holds of `ScopeAt` and stays true (`SameHere`, `SameWay`).
`RedirectSettles` is not inductive, and its reason is far from the place where it shows. A redirect is
sent by the router at the end of the way, when one of its routes matches the other path; the second
request starts at the outermost router, and a slash more or less might lead it elsewhere, where nothing
matches and it is redirected again. `SettleInv` says that it does not: at every router of the old way, a
route that did not match before leads, if it matches now, to no router, or is a mount that leaves
exactly `/` to its router, and a router that is asked for `/` redirects nothing
(`StillHarmless`, `SlashStays`); the route that matched before matches still (`StillFull`), because the
slashes that `rstrip()` takes away were not among what the mounts matched: their `root_path` does not
end with one. That is what `WellMade` and the assumption on `root_path` are for.

*Forms.* For multipart forms `IInv` has `PartsInv` (the callbacks of the parser follow each other as
its state says), `ItemsInv` (the fields that are done are those that were sent), `ListsInv` (what is
in `toWrite` and `toFinish` is still due), `FilesInv` (which file is open, on disk, or closed),
`UploadInv` (a file has what was written and what is due, in order, and its position) and `SizeInv`
(the counts that the limits compare are the true ones). For urlencoded forms `EncodedInv` says that
the messages lead from what was parsed to what was sent. For the `MultiDict`: each method removes the
entries of a key, or adds some behind the last, or starts anew; `Removed` and `Added` show for these
that `_dict` keeps the keys of `_list`, the last value of each, and one newest key for `popitem()`.
The last entry of a key is a `CHOOSE`; that it exists is an instance of `WellFoundedInduction`.

*ResponseMiddleware.* For `GZipMiddleware`, `HeadersInv` says that the headers tell what is done with
this response, and that its length, if any, is that of the whole; `AskedInv` that with the first body
it is decided for good; `WireInv`, `AppInv` and `SendsInv` what is out and what is about to be sent, by
who runs; and `AccountInv` is the account of the data: what is out, what is about to go and what waits
in the compressor are the header and all that the application has sent, and once the last body is on
its way nothing waits. A step takes from one of these and gives to another, so each branch of
`send_with_compression()` is a lemma about sequences. For the layers, `RequestTrue` says what one
request carries, by how far it has come: one that began without a session has no good cookie, no
preflight is behind CORSMiddleware, the cookie of a response is its session (`SessionTold`), its CORS
headers are true (`CorsTold`: what the endpoint gave is kept apart as `given`, so that what a layer
overwrites or loses of it shows). `AloneInv` relates it to the others and to the jar: a request that no
other has overlapped has the cookie that is in the jar. What makes it work for any stack is that a
layer has one place (`StacksAssumption`), so "passed" is a prefix (`Places`, `OneMore`).

Not proved, and checked by TLC only: liveness and everything under fairness (`EndReachesDownstream`,
`NobodyWaits`, `ReaderReturns`, `Disconnects`, `Finishes`, `AnswerEnds`, `ClientReturns`), which needs
`ENABLED`; and `OwnUrl`, which is about what `url_path_for()` computes by recursion over tables nested
to any depth, an induction over data. `AcceptedStaysWebSocket`, `MultipartLengthAnnounced` and
`DecodesAgain` are false of the code, and have a counterexample instead.

## 6. Not modelled

`PROJECT.json` lists every component with its status. Left out for good: formatting and
parsing of text (headers, URLs, cookies, templates, schemas, configuration, convertors), the
HTML of debug pages, type declarations, and the deprecated decorators and
`run_until_first_complete()`. Left out of the modelled components: header texts and status
codes that no control depends on, data (kept as numbers of chunks, bytes by position), path
parameters of the path convertor that are not last, convertors other than `str`, `int` and
`path`, a `root_path` that the path does not begin with or that ends with a slash (ASGI servers
send neither), `http.response.debug` apart from `BaseHTTPMiddleware`, trailers, the
`environ` of WSGI, the scopes and responses that the `TestClient` builds for httpx, the signing and the
attributes of session cookies, patterns of trusted hosts, directories of packages in `StaticFiles`,
the decoding of form fields, a response of its own that `dispatch()` returns and that reads the request
while it is sent, and hooks of a `WebSocketEndpoint` that catch the exception of a call and go on.

## 7. Plan

Done, in this order: `CachedRequest` → `BaseHTTPMiddleware` → `WebSocket` →
`ExceptionHandling` → `WebSocketEndpoint` → `FileResponse` → `StreamingResponse` → `Lifespan`
→ `FormParsing` → `GZip` → `Routing` → `UrlFor` → `Application`, then `TestTransport` and
`TestSession` inside of `Application`, `WSGI`, `HeaderMiddleware`, `StaticFiles`,
`UrlEncodedForm` and `MultiDict`; with proofs about all but `UrlFor`.

To come, by importance:

1. Theorems: of `OwnUrl` the part about one router, that `replace_params()` undoes a match.
2. `MutableHeaders`: a list that the middleware and the application change while it is sent;
   today it is the header list of `GZip` and of `HeaderMiddleware`.
3. User middleware of any kind in the stack of `build_middleware_stack()`: `ExceptionHandling`
   has the layers of Starlette only.
