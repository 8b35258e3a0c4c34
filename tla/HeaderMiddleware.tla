--------------------------- MODULE HeaderMiddleware ---------------------------
(***************************************************************************)
(* The middleware that changes the headers of responses or answers in      *)
(* place of the application, in any order: SessionMiddleware,              *)
(* CORSMiddleware, TrustedHostMiddleware, HTTPSRedirectMiddleware and      *)
(* AuthenticationMiddleware, between ServerErrorMiddleware, whose          *)
(* responses pass none of them, and the application.                       *)
(*                                                                         *)
(* One browser with a cookie jar has several requests in flight.  A        *)
(* session is a value or empty; the signed cookie is its value, and bad    *)
(* once it has expired or was tampered with.  The application changes      *)
(* scope["session"] before and after it starts its response.               *)
(***************************************************************************)
EXTENDS Naturals, Sequences

CONSTANTS
  Stacks,       \* the orders of the layers, outermost first
  Policies,     \* of CORSMiddleware: [all, credentials : BOOLEAN]
  Values,       \* of a session that is not empty
  Answers,      \* the headers that endpoints set, of those that the layers change
  Slots,        \* requests in flight at a time
  MaxSent       \* bound: requests of the browser

Layers == {"session", "cors", "host", "https", "auth"}

VARIABLES
  stack, policy,
  jar,       \* the session cookie of the browser
  left,      \* history: the session as the last response left it, or "unknown" after
             \* responses to requests that overlapped
  request,   \* by slot
  sent       \* requests so far

headerVars == <<stack, policy, jar, left, request, sent>>

Sessions == Values \union {"empty"}
Cookies == Values \union {"none", "bad"}

\* The lines of a response that the layers change: Access-Control-Allow-Origin, which names
\* any origin, the one of the request, or one of the endpoint's own; Vary; and the cookie.
Lines == Seq(SUBSET {"Origin", "Cookie", "Accept"})
HeaderSet == [allow_origin : {"none", "*", "origin", "own"}, vary : Lines,
              set_cookie : Values \union {"none", "expired"}]
\* Those that what lies behind the layers has set.
Given == [allow_origin : {"none", "*", "own"}, vary : Lines, set_cookie : {"none"}]
Plain == [allow_origin |-> "none", vary |-> <<>>, set_cookie |-> "none"]
Idle == [pc |-> "idle", type |-> "http", origin |-> "none", preflight |-> FALSE, cookie |-> "none",
         at |-> 0, session |-> "empty", initial_session_was_empty |-> TRUE,
         headers |-> Plain, passed |-> 0, started |-> "empty", given |-> Plain, alone |-> TRUE]

TypeOK ==
  /\ stack \in Stacks /\ policy \in Policies /\ jar \in Cookies
  /\ left \in Sessions \union {"unknown"}
  /\ sent \in 0..MaxSent
  /\ request \in
       [Slots -> [pc : {"idle", "inbound", "app", "answered"}, type : {"http", "websocket"},
                  origin : {"none", "listed", "other"}, preflight : BOOLEAN, cookie : Cookies,
                  at : 0..(Len(stack) + 1), session : Sessions, initial_session_was_empty : BOOLEAN,
                  headers : HeaderSet, given : Given, passed : 0..Len(stack), started : Sessions,
                  alone : BOOLEAN]]

Init ==
  /\ stack \in Stacks /\ policy \in Policies
  /\ jar = "none" /\ left = "empty"
  /\ request = [s \in Slots |-> Idle]
  /\ sent = 0

-----------------------------------------------------------------------------
(* The browser (external).                                                 *)

\* A page of the site, of another one, or the preflight of a request of another one, which
\* has no cookies.
Request(type, origin, preflight) ==
  [Idle EXCEPT !.pc = "inbound", !.at = 1, !.type = type, !.origin = origin,
               !.preflight = preflight, !.cookie = IF preflight THEN "none" ELSE jar,
               !.alone = \A s \in Slots : request[s].pc = "idle"]

Overlapped(r) == IF r.pc = "idle" THEN Idle ELSE [r EXCEPT !.alone = FALSE]

Browse(s) ==
  /\ request[s].pc = "idle" /\ sent < MaxSent
  /\ sent' = sent + 1
  /\ \E type \in {"http", "websocket"}, origin \in {"none", "listed", "other"}, preflight \in BOOLEAN :
       /\ preflight => origin # "none"
       /\ type = "websocket" => origin = "none"
       /\ request' = [t \in Slots |-> IF t = s THEN Request(type, origin, preflight)
                                      ELSE Overlapped(request[t])]
  /\ UNCHANGED <<stack, policy, jar, left>>

\* The signature of the cookie expires, also for the requests that are on their way with it.
CookieExpires ==
  /\ jar \in Values /\ jar' = "bad" /\ left' = "empty"
  /\ request' = [s \in Slots |-> [request[s] EXCEPT !.cookie = IF @ \in Values THEN "bad" ELSE @]]
  /\ UNCHANGED <<stack, policy, sent>>

Position(layer) == CHOOSE k \in DOMAIN stack : stack[k] = layer
Stacked(layer) == \E k \in DOMAIN stack : stack[k] = layer
\* The response of request r came through the layer.
Through(r, layer) == Stacked(layer) /\ Position(layer) <= r.passed

\* A response arrives, in whatever order: the jar obeys Set-Cookie, except of a preflight.
Take(s) ==
  LET r == request[s] IN
  /\ r.pc = "answered"
  /\ jar' = IF r.preflight \/ r.headers.set_cookie = "none" THEN jar
            ELSE IF r.headers.set_cookie = "expired" THEN "none"
            ELSE r.headers.set_cookie
  /\ left' = IF r.type # "http" \/ r.preflight \/ ~Through(r, "session") THEN left
             ELSE IF r.alone THEN r.started ELSE "unknown"
  /\ request' = [request EXCEPT ![s] = Idle]
  /\ UNCHANGED <<stack, policy, sent>>

-----------------------------------------------------------------------------
(* What a layer does to a response that starts.                            *)

\* MutableHeaders.add_vary_header(), and __setitem__() that removes further lines.
AddVary(vary, value) == IF vary = <<>> THEN <<{value}>> ELSE <<Head(vary) \union {value}>>

IsAllowedOrigin(origin) == policy.all \/ origin = "listed"

\* CORSMiddleware.allow_explicit_origin()
Explicit(headers) ==
  [headers EXCEPT !.allow_origin = "origin", !.vary = AddVary(@, "Origin")]

\* Mutant of CorsSend: a request with cookies is answered as any other.
CorsSendAny(r, headers) ==
  LET simple == [headers EXCEPT !.allow_origin = IF policy.all THEN "*" ELSE @] IN
  IF r.origin = "none" \/ r.type # "http" THEN headers
  ELSE IF ~policy.all /\ IsAllowedOrigin(r.origin) THEN Explicit(simple)
  ELSE simple

\* CORSMiddleware.send(), for a request with an Origin.
CorsSend(r, headers) ==
  LET simple == [headers EXCEPT !.allow_origin = IF policy.all THEN "*" ELSE @] IN
  IF r.origin = "none" \/ r.type # "http" THEN headers
  ELSE IF policy.all /\ r.cookie # "none" THEN Explicit(simple)
  ELSE IF ~policy.all /\ IsAllowedOrigin(r.origin) THEN Explicit(simple)
  ELSE simple

\* Mutant of SessionSend: a session that was cleared is not worth a cookie.
SessionSendKept(r, headers) ==
  IF r.type # "http" \/ r.session = "empty" THEN headers
  ELSE [headers EXCEPT !.set_cookie = r.session]

\* send_wrapper() of SessionMiddleware: the session as it is now.
SessionSend(r, headers) ==
  IF r.type # "http" \/ (r.session = "empty" /\ r.initial_session_was_empty) THEN headers
  ELSE [headers EXCEPT !.set_cookie = IF r.session = "empty" THEN "expired" ELSE r.session]

\* The two layers that change something change other headers: their order does not matter.
Outward(r, headers, passed) ==
  LET layers == {stack[k] : k \in 1..passed}
      simple == IF "session" \in layers THEN SessionSend(r, headers) ELSE headers
  IN IF "cors" \in layers THEN CorsSend(r, simple) ELSE simple

\* A response is started by what lies behind that many layers, and passes them.
Starts(s, headers, passed) ==
  LET r == request[s] IN
  request' = [request EXCEPT ![s] =
    [r EXCEPT !.pc = "answered", !.headers = Outward(r, headers, passed), !.passed = passed,
              !.started = r.session, !.given = headers]]

-----------------------------------------------------------------------------
(* The layers on the way in.                                               *)

At(s, layer) ==
  /\ request[s].pc = "inbound"
  /\ request[s].at <= Len(stack) /\ stack[request[s].at] = layer
Passes(s, changed) == request' = [request EXCEPT ![s] = [changed EXCEPT !.at = @ + 1]]

\* The cookie is unsigned; without one, or with a bad one, the session is new.
Session(s) ==
  LET cookie == request[s].cookie
      r == request[s] IN
  /\ At(s, "session")
  /\ Passes(s, [r EXCEPT !.session = IF cookie \in Values THEN cookie ELSE "empty",
                         !.initial_session_was_empty = cookie \notin Values])
  /\ UNCHANGED <<stack, policy, jar, left, sent>>

\* preflight_explicit_allow_origin
PreflightExplicit == ~policy.all \/ policy.credentials

\* preflight_response()
PreflightHeaders(r) ==
  IF ~PreflightExplicit
  THEN [Plain EXCEPT !.allow_origin = "*"]
  ELSE [Plain EXCEPT !.vary = <<{"Origin"}>>,
                     !.allow_origin = IF IsAllowedOrigin(r.origin) THEN "origin" ELSE "none"]

Cors(s) ==
  LET r == request[s] IN
  /\ At(s, "cors")
  /\ IF r.preflight
     THEN request' = [request EXCEPT ![s] =
            [r EXCEPT !.pc = "answered", !.passed = r.at, !.started = r.session,
                      !.headers = Outward(r, PreflightHeaders(r), r.at - 1)]]
     ELSE Passes(s, r)
  /\ UNCHANGED <<stack, policy, jar, left, sent>>

\* The layer lets the request pass or answers it.
Gate(s) ==
  /\ \/ Passes(s, request[s])
     \/ Starts(s, Plain, request[s].at - 1)
  /\ UNCHANGED <<stack, policy, jar, left, sent>>

\* One of the allowed hosts matches; or a redirect to one with "www." before it, or a 400.
TrustedHost(s) == At(s, "host") /\ Gate(s)

\* A redirect from http to https, from ws to wss.
HTTPSRedirect(s) == At(s, "https") /\ Gate(s)

\* The backend of the application says who it is, or raises an AuthenticationError.
Authentication(s) == At(s, "auth") /\ Gate(s)

\* `await self.app(scope, receive, send)` of the innermost layer.
Arrives(s) ==
  /\ request[s].pc = "inbound" /\ request[s].at > Len(stack)
  /\ request' = [request EXCEPT ![s].pc = "app"]
  /\ UNCHANGED <<stack, policy, jar, left, sent>>

-----------------------------------------------------------------------------
(* The application (external).                                             *)

\* scope["session"] is changed, by the endpoint or a background task of its response.
ChangeSession(s) ==
  /\ request[s].pc \in {"app", "answered"} /\ Stacked("session")
  /\ request[s].pc = "answered" => request[s].passed = Len(stack)
  /\ \E session \in Sessions : request' = [request EXCEPT ![s].session = session]
  /\ UNCHANGED <<stack, policy, jar, left, sent>>

\* It starts a response, with Vary lines and an Access-Control-Allow-Origin of its own.
Respond(s) ==
  /\ request[s].pc = "app"
  /\ \E headers \in Answers : Starts(s, headers, Len(stack))
  /\ UNCHANGED <<stack, policy, jar, left, sent>>

\* It raises instead, and ServerErrorMiddleware answers outside of every layer.
Fail(s) ==
  /\ request[s].pc = "app"
  /\ Starts(s, Plain, 0)
  /\ UNCHANGED <<stack, policy, jar, left, sent>>

-----------------------------------------------------------------------------
Next ==
  \/ \E s \in Slots : \/ Browse(s) \/ Take(s) \/ Session(s) \/ Cors(s) \/ TrustedHost(s) \/ HTTPSRedirect(s)
                      \/ Authentication(s) \/ Arrives(s) \/ ChangeSession(s) \/ Respond(s) \/ Fail(s)
  \/ CookieExpires

-----------------------------------------------------------------------------
(* Properties.                                                             *)

Decoded(cookie) == IF cookie \in Values THEN cookie ELSE "empty"

\* The next request begins with the session that the last one left when its response started,
\* whatever the layers around: nothing is kept of a request that failed, that never reached
\* the session, or that changed it later.  Of requests that overlap either may win.
SessionCarried == TypeOK /\ (left # "unknown" => Decoded(jar) = left)

\* What the response of CORSMiddleware or of anything inside of it says to a browser.
CorsAnswered == {s \in Slots : LET r == request[s] IN
  r.pc = "answered" /\ r.type = "http" /\ r.origin # "none" /\ Through(r, "cors")}

\* What Vary names, and what stays of it: CORSMiddleware adds to the first line, and the
\* others are lost.
Named(vary) == UNION {vary[i] : i \in DOMAIN vary}
Kept(vary, allow_origin) == IF allow_origin = "origin" /\ vary # <<>> THEN Head(vary) ELSE Named(vary)

\* Whatever the endpoint says itself, an allowed origin is told that it is, by an explicit name
\* when credentials are at stake, and then for this origin only as far as caches go; of any
\* other origin only what the endpoint says is told.  What the endpoint varies by stays in Vary,
\* but for its further lines when CORSMiddleware has extended the first.
CorsTrue ==
  \A s \in CorsAnswered :
    LET r == request[s]
        h == r.headers
        allowed == IsAllowedOrigin(r.origin)
    IN /\ allowed => h.allow_origin \in {"origin", "*"}
       /\ ~allowed => h.allow_origin = r.given.allow_origin
       /\ allowed /\ (r.cookie # "none" \/ (r.preflight /\ policy.credentials)) => h.allow_origin = "origin"
       /\ h.allow_origin = "origin" => "Origin" \in Named(h.vary)
       /\ Kept(r.given.vary, h.allow_origin) \subseteq Named(h.vary)

=============================================================================
