------------------------------- MODULE Routing -------------------------------
(***************************************************************************)
(* How a request finds its endpoint: Router.app() with the matches() and   *)
(* handle() of Route, WebSocketRoute, Mount and Host.  A router looks at   *)
(* its routes one after the other; a Mount or a Host hands the scope,      *)
(* updated, to a router of its own.                                        *)
(*                                                                         *)
(* A path is the sequence of what follows its slashes: "/" is <<"">>,      *)
(* "/a/" is <<"a", "">> and "" is <<>>, so that \o joins paths as + does.  *)
(* A host is the sequence of its labels, and has a port, or "".  The       *)
(* pattern of a route is a sequence too, of literals and parameters; a     *)
(* parameter of the path convertor may only come last.  The value of a     *)
(* parameter is a sequence, as what a path convertor matches has slashes,  *)
(* and what a parameter of a host matches has dots.                        *)
(***************************************************************************)
EXTENDS Naturals, SequencesExt

CONSTANTS
  Routers,    \* the routers: their routes, and redirect_slashes
  Apps,       \* those of them that are outermost
  Requests,   \* what clients ask for
  Numbers     \* the segments that the int convertor matches, with str(int(segment))

ASSUME AppsAssumption == Apps \subseteq DOMAIN Routers

\* What Router.__init__ and the constructors of routes below make.
Elements == [conv : {"lit", "str", "int", "path"}, name : STRING]
RouteSet ==
  [kind : {"route", "websocket", "mount", "host"}, name : Seq(STRING), methods : SUBSET STRING,
   path : Seq(Elements), port : STRING, app : {"endpoint"} \union DOMAIN Routers,
   handlers : SUBSET STRING]

\* Routes but those of HTTP take any method, and routes but mounts and hosts lead to endpoints.
\* The path of a Mount ends with the parameter that its constructor adds, after no slash.
WellMade(r) ==
  LET n == Len(r.path)
  IN  /\ n >= 1 /\ \A i \in 1..(n - 1) : r.path[i].conv # "path"
      /\ r.kind # "route" => r.methods = {}
      /\ r.kind \in {"route", "websocket"} => r.app = "endpoint"
      /\ r.kind = "mount" => /\ r.path[n].conv = "path"
                             /\ n > 1 => r.path[n - 1] # [conv |-> "lit", name |-> ""]

ASSUME RoutersAssumption ==
  /\ "endpoint" \notin DOMAIN Routers
  /\ \A rt \in DOMAIN Routers :
       /\ Routers[rt].redirect \in BOOLEAN
       /\ Routers[rt].routes \in Seq(RouteSet)
       /\ \A i \in DOMAIN Routers[rt].routes : WellMade(Routers[rt].routes[i])

RequestSet == [type : {"http", "websocket"}, method : STRING, path : Seq(STRING),
               root_path : Seq(STRING), host : Seq(STRING), port : STRING]

\* ASGI: the root_path of the server is where the path begins; it has no last slash.
ASSUME RequestsAssumption ==
  /\ Requests \subseteq RequestSet
  /\ \A request \in Requests : /\ IsPrefix(request.root_path, request.path)
                               /\ request.root_path # <<>> => Last(request.root_path) # ""

\* The int convertor takes digits: one at least.
ASSUME NumbersAssumption == "" \notin DOMAIN Numbers

VARIABLES
  top,        \* the outermost router
  asked,      \* the request as it came in
  stage,      \* "idle", "routing", "redirecting", "answered"
  scope,
  router,     \* the router whose app() runs
  next,       \* the route it looks at next
  partial,    \* index of the first route that matched in part, or 0
  answer,     \* what becomes of the request
  way,        \* history: <<router, index>> of the routes that handled it
  hops        \* redirects that the client has followed

routingVars == <<top, asked, stage, scope, router, next, partial, answer, way, hops>>

Routes == Routers[router].routes

\* A literal, or a parameter with its convertor.
Literal(s) == [conv |-> "lit", name |-> s]
Param(x, conv) == [conv |-> conv, name |-> x]

Answers == {"none", "endpoint", "404", "405", "close", "redirect"}

RoutingTypeOK ==
  /\ stage \in {"idle", "routing", "redirecting", "answered"}
  /\ router \in DOMAIN Routers
  /\ next \in 0..(Len(Routes) + 1)
  /\ partial \in 0..Len(Routes)
  /\ answer \in Answers
  /\ (stage = "answered") = (answer # "none")
  /\ hops \in 0..1

-----------------------------------------------------------------------------
(* Routes (Route.__init__, Mount.__init__, Host.__init__, compile_path).   *)

\* app: "endpoint", which stands for any other ASGI application too, or the router below;
\* handlers: the methods that a HTTPEndpoint has, {} for other endpoints.
RouteOf(kind, path, name, methods, app) ==
  [kind |-> kind, path |-> path, port |-> "", name |-> name, methods |-> methods, app |-> app,
   handlers |-> {}]

\* methods = {} is None; GET brings HEAD with it.
Route(path, name, methods) ==
  RouteOf("route", path, name,
          IF "GET" \in methods THEN methods \union {"HEAD"} ELSE methods, "endpoint")

\* A class as endpoint is an ASGI application: every method reaches it.
EndpointRoute(path, name, handlers) ==
  [RouteOf("route", path, name, {}, "endpoint") EXCEPT !.handlers = handlers]
WebSocketRoute(path, name) == RouteOf("websocket", path, name, {}, "endpoint")

\* path.rstrip("/"): a path that ends with a slash ends with an empty segment.
RStrip(path, slash) ==
  SubSeq(path, 1, Cardinality({i \in DOMAIN path : \E j \in i..Len(path) : path[j] # slash}))

Mount(path, name, app) ==
  RouteOf("mount", RStrip(path, Literal("")) \o <<Param("path", "path")>>, name, {}, app)

\* The port of a Host is for its URLs: compile_path() leaves it out of the regex.
Host(host, port, name, app) == [RouteOf("host", host, name, {}, app) EXCEPT !.port = port]

\* Router.__init__: its routes; redirect_slashes.
Router(routes, redirect) == [routes |-> routes, redirect |-> redirect]

ParamNames(pattern) == {e.name : e \in {pattern[i] : i \in {j \in DOMAIN pattern :
                                                              pattern[j].conv # "lit"}}}

-----------------------------------------------------------------------------
(* matches().                                                              *)

\* get_route_path(): what root_path leaves of the path.  (A root_path that ends inside
\* of a segment leaves all of it, too.)
GetRoutePath(s) ==
  IF IsPrefix(s.root_path, s.path)
  THEN SubSeq(s.path, Len(s.root_path) + 1, Len(s.path)) ELSE s.path

\* One segment against the regex of a literal or of a convertor; convert().
Accepts(e, segment) ==
  CASE e.conv = "lit" -> segment = e.name
    [] e.conv = "str" -> segment # ""
    [] e.conv = "int" -> segment \in DOMAIN Numbers
    [] OTHER -> TRUE
Convert(e, segment) == IF e.conv = "int" THEN Numbers[segment] ELSE segment

\* path_regex.match(path): ".*" of the path convertor takes any rest.
RegexMatches(pattern, path) ==
  LET n == Len(pattern)
  IN  /\ IF n > 0 /\ pattern[n].conv = "path" THEN Len(path) >= n ELSE Len(path) = n
      /\ \A i \in 1..n : Accepts(pattern[i], path[i])

\* match.groupdict(), converted.
MatchedParams(pattern, path) ==
  [x \in ParamNames(pattern) |->
     LET i == CHOOSE i \in DOMAIN pattern : pattern[i].conv # "lit" /\ pattern[i].name = x
     IN  IF pattern[i].conv = "path" THEN SubSeq(path, i, Len(path))
                                     ELSE <<Convert(pattern[i], path[i])>>]

\* The regex of a host: a parameter but int takes labels with the dots between them.
AcceptsLabels(e, labels) ==
  \/ Len(labels) = 1 /\ Accepts(e, labels[1])
  \/ Len(labels) > 1 /\ e.conv \in {"str", "path"}

\* The ways to match it: after how many labels each element of the pattern ends.
Cuts(pattern, host) ==
  {cut \in [0..Len(pattern) -> 0..Len(host)] :
     /\ cut[0] = 0 /\ cut[Len(pattern)] = Len(host)
     /\ \A i \in DOMAIN pattern : /\ cut[i - 1] < cut[i]
                               /\ AcceptsLabels(pattern[i], SubSeq(host, cut[i - 1] + 1, cut[i]))}

\* What the regex takes of them: the first parameter as much as it can, then the next one.
Greedy(pattern, host) ==
  CHOOSE cut \in Cuts(pattern, host) :
    \A other \in Cuts(pattern, host) \ {cut} :
      \E i \in DOMAIN pattern : cut[i] > other[i] /\ \A j \in 1..(i - 1) : cut[j] = other[j]

HostParams(pattern, host) ==
  LET cut == Greedy(pattern, host)
  IN  [x \in ParamNames(pattern) |->
         LET i == CHOOSE i \in DOMAIN pattern : pattern[i].conv # "lit" /\ pattern[i].name = x
         IN  IF pattern[i].conv = "int" THEN <<Numbers[host[cut[i]]]>>
                                        ELSE SubSeq(host, cut[i - 1] + 1, cut[i])]

MethodAllowed(r, s) == r.methods = {} \/ s.method \in r.methods

\* What matches() says of the scope: "NONE", "PARTIAL" or "FULL".
RouteMatch(r, s) ==
  IF s.type = "http" /\ RegexMatches(r.path, GetRoutePath(s))
  THEN IF MethodAllowed(r, s) THEN "FULL" ELSE "PARTIAL"
  ELSE "NONE"
WebSocketRouteMatch(r, s) ==
  IF s.type = "websocket" /\ RegexMatches(r.path, GetRoutePath(s)) THEN "FULL" ELSE "NONE"
MountMatch(r, s) == IF RegexMatches(r.path, GetRoutePath(s)) THEN "FULL" ELSE "NONE"
HostMatch(r, s) == IF Cuts(r.path, s.host) # {} THEN "FULL" ELSE "NONE"

Matches(r, s) ==
  CASE r.kind = "route" -> RouteMatch(r, s)
    [] r.kind = "websocket" -> WebSocketRouteMatch(r, s)
    [] r.kind = "mount" -> MountMatch(r, s)
    [] r.kind = "host" -> HostMatch(r, s)

\* The scope after scope.update(child_scope): the parameters of an outer route are kept;
\* the `endpoint` of the child scope is left out.
EndpointScope(r, s) ==
  [s EXCEPT !.path_params = MatchedParams(r.path, GetRoutePath(s)) @@ @]
HostScope(r, s) == [s EXCEPT !.path_params = HostParams(r.path, s.host) @@ @]

\* A Mount moves what it matched from the route path to root_path.
MountScope(r, s) ==
  LET path == GetRoutePath(s)
      params == MatchedParams(r.path, path)
  IN  [s EXCEPT !.path_params = Restrict(params, DOMAIN params \ {"path"}) @@ @,
                !.app_root_path = IF @ = <<>> THEN <<s.root_path>> ELSE @,
                !.root_path = @ \o SubSeq(path, 1, Len(r.path) - 1)]

UpdatedScope(r, s) ==
  CASE r.kind = "mount" -> MountScope(r, s)
    [] r.kind = "host" -> HostScope(r, s)
    [] OTHER -> EndpointScope(r, s)

-----------------------------------------------------------------------------
(* Router.app().                                                           *)

NoScope == [type |-> "http", method |-> "", path |-> <<>>, root_path |-> <<>>,
            host |-> <<>>, port |-> ""]

\* The scope of a request, as the server makes it; app_root_path = <<>>: not set.
ScopeOf(request) ==
  [type |-> request.type, method |-> request.method, path |-> request.path,
   root_path |-> request.root_path, host |-> request.host, port |-> request.port,
   app_root_path |-> <<>>, path_params |-> <<>>]

InitRouting ==
  /\ top \in Apps
  /\ asked = NoScope
  /\ stage = "idle"
  /\ scope = ScopeOf(NoScope)
  /\ router = top
  /\ next = 0
  /\ partial = 0
  /\ answer = "none"
  /\ way = <<>>
  /\ hops = 0

\* A request reaches the outermost router.
Call(request) ==
  /\ asked' = request
  /\ scope' = ScopeOf(request)
  /\ router' = top
  /\ stage' = "routing"
  /\ next' = 1
  /\ partial' = 0
  /\ answer' = "none"
  /\ way' = <<>>
  /\ UNCHANGED top

Request ==
  /\ stage = "idle"
  /\ \E request \in Requests : Call(request)
  /\ UNCHANGED hops

Answer(what) == stage' = "answered" /\ answer' = what

\* HTTPEndpoint.dispatch(): the handler of the method, or of GET for HEAD.
Dispatched(r, s) ==
  \/ r.handlers = {}
  \/ s.method \in r.handlers
  \/ s.method = "HEAD" /\ "GET" \in r.handlers

\* handle(): 405 when the method is not allowed, else the application of the route; a
\* router below begins with its first route.
Handle(i) ==
  LET r == Routes[i]
  IN  /\ scope' = UpdatedScope(r, scope)
      /\ way' = Append(way, <<router, i>>)
      /\ \/ ~MethodAllowed(r, scope) /\ Answer("405") /\ UNCHANGED <<router, next, partial>>
         \/ /\ MethodAllowed(r, scope) /\ r.app = "endpoint"
            /\ Answer(IF Dispatched(r, scope) THEN "endpoint" ELSE "405")
            /\ UNCHANGED <<router, next, partial>>
         \/ /\ r.app # "endpoint"
            /\ router' = r.app
            /\ next' = 1
            /\ partial' = 0
            /\ UNCHANGED <<stage, answer>>
      /\ UNCHANGED <<top, asked, hops>>

\* The route that is looked at matches.
HandleFull ==
  /\ stage = "routing" /\ next <= Len(Routes)
  /\ Matches(Routes[next], scope) = "FULL"
  /\ Handle(next)

\* Mutant of PassOver: the last partial match is kept, not the first.
PassOverLast ==
  /\ stage = "routing" /\ next <= Len(Routes)
  /\ LET match == Matches(Routes[next], scope)
     IN  /\ match # "FULL"
         /\ partial' = IF match = "PARTIAL" THEN next ELSE partial
  /\ next' = next + 1
  /\ UNCHANGED <<top, asked, stage, scope, router, answer, way, hops>>

\* It does not, or in part only: the first partial match is remembered.
PassOver ==
  /\ stage = "routing" /\ next <= Len(Routes)
  /\ LET match == Matches(Routes[next], scope)
     IN  /\ match # "FULL"
         /\ partial' = IF match = "PARTIAL" /\ partial = 0 THEN next ELSE partial
  /\ next' = next + 1
  /\ UNCHANGED <<top, asked, stage, scope, router, answer, way, hops>>

AllLookedAt == stage = "routing" /\ next > Len(Routes)

HandlePartial ==
  /\ AllLookedAt /\ partial # 0
  /\ Handle(partial)

\* redirect_slashes: the path with its slashes off, or with one more.
RedirectScope ==
  LET rest == GetRoutePath(scope)
  IN  [scope EXCEPT !.path = IF rest # <<>> /\ Last(rest) = "" THEN RStrip(@, "") ELSE @ \o <<"">>]

MayRedirect == /\ scope.type = "http" /\ Routers[router].redirect
               /\ GetRoutePath(scope) # <<"">>

\* Nothing matched: look again, for the other path.
TryRedirect ==
  /\ AllLookedAt /\ partial = 0
  /\ MayRedirect
  /\ stage' = "redirecting"
  /\ next' = 1
  /\ UNCHANGED <<top, asked, scope, router, partial, answer, way, hops>>

\* One route is enough that matches at all.
LookRedirect ==
  /\ stage = "redirecting" /\ next <= Len(Routes)
  /\ IF Matches(Routes[next], RedirectScope) # "NONE"
     THEN Answer("redirect") /\ UNCHANGED next
     ELSE next' = next + 1 /\ UNCHANGED <<stage, answer>>
  /\ UNCHANGED <<top, asked, scope, router, partial, way, hops>>

\* not_found().
Default ==
  /\ \/ AllLookedAt /\ partial = 0 /\ ~MayRedirect
     \/ stage = "redirecting" /\ next > Len(Routes)
  /\ Answer(IF scope.type = "websocket" THEN "close" ELSE "404")
  /\ UNCHANGED <<top, asked, scope, router, next, partial, way, hops>>

\* The client follows the redirect, to a path with the same root_path.
Follow ==
  /\ answer = "redirect" /\ hops = 0
  /\ hops' = 1
  /\ Call([asked EXCEPT !.path = RedirectScope.path])

RouterApp == HandleFull \/ PassOver \/ HandlePartial \/ TryRedirect \/ LookRedirect \/ Default

NextRouting == Request \/ RouterApp \/ Follow

-----------------------------------------------------------------------------
(* Properties.                                                             *)

RouteOn(w, k) == Routers[w[k][1]].routes[w[k][2]]
RouteAt(k) == RouteOn(way, k)

\* What the mounts before the k-th route of a way match of the path: the elements of their
\* patterns, but for the parameter that takes the rest.
MountedBefore(w, k) ==
  UNION {{i} \X (1..(Len(RouteOn(w, i).path) - 1)) :
           i \in {j \in 1..(k - 1) : RouteOn(w, j).kind = "mount"}}
Taken(w, k) == Cardinality(MountedBefore(w, k))

\* The path that is asked for, as the k-th router of a way finds it.
PathOn(w, k) == SubSeq(asked.path, Len(asked.root_path) + Taken(w, k) + 1, Len(asked.path))
ScopeWith(path) == [ScopeOf(asked) EXCEPT !.path = path, !.root_path = <<>>]
ScopeAt(k) == ScopeWith(PathOn(way, k))

\* At each router that the request came through, no route before the one that handled it
\* matches in full, and for a method that is not allowed no route at all does.
FirstMatchWins ==
  \A k \in DOMAIN way :
    LET routes == Routers[way[k][1]].routes
        i == way[k][2]
    IN  IF Matches(routes[i], ScopeAt(k)) = "FULL"
        THEN \A j \in 1..(i - 1) : Matches(routes[j], ScopeAt(k)) # "FULL"
        ELSE /\ \A j \in DOMAIN routes : Matches(routes[j], ScopeAt(k)) # "FULL"
             /\ \A j \in 1..(i - 1) : Matches(routes[j], ScopeAt(k)) = "NONE"

\* What answers 404 or closes, or redirects, has no route for the request.
NothingFits ==
  answer \in {"404", "close", "redirect"} =>
    \A j \in DOMAIN Routes : Matches(Routes[j], ScopeAt(Len(way) + 1)) = "NONE"

\* However many mounts a request came through, root_path is the root_path of the server
\* and what the mounts matched, the route path is the rest, and app_root_path remains.
PathIsSplit ==
  stage # "idle" =>
    /\ scope.path = asked.path
    /\ scope.root_path \o GetRoutePath(scope) = asked.path
    /\ Len(scope.root_path) = Len(asked.root_path) + Taken(way, Len(way) + 1)
    /\ scope.app_root_path # <<>> => scope.app_root_path = <<asked.root_path>>

\* A redirect to the path with or without its last slash is never answered by another
\* redirect, wherever the routers that the new path comes through are mounted.
RedirectSettles == hops = 1 => answer # "redirect"

\* A request is led to the first match, below the paths that lead to it, or where nothing
\* fits to no other end; and a redirect leads to an answer.
RightRoute == RoutingTypeOK /\ FirstMatchWins /\ NothingFits /\ PathIsSplit /\ RedirectSettles

=============================================================================
