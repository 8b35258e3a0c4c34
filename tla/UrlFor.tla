-------------------------------- MODULE UrlFor --------------------------------
(***************************************************************************)
(* The way back: url_path_for() of a router and of its routes, and         *)
(* Request.url_for(), which turns what it finds into an absolute URL.      *)
(*                                                                         *)
(* The name "a:b" is the sequence <<"a", "b">>; a Mount without a name has *)
(* <<>>.  A result is a set: {} for NoMatchFound, or the one URL found.    *)
(* A URL has no scheme here.                                               *)
(***************************************************************************)
EXTENDS Routing

\* lstrip("/") of the value of a path parameter.
LStrip(value) ==
  LET kept == {i \in DOMAIN value : i = Len(value) \/ \E j \in 1..i : value[j] # ""}
  IN  SubSeq(value, Min(kept), Len(value))

\* replace_params(): a parameter that is not given stays in the path as it is.
Fill(pattern, params) ==
  FlattenSeq([i \in DOMAIN pattern |->
                IF pattern[i].conv # "lit" /\ pattern[i].name \in DOMAIN params
                THEN params[pattern[i].name] ELSE <<pattern[i].name>>])
Remaining(pattern, params) == Restrict(params, DOMAIN params \ ParamNames(pattern))

\* The name goes on below a Mount or a Host.
GoesOn(r, name) == r.name = <<>> \/ (IsStrictPrefix(r.name, name))

\* What the routes below are asked with: a `path` that was given is theirs.
ParamsBelow(r, params) ==
  LET remaining == Remaining(r.path, params)
  IN  IF "path" \in DOMAIN params THEN ("path" :> params["path"]) @@ remaining ELSE remaining

\* Every parameter is used, but for the `path` of a Mount or a Host.
AllUsed(r, params) == DOMAIN params \ {"path"} \subseteq ParamNames(r.path)

\* A URLPath, without a host or with that of a Host.
OnPath(path) == [path |-> path, host |-> <<>>, port |-> ""]
OnHost(r, params, path) == [path |-> path, host |-> Fill(r.path, params), port |-> r.port]

\* url_path_for() of an endpoint; of a Mount or a Host by its own name; of a route below it,
\* which has the URL `u` there.
EndpointUrl(r, name, params) ==
  IF name = r.name /\ DOMAIN params = ParamNames(r.path)
  THEN {OnPath(Fill(r.path, params))} ELSE {}

MountUrl(r, params) ==
  IF AllUsed(r, params)
  THEN {OnPath(Fill(r.path, [params EXCEPT !["path"] = LStrip(@)]))} ELSE {}
UnderMount(r, params, u) ==
  OnPath(RStrip(Fill(r.path, ("path" :> <<"">>) @@ params), "") \o u.path)

\* The `path` of a Host is used as it is given: with its first slash.
HostUrl(r, params) ==
  IF AllUsed(r, params) THEN {OnHost(r, params, Tail(params["path"]))} ELSE {}
UnderHost(r, params, u) == OnHost(r, params, u.path)

\* url_path_for() of a route; below[rt, name, params] is that of the router below it.
UrlOfRoute(r, name, params, below) ==
  LET mount == r.kind = "mount"
      nameBelow == SubSeq(name, Len(r.name) + 1, Len(name))
  IN  CASE r.kind \in {"route", "websocket"} -> EndpointUrl(r, name, params)
        [] r.name # <<>> /\ r.name = name /\ "path" \in DOMAIN params ->
             IF mount THEN MountUrl(r, params) ELSE HostUrl(r, params)
        [] GoesOn(r, name) /\ r.app # "endpoint" ->
             {IF mount THEN UnderMount(r, params, u) ELSE UnderHost(r, params, u) :
                u \in below[r.app, nameBelow, ParamsBelow(r, params)]}
        [] OTHER -> {}

\* Router.url_path_for(): the first route that does not raise NoMatchFound.  What is asked
\* below is the end of the name, with some of the parameters.
UrlPathFor(router0, name0, params0) ==
  LET Fewer == {Restrict(params0, some) : some \in SUBSET DOMAIN params0}
      url[rt \in DOMAIN Routers, name \in Suffixes(name0), params \in Fewer] ==
        LET routes == Routers[rt].routes
            OfRoute(i) == UrlOfRoute(routes[i], name, params, url)
            found == {i \in DOMAIN routes : OfRoute(i) # {}}
        IN  IF found = {} THEN {} ELSE OfRoute(Min(found))
  IN  url[router0, name0, params0]

\* Mutant of BasePath: of an endpoint that is mounted, the root_path that it has there.
BasePathOfMount(s) == RStrip(s.root_path, "")

\* Request.base_url: the root_path that the outermost application has.
BasePath(s) == RStrip(IF s.app_root_path # <<>> THEN s.app_root_path[1] ELSE s.root_path, "")

\* make_absolute_url(): the host and the port of the request where the URL has no host.
AbsoluteUrl(u) ==
  LET netloc == IF u.host = <<>> THEN scope ELSE u
  IN  [path |-> BasePath(scope) \o u.path, host |-> netloc.host, port |-> netloc.port]

\* Request.url_for(), asked by the endpoint.
UrlFor(name, params) == {AbsoluteUrl(u) : u \in UrlPathFor(top, name, params)}

-----------------------------------------------------------------------------
(* Properties.                                                             *)

\* What the endpoint knows of itself: its full name, and its parameters; an application
\* that is mounted, or has a host of its own, has the rest of the path as one more.
FullName == FlattenSeq([k \in DOMAIN way |-> RouteAt(k).name])
OwnParams ==
  CASE RouteAt(Len(way)).kind = "mount" -> ("path" :> GetRoutePath(scope)) @@ scope.path_params
    [] RouteAt(Len(way)).kind = "host" ->
         ("path" :> <<"">> \o GetRoutePath(scope)) @@ scope.path_params
    [] OTHER -> scope.path_params

\* A mounted application is given the rest of the path without its leading slashes.
OwnPath ==
  IF RouteAt(Len(way)).kind = "mount" THEN scope.root_path \o LStrip(GetRoutePath(scope))
  ELSE scope.path

\* The names on the way stand for it alone, and no parameter hides another.
NamesDiffer ==
  /\ RouteAt(Len(way)).name # <<>>
  /\ \A j, k \in DOMAIN way : j # k =>
       (ParamNames(RouteAt(j).path) \ {"path"}) \intersect
       (ParamNames(RouteAt(k).path) \ {"path"}) = {}

\* The same path, or host, but for what int() makes of a number ("01" is 1).
SamePath(p, q) ==
  /\ Len(p) = Len(q)
  /\ \A i \in DOMAIN p : p[i] = q[i] \/ (q[i] \in DOMAIN Numbers /\ p[i] = Numbers[q[i]])

\* A URL that a Host gives has the port of the Host, whatever port was asked for.
OwnPort == IF RouteAt(1).kind = "host" THEN RouteAt(1).port ELSE scope.port

\* Wherever an endpoint is mounted, url_for() of its own name and its own parameters is
\* the URL that it was reached with, but for the port behind a Host, which matches any and
\* puts its own one into URLs: matching, and building URLs, undo each other.
OwnUrl ==
  answer = "endpoint" /\ NamesDiffer =>
    \E u \in UrlFor(FullName, OwnParams) :
      SamePath(u.path, OwnPath) /\ SamePath(u.host, scope.host) /\ u.port = OwnPort

=============================================================================
