---------------------------- MODULE MCApplication ----------------------------
(* Application for TLC: two outermost routers with routers below them. *)
EXTENDS Application

L(s) == Literal(s)
P(x) == Param(x, "str")
IntP(x) == Param(x, "int")
Rest(x) == Param(x, "path")

Get == {"GET"}
Post == {"POST"}

\* Mounted below the others: an index, a path with a last slash, a mounted application
\* and a route that takes any path.
Inner == <<Route(<<L("")>>, <<"index">>, Get),
           Route(<<L("a"), L("")>>, <<"slash">>, Get),
           Mount(<<L("1")>>, <<"static">>, "endpoint"),
           Route(<<P("x"), Rest("path")>>, <<"file">>, Get)>>

\* Methods, an int before a str, mounts with a parameter and without a name, WebSockets.
Site == <<Route(<<L("")>>, <<"home">>, Get),
          Route(<<L("a"), IntP("n")>>, <<"number">>, Post),
          Route(<<L("a"), P("s")>>, <<"text">>, Get),
          WebSocketRoute(<<L("a"), P("s")>>, <<"chat">>),
          Mount(<<L("m"), L("")>>, <<"m">>, "inner"),
          Mount(<<IntP("user")>>, <<>>, "inner"),
          EndpointRoute(<<L("a"), P("s"), L("")>>, <<"late">>, {"GET", "PUT"})>>

\* Hosts of any number of labels, and a mount below a mount; no redirects by the outermost
\* router.
Hosts == <<Host(<<P("sub"), L("org")>>, "3600", <<"api">>, "api"),
           Host(<<P("sub"), P("top")>>, "", <<"home">>, "endpoint"),
           Mount(<<L("")>>, <<"all">>, "inner")>>
Api == <<Mount(<<L("m")>>, <<"m">>, "middle"),
         Route(<<L("a")>>, <<"a">>, Post),
         Route(<<L("a")>>, <<"b">>, {"PUT"})>>
Middle == <<Mount(<<P("y")>>, <<"n">>, "inner")>>

MCRouters == [site |-> Router(Site, TRUE), hosts |-> Router(Hosts, FALSE),
              api |-> Router(Api, TRUE), middle |-> Router(Middle, TRUE),
              inner |-> Router(Inner, TRUE)]
MCApps == {"site", "hosts"}
MCNumbers == ("1" :> "1") @@ ("01" :> "1")

Paths == UNION {[1..n -> {"", "a", "m", "1", "01"}] : n \in 1..3}
         \union {<<"m">> \o p : p \in [1..3 -> {"", "m", "1"}]}

\* Each of them as an HTTP request of either method and as a WebSocket, for three hosts, with
\* and without a root_path of the server.
MCRequests ==
  {[type |-> t[1], method |-> t[2], path |-> root \o p, root_path |-> root,
    host |-> netloc[1], port |-> netloc[2]] :
     t \in {<<"http", "HEAD">>, <<"http", "POST">>, <<"websocket", "">>}, p \in Paths,
     root \in {<<>>, <<"r">>},
     netloc \in {<<<<"org">>, "8000">>, <<<<"www", "api", "org">>, "">>, <<<<"www", "api", "com">>, "8000">>}}

=============================================================================
