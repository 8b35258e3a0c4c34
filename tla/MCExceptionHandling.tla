-------------------------- MODULE MCExceptionHandling --------------------------
(* ExceptionHandling for TLC: a route of an application that is mounted in *)
(* another one, so five layers.                                            *)
EXTENDS ExceptionHandling

Mounted == <<[kind |-> "server", app |-> "outer"],
             [kind |-> "exceptions", app |-> "outer"],
             [kind |-> "server", app |-> "inner"],
             [kind |-> "exceptions", app |-> "inner"],
             [kind |-> "route", app |-> "inner"]>>

\* Custom is a subclass of RuntimeError; http is an HTTPException with a status.
MCExceptions == {"http", "custom", "OSError", "RuntimeError"}
MCMro == [http |-> <<"HTTPException", "Exception">>,
          custom |-> <<"Custom", "RuntimeError", "Exception">>,
          OSError |-> <<"OSError", "Exception">>,
          RuntimeError |-> <<"RuntimeError", "Exception">>]
MCStatus == [e \in MCExceptions |-> IF e = "http" THEN "404" ELSE "no status"]

=============================================================================
