------------------------------- MODULE MCGZip -------------------------------
(* ResponseMiddleware for TLC: every layer on either side of the session   *)
(* and of CORS in one of the stacks.                                       *)
EXTENDS ResponseMiddleware, TLC

CONSTANTS a, b, s1, s2

MCStacks == {<<"host", "session", "cors", "auth">>, <<"https", "cors", "auth", "session">>}
MCPolicies == [all : BOOLEAN, credentials : BOOLEAN] \ {[all |-> FALSE, credentials |-> TRUE]}
MCAnswers == [allow_origin : {"none"}, vary : {<<>>, <<{"Cookie"}>>}, set_cookie : {"none"}]
  \union {[allow_origin |-> "*", vary |-> <<>>, set_cookie |-> "none"],
          [allow_origin |-> "own", vary |-> <<{"Accept"}, {"Cookie"}>>, set_cookie |-> "none"]}
MCSymmetry == Permutations({a, b}) \union Permutations({s1, s2})

=============================================================================
