------------------------- MODULE MCBaseHTTPMiddleware -------------------------
(* BaseHTTPMiddleware for TLC. *)
EXTENDS BaseHTTPMiddleware

=============================================================================
