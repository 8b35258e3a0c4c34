--------------------------- MODULE MCCachedRequest ---------------------------
(* CachedRequest for TLC. *)
EXTENDS CachedRequest

=============================================================================
