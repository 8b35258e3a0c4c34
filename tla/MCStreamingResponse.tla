------------------------- MODULE MCStreamingResponse -------------------------
(* StreamedAnswers for TLC. *)
EXTENDS StreamedAnswers

=============================================================================
