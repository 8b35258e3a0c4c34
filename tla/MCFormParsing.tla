----------------------------- MODULE MCFormParsing -----------------------------
(* Forms for TLC. *)
EXTENDS Forms

\* low limits, each exceeded by some body, and limits that no body reaches
MCLimits == {[files |-> 1, fields |-> 1, size |-> 2], [files |-> 9, fields |-> 9, size |-> 9]}

\* names and values are one unit, some times repeated
MCTexts == BoundedSeq(Units, MaxLength)

=============================================================================
