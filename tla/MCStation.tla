----------------------------- MODULE MCStation -----------------------------
(* Instances of Station for TLC.                                           *)
EXTENDS Station

CONSTANTS f1, pass1

OneScanFreq == <<f1>>
OnePass == <<pass1>>

(* No line, a weak average, and a strong one beside a line without a number. *)
Outputs == {<<>>, << <<-40>>, <<-10>> >>, << <<-10>>, <<>>, <<-12>> >>}
Threshold == -20
=============================================================================
