--------------------------- MODULE MCCaptureStore ---------------------------
(* Instance of CaptureStore for TLC: a pass of each signal type.           *)
EXTENDS CaptureStore

CONSTANTS a, b

OneOfEach == [p \in {a, b} |-> IF p = a THEN "lrpt" ELSE "sstv"]
=============================================================================
