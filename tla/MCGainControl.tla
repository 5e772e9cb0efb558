--------------------------- MODULE MCGainControl ---------------------------
(* Instances of GainControl for TLC: one frequency in the weather band and *)
(* two in the 2 m band, two samples to an adjustment, gains 0..2 in steps  *)
(* of 2 from 1, so that both limits cut a step short, an SDR_GAIN that is  *)
(* not set, unusable, in range and above it, and an API gain of 3 that is  *)
(* out of range.                                                           *)
EXTENDS GainControl
=============================================================================
