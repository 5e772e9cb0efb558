----------------------------- MODULE MCSpectrum -----------------------------
(* Instance of Spectrum for TLC: eight bins of two units, frequencies in the *)
(* middle, at both edges and outside of the spectrum, two of them nearer   *)
(* than MergeDistance, and widths that cover no bin, one or several.       *)
EXTENDS Spectrum
=============================================================================
