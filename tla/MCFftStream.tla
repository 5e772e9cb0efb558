---------------------------- MODULE MCFftStream ----------------------------
(* Instances of FftStream for TLC.                                         *)
EXTENDS FftStream, TLC

(* Calls, frequencies and processes are interchangeable: no action and no  *)
(* safety property names one of them.                                      *)
Symmetry == Permutations(Callers) \cup Permutations(Freqs) \cup Permutations(Procs)
=============================================================================
