---------------------------- MODULE MCWaterfall ----------------------------
(* Instance of Waterfall for TLC: an empty band, a strong carrier over     *)
(* hardly any noise, and the weakest frame there can be.                   *)
EXTENDS Waterfall

MCMinPower == <<-90, -149, -130>>
MCMaxPower == <<-85, -2, -120>>
=============================================================================
