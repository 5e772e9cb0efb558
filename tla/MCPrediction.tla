---------------------------- MODULE MCPrediction ----------------------------
(* Instances of Prediction for TLC: the three satellites of constants.ts,  *)
(* two of which share the first eight characters of their names.           *)
EXTENDS Prediction, TLC

CONSTANTS iss, meteor3, meteor4

ThreeSatellites == <<iss, meteor3, meteor4>>
FamilyOf == (iss :> "iss") @@ (meteor3 :> "meteor-m") @@ (meteor4 :> "meteor-m")

Window(rise, length, peak) == [rise |-> rise, set |-> rise + length, peak |-> peak]

(* No pass, one pass well within the horizon at each offset from a sample, *)
(* long or short, low or high, across its start (by less than a sample,    *)
(* less than three or more) or its end, or two passes in a row.            *)
SomeOrbits ==
    {{}} \cup {{Window(r, 8, 3)} : r \in {-13, -3, 9, 10, 11, 12, 43}}
         \cup {{Window(9, n, k)} : n \in {5, 13, 22}, k \in {2, 4}}
         \cup {{Window(-6, 14, 3)}, {Window(-20, 28, 3)}}
         \cup {{Window(5, 8, 3), Window(28, 9, 1)}}

(* The orbits of two satellites do not affect each other: one varies.      *)
SomeSkies ==
    {(iss :> {Window(4, 9, 4)}) @@ (meteor3 :> o) @@ (meteor4 :> {Window(12, 9, 3)}) :
     o \in SomeOrbits}
=============================================================================
