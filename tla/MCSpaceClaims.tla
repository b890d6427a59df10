--------------------------- MODULE MCSpaceClaims ---------------------------
(* Three herdash: two in one space and one in another, each under one of    *)
(* two names; or one in each of two spaces.                                 *)
EXTENDS SpaceClaims, TLC

CONSTANTS i1, i2, i3, s1, s2, api, web, herdash, fleet

MCHome   == i1 :> s1 @@ i2 :> s1 @@ i3 :> s2
Symmetry == Permutations({i1, i2}) \cup Permutations({api, web}) \cup Permutations({herdash, fleet})

(* The calm days; and days with every mishap but one, as users who come in  *)
(* between and herdash at work side by side are not put on one day.         *)
MCDays == {{}, {"userRace"}, Mishap \ {"overlap"}, Mishap \ {"userRace"}}

MCHomeApart == i1 :> s1 @@ i2 :> s2
=============================================================================
