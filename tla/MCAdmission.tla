---- MODULE MCAdmission ----
(* Small instances of Admission: three named callers and one blank name. *)
EXTENDS Admission, TLC

CONSTANTS a, b, c, blank

MCIds         == {a, b, c, blank}
MCBlankIds    == {blank}
MCTokenCounts == {-1, 0, 1, 2}
MCTimes       == {0, 1}
MCWaits       == {-1, 1}

Callers == Permutations({a, b, c})

====
