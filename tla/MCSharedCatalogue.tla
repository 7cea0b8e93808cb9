-------------------------- MODULE MCSharedCatalogue --------------------------
(* Model values for checking SharedCatalogue. *)
EXTENDS SharedCatalogue, TLC

CONSTANTS p1, a1, m1, c1, c2

MCProduct   == {p1}
MCAlarm     == {a1}
MCParameter == {m1}
MCCmd       == {c1, c2}
==============================================================================
