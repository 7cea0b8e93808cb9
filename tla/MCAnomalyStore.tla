---------------------------- MODULE MCAnomalyStore ----------------------------
(* Model values for checking AnomalyStore. *)
EXTENDS AnomalyStore, TLC

CONSTANTS p1, c1, c2, o1, o2, b1, b2

NoPayload    == {}
OnePayload   == {p1}
OneControl   == {c1}
TwoControl   == {c1, c2}
NoControl    == {}
TwoOperators == {o1, o2}
NoPollers    == {}
OnePoller    == {b1}
TwoPollers   == {b1, b2}

\* Operators are interchangeable, and so are pollers; no property tells them apart.
Interchangeable == Permutations(TwoOperators) \cup Permutations(TwoPollers)
==============================================================================
