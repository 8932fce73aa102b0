--------------------------- MODULE MCEventStream ----------------------------
(* Small instances of EventStream for TLC.  One conn struct more than there *)
(* are organisations: a leaked goroutine would have room.                   *)
EXTENDS EventStream

CONSTANTS k1, k2, o1, c1, c2, c3

OneKind == {k1}
TwoKinds == {k1, k2}
OneOrg == {o1}
TwoConns == {c1, c2}
ThreeConns == {c1, c2, c3}
=============================================================================
