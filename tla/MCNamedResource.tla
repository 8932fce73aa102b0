--------------------------- MODULE MCNamedResource ---------------------------
(* Small instances of NamedResource for TLC.                               *)
EXTENDS NamedResource

CONSTANTS c, d, k1, k2, b1, b2

On == [key |-> k1, body |-> b1, on |-> TRUE]
Off == [On EXCEPT !.on = FALSE]
Elsewhere == [On EXCEPT !.key = k2]

TwoCRs == {c, d}
TwoKeys == {k1, k2}
OneBody == {b1}
ThreeSpecs == {On, Off, Elsewhere}
TwoSpecs == {On, Off}
RoleOrRule == {"role", "policy"}
EachControl == {"role", "provider", "policy"}
=============================================================================
