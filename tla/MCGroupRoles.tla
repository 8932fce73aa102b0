----------------------------- MODULE MCGroupRoles -----------------------------
(* Small instances of GroupRoles for TLC: two names, and the specs with    *)
(* none, one and both of them.                                             *)
EXTENDS GroupRoles

CONSTANTS n1, n2

TwoNames == {n1, n2}
ThreeSpecs == {{}, {n1}, {n1, n2}}
=============================================================================
