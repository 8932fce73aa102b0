---------------------------- MODULE MCOrgSettings ----------------------------
(* Small instances of OrgSettings for TLC: the two sections of the code.    *)
EXTENDS OrgSettings

CONSTANTS c, d, o1, o2, v1, v2

TwoCRs == {c, d}
TwoOrgs == {o1, o2}
Shared == {[x \in TwoCRs |-> o1]}
TwoValues == {v1, v2}
Unasked == {v2}
PolicyThenLimits == <<"policy", "limits">>
OnlyPolicy == [policy |-> v1, limits |-> None]
Both == [policy |-> v1, limits |-> v1]
TwoSpecs == {OnlyPolicy, Both}
=============================================================================
