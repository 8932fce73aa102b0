----------------------------- MODULE MCDriftPath -----------------------------
(* Small instances of DriftPath for TLC: a CR that compares as it should   *)
(* and one whose comparison never agrees, or the latter alone.             *)
EXTENDS DriftPath

CONSTANTS a, s

Both == {a, s}
OnlyStubborn == {s}
=============================================================================
