--------------------------- MODULE MCClavexClient ---------------------------
(* Small instances of ClavexClient for TLC. *)
EXTENDS ClavexClient

CONSTANTS v1, v2, r1

TwoValues == {v1, v2}
OneResponse == {r1}

\* Two specs an edit goes back and forth between, both with a Secret to fill,
TwoSpecs == [want: TwoValues, resp: OneResponse, ref: {TRUE}]

\* and a third one without.
ThreeSpecs == TwoSpecs \cup [want: {v1}, resp: OneResponse, ref: {FALSE}]
=============================================================================
