------------------------- MODULE MCEvidenceCapture -------------------------
(* Instances of EvidenceCapture for TLC. *)
EXTENDS EvidenceCapture

CONSTANTS c2, h2, c5, h5, a, b, d

MCCasts == {{h2}, {h5}, {"d7"}, {a, b, d}}

=============================================================================
