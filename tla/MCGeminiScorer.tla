--------------------------- MODULE MCGeminiScorer ---------------------------
(***************************************************************************)
(* A value for GeminiScorer that a configuration file cannot write.        *)
(***************************************************************************)
EXTENDS GeminiScorer

MCRetries == {-1, 2}
=============================================================================
