-------------------------- MODULE MCFeatureQuotes --------------------------
(* A small instance of FeatureQuotes for TLC.                              *)
EXTENDS FeatureQuotes, TLC

CONSTANTS v1, v2

voiceRow == [route |-> "bridged", source |-> FALSE, hides |-> TRUE]
musicRow == [route |-> "native", source |-> FALSE, hides |-> TRUE]
videoRow == [route |-> "native", source |-> FALSE, hides |-> FALSE]
assetRow == [route |-> "native", source |-> TRUE, hides |-> FALSE]
activeRows == {voiceRow, musicRow, videoRow, assetRow}

symmetry == Permutations(Values)
=============================================================================
