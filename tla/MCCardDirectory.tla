-------------------------- MODULE MCCardDirectory --------------------------
EXTENDS CardDirectory, TLC
CONSTANTS A, B, x, y
MCStart    == A :> 1 @@ B :> 2
MCStale    == {End, 2}
MCSymmetry == Permutations({x, y})
MCFatPages == {{}, {NumClusters - 2}}
=============================================================================
