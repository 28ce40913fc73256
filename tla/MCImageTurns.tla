---------------------------- MODULE MCImageTurns ----------------------------
\* Two images that are alike.
EXTENDS ImageTurns
MCSymmetry == Permutations(Images)
=============================================================================
