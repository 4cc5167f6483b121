---------------------------- MODULE MCArchiveIndex ----------------------------
(* Two processes that archive two reports each. They differ in nothing.    *)
EXTENDS ArchiveIndex, TLC

CONSTANTS a1, a2
MCArchivers == {a1, a2}
MCSymmetry == Permutations(MCArchivers)
=============================================================================
