--------------------------- MODULE MCMemoryOutbox ---------------------------
(* A small instance of MemoryOutbox.                                        *)
EXTENDS MemoryOutbox, TLC

CONSTANTS i1, i2, w1, w2

WorkerSymmetry == Permutations(Workers)
=============================================================================
