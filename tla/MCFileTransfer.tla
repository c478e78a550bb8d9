--------------------------- MODULE MCFileTransfer ---------------------------
(* Model-checking module of FileTransfer: requests are interchangeable.     *)
EXTENDS FileTransfer, TLC

RequestSymmetry == Permutations(Requests)
=============================================================================
