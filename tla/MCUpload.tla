------------------------------ MODULE MCUpload ------------------------------
(* Small instances of UploadStream for TLC. *)
EXTENDS UploadStream, TLC

TokenSymmetry == Permutations(Tokens)
=============================================================================
