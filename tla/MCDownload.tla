----------------------------- MODULE MCDownload -----------------------------
(* Small instances of DownloadStream for TLC. *)
EXTENDS DownloadStream, TLC

(* Wait pointers are interchangeable. *)
TokenSymmetry == Permutations(Tokens)
=============================================================================
