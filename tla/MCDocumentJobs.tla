--------------------------- MODULE MCDocumentJobs ---------------------------
(* DocumentJobs on one or two documents. *)
EXTENDS DocumentJobs, TLC

DocSymmetry == Permutations(Docs)
=============================================================================
