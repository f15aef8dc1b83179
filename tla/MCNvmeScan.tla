----------------------------- MODULE MCNvmeScan -----------------------------
(* Three namespaces in lists of two. *)
EXTENDS NvmeScan
=============================================================================
