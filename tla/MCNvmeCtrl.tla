----------------------------- MODULE MCNvmeCtrl -----------------------------
(* A controller with two I/O queues. *)
EXTENDS NvmeCtrl
=============================================================================
