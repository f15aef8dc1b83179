---------------------------- MODULE MCNvmeQueue ----------------------------
(* The admin queue and one I/O queue.  An entry of the completion ring is  *)
(* the command it answers.                                                 *)
EXTENDS NvmeQueue
MCEntries == [id: 0 .. Depth - 1, gen: {0, 1}]
=============================================================================
