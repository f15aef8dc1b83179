--------------------------- MODULE MCIoExCommand ----------------------------
(* A command on a small disk: the range of the task and one block on       *)
(* either side of it, with contents no task writes.                        *)
EXTENDS IoExCommand

Old == [hdr |-> -2, body |-> -2]
OldDisk == {[l \in (Slba - 1) .. (Slba + Nlb) |-> Old]}
=============================================================================
