------------------------- MODULE MCIoPlanScheduler --------------------------
(* Every small range, queue depth and buffer size.                         *)
EXTENDS IoPlanScheduler

CONSTANTS MaxNlb, MaxDepth, MaxBuffer

MCJobs == [slba : {0, 3}, nlb : 0..MaxNlb, qDepth : 1..MaxDepth, oneTimeNlb : 1..MaxBuffer]
=============================================================================
