--------------------------- MODULE IoPlanScheduler --------------------------
(***************************************************************************)
(* NVMeIoEx::_io_plan_scheduler as the loop it is: the locals slba, nlb    *)
(* and qDepth are updated while plans are appended to planList, and the    *)
(* last plan is enlarged afterwards.  IoPlanMath gives the closed form     *)
(* the engine (module IoExEngine) uses; here the loop is shown to compute  *)
(* it, for every job of Jobs.                                              *)
(***************************************************************************)
EXTENDS IoPlanMath

CONSTANT Jobs   \* the argument tuples: slba, nlb, qDepth and oneTimeNlb

ASSUME JobsAssumption ==
  Jobs \subseteq [slba : Nat, nlb : Nat, qDepth : Nat \ {0}, oneTimeNlb : Nat \ {0}]

VARIABLES
  job,        \* the arguments of the call
  qDepth,     \* local qDepth, clipped to the number of buffer loads
  split,      \* local split, blocks given to each plan
  slba,       \* local slba, first block of the next plan
  nlb,        \* local nlb, blocks not yet given to a plan
  i,          \* loop variable, also the number of plans made so far
  planList,   \* the plans made so far: index -> first block and length
  pc          \* "divide", "loop", "fixup" or "done"

vars == <<job, qDepth, split, slba, nlb, i, planList, pc>>

PlanRec == [slba : Nat, rnlb : Nat]

Init ==
  /\ job \in Jobs
  /\ qDepth = job.qDepth
  /\ split = 0
  /\ slba = job.slba
  /\ nlb = job.nlb
  /\ i = 0
  /\ planList = [k \in {} |-> 0]
  /\ pc = "divide"

(* Mutated form of FixLastPlan: the remainder is left out.                 *)
FixNothing ==           \* the remainder of the division is forgotten
  /\ pc = "fixup"
  /\ pc' = "done"
  /\ UNCHANGED <<job, qDepth, split, slba, nlb, i, planList>>

(* An empty range leaves the list empty.  Otherwise qDepth is clipped and  *)
(* split becomes the share of one plan.                                    *)
Divide ==
  /\ pc = "divide"
  /\ IF nlb = 0
     THEN /\ pc' = "done"
          /\ UNCHANGED <<qDepth, split>>
     ELSE /\ qDepth' = LesserOf(qDepth, BufferLoads(nlb, job.oneTimeNlb))
          /\ split' = nlb \div qDepth'
          /\ pc' = "loop"
  /\ UNCHANGED <<job, slba, nlb, i, planList>>

(* One turn of the for loop: plan i starts at slba and takes split blocks. *)
MakePlan ==
  /\ pc = "loop"
  /\ i < qDepth
  /\ planList' = [k \in 0..i |-> IF k = i THEN [slba |-> slba, rnlb |-> split]
                                 ELSE planList[k]]
  /\ i' = i + 1
  /\ slba' = slba + split
  /\ nlb' = nlb - split
  /\ UNCHANGED <<job, qDepth, split, pc>>

LeaveLoop ==
  /\ pc = "loop"
  /\ i = qDepth
  /\ pc' = "fixup"
  /\ UNCHANGED <<job, qDepth, split, slba, nlb, i, planList>>

(* "fix last plan elba"                                                    *)
FixLastPlan ==
  /\ pc = "fixup"
  /\ planList' = IF nlb # 0
                 THEN [planList EXCEPT ![qDepth - 1] = [slba |-> @.slba, rnlb |-> @.rnlb + nlb]]
                 ELSE planList
  /\ pc' = "done"
  /\ UNCHANGED <<job, qDepth, split, slba, nlb, i>>

Next == Divide \/ MakePlan \/ LeaveLoop \/ FixLastPlan

Spec == Init /\ [][Next]_vars
-----------------------------------------------------------------------------
TypeOK ==
  /\ job \in Jobs
  /\ qDepth \in Nat \ {0}
  /\ split \in Nat
  /\ slba \in Nat
  /\ nlb \in Nat
  /\ i \in Nat
  /\ planList \in [0..(i - 1) -> PlanRec]
  /\ pc \in {"divide", "loop", "fixup", "done"}

Blocks(p) == p.slba .. (p.slba + p.rnlb - 1)

(* Property: when the scheduler returns, the plans tile the range of the   *)
(* task: no block is given to two plans and none is left out, whatever     *)
(* the queue depth and the buffer size (a later slice would otherwise be   *)
(* written twice or never).                                                *)
PlansTileRange ==
  pc = "done" =>
    /\ UNION {Blocks(planList[k]) : k \in DOMAIN planList} = job.slba .. (job.slba + job.nlb - 1)
    /\ \A j, k \in DOMAIN planList : j # k => Blocks(planList[j]) \cap Blocks(planList[k]) = {}

(* Property: no plan is made without work.  _run() relies on it: an empty  *)
(* plan would never be activated, and cancel() would then look at a        *)
(* handler whose buffer pointer was never assigned.                        *)
NoIdlePlan ==
  pc = "done" => \A k \in DOMAIN planList : planList[k].rnlb > 0

(* Property: the loop computes the closed form of IoPlanMath, the form     *)
(* the engine module starts from.                                          *)
LoopComputesClosedForm ==
  pc = "done" =>
    LET n == PlanCount(job.nlb, job.qDepth, job.oneTimeNlb) IN
    planList = [k \in 0..(n - 1) |->
      [slba |-> job.slba + PlanBegin(k, job.nlb, job.qDepth, job.oneTimeNlb),
       rnlb |-> PlanLength(k, job.nlb, job.qDepth, job.oneTimeNlb)]]
=============================================================================
