--------------------------- MODULE ComponentProofs --------------------------
(***************************************************************************)
(* The small components: what the runs check of them on small values holds *)
(* for all values of their constants.  One section per component, with the *)
(* inductive invariant first.                                              *)
(***************************************************************************)
EXTENDS Components, IoPlanMathProofs, FiniteSetTheorems, SequenceTheorems

-----------------------------------------------------------------------------
(* A behaviour takes the steps of one component, and so the others' are    *)
(* stuttering steps.                                                       *)
LEMMA Steps == ComponentsSpec => ComponentsInit /\ [][ComponentsNext]_allVars
BY PTL DEF ComponentsSpec

LEMMA PlanPart == ComponentsSpec => Init /\ [][Next]_vars
<1>1. ComponentsInit => Init
  BY DEF ComponentsInit
<1>2. [ComponentsNext]_allVars => [Next]_vars
  BY DEF ComponentsNext, Others, allVars, vars
<1> QED  BY <1>1, <1>2, Steps, PTL

LEMMA IodPart == ComponentsSpec => Iod!Init /\ [][Iod!Next]_(Iod!vars)
<1>1. ComponentsInit => Iod!Init
  BY DEF ComponentsInit
<1>2. [ComponentsNext]_allVars => [Iod!Next]_(Iod!vars)
  BY DEF ComponentsNext, Others, allVars, iodVars, Iod!vars
<1> QED  BY <1>1, <1>2, Steps, PTL

LEMMA MenuPart == ComponentsSpec => Menu!Init /\ [][Menu!Next]_(Menu!vars)
<1>1. ComponentsInit => Menu!Init
  BY DEF ComponentsInit
<1>2. [ComponentsNext]_allVars => [Menu!Next]_(Menu!vars)
  BY DEF ComponentsNext, Others, allVars, menuVars, Menu!vars
<1> QED  BY <1>1, <1>2, Steps, PTL

LEMMA KeysPart == ComponentsSpec => Keys!Init /\ [][Keys!Next]_(Keys!vars)
<1>1. ComponentsInit => Keys!Init
  BY DEF ComponentsInit
<1>2. [ComponentsNext]_allVars => [Keys!Next]_(Keys!vars)
  BY DEF ComponentsNext, Others, allVars, keysVars, Keys!vars, Keys!fifoVars, Keys!scanVars, Keys!timerVars, Keys!ghosts
<1> QED  BY <1>1, <1>2, Steps, PTL

LEMMA WindowPart == ComponentsSpec => Window!Init /\ [][Window!Next]_(Window!vars)
<1>1. ComponentsInit => Window!Init
  BY DEF ComponentsInit
<1>2. [ComponentsNext]_allVars => [Window!Next]_(Window!vars)
  BY DEF ComponentsNext, Others, allVars, windowVars, Window!vars, Window!attributes, Window!form, Window!outside
<1> QED  BY <1>1, <1>2, Steps, PTL

LEMMA NgdPart == ComponentsSpec => Ngd!Init /\ [][Ngd!Next]_(Ngd!vars)
<1>1. ComponentsInit => Ngd!Init
  BY DEF ComponentsInit
<1>2. [ComponentsNext]_allVars => [Ngd!Next]_(Ngd!vars)
  BY DEF ComponentsNext, Others, allVars, ngdVars, Ngd!vars
<1> QED  BY <1>1, <1>2, Steps, PTL

-----------------------------------------------------------------------------
(* What holds at each point of _io_plan_scheduler.                         *)
PlansDivided ==
  /\ job.nlb # 0
  /\ qDepth = PlanCount(job.nlb, job.qDepth, job.oneTimeNlb)
  /\ split = PlanShare(job.nlb, job.qDepth, job.oneTimeNlb)

PlanLoopInv ==
  /\ pc = "divide" =>
       /\ qDepth = job.qDepth /\ slba = job.slba /\ nlb = job.nlb
       /\ i = 0 /\ planList = [k \in {} |-> 0]
  /\ pc \in {"loop", "fixup"} =>
       /\ PlansDivided
       /\ i <= qDepth
       /\ slba = job.slba + i * split
       /\ nlb = job.nlb - i * split
       /\ \A k \in 0 .. (i - 1) :
            planList[k].slba = job.slba + k * split /\ planList[k].rnlb = split
  /\ pc = "fixup" => i = qDepth

PlanInv ==
  /\ TypeOK
  /\ PlanLoopInv
  /\ LoopComputesClosedForm

(* The arguments of a call are numbers, the last two not zero.             *)
LEMMA JobType ==
  ASSUME job \in Jobs
  PROVE  /\ job.slba \in Nat /\ job.nlb \in Nat
         /\ job.qDepth \in Nat \ {0} /\ job.oneTimeNlb \in Nat \ {0}
BY JobsAssumption

(* The invariant holds at the start of the call.                           *)
LEMMA PlanStart == Init => PlanInv
<1> SUFFICES ASSUME Init PROVE PlanInv
  OBVIOUS
<1>1. TypeOK
  BY JobType DEF Init, TypeOK
<1> QED  BY <1>1 DEF Init, PlanInv, PlanLoopInv, LoopComputesClosedForm

(* The first plan starts where the range starts.                           *)
LEMMA ZeroProduct == ASSUME NEW a \in Nat PROVE 0 * a = 0
OBVIOUS

(* Clipping and dividing set the loop up.                                  *)
LEMMA DividePreserves == PlanInv /\ Divide => PlanInv'
<1> SUFFICES ASSUME PlanInv, Divide PROVE PlanInv'
  OBVIOUS
<1> USE DEF PlanInv, TypeOK
<1>0. /\ job.slba \in Nat /\ job.nlb \in Nat
      /\ job.qDepth \in Nat \ {0} /\ job.oneTimeNlb \in Nat \ {0}
  BY JobType
<1>1. /\ qDepth = job.qDepth /\ slba = job.slba /\ nlb = job.nlb
      /\ i = 0 /\ planList = [k \in {} |-> 0]
      /\ UNCHANGED <<job, slba, nlb, i, planList>>
  BY DEF Divide, PlanLoopInv
<1>2. CASE nlb = 0
  <2>1. pc' = "done" /\ UNCHANGED <<qDepth, split>>
    BY <1>2 DEF Divide
  <2>2. PlanCount(job.nlb, job.qDepth, job.oneTimeNlb) = 0
    BY <1>1, <1>2 DEF PlanCount
  <2>3. LoopComputesClosedForm'
    BY <1>1, <2>1, <2>2 DEF LoopComputesClosedForm
  <2> QED  BY <1>1, <2>1, <2>3 DEF PlanLoopInv
<1>3. CASE nlb # 0
  <2>1. pc' = "loop" /\ qDepth' = PlanCount(job.nlb, job.qDepth, job.oneTimeNlb)
    BY <1>1, <1>3 DEF Divide, PlanCount
  <2>2. split' = PlanShare(job.nlb, job.qDepth, job.oneTimeNlb)
    BY <1>1, <1>3, <2>1 DEF Divide, PlanShare
  <2>3. qDepth' \in Nat \ {0} /\ split' \in Nat \ {0}
    BY <1>0, <1>1, <1>3, <2>1, <2>2, PlanCountBounds, PlanShareBounds
  <2>4. i' * split' = 0
    BY <1>1, <2>3, ZeroProduct
  <2>5. PlanLoopInv'
    BY <1>0, <1>1, <1>3, <2>1, <2>2, <2>3, <2>4 DEF PlanLoopInv, PlansDivided
  <2> QED  BY <1>1, <2>1, <2>3, <2>5 DEF LoopComputesClosedForm
<1> QED  BY <1>2, <1>3

(* A turn of the loop gives the next share to the next plan.               *)
LEMMA MakePlanPreserves == PlanInv /\ MakePlan => PlanInv'
<1> SUFFICES ASSUME PlanInv, MakePlan PROVE PlanInv'
  OBVIOUS
<1> USE DEF PlanInv, TypeOK
<1>0. /\ job.slba \in Nat /\ job.nlb \in Nat
      /\ job.qDepth \in Nat \ {0} /\ job.oneTimeNlb \in Nat \ {0}
  BY JobType
<1>1. /\ PlansDivided /\ slba = job.slba + i * split /\ nlb = job.nlb - i * split
      /\ \A k \in 0 .. (i - 1) :
           planList[k].slba = job.slba + k * split /\ planList[k].rnlb = split
  BY DEF MakePlan, PlanLoopInv
<1>2. /\ i \in Nat /\ qDepth \in Nat /\ i + 1 <= qDepth /\ i' = i + 1 /\ pc' = "loop"
      /\ slba' = slba + split /\ nlb' = nlb - split /\ UNCHANGED <<job, qDepth, split>>
  BY DEF MakePlan
<1>3. split \in Nat \ {0} /\ qDepth * split <= job.nlb
  BY <1>0, <1>1, PlanShareBounds DEF PlansDivided
<1>4. (i + 1) * split <= qDepth * split /\ (i + 1) * split = i * split + split
      /\ i * split \in Nat /\ qDepth * split \in Nat
  BY <1>2, <1>3, ProductMonotone
<1>5. nlb' \in Nat /\ nlb' = job.nlb - i' * split /\ slba' = job.slba + i' * split
  <2> DEFINE done == i * split
             then == (i + 1) * split
             all  == qDepth * split
  <2>1. split \in Nat /\ done \in Nat /\ then \in Nat /\ all \in Nat /\ then = done + split /\ then <= all
    BY <1>3, <1>4
  <2>2. nlb = job.nlb - done /\ slba = job.slba + done /\ all <= job.nlb
    BY <1>1, <1>3
  <2>4. nlb' = nlb - split /\ slba' = slba + split
    BY <1>2
  <2> HIDE DEF done, then, all, PlanInv, TypeOK
  <2>3. nlb' \in Nat /\ nlb' = job.nlb - then /\ slba' = job.slba + then
    BY <1>0, <2>1, <2>2, <2>4
  <2> QED  BY <1>2, <2>3 DEF then
<1>6. \A k \in 0 .. i : planList'[k] = IF k = i THEN [slba |-> slba, rnlb |-> split] ELSE planList[k]
  BY DEF MakePlan
<1>7. planList' \in [0 .. (i' - 1) -> PlanRec]
  BY <1>2, <1>3 DEF MakePlan, PlanRec
<1>8. \A k \in 0 .. (i' - 1) :
        planList'[k].slba = job.slba + k * split /\ planList'[k].rnlb = split
  <2> SUFFICES ASSUME NEW k \in 0 .. i
               PROVE  planList'[k].slba = job.slba + k * split /\ planList'[k].rnlb = split
    BY <1>2
  <2>1. CASE k = i
    BY <1>1, <1>6, <2>1
  <2>2. CASE k # i
    <3>1. k \in 0 .. (i - 1) /\ planList'[k] = planList[k]
      BY <1>2, <1>6, <2>2
    <3> QED  BY <1>1, <3>1
  <2> QED  BY <2>1, <2>2
<1>9. PlanLoopInv'
  BY <1>1, <1>2, <1>5, <1>8 DEF PlanLoopInv, PlansDivided
<1> QED  BY <1>0, <1>2, <1>3, <1>5, <1>7, <1>9 DEF LoopComputesClosedForm

(* The last plan takes the remainder, which completes the closed form.     *)
LEMMA FixLastPlanPreserves == PlanInv /\ FixLastPlan => PlanInv'
<1> SUFFICES ASSUME PlanInv, FixLastPlan PROVE PlanInv'
  OBVIOUS
<1> USE DEF PlanInv, TypeOK
<1> DEFINE n == PlanCount(job.nlb, job.qDepth, job.oneTimeNlb)
<1>0. /\ job.slba \in Nat /\ job.nlb \in Nat
      /\ job.qDepth \in Nat \ {0} /\ job.oneTimeNlb \in Nat \ {0}
  BY JobType
<1>1. /\ PlansDivided /\ i = qDepth /\ nlb = job.nlb - i * split
      /\ \A k \in 0 .. (i - 1) :
           planList[k].slba = job.slba + k * split /\ planList[k].rnlb = split
  BY DEF FixLastPlan, PlanLoopInv
<1>2. n \in Nat \ {0} /\ i = n /\ qDepth = n
  BY <1>0, <1>1, PlanCountBounds DEF PlansDivided
<1>3. split \in Nat \ {0} /\ n * split <= job.nlb
      /\ split = PlanShare(job.nlb, job.qDepth, job.oneTimeNlb)
  BY <1>0, <1>1, PlanShareBounds DEF PlansDivided
<1>4. (n - 1) * split \in Nat /\ n * split \in Nat /\ n * split = (n - 1) * split + split
  <2> HIDE DEF n
  <2>1. n - 1 \in Nat /\ (n - 1) + 1 = n
    BY <1>2
  <2> QED  BY <1>3, <2>1, ProductStep
<1>5. /\ planList' \in [0 .. (n - 1) -> PlanRec]
      /\ \A k \in 0 .. (n - 1) :
           /\ planList'[k].slba = job.slba + k * split
           /\ planList'[k].rnlb = IF k = n - 1 THEN split + nlb ELSE split
  <2> HIDE DEF n
  <2>1. n - 1 \in 0 .. (n - 1) /\ planList \in [0 .. (n - 1) -> PlanRec]
    BY <1>2
  <2>2. CASE nlb = 0
    <3>1. planList' = planList
      BY <2>2 DEF FixLastPlan
    <3>2. split + nlb = split
      BY <1>3, <2>2
    <3>3. \A k \in 0 .. (n - 1) :
            /\ planList[k].slba = job.slba + k * split
            /\ planList[k].rnlb = IF k = n - 1 THEN split + nlb ELSE split
      BY <1>1, <1>2, <3>2
    <3> QED  BY <2>1, <3>1, <3>3
  <2>3. CASE nlb # 0
    <3>1. planList' = [planList EXCEPT ![n - 1] = [slba |-> @.slba, rnlb |-> @.rnlb + nlb]]
      BY <1>2, <2>3 DEF FixLastPlan
    <3>2. [slba |-> planList[n - 1].slba, rnlb |-> planList[n - 1].rnlb + nlb] \in PlanRec
      BY <2>1 DEF PlanRec
    <3>3. /\ planList' \in [0 .. (n - 1) -> PlanRec]
          /\ planList'[n - 1].slba = planList[n - 1].slba
          /\ planList'[n - 1].rnlb = planList[n - 1].rnlb + nlb
          /\ \A k \in 0 .. (n - 1) : k # n - 1 => planList'[k] = planList[k]
      BY <2>1, <3>1, <3>2
    <3> QED  BY <1>1, <1>2, <1>3, <2>1, <3>3
  <2> QED  BY <2>2, <2>3
<1>6. ASSUME NEW k \in 0 .. (n - 1)
      PROVE  /\ PlanBegin(k, job.nlb, job.qDepth, job.oneTimeNlb) = k * split
             /\ PlanLength(k, job.nlb, job.qDepth, job.oneTimeNlb)
                  = IF k = n - 1 THEN split + nlb ELSE split
  <2>1. k \in Nat /\ k * split \in Nat
    BY <1>2, <1>3, ProductMonotone
  <2>2. PlanBegin(k, job.nlb, job.qDepth, job.oneTimeNlb) = k * split
    BY <1>3 DEF PlanBegin
  <2>3. CASE k = n - 1
    <3>1. PlanLength(k, job.nlb, job.qDepth, job.oneTimeNlb) = job.nlb - (n - 1) * split
      BY <2>2, <2>3 DEF PlanEnd, PlanLength
    <3>2. nlb = job.nlb - n * split
      BY <1>1, <1>2
    <3> DEFINE w == (n - 1) * split
               v == n * split
    <3>3. /\ w \in Nat /\ v = w + split /\ nlb = job.nlb - v
          /\ split \in Nat /\ job.nlb \in Nat
      BY <1>0, <1>3, <1>4, <3>2
    <3>4. job.nlb - w = split + nlb
      <4> HIDE DEF v, w
      <4> QED  BY <3>3
    <3>5. PlanLength(k, job.nlb, job.qDepth, job.oneTimeNlb) = split + nlb
      <4> HIDE DEF n
      <4> QED  BY <3>1, <3>4
    <3> QED  BY <2>2, <2>3, <3>5
  <2>4. CASE k # n - 1
    BY <1>3, <2>1, <2>2, <2>4 DEF PlanEnd, PlanLength
  <2> QED  BY <2>2, <2>3, <2>4
<1>7. pc' = "done" /\ UNCHANGED <<job, qDepth, split, slba, nlb, i>>
  BY DEF FixLastPlan
<1>8. LoopComputesClosedForm'
  <2> HIDE DEF n
  <2>1. \A k \in 0 .. (n - 1) : planList'[k] = [slba |-> planList'[k].slba, rnlb |-> planList'[k].rnlb]
    BY <1>5 DEF PlanRec
  <2>2. \A k \in 0 .. (n - 1) : planList'[k] =
          [slba |-> job.slba + PlanBegin(k, job.nlb, job.qDepth, job.oneTimeNlb),
           rnlb |-> PlanLength(k, job.nlb, job.qDepth, job.oneTimeNlb)]
    BY <1>5, <1>6, <2>1
  <2>3. planList' = [k \in 0 .. (n - 1) |->
          [slba |-> job.slba + PlanBegin(k, job.nlb, job.qDepth, job.oneTimeNlb),
           rnlb |-> PlanLength(k, job.nlb, job.qDepth, job.oneTimeNlb)]]
    BY <1>5, <2>2
  <2> QED  BY <1>7, <2>3 DEF LoopComputesClosedForm, n
<1> QED  BY <1>2, <1>5, <1>7, <1>8 DEF PlanLoopInv

(* The invariant is inductive.                                             *)
LEMMA PlanStep == PlanInv /\ [Next]_vars => PlanInv'
<1> SUFFICES ASSUME PlanInv, [Next]_vars PROVE PlanInv'
  OBVIOUS
<1>1. CASE LeaveLoop
  BY <1>1 DEF LeaveLoop, PlanInv, TypeOK, PlanLoopInv, PlansDivided, LoopComputesClosedForm
<1>2. CASE UNCHANGED vars
  BY <1>2 DEF vars, PlanInv, TypeOK, PlanLoopInv, PlansDivided, LoopComputesClosedForm
<1> QED
  BY <1>1, <1>2, DividePreserves, MakePlanPreserves, FixLastPlanPreserves DEF Next

(* Theorem: for every call the loop invariant holds, which relates the     *)
(* locals to the plans made so far.                                        *)
THEOREM PlanInvariance == ComponentsSpec => []PlanInv
BY PlanStart, PlanStep, PlanPart, PTL

(* Theorem: the variables of the scheduler keep their types.               *)
THEOREM PlanTypes == ComponentsSpec => []TypeOK
BY PlanInvariance, PTL DEF PlanInv

(* Theorem: for every call, the loop computes the closed form.             *)
THEOREM ClosedForm == ComponentsSpec => []LoopComputesClosedForm
<1>1. PlanInv => LoopComputesClosedForm
  BY DEF PlanInv
<1> QED  BY <1>1, PlanInvariance, PTL

(* Plans of the closed form tile the range, and none is empty.             *)
LEMMA ClosedFormTiles == TypeOK /\ LoopComputesClosedForm => PlansTileRange /\ NoIdlePlan
<1> SUFFICES ASSUME TypeOK, LoopComputesClosedForm, pc = "done"
             PROVE  PlansTileRange /\ NoIdlePlan
  BY DEF PlansTileRange, NoIdlePlan
<1> DEFINE n == PlanCount(job.nlb, job.qDepth, job.oneTimeNlb)
           first(k) == PlanBegin(k, job.nlb, job.qDepth, job.oneTimeNlb)
           end(k) == PlanEnd(k, job.nlb, job.qDepth, job.oneTimeNlb)
<1>0. /\ job.slba \in Nat /\ job.nlb \in Nat
      /\ job.qDepth \in Nat \ {0} /\ job.oneTimeNlb \in Nat \ {0}
  BY JobType DEF TypeOK
<1>1. /\ DOMAIN planList = 0 .. (n - 1)
      /\ \A k \in 0 .. (n - 1) :
           planList[k].slba = job.slba + first(k) /\ planList[k].rnlb = end(k) - first(k)
  BY DEF LoopComputesClosedForm, PlanLength
<1>2. n \in Nat
  BY <1>0, PlanCountBounds
<1>3. \A k \in 0 .. (n - 1) :
        /\ first(k) \in Nat /\ end(k) \in Nat
        /\ first(k) < end(k) /\ end(k) <= job.nlb
  BY <1>0, PlanBounds
<1>4. \A j, k \in 0 .. (n - 1) : j < k => end(j) <= first(k)
  BY <1>0, PlanOrder
<1>5. \A b \in 0 .. (job.nlb - 1) : \E k \in 0 .. (n - 1) : first(k) <= b /\ b < end(k)
  BY <1>0, PlanOfBlock
<1> HIDE DEF n, first, end
<1>6. \A k \in DOMAIN planList :
        Blocks(planList[k]) = (job.slba + first(k)) .. (job.slba + end(k) - 1)
  BY <1>0, <1>1, <1>3 DEF Blocks
<1>7. NoIdlePlan
  BY <1>1, <1>3 DEF NoIdlePlan
<1>8. ASSUME NEW j \in DOMAIN planList, NEW k \in DOMAIN planList, j < k
      PROVE  Blocks(planList[j]) \cap Blocks(planList[k]) = {}
  <2>1. end(j) <= first(k) /\ end(j) \in Nat /\ first(j) \in Nat /\ end(k) \in Nat /\ first(k) \in Nat
    BY <1>1, <1>3, <1>4, <1>8
  <2>2. /\ Blocks(planList[j]) = (job.slba + first(j)) .. (job.slba + end(j) - 1)
        /\ Blocks(planList[k]) = (job.slba + first(k)) .. (job.slba + end(k) - 1)
    BY <1>6
  <2> QED  BY <1>0, <2>1, <2>2
<1>9. \A j, k \in DOMAIN planList : j # k => Blocks(planList[j]) \cap Blocks(planList[k]) = {}
  <2> SUFFICES ASSUME NEW j \in DOMAIN planList, NEW k \in DOMAIN planList, j # k
               PROVE  Blocks(planList[j]) \cap Blocks(planList[k]) = {}
    OBVIOUS
  <2>1. j < k \/ k < j
    BY <1>1, <1>2
  <2> QED  BY <1>8, <2>1
<1>10. ASSUME NEW l \in job.slba .. (job.slba + job.nlb - 1)
       PROVE  \E k \in DOMAIN planList : l \in Blocks(planList[k])
  <2>1. l - job.slba \in 0 .. (job.nlb - 1) /\ l \in Int
    BY <1>0
  <2>2. PICK k \in 0 .. (n - 1) : first(k) <= l - job.slba /\ l - job.slba < end(k)
    BY <1>5, <2>1
  <2>3. l \in Blocks(planList[k])
    <3>1. first(k) \in Nat /\ end(k) \in Nat /\ k \in DOMAIN planList
      BY <1>1, <1>3
    <3>2. Blocks(planList[k]) = (job.slba + first(k)) .. (job.slba + end(k) - 1)
      BY <1>6, <3>1
    <3> QED  BY <1>0, <2>1, <2>2, <3>1, <3>2
  <2> QED  BY <1>1, <2>2, <2>3
<1>11. ASSUME NEW k \in DOMAIN planList, NEW l \in Blocks(planList[k])
       PROVE  l \in job.slba .. (job.slba + job.nlb - 1)
  <2>1. l \in (job.slba + first(k)) .. (job.slba + end(k) - 1)
    BY <1>6, <1>11
  <2>2. first(k) \in Nat /\ end(k) \in Nat /\ end(k) <= job.nlb
    BY <1>1, <1>3
  <2> QED  BY <1>0, <2>1, <2>2
<1>12. UNION {Blocks(planList[k]) : k \in DOMAIN planList} = job.slba .. (job.slba + job.nlb - 1)
  BY <1>10, <1>11
<1> QED  BY <1>7, <1>9, <1>12 DEF PlansTileRange

(* Theorem: whatever range, queue depth and buffer size a task is given,   *)
(* its plans tile the range.                                               *)
THEOREM Tiling == ComponentsSpec => []PlansTileRange
<1>1. PlanInv => PlansTileRange
  BY ClosedFormTiles DEF PlanInv
<1> QED  BY <1>1, PlanInvariance, PTL

(* Theorem: no plan is ever left without work.                             *)
THEOREM EveryPlanWorks == ComponentsSpec => []NoIdlePlan
<1>1. PlanInv => NoIdlePlan
  BY ClosedFormTiles DEF PlanInv
<1> QED  BY <1>1, PlanInvariance, PTL

-----------------------------------------------------------------------------
(* What hangs on a tag.  The list pages are different, and each names the  *)
(* next one in its last entry.                                             *)
Chained ==
  /\ list \in Seq(Iod!Pages) /\ Len(list) <= Iod!NvmeNpages(rq)
  /\ \A k, l \in 1 .. Len(list) : k # l => list[k] # list[l]
  /\ \A k \in 1 .. Len(list) - 1 : mem[list[k]][Entries - 1] = Iod!Entry(Iod!ListAt(list[k + 1]))
  /\ list # <<>> => firstDma = Iod!ListAt(list[1])
  /\ DOMAIN mem = Iod!Pages /\ \A p \in Iod!Pages : DOMAIN mem[p] = 0 .. Entries - 1

(* npages says how many there are, 0 of one from the small pool.           *)
Counted ==
  \/ npages = -1 /\ list = <<>>
  \/ npages = 0 /\ Len(list) = 1
  \/ npages = Len(list) /\ npages > 0

(* The part of the transfer that goes into the lists, and what of it the   *)
(* entries that are written stand for.                                     *)
Listed == rq.len - (PageUnits - rq.off)
Written == (Len(list) - 1) * (Entries - 1) + prp.i

Mapped == iodPc \in {"first", "entries", "integrity"}
Built == iodPc \in {"inject", "submit", "sent"}

IodInv ==
  /\ rq \in Transfers /\ payload \in BOOLEAN /\ suspended \in BOOLEAN /\ odd = FALSE
  /\ iodPc \in {"idle", "setup", "iod", "map", "ended"} \/ Mapped \/ Built
  /\ Chained
  /\ iodPc \in {"idle", "setup", "iod", "ended"} => list = <<>>
  /\ iodPc \in {"map", "first"} => npages = -1
  /\ iodPc = "map" \/ Mapped \/ Built => Counted
  /\ iodPc \in {"idle", "setup", "ended"} => payload = FALSE
  /\ Mapped \/ Built => nents > 0
  /\ suspended = FALSE => maps = IF Mapped THEN 1 ELSE IF ~Built THEN 0 ELSE IF rq.pi THEN 2 ELSE 1
  /\ iodPc = "first" => prp.i = 0 /\ prp.length = Listed /\ prp.length > 0
  /\ iodPc = "entries" =>
       /\ list # <<>> /\ prp.i \in 0 .. Entries /\ prp.length \in Nat \ {0}
       /\ PageUnits * Written + prp.length = Listed
       /\ npages = 0 => (Listed + PageUnits - 1) \div PageUnits <= SmallEntries

(* A product that fits gives a quotient.                                   *)
LEMMA QuotientAtLeast ==
  ASSUME NEW a \in Nat, NEW b \in Nat \ {0}, NEW c \in Nat, b * c <= a
  PROVE  c <= a \div b
<1>1. PICK q : q = a \div b
  OBVIOUS
<1>2. q \in Nat /\ a < b * q + b
  BY <1>1, DivisionFacts
<1>3. SUFFICES ASSUME ~(c <= q) PROVE FALSE
  BY <1>1
<1>4. q + 1 <= c /\ q + 1 \in Nat
  BY <1>2, <1>3
<1>5. b * (q + 1) <= b * c
  BY <1>4, ProductMonotone
<1>6. b * (q + 1) = b * q + b
  BY <1>2
<1>7. b * q \in Nat /\ b * c \in Nat
  BY <1>2
<1> QED  BY <1>2, <1>5, <1>6, <1>7

LEMMA TransferIs ==
  ASSUME NEW t \in Transfers
  PROVE  /\ t.pi \in BOOLEAN /\ t.len \in Nat \ {0} /\ t.off \in 0 .. PageUnits - 1
         /\ Iod!NvmeNpages(t) \in 1 .. MaxPages /\ Iod!Segments(t) > 0
<1>1. t \in Iod!Transfer /\ Iod!WellFormed(t) /\ Iod!NvmeNpages(t) <= MaxPages /\ MaxPages \in Nat
  BY IodAssumption
<1>2. t.pi \in BOOLEAN /\ t.len \in Nat \ {0} /\ t.off \in 0 .. PageUnits - 1
  BY <1>1 DEF Iod!Transfer
<1>3. Iod!Segments(t) > 0
  <2>1. t.starts \in Seq(Nat) /\ t.starts # <<>>
    BY <1>1 DEF Iod!Transfer, Iod!WellFormed
  <2> QED  BY <2>1 DEF Iod!Segments
<1>4. PICK nprps : nprps = (t.len + PageUnits + PageUnits - 1) \div PageUnits
  OBVIOUS
<1>5. nprps \in Nat /\ 1 <= nprps
  <2>1. t.len + PageUnits + PageUnits - 1 \in Nat /\ PageUnits * 1 <= t.len + PageUnits + PageUnits - 1
    BY <1>2, IodAssumption
  <2> QED  BY <1>4, <2>1, QuotientAtLeast, DivisionFacts, IodAssumption
<1>6. Iod!NvmeNpages(t) \in Nat /\ 1 <= Iod!NvmeNpages(t)
  <2>1. nprps + Entries - 2 \in Nat /\ Entries - 1 \in Nat \ {0} /\ (Entries - 1) * 1 <= nprps + Entries - 2
    BY <1>5, IodAssumption
  <2>2. Iod!NvmeNpages(t) = (nprps + Entries - 2) \div (Entries - 1)
    BY <1>4 DEF Iod!NvmeNpages
  <2> QED  BY <2>1, <2>2, QuotientAtLeast, DivisionFacts
<1> QED  BY <1>1, <1>2, <1>3, <1>6

(* When size pages are full and something is left, one more was reckoned   *)
(* with, and the pages were not taken for few.                             *)
LEMMA RoomForMore ==
  ASSUME NEW t \in Transfers, NEW size \in Nat \ {0}, NEW left \in Nat \ {0},
         PageUnits * ((size - 1) * (Entries - 1) + Entries) + left = t.len - (PageUnits - t.off)
  PROVE  /\ size + 1 <= Iod!NvmeNpages(t)
         /\ size = 1 => (t.len - (PageUnits - t.off) + PageUnits - 1) \div PageUnits > SmallEntries
<1>1. PICK u, e : u = PageUnits /\ e = Entries - 1
  OBVIOUS
<1>2. u \in Nat \ {0} /\ e \in Nat \ {0} /\ Entries = e + 1 /\ SmallEntries \in 1 .. e + 1
  BY <1>1, IodAssumption
<1>3. PICK w : w = size * e + 1
  OBVIOUS
<1>4. w \in Nat /\ (size - 1) * (Entries - 1) + Entries = w
  <2>1. size * e \in Nat /\ (size - 1) * e = size * e - e
    BY <1>2
  <2> QED  BY <1>1, <1>2, <1>3, <2>1
<1>5. u * w \in Nat /\ u * w + left = t.len - (u - t.off) /\ t.len \in Nat /\ t.off \in 0 .. u - 1
  BY <1>1, <1>2, <1>4, TransferIs
<1>6. PICK nprps : nprps = (t.len + PageUnits + PageUnits - 1) \div PageUnits
  OBVIOUS
<1>7. nprps \in Nat /\ w + 2 <= nprps
  <2>1. u * (w + 2) = u * w + u + u /\ w + 2 \in Nat
    BY <1>2, <1>4
  <2>2. t.len + u + u - 1 \in Nat /\ u * (w + 2) <= t.len + u + u - 1
    BY <1>2, <1>5, <2>1
  <2> QED  BY <1>1, <1>2, <1>6, <2>1, <2>2, QuotientAtLeast, DivisionFacts
<1>8. size + 1 <= Iod!NvmeNpages(t)
  <2>1. e * (size + 1) = size * e + e /\ size * e \in Nat
    BY <1>2
  <2>2. nprps + (e + 1) - 2 \in Nat /\ e * (size + 1) <= nprps + (e + 1) - 2
    BY <1>2, <1>3, <1>7, <2>1
  <2>3. Iod!NvmeNpages(t) = (nprps + (e + 1) - 2) \div e
    BY <1>1, <1>2, <1>6 DEF Iod!NvmeNpages
  <2> QED  BY <1>2, <2>2, <2>3, QuotientAtLeast
<1>9. ASSUME size = 1
      PROVE  (t.len - (PageUnits - t.off) + PageUnits - 1) \div PageUnits > SmallEntries
  <2>1. w = e + 1
    BY <1>2, <1>3, <1>9
  <2>2. PICK whole : whole = t.len - (u - t.off)
    OBVIOUS
  <2>3. u * (w + 1) = u * w + u /\ whole = u * w + left
    BY <1>2, <1>4, <1>5, <2>2
  <2>4. whole + u - 1 \in Nat /\ u * (w + 1) <= whole + u - 1 /\ w + 1 \in Nat
    BY <1>2, <1>4, <1>5, <2>3
  <2>5. w + 1 <= (whole + u - 1) \div u /\ (whole + u - 1) \div u \in Nat
    BY <1>2, <2>4, QuotientAtLeast, DivisionFacts
  <2>6. (whole + u - 1) \div u > SmallEntries
    BY <1>2, <2>1, <2>5
  <2> QED  BY <1>1, <2>2, <2>6
<1> QED  BY <1>8, <1>9

LEMMA NextPageFree ==
  ASSUME list \in Seq(Iod!Pages), Len(list) < MaxPages
  PROVE  Iod!NextPage \in Iod!Pages /\ \A k \in 1 .. Len(list) : list[k] # Iod!NextPage
<1>1. PICK size : size = Len(list)
  OBVIOUS
<1>2. size \in Nat /\ MaxPages \in Nat /\ size < MaxPages
  BY <1>1, IodAssumption
<1>3. IsFiniteSet(1 .. size) /\ Cardinality(1 .. size) = size /\ Cardinality(Iod!Pages) = MaxPages
  <2>1. \A n \in Nat : IsFiniteSet(1 .. n) /\ Cardinality(1 .. n) = n
    <3>1. SUFFICES ASSUME NEW n \in Nat PROVE IsFiniteSet(1 .. n) /\ Cardinality(1 .. n) = n
      OBVIOUS
    <3>2. IsFiniteSet(1 .. n) /\ Cardinality(1 .. n) = IF 1 > n THEN 0 ELSE n - 1 + 1
      BY FS_Interval
    <3>3. (IF 1 > n THEN 0 ELSE n - 1 + 1) = n
      OBVIOUS
    <3> QED  BY <3>2, <3>3
  <2> QED  BY <1>2, <2>1 DEF Iod!Pages
<1>4. PICK T : T = Iod!Range(list)
  OBVIOUS
<1>5. list \in Surjection(1 .. size, T)
  BY <1>1, <1>4 DEF Iod!Range, Surjection
<1>6. IsFiniteSet(T) /\ Cardinality(T) <= size
  BY <1>3, <1>5, FS_Surjection
<1>7. \E p \in Iod!Pages : p \notin T
  <2>1. SUFFICES ASSUME Iod!Pages \subseteq T PROVE FALSE
    OBVIOUS
  <2>2. Cardinality(Iod!Pages) <= Cardinality(T) /\ Cardinality(T) \in Nat
    BY <1>6, <2>1, FS_Subset, FS_CardinalityType
  <2> QED  BY <1>2, <1>3, <1>6, <2>2
<1>8. Iod!NextPage \in Iod!Pages /\ Iod!NextPage \notin Iod!Range(list)
  BY <1>4, <1>7 DEF Iod!NextPage
<1> QED  BY <1>8 DEF Iod!Range

(* What is freed is all there is, with the right addresses.                *)
LEMMA AllFreed ==
  ASSUME Chained, Counted, odd = FALSE, Iod!FreeIod(npages)
  PROVE  /\ odd' = FALSE /\ list' = <<>> /\ mem' = Iod!Unwritten
<1>1. PICK freed : freed = IF npages < 0 THEN 0 ELSE IF npages = 0 THEN 1 ELSE npages
  OBVIOUS
<1>2. list \in Seq(Iod!Pages) /\ Len(list) \in Nat
  BY DEF Chained
<1>3. freed = Len(list)
  <2>1. CASE npages = -1 /\ list = <<>>
    BY <1>1, <2>1
  <2>2. CASE npages = 0 /\ Len(list) = 1
    BY <1>1, <2>2
  <2>3. CASE npages = Len(list) /\ npages > 0
    BY <1>1, <1>2, <2>3
  <2> QED  BY <2>1, <2>2, <2>3 DEF Counted
<1>4. Iod!ChainOk(freed)
  <2>1. SUFFICES ASSUME NEW k \in 1 .. freed - 1, k < Len(list)
                 PROVE  mem[list[k]][Entries - 1].a = Iod!ListAt(list[k + 1])
    BY DEF Iod!ChainOk
  <2>2. mem[list[k]][Entries - 1] = Iod!Entry(Iod!ListAt(list[k + 1]))
    BY <1>3, <2>1 DEF Chained
  <2> QED  BY <2>2 DEF Iod!Entry
<1>5. ~(freed > Len(list)) /\ ~(freed > 0 /\ list # <<>> /\ firstDma # Iod!ListAt(list[1]))
  BY <1>2, <1>3 DEF Chained
<1>6. /\ odd' = (odd \/ freed > Len(list)
                 \/ (freed > 0 /\ list # <<>> /\ firstDma # Iod!ListAt(list[1])) \/ ~Iod!ChainOk(freed))
      /\ list' = SubSeq(list, freed + 1, Len(list)) /\ mem' = Iod!Unwritten
  BY <1>1 DEF Iod!FreeIod
<1>7. list' = <<>>
  <2>1. list' = SubSeq(list, Len(list) + 1, Len(list))
    BY <1>3, <1>6
  <2> QED  BY <1>2, <2>1
<1> QED  BY <1>4, <1>5, <1>6, <1>7

LEMMA NoneChained ==
  ASSUME list' = <<>>, mem' = Iod!Unwritten, rq' \in Transfers
  PROVE  Chained'
<1>1. list' \in Seq(Iod!Pages) /\ Len(list') = 0
  <2>1. <<>> \in Seq(Iod!Pages)
    OBVIOUS
  <2> QED  BY <2>1
<1>2. DOMAIN mem' = Iod!Pages /\ \A p \in Iod!Pages : DOMAIN mem'[p] = 0 .. Entries - 1
  BY DEF Iod!Unwritten, Iod!ListSlots
<1>3. 0 <= Iod!NvmeNpages(rq')
  <2>1. PICK t \in Transfers : t = rq'
    OBVIOUS
  <2>2. Iod!NvmeNpages(t) \in 1 .. MaxPages
    BY TransferIs
  <2> QED  BY <2>1, <2>2
<1> QED  BY <1>1, <1>2, <1>3 DEF Chained

LEMMA NothingIs == Iod!Nothing \in Transfers
BY IodAssumption DEF Iod!Nothing

LEMMA IodStart ==
  ASSUME Iod!Init
  PROVE  IodInv
<1>1. list = <<>> /\ mem = Iod!Unwritten /\ rq \in Transfers
  BY NothingIs DEF Iod!Init
<1>2. Chained
  <2>1. list \in Seq(Iod!Pages) /\ Len(list) = 0
    <3>1. <<>> \in Seq(Iod!Pages)
      OBVIOUS
    <3> QED  BY <1>1, <3>1
  <2>2. DOMAIN mem = Iod!Pages /\ \A p \in Iod!Pages : DOMAIN mem[p] = 0 .. Entries - 1
    BY <1>1 DEF Iod!Unwritten, Iod!ListSlots
  <2>3. 0 <= Iod!NvmeNpages(rq)
    <3>1. Iod!NvmeNpages(rq) \in 1 .. MaxPages
      BY <1>1, TransferIs
    <3> QED  BY <3>1
  <2> QED  BY <1>1, <2>1, <2>2, <2>3 DEF Chained
<1> QED  BY <1>1, <1>2 DEF Iod!Init, IodInv, Mapped, Built

(* The lists stay as they are: *)
LEMMA ListsKept ==
  ASSUME Chained, UNCHANGED <<list, mem, rq>>, list # <<>> => firstDma' = firstDma
  PROVE  Chained'
BY DEF Chained

LEMMA IodArrives ==
  ASSUME IodInv, Iod!Arrive
  PROVE  IodInv'
<1>1. iodPc = "idle" /\ iodPc' = "setup" /\ rq' \in Transfers
      /\ UNCHANGED <<payload, npages, list, mem, firstDma, nents, prp, maps, suspended, odd>>
  BY DEF Iod!Arrive
<1>2. list = <<>> /\ DOMAIN mem = Iod!Pages /\ \A p \in Iod!Pages : DOMAIN mem[p] = 0 .. Entries - 1
  BY <1>1 DEF IodInv, Chained
<1>3. Chained'
  <2>1. list' \in Seq(Iod!Pages) /\ Len(list') = 0
    BY <1>1, <1>2 DEF IodInv, Chained
  <2>2. 0 <= Iod!NvmeNpages(rq')
    <3>1. PICK t \in Transfers : t = rq'
      BY <1>1
    <3>2. Iod!NvmeNpages(t) \in 1 .. MaxPages
      BY TransferIs
    <3> QED  BY <3>1, <3>2
  <2> QED  BY <1>1, <1>2, <2>1, <2>2 DEF Chained
<1> QED  BY <1>1, <1>2, <1>3 DEF IodInv, Mapped, Built

LEMMA CommandSet ==
  ASSUME IodInv, Iod!SetupCmd
  PROVE  IodInv'
<1>1. iodPc = "setup" /\ iodPc' \in {"iod", "setup"} /\ payload' \in BOOLEAN /\ (iodPc' = "setup" => payload' = payload)
      /\ UNCHANGED <<rq, npages, list, mem, firstDma, nents, maps, suspended, odd>>
  BY DEF Iod!SetupCmd, Iod!Busy, IodInv
<1>2. Chained'
  BY <1>1, ListsKept DEF IodInv
<1> QED  BY <1>1, <1>2 DEF IodInv, Mapped, Built

LEMMA IodInitialised ==
  ASSUME IodInv, Iod!InitIod
  PROVE  IodInv'
<1>1. iodPc = "iod" /\ list = <<>> /\ list' = <<>>
      /\ \/ iodPc' = "map" /\ npages' = -1 /\ payload' = payload
         \/ iodPc' = "setup" /\ payload' = FALSE
      /\ UNCHANGED <<rq, mem, firstDma, maps, suspended, odd>>
  BY DEF Iod!InitIod, Iod!Busy, IodInv
<1>2. Chained'
  BY <1>1, ListsKept DEF IodInv
<1>3. iodPc' = "map" => Counted'
  BY <1>1 DEF Counted
<1> QED  BY <1>1, <1>2, <1>3 DEF IodInv, Mapped, Built

(* The request goes back from where it was mapped or not: all is freed.    *)
LEMMA TurnedBack ==
  ASSUME IodInv, iodPc = "map" \/ Mapped \/ Built, Iod!FreeIod(npages), iodPc' \in {"setup", "ended"},
         payload' = FALSE, rq' = rq, suspended' \in BOOLEAN, suspended' = FALSE => suspended = FALSE /\ maps' = 0
  PROVE  IodInv'
<1>1. Chained /\ Counted /\ odd = FALSE
  BY DEF IodInv
<1>2. odd' = FALSE /\ list' = <<>> /\ mem' = Iod!Unwritten
  BY <1>1, AllFreed
<1>3. Chained'
  BY <1>2, NoneChained DEF IodInv
<1> QED  BY <1>2, <1>3 DEF IodInv, Mapped, Built

LEMMA DataMapped ==
  ASSUME IodInv, Iod!MapData
  PROVE  IodInv'
<1>1. iodPc = "map" /\ npages = -1 /\ Counted /\ UNCHANGED <<rq, suspended>> /\ (suspended = FALSE => maps = 0)
      /\ rq \in Transfers /\ suspended \in BOOLEAN
  BY DEF Iod!MapData, IodInv, Mapped, Built
<1>2. list = <<>>
  BY <1>1 DEF Counted, IodInv, Chained
<1>3. CASE iodPc' \in {"setup", "ended"} /\ Iod!FreeIod(npages) /\ payload' = FALSE /\ maps' = maps
  BY <1>1, <1>3, TurnedBack
<1>4. CASE /\ nents' = Iod!Segments(rq) /\ maps' = maps + 1
           /\ UNCHANGED <<payload, list, odd, npages, mem>>
           /\ \/ iodPc' = "integrity"
              \/ iodPc' = "first" /\ prp'.i = 0 /\ prp'.length = Listed /\ Listed > PageUnits
  <2>1. nents' > 0
    BY <1>1, <1>4, TransferIs
  <2>2. Chained'
    BY <1>1, <1>2, <1>4, ListsKept DEF IodInv
  <2>3. Counted'
    BY <1>1, <1>2, <1>4 DEF Counted
  <2>4. Listed' = Listed /\ Listed \in Int
    BY <1>1, TransferIs, IodAssumption DEF Listed
  <2>5. iodPc' = "first" => prp'.i = 0 /\ prp'.length = Listed' /\ prp'.length > 0
    BY <1>4, <2>4, IodAssumption
  <2> QED  BY <1>1, <1>4, <2>1, <2>2, <2>3, <2>5 DEF IodInv, Mapped, Built
<1>5. rq.len - (PageUnits - rq.off) = Listed /\ Listed \in Int /\ PageUnits \in Int
  BY <1>1, TransferIs, IodAssumption DEF Listed
<1>6. CASE /\ nents' = Iod!Segments(rq) /\ maps' = maps + 1
           /\ IF Listed <= 0
              THEN iodPc' = "integrity"
              ELSE /\ prp'.i = 0 /\ prp'.length = Listed
                   /\ IF Listed <= PageUnits THEN iodPc' = "integrity" ELSE iodPc' = "first"
           /\ UNCHANGED <<payload, list, odd, npages, mem>>
  <2>1. Listed <= 0 \/ Listed <= PageUnits \/ Listed > PageUnits
    BY <1>5
  <2>2. iodPc' = "integrity" \/ (iodPc' = "first" /\ prp'.i = 0 /\ prp'.length = Listed /\ Listed > PageUnits)
    BY <1>6, <2>1
  <2> QED  BY <1>4, <1>6, <2>2
<1>7. \/ Iod!Error /\ Iod!FreeIod(npages) /\ Iod!CleanupCmd /\ maps' = maps
      \/ Iod!Busy /\ Iod!FreeIod(npages) /\ Iod!CleanupCmd /\ maps' = maps
      \/ /\ nents' = Iod!Segments(rq) /\ maps' = maps + 1
         /\ IF Listed <= 0
            THEN iodPc' = "integrity"
            ELSE /\ prp'.i = 0 /\ prp'.length = Listed
                 /\ IF Listed <= PageUnits THEN iodPc' = "integrity" ELSE iodPc' = "first"
         /\ UNCHANGED <<payload, list, odd, npages, mem>>
  BY DEF Iod!MapData, Listed
<1> QED  BY <1>3, <1>6, <1>7 DEF Iod!Busy, Iod!Error, Iod!CleanupCmd

LEMMA ListBegun ==
  ASSUME IodInv, Iod!FirstPage
  PROVE  IodInv'
<1>1. /\ iodPc = "first" /\ npages = -1 /\ list = <<>> /\ UNCHANGED <<rq, nents, suspended>> /\ nents > 0
      /\ rq \in Transfers /\ suspended \in BOOLEAN /\ (suspended = FALSE => maps = 1)
      /\ prp.i = 0 /\ prp.length = Listed /\ prp.length > 0
  <2>1. iodPc = "first" /\ UNCHANGED <<rq, nents, suspended>>
    BY DEF Iod!FirstPage
  <2>2. Counted /\ npages = -1
    BY <2>1 DEF IodInv, Mapped
  <2>3. list = <<>>
    BY <2>2 DEF Counted, IodInv, Chained
  <2> QED  BY <2>1, <2>2, <2>3 DEF IodInv, Mapped, Built
<1>2. CASE Iod!FreeIod(-1) /\ Iod!Unlisted
  <2>1. Iod!FreeIod(npages) /\ iodPc' = "setup" /\ payload' = FALSE /\ maps' = maps - 1
    BY <1>1, <1>2 DEF Iod!Unlisted, Iod!Busy, Iod!CleanupCmd
  <2>2. suspended' = FALSE => suspended = FALSE /\ maps' = 0
    BY <1>1, <2>1
  <2>3. suspended' \in BOOLEAN /\ Mapped /\ rq' = rq /\ iodPc' \in {"setup", "ended"}
    BY <1>1, <2>1 DEF Mapped
  <2> QED  BY <2>1, <2>2, <2>3, TurnedBack
<1>3. CASE /\ list' = <<Iod!NextPage>> /\ firstDma' = Iod!ListAt(Iod!NextPage)
           /\ npages' = IF (prp.length + PageUnits - 1) \div PageUnits <= SmallEntries THEN 0 ELSE 1
           /\ iodPc' = "entries" /\ UNCHANGED <<mem, prp, maps, odd, payload>>
  <2>1. Iod!NextPage \in Iod!Pages
    <3>1. PICK room : room = Iod!NvmeNpages(rq)
      OBVIOUS
    <3>2. room \in 1 .. MaxPages /\ MaxPages \in Nat
      BY <1>1, <3>1, TransferIs, IodAssumption
    <3>3. Len(list) = 0
      BY <1>1
    <3>4. Len(list) < MaxPages
      BY <3>2, <3>3
    <3> QED  BY <3>4, NextPageFree DEF IodInv, Chained
  <2>2. list' \in Seq(Iod!Pages) /\ Len(list') = 1 /\ list'[1] = Iod!NextPage /\ list' # <<>>
    BY <1>3, <2>1
  <2>3. Chained'
    <3>1. 1 <= Iod!NvmeNpages(rq')
      <4>1. Iod!NvmeNpages(rq) \in 1 .. MaxPages
        BY <1>1, TransferIs
      <4> QED  BY <1>1, <4>1
    <3>2. DOMAIN mem' = Iod!Pages /\ \A p \in Iod!Pages : DOMAIN mem'[p] = 0 .. Entries - 1
      BY <1>3 DEF IodInv, Chained
    <3> QED  BY <1>3, <2>2, <3>1, <3>2 DEF Chained
  <2>4. Counted'
    <3>1. npages' = 0 \/ npages' = 1
      BY <1>3
    <3> QED  BY <2>2, <3>1 DEF Counted
  <2>5. Listed' = Listed /\ Listed \in Int
    BY <1>1, TransferIs, IodAssumption DEF Listed
  <2>6. Written' = 0
    <3>1. Written' = (1 - 1) * (Entries - 1) + 0
      BY <1>1, <1>3, <2>2 DEF Written
    <3> QED  BY <3>1, IodAssumption
  <2>7. prp'.i \in 0 .. Entries /\ prp'.length \in Nat \ {0} /\ PageUnits * Written' + prp'.length = Listed'
    <3>1. PageUnits * 0 = 0
      BY IodAssumption
    <3> QED  BY <1>1, <1>3, <2>5, <2>6, <3>1, IodAssumption
  <2>8. npages' = 0 => (Listed' + PageUnits - 1) \div PageUnits <= SmallEntries
    BY <1>1, <1>3, <2>5
  <2> QED  BY <1>1, <1>3, <2>2, <2>3, <2>4, <2>7, <2>8 DEF IodInv, Mapped, Built
<1> QED  BY <1>2, <1>3 DEF Iod!FirstPage

(* One more entry is written, in the last page or in a new one.            *)
LEMMA EntryWritten ==
  ASSUME IodInv, iodPc = "entries", rq' = rq, UNCHANGED <<nents, maps, odd, payload, suspended, firstDma>>,
         NEW more \in BOOLEAN, more <=> prp.length > PageUnits,
         iodPc' = IF more THEN "entries" ELSE "integrity", prp'.length = prp.length - PageUnits,
         Chained', Counted', list' # <<>>, npages' = 0 => npages = 0,
         prp'.i \in 0 .. Entries, Written' = Written + 1
  PROVE  IodInv'
<1>1. /\ prp.length \in Nat \ {0} /\ PageUnits * Written + prp.length = Listed
      /\ (npages = 0 => (Listed + PageUnits - 1) \div PageUnits <= SmallEntries) /\ prp.i \in 0 .. Entries
      /\ list # <<>> /\ Len(list) \in Nat
  BY DEF IodInv, Chained
<1>2. Listed' = Listed
  BY DEF Listed
<1>3. PageUnits * Written' = PageUnits * Written + PageUnits /\ PageUnits * Written \in Int
  <2>1. Written \in Int
    <3>1. (Len(list) - 1) * (Entries - 1) \in Int
      BY <1>1, IodAssumption
    <3> QED  BY <1>1, <3>1 DEF Written
  <2> QED  BY <2>1, IodAssumption
<1>4. more => prp'.length \in Nat \ {0}
  BY <1>1, IodAssumption
<1>5. PageUnits * Written' + prp'.length = Listed'
  BY <1>1, <1>2, <1>3, IodAssumption
<1>6. iodPc' \in {"entries", "integrity"} /\ (iodPc' = "entries" => more)
  OBVIOUS
<1>7. npages' = 0 => (Listed' + PageUnits - 1) \div PageUnits <= SmallEntries
  BY <1>1, <1>2
<1> QED  BY <1>4, <1>5, <1>6, <1>7 DEF IodInv, Mapped, Built

(* A turn of the loop writes an entry behind the others or, when the page  *)
(* is full, into a new one. *)
EntryStep(bad) ==
  /\ prp.i # Entries /\ bad \in Iod!Altered(prp.i) /\ prp'.i = prp.i + 1
  /\ list' = list /\ npages' = npages
  /\ mem' = [mem EXCEPT ![list[Len(list)]][prp.i] = [a |-> prp.addr, bad |-> bad]]

PageStep(bad) ==
  /\ prp.i = Entries /\ bad \in Iod!Altered(1) /\ prp'.i = 2
  /\ list' = Append(list, Iod!NextPage) /\ npages' = npages + 1
  /\ \E page, chained :
       /\ page = Iod!NextPage
       /\ chained = [mem EXCEPT ![page][0] = mem[list[Len(list)]][Entries - 1],
                                ![list[Len(list)]][Entries - 1] = Iod!Entry(Iod!ListAt(page))]
       /\ mem' = [chained EXCEPT ![page][1] = [a |-> prp.addr, bad |-> bad]]

LEMMA EntrySet ==
  ASSUME IodInv, iodPc = "entries", UNCHANGED <<firstDma, rq>>, NEW bad, EntryStep(bad)
  PROVE  /\ Chained' /\ Counted'
         /\ mem'[list[Len(list)]] = [mem[list[Len(list)]] EXCEPT ![prp.i] = [a |-> prp.addr, bad |-> bad]]
         /\ \A p \in Iod!Pages : p # list[Len(list)] => mem'[p] = mem[p]
<1>1. PICK size, old, slot : size = Len(list) /\ old = list[size] /\ slot = prp.i
  OBVIOUS
<1>2. list' = list /\ npages' = npages /\ mem' = [mem EXCEPT ![old][slot] = [a |-> prp.addr, bad |-> bad]]
  BY <1>1 DEF EntryStep
<1>3. size \in Nat \ {0} /\ old \in Iod!Pages /\ list \in Seq(Iod!Pages) /\ prp.i \in 0 .. Entries - 1
  BY <1>1, IodAssumption DEF IodInv, Chained, EntryStep
<1>4. DOMAIN mem = Iod!Pages /\ \A p \in Iod!Pages : DOMAIN mem[p] = 0 .. Entries - 1
  BY DEF IodInv, Chained
<1>5. DOMAIN mem' = Iod!Pages /\ (\A p \in Iod!Pages : DOMAIN mem'[p] = 0 .. Entries - 1)
      /\ (\A p \in Iod!Pages : p # old => mem'[p] = mem[p])
      /\ mem'[old] = [mem[old] EXCEPT ![slot] = [a |-> prp.addr, bad |-> bad]]
  BY <1>1, <1>2, <1>3, <1>4
<1>6. \A k \in 1 .. size - 1 : mem'[list[k]][Entries - 1] = Iod!Entry(Iod!ListAt(list[k + 1]))
  <2>1. SUFFICES ASSUME NEW k \in 1 .. size - 1
                 PROVE  mem'[list[k]][Entries - 1] = Iod!Entry(Iod!ListAt(list[k + 1]))
    OBVIOUS
  <2>2. k \in 1 .. size /\ size \in 1 .. size /\ k # size
    BY <1>3
  <2>3. list[k] \in Iod!Pages /\ list[k] # old
    BY <1>1, <1>3, <2>2 DEF IodInv, Chained
  <2> QED  BY <1>1, <1>2, <1>5, <2>3 DEF IodInv, Chained
<1>7. Chained'
  BY <1>1, <1>2, <1>5, <1>6 DEF IodInv, Chained
<1> QED  BY <1>1, <1>2, <1>5, <1>7 DEF IodInv, Mapped, Counted

(* A full page: the next one is chained to it. *)
LEMMA PageAdded ==
  ASSUME IodInv, iodPc = "entries", UNCHANGED <<firstDma, rq>>, NEW bad, PageStep(bad)
  PROVE  /\ Chained' /\ Counted' /\ npages' # 0 /\ Len(list') = Len(list) + 1
         /\ Iod!NextPage \in Iod!Pages /\ \A k \in 1 .. Len(list) : list[k] # Iod!NextPage
         /\ mem'[Iod!NextPage][0] = mem[list[Len(list)]][Entries - 1]
         /\ mem'[Iod!NextPage][1] = [a |-> prp.addr, bad |-> bad]
         /\ \A k \in 1 .. Len(list), n \in 0 .. Entries - 2 : mem'[list[k]][n] = mem[list[k]][n]
<1>1. PICK size, old, page : size = Len(list) /\ old = list[size] /\ page = Iod!NextPage
  OBVIOUS
<1>2. PICK chained :
        /\ chained = [mem EXCEPT ![page][0] = mem[old][Entries - 1], ![old][Entries - 1] = Iod!Entry(Iod!ListAt(page))]
        /\ mem' = [chained EXCEPT ![page][1] = [a |-> prp.addr, bad |-> bad]]
  BY <1>1 DEF PageStep
<1>3. list' = Append(list, page) /\ npages' = npages + 1 /\ prp.i = Entries
  BY <1>1 DEF PageStep
<1>4. size \in Nat \ {0} /\ old \in Iod!Pages /\ list \in Seq(Iod!Pages) /\ prp.length \in Nat \ {0}
      /\ rq \in Transfers /\ list # <<>>
  BY <1>1 DEF IodInv, Chained
<1>5. PageUnits * ((size - 1) * (Entries - 1) + Entries) + prp.length = rq.len - (PageUnits - rq.off)
  BY <1>1, <1>3 DEF IodInv, Written, Listed
<1>6. PICK room, left : room = Iod!NvmeNpages(rq) /\ left = prp.length
  OBVIOUS
<1>7. room \in 1 .. MaxPages /\ size + 1 <= room
      /\ (size = 1 => (Listed + PageUnits - 1) \div PageUnits > SmallEntries)
  BY <1>4, <1>5, <1>6, RoomForMore, TransferIs DEF Listed
<1>8. npages = size
  <2>1. SUFFICES ASSUME npages = 0, size = 1 PROVE FALSE
    BY <1>1, <1>4 DEF IodInv, Mapped, Counted
  <2>2. PICK q : q = (Listed + PageUnits - 1) \div PageUnits
    OBVIOUS
  <2>3. q <= SmallEntries /\ q > SmallEntries
    BY <1>7, <2>1, <2>2 DEF IodInv
  <2>4. q \in Int /\ SmallEntries \in Int
    <3>1. rq.len \in Nat /\ rq.off \in 0 .. PageUnits - 1
      BY <1>4, TransferIs
    <3>2. PageUnits \in Nat \ {0}
      BY IodAssumption
    <3>3. Listed \in Int
      BY <3>1, <3>2 DEF Listed
    <3> QED  BY <2>2, <3>2, <3>3, IodAssumption
  <2> QED  BY <2>3, <2>4
<1>9. page \in Iod!Pages /\ \A k \in 1 .. size : list[k] # page
  <2>1. Len(list) < MaxPages
    BY <1>1, <1>4, <1>7, IodAssumption
  <2> QED  BY <1>1, <1>4, <2>1, NextPageFree
<1>10. page # old
  <2>1. size \in 1 .. size
    BY <1>4
  <2> QED  BY <1>1, <1>9, <2>1
<1>11. DOMAIN mem = Iod!Pages /\ \A p \in Iod!Pages : DOMAIN mem[p] = 0 .. Entries - 1
  BY DEF IodInv, Chained
<1>12. /\ DOMAIN mem' = Iod!Pages /\ \A p \in Iod!Pages : DOMAIN mem'[p] = 0 .. Entries - 1
       /\ \A p \in Iod!Pages : p # old /\ p # page => mem'[p] = mem[p]
       /\ mem'[old][Entries - 1] = Iod!Entry(Iod!ListAt(page))
       /\ mem'[page][0] = mem[old][Entries - 1] /\ mem'[page][1] = [a |-> prp.addr, bad |-> bad]
       /\ \A n \in 0 .. Entries - 2 : mem'[old][n] = mem[old][n]
  <2>1. PICK first, link : first = mem[old][Entries - 1] /\ link = Iod!Entry(Iod!ListAt(page))
    OBVIOUS
  <2>3. /\ mem' = [chained EXCEPT ![page][1] = [a |-> prp.addr, bad |-> bad]]
        /\ chained = [mem EXCEPT ![page][0] = first, ![old][Entries - 1] = link]
    BY <1>2, <2>1
  <2>4. Entries - 1 \in 0 .. Entries - 1
    BY IodAssumption
  <2>5. PICK o, cell : o = mem[old] /\ cell = [a |-> prp.addr, bad |-> bad]
    OBVIOUS
  <2>6. DOMAIN mem' = Iod!Pages
    BY <1>11, <2>3
  <2>7. mem'[old] = [o EXCEPT ![Entries - 1] = link]
    BY <1>4, <1>9, <1>10, <1>11, <2>3, <2>5
  <2>8. chained[page] = [mem[page] EXCEPT ![0] = first] /\ mem'[page] = [chained[page] EXCEPT ![1] = cell]
    <3>1. DOMAIN chained = Iod!Pages
      BY <1>11, <2>3
    <3>2. chained[page] = [mem[page] EXCEPT ![0] = first]
      BY <1>4, <1>9, <1>10, <1>11, <2>3
    <3> QED  BY <1>9, <2>3, <2>5, <3>1, <3>2
  <2>9. \A p \in Iod!Pages : p # old /\ p # page => mem'[p] = mem[p]
    BY <1>11, <2>3
  <2>10. DOMAIN o = 0 .. Entries - 1 /\ DOMAIN mem[page] = 0 .. Entries - 1
    BY <1>4, <1>9, <1>11, <2>5
  <2>11. mem'[old][Entries - 1] = link /\ DOMAIN mem'[old] = 0 .. Entries - 1
    BY <2>4, <2>7, <2>10
  <2>12. DOMAIN mem'[page] = 0 .. Entries - 1
    BY <2>8, <2>10
  <2>13. mem'[page][0] = first /\ mem'[page][1] = cell
    <3>1. 0 \in 0 .. Entries - 1 /\ 1 \in 0 .. Entries - 1
      BY IodAssumption
    <3>2. PICK blank, linked, full : blank = mem[page] /\ linked = chained[page] /\ full = mem'[page]
      OBVIOUS
    <3>3. linked = [blank EXCEPT ![0] = first] /\ full = [linked EXCEPT ![1] = cell] /\ DOMAIN blank = 0 .. Entries - 1
      BY <2>8, <2>10, <3>2
    <3>4. linked[0] = first /\ DOMAIN linked = 0 .. Entries - 1
      BY <3>1, <3>3
    <3>5. full[0] = first /\ full[1] = cell
      BY <3>1, <3>3, <3>4
    <3> QED  BY <3>2, <3>5
  <2>14. \A n \in 0 .. Entries - 2 : mem'[old][n] = o[n]
    <3>1. \A n \in 0 .. Entries - 2 : n \in 0 .. Entries - 1 /\ n # Entries - 1
      BY IodAssumption
    <3> QED  BY <2>7, <2>10, <3>1
  <2> QED  BY <1>11, <2>1, <2>5, <2>6, <2>9, <2>11, <2>12, <2>13, <2>14
<1>13. /\ list' \in Seq(Iod!Pages) /\ Len(list') = size + 1 /\ list'[size + 1] = page
       /\ \A k \in 1 .. size : list'[k] = list[k]
  BY <1>1, <1>3, <1>4, <1>9, AppendProperties
<1>14. \A k, l \in 1 .. size + 1 : k # l => list'[k] # list'[l]
  <2>1. \A k \in 1 .. size + 1 : k \in 1 .. size \/ k = size + 1
    BY <1>4
  <2> QED  BY <1>1, <1>9, <1>13, <2>1 DEF IodInv, Chained
<1>15. \A k \in 1 .. size : mem'[list'[k]][Entries - 1] = Iod!Entry(Iod!ListAt(list'[k + 1]))
  <2>1. SUFFICES ASSUME NEW k \in 1 .. size
                 PROVE  mem'[list'[k]][Entries - 1] = Iod!Entry(Iod!ListAt(list'[k + 1]))
    OBVIOUS
  <2>2. CASE k = size
    BY <1>1, <1>12, <1>13, <2>1, <2>2
  <2>3. CASE k # size
    <3>1. k \in 1 .. size - 1 /\ size \in 1 .. size /\ k + 1 \in 1 .. size
      BY <1>4, <2>3
    <3>2. list[k] \in Iod!Pages /\ list[k] # old /\ list[k] # page
      BY <1>1, <1>4, <1>9, <2>3, <3>1 DEF IodInv, Chained
    <3>3. mem'[list[k]] = mem[list[k]] /\ list'[k] = list[k] /\ list'[k + 1] = list[k + 1]
      BY <1>12, <1>13, <3>1, <3>2
    <3> QED  BY <1>1, <3>1, <3>3 DEF IodInv, Chained
  <2> QED  BY <2>2, <2>3
<1>16. list' # <<>> /\ list'[1] = list[1] /\ Iod!NvmeNpages(rq') = room
  <2>1. 1 \in 1 .. size
    BY <1>4
  <2> QED  BY <1>4, <1>6, <1>13, <2>1
<1>17. Chained'
  <2>1. Len(list') <= Iod!NvmeNpages(rq') /\ 1 .. Len(list') = 1 .. size + 1 /\ 1 .. Len(list') - 1 = 1 .. size
    BY <1>4, <1>7, <1>13, <1>16
  <2>2. firstDma' = Iod!ListAt(list'[1])
    BY <1>4, <1>16 DEF IodInv, Chained
  <2>3. \A k, l \in 1 .. Len(list') : k # l => list'[k] # list'[l]
    <3>1. PICK whole : whole = 1 .. Len(list')
      OBVIOUS
    <3>2. whole = 1 .. size + 1
      BY <2>1, <3>1
    <3>3. \A k, l \in whole : k # l => list'[k] # list'[l]
      BY <1>14, <3>2
    <3> QED  BY <3>1, <3>3
  <2>4. \A k \in 1 .. Len(list') - 1 : mem'[list'[k]][Entries - 1] = Iod!Entry(Iod!ListAt(list'[k + 1]))
    BY <1>15, <2>1
  <2>5. \A p \in Iod!Pages : DOMAIN mem'[p] = 0 .. Entries - 1
    BY <1>12
  <2>6. DOMAIN mem' = Iod!Pages /\ list' \in Seq(Iod!Pages) /\ Len(list') <= Iod!NvmeNpages(rq')
    BY <1>12, <1>13, <2>1
  <2> QED  BY <2>2, <2>3, <2>4, <2>5, <2>6 DEF Chained
<1>18. Counted'
  <2>1. npages' = Len(list') /\ npages' > 0
    BY <1>3, <1>4, <1>8, <1>13
  <2> QED  BY <2>1 DEF Counted
<1>19. \A k \in 1 .. size, n \in 0 .. Entries - 2 : mem'[list[k]][n] = mem[list[k]][n]
  <2>1. SUFFICES ASSUME NEW k \in 1 .. size, NEW n \in 0 .. Entries - 2
                 PROVE  mem'[list[k]][n] = mem[list[k]][n]
    OBVIOUS
  <2>2. list[k] \in Iod!Pages /\ list[k] # page
    BY <1>1, <1>4, <1>9
  <2> QED  BY <1>12, <2>2
<1>20. Len(list') = Len(list) + 1 /\ npages' # 0
  BY <1>1, <1>3, <1>4, <1>8, <1>13
<1> QED  BY <1>1, <1>9, <1>12, <1>17, <1>18, <1>19, <1>20

(* The loop goes on to the next page of the transfer.                      *)
NextInSegment ==
  /\ prp'.sg = prp.sg /\ prp'.addr = <<prp.addr[1], prp.addr[2] + PageUnits>>
  /\ prp'.dmaLen = prp.dmaLen - PageUnits
NextSegment ==
  /\ prp'.sg = prp.sg + 1 /\ prp'.addr = Iod!SegAddr(rq, prp.sg + 1)
  /\ prp'.dmaLen = Iod!SegLen(rq, prp.sg + 1)

GoesOn ==
  /\ prp'.length = prp.length - PageUnits
  /\ iodPc' = IF prp.length > PageUnits THEN "entries" ELSE "integrity"
  /\ IF prp.length > PageUnits /\ prp.dmaLen - PageUnits <= 0 THEN NextSegment ELSE NextInSegment
  /\ UNCHANGED <<maps, odd, payload>>

LEMMA TurnOfLoop ==
  ASSUME Iod!SetupPrps, ~(Iod!FreeIod(npages) /\ Iod!Unlisted)
  PROVE  GoesOn /\ \E bad : EntryStep(bad) \/ PageStep(bad)
<1>1. PICK page, slot : /\ page = IF prp.i = Entries THEN Iod!NextPage ELSE list[Len(list)]
                        /\ slot = IF prp.i = Entries THEN 1 ELSE prp.i
  OBVIOUS
<1>2. PICK chained : chained = IF prp.i = Entries
                               THEN [mem EXCEPT ![page][0] = mem[list[Len(list)]][Entries - 1],
                                                ![list[Len(list)]][Entries - 1] = Iod!Entry(Iod!ListAt(page))]
                               ELSE mem
  OBVIOUS
<1>3. PICK bad \in Iod!Altered(slot) : mem' = [chained EXCEPT ![page][slot] = [a |-> prp.addr, bad |-> bad]]
  <2> DEFINE Old == list[Len(list)]
             New == IF prp.i = Entries THEN Iod!NextPage ELSE list[Len(list)]
             Place == IF prp.i = Entries THEN 1 ELSE prp.i
             Linked == IF prp.i = Entries
                       THEN [mem EXCEPT ![New][0] = mem[Old][Entries - 1],
                                        ![Old][Entries - 1] = Iod!Entry(Iod!ListAt(New))]
                       ELSE mem
  <2>1. PICK bad \in Iod!Altered(Place) : mem' = [Linked EXCEPT ![New][Place] = [a |-> prp.addr, bad |-> bad]]
    BY DEF Iod!SetupPrps
  <2>2. page = New /\ slot = Place
    BY <1>1
  <2>3. chained = Linked
    BY <1>2, <2>2
  <2> HIDE DEF Old, New, Place, Linked
  <2> QED  BY <2>1, <2>2, <2>3
<1>4. PICK on \in BOOLEAN : on <=> prp.length > PageUnits /\ prp.dmaLen - PageUnits <= 0
  <2>1. (prp.length > PageUnits /\ prp.dmaLen - PageUnits <= 0) \in BOOLEAN
    OBVIOUS
  <2> QED  BY <2>1
<1>5. prp' = [sg |-> IF on THEN prp.sg + 1 ELSE prp.sg,
              addr |-> IF on THEN Iod!SegAddr(rq, prp.sg + 1) ELSE <<prp.addr[1], prp.addr[2] + PageUnits>>,
              dmaLen |-> IF on THEN Iod!SegLen(rq, prp.sg + 1) ELSE prp.dmaLen - PageUnits,
              length |-> prp.length - PageUnits, i |-> (IF prp.i = Entries THEN 1 ELSE prp.i) + 1]
  BY <1>4, Zenon DEF Iod!SetupPrps
<1>6. prp'.length = prp.length - PageUnits /\ prp'.i = slot + 1 /\ (IF on THEN NextSegment ELSE NextInSegment)
  <2>1. CASE on
    BY <1>1, <1>5, <2>1 DEF NextSegment
  <2>2. CASE ~on
    BY <1>1, <1>5, <2>2 DEF NextInSegment
  <2> QED  BY <2>1, <2>2
<1>7. /\ list' = IF prp.i = Entries THEN Append(list, page) ELSE list
      /\ npages' = IF prp.i = Entries THEN npages + 1 ELSE npages
      /\ iodPc' = IF prp.length > PageUnits THEN "entries" ELSE "integrity"
      /\ UNCHANGED <<maps, odd, payload>>
  BY <1>1, Zenon DEF Iod!SetupPrps
<1>8. GoesOn
  BY <1>4, <1>6, <1>7 DEF GoesOn
<1>9. CASE prp.i # Entries
  <2>1. page = list[Len(list)] /\ slot = prp.i /\ chained = mem
    BY <1>1, <1>2, <1>9
  <2>2. EntryStep(bad)
    BY <1>3, <1>6, <1>7, <1>9, <2>1 DEF EntryStep
  <2> QED  BY <1>8, <2>2
<1>10. CASE prp.i = Entries
  <2>1. /\ page = Iod!NextPage /\ slot = 1
        /\ chained = [mem EXCEPT ![page][0] = mem[list[Len(list)]][Entries - 1],
                                 ![list[Len(list)]][Entries - 1] = Iod!Entry(Iod!ListAt(page))]
    BY <1>1, <1>2, <1>10
  <2>2. mem' = [chained EXCEPT ![page][1] = [a |-> prp.addr, bad |-> bad]] /\ prp'.i = 2
        /\ bad \in Iod!Altered(1)
    BY <1>3, <1>6, <2>1
  <2>3. list' = Append(list, Iod!NextPage) /\ npages' = npages + 1
    BY <1>7, <1>10, <2>1
  <2>4. PageStep(bad)
    BY <1>10, <2>1, <2>2, <2>3 DEF PageStep
  <2> QED  BY <1>8, <2>4
<1> QED  BY <1>9, <1>10

LEMMA PrpsSet ==
  ASSUME IodInv, Iod!SetupPrps
  PROVE  IodInv'
<1>1. /\ iodPc = "entries" /\ rq \in Transfers /\ suspended \in BOOLEAN /\ (suspended = FALSE => maps = 1)
      /\ UNCHANGED <<rq, firstDma, nents, suspended>> /\ Mapped
  BY DEF Iod!SetupPrps, IodInv, Mapped, Built
<1>2. PICK more \in BOOLEAN : more <=> prp.length > PageUnits
  <2>1. (prp.length > PageUnits) \in BOOLEAN
    OBVIOUS
  <2> QED  BY <2>1
<1>3. CASE Iod!FreeIod(npages) /\ Iod!Unlisted
  <2>1. Iod!FreeIod(npages) /\ iodPc' = "setup" /\ payload' = FALSE /\ maps' = maps - 1
    BY <1>3 DEF Iod!Unlisted, Iod!Busy, Iod!CleanupCmd
  <2>2. suspended' = FALSE => suspended = FALSE /\ maps' = 0
    BY <1>1, <2>1
  <2>3. suspended' \in BOOLEAN /\ rq' = rq /\ iodPc' \in {"setup", "ended"}
    BY <1>1, <2>1
  <2> QED  BY <1>1, <2>1, <2>2, <2>3, TurnedBack
<1>4. /\ list # <<>> /\ Len(list) \in Nat \ {0} /\ prp.i \in 0 .. Entries
      /\ Entries \in Nat /\ Entries >= 2
  BY <1>1, IodAssumption DEF IodInv, Chained
<1>5. SUFFICES ASSUME NEW bad, EntryStep(bad) \/ PageStep(bad), GoesOn PROVE IodInv'
  BY <1>3, TurnOfLoop
<1>6. prp'.length = prp.length - PageUnits /\ iodPc' = (IF more THEN "entries" ELSE "integrity")
      /\ UNCHANGED <<maps, odd, payload>>
  BY <1>2, <1>5 DEF GoesOn
<1>7. CASE EntryStep(bad)
  <2>1. Chained' /\ Counted'
    BY <1>1, <1>7, EntrySet
  <2>2. prp'.i \in 0 .. Entries /\ list' = list /\ npages' = npages /\ prp'.i = prp.i + 1
    BY <1>4, <1>7 DEF EntryStep
  <2>3. Written' = Written + 1
    <3>1. PICK before : before = (Len(list) - 1) * (Entries - 1)
      OBVIOUS
    <3>2. before \in Int
      BY <1>4, <3>1
    <3>3. Written = before + prp.i /\ Written' = before + (prp.i + 1)
      BY <2>2, <3>1 DEF Written
    <3> QED  BY <1>4, <3>2, <3>3
  <2> QED  BY <1>1, <1>2, <1>4, <1>6, <2>1, <2>2, <2>3, EntryWritten
<1>8. CASE PageStep(bad)
  <2>1. prp.i = Entries /\ prp'.i = 2
    BY <1>8 DEF PageStep
  <2>2. Chained' /\ Counted' /\ npages' # 0 /\ Len(list') = Len(list) + 1
    BY <1>1, <1>8, PageAdded
  <2>3. prp'.i \in 0 .. Entries /\ list' # <<>>
    <3>1. Len(list') # 0
      BY <1>4, <2>2
    <3>2. list' # <<>>
      BY <3>1
    <3> QED  BY <1>4, <2>1, <3>2
  <2>4. Written' = Written + 1
    <3>1. PICK size, e : size = Len(list) /\ e = Entries - 1
      OBVIOUS
    <3>2. size \in Nat /\ e \in Nat /\ Entries = e + 1
      BY <1>4, <3>1
    <3>3. Written = (size - 1) * e + (e + 1) /\ Written' = (size + 1 - 1) * e + 2
      BY <2>1, <2>2, <3>1, <3>2 DEF Written
    <3>4. (size - 1) * e = size * e - e /\ (size + 1 - 1) * e = size * e /\ size * e \in Nat
      BY <3>2
    <3> QED  BY <3>2, <3>3, <3>4
  <2> QED  BY <1>1, <1>2, <1>6, <2>2, <2>3, <2>4, EntryWritten
<1> QED  BY <1>5, <1>7, <1>8

LEMMA IntegrityMapped ==
  ASSUME IodInv, Iod!MapIntegrity
  PROVE  IodInv'
<1>1. /\ iodPc = "integrity" /\ Mapped /\ rq \in Transfers /\ rq.pi \in BOOLEAN /\ suspended \in BOOLEAN
      /\ (suspended = FALSE => maps = 1) /\ UNCHANGED <<rq, npages, firstDma, nents, suspended>>
      /\ Chained /\ Counted /\ nents > 0
  BY TransferIs DEF Iod!MapIntegrity, IodInv, Mapped, Built
<1>2. CASE /\ maps' = maps + (IF rq.pi THEN 1 ELSE 0) /\ iodPc' = "inject"
           /\ UNCHANGED <<list, mem, odd, payload>>
  <2>1. Chained' /\ Counted'
    BY <1>1, <1>2, ListsKept DEF Counted
  <2>2. suspended' = FALSE => maps' = IF rq'.pi THEN 2 ELSE 1
    BY <1>1, <1>2
  <2> QED  BY <1>1, <1>2, <2>1, <2>2 DEF IodInv, Mapped, Built
<1>3. CASE Iod!Error /\ Iod!FreeIod(npages) /\ Iod!CleanupCmd /\ maps' = maps - 1
  <2>1. suspended' = FALSE => suspended = FALSE /\ maps' = 0
    BY <1>1, <1>3
  <2>2. suspended' \in BOOLEAN /\ payload' = FALSE /\ rq' = rq /\ iodPc' \in {"setup", "ended"}
    BY <1>1, <1>3 DEF Iod!Error, Iod!CleanupCmd
  <2> QED  BY <1>1, <1>3, <2>1, <2>2, TurnedBack
<1> QED  BY <1>2, <1>3 DEF Iod!MapIntegrity

LEMMA ErrorInjected ==
  ASSUME IodInv, Iod!InjectError
  PROVE  IodInv'
<1>1. iodPc = "inject" /\ iodPc' = "submit"
      /\ UNCHANGED <<rq, payload, npages, list, mem, firstDma, nents, maps, suspended, odd>>
  BY DEF Iod!InjectError
<1>2. Chained' /\ Counted'
  BY <1>1, ListsKept DEF IodInv, Built, Counted
<1> QED  BY <1>1, <1>2 DEF IodInv, Mapped, Built

LEMMA Submitted ==
  ASSUME IodInv, Iod!Submit
  PROVE  IodInv'
<1>1. iodPc = "submit" /\ Built /\ Counted /\ UNCHANGED <<rq, npages, firstDma, nents, maps>>
  BY DEF Iod!Submit, IodInv, Built
<1>2. CASE iodPc' = "sent" /\ UNCHANGED <<list, mem, odd, payload, suspended>>
  <2>1. Chained' /\ Counted'
    BY <1>1, <1>2, ListsKept DEF IodInv, Counted
  <2> QED  BY <1>1, <1>2, <2>1 DEF IodInv, Mapped, Built
<1>3. CASE iodPc' \in {"setup", "ended"} /\ Iod!FreeIod(npages) /\ payload' = FALSE /\ suspended' = TRUE
  <2>1. suspended' \in BOOLEAN /\ suspended' # FALSE
    BY <1>3
  <2> QED  BY <1>1, <1>3, <2>1, TurnedBack
<1> QED  BY <1>2, <1>3 DEF Iod!Submit, Iod!Error, Iod!Busy, Iod!CleanupCmd

LEMMA Completed ==
  ASSUME IodInv, Iod!Complete
  PROVE  IodInv'
<1>1. /\ iodPc = "sent" /\ Built /\ nents > 0 /\ rq \in Transfers /\ rq.pi \in BOOLEAN /\ suspended \in BOOLEAN
      /\ (suspended = FALSE => maps = IF rq.pi THEN 2 ELSE 1) /\ UNCHANGED <<rq, suspended>>
      /\ maps' = maps - (IF nents > 0 THEN (IF rq.pi THEN 2 ELSE 1) ELSE 0)
      /\ Iod!FreeIod(npages) /\ payload' = FALSE /\ iodPc' \in {"setup", "ended"}
  BY TransferIs DEF Iod!Complete, IodInv, Mapped, Built, Iod!CleanupCmd, Iod!Busy
<1>2. suspended' = FALSE => suspended = FALSE /\ maps' = 0
  BY <1>1
<1> QED  BY <1>1, <1>2, TurnedBack

LEMMA TagReturned ==
  ASSUME IodInv, Iod!Return
  PROVE  IodInv'
<1>1. iodPc = "ended" /\ iodPc' = "idle" /\ rq' = Iod!Nothing
      /\ UNCHANGED <<payload, list, mem, maps, suspended, odd>>
  BY DEF Iod!Return
<1>2. rq' \in Transfers
  BY <1>1, NothingIs
<1>3. list = <<>> /\ DOMAIN mem = Iod!Pages /\ \A p \in Iod!Pages : DOMAIN mem[p] = 0 .. Entries - 1
  BY <1>1 DEF IodInv, Chained
<1>4. Chained'
  <2>1. list' \in Seq(Iod!Pages) /\ Len(list') = 0
    BY <1>1, <1>3 DEF IodInv, Chained
  <2>2. 0 <= Iod!NvmeNpages(rq')
    <3>1. PICK t \in Transfers : t = rq'
      BY <1>2
    <3>2. Iod!NvmeNpages(t) \in 1 .. MaxPages
      BY TransferIs
    <3> QED  BY <3>1, <3>2
  <2> QED  BY <1>1, <1>3, <2>1, <2>2 DEF Chained
<1> QED  BY <1>1, <1>2, <1>3, <1>4 DEF IodInv, Mapped, Built

LEMMA IodStep ==
  ASSUME IodInv, [Iod!Next]_(Iod!vars)
  PROVE  IodInv'
<1>1. CASE UNCHANGED Iod!vars
  <2>1. Chained' /\ (Counted => Counted')
    BY <1>1, ListsKept DEF IodInv, Iod!vars, Counted
  <2>2. Listed' = Listed /\ Written' = Written
    BY <1>1 DEF Iod!vars, Listed, Written
  <2> QED  BY <1>1, <2>1, <2>2 DEF Iod!vars, IodInv, Mapped, Built
<1> QED  BY <1>1, IodArrives, CommandSet, IodInitialised, DataMapped, ListBegun, PrpsSet, IntegrityMapped,
            ErrorInjected, Submitted, Completed, TagReturned DEF Iod!Next

(* Theorem: whatever the length of a request, the number of its segments   *)
(* and the moment at which an allocation fails, the lists go back whole    *)
(* and with their own addresses (nvme_free_iod), their pointers fit where  *)
(* nvme_npages made room, and nothing stays mapped unless a suspended      *)
(* queue turned a request back.                                            *)
THEOREM ListsGiven == ComponentsSpec => []GivesBack
<1>1. IodInv => GivesBack
  BY DEF IodInv, Mapped, Built, Chained, Iod!GivesBack, GivesBack
<1> QED  BY <1>1, IodStart, IodStep, IodPart, PTL

-----------------------------------------------------------------------------
(* What the device finds.  While the entries are written, the locals of    *)
(* nvme_setup_prps stand at the page of the transfer that comes next;      *)
Stands(at, t, p) ==
  /\ at.sg \in 1 .. Iod!Segments(t) /\ t.starts[at.sg] <= p
  /\ at.sg < Iod!Segments(t) => p < t.starts[at.sg + 1]
  /\ at.addr = <<at.sg, (p - t.starts[at.sg]) * PageUnits>>
  /\ at.dmaLen = Iod!SegEnd(t, at.sg) - p * PageUnits
AtPage(p) == Stands(prp, rq, p)

(* entry k is for page k of the transfer, page 0 being in the command, and *)
(* has an error as asked;                                                  *)
NoErrors == rq.kind = "admin" \/ (~Iod!IsUser /\ kwCmd = "null")
ErrorAt(k) == rq.kind = "user" /\ rq.error = "entry" /\ rq.index < Entries /\ k = rq.index + 1
EntryRight(k, e) ==
  /\ e.a = Iod!PageAddr(rq, k)
  /\ NoErrors => e.bad = FALSE
  /\ ErrorAt(k) => e.bad = TRUE

(* and the entries lie one after the other, but for those of each list     *)
(* that lead to the next one.                                              *)
Nth(q, s) == (q - 1) * (Entries - 1) + s + 1
Laid ==
  \A q \in 1 .. Len(list), s \in 0 .. Entries - 1 :
    (q < Len(list) => s < Entries - 1) /\ (q = Len(list) => s < prp.i) => EntryRight(Nth(q, s), mem[list[q]][s])

ListsWhole ==
  /\ list # <<>> /\ Laid /\ prp.i \in 1 .. Entries /\ (Len(list) > 1 => prp.i >= 2)
  /\ Written = Iod!PagesOf(rq) - 1

Command(bad1, bad2) ==
  [prp1 |-> [a |-> Iod!SegAddr(rq, 1), bad |-> bad1], prp2 |-> [a |-> firstDma, bad |-> bad2]]

ReadsInv ==
  /\ kwCmd \in {"null", "own", "stale"} /\ (iodPc # "idle" /\ Iod!IsUser => kwCmd = "own")
  /\ iodPc \in {"first", "entries"} => Listed > PageUnits
  /\ iodPc = "first" => AtPage(1)
  /\ iodPc = "entries" => Laid /\ AtPage(Written + 1) /\ (Len(list) > 1 => prp.i >= 2)
  /\ iodPc = "integrity" \/ Built =>
       /\ Listed > PageUnits => ListsWhole
       /\ Listed \in 1 .. PageUnits => firstDma = Iod!PageAddr(rq, 1)
  /\ iodPc = "inject" => cmnd = Command(FALSE, FALSE)
  /\ iodPc \in {"submit", "sent"} =>
       cmnd = IF rq.kind = "admin" THEN Command(FALSE, FALSE) ELSE Command(rq.error = "prp1", rq.error = "prp2")
  /\ Built /\ rq.pi /\ rq.write => tags = "disk"

(* The segments of a transfer, in order.                                   *)
LEMMA TransferShape ==
  ASSUME NEW t \in Transfers
  PROVE  /\ Iod!Segments(t) \in Nat \ {0} /\ t.starts[1] = 0
         /\ \A s \in 1 .. Iod!Segments(t) : t.starts[s] \in Nat
         /\ \A r, s \in 1 .. Iod!Segments(t) : r < s => t.starts[r] < t.starts[s]
         /\ t.starts[Iod!Segments(t)] * PageUnits < t.off + t.len
         /\ t.off \in Nat /\ t.len \in Nat /\ t.off < PageUnits /\ PageUnits \in Nat \ {0}
<1>1. t \in Iod!Transfer /\ Iod!WellFormed(t) /\ PageUnits \in Nat \ {0}
  BY IodAssumption
<1>2. t.starts \in Seq(Nat) /\ t.starts # <<>> /\ t.off \in 0 .. PageUnits - 1 /\ t.len \in Nat
  BY <1>1 DEF Iod!Transfer, Iod!WellFormed
<1>3. Len(t.starts) \in Nat \ {0} /\ \A s \in 1 .. Len(t.starts) : t.starts[s] \in Nat
  BY <1>2
<1> QED  BY <1>1, <1>2, <1>3 DEF Iod!WellFormed, Iod!Segments

(* A page is in one segment.                                               *)
LEMMA SegmentIs ==
  ASSUME NEW t \in Transfers, NEW p \in Nat, NEW s \in 1 .. Iod!Segments(t), t.starts[s] <= p,
         s < Iod!Segments(t) => p < t.starts[s + 1]
  PROVE  Iod!SegmentOf(t, p) = s
<1>1. PICK n : n = Iod!Segments(t)
  OBVIOUS
<1>2. n \in Nat \ {0} /\ (\A z \in 1 .. n : t.starts[z] \in Nat)
      /\ \A y, z \in 1 .. n : y < z => t.starts[y] < t.starts[z]
  BY <1>1, TransferShape
<1>3. \A z \in 1 .. n : t.starts[z] <= p /\ (z < n => p < t.starts[z + 1]) => z = s
  <2>1. SUFFICES ASSUME NEW z \in 1 .. n, t.starts[z] <= p, z < n => p < t.starts[z + 1], z # s
                 PROVE  FALSE
    OBVIOUS
  <2>2. CASE z < s
    <3>1. z + 1 \in 1 .. n /\ z < n /\ (z + 1 = s \/ z + 1 < s)
      BY <1>1, <1>2, <2>2
    <3>2. t.starts[z + 1] <= t.starts[s]
      BY <1>1, <1>2, <3>1
    <3> QED  BY <1>1, <1>2, <2>1, <3>1, <3>2
  <2>3. CASE s < z
    <3>1. s + 1 \in 1 .. n /\ s < n /\ (s + 1 = z \/ s + 1 < z)
      BY <1>1, <1>2, <2>3
    <3>2. t.starts[s + 1] <= t.starts[z]
      BY <1>2, <3>1
    <3> QED  BY <1>1, <1>2, <2>1, <3>1, <3>2
  <2> QED  BY <1>1, <1>2, <2>1, <2>2, <2>3
<1> QED  BY <1>1, <1>3 DEF Iod!SegmentOf

LEMMA PageOfSegment ==
  ASSUME NEW t \in Transfers, NEW at, NEW p \in Nat \ {0}, Stands(at, t, p)
  PROVE  at.addr = Iod!PageAddr(t, p)
<1>1. PICK s \in 1 .. Iod!Segments(t) : s = at.sg
  BY DEF Stands
<1>2. Iod!SegmentOf(t, p) = s
  BY <1>1, SegmentIs DEF Stands
<1>3. PICK far : far = (p - t.starts[s]) * PageUnits
  OBVIOUS
<1>4. far \in Int /\ far + 0 = far
  <2>1. t.starts[s] \in Nat /\ PageUnits \in Nat
    BY TransferShape
  <2> QED  BY <1>3, <2>1
<1>5. Iod!PageAddr(t, p) = <<s, far + 0>>
  BY <1>2, <1>3 DEF Iod!PageAddr
<1> QED  BY <1>1, <1>3, <1>4, <1>5 DEF Stands

LEMMA FirstPageAt ==
  ASSUME NEW t \in Transfers
  PROVE  Iod!PageAddr(t, 0) = Iod!SegAddr(t, 1)
<1>1. /\ Iod!Segments(t) \in Nat \ {0} /\ t.starts[1] = 0 /\ t.off \in Nat /\ PageUnits \in Nat
      /\ \A z \in 1 .. Iod!Segments(t) : t.starts[z] \in Nat
      /\ \A y, z \in 1 .. Iod!Segments(t) : y < z => t.starts[y] < t.starts[z]
  BY TransferShape
<1>2. 1 \in 1 .. Iod!Segments(t)
  BY <1>1
<1>3. 1 < Iod!Segments(t) => 0 < t.starts[1 + 1]
  <2>1. SUFFICES ASSUME 1 < Iod!Segments(t) PROVE 0 < t.starts[1 + 1]
    OBVIOUS
  <2>2. 1 + 1 \in 1 .. Iod!Segments(t) /\ 1 < 1 + 1
    BY <1>1, <2>1
  <2> QED  BY <1>1, <1>2, <2>2
<1>4. Iod!SegmentOf(t, 0) = 1
  BY <1>1, <1>2, <1>3, SegmentIs
<1>5. (0 - t.starts[1]) * PageUnits + t.off = t.off
  BY <1>1
<1>6. Iod!PageAddr(t, 0) = <<1, (0 - t.starts[1]) * PageUnits + t.off>>
  BY <1>4 DEF Iod!PageAddr
<1> QED  BY <1>5, <1>6 DEF Iod!SegAddr

(* How many pages there are.                                               *)
LEMMA PagesAre ==
  ASSUME NEW t \in Transfers
  PROVE  /\ Iod!PagesOf(t) \in Nat \ {0}
         /\ PageUnits * (Iod!PagesOf(t) - 1) < t.off + t.len
         /\ t.off + t.len <= PageUnits * Iod!PagesOf(t)
<1>1. t.off \in Nat /\ t.len \in Nat \ {0} /\ PageUnits \in Nat \ {0}
  BY TransferShape, TransferIs
<1>2. PICK q, u, all : q = Iod!PagesOf(t) /\ u = PageUnits /\ all = t.off + t.len
  OBVIOUS
<1>3. all \in Nat \ {0} /\ u \in Nat \ {0} /\ all + u - 1 \in Nat /\ q = (all + u - 1) \div u
  BY <1>1, <1>2 DEF Iod!PagesOf
<1>4. q \in Nat /\ u * q <= all + u - 1 /\ all + u - 1 < u * q + u
  BY <1>3, DivisionFacts
<1>5. q # 0
  <2>1. SUFFICES ASSUME q = 0 PROVE FALSE
    OBVIOUS
  <2>2. u * q = 0
    BY <1>3, <2>1
  <2> QED  BY <1>3, <1>4, <2>2
<1>6. u * (q - 1) = u * q - u /\ u * q \in Nat
  BY <1>3, <1>4
<1> QED  BY <1>2, <1>3, <1>4, <1>5, <1>6

LEMMA PagesIs ==
  ASSUME NEW t \in Transfers, NEW n \in Nat \ {0}, PageUnits * (n - 1) < t.off + t.len,
         t.off + t.len <= PageUnits * n
  PROVE  Iod!PagesOf(t) = n
<1>1. PICK q, u, all : q = Iod!PagesOf(t) /\ u = PageUnits /\ all = t.off + t.len
  OBVIOUS
<1>2. /\ u \in Nat \ {0} /\ all \in Nat /\ q \in Nat \ {0} /\ u * (q - 1) < all /\ all <= u * q
      /\ u * (n - 1) < all /\ all <= u * n
  BY <1>1, PagesAre, TransferShape
<1>3. \A x, y \in Nat \ {0} : u * (x - 1) < all /\ all <= u * y => x <= y
  <2>1. SUFFICES ASSUME NEW x \in Nat \ {0}, NEW y \in Nat \ {0}, u * (x - 1) < all, all <= u * y, y < x
                 PROVE  FALSE
    OBVIOUS
  <2>2. y \in Nat /\ x - 1 \in Nat /\ y <= x - 1
    BY <2>1
  <2>3. u * y <= u * (x - 1) /\ u * y \in Nat /\ u * (x - 1) \in Nat
    <3>1. y * u <= (x - 1) * u /\ y * u \in Nat /\ (x - 1) * u \in Nat
      BY <1>2, <2>2, ProductMonotone
    <3>2. u * y = y * u /\ u * (x - 1) = (x - 1) * u
      BY <1>2, <2>2
    <3> QED  BY <3>1, <3>2
  <2> QED  BY <1>2, <2>1, <2>3
<1>4. q <= n /\ n <= q
  BY <1>2, <1>3
<1> QED  BY <1>1, <1>2, <1>4

LEMMA Products ==
  ASSUME NEW u \in Nat \ {0}, NEW x \in Nat, NEW y \in Nat
  PROVE  /\ x * u \in Nat /\ (x + 1) * u = x * u + u
         /\ x <= y => x * u <= y * u
         /\ x * u < y * u => x < y
<1>1. x * u \in Nat /\ y * u \in Nat /\ (x + 1) * u = x * u + u
  OBVIOUS
<1>2. x <= y => x * u <= y * u
  BY ProductMonotone
<1>3. y <= x => y * u <= x * u
  BY ProductMonotone
<1> QED  BY <1>1, <1>2, <1>3

(* The locals go on to the next page, if there is one.                     *)
LEMMA NextPageIs ==
  ASSUME rq \in Transfers, rq' = rq, NEW p \in Nat, AtPage(p), (p + 1) * PageUnits < rq.off + rq.len,
         IF prp.dmaLen - PageUnits <= 0 THEN NextSegment ELSE NextInSegment
  PROVE  AtPage(p + 1)'
<1>1. PICK n, u, all : n = Iod!Segments(rq) /\ u = PageUnits /\ all = rq.off + rq.len
  OBVIOUS
<1>2. /\ n \in Nat \ {0} /\ u \in Nat \ {0} /\ all \in Nat /\ (\A z \in 1 .. n : rq.starts[z] \in Nat)
      /\ \A y, z \in 1 .. n : y < z => rq.starts[y] < rq.starts[z]
  BY <1>1, TransferShape
<1>3. PICK s \in 1 .. n : s = prp.sg
  BY <1>1 DEF AtPage, Stands
<1>4. PICK begins, z : begins = rq.starts[s] /\ z = Iod!SegEnd(rq, s)
  OBVIOUS
<1>5. /\ begins \in Nat /\ begins <= p /\ (s < n => p < rq.starts[s + 1])
      /\ prp.addr = <<s, (p - begins) * u>> /\ prp.dmaLen = z - p * u
      /\ z = IF s = n THEN all ELSE rq.starts[s + 1] * u
  BY <1>1, <1>2, <1>3, <1>4 DEF AtPage, Stands, Iod!SegEnd
<1>6. z \in Nat /\ p * u \in Nat /\ (p + 1) * u = p * u + u
  <2>1. s < n => rq.starts[s + 1] \in Nat /\ rq.starts[s + 1] * u \in Nat
    <3>1. s < n => rq.starts[s + 1] \in Nat
      BY <1>2, <1>3
    <3> QED  BY <1>2, <3>1, Products
  <2>2. z \in Nat
    BY <1>2, <1>3, <1>5, <2>1
  <2> QED  BY <1>2, <2>2, Products
<1>7. Iod!Segments(rq') = n /\ (\A x : Iod!SegEnd(rq', x) = Iod!SegEnd(rq, x)) /\ rq'.starts = rq.starts
  BY <1>1
<1>8. CASE z - p * u - u <= 0
  <2>1. NextSegment
    BY <1>1, <1>5, <1>8
  <2>2. s < n
    BY <1>1, <1>2, <1>3, <1>5, <1>6, <1>8
  <2>3. PICK after : after = rq.starts[s + 1]
    OBVIOUS
  <2>4. after \in Nat /\ z = after * u /\ p + 1 <= after
    BY <1>2, <1>3, <1>5, <2>2, <2>3
  <2>5. after = p + 1
    <3>1. after * u < (p + 2) * u
      <4>1. (p + 1 + 1) * u = (p + 1) * u + u
        BY <1>2, Products
      <4> QED  BY <1>2, <1>6, <1>8, <2>4, <4>1
    <3>2. after < p + 2
      BY <1>2, <2>4, <3>1, Products
    <3> QED  BY <2>4, <3>2
  <2>6. s + 1 \in 1 .. n /\ (s + 1 < n => p + 1 < rq.starts[s + 1 + 1])
    <3>1. s + 1 \in 1 .. n /\ rq.starts[s + 1] = p + 1
      BY <1>2, <1>3, <2>2, <2>3, <2>5
    <3>2. s + 1 < n => s + 1 + 1 \in 1 .. n /\ s + 1 < s + 1 + 1
      BY <1>2, <1>3
    <3> QED  BY <1>2, <3>1, <3>2
  <2>7. prp'.sg = s + 1 /\ prp'.addr = <<s + 1, 0>>
    BY <1>3, <2>1 DEF NextSegment, Iod!SegAddr
  <2>8. prp'.dmaLen = Iod!SegEnd(rq, s + 1) - (p + 1) * u
    BY <1>1, <1>3, <2>1, <2>3, <2>5 DEF NextSegment, Iod!SegLen
  <2>9. (p + 1 - after) * u = 0
    BY <1>2, <2>5
  <2>10. PICK next : next = s + 1
    OBVIOUS
  <2>11. /\ next \in 1 .. n /\ rq.starts[next] = p + 1 /\ (next < n => p + 1 < rq.starts[next + 1])
         /\ prp'.sg = next /\ prp'.addr = <<next, (p + 1 - (p + 1)) * u>>
         /\ prp'.dmaLen = Iod!SegEnd(rq, next) - (p + 1) * u
    BY <2>3, <2>5, <2>6, <2>7, <2>8, <2>9, <2>10
  <2> QED  BY <1>1, <1>7, <2>11 DEF AtPage, Stands
<1>9. CASE ~(z - p * u - u <= 0)
  <2>1. NextInSegment
    BY <1>1, <1>5, <1>9
  <2>2. s < n => p + 1 < rq.starts[s + 1]
    <3>1. SUFFICES ASSUME s < n PROVE p + 1 < rq.starts[s + 1]
      OBVIOUS
    <3>2. rq.starts[s + 1] \in Nat /\ (p + 1) * u < rq.starts[s + 1] * u
      BY <1>2, <1>3, <1>5, <1>6, <1>9, <3>1
    <3> QED  BY <1>2, <3>2, Products
  <2>3. (p + 1 - begins) * u = (p - begins) * u + u
    <3>1. PICK d \in Nat : d = p - begins
      BY <1>5
    <3>2. (d + 1) * u = d * u + u /\ p + 1 - begins = d + 1
      BY <1>2, <1>5, <3>1, Products
    <3> QED  BY <3>1, <3>2
  <2>4. prp'.sg = s /\ prp'.addr = <<s, (p + 1 - begins) * u>>
    BY <1>1, <1>3, <1>5, <2>1, <2>3 DEF NextInSegment
  <2>5. prp'.dmaLen = z - (p + 1) * u
    BY <1>1, <1>2, <1>5, <1>6, <2>1 DEF NextInSegment
  <2>6. begins <= p + 1
    BY <1>5
  <2> QED  BY <1>1, <1>2, <1>3, <1>4, <1>7, <2>2, <2>4, <2>5, <2>6 DEF AtPage, Stands
<1> QED  BY <1>8, <1>9

(* nvme_map_data's: the second page has an entry in the command, or the    *)
(* lists begin with it.                                                    *)
SecondAt(sg, addr, left) == prp'.sg = sg /\ prp'.addr = addr /\ prp'.dmaLen = left

LEMMA SecondPageIs ==
  ASSUME rq \in Transfers, rq' = rq, Listed > 0, NEW rest, rest = Iod!SegLen(rq, 1) - (PageUnits - rq.off),
         IF rest # 0 THEN SecondAt(1, <<1, PageUnits>>, rest)
                     ELSE SecondAt(2, Iod!SegAddr(rq, 2), Iod!SegLen(rq, 2))
  PROVE  AtPage(1)'
<1>1. PICK n, u, all : n = Iod!Segments(rq) /\ u = PageUnits /\ all = rq.off + rq.len
  OBVIOUS
<1>2. /\ n \in Nat \ {0} /\ u \in Nat \ {0} /\ all \in Nat /\ (\A z \in 1 .. n : rq.starts[z] \in Nat)
      /\ (\A y, z \in 1 .. n : y < z => rq.starts[y] < rq.starts[z])
      /\ rq.starts[1] = 0 /\ rq.off \in Nat /\ rq.len \in Nat /\ all > u
  <2>1. rq.off \in Nat /\ rq.len \in Nat /\ PageUnits \in Nat
    BY TransferShape
  <2> QED  BY <1>1, <2>1, TransferShape DEF Listed
<1>3. PICK z, after : z = Iod!SegEnd(rq, 1) /\ after = IF n = 1 THEN 0 ELSE rq.starts[2]
  OBVIOUS
<1>4. z = (IF n = 1 THEN all ELSE after * u) /\ after \in Nat /\ (n # 1 => after >= 1)
  BY <1>1, <1>2, <1>3 DEF Iod!SegEnd
<1>5. z \in Nat /\ rest = z - u
  <2>1. z \in Nat
    BY <1>2, <1>4, Products
  <2>2. rest = (z - rq.off) - (u - rq.off)
    BY <1>1, <1>3 DEF Iod!SegLen
  <2> QED  BY <1>2, <2>1, <2>2
<1>6. Iod!Segments(rq') = n /\ (\A x : Iod!SegEnd(rq', x) = Iod!SegEnd(rq, x)) /\ rq'.starts = rq.starts
  BY <1>1
<1>7. 1 * u = u /\ (1 - 0) * u = u /\ (1 - 1) * u = 0
  BY <1>2
<1>8. CASE rest # 0
  <2>1. n # 1 => after # 1
    BY <1>2, <1>4, <1>5, <1>7, <1>8
  <2>2. 1 < n => 1 < rq.starts[1 + 1]
    BY <1>2, <1>3, <1>4, <2>1
  <2>3. SecondAt(1, <<1, u>>, z - u)
    BY <1>1, <1>5, <1>8
  <2> QED  BY <1>1, <1>2, <1>3, <1>6, <1>7, <2>2, <2>3 DEF AtPage, Stands, SecondAt
<1>9. CASE rest = 0
  <2>1. n # 1 /\ after * u = 1 * u
    BY <1>2, <1>4, <1>5, <1>7, <1>9
  <2>2. rq.starts[2] = 1
    <3>1. 2 * u = 1 * u + u
      BY <1>2
    <3>2. after * u < 2 * u
      BY <1>2, <1>7, <2>1, <3>1
    <3>3. after < 2
      BY <1>2, <1>4, <3>2, Products
    <3> QED  BY <1>3, <1>4, <2>1, <3>3
  <2>3. 2 \in 1 .. n /\ (2 < n => 1 < rq.starts[2 + 1])
    BY <1>2, <2>1, <2>2
  <2>4. SecondAt(2, <<2, 0>>, Iod!SegEnd(rq, 2) - 1 * u)
    BY <1>1, <1>9, <2>2 DEF Iod!SegAddr, Iod!SegLen
  <2> QED  BY <1>1, <1>6, <1>7, <2>2, <2>3, <2>4 DEF AtPage, Stands, SecondAt
<1> QED  BY <1>8, <1>9

LEMMA SecondMapped ==
  ASSUME Iod!MapData, rq \in Transfers, iodPc' \notin {"setup", "ended"}
  PROVE  /\ rq' = rq /\ kwCmd' = kwCmd /\ iodPc = "map" /\ iodPc' \in {"first", "integrity"}
         /\ Listed > 0 => AtPage(1)'
         /\ iodPc' = "first" <=> Listed > PageUnits
         /\ Listed \in 1 .. PageUnits => firstDma' = prp'.addr
<1>1. PICK length, rest : length = Listed /\ rest = Iod!SegLen(rq, 1) - (PageUnits - rq.off)
  OBVIOUS
<1>2. PICK second : second = IF rest # 0 THEN [sg |-> 1, addr |-> <<1, PageUnits>>, dmaLen |-> rest]
                             ELSE [sg |-> 2, addr |-> Iod!SegAddr(rq, 2), dmaLen |-> Iod!SegLen(rq, 2)]
  OBVIOUS
<1>3. /\ IF length <= 0
         THEN iodPc' = "integrity"
         ELSE /\ prp' = [sg |-> second.sg, dmaLen |-> second.dmaLen, addr |-> second.addr,
                         length |-> length, i |-> 0]
              /\ IF length <= PageUnits
                 THEN iodPc' = "integrity" /\ firstDma' = second.addr
                 ELSE iodPc' = "first"
      /\ rq' = rq /\ kwCmd' = kwCmd /\ iodPc = "map"
  BY <1>1, <1>2, Zenon DEF Iod!MapData, Listed, Iod!Busy, Iod!Error
<1>4. length \in Int /\ PageUnits \in Nat \ {0}
  BY <1>1, TransferShape DEF Listed
<1>5. length > 0 => AtPage(1)'
  <2>1. SUFFICES ASSUME length > 0 PROVE AtPage(1)'
    OBVIOUS
  <2>2. SecondAt(second.sg, second.addr, second.dmaLen)
    BY <1>3, <1>4, <2>1 DEF SecondAt
  <2>3. IF rest # 0 THEN SecondAt(1, <<1, PageUnits>>, rest)
                    ELSE SecondAt(2, Iod!SegAddr(rq, 2), Iod!SegLen(rq, 2))
    BY <1>2, <2>2
  <2> QED  BY <1>1, <1>3, <2>1, <2>3, SecondPageIs
<1>6. length > 0 => prp'.addr = second.addr
  BY <1>3, <1>4
<1> QED  BY <1>1, <1>3, <1>4, <1>5, <1>6

(* The entry that is written is right.                                     *)
LEMMA EntryIsRight ==
  ASSUME ReadsInv, iodPc = "entries", NEW k, NEW slot, NEW bad \in Iod!Altered(slot), ErrorAt(k) => slot = rq.index
  PROVE  EntryRight(k, [a |-> Iod!PageAddr(rq, k), bad |-> bad])
<1>1. NoErrors => bad = FALSE
  BY DEF NoErrors, Iod!Altered, Iod!IsUser
<1>2. ErrorAt(k) => bad = TRUE
  <2>1. SUFFICES ASSUME ErrorAt(k) PROVE bad = TRUE
    OBVIOUS
  <2>2. rq.kind = "user" /\ rq.error = "entry" /\ slot = rq.index /\ Iod!IsUser /\ kwCmd = "own"
    BY <2>1 DEF ErrorAt, Iod!IsUser, ReadsInv
  <2>3. Iod!Altered(slot) = {TRUE}
    BY <2>2 DEF Iod!Altered
  <2> QED  BY <2>3
<1> QED  BY <1>1, <1>2 DEF EntryRight

LEMMA LaidAfter ==
  ASSUME UNCHANGED <<rq, kwCmd>>,
         \A q \in 1 .. Len(list'), n \in 0 .. Entries - 1 :
           (q < Len(list') => n < Entries - 1) /\ (q = Len(list') => n < prp'.i)
             => EntryRight(Nth(q, n), mem'[list'[q]][n])
  PROVE  Laid'
BY DEF Laid, Nth, EntryRight, NoErrors, ErrorAt, Iod!IsUser

LEMMA WhereWritten ==
  ASSUME IodInv, iodPc = "entries"
  PROVE  /\ list # <<>> /\ Len(list) \in Nat \ {0} /\ prp.i \in 0 .. Entries /\ Entries \in Nat /\ Entries >= 2
         /\ Written \in Nat /\ list \in Seq(Iod!Pages) /\ rq \in Transfers
         /\ \A k, l \in 1 .. Len(list) : k # l => list[k] # list[l]
         /\ prp.length \in Nat \ {0} /\ PageUnits * Written + prp.length = Listed
<1>1. /\ list # <<>> /\ Len(list) \in Nat \ {0} /\ prp.i \in 0 .. Entries /\ Entries \in Nat /\ Entries >= 2
  BY IodAssumption DEF IodInv, Chained
<1>2. Written \in Nat
  <2>1. Len(list) - 1 \in Nat /\ Entries - 1 \in Nat
    BY <1>1
  <2>2. (Len(list) - 1) * (Entries - 1) \in Nat
    BY <2>1
  <2> QED  BY <1>1, <2>2 DEF Written
<1> QED  BY <1>1, <1>2 DEF IodInv, Chained

LEMMA EntryLaid ==
  ASSUME IodInv, ReadsInv, iodPc = "entries", UNCHANGED <<rq, kwCmd, firstDma>>, NEW bad, EntryStep(bad)
  PROVE  /\ Laid' /\ Written' = Written + 1
         /\ list' # <<>> /\ prp'.i \in 1 .. Entries /\ (Len(list') > 1 => prp'.i >= 2)
<1>1. PICK size, page, slot, each : size = Len(list) /\ page = list[size] /\ slot = prp.i /\ each = Entries - 1
  OBVIOUS
<1>2. /\ size \in Nat \ {0} /\ slot \in 0 .. each /\ each \in Nat \ {0} /\ Entries = each + 1
      /\ list \in Seq(Iod!Pages) /\ rq \in Transfers /\ list # <<>>
      /\ \A k, l \in 1 .. size : k # l => list[k] # list[l]
  BY <1>1, WhereWritten DEF EntryStep
<1>3. (size > 1 => slot >= 2) /\ Laid /\ prp'.i = slot + 1 /\ list' = list /\ bad \in Iod!Altered(slot)
  BY <1>1 DEF ReadsInv, EntryStep
<1>4. PICK before \in Nat : before = (size - 1) * each
  <2>1. size - 1 \in Nat
    BY <1>2
  <2> QED  BY <1>2, <2>1
<1>5. Written = before + slot /\ Written' = before + (slot + 1) /\ Nth(size, slot) = before + slot + 1
  BY <1>1, <1>3, <1>4 DEF Written, Nth
<1>6. PICK k : k = before + slot + 1
  OBVIOUS
<1>7. prp.addr = Iod!PageAddr(rq, k) /\ k \in Nat \ {0}
  <2>1. AtPage(k)
    BY <1>5, <1>6 DEF ReadsInv
  <2> QED  BY <1>2, <1>4, <1>6, <2>1, PageOfSegment DEF AtPage
<1>8. ErrorAt(k) => slot = rq.index
  <2>1. SUFFICES ASSUME ErrorAt(k) PROVE slot = rq.index
    OBVIOUS
  <2>2. PICK x \in Nat : x = rq.index
    BY <1>2, IodAssumption DEF Iod!Transfer
  <2>3. x < each + 1 /\ k = x + 1
    BY <1>2, <2>1, <2>2 DEF ErrorAt
  <2>4. size > 1 => before >= each
    <3>1. SUFFICES ASSUME size > 1 PROVE before >= each
      OBVIOUS
    <3>2. 1 \in Nat /\ size - 1 \in Nat /\ 1 <= size - 1
      BY <1>2, <3>1
    <3>3. 1 * each <= (size - 1) * each
      BY <1>2, <3>2, ProductMonotone
    <3> QED  BY <1>2, <1>4, <3>3
  <2>5. size = 1 => before = 0
    BY <1>2, <1>4
  <2>6. size = 1
    <3>1. SUFFICES ASSUME size > 1 PROVE FALSE
      BY <1>2
    <3>2. before \in Nat /\ each \in Nat /\ slot \in Nat /\ x \in Nat
      BY <1>2, <1>4, <2>2
    <3>3. before >= each /\ slot >= 2 /\ k = before + slot + 1 /\ k = x + 1 /\ x < each + 1
      BY <1>3, <1>6, <2>3, <2>4, <3>1
    <3> QED  BY <3>2, <3>3
  <2> QED  BY <1>2, <1>6, <2>2, <2>3, <2>5, <2>6
<1>9. EntryRight(k, [a |-> prp.addr, bad |-> bad])
  BY <1>3, <1>7, <1>8, EntryIsRight
<1>10. /\ mem'[page] = [mem[page] EXCEPT ![slot] = [a |-> prp.addr, bad |-> bad]]
       /\ \A p \in Iod!Pages : p # page => mem'[p] = mem[p]
  BY <1>1, EntrySet
<1>11. DOMAIN mem[page] = 0 .. each /\ page \in Iod!Pages
  BY <1>1, <1>2 DEF IodInv, Chained
<1>12. mem'[page][slot] = [a |-> prp.addr, bad |-> bad] /\ \A n \in 0 .. each : n # slot => mem'[page][n] = mem[page][n]
  BY <1>2, <1>10, <1>11
<1>13. Laid'
  <2>1. SUFFICES ASSUME NEW q \in 1 .. Len(list'), NEW n \in 0 .. Entries - 1,
                        q < Len(list') => n < Entries - 1, q = Len(list') => n < prp'.i
                 PROVE  EntryRight(Nth(q, n), mem'[list'[q]][n])
    BY LaidAfter
  <2>2. q \in 1 .. size /\ n \in 0 .. each /\ (q < size => n < each) /\ (q = size => n < slot + 1)
    BY <1>1, <1>2, <1>3, <2>1
  <2>3. EntryRight(Nth(q, n), mem'[list[q]][n])
    <3>1. CASE q = size /\ n = slot
      BY <1>1, <1>5, <1>6, <1>9, <1>12, <3>1
    <3>2. CASE q = size /\ n # slot
      <4>1. n < slot /\ mem'[list[q]][n] = mem[list[q]][n]
        BY <1>1, <1>2, <1>12, <2>2, <3>2
      <4> QED  BY <1>1, <1>2, <1>3, <2>2, <3>2, <4>1 DEF Laid
    <3>3. CASE q # size
      <4>1. q < size /\ list[q] \in Iod!Pages /\ list[q] # page
        BY <1>1, <1>2, <2>2, <3>3
      <4>2. mem'[list[q]][n] = mem[list[q]][n]
        BY <1>10, <4>1
      <4> QED  BY <1>1, <1>2, <1>3, <2>2, <4>1, <4>2 DEF Laid
    <3> QED  BY <3>1, <3>2, <3>3
  <2> QED  BY <1>3, <2>3
<1>14. prp'.i \in 1 .. Entries
  <2>1. slot + 1 \in 1 .. each + 1
    BY <1>2
  <2> QED  BY <1>2, <1>3, <2>1
<1>15. Written' = Written + 1
  <2>1. before + (slot + 1) = (before + slot) + 1
    BY <1>2, <1>4
  <2> QED  BY <1>5, <2>1
<1>16. Len(list') > 1 => prp'.i >= 2
  <2>1. size > 1 => slot + 1 >= 2
    BY <1>2, <1>3
  <2> QED  BY <1>1, <1>3, <2>1
<1> QED  BY <1>2, <1>3, <1>13, <1>14, <1>15, <1>16

LEMMA PageLaid ==
  ASSUME IodInv, ReadsInv, iodPc = "entries", UNCHANGED <<rq, kwCmd, firstDma>>, NEW bad, PageStep(bad)
  PROVE  /\ Laid' /\ Written' = Written + 1
         /\ list' # <<>> /\ prp'.i \in 1 .. Entries /\ (Len(list') > 1 => prp'.i >= 2)
<1>1. PICK size, each : size = Len(list) /\ each = Entries - 1
  OBVIOUS
<1>2. /\ size \in Nat \ {0} /\ each \in Nat \ {0} /\ Entries = each + 1
      /\ list \in Seq(Iod!Pages) /\ rq \in Transfers /\ list # <<>>
  BY <1>1, WhereWritten DEF PageStep
<1>3. prp.i = Entries /\ Laid /\ prp'.i = 2 /\ list' = Append(list, Iod!NextPage) /\ bad \in Iod!Altered(1)
  BY DEF ReadsInv, PageStep
<1>4. PICK page : page = Iod!NextPage
  OBVIOUS
<1>6. /\ page \in Iod!Pages
      /\ mem'[page][0] = mem[list[Len(list)]][Entries - 1] /\ mem'[page][1] = [a |-> prp.addr, bad |-> bad]
      /\ \A k \in 1 .. Len(list), n \in 0 .. Entries - 2 : mem'[list[k]][n] = mem[list[k]][n]
  BY <1>4, PageAdded
<1>7. Len(list') = size + 1 /\ list'[size + 1] = page /\ \A k \in 1 .. size : list'[k] = list[k]
  BY <1>1, <1>2, <1>3, <1>4, <1>6, AppendProperties
<1>8. PICK before \in Nat : before = size * each
  BY <1>2
<1>9. (size - 1) * each = before - each /\ before >= each
  <2>1. (size - 1) * each = size * each - each
    BY <1>2
  <2>2. 1 * each <= size * each /\ 1 * each = each
    <3>1. 1 \in Nat /\ 1 <= size /\ each \in Nat
      BY <1>2
    <3> QED  BY <1>2, <3>1, ProductMonotone
  <2> QED  BY <1>8, <2>1, <2>2
<1>10. Written = before + 1 /\ Written' = before + 2
  <2>1. Written = (size - 1) * each + (each + 1)
    BY <1>1, <1>2, <1>3 DEF Written
  <2>2. Written' = (size + 1 - 1) * each + 2 /\ size + 1 - 1 = size
    BY <1>1, <1>2, <1>3, <1>7 DEF Written
  <2> QED  BY <1>2, <1>8, <1>9, <2>1, <2>2
<1>11. Nth(size + 1, 0) = before + 1 /\ Nth(size + 1, 1) = before + 2 /\ Nth(size, each) = before + 1
  <2>1. Nth(size + 1, 0) = size * each + 0 + 1 /\ Nth(size + 1, 1) = size * each + 1 + 1
    <3>1. size + 1 - 1 = size
      BY <1>2
    <3> QED  BY <1>1, <3>1 DEF Nth
  <2>2. Nth(size, each) = (size - 1) * each + each + 1
    BY <1>1 DEF Nth
  <2> QED  BY <1>2, <1>8, <1>9, <2>1, <2>2
<1>12. prp.addr = Iod!PageAddr(rq, before + 2)
  <2>1. PICK k : k = before + 2
    OBVIOUS
  <2>2. Written + 1 = k /\ k \in Nat \ {0}
    BY <1>8, <1>10, <2>1
  <2>3. AtPage(k)
    BY <2>2 DEF ReadsInv
  <2> QED  BY <1>2, <2>1, <2>2, <2>3, PageOfSegment DEF AtPage
<1>13. EntryRight(before + 2, mem'[page][1])
  <2>1. ErrorAt(before + 2) => 1 = rq.index
    <3>1. PICK x \in Nat : x = rq.index
      BY <1>2, IodAssumption DEF Iod!Transfer
    <3>2. ErrorAt(before + 2) => x < each + 1 /\ before + 2 = x + 1
      BY <1>2, <3>1 DEF ErrorAt
    <3>3. before \in Nat /\ before >= each /\ each \in Nat
      BY <1>2, <1>8, <1>9
    <3> QED  BY <3>1, <3>2, <3>3
  <2>2. EntryRight(before + 2, [a |-> Iod!PageAddr(rq, before + 2), bad |-> bad])
    BY <1>3, <2>1, EntryIsRight
  <2> QED  BY <1>6, <1>12, <2>2
<1>14. EntryRight(before + 1, mem'[page][0])
  <2>1. size \in 1 .. Len(list) /\ each \in 0 .. Entries - 1 /\ size = Len(list) /\ each < prp.i
    BY <1>1, <1>2, <1>3
  <2>2. EntryRight(Nth(size, each), mem[list[size]][each])
    BY <1>3, <2>1 DEF Laid
  <2> QED  BY <1>1, <1>6, <1>11, <2>2
<1>15. Laid'
  <2>1. SUFFICES ASSUME NEW q \in 1 .. Len(list'), NEW n \in 0 .. Entries - 1,
                        q < Len(list') => n < Entries - 1, q = Len(list') => n < prp'.i
                 PROVE  EntryRight(Nth(q, n), mem'[list'[q]][n])
    BY LaidAfter
  <2>2. q \in 1 .. size + 1 /\ n \in 0 .. each /\ (q < size + 1 => n < each) /\ (q = size + 1 => n < 2)
    BY <1>1, <1>2, <1>3, <1>7, <2>1
  <2>3. CASE q = size + 1
    <3>1. n = 0 \/ n = 1
      BY <2>2, <2>3
    <3> QED  BY <1>7, <1>11, <1>13, <1>14, <2>3, <3>1
  <2>4. CASE q # size + 1
    <3>1. q \in 1 .. size /\ n \in 0 .. Entries - 2 /\ n < each /\ (q = size => n < prp.i)
      BY <1>1, <1>2, <1>3, <2>2, <2>4
    <3>2. mem'[list'[q]][n] = mem[list[q]][n]
      BY <1>1, <1>6, <1>7, <3>1
    <3>3. EntryRight(Nth(q, n), mem[list[q]][n])
      BY <1>1, <1>2, <1>3, <2>2, <3>1 DEF Laid
    <3> QED  BY <3>2, <3>3
  <2> QED  BY <2>3, <2>4
<1>16. list' # <<>>
  <2>1. Len(list') # 0
    BY <1>2, <1>7
  <2> QED  BY <2>1
<1> QED  BY <1>2, <1>3, <1>8, <1>10, <1>15, <1>16

LEMMA ReadsStart ==
  ASSUME Iod!Init
  PROVE  ReadsInv
BY DEF Iod!Init, ReadsInv, Built

(* Nothing is said where no part of the transfer is written.               *)
LEMMA ReadsOutside ==
  ASSUME iodPc' \in {"idle", "setup", "iod", "map", "ended"}, kwCmd' \in {"null", "own", "stale"},
         iodPc' = "idle" \/ (kwCmd' = kwCmd /\ rq' = rq /\ iodPc # "idle" /\ ReadsInv)
  PROVE  ReadsInv'
BY DEF ReadsInv, Built, Iod!IsUser

LEMMA ReadsArrive ==
  ASSUME ReadsInv, Iod!Arrive
  PROVE  ReadsInv'
<1>1. iodPc' = "setup" /\ kwCmd' = IF rq'.kind \in {"user", "admin"} THEN "own" ELSE kwCmd
  BY DEF Iod!Arrive
<1> QED  BY <1>1 DEF ReadsInv, Built, Iod!IsUser

LEMMA ReadsReturn ==
  ASSUME ReadsInv, Iod!Return
  PROVE  ReadsInv'
BY ReadsOutside DEF Iod!Return, ReadsInv

LEMMA ReadsBegin ==
  ASSUME ReadsInv, Iod!SetupCmd \/ Iod!InitIod
  PROVE  ReadsInv'
<1>1. kwCmd' = kwCmd /\ rq' = rq /\ iodPc # "idle" /\ iodPc' \in {"setup", "iod", "map"}
  BY DEF Iod!SetupCmd, Iod!InitIod, Iod!Busy
<1> QED  BY <1>1, ReadsOutside DEF ReadsInv

LEMMA ReadsMapped ==
  ASSUME IodInv, ReadsInv, Iod!MapData
  PROVE  ReadsInv'
<1>1. rq' = rq /\ kwCmd' = kwCmd /\ iodPc = "map" /\ rq \in Transfers /\ kwCmd \in {"null", "own", "stale"}
  BY DEF Iod!MapData, IodInv, ReadsInv
<1>2. CASE iodPc' \in {"setup", "ended"}
  BY <1>1, <1>2, ReadsOutside
<1>3. CASE iodPc' \notin {"setup", "ended"}
  <2>1. /\ iodPc' \in {"first", "integrity"} /\ (Listed > 0 => AtPage(1)') /\ (iodPc' = "first" <=> Listed > PageUnits)
        /\ (Listed \in 1 .. PageUnits => firstDma' = prp'.addr)
    BY <1>1, <1>3, SecondMapped
  <2>2. Listed' = Listed /\ Listed \in Int /\ PageUnits \in Nat \ {0}
    BY <1>1, TransferShape DEF Listed
  <2>3. Listed \in 1 .. PageUnits => firstDma' = Iod!PageAddr(rq', 1)
    <3>1. SUFFICES ASSUME Listed \in 1 .. PageUnits PROVE firstDma' = Iod!PageAddr(rq', 1)
      OBVIOUS
    <3>2. AtPage(1)' /\ rq' \in Transfers
      BY <1>1, <2>1, <2>2, <3>1
    <3>3. prp'.addr = Iod!PageAddr(rq', 1)
      BY <3>2, PageOfSegment DEF AtPage
    <3> QED  BY <2>1, <3>1, <3>3
  <2>4. iodPc' = "first" => AtPage(1)' /\ Listed' > PageUnits
    BY <2>1, <2>2
  <2> QED  BY <1>1, <2>1, <2>2, <2>3, <2>4 DEF ReadsInv, Built, Iod!IsUser
<1> QED  BY <1>2, <1>3

LEMMA ReadsList ==
  ASSUME IodInv, ReadsInv, Iod!FirstPage
  PROVE  ReadsInv'
<1>1. rq' = rq /\ kwCmd' = kwCmd /\ iodPc = "first" /\ rq \in Transfers /\ kwCmd \in {"null", "own", "stale"}
  BY DEF Iod!FirstPage, IodInv, ReadsInv
<1>2. CASE Iod!Unlisted
  BY <1>1, <1>2, ReadsOutside DEF Iod!Unlisted, Iod!Busy
<1>3. CASE list' = <<Iod!NextPage>> /\ iodPc' = "entries" /\ prp' = prp
  <2>1. prp'.i = 0 /\ AtPage(1) /\ Len(list') = 1
    BY <1>1, <1>3 DEF IodInv, ReadsInv
  <2>2. Written' + 1 = 1
    <3>1. Written' = (1 - 1) * (Entries - 1) + 0
      BY <2>1 DEF Written
    <3> QED  BY <3>1, IodAssumption
  <2>3. Laid'
    <3>1. SUFFICES ASSUME NEW q \in 1 .. Len(list'), NEW n \in 0 .. Entries - 1, q = Len(list') => n < prp'.i
                   PROVE  FALSE
      BY <1>1, LaidAfter
    <3> QED  BY <2>1, <3>1
  <2>4. AtPage(1)'
    BY <1>1, <1>3, <2>1 DEF AtPage
  <2>5. AtPage(Written + 1)'
    <3>1. PICK k : k = Written' + 1
      OBVIOUS
    <3>2. k = 1
      BY <2>2, <3>1
    <3> QED  BY <2>4, <3>1, <3>2 DEF AtPage
  <2>6. Listed' > PageUnits
    BY <1>1 DEF Listed, ReadsInv
  <2> QED  BY <1>1, <1>3, <2>1, <2>3, <2>5, <2>6 DEF ReadsInv, Built, Iod!IsUser
<1> QED  BY <1>2, <1>3 DEF Iod!FirstPage

LEMMA ReadsEntry ==
  ASSUME IodInv, ReadsInv, Iod!SetupPrps
  PROVE  ReadsInv'
<1>1. /\ UNCHANGED <<rq, kwCmd, firstDma>> /\ iodPc = "entries" /\ rq \in Transfers
      /\ kwCmd \in {"null", "own", "stale"} /\ Laid /\ AtPage(Written + 1)
  BY DEF Iod!SetupPrps, IodInv, ReadsInv
<1>2. CASE Iod!Unlisted
  BY <1>1, <1>2, ReadsOutside DEF Iod!Unlisted, Iod!Busy
<1>3. SUFFICES ASSUME NEW bad, EntryStep(bad) \/ PageStep(bad), GoesOn PROVE ReadsInv'
  BY <1>2, TurnOfLoop
<1>4. Laid' /\ Written' = Written + 1 /\ list' # <<>> /\ prp'.i \in 1 .. Entries /\ (Len(list') > 1 => prp'.i >= 2)
  BY <1>1, <1>3, EntryLaid, PageLaid
<1>5. PICK n, u, all, left : n = Written /\ u = PageUnits /\ all = rq.off + rq.len /\ left = prp.length
  OBVIOUS
<1>6. /\ n \in Nat /\ u \in Nat \ {0} /\ all \in Nat /\ left \in Nat \ {0} /\ u * n + left = all - u
      /\ Listed = all - u
  <2>1. rq.off \in Nat /\ rq.len \in Nat /\ PageUnits \in Nat \ {0}
    BY <1>1, TransferShape
  <2>2. Listed = all - u
    BY <1>5, <2>1 DEF Listed
  <2>3. n \in Nat /\ left \in Nat \ {0} /\ u * n + left = Listed
    BY <1>1, <1>5, WhereWritten
  <2> QED  BY <1>5, <2>1, <2>2, <2>3
<1>7. (n + 1) * u = u * n + u /\ u * (n + 1) = u * n + u /\ u * (n + 2) = u * n + u + u /\ u * n \in Nat
      /\ (n + 1 + 1) * u = u * n + u + u
  BY <1>6
<1>8. iodPc' = (IF left > u THEN "entries" ELSE "integrity")
      /\ IF left > u /\ prp.dmaLen - u <= 0 THEN NextSegment ELSE NextInSegment
  BY <1>3, <1>5 DEF GoesOn
<1>9. Listed' = Listed /\ Listed > PageUnits
  BY <1>1 DEF Listed, ReadsInv
<1>10. CASE left > u
  <2>1. (n + 1 + 1) * u < all
    BY <1>6, <1>7, <1>10
  <2>2. PICK p : p = n + 1
    OBVIOUS
  <2>3. p \in Nat /\ AtPage(p) /\ (p + 1) * PageUnits < rq.off + rq.len /\ Written' + 1 = p + 1
    BY <1>1, <1>4, <1>5, <1>6, <2>1, <2>2
  <2>4. AtPage(p + 1)'
    BY <1>1, <1>5, <1>8, <1>10, <2>3, NextPageIs
  <2>5. AtPage(Written + 1)'
    <3>1. PICK k : k = Written' + 1
      OBVIOUS
    <3>2. k = p + 1
      BY <2>3, <3>1
    <3> QED  BY <2>4, <3>1, <3>2 DEF AtPage
  <2>6. iodPc' = "entries" /\ Listed' > PageUnits
    BY <1>8, <1>10, <1>9
  <2> QED  BY <1>1, <1>4, <2>5, <2>6 DEF ReadsInv, Built, Iod!IsUser
<1>11. CASE ~(left > u)
  <2>1. Iod!PagesOf(rq) = n + 2
    <3>1. PICK k \in Nat \ {0}, b \in Nat : k = n + 2 /\ b = n + 1
      BY <1>6
    <3>2. u * b < all /\ all <= u * k /\ k - 1 = b
      BY <1>6, <1>7, <1>11, <3>1
    <3> QED  BY <1>1, <1>5, <3>1, <3>2, PagesIs
  <2>2. ListsWhole'
    <3>1. PICK k : k = Iod!PagesOf(rq)
      OBVIOUS
    <3>2. Written' = k - 1
      BY <1>4, <1>5, <1>6, <2>1, <3>1
    <3>3. Written' = Iod!PagesOf(rq') - 1
      BY <1>1, <3>1, <3>2
    <3> QED  BY <1>4, <3>3 DEF ListsWhole
  <2>3. iodPc' = "integrity" /\ Listed' > PageUnits /\ ~(Listed' \in 1 .. PageUnits)
    BY <1>1, <1>5, <1>6, <1>8, <1>11, <1>9
  <2> QED  BY <1>1, <2>2, <2>3 DEF ReadsInv, Built, Iod!IsUser
<1> QED  BY <1>10, <1>11

(* From here on nothing of it changes.                                     *)
LEMMA BuiltKept ==
  ASSUME ReadsInv, iodPc = "integrity" \/ Built, UNCHANGED <<rq, kwCmd, list, mem, prp, firstDma>>
  PROVE  /\ kwCmd' \in {"null", "own", "stale"} /\ (iodPc' # "idle" /\ Iod!IsUser' => kwCmd' = "own")
         /\ Listed' > PageUnits => ListsWhole'
         /\ Listed' \in 1 .. PageUnits => firstDma' = Iod!PageAddr(rq', 1)
<1>1. iodPc # "idle" /\ kwCmd \in {"null", "own", "stale"} /\ (iodPc # "idle" /\ Iod!IsUser => kwCmd = "own")
      /\ (Listed > PageUnits => ListsWhole) /\ (Listed \in 1 .. PageUnits => firstDma = Iod!PageAddr(rq, 1))
  BY DEF ReadsInv, Built
<1>2. Listed' = Listed /\ Written' = Written
  BY DEF Listed, Written
<1>3. ListsWhole => ListsWhole'
  <2>1. Laid => Laid'
    <3>1. SUFFICES ASSUME Laid PROVE Laid'
      OBVIOUS
    <3>2. \A q \in 1 .. Len(list'), n \in 0 .. Entries - 1 :
            (q < Len(list') => n < Entries - 1) /\ (q = Len(list') => n < prp'.i)
              => EntryRight(Nth(q, n), mem'[list'[q]][n])
      BY <3>1 DEF Laid
    <3> QED  BY <3>2, LaidAfter
  <2> QED  BY <1>2, <2>1 DEF ListsWhole
<1> QED  BY <1>1, <1>2, <1>3 DEF Iod!IsUser

LEMMA ReadsIntegrity ==
  ASSUME ReadsInv, Iod!MapIntegrity
  PROVE  ReadsInv'
<1>1. rq' = rq /\ kwCmd' = kwCmd /\ iodPc = "integrity" /\ firstDma' = firstDma /\ prp' = prp
      /\ kwCmd \in {"null", "own", "stale"}
  BY DEF Iod!MapIntegrity, ReadsInv
<1>2. CASE Iod!Error
  BY <1>1, <1>2, ReadsOutside DEF Iod!Error
<1>3. CASE /\ tags' = IF rq.pi /\ rq.write THEN "disk" ELSE tags
           /\ cmnd' = [prp1 |-> Iod!Entry(Iod!SegAddr(rq, 1)), prp2 |-> Iod!Entry(firstDma)]
           /\ iodPc' = "inject" /\ UNCHANGED <<list, mem>>
  <2>1. cmnd' = Command(FALSE, FALSE)'
    BY <1>1, <1>3 DEF Command, Iod!Entry
  <2> QED  BY <1>1, <1>3, <2>1, BuiltKept DEF ReadsInv, Built
<1> QED  BY <1>2, <1>3 DEF Iod!MapIntegrity

LEMMA ReadsInjected ==
  ASSUME ReadsInv, Iod!InjectError
  PROVE  ReadsInv'
<1>1. UNCHANGED <<rq, kwCmd, list, mem, prp, firstDma, tags>> /\ iodPc = "inject" /\ iodPc' = "submit" /\ Built
  BY DEF Iod!InjectError, Built
<1>2. cmnd = Command(FALSE, FALSE)
  BY <1>1 DEF ReadsInv
<1>3. PICK bad1, bad2 : bad1 = (rq.error = "prp1") /\ bad2 = (rq.error = "prp2")
  OBVIOUS
<1>4. cmnd' = IF rq.kind = "admin" THEN cmnd
              ELSE [prp1 |-> [cmnd.prp1 EXCEPT !.bad = bad1], prp2 |-> [cmnd.prp2 EXCEPT !.bad = bad2]]
  BY <1>3, Zenon DEF Iod!InjectError
<1>5. cmnd' = IF rq.kind = "admin" THEN Command(FALSE, FALSE) ELSE Command(bad1, bad2)
  BY <1>2, <1>4 DEF Command
<1>6. cmnd' = IF rq.kind = "admin" THEN Command(FALSE, FALSE) ELSE Command(rq.error = "prp1", rq.error = "prp2")
  BY <1>3, <1>5, Zenon
<1>7. (IF rq.kind = "admin" THEN Command(FALSE, FALSE) ELSE Command(rq.error = "prp1", rq.error = "prp2"))'
      = IF rq.kind = "admin" THEN Command(FALSE, FALSE) ELSE Command(rq.error = "prp1", rq.error = "prp2")
  BY <1>1 DEF Command
<1>8. rq.pi /\ rq.write => tags = "disk"
  BY <1>1 DEF ReadsInv
<1> QED  BY <1>1, <1>6, <1>7, <1>8, BuiltKept DEF ReadsInv, Built

LEMMA ReadsSubmit ==
  ASSUME ReadsInv, Iod!Submit
  PROVE  ReadsInv'
<1>1. rq' = rq /\ kwCmd' = kwCmd /\ iodPc = "submit" /\ Built /\ UNCHANGED <<firstDma, prp, cmnd, tags>>
      /\ kwCmd \in {"null", "own", "stale"}
  BY DEF Iod!Submit, ReadsInv, Built
<1>2. CASE iodPc' \in {"setup", "ended"}
  BY <1>1, <1>2, ReadsOutside
<1>3. CASE iodPc' = "sent" /\ UNCHANGED <<list, mem>>
  <2>1. (IF rq.kind = "admin" THEN Command(FALSE, FALSE) ELSE Command(rq.error = "prp1", rq.error = "prp2"))'
        = IF rq.kind = "admin" THEN Command(FALSE, FALSE) ELSE Command(rq.error = "prp1", rq.error = "prp2")
    BY <1>1 DEF Command
  <2>2. cmnd = (IF rq.kind = "admin" THEN Command(FALSE, FALSE) ELSE Command(rq.error = "prp1", rq.error = "prp2"))
        /\ (rq.pi /\ rq.write => tags = "disk")
    BY <1>1 DEF ReadsInv
  <2> QED  BY <1>1, <1>3, <2>1, <2>2, BuiltKept DEF ReadsInv, Built
<1> QED  BY <1>2, <1>3 DEF Iod!Submit, Iod!Busy, Iod!Error

LEMMA ReadsComplete ==
  ASSUME ReadsInv, Iod!Complete
  PROVE  ReadsInv'
<1>1. rq' = rq /\ kwCmd' = kwCmd /\ iodPc = "sent" /\ iodPc' \in {"setup", "ended"}
  BY DEF Iod!Complete, Iod!Busy
<1> QED  BY <1>1, ReadsOutside DEF ReadsInv

LEMMA ReadsStep ==
  ASSUME IodInv, ReadsInv, [Iod!Next]_(Iod!vars)
  PROVE  ReadsInv'
<1>1. CASE UNCHANGED Iod!vars
  <2>1. UNCHANGED <<iodPc, rq, kwCmd, list, mem, prp, firstDma, cmnd, tags>>
    BY <1>1 DEF Iod!vars
  <2>2. Listed' = Listed /\ Written' = Written /\ Iod!IsUser' = Iod!IsUser /\ Built' = Built
        /\ Laid' = Laid /\ (\A x, y : Command(x, y)' = Command(x, y))
    BY <2>1 DEF Listed, Written, Iod!IsUser, Built, Laid, EntryRight, NoErrors, ErrorAt, Command, Nth
  <2>3. AtPage(1)' = AtPage(1) /\ AtPage(Written + 1)' = AtPage(Written + 1)
    BY <2>1, <2>2 DEF AtPage
  <2>4. ListsWhole' = ListsWhole
    BY <2>1, <2>2 DEF ListsWhole
  <2> QED  BY <2>1, <2>2, <2>3, <2>4 DEF ReadsInv
<1> QED  BY <1>1, ReadsArrive, ReadsBegin, ReadsMapped, ReadsList, ReadsEntry, ReadsIntegrity, ReadsInjected,
            ReadsSubmit, ReadsComplete, ReadsReturn DEF Iod!Next

(* The device finds entry k of the n that are written.                     *)
LEMMA EntryFound ==
  ASSUME IodInv, ListsWhole, cmnd.prp2.a = firstDma, NEW k \in 1 .. Written
  PROVE  EntryRight(k, Iod!ListEntry(k, Written))
<1>1. PICK n, each, size, slot : n = Written /\ each = Entries - 1 /\ size = Len(list) /\ slot = prp.i
  OBVIOUS
<1>2. /\ each \in Nat \ {0} /\ size \in Nat \ {0} /\ slot \in 1 .. each + 1 /\ Entries = each + 1
      /\ (size > 1 => slot >= 2) /\ n \in Nat /\ k \in 1 .. n
  <2>1. each \in Nat \ {0} /\ Entries = each + 1 /\ size \in Nat \ {0}
    BY <1>1, IodAssumption DEF ListsWhole, IodInv, Chained
  <2>2. slot \in 1 .. each + 1 /\ (size > 1 => slot >= 2)
    BY <1>1, <2>1 DEF ListsWhole
  <2>3. n \in Nat
    <3>1. size - 1 \in Nat
      BY <2>1
    <3>2. (size - 1) * each \in Nat
      BY <2>1, <3>1
    <3> QED  BY <1>1, <2>2, <3>2 DEF Written
  <2> QED  BY <1>1, <2>1, <2>2, <2>3
<1>3. PICK before \in Nat : before = (size - 1) * each
  <2>1. size - 1 \in Nat
    BY <1>2
  <2> QED  BY <1>2, <2>1
<1>4. n = before + slot /\ (size = 1 => before = 0)
  <2>1. n = (size - 1) * each + slot
    BY <1>1 DEF Written
  <2>2. (1 - 1) * each = 0
    BY <1>2
  <2> QED  BY <1>3, <2>1, <2>2
<1>5. PICK x : x = IF k = n /\ k > 1 THEN k - 2 ELSE k - 1
  OBVIOUS
<1>6. x \in Nat /\ (x = k - 1 \/ (k = n /\ x = k - 2)) /\ (k = n => k = 1 \/ x = k - 2)
  BY <1>2, <1>5
<1>7. PICK d, far \in Nat : d \in Nat /\ d = x \div each /\ far = d * each
  <2>1. x \div each \in Nat
    BY <1>2, <1>6, DivisionFacts
  <2>2. (x \div each) * each \in Nat
    BY <1>2, <2>1
  <2> QED  BY <2>1, <2>2
<1>8. d \in Nat /\ far \in Nat /\ far <= x /\ x < far + each /\ (d + 1) * each = far + each
  <2>1. each * d <= x /\ x < each * d + each
    BY <1>2, <1>6, <1>7, DivisionFacts
  <2>2. each * d = far /\ (d + 1) * each = far + each
    BY <1>2, <1>7
  <2> QED  BY <1>7, <2>1, <2>2
<1>9. x < before + each
  <2>1. each \in Nat \ {0} /\ slot \in 1 .. each + 1 /\ n \in Nat /\ k \in 1 .. n
    BY <1>2
  <2>2. x <= n - 2 \/ (n = 1 /\ x = 0)
    BY <1>6, <2>1
  <2> QED  BY <1>3, <1>4, <1>6, <2>1, <2>2
<1>10. d + 1 <= size
  <2>1. SUFFICES ASSUME size <= d PROVE FALSE
    BY <1>2, <1>7
  <2>2. size * each <= far
    <3>1. size \in Nat /\ each \in Nat
      BY <1>2
    <3> QED  BY <1>7, <1>8, <2>1, <3>1, ProductMonotone
  <2>3. size * each = before + each
    <3>1. (size - 1) * each = size * each - each /\ size * each \in Nat
      BY <1>2
    <3> QED  BY <1>2, <1>3, <3>1
  <2> QED  BY <1>2, <1>3, <1>6, <1>8, <1>9, <2>2, <2>3
<1>11. PICK s : s = k - 1 - far
  OBVIOUS
<1>12. s \in 0 .. each /\ k = far + s + 1
  <2>1. each \in Nat /\ k \in Int /\ (x = k - 1 \/ x = k - 2)
    BY <1>2, <1>6
  <2>2. far \in Nat /\ x \in Nat /\ far <= x /\ x < far + each
    BY <1>6, <1>8
  <2> QED  BY <1>11, <2>1, <2>2
<1>13. d + 1 = size => s < slot
  <2>1. SUFFICES ASSUME d + 1 = size PROVE s < slot
    OBVIOUS
  <2>2. far = before
    <3>1. size - 1 = d
      BY <1>8, <2>1
    <3> QED  BY <1>3, <1>7, <3>1
  <2>3. slot \in Nat /\ k <= n /\ k \in Int
    BY <1>2
  <2> QED  BY <1>3, <1>4, <1>11, <2>2, <2>3
<1>14. d + 1 < size => s < each
  <2>1. SUFFICES ASSUME d + 1 < size, s = each PROVE FALSE
    BY <1>2, <1>12
  <2>2. d + 1 \in Nat /\ size - 1 \in Nat /\ d + 1 <= size - 1 /\ each \in Nat
    BY <1>2, <1>8, <2>1
  <2>3. far + each <= before
    BY <1>3, <1>8, <2>2, ProductMonotone
  <2>4. slot \in Nat /\ slot >= 2 /\ k \in Int
    BY <1>2, <1>8, <2>1
  <2>5. k = n /\ x = k - 2
    BY <1>6, <1>7, <1>8, <1>12, <2>1, <2>2, <2>4
  <2> QED  BY <1>3, <1>4, <1>6, <1>7, <1>8, <2>2, <2>3, <2>4, <2>5
<1>15. EntryRight(k, mem[list[d + 1]][s])
  <2>1. d + 1 \in 1 .. Len(list) /\ s \in 0 .. Entries - 1
        /\ (d + 1 < Len(list) => s < Entries - 1) /\ (d + 1 = Len(list) => s < prp.i)
    BY <1>1, <1>2, <1>8, <1>10, <1>12, <1>13, <1>14
  <2>2. EntryRight(Nth(d + 1, s), mem[list[d + 1]][s])
    BY <2>1 DEF ListsWhole, Laid
  <2>3. Nth(d + 1, s) = k
    <3>1. d + 1 - 1 = d
      BY <1>8
    <3> QED  BY <1>1, <1>7, <1>12, <3>1 DEF Nth
  <2> QED  BY <2>2, <2>3
<1>16. Iod!ListEntry(k, n) = mem[list[d + 1]][s]
  <2>1. PICK at : at = d + 1
    OBVIOUS
  <2>2. at = (IF k = n /\ k > 1 THEN k - 2 ELSE k - 1) \div (Entries - 1) + 1
    BY <1>1, <1>5, <1>7, <2>1
  <2>3. k - 1 - (at - 1) * (Entries - 1) = s
    <3>1. at - 1 = d
      BY <1>8, <2>1
    <3> QED  BY <1>1, <1>7, <1>11, <3>1
  <2>4. at <= Len(list) /\ cmnd.prp2.a = Iod!ListAt(list[1])
    BY <1>1, <1>10, <2>1 DEF ListsWhole, IodInv, Chained
  <2>5. \A p \in 1 .. at - 1 : mem[list[p]][Entries - 1] = Iod!Entry(Iod!ListAt(list[p + 1]))
    <3>1. \A p \in 1 .. at - 1 : p \in 1 .. Len(list) - 1
      BY <1>1, <1>2, <1>8, <1>10, <2>1
    <3> QED  BY <3>1 DEF IodInv, Chained
  <2>6. Iod!ListEntry(k, n) = mem[list[at]][k - 1 - (at - 1) * (Entries - 1)]
    BY <2>2, <2>4, <2>5, Zenon DEF Iod!ListEntry
  <2> QED  BY <2>1, <2>3, <2>6
<1> QED  BY <1>1, <1>15, <1>16

(* What the device reads, page by page.                                    *)
LEMMA PageRead ==
  ASSUME IodInv, ReadsInv, iodPc = "sent", NEW k \in 1 .. Iod!PagesOf(rq), NEW e, e = Iod!DeviceReads[k]
  PROVE  /\ e.a = Iod!PageAddr(rq, k - 1)
         /\ NoErrors => e.bad = FALSE
         /\ rq.kind = "user" /\ rq.error = "prp1" /\ k = 1 => e.bad = TRUE
         /\ Iod!PagesOf(rq) > 2 /\ k > 1 => (ErrorAt(k - 1) => e.bad = TRUE)
<1>1. PICK n : n = Iod!PagesOf(rq)
  OBVIOUS
<1>2. rq \in Transfers /\ n \in Nat \ {0} /\ k \in 1 .. n
  BY <1>1, PagesAre DEF IodInv
<1>3. e = IF k = 1 THEN cmnd.prp1 ELSE IF n = 2 THEN cmnd.prp2 ELSE Iod!ListEntry(k - 1, n - 1)
  BY <1>1 DEF Iod!DeviceReads
<1>4. /\ cmnd = IF rq.kind = "admin" THEN Command(FALSE, FALSE) ELSE Command(rq.error = "prp1", rq.error = "prp2")
      /\ (Listed > PageUnits => ListsWhole)
      /\ (Listed \in 1 .. PageUnits => firstDma = Iod!PageAddr(rq, 1))
  BY DEF ReadsInv, Built
<1>5. PICK bad1, bad2 : cmnd = [prp1 |-> [a |-> Iod!SegAddr(rq, 1), bad |-> bad1], prp2 |-> [a |-> firstDma, bad |-> bad2]]
                        /\ (NoErrors => bad1 = FALSE /\ bad2 = FALSE)
                        /\ (rq.kind = "user" /\ rq.error = "prp1" => bad1 = TRUE)
  <2>1. CASE rq.kind = "admin"
    BY <1>4, <2>1 DEF Command
  <2>2. CASE rq.kind # "admin"
    <3>1. PICK bad1, bad2 : bad1 = (rq.error = "prp1") /\ bad2 = (rq.error = "prp2")
      OBVIOUS
    <3>2. cmnd = Command(bad1, bad2)
      BY <1>4, <2>2, <3>1, Zenon
    <3>3. NoErrors => rq.error = "none"
      <4>1. rq \in Iod!Transfer /\ Iod!WellFormed(rq)
        BY <1>2, IodAssumption
      <4>2. rq.kind \in {"rw", "discard", "user", "admin"} /\ (rq.kind \in {"rw", "discard"} => rq.error = "none")
        BY <4>1 DEF Iod!Transfer, Iod!WellFormed
      <4> QED  BY <2>2, <4>2 DEF NoErrors, Iod!IsUser
    <3>4. (rq.error = "none" => bad1 = FALSE /\ bad2 = FALSE) /\ (rq.error = "prp1" => bad1 = TRUE)
      BY <3>1
    <3> QED  BY <3>2, <3>3, <3>4 DEF Command
  <2> QED  BY <2>1, <2>2
<1>6. CASE k = 1
  <2>1. e = [a |-> Iod!SegAddr(rq, 1), bad |-> bad1] /\ k - 1 = 0
    BY <1>3, <1>5, <1>6
  <2> QED  BY <1>2, <1>5, <1>6, <2>1, FirstPageAt
<1>7. PICK u, all : u = PageUnits /\ all = rq.off + rq.len
  OBVIOUS
<1>8. u \in Nat \ {0} /\ all \in Nat /\ u * (n - 1) < all /\ all <= u * n /\ Listed = all - u
  <2>1. rq.off \in Nat /\ rq.len \in Nat /\ PageUnits \in Nat \ {0}
    BY <1>2, TransferShape
  <2> QED  BY <1>1, <1>2, <1>7, <2>1, PagesAre DEF Listed
<1>9. CASE k # 1 /\ n = 2
  <2>1. u * (2 - 1) = u /\ u * 2 = u + u
    BY <1>8
  <2>2. Listed \in 1 .. u
    BY <1>8, <1>9, <2>1
  <2>3. firstDma = Iod!PageAddr(rq, 1) /\ k - 1 = 1
    BY <1>2, <1>4, <1>7, <1>9, <2>2
  <2>4. e = [a |-> firstDma, bad |-> bad2]
    BY <1>3, <1>5, <1>9
  <2>5. ~(n > 2)
    BY <1>9
  <2> QED  BY <1>1, <1>5, <1>9, <2>3, <2>4, <2>5
<1>10. CASE k # 1 /\ n # 2
  <2>1. n > 2
    BY <1>2, <1>10
  <2>2. Listed > u
    <3>1. 2 * u <= (n - 1) * u
      <4>1. 2 \in Nat /\ n - 1 \in Nat /\ 2 <= n - 1 /\ u \in Nat
        BY <1>2, <1>8, <2>1
      <4> QED  BY <4>1, ProductMonotone
    <3>2. 2 * u = u + u /\ (n - 1) * u = u * (n - 1) /\ u * (n - 1) \in Int
      BY <1>2, <1>8
    <3> QED  BY <1>8, <3>1, <3>2
  <2>3. ListsWhole /\ Written = n - 1
    BY <1>1, <1>4, <1>7, <2>2 DEF ListsWhole
  <2>4. k - 1 \in 1 .. Written /\ cmnd.prp2.a = firstDma
    BY <1>2, <1>5, <1>10, <2>3
  <2>5. EntryRight(k - 1, Iod!ListEntry(k - 1, Written))
    BY <2>3, <2>4, EntryFound
  <2>6. e = Iod!ListEntry(k - 1, Written)
    BY <1>3, <1>10, <2>3
  <2>7. EntryRight(k - 1, e)
    BY <2>5, <2>6
  <2> QED  BY <1>10, <2>7 DEF EntryRight
<1> QED  BY <1>6, <1>9, <1>10

LEMMA ReadAsMeant ==
  ASSUME IodInv, ReadsInv
  PROVE  Iod!DeviceReadsTransfer
<1>1. SUFFICES ASSUME iodPc = "sent"
               PROVE  /\ [k \in DOMAIN Iod!DeviceReads |-> Iod!DeviceReads[k].a] = Iod!Expected(rq)
                      /\ rq.pi /\ rq.write => tags = "disk"
                      /\ Iod!ErrorsAsAsked
  BY DEF Iod!DeviceReadsTransfer
<1>2. PICK n : n = Iod!PagesOf(rq)
  OBVIOUS
<1>3. PICK reads : reads = Iod!DeviceReads
  OBVIOUS
<1>4. n \in Nat \ {0} /\ DOMAIN reads = 1 .. n
  <2>1. n \in Nat \ {0}
    BY <1>2, PagesAre DEF IodInv
  <2> QED  BY <1>2, <1>3, <2>1 DEF Iod!DeviceReads
<1>5. \A k \in 1 .. n :
        /\ reads[k].a = Iod!PageAddr(rq, k - 1)
        /\ NoErrors => reads[k].bad = FALSE
        /\ rq.kind = "user" /\ rq.error = "prp1" /\ k = 1 => reads[k].bad = TRUE
        /\ n > 2 /\ k > 1 => (ErrorAt(k - 1) => reads[k].bad = TRUE)
  BY <1>1, <1>2, <1>3, PageRead
<1>6. [k \in DOMAIN Iod!DeviceReads |-> Iod!DeviceReads[k].a] = Iod!Expected(rq)
  <2>1. Iod!Expected(rq) = [k \in 1 .. n |-> Iod!PageAddr(rq, k - 1)]
    BY <1>2 DEF Iod!Expected
  <2>2. [k \in DOMAIN reads |-> reads[k].a] = [k \in 1 .. n |-> Iod!PageAddr(rq, k - 1)]
    BY <1>4, <1>5
  <2> QED  BY <1>3, <2>1, <2>2
<1>7. rq.pi /\ rq.write => tags = "disk"
  BY <1>1 DEF ReadsInv, Built
<1>8. Iod!ErrorsAsAsked
  <2>1. PICK wrongs : wrongs = {k \in DOMAIN Iod!DeviceReads : Iod!DeviceReads[k].bad}
    OBVIOUS
  <2>2. \A k \in 1 .. n : (reads[k].bad = TRUE => k \in wrongs) /\ (reads[k].bad = FALSE => k \notin wrongs)
    BY <1>3, <1>4, <2>1
  <2>3. wrongs \subseteq 1 .. n
    BY <1>3, <1>4, <2>1
  <2>4. NoErrors => wrongs = {}
    BY <1>5, <2>2, <2>3
  <2>5. rq.kind = "user" /\ rq.error = "prp1" => 1 \in wrongs
    BY <1>4, <1>5, <2>2
  <2>6. rq.kind = "user" /\ rq.error = "entry" /\ n > 2 /\ rq.index + 2 <= n /\ rq.index < Entries
          => rq.index + 2 \in wrongs
    <3>1. SUFFICES ASSUME rq.kind = "user", rq.error = "entry", n > 2, rq.index + 2 <= n, rq.index < Entries
                   PROVE  rq.index + 2 \in wrongs
      OBVIOUS
    <3>2. PICK x \in Nat : x = rq.index
      BY IodAssumption DEF Iod!Transfer, IodInv
    <3>3. x + 2 \in 1 .. n /\ x + 2 > 1 /\ x + 2 - 1 = x + 1
      BY <1>4, <3>1, <3>2
    <3>4. ErrorAt(x + 2 - 1)
      BY <3>1, <3>2, <3>3 DEF ErrorAt
    <3> QED  BY <1>5, <2>2, <3>1, <3>2, <3>3, <3>4
  <2> QED  BY <1>2, <2>1, <2>4, <2>5, <2>6, Zenon DEF Iod!ErrorsAsAsked, NoErrors
<1> QED  BY <1>6, <1>7, <1>8

(* Whatever the transfers are, of however many segments and through        *)
(* however many lists: the device reads their pages once and in order, and *)
(* the errors that were asked for, and only these.                         *)
THEOREM TransferRead == ComponentsSpec => []DeviceReadsTransfer
<1>1. Iod!Init => IodInv /\ ReadsInv
  BY IodStart, ReadsStart
<1>2. IodInv /\ ReadsInv /\ [Iod!Next]_(Iod!vars) => (IodInv /\ ReadsInv)'
  BY IodStep, ReadsStep
<1>3. IodInv /\ ReadsInv => DeviceReadsTransfer
  BY ReadAsMeant DEF DeviceReadsTransfer
<1> QED  BY <1>1, <1>2, <1>3, IodPart, PTL

-----------------------------------------------------------------------------
(* kw_ioctl's menus.  What the items are.                                  *)
Folders == {"driver", "ioctl", "admin", "io", "tool"}
QueueItems == {"CREATE_SQ", "CREATE_CQ", "DELETE_SQ", "DELETE_CQ"}
OtherAdmin == {"GET_LOG", "IDENTIFY", "ABORT", "GET_FEATURE", "SET_FEATURE", "ASYNC_EVENT", "FW_ACTIVATE",
               "FW_DOWNLOAD"}
SubmisItems == {"WRITE", "READ", "FLUSH", "COMPARE"}
DriverItems == {"REPLACE", "VERSION", "LIST_MODULE", "LIST_NODE"}
IoctlItems == {"AUTO_LOCK", "SCAN", "LOCK", "GET_CR", "note"}
ToolItems == {"IOMETER", "COMPLIANCE"}

ItemsIn(m) ==
  CASE m = "root" -> Folders \union {"EXIT"}
    [] m = "driver" -> DriverItems
    [] m = "ioctl" -> IoctlItems
    [] m = "admin" -> {"CONFIG_QUEUE"} \union QueueItems \union OtherAdmin
    [] m = "io" -> SubmisItems
    [] m = "tool" -> ToolItems

LEMMA MenusAre == Menu!Menus = {"root"} \union Folders
BY DEF Menu!Menus, Menu!Items, Folders

LEMMA ItemsAre ==
  ASSUME NEW m \in {"root"} \union Folders
  PROVE  Menu!Range(Menu!Items[m]) = ItemsIn(m)
<1>1. CASE m = "root"
  BY <1>1 DEF Menu!Items, ItemsIn, Folders, Menu!Range
<1>2. CASE m = "driver"
  BY <1>2 DEF Menu!Items, ItemsIn, DriverItems, Menu!Range
<1>3. CASE m = "ioctl"
  BY <1>3 DEF Menu!Items, ItemsIn, IoctlItems, Menu!Range
<1>4. CASE m = "admin"
  BY <1>4 DEF Menu!Items, ItemsIn, QueueItems, OtherAdmin, Menu!Range
<1>5. CASE m = "io"
  BY <1>5 DEF Menu!Items, ItemsIn, SubmisItems, Menu!Range
<1>6. CASE m = "tool"
  BY <1>6 DEF Menu!Items, ItemsIn, ToolItems, Menu!Range
<1> QED  BY <1>1, <1>2, <1>3, <1>4, <1>5, <1>6 DEF Folders

AllItems == UNION {ItemsIn(m) : m \in {"root"} \union Folders}

LEMMA SetsAre ==
  /\ Menu!Driver = DriverItems /\ Menu!Ioctl = IoctlItems \ {"note"}
  /\ Menu!Admin = {"CONFIG_QUEUE"} \union QueueItems \union OtherAdmin
  /\ Menu!Submis = SubmisItems /\ Menu!Tool = ToolItems
  /\ Menu!Names = AllItems
<1>1. \A m \in {"root"} \union Folders : Menu!Range(Menu!Items[m]) = ItemsIn(m)
  BY ItemsAre
<1>2. /\ Menu!Driver = Menu!Range(Menu!Items["driver"]) /\ Menu!Ioctl = Menu!Range(Menu!Items["ioctl"]) \ {"note"}
      /\ Menu!Admin = Menu!Range(Menu!Items["admin"]) /\ Menu!Submis = Menu!Range(Menu!Items["io"])
      /\ Menu!Tool = Menu!Range(Menu!Items["tool"])
  BY DEF Menu!Driver, Menu!Ioctl, Menu!Admin, Menu!Submis, Menu!Tool
<1>3. Menu!Names = AllItems
  BY <1>1, MenusAre DEF Menu!Names, AllItems
<1> QED  BY <1>1, <1>2, <1>3 DEF ItemsIn, Folders

(* The attributes: which items are a folder, a task or only a text.        *)
Attributes == [Menu!Names -> {"folder", "task", "string"}]

LEMMA NamesAre ==
  Menu!Names = Folders \union {"EXIT", "CONFIG_QUEUE"} \union DriverItems \union IoctlItems \union QueueItems
                 \union OtherAdmin \union SubmisItems \union ToolItems
<1>1. AllItems = ItemsIn("root") \union ItemsIn("driver") \union ItemsIn("ioctl") \union ItemsIn("admin")
                   \union ItemsIn("io") \union ItemsIn("tool")
  BY DEF AllItems, Folders
<1>2. /\ ItemsIn("root") = Folders \union {"EXIT"} /\ ItemsIn("driver") = DriverItems
      /\ ItemsIn("ioctl") = IoctlItems /\ ItemsIn("io") = SubmisItems /\ ItemsIn("tool") = ToolItems
      /\ ItemsIn("admin") = {"CONFIG_QUEUE"} \union QueueItems \union OtherAdmin
  BY DEF ItemsIn
<1> HIDE DEF AllItems
<1> QED  BY <1>1, <1>2, SetsAre

LEMMA Changed ==
  ASSUME NEW a \in Attributes, NEW items, NEW to \in {"folder", "task", "string"}
  PROVE  /\ Menu!Change(a, items, to) \in Attributes
         /\ \A n \in Menu!Names : Menu!Change(a, items, to)[n] = IF n \in items THEN to ELSE a[n]
BY DEF Menu!Change, Attributes

LEMMA RootSwapped ==
  ASSUME NEW a \in Attributes, NEW open \in SUBSET {"admin", "io", "tool"}
  PROVE  /\ Menu!RootSwap(a, open) \in Attributes
         /\ \A n \in Menu!Names :
              Menu!RootSwap(a, open)[n] = IF n \in {"admin", "io", "tool"}
                                          THEN IF n \in open THEN "folder" ELSE "string"
                                          ELSE a[n]
<1> DEFINE closed == Menu!Change(a, {"admin", "io", "tool"} \ open, "string")
<1>1. closed \in Attributes
      /\ \A n \in Menu!Names : closed[n] = IF n \in {"admin", "io", "tool"} \ open THEN "string" ELSE a[n]
  BY Changed
<1>2. Menu!RootSwap(a, open) = Menu!Change(closed, open, "folder")
  BY DEF Menu!RootSwap
<1> HIDE DEF closed
<1>3. /\ Menu!Change(closed, open, "folder") \in Attributes
      /\ \A n \in Menu!Names : Menu!Change(closed, open, "folder")[n] = IF n \in open THEN "folder" ELSE closed[n]
  BY <1>1, Changed
<1> QED  BY <1>1, <1>2, <1>3

LEMMA LockEnabled ==
  ASSUME NEW a \in Attributes, NEW en \in BOOLEAN
  PROVE  /\ Menu!LockEnable(a, en) \in Attributes
         /\ \A n \in Menu!Names :
              Menu!LockEnable(a, en)[n] = IF n \in {"AUTO_LOCK", "LOCK"} THEN IF en THEN "task" ELSE "string" ELSE a[n]
BY Changed DEF Menu!LockEnable

(* The menu of admin commands for a device without queues, with the admin  *)
(* queue alone, and with the driver's own I/O queues.                      *)
AdminTask(n, mode) ==
  CASE mode = "QUEUE_INIT" -> n = "CONFIG_QUEUE"
    [] mode = "ALL" -> n \in QueueItems \union (OtherAdmin \ {"ASYNC_EVENT"})
    [] mode = "STANDARD" -> n \in OtherAdmin \ {"ASYNC_EVENT"}

LEMMA AdminSwapped ==
  ASSUME NEW a \in Attributes, NEW mode \in {"QUEUE_INIT", "ALL", "STANDARD"}
  PROVE  /\ Menu!AdminSwap(a, mode) \in Attributes
         /\ \A n \in Menu!Names :
              Menu!AdminSwap(a, mode)[n] = IF n \in Menu!Admin THEN IF AdminTask(n, mode) THEN "task" ELSE "string"
                                           ELSE a[n]
<1> DEFINE init == mode = "QUEUE_INIT"
           first == Menu!Change(a, {"CONFIG_QUEUE"}, IF init THEN "task" ELSE "string")
           all == Menu!Change(first, Menu!Admin \ {"CONFIG_QUEUE"}, IF init THEN "string" ELSE "task")
           std == Menu!Change(all, {"DELETE_SQ", "CREATE_SQ", "DELETE_CQ", "CREATE_CQ"}, "string")
           base == IF mode = "STANDARD" THEN std ELSE all
<1>1. Menu!AdminSwap(a, mode) = Menu!Change(base, {"ASYNC_EVENT"}, "string")
  BY DEF Menu!AdminSwap
<1>2. first \in Attributes
      /\ \A n \in Menu!Names : first[n] = IF n = "CONFIG_QUEUE" THEN IF init THEN "task" ELSE "string" ELSE a[n]
  BY Changed
<1> HIDE DEF first
<1>3. all \in Attributes
      /\ \A n \in Menu!Names : all[n] = IF n \in Menu!Admin \ {"CONFIG_QUEUE"} THEN IF init THEN "string" ELSE "task"
                                        ELSE first[n]
  BY <1>2, Changed
<1> HIDE DEF all
<1>4. std \in Attributes /\ \A n \in Menu!Names : std[n] = IF n \in QueueItems THEN "string" ELSE all[n]
  BY <1>3, Changed DEF QueueItems
<1> HIDE DEF std
<1>5. base \in Attributes
  BY <1>3, <1>4
<1>6. /\ Menu!Change(base, {"ASYNC_EVENT"}, "string") \in Attributes
      /\ \A n \in Menu!Names : Menu!Change(base, {"ASYNC_EVENT"}, "string")[n] = IF n = "ASYNC_EVENT" THEN "string" ELSE base[n]
  BY <1>5, Changed
<1>7. ASSUME NEW n \in Menu!Names, n \notin Menu!Admin
      PROVE  n # "CONFIG_QUEUE" /\ n # "ASYNC_EVENT" /\ n \notin QueueItems
  BY <1>7, SetsAre DEF OtherAdmin
<1>8. ASSUME NEW n \in Menu!Admin
      PROVE  n \in {"CONFIG_QUEUE"} \union QueueItems \union OtherAdmin
  BY SetsAre
<1>9. "CONFIG_QUEUE" \notin QueueItems \union OtherAdmin /\ "ASYNC_EVENT" \notin QueueItems
      /\ QueueItems \intersect OtherAdmin = {}
  BY DEF QueueItems, OtherAdmin
<1>10. ASSUME NEW n \in Menu!Names
       PROVE  Menu!Change(base, {"ASYNC_EVENT"}, "string")[n] =
                IF n \in Menu!Admin THEN IF AdminTask(n, mode) THEN "task" ELSE "string" ELSE a[n]
  <2>1. CASE n \notin Menu!Admin
    BY <1>2, <1>3, <1>4, <1>6, <1>7, <2>1
  <2>2. CASE n \in Menu!Admin
    <3>1. CASE n = "CONFIG_QUEUE"
      <4>1. n \notin QueueItems /\ n \notin OtherAdmin /\ n # "ASYNC_EVENT"
        BY <1>9, <3>1
      <4>2. base[n] = first[n]
        BY <1>3, <1>4, <3>1, <4>1
      <4>3. AdminTask(n, mode) <=> init
        BY <3>1, <4>1 DEF AdminTask
      <4> QED  BY <1>2, <1>6, <2>2, <3>1, <4>1, <4>2, <4>3
    <3>2. CASE n \in QueueItems
      <4>1. n # "CONFIG_QUEUE" /\ n \notin OtherAdmin /\ n # "ASYNC_EVENT"
        BY <1>9, <3>2
      <4>2. base[n] = IF mode = "ALL" THEN "task" ELSE "string"
        BY <1>3, <1>4, <2>2, <3>2, <4>1
      <4>3. AdminTask(n, mode) <=> mode = "ALL"
        BY <3>2, <4>1 DEF AdminTask
      <4> QED  BY <1>6, <2>2, <4>1, <4>2, <4>3
    <3>3. CASE n \in OtherAdmin
      <4>1. n # "CONFIG_QUEUE" /\ n \notin QueueItems
        BY <1>9, <3>3
      <4>2. base[n] = IF init THEN "string" ELSE "task"
        BY <1>3, <1>4, <2>2, <4>1
      <4>3. AdminTask(n, mode) <=> ~init /\ n # "ASYNC_EVENT"
        BY <3>3, <4>1 DEF AdminTask
      <4> QED  BY <1>6, <2>2, <4>2, <4>3
    <3> QED  BY <1>8, <2>2, <3>1, <3>2, <3>3
  <2> QED  BY <2>1, <2>2
<1> QED  BY <1>1, <1>6, <1>10

-----------------------------------------------------------------------------
(* The inductive invariant.  Where the menus stand: *)
MenuTypes ==
  /\ \/ path = <<"root">> /\ node = <<>>
     \/ \E m \in Folders, k \in 0 .. 5 : path = <<"root", m>> /\ node = <<k>>
  /\ pos \in 0 .. Len(Menu!Items[Menu!Menu]) - 1
  /\ par \in Seq(Nat) /\ step \in Nat

(* the menus that are open, or whose folder can be entered, and the items  *)
(* in them fit the driver and the device;                                  *)
AdminReady ==
  /\ menuDriver = "kw"
  /\ \/ menuDev = "mapped" /\ \A n \in QueueItems \union OtherAdmin : attr[n] # "task"
     \/ menuDev = "queues" /\ attr["CONFIG_QUEUE"] # "task"
     \/ menuDev = "ready" /\ \A n \in {"CONFIG_QUEUE"} \union QueueItems : attr[n] # "task"

DeviceInv ==
  /\ attr \in Attributes
  /\ \A n \in Folders \union {"note"} : attr[n] # "task"
  /\ \A n \in Menu!Names \ Folders : attr[n] # "folder"
  /\ attr["admin"] = "folder" \/ Menu!Menu = "admin" => AdminReady
  /\ attr["io"] = "folder" \/ Menu!Menu = "io" => menuDriver = "kw" /\ menuDev = "ready"
  /\ attr["LOCK"] = "task" \/ attr["AUTO_LOCK"] = "task" => ~mine
  /\ mine \in BOOLEAN /\ (mine => menuDriver = "kw")
  /\ orphan = FALSE /\ relock = FALSE

(* the operation that is to run is an item of the menu that is still a     *)
(* task, but for the direct ones, *)
OpFits ==
  "CLOSE" \notin menuFlags =>
    \/ op \in {"none", "COMMAND"}
    \/ Menu!Menu = "root" /\ op \in {"REPLACE", "AUTO_LOCK", "EXIT"}
    \/ Menu!Menu # "root" /\ op \in ItemsIn(Menu!Menu) /\ attr[op] = "task"

(* and has its parameters when it runs;                                    *)
OpHasParameters ==
  /\ op # "none" => menuFlags \intersect {"RUNNING", "WAIT_PARAMETER", "CLOSE"} # {}
  /\ "ANSWER" \in menuFlags => "RUNNING" \in menuFlags /\ ("CLOSE" \in menuFlags \/ op = "COMMAND")
  /\ "WAIT_PARAMETER" \in menuFlags /\ "RUNNING" \notin menuFlags => menuAsked = Menu!Questions(op)
  /\ "RUNNING" \in menuFlags /\ menuFlags \intersect {"ANSWER", "CLOSE"} = {} => Menu!Reads(op) <= Len(par)

(* and while calls of main's arguments are left, nobody leaves the root.   *)
Calls == UNION {{Menu!ArgDecode(n)[k] : k \in DOMAIN Menu!ArgDecode(n)} : n \in 0 .. 3}

BootInv ==
  /\ boot \in Seq(Calls)
  /\ boot # <<>> => path = <<"root">> /\ (menuPc \in {"key", "task", "close"} => "RUNNING" \in menuFlags)
  /\ menuPc = "boot" => menuFlags \subseteq {"ANY_KEY"} /\ op = "none"

MenuInv == MenuTypes /\ DeviceInv /\ OpFits /\ OpHasParameters /\ BootInv /\ unasked = FALSE

LEMMA CallsAre ==
  ASSUME NEW c \in Calls
  PROVE  /\ c.op \in {"REPLACE", "AUTO_LOCK"} /\ c.par \in Seq(Nat)
         /\ Len(c.par) = Menu!Questions(c.op)
<1>1. PICK n \in 0 .. 3 : \E k \in DOMAIN Menu!ArgDecode(n) : c = Menu!ArgDecode(n)[k]
  BY DEF Calls
<1>2. "REPLACE" \in DriverItems /\ "AUTO_LOCK" \notin DriverItems /\ "AUTO_LOCK" \in IoctlItems \ {"note"}
  BY DEF DriverItems, IoctlItems
<1>3. Menu!Questions("REPLACE") = 1 /\ Menu!Questions("AUTO_LOCK") = 3
  BY <1>2, SetsAre DEF Menu!Questions, Menu!DriverQuestions, Menu!IoctlQuestions
<1>4. CASE n \in {0, 1}
  <2> DEFINE replace == [op |-> "REPLACE", par |-> <<0>>, ifPass |-> FALSE]
             lock == [op |-> "AUTO_LOCK", par |-> <<0, 0, n>>, ifPass |-> TRUE]
  <2>1. Menu!ArgDecode(n) = <<replace, lock>>
    BY <1>4 DEF Menu!ArgDecode
  <2>2. c = replace \/ c = lock
    <3> HIDE DEF replace, lock
    <3>1. DOMAIN <<replace, lock>> = 1 .. 2
      OBVIOUS
    <3> QED  BY <1>1, <2>1, <3>1
  <2>3. <<0>> \in Seq(Nat) /\ Len(<<0>>) = 1 /\ <<0, 0, n>> \in Seq(Nat) /\ Len(<<0, 0, n>>) = 3
    BY <1>4
  <2>4. CASE c = replace
    BY <1>3, <2>3, <2>4
  <2>5. CASE c = lock
    BY <1>3, <2>3, <2>5
  <2> QED  BY <2>2, <2>4, <2>5
<1>5. CASE n \notin {0, 1}
  <2> DEFINE choose == [op |-> "REPLACE", par |-> <<n - 1>>, ifPass |-> FALSE]
  <2>1. Menu!ArgDecode(n) = <<choose>>
    BY <1>5 DEF Menu!ArgDecode
  <2>2. c = choose
    <3> HIDE DEF choose
    <3> QED  BY <1>1, <2>1
  <2>3. n - 1 \in Nat
    BY <1>5
  <2> QED  BY <1>3, <2>2, <2>3
<1> QED  BY <1>4, <1>5

(* How many parameters a task reads, and that it reads no more than its    *)
(* questions were.                                                         *)
ReadsOf(o) ==
  IF o \in Menu!Driver THEN Menu!DriverReads(o)
  ELSE IF o \in Menu!Ioctl THEN Menu!IoctlReads(o)
  ELSE IF o \in Menu!Admin THEN Menu!AdminReads(o)
  ELSE IF o \in Menu!Submis THEN Menu!SubmisReads(o)
  ELSE IF o \in Menu!Tool THEN Menu!ToolReads(o)
  ELSE 0

LEMMA ReadsAsked ==
  ASSUME NEW o
  PROVE  ReadsOf(o) <= Menu!Questions(o) /\ Menu!Questions(o) \in Nat /\ ReadsOf(o) \in Nat
<1>1. CASE o \in Menu!Driver
  BY <1>1 DEF ReadsOf, Menu!Questions, Menu!DriverReads, Menu!DriverQuestions
<1>2. CASE o \notin Menu!Driver /\ o \in Menu!Ioctl
  BY <1>2 DEF ReadsOf, Menu!Questions, Menu!IoctlReads, Menu!IoctlQuestions
<1>3. CASE o \notin Menu!Driver \union Menu!Ioctl /\ o \in Menu!Admin
  BY <1>3 DEF ReadsOf, Menu!Questions, Menu!AdminReads, Menu!QueueReads, Menu!AdminQuestions
<1>4. CASE o \notin Menu!Driver \union Menu!Ioctl \union Menu!Admin /\ o \in Menu!Submis
  <2>1. o \in {"WRITE", "READ", "FLUSH", "COMPARE"}
    BY <1>4, SetsAre DEF SubmisItems
  <2> QED  BY <1>4, <2>1 DEF ReadsOf, Menu!Questions, Menu!SubmisReads, Menu!SubmisQuestions
<1>5. CASE o \notin Menu!Driver \union Menu!Ioctl \union Menu!Admin \union Menu!Submis
  BY <1>5 DEF ReadsOf, Menu!Questions, Menu!ToolReads, Menu!ToolQuestions, Menu!SystemQuestions
<1> QED  BY <1>1, <1>2, <1>3, <1>4, <1>5

LEMMA NoItems ==
  \A o \in {"COMMAND", "none"} :
    o \notin Menu!Driver \union Menu!Ioctl \union Menu!Admin \union Menu!Submis \union Menu!Tool
BY SetsAre DEF DriverItems, IoctlItems, QueueItems, OtherAdmin, SubmisItems, ToolItems

LEMMA ReadsAre ==
  /\ Menu!Reads(op) = IF op = "COMMAND" /\ step > 0 THEN 1 ELSE ReadsOf(op)
  /\ Menu!Reads(op)' = IF op' = "COMMAND" /\ step' > 0 THEN 1 ELSE ReadsOf(op')
BY NoItems DEF Menu!Reads, ReadsOf

LEMMA CommandIs == ReadsOf("COMMAND") = 0 /\ ReadsOf("none") = 0 /\ Menu!Questions("COMMAND") = 0
BY NoItems DEF ReadsOf, Menu!Questions, Menu!SystemQuestions

(* The menu and the item the cursor is on.                                 *)
LEMMA MenuIs ==
  ASSUME MenuTypes
  PROVE  /\ path = <<"root">> => Menu!Menu = "root"
         /\ \A m : path = <<"root", m>> => Menu!Menu = m
         /\ Menu!Menu \in {"root"} \union Folders
         /\ Menu!Item \in ItemsIn(Menu!Menu) /\ Menu!Item \in Menu!Names
<1>1. path = <<"root">> => Menu!Menu = "root"
  BY DEF Menu!Menu
<1>2. \A m : path = <<"root", m>> => Menu!Menu = m
  BY DEF Menu!Menu
<1>3. Menu!Menu \in {"root"} \union Folders
  BY <1>1, <1>2 DEF MenuTypes
<1>4. Menu!Item \in Menu!Range(Menu!Items[Menu!Menu])
  <2>1. \A m \in {"root"} \union Folders : \A k \in 1 .. Len(Menu!Items[m]) : k \in DOMAIN Menu!Items[m]
    BY DEF Menu!Items, Folders
  <2>2. Len(Menu!Items[Menu!Menu]) \in Nat
    BY <1>3 DEF Menu!Items, Folders
  <2>3. pos + 1 \in 1 .. Len(Menu!Items[Menu!Menu])
    BY <2>2 DEF MenuTypes
  <2> QED  BY <1>3, <2>1, <2>3 DEF Menu!Item, Menu!Range
<1>5. Menu!Item \in ItemsIn(Menu!Menu)
  BY <1>3, <1>4, ItemsAre
<1> QED  BY <1>1, <1>2, <1>3, <1>5, SetsAre DEF AllItems

LEMMA SameMenu ==
  ASSUME path' = path
  PROVE  Menu!Menu' = Menu!Menu
BY DEF Menu!Menu

-----------------------------------------------------------------------------
LEMMA MenuStart ==
  ASSUME Menu!Init
  PROVE  MenuInv
<1> USE DEF Menu!Init
<1>1. Menu!Menu = "root"
  BY DEF Menu!Menu
<1>2. MenuTypes
  <2>1. pos \in 0 .. Len(Menu!Items[Menu!Menu]) - 1
    BY <1>1 DEF Menu!Items
  <2> QED  BY <2>1 DEF MenuTypes
<1>3. DeviceInv
  <2>1. attr \in Attributes
    BY DEF Attributes, Menu!Compiled
  <2>2. \A n \in Menu!Names : attr[n] = Menu!Compiled(n)
    OBVIOUS
  <2>3. \A n \in Folders \union {"note"} : Menu!Compiled(n) # "task"
    BY DEF Menu!Compiled, Folders
  <2>4. \A n \in Menu!Names \ Folders : Menu!Compiled(n) # "folder"
    BY DEF Menu!Compiled, Folders
  <2>5. /\ Menu!Compiled("admin") = "string" /\ Menu!Compiled("io") = "string"
        /\ Folders \union {"note", "admin", "io", "LOCK", "AUTO_LOCK"} \subseteq Menu!Names
    BY NamesAre DEF Menu!Compiled, Folders, IoctlItems
  <2> QED  BY <1>1, <2>1, <2>2, <2>3, <2>4, <2>5 DEF DeviceInv
<1>4. OpFits /\ OpHasParameters
  BY DEF OpFits, OpHasParameters
<1>5. BootInv
  BY MenuAssumption DEF BootInv, Calls
<1> QED  BY <1>2, <1>3, <1>4, <1>5 DEF MenuInv

(* The device and the menus while a key is handled.                        *)
KeyKeeps == UNCHANGED <<boot, menuDriver, menuDev, mine, relock, orphan, unasked>>

LEMMA DeviceKept ==
  ASSUME DeviceInv, KeyKeeps, attr' = attr,
         Menu!Menu' \in {Menu!Menu, "root", "driver", "ioctl", "tool"} \/ attr[Menu!Menu'] = "folder"
  PROVE  DeviceInv'
BY DEF DeviceInv, KeyKeeps, AdminReady

(* A key that only changes the flags: it may close, and end the help or a  *)
(* page that waits for a key.                                              *)
LEMMA FlagsSet ==
  ASSUME MenuInv, menuPc = "key", menuPc' \in {"task", "exit"}, KeyKeeps,
         UNCHANGED <<path, node, pos, attr, op, step, menuAsked, par>>,
         menuFlags \intersect {"RUNNING", "WAIT_PARAMETER", "CLOSE", "ANSWER"} \subseteq menuFlags',
         menuFlags' \intersect {"RUNNING", "WAIT_PARAMETER", "ANSWER"} \subseteq menuFlags
  PROVE  MenuInv'
<1> USE DEF MenuInv
<1>1. Menu!Menu' = Menu!Menu
  BY SameMenu
<1>2. MenuTypes'
  BY <1>1 DEF MenuTypes
<1>3. DeviceInv'
  BY <1>1, DeviceKept
<1>4. OpFits'
  BY <1>1 DEF OpFits
<1>5. OpHasParameters'
  BY ReadsAre DEF OpHasParameters
<1>6. BootInv'
  BY DEF BootInv, KeyKeeps
<1>7. unasked' = FALSE
  BY DEF KeyKeeps
<1> QED  BY <1>2, <1>3, <1>4, <1>5, <1>6, <1>7

LEMMA Answered ==
  ASSUME MenuInv, menuPc = "key", menuPc' = "task", KeyKeeps,
         menuFlags \intersect {"ANSWER", "WAIT_PARAMETER"} # {},
         "RUNNING" \in menuFlags => "ANSWER" \in menuFlags,
         NEW v \in 0 .. MaxAnswer, Menu!AnswerQuestion(v)
  PROVE  MenuInv'
<1> USE DEF MenuInv
<1>0. MaxAnswer \in Nat
  BY MenuAssumption
<1>1. Menu!Menu' = Menu!Menu
  BY SameMenu DEF Menu!AnswerQuestion
<1>2. par' \in Seq(Nat) /\ Len(par') = Len(par) + 1 /\ Len(par) \in Nat
  BY <1>0 DEF MenuTypes, Menu!AnswerQuestion
<1>3. MenuTypes'
  BY <1>1, <1>2 DEF MenuTypes, Menu!AnswerQuestion
<1>4. DeviceInv'
  BY <1>1, DeviceKept DEF Menu!AnswerQuestion
<1>5. OpFits'
  BY <1>1 DEF OpFits, Menu!AnswerQuestion
<1>6. OpHasParameters'
  <2>1. UNCHANGED <<op, step, menuAsked>> /\ step \in Nat
    BY DEF Menu!AnswerQuestion, MenuTypes
  <2>2. CASE "ANSWER" \in menuFlags
    <3>1. menuFlags' = (menuFlags \ {"ANSWER"}) \union {"RUNNING"}
      BY <2>2 DEF Menu!AnswerQuestion
    <3>2. "CLOSE" \in menuFlags \/ op = "COMMAND"
      BY <2>2 DEF OpHasParameters
    <3>3. op = "COMMAND" => Menu!Reads(op)' <= Len(par')
      BY <1>2, <2>1, ReadsAre, CommandIs
    <3> QED  BY <3>1, <3>2, <3>3, <2>1 DEF OpHasParameters
  <2>3. CASE "ANSWER" \notin menuFlags /\ menuAsked = Len(par) + 1
    <3>1. menuFlags' = (menuFlags \ {"WAIT_PARAMETER"}) \union {"RUNNING"}
      BY <2>3 DEF Menu!AnswerQuestion
    <3>2. "RUNNING" \notin menuFlags /\ "WAIT_PARAMETER" \in menuFlags
      BY <2>3
    <3>3. Len(par') = Menu!Questions(op)
      BY <1>2, <2>3, <3>2 DEF OpHasParameters
    <3>4. Menu!Reads(op)' <= Len(par')
      BY <1>2, <2>1, <3>3, ReadsAre, ReadsAsked, CommandIs
    <3> QED  BY <2>1, <2>3, <3>1, <3>4 DEF OpHasParameters
  <2>4. CASE "ANSWER" \notin menuFlags /\ menuAsked # Len(par) + 1
    <3>1. menuFlags' = menuFlags /\ "RUNNING" \notin menuFlags
      BY <2>4 DEF Menu!AnswerQuestion
    <3> QED  BY <2>1, <2>4, <3>1 DEF OpHasParameters
  <2> QED  BY <2>2, <2>3, <2>4
<1>7. BootInv'
  BY DEF BootInv, KeyKeeps, Menu!AnswerQuestion
<1>8. unasked' = FALSE
  BY DEF KeyKeeps
<1> QED  BY <1>3, <1>4, <1>5, <1>6, <1>7, <1>8

(* The keys of a menu.  The state they find:                               *)
InMenu ==
  /\ menuPc = "key" /\ menuPc' = "task" /\ KeyKeeps
  /\ menuFlags \intersect {"RUNNING", "WAIT_PARAMETER", "ANY_KEY", "HELP"} = {}

LEMMA InMenuIs ==
  ASSUME MenuInv, InMenu
  PROVE  /\ "ANSWER" \notin menuFlags /\ boot = <<>> /\ boot' = <<>>
         /\ "CLOSE" \in menuFlags \/ op = "none"
BY DEF MenuInv, InMenu, OpHasParameters, BootInv, KeyKeeps

(* Moving the cursor or to another menu. *)
LEMMA Moved ==
  ASSUME MenuInv, InMenu, UNCHANGED <<attr, menuFlags, op, step, menuAsked, par>>, MenuTypes',
         Menu!Menu' \in {Menu!Menu, "root"} \/ attr[Menu!Menu'] = "folder"
  PROVE  MenuInv'
<1>1. DeviceInv'
  BY DeviceKept DEF MenuInv, InMenu
<1>2. OpFits'
  BY InMenuIs DEF OpFits
<1>3. OpHasParameters'
  BY ReadsAre DEF MenuInv, OpHasParameters
<1>4. BootInv'
  BY InMenuIs DEF MenuInv, BootInv, InMenu
<1> QED  BY <1>1, <1>2, <1>3, <1>4 DEF MenuInv, InMenu, KeyKeeps

LEMMA ItemCounts ==
  /\ \A m \in {"root"} \union Folders : Len(Menu!Items[m]) \in Nat \ {0}
  /\ Len(Menu!Items["root"]) = 6
BY DEF Menu!Items, Folders

LEMMA SubSeqWhole ==
  ASSUME NEW S, NEW s \in Seq(S), NEW n, n = Len(s)
  PROVE  SubSeq(s, 1, n) \in Seq(S) /\ Len(SubSeq(s, 1, n)) = n
OBVIOUS

LEMMA PairSteps ==
  ASSUME NEW a, NEW b
  PROVE  /\ Append(<<>>, a) = <<a>> /\ Append(<<a>>, b) = <<a, b>>
         /\ Menu!Up(<<a, b>>) = <<a>> /\ Menu!Up(<<a>>) = <<>> /\ <<a>>[Len(<<a>>)] = a
<1>1. Append(<<>>, a) = <<a>>
  OBVIOUS
<1>2. Append(<<a>>, b) = <<a, b>>
  <2> DEFINE longer == Append(<<a>>, b)  pair == <<a, b>>
  <2>1. <<a>> \in Seq({a, b}) /\ pair \in Seq({a, b}) /\ longer \in Seq({a, b})
    OBVIOUS
  <2>2. Len(longer) = 2 /\ longer[1] = a /\ longer[2] = b
    OBVIOUS
  <2>3. Len(pair) = 2 /\ pair[1] = a /\ pair[2] = b
    OBVIOUS
  <2>4. \A k \in 1 .. Len(longer) : longer[k] = pair[k]
    BY <2>2, <2>3
  <2>5. Len(longer) = Len(pair)
    BY <2>2, <2>3
  <2> HIDE DEF longer, pair
  <2>6. longer = pair
    BY <2>1, <2>4, <2>5, SeqEqual, Zenon
  <2> QED  BY <2>6 DEF longer, pair
<1>3. Menu!Up(<<a, b>>) = <<a>>
  <2> DEFINE pair == <<a, b>>
  <2>1. pair \in Seq({a, b}) /\ Len(pair) = 2 /\ pair[1] = a
    OBVIOUS
  <2>2. Menu!Up(pair) = SubSeq(pair, 1, 1)
    BY <2>1 DEF Menu!Up
  <2> HIDE DEF pair
  <2>3. SubSeq(pair, 1, 1) \in Seq({a, b}) /\ Len(SubSeq(pair, 1, 1)) = 1 /\ SubSeq(pair, 1, 1)[1] = a
    BY <2>1
  <2>4. <<a>> \in Seq({a, b}) /\ Len(<<a>>) = 1 /\ <<a>>[1] = a
    OBVIOUS
  <2>5. SubSeq(pair, 1, 1) = <<a>>
    <3> DEFINE one == <<a>>  cut == SubSeq(pair, 1, 1)
    <3>1. Len(cut) = Len(one) /\ \A k \in 1 .. Len(cut) : cut[k] = one[k]
      BY <2>3, <2>4
    <3>2. one \in Seq({a, b}) /\ cut \in Seq({a, b})
      BY <2>3, <2>4
    <3> HIDE DEF one, cut
    <3>3. cut = one
      BY <3>1, <3>2, SeqEqual, Zenon
    <3> QED  BY <3>3 DEF one, cut
  <2> QED  BY <2>2, <2>5 DEF pair
<1>4. Menu!Up(<<a>>) = <<>>
  BY DEF Menu!Up
<1>5. <<a>>[Len(<<a>>)] = a
  OBVIOUS
<1> QED  BY <1>1, <1>2, <1>3, <1>4, <1>5

LEMMA CursorMoved ==
  ASSUME MenuInv, InMenu, NEW key \in {"UP", "DOWN", "HOME", "END", "PAGE_UP", "PAGE_DOWN"}, Menu!MenuMove(key)
  PROVE  MenuInv'
<1> DEFINE max == Len(Menu!Items[Menu!Menu]) - 1
<1>1. max \in Nat
  <2>1. Menu!Menu \in {"root"} \union Folders
    BY MenuIs DEF MenuInv
  <2>2. Len(Menu!Items[Menu!Menu]) \in Nat \ {0}
    BY <2>1, ItemCounts
  <2> QED  BY <2>2
<1>2. pos \in 0 .. max /\ ReportLimited \in Nat
  BY MenuAssumption DEF MenuInv, MenuTypes
<1>3. pos' = CASE key = "UP" -> IF pos = 0 THEN max ELSE pos - 1
               [] key = "DOWN" -> IF pos = max THEN 0 ELSE pos + 1
               [] key = "HOME" -> 0
               [] key = "END" -> max
               [] key = "PAGE_UP" -> IF pos < ReportLimited THEN 0 ELSE pos - ReportLimited
               [] key = "PAGE_DOWN" -> IF max - pos < ReportLimited THEN max ELSE pos + ReportLimited
  BY DEF Menu!MenuMove
<1>4. Menu!Menu' = Menu!Menu /\ UNCHANGED <<path, node, attr, menuFlags, op, step, menuAsked, par>>
  BY SameMenu DEF Menu!MenuMove
<1>5. pos' \in 0 .. max
  <2> HIDE DEF max
  <2>1. CASE key = "UP"  BY <1>1, <1>2, <1>3, <2>1
  <2>2. CASE key = "DOWN"  BY <1>1, <1>2, <1>3, <2>2
  <2>3. CASE key \in {"HOME", "END"}  BY <1>1, <1>2, <1>3, <2>3
  <2>4. CASE key = "PAGE_UP"  BY <1>1, <1>2, <1>3, <2>4
  <2>5. CASE key = "PAGE_DOWN"  BY <1>1, <1>2, <1>3, <2>5
  <2> QED  BY <2>1, <2>2, <2>3, <2>4, <2>5
<1>6. MenuTypes'
  BY <1>4, <1>5 DEF MenuTypes, MenuInv
<1> QED  BY <1>4, <1>6, Moved

LEMMA MenuLeft ==
  ASSUME MenuInv, InMenu, Menu!MenuBack
  PROVE  MenuInv'
<1>1. PICK m \in Folders, k \in 0 .. 5 : path = <<"root", m>> /\ node = <<k>>
  BY MenuIs DEF MenuInv, MenuTypes, Menu!MenuBack
<1>2. path' = <<"root">> /\ node' = <<>> /\ pos' = k
  BY <1>1, PairSteps DEF Menu!MenuBack
<1>3. Menu!Menu' = "root"
  BY <1>2 DEF Menu!Menu
<1>4. UNCHANGED <<attr, menuFlags, op, step, menuAsked, par>>
  BY DEF Menu!MenuBack
<1>5. pos' \in 0 .. Len(Menu!Items[Menu!Menu']) - 1
  <2>1. Len(Menu!Items[Menu!Menu']) = 6
    BY <1>3, ItemCounts
  <2> QED  BY <1>1, <1>2, <2>1
<1>6. MenuTypes'
  <2>1. (Len(Menu!Items[Menu!Menu]))' = Len(Menu!Items[Menu!Menu'])
    BY DEF Menu!Items
  <2> QED  BY <1>2, <1>4, <1>5, <2>1 DEF MenuTypes, MenuInv
<1> QED  BY <1>3, <1>4, <1>6, Moved

LEMMA MenuEntered ==
  ASSUME MenuInv, InMenu, Menu!EnterFolder
  PROVE  MenuInv'
<1>1. Menu!Item \in Folders /\ Menu!Item \in ItemsIn(Menu!Menu) /\ attr[Menu!Item] = "folder"
  BY MenuIs DEF MenuInv, DeviceInv, Menu!EnterFolder
<1>2. Menu!Menu = "root"
  BY <1>1, MenuIs DEF MenuInv, ItemsIn, Folders, DriverItems, IoctlItems, QueueItems, OtherAdmin,
                      SubmisItems, ToolItems
<1>3. path = <<"root">> /\ node = <<>> /\ pos \in 0 .. 5
  <2>1. pos \in 0 .. 5
    <3>1. Len(Menu!Items[Menu!Menu]) = 6
      BY <1>2, ItemCounts
    <3>2. pos \in 0 .. Len(Menu!Items[Menu!Menu]) - 1
      BY DEF MenuInv, MenuTypes
    <3> QED  BY <3>1, <3>2
  <2>2. \A m \in Folders : path = <<"root", m>> => Menu!Menu # "root"
    BY MenuIs DEF MenuInv, Folders
  <2> QED  BY <1>2, <2>1, <2>2 DEF MenuInv, MenuTypes
<1>4. path' = <<"root", Menu!Item>> /\ node' = <<pos>> /\ pos' = 0
  BY <1>3, PairSteps DEF Menu!EnterFolder
<1>5. Menu!Menu' = Menu!Item
  BY <1>4 DEF Menu!Menu
<1>6. UNCHANGED <<attr, menuFlags, op, step, menuAsked, par>>
  BY DEF Menu!EnterFolder
<1>7. pos' \in 0 .. Len(Menu!Items[Menu!Menu']) - 1
  <2>1. Len(Menu!Items[Menu!Menu']) \in Nat \ {0}
    BY <1>1, <1>5, ItemCounts
  <2> QED  BY <1>4, <2>1
<1>8. MenuTypes'
  <2>1. (Len(Menu!Items[Menu!Menu]))' = Len(Menu!Items[Menu!Menu'])
    BY DEF Menu!Items
  <2> QED  BY <1>1, <1>3, <1>4, <1>6, <1>7, <2>1 DEF MenuTypes, MenuInv
<1> QED  BY <1>1, <1>5, <1>6, <1>8, Moved

(* Choosing a task, and typing a command. *)
LEMMA TaskChosen ==
  ASSUME MenuInv, InMenu, Menu!EnterTask
  PROVE  MenuInv'
<1> DEFINE it == Menu!Item
<1>1. it \in ItemsIn(Menu!Menu) /\ it \in Menu!Names /\ attr[it] = "task" /\ Menu!Menu \in {"root"} \union Folders
  BY MenuIs DEF MenuInv, Menu!EnterTask
<1>2. /\ UNCHANGED <<path, node, pos, attr, step, par>> /\ op' = it /\ menuAsked' = Menu!Questions(it)
      /\ menuFlags' = menuFlags \union {IF Menu!Questions(it) # 0 THEN "WAIT_PARAMETER" ELSE "RUNNING"}
  BY DEF Menu!EnterTask
<1>3. Menu!Menu' = Menu!Menu
  BY <1>2, SameMenu
<1>4. MenuTypes'
  BY <1>2, <1>3 DEF MenuTypes, MenuInv
<1>5. DeviceInv'
  BY <1>2, <1>3, DeviceKept DEF MenuInv, InMenu
<1> HIDE DEF it
<1>6. OpFits'
  <2>1. CASE Menu!Menu = "root"
    <3>1. it = "EXIT"
      BY <1>1, <2>1 DEF ItemsIn, MenuInv, DeviceInv
    <3> QED  BY <1>2, <1>3, <2>1, <3>1 DEF OpFits
  <2>2. CASE Menu!Menu # "root"
    BY <1>1, <1>2, <1>3, <2>2 DEF OpFits, ItemsIn
  <2> QED  BY <2>1, <2>2
<1>7. OpHasParameters'
  <2>1. "ANSWER" \notin menuFlags /\ "RUNNING" \notin menuFlags /\ "WAIT_PARAMETER" \notin menuFlags
    BY InMenuIs DEF InMenu
  <2>2. it # "COMMAND" /\ it # "none"
    BY <1>1, NamesAre DEF Folders, DriverItems, IoctlItems, QueueItems, OtherAdmin, SubmisItems, ToolItems
  <2>3. Menu!Reads(op)' = ReadsOf(it)
    BY <1>2, <2>2, ReadsAre
  <2>4. Len(par) \in Nat /\ par' = par
    BY <1>2 DEF MenuInv, MenuTypes
  <2>5. CASE Menu!Questions(it) # 0
    BY <1>2, <2>1, <2>5 DEF OpHasParameters
  <2>6. CASE Menu!Questions(it) = 0
    <3>1. Menu!Reads(op)' <= Len(par')
      BY <2>3, <2>4, <2>6, ReadsAsked
    <3> QED  BY <1>2, <2>1, <2>6, <3>1 DEF OpHasParameters
  <2> QED  BY <2>5, <2>6
<1>8. BootInv'
  BY InMenuIs DEF MenuInv, BootInv, InMenu
<1> QED  BY <1>4, <1>5, <1>6, <1>7, <1>8 DEF MenuInv, InMenu, KeyKeeps

LEMMA CommandTyped ==
  ASSUME MenuInv, InMenu, Menu!DirectTask("COMMAND", <<>>)
  PROVE  MenuInv'
<1>1. /\ UNCHANGED <<path, node, pos, attr>> /\ op' = "COMMAND" /\ step' = 0
      /\ par' = SubSeq(<<>>, 1, Menu!Questions("COMMAND"))
      /\ menuFlags' = ((menuFlags \ {"WAIT_PARAMETER"}) \union {"RUNNING"}) \union {"LOG"}
  BY DEF Menu!DirectTask
<1>2. par' = <<>>
  BY <1>1, CommandIs
<1>3. Menu!Menu' = Menu!Menu
  BY <1>1, SameMenu
<1>4. MenuTypes'
  <2>1. par' \in Seq(Nat) /\ step' \in Nat
    <3>1. <<>> \in Seq(Nat)
      OBVIOUS
    <3> QED  BY <1>1, <1>2, <3>1, Zenon
  <2> QED  BY <1>1, <1>3, <2>1 DEF MenuTypes, MenuInv
<1>5. DeviceInv'
  BY <1>1, <1>3, DeviceKept DEF MenuInv, InMenu
<1>6. OpFits'
  BY <1>1 DEF OpFits
<1>7. OpHasParameters'
  <2>1. Menu!Reads(op)' = 0 /\ Len(par') = 0
    BY <1>1, <1>2, ReadsAre, CommandIs
  <2>2. menuFlags' \intersect {"ANSWER", "WAIT_PARAMETER"} = {} /\ "RUNNING" \in menuFlags'
    BY <1>1, InMenuIs DEF InMenu
  <2>3. Menu!Reads(op)' <= Len(par')
    BY <2>1
  <2> QED  BY <2>2, <2>3 DEF OpHasParameters
<1>8. BootInv'
  BY InMenuIs DEF MenuInv, BootInv, InMenu
<1> QED  BY <1>4, <1>5, <1>6, <1>7, <1>8 DEF MenuInv, InMenu, KeyKeeps

LEMMA KeyHandled ==
  ASSUME MenuInv, Menu!Key
  PROVE  MenuInv'
<1>1. menuPc = "key" /\ KeyKeeps
  BY DEF Menu!Key, KeyKeeps
<1>2. CASE UNCHANGED <<path, node, pos, attr, menuFlags, op, step, menuAsked, par, last>> /\ menuPc' \in {"task", "exit"}
  BY <1>1, <1>2, FlagsSet
<1>3. CASE menuPc' = "task" /\ "ANY_KEY" \in menuFlags /\ Menu!AnyKey
  BY <1>1, <1>3, FlagsSet DEF Menu!AnyKey, Menu!SetFlags
<1>4. CASE menuPc' = "task" /\ "RUNNING" \in menuFlags /\ (Menu!Escape \/ ("ANSWER" \in menuFlags /\ Menu!Enter))
  <2>1. CASE Menu!Escape
    BY <1>1, <1>4, <2>1, FlagsSet DEF Menu!Escape, Menu!SetFlags
  <2>2. CASE "ANSWER" \in menuFlags /\ Menu!Enter
    BY <1>1, <1>4, <2>2, Answered DEF Menu!Enter
  <2> QED  BY <1>4, <2>1, <2>2
<1>5. CASE menuPc' = "task" /\ "HELP" \in menuFlags /\ Menu!EndHelp
  BY <1>1, <1>5, FlagsSet DEF Menu!EndHelp, Menu!SetFlags
<1>6. CASE menuPc' = "task" /\ "RUNNING" \notin menuFlags /\ "WAIT_PARAMETER" \in menuFlags /\ (Menu!Escape \/ Menu!Enter)
  <2>1. CASE Menu!Escape
    BY <1>1, <1>6, <2>1, FlagsSet DEF Menu!Escape, Menu!SetFlags
  <2>2. CASE Menu!Enter
    BY <1>1, <1>6, <2>2, Answered DEF Menu!Enter
  <2> QED  BY <1>6, <2>1, <2>2
<1>7. CASE menuPc' = "task" /\ menuFlags \intersect {"RUNNING", "WAIT_PARAMETER", "ANY_KEY", "HELP"} = {} /\ Menu!KeyWhenMenu
  <2>1. InMenu
    BY <1>1, <1>7 DEF InMenu
  <2>2. CASE \E key \in {"UP", "DOWN", "HOME", "END", "PAGE_UP", "PAGE_DOWN"} : Menu!MenuMove(key)
    BY <2>1, <2>2, CursorMoved
  <2>3. CASE Menu!SetFlags(menuFlags \union {"HELP"})
    BY <1>1, <1>7, <2>3, FlagsSet DEF Menu!SetFlags
  <2> QED  BY <1>7, <2>1, <2>2, <2>3, MenuLeft, MenuEntered, TaskChosen, CommandTyped DEF Menu!KeyWhenMenu
<1> QED  BY <1>2, <1>3, <1>4, <1>5, <1>6, <1>7 DEF Menu!Key, Menu!Quit

-----------------------------------------------------------------------------
(* The tasks.  What a task that runs has found: *)
Runs == MenuInv /\ Menu!Runs

LEMMA RunsIn ==
  ASSUME Runs
  PROVE  \/ op \in {"none", "COMMAND"}
         \/ Menu!Menu = "root" /\ op \in {"REPLACE", "AUTO_LOCK", "EXIT"}
         \/ Menu!Menu \in Folders /\ op \in ItemsIn(Menu!Menu) /\ attr[op] = "task"
<1>1. "CLOSE" \notin menuFlags /\ OpFits /\ MenuTypes
  BY DEF Runs, MenuInv, Menu!Runs
<1>2. Menu!Menu \in {"root"} \union Folders
  BY <1>1, MenuIs
<1> QED  BY <1>1, <1>2 DEF OpFits

LEMMA RunsFits ==
  ASSUME Runs
  PROVE  /\ op = "REPLACE" => Menu!Menu \in {"root", "driver"}
         /\ op \in {"LOCK", "AUTO_LOCK"} => Menu!Menu = "root" \/ (Menu!Menu = "ioctl" /\ attr[op] = "task")
         /\ op \in {"CONFIG_QUEUE"} \union QueueItems \union OtherAdmin =>
              Menu!Menu = "admin" /\ AdminReady /\ attr[op] = "task"
         /\ op \in SubmisItems => menuDriver = "kw" /\ menuDev = "ready"
<1> USE DEF DriverItems, IoctlItems, QueueItems, OtherAdmin, SubmisItems, ToolItems
<1>1. CASE op = "none"
  BY <1>1
<1>0. CASE op = "COMMAND"
  BY <1>0
<1>2. CASE Menu!Menu = "root" /\ op \in {"REPLACE", "AUTO_LOCK", "EXIT"}
  BY <1>2
<1>3. CASE Menu!Menu \in Folders /\ op \in ItemsIn(Menu!Menu) /\ attr[op] = "task"
  <2>1. CASE Menu!Menu = "driver"
    BY <1>3, <2>1 DEF ItemsIn
  <2>2. CASE Menu!Menu = "ioctl"
    BY <1>3, <2>2 DEF ItemsIn
  <2>3. CASE Menu!Menu = "admin"
    <3>1. AdminReady
      BY <2>3 DEF Runs, MenuInv, DeviceInv
    <3> QED  BY <1>3, <2>3, <3>1 DEF ItemsIn
  <2>4. CASE Menu!Menu = "io"
    <3>1. menuDriver = "kw" /\ menuDev = "ready"
      BY <2>4 DEF Runs, MenuInv, DeviceInv
    <3> QED  BY <1>3, <2>4, <3>1 DEF ItemsIn
  <2>5. CASE Menu!Menu = "tool"
    BY <1>3, <2>5 DEF ItemsIn
  <2> QED  BY <1>3, <2>1, <2>2, <2>3, <2>4, <2>5 DEF Folders
<1> QED  BY <1>0, <1>1, <1>2, <1>3, RunsIn, Zenon

(* What a task leaves behind, when it returns or ends the program. *)
TaskKeeps == UNCHANGED <<path, node, pos, op, menuAsked, par, boot>> /\ unasked' = FALSE

Returned ==
  /\ menuPc' \in {"close", "exit"} /\ step' \in Nat
  /\ \/ menuFlags' = menuFlags \union {"CLOSE"}
     \/ menuFlags' = menuFlags \union {"ANSWER"} /\ op = "COMMAND"
     \/ menuFlags' = menuFlags /\ step' = step /\ attr' = attr

LEMMA ReturnsIs ==
  ASSUME Runs, NEW r, Menu!Returns(r), r = "WAIT_ANSWER" => op = "COMMAND"
  PROVE  Returned
<1>1. step \in Nat
  BY DEF Runs, MenuInv, MenuTypes
<1>2. CASE r = "CLOSE_MENU"
  BY <1>1, <1>2 DEF Menu!Returns, Returned
<1>3. CASE r = "WAIT_ANSWER"
  BY <1>1, <1>3 DEF Menu!Returns, Returned
<1>4. CASE r \notin {"CLOSE_MENU", "WAIT_ANSWER"}
  BY <1>1, <1>4 DEF Menu!Returns, Returned
<1> QED  BY <1>2, <1>3, <1>4

LEMMA TaskLeaves ==
  ASSUME Runs, TaskKeeps, Returned, DeviceInv'
  PROVE  MenuInv'
<1> USE DEF Runs, MenuInv, TaskKeeps
<1>1. Menu!Menu' = Menu!Menu
  BY SameMenu
<1>2. MenuTypes'
  BY <1>1 DEF MenuTypes, Returned
<1>3. OpFits'
  BY <1>1 DEF OpFits, Returned
<1>4. OpHasParameters'
  <2>1. CASE menuFlags' = menuFlags \union {"CLOSE"}
    BY <2>1 DEF OpHasParameters
  <2>2. CASE menuFlags' = menuFlags \union {"ANSWER"} /\ op = "COMMAND"
    BY <2>2 DEF OpHasParameters, Menu!Runs
  <2>3. CASE menuFlags' = menuFlags /\ step' = step
    BY <2>3, ReadsAre DEF OpHasParameters
  <2> QED  BY <2>1, <2>2, <2>3 DEF Returned
<1>5. BootInv'
  <2>1. menuFlags \subseteq menuFlags' /\ "RUNNING" \in menuFlags
    BY DEF Returned, Menu!Runs
  <2> QED  BY <2>1 DEF BootInv, Returned
<1> QED  BY <1>2, <1>3, <1>4, <1>5

LEMMA ItemNames ==
  Folders \union {"note", "LOCK", "AUTO_LOCK", "CONFIG_QUEUE"} \union QueueItems \union OtherAdmin \subseteq Menu!Names
BY NamesAre DEF IoctlItems

(* A task that changes neither the menus nor the device. *)
LEMMA DeviceStays ==
  ASSUME DeviceInv, path' = path, UNCHANGED <<attr, menuDriver, menuDev, mine>>, orphan' = FALSE, relock' = FALSE
  PROVE  DeviceInv'
<1>1. Menu!Menu' = Menu!Menu
  BY SameMenu
<1> QED  BY <1>1 DEF DeviceInv, AdminReady

(* The menus after a replacement: nothing that needs a device is open.     *)
LEMMA ReplaceSwaps ==
  ASSUME DeviceInv, NEW new, NEW passed \in BOOLEAN
  PROVE  LET after == Menu!MenusAfterReplace(new, passed) IN
         /\ after \in Attributes /\ after["admin"] = "string" /\ after["io"] = "string"
         /\ \A n \in Folders \union {"note"} : after[n] # "task"
         /\ \A n \in Menu!Names \ Folders : after[n] # "folder"
         /\ \A n \in {"LOCK", "AUTO_LOCK"} : after[n] = "task" => passed \/ attr[n] = "task"
<1> DEFINE first == IF passed THEN Menu!LockEnable(attr, TRUE) ELSE attr
           kept == IF new = "kw" THEN {} ELSE {"tool"}
           after == Menu!RootSwap(first, kept)
<1>1. attr \in Attributes
  BY DEF DeviceInv
<1>2. first \in Attributes /\ \A n \in Menu!Names :
        first[n] = IF passed /\ n \in {"LOCK", "AUTO_LOCK"} THEN "task" ELSE attr[n]
  BY <1>1, LockEnabled
<1>3. kept \in SUBSET {"admin", "io", "tool"}
  OBVIOUS
<1> HIDE DEF first
<1>4. after \in Attributes /\ \A n \in Menu!Names :
        after[n] = IF n \in {"admin", "io", "tool"} THEN IF n \in kept THEN "folder" ELSE "string" ELSE first[n]
  BY <1>2, <1>3, RootSwapped
<1>5. Menu!MenusAfterReplace(new, passed) = after
  BY DEF Menu!MenusAfterReplace, first
<1> HIDE DEF after
<1>6. after["admin"] = "string" /\ after["io"] = "string"
  BY <1>4, ItemNames DEF Folders
<1>7. \A n \in Folders \union {"note"} : after[n] # "task"
  BY <1>2, <1>4, ItemNames DEF DeviceInv, Folders
<1>8. \A n \in Menu!Names \ Folders : after[n] # "folder"
  BY <1>2, <1>4 DEF DeviceInv, Folders
<1>9. \A n \in {"LOCK", "AUTO_LOCK"} : after[n] = "task" => passed \/ attr[n] = "task"
  BY <1>2, <1>4, ItemNames
<1> QED  BY <1>4, <1>5, <1>6, <1>7, <1>8, <1>9

LEMMA DriverReplaced ==
  ASSUME Runs, TaskKeeps, Menu!DriverReplace
  PROVE  MenuInv'
<1>1. op = "REPLACE" /\ Menu!Menu \in {"root", "driver"} /\ DeviceInv
  BY RunsFits DEF Menu!DriverReplace, Runs, MenuInv
<1>2. CASE par[1] > 2
  <2>1. Menu!Returns("ILLEGAL") /\ Menu!Nothing
    BY <1>2 DEF Menu!DriverReplace
  <2>2. DeviceInv'
    BY <1>1, <2>1, DeviceStays DEF Menu!Nothing, TaskKeeps, DeviceInv
  <2> QED  BY <2>1, <2>2, ReturnsIs, TaskLeaves
<1>3. CASE ~(par[1] > 2)
  <2>1. PICK removed \in BOOLEAN, installed \in BOOLEAN, answers \in BOOLEAN :
          LET new == <<"kw", "dnvme", "standard">>[par[1] + 1]
              base == IF removed THEN "none" ELSE menuDriver
              fresh == installed /\ new # "dnvme" /\ base = "none"
              passed == CASE new = "kw" -> fresh /\ answers [] OTHER -> installed
          IN /\ menuDriver' = IF fresh THEN new ELSE base
             /\ menuDev' = IF removed THEN "free" ELSE menuDev
             /\ mine' = (mine /\ ~removed)
             /\ attr' = Menu!MenusAfterReplace(new, new = "kw" /\ passed)
             /\ Menu!Returns(IF new = "standard" THEN "DO_NOTHING" ELSE IF passed THEN "PASS" ELSE "FAIL")
             /\ UNCHANGED <<relock, orphan>>
    BY <1>3 DEF Menu!DriverReplace
  <2> DEFINE new == <<"kw", "dnvme", "standard">>[par[1] + 1]
             base == IF removed THEN "none" ELSE menuDriver
             fresh == installed /\ new # "dnvme" /\ base = "none"
             passed == CASE new = "kw" -> fresh /\ answers [] OTHER -> installed
             locks == new = "kw" /\ passed
  <2>2. /\ menuDriver' = IF fresh THEN new ELSE base
        /\ mine' = (mine /\ ~removed)
        /\ attr' = Menu!MenusAfterReplace(new, locks)
        /\ Menu!Returns(IF new = "standard" THEN "DO_NOTHING" ELSE IF passed THEN "PASS" ELSE "FAIL")
        /\ UNCHANGED <<relock, orphan>>
    BY <2>1
  <2>3. locks \in BOOLEAN /\ (locks => fresh)
    OBVIOUS
  <2> HIDE DEF new
  <2>4. mine \in BOOLEAN /\ (mine => menuDriver = "kw") /\ orphan = FALSE /\ relock = FALSE
    BY <1>1 DEF DeviceInv
  <2>5. mine' \in BOOLEAN /\ (mine' => mine) /\ (mine' => ~fresh /\ menuDriver' = "kw")
    BY <2>2, <2>4
  <2>6. /\ attr' \in Attributes /\ attr'["admin"] = "string" /\ attr'["io"] = "string"
        /\ \A n \in Folders \union {"note"} : attr'[n] # "task"
        /\ \A n \in Menu!Names \ Folders : attr'[n] # "folder"
        /\ \A n \in {"LOCK", "AUTO_LOCK"} : attr'[n] = "task" => locks \/ attr[n] = "task"
    <3> HIDE DEF locks
    <3> QED  BY <1>1, <2>2, <2>3, ReplaceSwaps
  <2>7. Menu!Menu' \in {"root", "driver"}
    BY <1>1, SameMenu DEF TaskKeeps
  <2>8. attr'["LOCK"] = "task" \/ attr'["AUTO_LOCK"] = "task" => ~mine'
    <3>1. attr["LOCK"] = "task" \/ attr["AUTO_LOCK"] = "task" => ~mine
      BY <1>1 DEF DeviceInv
    <3> HIDE DEF fresh, locks
    <3> QED  BY <2>3, <2>5, <2>6, <3>1
  <2>9. DeviceInv'
    BY <2>2, <2>4, <2>5, <2>6, <2>7, <2>8 DEF DeviceInv
  <2> DEFINE r == IF new = "standard" THEN "DO_NOTHING" ELSE IF passed THEN "PASS" ELSE "FAIL"
  <2>10. Menu!Returns(r) /\ r # "WAIT_ANSWER"
    BY <2>2
  <2> HIDE DEF r
  <2> QED  BY <2>9, <2>10, ReturnsIs, TaskLeaves
<1> QED  BY <1>2, <1>3

(* The menus after a lock: no second one, and the menus the device is      *)
(* ready for.                                                              *)
LEMMA LockSwaps ==
  ASSUME DeviceInv, NEW init \in BOOLEAN
  PROVE  LET after == Menu!MenusAfterLock(init) IN
         /\ after \in Attributes
         /\ \A n \in Folders \union {"note"} : after[n] # "task"
         /\ \A n \in Menu!Names \ Folders : after[n] # "folder"
         /\ \A n \in {"LOCK", "AUTO_LOCK"} : after[n] = "string"
         /\ init \/ after["io"] = "string"
         /\ \A n \in {"CONFIG_QUEUE"} \union QueueItems \union OtherAdmin :
              after[n] = "task" => AdminTask(n, IF init THEN "STANDARD" ELSE "QUEUE_INIT")
<1> DEFINE closed == Menu!LockEnable(attr, FALSE)
           open == IF init THEN {"admin", "io"} ELSE {"admin"}
           mode == IF init THEN "STANDARD" ELSE "QUEUE_INIT"
           roots == Menu!RootSwap(closed, open)
           after == Menu!AdminSwap(roots, mode)
<1>1. attr \in Attributes
  BY DEF DeviceInv
<1>2. closed \in Attributes /\ \A n \in Menu!Names :
        closed[n] = IF n \in {"LOCK", "AUTO_LOCK"} THEN "string" ELSE attr[n]
  BY <1>1, LockEnabled
<1> HIDE DEF closed
<1>3. open \in SUBSET {"admin", "io", "tool"} /\ mode \in {"QUEUE_INIT", "ALL", "STANDARD"}
  OBVIOUS
<1>4. roots \in Attributes /\ \A n \in Menu!Names :
        roots[n] = IF n \in {"admin", "io", "tool"} THEN IF n \in open THEN "folder" ELSE "string" ELSE closed[n]
  BY <1>2, <1>3, RootSwapped
<1> HIDE DEF roots
<1>5. after \in Attributes /\ \A n \in Menu!Names :
        after[n] = IF n \in Menu!Admin THEN IF AdminTask(n, mode) THEN "task" ELSE "string" ELSE roots[n]
  BY <1>3, <1>4, AdminSwapped
<1>6. Menu!MenusAfterLock(init) = after
  BY DEF Menu!MenusAfterLock, roots, closed
<1> HIDE DEF after
<1>7. \A n \in Folders \union {"note", "LOCK", "AUTO_LOCK"} : n \in Menu!Names /\ n \notin Menu!Admin
  BY ItemNames, SetsAre DEF Folders, QueueItems, OtherAdmin
<1>8. \A n \in {"CONFIG_QUEUE"} \union QueueItems \union OtherAdmin : n \in Menu!Names /\ n \in Menu!Admin
  BY ItemNames, SetsAre
<1>9. \A n \in Folders \union {"note"} : after[n] # "task"
  BY <1>2, <1>4, <1>5, <1>7 DEF DeviceInv, Folders
<1>10. \A n \in Menu!Names \ Folders : after[n] # "folder"
  BY <1>2, <1>4, <1>5 DEF DeviceInv, Folders
<1>11. \A n \in {"LOCK", "AUTO_LOCK"} : after[n] = "string"
  BY <1>2, <1>4, <1>5, <1>7
<1>12. init \/ after["io"] = "string"
  BY <1>4, <1>5, <1>7 DEF Folders
<1>13. \A n \in {"CONFIG_QUEUE"} \union QueueItems \union OtherAdmin : after[n] = "task" => AdminTask(n, mode)
  BY <1>5, <1>8
<1> QED  BY <1>5, <1>6, <1>9, <1>10, <1>11, <1>12, <1>13

LEMMA DeviceLocked ==
  ASSUME Runs, TaskKeeps, op \in {"LOCK", "AUTO_LOCK"}, menuDriver = "kw",
         NEW init \in BOOLEAN, Menu!LockPciDevice(init)
  PROVE  MenuInv'
<1>1. DeviceInv /\ (Menu!Menu = "root" \/ (Menu!Menu = "ioctl" /\ attr[op] = "task"))
  BY RunsFits DEF Runs, MenuInv
<1>2. UNCHANGED <<menuDriver, orphan>>
  BY DEF Menu!LockPciDevice
<1>3. relock' = FALSE /\ orphan' = FALSE
  <2>1. Menu!Menu = "ioctl" => mine = FALSE
    BY <1>1 DEF DeviceInv
  <2>2. relock = FALSE /\ orphan = FALSE /\ relock' = (relock \/ (mine /\ Menu!Menu = "ioctl"))
    BY <1>1 DEF DeviceInv, Menu!LockPciDevice
  <2> QED  BY <1>2, <2>1, <2>2
<1>4. Menu!Menu' = Menu!Menu
  BY SameMenu DEF TaskKeeps
<1>5. CASE /\ menuDev = "free" /\ menuDev' = IF init THEN "ready" ELSE "mapped"
           /\ attr' = Menu!MenusAfterLock(init) /\ mine' = TRUE /\ Menu!Returns("PASS")
  <2>1. /\ attr' \in Attributes
        /\ \A n \in Folders \union {"note"} : attr'[n] # "task"
        /\ \A n \in Menu!Names \ Folders : attr'[n] # "folder"
        /\ \A n \in {"LOCK", "AUTO_LOCK"} : attr'[n] = "string"
        /\ init \/ attr'["io"] = "string"
        /\ \A n \in {"CONFIG_QUEUE"} \union QueueItems \union OtherAdmin :
             attr'[n] = "task" => AdminTask(n, IF init THEN "STANDARD" ELSE "QUEUE_INIT")
    BY <1>1, <1>5, LockSwaps
  <2>2. AdminReady'
    <3>1. CASE init
      <4>1. \A n \in {"CONFIG_QUEUE"} \union QueueItems : ~AdminTask(n, "STANDARD")
        BY DEF AdminTask, QueueItems, OtherAdmin
      <4> QED  BY <1>2, <1>5, <2>1, <3>1, <4>1 DEF AdminReady
    <3>2. CASE ~init
      <4>1. \A n \in QueueItems \union OtherAdmin : ~AdminTask(n, "QUEUE_INIT")
        BY DEF AdminTask, QueueItems, OtherAdmin
      <4> QED  BY <1>2, <1>5, <2>1, <3>2, <4>1 DEF AdminReady
    <3> QED  BY <3>1, <3>2
  <2>3. DeviceInv'
    BY <1>1, <1>2, <1>3, <1>4, <1>5, <2>1, <2>2 DEF DeviceInv
  <2> QED  BY <1>5, <2>3, ReturnsIs, TaskLeaves
<1>6. CASE UNCHANGED <<attr, menuDev, mine>> /\ Menu!Returns("FAIL")
  <2>1. DeviceInv'
    BY <1>1, <1>2, <1>3, <1>6, DeviceStays DEF TaskKeeps
  <2> QED  BY <1>6, <2>1, ReturnsIs, TaskLeaves
<1> QED  BY <1>5, <1>6 DEF Menu!LockPciDevice

LEMMA DeviceLocks ==
  ASSUME Runs, TaskKeeps, Menu!Lock \/ Menu!AutoLock
  PROVE  MenuInv'
<1>1. CASE Menu!Lock
  <2> DEFINE init == par[4] # 0
  <2>1. op \in {"LOCK", "AUTO_LOCK"} /\ menuDriver = "kw" /\ Menu!LockPciDevice(init)
    BY <1>1 DEF Menu!Lock
  <2>2. init \in BOOLEAN
    OBVIOUS
  <2> HIDE DEF init
  <2> QED  BY <2>1, <2>2, DeviceLocked
<1>2. CASE Menu!AutoLock
  <2> DEFINE init == par[3] # 0
  <2>1. op \in {"LOCK", "AUTO_LOCK"} /\ menuDriver = "kw"
    BY <1>2 DEF Menu!AutoLock
  <2>2. init \in BOOLEAN
    OBVIOUS
  <2>3. ASSUME Menu!Nothing
        PROVE  DeviceInv'
    BY <2>3, DeviceStays DEF Menu!Nothing, TaskKeeps, Runs, MenuInv, DeviceInv
  <2>4. CASE Menu!LockPciDevice(init)
    <3> HIDE DEF init
    <3> QED  BY <2>1, <2>2, <2>4, DeviceLocked
  <2>5. CASE Menu!Returns("FAIL") /\ Menu!Nothing
    BY <2>3, <2>5, ReturnsIs, TaskLeaves
  <2>6. CASE menuPc' = "exit" /\ Menu!Nothing /\ UNCHANGED <<last, menuFlags, step>>
    <3>1. Returned
      BY <2>6 DEF Returned, Menu!Nothing, Runs, MenuInv, MenuTypes
    <3> QED  BY <2>3, <2>6, <3>1, TaskLeaves
  <2> QED  BY <1>2, <2>4, <2>5, <2>6 DEF Menu!AutoLock
<1> QED  BY <1>1, <1>2

LEMMA QueuesConfigured ==
  ASSUME Runs, TaskKeeps, Menu!QueueConfig
  PROVE  MenuInv'
<1>1. op = "CONFIG_QUEUE" /\ UNCHANGED <<menuDriver, mine, relock>>
  BY DEF Menu!QueueConfig
<1>2. DeviceInv /\ Menu!Menu = "admin" /\ AdminReady /\ attr["CONFIG_QUEUE"] = "task"
  BY <1>1, RunsFits DEF Runs, MenuInv
<1>3. menuDriver = "kw" /\ menuDev = "mapped"
  BY <1>2 DEF AdminReady
<1>4. orphan' = FALSE /\ relock' = FALSE
  BY <1>1, <1>2, <1>3 DEF DeviceInv, Menu!QueueConfig
<1>5. Menu!Menu' = Menu!Menu
  BY SameMenu DEF TaskKeeps
<1>6. CASE menuDev' = "queues" /\ attr' = Menu!AdminSwap(attr, "ALL") /\ Menu!Returns("PASS")
  <2>1. attr' \in Attributes /\ \A n \in Menu!Names :
          attr'[n] = IF n \in Menu!Admin THEN IF AdminTask(n, "ALL") THEN "task" ELSE "string" ELSE attr[n]
    BY <1>2, <1>6, AdminSwapped DEF DeviceInv
  <2>2. \A n \in Folders \union {"note", "LOCK", "AUTO_LOCK"} : n \in Menu!Names /\ n \notin Menu!Admin
    BY ItemNames, SetsAre DEF Folders, QueueItems, OtherAdmin
  <2>3. "CONFIG_QUEUE" \in Menu!Names /\ "CONFIG_QUEUE" \in Menu!Admin /\ ~AdminTask("CONFIG_QUEUE", "ALL")
    BY ItemNames, SetsAre DEF AdminTask, QueueItems, OtherAdmin
  <2>4. AdminReady'
    BY <1>1, <1>3, <1>6, <2>1, <2>3 DEF AdminReady
  <2>5. attr'["io"] = attr["io"] /\ attr["io"] # "folder" /\ Menu!Menu' # "io"
    BY <1>2, <1>3, <1>5, <2>1, <2>2 DEF DeviceInv, Folders
  <2>6. \A n \in {"LOCK", "AUTO_LOCK"} : attr'[n] = attr[n]
    BY <2>1, <2>2
  <2>7. \A n \in Folders \union {"note"} : attr'[n] # "task"
    BY <1>2, <2>1, <2>2 DEF DeviceInv
  <2>8. \A n \in Menu!Names \ Folders : attr'[n] # "folder"
    BY <1>2, <2>1 DEF DeviceInv
  <2>9. DeviceInv'
    BY <1>1, <1>2, <1>4, <2>1, <2>4, <2>5, <2>6, <2>7, <2>8 DEF DeviceInv
  <2> QED  BY <1>6, <2>9, ReturnsIs, TaskLeaves
<1>7. CASE Menu!Returns("FAIL") /\ UNCHANGED <<attr, menuDev>>
  <2>1. DeviceInv'
    BY <1>1, <1>2, <1>4, <1>7, DeviceStays DEF TaskKeeps
  <2> QED  BY <1>7, <2>1, ReturnsIs, TaskLeaves
<1> QED  BY <1>6, <1>7 DEF Menu!QueueConfig

(* The commands, each only where the device takes it. *)
Commanded == UNCHANGED <<attr, menuDriver, menuDev, mine, relock>>

LEMMA CommandLeaves ==
  ASSUME Runs, TaskKeeps, Commanded, orphan' = FALSE, \E r \in {"PASS", "FAIL"} : Menu!Returns(r)
  PROVE  MenuInv'
<1>1. DeviceInv'
  BY DeviceStays DEF Commanded, TaskKeeps, Runs, MenuInv, DeviceInv
<1> QED  BY <1>1, ReturnsIs, TaskLeaves

LEMMA NothingLeaves ==
  ASSUME Runs, TaskKeeps, Menu!Nothing, NEW r, Menu!Returns(r), r = "WAIT_ANSWER" => op = "COMMAND"
  PROVE  MenuInv'
<1>1. DeviceInv'
  BY DeviceStays DEF Menu!Nothing, TaskKeeps, Runs, MenuInv, DeviceInv
<1> QED  BY <1>1, ReturnsIs, TaskLeaves

LEMMA AdminCommands ==
  ASSUME Runs, TaskKeeps, NEW o \in SUBSET OtherAdmin, Menu!AdminCommand(o)
  PROVE  MenuInv'
<1>1. op \in OtherAdmin /\ Commanded
  BY DEF Menu!AdminCommand, Commanded
<1>2. AdminReady /\ attr[op] = "task" /\ orphan = FALSE
  BY <1>1, RunsFits DEF Runs, MenuInv, DeviceInv
<1>3. menuDriver = "kw" /\ menuDev \in {"queues", "ready"}
  BY <1>1, <1>2 DEF AdminReady
<1>4. orphan' = FALSE
  BY <1>2, <1>3 DEF Menu!AdminCommand
<1> QED  BY <1>1, <1>4, CommandLeaves DEF Menu!AdminCommand

LEMMA QueueCommands ==
  ASSUME Runs, TaskKeeps, Menu!CreateDeleteQueue
  PROVE  MenuInv'
<1>1. op \in QueueItems /\ Commanded
  BY DEF Menu!CreateDeleteQueue, Commanded, QueueItems
<1>2. AdminReady /\ attr[op] = "task" /\ orphan = FALSE
  BY <1>1, RunsFits DEF Runs, MenuInv, DeviceInv
<1>3. menuDriver = "kw" /\ menuDev = "queues"
  BY <1>1, <1>2 DEF AdminReady
<1>4. orphan' = FALSE
  BY <1>2, <1>3 DEF Menu!CreateDeleteQueue
<1> QED  BY <1>1, <1>4, CommandLeaves DEF Menu!CreateDeleteQueue

LEMMA SubmisCommands ==
  ASSUME Runs, TaskKeeps, op \in SubmisItems, Menu!SubmisCommand
  PROVE  MenuInv'
<1>1. menuDriver = "kw" /\ menuDev = "ready" /\ orphan = FALSE
  BY RunsFits DEF Runs, MenuInv, DeviceInv
<1>2. orphan' = FALSE /\ Commanded
  BY <1>1 DEF Menu!SubmisCommand, Commanded
<1> QED  BY <1>2, CommandLeaves DEF Menu!SubmisCommand

LEMMA TaskRun ==
  ASSUME MenuInv, Menu!Task
  PROVE  MenuInv'
<1>1. UNCHANGED <<path, node, pos, op, menuAsked, par, boot>>
  BY DEF Menu!Task
<1>2. CASE Menu!Runs
  <2>1. Runs
    BY <1>2 DEF Runs
  <2>2. TaskKeeps
    <3>1. Menu!Reads(op) <= Len(par) /\ unasked = FALSE
      BY <1>2 DEF MenuInv, OpHasParameters, Menu!Runs
    <3>2. Menu!Reads(op) \in Nat /\ Len(par) \in Nat
      BY ReadsAre, ReadsAsked DEF MenuInv, MenuTypes
    <3>3. unasked' = (unasked \/ Len(par) < Menu!Reads(op))
      BY <1>2 DEF Menu!Task
    <3>4. ~(Len(par) < Menu!Reads(op))
      BY <3>1, <3>2
    <3> QED  BY <1>1, <3>1, <3>3, <3>4 DEF TaskKeeps
  <2>3. CASE Menu!DriverReplace
    BY <2>1, <2>2, <2>3, DriverReplaced
  <2>4. CASE Menu!DriverLook
    <3>1. op \in DriverItems /\ op # "COMMAND"
      BY <2>4, SetsAre DEF Menu!DriverLook, DriverItems
    <3>2. Menu!Nothing /\ \E r \in {"PASS", "FAIL", "DO_NOTHING"} : Menu!Returns(r)
      BY <2>4 DEF Menu!DriverLook
    <3> QED  BY <2>1, <2>2, <3>2, NothingLeaves
  <2>5. CASE Menu!IoctlRefused
    BY <2>1, <2>2, <2>5, NothingLeaves DEF Menu!IoctlRefused
  <2>6. CASE Menu!ReadCtrlReg \/ Menu!ScanPciDevice
    BY <2>1, <2>2, <2>6, NothingLeaves DEF Menu!ReadCtrlReg, Menu!ScanPciDevice, Menu!Looked
  <2>7. CASE Menu!Lock \/ Menu!AutoLock
    BY <2>1, <2>2, <2>7, DeviceLocks
  <2>8. CASE Menu!QueueConfig
    BY <2>1, <2>2, <2>8, QueuesConfigured
  <2>9. ASSUME NEW o \in SUBSET OtherAdmin, Menu!AdminCommand(o)
        PROVE  MenuInv'
    BY <2>1, <2>2, <2>9, AdminCommands
  <2>10. CASE Menu!GetLogPage \/ Menu!FirmwareActivate \/ Menu!FirmwareDownload \/ Menu!Abort \/ Menu!Feature
    <3>1. \A o \in {{"GET_LOG"}, {"FW_ACTIVATE"}, {"FW_DOWNLOAD"}, {"ABORT"}, {"GET_FEATURE", "SET_FEATURE"}} :
            o \in SUBSET OtherAdmin
      BY DEF OtherAdmin
    <3> QED  BY <2>9, <2>10, <3>1 DEF Menu!GetLogPage, Menu!FirmwareActivate, Menu!FirmwareDownload, Menu!Abort,
                                      Menu!Feature
  <2>11. CASE Menu!Identify
    <3>1. {"IDENTIFY"} \in SUBSET OtherAdmin
      BY DEF OtherAdmin
    <3> QED  BY <2>1, <2>2, <2>9, <2>11, <3>1, NothingLeaves DEF Menu!Identify
  <2>12. CASE Menu!CreateDeleteQueue
    BY <2>1, <2>2, <2>12, QueueCommands
  <2>13. CASE Menu!SubmisFlush \/ Menu!SubmisWrc
    <3>1. op \in SubmisItems
      BY <2>13, SetsAre DEF Menu!SubmisFlush, Menu!SubmisWrc, SubmisItems
    <3> QED  BY <2>1, <2>2, <2>13, <3>1, SubmisCommands, NothingLeaves DEF Menu!SubmisFlush, Menu!SubmisWrc
  <2>14. CASE Menu!Compliance \/ Menu!Iometer
    BY <2>1, <2>2, <2>14, NothingLeaves DEF Menu!Compliance, Menu!Iometer
  <2>15. CASE Menu!SystemOperate
    <3> DEFINE r == IF op = "EXIT" THEN "CLOSE_MENU" ELSE IF step = 0 THEN "WAIT_ANSWER" ELSE "PASS"
    <3>1. Menu!Nothing /\ Menu!Returns(r) /\ (r = "WAIT_ANSWER" => op = "COMMAND")
      BY <2>15 DEF Menu!SystemOperate
    <3> HIDE DEF r
    <3> QED  BY <2>1, <2>2, <3>1, NothingLeaves
  <2> QED  BY <1>2, <2>3, <2>4, <2>5, <2>6, <2>7, <2>8, <2>10, <2>11, <2>12, <2>13, <2>14, <2>15 DEF Menu!Task
<1>3. CASE ~Menu!Runs
  <2>1. menuPc' = "close" /\ menuPc = "task" /\ Menu!Nothing /\ UNCHANGED <<menuFlags, step, last, unasked>>
    BY <1>3 DEF Menu!Task
  <2>2. Menu!Menu' = Menu!Menu
    BY <1>1, SameMenu
  <2>3. DeviceInv'
    BY <1>1, <2>1, DeviceStays DEF Menu!Nothing, MenuInv, DeviceInv
  <2>4. MenuTypes' /\ OpFits'
    BY <1>1, <2>1, <2>2 DEF MenuInv, MenuTypes, OpFits, Menu!Nothing
  <2>5. OpHasParameters'
    BY <1>1, <2>1, ReadsAre DEF MenuInv, OpHasParameters
  <2>6. BootInv'
    BY <1>1, <2>1 DEF MenuInv, BootInv
  <2> QED  BY <2>1, <2>3, <2>4, <2>5, <2>6 DEF MenuInv
<1> QED  BY <1>2, <1>3

LEMMA RoutineEnded ==
  ASSUME MenuInv, Menu!Close
  PROVE  MenuInv'
<1>1. /\ UNCHANGED <<path, node, pos, attr, last, boot, menuDriver, menuDev, mine, relock, orphan, unasked>>
      /\ menuPc = "close"
  BY DEF Menu!Close
<1>2. Menu!Menu' = Menu!Menu
  BY <1>1, SameMenu
<1>3. DeviceInv' /\ unasked' = FALSE
  BY <1>1, DeviceStays DEF MenuInv, DeviceInv
<1>4. CASE "CLOSE" \in menuFlags
  <2>1. menuFlags' = {"ANY_KEY"} /\ op' = "none" /\ step' = 0 /\ par' = <<>> /\ menuPc' = "boot"
    BY <1>4 DEF Menu!Close
  <2>2. MenuTypes'
    <3>1. par' \in Seq(Nat) /\ step' \in Nat
      <4>1. <<>> \in Seq(Nat)
        OBVIOUS
      <4> QED  BY <2>1, <4>1
    <3> QED  BY <1>1, <1>2, <3>1 DEF MenuInv, MenuTypes
  <2>3. OpFits' /\ OpHasParameters'
    BY <2>1 DEF OpFits, OpHasParameters
  <2>4. BootInv'
    BY <1>1, <2>1 DEF MenuInv, BootInv
  <2> QED  BY <1>3, <2>2, <2>3, <2>4 DEF MenuInv
<1>5. CASE "CLOSE" \notin menuFlags
  <2>1. menuPc' = "key" /\ UNCHANGED <<menuFlags, op, step, menuAsked, par>>
    BY <1>5 DEF Menu!Close
  <2>2. MenuTypes' /\ OpFits'
    BY <1>1, <1>2, <2>1 DEF MenuInv, MenuTypes, OpFits
  <2>3. OpHasParameters'
    BY <2>1, ReadsAre DEF MenuInv, OpHasParameters
  <2>4. BootInv'
    BY <1>1, <2>1 DEF MenuInv, BootInv
  <2> QED  BY <1>3, <2>2, <2>3, <2>4 DEF MenuInv
<1> QED  BY <1>4, <1>5

(* The calls of main: the menus are the root's while any is left.          *)
LEMMA CallStarted ==
  ASSUME MenuInv, Menu!Boot
  PROVE  MenuInv'
<1>1. menuPc = "boot" /\ UNCHANGED <<menuDriver, menuDev, mine, relock, orphan, unasked>>
  BY DEF Menu!Boot
<1>2. UNCHANGED <<path, node, pos, attr>>
  BY DEF Menu!Boot, Menu!DirectTask
<1>3. Menu!Menu' = Menu!Menu
  BY <1>2, SameMenu
<1>4. DeviceInv' /\ unasked' = FALSE
  BY <1>1, <1>2, DeviceStays DEF MenuInv, DeviceInv
<1>5. CASE menuPc' \in {"boot", "key"} /\ UNCHANGED <<menuFlags, op, step, menuAsked, par>>
           /\ boot' \in Seq(Calls) /\ (boot' # <<>> => boot # <<>> /\ menuPc' = "boot")
  <2>1. MenuTypes' /\ OpFits'
    BY <1>2, <1>3, <1>5 DEF MenuInv, MenuTypes, OpFits
  <2>2. OpHasParameters'
    BY <1>5, ReadsAre DEF MenuInv, OpHasParameters
  <2>3. BootInv'
    BY <1>1, <1>2, <1>5 DEF MenuInv, BootInv
  <2> QED  BY <1>4, <2>1, <2>2, <2>3 DEF MenuInv
<1>6. CASE boot = <<>>
  BY <1>5, <1>6 DEF Menu!Boot, MenuInv, BootInv
<1>7. CASE boot # <<>>
  <2> DEFINE c == Head(boot)
  <2>1. c \in Calls /\ boot' \in Seq(Calls)
    BY <1>7 DEF MenuInv, BootInv, Menu!Boot
  <2>2. CASE menuPc' = "boot" /\ UNCHANGED <<path, node, pos, attr, menuFlags, op, step, menuAsked, par, last>>
    BY <1>5, <1>7, <2>1, <2>2
  <2>3. CASE menuPc' = "key" /\ Menu!DirectTask(c.op, c.par)
    <3>1. c.op \in {"REPLACE", "AUTO_LOCK"} /\ c.par \in Seq(Nat) /\ Len(c.par) = Menu!Questions(c.op)
      BY <2>1, CallsAre
    <3>2. /\ op' = c.op /\ step' = 0 /\ par' = SubSeq(c.par, 1, Menu!Questions(c.op))
          /\ menuFlags' = (menuFlags \ {"WAIT_PARAMETER"}) \union {"RUNNING"}
      BY <2>3, <3>1 DEF Menu!DirectTask
    <3> HIDE DEF c
    <3>3. par' \in Seq(Nat) /\ Len(par') = Menu!Questions(c.op)
      BY <3>1, <3>2, SubSeqWhole
    <3>4. path = <<"root">> /\ Menu!Menu = "root" /\ menuFlags \subseteq {"ANY_KEY"}
      BY <1>1, <1>7, MenuIs DEF MenuInv, BootInv
    <3>5. MenuTypes'
      BY <1>2, <1>3, <3>2, <3>3 DEF MenuInv, MenuTypes
    <3>6. OpFits'
      BY <1>3, <3>1, <3>2, <3>4 DEF OpFits
    <3>7. OpHasParameters'
      <4>1. Menu!Reads(op)' <= Len(par')
        BY <3>1, <3>2, <3>3, ReadsAre, ReadsAsked
      <4>2. menuFlags' \intersect {"ANSWER", "WAIT_PARAMETER"} = {} /\ "RUNNING" \in menuFlags'
        BY <3>2, <3>4
      <4> QED  BY <4>1, <4>2 DEF OpHasParameters
    <3>8. BootInv'
      BY <1>2, <2>1, <2>3, <3>2, <3>4 DEF BootInv
    <3> QED  BY <1>4, <3>5, <3>6, <3>7, <3>8 DEF MenuInv
  <2> QED  BY <1>7, <2>2, <2>3 DEF Menu!Boot
<1> QED  BY <1>6, <1>7

LEMMA MenuStutters ==
  ASSUME MenuInv, UNCHANGED Menu!vars
  PROVE  MenuInv'
<1> USE DEF Menu!vars, MenuInv
<1>1. Menu!Menu' = Menu!Menu
  BY SameMenu
<1>2. DeviceInv'
  BY DeviceStays DEF DeviceInv
<1>3. MenuTypes' /\ OpFits' /\ BootInv'
  BY <1>1 DEF MenuTypes, OpFits, BootInv
<1>4. OpHasParameters'
  BY ReadsAre DEF OpHasParameters
<1> QED  BY <1>2, <1>3, <1>4

(* Theorem: a task of the kw_ioctl menus that runs finds the driver and    *)
(* the device it needs and the parameters it reads, for every start with   *)
(* arguments, every path through the menus and every size of the answers.  *)
THEOREM TasksFind == ComponentsSpec => []TasksFindWhatTheyNeed
<1>1. MenuInv /\ [Menu!Next]_(Menu!vars) => MenuInv'
  BY KeyHandled, TaskRun, RoutineEnded, CallStarted, MenuStutters DEF Menu!Next, Menu!Done
<1>2. MenuInv => TasksFindWhatTheyNeed
  BY DEF MenuInv, DeviceInv, Menu!TasksFindWhatTheyNeed, TasksFindWhatTheyNeed
<1> QED  BY <1>1, <1>2, MenuStart, MenuPart, PTL

-----------------------------------------------------------------------------
(* The key input.  The bytes on their way: of a special key that is being  *)
(* identified, of scFIFO and of the terminal, in this order.               *)
Taken == IF bIdentifying THEN 1 + Len(scanKeyCode) ELSE 0
Begun == Taken + Len(scFIFO)
Total == Begun + Len(tty)
Byte(j) ==
  IF j <= Taken THEN IF j = 1 THEN "ESC" ELSE scanKeyCode[j - 1]
  ELSE IF j <= Begun THEN scFIFO[j - Taken] ELSE tty[j - Begun]

(* They are the keys that are pressed and not decoded, one after another:  *)
(* key k is the bytes between cut[k - 1] and cut[k].  What has been read   *)
(* ends with a key.                                                        *)
Undecoded == Len(due) - Len(keys)
Key(k) == due[Len(keys) + k]
CutsKeys(cut) ==
  /\ cut \in [0 .. Undecoded -> Nat]
  /\ cut[0] = 0 /\ cut[Undecoded] = Total
  /\ \A k, l \in 0 .. Undecoded : k <= l => cut[k] <= cut[l]
  /\ \A k \in 1 .. Undecoded :
       cut[k] = cut[k - 1] + Len(Key(k)) /\ \A m \in cut[k - 1] + 1 .. cut[k] : Byte(m) = Key(k)[m - cut[k - 1]]
  /\ \E b \in 0 .. Undecoded : cut[b] = Begun
Flow == \E cut \in [0 .. Undecoded -> Nat] : CutsKeys(cut)

Escape == <<"ESC">>

KeyTypes ==
  /\ tty \in Seq(KeyBytes) /\ scFIFO \in Seq(KeyBytes) /\ scanKeyCode \in Seq(KeyBytes)
  /\ bIdentifying \in BOOLEAN /\ due \in Seq(Strokes) /\ keys \in Seq(Strokes)

KeyInv ==
  /\ KeyTypes
  /\ Len(keys) <= 1 /\ (keys # <<>> => due # <<>> /\ keys[1] = due[1])
  /\ keysPc \in {"read", "decode"} \/ bIdentifying => keys = <<>>
  /\ \A k \in 1 .. Len(due) : due[k] = Escape => Len(due) = 1
  /\ bIdentifying =>
       due # <<>> /\ (Len(scanKeyCode) + 1 < Len(due[1]) \/ (due[1] = Escape /\ scanKeyCode = <<>>))
  /\ Flow
  /\ Len(scFIFO) + Len(tty) <= Burst
  /\ wrong = FALSE

LEMMA KeySizes ==
  ASSUME KeyTypes
  PROVE  /\ Taken \in Nat /\ Begun \in Nat /\ Total \in Nat
         /\ Begun = Taken + Len(scFIFO) /\ Total = Begun + Len(tty)
         /\ Len(scFIFO) \in Nat /\ Len(tty) \in Nat /\ Len(scanKeyCode) \in Nat
         /\ Len(due) \in Nat /\ Len(keys) \in Nat
BY DEF KeyTypes, Taken, Begun, Total

LEMMA StrokeIs ==
  ASSUME NEW s \in Strokes
  PROVE  /\ s \in Seq(KeyBytes) /\ Len(s) \in 1 .. 5
         /\ Len(s) > 1 => s[1] = "ESC" /\ s[Len(s)] \in EndBytes
         /\ \A k \in 2 .. Len(s) - 1 : s[k] \notin EndBytes
         /\ Len(s) = 1 => s = <<s[1]>>
<1>1. /\ s \in Seq(KeyBytes) /\ Len(s) \in 1 .. 5
      /\ Len(s) > 1 => s[1] = "ESC" /\ s[Len(s)] \in EndBytes
      /\ \A k \in 2 .. Len(s) - 1 : s[k] \notin EndBytes
  BY KeysAssumption
<1>2. ASSUME Len(s) = 1
      PROVE  s = <<s[1]>>
  BY <1>1, <1>2
<1> QED  BY <1>1, <1>2

LEMMA StrokeLength == \A s \in Strokes : Len(s) \in Nat \ {0}
BY StrokeIs

LEMMA CutsAre ==
  ASSUME KeyTypes, NEW cut \in [0 .. Undecoded -> Nat], CutsKeys(cut)
  PROVE  /\ Undecoded \in Nat /\ Len(due) = Len(keys) + Undecoded
         /\ \A k \in 1 .. Undecoded : Key(k) \in Strokes /\ Len(Key(k)) \in Nat \ {0}
         /\ \A k \in 1 .. Undecoded : k - 1 \in 0 .. Undecoded /\ cut[k - 1] \in Nat /\ cut[k] <= Total
<1>1. Undecoded \in Nat /\ Len(due) = Len(keys) + Undecoded
  BY KeySizes DEF CutsKeys, Undecoded
<1>2. \A k \in 1 .. Undecoded : Key(k) \in Strokes
  <2>1. \A k \in 1 .. Undecoded : Len(keys) + k \in 1 .. Len(due)
    BY <1>1, KeySizes
  <2> QED  BY <2>1 DEF KeyTypes, Key
<1>3. \A k \in 1 .. Undecoded : Len(Key(k)) \in Nat \ {0}
  BY <1>2, StrokeLength
<1>4. \A k \in 1 .. Undecoded : k - 1 \in 0 .. Undecoded /\ k \in 0 .. Undecoded /\ Undecoded \in 0 .. Undecoded
  BY <1>1
<1>5. \A k \in 1 .. Undecoded : cut[k] <= cut[Undecoded] /\ cut[Undecoded] = Total
  BY <1>4 DEF CutsKeys
<1> QED  BY <1>1, <1>2, <1>3, <1>4, <1>5

(* How the bytes flow.  None of them moves beyond what has been read: *)
LEMMA FlowSame ==
  ASSUME KeyTypes, Flow, Undecoded' = Undecoded, \A k \in 1 .. Undecoded : Key(k)' = Key(k), Total' = Total,
         \A j \in 1 .. Total : Byte(j)' = Byte(j), Begun' \in {Begun, Total}
  PROVE  Flow'
<1>1. PICK cut \in [0 .. Undecoded -> Nat] : CutsKeys(cut)
  BY DEF Flow
<1>3. Total \in Nat /\ (\A k \in 1 .. Undecoded : Len(Key(k)) \in Nat) /\ Undecoded \in Int
  <2>1. \A k \in 1 .. Undecoded : Len(keys) + k \in 1 .. Len(due)
    BY KeySizes DEF Undecoded
  <2>2. \A k \in 1 .. Undecoded : Key(k) \in Strokes
    BY <2>1 DEF KeyTypes, Key
  <2> QED  BY <2>2, KeySizes, StrokeIs DEF Undecoded
<1>4. /\ cut[0] = 0 /\ cut[Undecoded] = Total
      /\ \A k, l \in 0 .. Undecoded : k <= l => cut[k] <= cut[l]
      /\ \A k \in 1 .. Undecoded :
           cut[k] = cut[k - 1] + Len(Key(k)) /\ \A m \in cut[k - 1] + 1 .. cut[k] : Byte(m) = Key(k)[m - cut[k - 1]]
      /\ \E b \in 0 .. Undecoded : cut[b] = Begun
  BY <1>1 DEF CutsKeys
<1>5. \A k \in 1 .. Undecoded : \A m \in cut[k - 1] + 1 .. cut[k] : Byte(m)' = Key(k)[m - cut[k - 1]]
  <2> SUFFICES ASSUME NEW k \in 1 .. Undecoded, NEW m \in cut[k - 1] + 1 .. cut[k]
               PROVE  Byte(m)' = Key(k)[m - cut[k - 1]]
    OBVIOUS
  <2>1. cut[k - 1] \in Nat /\ cut[k] = cut[k - 1] + Len(Key(k)) /\ cut[k] <= Total /\ Len(Key(k)) \in Nat
    BY <1>1, <1>4, CutsAre
  <2>2. m \in 1 .. Total
    BY <1>3, <2>1
  <2> QED  BY <1>4, <2>2
<1>6. \E b \in 0 .. Undecoded : cut[b] = Begun'
  <2>1. CASE Begun' = Begun
    BY <1>4, <2>1
  <2>2. CASE Begun' = Total
    <3>1. Undecoded \in 0 .. Undecoded
      BY <1>1, <1>3, <1>4
    <3> QED  BY <1>4, <2>2, <3>1
  <2> QED  BY <2>1, <2>2
<1>7. CutsKeys(cut)'
  BY <1>1, <1>4, <1>5, <1>6 DEF CutsKeys
<1> QED  BY <1>1, <1>7 DEF Flow

(* a key is pressed, *)
Sent(s) ==
  due' = Append(due, s) /\ tty' = tty \o s /\ UNCHANGED <<keys, scFIFO, bIdentifying, scanKeyCode>>

LEMMA FlowPressed ==
  ASSUME KeyTypes, KeyTypes', Flow, NEW s \in Strokes, Sent(s)
  PROVE  Flow'
<1>1. PICK cut \in [0 .. Undecoded -> Nat] : CutsKeys(cut)
  BY DEF Flow
<1>0. PICK n, whole : n = Undecoded /\ whole = Total
  OBVIOUS
<1>2. n \in Nat /\ whole \in Nat /\ Len(due) = Len(keys) + n /\ cut \in [0 .. n -> Nat]
  BY <1>0, <1>1, CutsAre, KeySizes
<1>3. Len(s) \in Nat /\ s \in Seq(KeyBytes)
  BY StrokeIs
<1>4. Undecoded' = n + 1
  <2>1. Len(due') = Len(due) + 1 /\ keys' = keys
    BY DEF Sent, KeyTypes
  <2> QED  BY <1>0, <1>2, <2>1, KeySizes DEF Undecoded
<1>5. (\A k \in 1 .. n : Key(k)' = Key(k)) /\ Key(n + 1)' = s
  <2>1. due'[Len(due) + 1] = s /\ keys' = keys /\ \A k \in 1 .. Len(due) : due'[k] = due[k]
    BY DEF Sent, KeyTypes
  <2>2. Len(keys) + (n + 1) = Len(due) + 1 /\ \A k \in 1 .. n : Len(keys) + k \in 1 .. Len(due)
    BY <1>2, KeySizes
  <2> QED  BY <2>1, <2>2 DEF Key
<1>6. Taken' = Taken /\ Begun' = Begun /\ Total' = whole + Len(s)
  <2>1. Len(tty') = Len(tty) + Len(s)
    BY <1>3, ConcatProperties DEF KeyTypes, Sent
  <2>2. UNCHANGED <<scFIFO, bIdentifying, scanKeyCode>>
    BY DEF Sent
  <2>3. Taken' = Taken
    BY <2>2 DEF Taken
  <2>4. Begun' = Begun
    BY <2>2, <2>3 DEF Begun
  <2>5. Total' = Begun + Len(tty')
    BY <2>4 DEF Total
  <2>6. Total = Begun + Len(tty) /\ Begun \in Nat /\ Len(tty) \in Nat /\ Len(s) \in Nat
    BY <1>3, KeySizes
  <2> QED  BY <1>0, <2>1, <2>3, <2>4, <2>5, <2>6
<1>7. (\A j \in 1 .. whole : Byte(j)' = Byte(j)) /\ \A m \in whole + 1 .. whole + Len(s) : Byte(m)' = s[m - whole]
  <2>1. \A j \in 1 .. Len(tty) + Len(s) : tty'[j] = IF j <= Len(tty) THEN tty[j] ELSE s[j - Len(tty)]
    BY <1>3, ConcatProperties DEF KeyTypes, Sent
  <2>0. UNCHANGED <<scFIFO, bIdentifying, scanKeyCode>>
    BY DEF Sent
  <2>2. ASSUME NEW j \in 1 .. whole
        PROVE  Byte(j)' = Byte(j)
    <3>1. CASE j <= Begun
      BY <1>6, <2>0, <3>1 DEF Byte
    <3>2. CASE ~(j <= Begun)
      <4>1. j - Begun \in 1 .. Len(tty)
        BY <1>0, <3>2, KeySizes
      <4>2. tty'[j - Begun] = tty[j - Begun]
        BY <1>3, <2>1, <4>1
      <4>3. ~(j <= Taken)
        BY <1>0, <3>2, KeySizes
      <4> QED  BY <1>6, <2>0, <3>2, <4>2, <4>3 DEF Byte
    <3> QED  BY <3>1, <3>2
  <2>3. ASSUME NEW m \in whole + 1 .. whole + Len(s)
        PROVE  Byte(m)' = s[m - whole]
    <3>1. PICK j \in 1 .. Len(s) : m = whole + j
      <4>1. m - whole \in 1 .. Len(s) /\ m = whole + (m - whole)
        BY <1>2, <1>3
      <4> QED  BY <4>1
    <3>2. ~(m <= Begun) /\ ~(m <= Taken) /\ m - Begun = Len(tty) + j /\ m - whole = j
      <4>1. j \in Nat \ {0}
        BY <1>3
      <4>2. /\ Begun \in Nat /\ Taken \in Nat /\ Len(scFIFO) \in Nat /\ Len(tty) \in Nat
            /\ Begun = Taken + Len(scFIFO) /\ whole = Begun + Len(tty)
        BY <1>0, KeySizes
      <4> QED  BY <3>1, <4>1, <4>2
    <3>3. tty'[Len(tty) + j] = s[j]
      <4>1. Len(tty) + j \in 1 .. Len(tty) + Len(s) /\ ~(Len(tty) + j <= Len(tty)) /\ Len(tty) + j - Len(tty) = j
        BY <1>3, KeySizes
      <4> QED  BY <2>1, <4>1
    <3>4. Byte(m)' = tty'[m - Begun']
      BY <1>6, <3>2 DEF Byte
    <3> QED  BY <1>6, <3>2, <3>3, <3>4
  <2> QED  BY <2>2, <2>3
<1>8. /\ cut[0] = 0 /\ cut[n] = whole
      /\ \A k, l \in 0 .. n : k <= l => cut[k] <= cut[l]
      /\ \A k \in 1 .. n : cut[k] = cut[k - 1] + Len(Key(k)) /\ \A m \in cut[k - 1] + 1 .. cut[k] : Byte(m) = Key(k)[m - cut[k - 1]]
      /\ \E b \in 0 .. n : cut[b] = Begun
  BY <1>0, <1>1 DEF CutsKeys
<1>9. \A k \in 0 .. n : cut[k] \in Nat /\ cut[k] <= whole
  <2>1. n \in 0 .. n
    BY <1>2
  <2>2. \A k \in 0 .. n : cut[k] \in Nat
    BY <1>2, Zenon
  <2>3. \A k \in 0 .. n : k <= n
    BY <1>2
  <2> QED  BY <1>8, <2>1, <2>2, <2>3
<1> DEFINE longer == [k \in 0 .. n + 1 |-> IF k <= n THEN cut[k] ELSE whole + Len(s)]
<1>10. longer \in [0 .. n + 1 -> Nat]
  BY <1>2, <1>3, <1>9
<1>11. longer[0] = 0 /\ longer[n + 1] = whole + Len(s) /\ \A k \in 0 .. n : longer[k] = cut[k]
  BY <1>2, <1>8
<1> HIDE DEF longer
<1>12. \A k, l \in 0 .. n + 1 : k <= l => longer[k] <= longer[l]
  <2> SUFFICES ASSUME NEW k \in 0 .. n + 1, NEW l \in 0 .. n + 1, k <= l
               PROVE  longer[k] <= longer[l]
    OBVIOUS
  <2>1. CASE l <= n
    <3>1. k \in 0 .. n /\ l \in 0 .. n
      BY <1>2, <2>1
    <3> QED  BY <1>8, <1>11, <3>1
  <2>2. CASE ~(l <= n) /\ k <= n
    <3>1. l = n + 1 /\ k \in 0 .. n
      BY <1>2, <2>2
    <3>2. longer[k] = cut[k] /\ longer[l] = whole + Len(s)
      BY <1>11, <3>1
    <3> QED  BY <1>2, <1>3, <1>9, <3>1, <3>2
  <2>3. CASE ~(k <= n)
    <3>1. l = n + 1 /\ k = n + 1
      BY <1>2, <2>3
    <3> QED  BY <1>2, <1>3, <1>11, <3>1
  <2> QED  BY <2>1, <2>2, <2>3
<1>13. ASSUME NEW k \in 1 .. n + 1
       PROVE  /\ longer[k] = longer[k - 1] + Len(Key(k)')
              /\ \A m \in longer[k - 1] + 1 .. longer[k] : Byte(m)' = Key(k)'[m - longer[k - 1]]
  <2>1. CASE k <= n
    <3>1. k \in 1 .. n /\ k \in 0 .. n /\ k - 1 \in 0 .. n
      BY <1>2, <2>1
    <3>2. longer[k] = cut[k] /\ longer[k - 1] = cut[k - 1] /\ Key(k)' = Key(k)
      BY <1>5, <1>11, <3>1
    <3>3. ASSUME NEW m \in cut[k - 1] + 1 .. cut[k]
          PROVE  Byte(m)' = Key(k)[m - cut[k - 1]]
      <4>1. m \in 1 .. whole
        <5>1. cut[k - 1] \in Nat /\ cut[k] <= whole /\ cut[k] \in Nat
          BY <1>8, <1>9, <3>1
        <5>2. whole \in Nat
          BY <1>2
        <5>3. m \in Int /\ cut[k - 1] + 1 <= m /\ m <= cut[k]
          BY <5>1
        <5> QED  BY <5>1, <5>2, <5>3
      <4> QED  BY <1>7, <1>8, <3>1, <4>1
    <3> QED  BY <1>8, <3>1, <3>2, <3>3
  <2>2. CASE ~(k <= n)
    <3>1. k = n + 1 /\ k - 1 = n /\ n \in 0 .. n
      BY <1>2, <2>2
    <3>2. longer[k] = whole + Len(s) /\ longer[k - 1] = whole /\ Key(k)' = s
      BY <1>5, <1>8, <1>11, <3>1
    <3>3. longer[k] = longer[k - 1] + Len(Key(k)')
      BY <3>2
    <3> QED  BY <1>7, <3>2, <3>3
  <2> QED  BY <2>1, <2>2
<1>14. \E b \in 0 .. n + 1 : longer[b] = Begun
  <2>1. \A b \in 0 .. n : b \in 0 .. n + 1
    BY <1>2
  <2> QED  BY <1>8, <1>11, <2>1
<1>15. CutsKeys(longer)'
  <2>1. longer \in [0 .. Undecoded' -> Nat] /\ longer[0] = 0 /\ longer[Undecoded'] = Total'
    BY <1>0, <1>4, <1>6, <1>10, <1>11
  <2>2. \A k, l \in 0 .. Undecoded' : k <= l => longer[k] <= longer[l]
    BY <1>0, <1>4, <1>12
  <2>3. \A k \in 1 .. Undecoded' :
          longer[k] = longer[k - 1] + Len(Key(k)') /\ \A m \in longer[k - 1] + 1 .. longer[k] : Byte(m)' = Key(k)'[m - longer[k - 1]]
    BY <1>0, <1>4, <1>13
  <2>4. \E b \in 0 .. Undecoded' : longer[b] = Begun'
    BY <1>0, <1>4, <1>6, <1>14
  <2> QED  BY <2>1, <2>2, <2>3, <2>4 DEF CutsKeys
<1> QED  BY <1>0, <1>4, <1>10, <1>15 DEF Flow

(* and the first of them is decoded. *)
LEMMA FirstKey ==
  ASSUME KeyTypes, Flow, keys = <<>>
  PROVE  /\ due = <<>> => Total = 0
         /\ due # <<>> => /\ due[1] \in Strokes /\ Len(due[1]) <= Total
                          /\ \A m \in 1 .. Len(due[1]) : Byte(m) = due[1][m]
                          /\ Begun = 0 \/ Len(due[1]) <= Begun
                          /\ Len(due) = 1 => Total = Len(due[1])
<1>1. PICK cut \in [0 .. Undecoded -> Nat] : CutsKeys(cut)
  BY DEF Flow
<1>2. Undecoded = Len(due) /\ Undecoded \in Nat /\ \A k : Key(k) = due[0 + k]
  BY KeySizes DEF Undecoded, Key
<1>3. CASE due = <<>>
  BY <1>1, <1>2, <1>3 DEF CutsKeys
<1>4. CASE due # <<>>
  <2>1. 1 \in 1 .. Undecoded /\ 0 \in 0 .. Undecoded /\ 1 \in 0 .. Undecoded /\ Key(1) = due[1]
    <3>1. Len(due) \in Nat \ {0}
      BY <1>4 DEF KeyTypes
    <3>2. Key(1) = due[0 + 1] /\ 0 + 1 = 1
      BY <1>2
    <3> QED  BY <1>2, <3>1, <3>2
  <2>2. due[1] \in Strokes /\ Len(due[1]) \in Nat
    BY <1>1, <2>1, CutsAre
  <2>3. cut[0] = 0 /\ cut[1] = cut[1 - 1] + Len(due[1]) /\ cut[1] <= Total
    BY <1>1, <2>1, CutsAre DEF CutsKeys
  <2>4. cut[1] = Len(due[1])
    BY <2>2, <2>3
  <2>5. \A m \in 1 .. Len(due[1]) : Byte(m) = due[1][m]
    <3>1. \A m \in cut[1 - 1] + 1 .. cut[1] : Byte(m) = Key(1)[m - cut[1 - 1]]
      BY <1>1, <2>1 DEF CutsKeys
    <3> QED  BY <2>1, <2>2, <2>3, <2>4, <3>1
  <2>6. Begun = 0 \/ Len(due[1]) <= Begun
    <3>1. PICK b \in 0 .. Undecoded : cut[b] = Begun
      BY <1>1 DEF CutsKeys
    <3>2. CASE b = 0
      BY <2>3, <3>1, <3>2
    <3>3. CASE b # 0
      <4>1. 1 <= b
        BY <1>2, <3>3
      <4>2. cut[1] <= cut[b]
        BY <1>1, <2>1, <3>1, <4>1 DEF CutsKeys
      <4> QED  BY <2>4, <3>1, <4>2
    <3> QED  BY <3>2, <3>3
  <2>7. Len(due) = 1 => Total = Len(due[1])
    BY <1>1, <1>2, <2>4 DEF CutsKeys
  <2> QED  BY <1>4, <2>2, <2>3, <2>4, <2>5, <2>6, <2>7
<1> QED  BY <1>3, <1>4

Decoded ==
  /\ keys = <<>> /\ due # <<>> /\ keys' = <<due[1]>> /\ due' = due
  /\ Len(due[1]) <= Begun
  /\ Begun' = Begun - Len(due[1]) /\ Total' = Total - Len(due[1])
  /\ \A m, q \in 1 .. Total : q = m + Len(due[1]) => Byte(m)' = Byte(q)

LEMMA FlowDecoded ==
  ASSUME KeyTypes, Flow, Decoded
  PROVE  Flow'
<1>1. PICK cut \in [0 .. Undecoded -> Nat] : CutsKeys(cut)
  BY DEF Flow
<1>0. PICK n, size : n = Undecoded - 1 /\ size = Len(due[1])
  OBVIOUS
<1>2. n \in Nat /\ Undecoded = n + 1 /\ Len(due) = n + 1 /\ Undecoded' = n
  <2>1. Undecoded = Len(due) /\ Len(due) \in Nat \ {0}
    BY KeySizes DEF Undecoded, Decoded, KeyTypes
  <2>2. Undecoded' = Len(due) - 1
    BY DEF Undecoded, Decoded
  <2> QED  BY <1>0, <2>1, <2>2
<1>3. \A k \in 1 .. n : Key(k)' = due[1 + k] /\ Key(k + 1) = due[1 + k] /\ k + 1 \in 1 .. n + 1
  <2>1. ASSUME NEW k \in 1 .. n
        PROVE  Key(k)' = due[1 + k]
    <3>1. due' = due /\ Len(keys') = 1
      BY DEF Decoded
    <3> QED  BY <3>1 DEF Key
  <2>2. ASSUME NEW k \in 1 .. n
        PROVE  Key(k + 1) = due[1 + k]
    <3>1. Len(keys) = 0 /\ 0 + (k + 1) = 1 + k
      BY DEF Decoded
    <3> QED  BY <3>1 DEF Key
  <2> QED  BY <1>2, <2>1, <2>2
<1>4. /\ cut \in [0 .. n + 1 -> Nat] /\ cut[0] = 0 /\ cut[n + 1] = Total
      /\ \A k, l \in 0 .. n + 1 : k <= l => cut[k] <= cut[l]
      /\ \A k \in 1 .. n + 1 :
           cut[k] = cut[k - 1] + Len(Key(k)) /\ \A m \in cut[k - 1] + 1 .. cut[k] : Byte(m) = Key(k)[m - cut[k - 1]]
      /\ \E b \in 0 .. n + 1 : cut[b] = Begun
  BY <1>1, <1>2 DEF CutsKeys
<1>5. cut[1] = size /\ size \in Nat \ {0} /\ 1 \in 0 .. n + 1
  <2>1. 1 \in 1 .. n + 1 /\ 1 \in 0 .. n + 1 /\ Key(1) = due[1]
    <3>1. Len(keys) = 0 /\ 0 + 1 = 1
      BY DEF Decoded
    <3> QED  BY <1>2, <3>1 DEF Key
  <2>2. Len(due[1]) \in Nat \ {0}
    BY <1>1, <1>2, <2>1, CutsAre
  <2> QED  BY <1>0, <1>4, <2>1, <2>2
<1>6. \A k \in 0 .. n : k + 1 \in 0 .. n + 1 /\ cut[k + 1] \in Nat /\ size <= cut[k + 1]
  <2>1. \A k \in 0 .. n : k + 1 \in 0 .. n + 1 /\ 1 <= k + 1
    BY <1>2
  <2>2. \A k \in 0 .. n : cut[k + 1] \in Nat
    BY <1>4, <2>1
  <2> QED  BY <1>4, <1>5, <2>1, <2>2
<1> DEFINE less == [k \in 0 .. n |-> cut[k + 1] - size]
<1>7. less \in [0 .. n -> Nat] /\ \A k \in 0 .. n : less[k] = cut[k + 1] - size
  BY <1>5, <1>6
<1> HIDE DEF less
<1>8. less[0] = 0 /\ less[n] = Total' /\ n \in 0 .. n
  <2>1. 0 \in 0 .. n /\ n \in 0 .. n
    BY <1>2
  <2>2. less[0] = cut[0 + 1] - size /\ less[n] = cut[n + 1] - size
    BY <1>7, <2>1
  <2> QED  BY <1>0, <1>4, <1>5, <2>1, <2>2 DEF Decoded
<1>9. \A k, l \in 0 .. n : k <= l => less[k] <= less[l]
  <2> SUFFICES ASSUME NEW k \in 0 .. n, NEW l \in 0 .. n, k <= l
               PROVE  less[k] <= less[l]
    OBVIOUS
  <2>1. cut[k + 1] <= cut[l + 1] /\ cut[k + 1] \in Nat /\ cut[l + 1] \in Nat
    BY <1>4, <1>6
  <2> QED  BY <1>5, <1>7, <2>1
<1>10. ASSUME NEW k \in 1 .. n
       PROVE  /\ less[k] = less[k - 1] + Len(Key(k)')
              /\ \A m \in less[k - 1] + 1 .. less[k] : Byte(m)' = Key(k)'[m - less[k - 1]]
  <2>1. /\ k \in 0 .. n /\ k - 1 \in 0 .. n /\ k + 1 \in 1 .. n + 1 /\ (k + 1) - 1 = k /\ (k - 1) + 1 = k
        /\ Key(k)' = Key(k + 1)
    BY <1>2, <1>3
  <2>2. less[k] = cut[k + 1] - size /\ less[k - 1] = cut[k] - size
    BY <1>7, <2>1
  <2>3. cut[k + 1] = cut[k] + Len(Key(k + 1)) /\ \A m \in cut[k] + 1 .. cut[k + 1] : Byte(m) = Key(k + 1)[m - cut[k]]
    BY <1>4, <2>1
  <2>4. Len(Key(k + 1)) \in Nat /\ cut[k] \in Nat /\ size <= cut[k] /\ cut[k + 1] <= Total /\ cut[k + 1] \in Nat
    BY <1>1, <1>2, <1>4, <1>6, <2>1, CutsAre
  <2>5. less[k] = less[k - 1] + Len(Key(k)')
    BY <1>5, <2>1, <2>2, <2>3, <2>4
  <2>6. ASSUME NEW m \in less[k - 1] + 1 .. less[k]
        PROVE  Byte(m)' = Key(k)'[m - less[k - 1]]
    <3>1. Total \in Nat
      BY KeySizes
    <3>2. PICK q, low, high : q = m + size /\ low = cut[k] /\ high = cut[k + 1]
      OBVIOUS
    <3>3. m \in 1 .. Total /\ q \in 1 .. Total /\ q \in low + 1 .. high /\ q - low = m - less[k - 1]
      <4>2. /\ low \in Nat /\ high \in Nat /\ size \in Nat /\ size <= low /\ high <= Total
            /\ less[k - 1] = low - size /\ less[k] = high - size
        BY <1>5, <2>2, <2>4, <3>2
      <4>3. m \in Int /\ low - size + 1 <= m /\ m <= high - size /\ q = m + size
        BY <3>2, <4>2
      <4>4. PICK total : total = Total
        OBVIOUS
      <4>5. m \in 1 .. total /\ q \in 1 .. total /\ q \in low + 1 .. high /\ q - low = m - (low - size)
        <5>1. total \in Nat /\ high <= total
          BY <3>1, <4>2, <4>4
        <5> QED  BY <4>2, <4>3, <5>1
      <4> QED  BY <4>2, <4>4, <4>5
    <3>4. Byte(m)' = Byte(q)
      BY <1>0, <3>2, <3>3 DEF Decoded
    <3>5. Byte(q) = Key(k + 1)[q - low]
      BY <2>3, <3>2, <3>3
    <3> QED  BY <2>1, <3>3, <3>4, <3>5
  <2> QED  BY <2>5, <2>6
<1>11. \E b \in 0 .. n : less[b] = Begun'
  <2>1. PICK b \in 0 .. n + 1 : cut[b] = Begun
    BY <1>4
  <2>2. b # 0
    BY <1>0, <1>4, <1>5, <2>1 DEF Decoded
  <2>3. b - 1 \in 0 .. n /\ (b - 1) + 1 = b
    BY <1>2, <2>2
  <2>4. less[b - 1] = Begun'
    BY <1>0, <1>7, <2>1, <2>3 DEF Decoded
  <2> QED  BY <2>3, <2>4
<1>12. CutsKeys(less)'
  BY <1>2, <1>7, <1>8, <1>9, <1>10, <1>11 DEF CutsKeys
<1> QED  BY <1>2, <1>7, <1>12 DEF Flow

-----------------------------------------------------------------------------
LEMMA KeyStart ==
  ASSUME Keys!Init
  PROVE  KeyInv
<1> USE DEF Keys!Init
<1>1. KeyTypes
  <2>1. <<>> \in Seq(KeyBytes) /\ <<>> \in Seq(Strokes)
    OBVIOUS
  <2> QED  BY <2>1 DEF KeyTypes
<1>2. Taken = 0 /\ Begun = 0 /\ Total = 0 /\ Undecoded = 0
  BY DEF Taken, Begun, Total, Undecoded
<1>3. Flow
  <2> DEFINE cut == [k \in 0 .. 0 |-> 0]
  <2>1. cut \in [0 .. 0 -> Nat] /\ cut[0] = 0
    OBVIOUS
  <2> HIDE DEF cut
  <2>2. /\ \A k, l \in 0 .. 0 : k <= l => cut[k] <= cut[l]
        /\ \E b \in 0 .. 0 : cut[b] = 0
    BY <2>1
  <2>3. CutsKeys(cut)
    BY <1>2, <2>1, <2>2 DEF CutsKeys
  <2> QED  BY <1>2, <2>1, <2>3 DEF Flow
<1> QED  BY <1>1, <1>3, KeysAssumption DEF KeyInv

(* Neither a byte nor a key moves: *)
LEMMA KeysRest ==
  ASSUME KeyInv, UNCHANGED <<tty, scFIFO, keys, bIdentifying, scanKeyCode, due, wrong>>,
         keysPc' \in {"read", "decode"} => keysPc \in {"read", "decode"} \/ keys = <<>>
  PROVE  KeyInv'
<1> USE DEF KeyInv
<1>1. Taken' = Taken /\ Begun' = Begun /\ Total' = Total
  BY DEF Taken, Begun, Total
<1>2. \A j \in 1 .. Total : Byte(j)' = Byte(j)
  BY <1>1 DEF Byte
<1>3. Undecoded' = Undecoded /\ \A k \in 1 .. Undecoded : Key(k)' = Key(k)
  BY DEF Undecoded, Key
<1>4. Flow'
  BY <1>1, <1>2, <1>3, FlowSame
<1>5. KeyTypes'
  BY DEF KeyTypes
<1> QED  BY <1>4, <1>5

LEMMA KeyPressed ==
  ASSUME KeyInv, Keys!Press
  PROVE  KeyInv'
<1>1. PICK s \in Strokes :
        /\ s = Escape => due = <<>>
        /\ Len(tty) + Len(scFIFO) + Len(s) <= Burst
        /\ tty' = tty \o s /\ due' = Append(due, s)
  BY DEF Keys!Press, Escape
<1>2. UNCHANGED <<keysPc, scFIFO, keys, bIdentifying, scanKeyCode, wrong>>
  BY DEF Keys!Press, Keys!scanVars
<1>3. Sent(s) /\ s \in Seq(KeyBytes) /\ Len(s) \in Nat
  BY <1>1, <1>2, StrokeIs DEF Sent
<1>4. KeyTypes'
  <2>1. tty' \in Seq(KeyBytes) /\ due' \in Seq(Strokes)
    BY <1>1, <1>3 DEF KeyInv, KeyTypes
  <2> QED  BY <1>2, <2>1 DEF KeyInv, KeyTypes
<1>5. Flow'
  BY <1>3, <1>4, FlowPressed DEF KeyInv
<1>6. Len(due') = Len(due) + 1 /\ due' # <<>> /\ Len(due) \in Nat /\ due'[Len(due) + 1] = s
      /\ \A k \in 1 .. Len(due) : due'[k] = due[k]
  <2>1. due \in Seq(Strokes)
    BY DEF KeyInv, KeyTypes
  <2>2. Len(due) \in Nat
    BY <2>1
  <2> QED  BY <1>1, <2>1, <2>2, AppendProperties
<1>7. due # <<>> => due'[1] = due[1]
  <2>1. due # <<>> => 1 \in 1 .. Len(due)
    BY DEF KeyInv, KeyTypes
  <2> QED  BY <1>6, <2>1
<1>8. \A k \in 1 .. Len(due') : due'[k] = Escape => Len(due') = 1
  <2>1. \A k \in 1 .. Len(due) : due[k] # Escape
    <3>1. Escape \notin Keys!Range(due)
      BY DEF Keys!Press, Escape
    <3> QED  BY <3>1 DEF Keys!Range, KeyInv, KeyTypes
  <2>2. s = Escape => Len(due) = 0
    BY <1>1
  <2> QED  BY <1>6, <2>1, <2>2
<1>9. Len(scFIFO') + Len(tty') <= Burst
  <2>1. Len(tty') = Len(tty) + Len(s)
    BY <1>1, <1>3 DEF KeyInv, KeyTypes
  <2> QED  BY <1>1, <1>2, <1>3, <2>1, KeySizes, KeysAssumption DEF KeyInv
<1>10. /\ Len(keys') <= 1 /\ (keys' # <<>> => due' # <<>> /\ keys'[1] = due'[1])
       /\ keysPc' \in {"read", "decode"} \/ bIdentifying' => keys' = <<>>
       /\ bIdentifying' =>
            due' # <<>> /\ (Len(scanKeyCode') + 1 < Len(due'[1]) \/ (due'[1] = Escape /\ scanKeyCode' = <<>>))
       /\ wrong' = FALSE
  BY <1>2, <1>6, <1>7 DEF KeyInv
<1> QED  BY <1>4, <1>5, <1>8, <1>9, <1>10 DEF KeyInv

LEMMA BytesRead ==
  ASSUME KeyInv, Keys!Read
  PROVE  KeyInv'
<1>1. /\ keysPc = "read" /\ tty' = <<>> /\ keysPc' = "decode" /\ scFIFO' = Keys!PushAll(scFIFO, ScDepth, tty)
      /\ UNCHANGED <<keys, bIdentifying, scanKeyCode, due, wrong>>
  BY DEF Keys!Read, Keys!scanVars, Keys!ghosts
<1>2. scFIFO' = scFIFO \o tty
  <2>1. Len(scFIFO \o tty) = Len(scFIFO) + Len(tty)
    BY DEF KeyInv, KeyTypes
  <2>2. Len(scFIFO \o tty) < ScDepth
    BY <2>1, KeySizes, KeysAssumption DEF KeyInv
  <2> QED  BY <1>1, <2>2 DEF Keys!PushAll
<1>3. /\ scFIFO' \in Seq(KeyBytes) /\ Len(scFIFO') = Len(scFIFO) + Len(tty)
      /\ \A k \in 1 .. Len(scFIFO) + Len(tty) : scFIFO'[k] = IF k <= Len(scFIFO) THEN scFIFO[k] ELSE tty[k - Len(scFIFO)]
  BY <1>2, ConcatProperties DEF KeyInv, KeyTypes
<1>4. tty' \in Seq(KeyBytes) /\ Len(tty') = 0
  BY <1>1
<1>5. KeyTypes'
  BY <1>1, <1>3, <1>4 DEF KeyInv, KeyTypes
<1>6. Taken' = Taken /\ Begun' = Total /\ Total' = Total
  <2>1. Taken' = Taken
    BY <1>1 DEF Taken
  <2>2. Begun' = Taken + (Len(scFIFO) + Len(tty)) /\ Total' = Begun' + 0
    BY <1>3, <1>4, <2>1 DEF Begun, Total
  <2> QED  BY <2>1, <2>2, KeySizes DEF KeyInv
<1>7. ASSUME NEW j \in 1 .. Total
      PROVE  Byte(j)' = Byte(j)
  <2>1. CASE j <= Taken
    BY <1>1, <1>6, <2>1 DEF Byte
  <2>2. CASE ~(j <= Taken)
    <3>0. KeyTypes
      BY DEF KeyInv
    <3>1. Byte(j)' = scFIFO'[j - Taken]
      BY <1>6, <2>2 DEF Byte
    <3>2. j - Taken \in 1 .. Len(scFIFO) + Len(tty)
      BY <2>2, <3>0, KeySizes
    <3>3. scFIFO'[j - Taken] = IF j - Taken <= Len(scFIFO) THEN scFIFO[j - Taken] ELSE tty[j - Taken - Len(scFIFO)]
      BY <1>3, <3>2
    <3>4. (j - Taken <= Len(scFIFO) <=> j <= Begun) /\ j - Taken - Len(scFIFO) = j - Begun
      BY <3>0, KeySizes
    <3> QED  BY <2>2, <3>1, <3>3, <3>4 DEF Byte
  <2> QED  BY <2>1, <2>2
<1>8. Undecoded' = Undecoded /\ \A k \in 1 .. Undecoded : Key(k)' = Key(k)
  BY <1>1 DEF Undecoded, Key
<1>9. Flow'
  BY <1>6, <1>7, <1>8, FlowSame DEF KeyInv
<1>10. Len(scFIFO') + Len(tty') <= Burst
  BY <1>3, <1>4, KeySizes DEF KeyInv
<1>11. \A k \in 1 .. Len(due') : due'[k] = Escape => Len(due') = 1
  BY <1>1 DEF KeyInv
<1> QED  BY <1>1, <1>5, <1>9, <1>10, <1>11 DEF KeyInv

LEMMA OneLong ==
  ASSUME NEW S, NEW q \in Seq(S), q # <<>>, Len(q) <= 1
  PROVE  Len(q) = 1 /\ Head(q) = q[1] /\ Tail(q) = <<>>
<1>1. Len(q) # 0 /\ Len(q) \in Nat
  BY EmptySeq
<1>2. Len(q) = 1
  BY <1>1
<1>3. Tail(q) \in Seq(S) /\ Len(Tail(q)) = Len(q) - 1
  BY HeadTailProperties
<1>4. Len(Tail(q)) = 0
  BY <1>2, <1>3
<1>5. Tail(q) = <<>>
  BY <1>3, <1>4, EmptySeq
<1>6. Head(q) = q[1]
  OBVIOUS
<1> QED  BY <1>2, <1>5, <1>6

LEMMA KeyPopped ==
  ASSUME KeyInv, Keys!MenuPops
  PROVE  KeyInv'
<1>1. keysPc' = "read" /\ UNCHANGED <<tty, scFIFO, bIdentifying, scanKeyCode>>
  BY DEF Keys!MenuPops, Keys!scanVars
<1>2. CASE keys = <<>>
  BY <1>1, <1>2, KeysRest DEF Keys!MenuPops
<1>3. CASE keys # <<>>
  <2>1. /\ keys' = Tail(keys) /\ wrong' = (wrong \/ due = <<>> \/ Head(keys) # Head(due))
        /\ due' = IF due = <<>> THEN due ELSE Tail(due)
    BY <1>3 DEF Keys!MenuPops
  <2>2. due # <<>> /\ keys[1] = due[1] /\ bIdentifying = FALSE /\ Len(keys) = 1 /\ wrong = FALSE
    <3>1. due # <<>> /\ keys[1] = due[1] /\ ~bIdentifying /\ bIdentifying \in BOOLEAN /\ wrong = FALSE
      BY <1>3 DEF KeyInv, KeyTypes
    <3>2. keys \in Seq(Strokes) /\ Len(keys) <= 1
      BY DEF KeyInv, KeyTypes
    <3>3. Len(keys) = 1
      BY <1>3, <3>2, OneLong
    <3> QED  BY <3>1, <3>3
  <2>3. Head(keys) = keys[1] /\ Head(due) = due[1] /\ keys' = <<>>
    <3>1. keys \in Seq(Strokes) /\ due \in Seq(Strokes)
      BY DEF KeyInv, KeyTypes
    <3>2. Head(keys) = keys[1] /\ Head(due) = due[1]
      BY <1>3, <2>2, <3>1
    <3>3. Tail(keys) = <<>>
      <4>1. Len(keys) <= 1
        BY <2>2
      <4> QED  BY <1>3, <3>1, <4>1, OneLong
    <3> QED  BY <2>1, <3>2, <3>3
  <2>4. wrong' = FALSE
    BY <2>1, <2>2, <2>3
  <2>5. due' \in Seq(Strokes) /\ Len(due') = Len(due) - 1 /\ \A k \in 1 .. Len(due) - 1 : due'[k] = due[k + 1]
    BY <2>1, <2>2 DEF KeyInv, KeyTypes
  <2>6. KeyTypes'
    <3>1. <<>> \in Seq(Strokes)
      OBVIOUS
    <3> QED  BY <1>1, <2>3, <2>5, <3>1 DEF KeyInv, KeyTypes
  <2>7. Taken' = Taken /\ Begun' = Begun /\ Total' = Total
    BY <1>1 DEF Taken, Begun, Total
  <2>8. \A j \in 1 .. Total : Byte(j)' = Byte(j)
    BY <1>1, <2>7 DEF Byte
  <2>9. Undecoded' = Undecoded /\ Undecoded = Len(due) - 1
    <3>1. Len(keys') = 0 /\ Len(due) \in Nat
      BY <2>3 DEF KeyInv, KeyTypes
    <3> QED  BY <2>2, <2>5, <3>1 DEF Undecoded
  <2>10. ASSUME NEW k \in 1 .. Undecoded
         PROVE  Key(k)' = Key(k)
    <3>1. Key(k)' = due'[0 + k]
      BY <2>3 DEF Key
    <3>2. Key(k) = due[1 + k]
      BY <2>2 DEF Key
    <3>3. 0 + k = k /\ 1 + k = k + 1 /\ k \in 1 .. Len(due) - 1
      BY <2>9
    <3> QED  BY <2>5, <3>1, <3>2, <3>3
  <2>11. Flow'
    BY <2>7, <2>8, <2>9, <2>10, FlowSame DEF KeyInv
  <2>12. ASSUME NEW k \in 1 .. Len(due')
         PROVE  due'[k] # Escape
    <3>1. Len(due) \in Nat /\ k \in 1 .. Len(due) - 1
      BY <2>5 DEF KeyInv, KeyTypes
    <3>2. k + 1 \in 1 .. Len(due) /\ Len(due) # 1
      <4>1. PICK n : n = Len(due)
        OBVIOUS
      <4>2. n \in Nat /\ k \in 1 .. n - 1
        BY <3>1, <4>1
      <4>3. k + 1 \in 1 .. n /\ n # 1
        BY <4>2
      <4> QED  BY <4>1, <4>3
    <3> QED  BY <2>5, <3>1, <3>2 DEF KeyInv
  <2> QED  BY <1>1, <2>2, <2>3, <2>4, <2>6, <2>11, <2>12 DEF KeyInv
<1> QED  BY <1>2, <1>3

-----------------------------------------------------------------------------
(* A byte is decoded, or the wait for one ends.                            *)
Decodes ==
  /\ keysPc = "decode" /\ keysPc' \in {"timer", "arm"} /\ UNCHANGED <<tty, due, wrong>>

LEMMA OneDecoded ==
  ASSUME KeyInv, Decodes, KeyTypes', Decoded, bIdentifying' = FALSE, Len(scFIFO') <= Len(scFIFO)
  PROVE  KeyInv'
<1>1. Flow'
  BY FlowDecoded DEF KeyInv
<1>2. Len(keys') <= 1 /\ keys' # <<>> /\ keys'[1] = due'[1] /\ due' = due /\ due # <<>>
  BY DEF Decoded
<1>3. Len(scFIFO') + Len(tty') <= Burst
  <2>1. Len(scFIFO') \in Nat /\ Len(scFIFO) \in Nat /\ Len(tty) \in Nat /\ tty' = tty
    BY DEF KeyInv, KeyTypes, Decodes
  <2> QED  BY <2>1, KeysAssumption DEF KeyInv
<1>4. \A k \in 1 .. Len(due') : due'[k] = Escape => Len(due') = 1
  BY <1>2 DEF KeyInv
<1> QED  BY <1>1, <1>2, <1>3, <1>4 DEF KeyInv, Decodes

TakesByte(ch) == Decodes /\ scFIFO # <<>> /\ scFIFO' = Tail(scFIFO) /\ ch = Head(scFIFO)

LEMMA ByteTaken ==
  ASSUME KeyInv, NEW ch, TakesByte(ch)
  PROVE  /\ keys = <<>> /\ scFIFO' \in Seq(KeyBytes) /\ ch \in KeyBytes /\ ch = scFIFO[1]
         /\ Len(scFIFO) \in Nat \ {0} /\ Len(scFIFO') = Len(scFIFO) - 1
         /\ \A k \in 1 .. Len(scFIFO) - 1 : scFIFO'[k] = scFIFO[k + 1]
         /\ KeyTypes /\ Flow /\ due # <<>> /\ due[1] \in Strokes /\ Len(due[1]) \in 1 .. 5
         /\ Len(due[1]) <= Total /\ \A m \in 1 .. Len(due[1]) : Byte(m) = due[1][m]
         /\ Begun = 0 \/ Len(due[1]) <= Begun
<1>1. KeyTypes /\ Flow /\ keys = <<>> /\ scFIFO \in Seq(KeyBytes) /\ scFIFO # <<>> /\ scFIFO' = Tail(scFIFO)
      /\ ch = Head(scFIFO)
  BY DEF KeyInv, KeyTypes, TakesByte, Decodes
<1>2. scFIFO' \in Seq(KeyBytes) /\ ch \in KeyBytes /\ Len(scFIFO') = Len(scFIFO) - 1
      /\ \A k \in 1 .. Len(scFIFO') : scFIFO'[k] = scFIFO[k + 1]
  BY <1>1, HeadTailProperties
<1>3. Len(scFIFO) \in Nat \ {0} /\ ch = scFIFO[1]
  BY <1>1, EmptySeq
<1>4. Total # 0
  BY <1>1, <1>3, KeySizes
<1>5. due # <<>>
  BY <1>1, <1>4, FirstKey
<1>6. /\ due[1] \in Strokes /\ Len(due[1]) <= Total /\ \A m \in 1 .. Len(due[1]) : Byte(m) = due[1][m]
      /\ Begun = 0 \/ Len(due[1]) <= Begun
  BY <1>1, <1>5, FirstKey
<1>7. Len(due[1]) \in 1 .. 5
  BY <1>6, StrokeIs
<1> QED  BY <1>1, <1>2, <1>3, <1>5, <1>6, <1>7

LEMMA Pushed ==
  ASSUME keys = <<>>, NEW key, Keys!Determine(key)
  PROVE  keys' = <<key>>
<1>1. Len(keys) # KeyDepth - 1
  BY KeysAssumption
<1>2. keys' = Append(keys, key)
  BY <1>1 DEF Keys!Determine, Keys!Push
<1> QED  BY <1>2

(* A byte that is a key. *)
LEMMA NormalDecoded ==
  ASSUME KeyInv, NEW ch, TakesByte(ch), ch # "ESC", bIdentifying = FALSE,
         Keys!Determine(<<ch>>), UNCHANGED <<bIdentifying, scanKeyCode>>
  PROVE  KeyInv'
<1>1. Taken = 0 /\ Taken' = 0 /\ Begun = Len(scFIFO) /\ Begun' = Len(scFIFO) - 1
  <2>1. Taken = 0 /\ Taken' = 0
    BY DEF Taken
  <2> QED  BY <2>1, ByteTaken DEF Begun
<1>2. due[1] = <<ch>> /\ Len(due[1]) = 1
  <2>1. Byte(1) = ch
    BY <1>1, ByteTaken DEF Byte
  <2>2. due[1][1] = ch
    BY <2>1, ByteTaken
  <2>3. Len(due[1]) = 1
    BY <2>2, ByteTaken, StrokeIs
  <2> QED  BY <2>2, <2>3, ByteTaken, StrokeIs
<1>3. keys' = <<due[1]>>
  BY <1>2, ByteTaken, Pushed
<1>4. KeyTypes'
  <2>1. <<due[1]>> \in Seq(Strokes)
    BY ByteTaken
  <2> QED  BY <1>3, <2>1, ByteTaken DEF KeyTypes, TakesByte, Decodes
<1>5. Decoded
  <2>1. Total = Len(scFIFO) + Len(tty) /\ Total' = (Len(scFIFO) - 1) + Len(tty) /\ Len(tty) \in Nat
    BY <1>1, ByteTaken DEF Total, TakesByte, Decodes, KeyTypes
  <2>2. ASSUME NEW m \in 1 .. Total, NEW q \in 1 .. Total, q = m + 1
        PROVE  Byte(m)' = Byte(q)
    <3>1. PICK n : n = Len(scFIFO)
      OBVIOUS
    <3>2. n \in Nat \ {0} /\ m \in Nat \ {0} /\ q \in Nat
      BY <2>1, <3>1, ByteTaken
    <3>3. CASE m <= n - 1
      <4>1. m \in 1 .. n - 1 /\ q <= n
        BY <2>2, <3>2, <3>3
      <4>2. Byte(m)' = scFIFO'[m - 0] /\ Byte(q) = scFIFO[q - 0]
        BY <1>1, <3>1, <3>2, <4>1 DEF Byte
      <4> QED  BY <2>2, <3>1, <3>2, <4>1, <4>2, ByteTaken
    <3>4. CASE ~(m <= n - 1)
      <4>1. ~(q <= n) /\ ~(q <= 0) /\ ~(m <= 0) /\ m - (n - 1) = q - n
        BY <2>2, <3>2, <3>4
      <4>2. Byte(m)' = tty'[m - (n - 1)] /\ Byte(q) = tty[q - n]
        BY <1>1, <3>1, <3>4, <4>1 DEF Byte
      <4> QED  BY <4>1, <4>2 DEF TakesByte, Decodes
    <3> QED  BY <3>3, <3>4
  <2>3. Begun' = Begun - 1 /\ Total' = Total - 1 /\ 1 <= Begun
    BY <1>1, <2>1, ByteTaken
  <2> QED  BY <1>2, <1>3, <2>2, <2>3, ByteTaken DEF Decoded, TakesByte, Decodes
<1>6. Len(scFIFO') <= Len(scFIFO) /\ bIdentifying' = FALSE
  BY ByteTaken
<1> QED  BY <1>4, <1>5, <1>6, OneDecoded DEF TakesByte

(* A byte that only moves from scFIFO to the code that is identified. *)
LEMMA ByteMoved ==
  ASSUME KeyInv, NEW ch, TakesByte(ch), keys' = keys, KeyTypes', Taken' = Taken + 1,
         bIdentifying' = TRUE, \A j \in 1 .. Taken : Byte(j)' = Byte(j), \A j \in {Taken + 1} : Byte(j)' = ch,
         Len(scanKeyCode') + 1 < Len(due[1]) \/ (due[1] = Escape /\ scanKeyCode' = <<>>)
  PROVE  KeyInv'
<1>1. PICK n, size : n = Taken /\ size = Len(scFIFO)
  OBVIOUS
<1>2. n \in Nat /\ size \in Nat \ {0} /\ Begun = n + size /\ Begun' = (n + 1) + (size - 1) /\ Taken' = n + 1
  <2>1. Begun' = Taken' + Len(scFIFO')
    BY DEF Begun
  <2> QED  BY <1>1, <2>1, ByteTaken, KeySizes DEF Begun
<1>3. Begun' = Begun /\ Total' = Total
  BY <1>2 DEF Total, TakesByte, Decodes
<1>4. ASSUME NEW j \in 1 .. Total
      PROVE  Byte(j)' = Byte(j)
  <2>1. CASE j <= n
    BY <1>1, <1>2, <2>1
  <2>2. CASE j = n + 1
    <3>1. ~(j <= Taken) /\ j <= Begun /\ j - Taken = 1
      BY <1>1, <1>2, <2>2
    <3>2. Byte(j) = scFIFO[1]
      BY <3>1 DEF Byte
    <3>3. Byte(j)' = ch
      BY <1>1, <2>2
    <3> QED  BY <3>2, <3>3, ByteTaken
  <2>3. CASE n + 1 < j /\ j <= n + size
    <3>1. ~(j <= Taken) /\ ~(j <= Taken') /\ j <= Begun /\ j <= Begun'
      BY <1>1, <1>2, <2>3
    <3>2. Byte(j)' = scFIFO'[j - (n + 1)] /\ Byte(j) = scFIFO[j - n]
      BY <1>1, <1>2, <3>1 DEF Byte
    <3>3. j - (n + 1) \in 1 .. size - 1 /\ (j - (n + 1)) + 1 = j - n
      BY <1>2, <2>3
    <3> QED  BY <1>1, <3>2, <3>3, ByteTaken
  <2>4. CASE n + size < j
    <3>1. ~(j <= Taken) /\ ~(j <= Taken') /\ ~(j <= Begun) /\ ~(j <= Begun')
      BY <1>1, <1>2, <2>4
    <3>2. Byte(j)' = tty'[j - Begun'] /\ Byte(j) = tty[j - Begun]
      BY <3>1 DEF Byte
    <3> QED  BY <1>3, <3>2 DEF TakesByte, Decodes
  <2> QED  BY <1>2, <2>1, <2>2, <2>3, <2>4
<1>5. due' = due /\ tty' = tty /\ wrong' = wrong /\ keysPc' \in {"timer", "arm"}
  BY DEF TakesByte, Decodes
<1>6. Undecoded' = Undecoded /\ \A k \in 1 .. Undecoded : Key(k)' = Key(k)
  BY <1>5 DEF Undecoded, Key
<1>7. Flow'
  BY <1>3, <1>4, <1>6, ByteTaken, FlowSame
<1>8. Len(scFIFO') + Len(tty') <= Burst
  <2>1. Len(tty) \in Nat /\ Len(scFIFO) + Len(tty) <= Burst /\ Burst \in Nat
    BY KeysAssumption DEF KeyInv, KeyTypes
  <2> QED  BY <1>5, <2>1, ByteTaken
<1> QED  BY <1>5, <1>7, <1>8, ByteTaken DEF KeyInv

(* The ESC that begins a special key, or is the ESC key. *)
LEMMA EscapeDecoded ==
  ASSUME KeyInv, TakesByte("ESC"), bIdentifying = FALSE, bIdentifying' = TRUE, scanKeyCode' = <<>>, keys' = keys
  PROVE  KeyInv'
<1>1. Taken = 0 /\ Taken' = 1
  BY DEF Taken
<1>2. KeyTypes'
  <2>1. <<>> \in Seq(KeyBytes)
    OBVIOUS
  <2> QED  BY <2>1, ByteTaken DEF KeyTypes, TakesByte, Decodes
<1>3. \A j \in {Taken + 1} : Byte(j)' = "ESC"
  BY <1>1 DEF Byte
<1>4. \A j \in 1 .. Taken : Byte(j)' = Byte(j)
  BY <1>1
<1>5. 1 < Len(due[1]) \/ due[1] = Escape
  <2>1. Byte(1) = "ESC"
    <3>1. 1 <= Begun
      BY <1>1, ByteTaken DEF Begun
    <3> QED  BY <1>1, <3>1, ByteTaken DEF Byte
  <2>2. due[1][1] = "ESC"
    BY <2>1, ByteTaken
  <2>3. Len(due[1]) = 1 => due[1] = <<due[1][1]>>
    BY ByteTaken, StrokeIs
  <2>4. Len(due[1]) = 1 => due[1] = Escape
    BY <2>2, <2>3 DEF Escape
  <2>5. Len(due[1]) \in 1 .. 5
    BY ByteTaken
  <2>6. Len(due[1]) = 1 \/ 1 < Len(due[1])
    BY <2>5
  <2> QED  BY <2>4, <2>6
<1>6. Len(scanKeyCode') = 0
  OBVIOUS
<1> QED  BY <1>1, <1>2, <1>3, <1>4, <1>5, <1>6, ByteMoved

(* A further byte of a special key.  What it is: *)
LEMMA SpecialByte ==
  ASSUME KeyInv, NEW ch, TakesByte(ch), bIdentifying = TRUE
  PROVE  /\ Taken = 1 + Len(scanKeyCode) /\ Len(scanKeyCode) \in 0 .. 3 /\ scanKeyCode \in Seq(KeyBytes)
         /\ Len(scanKeyCode) + 2 <= Len(due[1]) /\ due[1][Len(scanKeyCode) + 2] = ch /\ due[1][1] = "ESC"
         /\ \A k \in 1 .. Len(scanKeyCode) : due[1][k + 1] = scanKeyCode[k]
         /\ ch \in EndBytes <=> Len(scanKeyCode) + 2 = Len(due[1])
<1>1. scanKeyCode \in Seq(KeyBytes) /\ Len(scanKeyCode) \in Nat
  BY DEF KeyInv, KeyTypes
<1>2. PICK n : n = Len(scanKeyCode)
  OBVIOUS
<1>3. Taken = 1 + n
  BY <1>2 DEF Taken
<1>4. Begun = 1 + n + Len(scFIFO) /\ Total = Begun + Len(tty) /\ Len(tty) \in Nat
  BY <1>3, ByteTaken, KeySizes DEF Begun
<1>5. n + 2 <= Len(due[1])
  <2>1. CASE due[1] = Escape /\ scanKeyCode = <<>>
    <3>1. Len(due) = 1
      <4>1. 1 \in 1 .. Len(due)
        BY ByteTaken, EmptySeq DEF KeyTypes
      <4> QED  BY <2>1, <4>1 DEF KeyInv
    <3>2. Total = Len(due[1]) /\ Len(due[1]) = 1
      BY <2>1, <3>1, ByteTaken, FirstKey DEF Escape
    <3> QED  BY <1>1, <1>2, <1>4, <3>2, ByteTaken
  <2>2. CASE n + 1 < Len(due[1])
    BY <1>1, <1>2, <2>2, ByteTaken
  <2> QED  BY <1>2, <2>1, <2>2, ByteTaken DEF KeyInv
<1>6. n \in 0 .. 3 /\ Len(due[1]) \in 2 .. 5 /\ Len(due[1]) > 1
  <2>1. PICK len : len = Len(due[1])
    OBVIOUS
  <2>2. n \in Nat /\ len \in 1 .. 5 /\ n + 2 <= len
    BY <1>1, <1>2, <1>5, <2>1, ByteTaken
  <2>3. n \in 0 .. 3 /\ len \in 2 .. 5 /\ len > 1
    BY <2>2
  <2> QED  BY <2>1, <2>3
<1>7. due[1][n + 2] = ch
  <2>1. PICK m : m = n + 2
    OBVIOUS
  <2>2. ~(m <= Taken) /\ m <= Begun /\ m - Taken = 1 /\ m \in 1 .. Len(due[1])
    BY <1>3, <1>4, <1>5, <1>6, <2>1, ByteTaken
  <2>3. Byte(m) = scFIFO[1]
    BY <2>2 DEF Byte
  <2> QED  BY <2>1, <2>2, <2>3, ByteTaken
<1>8. /\ due[1][1] = "ESC" /\ due[1][Len(due[1])] \in EndBytes
      /\ \A k \in 2 .. Len(due[1]) - 1 : due[1][k] \notin EndBytes
  <2>1. due[1] \in Strokes
    BY ByteTaken
  <2> QED  BY <1>6, <2>1, StrokeIs
<1>9. ASSUME NEW k \in 1 .. n
      PROVE  due[1][k + 1] = scanKeyCode[k]
  <2>1. PICK m : m = k + 1
    OBVIOUS
  <2>2. m <= Taken /\ m # 1 /\ m - 1 = k /\ m \in 1 .. Len(due[1])
    BY <1>3, <1>5, <1>6, <2>1
  <2>3. Byte(m) = scanKeyCode[m - 1]
    BY <2>2 DEF Byte
  <2> QED  BY <2>1, <2>2, <2>3, ByteTaken
<1>10. ch \in EndBytes <=> n + 2 = Len(due[1])
  <2>1. n + 2 # Len(due[1]) => n + 2 \in 2 .. Len(due[1]) - 1
    BY <1>5, <1>6
  <2> QED  BY <1>7, <1>8, <2>1
<1> QED  BY <1>1, <1>2, <1>3, <1>5, <1>6, <1>7, <1>8, <1>9, <1>10

Longer(ch) == scanKeyCode' = Append(scanKeyCode, ch)

LEMMA SpecialMoved ==
  ASSUME KeyInv, NEW ch, TakesByte(ch), bIdentifying = TRUE, ch \notin EndBytes, Longer(ch),
         bIdentifying' = TRUE, keys' = keys
  PROVE  KeyInv'
<1>1. PICK n, len : n = Len(scanKeyCode) /\ len = Len(due[1])
  OBVIOUS
<1>2. scanKeyCode \in Seq(KeyBytes) /\ Taken = 1 + n /\ n \in 0 .. 3 /\ n + 2 <= len /\ n + 2 # len
  BY <1>1, SpecialByte
<1>3. /\ scanKeyCode' \in Seq(KeyBytes) /\ Len(scanKeyCode') = n + 1 /\ scanKeyCode'[n + 1] = ch
      /\ \A k \in 1 .. n : scanKeyCode'[k] = scanKeyCode[k]
  <2>1. ch \in KeyBytes
    BY ByteTaken
  <2> QED  BY <1>1, <1>2, <2>1, AppendProperties DEF Longer
<1>4. Taken' = Taken + 1
  BY <1>2, <1>3 DEF Taken
<1>5. KeyTypes'
  BY <1>3, ByteTaken DEF KeyTypes, TakesByte, Decodes
<1>6. ASSUME NEW j \in 1 .. Taken
      PROVE  Byte(j)' = Byte(j)
  <2>1. j <= Taken /\ j <= Taken' /\ (j # 1 => j - 1 \in 1 .. n)
    BY <1>2, <1>4
  <2> QED  BY <1>3, <2>1 DEF Byte
<1>7. ASSUME NEW j \in {Taken + 1}
      PROVE  Byte(j)' = ch
  <2>1. j <= Taken' /\ j # 1 /\ j - 1 = n + 1
    BY <1>2, <1>4
  <2> QED  BY <1>3, <2>1 DEF Byte
<1>8. Len(scanKeyCode') + 1 < Len(due[1])
  <2>1. len \in 1 .. 5
    BY <1>1, ByteTaken
  <2>2. (n + 1) + 1 < len
    BY <1>2, <2>1
  <2> QED  BY <1>1, <1>3, <2>2
<1> QED  BY <1>4, <1>5, <1>6, <1>7, <1>8, ByteMoved

LEMMA WholeKey ==
  ASSUME KeyInv, NEW ch, TakesByte(ch), bIdentifying = TRUE, ch \in EndBytes
  PROVE  <<"ESC">> \o Append(scanKeyCode, ch) = due[1]
<1>1. PICK n, code : n = Len(scanKeyCode) /\ code = Append(scanKeyCode, ch)
  OBVIOUS
<1>2. /\ scanKeyCode \in Seq(KeyBytes) /\ n \in 0 .. 3 /\ n + 2 = Len(due[1]) /\ due[1][n + 2] = ch
      /\ due[1][1] = "ESC" /\ \A k \in 1 .. n : due[1][k + 1] = scanKeyCode[k]
  BY <1>1, SpecialByte
<1>3. /\ code \in Seq(KeyBytes) /\ Len(code) = n + 1 /\ code[n + 1] = ch
      /\ \A k \in 1 .. n : code[k] = scanKeyCode[k]
  <2>1. ch \in KeyBytes
    BY ByteTaken
  <2> QED  BY <1>1, <1>2, <2>1, AppendProperties
<1>4. <<"ESC">> \in Seq({"ESC"} \union KeyBytes) /\ code \in Seq({"ESC"} \union KeyBytes) /\ Len(<<"ESC">>) = 1
      /\ <<"ESC">>[1] = "ESC"
  <2>1. KeyBytes \subseteq {"ESC"} \union KeyBytes
    OBVIOUS
  <2> QED  BY <1>3, <2>1
<1> DEFINE all == <<"ESC">> \o code
<1>5. /\ all \in Seq({"ESC"} \union KeyBytes) /\ Len(all) = 1 + (n + 1)
      /\ \A k \in 1 .. 1 + (n + 1) : all[k] = IF k <= 1 THEN <<"ESC">>[k] ELSE code[k - 1]
  BY <1>3, <1>4, ConcatProperties
<1> HIDE DEF all
<1>6. due[1] \in Seq({"ESC"} \union KeyBytes)
  <2>1. due[1] \in Seq(KeyBytes) /\ KeyBytes \subseteq {"ESC"} \union KeyBytes
    BY ByteTaken, StrokeIs
  <2> QED  BY <2>1
<1>0. n \in Nat
  BY <1>2
<1>7. ASSUME NEW k \in 1 .. n + 2
      PROVE  all[k] = due[1][k]
  <2>1. CASE k = 1
    BY <1>2, <1>4, <1>5, <2>1
  <2>2. CASE k = n + 2
    <3>1. k \in 1 .. 1 + (n + 1) /\ ~(k <= 1) /\ k - 1 = n + 1
      BY <1>2, <2>2
    <3> QED  BY <1>2, <1>3, <1>5, <2>2, <3>1
  <2>3. CASE k # 1 /\ k # n + 2
    <3>1. k \in 1 .. 1 + (n + 1) /\ ~(k <= 1) /\ k - 1 \in 1 .. n /\ (k - 1) + 1 = k
      BY <1>0, <2>3
    <3>2. all[k] = code[k - 1]
      BY <1>5, <3>1
    <3>3. code[k - 1] = scanKeyCode[k - 1] /\ due[1][(k - 1) + 1] = scanKeyCode[k - 1]
      BY <1>2, <1>3, <3>1
    <3> QED  BY <3>1, <3>2, <3>3
  <2> QED  BY <2>1, <2>2, <2>3
<1>8. Len(all) = n + 2
  BY <1>2, <1>5
<1>9. all = due[1]
  BY <1>2, <1>5, <1>6, <1>7, <1>8, SeqEqual
<1> QED  BY <1>1, <1>9 DEF all

LEMMA SpecialEnded ==
  ASSUME KeyInv, NEW ch, TakesByte(ch), bIdentifying = TRUE, ch \in EndBytes, Longer(ch),
         bIdentifying' = FALSE, Keys!Determine(due[1])
  PROVE  KeyInv'
<1>1. PICK n, size : n = Len(scanKeyCode) /\ size = Len(scFIFO)
  OBVIOUS
<1>2. scanKeyCode \in Seq(KeyBytes) /\ Taken = 1 + n /\ n \in 0 .. 3 /\ Len(due[1]) = n + 2
  BY <1>1, SpecialByte
<1>3. scanKeyCode' \in Seq(KeyBytes)
  <2>1. ch \in KeyBytes
    BY ByteTaken
  <2> QED  BY <1>2, <2>1, AppendProperties DEF Longer
<1>4. keys' = <<due[1]>>
  BY ByteTaken, Pushed
<1>5. KeyTypes'
  <2>1. <<due[1]>> \in Seq(Strokes)
    BY ByteTaken
  <2> QED  BY <1>3, <1>4, <2>1, ByteTaken DEF KeyTypes, TakesByte, Decodes
<1>6. size \in Nat \ {0} /\ Taken' = 0 /\ Begun = 1 + n + size /\ Begun' = size - 1
  <2>1. Taken' = 0
    BY DEF Taken
  <2>2. Begun' = Taken' + Len(scFIFO') /\ Begun = Taken + Len(scFIFO)
    BY DEF Begun
  <2> QED  BY <1>1, <1>2, <2>1, <2>2, ByteTaken
<1>7. Total = Begun + Len(tty) /\ Total' = Begun' + Len(tty) /\ Len(tty) \in Nat
  BY ByteTaken DEF Total, TakesByte, Decodes, KeyTypes
<1>8. ASSUME NEW m \in 1 .. Total, NEW q \in 1 .. Total, q = m + (n + 2)
      PROVE  Byte(m)' = Byte(q)
  <2>1. m \in Nat \ {0} /\ q \in Nat
    BY <1>2, <1>6, <1>7
  <2>2. CASE m <= size - 1
    <3>1. m \in 1 .. size - 1 /\ q <= 1 + n + size /\ ~(q <= 1 + n) /\ q - (1 + n) = m + 1
      BY <1>2, <1>6, <1>8, <2>1, <2>2
    <3>2. Byte(m)' = scFIFO'[m - 0] /\ Byte(q) = scFIFO[q - (1 + n)]
      BY <1>2, <1>6, <2>1, <3>1 DEF Byte
    <3> QED  BY <1>1, <2>1, <3>1, <3>2, ByteTaken
  <2>3. CASE ~(m <= size - 1)
    <3>1. ~(q <= 1 + n + size) /\ ~(q <= 1 + n) /\ ~(m <= 0) /\ m - (size - 1) = q - (1 + n + size)
      BY <1>2, <1>6, <1>8, <2>1, <2>3
    <3>2. Byte(m)' = tty'[m - (size - 1)] /\ Byte(q) = tty[q - (1 + n + size)]
      BY <1>2, <1>6, <2>3, <3>1 DEF Byte
    <3> QED  BY <3>1, <3>2 DEF TakesByte, Decodes
  <2> QED  BY <2>2, <2>3
<1>9. Decoded
  <2>1. Begun' = Begun - (n + 2) /\ Total' = Total - (n + 2) /\ n + 2 <= Begun
    BY <1>2, <1>6, <1>7
  <2> QED  BY <1>2, <1>4, <1>8, <2>1, ByteTaken DEF Decoded, TakesByte, Decodes
<1>10. Len(scFIFO') <= Len(scFIFO)
  BY ByteTaken
<1> QED  BY <1>5, <1>9, <1>10, OneDecoded DEF TakesByte

(* Nothing has come for as long as the slot ran: the ESC was the key.      *)
LEMMA EscapeExpired ==
  ASSUME KeyInv, Decodes, scFIFO = <<>>, scFIFO' = scFIFO, scanKeyCode' = scanKeyCode, bIdentifying = TRUE,
         bIdentifying' = FALSE, Keys!Determine(Escape)
  PROVE  KeyInv'
<1>1. KeyTypes /\ Flow /\ keys = <<>> /\ due # <<>>
      /\ (Len(scanKeyCode) + 1 < Len(due[1]) \/ (due[1] = Escape /\ scanKeyCode = <<>>))
  BY DEF KeyInv, Decodes
<1>2. PICK n : n = Len(scanKeyCode)
  OBVIOUS
<1>3. n \in Nat /\ Taken = 1 + n /\ Begun = 1 + n
  <2>1. Taken = 1 + n /\ Begun = Taken + 0
    BY <1>2 DEF Taken, Begun
  <2> QED  BY <1>1, <1>2, <2>1, KeySizes
<1>4. Len(due[1]) <= 1 + n /\ due[1] \in Strokes /\ Len(due[1]) \in Nat
  <2>1. due[1] \in Strokes /\ (Begun = 0 \/ Len(due[1]) <= Begun)
    BY <1>1, FirstKey
  <2> QED  BY <1>3, <2>1, StrokeIs
<1>5. due[1] = Escape /\ scanKeyCode = <<>> /\ n = 0 /\ Len(due[1]) = 1
  <2>1. due[1] = Escape /\ scanKeyCode = <<>>
    BY <1>1, <1>2, <1>3, <1>4
  <2> QED  BY <1>2, <2>1 DEF Escape
<1>6. keys' = <<due[1]>>
  BY <1>1, <1>5, Pushed
<1>7. KeyTypes'
  <2>1. <<due[1]>> \in Seq(Strokes)
    BY <1>4
  <2> QED  BY <1>1, <1>6, <2>1 DEF KeyTypes, Decodes
<1>8. Taken' = 0 /\ Begun' = 0 /\ Total' = Len(tty) /\ Total = 1 + Len(tty) /\ Begun = 1 /\ Len(tty) \in Nat
  <2>1. Taken' = 0
    BY DEF Taken
  <2>2. Begun' = 0
    BY <2>1 DEF Begun
  <2> QED  BY <1>1, <1>3, <1>5, <2>1, <2>2, KeySizes DEF Total, Decodes
<1>9. ASSUME NEW m \in 1 .. Total, NEW q \in 1 .. Total, q = m + 1
      PROVE  Byte(m)' = Byte(q)
  <2>1. ~(m <= 0) /\ ~(q <= 1) /\ m - 0 = q - 1
    BY <1>8, <1>9
  <2>2. Byte(m)' = tty'[m - 0]
    BY <1>8, <2>1 DEF Byte
  <2>3. Byte(q) = tty[q - 1]
    BY <1>3, <1>5, <1>8, <2>1 DEF Byte
  <2> QED  BY <2>1, <2>2, <2>3 DEF Decodes
<1>10. Decoded
  <2>1. Begun' = Begun - 1 /\ Total' = Total - 1 /\ 1 <= Begun
    BY <1>8
  <2> QED  BY <1>1, <1>5, <1>6, <1>9, <2>1 DEF Decoded, Decodes
<1>11. Len(scFIFO') <= Len(scFIFO)
  BY <1>1, KeySizes
<1> QED  BY <1>7, <1>10, <1>11, OneDecoded

LEMMA KeyDecoded ==
  ASSUME KeyInv, Keys!Decode
  PROVE  KeyInv'
<1>1. keysPc = "decode" /\ UNCHANGED <<tty, due, wrong>>
  BY DEF Keys!Decode, Keys!ghosts
<1>2. bIdentifying \in BOOLEAN /\ keys = <<>>
  BY <1>1 DEF KeyInv, KeyTypes
<1>3. CASE scFIFO = <<>>
  <2>1. keysPc' = "timer" /\ UNCHANGED <<scFIFO, scanKeyCode>>
    BY <1>3 DEF Keys!Decode
  <2>2. CASE UNCHANGED <<keys, bIdentifying>>
    BY <1>1, <2>1, <2>2, KeysRest
  <2>3. CASE bIdentifying /\ Keys!Determine(Escape) /\ bIdentifying' = FALSE
    <3>1. Decodes /\ bIdentifying = TRUE
      BY <1>1, <1>2, <2>1, <2>3 DEF Decodes
    <3> QED  BY <1>3, <2>1, <2>3, <3>1, EscapeExpired
  <2>4. \/ UNCHANGED <<keys, bIdentifying>>
        \/ bIdentifying /\ Keys!Determine(Escape) /\ bIdentifying' = FALSE
    BY <1>3 DEF Keys!Decode, Escape
  <2> QED  BY <2>2, <2>3, <2>4
<1>4. CASE scFIFO # <<>>
  <2>1. PICK ch : ch = Head(scFIFO)
    OBVIOUS
  <2>2. /\ scFIFO' = Tail(scFIFO)
        /\ IF bIdentifying THEN Keys!DecodeSpecial(ch) ELSE Keys!DecodeNormal(ch)
    BY <1>4, <2>1 DEF Keys!Decode
  <2>3. CASE bIdentifying
    <3>1. Keys!DecodeSpecial(ch) /\ bIdentifying = TRUE
      BY <1>2, <2>2, <2>3
    <3>2. TakesByte(ch)
      BY <1>1, <1>4, <2>1, <2>2, <3>1 DEF TakesByte, Decodes, Keys!DecodeSpecial
    <3>3. Len(scanKeyCode) # 4
      <4>1. Len(scanKeyCode) \in 0 .. 3
        BY <3>1, <3>2, SpecialByte
      <4> QED  BY <4>1
    <3>4. Longer(ch)
      BY <3>1, <3>3 DEF Longer, Keys!DecodeSpecial
    <3>5. CASE ch \in EndBytes
      <4>1. <<"ESC">> \o Append(scanKeyCode, ch) = due[1] /\ due[1] \in Strokes
        BY <3>1, <3>2, <3>5, ByteTaken, WholeKey
      <4>2. bIdentifying' = FALSE /\ Keys!Determine(due[1])
        BY <3>1, <3>3, <3>5, <4>1 DEF Keys!DecodeSpecial
      <4> QED  BY <3>1, <3>2, <3>4, <3>5, <4>2, SpecialEnded
    <3>6. CASE ch \notin EndBytes
      <4>1. bIdentifying' = TRUE /\ keys' = keys
        BY <3>1, <3>6 DEF Keys!DecodeSpecial
      <4> QED  BY <3>1, <3>2, <3>4, <3>6, <4>1, SpecialMoved
    <3> QED  BY <3>5, <3>6
  <2>4. CASE ~bIdentifying
    <3>1. Keys!DecodeNormal(ch) /\ bIdentifying = FALSE
      BY <1>2, <2>2, <2>4
    <3>2. TakesByte(ch)
      BY <1>1, <1>4, <2>1, <2>2, <3>1 DEF TakesByte, Decodes, Keys!DecodeNormal
    <3>3. CASE ch = "ESC"
      <4>1. bIdentifying' = TRUE /\ scanKeyCode' = <<>> /\ keys' = keys
        BY <3>1, <3>3 DEF Keys!DecodeNormal
      <4> QED  BY <3>1, <3>2, <3>3, <4>1, EscapeDecoded
    <3>4. CASE ch # "ESC"
      <4>1. Keys!Determine(<<ch>>) /\ UNCHANGED <<bIdentifying, scanKeyCode>>
        BY <3>1, <3>4 DEF Keys!DecodeNormal, Keys!scanVars
      <4> QED  BY <3>1, <3>2, <3>4, <4>1, NormalDecoded
    <3> QED  BY <3>3, <3>4
  <2> QED  BY <2>3, <2>4
<1> QED  BY <1>3, <1>4

LEMMA KeyStep ==
  ASSUME KeyInv, [Keys!Next]_(Keys!vars)
  PROVE  KeyInv'
<1>1. CASE Keys!MenuPops
  BY <1>1, KeyPopped
<1>2. CASE Keys!Read
  BY <1>2, BytesRead
<1>3. CASE Keys!Decode
  BY <1>3, KeyDecoded
<1>4. CASE Keys!ArmSlot
  <2>1. UNCHANGED <<tty, scFIFO, keys, bIdentifying, scanKeyCode, due, wrong>> /\ keysPc' \in {"timer", "set"}
    BY <1>4 DEF Keys!ArmSlot, Keys!fifoVars, Keys!ghosts
  <2> QED  BY <2>1, KeysRest
<1>5. CASE Keys!ArmSet
  <2>1. UNCHANGED <<tty, scFIFO, keys, bIdentifying, scanKeyCode, due, wrong>> /\ keysPc' = "timer"
    BY <1>5 DEF Keys!ArmSet, Keys!fifoVars, Keys!scanVars, Keys!ghosts
  <2> QED  BY <2>1, KeysRest
<1>6. CASE Keys!TimerRoutine
  <2>1. UNCHANGED <<tty, scFIFO, keys, bIdentifying, scanKeyCode, due, wrong>> /\ keysPc' = "menu"
    BY <1>6 DEF Keys!TimerRoutine, Keys!fifoVars, Keys!scanVars, Keys!ghosts
  <2> QED  BY <2>1, KeysRest
<1>7. CASE Keys!Tick
  <2>1. UNCHANGED <<keysPc, tty, scFIFO, keys, bIdentifying, scanKeyCode, due, wrong>>
    BY <1>7 DEF Keys!Tick, Keys!fifoVars, Keys!scanVars, Keys!ghosts
  <2> QED  BY <2>1, KeysRest
<1>8. CASE Keys!Press
  BY <1>8, KeyPressed
<1>9. CASE UNCHANGED Keys!vars
  <2>1. UNCHANGED <<keysPc, tty, scFIFO, keys, bIdentifying, scanKeyCode, due, wrong>>
    BY <1>9 DEF Keys!vars, Keys!fifoVars, Keys!scanVars, Keys!ghosts
  <2> QED  BY <2>1, KeysRest
<1> QED  BY <1>1, <1>2, <1>3, <1>4, <1>5, <1>6, <1>7, <1>8, <1>9 DEF Keys!Next, Keys!Loop

(* Theorem: the console programs act on the keys the user pressed, in      *)
(* their order; no sequence of a special key is taken apart and no key is  *)
(* lost (key_ctrl.cpp), whatever the sequences, however their bytes come   *)
(* in and whenever the timer decodes an ESC, as long as no more bytes come *)
(* at a time than scFIFO holds.                                            *)
THEOREM KeysPressed == ComponentsSpec => []KeysAsPressed
<1>1. KeyInv => KeysAsPressed
  BY DEF KeyInv, Keys!KeysAsPressed, KeysAsPressed
<1> QED  BY <1>1, KeyStart, KeyStep, KeysPart, PTL

-----------------------------------------------------------------------------
(* nvme_verify.  A tab for namespaces that is open, and not by hand, is    *)
(* open for one that was identified; a device whose admin queue the window *)
(* has configured itself is not the driver's own.                          *)
TabHasNamespace ==
  "nvme" \in enabled \ hand => {"identified", "sq_resourced"} \subseteq flags /\ geometry # "none"

OwnQueues == "aq_configured" \in flags /\ "sq_resourced" \notin flags => dev # "ready"

OfferedInv == TabHasNamespace /\ OwnQueues /\ ~overruled

(* What the script has found out when it comes to each of its clicks.      *)
ScriptKnows ==
  /\ script \in {"version", "lock"} => flags = {}
  /\ script \in {"config", "identify"} => driver = "verify" /\ "identified" \notin flags
  /\ script = "config" /\ ~nvmeTest => "aq_configured" \notin flags
  /\ script # "idle" => shown = "none"
  /\ nvmeTest \in BOOLEAN

WindowInv == OfferedInv /\ ScriptKnows /\ Window!ScriptEndsReady

(* What leaves these alone keeps them.                                     *)
LEMMA OfferedFrame == OfferedInv /\ UNCHANGED <<flags, geometry, enabled, dev, hand, overruled>> => OfferedInv'
BY DEF OfferedInv, TabHasNamespace, OwnQueues

LEMMA OfferedReplace == ASSUME NEW new PROVE OfferedInv /\ Window!ReplaceDriver(new) => OfferedInv'
<1> SUFFICES ASSUME OfferedInv, Window!ReplaceDriver(new) PROVE OfferedInv'
  OBVIOUS
<1>1. PICK removed \in BOOLEAN, installs \in BOOLEAN :
        Window!RemoveDriver(removed, IF new = "standard" /\ installs THEN {"tools"} ELSE {})
  BY DEF Window!ReplaceDriver
<1>2. flags' = {} /\ "nvme" \notin enabled'
  BY <1>1 DEF Window!RemoveDriver, Window!Clear, Window!NsChanged
<1>3. UNCHANGED overruled
  BY DEF Window!ReplaceDriver
<1> QED  BY <1>2, <1>3 DEF OfferedInv, TabHasNamespace, OwnQueues

(* A lock that passed either made the device or found none to make.        *)
LEMMA LockEffect ==
  ASSUME NEW first \in BOOLEAN, NEW init \in BOOLEAN, Window!Lock(first, init)
  PROVE  /\ UNCHANGED <<geometry, overruled, driver>> /\ hand' \in {hand, hand \ {"admin"}}
         /\ ("nvme" \in enabled') = ("nvme" \in enabled)
         /\ \/ flags' = flags /\ dev' = dev
            \/ /\ flags' = flags \union {"locked"} \union (IF init THEN {"aq_configured", "sq_resourced"} ELSE {})
               /\ driver = "verify"
               /\ dev' = "ready" => init \/ dev = "ready"
<1>1. PICK passed \in BOOLEAN :
        /\ IF first THEN Window!AutoLockFirst(init, passed) ELSE Window!LockPciDevice(init, passed)
        /\ LET f == IF ~passed THEN flags
                    ELSE flags \union {"locked"} \union (IF init THEN {"aq_configured", "sq_resourced"} ELSE {})
           IN /\ flags' = f
              /\ enabled' = IF passed THEN Window!StateChanged(enabled, f) ELSE enabled
              /\ hand' = IF passed THEN hand \ {"admin"} ELSE hand
  BY DEF Window!Lock
<1>2. UNCHANGED <<geometry, overruled, driver>>
  BY DEF Window!Lock
<1>3. ("nvme" \in enabled') = ("nvme" \in enabled)
  BY <1>1 DEF Window!StateChanged
<1>4. \/ ~passed /\ dev' = dev
      \/ passed /\ driver = "verify" /\ (dev' = "ready" => init \/ dev = "ready")
  <2>1. ASSUME Window!LockPciDevice(init, passed)
        PROVE  \/ ~passed /\ dev' = dev
               \/ passed /\ driver = "verify" /\ (dev' = "ready" => init \/ dev = "ready")
    BY <2>1 DEF Window!LockPciDevice, Window!Answers, Window!Passed
  <2>2. ASSUME Window!AutoLockFirst(init, passed)
        PROVE  \/ ~passed /\ dev' = dev
               \/ passed /\ driver = "verify" /\ (dev' = "ready" => init \/ dev = "ready")
    BY <2>1, <2>2 DEF Window!AutoLockFirst, Window!Answers
  <2> QED  BY <1>1, <2>1, <2>2
<1> QED  BY <1>1, <1>2, <1>3, <1>4

LEMMA OfferedLock ==
  ASSUME NEW first \in BOOLEAN, NEW init \in BOOLEAN PROVE OfferedInv /\ Window!Lock(first, init) => OfferedInv'
BY LockEffect DEF OfferedInv, TabHasNamespace, OwnQueues

LEMMA ConfigEffect ==
  ASSUME Window!ConfigAdminQueue
  PROVE  /\ UNCHANGED <<geometry, overruled, driver>> /\ hand' \in {hand, hand \ {"admin"}}
         /\ ("nvme" \in enabled') = ("nvme" \in enabled)
         /\ \/ flags' = flags /\ dev' = dev
            \/ flags' = flags \union {"aq_configured"} /\ dev' = "queues" /\ driver = "verify"
<1>1. PICK passed \in BOOLEAN :
        /\ Window!ConfigIoctl(passed)
        /\ IF passed
           THEN /\ flags' = flags \union {"aq_configured"}
                /\ enabled' = Window!StateChanged(enabled, flags') /\ hand' = hand \ {"admin"}
           ELSE UNCHANGED <<flags, enabled, hand>>
  BY DEF Window!ConfigAdminQueue
<1>2. UNCHANGED <<geometry, overruled, driver>>
  BY DEF Window!ConfigAdminQueue
<1>3. ("nvme" \in enabled') = ("nvme" \in enabled)
  BY <1>1 DEF Window!StateChanged
<1>4. \/ ~passed /\ dev' = dev
      \/ passed /\ dev' = "queues" /\ driver = "verify"
  BY <1>1 DEF Window!ConfigIoctl, Window!Answers, Window!Passed
<1> QED  BY <1>1, <1>2, <1>3, <1>4

LEMMA OfferedConfig == OfferedInv /\ Window!ConfigAdminQueue => OfferedInv'
BY ConfigEffect DEF OfferedInv, TabHasNamespace, OwnQueues

(* An identify of a namespace that passed: the window shows it.  Only a    *)
(* status that was taken for success leaves the filler.                    *)
LEMMA IdentifyEffect ==
  ASSUME NEW nsid \in Namespaces, NEW cns \in 0 .. 1, Window!Identify(nsid, cns)
  PROVE  /\ UNCHANGED <<driver, dev, overruled>>
         /\ \/ UNCHANGED <<flags, geometry, enabled, hand>>
            \/ /\ flags' = flags \union {"identified"} /\ geometry' # "none"
               /\ "nvme" \in enabled' => {"identified", "sq_resourced"} \subseteq flags'
               /\ errnoSet' => geometry' \in Namespaces /\ (driver = "standard" \/ dev \in {"queues", "ready"})
<1>1. PICK a \in Window!Answers("admin") :
        /\ Window!PassThrough(a)
        /\ IF ~Window!Passed(a) THEN UNCHANGED <<flags, geometry, enabled, hand, storeDS, files>>
           ELSE IF cns = 0
           THEN /\ Window!DecodeNamespace
                /\ flags' = flags \union {"identified"}
                /\ geometry' = IF a = "done" THEN nsid ELSE "filler"
                /\ enabled' = Window!NsChanged(enabled, flags') /\ hand' = hand \ {"nvme"}
           ELSE Window!DecodeController /\ UNCHANGED <<flags, geometry, enabled, hand>>
  BY DEF Window!Identify
<1>2. UNCHANGED <<driver, dev, overruled>>
  BY DEF Window!Identify, Window!outside
<1>3. CASE ~Window!Passed(a) \/ cns # 0
  BY <1>1, <1>2, <1>3
<1>4. CASE Window!Passed(a) /\ cns = 0
  <2>1. geometry' # "none"
    BY <1>1, <1>4, WindowAssumption
  <2>2. "nvme" \in enabled' => {"identified", "sq_resourced"} \subseteq flags'
    BY <1>1, <1>4 DEF Window!NsChanged
  <2>3. errnoSet' => a = "done"
    BY <1>1, <1>4 DEF Window!PassThrough, Window!Passed
  <2>4. a = "done" => driver = "standard" \/ dev \in {"queues", "ready"}
    BY <1>1 DEF Window!Answers
  <2> QED  BY <1>1, <1>2, <1>4, <2>1, <2>2, <2>3, <2>4
<1> QED  BY <1>3, <1>4

LEMMA OfferedIdentify ==
  ASSUME NEW nsid \in Namespaces, NEW cns \in 0 .. 1 PROVE OfferedInv /\ Window!Identify(nsid, cns) => OfferedInv'
BY IdentifyEffect DEF OfferedInv, TabHasNamespace, OwnQueues

LEMMA OfferedAdmin ==
  ASSUME NEW o \in Window!Ops PROVE OfferedInv /\ Window!AdminCmdExecute(o) => OfferedInv'
<1> SUFFICES ASSUME OfferedInv, NEW nsid \in Namespaces, NEW cns \in 0 .. 1, Window!IssueAdminCmd(o, nsid, cns)
             PROVE  OfferedInv'
  BY DEF Window!AdminCmdExecute
<1>1. CASE o = "identify"
  BY <1>1, OfferedIdentify DEF Window!IssueAdminCmd
<1>2. CASE o = "queue"
  <2>1. ASSUME Window!State = "Admin", Window!CreateDeleteQueue PROVE OfferedInv'
    <3>1. "aq_configured" \in flags /\ "sq_resourced" \notin flags
      BY <2>1 DEF Window!State
    <3>2. UNCHANGED <<flags, geometry, enabled, dev, hand>>
      BY <2>1 DEF Window!CreateDeleteQueue, Window!attributes, Window!form, Window!outside
    <3>3. dev # "ready" /\ ~overruled
      BY <3>1 DEF OfferedInv, OwnQueues
    <3>4. ~overruled'
      BY <2>1, <3>3 DEF Window!CreateDeleteQueue
    <3> QED  BY <3>2, <3>4 DEF OfferedInv, TabHasNamespace, OwnQueues
  <2> QED  BY <1>2, <2>1, OfferedFrame DEF Window!IssueAdminCmd, Window!attributes, Window!form, Window!outside
<1>3. CASE o \in {"feature", "abort", "log", "other"}
  BY <1>3, OfferedFrame
  DEF Window!IssueAdminCmd, Window!Feature, Window!Abort, Window!GetLogPage, Window!AdminPassThrough,
      Window!attributes, Window!form, Window!outside
<1> QED  BY <1>1, <1>2, <1>3 DEF Window!Ops

LEMMA OfferedClick == OfferedInv /\ Window!Click => OfferedInv'
<1> SUFFICES ASSUME OfferedInv, Window!Click PROVE OfferedInv'
  OBVIOUS
<1>1. CASE Window!GetDriverVersion \/ Window!ScanPciDevList \/ Window!ReadCtrlRegister
  BY <1>1, OfferedFrame
  DEF Window!GetDriverVersion, Window!ScanPciDevList, Window!ReadCtrlRegister,
      Window!attributes, Window!form, Window!outside
<1>2. CASE Window!NVMCmdExecute
  BY <1>2, OfferedFrame
  DEF Window!NVMCmdExecute, Window!IssueSubmisCmd, Window!SubmisWrc, Window!SubmisFlush,
      Window!attributes, Window!form, Window!outside
<1> QED  BY <1>1, <1>2, OfferedReplace, OfferedLock, OfferedConfig, OfferedAdmin DEF Window!Click

LEMMA OfferedTrigger == OfferedInv /\ Window!Trigger => OfferedInv'
<1> SUFFICES ASSUME OfferedInv, Window!Trigger PROVE OfferedInv'
  OBVIOUS
<1>1. CASE Window!RescanPCI
  BY <1>1
  DEF Window!RescanPCI, Window!attributes, Window!form, OfferedInv, TabHasNamespace, OwnQueues
<1>2. CASE Window!EnTestTools
  BY <1>2
  DEF Window!EnTestTools, Window!attributes, Window!outside, OfferedInv, TabHasNamespace, OwnQueues
<1>3. CASE Window!ShowStored \/ Window!CheckStore
  BY <1>3, OfferedFrame DEF Window!ShowStored, Window!CheckStore, Window!attributes, Window!outside
<1> QED  BY <1>1, <1>2, <1>3 DEF Window!Trigger

-----------------------------------------------------------------------------
(* The script.                                                             *)
LEMMA WindowInit == Window!Init => WindowInv
BY DEF Window!Init, Window!NsChanged, Window!StateChanged, WindowInv, OfferedInv, TabHasNamespace, OwnQueues,
       ScriptKnows, Window!ScriptEndsReady

LEMMA WindowScriptReplace == WindowInv /\ Window!ScriptReplace /\ UNCHANGED nvmeTest => WindowInv'
<1> SUFFICES ASSUME WindowInv, Window!ScriptReplace, UNCHANGED nvmeTest PROVE WindowInv'
  OBVIOUS
<1>1. OfferedInv'
  BY OfferedReplace DEF WindowInv, Window!ScriptReplace
<1>2. flags' = {}
  BY DEF Window!ScriptReplace, Window!ReplaceDriver, Window!RemoveDriver, Window!Clear
<1>3. script' = "version" /\ shown' = "none"
  BY DEF Window!ScriptReplace, WindowInv, ScriptKnows
<1> QED  BY <1>1, <1>2, <1>3 DEF WindowInv, ScriptKnows, Window!ScriptEndsReady

LEMMA WindowScriptVersion == WindowInv /\ Window!ScriptVersion /\ UNCHANGED nvmeTest => WindowInv'
<1> SUFFICES ASSUME WindowInv, Window!ScriptVersion, UNCHANGED nvmeTest PROVE WindowInv'
  OBVIOUS
<1>1. UNCHANGED <<flags, geometry, enabled, dev, driver, hand, overruled>>
  BY DEF Window!ScriptVersion, Window!GetDriverVersion, Window!attributes, Window!outside
<1>2. flags = {} /\ script' \in {"lock", "idle"} /\ shown' = "none"
  BY DEF Window!ScriptVersion, WindowInv, ScriptKnows
<1> QED  BY <1>1, <1>2, OfferedFrame DEF WindowInv, ScriptKnows, Window!ScriptEndsReady

LEMMA WindowScriptLock == WindowInv /\ Window!ScriptLock /\ UNCHANGED nvmeTest => WindowInv'
<1> SUFFICES ASSUME WindowInv, Window!ScriptLock, UNCHANGED nvmeTest PROVE WindowInv'
  OBVIOUS
<1>1. script = "lock" /\ flags = {} /\ shown' = "none"
  BY DEF Window!ScriptLock, WindowInv, ScriptKnows
<1>2. script' = IF "locked" \in flags' THEN "config" ELSE "idle"
  BY DEF Window!ScriptLock
<1>3. nvmeTest \in BOOLEAN
  BY DEF WindowInv, ScriptKnows
<1>4. OfferedInv'
  BY <1>3, OfferedLock DEF WindowInv, Window!ScriptLock
<1>5. "locked" \in flags' => /\ flags' = {"locked"} \union (IF nvmeTest THEN {"aq_configured", "sq_resourced"} ELSE {})
                            /\ driver' = "verify"
  BY <1>1, <1>3, LockEffect DEF Window!ScriptLock
<1> QED  BY <1>1, <1>2, <1>3, <1>4, <1>5 DEF WindowInv, ScriptKnows, Window!ScriptEndsReady

LEMMA WindowScriptConfig == WindowInv /\ Window!ScriptConfig /\ UNCHANGED nvmeTest => WindowInv'
<1> SUFFICES ASSUME WindowInv, Window!ScriptConfig, UNCHANGED nvmeTest PROVE WindowInv'
  OBVIOUS
<1>1. /\ script = "config" /\ shown = "none" /\ driver = "verify" /\ "identified" \notin flags
      /\ ~nvmeTest => "aq_configured" \notin flags
  BY DEF Window!ScriptConfig, WindowInv, ScriptKnows
<1>2. CASE "config" \in enabled
  <2>1. Window!ConfigAdminQueue
    BY <1>2 DEF Window!ScriptConfig
  <2>2. OfferedInv'
    BY <2>1, OfferedConfig DEF WindowInv
  <2>3. driver' = driver /\ "identified" \notin flags'
        /\ ("aq_configured" \in flags' /\ "aq_configured" \notin flags => dev' = "queues")
    BY <1>1, <2>1, ConfigEffect
  <2> QED
    BY <1>1, <2>2, <2>3 DEF Window!ScriptConfig, WindowInv, ScriptKnows, Window!ScriptEndsReady
<1>3. CASE "config" \notin enabled
  <2>1. UNCHANGED <<flags, geometry, enabled, dev, driver, hand, overruled>>
    BY <1>3 DEF Window!ScriptConfig, Window!attributes, Window!form, Window!outside
  <2> QED
    BY <1>1, <2>1, OfferedFrame DEF Window!ScriptConfig, WindowInv, ScriptKnows, Window!ScriptEndsReady
<1> QED  BY <1>2, <1>3

LEMMA WindowScriptIdentify == WindowInv /\ Window!ScriptIdentify /\ UNCHANGED nvmeTest => WindowInv'
<1> SUFFICES ASSUME WindowInv, Window!ScriptIdentify, UNCHANGED nvmeTest PROVE WindowInv'
  OBVIOUS
<1>1. script = "identify" /\ shown = "none" /\ driver = "verify" /\ "identified" \notin flags
  BY DEF Window!ScriptIdentify, WindowInv, ScriptKnows
<1>2. script' = "idle" /\ shown' = IF "identified" \in flags' THEN "nvme" ELSE shown
  BY DEF Window!ScriptIdentify
<1>3. CASE "admin" \in enabled
  <2>1. PICK nsid \in Namespaces, cns \in 0 .. 1 : Window!Identify(nsid, cns)
    BY <1>3 DEF Window!ScriptIdentify, Window!AdminCmdExecute, Window!IssueAdminCmd
  <2>2. OfferedInv'
    BY <2>1, OfferedIdentify DEF WindowInv
  <2>3. driver' = "verify" /\ dev' = dev
        /\ ("identified" \in flags' /\ errnoSet' => geometry' \in Namespaces /\ dev \in {"queues", "ready"})
    BY <1>1, <2>1, IdentifyEffect
  <2> QED
    BY <1>1, <1>2, <2>2, <2>3 DEF WindowInv, ScriptKnows, Window!ScriptEndsReady
<1>4. CASE "admin" \notin enabled
  <2>1. UNCHANGED <<flags, geometry, enabled, dev, driver, hand, overruled>>
    BY <1>4 DEF Window!ScriptIdentify, Window!attributes, Window!form, Window!outside
  <2> QED
    BY <1>1, <1>2, <2>1, OfferedFrame DEF WindowInv, ScriptKnows, Window!ScriptEndsReady
<1> QED  BY <1>3, <1>4

LEMMA WindowStep == WindowInv /\ [Window!Next]_Window!vars => WindowInv'
<1> SUFFICES ASSUME WindowInv, [Window!Next]_Window!vars PROVE WindowInv'
  OBVIOUS
<1>1. CASE UNCHANGED Window!vars
  <2>1. UNCHANGED <<flags, geometry, enabled, dev, driver, hand, overruled, script, nvmeTest, shown, errnoSet>>
    BY <1>1 DEF Window!vars, Window!attributes, Window!form, Window!outside
  <2> QED  BY <2>1, OfferedFrame DEF WindowInv, ScriptKnows, Window!ScriptEndsReady
<1>2. CASE Window!ScriptStart
  <2>1. UNCHANGED <<flags, geometry, enabled, dev, driver, hand, overruled>>
        /\ script' = "replace" /\ nvmeTest' \in BOOLEAN /\ shown' = "none"
    BY <1>2 DEF Window!ScriptStart, Window!attributes, Window!form, Window!outside
  <2> QED  BY <2>1, OfferedFrame DEF WindowInv, ScriptKnows, Window!ScriptEndsReady
<1>3. CASE Window!Script
  BY <1>3, WindowScriptReplace, WindowScriptVersion, WindowScriptLock, WindowScriptConfig, WindowScriptIdentify
  DEF Window!Script
<1>4. CASE script = "idle" /\ (Window!Click \/ Window!Trigger) /\ shown' = "none" /\ UNCHANGED <<script, nvmeTest>>
  <2>1. OfferedInv'
    BY <1>4, OfferedClick, OfferedTrigger DEF WindowInv
  <2> QED  BY <1>4, <2>1 DEF WindowInv, ScriptKnows, Window!ScriptEndsReady
<1> QED  BY <1>1, <1>2, <1>3, <1>4 DEF Window!Next

(* Theorem: the start script of nvme_verify only shows a tab for which the *)
(* driver loaded now has a device that takes admin commands, whatever      *)
(* driver, version and list of nodes it found (form_app.cpp).              *)
THEOREM WindowScript == ComponentsSpec => []ScriptEndsReady
<1>1. WindowInv => ScriptEndsReady
  BY DEF WindowInv, ScriptEndsReady
<1> QED  BY <1>1, WindowInit, WindowStep, WindowPart, PTL

(* Theorem: what the window of nvme_verify lets the user do fits the       *)
(* device: the tab of I/O commands is open only for a namespace that was   *)
(* identified, unless it was opened by hand, and no queue is created under *)
(* the driver's own, whatever failed on the way.                           *)
THEOREM WindowOffers == ComponentsSpec => []OfferedFitsDevice
<1>1. WindowInv => OfferedFitsDevice
  BY DEF WindowInv, OfferedInv, TabHasNamespace, Window!OfferedFitsDevice, OfferedFitsDevice
<1> QED  BY <1>1, WindowInit, WindowStep, WindowPart, PTL

-----------------------------------------------------------------------------
(* ngd_app.  The rows of the window and the file just saved are those of   *)
(* their nodes, unless a status was taken for success; the click being     *)
(* handled has a row, or a node, and what it asks for has room.            *)
NgdValues == Ngd!Nodes \union {"empty", "error", "zero", "garbage", "none"}

NgdRow == [node : Ngd!Nodes, names : NgdValues, geometry : NgdValues, elpes : 0 .. 255]

OwnAnswers(row) ==
  row.names \in {"error", row.node} /\ row.geometry \in {"empty", "error", row.node}

RowsOwn(rows) == \A k \in 1 .. Len(rows) : OwnAnswers(rows[k])

NgdTypes ==
  /\ table \in Seq(NgdRow)
  /\ buffer \in Ngd!Nodes \union {"zero"}
  /\ click \in [kind : {"idle", "refresh"} \union Ngd!Kinds, i : Nat, nodes : Seq(Ngd!Nodes), num : Nat]
  /\ mistaken \in BOOLEAN

ClickInRange ==
  /\ click.kind = "refresh" => click.i \in 1 .. Len(click.nodes)
  /\ click.kind \in Ngd!Kinds => click.i \in 1 .. Len(table)

NgdInv ==
  /\ NgdTypes /\ ClickInRange
  /\ ~mistaken => RowsOwn(table) /\ saved.holds = saved.of
  /\ over \subseteq {0}

(* A row that is identified keeps its type, and what it shows is its own   *)
(* answer if the command did not pass by mistake.                          *)
LEMMA IdentifiedCtrl ==
  ASSUME NEW row \in NgdRow, NEW a \in Ngd!Answers, NEW b \in Ngd!Nodes \union {"zero"},
         a \in {"done", "result"} => b = row.node
  PROVE  /\ Ngd!IdentifyCtrl(row, a, b) \in NgdRow
         /\ Ngd!IdentifyCtrl(row, a, b).node = row.node
         /\ Ngd!IdentifyCtrl(row, a, b).geometry = row.geometry
         /\ ~(a = "refused" /\ ~ngdErrno) => Ngd!IdentifyCtrl(row, a, b).names \in {"error", row.node}
<1> DEFINE entries == (IF b \in Ngd!Nodes THEN Elpe[b] ELSE 0) + 1
           answer == IF Ngd!AdminIdentify(1, a) THEN b ELSE "error"
<1>1. entries % 256 \in 0 .. 255
  <2>1. b \in Ngd!Nodes => Elpe[b] \in 0 .. 255
    BY NgdAssumption
  <2>2. entries \in Nat
    BY <2>1
  <2> HIDE DEF entries
  <2> QED  BY <2>2
<1>2. Ngd!IdentifyCtrl(row, a, b) = [row EXCEPT !.names = answer, !.elpes = entries % 256]
  BY DEF Ngd!IdentifyCtrl
<1>3. ~(a = "refused" /\ ~ngdErrno) => answer \in {"error", row.node}
  BY DEF Ngd!AdminIdentify, Ngd!Passed
<1>4. answer \in NgdValues
  BY DEF NgdValues
<1> HIDE DEF entries, answer
<1>5. [row EXCEPT !.names = answer, !.elpes = entries % 256] \in NgdRow
  <2>1. PICK e \in 0 .. 255 : e = entries % 256
    BY <1>1
  <2>2. [row EXCEPT !.names = answer, !.elpes = e] \in NgdRow
    BY <1>4 DEF NgdRow
  <2> QED  BY <2>1, <2>2
<1>6. /\ [row EXCEPT !.names = answer, !.elpes = entries % 256].node = row.node
      /\ [row EXCEPT !.names = answer, !.elpes = entries % 256].geometry = row.geometry
      /\ [row EXCEPT !.names = answer, !.elpes = entries % 256].names = answer
  BY DEF NgdRow
<1> QED  BY <1>2, <1>3, <1>5, <1>6

LEMMA IdentifiedNs ==
  ASSUME NEW row \in NgdRow, NEW a \in Ngd!Answers, NEW b \in Ngd!Nodes \union {"zero"},
         a \in {"done", "result"} => b = row.node
  PROVE  /\ Ngd!IdentifyNs(row, a, b) \in NgdRow
         /\ Ngd!IdentifyNs(row, a, b).node = row.node
         /\ Ngd!IdentifyNs(row, a, b).names = row.names
         /\ ~(a = "refused" /\ ~ngdErrno) => Ngd!IdentifyNs(row, a, b).geometry \in {"error", row.node}
<1> DEFINE answer == IF Ngd!AdminIdentify(0, a) THEN b ELSE "error"
<1>1. Ngd!IdentifyNs(row, a, b) = [row EXCEPT !.geometry = answer]
  BY DEF Ngd!IdentifyNs
<1>2. ~(a = "refused" /\ ~ngdErrno) => answer \in {"error", row.node}
  BY DEF Ngd!AdminIdentify, Ngd!Passed
<1>3. answer \in NgdValues
  BY DEF NgdValues
<1> HIDE DEF answer
<1> QED  BY <1>1, <1>2, <1>3 DEF NgdRow

(* A file that is saved is the row's own, and nothing is asked for beyond  *)
(* the structure but where there is none.                                  *)
LEMMA SavedOwn ==
  ASSUME NEW passed \in BOOLEAN, NEW b, saved.holds = saved.of, passed => b = Ngd!Row.node, Ngd!Save(passed, b)
  PROVE  saved'.holds = saved'.of
BY DEF Ngd!Save

LEMMA ErrorLogFits ==
  ASSUME NEW e \in 0 .. 255, Ngd!LogDwords(Ngd!ErrNumd(e)) > 16 * e
  PROVE  e = 0
BY DEF Ngd!LogDwords, Ngd!ErrNumd

LEMMA LrtFits ==
  ASSUME NEW n \in Nat, n < 64
  PROVE  Ngd!LrtDwords(n) = 16 * (n + 1)
BY DEF Ngd!LrtDwords

LEMMA NgdInit == Ngd!Init => NgdInv
<1> SUFFICES ASSUME Ngd!Init PROVE NgdInv
  OBVIOUS
<1>1. table = <<>> /\ click = Ngd!Idle /\ buffer = "zero" /\ saved = Ngd!NoFile /\ over = {} /\ mistaken = FALSE
  BY DEF Ngd!Init
<1>2. click \in [kind : {"idle", "refresh"} \union Ngd!Kinds, i : Nat, nodes : Seq(Ngd!Nodes), num : Nat]
      /\ ClickInRange
  BY <1>1 DEF Ngd!Idle, ClickInRange, Ngd!Kinds
<1>3. NgdTypes
  <2>1. table \in Seq(NgdRow) /\ buffer \in Ngd!Nodes \union {"zero"}
    BY <1>1
  <2>2. mistaken \in BOOLEAN
    BY <1>1
  <2> QED  BY <1>2, <2>1, <2>2 DEF NgdTypes
<1> QED  BY <1>1, <1>2, <1>3 DEF NgdInv, RowsOwn, Ngd!NoFile

LEMMA NgdAdvances ==
  ASSUME NgdTypes, NEW rows \in Nat, Ngd!Advance(rows), click.i \in 1 .. rows
  PROVE  /\ click' \in [kind : {"idle", "refresh"} \union Ngd!Kinds, i : Nat, nodes : Seq(Ngd!Nodes), num : Nat]
         /\ click'.kind # "idle" => click'.kind = click.kind /\ click'.nodes = click.nodes /\ click'.i \in 1 .. rows
<1>1. CASE click.i = rows
  BY <1>1 DEF Ngd!Advance, Ngd!Idle
<1>2. CASE click.i # rows
  BY <1>2 DEF Ngd!Advance, NgdTypes
<1> QED  BY <1>1, <1>2

LEMMA NgdRefresh == NgdInv /\ Ngd!Refresh => NgdInv'
<1> SUFFICES ASSUME NgdInv, Ngd!Refresh PROVE NgdInv'
  OBVIOUS
<1>1. PICK n \in 0 .. Len(NodeList) : \E found \in [1 .. n -> DOMAIN NodeList] :
        click' = IF n = 0 THEN Ngd!Idle
                 ELSE [Ngd!Idle EXCEPT !.kind = "refresh", !.i = 1, !.nodes = [k \in 1 .. n |-> NodeList[found[k]]]]
  BY DEF Ngd!Refresh
<1>a. PICK found \in [1 .. n -> DOMAIN NodeList] :
        click' = IF n = 0 THEN Ngd!Idle
                 ELSE [Ngd!Idle EXCEPT !.kind = "refresh", !.i = 1, !.nodes = [k \in 1 .. n |-> NodeList[found[k]]]]
  BY <1>1
<1>2. [k \in 1 .. n |-> NodeList[found[k]]] \in Seq(Ngd!Nodes) /\ Len([k \in 1 .. n |-> NodeList[found[k]]]) = n
  BY NgdAssumption
<1>3. click' \in [kind : {"idle", "refresh"} \union Ngd!Kinds, i : Nat, nodes : Seq(Ngd!Nodes), num : Nat] /\ ClickInRange'
  <2> DEFINE nodes == [k \in 1 .. n |-> NodeList[found[k]]]
  <2>1. CASE n = 0
    BY <1>a, <2>1 DEF Ngd!Idle, ClickInRange, Ngd!Kinds
  <2>2. CASE n # 0
    <3>1. click' = [kind |-> "refresh", i |-> 1, nodes |-> nodes, num |-> 0]
      BY <1>a, <2>2 DEF Ngd!Idle
    <3> HIDE DEF nodes
    <3> QED  BY <1>2, <2>2, <3>1 DEF ClickInRange, Ngd!Kinds, nodes
  <2> QED  BY <2>1, <2>2
<1>4. table' = <<>> /\ saved' = Ngd!NoFile /\ UNCHANGED <<buffer, ngdErrno, over, mistaken>>
  BY DEF Ngd!Refresh
<1> QED  BY <1>3, <1>4 DEF NgdInv, NgdTypes, RowsOwn, Ngd!NoFile

LEMMA NgdEnumerate == NgdInv /\ Ngd!Enumerate => NgdInv'
<1> SUFFICES ASSUME NgdInv, Ngd!Enumerate PROVE NgdInv'
  OBVIOUS
<1> DEFINE asker == click.nodes[click.i]
<1>1. PICK a \in Ngd!Answers :
        /\ Ngd!PassThrough(a)
        /\ table' = Append(table, Ngd!IdentifyCtrl(Ngd!NewRow(asker), a, Ngd!Filled(a, asker, "zero")))
  BY DEF Ngd!Enumerate
<1> DEFINE row == Ngd!IdentifyCtrl(Ngd!NewRow(asker), a, Ngd!Filled(a, asker, "zero"))
<1>2. click.kind = "refresh" /\ Ngd!Advance(Len(click.nodes)) /\ UNCHANGED <<buffer, saved, over>>
  BY DEF Ngd!Enumerate
<1>3. asker \in Ngd!Nodes /\ Len(click.nodes) \in Nat /\ click.i \in 1 .. Len(click.nodes)
  BY <1>2 DEF NgdInv, NgdTypes, ClickInRange
<1>4. Ngd!NewRow(asker) \in NgdRow /\ Ngd!NewRow(asker).node = asker /\ Ngd!NewRow(asker).geometry = "empty"
  BY <1>3 DEF Ngd!NewRow, NgdRow, NgdValues
<1>5. Ngd!Filled(a, asker, "zero") \in Ngd!Nodes \union {"zero"}
      /\ (a \in {"done", "result"} => Ngd!Filled(a, asker, "zero") = asker)
  BY <1>3 DEF Ngd!Filled
<1>6. row \in NgdRow /\ (~(a = "refused" /\ ~ngdErrno) => OwnAnswers(row))
  BY <1>4, <1>5, IdentifiedCtrl DEF OwnAnswers
<1>7. mistaken' = (mistaken \/ (a = "refused" /\ ~ngdErrno))
  BY <1>1 DEF Ngd!PassThrough
<1> HIDE DEF row, asker
<1>8. table' \in Seq(NgdRow) /\ (RowsOwn(table) /\ OwnAnswers(row) => RowsOwn(table'))
  BY <1>1, <1>6 DEF RowsOwn, NgdInv, NgdTypes, row, asker
<1>9. NgdTypes' /\ ClickInRange'
  BY <1>2, <1>3, <1>7, <1>8, NgdAdvances DEF NgdInv, NgdTypes, ClickInRange, Ngd!Kinds
<1> QED  BY <1>2, <1>6, <1>7, <1>8, <1>9 DEF NgdInv

LEMMA NgdExecute == ASSUME NEW kind \in Ngd!Kinds PROVE NgdInv /\ Ngd!Execute(kind) => NgdInv'
<1> SUFFICES ASSUME NgdInv, Ngd!Execute(kind) PROVE NgdInv'
  OBVIOUS
<1>1. PICK typed \in IF kind = "range" THEN LrtTyped ELSE {0} :
        click' = [Ngd!Idle EXCEPT !.kind = kind, !.i = 1, !.num = typed]
  BY DEF Ngd!Execute
<1>2. typed \in Nat
  BY NgdAssumption
<1>3. table # <<>> /\ saved' = Ngd!NoFile /\ UNCHANGED <<table, buffer, ngdErrno, over, mistaken>>
  BY DEF Ngd!Execute
<1>4. click' = [kind |-> kind, i |-> 1, nodes |-> <<>>, num |-> typed]
  BY <1>1 DEF Ngd!Idle
<1>5. Len(table) \in Nat \ {0}
  BY <1>3 DEF NgdInv, NgdTypes
<1>6. ClickInRange'
  BY <1>3, <1>4, <1>5 DEF ClickInRange, Ngd!Kinds
<1>7. NgdTypes'
  BY <1>2, <1>3, <1>4 DEF NgdInv, NgdTypes
<1> QED  BY <1>3, <1>6, <1>7 DEF NgdInv, RowsOwn, Ngd!NoFile

(* The steps of a click on a row.                                          *)
LEMMA NgdRowStep ==
  ASSUME NgdInv, click.kind \in Ngd!Kinds, Ngd!Advance(Len(table)), Len(table') = Len(table)
  PROVE  /\ click.i \in 1 .. Len(table) /\ Ngd!Row \in NgdRow
         /\ click' \in [kind : {"idle", "refresh"} \union Ngd!Kinds, i : Nat, nodes : Seq(Ngd!Nodes), num : Nat]
         /\ ClickInRange'
<1>1. click.i \in 1 .. Len(table) /\ Ngd!Row \in NgdRow /\ Len(table) \in Nat
  BY DEF NgdInv, NgdTypes, ClickInRange, Ngd!Row
<1>2. click.kind # "refresh"
  BY DEF Ngd!Kinds
<1> QED  BY <1>1, <1>2, NgdAdvances DEF NgdInv, ClickInRange, Ngd!Kinds

LEMMA NgdSkip == NgdInv /\ Ngd!Skip => NgdInv'
<1> SUFFICES ASSUME NgdInv, Ngd!Skip PROVE NgdInv'
  OBVIOUS
<1>1. click.kind \in Ngd!Kinds /\ Ngd!Advance(Len(table)) /\ buffer' \in {buffer, "zero"}
      /\ UNCHANGED <<table, ngdErrno, saved, over, mistaken>>
  BY DEF Ngd!Skip, Ngd!Freed
<1> QED  BY <1>1, NgdRowStep DEF NgdInv, NgdTypes

(* An identify click replaces one row by one that shows its own answer.    *)
LEMMA NgdIdentifyStep ==
  ASSUME NgdInv, click.kind \in Ngd!Kinds, Ngd!Advance(Len(table)),
         NEW a \in Ngd!Answers, Ngd!PassThrough(a), NEW row \in NgdRow,
         table' = [table EXCEPT ![click.i] = row], row.node = Ngd!Row.node,
         ~mistaken /\ ~(a = "refused" /\ ~ngdErrno) => OwnAnswers(row),
         NEW b \in Ngd!Nodes \union {"zero"}, buffer' = Ngd!Freed(b),
         NEW passed \in BOOLEAN, Ngd!Save(passed, b),
         passed /\ ~(a = "refused" /\ ~ngdErrno) => b = Ngd!Row.node,
         UNCHANGED over
  PROVE  NgdInv'
<1>1. table \in Seq(NgdRow) /\ table' \in Seq(NgdRow) /\ Len(table') = Len(table)
  <2>1. table \in Seq(NgdRow) /\ click.i \in 1 .. Len(table)
    BY DEF NgdInv, NgdTypes, ClickInRange
  <2> QED  BY <2>1, ExceptSeq
<1>2. click.i \in 1 .. Len(table) /\ ClickInRange'
      /\ click' \in [kind : {"idle", "refresh"} \union Ngd!Kinds, i : Nat, nodes : Seq(Ngd!Nodes), num : Nat]
  BY <1>1, NgdRowStep
<1>3. mistaken' = (mistaken \/ (a = "refused" /\ ~ngdErrno))
  BY DEF Ngd!PassThrough
<1>4. NgdTypes'
  BY <1>1, <1>2, <1>3 DEF NgdInv, NgdTypes, Ngd!Freed
<1>5. RowsOwn(table) /\ OwnAnswers(row) => RowsOwn(table')
  BY <1>1, <1>2 DEF RowsOwn
<1>6. ~mistaken' => RowsOwn(table') /\ saved'.holds = saved'.of
  BY <1>3, <1>5, SavedOwn DEF NgdInv
<1> QED  BY <1>2, <1>4, <1>6 DEF NgdInv

LEMMA NgdExecuteIdentifyCtrl == NgdInv /\ Ngd!ExecuteIdentifyCtrl => NgdInv'
<1> SUFFICES ASSUME NgdInv, Ngd!ExecuteIdentifyCtrl PROVE NgdInv'
  OBVIOUS
<1>1. PICK a \in Ngd!Answers :
        LET b == Ngd!Filled(a, Ngd!Row.node, buffer) IN
        /\ Ngd!PassThrough(a)
        /\ table' = [table EXCEPT ![click.i] = Ngd!IdentifyCtrl(Ngd!Row, a, b)]
        /\ Ngd!Save(Ngd!AdminIdentify(1, a), b) /\ buffer' = Ngd!Freed(b)
  BY DEF Ngd!ExecuteIdentifyCtrl
<1> DEFINE b == Ngd!Filled(a, Ngd!Row.node, buffer)
<1>2. click.kind \in Ngd!Kinds /\ Ngd!Advance(Len(table)) /\ UNCHANGED over
  BY DEF Ngd!ExecuteIdentifyCtrl, Ngd!Kinds
<1>3. click.i \in 1 .. Len(table) /\ Ngd!Row \in NgdRow
  BY <1>2 DEF NgdInv, NgdTypes, ClickInRange, Ngd!Row
<1>4. b \in Ngd!Nodes \union {"zero"} /\ (a \in {"done", "result"} => b = Ngd!Row.node)
  BY <1>3 DEF Ngd!Filled, NgdInv, NgdTypes, NgdRow
<1>5. Ngd!AdminIdentify(1, a) \in BOOLEAN
      /\ (Ngd!AdminIdentify(1, a) /\ ~(a = "refused" /\ ~ngdErrno) => b = Ngd!Row.node)
  BY <1>4 DEF Ngd!AdminIdentify, Ngd!Passed
<1> DEFINE row == Ngd!IdentifyCtrl(Ngd!Row, a, b)
<1>6. row \in NgdRow /\ row.node = Ngd!Row.node /\ row.geometry = Ngd!Row.geometry
      /\ (~(a = "refused" /\ ~ngdErrno) => row.names \in {"error", Ngd!Row.node})
  BY <1>3, <1>4, IdentifiedCtrl
<1>7. ~mistaken => OwnAnswers(Ngd!Row)
  BY <1>3 DEF NgdInv, RowsOwn, Ngd!Row
<1> HIDE DEF row, b
<1>8. ~mistaken /\ ~(a = "refused" /\ ~ngdErrno) => OwnAnswers(row)
  BY <1>6, <1>7 DEF OwnAnswers
<1> QED  BY <1>1, <1>2, <1>4, <1>5, <1>6, <1>8, NgdIdentifyStep DEF row, b

LEMMA NgdExecuteIdentifyNs == NgdInv /\ Ngd!ExecuteIdentifyNs => NgdInv'
<1> SUFFICES ASSUME NgdInv, Ngd!ExecuteIdentifyNs PROVE NgdInv'
  OBVIOUS
<1>1. PICK a \in Ngd!Answers :
        LET b == Ngd!Filled(a, Ngd!Row.node, buffer) IN
        /\ Ngd!PassThrough(a)
        /\ table' = [table EXCEPT ![click.i] = Ngd!IdentifyNs(Ngd!Row, a, b)]
        /\ Ngd!Save(Ngd!AdminIdentify(0, a), b) /\ buffer' = Ngd!Freed(b)
  BY DEF Ngd!ExecuteIdentifyNs
<1> DEFINE b == Ngd!Filled(a, Ngd!Row.node, buffer)
<1>2. click.kind \in Ngd!Kinds /\ Ngd!Advance(Len(table)) /\ UNCHANGED over
  BY DEF Ngd!ExecuteIdentifyNs, Ngd!Kinds
<1>3. click.i \in 1 .. Len(table) /\ Ngd!Row \in NgdRow
  BY <1>2 DEF NgdInv, NgdTypes, ClickInRange, Ngd!Row
<1>4. b \in Ngd!Nodes \union {"zero"} /\ (a \in {"done", "result"} => b = Ngd!Row.node)
  BY <1>3 DEF Ngd!Filled, NgdInv, NgdTypes, NgdRow
<1>5. Ngd!AdminIdentify(0, a) \in BOOLEAN
      /\ (Ngd!AdminIdentify(0, a) /\ ~(a = "refused" /\ ~ngdErrno) => b = Ngd!Row.node)
  BY <1>4 DEF Ngd!AdminIdentify, Ngd!Passed
<1> DEFINE row == Ngd!IdentifyNs(Ngd!Row, a, b)
<1>6. row \in NgdRow /\ row.node = Ngd!Row.node /\ row.names = Ngd!Row.names
      /\ (~(a = "refused" /\ ~ngdErrno) => row.geometry \in {"error", Ngd!Row.node})
  BY <1>3, <1>4, IdentifiedNs
<1>7. ~mistaken => OwnAnswers(Ngd!Row)
  BY <1>3 DEF NgdInv, RowsOwn, Ngd!Row
<1> HIDE DEF row, b
<1>8. ~mistaken /\ ~(a = "refused" /\ ~ngdErrno) => OwnAnswers(row)
  BY <1>6, <1>7 DEF OwnAnswers
<1> QED  BY <1>1, <1>2, <1>4, <1>5, <1>6, <1>8, NgdIdentifyStep DEF row, b

(* A command with a structure of its own.                                  *)
LEMMA NgdOwnBuffer ==
  ASSUME NgdInv, click.kind \in Ngd!Kinds, NEW initial, NEW room \in Nat, NEW dwords \in Nat,
         dwords > room => room = 0, Ngd!OwnBuffer(initial, room, dwords)
  PROVE  NgdInv'
<1>1. over' \subseteq {0}
  BY DEF Ngd!OwnBuffer, NgdInv
<1>2. Ngd!Advance(Len(table)) /\ UNCHANGED <<table, buffer>>
  BY DEF Ngd!OwnBuffer
<1>3. PICK a \in Ngd!Answers : Ngd!PassThrough(a) /\ Ngd!Save(Ngd!Passed(a), Ngd!Filled(a, Ngd!Row.node, initial))
  BY DEF Ngd!OwnBuffer
<1>4. mistaken' = (mistaken \/ (a = "refused" /\ ~ngdErrno))
  BY <1>3 DEF Ngd!PassThrough
<1>5. Ngd!Passed(a) \in BOOLEAN
      /\ (Ngd!Passed(a) /\ ~(a = "refused" /\ ~ngdErrno) => Ngd!Filled(a, Ngd!Row.node, initial) = Ngd!Row.node)
  BY DEF Ngd!Passed, Ngd!Filled
<1>6. ~mistaken' => saved'.holds = saved'.of
  BY <1>3, <1>4, <1>5, SavedOwn DEF NgdInv
<1>7. NgdTypes' /\ ClickInRange'
  BY <1>2, <1>4, NgdRowStep DEF NgdInv, NgdTypes
<1> QED  BY <1>1, <1>2, <1>4, <1>6, <1>7 DEF NgdInv

LEMMA NgdLogs ==
  NgdInv /\ (Ngd!GetLrt \/ Ngd!GetFeature \/ Ngd!GetErrorLog \/ Ngd!GetSmartLog \/ Ngd!GetFwSlotLog) => NgdInv'
<1> SUFFICES ASSUME NgdInv PROVE Ngd!GetLrt \/ Ngd!GetFeature \/ Ngd!GetErrorLog \/ Ngd!GetSmartLog \/ Ngd!GetFwSlotLog => NgdInv'
  OBVIOUS
<1>1. ASSUME Ngd!GetLrt PROVE NgdInv'
  <2> DEFINE num == IF click.num > 63 THEN 63 ELSE click.num
  <2>1. num \in Nat /\ num < 64
    BY DEF NgdInv, NgdTypes
  <2>2. click.kind \in Ngd!Kinds /\ Ngd!OwnBuffer("garbage", 16 * (num + 1), Ngd!LrtDwords(num))
    BY <1>1 DEF Ngd!GetLrt, Ngd!Kinds
  <2> HIDE DEF num
  <2> QED  BY <2>1, <2>2, LrtFits, NgdOwnBuffer
<1>2. ASSUME Ngd!GetFeature PROVE NgdInv'
  <2>1. PICK a \in Ngd!Answers : Ngd!PassThrough(a)
    BY <1>2 DEF Ngd!GetFeature, Ngd!AdminFeature
  <2>2. mistaken' = (mistaken \/ (a = "refused" /\ ~ngdErrno))
    BY <2>1 DEF Ngd!PassThrough
  <2>3. click.kind \in Ngd!Kinds /\ Ngd!Advance(Len(table)) /\ UNCHANGED <<table, buffer, saved, over>>
    BY <1>2 DEF Ngd!GetFeature, Ngd!Kinds
  <2>4. NgdTypes' /\ ClickInRange'
    BY <2>2, <2>3, NgdRowStep DEF NgdInv, NgdTypes
  <2> QED  BY <2>2, <2>3, <2>4 DEF NgdInv
<1>3. ASSUME Ngd!GetErrorLog PROVE NgdInv'
  <2> DEFINE e == Ngd!Row.elpes
  <2>1. click.kind \in Ngd!Kinds /\ Ngd!OwnBuffer("garbage", 16 * e, Ngd!LogDwords(Ngd!ErrNumd(e)))
    BY <1>3 DEF Ngd!GetErrorLog, Ngd!Kinds
  <2>2. e \in 0 .. 255
    <3>1. Ngd!Row \in NgdRow
      BY <2>1 DEF NgdInv, NgdTypes, ClickInRange, Ngd!Row
    <3> QED  BY <3>1 DEF NgdRow
  <2> HIDE DEF e
  <2>3. Ngd!LogDwords(Ngd!ErrNumd(e)) \in Nat /\ 16 * e \in Nat
    BY <2>2 DEF Ngd!LogDwords, Ngd!ErrNumd
  <2>4. Ngd!LogDwords(Ngd!ErrNumd(e)) > 16 * e => 16 * e = 0
    BY <2>2, ErrorLogFits
  <2> QED  BY <2>1, <2>3, <2>4, NgdOwnBuffer
<1>4. ASSUME Ngd!GetSmartLog \/ Ngd!GetFwSlotLog PROVE NgdInv'
  <2>1. click.kind \in Ngd!Kinds /\ Ngd!OwnBuffer("zero", 128, 128)
    BY <1>4 DEF Ngd!GetSmartLog, Ngd!GetFwSlotLog, Ngd!Kinds, Ngd!LogDwords, Ngd!SmartNumd, Ngd!FwSlotNumd
  <2> QED  BY <2>1, NgdOwnBuffer
<1> QED  BY <1>1, <1>2, <1>3, <1>4

LEMMA NgdStep == NgdInv /\ [Ngd!Next]_Ngd!vars => NgdInv'
<1>1. NgdInv /\ UNCHANGED Ngd!vars => NgdInv'
  BY DEF Ngd!vars, NgdInv, NgdTypes, ClickInRange, RowsOwn
<1> QED
  BY <1>1, NgdRefresh, NgdEnumerate, NgdExecute, NgdSkip, NgdExecuteIdentifyCtrl, NgdExecuteIdentifyNs, NgdLogs
  DEF Ngd!Next

(* Theorem: a row of ngd_app and the files saved from it hold the answers  *)
(* of the row's own controller, for any number of controllers and log      *)
(* pages, unless a status was taken for success.                           *)
THEOREM NgdApart == ComponentsSpec => []DevicesKeptApart
<1>1. NgdInv => DevicesKeptApart
  BY DEF NgdInv, RowsOwn, OwnAnswers, Ngd!DevicesKeptApart, DevicesKeptApart
<1> QED  BY <1>1, NgdInit, NgdStep, NgdPart, PTL
=============================================================================
