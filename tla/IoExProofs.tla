----------------------------- MODULE IoExProofs -----------------------------
(***************************************************************************)
(* Invariants of the I/O extension engine for every range, queue depth,    *)
(* buffer size, task class and kind of fault; and then that what a task    *)
(* writes and reports is right: the data of the requests in flight, the    *)
(* blocks that have been finished with, the verdict of a compare, and the  *)
(* dump of the command that ran the task.                                  *)
(***************************************************************************)
EXTENDS IoExCommand, IoPlanMathProofs, FiniteSetTheorems, WellFoundedInduction

(* A set of numbers that is not empty has a least element.                 *)
LEMMA LeastNumber ==
  ASSUME NEW S, S \subseteq Nat, S # {}
  PROVE  \E k \in S : \A m \in S : k <= m
<1> DEFINE U == {0 .. k : k \in S}
           R == StrictSubsetOrdering(Nat)
<1>1. U \subseteq FiniteSubsetsOf(Nat)
  <2> SUFFICES ASSUME NEW k \in S PROVE 0 .. k \in SUBSET Nat /\ IsFiniteSet(0 .. k)
    BY DEF FiniteSubsetsOf
  <2>1. 0 \in Int /\ k \in Int
    OBVIOUS
  <2> QED  BY <2>1, FS_Interval
<1>2. IsWellFoundedOn(R, FiniteSubsetsOf(Nat))
  BY FS_StrictSubsetOrderingWellFounded
<1>3. U # {}
  OBVIOUS
<1> HIDE DEF U, R
<1>4. \E x \in U : \A y \in U : ~ (<<y, x>> \in R)
  BY <1>1, <1>2, <1>3, WFMin
<1> USE DEF U
<1>5. PICK k \in S : \A m \in S : ~ (<<0 .. m, 0 .. k>> \in R)
  BY <1>4
<1>6. ASSUME NEW m \in S, m < k
      PROVE  FALSE
  <2>1. 0 .. m \in SUBSET Nat /\ 0 .. k \in SUBSET Nat /\ 0 .. m \subseteq 0 .. k /\ 0 .. m # 0 .. k
    BY <1>6
  <2>2. <<0 .. m, 0 .. k>> \in R
    BY <2>1 DEF R, StrictSubsetOrdering
  <2> QED  BY <1>5, <2>2
<1> QED  BY <1>5, <1>6
-----------------------------------------------------------------------------
(* The plans' parts of the range, relative to Slba.                        *)
Begin(i) == PlanBegin(i, Nlb, QDepth, NlbPerBuf)
End(i)   == PlanEnd(i, Nlb, QDepth, NlbPerBuf)

(* The parts of the plans: they are in order, none is empty and together   *)
(* they cover the range.                                                   *)
LEMMA PlanParts ==
  /\ NumPlans \in Nat
  /\ Plans \subseteq Nat
  /\ \A i \in Plans : /\ Begin(i) \in Nat /\ End(i) \in Nat
                      /\ Begin(i) < End(i) /\ End(i) <= Nlb
                      /\ PlanLength(i, Nlb, QDepth, NlbPerBuf) = End(i) - Begin(i)
  /\ \A i, j \in Plans : i < j => End(i) <= Begin(j)
<1>0. Nlb \in Nat /\ QDepth \in Nat \ {0} /\ NlbPerBuf \in Nat \ {0}
  BY EngineAssumption
<1>1. NumPlans \in Nat /\ Plans \subseteq Nat
  BY <1>0, PlanCountBounds DEF NumPlans, Plans
<1>2. \A i \in Plans : /\ Begin(i) \in Nat /\ End(i) \in Nat
                      /\ Begin(i) < End(i) /\ End(i) <= Nlb
                      /\ PlanLength(i, Nlb, QDepth, NlbPerBuf) = End(i) - Begin(i)
  BY <1>0, PlanBounds DEF Begin, End, Plans, NumPlans, PlanLength
<1>3. \A i, j \in Plans : i < j => End(i) <= Begin(j)
  BY <1>0, PlanOrder DEF Begin, End, Plans, NumPlans
<1> QED  BY <1>1, <1>2, <1>3

(* What next_plan() does to a plan of its own.                             *)
LEMMA OwnSlice ==
  ASSUME NEW p \in PlanRec, p.nlb <= p.rnlb
  PROVE  /\ NextOwnSlice(p) \in PlanRec
         /\ NextOwnSlice(p).slba = p.slba + p.nlb
         /\ NextOwnSlice(p).rnlb = p.rnlb - p.nlb
         /\ NextOwnSlice(p).nlb <= NextOwnSlice(p).rnlb
         /\ NextOwnSlice(p).nlb <= NlbPerBuf
<1> DEFINE left == p.rnlb - p.nlb
           len  == LesserOf(left, NlbPerBuf)
           flag == IF left # 0 THEN ~p.ppflag ELSE p.ppflag
           on   == p.starting \/ left # 0
<1>0. /\ p.slba \in Nat /\ p.nlb \in Nat /\ p.rnlb \in Nat
      /\ p.starting \in BOOLEAN /\ p.ppflag \in BOOLEAN
  BY DEF PlanRec
<1>1. left \in Nat /\ len \in Nat /\ len <= left /\ len <= NlbPerBuf /\ p.slba + p.nlb \in Nat
  BY <1>0, EngineAssumption DEF LesserOf
<1>2. flag \in BOOLEAN /\ on \in BOOLEAN
  BY <1>0
<1>3. NextOwnSlice(p) = [p EXCEPT !.slba = p.slba + p.nlb, !.rnlb = left, !.nlb = len,
                                  !.ppflag = flag, !.starting = on]
  BY DEF NextOwnSlice
<1> HIDE DEF left, len, flag, on
<1>4. NextOwnSlice(p) = [slba |-> p.slba + p.nlb, nlb |-> len, rnlb |-> left,
                         starting |-> on, ppflag |-> flag]
  BY <1>3 DEF PlanRec
<1> QED  BY <1>1, <1>2, <1>4 DEF PlanRec, left

(* What next_plan() does to a plan of the sequential family.               *)
LEMMA SharedSlice ==
  ASSUME NEW p \in PlanRec, cursor \in [lba : Nat, rnlb : Nat]
  PROVE  /\ NextSharedSlice(p) \in PlanRec
         /\ NextSharedSlice(p).slba = cursor.lba
         /\ NextSharedSlice(p).nlb <= cursor.rnlb
         /\ NextSharedSlice(p).nlb <= NlbPerBuf
<1> DEFINE len  == LesserOf(cursor.rnlb, NlbPerBuf)
           flag == IF cursor.rnlb # 0 THEN ~p.ppflag ELSE p.ppflag
           on   == p.starting \/ cursor.rnlb # 0
<1>0. /\ p.rnlb \in Nat /\ cursor.lba \in Nat /\ cursor.rnlb \in Nat
      /\ p.starting \in BOOLEAN /\ p.ppflag \in BOOLEAN
  BY DEF PlanRec
<1>1. len \in Nat /\ len <= cursor.rnlb /\ len <= NlbPerBuf
  BY <1>0, EngineAssumption DEF LesserOf
<1>2. flag \in BOOLEAN /\ on \in BOOLEAN
  BY <1>0
<1>3. NextSharedSlice(p) = [p EXCEPT !.slba = cursor.lba, !.nlb = len,
                                     !.ppflag = flag, !.starting = on]
  BY DEF NextSharedSlice
<1> HIDE DEF len, flag, on
<1>4. NextSharedSlice(p) = [slba |-> cursor.lba, nlb |-> len, rnlb |-> p.rnlb,
                            starting |-> on, ppflag |-> flag]
  BY <1>3 DEF PlanRec
<1> QED  BY <1>0, <1>1, <1>2, <1>4 DEF PlanRec

(* Whichever buffer a plan uses is one of its two.                         *)
LEMMA MemoryType ==
  ASSUME NEW p
  PROVE  Memory(p) \in 0 .. 1 /\ PreMemory(p) \in 0 .. 1
BY DEF Memory, PreMemory

(* The bodies and headers the fills write are those of blocks.             *)
LEMMA FillPatternType ==
  ASSUME NEW b \in Buffer, NEW s \in Nat, NEW n \in Int
  PROVE  FillPattern(b, s, n) \in Buffer
<1>1. NlbPerBuf \in Nat
  BY EngineAssumption
<1>2. ASSUME NEW k \in 0 .. (NlbPerBuf - 1)
      PROVE  b[k].hdr \in Int /\ b[k] \in Block /\ PatternAt(s + k) \in Int
  BY <1>1 DEF Buffer, Block, PatternAt
<1> QED  BY <1>2 DEF FillPattern, Buffer, Block

(* Time stamping a buffer leaves a buffer of blocks.                       *)
LEMMA StampHeadersType ==
  ASSUME NEW b \in Buffer, NEW s \in Nat, NEW n \in Nat
  PROVE  StampHeaders(b, s, n) \in Buffer
<1>1. NlbPerBuf \in Nat
  BY EngineAssumption
<1>2. ASSUME NEW k \in 0 .. (NlbPerBuf - 1)
      PROVE  b[k].body \in Int /\ b[k] \in Block /\ s + k \in Int
  BY <1>1 DEF Buffer, Block
<1> QED  BY <1>2 DEF StampHeaders, Buffer, Block

(* What is submitted for a new slice is a buffer of blocks.                *)
LEMMA PreparedType ==
  ASSUME NEW p, NEW b \in Buffer, NextSlice(p) \in PlanRec
  PROVE  PreparedForIssue(p, b) \in Buffer
<1>1. NextSlice(p).slba \in Nat /\ NextSlice(p).nlb \in Nat
  BY DEF PlanRec
<1>2. FillPattern(b, NextSlice(p).slba, NextSlice(p).nlb) \in Buffer
  BY <1>1, FillPatternType
<1> QED  BY <1>1, <1>2, StampHeadersType DEF PreparedForIssue
-----------------------------------------------------------------------------
(* The inductive invariant.  Before the plans are scheduled they are       *)
(* empty; afterwards a legacy plan stays inside its part of the range, and *)
(* the sequential plans inside what the shared cursor has passed.          *)
PhaseInv ==
  /\ statusCode = "ctor" => pc \in {"start", "returned"}
  /\ pc = "start" => statusCode \in {"ok", "ctor"}
  /\ ~Scheduled => \A i \in Plans : plan[i] = NoPlan

OwnInv ==
  ~Sequential /\ Scheduled =>
    \A i \in Plans : /\ Slba + Begin(i) <= plan[i].slba
                    /\ plan[i].slba + plan[i].rnlb = Slba + End(i)
                    /\ plan[i].nlb <= plan[i].rnlb

Before(p, q) == p.slba + p.nlb <= q.slba

SharedInv ==
  Sequential =>
    /\ Slba <= cursor.lba /\ cursor.lba + cursor.rnlb = Slba + Nlb
    /\ \A i \in Plans : plan[i].nlb # 0 =>
         Slba <= plan[i].slba /\ plan[i].slba + plan[i].nlb <= cursor.lba
    /\ \A i, j \in Plans : i # j /\ plan[i].nlb # 0 /\ plan[j].nlb # 0 =>
         Before(plan[i], plan[j]) \/ Before(plan[j], plan[i])

BufferBound == \A i \in Plans : plan[i].nlb <= NlbPerBuf

(* TypeOK without progress, whose type rests on the rest of the invariant. *)
StateTypes ==
  /\ plan \in [Plans -> PlanRec]
  /\ cursor \in [lba : Nat, rnlb : Nat]
  /\ aio \in [Plans -> RequestState]
  /\ buffer \in [Plans -> [0..1 -> Buffer]]
  /\ Extent \subseteq DOMAIN disk /\ disk \in [DOMAIN disk -> Block]
  /\ pc \in {"start", "scan", "prefill", "cancel", "returned"}
  /\ idx \in 0..NumPlans
  /\ pc = "prefill" => idx \in Plans
  /\ stop \in BOOLEAN
  /\ update \in BOOLEAN
  /\ statusCode \in StatusCode
  /\ failLBA \in Nat

IInv == StateTypes /\ PhaseInv /\ OwnInv /\ SharedInv /\ BufferBound

(* The invariant holds when the task has been constructed.                 *)
LEMMA InitInv == Init => IInv
<1> SUFFICES ASSUME Init PROVE IInv
  OBVIOUS
<1> USE EngineAssumption
<1>1. NoPlan \in PlanRec /\ NoPlan.nlb = 0
  BY DEF NoPlan, NewPlan, PlanRec
<1>2. \A i \in Plans : plan[i] = NoPlan
  BY DEF Init
<1>3. buffer \in [Plans -> [0..1 -> Buffer]]
  BY DEF Init, Buffer, Block, Background
<1>4. StateTypes
  <2>1. idx \in 0 .. NumPlans
    BY PlanParts DEF Init
  <2>2. Extent \subseteq DOMAIN disk /\ disk \in [DOMAIN disk -> Block]
    BY DiskAssumption DEF Init
  <2>3. plan \in [Plans -> PlanRec] /\ aio \in [Plans -> RequestState]
    BY <1>1 DEF Init, RequestState
  <2>4. cursor \in [lba : Nat, rnlb : Nat] /\ failLBA \in Nat
    BY DEF Init
  <2>5. statusCode \in StatusCode
    BY DEF Init, StatusCode
  <2> QED  BY <1>3, <2>1, <2>2, <2>3, <2>4, <2>5 DEF Init, StateTypes
<1>5. PhaseInv /\ OwnInv /\ BufferBound
  BY <1>1, <1>2 DEF Init, PhaseInv, OwnInv, BufferBound, Scheduled
<1>6. SharedInv
  BY <1>1, <1>2 DEF Init, SharedInv
<1> QED  BY <1>4, <1>5, <1>6 DEF IInv
-----------------------------------------------------------------------------
(* What the invariant says of the slices: they lie inside the range and do *)
(* not overlap.                                                            *)
LEMMA SlicePlace ==
  ASSUME IInv, NEW i \in Plans, plan[i].nlb # 0
  PROVE  Slba <= plan[i].slba /\ plan[i].slba + plan[i].nlb <= Slba + Nlb
<1> USE EngineAssumption
<1>0. plan[i] \in PlanRec /\ cursor.lba \in Nat /\ cursor.rnlb \in Nat
  BY DEF IInv, StateTypes
<1>1. plan[i].slba \in Nat /\ plan[i].nlb \in Nat /\ plan[i].rnlb \in Nat
  BY <1>0 DEF PlanRec
<1>2. CASE Sequential
  BY <1>0, <1>1, <1>2 DEF IInv, SharedInv
<1>3. CASE ~Sequential
  <2>1. Scheduled
    BY DEF IInv, PhaseInv, NoPlan, NewPlan
  <2>2. /\ Slba + Begin(i) <= plan[i].slba
        /\ plan[i].slba + plan[i].rnlb = Slba + End(i)
        /\ plan[i].nlb <= plan[i].rnlb
    BY <1>3, <2>1 DEF IInv, OwnInv
  <2> QED  BY <1>1, <2>2, PlanParts
<1> QED  BY <1>2, <1>3

(* Two plans never work on a common block, nor on one that is still        *)
(* waiting in another part of the range.                                   *)
LEMMA SlicesApart ==
  ASSUME IInv, NEW i \in Plans, NEW j \in Plans, i # j, plan[i].nlb # 0, plan[j].nlb # 0
  PROVE  Before(plan[i], plan[j]) \/ Before(plan[j], plan[i])
<1> USE EngineAssumption
<1>1. CASE Sequential
  BY <1>1 DEF IInv, SharedInv
<1>2. CASE ~Sequential
  <2>1. Scheduled
    BY DEF IInv, PhaseInv, NoPlan, NewPlan
  <2>2. ASSUME NEW k \in Plans
        PROVE  /\ plan[k].slba \in Nat /\ plan[k].nlb \in Nat /\ plan[k].rnlb \in Nat
               /\ Slba + Begin(k) <= plan[k].slba
               /\ plan[k].slba + plan[k].rnlb = Slba + End(k)
               /\ plan[k].nlb <= plan[k].rnlb
    BY <1>2, <2>1 DEF IInv, OwnInv, StateTypes, PlanRec
  <2>3. ASSUME NEW k \in Plans, NEW m \in Plans, k < m
        PROVE  Before(plan[k], plan[m])
    <3>1. End(k) <= Begin(m) /\ End(k) \in Nat /\ Begin(m) \in Nat
      BY <2>3, PlanParts
    <3>2. plan[k].slba + plan[k].nlb <= Slba + End(k)
      BY <2>2
    <3> QED  BY <2>2, <3>1, <3>2 DEF Before
  <2>4. i < j \/ j < i
    BY PlanParts
  <2> QED  BY <2>3, <2>4
<1> QED  BY <1>1, <1>2

(* A plan taking up its next slice preserves the arithmetic.               *)
LEMMA TakeSlice ==
  ASSUME IInv, Scheduled, Scheduled', NEW i \in Plans,
         plan' = [plan EXCEPT ![i] = NextSlice(plan[i])],
         cursor' = IF Sequential THEN AdvanceCursor(NextSlice(plan[i])) ELSE cursor
  PROVE  /\ NextSlice(plan[i]) \in PlanRec
         /\ plan' \in [Plans -> PlanRec] /\ cursor' \in [lba : Nat, rnlb : Nat]
         /\ OwnInv' /\ SharedInv' /\ BufferBound'
<1> DEFINE q == NextSlice(plan[i])
<1> USE EngineAssumption
<1>0. /\ plan \in [Plans -> PlanRec] /\ plan[i] \in PlanRec
      /\ cursor \in [lba : Nat, rnlb : Nat]
      /\ \A k \in Plans : plan[k].slba \in Nat /\ plan[k].nlb \in Nat /\ plan[k].rnlb \in Nat
  BY DEF IInv, StateTypes, PlanRec
<1>1. CASE Sequential
  <2>1. /\ q \in PlanRec /\ q.slba = cursor.lba
        /\ q.nlb <= cursor.rnlb /\ q.nlb <= NlbPerBuf
    BY <1>0, <1>1, SharedSlice DEF NextSlice
  <2>2. q.nlb \in Nat /\ cursor.lba \in Nat /\ cursor.rnlb \in Nat
    BY <1>0, <2>1 DEF PlanRec
  <2>3. cursor' = [lba |-> cursor.lba + q.nlb, rnlb |-> cursor.rnlb - q.nlb]
    BY <1>1 DEF AdvanceCursor
  <2>4. /\ plan'[i] = q
        /\ \A k \in Plans : k # i => plan'[k] = plan[k]
    BY <1>0
  <2> HIDE DEF q
  <2>5. cursor' \in [lba : Nat, rnlb : Nat] /\ plan' \in [Plans -> PlanRec]
    BY <1>0, <2>1, <2>2, <2>3 DEF q
  <2>6. Slba <= cursor.lba /\ cursor.lba + cursor.rnlb = Slba + Nlb
    BY <1>1 DEF IInv, SharedInv
  <2>7. ASSUME NEW k \in Plans, k # i, plan[k].nlb # 0
        PROVE  Slba <= plan[k].slba /\ plan[k].slba + plan[k].nlb <= cursor.lba
    BY <1>1, <2>7 DEF IInv, SharedInv
  <2>8. Slba <= cursor'.lba /\ cursor'.lba + cursor'.rnlb = Slba + Nlb
    BY <2>2, <2>3, <2>6
  <2>9. ASSUME NEW k \in Plans, plan'[k].nlb # 0
        PROVE  Slba <= plan'[k].slba /\ plan'[k].slba + plan'[k].nlb <= cursor'.lba
    <3>1. CASE k = i
      BY <2>1, <2>2, <2>3, <2>4, <2>6, <3>1
    <3>2. CASE k # i
      BY <1>0, <2>2, <2>3, <2>4, <2>7, <2>9, <3>2
    <3> QED  BY <3>1, <3>2
  <2>10. ASSUME NEW k \in Plans, NEW m \in Plans, k # m, plan'[k].nlb # 0, plan'[m].nlb # 0
         PROVE  Before(plan'[k], plan'[m]) \/ Before(plan'[m], plan'[k])
    <3>1. CASE k = i
      BY <2>1, <2>4, <2>7, <2>10, <3>1 DEF Before
    <3>2. CASE m = i
      BY <2>1, <2>4, <2>7, <2>10, <3>2 DEF Before
    <3>3. CASE k # i /\ m # i
      BY <2>4, <2>10, <3>3, SlicesApart
    <3> QED  BY <3>1, <3>2, <3>3
  <2>11. BufferBound'
    BY <2>1, <2>4 DEF BufferBound, IInv
  <2>12. SharedInv'
    BY <2>8, <2>9, <2>10 DEF SharedInv
  <2> QED  BY <1>1, <2>1, <2>5, <2>11, <2>12 DEF OwnInv, q
<1>2. CASE ~Sequential
  <2>1. /\ Slba + Begin(i) <= plan[i].slba
        /\ plan[i].slba + plan[i].rnlb = Slba + End(i)
        /\ plan[i].nlb <= plan[i].rnlb
    BY <1>2 DEF IInv, OwnInv
  <2>2. /\ q \in PlanRec
        /\ q.slba = plan[i].slba + plan[i].nlb
        /\ q.rnlb = plan[i].rnlb - plan[i].nlb
        /\ q.nlb <= q.rnlb /\ q.nlb <= NlbPerBuf
    BY <1>0, <1>2, <2>1, OwnSlice DEF NextSlice
  <2>3. /\ plan'[i] = q
        /\ \A k \in Plans : k # i => plan'[k] = plan[k]
    BY <1>0
  <2> HIDE DEF q
  <2>4. plan' \in [Plans -> PlanRec]
    BY <1>0, <2>2 DEF q
  <2>5. Slba + Begin(i) <= q.slba /\ q.slba + q.rnlb = Slba + End(i)
    BY <1>0, <2>1, <2>2, PlanParts
  <2>6. OwnInv'
    BY <1>2, <2>2, <2>3, <2>5 DEF OwnInv, IInv, Begin, End
  <2>7. BufferBound'
    BY <2>2, <2>3 DEF BufferBound, IInv
  <2> QED  BY <1>0, <1>2, <2>2, <2>4, <2>6, <2>7 DEF SharedInv, q
<1> QED  BY <1>1, <1>2
-----------------------------------------------------------------------------
(* One lemma per action.                                                   *)
(* issue() divides the range: every plan stands before its own part.       *)
LEMMA RoutinePreserves == IInv /\ Routine => IInv'
<1> SUFFICES ASSUME IInv, Routine PROVE IInv'
  OBVIOUS
<1> USE EngineAssumption
<1>0. pc = "start" /\ \A i \in Plans : plan[i] = NoPlan
  BY DEF IInv, PhaseInv, Scheduled, Routine
<1>1. CASE statusCode = "ok"
  <2>1. ASSUME NEW i \in Plans
        PROVE  /\ plan'[i] \in PlanRec
               /\ plan'[i].slba = Slba + Begin(i)
               /\ plan'[i].rnlb = End(i) - Begin(i)
               /\ plan'[i].nlb = 0
    <3>1. plan'[i] = NewPlan(Slba + Begin(i), End(i) - Begin(i))
      BY <1>1, PlanParts DEF Routine, Begin, End
    <3>2. Slba + Begin(i) \in Nat /\ End(i) - Begin(i) \in Nat
      BY PlanParts
    <3> QED  BY <3>1, <3>2 DEF NewPlan, PlanRec
  <2>2. plan' \in [Plans -> PlanRec]
    BY <1>1, <2>1 DEF Routine
  <2>3. pc' = "scan" /\ UNCHANGED <<cursor, aio, buffer, disk, idx, stop, update, statusCode, failLBA>>
    BY <1>1 DEF Routine, requestVars, resultVars
  <2>4. StateTypes'
    BY <2>2, <2>3 DEF IInv, StateTypes
  <2>5. OwnInv'
    <3> SUFFICES ASSUME NEW i \in Plans
                 PROVE  /\ Slba + Begin(i) <= plan'[i].slba
                        /\ plan'[i].slba + plan'[i].rnlb = Slba + End(i)
                        /\ plan'[i].nlb <= plan'[i].rnlb
      BY DEF OwnInv, Begin, End
    <3> QED  BY <2>1, PlanParts
  <2>6. SharedInv' /\ BufferBound'
    BY <2>1, <2>3 DEF SharedInv, BufferBound, IInv
  <2>7. PhaseInv'
    BY <1>1, <2>3 DEF PhaseInv, Scheduled
  <2> QED  BY <2>4, <2>5, <2>6, <2>7 DEF IInv
<1>2. CASE statusCode # "ok"
  <2>1. /\ pc' = "returned"
        /\ UNCHANGED <<plan, cursor, aio, buffer, disk, idx, stop, update, statusCode, failLBA>>
    BY <1>2 DEF Routine, requestVars, resultVars
  <2>2. \A i \in Plans : plan'[i] = NoPlan
    BY <1>0, <2>1
  <2>3. StateTypes' /\ BufferBound' /\ SharedInv'
    BY <2>1 DEF IInv, StateTypes, BufferBound, SharedInv, Before
  <2>4. CASE statusCode = "ctor"
    BY <2>1, <2>2, <2>3, <2>4 DEF IInv, PhaseInv, OwnInv, Scheduled
  <2>5. CASE statusCode # "ctor"
    BY <1>0, <1>2, <2>5 DEF IInv, PhaseInv
  <2> QED  BY <2>4, <2>5
<1> QED  BY <1>1, <1>2

(* Actions that leave plans, cursor and request data alone.                *)
LEMMA FramePreserves ==
  ASSUME IInv, UNCHANGED <<plan, cursor>>, Scheduled <=> Scheduled',
         StateTypes', pc' # "start", statusCode' # "ctor" \/ pc' = "returned"
  PROVE  IInv'
<1>1. PhaseInv' /\ BufferBound' /\ OwnInv' /\ SharedInv'
  BY DEF IInv, PhaseInv, BufferBound, OwnInv, SharedInv, Begin, End, Before
<1> QED  BY <1>1 DEF IInv

(* _run() only scans once the plans have been made.                        *)
LEMMA ScanningScheduled ==
  ASSUME IInv, pc \in {"scan", "prefill", "cancel"}
  PROVE  Scheduled
BY DEF IInv, PhaseInv, Scheduled

(* The loop variable of _run() names a plan while the scan goes on.        *)
LEMMA ScanIndex ==
  ASSUME IInv, Scanning
  PROVE  idx \in Plans /\ idx + 1 \in 0 .. NumPlans
BY PlanParts DEF IInv, StateTypes, Scanning, Plans

(* Finding a request still running changes no plan.                        *)
LEMMA StillRunningPreserves == IInv /\ StillRunning => IInv'
<1> SUFFICES ASSUME IInv, StillRunning PROVE IInv'
  OBVIOUS
<1>1. idx \in Plans /\ idx + 1 \in 0 .. NumPlans /\ pc = "scan" /\ Scheduled
  BY ScanIndex, ScanningScheduled DEF StillRunning, Scanning
<1>2. /\ stop' = FALSE /\ idx' = idx + 1
      /\ UNCHANGED <<plan, cursor, aio, buffer, disk, pc, update, statusCode, failLBA>>
  BY DEF StillRunning, requestVars, resultVars
<1>3. StateTypes'
  BY <1>1, <1>2 DEF IInv, StateTypes
<1> QED  BY <1>1, <1>2, <1>3, FramePreserves DEF Scheduled

(* Submitting the next slice takes it from what was waiting.               *)
LEMMA IssueNextPreserves == IInv /\ IssueNext => IInv'
<1> SUFFICES ASSUME IInv, IssueNext PROVE IInv'
  OBVIOUS
<1> DEFINE q == NextSlice(plan[idx])
<1>1. idx \in Plans /\ idx + 1 \in 0 .. NumPlans /\ pc = "scan" /\ Scheduled
  BY ScanIndex, ScanningScheduled DEF IssueNext, Scanning
<1>2. /\ plan' = [plan EXCEPT ![idx] = q]
      /\ cursor' = IF Sequential THEN AdvanceCursor(q) ELSE cursor
      /\ buffer' = [buffer EXCEPT ![idx][Memory(q)] = PreparedForIssue(plan[idx], @)]
  BY DEF IssueNext
<1>3. /\ aio' = [aio EXCEPT ![idx] = "busy"] \/ aio' = [aio EXCEPT ![idx] = "none"]
      /\ stop' = FALSE /\ update' = TRUE
      /\ UNCHANGED <<disk, statusCode, failLBA>>
  BY DEF IssueNext, resultVars
<1>4. \/ pc' = "prefill" /\ idx' = idx
      \/ pc' = pc /\ idx' = idx + 1
  BY DEF IssueNext
<1>5. Scheduled' /\ pc' \in {"scan", "prefill"} /\ statusCode' # "ctor"
  BY <1>1, <1>3, <1>4 DEF Scheduled
<1>6. /\ q \in PlanRec
      /\ plan' \in [Plans -> PlanRec] /\ cursor' \in [lba : Nat, rnlb : Nat]
      /\ OwnInv' /\ SharedInv' /\ BufferBound'
  BY <1>1, <1>2, <1>5, TakeSlice
<1> HIDE DEF q
<1>7. buffer' \in [Plans -> [0..1 -> Buffer]]
  <2>1. buffer \in [Plans -> [0..1 -> Buffer]] /\ Memory(q) \in 0 .. 1
    BY MemoryType DEF IInv, StateTypes
  <2>2. PreparedForIssue(plan[idx], buffer[idx][Memory(q)]) \in Buffer
    BY <1>1, <1>6, <2>1, PreparedType DEF q
  <2> QED  BY <1>1, <1>2, <2>1, <2>2
<1>8. StateTypes'
  <2>1. aio' \in [Plans -> RequestState]
    BY <1>1, <1>3 DEF IInv, StateTypes, RequestState
  <2>2. idx' \in 0 .. NumPlans /\ (pc' = "prefill" => idx' \in Plans)
    BY <1>1, <1>4 DEF IInv, StateTypes
  <2> QED  BY <1>3, <1>5, <1>6, <1>7, <2>1, <2>2 DEF IInv, StateTypes
<1>9. PhaseInv'
  BY <1>5 DEF PhaseInv
<1> QED  BY <1>6, <1>8, <1>9 DEF IInv

(* Filling ahead changes buffers only.                                     *)
LEMMA PreFillPreserves == IInv /\ PreFill => IInv'
<1> SUFFICES ASSUME IInv, PreFill PROVE IInv'
  OBVIOUS
<1> USE EngineAssumption
<1> DEFINE p    == plan[idx]
           left == p.rnlb - p.nlb
<1>1. idx \in Plans /\ pc = "prefill" /\ Scheduled /\ idx + 1 \in 0 .. NumPlans
  BY ScanningScheduled, PlanParts DEF PreFill, IInv, StateTypes, Plans
<1>2. buffer' = IF left = 0 THEN buffer
                ELSE [buffer EXCEPT ![idx][PreMemory(p)] =
                        FillPattern(@, p.slba + p.nlb, LesserOf(left, NlbPerBuf))]
  BY DEF PreFill
<1>3. /\ pc' = "scan" /\ idx' = idx + 1
      /\ UNCHANGED <<plan, cursor, aio, disk, stop, update, statusCode, failLBA>>
  BY DEF PreFill, resultVars
<1>4. buffer' \in [Plans -> [0..1 -> Buffer]]
  <2>1. p.slba + p.nlb \in Nat /\ LesserOf(left, NlbPerBuf) \in Int
    BY <1>1 DEF IInv, StateTypes, PlanRec, LesserOf
  <2>2. buffer \in [Plans -> [0..1 -> Buffer]] /\ PreMemory(p) \in 0 .. 1
    BY MemoryType DEF IInv, StateTypes
  <2> HIDE DEF p, left
  <2>3. FillPattern(buffer[idx][PreMemory(p)], p.slba + p.nlb, LesserOf(left, NlbPerBuf)) \in Buffer
    BY <1>1, <2>1, <2>2, FillPatternType
  <2> QED  BY <1>1, <1>2, <2>2, <2>3
<1>5. StateTypes'
  BY <1>1, <1>3, <1>4 DEF IInv, StateTypes
<1> QED  BY <1>1, <1>3, <1>5, FramePreserves DEF Scheduled

(* A plan with nothing left has an empty slice at its end.                 *)
LEMMA PlanExhaustedPreserves == IInv /\ PlanExhausted => IInv'
<1> SUFFICES ASSUME IInv, PlanExhausted PROVE IInv'
  OBVIOUS
<1> DEFINE q == NextSlice(plan[idx])
<1>1. idx \in Plans /\ idx + 1 \in 0 .. NumPlans /\ pc = "scan" /\ Scheduled
  BY ScanIndex, ScanningScheduled DEF PlanExhausted, Scanning
<1>2. plan' = [plan EXCEPT ![idx] = q] /\ q.nlb = 0 /\ cursor' = cursor
  BY DEF PlanExhausted
<1>3. /\ idx' = idx + 1
      /\ UNCHANGED <<aio, buffer, disk, pc, stop, update, statusCode, failLBA>>
  BY DEF PlanExhausted, requestVars, resultVars
<1>4. cursor' = IF Sequential THEN AdvanceCursor(q) ELSE cursor
  <2>1. cursor \in [lba : Nat, rnlb : Nat]
    BY DEF IInv, StateTypes
  <2> HIDE DEF q
  <2>2. AdvanceCursor(q) = cursor
    BY <1>2, <2>1 DEF AdvanceCursor
  <2> QED  BY <1>2, <2>2
<1>5. Scheduled'
  BY <1>1, <1>3 DEF Scheduled
<1>6. /\ plan' \in [Plans -> PlanRec] /\ cursor' \in [lba : Nat, rnlb : Nat]
      /\ OwnInv' /\ SharedInv' /\ BufferBound'
  BY <1>1, <1>2, <1>4, <1>5, TakeSlice
<1>7. StateTypes'
  BY <1>1, <1>3, <1>6 DEF IInv, StateTypes
<1>8. PhaseInv'
  BY <1>1, <1>3, <1>5 DEF PhaseInv, Scheduled
<1> QED  BY <1>6, <1>7, <1>8 DEF IInv

(* The first of a set of offsets is one of them.                           *)
LEMMA FirstInSet ==
  ASSUME NEW S, S \subseteq Nat, S # {}
  PROVE  FirstOf(S) \in S
BY LeastNumber DEF FirstOf

(* The offset of the first error in a slice is a number.                   *)
LEMMA ErrOffsetType ==
  ASSUME NEW i \in Plans
  PROVE  ErrOffset(i) \in Nat
<1>1. ASSUME NEW S \in SUBSET Nat, S # {}
      PROVE  FirstOf(S) \in Nat
  BY <1>1, FirstInSet
<1>2. HeaderErrors(i) \in SUBSET Nat /\ BodyErrors(i) \in SUBSET Nat
  BY DEF HeaderErrors, BodyErrors
<1>3. CompletionStatus(i) = "stamp" => HeaderErrors(i) # {}
  BY DEF CompletionStatus
<1>4. CompletionStatus(i) = "data" => BodyErrors(i) # {}
  BY DEF CompletionStatus
<1> QED  BY <1>1, <1>2, <1>3, <1>4 DEF ErrOffset

(* Noting a failure changes no plan.                                       *)
LEMMA PlanFailedPreserves == IInv /\ PlanFailed => IInv'
<1> SUFFICES ASSUME IInv, PlanFailed PROVE IInv'
  OBVIOUS
<1>1. idx \in Plans /\ pc = "scan" /\ Scheduled
  BY ScanIndex, ScanningScheduled DEF PlanFailed, Scanning
<1>2. /\ failLBA' = plan[idx].slba + ErrOffset(idx)
      /\ statusCode' = CompletionStatus(idx)
      /\ stop' = TRUE /\ pc' = "cancel" /\ idx' = 0
      /\ UNCHANGED <<plan, cursor, aio, buffer, disk, update>>
  BY DEF PlanFailed, requestVars
<1>3. statusCode' \in StatusCode /\ statusCode' # "ctor"
  BY <1>2 DEF CompletionStatus, StatusCode
<1>4. failLBA' \in Nat
  BY <1>1, <1>2, ErrOffsetType DEF IInv, StateTypes, PlanRec
<1>5. StateTypes'
  BY <1>2, <1>3, <1>4, PlanParts DEF IInv, StateTypes
<1> QED  BY <1>1, <1>2, <1>3, <1>5, FramePreserves DEF Scheduled

(* Cancelling changes only what the requests are doing.                    *)
LEMMA CancelPlanPreserves == IInv /\ CancelPlan => IInv'
<1> SUFFICES ASSUME IInv, CancelPlan PROVE IInv'
  OBVIOUS
<1>1. pc = "cancel" /\ Scheduled /\ idx + 1 \in 0 .. NumPlans
  BY ScanningScheduled, PlanParts DEF CancelPlan, IInv, StateTypes
<1>2. aio' \in [Plans -> RequestState]
  BY DEF CancelPlan, IInv, StateTypes, RequestState
<1>3. idx' = idx + 1 /\ UNCHANGED <<plan, cursor, buffer, disk, pc, stop, update, statusCode, failLBA>>
  BY DEF CancelPlan, resultVars
<1>4. StateTypes'
  BY <1>1, <1>2, <1>3 DEF IInv, StateTypes
<1> QED  BY <1>1, <1>3, <1>4, FramePreserves DEF Scheduled

(* Ending a pass changes no plan.                                          *)
LEMMA EndPassPreserves == IInv /\ EndPass => IInv'
<1> SUFFICES ASSUME IInv, EndPass PROVE IInv'
  OBVIOUS
<1>1. pc \in {"scan", "cancel"} /\ Scheduled
  BY ScanningScheduled DEF EndPass
<1>2. /\ UNCHANGED <<plan, cursor, aio, buffer, disk, statusCode, failLBA>>
      /\ pc' \in {"scan", "returned"} /\ idx' \in {0, idx}
      /\ stop' \in {stop, TRUE} /\ update' \in {update, FALSE}
  BY DEF EndPass, requestVars, resultVars
<1>3. StateTypes'
  <2>1. stop' \in BOOLEAN /\ update' \in BOOLEAN
    BY <1>2, Zenon DEF IInv, StateTypes
  <2>2. idx' \in 0 .. NumPlans
    BY <1>2, PlanParts DEF IInv, StateTypes
  <2>3. /\ pc' \in {"start", "scan", "prefill", "cancel", "returned"}
        /\ pc' # "prefill"
    BY <1>2
  <2> QED  BY <1>2, <2>1, <2>2, <2>3 DEF IInv, StateTypes
<1> QED  BY <1>1, <1>2, <1>3, FramePreserves DEF Scheduled

(* A request that ends moves blocks and changes no plan.                   *)
LEMMA FinishPreserves ==
  ASSUME IInv, NEW i \in Plans, NEW n \in 0 .. plan[i].nlb, NEW result \in RequestState,
         Finish(i, n, result)
  PROVE  IInv'
<1> USE EngineAssumption
<1> DEFINE p == plan[i]
           m == Memory(p)
<1>1. /\ UNCHANGED <<plan, cursor, pc, idx, stop, update, statusCode, failLBA>>
      /\ aio' = [aio EXCEPT ![i] = result]
  BY DEF Finish, resultVars
<1>2. /\ p.slba \in Nat /\ p.nlb \in Nat /\ n \in Nat /\ n <= p.nlb /\ m \in 0 .. 1
      /\ p.nlb <= NlbPerBuf
      /\ buffer \in [Plans -> [0..1 -> Buffer]]
  BY MemoryType DEF IInv, StateTypes, PlanRec, BufferBound
<1>3. Extent \subseteq DOMAIN disk /\ disk \in [DOMAIN disk -> Block]
  BY DEF IInv, StateTypes
<1>4. ASSUME Kind = "fill"
      PROVE  /\ buffer' \in [Plans -> [0..1 -> Buffer]]
             /\ Extent \subseteq DOMAIN disk'
             /\ disk' \in [DOMAIN disk' -> Block]
  <2>1. /\ disk' = [l \in DOMAIN disk |->
                      IF l \in p.slba .. (p.slba + n - 1)
                      THEN buffer[i][m][l - p.slba] ELSE disk[l]]
        /\ buffer' = buffer
    BY <1>4 DEF Finish, MoveBlocks
  <2> HIDE DEF p, m
  <2>2. ASSUME NEW l \in p.slba .. (p.slba + n - 1)
        PROVE  buffer[i][m][l - p.slba] \in Block
    <3>1. l - p.slba \in 0 .. (NlbPerBuf - 1)
      BY <1>2
    <3> QED  BY <1>2, <3>1 DEF Buffer
  <2>3. disk' \in [DOMAIN disk' -> Block] /\ DOMAIN disk' = DOMAIN disk
    BY <1>3, <2>1, <2>2
  <2> QED  BY <1>2, <1>3, <2>1, <2>3
<1>5. ASSUME Kind # "fill"
      PROVE  /\ buffer' \in [Plans -> [0..1 -> Buffer]]
             /\ Extent \subseteq DOMAIN disk'
             /\ disk' \in [DOMAIN disk' -> Block]
  <2>1. /\ buffer' = [buffer EXCEPT ![i][m] =
                         [k \in 0..(NlbPerBuf - 1) |-> IF k < n THEN disk[p.slba + k] ELSE @[k]]]
        /\ disk' = disk
    BY <1>5 DEF Finish, MoveBlocks
  <2>2. p.nlb # 0 => Slba <= p.slba /\ p.slba + p.nlb <= Slba + Nlb
    BY SlicePlace
  <2> DEFINE new == [k \in 0..(NlbPerBuf - 1) |->
                       IF k < n THEN disk[p.slba + k] ELSE buffer[i][m][k]]
  <2> HIDE DEF p, m
  <2>3. ASSUME NEW k \in 0 .. (NlbPerBuf - 1), k < n
        PROVE  disk[p.slba + k] \in Block
    <3>1. p.slba + k \in Extent
      BY <1>2, <2>2, <2>3 DEF Extent
    <3> QED  BY <1>3, <3>1
  <2>4. new \in Buffer
    <3>1. buffer[i][m] \in Buffer
      BY <1>2
    <3> QED  BY <2>3, <3>1 DEF Buffer
  <2>5. buffer' = [buffer EXCEPT ![i][m] = new]
    BY <2>1
  <2> HIDE DEF new
  <2>6. buffer' \in [Plans -> [0..1 -> Buffer]]
    BY <1>2, <2>4, <2>5
  <2> QED  BY <1>3, <2>1, <2>6
<1>6. buffer' \in [Plans -> [0..1 -> Buffer]] /\ Extent \subseteq DOMAIN disk'
      /\ disk' \in [DOMAIN disk' -> Block]
  BY <1>4, <1>5
<1>7. StateTypes'
  BY <1>1, <1>6 DEF IInv, StateTypes
<1>8. Scheduled <=> Scheduled'
  BY <1>1 DEF Scheduled
<1> QED  BY <1>1, <1>7, <1>8 DEF IInv, PhaseInv, OwnInv, SharedInv, BufferBound, Begin, End, Before

(* Whatever a request does preserves the invariant.                        *)
LEMMA RequestPreserves == IInv /\ (\E i \in Plans : Request(i)) => IInv'
<1> SUFFICES ASSUME IInv, NEW i \in Plans, Request(i) PROVE IInv'
  OBVIOUS
<1>1. plan[i].nlb \in Nat
  BY DEF IInv, StateTypes, PlanRec
<1>2. plan[i].nlb \in 0 .. plan[i].nlb /\ 0 .. (plan[i].nlb - 1) \subseteq 0 .. plan[i].nlb
  BY <1>1
<1>3. "ok" \in RequestState /\ "failed" \in RequestState
  BY DEF RequestState
<1> QED
  BY <1>2, <1>3, FinishPreserves DEF Request, Complete, CompleteShort, CompleteWithError

(* The invariant is inductive.                                             *)
LEMMA StepInv == IInv /\ [Next]_vars => IInv'
<1> SUFFICES ASSUME IInv, [Next]_vars PROVE IInv'
  OBVIOUS
<1>1. CASE Engine
  BY <1>1, RoutinePreserves, StillRunningPreserves, IssueNextPreserves, PreFillPreserves,
     PlanExhaustedPreserves, PlanFailedPreserves, CancelPlanPreserves, EndPassPreserves DEF Engine
<1>2. CASE \E i \in Plans : Request(i)
  BY <1>2, RequestPreserves
<1>3. CASE UNCHANGED vars
  BY <1>3 DEF vars, IInv, StateTypes, PhaseInv, OwnInv, SharedInv, BufferBound, Scheduled,
              Begin, End, Before
<1> QED  BY <1>1, <1>2, <1>3 DEF Next

(* Theorem: in every task, whatever the requests do, a plan stays within   *)
(* its own part of the range (or, in the sequential family, takes what the *)
(* shared cursor passes over), so that slices and blocks waiting stay      *)
(* apart.                                                                  *)
THEOREM Invariance == Spec => []IInv
BY InitInv, StepInv, PTL DEF Spec
-----------------------------------------------------------------------------
(* The blocks reported as remaining.  A recursive sum over the plans: that *)
(* it is defined, and bounded by the plans' boundaries, is shown by taking *)
(* the least index where it would not be.                                  *)
LEMMA SumExists ==
  ASSUME NEW N \in Nat, NEW g
  PROVE  \E f : f = [n \in 0 .. N |-> IF n = 0 THEN 0 ELSE f[n - 1] + g[n - 1]]
<1> DEFINE Sum(m, f) == f = [n \in 0 .. m |-> IF n = 0 THEN 0 ELSE f[n - 1] + g[n - 1]]
           Bad == {m \in Nat : ~ \E f : Sum(m, f)}
<1>1. SUFFICES ASSUME Bad # {} PROVE FALSE
  OBVIOUS
<1>2. PICK k \in Bad : \A m \in Bad : k <= m
  BY <1>1, LeastNumber
<1>3. CASE k = 0
  <2>1. Sum(0, [n \in 0 .. 0 |-> 0])
    OBVIOUS
  <2> QED  BY <1>2, <1>3, <2>1
<1>4. CASE k # 0
  <2>1. k \in Nat /\ k - 1 \in Nat /\ ~ (k <= k - 1)
    BY <1>2, <1>4
  <2>0. k - 1 \notin Bad
    BY <1>2, <2>1
  <2>2. PICK f : f = [n \in 0 .. (k - 1) |-> IF n = 0 THEN 0 ELSE f[n - 1] + g[n - 1]]
    BY <2>0, <2>1
  <2> DEFINE h == [n \in 0 .. k |-> IF n = k THEN f[k - 1] + g[k - 1] ELSE f[n]]
  <2>3. ASSUME NEW n \in 0 .. k
        PROVE  h[n] = IF n = 0 THEN 0 ELSE h[n - 1] + g[n - 1]
    <3>1. CASE n = k
      <4>1. k - 1 \in 0 .. k /\ h[k - 1] = f[k - 1]
        BY <1>4, <2>1
      <4> QED  BY <1>4, <3>1, <4>1
    <3>2. CASE n # k
      <4>1. n \in 0 .. (k - 1) /\ h[n] = f[n]
        BY <2>1, <3>2
      <4>2. f[n] = IF n = 0 THEN 0 ELSE f[n - 1] + g[n - 1]
        BY <2>2, <4>1
      <4>3. n # 0 => n - 1 \in 0 .. k /\ n - 1 # k /\ h[n - 1] = f[n - 1]
        BY <2>1, <4>1
      <4> QED  BY <4>1, <4>2, <4>3
    <3> QED  BY <3>1, <3>2
  <2>4. h = [n \in 0 .. k |-> h[n]]
    OBVIOUS
  <2> HIDE DEF h
  <2>5. h = [n \in 0 .. k |-> IF n = 0 THEN 0 ELSE h[n - 1] + g[n - 1]]
    BY <2>3, <2>4
  <2> QED  BY <1>2, <2>5
<1> QED  BY <1>3, <1>4

(* No more blocks are reported as remaining than the parts of the plans    *)
(* summed so far have.                                                     *)
LEMMA SumBound ==
  ASSUME NEW N \in Nat, NEW g, NEW f, NEW B,
         f = [n \in 0 .. N |-> IF n = 0 THEN 0 ELSE f[n - 1] + g[n - 1]],
         B[0] = 0,
         \A n \in 1 .. N : /\ g[n - 1] \in Nat /\ B[n - 1] \in Nat /\ B[n] \in Nat
                          /\ B[n - 1] + g[n - 1] <= B[n]
  PROVE  f[N] \in Nat /\ f[N] <= B[N]
<1> DEFINE Bad == {n \in 0 .. N : ~ (f[n] \in Nat /\ f[n] <= B[n])}
<1>0. Bad \subseteq Nat /\ (N \in Bad <=> ~ (f[N] \in Nat /\ f[N] <= B[N]))
  OBVIOUS
<1> SUFFICES ASSUME N \in Bad PROVE FALSE
  BY <1>0
<1> HIDE DEF Bad
<1>1. Bad # {}
  OBVIOUS
<1>2. PICK k \in Bad : \A m \in Bad : k <= m
  BY <1>0, <1>1, LeastNumber
<1> USE DEF Bad
<1>3. f[0] = 0 /\ 0 \notin Bad
  OBVIOUS
<1>4. k \in 1 .. N /\ k - 1 \in 0 .. N /\ k - 1 \notin Bad
  <2>1. k \in 0 .. N /\ k # 0
    BY <1>2, <1>3
  <2>2. k \in Nat /\ ~ (k <= k - 1)
    BY <2>1
  <2> QED  BY <1>2, <2>1, <2>2
<1>5. f[k] = f[k - 1] + g[k - 1] /\ f[k - 1] \in Nat /\ f[k - 1] <= B[k - 1]
  BY <1>4
<1>6. g[k - 1] \in Nat /\ B[k - 1] \in Nat /\ B[k] \in Nat /\ B[k - 1] + g[k - 1] <= B[k]
  BY <1>4
<1> QED  BY <1>2, <1>5, <1>6

(* No more blocks remain than the range has.                               *)
LEMMA RemainingBound ==
  ASSUME IInv, Scheduled
  PROVE  RemainingBlocks \in Nat /\ RemainingBlocks <= Nlb
<1> USE EngineAssumption
<1>1. CASE Sequential
  <2>1. RemainingBlocks = cursor.rnlb
    BY <1>1 DEF RemainingBlocks
  <2>2. cursor.rnlb \in Nat /\ cursor.lba \in Nat
        /\ Slba <= cursor.lba /\ cursor.lba + cursor.rnlb = Slba + Nlb
    BY <1>1 DEF IInv, StateTypes, SharedInv
  <2> QED  BY <2>1, <2>2
<1>2. CASE ~Sequential
  <2> DEFINE g == [k \in Plans |-> plan[k].rnlb]
             f == CHOOSE f : f = [n \in 0 .. NumPlans |->
                               IF n = 0 THEN 0 ELSE f[n - 1] + plan[n - 1].rnlb]
             B == [n \in 0 .. NumPlans |-> IF n = 0 THEN 0 ELSE End(n - 1)]
  <2>0. NumPlans \in Nat /\ Plans = 0 .. (NumPlans - 1)
    BY PlanParts DEF Plans
  <2>1. RemainingBlocks = f[NumPlans]
    BY <1>2 DEF RemainingBlocks
  <2>2. \E h : h = [n \in 0 .. NumPlans |-> IF n = 0 THEN 0 ELSE h[n - 1] + g[n - 1]]
    BY <2>0, SumExists
  <2>3. \A h : [n \in 0 .. NumPlans |-> IF n = 0 THEN 0 ELSE h[n - 1] + g[n - 1]]
             = [n \in 0 .. NumPlans |-> IF n = 0 THEN 0 ELSE h[n - 1] + plan[n - 1].rnlb]
    <3>1. \A n \in 0 .. NumPlans : n # 0 => g[n - 1] = plan[n - 1].rnlb
      BY <2>0
    <3> HIDE DEF g
    <3> QED  BY <3>1
  <2>4. f = [n \in 0 .. NumPlans |-> IF n = 0 THEN 0 ELSE f[n - 1] + plan[n - 1].rnlb]
    <3>1. \E h : h = [n \in 0 .. NumPlans |-> IF n = 0 THEN 0 ELSE h[n - 1] + plan[n - 1].rnlb]
      <4>1. PICK h : h = [n \in 0 .. NumPlans |-> IF n = 0 THEN 0 ELSE h[n - 1] + g[n - 1]]
        BY <2>2
      <4> HIDE DEF g, f, B
      <4>2. h = [n \in 0 .. NumPlans |-> IF n = 0 THEN 0 ELSE h[n - 1] + plan[n - 1].rnlb]
        BY <2>3, <4>1
      <4> QED  BY <4>2
    <3> QED  BY <3>1, Zenon
  <2>5. f = [n \in 0 .. NumPlans |-> IF n = 0 THEN 0 ELSE f[n - 1] + g[n - 1]]
    <3> HIDE DEF f, g, B
    <3> QED  BY <2>3, <2>4
  <2>6. ASSUME NEW n \in 1 .. NumPlans
        PROVE  /\ g[n - 1] \in Nat /\ B[n - 1] \in Nat /\ B[n] \in Nat
               /\ B[n - 1] + g[n - 1] <= B[n]
               /\ B[n] <= Nlb
    <3>1. n - 1 \in Plans /\ n \in 0 .. NumPlans /\ n - 1 \in 0 .. NumPlans /\ n # 0
      BY <2>0
    <3>2. /\ g[n - 1] = plan[n - 1].rnlb
          /\ B[n] = End(n - 1)
          /\ B[n - 1] = IF n - 1 = 0 THEN 0 ELSE End(n - 1 - 1)
      BY <3>1
    <3>3. /\ Slba + Begin(n - 1) <= plan[n - 1].slba
          /\ plan[n - 1].slba + plan[n - 1].rnlb = Slba + End(n - 1)
          /\ plan[n - 1].slba \in Nat /\ plan[n - 1].rnlb \in Nat
      BY <1>2, <3>1 DEF IInv, OwnInv, StateTypes, PlanRec
    <3>4. /\ Begin(n - 1) \in Nat /\ End(n - 1) \in Nat /\ End(n - 1) <= Nlb
      BY <3>1, PlanParts
    <3>5. B[n - 1] \in Nat /\ B[n - 1] <= Begin(n - 1)
      <4>1. CASE n - 1 = 0
        BY <3>2, <3>4, <4>1
      <4>2. CASE n - 1 # 0
        <5>1. n - 1 - 1 \in Plans /\ n - 1 - 1 < n - 1
          BY <2>0, <3>1, <4>2
        <5>2. End(n - 1 - 1) \in Nat /\ End(n - 1 - 1) <= Begin(n - 1)
          BY <3>1, <5>1, PlanParts
        <5> QED  BY <3>2, <4>2, <5>2
      <4> QED  BY <4>1, <4>2
    <3> HIDE DEF g, B
    <3> QED  BY <3>2, <3>3, <3>4, <3>5
  <2>7. B[0] = 0
    BY <2>0
  <2> HIDE DEF f, g, B
  <2>8. f[NumPlans] \in Nat /\ f[NumPlans] <= B[NumPlans]
    BY <2>0, <2>5, <2>6, <2>7, SumBound
  <2>9. B[NumPlans] \in Nat /\ B[NumPlans] <= Nlb
    <3>1. CASE NumPlans = 0
      BY <2>7, <3>1
    <3>2. CASE NumPlans # 0
      BY <2>0, <2>6, <3>2
    <3> QED  BY <3>1, <3>2
  <2> QED  BY <2>1, <2>8, <2>9
<1> QED  BY <1>1, <1>2

(* Reported progress, and the type invariant as the runs check it.         *)
ProgressInv ==
  /\ update => Nlb # 0
  /\ progress \in 0 .. 100

(* A part of the range, in percent of it, is a percentage.                 *)
LEMMA PercentBound ==
  ASSUME NEW n \in Nat \ {0}, NEW r \in Nat, r <= n
  PROVE  ((n - r) * 100) \div n \in 0 .. 100
<1> DEFINE a == (n - r) * 100
           q == a \div n
<1>1. a \in Nat /\ a <= n * 100
  OBVIOUS
<1> HIDE DEF a
<1>2. q \in Nat /\ n * q <= a
  BY <1>1, DivisionFacts
<1> HIDE DEF q
<1>3. q <= 100
  BY <1>1, <1>2
<1> QED  BY <1>2, <1>3 DEF q, a

(* The progress stays a percentage.                                        *)
LEMMA ProgressStep == IInv /\ ProgressInv /\ [Next]_vars => ProgressInv'
<1> SUFFICES ASSUME IInv, ProgressInv, [Next]_vars PROVE ProgressInv'
  OBVIOUS
<1> USE EngineAssumption DEF ProgressInv
<1>1. CASE IssueNext
  <2>1. idx \in Plans
    BY <1>1, ScanIndex DEF IssueNext
  <2>2. Nlb # 0
    BY <2>1, PlanParts
  <2> QED  BY <1>1, <2>2 DEF IssueNext
<1>2. CASE EndPass
  <2>1. Scheduled
    BY <1>2, ScanningScheduled DEF EndPass
  <2>2. RemainingBlocks \in Nat /\ RemainingBlocks <= Nlb
    BY <2>1, RemainingBound
  <2>3. progress' \in 0 .. 100
    <3>1. CASE update
      BY <1>2, <2>2, <3>1, PercentBound DEF EndPass
    <3>2. CASE ~update
      BY <1>2, <3>2 DEF EndPass
    <3> QED  BY <3>1, <3>2
  <2>4. update' => update
    BY <1>2 DEF EndPass
  <2> QED  BY <2>3, <2>4
<1>3. CASE Routine \/ StillRunning \/ PreFill \/ PlanExhausted \/ PlanFailed \/ CancelPlan
           \/ UNCHANGED vars
  BY <1>3 DEF Routine, StillRunning, PreFill, PlanExhausted, PlanFailed, CancelPlan, vars
<1>4. CASE \E i \in Plans : Request(i)
  BY <1>4 DEF Request, Complete, CompleteShort, CompleteWithError, Finish
<1> QED  BY <1>1, <1>2, <1>3, <1>4 DEF Next, Engine

(* Theorem: the variables of the engine keep their types, and progress is  *)
(* a percentage, for every task and whatever the requests do.              *)
THEOREM TypeCorrect == Spec => []TypeOK
<1>1. Init => ProgressInv
  BY DEF Init, ProgressInv
<1>2. IInv /\ ProgressInv => TypeOK
  BY DEF IInv, StateTypes, ProgressInv, TypeOK
<1> QED  BY <1>1, <1>2, Invariance, StepInv, ProgressStep, PTL DEF Spec

(* The invariant implies that the slices are disjoint.                     *)
LEMMA InvDisjoint == IInv => SlicesDisjoint
<1> SUFFICES ASSUME IInv PROVE SlicesDisjoint
  OBVIOUS
<1> USE EngineAssumption
<1>0. ASSUME NEW i \in Plans
      PROVE  plan[i].slba \in Nat /\ plan[i].nlb \in Nat /\ plan[i].rnlb \in Nat
  BY DEF IInv, StateTypes, PlanRec
<1>1. ASSUME NEW i \in Plans, NEW j \in Plans, i # j
      PROVE  Slice(plan[i]) \cap Slice(plan[j]) = {}
  <2>1. CASE plan[i].nlb # 0 /\ plan[j].nlb # 0
    BY <1>0, <1>1, <2>1, SlicesApart DEF Slice, Before
  <2>2. CASE plan[i].nlb = 0 \/ plan[j].nlb = 0
    BY <1>0, <2>2 DEF Slice
  <2> QED  BY <2>1, <2>2
<1>2. ASSUME NEW i \in Plans
      PROVE  Slice(plan[i]) \subseteq Extent
  <2>1. CASE plan[i].nlb = 0
    BY <1>0, <2>1 DEF Slice
  <2>2. CASE plan[i].nlb # 0
    BY <1>0, <2>2, SlicePlace DEF Slice, Extent
  <2> QED  BY <2>1, <2>2
<1>3. ASSUME NEW i \in Plans
      PROVE  Slice(plan[i]) \cap Todo = {}
  <2>1. CASE Sequential
    <3>1. cursor.lba \in Nat /\ cursor.rnlb \in Nat
          /\ (plan[i].nlb # 0 => plan[i].slba + plan[i].nlb <= cursor.lba)
      BY <2>1 DEF IInv, StateTypes, SharedInv
    <3> QED  BY <1>0, <2>1, <3>1 DEF Slice, Todo
  <2>2. CASE ~Sequential /\ ~Scheduled
    <3>1. plan[i].nlb = 0
      BY <2>2 DEF IInv, PhaseInv, NoPlan, NewPlan
    <3> QED  BY <1>0, <3>1 DEF Slice
  <2>3. CASE ~Sequential /\ Scheduled
    <3>1. ASSUME NEW k \in Plans
          PROVE  /\ Slba + Begin(k) <= plan[k].slba
                 /\ plan[k].slba + plan[k].rnlb = Slba + End(k)
                 /\ plan[k].nlb <= plan[k].rnlb
                 /\ Begin(k) \in Nat /\ End(k) \in Nat
      BY <2>3, PlanParts DEF IInv, OwnInv
    <3>2. ASSUME NEW j \in Plans
          PROVE  Slice(plan[i]) \cap
                   ((plan[j].slba + plan[j].nlb) .. (plan[j].slba + plan[j].rnlb - 1)) = {}
      <4>1. CASE i = j
        BY <1>0, <4>1 DEF Slice
      <4>2. CASE i < j
        <5>1. End(i) <= Begin(j)
          BY <4>2, PlanParts
        <5> QED  BY <1>0, <3>1, <5>1 DEF Slice
      <4>3. CASE j < i
        <5>1. End(j) <= Begin(i)
          BY <4>3, PlanParts
        <5> QED  BY <1>0, <3>1, <5>1 DEF Slice
      <4> QED  BY <4>1, <4>2, <4>3, PlanParts
    <3> QED  BY <2>3, <3>2 DEF Todo
  <2> QED  BY <2>1, <2>2, <2>3
<1>4. Todo \subseteq Extent
  <2>1. CASE Sequential
    BY <2>1 DEF IInv, StateTypes, SharedInv, Todo, Extent
  <2>2. CASE ~Sequential /\ ~Scheduled
    BY <2>2 DEF Todo
  <2>3. CASE ~Sequential /\ Scheduled
    <3>1. ASSUME NEW k \in Plans
          PROVE  ((plan[k].slba + plan[k].nlb) .. (plan[k].slba + plan[k].rnlb - 1)) \subseteq Extent
      <4>1. /\ Slba + Begin(k) <= plan[k].slba
            /\ plan[k].slba + plan[k].rnlb = Slba + End(k)
            /\ plan[k].nlb <= plan[k].rnlb
            /\ Begin(k) \in Nat /\ End(k) \in Nat /\ End(k) <= Nlb
        BY <2>3, PlanParts DEF IInv, OwnInv
      <4> QED  BY <1>0, <4>1 DEF Extent
    <3> QED  BY <2>3, <3>1 DEF Todo
  <2> QED  BY <2>1, <2>2, <2>3
<1> QED  BY <1>1, <1>2, <1>3, <1>4 DEF SlicesDisjoint, InFlight

(* Theorem: the slices two plans work on never overlap, lie in the range   *)
(* and are no longer waiting, for every range, queue depth and buffer.     *)
THEOREM Disjointness == Spec => []SlicesDisjoint
BY InvDisjoint, Invariance, PTL
-----------------------------------------------------------------------------
(* The blocks a plan may still take: the rest of its own part, or what the *)
(* shared cursor has.                                                      *)
Remains(p) == IF Sequential THEN cursor.rnlb ELSE p.rnlb - p.nlb

(* Every field of the plan that next_plan() leaves behind.                 *)
LEMMA NextFields ==
  ASSUME NEW p \in PlanRec, cursor \in [lba : Nat, rnlb : Nat]
  PROVE  /\ NextSlice(p).slba = IF Sequential THEN cursor.lba ELSE p.slba + p.nlb
         /\ NextSlice(p).nlb = LesserOf(Remains(p), NlbPerBuf)
         /\ NextSlice(p).rnlb = IF Sequential THEN p.rnlb ELSE p.rnlb - p.nlb
         /\ NextSlice(p).starting = (p.starting \/ Remains(p) # 0)
         /\ NextSlice(p).ppflag = IF Remains(p) # 0 THEN ~p.ppflag ELSE p.ppflag
<1> DEFINE left == Remains(p)
           len  == LesserOf(left, NlbPerBuf)
           flag == IF left # 0 THEN ~p.ppflag ELSE p.ppflag
           on   == p.starting \/ left # 0
           at   == IF Sequential THEN cursor.lba ELSE p.slba + p.nlb
           rest == IF Sequential THEN p.rnlb ELSE p.rnlb - p.nlb
<1>1. CASE Sequential
  <2>1. NextSlice(p) = [p EXCEPT !.slba = at, !.nlb = len, !.ppflag = flag, !.starting = on]
    BY <1>1 DEF NextSlice, NextSharedSlice, Remains
  <2>2. rest = p.rnlb
    BY <1>1
  <2> HIDE DEF left, len, flag, on, at, rest
  <2>3. NextSlice(p) = [slba |-> at, nlb |-> len, rnlb |-> rest, starting |-> on, ppflag |-> flag]
    BY <2>1, <2>2 DEF PlanRec
  <2>4. /\ NextSlice(p).slba = at /\ NextSlice(p).nlb = len /\ NextSlice(p).rnlb = rest
        /\ NextSlice(p).starting = on /\ NextSlice(p).ppflag = flag
    BY <2>3
  <2> QED  BY <2>4, Zenon DEF left, len, flag, on, at, rest
<1>2. CASE ~Sequential
  <2>1. NextSlice(p) = [p EXCEPT !.slba = at, !.rnlb = rest, !.nlb = len,
                                 !.ppflag = flag, !.starting = on]
    BY <1>2 DEF NextSlice, NextOwnSlice, Remains
  <2> HIDE DEF left, len, flag, on, at, rest
  <2>2. NextSlice(p) = [slba |-> at, nlb |-> len, rnlb |-> rest, starting |-> on, ppflag |-> flag]
    BY <2>1 DEF PlanRec
  <2>3. /\ NextSlice(p).slba = at /\ NextSlice(p).nlb = len /\ NextSlice(p).rnlb = rest
        /\ NextSlice(p).starting = on /\ NextSlice(p).ppflag = flag
    BY <2>2
  <2> QED  BY <2>3, Zenon DEF left, len, flag, on, at, rest
<1> QED  BY <1>1, <1>2

(* A slice is taken exactly when there are blocks for it.                  *)
LEMMA RemainsFacts ==
  ASSUME IInv, Scheduled, NEW i \in Plans
  PROVE  /\ Remains(plan[i]) \in Nat
         /\ NextSlice(plan[i]).nlb \in Nat
         /\ NextSlice(plan[i]).nlb <= Remains(plan[i])
         /\ NextSlice(plan[i]).nlb <= NlbPerBuf
         /\ NextSlice(plan[i]).nlb = 0 <=> Remains(plan[i]) = 0
<1> USE EngineAssumption
<1>1. plan[i] \in PlanRec /\ cursor \in [lba : Nat, rnlb : Nat]
  BY DEF IInv, StateTypes
<1>2. Remains(plan[i]) \in Nat
  <2>1. plan[i].nlb \in Nat /\ plan[i].rnlb \in Nat /\ cursor.rnlb \in Nat
    BY <1>1 DEF PlanRec
  <2>2. CASE Sequential
    BY <2>1, <2>2 DEF Remains
  <2>3. CASE ~Sequential
    BY <2>1, <2>3 DEF Remains, IInv, OwnInv
  <2> QED  BY <2>2, <2>3
<1>3. NextSlice(plan[i]).nlb = LesserOf(Remains(plan[i]), NlbPerBuf)
  BY <1>1, NextFields
<1> QED  BY <1>2, <1>3 DEF LesserOf

(* What a request must have come to before its plan moves on.              *)
LEMMA GoodStatus ==
  ASSUME IInv, NEW i \in Plans, Finished(i), CompletionStatus(i) = "ok"
  PROVE  plan[i].starting => aio[i] \in {"none", "ok"}
<1>1. aio[i] \in RequestState
  BY DEF IInv, StateTypes
<1> QED  BY <1>1 DEF Finished, CompletionStatus, RequestState

(* The effect of the submission of a slice.                                *)
LEMMA IssueEffect ==
  ASSUME IInv, IssueNext
  PROVE  /\ idx \in Plans /\ idx + 1 \in 0 .. NumPlans
         /\ pc = "scan" /\ Scheduled /\ Scheduled' /\ statusCode' = statusCode
         /\ plan[idx].starting => aio[idx] \in {"none", "ok"}
         /\ CompletionStatus(idx) = "ok"
         /\ Remains(plan[idx]) # 0
         /\ plan' = [plan EXCEPT ![idx] = NextSlice(plan[idx])]
         /\ plan'[idx] = NextSlice(plan[idx])
         /\ \A k \in Plans : k # idx => plan'[k] = plan[k]
         /\ cursor' = IF Sequential THEN AdvanceCursor(NextSlice(plan[idx])) ELSE cursor
         /\ aio'[idx] \in {"busy", "none"} /\ ("submit" \notin Faults => aio'[idx] = "busy")
         /\ \A k \in Plans : k # idx => aio'[k] = aio[k]
         /\ IF Kind = "fill" /\ ~Sequential THEN pc' = "prefill" /\ idx' = idx
                                            ELSE pc' = "scan" /\ idx' = idx + 1
         /\ stop' = FALSE /\ disk' = disk
<1>1. idx \in Plans /\ idx + 1 \in 0 .. NumPlans /\ pc = "scan" /\ Scheduled
  BY ScanIndex, ScanningScheduled DEF IssueNext, Scanning
<1>2. plan[idx].starting => aio[idx] \in {"none", "ok"}
  BY <1>1, GoodStatus DEF IssueNext
<1>3. Remains(plan[idx]) # 0
  BY <1>1, RemainsFacts DEF IssueNext
<1>4. plan \in [Plans -> PlanRec] /\ aio \in [Plans -> RequestState]
  BY DEF IInv, StateTypes
<1>5. /\ plan' = [plan EXCEPT ![idx] = NextSlice(plan[idx])]
      /\ cursor' = IF Sequential THEN AdvanceCursor(NextSlice(plan[idx])) ELSE cursor
      /\ CompletionStatus(idx) = "ok"
      /\ stop' = FALSE /\ disk' = disk /\ statusCode' = statusCode
  BY DEF IssueNext, resultVars
<1>6. IF Kind = "fill" /\ ~Sequential THEN pc' = "prefill" /\ idx' = idx
                                      ELSE pc' = "scan" /\ idx' = idx + 1
  BY <1>1 DEF IssueNext
<1>7. Scheduled'
  BY <1>1, <1>5, <1>6 DEF Scheduled
<1>8. /\ plan'[idx] = NextSlice(plan[idx])
      /\ \A k \in Plans : k # idx => plan'[k] = plan[k]
  BY <1>1, <1>4, <1>5
<1>9. \/ aio' = [aio EXCEPT ![idx] = "busy"]
      \/ "submit" \in Faults /\ aio' = [aio EXCEPT ![idx] = "none"]
  BY DEF IssueNext
<1>10. /\ aio'[idx] \in {"busy", "none"} /\ ("submit" \notin Faults => aio'[idx] = "busy")
       /\ \A k \in Plans : k # idx => aio'[k] = aio[k]
  BY <1>1, <1>4, <1>9
<1> QED  BY <1>1, <1>2, <1>3, <1>5, <1>6, <1>7, <1>8, <1>10

(* The effect of finding that a plan has nothing left.                     *)
LEMMA ExhaustEffect ==
  ASSUME IInv, PlanExhausted
  PROVE  /\ idx \in Plans /\ idx + 1 \in 0 .. NumPlans /\ idx' = idx + 1
         /\ pc = "scan" /\ Scheduled /\ Scheduled'
         /\ plan[idx].starting => aio[idx] \in {"none", "ok"}
         /\ CompletionStatus(idx) = "ok"
         /\ Remains(plan[idx]) = 0 /\ NextSlice(plan[idx]).nlb = 0
         /\ plan' = [plan EXCEPT ![idx] = NextSlice(plan[idx])]
         /\ plan'[idx] = NextSlice(plan[idx])
         /\ \A k \in Plans : k # idx => plan'[k] = plan[k]
         /\ cursor' = IF Sequential THEN AdvanceCursor(NextSlice(plan[idx])) ELSE cursor
         /\ UNCHANGED <<cursor, aio, buffer, disk, pc, stop, statusCode, failLBA>>
<1>1. idx \in Plans /\ idx + 1 \in 0 .. NumPlans /\ pc = "scan" /\ Scheduled
  BY ScanIndex, ScanningScheduled DEF PlanExhausted, Scanning
<1>2. plan[idx].starting => aio[idx] \in {"none", "ok"}
  BY <1>1, GoodStatus DEF PlanExhausted
<1>3. /\ plan' = [plan EXCEPT ![idx] = NextSlice(plan[idx])]
      /\ CompletionStatus(idx) = "ok" /\ NextSlice(plan[idx]).nlb = 0
      /\ idx' = idx + 1
      /\ UNCHANGED <<cursor, aio, buffer, disk, pc, stop, statusCode, failLBA>>
  BY DEF PlanExhausted, requestVars, resultVars
<1>4. Remains(plan[idx]) = 0
  BY <1>1, <1>3, RemainsFacts
<1>5. /\ plan'[idx] = NextSlice(plan[idx])
      /\ \A k \in Plans : k # idx => plan'[k] = plan[k]
  BY <1>1, <1>3 DEF IInv, StateTypes
<1>6. cursor' = IF Sequential THEN AdvanceCursor(NextSlice(plan[idx])) ELSE cursor
  <2>1. cursor \in [lba : Nat, rnlb : Nat]
    BY DEF IInv, StateTypes
  <2>2. AdvanceCursor(NextSlice(plan[idx])) = cursor
    BY <1>3, <2>1 DEF AdvanceCursor
  <2> QED  BY <1>3, <2>2
<1>7. Scheduled'
  BY <1>1, <1>3 DEF Scheduled
<1> QED  BY <1>1, <1>2, <1>3, <1>4, <1>5, <1>6, <1>7

(* The effect of the end of a request: nothing but its state, its buffer   *)
(* and the disk.                                                           *)
LEMMA RequestEffect ==
  ASSUME IInv, NEW i \in Plans, Request(i)
  PROVE  /\ aio[i] = "busy" /\ aio'[i] \in {"ok", "failed"}
         /\ \A k \in Plans : k # i => aio'[k] = aio[k]
         /\ UNCHANGED <<plan, cursor, pc, idx, stop, statusCode, failLBA>>
<1>1. \E result \in {"ok", "failed"} : \E n : Finish(i, n, result)
  BY DEF Request, Complete, CompleteShort, CompleteWithError
<1>2. PICK result \in {"ok", "failed"} :
        /\ aio[i] = "busy" /\ aio' = [aio EXCEPT ![i] = result]
        /\ UNCHANGED <<plan, cursor, pc, idx, stop, statusCode, failLBA>>
  BY <1>1 DEF Finish, resultVars
<1>3. aio \in [Plans -> RequestState]
  BY DEF IInv, StateTypes
<1> QED  BY <1>2, <1>3
-----------------------------------------------------------------------------
AllStarted == \A i \in Plans : plan[i].starting

FirstPassInv ==
  /\ \A i \in Plans : ~plan[i].starting =>
       /\ plan[i].nlb = 0 /\ aio[i] = "none"
       /\ Scheduled /\ ~Sequential => plan[i].rnlb # 0
  /\ ~Scheduled => idx = 0 /\ cursor.rnlb = Nlb
  /\ pc = "scan" => \A i \in Plans : i < idx => plan[i].starting
  /\ pc = "prefill" => \A i \in Plans : i <= idx => plan[i].starting
  /\ pc \in {"scan", "prefill"} /\ ~AllStarted =>
       \A i \in Plans : idx < i \/ (pc = "scan" /\ i = idx) => ~plan[i].starting
  /\ Scheduled /\ Sequential /\ ~AllStarted => Nlb <= cursor.rnlb + idx * NlbPerBuf
  /\ pc = "cancel" => AllStarted
  /\ pc = "prefill" => Kind = "fill" /\ ~Sequential

(* At the start no plan has a slice.                                       *)
LEMMA FirstPassInit == Init => FirstPassInv
<1> SUFFICES ASSUME Init PROVE FirstPassInv
  OBVIOUS
<1>1. \A i \in Plans : plan[i] = NoPlan /\ aio[i] = "none"
  BY DEF Init
<1>2. pc = "start" /\ ~Scheduled
  BY DEF Init, Scheduled
<1>3. NoPlan.nlb = 0
  BY DEF NoPlan, NewPlan
<1>4. idx = 0 /\ cursor.rnlb = Nlb
  BY DEF Init
<1> QED  BY <1>1, <1>2, <1>3, <1>4 DEF FirstPassInv

(* The scan finds something for every plan it comes to for the first time. *)
LEMMA FirstSliceExists ==
  ASSUME IInv, FirstPassInv, Scanning, ~plan[idx].starting
  PROVE  Remains(plan[idx]) # 0
<1> USE EngineAssumption
<1>1. idx \in Plans /\ Scheduled
  BY ScanIndex, ScanningScheduled DEF Scanning
<1>2. CASE Sequential
  <2>1. idx * NlbPerBuf \in Nat /\ idx * NlbPerBuf < Nlb
    BY <1>1, PlanLoads DEF Plans, NumPlans
  <2>2. Nlb <= cursor.rnlb + idx * NlbPerBuf /\ cursor.rnlb \in Nat
    BY <1>1, <1>2 DEF FirstPassInv, AllStarted, IInv, StateTypes
  <2> HIDE DEF NumPlans
  <2> QED  BY <1>2, <2>1, <2>2 DEF Remains
<1>3. CASE ~Sequential
  BY <1>1, <1>3 DEF Remains, FirstPassInv, IInv, StateTypes, PlanRec
<1> QED  BY <1>2, <1>3

(* issue() gives every plan of the legacy family a part that is not empty. *)
LEMMA FirstPassRoutine == IInv /\ FirstPassInv /\ Routine => FirstPassInv'
<1> SUFFICES ASSUME IInv, FirstPassInv, Routine PROVE FirstPassInv'
  OBVIOUS
<1> USE EngineAssumption
<1>1. ~Scheduled /\ pc = "start"
  BY DEF Routine, Scheduled
<1>2. CASE statusCode = "ok"
  <2>1. ASSUME NEW i \in Plans
        PROVE  /\ plan'[i] = NewPlan(Slba + Begin(i), End(i) - Begin(i))
               /\ End(i) - Begin(i) # 0
    BY <1>2, PlanParts DEF Routine, Begin, End
  <2>2. pc' = "scan" /\ UNCHANGED <<cursor, aio, idx>>
    BY <1>2 DEF Routine, requestVars
  <2>3. ASSUME NEW i \in Plans
        PROVE  plan'[i].nlb = 0 /\ ~plan'[i].starting /\ plan'[i].rnlb # 0
    <3>1. \A s, n : /\ NewPlan(s, n).nlb = 0 /\ NewPlan(s, n).rnlb = n
                    /\ NewPlan(s, n).starting = FALSE
      BY DEF NewPlan
    <3> QED  BY <2>1, <3>1
  <2>4. ASSUME NEW i \in Plans
        PROVE  aio'[i] = "none"
    <3>1. plan[i] = NoPlan
      BY <1>1 DEF IInv, PhaseInv
    <3>2. ~plan[i].starting
      BY <3>1 DEF NoPlan, NewPlan
    <3> QED  BY <2>2, <3>2 DEF FirstPassInv
  <2>5. idx' = 0 /\ cursor'.rnlb = Nlb
    BY <1>1, <2>2 DEF FirstPassInv
  <2>6. \A i \in Plans : ~ (i < 0)
    BY PlanParts
  <2> QED  BY <2>2, <2>3, <2>4, <2>5, <2>6 DEF FirstPassInv, Scheduled
<1>3. CASE statusCode # "ok"
  <2>1. pc' = "returned" /\ UNCHANGED <<plan, cursor, aio, idx, statusCode>>
    BY <1>3 DEF Routine, requestVars, resultVars
  <2>2. statusCode = "ctor"
    BY <1>1, <1>3 DEF IInv, PhaseInv
  <2>3. ~Scheduled'
    BY <2>1, <2>2 DEF Scheduled
  <2> QED  BY <1>1, <2>1, <2>3 DEF FirstPassInv, AllStarted
<1> QED  BY <1>2, <1>3

(* The scan goes on to the next plan, which had a slice at its turn.       *)
LEMMA FirstPassScan ==
  ASSUME IInv, FirstPassInv, Scheduled, Scheduled', idx \in Plans, pc = "scan",
         \A k \in Plans : k # idx => plan'[k] = plan[k] /\ aio'[k] = aio[k],
         plan'[idx].starting,
         \/ pc' = "scan" /\ idx' = idx + 1
         \/ pc' = "prefill" /\ idx' = idx /\ Kind = "fill" /\ ~Sequential,
         Sequential => Nlb <= cursor'.rnlb + idx' * NlbPerBuf \/ AllStarted,
         ~Sequential => \A k \in Plans : k # idx => plan'[k].rnlb = plan[k].rnlb
  PROVE  FirstPassInv'
<1> USE PlanParts
<1>1. ASSUME NEW i \in Plans, ~plan'[i].starting
      PROVE  /\ plan'[i].nlb = 0 /\ aio'[i] = "none"
             /\ ~Sequential => plan'[i].rnlb # 0
             /\ idx < i
  <2>1. i # idx /\ ~plan[i].starting /\ plan'[i] = plan[i] /\ aio'[i] = aio[i]
    BY <1>1
  <2>2. ~ (i < idx) /\ plan[i].nlb = 0 /\ aio[i] = "none" /\ (~Sequential => plan[i].rnlb # 0)
    BY <2>1 DEF FirstPassInv
  <2>3. i \in Nat /\ idx \in Nat
    OBVIOUS
  <2> QED  BY <2>1, <2>2, <2>3
<1>2. ASSUME ~AllStarted'
      PROVE  \A i \in Plans : idx < i => ~plan'[i].starting
  <2>1. ~AllStarted
    BY <1>2, <1>1 DEF AllStarted
  <2> QED  BY <2>1 DEF FirstPassInv
<1>3. AllStarted => AllStarted'
  BY DEF AllStarted
<1> QED  BY <1>1, <1>2, <1>3 DEF FirstPassInv

(* The invariant is kept by the scan.                                      *)
LEMMA FirstPassIssue == IInv /\ FirstPassInv /\ IssueNext => FirstPassInv'
<1> SUFFICES ASSUME IInv, FirstPassInv, IssueNext PROVE FirstPassInv'
  OBVIOUS
<1> USE EngineAssumption
<1> DEFINE q == NextSlice(plan[idx])
<1>1. plan[idx] \in PlanRec /\ cursor \in [lba : Nat, rnlb : Nat] /\ NumPlans \in Nat
      /\ idx \in Plans
  BY IssueEffect, PlanParts DEF IInv, StateTypes
<1>2. plan'[idx].starting
  BY <1>1, IssueEffect, NextFields
<1>3. ASSUME Sequential, ~AllStarted
      PROVE  Nlb <= cursor'.rnlb + idx' * NlbPerBuf
  <2>1. cursor'.rnlb = cursor.rnlb - q.nlb /\ idx' = idx + 1
    BY <1>3, IssueEffect DEF AdvanceCursor
  <2>2. q.nlb \in Nat /\ q.nlb <= NlbPerBuf /\ cursor.rnlb \in Nat
    BY <1>1, IssueEffect, RemainsFacts
  <2>3. Nlb <= cursor.rnlb + idx * NlbPerBuf
    BY <1>3, IssueEffect DEF FirstPassInv
  <2>4. idx \in Nat /\ idx * NlbPerBuf \in Nat /\ (idx + 1) * NlbPerBuf = idx * NlbPerBuf + NlbPerBuf
    BY <1>1, PlanParts, ProductStep
  <2> HIDE DEF q
  <2> QED  BY <2>1, <2>2, <2>3, <2>4
<1> QED  BY <1>1, <1>2, <1>3, IssueEffect, FirstPassScan

(* The scan finds nothing for a plan only after every plan had a slice.    *)
LEMMA FirstPassExhausted == IInv /\ FirstPassInv /\ PlanExhausted => FirstPassInv'
<1> SUFFICES ASSUME IInv, FirstPassInv, PlanExhausted PROVE FirstPassInv'
  OBVIOUS
<1>1. idx \in Plans /\ plan[idx] \in PlanRec /\ cursor \in [lba : Nat, rnlb : Nat]
  BY ExhaustEffect DEF IInv, StateTypes
<1>2. plan[idx].starting
  BY ExhaustEffect, FirstSliceExists DEF PlanExhausted
<1>3. plan'[idx].starting
  BY <1>1, <1>2, ExhaustEffect, NextFields
<1>4. AllStarted
  BY <1>1, <1>2, ExhaustEffect DEF FirstPassInv
<1> QED  BY <1>3, <1>4, ExhaustEffect, FirstPassScan

(* The invariant is kept by every step.                                    *)
LEMMA FirstPassStep == IInv /\ FirstPassInv /\ [Next]_vars => FirstPassInv'
<1> SUFFICES ASSUME IInv, FirstPassInv, [Next]_vars PROVE FirstPassInv'
  OBVIOUS
<1> USE EngineAssumption
<1>0. NumPlans \in Nat /\ Plans = 0 .. (NumPlans - 1) /\ idx \in 0 .. NumPlans
  BY PlanParts DEF Plans, IInv, StateTypes
<1> HIDE DEF NumPlans
<1>1. CASE Routine
  BY <1>1, FirstPassRoutine
<1>2. CASE StillRunning
  <2>1. idx \in Plans /\ pc = "scan" /\ Scheduled /\ plan[idx].starting
    BY <1>2, ScanIndex, ScanningScheduled DEF StillRunning, Scanning, Finished
  <2>2. idx' = idx + 1 /\ UNCHANGED <<plan, cursor, aio, pc, statusCode>>
    BY <1>2 DEF StillRunning, requestVars, resultVars
  <2>3. AllStarted
    BY <2>1 DEF FirstPassInv
  <2> QED  BY <2>1, <2>2, <2>3, FirstPassScan DEF Scheduled
<1>3. CASE IssueNext
  BY <1>3, FirstPassIssue
<1>4. CASE PreFill
  <2>1. idx' = idx + 1 /\ pc = "prefill" /\ pc' = "scan" /\ UNCHANGED <<plan, cursor, aio, statusCode>>
    BY <1>4 DEF PreFill, resultVars
  <2>2. ~Sequential
    BY <2>1 DEF FirstPassInv
  <2>3. Scheduled /\ Scheduled'
    BY <2>1, ScanningScheduled DEF Scheduled
  <2> QED  BY <1>0, <2>1, <2>2, <2>3 DEF FirstPassInv, AllStarted
<1>5. CASE PlanExhausted
  BY <1>5, FirstPassExhausted
<1>6. CASE PlanFailed
  <2>1. idx \in Plans /\ pc = "scan" /\ Scheduled
    BY <1>6, ScanIndex, ScanningScheduled DEF PlanFailed, Scanning
  <2>2. plan[idx].starting
    BY <1>6 DEF PlanFailed, CompletionStatus
  <2>3. AllStarted
    BY <2>1, <2>2 DEF FirstPassInv
  <2>4. pc' = "cancel" /\ UNCHANGED <<plan, cursor, aio>> /\ statusCode' # "ctor"
    BY <1>6 DEF PlanFailed, requestVars, CompletionStatus
  <2> QED  BY <2>1, <2>3, <2>4 DEF FirstPassInv, AllStarted, Scheduled
<1>7. CASE CancelPlan
  <2>1. pc = "cancel" /\ AllStarted /\ UNCHANGED <<plan, pc, cursor, statusCode>> /\ Scheduled
    BY <1>7, ScanningScheduled DEF CancelPlan, FirstPassInv, resultVars
  <2> QED  BY <2>1 DEF FirstPassInv, AllStarted, Scheduled
<1>8. CASE EndPass
  <2>1. idx = NumPlans /\ pc \in {"scan", "cancel"} /\ Scheduled
    BY <1>8, ScanningScheduled DEF EndPass
  <2>2. AllStarted
    BY <1>0, <2>1 DEF FirstPassInv, AllStarted
  <2>3. pc' \in {"scan", "returned"} /\ UNCHANGED <<plan, cursor, aio, statusCode>>
    BY <1>8 DEF EndPass, requestVars, resultVars
  <2>4. Scheduled'
    BY <2>1, <2>3 DEF Scheduled
  <2> QED  BY <2>1, <2>2, <2>3, <2>4 DEF FirstPassInv, AllStarted
<1>9. CASE \E i \in Plans : Request(i)
  <2>1. PICK i \in Plans : Request(i)
    BY <1>9
  <2>2. /\ aio[i] = "busy" /\ \A k \in Plans : k # i => aio'[k] = aio[k]
        /\ UNCHANGED <<plan, cursor, pc, idx, statusCode>>
    BY <2>1, RequestEffect
  <2>3. \A k \in Plans : ~plan'[k].starting => aio'[k] = "none"
    BY <2>2 DEF FirstPassInv
  <2> QED  BY <2>2, <2>3 DEF FirstPassInv, AllStarted, Scheduled
<1>10. CASE UNCHANGED vars
  BY <1>10 DEF vars, FirstPassInv, AllStarted, Scheduled
<1> QED  BY <1>1, <1>2, <1>3, <1>4, <1>5, <1>6, <1>7, <1>8, <1>9, <1>10 DEF Next, Engine

(* Theorem: cancel() is only entered once every plan has been given a      *)
(* slice, so that every handler it looks at has its buffer assigned.       *)
THEOREM HandlersAssigned == Spec => []CancelSeesAssignedHandlers
<1>1. FirstPassInv => CancelSeesAssignedHandlers
  BY DEF FirstPassInv, AllStarted, CancelSeesAssignedHandlers
<1> QED  BY <1>1, FirstPassInit, FirstPassStep, Invariance, PTL DEF Spec
-----------------------------------------------------------------------------
(* The engine as a RangeJob.                                               *)
Tail(p) == (p.slba + p.nlb) .. (p.slba + p.rnlb - 1)

(* In the legacy family the plans' parts stay apart, and what a plan works *)
(* on and has left is inside its part.                                     *)
LEMMA PartsApart ==
  ASSUME IInv, Scheduled, ~Sequential, NEW i \in Plans, NEW j \in Plans
  PROVE  /\ i # j => (Slice(plan[i]) \cup Tail(plan[i])) \cap Tail(plan[j]) = {}
         /\ Slice(plan[i]) \cap Tail(plan[i]) = {}
<1> USE EngineAssumption
<1>1. ASSUME NEW k \in Plans
      PROVE  /\ plan[k].slba \in Nat /\ plan[k].nlb \in Nat /\ plan[k].rnlb \in Nat
             /\ Begin(k) \in Nat /\ End(k) \in Nat
             /\ Slba + Begin(k) <= plan[k].slba
             /\ plan[k].slba + plan[k].rnlb = Slba + End(k)
             /\ plan[k].nlb <= plan[k].rnlb
  BY PlanParts DEF IInv, OwnInv, StateTypes, PlanRec
<1>2. Slice(plan[i]) \cap Tail(plan[i]) = {}
  BY <1>1 DEF Slice, Tail
<1>3. ASSUME i < j
      PROVE  (Slice(plan[i]) \cup Tail(plan[i])) \cap Tail(plan[j]) = {}
  <2>1. End(i) <= Begin(j)
    BY <1>3, PlanParts
  <2> QED  BY <1>1, <2>1 DEF Slice, Tail
<1>4. ASSUME j < i
      PROVE  (Slice(plan[i]) \cup Tail(plan[i])) \cap Tail(plan[j]) = {}
  <2>1. End(j) <= Begin(i)
    BY <1>4, PlanParts
  <2> QED  BY <1>1, <2>1 DEF Slice, Tail
<1>5. i < j \/ j < i \/ i = j
  BY PlanParts
<1> QED  BY <1>2, <1>3, <1>4, <1>5

(* An interval without its beginning.                                      *)
LEMMA IntervalSplit ==
  ASSUME NEW a \in Nat, NEW n \in Nat, NEW m \in Nat, n <= m
  PROVE  /\ a .. (a + n - 1) \subseteq a .. (a + m - 1)
         /\ (a + n) .. (a + n + (m - n) - 1) = (a .. (a + m - 1)) \ (a .. (a + n - 1))
OBVIOUS

(* A plan that takes up its next slice: the old one has been dealt with,   *)
(* the new one was waiting, and no other block is touched.                 *)
LEMMA SliceTaken ==
  ASSUME IInv, Scheduled, Scheduled', NEW i \in Plans,
         plan' = [plan EXCEPT ![i] = NextSlice(plan[i])],
         cursor' = IF Sequential THEN AdvanceCursor(NextSlice(plan[i])) ELSE cursor
  PROVE  /\ Slice(plan[i]) \subseteq InFlight
         /\ Slice(plan'[i]) \subseteq Todo
         /\ Todo' = Todo \ Slice(plan'[i])
         /\ InFlight' = (InFlight \ Slice(plan[i])) \cup Slice(plan'[i])
         /\ Done' = Done \cup Slice(plan[i])
<1> USE EngineAssumption
<1> DEFINE p == plan[i]
           q == NextSlice(p)
<1>1. /\ plan \in [Plans -> PlanRec] /\ p \in PlanRec /\ cursor \in [lba : Nat, rnlb : Nat]
      /\ q \in PlanRec /\ SlicesDisjoint
  BY TakeSlice, InvDisjoint DEF IInv, StateTypes
<1>2. /\ p.slba \in Nat /\ p.nlb \in Nat /\ p.rnlb \in Nat
      /\ q.slba \in Nat /\ q.nlb \in Nat /\ q.rnlb \in Nat
      /\ cursor.lba \in Nat /\ cursor.rnlb \in Nat
  BY <1>1 DEF PlanRec
<1>3. plan'[i] = q /\ \A k \in Plans : k # i => plan'[k] = plan[k]
  BY <1>1
<1>4. /\ q.slba = IF Sequential THEN cursor.lba ELSE p.slba + p.nlb
      /\ q.rnlb = IF Sequential THEN p.rnlb ELSE p.rnlb - p.nlb
      /\ q.nlb <= Remains(p) /\ Remains(p) \in Nat
  BY <1>1, NextFields, RemainsFacts
<1>5. cursor' = IF Sequential THEN [lba |-> cursor.lba + q.nlb, rnlb |-> cursor.rnlb - q.nlb]
                ELSE cursor
  BY DEF AdvanceCursor
<1> HIDE DEF p, q
<1>6. Slice(p) \subseteq InFlight /\ InFlight' = (InFlight \ Slice(p)) \cup Slice(q)
  <2>1. \A k \in Plans : k # i => Slice(plan[k]) \cap Slice(p) = {}
    BY <1>1 DEF SlicesDisjoint, p
  <2>2. \A k \in Plans : Slice(plan'[k]) = IF k = i THEN Slice(q) ELSE Slice(plan[k])
    BY <1>3
  <2>3. InFlight' = UNION {Slice(plan'[k]) : k \in Plans}
    BY DEF InFlight, Slice
  <2>4. Slice(p) = Slice(plan[i])
    BY DEF p
  <2> QED  BY <2>1, <2>2, <2>3, <2>4 DEF InFlight
<1>7. Slice(q) \subseteq Todo /\ Todo' = Todo \ Slice(q)
  <2>1. CASE Sequential
    <3>1. Todo = cursor.lba .. (cursor.lba + cursor.rnlb - 1)
      BY <2>1 DEF Todo
    <3>2. Todo' = (cursor.lba + q.nlb) .. (cursor.lba + q.nlb + (cursor.rnlb - q.nlb) - 1)
      BY <1>5, <2>1 DEF Todo
    <3>3. Slice(q) = cursor.lba .. (cursor.lba + q.nlb - 1) /\ q.nlb <= cursor.rnlb
      BY <1>4, <2>1 DEF Slice, Remains
    <3> DEFINE n == q.nlb
               a == cursor.lba
               m == cursor.rnlb
    <3>4. a \in Nat /\ m \in Nat /\ n \in Nat /\ n <= m
      BY <1>2, <3>3
    <3> HIDE DEF a, m, n
    <3>5. /\ a .. (a + n - 1) \subseteq a .. (a + m - 1)
          /\ (a + n) .. (a + n + (m - n) - 1) = (a .. (a + m - 1)) \ (a .. (a + n - 1))
      BY <3>4, IntervalSplit
    <3> QED  BY <3>1, <3>2, <3>3, <3>5 DEF a, m, n
  <2>2. CASE ~Sequential
    <3>1. Todo = UNION {Tail(plan[k]) : k \in Plans} /\ Todo' = UNION {Tail(plan'[k]) : k \in Plans}
      BY <2>2 DEF Todo, Tail
    <3>2. Slice(q) \subseteq Tail(p) /\ Tail(q) = Tail(p) \ Slice(q)
      <4>1. q.slba = p.slba + p.nlb /\ q.rnlb = p.rnlb - p.nlb /\ q.nlb <= p.rnlb - p.nlb
        BY <1>4, <2>2 DEF Remains
      <4> QED  BY <1>2, <4>1 DEF Slice, Tail
    <3>3. \A k \in Plans : k # i => Tail(p) \cap Tail(plan[k]) = {}
      BY <2>2, PartsApart DEF p
    <3>4. \A k \in Plans : Tail(plan'[k]) = IF k = i THEN Tail(q) ELSE Tail(plan[k])
      BY <1>3
    <3>5. Tail(p) = Tail(plan[i])
      BY DEF p
    <3> QED  BY <3>1, <3>2, <3>3, <3>4, <3>5
  <2> QED  BY <2>1, <2>2
<1>8. Done' = Done \cup Slice(p)
  <2>1. InFlight \cap Todo = {} /\ InFlight \subseteq Extent /\ Todo \subseteq Extent
    BY <1>1 DEF SlicesDisjoint
  <2>2. Extent' = Extent
    BY DEF Extent
  <2>3. Done' = Extent \ (Todo' \cup InFlight')
    BY DEF Done, Extent
  <2>4. Slice(q) \cap Slice(p) = {}
    BY <1>6, <1>7, <2>1
  <2> QED  BY <1>6, <1>7, <2>1, <2>3, <2>4 DEF Done
<1> QED  BY <1>3, <1>6, <1>7, <1>8 DEF p
-----------------------------------------------------------------------------
(* Before the plans are made everything waits.                             *)
LEMMA NothingTakenUp ==
  ASSUME IInv, FirstPassInv, ~Scheduled
  PROVE  Todo = Extent /\ InFlight = {} /\ Done = {}
<1> USE EngineAssumption
<1>1. \A i \in Plans : plan[i].slba = 0 /\ plan[i].nlb = 0
  BY DEF IInv, PhaseInv, NoPlan, NewPlan
<1>2. InFlight = {}
  BY <1>1 DEF InFlight, Slice
<1>3. Todo = Extent
  <2>1. CASE Sequential
    <3>1. cursor.lba \in Nat /\ cursor.rnlb = Nlb /\ cursor.lba + cursor.rnlb = Slba + Nlb
      BY <2>1 DEF IInv, StateTypes, SharedInv, FirstPassInv
    <3> QED  BY <2>1, <3>1 DEF Todo, Extent
  <2>2. CASE ~Sequential
    BY <2>2 DEF Todo
  <2> QED  BY <2>1, <2>2
<1> QED  BY <1>2, <1>3 DEF Done

(* issue() leaves every block of the range waiting: the parts it makes     *)
(* cover the range.                                                        *)
LEMMA PartsCover ==
  ASSUME IInv, FirstPassInv, Routine, statusCode = "ok"
  PROVE  Todo' = Extent /\ InFlight' = {} /\ Done' = {}
<1> USE EngineAssumption
<1>1. /\ \A i \in Plans : plan'[i] = NewPlan(Slba + Begin(i), End(i) - Begin(i))
      /\ pc' = "scan" /\ UNCHANGED <<cursor, statusCode>> /\ ~Scheduled
  BY PlanParts DEF Routine, Begin, End, resultVars, Scheduled
<1>2. ASSUME NEW i \in Plans
      PROVE  plan'[i].slba = Slba + Begin(i) /\ plan'[i].nlb = 0 /\ plan'[i].rnlb = End(i) - Begin(i)
  <2>1. \A s, n : NewPlan(s, n).slba = s /\ NewPlan(s, n).nlb = 0 /\ NewPlan(s, n).rnlb = n
    BY DEF NewPlan
  <2> QED  BY <1>1, <2>1
<1>3. InFlight' = {}
  <2>1. ASSUME NEW i \in Plans
        PROVE  Slice(plan'[i]) = {}
    BY <1>2, PlanParts DEF Slice
  <2>2. InFlight' = UNION {Slice(plan'[i]) : i \in Plans}
    BY DEF InFlight, Slice
  <2> QED  BY <2>1, <2>2
<1>4. Todo' = Extent
  <2>1. CASE Sequential
    <3>1. Todo = Extent
      BY <1>1, NothingTakenUp
    <3> QED  BY <1>1, <2>1, <3>1 DEF Todo
  <2>2. CASE ~Sequential
    <3>1. Todo' = UNION {Tail(plan'[i]) : i \in Plans}
      BY <1>1, <2>2 DEF Todo, Tail, Scheduled
    <3>2. ASSUME NEW i \in Plans
          PROVE  Tail(plan'[i]) = (Slba + Begin(i)) .. (Slba + End(i) - 1)
      <4>1. Begin(i) \in Nat /\ End(i) \in Nat
        BY PlanParts
      <4> QED  BY <1>2, <4>1 DEF Tail
    <3>3. ASSUME NEW l \in Extent
          PROVE  \E i \in Plans : l \in (Slba + Begin(i)) .. (Slba + End(i) - 1)
      <4>1. l - Slba \in 0 .. (Nlb - 1) /\ l \in Int
        BY DEF Extent
      <4>2. PICK i \in Plans : Begin(i) <= l - Slba /\ l - Slba < End(i)
        BY <4>1, PlanOfBlock DEF Plans, NumPlans, Begin, End
      <4>3. Begin(i) \in Nat /\ End(i) \in Nat
        BY PlanParts
      <4> QED  BY <4>1, <4>2, <4>3
    <3>4. ASSUME NEW i \in Plans
          PROVE  (Slba + Begin(i)) .. (Slba + End(i) - 1) \subseteq Extent
      <4>1. Begin(i) \in Nat /\ End(i) \in Nat /\ End(i) <= Nlb
        BY PlanParts
      <4> QED  BY <4>1 DEF Extent
    <3>5. Todo' = UNION {(Slba + Begin(i)) .. (Slba + End(i) - 1) : i \in Plans}
      BY <3>1, <3>2
    <3> QED  BY <3>3, <3>4, <3>5, Zenon
  <2> QED  BY <2>1, <2>2
<1>5. Done' = Extent \ (Todo' \cup InFlight')
  BY DEF Done, Extent
<1> QED  BY <1>3, <1>4, <1>5
-----------------------------------------------------------------------------
(* How a task ends.  A pass that finds nothing to wait for has found every *)
(* plan it came by exhausted, and a failure leaves the failing block with  *)
(* its plan.                                                               *)
Exhausted(i) == plan[i].nlb = 0 /\ IF Sequential THEN cursor.rnlb = 0 ELSE plan[i].rnlb = 0

EndInv ==
  /\ \A i \in Plans : plan[i].nlb = 0 => aio[i] \in {"none", "ok"}
  /\ pc = "scan" /\ stop => \A i \in Plans : i < idx => Exhausted(i)
  /\ pc = "prefill" => ~stop
  /\ pc \in {"scan", "prefill"} => statusCode = "ok"
  /\ pc = "cancel" => stop /\ statusCode # "ok"
  /\ pc = "returned" /\ statusCode = "ok" => \A i \in Plans : Exhausted(i)
  /\ statusCode \notin {"ok", "ctor"} => failLBA \in InFlight

(* A task that has just been constructed has not come to an end.           *)
LEMMA EndInit == Init => EndInv
<1> SUFFICES ASSUME Init PROVE EndInv
  OBVIOUS
<1> QED  BY DEF Init, EndInv

(* The plan found exhausted is exhausted; those before it still are.       *)
LEMMA EndExhausted == IInv /\ FirstPassInv /\ EndInv /\ PlanExhausted => EndInv'
<1> SUFFICES ASSUME IInv, FirstPassInv, EndInv, PlanExhausted PROVE EndInv'
  OBVIOUS
<1> USE EngineAssumption
<1> DEFINE q == NextSlice(plan[idx])
<1>1. /\ idx \in Plans /\ idx' = idx + 1 /\ pc = "scan" /\ Scheduled
      /\ Remains(plan[idx]) = 0 /\ q.nlb = 0
      /\ plan'[idx] = q /\ \A k \in Plans : k # idx => plan'[k] = plan[k]
      /\ UNCHANGED <<cursor, aio, pc, stop, statusCode>>
  BY ExhaustEffect
<1>2. IF Sequential THEN cursor.rnlb = 0 ELSE q.rnlb = 0
  BY <1>1, NextFields DEF IInv, StateTypes, Remains
<1>3. aio[idx] \in {"none", "ok"}
  BY <1>1, ExhaustEffect DEF FirstPassInv
<1> HIDE DEF q
<1>4. ASSUME NEW i \in Plans, i = idx
      PROVE  Exhausted(i)'
  BY <1>1, <1>2, <1>4 DEF Exhausted
<1>5. ASSUME NEW i \in Plans, i < idx', stop
      PROVE  Exhausted(i)'
  <2>1. CASE i = idx
    BY <1>4, <2>1
  <2>2. CASE i # idx
    <3>1. i < idx
      BY <1>1, <1>5, <2>2, PlanParts
    <3> QED  BY <1>1, <1>5, <2>2, <3>1 DEF EndInv, Exhausted
  <2> QED  BY <2>1, <2>2
<1>6. \A i \in Plans : plan'[i].nlb = 0 => aio'[i] \in {"none", "ok"}
  BY <1>1, <1>3 DEF EndInv
<1>7. statusCode = "ok"
  BY <1>1 DEF EndInv
<1> QED  BY <1>1, <1>5, <1>6, <1>7 DEF EndInv

(* The block a failure names is one of the slice the plan works on.        *)
LEMMA FailedBlockInSlice ==
  ASSUME IInv, NEW i \in Plans, plan[i].nlb # 0
  PROVE  plan[i].slba + ErrOffset(i) \in Slice(plan[i])
<1>1. plan[i].slba \in Nat /\ plan[i].nlb \in Nat /\ 0 \in 0 .. (plan[i].nlb - 1)
  BY DEF IInv, StateTypes, PlanRec
<1>2. HeaderErrors(i) \subseteq 0 .. (plan[i].nlb - 1) /\ BodyErrors(i) \subseteq 0 .. (plan[i].nlb - 1)
  BY DEF HeaderErrors, BodyErrors
<1>3. CompletionStatus(i) = "stamp" => HeaderErrors(i) # {}
  BY DEF CompletionStatus
<1>4. CompletionStatus(i) = "data" => BodyErrors(i) # {}
  BY DEF CompletionStatus
<1>5. 0 .. (plan[i].nlb - 1) \subseteq Nat
  BY <1>1
<1>6. ErrOffset(i) \in 0 .. (plan[i].nlb - 1)
  BY <1>1, <1>2, <1>3, <1>4, <1>5, FirstInSet DEF ErrOffset
<1> QED  BY <1>1, <1>6 DEF Slice

(* A plan that fails has a slice, and the failing block is in it.          *)
LEMMA EndFailed == IInv /\ FirstPassInv /\ EndInv /\ PlanFailed => EndInv'
<1> SUFFICES ASSUME IInv, FirstPassInv, EndInv, PlanFailed PROVE EndInv'
  OBVIOUS
<1>1. idx \in Plans /\ UNCHANGED <<plan, aio>> /\ statusCode' = CompletionStatus(idx)
      /\ CompletionStatus(idx) # "ok" /\ pc' = "cancel" /\ stop' = TRUE
  BY ScanIndex DEF PlanFailed, requestVars
<1>2. plan[idx].nlb # 0
  BY <1>1 DEF CompletionStatus, Compares, EndInv
<1>3. failLBA' \in Slice(plan[idx])
  BY <1>1, <1>2, FailedBlockInSlice DEF PlanFailed
<1>4. failLBA' \in InFlight'
  BY <1>1, <1>3 DEF InFlight, Slice
<1> QED  BY <1>1, <1>2, <1>4 DEF EndInv

(* The invariant is kept by every step.                                    *)
LEMMA EndStep == IInv /\ FirstPassInv /\ EndInv /\ [Next]_vars => EndInv'
<1> SUFFICES ASSUME IInv, FirstPassInv, EndInv, [Next]_vars PROVE EndInv'
  OBVIOUS
<1>0. NumPlans \in Nat /\ Plans = 0 .. (NumPlans - 1) /\ idx \in 0 .. NumPlans
  BY PlanParts DEF Plans, IInv, StateTypes
<1>1. CASE Routine
  <2>1. idx = 0 /\ ~Scheduled /\ \A i \in Plans : aio[i] = "none"
    BY <1>1 DEF Routine, Scheduled, FirstPassInv, IInv, PhaseInv, NoPlan, NewPlan
  <2>2. UNCHANGED <<idx, aio, statusCode>> /\ statusCode \in {"ok", "ctor"}
        /\ (statusCode = "ok" => pc' = "scan") /\ (statusCode # "ok" => pc' = "returned")
    BY <1>1 DEF Routine, requestVars, resultVars, IInv, PhaseInv
  <2> QED  BY <1>0, <2>1, <2>2 DEF EndInv
<1>2. CASE StillRunning
  BY <1>2 DEF StillRunning, requestVars, resultVars, EndInv, Scanning, InFlight, Slice
<1>3. CASE IssueNext
  <2>1. /\ idx \in Plans /\ Scheduled /\ plan'[idx].nlb # 0 /\ stop' = FALSE
        /\ \A k \in Plans : k # idx => plan'[k] = plan[k] /\ aio'[k] = aio[k]
        /\ pc' \in {"scan", "prefill"} /\ statusCode' = statusCode /\ pc = "scan"
    BY <1>3, IssueEffect DEF IssueNext
  <2> QED  BY <2>1 DEF EndInv
<1>4. CASE PreFill
  BY <1>4 DEF PreFill, resultVars, EndInv, InFlight, Slice
<1>5. CASE PlanExhausted
  BY <1>5, EndExhausted
<1>6. CASE PlanFailed
  BY <1>6, EndFailed
<1>7. CASE CancelPlan
  <2>1. \A i \in Plans : aio'[i] = aio[i] \/ (aio[i] = "busy" /\ aio'[i] = "canceled")
    BY <1>7 DEF CancelPlan, IInv, StateTypes
  <2> QED  BY <1>7, <2>1 DEF CancelPlan, resultVars, EndInv, InFlight, Slice
<1>8. CASE EndPass
  <2>1. idx = NumPlans /\ pc \in {"scan", "cancel"} /\ UNCHANGED <<plan, cursor, aio, statusCode, failLBA>>
        /\ IF stop THEN pc' = "returned" /\ UNCHANGED <<idx, stop>>
           ELSE pc' = "scan" /\ idx' = 0
    BY <1>8 DEF EndPass, requestVars, resultVars
  <2>2. InFlight' = InFlight /\ \A i \in Plans : i < NumPlans /\ ~ (i < 0)
    BY <1>0, <2>1 DEF InFlight, Slice
  <2>3. CASE stop
    BY <2>1, <2>2, <2>3 DEF EndInv, Exhausted
  <2>4. CASE ~stop
    BY <2>1, <2>2, <2>4 DEF EndInv
  <2> QED  BY <2>3, <2>4
<1>9. CASE \E i \in Plans : Request(i)
  <2>1. PICK i \in Plans : Request(i)
    BY <1>9
  <2>2. /\ aio[i] = "busy" /\ \A k \in Plans : k # i => aio'[k] = aio[k]
        /\ UNCHANGED <<plan, cursor, pc, idx, stop, statusCode, failLBA>>
    BY <2>1, RequestEffect
  <2> QED  BY <2>2 DEF EndInv, Exhausted, InFlight, Slice
<1>10. CASE UNCHANGED vars
  BY <1>10 DEF vars, EndInv, Exhausted, InFlight, Slice
<1> QED  BY <1>1, <1>2, <1>3, <1>4, <1>5, <1>6, <1>7, <1>8, <1>9, <1>10 DEF Next, Engine
-----------------------------------------------------------------------------
(* When all plans are exhausted nothing waits and nothing is in flight.    *)
LEMMA AllExhausted ==
  ASSUME IInv, EndInv, Scheduled, \A i \in Plans : Exhausted(i)
  PROVE  /\ \A i \in Plans : aio[i] # "busy"
         /\ Todo = {} /\ InFlight = {}
<1> USE EngineAssumption
<1>1. \A i \in Plans : plan[i].nlb = 0 /\ aio[i] \in {"none", "ok"}
  BY DEF Exhausted, EndInv
<1>2. \A i \in Plans : plan[i].slba \in Nat
  BY DEF IInv, StateTypes, PlanRec
<1>3. InFlight = {}
  BY <1>1, <1>2 DEF InFlight, Slice
<1>4. Todo = {}
  <2>1. CASE Sequential
    <3>1. cursor.lba \in Nat /\ cursor.rnlb \in Nat /\ Slba <= cursor.lba
          /\ cursor.lba + cursor.rnlb = Slba + Nlb
      BY <2>1 DEF IInv, StateTypes, SharedInv
    <3>2. cursor.rnlb = 0
      <4>1. CASE Nlb = 0
        BY <3>1, <4>1
      <4>2. CASE Nlb # 0
        <5>1. NumPlans \in Nat /\ NumPlans # 0
          BY <4>2, PlanCountBounds DEF NumPlans
        <5>2. 0 \in Plans
          BY <5>1 DEF Plans
        <5> QED  BY <2>1, <5>2 DEF Exhausted
      <4> QED  BY <4>1, <4>2
    <3> QED  BY <2>1, <3>1, <3>2 DEF Todo
  <2>2. CASE ~Sequential
    <3>1. \A i \in Plans : Tail(plan[i]) = {}
      BY <1>1, <1>2, <2>2 DEF Exhausted, Tail
    <3>2. Todo = UNION {Tail(plan[i]) : i \in Plans}
      BY <2>2 DEF Todo, Tail
    <3> QED  BY <3>1, <3>2
  <2> QED  BY <2>1, <2>2
<1> QED  BY <1>1, <1>3, <1>4

(* Theorem: a task that returns success leaves no request behind, and no   *)
(* block that was not taken up, for every task and whatever the requests   *)
(* do.                                                                     *)
THEOREM SuccessClean == Spec => []SuccessLeavesNothingInFlight
<1>1. IInv /\ EndInv => SuccessLeavesNothingInFlight
  BY AllExhausted DEF EndInv, SuccessLeavesNothingInFlight, Scheduled
<1> QED  BY <1>1, FirstPassInit, FirstPassStep, EndInit, EndStep, Invariance, PTL DEF Spec
-----------------------------------------------------------------------------
(* The engine implements RangeJob, step by step.                           *)
LEMMA JobFrame ==
  ASSUME UNCHANGED <<plan, cursor>>, Scheduled <=> Scheduled'
  PROVE  UNCHANGED <<Todo, InFlight, Done>>
<1>1. UNCHANGED <<Todo, InFlight>>
  BY DEF Todo, InFlight, Slice, Extent
<1> QED  BY <1>1 DEF Done, Extent

(* A task that has just been constructed is a job with everything to do.   *)
LEMMA JobInit == Init => Job!Init
<1> SUFFICES ASSUME Init PROVE Job!Init
  OBVIOUS
<1>1. IInv /\ FirstPassInv /\ ~Scheduled
  BY InitInv, FirstPassInit DEF Init, Scheduled
<1>2. Todo = Extent /\ InFlight = {} /\ Done = {}
  BY <1>1, NothingTakenUp
<1>3. Outcome = "running"
  BY DEF Init, Outcome
<1> QED  BY <1>2, <1>3 DEF Job!Init

(* A plan that moves on advances the job.                                  *)
LEMMA JobAdvance ==
  ASSUME IInv, Scheduled, Scheduled', NEW i \in Plans,
         plan' = [plan EXCEPT ![i] = NextSlice(plan[i])],
         cursor' = IF Sequential THEN AdvanceCursor(NextSlice(plan[i])) ELSE cursor,
         pc # "returned", pc' # "returned"
  PROVE  Job!Next
<1> DEFINE finished == Slice(plan[i])
           taken == Slice(plan'[i])
<1>1. /\ finished \in SUBSET InFlight /\ taken \in SUBSET Todo
      /\ Todo' = Todo \ taken /\ InFlight' = (InFlight \ finished) \cup taken
      /\ Done' = Done \cup finished
  BY SliceTaken
<1>2. Outcome = "running" /\ Outcome' = "running"
  BY DEF Outcome
<1> HIDE DEF finished, taken
<1>3. Job!Advance(finished, taken)
  BY <1>1, <1>2 DEF Job!Advance
<1> QED  BY <1>1, <1>3 DEF Job!Next

(* The end of the last pass is the end of the job.                         *)
LEMMA JobEnd ==
  ASSUME IInv, EndInv, EndPass
  PROVE  Job!Next \/ UNCHANGED Job!vars
<1>1. /\ idx = NumPlans /\ pc \in {"scan", "cancel"} /\ Scheduled
      /\ UNCHANGED <<plan, cursor, statusCode>>
      /\ IF stop THEN pc' = "returned" ELSE pc' = "scan"
  BY ScanningScheduled DEF EndPass, requestVars, resultVars
<1>2. UNCHANGED <<Todo, InFlight, Done>> /\ Outcome = "running"
  BY <1>1, JobFrame DEF Scheduled, Outcome
<1>3. CASE stop /\ statusCode = "ok"
  <2>1. pc = "scan"
    BY <1>1, <1>3 DEF EndInv
  <2>2. \A i \in Plans : Exhausted(i)
    BY <1>1, <1>3, <2>1, PlanParts DEF EndInv, Plans
  <2>3. Todo = {} /\ InFlight = {}
    BY <1>1, <2>2, AllExhausted
  <2>4. Outcome' = "success"
    BY <1>1, <1>3 DEF Outcome
  <2> QED  BY <1>2, <2>3, <2>4 DEF Job!Next, Job!Succeed
<1>4. CASE stop /\ statusCode # "ok"
  <2>1. InFlight # {}
    BY <1>1, <1>4 DEF EndInv, Scheduled
  <2>2. Outcome' = "failure"
    BY <1>1, <1>4 DEF Outcome
  <2> QED  BY <1>2, <2>1, <2>2 DEF Job!Next, Job!Fail
<1>5. CASE ~stop
  BY <1>1, <1>2, <1>5 DEF Outcome, Job!vars
<1> QED  BY <1>3, <1>4, <1>5

(* Every step of the engine is a step of the job, or no step at all.       *)
LEMMA JobStep == IInv /\ FirstPassInv /\ EndInv /\ [Next]_vars => [Job!Next]_Job!vars
<1> SUFFICES ASSUME IInv, FirstPassInv, EndInv, [Next]_vars
             PROVE  Job!Next \/ UNCHANGED Job!vars
  OBVIOUS
<1>1. CASE Routine
  <2>1. ~Scheduled /\ UNCHANGED statusCode /\ Outcome = "running"
        /\ Todo = Extent /\ InFlight = {} /\ Done = {}
    BY <1>1, NothingTakenUp DEF Routine, Scheduled, resultVars, Outcome
  <2>2. CASE statusCode = "ok"
    <3>1. Outcome' = "running" /\ Todo' = Extent /\ InFlight' = {} /\ Done' = {}
      BY <1>1, <2>2, PartsCover DEF Routine, Outcome
    <3> QED  BY <2>1, <3>1 DEF Job!vars
  <2>3. CASE statusCode # "ok"
    <3>1. pc' = "returned" /\ UNCHANGED <<plan, cursor>> /\ statusCode = "ctor"
      BY <1>1, <2>3 DEF Routine, IInv, PhaseInv
    <3>2. UNCHANGED <<Todo, InFlight, Done>>
      BY <2>1, <3>1, JobFrame DEF Scheduled
    <3>3. Outcome' = "failure"
      BY <2>1, <2>3, <3>1 DEF Outcome
    <3> QED  BY <2>1, <3>2, <3>3 DEF Job!Next, Job!Fail
  <2> QED  BY <2>2, <2>3
<1>2. CASE StillRunning \/ PreFill \/ CancelPlan
  <2>1. /\ UNCHANGED <<plan, cursor, statusCode>>
        /\ pc \notin {"start", "returned"} /\ pc' \notin {"start", "returned"}
    BY <1>2 DEF StillRunning, Scanning, PreFill, CancelPlan, resultVars
  <2>2. UNCHANGED <<Todo, InFlight, Done>> /\ Outcome' = Outcome
    BY <2>1, JobFrame DEF Scheduled, Outcome
  <2> QED  BY <2>2 DEF Job!vars
<1>3. CASE IssueNext
  <2>1. pc # "returned" /\ pc' # "returned"
    BY <1>3, IssueEffect
  <2> QED  BY <1>3, <2>1, IssueEffect, JobAdvance
<1>4. CASE PlanExhausted
  <2>1. pc # "returned" /\ pc' # "returned"
    BY <1>4, ExhaustEffect
  <2> QED  BY <1>4, <2>1, ExhaustEffect, JobAdvance
<1>5. CASE PlanFailed
  <2>1. /\ UNCHANGED <<plan, cursor>> /\ pc = "scan" /\ pc' = "cancel" /\ statusCode' # "ctor"
        /\ Scheduled
    BY <1>5, ScanningScheduled DEF PlanFailed, Scanning, CompletionStatus
  <2>2. UNCHANGED <<Todo, InFlight, Done>> /\ Outcome' = Outcome
    BY <2>1, JobFrame DEF Scheduled, Outcome
  <2> QED  BY <2>2 DEF Job!vars
<1>6. CASE EndPass
  BY <1>6, JobEnd
<1>7. CASE \E i \in Plans : Request(i)
  <2>1. UNCHANGED <<plan, cursor, pc, statusCode>>
    BY <1>7, RequestEffect
  <2>2. UNCHANGED <<Todo, InFlight, Done>> /\ Outcome' = Outcome
    BY <2>1, JobFrame DEF Scheduled, Outcome
  <2> QED  BY <2>2 DEF Job!vars
<1>8. CASE UNCHANGED vars
  <2>1. UNCHANGED <<Todo, InFlight, Done>> /\ Outcome' = Outcome
    BY <1>8, JobFrame DEF vars, Scheduled, Outcome
  <2> QED  BY <2>1 DEF Job!vars
<1> QED  BY <1>1, <1>2, <1>3, <1>4, <1>5, <1>6, <1>7, <1>8 DEF Next, Engine

(* Theorem: the engine implements RangeJob: every block of the range is    *)
(* taken up once, stays in flight until it has been dealt with, and        *)
(* success means that all have been.                                       *)
THEOREM JobImplemented == Spec => ImplementsRangeJob
<1> QED
  BY FirstPassInit, FirstPassStep, EndInit, EndStep, Invariance, JobInit, JobStep, PTL
  DEF Spec, ImplementsRangeJob, Job!Spec

-----------------------------------------------------------------------------
(* The buffers of the fills.  HeadersClean: without a time stamp nobody    *)
(* writes a header.  FilledAhead: while the request of a plan is in        *)
(* flight, and until the plan takes its next slice, the other buffer holds *)
(* the pattern of that slice; only between the submission of a slice and   *)
(* pre_fill_after_issue() it does not yet.                                 *)
Offsets == 0 .. (NlbPerBuf - 1)

HeadersClean(b) == ~Stamp => \A k \in Offsets : b[k].hdr = Background

Holds(b, s, n) == \A k \in 0 .. (n - 1) : b[k].body = PatternAt(s + k)

FilledAhead(i) ==
  plan[i].starting /\ ~(pc = "prefill" /\ idx = i) =>
    Holds(buffer[i][PreMemory(plan[i])], plan[i].slba + plan[i].nlb,
          LesserOf(plan[i].rnlb - plan[i].nlb, NlbPerBuf))

DataRight(i) ==
  aio[i] = "busy" =>
    \A k \in 0 .. (plan[i].nlb - 1) : buffer[i][Memory(plan[i])][k] = Expected(plan[i].slba + k)

DataInv ==
  Kind = "fill" =>
    \A i \in Plans :
      /\ \A m \in 0 .. 1 : HeadersClean(buffer[i][m])
      /\ DataRight(i)
      /\ ~Sequential => FilledAhead(i)

(* The two buffers of a ping-pong plan change roles with every slice.      *)
LEMMA BuffersAlternate ==
  ASSUME Kind = "fill", ~Sequential, NEW p \in PlanRec, NEW q \in PlanRec
  PROVE  /\ PreMemory(p) # Memory(p)
         /\ q.ppflag = ~p.ppflag => Memory(q) = PreMemory(p)
BY DEF Memory, PreMemory, PingPong, PlanRec

(* A buffer whose bodies have been written holds the pattern.              *)
LEMMA FillPatternHolds ==
  ASSUME NEW b \in Buffer, NEW s \in Nat, NEW n \in Nat, n <= NlbPerBuf
  PROVE  /\ Holds(FillPattern(b, s, n), s, n)
         /\ HeadersClean(b) => HeadersClean(FillPattern(b, s, n))
<1> USE EngineAssumption
<1>1. ASSUME NEW k \in Offsets
      PROVE  /\ FillPattern(b, s, n)[k].hdr = b[k].hdr
             /\ k < n => FillPattern(b, s, n)[k].body = PatternAt(s + k)
  BY DEF FillPattern, Offsets
<1> QED  BY <1>1 DEF Holds, HeadersClean, Offsets

(* What is submitted for a slice is exactly what belongs into its blocks,  *)
(* if the pattern was written ahead or is written now.                     *)
LEMMA PreparedRight ==
  ASSUME Kind = "fill", NEW p, NEW b \in Buffer, NextSlice(p) \in PlanRec,
         NextSlice(p).nlb <= NlbPerBuf, HeadersClean(b),
         p.starting /\ ~Sequential => Holds(b, NextSlice(p).slba, NextSlice(p).nlb)
  PROVE  /\ \A k \in 0 .. (NextSlice(p).nlb - 1) :
              PreparedForIssue(p, b)[k] = Expected(NextSlice(p).slba + k)
         /\ HeadersClean(PreparedForIssue(p, b))
<1> USE EngineAssumption
<1> DEFINE s == NextSlice(p).slba
           n == NextSlice(p).nlb
           filled == IF Sequential \/ ~p.starting THEN FillPattern(b, s, n) ELSE b
<1>1. s \in Nat /\ n \in Nat /\ n <= NlbPerBuf
  BY DEF PlanRec
<1>2. PreparedForIssue(p, b) = StampHeaders(filled, s, n)
  BY DEF PreparedForIssue
<1> HIDE DEF s, n
<1>3. filled \in Buffer /\ Holds(filled, s, n) /\ HeadersClean(filled)
  <2>1. CASE Sequential \/ ~p.starting
    BY <1>1, <2>1, FillPatternHolds, FillPatternType
  <2>2. CASE ~(Sequential \/ ~p.starting)
    BY <2>2 DEF s, n
  <2> QED  BY <2>1, <2>2
<1> HIDE DEF filled
<1>4. ASSUME NEW k \in Offsets
      PROVE  /\ filled[k] \in Block
             /\ StampHeaders(filled, s, n)[k] =
                  IF Stamp /\ k < n THEN [hdr |-> s + k, body |-> filled[k].body] ELSE filled[k]
  BY <1>3 DEF StampHeaders, Offsets, Buffer
<1>5. ASSUME NEW k \in 0 .. (n - 1)
      PROVE  StampHeaders(filled, s, n)[k] = Expected(s + k)
  <2>1. k \in Offsets /\ k < n /\ filled[k].body = PatternAt(s + k)
    BY <1>1, <1>3 DEF Offsets, Holds
  <2>2. CASE Stamp
    BY <1>4, <2>1, <2>2 DEF Expected, HeaderAt
  <2>3. CASE ~Stamp
    <3>1. StampHeaders(filled, s, n)[k] = filled[k] /\ filled[k] \in Block
      BY <1>4, <2>1, <2>3
    <3>2. filled[k].hdr = Background
      BY <1>3, <2>1, <2>3 DEF HeadersClean
    <3> QED  BY <2>1, <2>3, <3>1, <3>2 DEF Expected, HeaderAt, Block
  <2> QED  BY <2>2, <2>3
<1>6. HeadersClean(StampHeaders(filled, s, n))
  BY <1>3, <1>4 DEF HeadersClean
<1> QED  BY <1>2, <1>5, <1>6 DEF s, n

(* A new task has nothing in flight and clean buffers.                     *)
LEMMA DataInit == Init => DataInv
<1> SUFFICES ASSUME Init, NEW i \in Plans
             PROVE  /\ \A m \in 0 .. 1 : HeadersClean(buffer[i][m])
                    /\ DataRight(i) /\ FilledAhead(i)
  BY DEF DataInv
<1>1. aio[i] = "none" /\ ~plan[i].starting
  BY DEF Init, NoPlan, NewPlan
<1>2. \A m \in 0 .. 1 : HeadersClean(buffer[i][m])
  BY DEF Init, HeadersClean, Offsets
<1> QED  BY <1>1, <1>2 DEF DataRight, FilledAhead

(* The submission of a slice: its data are right, and nothing else has     *)
(* changed.                                                                *)
LEMMA DataIssue == IInv /\ DataInv /\ IssueNext => DataInv'
<1> SUFFICES ASSUME IInv, DataInv, IssueNext, Kind = "fill", NEW i \in Plans
             PROVE  /\ \A m \in 0 .. 1 : HeadersClean(buffer'[i][m])
                    /\ DataRight(i)' /\ (~Sequential => FilledAhead(i)')
  BY DEF DataInv, HeadersClean, Offsets
<1> USE EngineAssumption
<1> DEFINE p == plan[idx]
           q == NextSlice(p)
           m0 == Memory(q)
           b == buffer[idx][m0]
<1>1. /\ idx \in Plans /\ p \in PlanRec /\ cursor \in [lba : Nat, rnlb : Nat]
      /\ buffer \in [Plans -> [0..1 -> Buffer]] /\ m0 \in 0 .. 1 /\ Scheduled /\ Remains(p) # 0
  BY IssueEffect, MemoryType DEF IInv, StateTypes
<1>2. q \in PlanRec /\ q.nlb <= NlbPerBuf
  BY <1>1, IssueEffect, TakeSlice, RemainsFacts
<1>3. buffer' = [buffer EXCEPT ![idx][m0] = PreparedForIssue(p, b)]
  BY DEF IssueNext
<1>4. HeadersClean(b) /\ b \in Buffer
  BY <1>1 DEF DataInv
<1>5. p.starting /\ ~Sequential => Holds(b, q.slba, q.nlb)
  <2> SUFFICES ASSUME p.starting, ~Sequential PROVE Holds(b, q.slba, q.nlb)
    OBVIOUS
  <2>1. FilledAhead(idx) /\ pc = "scan"
    BY <1>1, IssueEffect DEF DataInv
  <2>2. q.slba = p.slba + p.nlb /\ q.nlb = LesserOf(p.rnlb - p.nlb, NlbPerBuf)
    BY <1>1, NextFields DEF Remains
  <2>3. q.ppflag = ~p.ppflag
    BY <1>1, NextFields
  <2>4. m0 = PreMemory(p)
    BY <1>1, <1>2, <2>3, BuffersAlternate
  <2> HIDE DEF p, q, m0
  <2> QED  BY <2>1, <2>2, <2>4 DEF FilledAhead, p
<1>6. /\ \A k \in 0 .. (q.nlb - 1) : PreparedForIssue(p, b)[k] = Expected(q.slba + k)
      /\ HeadersClean(PreparedForIssue(p, b))
  BY <1>2, <1>4, <1>5, PreparedRight
<1> HIDE DEF p, q, m0
<1>7. CASE i = idx
  <2>1. buffer'[i][m0] = PreparedForIssue(p, b)
        /\ \A m \in 0 .. 1 : m # m0 => buffer'[i][m] = buffer[i][m]
    BY <1>1, <1>3, <1>7
  <2>2. plan'[i] = q
    BY <1>7, IssueEffect DEF q, p
  <2>3. DataRight(i)'
    BY <1>6, <2>1, <2>2 DEF DataRight, m0
  <2>4. ~Sequential => FilledAhead(i)'
    BY <1>7, IssueEffect DEF FilledAhead
  <2>5. \A m \in 0 .. 1 : HeadersClean(buffer'[i][m])
    BY <1>6, <2>1 DEF DataInv
  <2> QED  BY <2>3, <2>4, <2>5
<1>8. CASE i # idx
  <2>1. buffer'[i] = buffer[i] /\ plan'[i] = plan[i] /\ aio'[i] = aio[i]
    BY <1>1, <1>3, <1>8, IssueEffect
  <2>2. pc = "scan"
    BY IssueEffect
  <2> QED  BY <2>1, <2>2 DEF DataInv, DataRight, FilledAhead
<1> QED  BY <1>7, <1>8

(* Filling ahead writes the buffer that is not in flight.                  *)
LEMMA DataPreFill == IInv /\ FirstPassInv /\ DataInv /\ PreFill => DataInv'
<1> SUFFICES ASSUME IInv, FirstPassInv, DataInv, PreFill, Kind = "fill", NEW i \in Plans
             PROVE  /\ \A m \in 0 .. 1 : HeadersClean(buffer'[i][m])
                    /\ DataRight(i)' /\ FilledAhead(i)'
  BY DEF DataInv, HeadersClean, Offsets
<1> USE EngineAssumption
<1> DEFINE p == plan[idx]
           left == p.rnlb - p.nlb
           n == LesserOf(left, NlbPerBuf)
           m0 == PreMemory(p)
<1>1. /\ pc = "prefill" /\ pc' = "scan" /\ ~Sequential /\ UNCHANGED <<plan, aio>>
      /\ buffer' = IF left = 0 THEN buffer
                   ELSE [buffer EXCEPT ![idx][m0] = FillPattern(@, p.slba + p.nlb, n)]
  BY DEF PreFill, FirstPassInv
<1>2. /\ idx \in Plans /\ p \in PlanRec /\ m0 \in 0 .. 1 /\ m0 # Memory(p) /\ Scheduled
      /\ buffer \in [Plans -> [0..1 -> Buffer]]
  BY <1>1, MemoryType, BuffersAlternate, ScanningScheduled DEF IInv, StateTypes
<1>3. p.slba + p.nlb \in Nat /\ left \in Nat /\ n \in Nat /\ n <= NlbPerBuf
  BY <1>1, <1>2 DEF IInv, OwnInv, PlanRec, LesserOf
<1>4. buffer[idx][m0] \in Buffer /\ HeadersClean(buffer[idx][m0])
  BY <1>2 DEF DataInv
<1>5. /\ Holds(FillPattern(buffer[idx][m0], p.slba + p.nlb, n), p.slba + p.nlb, n)
      /\ HeadersClean(FillPattern(buffer[idx][m0], p.slba + p.nlb, n))
  <2> HIDE DEF p, left, n, m0
  <2> QED  BY <1>3, <1>4, FillPatternHolds
<1>6. /\ Holds(buffer'[idx][m0], p.slba + p.nlb, n) /\ HeadersClean(buffer'[idx][m0])
      /\ \A m \in 0 .. 1 : m # m0 => buffer'[idx][m] = buffer[idx][m]
  <2>1. CASE left = 0
    <3>1. Holds(buffer[idx][m0], p.slba + p.nlb, n)
      BY <2>1 DEF Holds, LesserOf
    <3> HIDE DEF p, left, n, m0
    <3> QED  BY <1>1, <1>4, <2>1, <3>1
  <2>2. CASE left # 0
    <3> HIDE DEF p, left, n, m0
    <3>1. buffer'[idx][m0] = FillPattern(buffer[idx][m0], p.slba + p.nlb, n)
          /\ \A m \in 0 .. 1 : m # m0 => buffer'[idx][m] = buffer[idx][m]
      BY <1>1, <1>2, <2>2
    <3> QED  BY <1>5, <3>1
  <2> QED  BY <2>1, <2>2
<1>7. CASE i = idx
  <2>1. DataRight(i)'
    <3>1. Memory(p) \in 0 .. 1 /\ buffer'[i][Memory(p)] = buffer[i][Memory(p)]
      BY <1>2, <1>6, <1>7, MemoryType
    <3> QED  BY <1>1, <1>7, <3>1 DEF DataInv, DataRight
  <2>2. FilledAhead(i)'
    BY <1>1, <1>6, <1>7 DEF FilledAhead
  <2>3. \A m \in 0 .. 1 : HeadersClean(buffer'[i][m])
    BY <1>6, <1>7 DEF DataInv
  <2> QED  BY <2>1, <2>2, <2>3
<1>8. CASE i # idx
  <2>1. buffer'[i] = buffer[i]
    BY <1>1, <1>2, <1>8
  <2> QED  BY <1>1, <1>8, <2>1 DEF DataInv, DataRight, FilledAhead
<1> QED  BY <1>7, <1>8

(* Steps that leave the buffers alone and put nothing in flight.           *)
LEMMA DataFrame ==
  ASSUME DataInv, UNCHANGED <<plan, buffer>>,
         \A i \in Plans : aio'[i] = "busy" => aio[i] = "busy",
         pc = "prefill" => pc' = "prefill" /\ idx' = idx
  PROVE  DataInv'
<1> SUFFICES ASSUME Kind = "fill", NEW i \in Plans
             PROVE  /\ \A m \in 0 .. 1 : HeadersClean(buffer'[i][m])
                    /\ DataRight(i)' /\ (~Sequential => FilledAhead(i)')
  BY DEF DataInv, HeadersClean, Offsets
<1>1. DataRight(i)'
  BY DEF DataInv, DataRight
<1>2. ~Sequential => FilledAhead(i)'
  BY DEF DataInv, FilledAhead
<1> QED  BY <1>1, <1>2 DEF DataInv

(* A plan with nothing left has nothing in flight, and nothing to follow.  *)
LEMMA DataExhausted == IInv /\ DataInv /\ PlanExhausted => DataInv'
<1> SUFFICES ASSUME IInv, DataInv, PlanExhausted, Kind = "fill", NEW i \in Plans
             PROVE  /\ \A m \in 0 .. 1 : HeadersClean(buffer'[i][m])
                    /\ DataRight(i)' /\ (~Sequential => FilledAhead(i)')
  BY DEF DataInv, HeadersClean, Offsets
<1> USE EngineAssumption
<1>1. UNCHANGED <<buffer, aio, pc>> /\ pc = "scan"
  BY ExhaustEffect
<1>2. CASE i = idx
  <2> DEFINE q == NextSlice(plan[idx])
  <2>1. plan'[i] = q /\ q.nlb = 0 /\ Remains(plan[idx]) = 0 /\ Scheduled /\ idx \in Plans
    BY <1>2, ExhaustEffect
  <2>2. ~Sequential => q.rnlb = 0
    BY <2>1, NextFields DEF IInv, StateTypes, Remains
  <2> HIDE DEF q
  <2>3. DataRight(i)'
    BY <2>1 DEF DataRight
  <2>4. ~Sequential => FilledAhead(i)'
    BY <2>1, <2>2 DEF FilledAhead, Holds, LesserOf
  <2> QED  BY <1>1, <2>3, <2>4 DEF DataInv
<1>3. CASE i # idx
  <2>1. plan'[i] = plan[i]
    BY <1>3, ExhaustEffect
  <2> QED  BY <1>1, <2>1 DEF DataInv, DataRight, FilledAhead
<1> QED  BY <1>2, <1>3

(* The data in flight stay right.                                          *)
LEMMA DataStep == IInv /\ FirstPassInv /\ DataInv /\ [Next]_vars => DataInv'
<1> SUFFICES ASSUME IInv, FirstPassInv, DataInv, [Next]_vars PROVE DataInv'
  OBVIOUS
<1>1. CASE Routine
  <2> SUFFICES ASSUME Kind = "fill", NEW i \in Plans
               PROVE  /\ \A m \in 0 .. 1 : HeadersClean(buffer'[i][m])
                      /\ DataRight(i)' /\ FilledAhead(i)'
    BY DEF DataInv, HeadersClean, Offsets
  <2>1. UNCHANGED <<buffer, aio>> /\ ~plan'[i].starting
    <3>1. NoPlan.starting = FALSE /\ \A s, n : NewPlan(s, n).starting = FALSE
      BY DEF NoPlan, NewPlan
    <3>2. plan[i] = NoPlan
      BY <1>1 DEF Routine, IInv, PhaseInv, Scheduled
    <3> QED  BY <1>1, <3>1, <3>2 DEF Routine, requestVars
  <2>2. aio[i] = "none"
    <3>1. ~plan[i].starting
      BY <1>1 DEF Routine, IInv, PhaseInv, Scheduled, NoPlan, NewPlan
    <3> QED  BY <3>1 DEF FirstPassInv
  <2> QED  BY <2>1, <2>2 DEF DataInv, DataRight, FilledAhead
<1>2. CASE IssueNext
  BY <1>2, DataIssue
<1>3. CASE PreFill
  BY <1>3, DataPreFill
<1>4. CASE PlanExhausted
  BY <1>4, DataExhausted
<1>5. CASE StillRunning \/ PlanFailed \/ EndPass
  BY <1>5, DataFrame DEF StillRunning, Scanning, PlanFailed, EndPass, requestVars
<1>6. CASE CancelPlan
  <2>1. UNCHANGED <<plan, buffer>> /\ pc = "cancel"
        /\ (aio' = aio \/ aio' = [aio EXCEPT ![idx] = "canceled"])
    BY <1>6 DEF CancelPlan
  <2>2. \A i \in Plans : aio'[i] = "busy" => aio[i] = "busy"
    BY <2>1 DEF IInv, StateTypes
  <2> QED  BY <2>1, <2>2, DataFrame
<1>7. CASE \E i \in Plans : Request(i)
  <2> SUFFICES ASSUME Kind = "fill" PROVE DataInv'
    BY DEF DataInv
  <2>1. PICK i \in Plans : Request(i)
    BY <1>7
  <2>2. buffer' = buffer
    BY <2>1 DEF Request, Complete, CompleteShort, CompleteWithError, Finish, MoveBlocks
  <2>3. UNCHANGED <<plan, pc, idx>> /\ \A k \in Plans : aio'[k] = "busy" => aio[k] = "busy"
    BY <2>1, RequestEffect
  <2> QED  BY <2>2, <2>3, DataFrame
<1>8. CASE UNCHANGED vars
  BY <1>8, DataFrame DEF vars
<1> QED  BY <1>1, <1>2, <1>3, <1>4, <1>5, <1>6, <1>7, <1>8 DEF Next, Engine

(* Theorem: what a fill has in flight is what belongs into the blocks, for *)
(* every range, depth, buffer size, pattern and task family, and whatever  *)
(* the requests do.                                                        *)
THEOREM FlightData == Spec => []InFlightDataRight
<1>1. DataInv => InFlightDataRight
  BY DEF DataInv, DataRight, InFlightDataRight
<1> QED  BY <1>1, FirstPassInit, FirstPassStep, DataInit, DataStep, Invariance, PTL DEF Spec
-----------------------------------------------------------------------------
(* What the disk holds.  A request that moves fewer blocks than it was     *)
(* asked to and reports success, and one that is refused without anybody   *)
(* noticing, leave blocks behind (see the run IoExRefused); without them   *)
(* what the engine has finished with is right.                             *)
NoneLost == "short" \notin Faults /\ "submit" \notin Faults

RequestRight(i) ==
  /\ aio[i] = "none" => ~plan[i].starting
  /\ Kind = "fill" /\ aio[i] = "ok" => \A l \in Slice(plan[i]) : disk[l] = Expected(l)
  /\ Kind = "compare" /\ aio[i] = "ok" =>
       \A k \in 0 .. (plan[i].nlb - 1) : ReadBack(i)[k] = disk[plan[i].slba + k]

DoneRight == Kind \in {"fill", "compare"} => \A l \in Done : disk[l] = Expected(l)

VerdictRight ==
  Kind = "compare" =>
    /\ statusCode = "stamp" => disk[failLBA].hdr # HeaderAt(failLBA)
    /\ statusCode = "data" => /\ disk[failLBA].body # PatternAt(failLBA)
                              /\ disk[failLBA].hdr = HeaderAt(failLBA)

DiskInv == (\A i \in Plans : RequestRight(i)) /\ DoneRight /\ VerdictRight

EngineInv == IInv /\ FirstPassInv /\ DataInv /\ EndInv

(* The plans that work on something work inside the disk.                  *)
LEMMA SliceFacts ==
  ASSUME IInv, NEW i \in Plans
  PROVE  /\ plan[i].slba \in Nat /\ plan[i].nlb \in Nat /\ plan[i].nlb <= NlbPerBuf
         /\ Slice(plan[i]) \subseteq Extent /\ Extent \subseteq DOMAIN disk
         /\ \A k \in Plans : k # i => Slice(plan[k]) \cap Slice(plan[i]) = {}
         /\ Slice(plan[i]) \cap Done = {}
         /\ \A k \in 0 .. (plan[i].nlb - 1) : plan[i].slba + k \in Slice(plan[i])
         /\ \A l \in Slice(plan[i]) : /\ l \in Int /\ l - plan[i].slba \in 0 .. (plan[i].nlb - 1)
                                     /\ plan[i].slba + (l - plan[i].slba) = l
<1>1. plan[i].slba \in Nat /\ plan[i].nlb \in Nat /\ plan[i].nlb <= NlbPerBuf
      /\ Extent \subseteq DOMAIN disk
  BY DEF IInv, StateTypes, PlanRec, BufferBound
<1>2. SlicesDisjoint
  BY InvDisjoint
<1>3. Slice(plan[i]) \subseteq InFlight
  BY DEF InFlight
<1>4. /\ Slice(plan[i]) \subseteq Extent /\ Slice(plan[i]) \cap Done = {}
      /\ \A k \in Plans : k # i => Slice(plan[k]) \cap Slice(plan[i]) = {}
  BY <1>2, <1>3 DEF SlicesDisjoint, Done
<1>5. /\ \A k \in 0 .. (plan[i].nlb - 1) : plan[i].slba + k \in Slice(plan[i])
      /\ \A l \in Slice(plan[i]) : /\ l \in Int /\ l - plan[i].slba \in 0 .. (plan[i].nlb - 1)
                                  /\ plan[i].slba + (l - plan[i].slba) = l
  BY <1>1 DEF Slice
<1> QED  BY <1>1, <1>4, <1>5

(* The buffer of a compare is one of a plan's buffers, and holds blocks.   *)
LEMMA ReadBackBlocks ==
  ASSUME IInv, NEW i \in Plans, NEW k \in 0 .. (plan[i].nlb - 1)
  PROVE  ReadBack(i)[k] \in Block
<1> USE EngineAssumption
<1>1. Memory(plan[i]) \in 0 .. 1 /\ buffer \in [Plans -> [0..1 -> Buffer]]
  BY MemoryType DEF IInv, StateTypes
<1>2. ReadBack(i) \in Buffer
  BY <1>1 DEF ReadBack
<1>3. k \in 0 .. (NlbPerBuf - 1)
  BY SliceFacts
<1> QED  BY <1>2, <1>3 DEF Buffer

(* A plan whose request came to a good end has nothing wrong in its slice. *)
LEMMA SliceGood ==
  ASSUME IInv, FirstPassInv, DiskInv, Kind \in {"fill", "compare"}, NEW i \in Plans,
         plan[i].starting => aio[i] \in {"none", "ok"}, CompletionStatus(i) = "ok",
         NEW l \in Slice(plan[i])
  PROVE  disk[l] = Expected(l)
<1> DEFINE k == l - plan[i].slba
<1>1. /\ k \in 0 .. (plan[i].nlb - 1) /\ plan[i].slba + k = l /\ plan[i].nlb # 0
  BY SliceFacts
<1>2. plan[i].starting /\ aio[i] = "ok"
  BY <1>1 DEF FirstPassInv, DiskInv, RequestRight
<1>3. CASE Kind = "fill"
  BY <1>2, <1>3 DEF DiskInv, RequestRight
<1>4. CASE Kind = "compare"
  <2>1. HeaderErrors(i) = {} /\ BodyErrors(i) = {}
    BY <1>1, <1>2, <1>4 DEF CompletionStatus, Compares
  <2>2. disk[l] = ReadBack(i)[k]
    BY <1>1, <1>2, <1>4 DEF DiskInv, RequestRight
  <2>3. ReadBack(i)[k] \in Block
    BY <1>1, ReadBackBlocks
  <2> HIDE DEF k
  <2>4. ReadBack(i)[k].hdr = HeaderAt(l) /\ ReadBack(i)[k].body = PatternAt(l)
    BY <1>1, <2>1 DEF HeaderErrors, BodyErrors
  <2> QED  BY <2>2, <2>3, <2>4 DEF Block, Expected
<1> QED  BY <1>3, <1>4

(* Nothing has been finished with when the task has been constructed.      *)
LEMMA DiskInit == Init => DiskInv
<1> SUFFICES ASSUME Init PROVE DiskInv
  OBVIOUS
<1>1. \A i \in Plans : aio[i] = "none" /\ ~plan[i].starting
  BY DEF Init, NoPlan, NewPlan
<1>2. Done = {}
  BY InitInv, FirstPassInit, NothingTakenUp DEF Init, Scheduled
<1>3. statusCode \in {"ok", "ctor"}
  BY DEF Init
<1> QED  BY <1>1, <1>2, <1>3 DEF DiskInv, RequestRight, DoneRight, VerdictRight

(* A plan that moves on: its slice joins what has been done.               *)
LEMMA DiskAdvance ==
  ASSUME EngineInv, IInv', DiskInv, NEW i \in Plans, Scheduled, Scheduled',
         plan' = [plan EXCEPT ![i] = NextSlice(plan[i])],
         cursor' = IF Sequential THEN AdvanceCursor(NextSlice(plan[i])) ELSE cursor,
         plan[i].starting => aio[i] \in {"none", "ok"}, CompletionStatus(i) = "ok",
         UNCHANGED <<disk, statusCode, failLBA>>,
         Kind = "compare" => buffer' = buffer,
         \A k \in Plans : k # i => aio'[k] = aio[k],
         aio'[i] = "busy" \/ (aio'[i] = "ok" /\ plan'[i].nlb = 0)
  PROVE  DiskInv'
<1>1. \A k \in Plans : k # i => plan'[k] = plan[k]
  BY DEF EngineInv, IInv, StateTypes
<1>2. Done' = Done \cup Slice(plan[i])
  BY SliceTaken DEF EngineInv
<1>3. DoneRight'
  BY <1>2, SliceGood DEF DoneRight, DiskInv, EngineInv, Expected, HeaderAt, PatternAt
<1>4. ASSUME NEW k \in Plans, k # i
      PROVE  RequestRight(k)'
  BY <1>1, <1>4 DEF DiskInv, RequestRight, Slice, ReadBack, Memory, PingPong, Expected, HeaderAt, PatternAt
<1>5. RequestRight(i)'
  <2>1. CASE aio'[i] = "busy"
    BY <2>1 DEF RequestRight
  <2>2. CASE aio'[i] = "ok" /\ plan'[i].nlb = 0
    <3>1. plan'[i].slba \in Nat
      BY DEF IInv, StateTypes, PlanRec
    <3> QED  BY <2>2, <3>1 DEF RequestRight, Slice
  <2> QED  BY <2>1, <2>2
<1>6. VerdictRight'
  BY DEF DiskInv, VerdictRight, HeaderAt, PatternAt
<1> QED  BY <1>3, <1>4, <1>5, <1>6 DEF DiskInv

(* A request that ends, having moved the first n blocks of its slice: all  *)
(* of them if it reports success.                                          *)
LEMMA DiskFinish ==
  ASSUME EngineInv, DiskInv, NEW i \in Plans, NEW n \in 0 .. plan[i].nlb,
         NEW result \in {"ok", "failed"}, result = "ok" => n = plan[i].nlb,
         Finish(i, n, result)
  PROVE  DiskInv'
<1> USE EngineAssumption
<1> DEFINE p == plan[i]
           m == Memory(p)
<1>1. /\ UNCHANGED <<plan, cursor, pc, idx, stop, statusCode, failLBA>>
      /\ aio[i] = "busy" /\ aio' = [aio EXCEPT ![i] = result]
  BY DEF Finish, resultVars
<1>2. aio'[i] = result /\ \A k \in Plans : k # i => aio'[k] = aio[k]
  BY <1>1 DEF EngineInv, IInv, StateTypes
<1>3. Done' = Done
  BY <1>1, JobFrame DEF Scheduled
<1>4. p.slba \in Nat /\ p.nlb \in Nat /\ p.nlb <= NlbPerBuf /\ n \in Nat /\ n <= p.nlb
  BY SliceFacts DEF EngineInv
<1>5. CASE Kind = "fill"
  <2>1. /\ disk' = [l \in DOMAIN disk |-> IF l \in p.slba .. (p.slba + n - 1)
                                          THEN buffer[i][m][l - p.slba] ELSE disk[l]]
    BY <1>5 DEF Finish, MoveBlocks
  <2>2. p.slba .. (p.slba + n - 1) \subseteq Slice(p)
    BY <1>4 DEF Slice
  <2>3. ASSUME NEW l \in Extent, l \notin Slice(p)
        PROVE  disk'[l] = disk[l]
    BY <2>1, <2>2, <2>3, SliceFacts DEF EngineInv
  <2>4. DoneRight'
    <3>1. \A l \in Done : l \in Extent /\ l \notin Slice(p)
      BY SliceFacts DEF EngineInv, Done
    <3> QED  BY <1>3, <2>3, <3>1 DEF DiskInv, DoneRight, Expected, HeaderAt, PatternAt
  <2>5. ASSUME NEW k \in Plans, k # i
        PROVE  RequestRight(k)'
    <3>1. \A l \in Slice(plan[k]) : disk'[l] = disk[l]
      BY <2>3, <2>5, SliceFacts DEF EngineInv
    <3> QED  BY <1>1, <1>2, <1>5, <2>5, <3>1
             DEF DiskInv, RequestRight, Slice, Expected, HeaderAt, PatternAt
  <2>6. ASSUME result = "ok", NEW l \in Slice(p)
        PROVE  disk'[l] = Expected(l)
    <3>1. DataRight(i)
      BY <1>5 DEF EngineInv, DataInv
    <3>2. l - p.slba \in 0 .. (p.nlb - 1) /\ p.slba + (l - p.slba) = l /\ l \in DOMAIN disk
      BY <2>6, SliceFacts DEF EngineInv
    <3>3. buffer[i][m][l - p.slba] = Expected(l)
      BY <1>1, <3>1, <3>2 DEF DataRight
    <3>4. l \in p.slba .. (p.slba + n - 1)
      BY <1>4, <2>6 DEF Slice
    <3> QED  BY <2>1, <3>2, <3>3, <3>4
  <2>7. RequestRight(i)'
    BY <1>1, <1>2, <1>5, <2>6 DEF RequestRight, Slice, Expected, HeaderAt, PatternAt
  <2>8. VerdictRight'
    BY <1>5 DEF VerdictRight
  <2> QED  BY <2>4, <2>5, <2>7, <2>8 DEF DiskInv
<1>6. CASE Kind = "compare"
  <2>1. /\ buffer' = [buffer EXCEPT ![i][m] =
                       [k \in 0..(NlbPerBuf - 1) |-> IF k < n THEN disk[p.slba + k] ELSE @[k]]]
        /\ disk' = disk
    BY <1>6 DEF Finish, MoveBlocks
  <2>2. m \in 0 .. 1 /\ buffer \in [Plans -> [0..1 -> Buffer]]
    BY MemoryType DEF EngineInv, IInv, StateTypes
  <2>3. /\ \A k \in Plans : k # i => buffer'[k] = buffer[k]
        /\ buffer'[i][m] = [k \in 0..(NlbPerBuf - 1) |->
                             IF k < n THEN disk[p.slba + k] ELSE buffer[i][m][k]]
    <3> HIDE DEF p, m
    <3> QED  BY <2>1, <2>2
  <2>4. ASSUME NEW k \in Plans, k # i
        PROVE  RequestRight(k)'
    BY <1>1, <1>2, <1>6, <2>1, <2>3, <2>4 DEF DiskInv, RequestRight, ReadBack, Memory, PingPong
  <2>5. ASSUME result = "ok", NEW k \in 0 .. (p.nlb - 1)
        PROVE  buffer'[i][m][k] = disk[p.slba + k]
    BY <1>4, <2>3, <2>5
  <2>6. RequestRight(i)'
    BY <1>1, <1>2, <1>6, <2>1, <2>5 DEF RequestRight, ReadBack, Memory, PingPong
  <2>7. DoneRight' /\ VerdictRight'
    BY <1>1, <1>3, <2>1 DEF DiskInv, DoneRight, VerdictRight, Expected, HeaderAt, PatternAt
  <2> QED  BY <2>4, <2>6, <2>7 DEF DiskInv
<1>7. CASE Kind = "read"
  BY <1>1, <1>2, <1>7 DEF DiskInv, RequestRight, DoneRight, VerdictRight
<1> QED  BY <1>5, <1>6, <1>7
-----------------------------------------------------------------------------
(* A comparison that failed names a block that differs on the disk.        *)
LEMMA DiskFailed == EngineInv /\ DiskInv /\ PlanFailed => DiskInv'
<1> SUFFICES ASSUME EngineInv, DiskInv, PlanFailed PROVE DiskInv'
  OBVIOUS
<1>1. /\ idx \in Plans /\ Finished(idx) /\ pc = "scan" /\ pc' = "cancel" /\ Scheduled
      /\ failLBA' = plan[idx].slba + ErrOffset(idx) /\ statusCode' = CompletionStatus(idx)
      /\ UNCHANGED <<plan, cursor, aio, buffer, disk>>
  BY ScanIndex, ScanningScheduled DEF PlanFailed, Scanning, requestVars, EngineInv
<1>2. UNCHANGED <<Todo, InFlight, Done>>
  <2>1. Scheduled'
    BY <1>1 DEF Scheduled, CompletionStatus
  <2> QED  BY <1>1, <2>1, JobFrame
<1>3. DoneRight' /\ \A i \in Plans : RequestRight(i)'
  BY <1>1, <1>2 DEF DiskInv, DoneRight, RequestRight, Slice, ReadBack, Memory, PingPong,
                    Expected, HeaderAt, PatternAt
<1>4. ASSUME statusCode' \in {"stamp", "data"}
      PROVE  /\ Compares(idx)
             /\ \A k \in 0 .. (plan[idx].nlb - 1) : ReadBack(idx)[k] = disk[plan[idx].slba + k]
  <2>1. Compares(idx) /\ plan[idx].starting /\ aio[idx] \notin {"failed", "canceled"}
    BY <1>1, <1>4 DEF CompletionStatus
  <2>2. aio[idx] = "ok"
    BY <1>1, <2>1 DEF Finished, DiskInv, RequestRight, EngineInv, IInv, StateTypes, RequestState
  <2> QED  BY <1>1, <2>1, <2>2 DEF DiskInv, RequestRight, Compares
<1>5. HeaderErrors(idx) \subseteq Nat /\ BodyErrors(idx) \subseteq Nat
  <2>1. plan[idx].nlb \in Nat
    BY <1>1, SliceFacts DEF EngineInv
  <2> QED  BY <2>1 DEF HeaderErrors, BodyErrors
<1>6. CASE statusCode' = "stamp"
  <2>1. HeaderErrors(idx) # {} /\ ErrOffset(idx) = FirstOf(HeaderErrors(idx))
    <3>1. CompletionStatus(idx) = "stamp"
      BY <1>1, <1>6
    <3>2. ErrOffset(idx) = FirstOf(HeaderErrors(idx))
      BY <3>1 DEF ErrOffset
    <3>3. HeaderErrors(idx) # {}
      BY <3>1 DEF CompletionStatus
    <3> QED  BY <3>2, <3>3
  <2>2. FirstOf(HeaderErrors(idx)) \in HeaderErrors(idx)
    BY <1>5, <2>1, FirstInSet
  <2>3. disk[failLBA'].hdr # HeaderAt(failLBA')
    BY <1>1, <1>4, <1>6, <2>1, <2>2 DEF HeaderErrors
  <2>4. VerdictRight'
    BY <1>1, <1>6, <2>3 DEF VerdictRight, HeaderAt
  <2> QED  BY <1>3, <2>4 DEF DiskInv
<1>7. CASE statusCode' = "data"
  <2>1. BodyErrors(idx) # {} /\ HeaderErrors(idx) = {} /\ ErrOffset(idx) = FirstOf(BodyErrors(idx))
    <3>1. CompletionStatus(idx) = "data"
      BY <1>1, <1>7
    <3>2. ErrOffset(idx) = FirstOf(BodyErrors(idx))
      BY <3>1 DEF ErrOffset
    <3>3. BodyErrors(idx) # {} /\ HeaderErrors(idx) = {}
      BY <1>4, <1>7, <3>1 DEF CompletionStatus
    <3> QED  BY <3>2, <3>3
  <2>2. FirstOf(BodyErrors(idx)) \in BodyErrors(idx)
    BY <1>5, <2>1, FirstInSet
  <2>3. disk[failLBA'].body # PatternAt(failLBA') /\ disk[failLBA'].hdr = HeaderAt(failLBA')
    BY <1>1, <1>4, <1>7, <2>1, <2>2 DEF HeaderErrors, BodyErrors
  <2>4. VerdictRight'
    BY <1>1, <1>7, <2>3 DEF VerdictRight, HeaderAt, PatternAt
  <2> QED  BY <1>3, <2>4 DEF DiskInv
<1>8. CASE statusCode' \notin {"stamp", "data"}
  BY <1>3, <1>8 DEF DiskInv, VerdictRight
<1> QED  BY <1>6, <1>7, <1>8

(* Steps that leave the plans, the disk and what was read alone.           *)
LEMMA DiskFrame ==
  ASSUME DiskInv, UNCHANGED <<plan, cursor, disk, statusCode, failLBA>>,
         Scheduled <=> Scheduled', Kind = "compare" => buffer' = buffer,
         \A i \in Plans : aio'[i] = aio[i] \/ aio'[i] = "canceled"
  PROVE  DiskInv'
<1>1. Done' = Done
  BY JobFrame
<1>2. ASSUME NEW i \in Plans
      PROVE  RequestRight(i)'
  BY DEF DiskInv, RequestRight, Slice, ReadBack, Memory, PingPong, Expected, HeaderAt, PatternAt
<1> QED  BY <1>1, <1>2 DEF DiskInv, DoneRight, VerdictRight, Expected, HeaderAt, PatternAt

(* issue() makes plans that have no slice yet.                             *)
LEMMA DiskRoutine == EngineInv /\ DiskInv /\ Routine => DiskInv'
<1> SUFFICES ASSUME EngineInv, DiskInv, Routine PROVE DiskInv'
  OBVIOUS
<1>1. ~Scheduled /\ pc = "start" /\ UNCHANGED <<cursor, aio, buffer, disk, statusCode, failLBA>>
  BY DEF Routine, Scheduled, requestVars, resultVars
<1>2. statusCode \in {"ok", "ctor"}
  BY <1>1 DEF EngineInv, IInv, PhaseInv
<1>3. CASE statusCode = "ok"
  <2>1. Done' = {}
    BY <1>3, PartsCover DEF EngineInv
  <2>2. ASSUME NEW i \in Plans
        PROVE  aio'[i] = "none" /\ ~plan'[i].starting
    <3>1. plan[i] = NoPlan
      BY <1>1 DEF EngineInv, IInv, PhaseInv
    <3>2. ~plan[i].starting
      BY <3>1 DEF NoPlan, NewPlan
    <3>3. aio[i] = "none"
      BY <3>2 DEF EngineInv, FirstPassInv
    <3>4. plan'[i] = NewPlan(Slba + PlanBegin(i, Nlb, QDepth, NlbPerBuf),
                             PlanLength(i, Nlb, QDepth, NlbPerBuf))
      BY <1>3 DEF Routine
    <3> QED  BY <1>1, <3>3, <3>4 DEF NewPlan
  <2> QED  BY <1>1, <1>3, <2>1, <2>2 DEF DiskInv, DoneRight, RequestRight, VerdictRight
<1>4. CASE statusCode # "ok"
  <2>1. UNCHANGED plan /\ ~Scheduled'
    BY <1>1, <1>2, <1>4 DEF Routine, Scheduled
  <2> QED  BY <1>1, <2>1, DiskFrame
<1> QED  BY <1>3, <1>4

(* A request that comes to its end, when none is short.                    *)
LEMMA DiskRequest ==
  ASSUME "short" \notin Faults, EngineInv, DiskInv, NEW i \in Plans, Request(i)
  PROVE  DiskInv'
<1>1. plan[i].nlb \in Nat
  BY SliceFacts DEF EngineInv
<1>2. CASE Complete(i)
  <2>1. plan[i].nlb \in 0 .. plan[i].nlb
    BY <1>1
  <2> QED  BY <1>2, <2>1, DiskFinish DEF Complete
<1>3. CASE CompleteWithError(i)
  <2>1. PICK n \in 0 .. (plan[i].nlb - 1) : Finish(i, n, "failed")
    BY <1>3 DEF CompleteWithError
  <2>2. n \in 0 .. plan[i].nlb
    BY <1>1
  <2> QED  BY <2>1, <2>2, DiskFinish
<1> QED  BY <1>2, <1>3 DEF Request, CompleteShort

(* The invariant is kept by every step.                                    *)
LEMMA DiskStep ==
  ASSUME NoneLost, EngineInv, DiskInv, [Next]_vars
  PROVE  DiskInv'
<1>1. IInv' /\ IInv /\ FirstPassInv
  BY StepInv DEF EngineInv
<1>2. CASE Routine
  BY <1>2, DiskRoutine
<1>3. CASE StillRunning \/ PreFill \/ EndPass
  <2>1. /\ UNCHANGED <<plan, cursor, aio, disk, statusCode, failLBA>>
        /\ pc # "start" /\ pc' # "start"
    BY <1>3 DEF StillRunning, Scanning, PreFill, EndPass, requestVars, resultVars
  <2>2. Kind = "compare" => buffer' = buffer
    <3>1. CASE PreFill
      BY <1>1, <3>1 DEF PreFill, FirstPassInv
    <3>2. CASE StillRunning \/ EndPass
      BY <3>2 DEF StillRunning, EndPass, requestVars
    <3> QED  BY <1>3, <3>1, <3>2
  <2>3. Scheduled <=> Scheduled'
    BY <2>1 DEF Scheduled
  <2> QED  BY <2>1, <2>2, <2>3, DiskFrame
<1>4. CASE IssueNext
  <2>1. Kind = "compare" => buffer' = buffer
    <3> SUFFICES ASSUME Kind = "compare" PROVE buffer' = buffer
      OBVIOUS
    <3>1. buffer' = [buffer EXCEPT ![idx][Memory(NextSlice(plan[idx]))] = @]
      BY <1>4 DEF IssueNext, PreparedForIssue
    <3>2. buffer \in [Plans -> [0..1 -> Buffer]]
      BY <1>1 DEF IInv, StateTypes
    <3> QED  BY <3>1, <3>2, MemoryType
  <2>2. aio'[idx] = "busy" /\ UNCHANGED <<disk, statusCode, failLBA>>
    BY <1>1, <1>4, IssueEffect DEF NoneLost, IssueNext, resultVars
  <2> QED  BY <1>1, <1>4, <2>1, <2>2, IssueEffect, DiskAdvance
<1>5. CASE PlanExhausted
  <2>1. plan[idx].starting
    BY <1>1, <1>5, ExhaustEffect, FirstSliceExists DEF PlanExhausted
  <2>2. aio[idx] = "ok"
    BY <1>1, <1>5, <2>1, ExhaustEffect DEF DiskInv, RequestRight
  <2> QED  BY <1>1, <1>5, <2>2, ExhaustEffect, DiskAdvance
<1>6. CASE PlanFailed
  BY <1>6, DiskFailed
<1>7. CASE CancelPlan
  <2>1. /\ UNCHANGED <<plan, cursor, buffer, disk, pc, statusCode, failLBA>>
        /\ \A i \in Plans : aio'[i] = aio[i] \/ aio'[i] = "canceled"
    BY <1>1, <1>7 DEF CancelPlan, resultVars, IInv, StateTypes
  <2> QED  BY <2>1, DiskFrame DEF Scheduled
<1>8. CASE \E i \in Plans : Request(i)
  BY <1>8, DiskRequest DEF NoneLost
<1>9. CASE UNCHANGED vars
  <2>1. UNCHANGED <<plan, cursor, aio, buffer, disk, pc, statusCode, failLBA>>
    BY <1>9 DEF vars
  <2> QED  BY <2>1, DiskFrame DEF Scheduled
<1> QED  BY <1>2, <1>3, <1>4, <1>5, <1>6, <1>7, <1>8, <1>9 DEF Next, Engine

(* The engine's invariant is kept by every step of the engine.             *)
LEMMA EngineStep == EngineInv /\ [Next]_vars => EngineInv'
BY StepInv, FirstPassStep, DataStep, EndStep DEF EngineInv

(* The strengthened invariant holds of every behaviour.                    *)
LEMMA EngineInvariant == Spec => []EngineInv
<1>1. Init => EngineInv
  BY InitInv, FirstPassInit, DataInit, EndInit DEF EngineInv
<1> QED  BY <1>1, EngineStep, PTL DEF Spec

(* So does what it says of the disk, if no request is lost.                *)
LEMMA DiskInvariant ==
  ASSUME NoneLost
  PROVE  Spec => []DiskInv
<1>1. EngineInv /\ DiskInv /\ [Next]_vars => DiskInv'
  BY DiskStep
<1> QED  BY <1>1, DiskInit, EngineInvariant, PTL DEF Spec

(* Theorem: a block a fill has finished with holds the pattern on the      *)
(* disk, whatever fails later, provided that no request is lost.           *)
THEOREM DoneWritten ==
  ASSUME NoneLost
  PROVE  Spec => []DoneIsWritten
<1>1. DiskInv => DoneIsWritten
  BY DEF DiskInv, DoneRight, DoneIsWritten
<1> QED  BY <1>1, DiskInvariant, PTL

(* Theorem: a compare that returns success has seen the whole range as     *)
(* expected, and one that reports a mismatch names a block that differs,   *)
(* for every disk, provided that no request is lost.                       *)
THEOREM Verdict ==
  ASSUME NoneLost
  PROVE  Spec => []VerdictSound
<1>1. EngineInv /\ DiskInv => VerdictSound
  <2> SUFFICES ASSUME EngineInv, DiskInv, Kind = "compare", pc = "returned", statusCode = "ok"
               PROVE  \A l \in Extent : disk[l] = Expected(l)
    BY DEF VerdictSound, DiskInv, VerdictRight
  <2>1. Todo = {} /\ InFlight = {}
    BY AllExhausted DEF EngineInv, EndInv, Scheduled
  <2>2. Done = Extent
    BY <2>1 DEF Done
  <2> QED  BY <2>2 DEF DiskInv, DoneRight
<1> QED  BY <1>1, EngineInvariant, DiskInvariant, PTL
-----------------------------------------------------------------------------
(* The command around the task.  Once the task is deleted only the         *)
(* requests it left behind still change anything.                          *)
CommandInv ==
  /\ EngineInv
  /\ step # "routine" => pc = "returned"
  /\ step # "routine" /\ statusCode # "ok" => lastFailLba = failLBA
  /\ step = "exit" => dump.lba = lastFailLba /\ dump.sc = StatusWord(statusCode)

WrittenInv == DoneRight /\ (~TaskDeleted => DiskInv)

(* A request that outlives its task was in flight: it is not of a plan     *)
(* without a slice, and touches nothing but the blocks of its slice.       *)
LEMMA LateEffect ==
  ASSUME EngineInv, pc = "returned", NEW i \in Plans, LateRequest(i)
  PROVE  /\ UNCHANGED <<plan, cursor, buffer, pc, idx, stop, statusCode, failLBA, Todo, InFlight, Done>>
         /\ EngineInv'
         /\ \A l \in Done : disk'[l] = disk[l]
<1>1. /\ UNCHANGED <<plan, cursor, buffer, pc, idx, stop, update, statusCode, failLBA>>
      /\ aio[i] = "busy" /\ aio' = [aio EXCEPT ![i] = "ok"]
  BY DEF LateRequest, resultVars
<1>2. UNCHANGED <<Todo, InFlight, Done>>
  BY <1>1, JobFrame DEF Scheduled
<1>3. aio' \in [Plans -> RequestState] /\ aio'[i] = "ok" /\ \A k \in Plans : k # i => aio'[k] = aio[k]
  BY <1>1 DEF EngineInv, IInv, StateTypes, RequestState
<1>4. /\ DOMAIN disk' = DOMAIN disk /\ disk' \in [DOMAIN disk -> Block]
      /\ \A l \in DOMAIN disk : l \notin Slice(plan[i]) => disk'[l] = disk[l]
  <2>1. disk \in [DOMAIN disk -> Block] /\ Garbage \in Block
    BY DEF EngineInv, IInv, StateTypes, Garbage, Block
  <2>2. CASE Kind = "fill"
    <3>1. PICK spoilt \in SUBSET Slice(plan[i]) :
            disk' = [l \in DOMAIN disk |-> IF l \in spoilt THEN Garbage ELSE disk[l]]
      BY <2>2 DEF LateRequest
    <3> QED  BY <2>1, <3>1
  <2>3. CASE Kind # "fill"
    BY <2>1, <2>3 DEF LateRequest
  <2> QED  BY <2>2, <2>3
<1>5. StateTypes'
  BY <1>1, <1>3, <1>4 DEF EngineInv, IInv, StateTypes, Extent
<1>6. IInv'
  BY <1>1, <1>5, FramePreserves DEF EngineInv, Scheduled
<1>7. FirstPassInv'
  BY <1>1, <1>3 DEF EngineInv, FirstPassInv, AllStarted, Scheduled
<1>8. DataInv'
  BY <1>1, <1>3, DataFrame DEF EngineInv
<1>9. EndInv'
  BY <1>1, <1>2, <1>3 DEF EngineInv, EndInv, Exhausted
<1>10. \A l \in Done : disk'[l] = disk[l]
  BY <1>4, SliceFacts DEF EngineInv, Done
<1> QED  BY <1>1, <1>2, <1>6, <1>7, <1>8, <1>9, <1>10 DEF EngineInv

(* The engine does nothing more once the task has returned, but its        *)
(* requests may still come to an end.                                      *)
LEMMA ReturnedStays ==
  ASSUME pc = "returned", Next
  PROVE  UNCHANGED <<pc, statusCode, failLBA>>
BY DEF Next, Engine, Routine, StillRunning, Scanning, IssueNext, PreFill, PlanExhausted, PlanFailed,
       CancelPlan, EndPass, Request, Complete, CompleteShort, CompleteWithError, Finish, resultVars

(* A step of the command is one of the engine, or leaves the engine alone. *)
LEMMA CommandStep == CommandInv /\ [CommandNext]_<<vars, commandVars>> => CommandInv'
<1> SUFFICES ASSUME CommandInv, [CommandNext]_<<vars, commandVars>> PROVE CommandInv'
  OBVIOUS
<1>1. CASE Next /\ UNCHANGED commandVars
  <2>1. EngineInv'
    BY <1>1, EngineStep DEF CommandInv
  <2>2. step # "routine" => UNCHANGED <<pc, statusCode, failLBA>>
    BY <1>1, ReturnedStays DEF CommandInv
  <2> QED  BY <1>1, <2>1, <2>2 DEF CommandInv, commandVars
<1>2. CASE TaskReturned \/ DeleteTask \/ SaveDump
  <2>1. EngineInv' /\ UNCHANGED <<pc, statusCode, failLBA>>
    BY <1>2, EngineStep DEF TaskReturned, DeleteTask, SaveDump, CommandInv, vars
  <2> QED  BY <1>2, <2>1 DEF TaskReturned, DeleteTask, SaveDump, CommandInv
<1>3. CASE \E i \in Plans : LateRequest(i)
  <2>1. EngineInv' /\ UNCHANGED <<pc, statusCode, failLBA, step, lastFailLba, dump>>
    BY <1>3, LateEffect DEF LateRequest, CommandInv, TaskDeleted, commandVars
  <2> QED  BY <2>1 DEF CommandInv
<1>4. CASE UNCHANGED <<vars, commandVars>>
  <2>1. EngineInv' /\ UNCHANGED <<pc, statusCode, failLBA, step, lastFailLba, dump>>
    BY <1>4, EngineStep DEF CommandInv, commandVars, vars
  <2> QED  BY <2>1 DEF CommandInv
<1> QED  BY <1>1, <1>2, <1>3, <1>4 DEF CommandNext

(* The invariant of the command holds of every behaviour.                  *)
LEMMA CommandInvariant == CommandSpec => []CommandInv
<1>1. CommandInit => CommandInv
  BY InitInv, FirstPassInit, DataInit, EndInit DEF CommandInit, CommandInv, EngineInv
<1> QED  BY <1>1, CommandStep, PTL DEF CommandSpec

(* Theorem: the dump of a command whose request failed, or whose data did  *)
(* not compare, names a block that was being worked on, with a status no   *)
(* successful command has.                                                 *)
THEOREM DumpNames == CommandSpec => []DumpNamesFailedBlock
<1>1. CommandInv => DumpNamesFailedBlock
  <2> SUFFICES ASSUME CommandInv, step = "exit", statusCode \in {"io", "stamp", "data"}
               PROVE  dump.lba \in InFlight /\ dump.sc \notin {0, AllOnes}
    BY DEF DumpNamesFailedBlock
  <2>1. dump.lba = failLBA /\ dump.sc = StatusWord(statusCode)
    BY DEF CommandInv
  <2>2. failLBA \in InFlight
    BY DEF CommandInv, EngineInv, EndInv
  <2>3. StatusWord(statusCode) \notin {0, AllOnes}
    BY DEF StatusWord, AllOnes
  <2> QED  BY <2>1, <2>2, <2>3
<1> QED  BY <1>1, CommandInvariant, PTL

(* Theorem: under the command, too, the slices stay apart, a write in      *)
(* flight has its data, and success leaves nothing in flight.              *)
THEOREM CommandSafe ==
  CommandSpec => [](SlicesDisjoint /\ InFlightDataRight /\ SuccessLeavesNothingInFlight)
<1>1. CommandInv => SlicesDisjoint
  BY InvDisjoint DEF CommandInv, EngineInv
<1>2. CommandInv => InFlightDataRight
  BY DEF CommandInv, EngineInv, DataInv, DataRight, InFlightDataRight
<1>3. CommandInv => SuccessLeavesNothingInFlight
  BY AllExhausted DEF CommandInv, EngineInv, EndInv, SuccessLeavesNothingInFlight, Scheduled
<1> QED  BY <1>1, <1>2, <1>3, CommandInvariant, PTL

(* Theorem: the command implements RangeJob, because a request that is     *)
(* left behind changes neither a plan nor the cursor.                      *)
THEOREM CommandJob == CommandSpec => ImplementsRangeJob
<1>1. CommandInv /\ [CommandNext]_<<vars, commandVars>> => [Job!Next]_Job!vars
  <2> SUFFICES ASSUME CommandInv, [CommandNext]_<<vars, commandVars>>
               PROVE  [Job!Next]_Job!vars
    OBVIOUS
  <2>1. CASE Next \/ UNCHANGED vars
    BY <2>1, JobStep DEF CommandInv, EngineInv
  <2>2. CASE \E i \in Plans : LateRequest(i)
    <3>1. UNCHANGED <<Todo, InFlight, Done, pc, statusCode>>
      BY <2>2, LateEffect DEF CommandInv, LateRequest, TaskDeleted
    <3> QED  BY <3>1 DEF Job!vars, Outcome
  <2> QED  BY <2>1, <2>2 DEF CommandNext, TaskReturned, DeleteTask, SaveDump
<1> QED  BY <1>1, CommandInvariant, JobInit, PTL DEF CommandSpec, CommandInit, ImplementsRangeJob, Job!Spec

(* What has been written stays, even when the requests that are left       *)
(* behind read memory that has been freed.                                 *)
LEMMA WrittenStep ==
  ASSUME NoneLost, CommandInv, WrittenInv, [CommandNext]_<<vars, commandVars>>
  PROVE  WrittenInv'
<1>1. CASE ~TaskDeleted /\ Next /\ UNCHANGED commandVars
  BY <1>1, DiskStep DEF CommandInv, WrittenInv, DiskInv, TaskDeleted, commandVars
<1>2. CASE UNCHANGED vars
  <2>1. DiskInv => DiskInv'
    BY <1>2, DiskStep DEF CommandInv
  <2>2. DoneRight'
    <3>1. Done' = Done /\ disk' = disk
      BY <1>2, JobFrame DEF vars, Scheduled
    <3> QED  BY <3>1 DEF WrittenInv, DoneRight, Expected, HeaderAt, PatternAt
  <2>3. TaskDeleted => TaskDeleted'
    <3>1. CASE TaskReturned \/ DeleteTask \/ SaveDump
      BY <3>1 DEF TaskReturned, DeleteTask, SaveDump, TaskDeleted
    <3>2. CASE UNCHANGED commandVars
      BY <3>2 DEF commandVars, TaskDeleted
    <3> QED  BY <3>1, <3>2 DEF CommandNext, LateRequest
  <2> QED  BY <2>1, <2>2, <2>3 DEF WrittenInv
<1>3. CASE \E i \in Plans : LateRequest(i)
  <2>1. Done' = Done /\ (\A l \in Done : disk'[l] = disk[l]) /\ TaskDeleted'
    BY <1>3, LateEffect DEF LateRequest, CommandInv, TaskDeleted, commandVars
  <2> QED  BY <2>1 DEF WrittenInv, DoneRight, Expected, HeaderAt, PatternAt
<1> QED
  BY <1>1, <1>2, <1>3 DEF CommandNext, TaskReturned, DeleteTask, SaveDump

(* Theorem: the blocks a fill had finished with survive what the requests  *)
(* it leaves behind may still do to the disk, if no request was lost.      *)
THEOREM FinishedSurvive ==
  ASSUME NoneLost
  PROVE  CommandSpec => []FinishedBlocksSurvive
<1>1. CommandInit => WrittenInv
  BY DiskInit DEF CommandInit, WrittenInv, DiskInv
<1>2. CommandInv /\ WrittenInv /\ [CommandNext]_<<vars, commandVars>> => WrittenInv'
  BY WrittenStep
<1>3. WrittenInv => FinishedBlocksSurvive
  BY DEF WrittenInv, DoneRight, FinishedBlocksSurvive, DoneIsWritten
<1> QED  BY <1>1, <1>2, <1>3, CommandInvariant, PTL DEF CommandSpec
=============================================================================
