--------------------------- MODULE NvmeQueueProofs ---------------------------
(***************************************************************************)
(* The completion ring of any depth, alone and in the queue pair.          *)
(*                                                                         *)
(* PhaseTellsPosted follows from where the host is between the doorbell    *)
(* and the controller's tail (RingInv).  In the queue pair every step of   *)
(* every thread, in whatever order, is one of the ring or leaves it alone  *)
(* (RingStep), so that the invariant carries over; and the queue's         *)
(* variables keep their types (TypeStep).                                  *)
(***************************************************************************)
EXTENDS NvmeQueue, FiniteSetTheorems, TLAPS

(***************************************************************************)
(* The ring alone.  Positions are measured from the doorbell, the last     *)
(* place the host has told the controller of: Off counts slots from there  *)
(* on, and the phase of a slot is that of the doorbell up to the end of    *)
(* the ring and the other one from its start.  The host is never ahead of  *)
(* the controller, and the memory holds devPhase below devTail and the     *)
(* other phase above.                                                      *)
(***************************************************************************)
Off(x) == IF x >= cqDb THEN x - cqDb ELSE x - cqDb + Depth
DbPhase == IF devTail >= cqDb THEN devPhase ELSE 1 - devPhase
PhaseAt(x) == IF x >= cqDb THEN DbPhase ELSE 1 - DbPhase

MemoryInv == \A i \in Slots : cqes[i].phase = IF i < devTail THEN devPhase ELSE 1 - devPhase

HeadInv == cqPhase = PhaseAt(cqHead) /\ Off(cqHead) <= Off(devTail)

ScanInv ==
  scan.on => scan.phase = PhaseAt(scan.head) /\ Off(scan.head) <= Off(devTail)

RingInv == RingTypeOK /\ (synced => MemoryInv /\ HeadInv /\ ScanInv)

-----------------------------------------------------------------------------
(* The successor of a slot is a slot, and of a phase a phase.              *)
LEMMA NextTypes ==
  ASSUME NEW h \in Slots, NEW p \in Phases
  PROVE  NextSlot(h) \in Slots /\ NextPhase(h, p) \in Phases
BY DepthAssumption DEF NextSlot, NextPhase, Slots, Phases

LEMMA ClearedType == Cleared \in [Slots -> [phase: Phases, entry: Entries]]
BY EntriesAssumption DEF Cleared, Phases

LEMMA ClearedPhase == \A i \in Slots : Cleared[i].phase = 0
BY DEF Cleared

(* The ring as it is made.                                                 *)
LEMMA InitInv == RingInit => RingInv
<1> SUFFICES ASSUME RingInit PROVE RingInv
  OBVIOUS
<1>1. RingTypeOK
  BY ClearedType, DepthAssumption DEF RingInit, RingTypeOK, Idle, Slots, Phases
<1>2. MemoryInv
  BY ClearedPhase DEF RingInit, MemoryInv, Slots
<1>3. HeadInv /\ ScanInv
  BY DepthAssumption DEF RingInit, HeadInv, ScanInv, Idle, Off, PhaseAt, DbPhase
<1> QED
  BY <1>1, <1>2, <1>3 DEF RingInv

(* A posted entry lies below the new tail, and the tail does not pass the  *)
(* doorbell.                                                               *)
LEMMA PostInv ==
  ASSUME RingInv, synced, NEW e \in Entries, Post(e)
  PROVE  RingInv'
<1> USE DepthAssumption
<1>1. RingTypeOK'
  BY NextTypes DEF RingInv, RingTypeOK, Post
<1>2. MemoryInv'
  BY DEF RingInv, RingTypeOK, Post, MemoryInv, NextSlot, NextPhase, Slots, Phases
<1>3. Off(devTail)' = Off(devTail) + 1
  BY DEF RingInv, RingTypeOK, Post, NextSlot, Off, Slots
<1>4. DbPhase' = DbPhase
  BY DEF RingInv, RingTypeOK, Post, NextSlot, NextPhase, DbPhase, Slots, Phases
<1>5. HeadInv'
  <2>1. cqPhase' = PhaseAt(cqHead)'
    BY <1>4 DEF RingInv, HeadInv, Post, PhaseAt
  <2>2. Off(cqHead)' = Off(cqHead) /\ Off(cqHead) \in Int /\ Off(devTail) \in Int
    BY DEF RingInv, RingTypeOK, Post, Off, Slots
  <2> QED
    BY <1>3, <2>1, <2>2 DEF RingInv, HeadInv
<1>6. ScanInv'
  <2> SUFFICES ASSUME scan.on PROVE scan.phase = PhaseAt(scan.head)' /\ Off(scan.head)' <= Off(devTail)'
    BY DEF ScanInv, Post
  <2>1. scan.phase = PhaseAt(scan.head)'
    BY <1>4 DEF RingInv, ScanInv, Post, PhaseAt
  <2>2. Off(scan.head)' = Off(scan.head) /\ Off(scan.head) \in Int /\ Off(devTail) \in Int
    BY DEF RingInv, RingTypeOK, Post, Off, Slots
  <2> QED
    BY <1>3, <2>1, <2>2 DEF RingInv, ScanInv
<1> QED
  BY <1>1, <1>2, <1>5, <1>6 DEF RingInv

(* The host's copy of the head is its head.                                *)
LEMMA BeginScanInv ==
  ASSUME RingInv, BeginScan
  PROVE  RingInv'
<1>1. RingTypeOK'
  BY DEF RingInv, RingTypeOK, BeginScan
<1>2. synced => (MemoryInv /\ HeadInv /\ ScanInv)'
  BY DEF RingInv, RingTypeOK, BeginScan, MemoryInv, HeadInv, ScanInv, Off, PhaseAt, DbPhase
<1> QED
  BY <1>1, <1>2 DEF RingInv, BeginScan

(* An entry with the expected phase is not at the tail, so that the host   *)
(* may go on by one.                                                       *)
LEMMA ConsumeInv ==
  ASSUME RingInv, Consume
  PROVE  RingInv'
<1> USE DepthAssumption
<1>1. RingTypeOK'
  BY NextTypes DEF RingInv, RingTypeOK, Consume
<1>2. synced => (MemoryInv /\ HeadInv)'
  BY DEF RingInv, Consume, MemoryInv, HeadInv, Off, PhaseAt, DbPhase
<1>3. ASSUME synced PROVE ScanInv'
  <2>1. /\ scan.phase = PhaseAt(scan.head) /\ Off(scan.head) <= Off(devTail)
        /\ cqes[scan.head].phase = scan.phase
    BY <1>3 DEF RingInv, ScanInv, Consume, CqeValid
  <2>2. scan.head # devTail
    BY <1>3, <2>1 DEF RingInv, RingTypeOK, MemoryInv, PhaseAt, DbPhase, Slots, Phases
  <2>3. Off(NextSlot(scan.head)) <= Off(devTail)
    <3>1. scan.head \in Slots /\ devTail \in Slots /\ cqDb \in Slots
      BY DEF RingInv, RingTypeOK
    <3>2. Off(scan.head) < Off(devTail) /\ Off(devTail) <= Depth - 1
      BY <2>1, <2>2, <3>1 DEF Off, Slots
    <3>3. CASE scan.head + 1 # Depth
      BY <3>1, <3>2, <3>3 DEF Off, NextSlot, Slots
    <3>4. CASE scan.head + 1 = Depth
      BY <3>1, <3>2, <3>4 DEF Off, NextSlot, Slots
    <3> QED
      BY <3>3, <3>4
  <2>4. NextPhase(scan.head, scan.phase) = PhaseAt(NextSlot(scan.head))
    BY <2>1, <2>2 DEF RingInv, RingTypeOK, Off, NextSlot, NextPhase, PhaseAt, DbPhase, Slots, Phases
  <2> QED
    BY <2>3, <2>4 DEF ScanInv, Consume, Off, PhaseAt, DbPhase
<1> QED
  BY <1>1, <1>2, <1>3 DEF RingInv, Consume

(* The head becomes what was read up to, and perhaps the doorbell, too.    *)
LEMMA EndScanInv ==
  ASSUME RingInv, NEW l \in BOOLEAN, EndScan(l)
  PROVE  RingInv'
<1> USE DepthAssumption
<1>1. RingTypeOK'
  BY DEF RingInv, RingTypeOK, EndScan, Idle, Slots, Phases
<1>2. ASSUME synced PROVE MemoryInv' /\ ScanInv'
  BY <1>2 DEF RingInv, EndScan, MemoryInv, ScanInv, Idle
<1>3. ASSUME synced PROVE HeadInv'
  <2>1. scan.phase = PhaseAt(scan.head) /\ Off(scan.head) <= Off(devTail)
    BY <1>3 DEF RingInv, ScanInv, EndScan
  <2>2. CASE cqDb' = cqDb
    BY <2>1, <2>2 DEF EndScan, HeadInv, Off, PhaseAt, DbPhase
  <2>3. CASE cqDb' = scan.head
    BY <2>1, <2>3 DEF RingInv, RingTypeOK, EndScan, HeadInv, Off, PhaseAt, DbPhase, Slots, Phases
  <2> QED
    BY <2>2, <2>3 DEF EndScan
<1> QED
  BY <1>1, <1>2, <1>3 DEF RingInv, EndScan

LEMMA RecreateInv ==
  ASSUME RingInv, Recreate
  PROVE  RingInv'
<1>1. RingTypeOK'
  <2>1. 0 \in Slots /\ 1 \in Phases
    BY DepthAssumption DEF Slots, Phases
  <2> QED
    BY <2>1, Zenon DEF RingInv, RingTypeOK, Recreate
<1>2. ~synced'
  BY DEF Recreate
<1> QED
  BY <1>1, <1>2, Zenon DEF RingInv

(* nvme_init_queue makes the ring anew; a doorbell rung since it was       *)
(* created again does not matter to the host.                              *)
LEMMA InitQueueInv ==
  ASSUME RingInv, InitQueue
  PROVE  RingInv'
<1>0. synced' = NothingPosted /\ NothingPosted \in BOOLEAN
  BY DEF InitQueue, NothingPosted
<1>1. RingTypeOK'
  <2>1. synced' \in BOOLEAN
    BY <1>0, Zenon
  <2> QED
    BY <2>1, ClearedType, DepthAssumption DEF RingInv, RingTypeOK, InitQueue, Slots, Phases
<1>a. synced' => devTail' = 0 /\ devPhase' = 1
  <2>1. synced' => NothingPosted
    BY <1>0, Zenon
  <2> QED BY <2>1 DEF InitQueue, NothingPosted
<1>2. ASSUME synced' PROVE MemoryInv'
  BY <1>2, <1>a, ClearedPhase DEF InitQueue, MemoryInv, Slots
<1>3. ASSUME synced' PROVE HeadInv' /\ ScanInv'
  <2>1. cqHead' = 0 /\ devTail' = 0 /\ cqPhase' = 1 /\ devPhase' = 1 /\ ~scan'.on
    BY <1>3, <1>a DEF InitQueue
  <2>2. Off(cqHead)' = Off(devTail)' /\ Off(devTail)' \in Int /\ PhaseAt(cqHead)' = 1
    BY <1>1, <2>1, DepthAssumption DEF RingTypeOK, Off, PhaseAt, DbPhase, Slots
  <2> QED
    BY <2>1, <2>2 DEF HeadInv, ScanInv
<1> QED
  BY <1>1, <1>2, <1>3 DEF RingInv

LEMMA InvPreserved == RingInv /\ [RingNext]_ringVars => RingInv'
<1> SUFFICES ASSUME RingInv, [RingNext]_ringVars PROVE RingInv'
  OBVIOUS
<1>1. CASE \E e \in Entries : Post(e)
  <2>1. PICK e \in Entries : Post(e)
    BY <1>1
  <2>2. CASE ~synced
    BY <2>1, <2>2, NextTypes DEF RingInv, RingTypeOK, Post
  <2> QED BY <2>1, <2>2, PostInv
<1>2. CASE BeginScan
  BY <1>2, BeginScanInv
<1>3. CASE Consume
  BY <1>3, ConsumeInv
<1>4. CASE \E l \in BOOLEAN : EndScan(l)
  BY <1>4, EndScanInv
<1>5. CASE Recreate
  BY <1>5, RecreateInv
<1>6. CASE InitQueue
  BY <1>6, InitQueueInv
<1>7. CASE UNCHANGED ringVars
  BY <1>7 DEF ringVars, RingInv, RingTypeOK, MemoryInv, HeadInv, ScanInv, Off, PhaseAt, DbPhase
<1> QED
  BY <1>1, <1>2, <1>3, <1>4, <1>5, <1>6, <1>7 DEF RingNext

(* What the invariant says of the place the host looks at.                 *)
LEMMA InvTells == RingInv => PhaseTellsPosted
<1> SUFFICES ASSUME RingInv, synced PROVE PhaseTellsPosted
  BY DEF PhaseTellsPosted
<1> USE DepthAssumption
<1>1. /\ HostHead \in Slots /\ HostPhase \in Phases
      /\ HostPhase = PhaseAt(HostHead) /\ Off(HostHead) <= Off(devTail)
  BY DEF RingInv, RingTypeOK, HeadInv, ScanInv, HostHead, HostPhase
<1>2. CqeValid(HostHead, HostPhase) <=> <<HostHead, HostPhase>> # <<devTail, devPhase>>
  BY <1>1 DEF RingInv, RingTypeOK, MemoryInv, CqeValid, Off, PhaseAt, DbPhase, Slots, Phases
<1>3. ASSUME NEW i \in Posted
      PROVE  cqes[i].phase = IF i < HostHead THEN 1 - HostPhase ELSE HostPhase
  BY <1>1, <1>3 DEF RingInv, RingTypeOK, MemoryInv, Posted, Between, Off, PhaseAt, DbPhase, Slots, Phases
<1> QED
  BY <1>2, <1>3 DEF PhaseTellsPosted

(* Theorem: the ring's pointers and memory keep their types.               *)
THEOREM RingTypeCorrect == RingSpec => []RingTypeOK
<1>1. RingInv => RingTypeOK
  BY DEF RingInv
<1> QED
  BY <1>1, InitInv, InvPreserved, PTL DEF RingSpec

(* Theorem: at the slot the host looks at an entry counts as new exactly   *)
(* when the controller posted one there that was not read, for rings of    *)
(* every depth and however late the doorbell is rung.                      *)
THEOREM PhaseTag == RingSpec => []PhaseTellsPosted
BY InitInv, InvPreserved, InvTells, PTL DEF RingSpec

-----------------------------------------------------------------------------
(***************************************************************************)
(* The queue pair.                                                         *)
(***************************************************************************)

(* No step of the queue pair does to the ring what the ring alone would    *)
(* not do.                                                                 *)
LEMMA RingStep == TypeOK /\ [Next]_vars => [RingNext]_ringVars
<1> SUFFICES ASSUME TypeOK, [Next]_vars PROVE [RingNext]_ringVars
  OBVIOUS
<1>1. ASSUME NEW t \in Tags, StartRq(t) \/ TimeOut(t) \/ ResetTimer(t)
      PROVE  UNCHANGED ringVars
  BY <1>1 DEF StartRq, TimeOut, TimeoutDown, TimeoutAbort, ResetTimer
<1>2. ASSUME NEW c \in inQueueRq, SubmitRq(c) PROVE BeginScan \/ UNCHANGED ringVars
  BY <1>2 DEF SubmitRq
<1>3. ASSUME NEW c \in devBusy, Answer(c) PROVE \E e \in Entries : Post(e)
  <2>1. c \in Entries
    BY CompletionAssumption DEF TypeOK, Commands, Slots
  <2> QED BY <1>3, <2>1 DEF Answer
<1>4. CASE Fetch \/ Eventing \/ TimerReturn \/ AbortEnd \/ AskReset \/ WorkFails
  BY <1>4 DEF Fetch, Eventing, EventTake, EventSubmit, TimerReturn, AbortEnd, AskReset, WorkFails
<1>5. CASE Scanning
  <2>1. CASE IrqOrPoll \/ ScanOne
    BY <2>1 DEF IrqOrPoll, ScanOne, RingNext
  <2>2. CASE ScanEnd
    BY <2>2 DEF ScanEnd, RingNext, TypeOK
  <2> QED BY <1>5, <2>1, <2>2 DEF Scanning
<1>6. CASE GoingDown
  BY <1>6 DEF GoingDown, Quiesce, Suspend, StopAdmin, SwitchOff, Drain, PciDisable, CancelAll, RingNext
<1>7. CASE Resetting
  BY <1>7 DEF Resetting, WorkStart, WorkState, Enable, Create, Initialise, Open, Restart, RingNext
<1>8. CASE UNCHANGED vars
  BY <1>8 DEF vars
<1> QED
  BY <1>1, <1>2, <1>3, <1>4, <1>5, <1>6, <1>7, <1>8 DEF Next, RingNext

-----------------------------------------------------------------------------
(* Tags are slots.                                                         *)
LEMMA TagFacts ==
  Tags \subseteq TagSpace /\ TagSpace \subseteq Slots /\ AerId \in Slots /\ 0 \in TagSpace
BY DepthAssumption DEF Tags, TagSpace, Slots, AerId, NrAers, QueueDepth

LEMMA SlotTypes == 0 \in Slots /\ \A i \in Slots : NextSlot(i) \in Slots
BY DepthAssumption DEF Slots, NextSlot

LEMMA LimitTypes == MaxRetries \in Nat /\ AbortLimit \in Nat /\ MaxAsked \in Nat
BY QueueAssumption

(* What the ends of a request leave is a request: blk_mq_end_request,      *)
LEMMA EndedType ==
  ASSUME NEW r \in Request
  PROVE  Ended(r) \in Request
<1>1. 0 \in 0 .. MaxRetries
  BY LimitTypes
<1> QED BY <1>1 DEF Ended, Request

(* nvme_requeue_req,                                                       *)
LEMMA RequeuedType ==
  ASSUME NEW r \in Request
  PROVE  Requeued(r) \in Request
BY DEF Requeued, Request

(* nvme_complete_rq, which counts the retries up to their limit,           *)
LEMMA CompleteRqType ==
  ASSUME NEW r \in Request, NEW again
  PROVE  CompleteRq(r, again) \in Request
<1>1. CASE again /\ r.retries < MaxRetries
  <2> DEFINE m == [r EXCEPT !.retries = @ + 1]
  <2>1. r.retries + 1 \in 0 .. MaxRetries
    BY <1>1, LimitTypes DEF Request
  <2>2. m \in Request
    BY <2>1 DEF Request
  <2>3. CompleteRq(r, again) = Requeued(m)
    BY <1>1 DEF CompleteRq
  <2> HIDE DEF m
  <2> QED BY <2>2, <2>3, RequeuedType
<1>2. CASE ~(again /\ r.retries < MaxRetries)
  BY <1>2, EndedType DEF CompleteRq
<1> QED BY <1>1, <1>2

(* and blk_mq_complete_request.                                            *)
LEMMA CompletedType ==
  ASSUME NEW r \in Request, NEW again
  PROVE  Completed(r, again) \in Request
<1> DEFINE m == [r EXCEPT !.marked = TRUE]
<1>1. m \in Request
  BY DEF Request
<1>2. CompleteRq(m, again) \in Request
  <2> HIDE DEF m
  <2> QED BY <1>1, CompleteRqType
<1> QED BY <1>2 DEF Completed

(* What is sent is a command.                                              *)
LEMMA CommandTypes ==
  ASSUME TypeOK
  PROVE  /\ NoCommand \in Commands /\ [id |-> AerId, gen |-> 0] \in Commands
         /\ \A t \in Tags : [id |-> t, gen |-> 1 - rq[t].gen] \in {c \in Commands : c.id \in Tags}
BY SlotTypes, TagFacts DEF Commands, NoCommand, TypeOK, Request

LEMMA SubmitType ==
  ASSUME TypeOK, NEW c \in Commands, SubmitCmd(c)
  PROVE  sqCmds' \in [Slots -> Commands] /\ sqTail' \in Slots /\ sqDb' \in Slots
BY SlotTypes DEF SubmitCmd, TypeOK

(* Every step keeps the types, provided the ring does.                     *)
LEMMA TypeStep == TypeOK /\ RingTypeOK' /\ [Next]_vars => TypeOK'
<1> SUFFICES ASSUME TypeOK, RingTypeOK', [Next]_vars PROVE TypeOK'
  OBVIOUS
<1> USE DEF sqVars, devVars, rqVars, downVars, abortVars, eventVars
<1>0. /\ rq \in [TagSpace -> Request] /\ Tags \subseteq TagSpace
      /\ inQueueRq \subseteq {c \in Commands : c.id \in Tags}
      /\ (qid' = qid => Tags' = Tags)
  BY TagFacts DEF TypeOK, Tags, NrAers
<1>1. ASSUME NEW t \in Tags, StartRq(t) PROVE TypeOK'
  <2> DEFINE c == [id |-> t, gen |-> 1 - rq[t].gen]
  <2>1. c \in Commands /\ c.id \in Tags /\ c.gen \in {0, 1}
    BY CommandTypes DEF Commands
  <2>2. inQueueRq' \subseteq {d \in Commands : d.id \in Tags}
    <3>1. inQueueRq' = inQueueRq \union {c}
      BY <1>1 DEF StartRq
    <3> HIDE DEF c
    <3> QED BY <1>0, <2>1, <3>1
  <2>3. rq' \in [TagSpace -> Request]
    <3>1. rq' = [rq EXCEPT ![t] = [rq[t] EXCEPT !.at = "ready", !.started = TRUE,
                                        !.marked = FALSE, !.aborted = FALSE, !.gen = c.gen]]
      BY <1>0, <1>1 DEF StartRq
    <3>2. \A g \in {0, 1} : [rq[t] EXCEPT !.at = "ready", !.started = TRUE, !.marked = FALSE,
                                          !.aborted = FALSE, !.gen = g] \in Request
      BY <1>0 DEF Request
    <3>3. ASSUME NEW r \in Request, rq' = [rq EXCEPT ![t] = r]
          PROVE  rq' \in [TagSpace -> Request]
      BY <1>0, <3>3
    <3> HIDE DEF c
    <3> QED BY <2>1, <3>1, <3>2, <3>3
  <2>4. asked' \in 0 .. MaxAsked
    BY <1>1, LimitTypes DEF StartRq, TypeOK
  <2> QED BY <1>0, <1>1, <2>2, <2>3, <2>4 DEF TypeOK, StartRq
<1>2. ASSUME NEW c \in inQueueRq, SubmitRq(c) PROVE TypeOK'
  <2>1. c \in Commands /\ c.id \in Tags
    BY <1>0
  <2>2. sqCmds' \in [Slots -> Commands] /\ sqTail' \in Slots /\ sqDb' \in Slots
    BY <1>2, <2>1, SubmitType DEF SubmitRq, TypeOK
  <2>3. rq' \in [TagSpace -> Request]
    <3>1. CASE live
      <4>1. [rq[c.id] EXCEPT !.at = "sent"] \in Request
        BY <1>0, <2>1 DEF Request
      <4> QED BY <1>0, <1>2, <2>1, <3>1, <4>1 DEF SubmitRq
    <3>2. CASE ~live
      BY <1>0, <1>2, <2>1, <3>2, EndedType, RequeuedType DEF SubmitRq
    <3> QED BY <3>1, <3>2
  <2>4. astray' \in BOOLEAN
    BY <1>2 DEF SubmitRq
  <2> QED BY <1>0, <1>2, <2>2, <2>3, <2>4 DEF TypeOK, SubmitRq
<1>3. ASSUME NEW t \in Tags, TimeOut(t) \/ ResetTimer(t) PROVE TypeOK'
  <2>1. rq' \in [TagSpace -> Request]
    <3>1. /\ [rq[t] EXCEPT !.marked = TRUE] \in Request
          /\ [rq[t] EXCEPT !.at = "timer", !.marked = TRUE, !.aborted = TRUE] \in Request
          /\ [rq[t] EXCEPT !.at = "sent", !.marked = FALSE] \in Request
      BY <1>0 DEF Request
    <3> QED BY <1>0, <1>3, <3>1 DEF TimeOut, TimeoutDown, TimeoutAbort, ResetTimer
  <2>2. CASE TimeoutDown(t)
    BY <1>0, <2>1, <2>2 DEF TypeOK, TimeoutDown, TimerRec
  <2>3. CASE TimeoutAbort(t) \/ ResetTimer(t)
    BY <1>0, <2>1, <2>3 DEF TypeOK, TimeoutAbort, ResetTimer
  <2> QED BY <1>3, <2>2, <2>3 DEF TimeOut
<1>4. ASSUME Fetch PROVE TypeOK'
  <2>1. sqCmds' \in [Slots -> Commands] /\ devBusy' \subseteq Commands /\ devHead' \in Slots
    BY <1>4, CommandTypes, SlotTypes DEF TypeOK, Fetch
  <2> QED BY <1>0, <1>4, <2>1 DEF TypeOK, Fetch
<1>5. ASSUME NEW c \in devBusy, Answer(c) PROVE TypeOK'
  BY <1>0, <1>5 DEF Answer, TypeOK
<1>6. CASE IrqOrPoll \/ ScanEnd
  BY <1>0, <1>6 DEF IrqOrPoll, ScanEnd, TypeOK, queueVars
<1>7. CASE ScanOne
  <2> DEFINE i == cqes[scan.head].entry.id
  <2>1. rq' \in [TagSpace -> Request]
    <3>1. \A again \in BOOLEAN : [rq EXCEPT ![i] = Completed(rq[i], again)] \in [TagSpace -> Request]
      <4> HIDE DEF i
      <4>1. CASE i \in TagSpace
        BY <1>0, <4>1, CompletedType
      <4>2. CASE i \notin TagSpace
        BY <1>0, <4>2
      <4> QED BY <4>1, <4>2
    <3> QED BY <1>0, <1>7, <3>1 DEF ScanOne
  <2>2. eventLimit' \in Nat /\ eventWork' \in BOOLEAN
    <3>1. EventServed \/ (eventLimit' = eventLimit /\ eventWork' = eventWork)
      BY <1>7 DEF ScanOne
    <3>2. CASE eventLimit' = eventLimit /\ eventWork' = eventWork
      BY <3>2 DEF TypeOK
    <3>3. CASE eventLimit' = eventLimit + 1 /\ eventWork' = TRUE
      BY <3>3 DEF TypeOK
    <3> QED BY <3>1, <3>2, <3>3, Zenon DEF EventServed
  <2> QED BY <1>0, <1>7, <2>1, <2>2 DEF TypeOK, ScanOne
<1>8. CASE EventTake
  <2>1. /\ asked' \in 0 .. MaxAsked /\ eventLimit' \in Nat
        /\ eventHeld' \in BOOLEAN /\ eventWork' \in BOOLEAN
    <3>1. CASE eventLimit > 0
      BY <1>8, <3>1, LimitTypes DEF TypeOK, EventTake
    <3>2. CASE ~(eventLimit > 0)
      BY <1>8, <3>2 DEF TypeOK, EventTake
    <3> QED BY <3>1, <3>2
  <2> QED BY <1>0, <1>8, <2>1 DEF TypeOK, EventTake
<1>9. CASE EventSubmit
  <2>1. sqCmds' \in [Slots -> Commands] /\ sqTail' \in Slots /\ sqDb' \in Slots
    BY <1>9, CommandTypes, SubmitType DEF EventSubmit
  <2>2. astray' \in BOOLEAN
    BY <1>9 DEF EventSubmit
  <2> QED BY <1>0, <1>9, <2>1, <2>2 DEF TypeOK, EventSubmit
<1>10. CASE TimerReturn
  <2>1. timer.tag \in TagSpace /\ NoTimer \in TimerRec
    BY TagFacts DEF TypeOK, TimerRec, NoTimer
  <2>2. rq' \in [TagSpace -> Request]
    BY <1>0, <1>10, <2>1, EndedType DEF TimerReturn
  <2>3. work' \in WorkPlaces
    BY <1>10 DEF TypeOK, TimerReturn, WorkPlaces
  <2> QED BY <1>0, <1>10, <2>1, <2>2, <2>3 DEF TypeOK, TimerReturn
<1>11. CASE AbortEnd \/ AskReset
  BY <1>0, <1>11, LimitTypes DEF TypeOK, AbortEnd, AskReset, WorkPlaces
<1>12. CASE GoingDown
  <2>1. ASSUME NEW who \in {"work", "timer"}, Quiesce(who) PROVE TypeOK'
    <3>1. stopped' \in BOOLEAN
      BY <2>1 DEF Quiesce
    <3> QED BY <1>0, <2>1, <3>1 DEF TypeOK, Quiesce, DownPlaces
  <2>2. CASE Suspend \/ StopAdmin \/ Drain
    <3>1. down' \in DownPlaces
      BY <2>2 DEF Suspend, StopAdmin, Drain, DownPlaces
    <3>2. CASE Suspend
      BY <1>0, <3>1, <3>2 DEF TypeOK, Suspend
    <3>3. CASE StopAdmin
      BY <1>0, <3>1, <3>3 DEF TypeOK, StopAdmin
    <3>4. CASE Drain
      BY <1>0, <3>1, <3>4 DEF TypeOK, Drain
    <3> QED BY <2>2, <3>2, <3>3, <3>4
  <2>3. CASE SwitchOff \/ PciDisable
    <3>1. CASE SwitchOff
      BY <1>0, <3>1, SlotTypes DEF TypeOK, SwitchOff, DeviceForgets, DownPlaces
    <3>2. CASE PciDisable
      BY <1>0, <3>2, SlotTypes DEF TypeOK, PciDisable, DeviceForgets, DownPlaces
    <3> QED BY <2>3, <3>1, <3>2
  <2>4. CASE CancelAll
    <3>1. rq' \in [TagSpace -> Request]
      BY <1>0, <2>4, CompletedType DEF CancelAll
    <3>2. timer' \in TimerRec /\ work' \in WorkPlaces
      BY <2>4 DEF TypeOK, CancelAll, TimerRec, WorkPlaces
    <3>3. astray' \in BOOLEAN
      BY <2>4 DEF CancelAll
    <3> QED BY <1>0, <2>4, <3>1, <3>2, <3>3 DEF TypeOK, CancelAll, DownPlaces
  <2> QED BY <1>12, <2>1, <2>2, <2>3, <2>4 DEF GoingDown
<1>13. CASE Resetting \/ WorkFails
  <2>1. CASE WorkStart \/ WorkState \/ Enable \/ WorkFails
    <3>1. work' \in WorkPlaces
      BY <2>1 DEF WorkStart, WorkState, Enable, WorkFails, WorkPlaces
    <3>2. ctrl' \in {"live", "resetting"} /\ pci' \in BOOLEAN
      BY <2>1 DEF TypeOK, WorkStart, WorkState, Enable, WorkFails
    <3>3. CASE WorkStart
      BY <1>0, <3>1, <3>2, <3>3 DEF TypeOK, WorkStart
    <3>4. CASE WorkState
      BY <1>0, <3>1, <3>2, <3>4 DEF TypeOK, WorkState
    <3>5. CASE Enable
      BY <1>0, <3>1, <3>2, <3>5 DEF TypeOK, Enable
    <3>6. CASE WorkFails
      BY <1>0, <3>1, <3>2, <3>6 DEF TypeOK, WorkFails
    <3> QED BY <2>1, <3>3, <3>4, <3>5, <3>6
  <2>2. CASE Create
    BY <1>0, <2>2, SlotTypes, LimitTypes DEF TypeOK, Create, WorkPlaces
  <2>3. CASE Initialise
    BY <1>0, <2>3, SlotTypes DEF TypeOK, Initialise, WorkPlaces
  <2>4. CASE Open
    <3>1. astray' \in BOOLEAN
      BY <2>4 DEF Open
    <3> QED BY <1>0, <2>4, <3>1 DEF TypeOK, Open, WorkPlaces
  <2>5. CASE Restart
    <3>1. astray' \in BOOLEAN /\ eventWork' \in BOOLEAN /\ eventLimit' \in Nat
      BY <2>5 DEF Restart, NrAers
    <3> QED BY <1>0, <2>5, <3>1 DEF TypeOK, Restart, WorkPlaces
  <2> QED BY <1>13, <2>1, <2>2, <2>3, <2>4, <2>5 DEF Resetting
<1>14. CASE UNCHANGED vars
  BY <1>0, <1>14 DEF vars, queueVars, TypeOK
<1> QED
  BY <1>1, <1>2, <1>3, <1>4, <1>5, <1>6, <1>7, <1>8, <1>9, <1>10, <1>11, <1>12, <1>13, <1>14
    DEF Next, Scanning, Eventing

(* The queue as it is at work.                                             *)
LEMMA InitTypes == Init => TypeOK /\ RingInv
<1> SUFFICES ASSUME Init PROVE TypeOK /\ RingInv
  OBVIOUS
<1>1. RingInv
  BY InitInv DEF Init
<1>2. FreshRequest \in Request /\ NoTimer \in TimerRec /\ NoCommand \in Commands
  BY LimitTypes, TagFacts, SlotTypes DEF FreshRequest, Request, NoTimer, TimerRec, NoCommand, Commands
<1>3. eventWork \in BOOLEAN /\ eventHeld \in BOOLEAN /\ eventLimit \in Nat
  <2>1. (NrAers > 0) \in BOOLEAN /\ NrAers \in Nat
    BY DEF NrAers
  <2> QED BY <2>1 DEF Init
<1>4. /\ sqCmds \in [Slots -> Commands] /\ rq \in [TagSpace -> Request]
      /\ work \in WorkPlaces /\ down \in DownPlaces
  BY <1>2 DEF Init, WorkPlaces, DownPlaces
<1>5. /\ RingTypeOK /\ qid \in Qids /\ live \in BOOLEAN /\ devOn \in BOOLEAN
      /\ stopped \in BOOLEAN /\ pci \in BOOLEAN /\ astray \in BOOLEAN
  BY <1>1 DEF Init, RingInv
<1>6. /\ sqTail \in Slots /\ sqDb \in Slots /\ devHead \in Slots /\ devBusy \subseteq Commands
      /\ inQueueRq \subseteq {c \in Commands : c.id \in Tags}
  BY SlotTypes DEF Init
<1>7. /\ ctrl \in {"live", "resetting"} /\ holder \in {"nobody", "work", "timer"}
      /\ timer \in TimerRec /\ abortLimit \in Nat /\ aborts \in Nat /\ asked \in 0 .. MaxAsked
  BY <1>2, LimitTypes DEF Init
<1> QED
  BY <1>1, <1>3, <1>4, <1>5, <1>6, <1>7, Zenon DEF TypeOK

LEMMA QueueStep == TypeOK /\ RingInv /\ [Next]_vars => (TypeOK /\ RingInv)'
<1>1. TypeOK /\ RingInv /\ [Next]_vars => RingInv'
  BY RingStep, InvPreserved
<1>2. RingInv' => RingTypeOK'
  BY DEF RingInv
<1> QED BY <1>1, <1>2, TypeStep

(* Theorem: the queue's variables keep their types whatever its threads,   *)
(* the time-outs, the resets and the controller do, and for any number of  *)
(* submissions: a tail, a doorbell and a command's tag stay in the ring,   *)
(* and the counts of aborts and event requests do not go below zero.       *)
THEOREM QueueTypes == Spec => []TypeOK
BY InitTypes, QueueStep, PTL DEF Spec

(* Theorem: the phase tag tells the truth in the queue pair, too, where    *)
(* pollers and interrupts, nvme_queue_rq, nvme_dev_disable and the reset   *)
(* work read, clear and restart the ring in any order.                     *)
THEOREM QueuePhaseTag == Spec => []PhaseTellsPosted
BY InitTypes, QueueStep, InvTells, PTL DEF Spec
=============================================================================
