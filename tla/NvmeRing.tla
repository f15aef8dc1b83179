------------------------------ MODULE NvmeRing ------------------------------
(***************************************************************************)
(* The completion queue of one NVMe queue pair (src/kw_debug/ref/pci.c):   *)
(* a ring the controller writes and the host reads without sharing a       *)
(* count.  An entry is new when its phase tag is the one the host expects; *)
(* the host expects the other phase each time its head wraps.  The host    *)
(* reads many entries under the queue lock and rings the head doorbell     *)
(* only once, at the end.                                                  *)
(***************************************************************************)
EXTENDS Integers

CONSTANTS Depth,     \* q_depth
          Entries    \* what a completion says besides its phase

ASSUME DepthAssumption == Depth \in Nat /\ Depth >= 2
ASSUME EntriesAssumption == Entries # {}

VARIABLES
  cqes,        \* [slot -> [phase, entry]], memory the controller writes
  cqHead,      \* nvmeq->cq_head
  cqPhase,     \* nvmeq->cq_phase
  scan,        \* [on, head, phase]: locals of __nvme_process_cq; on: q_lock is held by it
  cqDb,        \* the head doorbell, as the controller sees it
  devTail,     \* where the controller posts next
  devPhase,    \* and with which phase
  synced       \* ghost: the host's pointers and memory are those of this controller start

ringVars == <<cqes, cqHead, cqPhase, scan, cqDb, devTail, devPhase, synced>>

Slots == 0 .. Depth - 1
Phases == {0, 1}

(* The successor of a position: a slot and the phase of this round. *)
NextSlot(h) == IF h + 1 = Depth THEN 0 ELSE h + 1
NextPhase(h, p) == IF h + 1 = Depth THEN 1 - p ELSE p

(* nvme_cqe_valid *)
CqeValid(h, p) == cqes[h].phase = p

Idle == [on |-> FALSE, head |-> 0, phase |-> 1]

(* Memory after memset. *)
Cleared == [i \in Slots |-> [phase |-> 0, entry |-> CHOOSE e \in Entries : TRUE]]

RingTypeOK ==
  /\ cqes \in [Slots -> [phase: Phases, entry: Entries]]
  /\ cqHead \in Slots /\ cqPhase \in Phases
  /\ scan \in [on: BOOLEAN, head: Slots, phase: Phases]
  /\ cqDb \in Slots
  /\ devTail \in Slots /\ devPhase \in Phases
  /\ synced \in BOOLEAN

RingInit ==
  /\ cqes = Cleared
  /\ cqHead = 0 /\ cqPhase = 1
  /\ scan = Idle
  /\ cqDb = 0
  /\ devTail = 0 /\ devPhase = 1
  /\ synced = TRUE

-----------------------------------------------------------------------------
(* The controller posts a completion unless the ring is full to its        *)
(* knowledge, which is the doorbell.                                       *)
Post(e) ==
  /\ NextSlot(devTail) # cqDb
  /\ cqes' = [cqes EXCEPT ![devTail] = [phase |-> devPhase, entry |-> e]]
  /\ devTail' = NextSlot(devTail)
  /\ devPhase' = NextPhase(devTail, devPhase)
  /\ UNCHANGED <<cqHead, cqPhase, scan, cqDb, synced>>

(* __nvme_process_cq takes its copies of head and phase. *)
BeginScan ==
  /\ ~scan.on
  /\ scan' = [on |-> TRUE, head |-> cqHead, phase |-> cqPhase]
  /\ UNCHANGED <<cqes, cqHead, cqPhase, cqDb, devTail, devPhase, synced>>

(* One turn of its loop. *)
Consume ==
  /\ scan.on
  /\ CqeValid(scan.head, scan.phase)
  /\ scan' = [on |-> TRUE, head |-> NextSlot(scan.head),
              phase |-> NextPhase(scan.head, scan.phase)]
  /\ UNCHANGED <<cqes, cqHead, cqPhase, cqDb, devTail, devPhase, synced>>

(* The end of the loop.  The doorbell is left alone when nothing was found *)
(* and when the queue is suspended (cq_vector < 0).                        *)
EndScan(live) ==
  /\ scan.on
  /\ ~CqeValid(scan.head, scan.phase)
  /\ cqDb' = IF live /\ <<scan.head, scan.phase>> # <<cqHead, cqPhase>>
             THEN scan.head ELSE cqDb
  /\ cqHead' = scan.head
  /\ cqPhase' = scan.phase
  /\ scan' = Idle
  /\ UNCHANGED <<cqes, devTail, devPhase, synced>>

(* The controller is disabled and creates the queue again, at slot 0; the  *)
(* host's memory still holds the entries of the time before.               *)
Recreate ==
  /\ cqDb' = 0
  /\ devTail' = 0 /\ devPhase' = 1
  /\ synced' = FALSE
  /\ UNCHANGED <<cqes, cqHead, cqPhase, scan>>

(* Nothing was posted since the controller created the queue. *)
NothingPosted == devTail = 0 /\ devPhase = 1

InitQueueDirty ==   \* mutant: the memory is not cleared
  /\ ~scan.on
  /\ cqHead' = 0 /\ cqPhase' = 1 /\ synced' = NothingPosted
  /\ UNCHANGED <<cqes, scan, cqDb, devTail, devPhase>>

(* nvme_init_queue: pointers back, memory cleared, under the lock; what    *)
(* the controller has posted already is lost.                              *)
InitQueue ==
  /\ ~scan.on
  /\ cqHead' = 0 /\ cqPhase' = 1
  /\ cqes' = Cleared
  /\ synced' = NothingPosted
  /\ UNCHANGED <<scan, cqDb, devTail, devPhase>>

RingNext ==
  \/ \E e \in Entries : Post(e)
  \/ BeginScan
  \/ Consume
  \/ \E live \in BOOLEAN : EndScan(live)
  \/ Recreate
  \/ InitQueue

RingSpec == RingInit /\ [][RingNext]_ringVars

-----------------------------------------------------------------------------
(* The position the host looks at. *)
HostHead == IF scan.on THEN scan.head ELSE cqHead
HostPhase == IF scan.on THEN scan.phase ELSE cqPhase

(* Entries between two positions of which the first is not ahead. *)
Between(h, p, d, q) == IF p = q THEN h .. d - 1
                       ELSE (h .. Depth - 1) \union (0 .. d - 1)

(* What the controller posted and the host has not read yet. *)
Posted == Between(HostHead, HostPhase, devTail, devPhase)

(***************************************************************************)
(* The phase tag tells the truth: at the slot the host looks at, the entry *)
(* counts as new exactly when the controller posted one there that was not *)
(* read, so that none is read twice, skipped or overwritten, however late  *)
(* the doorbell is rung (nvme_cqe_valid and __nvme_process_cq).            *)
(***************************************************************************)
PhaseTellsPosted ==
  synced => /\ CqeValid(HostHead, HostPhase) <=>
                 <<HostHead, HostPhase>> # <<devTail, devPhase>>
            /\ \A i \in Posted :
                 cqes[i].phase = IF i < HostHead THEN 1 - HostPhase ELSE HostPhase
=============================================================================
