----------------------------- MODULE NvmeQueue -----------------------------
(***************************************************************************)
(* One queue pair of the patched kernel driver (src/kw_debug/ref/pci.c):   *)
(* requests of the block layer are written into the submission ring, the   *)
(* controller answers in the completion ring (NvmeRing), requests that are *)
(* not answered time out, are aborted and finally take the controller      *)
(* down, which cancels everything; the reset work creates the queue again. *)
(*                                                                         *)
(* nvme_dev_disable is under shutdown_lock, the reset work is not, and     *)
(* neither waits for nvme_queue_rq of the admin queue or for               *)
(* nvme_async_event_work.  So a thread may act on what an earlier start of *)
(* the queue left it; the few such acts that do harm are marked (astray).  *)
(*                                                                         *)
(* Queue 0 is the admin queue: it also carries the asynchronous event      *)
(* requests, which have no tag, and is stopped after it was suspended      *)
(* where the others are quiesced before.                                   *)
(***************************************************************************)
EXTENDS NvmeRing, FiniteSets

CONSTANTS Qids,        \* queue numbers to look at, 0 is the admin queue
          MaxRetries,  \* nvme_max_retries
          AbortLimit,  \* acl + 1
          MaxAsked     \* bound: submissions and resets asked for from outside, together

ASSUME QueueAssumption ==
  /\ Qids \subseteq Nat
  /\ {MaxRetries, AbortLimit, MaxAsked} \subseteq Nat

(* A completion says which command it answers; how is made up when it is   *)
(* read.                                                                   *)
ASSUME CompletionAssumption == Entries = [id: 0 .. Depth - 1, gen: {0, 1}]

VARIABLES
  qid,         \* nvmeq->qid
  live,        \* cq_vector >= 0
  sqTail,      \* nvmeq->sq_tail
  sqDb,        \* the tail doorbell, as the controller sees it
  sqCmds,      \* [slot -> command], memory the controller reads
  devHead,     \* where the controller fetches next
  devOn,       \* the controller runs and has the queue
  devBusy,     \* commands it fetched and has not answered
  rq,          \* [tag -> request], see Request
  inQueueRq,   \* commands of nvme_queue_rq between blk_mq_start_request and q_lock
  stopped,     \* the block layer's hardware queue is stopped
  pci,         \* pci_is_enabled
  ctrl,        \* "live", "resetting"
  work,        \* where the reset work stands, see WorkPlaces
  down,        \* where nvme_dev_disable stands under shutdown_lock, "no": lock free
  holder,      \* who is there: the reset work or the time-out handler
  timer,       \* the time-out handler of a tag that takes the controller down
  abortLimit, aborts,    \* ctrl.abort_limit, abort commands on their way
  eventLimit,            \* ctrl.event_limit
  eventWork, eventHeld,  \* async_event_work is due, has taken an event request
  asked,       \* submissions and resets so far
  astray       \* ghost: something of an earlier start of the queue spoilt this one

sqVars == <<sqTail, sqDb, sqCmds>>
devVars == <<devHead, devOn, devBusy>>
rqVars == <<rq, inQueueRq>>
downVars == <<down, holder>>
abortVars == <<abortLimit, aborts>>
eventVars == <<eventLimit, eventWork, eventHeld>>
queueVars == <<qid, live, sqVars, devVars, rqVars, stopped, pci, ctrl, work, downVars, timer,
               abortVars, eventVars, asked, astray>>
vars == <<ringVars, queueVars>>

(* queue_depth leaves one slot of the ring empty, and one per event        *)
(* request on the admin queue.                                             *)
NrAers == IF qid = 0 THEN 1 ELSE 0
QueueDepth == Depth - 1
TagSpace == 0 .. QueueDepth - 1
Tags == 0 .. QueueDepth - NrAers - 1
AerId == Depth - 1

Commands == [id: Slots, gen: {0, 1}]
Request == [at: {"free", "ready", "sent", "timer"},
            started: BOOLEAN,   \* REQ_ATOM_STARTED
            marked: BOOLEAN,    \* REQ_ATOM_COMPLETE: somebody completes it
            aborted: BOOLEAN,   \* iod->aborted
            retries: 0 .. MaxRetries,
            gen: {0, 1}]        \* ghost: which use of the tag this is
FreshRequest == [at |-> "free", started |-> FALSE, marked |-> FALSE, aborted |-> FALSE,
                 retries |-> 0, gen |-> 0]
NoCommand == [id |-> 0, gen |-> 0]

(* What nvme_reset_work does next; "disable" and "bury" call               *)
(* nvme_dev_disable.                                                       *)
WorkPlaces == {"idle", "queued", "disable", "change", "enable", "create", "init", "open",
               "start", "bury"}
DownPlaces == {"no", "suspend", "stop", "off", "drain", "drained", "cancel"}

(* The handler: waiting for nvme_dev_disable or past it; its request; will *)
(* it call nvme_reset.                                                     *)
TimerRec == [at: {"idle", "disable", "return"}, tag: TagSpace, reset: BOOLEAN]
NoTimer == [at |-> "idle", tag |-> 0, reset |-> FALSE]

TypeOK ==
  /\ RingTypeOK
  /\ qid \in Qids /\ live \in BOOLEAN /\ devOn \in BOOLEAN
  /\ stopped \in BOOLEAN /\ pci \in BOOLEAN /\ astray \in BOOLEAN
  /\ sqTail \in Slots /\ sqDb \in Slots /\ devHead \in Slots
  /\ sqCmds \in [Slots -> Commands] /\ devBusy \subseteq Commands
  /\ rq \in [TagSpace -> Request]
  /\ inQueueRq \subseteq {c \in Commands : c.id \in Tags}
  /\ ctrl \in {"live", "resetting"} /\ work \in WorkPlaces
  /\ down \in DownPlaces /\ holder \in {"nobody", "work", "timer"} /\ timer \in TimerRec
  /\ abortLimit \in Nat /\ aborts \in Nat
  /\ eventLimit \in Nat /\ eventWork \in BOOLEAN /\ eventHeld \in BOOLEAN
  /\ asked \in 0 .. MaxAsked

(* A queue at work; its event requests are still to be sent. *)
Init ==
  /\ RingInit
  /\ qid \in Qids /\ live = TRUE /\ pci = TRUE
  /\ sqTail = 0 /\ sqDb = 0 /\ devHead = 0 /\ devOn = TRUE /\ devBusy = {}
  /\ sqCmds = [i \in Slots |-> NoCommand]
  /\ rq = [t \in TagSpace |-> FreshRequest] /\ inQueueRq = {}
  /\ stopped = FALSE /\ ctrl = "live" /\ work = "idle"
  /\ down = "no" /\ holder = "nobody" /\ timer = NoTimer
  /\ abortLimit = AbortLimit /\ aborts = 0
  /\ eventLimit = NrAers /\ eventWork = (NrAers > 0) /\ eventHeld = FALSE
  /\ asked = 0 /\ astray = FALSE

-----------------------------------------------------------------------------
(* The end of a request: blk_mq_end_request gives the tag back.  The mark  *)
(* stays until the tag's next use is started; iod->aborted is not read     *)
(* before that clears it.                                                  *)
Ended(r) == [r EXCEPT !.at = "free", !.started = FALSE, !.aborted = FALSE, !.retries = 0]

(* nvme_requeue_req *)
Requeued(r) == [r EXCEPT !.at = "ready", !.started = FALSE]

(* nvme_complete_rq: once more, or the end. *)
CompleteRq(r, again) ==
  IF again /\ r.retries < MaxRetries
  THEN Requeued([r EXCEPT !.retries = @ + 1])
  ELSE Ended(r)

(* blk_mq_complete_request does nothing for a request somebody completes   *)
(* already.                                                                *)
Completed(r, again) ==
  IF r.marked THEN r ELSE CompleteRq([r EXCEPT !.marked = TRUE], again)

(* __nvme_submit_cmd: between the controller's start and nvme_init_queue   *)
(* the tail is that of an earlier start.                                   *)
SubmitCmd(c) ==
  /\ sqCmds' = [sqCmds EXCEPT ![sqTail] = c]
  /\ sqTail' = NextSlot(sqTail)
  /\ sqDb' = IF devOn THEN NextSlot(sqTail) ELSE sqDb
WrongTail == devOn /\ ~synced

(* nvme_queue_rq, for a new request that got a tag or for one requeued, up *)
(* to blk_mq_start_request; what fails before sends nothing.  A bound: no  *)
(* third use of a tag while a thread of its first use is on its way.       *)
StartRq(t) ==
  LET c == [id |-> t, gen |-> 1 - rq[t].gen] IN
  /\ rq[t].at \in {"free", "ready"} /\ ~rq[t].started /\ ~stopped
  /\ asked < MaxAsked /\ c \notin inQueueRq
  /\ asked' = asked + 1
  /\ inQueueRq' = inQueueRq \union {c}
  /\ rq' = [rq EXCEPT ![t].at = "ready", ![t].started = TRUE, ![t].marked = FALSE,
                      ![t].aborted = FALSE, ![t].gen = c.gen]
  /\ UNCHANGED <<ringVars, qid, live, sqVars, devVars, stopped, pci, ctrl, work, downVars,
                 timer, abortVars, eventVars, astray>>

(* The request was not cancelled since. *)
StillMine(c) == rq[c.id].at = "ready" /\ rq[c.id].started /\ rq[c.id].gen = c.gen

(* The rest of it, under q_lock: the command is sent and the completion    *)
(* ring looked at; a suspended queue hands the request back, or fails it   *)
(* on the admin queue, cancelled or not.                                   *)
SubmitRq(c) ==
  /\ c \in inQueueRq
  /\ ~scan.on
  /\ inQueueRq' = inQueueRq \ {c}
  /\ \/ /\ live
        /\ SubmitCmd(c)
        /\ rq' = IF StillMine(c) THEN [rq EXCEPT ![c.id].at = "sent"] ELSE rq
        /\ BeginScan
        /\ astray' = (astray \/ ~StillMine(c))
     \/ /\ ~live
        /\ rq' = [rq EXCEPT ![c.id] = IF qid = 0 THEN Ended(@) ELSE Requeued(@)]
        /\ astray' = (astray \/ ~StillMine(c))
        /\ UNCHANGED <<ringVars, sqVars>>
  /\ UNCHANGED <<qid, live, devVars, stopped, pci, ctrl, work, downVars, timer, abortVars,
                 eventVars, asked>>

-----------------------------------------------------------------------------
(* The controller; a slot it has fetched is made to hold NoCommand, which  *)
(* stands for any old command should it be fetched again.                  *)
Fetch ==
  /\ devOn /\ devHead # sqDb
  /\ devBusy' = devBusy \union {sqCmds[devHead]}
  /\ devHead' = NextSlot(devHead)
  /\ sqCmds' = [sqCmds EXCEPT ![devHead] = NoCommand]
  /\ UNCHANGED <<ringVars, qid, live, sqTail, sqDb, devOn, rqVars, stopped, pci, ctrl, work,
                 downVars, timer, abortVars, eventVars, asked, astray>>

Answer(c) ==
  /\ devOn /\ c \in devBusy
  /\ Post(c)
  /\ devBusy' = devBusy \ {c}
  /\ UNCHANGED <<qid, live, sqVars, devHead, devOn, rqVars, stopped, pci, ctrl, work,
                 downVars, timer, abortVars, eventVars, asked, astray>>

-----------------------------------------------------------------------------
(* nvme_irq while the queue has its interrupt, shared or its own, and      *)
(* nvme_poll at any time on an I/O queue.  A look that finds nothing       *)
(* changes nothing and is left out.                                        *)
IrqOrPoll ==
  /\ live \/ qid # 0
  /\ CqeValid(cqHead, cqPhase)
  /\ BeginScan
  /\ UNCHANGED queueVars

(* nvme_complete_async_event: a served or aborted event request is sent    *)
(* again, any other failure is the last of it.                             *)
EventServed ==
  \/ UNCHANGED <<eventLimit, eventWork>>
  \/ eventLimit' = eventLimit + 1 /\ eventWork' = TRUE

ScanOne ==
  LET e == cqes[scan.head].entry IN
  /\ Consume
  /\ IF qid = 0 /\ e.id = AerId
     THEN EventServed /\ UNCHANGED rq
     ELSE /\ \E again \in BOOLEAN : rq' = [rq EXCEPT ![e.id] = Completed(@, again)]
          /\ UNCHANGED <<eventLimit, eventWork>>
  /\ UNCHANGED <<qid, live, sqVars, devVars, inQueueRq, stopped, pci, ctrl, work, downVars,
                 timer, abortVars, eventHeld, asked, astray>>

ScanEnd == EndScan(live) /\ UNCHANGED queueVars

(* One turn of nvme_async_event_work: the count goes down under one lock   *)
EventTake ==
  /\ eventWork /\ ~eventHeld
  /\ IF eventLimit > 0
     THEN /\ asked < MaxAsked
          /\ asked' = asked + 1
          /\ eventLimit' = eventLimit - 1
          /\ eventHeld' = TRUE
          /\ UNCHANGED eventWork
     ELSE /\ eventWork' = FALSE
          /\ UNCHANGED <<asked, eventLimit, eventHeld>>
  /\ UNCHANGED <<ringVars, qid, live, sqVars, devVars, rqVars, stopped, pci, ctrl, work,
                 downVars, timer, abortVars, astray>>

(* and the command is sent under another, whether or not the queue is live *)
(* by then.                                                                *)
EventSubmit ==
  /\ eventHeld /\ ~scan.on
  /\ SubmitCmd([id |-> AerId, gen |-> 0])
  /\ eventHeld' = FALSE
  /\ astray' = (astray \/ WrongTail)
  /\ UNCHANGED <<ringVars, qid, live, devVars, rqVars, stopped, pci, ctrl, work, downVars,
                 timer, abortVars, eventLimit, eventWork, asked>>

-----------------------------------------------------------------------------
(* The time-outs of a queue are handled one after the other. *)
TimerFree == timer.at = "idle" /\ \A t \in Tags : rq[t].at # "timer"

TimeoutDownOnce(t) ==   \* mutant: an aborted request does not take the controller down
  /\ rq[t].at = "sent" /\ ~rq[t].marked /\ (ctrl = "resetting" \/ qid = 0)
  /\ TimerFree
  /\ rq' = [rq EXCEPT ![t].marked = TRUE]
  /\ timer' = [at |-> "disable", tag |-> t, reset |-> ctrl # "resetting"]
  /\ UNCHANGED <<ringVars, qid, live, sqVars, devVars, inQueueRq, stopped, pci, ctrl, work,
                 downVars, abortVars, eventVars, asked, astray>>

(* The block layer's timer finds a request unanswered, marks it and calls  *)
(* nvme_timeout, which takes the controller down as soon as it gets the    *)
(* lock, and then resets it unless it was being reset,                     *)
TimeoutDown(t) ==
  /\ rq[t].at = "sent" /\ ~rq[t].marked
  /\ ctrl = "resetting" \/ qid = 0 \/ rq[t].aborted
  /\ TimerFree
  /\ rq' = [rq EXCEPT ![t].marked = TRUE]
  /\ timer' = [at |-> "disable", tag |-> t, reset |-> ctrl # "resetting"]
  /\ UNCHANGED <<ringVars, qid, live, sqVars, devVars, inQueueRq, stopped, pci, ctrl, work,
                 downVars, abortVars, eventVars, asked, astray>>

(* or, the first time on an I/O queue, sends an abort if it may.           *)
TimeoutAbort(t) ==
  /\ rq[t].at = "sent" /\ ~rq[t].marked
  /\ ctrl = "live" /\ qid # 0 /\ ~rq[t].aborted
  /\ TimerFree
  /\ rq' = [rq EXCEPT ![t].at = "timer", ![t].marked = TRUE, ![t].aborted = TRUE]
  /\ \/ /\ abortLimit > 0
        /\ abortLimit' = abortLimit - 1
        /\ aborts' = aborts + 1
     \/ UNCHANGED abortVars   \* over the limit, or no request to be had
  /\ UNCHANGED <<ringVars, qid, live, sqVars, devVars, inQueueRq, stopped, pci, ctrl, work,
                 downVars, timer, eventVars, asked, astray>>

(* BLK_EH_RESET_TIMER: the mark is taken off again. *)
ResetTimer(t) ==
  /\ rq[t].at = "timer"
  /\ rq' = [rq EXCEPT ![t].at = "sent", ![t].marked = FALSE]
  /\ UNCHANGED <<ringVars, qid, live, sqVars, devVars, inQueueRq, stopped, pci, ctrl, work,
                 downVars, timer, abortVars, eventVars, asked, astray>>

(* BLK_EH_HANDLED: the handler calls nvme_reset, which queues the work     *)
(* unless it is busy, and its request is ended.                            *)
TimerReturn ==
  /\ timer.at = "return"
  /\ rq' = [rq EXCEPT ![timer.tag] = Ended(@)]
  /\ work' = IF timer.reset /\ work = "idle" THEN "queued" ELSE work
  /\ timer' = NoTimer
  /\ UNCHANGED <<ringVars, qid, live, sqVars, devVars, inQueueRq, stopped, pci, ctrl,
                 downVars, abortVars, eventVars, asked, astray>>

(* abort_endio *)
AbortEnd ==
  /\ aborts > 0
  /\ aborts' = aborts - 1
  /\ abortLimit' = abortLimit + 1
  /\ UNCHANGED <<ringVars, qid, live, sqVars, devVars, rqVars, stopped, pci, ctrl, work,
                 downVars, timer, eventVars, asked, astray>>

(* nvme_reset of the user, the watchdog or another queue's handler. *)
AskReset ==
  /\ work = "idle" /\ asked < MaxAsked
  /\ work' = "queued" /\ asked' = asked + 1
  /\ UNCHANGED <<ringVars, qid, live, sqVars, devVars, rqVars, stopped, pci, ctrl, downVars,
                 timer, abortVars, eventVars, astray>>

-----------------------------------------------------------------------------
(* nvme_dev_disable under shutdown_lock, as far as this queue sees it.     *)

(* The lock; nvme_stop_queues waits for nvme_queue_rq of the I/O queues,   *)
(* unless the PCI device is disabled already.                              *)
Quiesce(who) ==
  /\ down = "no"
  /\ \/ who = "work" /\ work \in {"disable", "bury"}
     \/ who = "timer" /\ timer.at = "disable"
  /\ pci /\ qid # 0 => inQueueRq = {}
  /\ stopped' = (stopped \/ (pci /\ qid # 0))
  /\ down' = "suspend" /\ holder' = who
  /\ UNCHANGED <<ringVars, qid, live, sqVars, devVars, rqVars, pci, ctrl, work, timer,
                 abortVars, eventVars, asked, astray>>

(* nvme_suspend_queue: the vector under the lock, *)
Suspend ==
  /\ down = "suspend" /\ ~scan.on
  /\ live' = FALSE
  /\ down' = IF qid # 0 THEN "off" ELSE IF live THEN "stop" ELSE "drained"
  /\ UNCHANGED <<ringVars, qid, sqVars, devVars, rqVars, stopped, pci, ctrl, work, holder,
                 timer, abortVars, eventVars, asked, astray>>

(* then the admin queue is stopped, without waiting. *)
StopAdmin ==
  /\ down = "stop"
  /\ stopped' = TRUE
  /\ down' = "off"
  /\ UNCHANGED <<ringVars, qid, live, sqVars, devVars, rqVars, pci, ctrl, work, holder,
                 timer, abortVars, eventVars, asked, astray>>

DeviceForgets == devOn' = FALSE /\ devHead' = 0 /\ sqDb' = 0 /\ devBusy' = {}

(* The controller stops: its queue is deleted or it is disabled, *)
SwitchOff ==
  /\ down = "off"
  /\ DeviceForgets
  /\ down' = "drain"
  /\ UNCHANGED <<ringVars, qid, live, sqTail, sqCmds, rqVars, stopped, pci, ctrl, work,
                 holder, timer, abortVars, eventVars, asked, astray>>

(* and what it had answered is looked at once more. *)
Drain ==
  /\ down = "drain"
  /\ BeginScan
  /\ down' = "drained"
  /\ UNCHANGED <<qid, live, sqVars, devVars, rqVars, stopped, pci, ctrl, work, holder,
                 timer, abortVars, eventVars, asked, astray>>

(* nvme_pci_disable, at once when the controller is dead already or does   *)
(* not answer the deletion.                                                *)
PciDisable ==
  /\ down = "off" \/ (down = "drained" /\ ~scan.on)
  /\ pci' = FALSE /\ DeviceForgets
  /\ down' = "cancel"
  /\ UNCHANGED <<ringVars, qid, live, sqTail, sqCmds, rqVars, stopped, ctrl, work, holder,
                 timer, abortVars, eventVars, asked, astray>>

(* blk_mq_tagset_busy_iter(nvme_cancel_request); the caller goes on.  The  *)
(* queue may be live again already.                                        *)
CancelAll ==
  /\ down = "cancel"
  /\ \E again \in SUBSET Tags :
       rq' = [t \in TagSpace |->
                IF rq[t].started THEN Completed(rq[t], t \in again) ELSE rq[t]]
  /\ down' = "no" /\ holder' = "nobody"
  /\ IF holder = "timer"
     THEN timer' = [timer EXCEPT !.at = "return"] /\ UNCHANGED work
     ELSE work' = (IF work = "disable" THEN "change" ELSE "idle") /\ UNCHANGED timer
  /\ astray' = (astray \/ live \/ ~stopped)
  /\ UNCHANGED <<ringVars, qid, live, sqVars, devVars, inQueueRq, stopped, pci, ctrl,
                 abortVars, eventVars, asked>>

-----------------------------------------------------------------------------
(* Commands the controller has not answered or the host has not seen       *)
(* answered.                                                               *)
Unfetched == {sqCmds[i] : i \in IF devHead <= sqDb THEN devHead .. sqDb - 1
                               ELSE (devHead .. Depth - 1) \union (0 .. sqDb - 1)}
Unseen == {cqes[i].entry : i \in Posted}
InFlight == Unfetched \union devBusy \union Unseen
EventOut == \E c \in InFlight : c.id = AerId

-----------------------------------------------------------------------------
(* nvme_reset_work.  A controller that is enabled is taken down first;     *)
(* one left in the state "resetting" is given up.                          *)
WorkStart ==
  /\ work = "queued"
  /\ work' \in IF ctrl = "resetting" THEN {"bury"}
               ELSE {"disable"} \union
                    (IF ~pci \/ down \in {"drain", "drained"} THEN {"change"} ELSE {})
  /\ UNCHANGED <<ringVars, qid, live, sqVars, devVars, rqVars, stopped, pci, ctrl, downVars,
                 timer, abortVars, eventVars, asked, astray>>

WorkState ==
  /\ work = "change"
  /\ ctrl' = "resetting" /\ work' = "enable"
  /\ UNCHANGED <<ringVars, qid, live, sqVars, devVars, rqVars, stopped, pci, downVars,
                 timer, abortVars, eventVars, asked, astray>>

Enable ==
  /\ work = "enable"
  /\ pci' = TRUE /\ work' = "create"
  /\ UNCHANGED <<ringVars, qid, live, sqVars, devVars, rqVars, stopped, ctrl, downVars,
                 timer, abortVars, eventVars, asked, astray>>

(* cq_vector first, then the controller starts with the queue at slot 0;   *)
(* an I/O queue the controller refuses counts as created.  The abort limit *)
(* was read just before (nvme_init_identify).  Without the PCI device      *)
(* neither registers nor the interrupt are to be had.                      *)
Create ==
  /\ work = "create" /\ pci
  /\ live' = TRUE
  /\ devOn' \in IF qid = 0 THEN {TRUE} ELSE BOOLEAN
  /\ devHead' = 0 /\ sqDb' = 0 /\ devBusy' = {}
  /\ Recreate
  /\ abortLimit' = AbortLimit
  /\ work' = "init"
  /\ UNCHANGED <<qid, sqTail, sqCmds, rqVars, stopped, pci, ctrl, downVars, timer, aborts,
                 eventVars, asked, astray>>

InitialiseKeepsTail ==   \* mutant: sq_tail stays what it was
  /\ work = "init"
  /\ InitQueue
  /\ sqTail' = sqTail
  /\ work' = "open"
  /\ UNCHANGED <<qid, live, sqDb, sqCmds, devVars, rqVars, stopped, pci, ctrl, downVars,
                 timer, abortVars, eventVars, asked, astray>>

(* then nvme_init_queue puts the host's side back, *)
Initialise ==
  /\ work = "init"
  /\ InitQueue
  /\ sqTail' = 0
  /\ work' = "open"
  /\ UNCHANGED <<qid, live, sqDb, sqCmds, devVars, rqVars, stopped, pci, ctrl, downVars,
                 timer, abortVars, eventVars, asked, astray>>

(* the block layer may go on, *)
Open ==
  /\ work = "open"
  /\ stopped' = FALSE /\ work' = "start"
  /\ astray' = (astray \/ ~live)
  /\ UNCHANGED <<ringVars, qid, live, sqVars, devVars, rqVars, pci, ctrl, downVars, timer,
                 abortVars, eventVars, asked>>

(* and the event requests start afresh.                                    *)
Restart ==
  /\ work = "start"
  /\ ctrl' = "live" /\ work' = "idle"
  /\ eventLimit' = NrAers
  /\ eventWork' = (eventWork \/ NrAers > 0)
  /\ astray' = (astray \/ eventHeld \/ (qid = 0 /\ EventOut))
  /\ UNCHANGED <<ringVars, qid, live, sqVars, devVars, rqVars, stopped, pci, downVars, timer,
                 abortVars, eventHeld, asked>>

(* The PCI device, the registers or a command fails.                       *)
WorkFails ==
  /\ work \in {"enable", "create", "open"} \/ (work = "start" /\ qid = 0)
  /\ work' = "bury"
  /\ UNCHANGED <<ringVars, qid, live, sqVars, devVars, rqVars, stopped, pci, ctrl, downVars,
                 timer, abortVars, eventVars, asked, astray>>

Scanning == IrqOrPoll \/ ScanOne \/ ScanEnd
Eventing == EventTake \/ EventSubmit
GoingDown == \/ \E who \in {"work", "timer"} : Quiesce(who)
             \/ Suspend \/ StopAdmin \/ SwitchOff \/ Drain \/ PciDisable \/ CancelAll
Resetting == WorkStart \/ WorkState \/ Enable \/ Create \/ Initialise \/ Open \/ Restart
TimeOut(t) == TimeoutDown(t) \/ TimeoutAbort(t)

Next ==
  \/ \E t \in Tags : StartRq(t) \/ TimeOut(t) \/ ResetTimer(t)
  \/ \E c \in inQueueRq : SubmitRq(c)
  \/ Fetch \/ \E c \in devBusy : Answer(c)
  \/ Scanning \/ Eventing \/ TimerReturn \/ AbortEnd
  \/ AskReset \/ GoingDown \/ Resetting \/ WorkFails

(* The host's threads get on and its timers expire; nothing is asked of    *)
(* the controller, of the reset work, which may hang on a command, nor of  *)
(* those who send requests.                                                *)
HostStep ==
  \/ \E c \in inQueueRq : SubmitRq(c)
  \/ \E t \in Tags : ResetTimer(t)
  \/ ScanOne \/ ScanEnd \/ Eventing \/ TimerReturn \/ AbortEnd \/ GoingDown

Fairness == WF_vars(HostStep) /\ WF_vars(\E t \in Tags : TimeOut(t))

Spec == Init /\ [][Next]_vars
FairSpec == Spec /\ Fairness

-----------------------------------------------------------------------------
Up == live /\ devOn /\ synced /\ ctrl = "live" /\ down = "no"

(***************************************************************************)
(* Commands and requests correspond, across resets, time-outs and reuse,   *)
(* unless one of five acts spoilt it (astray): a thread of nvme_queue_rq   *)
(* goes on with a request that was cancelled under it; an event request is *)
(* sent between the controller's start and nvme_init_queue; a reset asks   *)
(* for event requests while one from before is on its way; requests are    *)
(* cancelled after the reset work made their queue live or let the block   *)
(* layer go on; the block layer goes on with a queue suspended meanwhile.  *)
(*                                                                         *)
(* An answer that completes a request is to this use of its tag: a request *)
(* cancelled by a reset, or whose answer was lost to its time-out handler, *)
(* must not leave one behind (also for nvme_poll, which looks at a         *)
(* suspended queue's ring).  While the queue is up no command that was     *)
(* sent is lost in the rings, which is what their empty slot is for        *)
(* (nvme_alloc_admin_tags, nvme_dev_add).  And there is one event request  *)
(* at most, so that the rings have room for it (nvme_async_event_work).    *)
(***************************************************************************)
AnswersTheirRequest ==
  (scan.on /\ CqeValid(scan.head, scan.phase)) =>
     LET e == cqes[scan.head].entry IN
     (e.id \in Tags /\ ~rq[e.id].marked) =>
        rq[e.id].at \in {"sent", "timer"} /\ rq[e.id].gen = e.gen

SentIsOnItsWay ==
  Up => \A t \in Tags :
          (rq[t].at = "sent" /\ ~rq[t].aborted /\ ~rq[t].marked) =>
             [id |-> t, gen |-> rq[t].gen] \in InFlight

OneEventRequest ==
  (qid = 0 /\ live /\ synced) =>
     eventLimit + (IF eventHeld THEN 1 ELSE 0) + Cardinality({c \in InFlight : c.id = AerId}) <= 1
     /\ ~ \E c \in Unfetched, d \in devBusy \union Unseen : c.id = AerId /\ d.id = AerId

CommandsMatchRequests ==
  astray \/ (AnswersTheirRequest /\ SentIsOnItsWay /\ OneEventRequest)

(***************************************************************************)
(* A request that was sent gets answered or cancelled although the         *)
(* controller may stay silent and an answer may be lost to the handler of  *)
(* its time-out: the second time-out takes the controller down.            *)
(***************************************************************************)
SentIsEnded ==
  \A t \in TagSpace :
    rq[t].at = "sent" ~> rq[t].at \in {"free", "ready"}
=============================================================================
