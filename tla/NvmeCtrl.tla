------------------------------ MODULE NvmeCtrl ------------------------------
(***************************************************************************)
(* The life of one controller in the patched kernel driver                 *)
(* (src/kw_debug/ref/pci.c and core.c): the reset work brings it up, any   *)
(* of several threads takes it down (nvme_dev_disable), and the work that  *)
(* removes a dead controller meets a removal from outside.                 *)
(*                                                                         *)
(* Only shutdown_lock serialises those who take it down; the reset work    *)
(* runs without it.  Its admin commands wait for an answer, for a time-out *)
(* or, on a stopped queue, for somebody to start the queue.                *)
(***************************************************************************)
EXTENDS Integers, FiniteSets

CONSTANTS MaxQueues,   \* I/O queues: num_online_cpus
          MaxEvents    \* bound: resets, suspends, shutdowns, frozen channels, time-outs of
                       \* others' requests, openings of the character device

ASSUME CtrlAssumption ==
  /\ MaxQueues \in Nat \ {0}
  /\ MaxEvents \in Nat

VARIABLES
  ctrl,      \* ctrl.state
  hw,        \* the device: [pci: enabled, cc: ctrl_config & NVME_CC_ENABLE, has: queues it has]
  q,         \* [vec: queues with cq_vector >= 0, irq: with an interrupt, online: online_queues,
             \*  count: queue_count, tags: the tag set is allocated]
  admin,     \* the admin queue of the block layer: [at, stopped]
  ns,        \* the queues of the namespaces
  work,      \* the reset work: [pc, cmd: its admin command, n: I/O queues to create, i: the next,
             \*  cq: the device accepted its completion queue]
  dis,       \* [thread -> its place in nvme_dev_disable]
  lock,      \* who holds shutdown_lock
  again,     \* [thread -> it calls nvme_reset when it is done]
  watchdog,  \* the timer is armed
  rem,       \* nvme_remove
  removeWork,\* remove_work
  kref,      \* the references to the controller
  opened,    \* open files among them
  requeued,  \* ghost: somebody queued the reset work after nvme_remove had flushed it
  fresh,     \* ghost: the reset work found every queue down, and nobody took the controller
             \* down or freed its queues since
  events     \* bound

vars == <<ctrl, hw, q, admin, ns, work, dis, lock, again, watchdog, rem, removeWork,
          kref, opened, requeued, fresh, events>>

IoQueues == 1 .. MaxQueues
Threads == {"work", "timeout", "system", "remove"}
Nobody == "nobody"

Device == [pci: BOOLEAN, cc: BOOLEAN, has: SUBSET (0 .. MaxQueues)]
Queues == [vec: SUBSET (0 .. MaxQueues), irq: SUBSET (0 .. MaxQueues), online: Int,
           count: 0 .. MaxQueues + 1, tags: BOOLEAN]
AdminQueue == [at: {"none", "alive", "dying"}, stopped: BOOLEAN]
DisablePlaces == {"no", "lock", "suspend", "off", "cancel", "done"}
WorkPlaces ==
  {"idle", "queued", "disabling", "state", "enable", "admin", "tags", "identify", "count",
   "irqs", "cq", "sq", "init", "events", "namespaces", "live", "dead", "burying"}
Outcomes == {"none", "sent", "held", "expired", "ok", "refused", "cancelled", "error"}
Work == [pc: WorkPlaces, cmd: Outcomes, n: 0 .. MaxQueues, i: Int, cq: BOOLEAN]

TypeOK ==
  /\ ctrl \in {"new", "live", "resetting", "deleting", "dead"}
  /\ hw \in Device /\ q \in Queues /\ work \in Work
  /\ admin \in AdminQueue
  /\ ns \in {"none", "running", "stopped", "killed"}
  /\ dis \in [Threads -> DisablePlaces]
  /\ lock \in Threads \union {Nobody}
  /\ again \in [Threads -> BOOLEAN] /\ watchdog \in BOOLEAN
  /\ rem \in {"no", "flush", "uninit", "disabling", "admin", "free", "gone"}
  /\ removeWork \in [pending: BOOLEAN, at: {"idle", "running", "removing"}]
  /\ kref \in Nat /\ opened \in 0 .. MaxEvents /\ requeued \in BOOLEAN /\ fresh \in BOOLEAN
  /\ events \in 0 .. MaxEvents

(* What nvme_probe leaves: everything off, the reset work queued. *)
Init ==
  /\ ctrl = "new"
  /\ hw = [pci |-> FALSE, cc |-> FALSE, has |-> {}]
  /\ q = [vec |-> {}, irq |-> {}, online |-> 0, count |-> 0, tags |-> FALSE]
  /\ admin = [at |-> "none", stopped |-> FALSE]
  /\ ns = "none"
  /\ work = [pc |-> "queued", cmd |-> "none", n |-> 0, i |-> 0, cq |-> FALSE]
  /\ dis = [t \in Threads |-> "no"] /\ lock = Nobody
  /\ again = [t \in Threads |-> FALSE]
  /\ watchdog = FALSE
  /\ rem = "no" /\ removeWork = [pending |-> FALSE, at |-> "idle"]
  /\ kref = 1 /\ opened = 0 /\ requeued = FALSE /\ fresh = FALSE
  /\ events = 0

(* A user, the system or an impatient request wants something. *)
Spend == events < MaxEvents /\ events' = events + 1

-----------------------------------------------------------------------------
(* nvme_change_ctrl_state *)
MayChange(old, new) ==
  \/ new = "live" /\ old \in {"new", "resetting"}
  \/ new = "resetting" /\ old \in {"new", "live"}
  \/ new = "deleting" /\ old \in {"live", "resetting"}
  \/ new = "dead" /\ old = "deleting"

(* nvme_suspend_queue for each queue of S. *)
Suspended(S) ==
  [q EXCEPT !.vec = @ \ S, !.irq = @ \ (S \intersect q.vec),
            !.online = @ - Cardinality(S \intersect q.vec)]

(* nvme_reset: what keeps the reset work from being queued. *)
MayReset == admin.at = "alive" /\ work.pc = "idle"

Flushed == rem \notin {"no", "flush"}

-----------------------------------------------------------------------------
(* nvme_dev_disable, run by thread t. *)
Disable(t) == dis' = [dis EXCEPT ![t] = "lock"]

(* del_timer_sync, then shutdown_lock. *)
DisableLock(t) ==
  /\ dis[t] = "lock" /\ lock = Nobody
  /\ lock' = t
  /\ watchdog' = FALSE
  /\ dis' = [dis EXCEPT ![t] = "suspend"]
  /\ fresh' = FALSE
  /\ UNCHANGED <<ctrl, hw, q, admin, ns, work, again, rem, removeWork, kref, opened, requeued, events>>

(* The namespaces' queues are stopped, the I/O queues suspended and, when  *)
(* the device is failed or off, the admin queue, too.                      *)
DisableSuspend(t) ==
  /\ dis[t] = "suspend"
  /\ fresh' = FALSE
  /\ ns' = IF hw.pci /\ ns = "running" THEN "stopped" ELSE ns
  /\ \E works \in {FALSE, hw.pci /\ 0 \in hw.has} :
       LET S == IF works THEN IoQueues ELSE IoQueues \union {0} IN
       /\ q' = Suspended(S)
       /\ admin' = [admin EXCEPT !.stopped = @ \/ (~works /\ 0 \in q.vec /\ admin.at # "none")]
       /\ dis' = [dis EXCEPT ![t] = IF works THEN "off" ELSE "cancel"]
  /\ UNCHANGED <<ctrl, hw, work, lock, again, watchdog, rem, removeWork, kref, opened, requeued, events>>

Shutdown(t) == CASE t = "remove" -> {TRUE} [] t = "system" -> BOOLEAN [] OTHER -> {FALSE}

(* nvme_disable_io_queues; nvme_disable_admin_queue, which leaves the      *)
(* controller alone when the admin queue is suspended already.  A shutdown *)
(* does not clear the enable bit.                                          *)
DisableOff(t) ==
  /\ dis[t] = "off"
  /\ fresh' = FALSE
  /\ dis' = [dis EXCEPT ![t] = "cancel"]
  /\ IF 0 \in q.vec
     THEN /\ q' = Suspended({0})
          /\ admin' = [admin EXCEPT !.stopped = @ \/ admin.at # "none"]
          /\ \E shutdown \in Shutdown(t) :
               hw' = [hw EXCEPT !.has = {}, !.cc = shutdown /\ @]
     ELSE /\ hw' = [hw EXCEPT !.has = @ \intersect {0}]
          /\ UNCHANGED <<q, admin>>
  /\ UNCHANGED <<ctrl, ns, work, lock, again, watchdog, rem, removeWork, kref, opened, requeued, events>>

DisableCancelLocked(t) ==   \* mutant: it returns without giving the lock back
  /\ dis[t] = "cancel"
  /\ hw' = [hw EXCEPT !.pci = FALSE, !.has = {}]
  /\ work' = [work EXCEPT !.cmd = IF @ = "sent" THEN "cancelled" ELSE @]
  /\ dis' = [dis EXCEPT ![t] = "done"]
  /\ UNCHANGED <<ctrl, q, admin, ns, lock, again, watchdog, rem, removeWork, kref, opened, requeued, fresh, events>>

(* nvme_pci_disable; requests that were started are cancelled.  A disabled *)
(* device has no queues.                                                   *)
DisableCancel(t) ==
  /\ dis[t] = "cancel"
  /\ fresh' = FALSE
  /\ hw' = [hw EXCEPT !.pci = FALSE, !.has = {}]
  /\ work' = [work EXCEPT !.cmd = IF @ = "sent" THEN "cancelled" ELSE @]
  /\ lock' = Nobody
  /\ dis' = [dis EXCEPT ![t] = "done"]
  /\ UNCHANGED <<ctrl, q, admin, ns, again, watchdog, rem, removeWork, kref, opened, requeued, events>>

(* The callers that do nothing else, or call nvme_reset, afterwards:       *)
(* nvme_timeout, whose request ends with NVME_SC_CANCELLED, an errno where *)
(* a cancelled one ends with a status of the device, and the system.       *)
DisableReturn(t) ==
  /\ t \in {"timeout", "system"} /\ dis[t] = "done"
  /\ dis' = [dis EXCEPT ![t] = "no"]
  /\ again' = [again EXCEPT ![t] = FALSE]
  /\ requeued' = (requeued \/ (Flushed /\ again[t] /\ MayReset))
  /\ work' = [work EXCEPT !.pc = IF again[t] /\ MayReset THEN "queued" ELSE @,
                          !.cmd = IF t = "timeout" /\ @ = "expired" THEN "error" ELSE @]
  /\ UNCHANGED <<ctrl, hw, q, admin, ns, lock, watchdog, rem, removeWork, kref, opened, fresh, events>>

Disabling == \E t \in Threads : \/ DisableLock(t) \/ DisableSuspend(t) \/ DisableOff(t)
                                \/ DisableCancel(t) \/ DisableReturn(t)

-----------------------------------------------------------------------------
(* The reset work: nvme_reset_work with what it calls. *)
At(pc) == work.pc = pc
Go(pc) == work' = [pc |-> pc, cmd |-> "none", n |-> 0, i |-> 0, cq |-> FALSE]

WorkStart ==
  /\ At("queued")
  /\ IF ctrl = "resetting" THEN Go("dead") /\ UNCHANGED dis   \* WARN_ON
     ELSE IF hw.cc THEN Go("disabling") /\ Disable("work")
     ELSE Go("state") /\ UNCHANGED dis
  /\ UNCHANGED <<ctrl, hw, q, admin, ns, lock, again, watchdog, rem, removeWork, kref, opened, requeued,
                 fresh, events>>

WorkDisabled ==
  /\ At("disabling") /\ dis["work"] = "done"
  /\ Go("state")
  /\ dis' = [dis EXCEPT !["work"] = "no"]
  /\ UNCHANGED <<ctrl, hw, q, admin, ns, lock, again, watchdog, rem, removeWork, kref, opened, requeued,
                 fresh, events>>

WorkState ==
  /\ At("state")
  /\ IF MayChange(ctrl, "resetting") THEN ctrl' = "resetting" /\ Go("enable")
     ELSE Go("dead") /\ UNCHANGED ctrl
  /\ fresh' = (q.vec = {} /\ q.irq = {} /\ q.online = 0)
  /\ UNCHANGED <<hw, q, admin, ns, dis, lock, again, watchdog, rem, removeWork, kref, opened, requeued, events>>

(* nvme_pci_enable; without a vector it leaves the device enabled. *)
PciEnable ==
  /\ At("enable")
  /\ \/ hw' = [hw EXCEPT !.pci = TRUE] /\ (Go("admin") \/ Go("dead"))
     \/ Go("dead") /\ UNCHANGED hw
  /\ UNCHANGED <<ctrl, q, admin, ns, dis, lock, again, watchdog, rem, removeWork, kref, opened, requeued,
                 fresh, events>>

(* nvme_configure_admin_queue: a device that was disabled meanwhile reads  *)
(* as gone, one that does not get ready, or has no interrupt, is given up. *)
ConfigureAdminQueue ==
  /\ At("admin")
  /\ \/ /\ hw' = [hw EXCEPT !.cc = FALSE, !.has = {}]
        /\ Go("dead") /\ UNCHANGED q
     \/ /\ hw.pci
        /\ hw' = [hw EXCEPT !.cc = TRUE, !.has = {0}]
        /\ \/ /\ q' = [q EXCEPT !.vec = @ \union {0}, !.irq = @ \union {0},
                              !.count = IF @ = 0 THEN 1 ELSE @]
              /\ Go("tags")
           \/ /\ q' = [q EXCEPT !.count = IF @ = 0 THEN 1 ELSE @]
              /\ Go("dead")
  /\ UNCHANGED <<ctrl, admin, ns, dis, lock, again, watchdog, rem, removeWork, kref, opened, requeued,
                 fresh, events>>

(* nvme_init_queue for queue 0 and nvme_alloc_admin_tags *)
AllocAdminTags ==
  /\ At("tags")
  /\ q' = [q EXCEPT !.online = @ + 1]
  /\ \/ admin' = [admin EXCEPT !.at = IF @ = "none" THEN "alive" ELSE @, !.stopped = FALSE] /\ Go("identify")
     \/ admin.at = "none" /\ Go("dead") /\ UNCHANGED admin
  /\ UNCHANGED <<ctrl, hw, ns, dis, lock, again, watchdog, rem, removeWork, kref, opened, requeued, fresh, events>>

(* A synchronous admin command.  On a stopped queue it is held back and    *)
(* has no time-out; between the suspension of the queue and its stop it    *)
(* fails; a dying one takes none.                                          *)
Issued ==
  IF admin.at = "dying" THEN {"error"}
  ELSE IF admin.stopped THEN {"held"} \union (IF lock = Nobody THEN {} ELSE {"error"})
  ELSE IF 0 \in q.vec THEN {"sent"} ELSE {"error"}

Submit ==
  /\ work.pc \in {"identify", "count", "sq"} /\ work.cmd = "none"
  /\ work' \in {[work EXCEPT !.cmd = c] : c \in Issued}
  /\ UNCHANGED <<ctrl, hw, q, admin, ns, dis, lock, again, watchdog, rem, removeWork, kref, opened, requeued,
                 fresh, events>>

(* The device answers if it can; it refuses a submission queue without its *)
(* completion queue.                                                       *)
Answer ==
  /\ work.cmd = "sent" /\ 0 \in hw.has
  /\ \/ work' = [work EXCEPT !.cmd = "refused"]
     \/ (At("sq") => work.cq) /\ work' = [work EXCEPT !.cmd = "ok"]
  /\ UNCHANGED <<ctrl, hw, q, admin, ns, dis, lock, again, watchdog, rem, removeWork, kref, opened, requeued,
                 fresh, events>>

(* nvme_init_identify *)
InitIdentify ==
  /\ At("identify") /\ work.cmd \in {"ok", "refused", "cancelled", "error"}
  /\ Go(IF work.cmd = "ok" THEN "count" ELSE "dead")
  /\ UNCHANGED <<ctrl, hw, q, admin, ns, dis, lock, again, watchdog, rem, removeWork, kref, opened, requeued,
                 fresh, events>>

(* nvme_set_queue_count: a command that was refused or cancelled means no  *)
(* I/O queues, which is no failure.                                        *)
SetQueueCount ==
  /\ At("count")
  /\ \/ work.cmd = "error" /\ Go("dead")
     \/ work.cmd \in {"refused", "cancelled"} /\ Go("events")
     \/ work.cmd = "ok" /\ \E n \in IoQueues : work' = [work EXCEPT !.pc = "irqs", !.cmd = "none", !.n = n]
  /\ UNCHANGED <<ctrl, hw, q, admin, ns, dis, lock, again, watchdog, rem, removeWork, kref, opened, requeued,
                 fresh, events>>

(* The rest of nvme_setup_io_queues up to the loop of                      *)
(* nvme_create_io_queues: vectors, the admin queue's interrupt again, the  *)
(* memory of the queues.  Creation starts at online_queues.                *)
SetupIoQueues ==
  /\ At("irqs")
  /\ \/ Go("dead") /\ q' = [q EXCEPT !.irq = @ \ {0}]
     \/ Go("dead") /\ q' = [q EXCEPT !.vec = @ \ {0}, !.irq = @ \ {0}]
     \/ \E n \in 1 .. work.n :
          /\ q' = [q EXCEPT !.count = IF n + 1 > @ THEN n + 1 ELSE @]
          /\ work' = [work EXCEPT !.pc = "cq", !.n = n, !.i = q.online]
  /\ UNCHANGED <<ctrl, hw, admin, ns, dis, lock, again, watchdog, rem, removeWork, kref, opened, requeued,
                 fresh, events>>

(* nvme_create_queue: the vector first, then Create CQ, *)
CreateCq ==
  /\ At("cq") /\ work.cmd = "none"
  /\ IF work.i > work.n \/ work.i < 0
     THEN Go("events") /\ UNCHANGED q
     ELSE /\ q' = [q EXCEPT !.vec = IF work.i = 0 THEN @ \ {0} ELSE @ \union {work.i}]
          /\ work' \in {[work EXCEPT !.cmd = c] : c \in Issued}
  /\ UNCHANGED <<ctrl, hw, admin, ns, dis, lock, again, watchdog, rem, removeWork, kref, opened, requeued,
                 fresh, events>>

(* whose failure to be sent is the only one noticed, *)
CqCreated ==
  /\ At("cq") /\ work.cmd \in {"ok", "refused", "cancelled", "error"}
  /\ IF work.cmd = "error" THEN Go("dead")
     ELSE work' = [work EXCEPT !.pc = "sq", !.cmd = "none", !.cq = (work.cmd = "ok")]
  /\ UNCHANGED <<ctrl, hw, q, admin, ns, dis, lock, again, watchdog, rem, removeWork, kref, opened, requeued,
                 fresh, events>>

(* then Create SQ, which is treated alike, and the interrupt.              *)
SqCreated ==
  /\ At("sq") /\ work.cmd \in {"ok", "refused", "cancelled", "error"}
  /\ \/ /\ work.cmd = "error"
        /\ Go("dead") /\ UNCHANGED <<hw, q>>
     \/ /\ work.cmd # "error"
        /\ Go("dead") /\ UNCHANGED <<hw, q>>   \* no interrupt: both are deleted
     \/ /\ work.cmd # "error"
        /\ hw' = [hw EXCEPT !.has = IF work.cmd = "ok" /\ 0 \in @ THEN @ \union {work.i} ELSE @]
        /\ q' = [q EXCEPT !.irq = @ \union {work.i}]
        /\ work' = [work EXCEPT !.pc = "init", !.cmd = "none"]
  /\ UNCHANGED <<ctrl, admin, ns, dis, lock, again, watchdog, rem, removeWork, kref, opened, requeued,
                 fresh, events>>

(* nvme_init_queue *)
InitQueue ==
  /\ At("init")
  /\ q' = [q EXCEPT !.online = @ + 1]
  /\ work' = [work EXCEPT !.pc = "cq", !.i = @ + 1, !.cq = FALSE]
  /\ UNCHANGED <<ctrl, hw, admin, ns, dis, lock, again, watchdog, rem, removeWork, kref, opened, requeued,
                 fresh, events>>

(* Events are asked for (NvmeQueue) and the watchdog starts. *)
StartWatchdog ==
  /\ At("events")
  /\ watchdog' = TRUE
  /\ Go("namespaces")
  /\ UNCHANGED <<ctrl, hw, q, admin, ns, dis, lock, again, rem, removeWork, kref, opened, requeued, fresh, events>>

NamespacesStopped ==   \* mutant: the queues of the namespaces are not started again
  /\ At("namespaces")
  /\ ns' = IF q.online < 2 THEN "none" ELSE ns
  /\ q' = [q EXCEPT !.tags = @ \/ q.online > 1]
  /\ Go("live")
  /\ UNCHANGED <<ctrl, hw, admin, dis, lock, again, watchdog, rem, removeWork, kref, opened, requeued, fresh, events>>

(* Without an I/O queue the namespaces go; otherwise their queues start    *)
(* and nvme_dev_add frees the queues that were not created.                *)
Namespaces ==
  /\ At("namespaces")
  /\ IF q.online < 2 THEN ns' = "none" /\ UNCHANGED q
     ELSE /\ ns' = IF ns = "stopped" THEN "running" ELSE ns
          /\ q' = [q EXCEPT !.tags = TRUE,
                            !.count = IF q.tags /\ q.online < @ THEN q.online ELSE @]
  /\ Go("live")
  /\ UNCHANGED <<ctrl, hw, admin, dis, lock, again, watchdog, rem, removeWork, kref, opened, requeued, fresh, events>>

(* The scan it queues finds the namespaces. *)
MarkLive ==
  /\ At("live")
  /\ IF MayChange(ctrl, "live")
     THEN /\ ctrl' = "live" /\ Go("idle")
          /\ ns' = IF ns = "none" /\ q.online > 1 THEN "running" ELSE ns
     ELSE Go("dead") /\ UNCHANGED <<ctrl, ns>>
  /\ UNCHANGED <<hw, q, admin, dis, lock, again, watchdog, rem, removeWork, kref, opened, requeued, fresh, events>>

RemoveDeadUncounted ==   \* mutant: no reference is taken for remove_work
  /\ At("dead")
  /\ Go("burying") /\ Disable("work")
  /\ UNCHANGED <<ctrl, hw, q, admin, ns, lock, again, watchdog, rem, removeWork, kref, opened, requeued, fresh, events>>

(* nvme_remove_dead_ctrl *)
RemoveDead ==
  /\ At("dead")
  /\ kref' = kref + 1
  /\ Go("burying") /\ Disable("work")
  /\ UNCHANGED <<ctrl, hw, q, admin, ns, lock, again, watchdog, rem, removeWork, opened, requeued, fresh, events>>

ScheduleRemove ==
  /\ At("burying") /\ dis["work"] = "done"
  /\ dis' = [dis EXCEPT !["work"] = "no"]
  /\ removeWork' = [removeWork EXCEPT !.pending = TRUE]
  /\ kref' = IF removeWork.pending THEN kref - 1 ELSE kref
  /\ Go("idle")
  /\ UNCHANGED <<ctrl, hw, q, admin, ns, lock, again, watchdog, rem, opened, requeued, fresh, events>>

ComingUp ==
  \/ WorkStart \/ WorkDisabled \/ WorkState \/ PciEnable \/ ConfigureAdminQueue \/ AllocAdminTags
  \/ Submit \/ InitIdentify \/ SetQueueCount \/ SetupIoQueues
  \/ CreateCq \/ CqCreated \/ SqCreated \/ InitQueue
  \/ StartWatchdog \/ Namespaces \/ MarkLive \/ RemoveDead \/ ScheduleRemove

-----------------------------------------------------------------------------
(* A time-out of the reset work's own command, *)
CommandTimeout ==
  /\ work.cmd = "sent" /\ dis["timeout"] = "no"
  /\ work' = [work EXCEPT !.cmd = "expired"]
  /\ again' = [again EXCEPT !["timeout"] = (ctrl # "resetting")]
  /\ Disable("timeout")
  /\ UNCHANGED <<ctrl, hw, q, admin, ns, lock, watchdog, rem, removeWork, kref, opened, requeued, fresh, events>>

(* and of anybody else's, until nvme_dev_remove_admin has waited for them. *)
OtherTimeout ==
  /\ admin.at # "none" /\ rem \notin {"free", "gone"} /\ dis["timeout"] = "no"
  /\ Spend
  /\ again' = [again EXCEPT !["timeout"] = (ctrl # "resetting")]
  /\ Disable("timeout")
  /\ UNCHANGED <<ctrl, hw, q, admin, ns, work, lock, watchdog, rem, removeWork, kref, opened, requeued, fresh>>

(* nvme_reset from sysfs until device_destroy, from an ioctl, the watchdog, *)
(* or resume and slot_reset, which the driver core keeps apart from        *)
(* nvme_remove.                                                            *)
AskReset ==
  /\ MayReset
  /\ rem \in {"no", "flush", "uninit"} \/ opened > 0 \/ watchdog
  /\ Spend
  /\ work' = [work EXCEPT !.pc = "queued"]
  /\ requeued' = (requeued \/ Flushed)
  /\ watchdog' \in {watchdog, FALSE}
  /\ UNCHANGED <<ctrl, hw, q, admin, ns, dis, lock, again, rem, removeWork, kref, opened, fresh>>

(* nvme_suspend, nvme_shutdown, nvme_error_detected, nvme_reset_notify;    *)
(* the driver core keeps them apart from nvme_remove.                      *)
Outside ==
  /\ rem = "no" /\ dis["system"] = "no"
  /\ Spend
  /\ \E b \in BOOLEAN : again' = [again EXCEPT !["system"] = b]
  /\ Disable("system")
  /\ UNCHANGED <<ctrl, hw, q, admin, ns, work, lock, watchdog, rem, removeWork, kref, opened, requeued, fresh>>

-----------------------------------------------------------------------------
(* nvme_remove begins, for a device that may be absent. *)
RemoveBegin ==
  /\ dis["system"] = "no"
  /\ rem' = "flush"
  /\ IF MayChange(ctrl, "deleting") THEN ctrl' \in {"deleting", "dead"} ELSE UNCHANGED ctrl

(* Somebody unbinds or unplugs. *)
Unbind ==
  /\ rem = "no"
  /\ RemoveBegin
  /\ UNCHANGED <<hw, q, admin, ns, work, dis, lock, again, watchdog, removeWork, kref, opened, requeued, fresh, events>>

(* nvme_remove_dead_ctrl_work: it removes the device unless that is under  *)
(* way.                                                                    *)
RemoveWork ==
  /\ removeWork.pending /\ removeWork.at = "idle"
  /\ ns' = IF ns = "none" THEN ns ELSE "killed"
  /\ \/ rem = "no" /\ RemoveBegin /\ removeWork' = [pending |-> FALSE, at |-> "removing"]
     \/ rem # "no" /\ removeWork' = [pending |-> FALSE, at |-> "running"] /\ UNCHANGED <<ctrl, rem>>
  /\ UNCHANGED <<hw, q, admin, work, dis, lock, again, watchdog, kref, opened, requeued, fresh, events>>

RemoveWorkEnd ==
  /\ removeWork.at = "running" \/ (removeWork.at = "removing" /\ rem = "gone")
  /\ removeWork' = [removeWork EXCEPT !.at = "idle"]
  /\ kref' = kref - 1
  /\ UNCHANGED <<ctrl, hw, q, admin, ns, work, dis, lock, again, watchdog, rem, opened, requeued, fresh, events>>

(* flush_work(reset_work): from here on nobody waits for the reset work. *)
Flush ==
  /\ rem = "flush" /\ At("idle")
  /\ rem' = "uninit"
  /\ UNCHANGED <<ctrl, hw, q, admin, ns, work, dis, lock, again, watchdog, removeWork, kref, opened,
                 requeued, fresh, events>>

(* nvme_uninit_ctrl, and nvme_dev_disable begins. *)
Uninit ==
  /\ rem = "uninit"
  /\ rem' = "disabling"
  /\ ns' = "none"
  /\ Disable("remove")
  /\ UNCHANGED <<ctrl, hw, q, admin, work, lock, again, watchdog, removeWork, kref, opened, requeued,
                 fresh, events>>

(* nvme_dev_remove_admin starts the queue, which fails what was held back, *)
(* and makes it refuse what comes later, *)
KillAdmin ==
  /\ rem = "disabling" /\ dis["remove"] = "done"
  /\ rem' = "admin"
  /\ dis' = [dis EXCEPT !["remove"] = "no"]
  /\ admin' = IF admin.at = "alive" THEN [at |-> "dying", stopped |-> FALSE] ELSE admin
  /\ work' = [work EXCEPT !.cmd = IF @ = "held" THEN "error" ELSE @]
  /\ UNCHANGED <<ctrl, hw, q, ns, lock, again, watchdog, removeWork, kref, opened, requeued, fresh, events>>

(* and waits for every request, so for handlers of time-outs, too;         *)
(* nvme_free_queues and the rest.                                          *)
FreeQueues ==
  /\ rem = "admin" /\ dis["timeout"] = "no" /\ work.cmd \notin {"sent", "expired"}
  /\ rem' = "free"
  /\ q' = [q EXCEPT !.count = 0]
  /\ fresh' = FALSE
  /\ UNCHANGED <<ctrl, hw, admin, ns, work, dis, lock, again, watchdog, removeWork, kref, opened,
                 requeued, events>>

PutCtrl ==
  /\ rem = "free"
  /\ rem' = "gone"
  /\ kref' = kref - 1
  /\ UNCHANGED <<ctrl, hw, q, admin, ns, work, dis, lock, again, watchdog, removeWork, opened, requeued, fresh, events>>

(* nvme_dev_open, nvme_dev_release *)
Open ==
  /\ rem \in {"no", "flush", "uninit"} /\ admin.at # "none" /\ kref > 0
  /\ Spend
  /\ kref' = kref + 1 /\ opened' = opened + 1
  /\ UNCHANGED <<ctrl, hw, q, admin, ns, work, dis, lock, again, watchdog, rem, removeWork, requeued, fresh>>

Release ==
  /\ opened > 0
  /\ kref' = kref - 1 /\ opened' = opened - 1
  /\ UNCHANGED <<ctrl, hw, q, admin, ns, work, dis, lock, again, watchdog, rem, removeWork, requeued, fresh, events>>

Removing == RemoveWork \/ RemoveWorkEnd \/ Flush \/ Uninit \/ KillAdmin \/ FreeQueues \/ PutCtrl
Users == OtherTimeout \/ AskReset \/ Outside \/ Unbind \/ Open \/ Release

Next == Disabling \/ ComingUp \/ Answer \/ CommandTimeout \/ Removing \/ Users

(* The kernel's threads get on and the timers expire; nothing is asked of  *)
(* the device or of users.                                                 *)
Fairness ==
  /\ \A t \in Threads : WF_vars(DisableLock(t) \/ DisableSuspend(t) \/ DisableOff(t)
                                \/ DisableCancel(t) \/ DisableReturn(t))
  /\ WF_vars(ComingUp) /\ WF_vars(Removing) /\ WF_vars(CommandTimeout)

Spec == Init /\ [][Next]_vars
FairSpec == Spec /\ Fairness

-----------------------------------------------------------------------------
(***************************************************************************)
(* Whoever uses the controller's memory holds a reference or is waited for *)
(* by nvme_remove: once it is freed nobody takes the controller down,      *)
(* removes it or has it open, and once nvme_remove freed the queues the    *)
(* reset work and its watchdog are at rest and the controller is off.      *)
(* nvme_remove does not wait for a reset that is asked for after it has    *)
(* flushed the reset work; that one is at work all the same, but finds the *)
(* controller marked as deleted and leaves it off, unless the removal came *)
(* before the first start, when nvme_change_ctrl_state refuses the mark.   *)
(***************************************************************************)
Off == hw.has = {} /\ ~hw.pci /\ q.vec = {} /\ ~watchdog

FreedIsUnused ==
  /\ kref = 0 => /\ \A t \in Threads \ {"work"} : dis[t] = "no"
                 /\ ~removeWork.pending /\ removeWork.at = "idle" /\ opened = 0
  /\ rem \in {"free", "gone"} =>
       /\ \A t \in Threads \ {"work"} : dis[t] = "no"
       /\ lock \in {Nobody, "work"}
       /\ ~requeued => At("idle") /\ lock = Nobody
       /\ ~requeued \/ ctrl \in {"deleting", "dead"} => Off

(***************************************************************************)
(* What the reset work declares live works, if it found everything down    *)
(* and nobody took it down in the meantime: the admin queue runs,          *)
(* online_queues counts the queues that have a vector and an interrupt,    *)
(* and the namespaces' queues run.  On the way there a queue that may be   *)
(* used has memory: nvme_dev_add frees only queues not created; and none   *)
(* of its commands is held back on a stopped admin queue.                  *)
(***************************************************************************)
LiveAnswers ==
  /\ fresh => q.vec \subseteq 0 .. q.count - 1 /\ work.cmd # "held"
  /\ (ctrl = "live" /\ At("idle") /\ fresh) =>
     /\ 0 \in q.vec /\ ~admin.stopped /\ hw.pci /\ hw.cc
     /\ q.vec = 0 .. q.online - 1 /\ q.irq = q.vec
     /\ ns # "stopped"

(***************************************************************************)
(* A start comes to an end, live or dead, although the device may refuse   *)
(* or never answer any command, unless its command is held back; and a     *)
(* removal comes to an end unless it waits for such a start.               *)
(***************************************************************************)
WorkEndsOrIsHeld ==
  /\ ~At("idle") ~> (At("idle") \/ work.cmd = "held")
  /\ rem = "flush" ~> (rem = "gone" \/ work.cmd = "held")

(***************************************************************************)
(* "Ignore failing Create SQ/CQ commands, we can continue with less than   *)
(* the desired aount of queues" (nvme_create_io_queues): the queues of a   *)
(* live controller are the ones the device accepted.                       *)
(***************************************************************************)
OnlineIsCreated ==
  (ctrl = "live" /\ At("idle") /\ fresh) => q.vec \subseteq hw.has
=============================================================================
