--------------------------- MODULE NvmeCtrlProofs ---------------------------
(***************************************************************************)
(* The life of a controller for any number of I/O queues, resets,          *)
(* time-outs and openings.                                                 *)
(*                                                                         *)
(* PlaceInv says who is at work: who holds shutdown_lock, that the reset   *)
(* work rests once nvme_remove has flushed it, unless it is asked for      *)
(* again, and that no time-out is handled once nvme_dev_remove_admin has   *)
(* waited.  CountedInv counts the references.  DownInv follows             *)
(* nvme_dev_disable for nvme_remove, which nobody can undo any more when   *)
(* the controller is marked as deleted or no reset was asked for.          *)
(* BringUpInv follows the reset work through nvme_create_io_queues, as     *)
(* long as nobody has taken the controller down in the meantime.           *)
(***************************************************************************)
EXTENDS NvmeCtrl, FiniteSetTheorems, TLAPS

Locked == {"suspend", "off", "cancel"}

(* Who is where. *)
PlaceInv ==
  /\ \A t \in Threads : lock = t <=> dis[t] \in Locked
  /\ dis["work"] # "no" <=> work.pc \in {"disabling", "burying"}
  /\ dis["remove"] # "no" <=> rem = "disabling"
  /\ rem # "no" => dis["system"] = "no"
  /\ work.cmd # "none" => work.pc \in {"identify", "count", "cq", "sq"}
  /\ Flushed /\ ~At("idle") => requeued
  /\ requeued => admin.at # "none"
  /\ rem \in {"admin", "free", "gone"} => admin.at # "alive"
  /\ rem \in {"free", "gone"} => dis["timeout"] = "no" /\ work.cmd \notin {"sent", "expired"}

(* The references: nvme_probe's, which nvme_remove drops, those of open    *)
(* files, and the one that nvme_remove_dead_ctrl takes for remove_work.    *)
One(b) == IF b THEN 1 ELSE 0
CountedInv ==
  /\ opened <= events
  /\ kref = One(rem # "gone") + opened + One(At("burying")) + One(removeWork.pending)
            + One(removeWork.at # "idle")

(* How far nvme_remove has taken the controller down. *)
Condemned == Flushed /\ (~requeued \/ ctrl \in {"deleting", "dead"})
DownInv ==
  Condemned =>
    /\ work.pc \in {"idle", "queued", "disabling", "state", "dead", "burying"}
    /\ rem # "uninit" /\ dis["remove"] # "lock" => ~watchdog
    /\ dis["remove"] = "off" => q.vec \subseteq {0}
    /\ dis["remove"] \in {"cancel", "done"} => q.vec = {}
    /\ dis["remove"] = "done" => ~hw.pci /\ hw.has = {}
    /\ rem \in {"admin", "free", "gone"} => Off

(* The numbers of nvme_create_io_queues. *)
LoopInv ==
  At("sq") \/ At("init") \/ (At("cq") /\ work.cmd # "none") =>
    0 <= work.i /\ work.i <= work.n

(* Everything up to queue i - 1 is up, and for queue i what S says.        *)
UpTo(vec, irq, online) ==
  /\ q.vec = 0 .. vec /\ q.irq = 0 .. irq /\ q.online = online /\ vec + 1 <= q.count
  /\ hw.pci /\ hw.cc

AllUp == q.online >= 1 /\ UpTo(q.online - 1, q.online - 1, q.online) /\ ~admin.stopped

(* How far an undisturbed reset work has brought it up. *)
BringUpInv ==
  fresh =>
    /\ q.vec \subseteq 0 .. q.count - 1 /\ work.cmd # "held"
    /\ work.pc \in {"disabling", "burying"} => dis["work"] = "lock"
    /\ work.pc \in {"enable", "admin"} => q.vec = {} /\ q.irq = {} /\ q.online = 0
    /\ At("tags") => UpTo(0, 0, 0)
    /\ work.pc \in {"identify", "count", "irqs"} => UpTo(0, 0, 1) /\ ~admin.stopped
    /\ work.pc \in {"cq", "sq", "init"} =>
         /\ ~admin.stopped /\ work.i = q.online
         /\ 1 <= work.i /\ work.i <= work.n + 1 /\ work.n + 1 <= q.count
         /\ UpTo(IF At("cq") /\ work.cmd = "none" THEN work.i - 1 ELSE work.i,
                 IF At("init") THEN work.i ELSE work.i - 1, work.i)
    /\ work.pc \in {"events", "namespaces", "live", "idle"} => AllUp
    /\ work.pc \in {"live", "idle"} => ns # "stopped"

CtrlInv == TypeOK /\ PlaceInv /\ CountedInv /\ DownInv /\ LoopInv /\ BringUpInv

(* Where a step of the reset work leads. *)
LEMMA GoFacts ==
  ASSUME NEW pc \in WorkPlaces, Go(pc)
  PROVE  work' \in Work /\ work'.pc = pc /\ work'.cmd = "none"
<1>1. "none" \in Outcomes /\ 0 \in 0 .. MaxQueues
  BY CtrlAssumption DEF Outcomes
<1> QED BY <1>1 DEF Go, Work

(* What nvme_suspend_queue leaves of the books. *)
LEMMA SuspendedFacts ==
  ASSUME q \in Queues, NEW S \in SUBSET (0 .. MaxQueues)
  PROVE  /\ Suspended(S) \in Queues
         /\ Suspended(S).vec = q.vec \ S
         /\ Suspended(S).count = q.count
<1>1. IsFiniteSet(0 .. MaxQueues)
  BY CtrlAssumption, FS_Interval
<1>2. Cardinality(S \intersect q.vec) \in Nat
  BY <1>1, FS_Subset, FS_CardinalityType DEF Queues
<1> DEFINE c == Cardinality(S \intersect q.vec)
<1>3. q.online - c \in Int
  BY <1>2 DEF Queues
<1>4. Suspended(S) = [q EXCEPT !.vec = q.vec \ S, !.irq = q.irq \ (S \intersect q.vec),
                           !.online = q.online - c]
  BY DEF Suspended
<1> HIDE DEF c
<1> QED BY <1>3, <1>4 DEF Queues

(* A thread's place in nvme_dev_disable. *)
LEMMA PlacesAre ==
  /\ \A p \in DisablePlaces, t \in Threads :
       TypeOK => [dis EXCEPT ![t] = p] \in [Threads -> DisablePlaces]
  /\ \A p \in {"no", "lock", "suspend", "off", "cancel", "done"} : p \in DisablePlaces
  BY DEF TypeOK, DisablePlaces
(* The steps of nvme_setup_io_queues, field by field. *)
LEMMA SetQueueCountEffect ==
  ASSUME TypeOK, SetQueueCount
  PROVE  /\ At("count") /\ work' \in Work /\ work'.cmd = "none"
         /\ work'.pc \in {"dead", "events", "irqs"}
         /\ UNCHANGED <<ctrl, hw, q, admin, ns, dis, lock, again, watchdog, rem, removeWork,
                        kref, opened, requeued, fresh, events>>
<1>1. CASE Go("dead")
  BY <1>1, GoFacts DEF SetQueueCount, WorkPlaces
<1>2. CASE Go("events")
  BY <1>2, GoFacts DEF SetQueueCount, WorkPlaces
<1>3. ASSUME NEW n \in IoQueues, work' = [work EXCEPT !.pc = "irqs", !.cmd = "none", !.n = n]
      PROVE  work' \in Work /\ work'.cmd = "none" /\ work'.pc = "irqs"
  <2>1. "irqs" \in WorkPlaces /\ "none" \in Outcomes /\ n \in 0 .. MaxQueues
    BY CtrlAssumption DEF WorkPlaces, Outcomes, IoQueues
  <2> QED
    BY <1>3, <2>1 DEF TypeOK, Work
<1> QED
  BY <1>1, <1>2, <1>3 DEF SetQueueCount

LEMMA SetupEffect ==
  ASSUME TypeOK, SetupIoQueues
  PROVE  /\ At("irqs") /\ work' \in Work /\ q' \in Queues
         /\ \/ /\ work'.pc = "dead" /\ work'.cmd = "none"
               /\ q'.vec \subseteq q.vec /\ q'.count = q.count
            \/ /\ work'.pc = "cq" /\ work'.cmd = work.cmd /\ work'.i = q.online
               /\ 1 <= work'.n /\ work'.n + 1 <= q'.count /\ q.count <= q'.count
               /\ q'.vec = q.vec /\ q'.irq = q.irq /\ q'.online = q.online
         /\ UNCHANGED <<ctrl, hw, admin, ns, dis, lock, again, watchdog, rem, removeWork,
                        kref, opened, requeued, fresh, events>>
<1> DEFINE Failed == /\ Go("dead")
                     /\ \/ q' = [q EXCEPT !.irq = @ \ {0}]
                        \/ q' = [q EXCEPT !.vec = @ \ {0}, !.irq = @ \ {0}]
<1>1. CASE Failed
  <2>1. work' \in Work /\ work'.pc = "dead" /\ work'.cmd = "none"
    BY <1>1, GoFacts DEF WorkPlaces
  <2>2. q' \in Queues /\ q'.vec \subseteq q.vec /\ q'.count = q.count
    <3>1. CASE q' = [q EXCEPT !.irq = @ \ {0}]
      BY <3>1 DEF TypeOK, Queues
    <3>2. CASE q' = [q EXCEPT !.vec = @ \ {0}, !.irq = @ \ {0}]
      BY <3>2 DEF TypeOK, Queues
    <3> QED
      BY <1>1, <3>1, <3>2
  <2> QED
    BY <2>1, <2>2 DEF SetupIoQueues
<1>2. ASSUME NEW n \in 1 .. work.n,
             q' = [q EXCEPT !.count = IF n + 1 > @ THEN n + 1 ELSE @],
             work' = [work EXCEPT !.pc = "cq", !.n = n, !.i = q.online]
      PROVE  /\ work' \in Work /\ q' \in Queues
             /\ work'.pc = "cq" /\ work'.cmd = work.cmd /\ work'.i = q.online /\ work'.n = n
             /\ n + 1 <= q'.count /\ q.count <= q'.count
             /\ q'.vec = q.vec /\ q'.irq = q.irq /\ q'.online = q.online
  <2>1. q' \in Queues /\ n + 1 <= q'.count /\ q.count <= q'.count
        /\ q'.vec = q.vec /\ q'.irq = q.irq /\ q'.online = q.online
    BY <1>2, CtrlAssumption DEF TypeOK, Queues, Work
  <2>2. /\ work' \in Work /\ work'.pc = "cq" /\ work'.cmd = work.cmd /\ work'.i = q.online
        /\ work'.n = n
    <3>1. "cq" \in WorkPlaces /\ n \in 0 .. MaxQueues /\ q.online \in Int
      BY CtrlAssumption DEF TypeOK, Queues, Work, WorkPlaces
    <3> QED
      BY <1>2, <3>1 DEF TypeOK, Work
  <2> QED
    BY <2>1, <2>2
<1> HIDE DEF Failed
<1>3. Failed \/ \E n \in 1 .. work.n :
        /\ q' = [q EXCEPT !.count = IF n + 1 > @ THEN n + 1 ELSE @]
        /\ work' = [work EXCEPT !.pc = "cq", !.n = n, !.i = q.online]
  BY DEF SetupIoQueues, Failed
<1>4. \A n \in 1 .. work.n : 1 <= n
  OBVIOUS
<1> QED
  <2>1. CASE Failed
    BY <1>1, <2>1 DEF SetupIoQueues
  <2>2. CASE ~Failed
    BY <1>2, <1>3, <1>4, <2>2 DEF SetupIoQueues
  <2> QED
    BY <2>1, <2>2

LEMMA CreateCqEffect ==
  ASSUME TypeOK, CreateCq
  PROVE  /\ At("cq") /\ work.cmd = "none" /\ work' \in Work /\ q' \in Queues
         /\ \/ /\ work.i > work.n \/ work.i < 0
               /\ work'.pc = "events" /\ work'.cmd = "none" /\ q' = q
            \/ /\ 0 <= work.i /\ work.i <= work.n
               /\ work'.pc = "cq" /\ work'.i = work.i /\ work'.n = work.n /\ work'.cmd \in Issued
               /\ q'.irq = q.irq /\ q'.online = q.online /\ q'.count = q.count
               /\ q'.vec = IF work.i = 0 THEN q.vec \ {0} ELSE q.vec \union {work.i}
         /\ UNCHANGED <<ctrl, hw, admin, ns, dis, lock, again, watchdog, rem, removeWork,
                        kref, opened, requeued, fresh, events>>
<1>0. work.i \in Int /\ work.n \in 0 .. MaxQueues
  BY DEF TypeOK, Work
<1>1. CASE work.i > work.n \/ work.i < 0
  BY <1>0, <1>1, GoFacts DEF CreateCq, TypeOK, WorkPlaces
<1>2. CASE work.i \in 0 .. work.n
  <2>1. PICK c \in Issued : work' = [work EXCEPT !.cmd = c]
    BY <1>0, <1>2 DEF CreateCq
  <2>2. c \in Outcomes
    BY DEF Issued, Outcomes
  <2>3. work' \in Work /\ work'.pc = "cq" /\ work'.i = work.i /\ work'.n = work.n /\ work'.cmd = c
    BY <2>1, <2>2 DEF TypeOK, Work, CreateCq, At
  <2>4. q' = [q EXCEPT !.vec = IF work.i = 0 THEN q.vec \ {0} ELSE q.vec \union {work.i}]
    BY <1>0, <1>2 DEF CreateCq
  <2>5. /\ q' \in Queues /\ q'.irq = q.irq /\ q'.online = q.online /\ q'.count = q.count
        /\ q'.vec = IF work.i = 0 THEN q.vec \ {0} ELSE q.vec \union {work.i}
    <3>1. (IF work.i = 0 THEN q.vec \ {0} ELSE q.vec \union {work.i}) \in SUBSET (0 .. MaxQueues)
      BY <1>0, <1>2, CtrlAssumption DEF TypeOK, Queues
    <3> QED
      BY <2>4, <3>1 DEF TypeOK, Queues
  <2> QED
    BY <1>0, <1>2, <2>3, <2>5 DEF CreateCq
<1> QED
  BY <1>0, <1>1, <1>2

LEMMA CqCreatedEffect ==
  ASSUME TypeOK, CqCreated
  PROVE  /\ At("cq") /\ work.cmd # "none" /\ work' \in Work /\ work'.cmd = "none"
         /\ \/ work'.pc = "dead"
            \/ work'.pc = "sq" /\ work'.i = work.i /\ work'.n = work.n
         /\ UNCHANGED <<ctrl, hw, q, admin, ns, dis, lock, again, watchdog, rem, removeWork,
                        kref, opened, requeued, fresh, events>>
<1>1. CASE work.cmd = "error"
  BY <1>1, GoFacts DEF CqCreated, WorkPlaces
<1>2. CASE work.cmd # "error"
  <2>1. work' = [work EXCEPT !.pc = "sq", !.cmd = "none", !.cq = (work.cmd = "ok")]
    BY <1>2 DEF CqCreated
  <2>2. /\ work' \in Work /\ work'.pc = "sq" /\ work'.cmd = "none"
        /\ work'.i = work.i /\ work'.n = work.n
    BY <2>1 DEF TypeOK, Work, WorkPlaces, Outcomes
  <2> QED
    BY <2>2 DEF CqCreated
<1> QED
  BY <1>1, <1>2

LEMMA SqCreatedEffect ==
  ASSUME TypeOK, LoopInv, SqCreated
  PROVE  /\ At("sq") /\ work' \in Work /\ q' \in Queues /\ hw' \in Device /\ work'.cmd = "none"
         /\ \/ work'.pc = "dead" /\ UNCHANGED <<hw, q>>
            \/ /\ work'.pc = "init" /\ work'.i = work.i /\ work'.n = work.n
               /\ q'.vec = q.vec /\ q'.irq = q.irq \union {work.i}
               /\ q'.online = q.online /\ q'.count = q.count
               /\ hw'.pci = hw.pci /\ hw'.cc = hw.cc
         /\ UNCHANGED <<ctrl, admin, ns, dis, lock, again, watchdog, rem, removeWork,
                        kref, opened, requeued, fresh, events>>
<1>0. work.i \in 0 .. MaxQueues
  BY CtrlAssumption DEF LoopInv, SqCreated, At, TypeOK, Work
<1>1. CASE Go("dead") /\ UNCHANGED <<hw, q>>
  BY <1>1, GoFacts DEF SqCreated, WorkPlaces, TypeOK
<1> DEFINE Created ==
      /\ hw' = [hw EXCEPT !.has = IF work.cmd = "ok" /\ 0 \in @ THEN @ \union {work.i} ELSE @]
      /\ q' = [q EXCEPT !.irq = @ \union {work.i}]
      /\ work' = [work EXCEPT !.pc = "init", !.cmd = "none"]
<1>2. CASE Created
  <2>1. hw' \in Device /\ hw'.pci = hw.pci /\ hw'.cc = hw.cc
    BY <1>0, <1>2 DEF TypeOK, Device
  <2>2. /\ q' \in Queues /\ q'.vec = q.vec /\ q'.irq = q.irq \union {work.i}
        /\ q'.online = q.online /\ q'.count = q.count
    BY <1>0, <1>2 DEF TypeOK, Queues
  <2>3. /\ work' \in Work /\ work'.pc = "init" /\ work'.cmd = "none"
        /\ work'.i = work.i /\ work'.n = work.n
    BY <1>2 DEF TypeOK, Work, WorkPlaces, Outcomes
  <2> QED
    BY <2>1, <2>2, <2>3 DEF SqCreated
<1>3. (Go("dead") /\ UNCHANGED <<hw, q>>) \/ Created
  BY DEF SqCreated
<1> QED
  BY <1>1, <1>2, <1>3

LEMMA InitQueueEffect ==
  ASSUME TypeOK, InitQueue
  PROVE  /\ At("init") /\ work' \in Work /\ q' \in Queues
         /\ work'.pc = "cq" /\ work'.cmd = work.cmd /\ work'.n = work.n /\ work'.i = work.i + 1
         /\ q'.vec = q.vec /\ q'.irq = q.irq /\ q'.online = q.online + 1 /\ q'.count = q.count
         /\ UNCHANGED <<ctrl, hw, admin, ns, dis, lock, again, watchdog, rem, removeWork,
                        kref, opened, requeued, fresh, events>>
<1>1. work.i + 1 \in Int /\ q.online + 1 \in Int /\ "cq" \in WorkPlaces
  BY DEF TypeOK, Work, Queues, WorkPlaces
<1>2. work' = [work EXCEPT !.pc = "cq", !.i = work.i + 1, !.cq = FALSE]
  BY DEF InitQueue
<1>3. q' = [q EXCEPT !.online = q.online + 1]
  BY DEF InitQueue
<1>4. /\ work' \in Work /\ work'.pc = "cq" /\ work'.cmd = work.cmd /\ work'.n = work.n
      /\ work'.i = work.i + 1
  BY <1>1, <1>2 DEF TypeOK, Work
<1>5. /\ q' \in Queues /\ q'.vec = q.vec /\ q'.irq = q.irq /\ q'.online = q.online + 1
      /\ q'.count = q.count
  BY <1>1, <1>3 DEF TypeOK, Queues
<1> QED
  BY <1>4, <1>5 DEF InitQueue

(* nvme_configure_admin_queue, field by field. *)
LEMMA ConfigureEffect ==
  ASSUME TypeOK, ConfigureAdminQueue
  PROVE  /\ At("admin") /\ work' \in Work /\ q' \in Queues /\ hw' \in Device /\ work'.cmd = "none"
         /\ q'.online = q.online
         /\ \/ work'.pc = "dead" /\ q'.vec = q.vec /\ (q.vec = {} \/ q.count <= q'.count)
            \/ /\ work'.pc = "tags" /\ hw'.pci /\ hw'.cc
               /\ q'.vec = q.vec \union {0} /\ q'.irq = q.irq \union {0}
               /\ 1 <= q'.count /\ q.count <= q'.count
         /\ UNCHANGED <<ctrl, admin, ns, dis, lock, again, watchdog, rem, removeWork,
                        kref, opened, requeued, fresh, events>>
<1> DEFINE cnt == IF q.count = 0 THEN 1 ELSE q.count
<1>0. /\ cnt \in 0 .. MaxQueues + 1 /\ 1 <= cnt /\ q.count <= cnt
      /\ {0} \in SUBSET (0 .. MaxQueues) /\ {} \in SUBSET (0 .. MaxQueues)
  BY CtrlAssumption DEF TypeOK, Queues
<1> DEFINE NotReady == hw' = [hw EXCEPT !.cc = FALSE, !.has = {}] /\ Go("dead") /\ UNCHANGED q
           Up == /\ q' = [q EXCEPT !.vec = @ \union {0}, !.irq = @ \union {0}, !.count = cnt]
                 /\ Go("tags")
           NoIrq == q' = [q EXCEPT !.count = cnt] /\ Go("dead")
<1>1. NotReady \/ (hw.pci /\ hw' = [hw EXCEPT !.cc = TRUE, !.has = {0}] /\ (Up \/ NoIrq))
  BY DEF ConfigureAdminQueue
<1> HIDE DEF cnt
<1>2. CASE NotReady
  <2>1. hw' \in Device
    BY <1>0, <1>2 DEF TypeOK, Device
  <2>2. work' \in Work /\ work'.pc = "dead" /\ work'.cmd = "none"
    BY <1>2, GoFacts DEF WorkPlaces
  <2> QED
    BY <1>2, <2>1, <2>2 DEF ConfigureAdminQueue, TypeOK, Queues
<1>3. CASE hw.pci /\ hw' = [hw EXCEPT !.cc = TRUE, !.has = {0}] /\ (Up \/ NoIrq)
  <2>1. hw' \in Device /\ hw'.pci /\ hw'.cc
    BY <1>0, <1>3 DEF TypeOK, Device
  <2>2. CASE Up
    <3>1. work' \in Work /\ work'.pc = "tags" /\ work'.cmd = "none"
      BY <2>2, GoFacts DEF WorkPlaces
    <3>2. /\ q' \in Queues /\ q'.online = q.online /\ q'.count = cnt
          /\ q'.vec = q.vec \union {0} /\ q'.irq = q.irq \union {0}
      BY <1>0, <2>2 DEF TypeOK, Queues
    <3> QED
      BY <1>0, <2>1, <3>1, <3>2 DEF ConfigureAdminQueue
  <2>3. CASE NoIrq
    <3>1. work' \in Work /\ work'.pc = "dead" /\ work'.cmd = "none"
      BY <2>3, GoFacts DEF WorkPlaces
    <3>2. q' \in Queues /\ q'.online = q.online /\ q'.count = cnt /\ q'.vec = q.vec
      BY <1>0, <2>3 DEF TypeOK, Queues
    <3> QED
      BY <1>0, <2>1, <3>1, <3>2 DEF ConfigureAdminQueue
  <2> QED
    BY <1>3, <2>2, <2>3
<1> QED
  BY <1>1, <1>2, <1>3

(* The namespaces' queues start, and the queues not created are freed. *)
LEMMA NamespacesEffect ==
  ASSUME TypeOK, Namespaces
  PROVE  /\ At("namespaces") /\ work' \in Work /\ work'.pc = "live" /\ work'.cmd = "none"
         /\ q' \in Queues /\ q'.vec = q.vec /\ q'.irq = q.irq /\ q'.online = q.online
         /\ q.online <= q.count => q'.online <= q'.count
         /\ ns' \in {"none", "running", "killed"}
<1>1. work' \in Work /\ work'.pc = "live" /\ work'.cmd = "none"
  BY GoFacts DEF Namespaces, WorkPlaces
<1>2. CASE q.online < 2
  BY <1>1, <1>2 DEF Namespaces, TypeOK
<1>3. CASE ~(q.online < 2)
  <2> DEFINE cnt == IF q.tags /\ q.online < q.count THEN q.online ELSE q.count
  <2>1. cnt \in 0 .. MaxQueues + 1 /\ (q.online <= q.count => q.online <= cnt)
    BY <1>3, CtrlAssumption DEF TypeOK, Queues
  <2>2. q' = [q EXCEPT !.tags = TRUE, !.count = cnt]
    BY <1>3 DEF Namespaces
  <2> HIDE DEF cnt
  <2>3. /\ q' \in Queues /\ q'.vec = q.vec /\ q'.irq = q.irq /\ q'.online = q.online
        /\ q'.count = cnt
    BY <2>1, <2>2 DEF TypeOK, Queues
  <2>4. ns' \in {"none", "running", "killed"}
    BY <1>3 DEF Namespaces, TypeOK
  <2> QED
    BY <1>1, <2>1, <2>3, <2>4 DEF Namespaces
<1> QED
  BY <1>2, <1>3 DEF TypeOK, Queues

(* The queues go in nvme_dev_disable. *)
LEMMA OffEffect ==
  ASSUME TypeOK, NEW t \in Threads, DisableOff(t)
  PROVE  /\ q' \in Queues /\ hw' \in Device /\ admin' \in AdminQueue
         /\ q'.vec = q.vec \ {0} /\ admin'.at = admin.at
         /\ hw'.pci = hw.pci /\ hw'.has \subseteq hw.has
<1>0. {0} \in SUBSET (0 .. MaxQueues) /\ {} \in SUBSET (0 .. MaxQueues)
  BY CtrlAssumption
<1>1. CASE 0 \in q.vec
  <2>1. q' \in Queues /\ q'.vec = q.vec \ {0}
    BY <1>0, <1>1, SuspendedFacts DEF DisableOff, TypeOK
  <2>2. PICK shutdown \in BOOLEAN : hw' = [hw EXCEPT !.has = {}, !.cc = shutdown /\ @]
    BY <1>1 DEF DisableOff, Shutdown
  <2>3. hw' \in Device /\ hw'.pci = hw.pci /\ hw'.has \subseteq hw.has
    BY <1>0, <2>2 DEF TypeOK, Device
  <2>4. admin' \in AdminQueue /\ admin'.at = admin.at
    BY <1>1 DEF DisableOff, TypeOK, AdminQueue
  <2> QED
    BY <2>1, <2>3, <2>4
<1>2. CASE 0 \notin q.vec
  <2>1. hw' \in Device /\ hw'.pci = hw.pci /\ hw'.has \subseteq hw.has
    BY <1>2 DEF DisableOff, TypeOK, Device
  <2>2. q.vec \ {0} = q.vec
    BY <1>2
  <2> QED
    BY <1>2, <2>1, <2>2 DEF DisableOff, TypeOK
<1> QED
  BY <1>1, <1>2

(* remove_work's state. *)
LEMMA RemoveWorkTypes ==
  \A a \in {"idle", "running", "removing"} :
    [pending |-> FALSE, at |-> a] \in [pending: BOOLEAN, at: {"idle", "running", "removing"}]
OBVIOUS

(* A command that is sent, and its answer. *)
LEMMA SubmitEffect ==
  ASSUME TypeOK, Submit
  PROVE  /\ work.pc \in {"identify", "count", "sq"} /\ work.cmd = "none"
         /\ work'.pc = work.pc /\ work'.i = work.i /\ work'.n = work.n
         /\ work'.cmd \in Issued
         /\ UNCHANGED <<ctrl, hw, q, admin, ns, dis, lock, again, watchdog, rem, removeWork,
                        kref, opened, requeued, fresh, events>>
<1>1. PICK c \in Issued : work' = [work EXCEPT !.cmd = c]
  BY DEF Submit
<1>2. work'.pc = work.pc /\ work'.i = work.i /\ work'.n = work.n /\ work'.cmd = c
  BY <1>1 DEF TypeOK, Work
<1> QED
  BY <1>2 DEF Submit

LEMMA AnswerEffect ==
  ASSUME TypeOK, Answer
  PROVE  /\ work.cmd = "sent"
         /\ work'.pc = work.pc /\ work'.i = work.i /\ work'.n = work.n
         /\ work'.cmd \in {"refused", "ok"}
         /\ UNCHANGED <<ctrl, hw, q, admin, ns, dis, lock, again, watchdog, rem, removeWork,
                        kref, opened, requeued, fresh, events>>
<1>1. PICK c \in {"refused", "ok"} : work' = [work EXCEPT !.cmd = c]
  BY DEF Answer
<1>2. work'.pc = work.pc /\ work'.i = work.i /\ work'.n = work.n /\ work'.cmd = c
  BY <1>1 DEF TypeOK, Work
<1> QED
  BY <1>2 DEF Answer

(* A command is held back only on a stopped queue. *)
LEMMA IssuedFacts ==
  /\ Issued \subseteq {"held", "error", "sent"}
  /\ ~admin.stopped => "held" \notin Issued
  /\ admin.at = "dying" => Issued = {"error"}
BY DEF Issued

(* The admin queue's tags. *)
LEMMA TagsEffect ==
  ASSUME TypeOK, AllocAdminTags
  PROVE  /\ At("tags") /\ work'.cmd = "none"
         /\ q'.vec = q.vec /\ q'.irq = q.irq /\ q'.online = q.online + 1 /\ q'.count = q.count
         /\ work'.pc = "dead" \/ (work'.pc = "identify" /\ ~admin'.stopped)
         /\ admin'.at = admin.at \/ admin.at = "none"
         /\ UNCHANGED <<ctrl, hw, ns, dis, lock, again, watchdog, rem, removeWork, kref, opened, requeued,
                        fresh, events>>
<1>1. q'.vec = q.vec /\ q'.irq = q.irq /\ q'.online = q.online + 1 /\ q'.count = q.count
  BY DEF AllocAdminTags, TypeOK, Queues
<1>2. CASE Go("identify")
  <2>1. work'.cmd = "none" /\ work'.pc = "identify"
    BY <1>2, GoFacts DEF WorkPlaces
  <2>2. ~Go("dead")
    BY <2>1, GoFacts DEF WorkPlaces
  <2> QED
    BY <1>1, <2>1, <2>2 DEF AllocAdminTags, TypeOK, AdminQueue
<1>3. CASE Go("dead")
  BY <1>1, <1>3, GoFacts DEF AllocAdminTags, WorkPlaces
<1> QED
  BY <1>2, <1>3 DEF AllocAdminTags

(* The numbers. *)
LEMMA NumberTypes ==
  /\ \A k \in Queues : k.count \in Nat /\ k.online \in Int
  /\ \A w \in Work : w.i \in Int /\ w.n \in Nat
BY CtrlAssumption DEF Queues, Work

(* One queue more. *)
LEMMA OneMore ==
  /\ {} \union {0} = 0 .. 0
  /\ \A i \in Nat : (0 .. i - 1) \union {i} = 0 .. i
OBVIOUS

(* Types. *)
LEMMA TypeStep == CtrlInv /\ [Next]_vars => TypeOK'
<1> SUFFICES ASSUME CtrlInv, [Next]_vars PROVE TypeOK'
  OBVIOUS
<1> USE CtrlAssumption DEF CtrlInv, TypeOK
<1>0. /\ Threads = {"work", "timeout", "system", "remove"}
      /\ IoQueues \subseteq 0 .. MaxQueues /\ IoQueues \union {0} \subseteq 0 .. MaxQueues
      /\ {0} \subseteq 0 .. MaxQueues
  BY DEF IoQueues, Threads
<1>1. ASSUME NEW t \in Threads, DisableLock(t) PROVE TypeOK'
  <2>1. dis' \in [Threads -> DisablePlaces]
    BY <1>1, PlacesAre DEF DisableLock
  <2>2. /\ UNCHANGED <<ctrl, hw, q, admin, ns, work, again, rem, removeWork, kref, opened,
                     requeued, events>>
        /\ lock' = t /\ watchdog' = FALSE /\ fresh' = FALSE
    BY <1>1 DEF DisableLock
  <2>3. lock' \in Threads \union {Nobody} /\ watchdog' \in BOOLEAN /\ fresh' \in BOOLEAN
    BY <2>2
  <2> QED
    BY <2>1, <2>2, <2>3
<1>2. ASSUME NEW t \in Threads, DisableSuspend(t) PROVE TypeOK'
  <2>1. q' \in Queues
    BY <1>2, <1>0, SuspendedFacts DEF DisableSuspend
  <2>2. dis' \in [Threads -> DisablePlaces]
    BY <1>2, PlacesAre DEF DisableSuspend
  <2>3. admin' \in AdminQueue
    BY <1>2 DEF DisableSuspend, AdminQueue
  <2>4. ns' \in {"none", "running", "stopped", "killed"}
    BY <1>2 DEF DisableSuspend
  <2>5. /\ UNCHANGED <<ctrl, hw, work, lock, again, watchdog, rem, removeWork, kref, opened,
                     requeued, events>>
        /\ fresh' \in BOOLEAN
    BY <1>2 DEF DisableSuspend
  <2> QED
    BY <2>1, <2>2, <2>3, <2>4, <2>5
<1>3. ASSUME NEW t \in Threads, DisableOff(t) PROVE TypeOK'
  <2>1. q' \in Queues /\ hw' \in Device /\ admin' \in AdminQueue
    BY <1>3, OffEffect DEF DisableOff
  <2>2. dis' \in [Threads -> DisablePlaces]
    BY <1>3, PlacesAre DEF DisableOff
  <2>3. /\ UNCHANGED <<ctrl, ns, work, lock, again, watchdog, rem, removeWork, kref,
                     opened, requeued, events>>
        /\ fresh' = FALSE
    BY <1>3 DEF DisableOff
  <2>4. watchdog' \in BOOLEAN /\ fresh' \in BOOLEAN
    BY <2>3
  <2>5. /\ lock' \in Threads \union {Nobody} /\ again' \in [Threads -> BOOLEAN]
        /\ removeWork' \in [pending: BOOLEAN, at: {"idle", "running", "removing"}]
    BY <2>3
  <2> QED
    BY <2>1, <2>2, <2>3, <2>4, <2>5
<1>4. ASSUME NEW t \in Threads, DisableCancel(t) PROVE TypeOK'
  <2>1. hw' \in Device
    BY <1>4 DEF DisableCancel, Device
  <2>2. work' \in Work
    BY <1>4 DEF DisableCancel, Work, Outcomes
  <2>3. dis' \in [Threads -> DisablePlaces]
    BY <1>4, PlacesAre DEF DisableCancel
  <2>4. /\ UNCHANGED <<ctrl, q, admin, ns, again, watchdog, rem, removeWork, kref,
                     opened, requeued, events>>
        /\ lock' = Nobody /\ fresh' = FALSE
    BY <1>4 DEF DisableCancel
  <2>5. /\ UNCHANGED <<ctrl, q, admin, ns, again, watchdog, rem, removeWork, kref,
                     opened, requeued, events>>
        /\ lock' \in Threads \union {Nobody} /\ fresh' \in BOOLEAN
    BY <2>4
  <2> QED
    BY <2>1, <2>2, <2>3, <2>5
<1>5. ASSUME NEW t \in Threads, DisableReturn(t) PROVE TypeOK'
  <2>1. work' \in Work
    BY <1>5 DEF DisableReturn, Work, WorkPlaces, Outcomes, MayReset
  <2>2. dis' \in [Threads -> DisablePlaces]
    BY <1>5, PlacesAre DEF DisableReturn
  <2>3. again' \in [Threads -> BOOLEAN] /\ requeued' \in BOOLEAN
    BY <1>5 DEF DisableReturn
  <2> QED
    BY <1>5, <2>1, <2>2, <2>3 DEF DisableReturn
<1>6. CASE WorkStart
  <2>1. work' \in Work
    BY <1>6, GoFacts DEF WorkStart, WorkPlaces
  <2>2. dis' \in [Threads -> DisablePlaces]
    BY <1>6, <1>0, PlacesAre DEF WorkStart, Disable
  <2> QED
    BY <1>6, <2>1, <2>2 DEF WorkStart
<1>7. CASE WorkDisabled
  <2>1. work' \in Work
    BY <1>7, GoFacts DEF WorkDisabled, WorkPlaces
  <2>2. dis' \in [Threads -> DisablePlaces]
    BY <1>7, <1>0, PlacesAre DEF WorkDisabled
  <2> QED
    BY <1>7, <2>1, <2>2 DEF WorkDisabled
<1>8. CASE WorkState
  <2>1. work' \in Work
    BY <1>8, GoFacts DEF WorkState, WorkPlaces
  <2> QED
    BY <1>8, <2>1 DEF WorkState, MayChange
<1>9. CASE PciEnable
  <2>1. work' \in Work
    BY <1>9, GoFacts DEF PciEnable, WorkPlaces
  <2>2. hw' \in Device
    BY <1>9 DEF PciEnable, Device
  <2> QED
    BY <1>9, <2>1, <2>2 DEF PciEnable
<1>10. CASE ConfigureAdminQueue
  BY <1>10, ConfigureEffect
<1>11. CASE AllocAdminTags
  <2>1. work' \in Work
    BY <1>11, GoFacts DEF AllocAdminTags, WorkPlaces
  <2>2. admin' \in AdminQueue
    BY <1>11 DEF AllocAdminTags, AdminQueue
  <2>3. q' \in Queues
    BY <1>11 DEF AllocAdminTags, Queues
  <2> QED
    BY <1>11, <2>1, <2>2, <2>3 DEF AllocAdminTags
<1>12. CASE Submit
  <2>1. work' \in Work
    BY <1>12 DEF Submit, Work, Outcomes, Issued
  <2> QED
    BY <1>12, <2>1 DEF Submit
<1>13. CASE InitIdentify
  <2>1. work' \in Work
    BY <1>13, GoFacts DEF InitIdentify, WorkPlaces
  <2> QED
    BY <1>13, <2>1 DEF InitIdentify
<1>14. CASE SetQueueCount
  BY <1>14, SetQueueCountEffect
<1>15. CASE SetupIoQueues
  BY <1>15, SetupEffect
<1>16. CASE CreateCq
  BY <1>16, CreateCqEffect
<1>17. CASE CqCreated
  BY <1>17, CqCreatedEffect
<1>18. CASE SqCreated
  BY <1>18, SqCreatedEffect
<1>19. CASE InitQueue
  BY <1>19, InitQueueEffect
<1>20. CASE StartWatchdog
  <2>1. work' \in Work
    BY <1>20, GoFacts DEF StartWatchdog, WorkPlaces
  <2> QED
    BY <1>20, <2>1 DEF StartWatchdog
<1>21. CASE Namespaces
  <2>1. q' \in Queues /\ work' \in Work
    BY <1>21, NamespacesEffect DEF Namespaces
  <2> QED
    BY <1>21, <2>1 DEF Namespaces
<1>22. CASE MarkLive
  <2>1. work' \in Work
    BY <1>22, GoFacts DEF MarkLive, WorkPlaces
  <2> QED
    BY <1>22, <2>1 DEF MarkLive
<1>23. CASE RemoveDead
  <2>1. work' \in Work
    BY <1>23, GoFacts DEF RemoveDead, WorkPlaces
  <2>2. dis' \in [Threads -> DisablePlaces]
    BY <1>23, <1>0, PlacesAre DEF RemoveDead, Disable
  <2> QED
    BY <1>23, <2>1, <2>2 DEF RemoveDead
<1>24. CASE ScheduleRemove
  <2>1. work' \in Work
    BY <1>24, GoFacts DEF ScheduleRemove, WorkPlaces
  <2>2. dis' \in [Threads -> DisablePlaces]
    BY <1>24, <1>0, PlacesAre DEF ScheduleRemove
  <2>3. removeWork' \in [pending: BOOLEAN, at: {"idle", "running", "removing"}]
    BY <1>24 DEF ScheduleRemove
  <2>4. kref' \in Nat
    BY <1>24 DEF ScheduleRemove, CountedInv, One, At
  <2> QED
    BY <1>24, <2>1, <2>2, <2>3, <2>4 DEF ScheduleRemove
<1>25. CASE Answer
  <2>1. work' \in Work
    BY <1>25 DEF Answer, Work, Outcomes
  <2> QED
    BY <1>25, <2>1 DEF Answer
<1>26. CASE CommandTimeout
  <2>1. work' \in Work
    BY <1>26 DEF CommandTimeout, Work, Outcomes
  <2>2. dis' \in [Threads -> DisablePlaces]
    BY <1>26, <1>0, PlacesAre DEF CommandTimeout, Disable
  <2>3. again' \in [Threads -> BOOLEAN]
    BY <1>26, <1>0 DEF CommandTimeout
  <2> QED
    BY <1>26, <2>1, <2>2, <2>3 DEF CommandTimeout
<1>27. CASE RemoveWork
  <2>1. \/ removeWork' = [pending |-> FALSE, at |-> "removing"]
        \/ removeWork' = [pending |-> FALSE, at |-> "running"]
    BY <1>27 DEF RemoveWork
  <2>2. removeWork' \in [pending: BOOLEAN, at: {"idle", "running", "removing"}]
    BY <1>27, <2>1, RemoveWorkTypes DEF RemoveWork
  <2> QED
    BY <1>27, <2>1, <2>2 DEF RemoveWork, RemoveBegin
<1>28. CASE RemoveWorkEnd
  <2>1. removeWork' \in [pending: BOOLEAN, at: {"idle", "running", "removing"}]
    BY <1>28 DEF RemoveWorkEnd
  <2>2. kref' \in Nat
    BY <1>28 DEF RemoveWorkEnd, CountedInv, One, At
  <2> QED
    BY <1>28, <2>1, <2>2 DEF RemoveWorkEnd
<1>29. CASE Uninit
  <2>1. dis' \in [Threads -> DisablePlaces]
    BY <1>29, <1>0, PlacesAre DEF Uninit, Disable
  <2> QED
    BY <1>29, <2>1 DEF Uninit
<1>30. CASE FreeQueues
  <2>1. q' \in Queues
    BY <1>30 DEF FreeQueues, Queues
  <2> QED
    BY <1>30, <2>1 DEF FreeQueues
<1>31. CASE PutCtrl
  <2>1. kref' \in Nat
    BY <1>31 DEF PutCtrl, CountedInv, One, At
  <2> QED
    BY <1>31, <2>1 DEF PutCtrl
<1>32. CASE OtherTimeout
  <2>1. dis' \in [Threads -> DisablePlaces]
    BY <1>32, <1>0, PlacesAre DEF OtherTimeout, Disable
  <2>2. again' \in [Threads -> BOOLEAN]
    BY <1>32, <1>0 DEF OtherTimeout
  <2> QED
    BY <1>32, <2>1, <2>2 DEF OtherTimeout, Spend
<1>33. CASE AskReset
  <2>1. work' \in Work
    BY <1>33 DEF AskReset, Work, WorkPlaces, MayReset
  <2>2. watchdog' \in BOOLEAN /\ requeued' \in BOOLEAN
    BY <1>33, Zenon DEF AskReset
  <2>3. events' \in 0 .. MaxEvents
    BY <1>33 DEF AskReset, Spend
  <2> QED
    BY <1>33, <2>1, <2>2, <2>3 DEF AskReset
<1>34. CASE Outside
  <2>1. dis' \in [Threads -> DisablePlaces]
    BY <1>34, <1>0, PlacesAre DEF Outside, Disable
  <2>2. again' \in [Threads -> BOOLEAN]
    BY <1>34, <1>0 DEF Outside
  <2> QED
    BY <1>34, <2>1, <2>2 DEF Outside, Spend
<1>35. CASE Unbind
  BY <1>35 DEF Unbind, RemoveBegin
<1>36. CASE Open
  <2>1. opened' \in 0 .. MaxEvents
    BY <1>36 DEF Open, CountedInv, Spend
  <2> QED
    BY <1>36, <2>1 DEF Open, Spend
<1>37. CASE Release
  <2>1. kref' \in Nat
    BY <1>37 DEF Release, CountedInv, One, At
  <2> QED
    BY <1>37, <2>1 DEF Release
<1>38. CASE UNCHANGED vars
  BY <1>38 DEF vars
<1>39. CASE Flush
  BY <1>39 DEF Flush
<1>40. CASE KillAdmin
  <2>1. work' \in Work
    BY <1>40 DEF KillAdmin, Work, Outcomes
  <2>2. dis' \in [Threads -> DisablePlaces]
    BY <1>40, <1>0, PlacesAre DEF KillAdmin
  <2>3. admin' \in AdminQueue
    BY <1>40 DEF KillAdmin, AdminQueue
  <2> QED
    BY <1>40, <2>1, <2>2, <2>3 DEF KillAdmin
<1> QED
  BY <1>1, <1>2, <1>3, <1>4, <1>5, <1>6, <1>7, <1>8, <1>9, <1>10, <1>11, <1>12, <1>13, <1>14,
     <1>15, <1>16, <1>17, <1>18, <1>19, <1>20, <1>21, <1>22, <1>23, <1>24, <1>25, <1>26,
     <1>27, <1>28, <1>29, <1>30, <1>31, <1>32, <1>33, <1>34, <1>35, <1>36, <1>37, <1>38,
     <1>39, <1>40
        DEF Next, Disabling, ComingUp, Removing, Users

(* Who is where, after each step. *)
LEMMA PlaceStep == CtrlInv /\ [Next]_vars => PlaceInv'
<1> SUFFICES ASSUME CtrlInv, [Next]_vars PROVE PlaceInv'
  OBVIOUS
<1> USE CtrlAssumption DEF CtrlInv, TypeOK, PlaceInv, Threads, Locked, Nobody, At, Flushed,
   DisablePlaces
<1>1. ASSUME NEW t \in Threads, DisableLock(t) PROVE PlaceInv'
  BY <1>1 DEF DisableLock
<1>2. ASSUME NEW t \in Threads, DisableSuspend(t) PROVE PlaceInv'
  BY <1>2 DEF DisableSuspend, Suspended
<1>3. ASSUME NEW t \in Threads, DisableOff(t) PROVE PlaceInv'
  BY <1>3, OffEffect DEF DisableOff
<1>4. ASSUME NEW t \in Threads, DisableCancel(t) PROVE PlaceInv'
  BY <1>4 DEF DisableCancel
<1>5. ASSUME NEW t \in Threads, DisableReturn(t) PROVE PlaceInv'
  BY <1>5 DEF DisableReturn, MayReset
<1>6. CASE WorkStart
  BY <1>6 DEF WorkStart, Go, Disable
<1>7. CASE WorkDisabled
  BY <1>7 DEF WorkDisabled, Go
<1>8. CASE WorkState
  BY <1>8 DEF WorkState, Go, MayChange
<1>9. CASE PciEnable
  BY <1>9 DEF PciEnable, Go
<1>10. CASE ConfigureAdminQueue
  BY <1>10, ConfigureEffect
<1>11. CASE AllocAdminTags
  BY <1>11, TagsEffect
<1>12. CASE Submit
  <2>1. Submit
    BY <1>12
  <2>2. rem \in {"free", "gone"} => Issued = {"error"}
    BY <2>1, SubmitEffect, IssuedFacts DEF AdminQueue
  <2> QED
    BY <2>1, <2>2, SubmitEffect, IssuedFacts
<1>13. CASE InitIdentify
  BY <1>13 DEF InitIdentify, Go
<1>14. CASE SetQueueCount
  BY <1>14, SetQueueCountEffect
<1>15. CASE SetupIoQueues
  BY <1>15, SetupEffect
<1>16. CASE CreateCq
  <2>1. CreateCq
    BY <1>16
  <2>2. rem \in {"free", "gone"} => Issued = {"error"}
    BY <2>1, CreateCqEffect, IssuedFacts DEF AdminQueue
  <2> QED
    BY <2>1, <2>2, CreateCqEffect, IssuedFacts
<1>17. CASE CqCreated
  BY <1>17, CqCreatedEffect
<1>18. CASE SqCreated
  BY <1>18, SqCreatedEffect
<1>19. CASE InitQueue
  BY <1>19, InitQueueEffect
<1>20. CASE StartWatchdog
  BY <1>20 DEF StartWatchdog, Go
<1>21. CASE Namespaces
  BY <1>21 DEF Namespaces, Go
<1>22. CASE MarkLive
  BY <1>22 DEF MarkLive, Go, MayChange
<1>23. CASE RemoveDead
  BY <1>23 DEF RemoveDead, Go, Disable
<1>24. CASE ScheduleRemove
  BY <1>24 DEF ScheduleRemove, Go
<1>25. CASE Answer
  BY <1>25, AnswerEffect
<1>26. CASE CommandTimeout
  BY <1>26 DEF CommandTimeout, Disable
<1>27. CASE RemoveWork
  BY <1>27 DEF RemoveWork, RemoveBegin, MayChange
<1>28. CASE RemoveWorkEnd
  BY <1>28 DEF RemoveWorkEnd
<1>29. CASE Uninit
  BY <1>29 DEF Uninit, Disable
<1>30. CASE FreeQueues
  BY <1>30 DEF FreeQueues
<1>31. CASE PutCtrl
  BY <1>31 DEF PutCtrl
<1>32. CASE OtherTimeout
  BY <1>32 DEF OtherTimeout, Disable, Spend
<1>33. CASE AskReset
  <2>1. work'.pc = "queued" /\ work'.cmd = work.cmd /\ (Flushed => requeued')
    BY <1>33 DEF AskReset, Work
  <2>2. UNCHANGED <<rem, dis, lock, admin>> /\ admin.at = "alive" /\ work.pc = "idle"
    BY <1>33 DEF AskReset, MayReset
  <2> QED
    BY <2>1, <2>2
<1>34. CASE Outside
  BY <1>34 DEF Outside, Disable, Spend
<1>35. CASE Unbind
  BY <1>35 DEF Unbind, RemoveBegin, MayChange
<1>36. CASE Open
  BY <1>36 DEF Open, Spend
<1>37. CASE Release
  BY <1>37 DEF Release
<1>38. CASE UNCHANGED vars
  BY <1>38 DEF vars
<1>39. CASE Flush
  BY <1>39 DEF Flush
<1>40. CASE KillAdmin
  BY <1>40 DEF KillAdmin, Work, AdminQueue
<1> QED
  BY <1>1, <1>2, <1>3, <1>4, <1>5, <1>6, <1>7, <1>8, <1>9, <1>10, <1>11, <1>12, <1>13, <1>14,
     <1>15, <1>16, <1>17, <1>18, <1>19, <1>20, <1>21, <1>22, <1>23, <1>24, <1>25, <1>26,
     <1>27, <1>28, <1>29, <1>30, <1>31, <1>32, <1>33, <1>34, <1>35, <1>36, <1>37, <1>38,
     <1>39, <1>40
        DEF Next, Disabling, ComingUp, Removing, Users

(* The references, after each step. *)
LEMMA CountedStep == CtrlInv /\ [Next]_vars => CountedInv'
<1> SUFFICES ASSUME CtrlInv, [Next]_vars PROVE CountedInv'
  OBVIOUS
<1> USE CtrlAssumption DEF CtrlInv, TypeOK, PlaceInv, CountedInv, One, Threads, At, Flushed
<1>1. ASSUME NEW t \in Threads, DisableLock(t) PROVE CountedInv'
  BY <1>1 DEF DisableLock
<1>2. ASSUME NEW t \in Threads, DisableSuspend(t) PROVE CountedInv'
  BY <1>2 DEF DisableSuspend, Suspended
<1>3. ASSUME NEW t \in Threads, DisableOff(t) PROVE CountedInv'
  BY <1>3 DEF DisableOff, Suspended, Shutdown
<1>4. ASSUME NEW t \in Threads, DisableCancel(t) PROVE CountedInv'
  BY <1>4 DEF DisableCancel
<1>5. ASSUME NEW t \in Threads, DisableReturn(t) PROVE CountedInv'
  BY <1>5 DEF DisableReturn, MayReset
<1>6. CASE WorkStart
  BY <1>6 DEF WorkStart, Go, Disable
<1>7. CASE WorkDisabled
  BY <1>7 DEF WorkDisabled, Go
<1>8. CASE WorkState
  BY <1>8 DEF WorkState, Go, MayChange
<1>9. CASE PciEnable
  BY <1>9 DEF PciEnable, Go
<1>10. CASE ConfigureAdminQueue
  BY <1>10, ConfigureEffect
<1>11. CASE AllocAdminTags
  BY <1>11, TagsEffect
<1>12. CASE Submit
  BY <1>12, SubmitEffect, IssuedFacts
<1>13. CASE InitIdentify
  BY <1>13 DEF InitIdentify, Go
<1>14. CASE SetQueueCount
  BY <1>14, SetQueueCountEffect
<1>15. CASE SetupIoQueues
  BY <1>15, SetupEffect
<1>16. CASE CreateCq
  BY <1>16, CreateCqEffect, IssuedFacts
<1>17. CASE CqCreated
  BY <1>17, CqCreatedEffect
<1>18. CASE SqCreated
  BY <1>18, SqCreatedEffect
<1>19. CASE InitQueue
  BY <1>19, InitQueueEffect
<1>20. CASE StartWatchdog
  BY <1>20 DEF StartWatchdog, Go
<1>21. CASE Namespaces
  BY <1>21 DEF Namespaces, Go
<1>22. CASE MarkLive
  BY <1>22 DEF MarkLive, Go, MayChange
<1>23. CASE RemoveDead
  BY <1>23 DEF RemoveDead, Go, Disable
<1>24. CASE ScheduleRemove
  BY <1>24 DEF ScheduleRemove, Go
<1>25. CASE Answer
  BY <1>25, AnswerEffect
<1>26. CASE CommandTimeout
  BY <1>26 DEF CommandTimeout, Disable
<1>27. CASE RemoveWork
  BY <1>27 DEF RemoveWork, RemoveBegin, MayChange
<1>28. CASE RemoveWorkEnd
  BY <1>28 DEF RemoveWorkEnd
<1>29. CASE Uninit
  BY <1>29 DEF Uninit, Disable
<1>30. CASE FreeQueues
  BY <1>30 DEF FreeQueues
<1>31. CASE PutCtrl
  BY <1>31 DEF PutCtrl
<1>32. CASE OtherTimeout
  BY <1>32 DEF OtherTimeout, Disable, Spend
<1>33. CASE AskReset
  BY <1>33 DEF AskReset, MayReset, Spend
<1>34. CASE Outside
  BY <1>34 DEF Outside, Disable, Spend
<1>35. CASE Unbind
  BY <1>35 DEF Unbind, RemoveBegin, MayChange
<1>36. CASE Open
  BY <1>36 DEF Open, Spend
<1>37. CASE Release
  BY <1>37 DEF Release
<1>38. CASE UNCHANGED vars
  BY <1>38 DEF vars
<1>39. CASE Flush
  BY <1>39 DEF Flush
<1>40. CASE KillAdmin
  BY <1>40 DEF KillAdmin, Work, AdminQueue
<1> QED
  BY <1>1, <1>2, <1>3, <1>4, <1>5, <1>6, <1>7, <1>8, <1>9, <1>10, <1>11, <1>12, <1>13, <1>14,
     <1>15, <1>16, <1>17, <1>18, <1>19, <1>20, <1>21, <1>22, <1>23, <1>24, <1>25, <1>26,
     <1>27, <1>28, <1>29, <1>30, <1>31, <1>32, <1>33, <1>34, <1>35, <1>36, <1>37, <1>38,
     <1>39, <1>40
        DEF Next, Disabling, ComingUp, Removing, Users

(* nvme_remove takes the controller down. *)
LEMMA DownStep == CtrlInv /\ [Next]_vars => DownInv'
<1> SUFFICES ASSUME CtrlInv, [Next]_vars PROVE DownInv'
  OBVIOUS
<1> USE CtrlAssumption DEF CtrlInv, TypeOK, PlaceInv, DownInv, Condemned, Off, Threads, At, Flushed
<1>1. ASSUME NEW t \in Threads, DisableLock(t) PROVE DownInv'
  BY <1>1 DEF DisableLock
<1>2. ASSUME NEW t \in Threads, DisableSuspend(t) PROVE DownInv'
  <2>1. DisableSuspend(t) /\ IoQueues = 1 .. MaxQueues /\ IoQueues \in SUBSET (0 .. MaxQueues)
        /\ IoQueues \union {0} = 0 .. MaxQueues
    BY <1>2 DEF IoQueues
  <2>2. q.vec \subseteq 0 .. MaxQueues
    BY DEF Queues
  <2>3. PICK works \in BOOLEAN :
          /\ q' = Suspended(IF works THEN IoQueues ELSE IoQueues \union {0})
          /\ dis' = [dis EXCEPT ![t] = IF works THEN "off" ELSE "cancel"]
    BY <2>1 DEF DisableSuspend, Device
  <2>4. q'.vec \subseteq {0} /\ (~works => q'.vec = {}) /\ q'.vec \subseteq q.vec
    BY <2>1, <2>2, <2>3, SuspendedFacts
  <2>5. /\ UNCHANGED <<ctrl, hw, work, rem, watchdog, requeued>>
        /\ dis[t] = "suspend"
    BY <2>1 DEF DisableSuspend
  <2>6. t = "remove" => rem = "disabling"
    BY <2>5
  <2>7. t # "remove" => dis["remove"] \notin {"suspend", "off", "cancel"}
    BY <2>5 DEF Locked
  <2> QED
    BY <2>3, <2>4, <2>5, <2>6, <2>7
<1>3. ASSUME NEW t \in Threads, DisableOff(t) PROVE DownInv'
  <2>1. /\ DisableOff(t) /\ q'.vec = q.vec \ {0}
        /\ hw'.pci = hw.pci /\ hw'.has \subseteq hw.has
    BY <1>3, OffEffect
  <2>2. /\ UNCHANGED <<ctrl, work, rem, watchdog, requeued>>
        /\ dis[t] = "off" /\ dis' = [dis EXCEPT ![t] = "cancel"]
    BY <2>1 DEF DisableOff
  <2>3. t # "remove" => dis["remove"] \notin {"suspend", "off", "cancel"}
    BY <2>2 DEF Locked
  <2> QED
    BY <2>1, <2>2, <2>3
<1>4. ASSUME NEW t \in Threads, DisableCancel(t) PROVE DownInv'
  BY <1>4 DEF DisableCancel
<1>5. ASSUME NEW t \in Threads, DisableReturn(t) PROVE DownInv'
  BY <1>5 DEF DisableReturn, MayReset
<1>6. CASE WorkStart
  BY <1>6 DEF WorkStart, Go, Disable
<1>7. CASE WorkDisabled
  BY <1>7 DEF WorkDisabled, Go
<1>8. CASE WorkState
  BY <1>8 DEF WorkState, Go, MayChange
<1>9. CASE PciEnable
  BY <1>9 DEF PciEnable, Go
<1>10. CASE ConfigureAdminQueue
  BY <1>10, ConfigureEffect
<1>11. CASE AllocAdminTags
  BY <1>11, TagsEffect
<1>12. CASE Submit
  BY <1>12, SubmitEffect, IssuedFacts
<1>13. CASE InitIdentify
  BY <1>13 DEF InitIdentify, Go
<1>14. CASE SetQueueCount
  BY <1>14, SetQueueCountEffect
<1>15. CASE SetupIoQueues
  BY <1>15, SetupEffect
<1>16. CASE CreateCq
  BY <1>16, CreateCqEffect, IssuedFacts
<1>17. CASE CqCreated
  BY <1>17, CqCreatedEffect
<1>18. CASE SqCreated
  BY <1>18, SqCreatedEffect
<1>19. CASE InitQueue
  BY <1>19, InitQueueEffect
<1>20. CASE StartWatchdog
  BY <1>20 DEF StartWatchdog, Go
<1>21. CASE Namespaces
  BY <1>21 DEF Namespaces, Go
<1>22. CASE MarkLive
  BY <1>22 DEF MarkLive, Go, MayChange
<1>23. CASE RemoveDead
  BY <1>23 DEF RemoveDead, Go, Disable
<1>24. CASE ScheduleRemove
  BY <1>24 DEF ScheduleRemove, Go
<1>25. CASE Answer
  BY <1>25, AnswerEffect
<1>26. CASE CommandTimeout
  BY <1>26 DEF CommandTimeout, Disable
<1>27. CASE RemoveWork
  BY <1>27 DEF RemoveWork, RemoveBegin, MayChange
<1>28. CASE RemoveWorkEnd
  BY <1>28 DEF RemoveWorkEnd
<1>29. CASE Uninit
  BY <1>29 DEF Uninit, Disable
<1>30. CASE FreeQueues
  BY <1>30 DEF FreeQueues
<1>31. CASE PutCtrl
  BY <1>31 DEF PutCtrl
<1>32. CASE OtherTimeout
  BY <1>32 DEF OtherTimeout, Disable, Spend
<1>33. CASE AskReset
  <2>1. work'.pc = "queued"
    BY <1>33 DEF AskReset, Work
  <2>2. (requeued => requeued') /\ (watchdog' => watchdog)
    <3>1. requeued' = (requeued \/ Flushed) /\ watchdog' \in {watchdog, FALSE}
      BY <1>33, Zenon DEF AskReset
    <3>2. requeued => requeued'
      BY <3>1, Zenon
    <3>3. watchdog' => watchdog
      BY <3>1, Zenon
    <3> QED
      BY <3>2, <3>3
  <2>3. UNCHANGED <<ctrl, rem, dis, hw, q>>
    BY <1>33 DEF AskReset
  <2> QED
    BY <2>1, <2>2, <2>3
<1>34. CASE Outside
  BY <1>34 DEF Outside, Disable, Spend
<1>35. CASE Unbind
  BY <1>35 DEF Unbind, RemoveBegin, MayChange
<1>36. CASE Open
  BY <1>36 DEF Open, Spend
<1>37. CASE Release
  BY <1>37 DEF Release
<1>38. CASE UNCHANGED vars
  BY <1>38 DEF vars
<1>39. CASE Flush
  BY <1>39 DEF Flush
<1>40. CASE KillAdmin
  BY <1>40 DEF KillAdmin, Work, AdminQueue
<1> QED
  BY <1>1, <1>2, <1>3, <1>4, <1>5, <1>6, <1>7, <1>8, <1>9, <1>10, <1>11, <1>12, <1>13, <1>14,
     <1>15, <1>16, <1>17, <1>18, <1>19, <1>20, <1>21, <1>22, <1>23, <1>24, <1>25, <1>26,
     <1>27, <1>28, <1>29, <1>30, <1>31, <1>32, <1>33, <1>34, <1>35, <1>36, <1>37, <1>38,
     <1>39, <1>40
        DEF Next, Disabling, ComingUp, Removing, Users

(* The loop of nvme_create_io_queues keeps to its numbers. *)
LEMMA LoopStep == CtrlInv /\ [Next]_vars => LoopInv'
<1> SUFFICES ASSUME CtrlInv, [Next]_vars PROVE LoopInv'
  OBVIOUS
<1> USE CtrlAssumption DEF CtrlInv, TypeOK, LoopInv, PlaceInv, Threads, At, Work
<1>1. ASSUME NEW t \in Threads, DisableLock(t) PROVE LoopInv'
  BY <1>1 DEF DisableLock
<1>2. ASSUME NEW t \in Threads, DisableSuspend(t) PROVE LoopInv'
  BY <1>2 DEF DisableSuspend, Suspended
<1>3. ASSUME NEW t \in Threads, DisableOff(t) PROVE LoopInv'
  BY <1>3 DEF DisableOff, Suspended, Shutdown
<1>4. ASSUME NEW t \in Threads, DisableCancel(t) PROVE LoopInv'
  BY <1>4 DEF DisableCancel
<1>5. ASSUME NEW t \in Threads, DisableReturn(t) PROVE LoopInv'
  BY <1>5 DEF DisableReturn, MayReset
<1>6. CASE WorkStart
  BY <1>6 DEF WorkStart, Go, Disable
<1>7. CASE WorkDisabled
  BY <1>7 DEF WorkDisabled, Go
<1>8. CASE WorkState
  BY <1>8 DEF WorkState, Go, MayChange
<1>9. CASE PciEnable
  BY <1>9 DEF PciEnable, Go
<1>10. CASE ConfigureAdminQueue
  BY <1>10, ConfigureEffect
<1>11. CASE AllocAdminTags
  BY <1>11, TagsEffect
<1>12. CASE Submit
  BY <1>12, SubmitEffect, IssuedFacts
<1>13. CASE InitIdentify
  BY <1>13 DEF InitIdentify, Go
<1>14. CASE SetQueueCount
  BY <1>14, SetQueueCountEffect
<1>15. CASE SetupIoQueues
  BY <1>15, SetupEffect
<1>16. CASE CreateCq
  BY <1>16, CreateCqEffect, IssuedFacts
<1>17. CASE CqCreated
  BY <1>17, CqCreatedEffect
<1>18. CASE SqCreated
  BY <1>18, SqCreatedEffect
<1>19. CASE InitQueue
  BY <1>19, InitQueueEffect
<1>20. CASE StartWatchdog
  BY <1>20 DEF StartWatchdog, Go
<1>21. CASE Namespaces
  BY <1>21 DEF Namespaces, Go
<1>22. CASE MarkLive
  BY <1>22 DEF MarkLive, Go, MayChange
<1>23. CASE RemoveDead
  BY <1>23 DEF RemoveDead, Go, Disable
<1>24. CASE ScheduleRemove
  BY <1>24 DEF ScheduleRemove, Go
<1>25. CASE Answer
  BY <1>25, AnswerEffect
<1>26. CASE CommandTimeout
  BY <1>26 DEF CommandTimeout, Disable
<1>27. CASE RemoveWork
  BY <1>27 DEF RemoveWork, RemoveBegin, MayChange
<1>28. CASE RemoveWorkEnd
  BY <1>28 DEF RemoveWorkEnd
<1>29. CASE Uninit
  BY <1>29 DEF Uninit, Disable
<1>30. CASE FreeQueues
  BY <1>30 DEF FreeQueues
<1>31. CASE PutCtrl
  BY <1>31 DEF PutCtrl
<1>32. CASE OtherTimeout
  BY <1>32 DEF OtherTimeout, Disable, Spend
<1>33. CASE AskReset
  BY <1>33 DEF AskReset, MayReset, Spend
<1>34. CASE Outside
  BY <1>34 DEF Outside, Disable, Spend
<1>35. CASE Unbind
  BY <1>35 DEF Unbind, RemoveBegin, MayChange
<1>36. CASE Open
  BY <1>36 DEF Open, Spend
<1>37. CASE Release
  BY <1>37 DEF Release
<1>38. CASE UNCHANGED vars
  BY <1>38 DEF vars
<1>39. CASE Flush
  BY <1>39 DEF Flush
<1>40. CASE KillAdmin
  BY <1>40 DEF KillAdmin, Work, AdminQueue
<1> QED
  BY <1>1, <1>2, <1>3, <1>4, <1>5, <1>6, <1>7, <1>8, <1>9, <1>10, <1>11, <1>12, <1>13, <1>14,
     <1>15, <1>16, <1>17, <1>18, <1>19, <1>20, <1>21, <1>22, <1>23, <1>24, <1>25, <1>26,
     <1>27, <1>28, <1>29, <1>30, <1>31, <1>32, <1>33, <1>34, <1>35, <1>36, <1>37, <1>38,
     <1>39, <1>40
        DEF Next, Disabling, ComingUp, Removing, Users

(* The reset work brings it up. *)
LEMMA BringUpStep == CtrlInv /\ [Next]_vars => BringUpInv'
<1> SUFFICES ASSUME CtrlInv, [Next]_vars PROVE BringUpInv'
  OBVIOUS
<1> USE CtrlAssumption
<1>0. TypeOK /\ PlaceInv /\ LoopInv /\ BringUpInv /\ DownInv
  BY DEF CtrlInv
<1>1. ASSUME NEW t \in Threads, DisableLock(t) PROVE BringUpInv'
  BY <1>1 DEF DisableLock, BringUpInv
<1>2. ASSUME NEW t \in Threads, DisableSuspend(t) PROVE BringUpInv'
  BY <1>2 DEF DisableSuspend, BringUpInv
<1>3. ASSUME NEW t \in Threads, DisableOff(t) PROVE BringUpInv'
  BY <1>3 DEF DisableOff, BringUpInv
<1>4. ASSUME NEW t \in Threads, DisableCancel(t) PROVE BringUpInv'
  BY <1>4 DEF DisableCancel, BringUpInv
<1>5. ASSUME NEW t \in Threads, DisableReturn(t) PROVE BringUpInv'
  BY <1>0, <1>5 DEF DisableReturn, MayReset, TypeOK, PlaceInv, Threads, BringUpInv, UpTo,
     AllUp, At
<1>6. CASE WorkStart
  BY <1>0, <1>6 DEF WorkStart, Go, Disable, TypeOK, PlaceInv, Threads, BringUpInv, UpTo,
     AllUp, At
<1>7. CASE WorkDisabled
  BY <1>0, <1>7 DEF WorkDisabled, Go, TypeOK, PlaceInv, Threads, BringUpInv, UpTo, AllUp, At
<1>8. CASE WorkState
  <2>1. /\ work'.pc \in {"enable", "dead"} /\ work'.cmd = "none"
        /\ UNCHANGED <<hw, q, admin, ns, dis>>
    BY <1>8, GoFacts DEF WorkState, WorkPlaces
  <2>2. fresh' => q.vec = {} /\ q.irq = {} /\ q.online = 0
    BY <1>8, Zenon DEF WorkState
  <2> QED
    BY <2>1, <2>2 DEF BringUpInv, At
<1>9. CASE PciEnable
  BY <1>0, <1>9 DEF PciEnable, Go, TypeOK, PlaceInv, Threads, BringUpInv, UpTo, AllUp, At
<1>10. CASE ConfigureAdminQueue
  <2> SUFFICES ASSUME fresh PROVE BringUpInv'
    BY ConfigureEffect, <1>0, <1>10 DEF BringUpInv
  <2>1. q.vec = {} /\ q.irq = {} /\ q.online = 0
    BY ConfigureEffect, <1>0, <1>10 DEF BringUpInv, At
  <2>2. q'.count \in Nat /\ {} \union {0} = 0 .. 0
    BY ConfigureEffect, NumberTypes, OneMore, <1>0, <1>10
  <2>3. CASE work'.pc = "dead"
    BY ConfigureEffect, <1>0, <1>10, <2>1, <2>2, <2>3 DEF BringUpInv, At
  <2>4. CASE work'.pc # "dead"
    <3>1. UpTo(0, 0, 0)' /\ 0 .. 0 \subseteq 0 .. q'.count - 1
      BY ConfigureEffect, <1>0, <1>10, <2>1, <2>2, <2>4 DEF UpTo
    <3> QED
      BY ConfigureEffect, <1>0, <1>10, <2>4, <3>1 DEF BringUpInv, At, UpTo
  <2> QED
    BY <2>3, <2>4
<1>11. CASE AllocAdminTags
  <2> SUFFICES ASSUME fresh PROVE BringUpInv'
    BY TagsEffect, <1>0, <1>11 DEF BringUpInv
  <2>1. UpTo(0, 0, 0) /\ q.vec \subseteq 0 .. q.count - 1
    BY TagsEffect, <1>0, <1>11 DEF BringUpInv, At
  <2>2. UpTo(0, 0, 1)'
    BY TagsEffect, <1>0, <1>11, <2>1 DEF UpTo
  <2> QED
    BY TagsEffect, <1>0, <1>11, <2>1, <2>2 DEF BringUpInv, At
<1>12. CASE Submit
  BY <1>0, <1>12, SubmitEffect, IssuedFacts DEF BringUpInv, UpTo, AllUp, At
<1>13. CASE InitIdentify
  BY <1>0, <1>13 DEF InitIdentify, Go, TypeOK, PlaceInv, Threads, BringUpInv, UpTo, AllUp, At
<1>14. CASE SetQueueCount
  <2> SUFFICES ASSUME fresh PROVE BringUpInv'
    BY SetQueueCountEffect, <1>0, <1>14 DEF BringUpInv
  <2>1. UpTo(0, 0, 1) /\ q.vec \subseteq 0 .. q.count - 1 /\ ~admin.stopped
    BY SetQueueCountEffect, <1>0, <1>14 DEF BringUpInv, At
  <2>2. UpTo(0, 0, 1)' /\ ~admin'.stopped
    BY SetQueueCountEffect, <1>0, <1>14, <2>1 DEF UpTo
  <2>3. AllUp'
    <3>1. q'.online = 1 /\ 1 - 1 = 0
      BY <2>2 DEF UpTo
    <3> QED
      BY <2>2, <3>1 DEF AllUp
  <2> QED
    BY SetQueueCountEffect, <1>0, <1>14, <2>1, <2>2, <2>3 DEF BringUpInv, At
<1>15. CASE SetupIoQueues
  <2> SUFFICES ASSUME fresh PROVE BringUpInv'
    BY SetupEffect, <1>0, <1>15 DEF BringUpInv
  <2>1. UpTo(0, 0, 1) /\ q.vec \subseteq 0 .. q.count - 1 /\ ~admin.stopped /\ work.cmd # "held"
    BY SetupEffect, <1>0, <1>15 DEF BringUpInv, At
  <2>2. work.cmd = "none"
    BY SetupEffect, <1>0, <1>15 DEF PlaceInv, At
  <2>3. q.count \in Nat /\ q'.count \in Nat /\ work'.n \in Nat
    BY SetupEffect, NumberTypes, <1>0, <1>15 DEF TypeOK
  <2>4. CASE work'.pc = "dead"
    BY SetupEffect, <1>0, <1>15, <2>1, <2>4 DEF BringUpInv, At
  <2>5. CASE work'.pc # "dead"
    <3>1. UpTo(0, 0, 1)' /\ q'.vec \subseteq 0 .. q'.count - 1
      BY SetupEffect, <1>0, <1>15, <2>1, <2>3, <2>5 DEF UpTo
    <3>2. UpTo(work.i - 1, work.i - 1, work.i)' /\ work'.i = 1
      BY SetupEffect, <1>0, <1>15, <2>1, <2>5, <3>1 DEF UpTo
    <3> QED
      BY SetupEffect, <1>0, <1>15, <2>1, <2>2, <2>3, <2>5, <3>1, <3>2 DEF BringUpInv, At
  <2> QED
    BY <2>4, <2>5
<1>16. CASE CreateCq
  <2> SUFFICES ASSUME fresh PROVE BringUpInv'
    BY CreateCqEffect, <1>0, <1>16 DEF BringUpInv
  <2>1. /\ UpTo(work.i - 1, work.i - 1, work.i) /\ q.vec \subseteq 0 .. q.count - 1
                 /\ ~admin.stopped /\ work.i = q.online
                 /\ 1 <= work.i /\ work.i <= work.n + 1 /\ work.n + 1 <= q.count
    BY CreateCqEffect, <1>0, <1>16 DEF BringUpInv, At
  <2>2. work.i \in Int /\ work.n \in Nat /\ q.count \in Nat
    BY <1>0, NumberTypes DEF TypeOK
  <2>3. CASE work.i > work.n \/ work.i < 0
    <3>1. AllUp'
      BY CreateCqEffect, <1>0, <1>16, <2>1, <2>2, <2>3 DEF AllUp, UpTo
    <3> QED
      BY CreateCqEffect, <1>0, <1>16, <2>1, <2>2, <2>3, <3>1 DEF BringUpInv, At
  <2>4. CASE 0 <= work.i /\ work.i <= work.n
    <3>1. q'.vec = 0 .. work.i
      <4>1. work.i \in Nat /\ work.i # 0 /\ q.vec = 0 .. work.i - 1
        BY <2>1, <2>2 DEF UpTo
      <4>2. q'.vec = q.vec \union {work.i}
        BY CreateCqEffect, <1>0, <1>16, <2>2, <2>4, <4>1
      <4> QED
        BY OneMore, <4>1, <4>2
    <3>2. UpTo(work.i, work.i - 1, work.i)' /\ q'.vec \subseteq 0 .. q'.count - 1
      BY CreateCqEffect, <1>0, <1>16, <2>1, <2>2, <2>4, <3>1 DEF UpTo
    <3>3. work'.cmd \notin {"held", "none"}
      BY CreateCqEffect, IssuedFacts, <1>0, <1>16, <2>1, <2>2, <2>4
    <3>4. /\ work'.pc = "cq" /\ work'.i = work.i /\ work'.n = work.n /\ q'.count = q.count
          /\ q'.online = q.online
      BY CreateCqEffect, <1>0, <1>16, <2>2, <2>4
    <3> QED
      BY CreateCqEffect, <1>0, <1>16, <2>1, <2>2, <3>2, <3>3, <3>4 DEF BringUpInv, At
  <2> QED
    BY <2>2, <2>3, <2>4
<1>17. CASE CqCreated
  BY <1>0, <1>17, CqCreatedEffect DEF TypeOK, PlaceInv, Threads, BringUpInv, UpTo, AllUp, At
<1>18. CASE SqCreated
  <2> SUFFICES ASSUME fresh PROVE BringUpInv'
    BY SqCreatedEffect, <1>0, <1>18 DEF BringUpInv
  <2>1. /\ UpTo(work.i, work.i - 1, work.i) /\ q.vec \subseteq 0 .. q.count - 1
                 /\ ~admin.stopped /\ work.i = q.online
                 /\ 1 <= work.i /\ work.i <= work.n + 1 /\ work.n + 1 <= q.count
    BY SqCreatedEffect, <1>0, <1>18 DEF BringUpInv, At
  <2>2. work.i \in Int /\ work.n \in Nat /\ q.count \in Nat
    BY <1>0, NumberTypes DEF TypeOK
  <2>3. CASE work'.pc = "dead"
    BY SqCreatedEffect, <1>0, <1>18, <2>1, <2>3 DEF BringUpInv, At
  <2>4. CASE work'.pc # "dead"
    <3>1. q'.irq = 0 .. work.i
      <4>1. work.i \in Nat /\ work.i # 0 /\ q.irq = 0 .. work.i - 1
        BY <2>1, <2>2 DEF UpTo
      <4>2. q'.irq = q.irq \union {work.i}
        BY SqCreatedEffect, <1>0, <1>18, <2>2, <2>4, <4>1
      <4> QED
        BY OneMore, <4>1, <4>2
    <3>2. UpTo(work.i, work.i, work.i)'
      BY SqCreatedEffect, <1>0, <1>18, <2>1, <2>2, <2>4, <3>1 DEF UpTo
    <3> QED
      BY SqCreatedEffect, <1>0, <1>18, <2>1, <2>2, <2>4, <3>2 DEF BringUpInv, At
  <2> QED
    BY <2>3, <2>4
<1>19. CASE InitQueue
  <2> SUFFICES ASSUME fresh PROVE BringUpInv'
    BY InitQueueEffect, <1>0, <1>19 DEF BringUpInv
  <2>1. /\ UpTo(work.i, work.i, work.i) /\ q.vec \subseteq 0 .. q.count - 1
                 /\ ~admin.stopped /\ work.i = q.online
                 /\ 1 <= work.i /\ work.i <= work.n + 1 /\ work.n + 1 <= q.count
    BY InitQueueEffect, <1>0, <1>19 DEF BringUpInv, At
  <2>2. /\ work.i \in Int /\ work.n \in Nat /\ q.count \in Nat /\ work.i <= work.n
        /\ work.cmd = "none"
    BY InitQueueEffect, NumberTypes, <1>0, <1>19 DEF TypeOK, LoopInv, PlaceInv, At
  <2>3. UpTo(work.i - 1, work.i - 1, work.i)'
    BY InitQueueEffect, <1>0, <1>19, <2>1, <2>2 DEF UpTo
  <2> QED
    BY InitQueueEffect, <1>0, <1>19, <2>1, <2>2, <2>3 DEF BringUpInv, At
<1>20. CASE StartWatchdog
  BY <1>0, <1>20 DEF StartWatchdog, Go, TypeOK, PlaceInv, Threads, BringUpInv, UpTo, AllUp, At
<1>21. CASE Namespaces
  <2> SUFFICES ASSUME fresh PROVE BringUpInv'
    BY NamespacesEffect, <1>0, <1>21 DEF BringUpInv, Namespaces
  <2>1. AllUp /\ q.vec \subseteq 0 .. q.count - 1
    BY NamespacesEffect, <1>0, <1>21 DEF BringUpInv, At
  <2>2. q.online \in Int /\ q.count \in Nat /\ q'.count \in Nat
    BY NamespacesEffect, NumberTypes, <1>0, <1>21 DEF TypeOK
  <2>3. AllUp' /\ q'.vec \subseteq 0 .. q'.count - 1
    BY NamespacesEffect, <1>0, <1>21, <2>1, <2>2 DEF AllUp, UpTo, Namespaces
  <2> QED
    BY NamespacesEffect, <1>0, <1>21, <2>1, <2>3 DEF BringUpInv, At, Namespaces
<1>22. CASE MarkLive
  BY <1>0, <1>22 DEF MarkLive, Go, MayChange, TypeOK, PlaceInv, Threads, BringUpInv, UpTo,
     AllUp, At
<1>23. CASE RemoveDead
  BY <1>0, <1>23 DEF RemoveDead, Go, Disable, TypeOK, PlaceInv, Threads, BringUpInv, UpTo,
     AllUp, At
<1>24. CASE ScheduleRemove
  BY <1>0, <1>24 DEF ScheduleRemove, Go, TypeOK, PlaceInv, Threads, BringUpInv, UpTo, AllUp, At
<1>25. CASE Answer
  BY <1>0, <1>25, AnswerEffect DEF BringUpInv, UpTo, AllUp, At
<1>26. CASE CommandTimeout
  BY <1>0, <1>26 DEF CommandTimeout, Disable, TypeOK, PlaceInv, Threads, BringUpInv, UpTo,
     AllUp, At
<1>27. CASE RemoveWork
  BY <1>0, <1>27 DEF RemoveWork, RemoveBegin, BringUpInv, UpTo, AllUp, At
<1>28. CASE RemoveWorkEnd
  BY <1>0, <1>28 DEF RemoveWorkEnd, BringUpInv, UpTo, AllUp, At
<1>29. CASE Uninit
  BY <1>0, <1>29 DEF Uninit, Disable, TypeOK, PlaceInv, Threads, BringUpInv, UpTo, AllUp, At
<1>30. CASE FreeQueues
  BY <1>30 DEF FreeQueues, BringUpInv
<1>31. CASE PutCtrl
  BY <1>0, <1>31 DEF PutCtrl, BringUpInv, UpTo, AllUp, At
<1>32. CASE OtherTimeout
  BY <1>0, <1>32 DEF OtherTimeout, Disable, Spend, TypeOK, PlaceInv, Threads, BringUpInv,
     UpTo, AllUp, At
<1>33. CASE AskReset
  BY <1>0, <1>33 DEF AskReset, MayReset, Spend, TypeOK, PlaceInv, Threads, BringUpInv,
     UpTo, AllUp, At
<1>34. CASE Outside
  BY <1>0, <1>34 DEF Outside, Disable, Spend, TypeOK, PlaceInv, Threads, BringUpInv, UpTo,
     AllUp, At
<1>35. CASE Unbind
  BY <1>0, <1>35 DEF Unbind, RemoveBegin, BringUpInv, UpTo, AllUp, At
<1>36. CASE Open
  BY <1>0, <1>36 DEF Open, BringUpInv, UpTo, AllUp, At
<1>37. CASE Release
  BY <1>0, <1>37 DEF Release, BringUpInv, UpTo, AllUp, At
<1>38. CASE UNCHANGED vars
  BY <1>0, <1>38 DEF vars, BringUpInv, UpTo, AllUp, At
<1>39. CASE Flush
  BY <1>0, <1>39 DEF Flush, BringUpInv, UpTo, AllUp, At
<1>40. CASE KillAdmin
  BY <1>0, <1>40 DEF KillAdmin, TypeOK, Work, AdminQueue, PlaceInv, Threads, BringUpInv, UpTo, AllUp, At
<1> QED
  BY <1>1, <1>2, <1>3, <1>4, <1>5, <1>6, <1>7, <1>8, <1>9, <1>10, <1>11, <1>12, <1>13, <1>14,
     <1>15, <1>16, <1>17, <1>18, <1>19, <1>20, <1>21, <1>22, <1>23, <1>24, <1>25, <1>26,
     <1>27, <1>28, <1>29, <1>30, <1>31, <1>32, <1>33, <1>34, <1>35, <1>36, <1>37, <1>38,
     <1>39, <1>40
        DEF Next, Disabling, ComingUp, Removing, Users

(* What nvme_probe leaves satisfies the invariant. *)
LEMMA InitCtrlInv == Init => CtrlInv
<1> SUFFICES ASSUME Init PROVE CtrlInv
  OBVIOUS
<1> USE CtrlAssumption DEF Init
<1>1. TypeOK
  <2>1. hw \in Device /\ admin \in AdminQueue /\ work \in Work
    BY DEF Device, AdminQueue, Work, WorkPlaces, Outcomes
  <2>2. q \in Queues
    BY DEF Queues
  <2>3. /\ dis \in [Threads -> DisablePlaces] /\ again \in [Threads -> BOOLEAN]
        /\ removeWork \in [pending: BOOLEAN, at: {"idle", "running", "removing"}]
    BY RemoveWorkTypes DEF DisablePlaces
  <2>4. /\ ctrl \in {"new", "live", "resetting", "deleting", "dead"}
        /\ ns \in {"none", "running", "stopped", "killed"}
        /\ rem \in {"no", "flush", "uninit", "disabling", "admin", "free", "gone"}
        /\ lock \in Threads \union {Nobody}
    OBVIOUS
  <2>5. watchdog \in BOOLEAN /\ fresh \in BOOLEAN /\ requeued \in BOOLEAN
    BY Zenon
  <2>6. kref \in Nat /\ opened \in 0 .. MaxEvents /\ events \in 0 .. MaxEvents
    OBVIOUS
  <2> QED
    BY <2>1, <2>2, <2>3, <2>4, <2>5, <2>6, Zenon DEF TypeOK
<1>2. PlaceInv
  BY DEF PlaceInv, Threads, Locked, Nobody, Flushed, At
<1>3. CountedInv
  BY DEF CountedInv, One, At
<1>4. DownInv /\ LoopInv /\ BringUpInv
  BY DEF DownInv, Condemned, LoopInv, BringUpInv, Threads, At, Flushed
<1> QED
  BY <1>1, <1>2, <1>3, <1>4 DEF CtrlInv

(* The invariant gives both properties of the runs. *)
LEMMA FreedFollows == CtrlInv => FreedIsUnused
<1> SUFFICES ASSUME CtrlInv PROVE FreedIsUnused
  OBVIOUS
<1>1. kref = 0 => rem = "gone" /\ opened = 0 /\ ~removeWork.pending /\ removeWork.at = "idle"
  <2>1. opened \in Nat
    BY DEF CtrlInv, TypeOK
  <2> QED
    BY <2>1 DEF CtrlInv, CountedInv, One
<1>2. ASSUME rem \in {"free", "gone"}
      PROVE  /\ \A t \in Threads \ {"work"} : dis[t] = "no"
             /\ lock \in {Nobody, "work"}
             /\ ~requeued => At("idle") /\ lock = Nobody
             /\ ~requeued \/ ctrl \in {"deleting", "dead"} => Off
  <2>1. \A t \in Threads \ {"work"} : dis[t] = "no"
    BY <1>2 DEF CtrlInv, PlaceInv, Threads
  <2>2. lock \in {Nobody, "work"}
    BY <2>1 DEF CtrlInv, TypeOK, PlaceInv, Locked
  <2>3. ASSUME ~requeued
        PROVE  At("idle") /\ lock = Nobody
    <3>1. At("idle") /\ dis["work"] = "no"
      BY <1>2, <2>3 DEF CtrlInv, PlaceInv, Flushed, At
    <3> QED
      BY <2>2, <3>1 DEF CtrlInv, PlaceInv, Locked, Threads
  <2>4. ASSUME ~requeued \/ ctrl \in {"deleting", "dead"}
        PROVE  Off
    BY <1>2, <2>4 DEF CtrlInv, DownInv, Condemned, Flushed
  <2> QED
    BY <2>1, <2>2, <2>3, <2>4
<1> QED
  BY <1>1, <1>2 DEF FreedIsUnused

LEMMA LiveFollows == CtrlInv => LiveAnswers
<1> SUFFICES ASSUME TypeOK, BringUpInv, fresh PROVE LiveAnswers
  BY DEF CtrlInv, LiveAnswers
<1>1. q.vec \subseteq 0 .. q.count - 1 /\ work.cmd # "held"
  BY DEF BringUpInv
<1>2. ASSUME At("idle")
      PROVE  /\ 0 \in q.vec /\ ~admin.stopped /\ hw.pci /\ hw.cc
             /\ q.vec = 0 .. q.online - 1 /\ q.irq = q.vec /\ ns # "stopped"
  <2>1. AllUp /\ ns # "stopped"
    BY <1>2 DEF BringUpInv, At
  <2>2. 0 \in 0 .. q.online - 1
    BY <2>1, NumberTypes DEF AllUp, TypeOK
  <2> QED
    BY <2>1, <2>2 DEF AllUp, UpTo
<1> QED
  BY <1>1, <1>2 DEF LiveAnswers

(* The invariant holds throughout. *)
LEMMA CtrlInvariant ==
  Spec => []CtrlInv
<1>1. CtrlInv /\ [Next]_vars => CtrlInv'
  BY TypeStep, PlaceStep, CountedStep, DownStep, LoopStep, BringUpStep DEF CtrlInv
<1> QED
  BY InitCtrlInv, <1>1, PTL DEF Spec

(* Type correctness; in particular no counter of references falls below    *)
(* zero and no queue number leaves the range of the queues.                *)
THEOREM CtrlTypes ==
  Spec => []TypeOK
<1>1. CtrlInv => TypeOK
  BY DEF CtrlInv
<1> QED
  BY CtrlInvariant, <1>1, PTL

(* Once the controller is freed nobody is at work on it, and once          *)
(* nvme_remove freed its queues nobody but a reset work that was queued    *)
(* too late takes them up or down; that one leaves off what is marked as   *)
(* deleted.                                                                *)
THEOREM Freed ==
  Spec => []FreedIsUnused
BY CtrlInvariant, FreedFollows, PTL

(* What the reset work declares live works, unless the controller was      *)
(* taken down in the meantime.                                             *)
THEOREM LiveWorks ==
  Spec => []LiveAnswers
BY CtrlInvariant, LiveFollows, PTL
=============================================================================
