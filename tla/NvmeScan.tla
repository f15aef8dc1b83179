------------------------------ MODULE NvmeScan ------------------------------
(***************************************************************************)
(* The namespaces of a controller in the patched kernel driver             *)
(* (src/kw_debug/ref/core.c): the scan work compares the list of           *)
(* namespaces with the device and adds and removes; others hold references *)
(* to what it removes, mark namespaces dead, or remove all of them.        *)
(*                                                                         *)
(* The list is sorted only at the end of a scan; new namespaces go to its  *)
(* end meanwhile, and a search stops at the first larger number.           *)
(***************************************************************************)
EXTENDS Integers, Sequences, FiniteSets, SequencesExt

CONSTANTS MaxNs,       \* nn, the number of namespaces the device may have
          PageSize,    \* namespace numbers in one Identify list (1024)
          MaxObjects,  \* bound: namespaces allocated in the whole run
          MaxChanges,  \* bound: changes of the device, rescans, resets, removals
          MaxFailures, \* bound: commands that fail
          MaxOpens     \* bound: namespaces open at a time

ASSUME ScanAssumption ==
  /\ {MaxNs, PageSize, MaxObjects} \subseteq Nat \ {0}
  /\ {MaxChanges, MaxFailures, MaxOpens} \subseteq Nat

VARIABLES
  active,   \* the namespaces the device has
  notice,   \* its event "namespaces changed" is on the way
  work,     \* the reset work with remove_work, which it queues when it fails
  rem,      \* nvme_remove
  queues,   \* online_queues > 1
  obj,      \* [object -> struct nvme_ns], see Object
  list,     \* ctrl.namespaces
  pending,  \* the scan work is queued
  scan,     \* its locals, see ScanRec
  remover,  \* nvme_remove_namespaces: [on, cur, next]
  changes, failures,  \* bounds
  steady,   \* ghost: the scan began with no namespace dead or twice on the list, and since
            \* then nothing changed, failed, died or was removed
  spoilt    \* ghost: a list other than the first could not be had

vars == <<active, notice, work, rem, queues, obj, list, pending, scan, remover, changes, failures, steady, spoilt>>

Ids == 1 .. MaxNs
Objects == 1 .. MaxObjects
None == 0
Unused == [nsid |-> 0, refs |-> 0, removing |-> FALSE, dead |-> FALSE, opens |-> 0]

Object == [nsid: 0 .. MaxNs, refs: 0 .. 4, removing: BOOLEAN, dead: BOOLEAN, opens: 0 .. 1]
ScanRec == [pc: {"idle", "list", "entry", "validate", "check", "alloc", "gap", "prune", "sort"},
            mode: {"list", "sequential"},
            nn: 0 .. MaxNs,          \* nn as it is counted down
            lists: 0 .. MaxNs,       \* lists to go
            page: SUBSET Ids,        \* entries of the list that are to come
            j: 0 .. MaxNs,
            nsid: 0 .. MaxNs + 1,
            prev: 0 .. MaxNs,
            ns: Objects \union {None}, next: Objects \union {None}]
Resting == [pc |-> "idle", mode |-> "list", nn |-> 0, lists |-> 0, page |-> {}, j |-> 0,
            nsid |-> 0, prev |-> 0, ns |-> None, next |-> None]

TypeOK ==
  /\ active \subseteq Ids /\ notice \in BOOLEAN /\ queues \in BOOLEAN
  /\ work \in {"rest", "reset", "killed", "emptying", "dead"} /\ rem \in {"no", "flush", "gone"}
  /\ obj \in [Objects -> Object] /\ list \in Seq(Objects)
  /\ pending \in BOOLEAN /\ scan \in ScanRec
  /\ remover \in [on: BOOLEAN, cur: Objects \union {None}, next: Objects \union {None}]
  /\ changes \in 0 .. MaxChanges /\ failures \in 0 .. MaxFailures
  /\ steady \in BOOLEAN /\ spoilt \in BOOLEAN

Init ==
  /\ active \in SUBSET Ids /\ notice = FALSE
  /\ work = "rest" /\ rem = "no" /\ queues = TRUE
  /\ obj = [o \in Objects |-> Unused] /\ list = <<>>
  /\ pending = TRUE /\ scan = Resting
  /\ remover = [on |-> FALSE, cur |-> None, next |-> None]
  /\ changes = 0 /\ failures = 0 /\ steady = FALSE /\ spoilt = FALSE

-----------------------------------------------------------------------------
(* ctrl.state is NVME_CTRL_LIVE *)
Live == work = "rest" /\ rem = "no"
Listed == Range(list)
Twins == \E o, p \in Listed : o # p /\ obj[o].nsid = obj[p].nsid
Fail == failures < MaxFailures /\ failures' = failures + 1

(* nvme_find_get_ns, without the reference it takes *)
FindNs(n) ==
  LET K == {k \in DOMAIN list : obj[list[k]].nsid >= n}
      first == CHOOSE k \in K : \A l \in K : k <= l
  IN IF K # {} /\ obj[list[first]].nsid = n THEN list[first] ELSE None

(* list_next_entry; an entry that was taken off the list leads to itself. *)
IndexOf(o) == CHOOSE k \in DOMAIN list : list[k] = o
NextEntry(o) ==
  IF o \notin Listed THEN o
  ELSE IF IndexOf(o) = Len(list) THEN None ELSE list[IndexOf(o) + 1]
FirstEntry == IF list = <<>> THEN None ELSE list[1]

(* nvme_ns_remove of o, after which held references to it are put. *)
NsRemove(o, held) ==
  IF obj[o].removing
  THEN obj' = [obj EXCEPT ![o].refs = @ - held] /\ UNCHANGED list
  ELSE /\ obj' = [obj EXCEPT ![o].refs = @ - 1 - held, ![o].removing = TRUE]
       /\ list' = IF o \in Listed THEN RemoveAt(list, IndexOf(o)) ELSE list

-----------------------------------------------------------------------------
(* nvme_scan_work; without a list of namespaces it asks for each number.   *)
ScanStart ==
  /\ scan.pc = "idle" /\ pending
  /\ pending' = FALSE
  /\ \/ ~Live /\ steady' = FALSE /\ UNCHANGED <<scan, failures>>
     \/ Live /\ Fail /\ steady' = FALSE /\ UNCHANGED scan     \* Identify Controller
     \/ /\ Live /\ UNCHANGED failures
        /\ steady' = (~Twins /\ \A o \in Listed : ~obj[o].dead)
        /\ scan' \in {[Resting EXCEPT !.pc = "list", !.nn = MaxNs,
                                      !.lists = (MaxNs + PageSize - 1) \div PageSize],
                      [Resting EXCEPT !.pc = "validate", !.mode = "sequential", !.nn = MaxNs,
                                      !.nsid = 1]}
  /\ UNCHANGED <<active, notice, work, rem, queues, obj, list, remover, changes, spoilt>>

(* nvme_identify_ns_list; when it fails the numbers are tried one by one.  *)
IdentifyNsList ==
  /\ scan.pc = "list"
  /\ \/ /\ Fail /\ steady' = FALSE
        /\ spoilt' = (spoilt \/ scan.prev > 0)
        /\ scan' = [Resting EXCEPT !.pc = "validate", !.mode = "sequential", !.nn = MaxNs, !.nsid = 1]
     \/ /\ scan' = [scan EXCEPT !.pc = "entry", !.j = 0,
                      !.page = {n \in active : n > scan.prev /\
                                  Cardinality({k \in active : scan.prev < k /\ k < n}) < PageSize}]
        /\ UNCHANGED <<failures, steady, spoilt>>
  /\ UNCHANGED <<active, notice, work, rem, queues, obj, list, pending, remover, changes>>

(* The next entry of the list, the next list, or the end. *)
NextListEntry ==
  LET limit == IF scan.nn < PageSize THEN scan.nn ELSE PageSize IN
  /\ scan.pc = "entry"
  /\ scan' =
       IF scan.j < limit
       THEN IF scan.page = {} THEN [scan EXCEPT !.pc = "prune", !.next = FirstEntry]
            ELSE LET n == CHOOSE k \in scan.page : \A l \in scan.page : k <= l IN
                 [scan EXCEPT !.pc = "validate", !.nsid = n, !.page = @ \ {n}, !.j = @ + 1]
       ELSE IF scan.lists = 1 THEN [scan EXCEPT !.pc = "prune", !.next = FirstEntry]
            ELSE [scan EXCEPT !.pc = "list", !.nn = @ - scan.j, !.lists = @ - 1]
  /\ UNCHANGED <<active, notice, work, rem, queues, obj, list, pending, remover, changes, failures, steady, spoilt>>

(* nvme_validate_ns *)
ValidateNs ==
  LET o == FindNs(scan.nsid) IN
  /\ scan.pc = "validate" /\ scan.nsid <= MaxNs
  /\ scan' = [scan EXCEPT !.pc = IF o = None THEN "alloc" ELSE "check", !.ns = o]
  /\ obj' = IF o = None THEN obj ELSE [obj EXCEPT ![o].refs = @ + 1]
  /\ UNCHANGED <<active, notice, work, rem, queues, list, pending, remover, changes, failures, steady, spoilt>>

(* The numbers in between are passed over. *)
ValidatedNoGap == IF scan.mode = "list" THEN [scan EXCEPT !.pc = "gap", !.prev = scan.nsid, !.ns = None]
                  ELSE [scan EXCEPT !.pc = "validate", !.nsid = @ + 1, !.ns = None]

(* What follows the validation of a number. *)
Validated == IF scan.mode = "list" THEN [scan EXCEPT !.pc = "gap", !.prev = @ + 1, !.ns = None]
             ELSE [scan EXCEPT !.pc = "validate", !.nsid = @ + 1, !.ns = None]

(* The reference is kept. *)
RevalidateLeaks ==
  /\ scan.pc = "check"
  /\ scan' = Validated
  /\ \/ /\ obj[scan.ns].nsid \in active /\ ~obj[scan.ns].dead
        /\ UNCHANGED <<obj, list, failures, steady>>
     \/ /\ \/ obj[scan.ns].nsid \notin active \/ obj[scan.ns].dead
           /\ UNCHANGED <<failures, steady>>
        /\ NsRemove(scan.ns, 1)
     \/ Fail /\ steady' = FALSE /\ NsRemove(scan.ns, 1)
  /\ UNCHANGED <<active, notice, work, rem, queues, pending, remover, changes, spoilt>>

(* nvme_revalidate_disk: not for a dead namespace, nor for one that cannot *)
(* be identified or has no capacity.                                       *)
Revalidate ==
  /\ scan.pc = "check"
  /\ scan' = Validated
  /\ \/ /\ obj[scan.ns].nsid \in active /\ ~obj[scan.ns].dead
        /\ obj' = [obj EXCEPT ![scan.ns].refs = @ - 1]
        /\ UNCHANGED <<list, failures, steady>>
     \/ /\ \/ obj[scan.ns].nsid \notin active \/ obj[scan.ns].dead
           /\ UNCHANGED <<failures, steady>>
        /\ NsRemove(scan.ns, 1)
     \/ Fail /\ steady' = FALSE /\ NsRemove(scan.ns, 1)
  /\ UNCHANGED <<active, notice, work, rem, queues, pending, remover, changes, spoilt>>

(* nvme_alloc_ns *)
AllocNs ==
  /\ scan.pc = "alloc"
  /\ scan' = Validated
  /\ \/ /\ scan.nsid \in active
        /\ \E o \in Objects :
             /\ obj[o] = Unused /\ \A p \in Objects : p < o => obj[p] # Unused
             /\ obj' = [obj EXCEPT ![o].nsid = scan.nsid, ![o].refs = 1]
             /\ list' = Append(list, o)
        /\ UNCHANGED <<failures, steady>>
     \/ scan.nsid \notin active /\ UNCHANGED <<obj, list, failures, steady>>
     \/ Fail /\ steady' = FALSE /\ UNCHANGED <<obj, list>>
  /\ UNCHANGED <<active, notice, work, rem, queues, pending, remover, changes, spoilt>>

(* The numbers between two entries of the list. *)
FillGap ==
  LET o == FindNs(scan.prev) IN
  /\ scan.pc = "gap"
  /\ IF scan.prev < scan.nsid
     THEN /\ scan' = [scan EXCEPT !.prev = @ + 1]
          /\ IF o = None THEN UNCHANGED <<obj, list>> ELSE NsRemove(o, 0)
     ELSE scan' = [scan EXCEPT !.pc = "entry"] /\ UNCHANGED <<obj, list>>
  /\ UNCHANGED <<active, notice, work, rem, queues, pending, remover, changes, failures, steady, spoilt>>

(* The sequential scan has tried every number. *)
SequentialEnd ==
  /\ scan.pc = "validate" /\ scan.nsid > MaxNs
  /\ scan' = [scan EXCEPT !.pc = "prune", !.prev = MaxNs, !.next = FirstEntry]
  /\ UNCHANGED <<active, notice, work, rem, queues, obj, list, pending, remover, changes, failures, steady, spoilt>>

(* nvme_remove_invalid_namespaces, one entry: without the lock. *)
RemoveInvalid ==
  /\ scan.pc = "prune" /\ scan.next # None
  /\ scan' = [scan EXCEPT !.next = NextEntry(scan.next)]
  /\ IF obj[scan.next].nsid > scan.prev THEN NsRemove(scan.next, 0) ELSE UNCHANGED <<obj, list>>
  /\ UNCHANGED <<active, notice, work, rem, queues, pending, remover, changes, failures, steady, spoilt>>

(* list_sort, which is stable: an entry's place is the number of those     *)
(* that belong before it.                                                  *)
Before(i, k) ==
  \/ obj[list[i]].nsid < obj[list[k]].nsid
  \/ obj[list[i]].nsid = obj[list[k]].nsid /\ i < k
Place(k) == Cardinality({i \in DOMAIN list : Before(i, k)}) + 1
ListSort == [p \in DOMAIN list |-> list[CHOOSE k \in DOMAIN list : Place(k) = p]]

(* The end of the scan. *)
ScanEnd ==
  /\ scan.pc = "prune" /\ scan.next = None
  /\ list' = ListSort
  /\ scan' = Resting
  /\ UNCHANGED <<active, notice, work, rem, queues, obj, pending, remover, changes, failures, steady, spoilt>>

Scanning ==
  \/ ScanStart \/ IdentifyNsList \/ NextListEntry \/ ValidateNs \/ Revalidate \/ AllocNs
  \/ FillGap \/ SequentialEnd \/ RemoveInvalid \/ ScanEnd

-----------------------------------------------------------------------------
(* The scan is not queued again while it runs. *)
QueueScanIdle == pending' = (pending \/ (Live /\ scan.pc = "idle"))

(* nvme_queue_scan *)
QueueScan == pending' = (pending \/ Live)

(* Namespaces are attached, detached or resized to nothing. *)
DeviceChange ==
  /\ changes < MaxChanges /\ changes' = changes + 1
  /\ active' \in SUBSET Ids \ {active}
  /\ notice' = TRUE
  /\ steady' = FALSE
  /\ UNCHANGED <<work, rem, queues, obj, list, pending, scan, remover, failures, spoilt>>

(* nvme_complete_async_event for NVME_AER_NOTICE_NS_CHANGED *)
Notice ==
  /\ queues   \* nvme_reset_work asks for no events without
  /\ notice /\ notice' = FALSE
  /\ QueueScan
  /\ UNCHANGED <<active, work, rem, queues, obj, list, scan, remover, changes, failures, steady, spoilt>>

(* A user asks for a scan. *)
Rescan ==
  /\ changes < MaxChanges /\ changes' = changes + 1
  /\ QueueScan
  /\ UNCHANGED <<active, notice, work, rem, queues, obj, list, scan, remover, failures, steady, spoilt>>

(* The reset work leaves the live state (commands of the scan fail in      *)
(* between, counted as failures), or it is refused once nvme_remove runs.  *)
Reset ==
  /\ work = "rest" /\ changes < MaxChanges /\ changes' = changes + 1
  /\ work' = IF Live THEN "reset" ELSE "dead"
  /\ steady' = FALSE
  /\ UNCHANGED <<active, notice, rem, queues, obj, list, pending, scan, remover, failures, spoilt>>

(* nvme_change_ctrl_state(NVME_CTRL_LIVE) is refused once nvme_remove runs. *)
BackToLive == work' = IF rem = "no" THEN "rest" ELSE "dead"

(* With I/O queues it ends by queueing a scan. *)
ResetEnd ==
  /\ work = "reset"
  /\ BackToLive
  /\ queues' = TRUE
  /\ pending' = (pending \/ rem = "no")
  /\ UNCHANGED <<active, notice, rem, obj, list, scan, remover, changes, failures, steady, spoilt>>

ResetFails ==
  /\ work = "reset" /\ work' = "dead"
  /\ UNCHANGED <<active, notice, rem, queues, obj, list, pending, scan, remover, changes, failures,
                 steady, spoilt>>

(* nvme_kill_queues marks what is on the list, *)
Killed == obj' = [o \in Objects |-> IF o \in Listed THEN [obj[o] EXCEPT !.dead = TRUE] ELSE obj[o]]

(* when there is no I/O queue, *)
KillQueues ==
  /\ work = "reset" /\ work' = "killed"
  /\ queues' = FALSE
  /\ Killed
  /\ UNCHANGED <<active, notice, rem, list, pending, scan, remover, changes, failures, steady, spoilt>>

(* which is no failure: the namespaces are removed and no scan is queued,  *)
EmptyEnd ==
  /\ work = "emptying" /\ ~remover.on
  /\ BackToLive
  /\ UNCHANGED <<active, notice, rem, queues, obj, list, pending, scan, remover, changes, failures,
                 steady, spoilt>>

(* and in remove_work, which unbinds the driver.                           *)
RemoveDeadWork ==
  /\ work = "dead" /\ work' = "rest"
  /\ Killed
  /\ rem' = IF rem = "no" THEN "flush" ELSE rem
  /\ UNCHANGED <<active, notice, queues, list, pending, scan, remover, changes, failures, steady, spoilt>>

(* nvme_remove begins. *)
Unbind ==
  /\ rem = "no" /\ changes < MaxChanges /\ changes' = changes + 1
  /\ rem' = "flush"
  /\ steady' = FALSE
  /\ UNCHANGED <<active, notice, work, queues, obj, list, pending, scan, remover, failures, spoilt>>

(* nvme_uninit_ctrl does not flush the scan. *)
RemoveStartUnflushed ==
  /\ ~remover.on
  /\ \/ work = "killed" /\ work' = "emptying" /\ UNCHANGED rem
     \/ rem = "flush" /\ work \in {"rest", "dead"} /\ rem' = "gone" /\ UNCHANGED work
  /\ remover' = IF list = <<>> THEN remover
                ELSE [on |-> TRUE, cur |-> list[1], next |-> NextEntry(list[1])]
  /\ UNCHANGED <<active, notice, queues, obj, list, pending, scan, changes, failures, steady, spoilt>>

(* nvme_remove_namespaces, called by the reset work, which does not look   *)
(* whether a scan runs, and by nvme_uninit_ctrl, which flushed it and the  *)
(* reset work.                                                             *)
RemoveStart ==
  /\ ~remover.on
  /\ \/ work = "killed" /\ work' = "emptying" /\ UNCHANGED rem
     \/ /\ rem = "flush" /\ work \in {"rest", "dead"} /\ scan.pc = "idle" /\ ~pending
        /\ rem' = "gone" /\ UNCHANGED work
  /\ remover' = IF list = <<>> THEN remover
                ELSE [on |-> TRUE, cur |-> list[1], next |-> NextEntry(list[1])]
  /\ UNCHANGED <<active, notice, queues, obj, list, pending, scan, changes, failures, steady, spoilt>>

RemoveNext ==
  /\ remover.on
  /\ NsRemove(remover.cur, 0)
  /\ remover' = IF remover.next = None THEN [on |-> FALSE, cur |-> None, next |-> None]
                ELSE [on |-> TRUE, cur |-> remover.next, next |-> NextEntry(remover.next)]
  /\ UNCHANGED <<active, notice, work, rem, queues, pending, scan, changes, failures, steady, spoilt>>

(* nvme_open gets a reference unless the count is zero; nvme_release.      *)
OpenNs(o) ==
  /\ obj[o].refs > 0 /\ obj[o].opens = 0
  /\ Cardinality({p \in Objects : obj[p].opens = 1}) < MaxOpens
  /\ obj' = [obj EXCEPT ![o].refs = @ + 1, ![o].opens = 1]
  /\ UNCHANGED <<active, notice, work, rem, queues, list, pending, scan, remover, changes, failures, steady, spoilt>>

ReleaseNs(o) ==
  /\ obj[o].opens = 1
  /\ obj' = [obj EXCEPT ![o].refs = @ - 1, ![o].opens = 0]
  /\ UNCHANGED <<active, notice, work, rem, queues, list, pending, scan, remover, changes, failures, steady, spoilt>>

ResetWork == ResetEnd \/ ResetFails \/ KillQueues \/ EmptyEnd \/ RemoveDeadWork
Removing == RemoveStart \/ RemoveNext

Next ==
  \/ Scanning
  \/ DeviceChange \/ Notice \/ Rescan \/ Reset \/ Unbind \/ ResetWork \/ Removing
  \/ \E o \in Objects : OpenNs(o) \/ ReleaseNs(o)

(* Works and events get on; nothing is asked of users or of the device.    *)
Fairness == WF_vars(Scanning) /\ WF_vars(Notice) /\ WF_vars(ResetWork) /\ WF_vars(Removing)

Spec == Init /\ [][Next]_vars
FairSpec == Spec /\ Fairness

-----------------------------------------------------------------------------
ListedIds == {obj[o].nsid : o \in Listed}

(***************************************************************************)
(* After a scan that nothing disturbed, the list is what the device has,   *)
(* in order, each namespace once, whether it came by                       *)
(* lists or number by number, and whatever an earlier scan left.  And at   *)
(* any time a namespace is on it twice only after a list other than the    *)
(* first could not be had: the sequential scan then searches a list that   *)
(* is not sorted.                                                          *)
(***************************************************************************)
ScanIsRight ==
  /\ Twins => spoilt
  /\ (steady /\ Live /\ scan.pc = "idle" /\ ~pending) =>
     ListedIds = active /\ \A k \in 1 .. Len(list) - 1 : obj[list[k]].nsid < obj[list[k + 1]].nsid

(***************************************************************************)
(* Nobody touches a namespace that was freed: what is on the list, opened, *)
(* or held by the scan or the removal has a reference; one that is gone    *)
(* from the list has no more than its users' references.                   *)
(***************************************************************************)
Holders(o) == (IF o \in Listed THEN 1 ELSE 0) + obj[o].opens
              + (IF scan.ns = o THEN 1 ELSE 0)
HeldIsCounted == \A o \in Objects : obj[o].refs = Holders(o)

(***************************************************************************)
(* Once nvme_uninit_ctrl removes the namespaces, no scan runs or will, and *)
(* when it is through none is left, whatever was queued before or is       *)
(* announced and reset meanwhile.                                          *)
(***************************************************************************)
GoneForGood ==
  rem = "gone" => /\ ~pending /\ scan.pc = "idle"
                  /\ remover.on \/ list = <<>>

(***************************************************************************)
(* "It is up to the caller to ensure the namespace list is not modified by *)
(* scan work while this function is executing" (core.c:1839): the next     *)
(* entry nvme_remove_namespaces goes to is on the list.                    *)
(***************************************************************************)
RemovalStaysOnList == remover.next # None => remover.next \in Listed

(***************************************************************************)
(* A change of the device arrives, even if it comes in the middle of a     *)
(* scan, unless commands fail, a namespace that was killed has to be found *)
(* again, there is no I/O queue (then no event is asked for), the driver   *)
(* is unbound, or a walk without the lock has left the list.               *)
(***************************************************************************)
ScanStaysOnList == scan.next # None => scan.next \in Listed
ChangeArrives ==
  []<>\/ ListedIds = active
      \/ failures > 0 \/ \E o \in Objects : obj[o].dead
      \/ ~queues \/ rem # "no"
      \/ ~RemovalStaysOnList \/ ~ScanStaysOnList

=============================================================================
