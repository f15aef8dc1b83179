------------------------------ MODULE NvmeIod -------------------------------
(***************************************************************************)
(* What the patched kernel driver hangs on one tag                         *)
(* (src/kw_debug/ref/pci.c, core.c, src/kw_debug/ken_debug.c): the command *)
(* nvme_queue_rq builds for a request, the chained lists of page addresses *)
(* (PRP lists) the device reads, and the errors a passthrough command asks *)
(* to have put into them.                                                  *)
(*                                                                         *)
(* Lengths are in units of which PageUnits make a page of the controller;  *)
(* a list page has Entries entries.  An address is a segment and a unit in *)
(* it, that of a list page 0 and the page.                                 *)
(***************************************************************************)
EXTENDS Integers, Sequences, Functions

CONSTANTS PageUnits,   \* ctrl.page_size
          Entries,     \* page_size / 8, entries of a list page
          SmallEntries,\* entries of a list from the small pool (256 / 8)
          Transfers,   \* the requests, see Transfer
          MaxRetries,  \* nvme_max_retries
          MaxRequests, \* bound: requests that use the tag
          MaxPages     \* bound: list pages there are

(* kind: a request of the file system, or the passthrough of an ioctl to a *)
(* namespace or to the admin queue; starts: the pages at which the         *)
(* segments begin; error: errCase and index of KWDebugCommand.             *)
Transfer == [kind: {"rw", "discard", "user", "admin"}, write: BOOLEAN, pi: BOOLEAN,
             off: 0 .. PageUnits - 1, len: Nat \ {0}, starts: Seq(Nat),
             error: {"none", "prp1", "prp2", "entry"}, index: Nat]

VARIABLES
  pc,        \* where nvme_queue_rq stands, or "idle", "sent", "ended"
  rq,        \* the request that has the tag
  kwCmd,     \* nvme_req(req)->cmd: "null", "own", or "stale" after the ioctl returned
  payload,   \* the page of a discard is allocated
  npages,    \* iod->npages
  list,      \* the list pages, iod_list(req)
  mem,       \* [list page -> its entries]
  firstDma,  \* iod->first_dma
  nents,     \* iod->nents
  prp,       \* locals of nvme_setup_prps: [sg, dmaLen, addr, length, i]
  cmnd,      \* the command: [prp1, prp2]
  tags,      \* the reference tags are those of the file system or of the disk
  maps,      \* dma_map_sg less dma_unmap_sg
  retries,
  used,      \* bound
  suspended, \* ghost: nvme_queue_rq turned a request back at a suspended queue (once: a bound)
  odd        \* ghost: a free that was none, or with another address

vars == <<pc, rq, kwCmd, payload, npages, list, mem, firstDma, nents, prp, cmnd, tags, maps,
          retries, used, suspended, odd>>

Pages == 1 .. MaxPages
ListSlots == 0 .. Entries - 1
Entry(a) == [a |-> a, bad |-> FALSE]
ListAt(p) == <<0, p>>    \* the dma address of a list page
NoAddr == <<0, 0>>
Nowhere == Entry(NoAddr)

-----------------------------------------------------------------------------
(* The segments blk_rq_map_sg makes, page boundaries between them.  Only   *)
(* an ioctl asks for an error.                                             *)
WellFormed(t) ==
  /\ t.starts # <<>> /\ t.starts[1] = 0
  /\ \A r, s \in 1 .. Len(t.starts) : r < s => t.starts[r] < t.starts[s]
  /\ t.starts[Len(t.starts)] * PageUnits < t.off + t.len
  /\ t.kind \in {"rw", "discard"} => t.error = "none"

PagesOf(t) == (t.off + t.len + PageUnits - 1) \div PageUnits
Segments(t) == Len(t.starts)
SegAddr(t, s) == <<s, IF s = 1 THEN t.off ELSE 0>>
SegEnd(t, s) == IF s = Segments(t) THEN t.off + t.len ELSE t.starts[s + 1] * PageUnits
SegLen(t, s) == SegEnd(t, s) - (IF s = 1 THEN t.off ELSE t.starts[s] * PageUnits)

(* The addresses at which the pages of the transfer begin, in order.       *)
SegmentOf(t, p) == CHOOSE s \in 1 .. Segments(t) :
                     t.starts[s] <= p /\ (s < Segments(t) => p < t.starts[s + 1])
PageAddr(t, p) ==
  LET s == SegmentOf(t, p)
  IN <<s, (p - t.starts[s]) * PageUnits + (IF p = 0 THEN t.off ELSE 0)>>
Expected(t) == [k \in 1 .. PagesOf(t) |-> PageAddr(t, k - 1)]

(* nvme_npages: room for pointers to list pages *)
NvmeNpages(t) ==
  LET nprps == (t.len + PageUnits + PageUnits - 1) \div PageUnits
  IN (nprps + Entries - 2) \div (Entries - 1)

TypeOK ==
  /\ pc \in {"idle", "setup", "iod", "map", "first", "entries", "integrity", "inject", "submit",
             "sent", "ended"}
  /\ kwCmd \in {"null", "own", "stale"} /\ payload \in BOOLEAN
  /\ npages \in -1 .. MaxPages /\ list \in Seq(Pages)
  /\ tags \in {"seed", "disk"} /\ maps \in 0 .. 2 * MaxRequests * (MaxRetries + 1)

Fresh == [sg |-> 1, dmaLen |-> 0, addr |-> NoAddr, length |-> 0, i |-> 0]

Nothing == CHOOSE t \in Transfers : TRUE
NoCommand == [prp1 |-> Nowhere, prp2 |-> Nowhere]
Unwritten == [p \in Pages |-> [s \in ListSlots |-> Nowhere]]

Init ==
  /\ pc = "idle" /\ rq = Nothing
  /\ kwCmd = "null" /\ payload = FALSE
  /\ npages = -1 /\ list = <<>> /\ mem = Unwritten
  /\ firstDma = NoAddr /\ nents = 0 /\ prp = Fresh
  /\ cmnd = NoCommand
  /\ tags = "seed" /\ maps = 0 /\ retries = 0 /\ used = 0 /\ suspended = FALSE /\ odd = FALSE

-----------------------------------------------------------------------------
IsUser == rq.kind \in {"user", "admin"}

(* A request gets the tag; nvme_alloc_request notes the ioctl's command,   *)
(* which the file system's requests do not reset.                          *)
Arrive ==
  /\ pc = "idle" /\ used < MaxRequests
  /\ used' = used + 1
  /\ rq' \in Transfers
  /\ kwCmd' = IF rq'.kind \in {"user", "admin"} THEN "own" ELSE kwCmd
  /\ pc' = "setup" /\ retries' = 0 /\ tags' = "seed"
  /\ UNCHANGED <<payload, npages, list, mem, firstDma, nents, prp, cmnd, maps, suspended, odd>>

(* The way out of nvme_queue_rq: the block layer comes again, or the       *)
(* request has failed.                                                     *)
Busy == pc' = "setup"
Error == pc' = "ended"

(* nvme_setup_cmd; only the page of a discard may be missing.  The locals  *)
(* of the call begin.                                                      *)
SetupCmd ==
  /\ pc = "setup"
  /\ prp' = Fresh /\ cmnd' = NoCommand
  /\ \/ pc' = "iod" /\ payload' = (rq.kind = "discard")
     \/ rq.kind = "discard" /\ Busy /\ UNCHANGED payload
  /\ UNCHANGED <<rq, kwCmd, npages, list, mem, firstDma, nents, tags, maps, retries, used,
                 suspended, odd>>

(* nvme_init_iod; a long request needs memory of its own *)
InitIod ==
  /\ pc = "iod"
  /\ \/ pc' = "map" /\ npages' = -1 /\ nents' = 0 /\ UNCHANGED payload
     \/ Busy /\ payload' = FALSE /\ PagesOf(rq) > 2
        /\ UNCHANGED <<npages, nents>>
  /\ list' = <<>>
  /\ UNCHANGED <<rq, kwCmd, mem, firstDma, prp, cmnd, tags, maps, retries, used, suspended, odd>>

(* nvme_free_iod walks the chain that the last entries of the pages make;  *)
(* odd: a page is freed with an address that is not its own.  What is in   *)
(* free pages is of no interest.                                           *)
ChainOk(n) == \A k \in 1 .. n - 1 :
                k < Len(list) => mem[list[k]][Entries - 1].a = ListAt(list[k + 1])
FreeIod(n) ==
  LET freed == IF n < 0 THEN 0 ELSE IF n = 0 THEN 1 ELSE n IN
  /\ odd' = (odd \/ freed > Len(list)
              \/ (freed > 0 /\ list # <<>> /\ firstDma # ListAt(list[1])) \/ ~ChainOk(freed))
  /\ list' = SubSeq(list, freed + 1, Len(list))
  /\ mem' = Unwritten

(* nvme_cleanup_cmd *)
CleanupCmd == payload' = FALSE

(* nvme_map_data begins: the segments are mapped, or not; the first page   *)
(* has an entry in the command, a second one, too.                         *)
MapData ==
  /\ pc = "map"
  /\ \/ /\ Error /\ FreeIod(npages) /\ CleanupCmd                       \* no segment
        /\ UNCHANGED <<nents, maps, prp, firstDma, npages>>
     \/ /\ Busy /\ FreeIod(npages) /\ CleanupCmd  \* not mapped
        /\ nents' = Segments(rq)
        /\ UNCHANGED <<maps, prp, firstDma, npages>>
     \/ LET t == rq
            length == t.len - (PageUnits - t.off)
            rest == SegLen(t, 1) - (PageUnits - t.off)
            second == IF rest # 0 THEN [sg |-> 1, addr |-> <<1, PageUnits>>, dmaLen |-> rest]
                      ELSE [sg |-> 2, addr |-> SegAddr(t, 2), dmaLen |-> SegLen(t, 2)]
        IN /\ nents' = Segments(t) /\ maps' = maps + 1
           /\ IF length <= 0
              THEN pc' = "integrity" /\ UNCHANGED <<prp, firstDma>>
              ELSE /\ prp' = [sg |-> second.sg, dmaLen |-> second.dmaLen, addr |-> second.addr,
                              length |-> length, i |-> 0]
                   /\ IF length <= PageUnits
                      THEN pc' = "integrity" /\ firstDma' = second.addr
                      ELSE pc' = "first" /\ UNCHANGED firstDma
           /\ UNCHANGED <<payload, list, odd, npages, mem>>
  /\ UNCHANGED <<rq, kwCmd, cmnd, tags, retries, used, suspended>>

(* A list page the pool has; its memory is not cleared.                    *)
NextPage == CHOOSE p \in Pages : p \notin Range(list)

(* No list page: everything goes back.  The mapping is undone here.        *)
Unlisted ==
  /\ maps' = maps - 1
  /\ Busy /\ CleanupCmd
  /\ UNCHANGED prp

FirstPageCounted ==   \* mutant: npages is not put back when there is no page
  /\ pc = "first"
  /\ \/ /\ list' = <<NextPage>> /\ firstDma' = ListAt(NextPage)
        /\ npages' = IF prp.length <= SmallEntries * PageUnits THEN 0 ELSE 1
        /\ pc' = "entries" /\ UNCHANGED <<mem, prp, maps, odd, payload>>
     \/ npages' = 1 /\ firstDma' = prp.addr /\ FreeIod(1) /\ Unlisted
  /\ UNCHANGED <<rq, kwCmd, nents, cmnd, tags, retries, used, suspended>>

(* The first list page, from the pool that fits.                           *)
FirstPage ==
  LET nprps == (prp.length + PageUnits - 1) \div PageUnits IN
  /\ pc = "first"
  /\ \/ /\ list' = <<NextPage>> /\ firstDma' = ListAt(NextPage)
        /\ npages' = IF nprps <= SmallEntries THEN 0 ELSE 1
        /\ pc' = "entries" /\ UNCHANGED <<mem, prp, maps, odd, payload>>
     \/ /\ npages' = -1 /\ firstDma' = prp.addr
        /\ FreeIod(-1)
        /\ Unlisted
  /\ UNCHANGED <<rq, kwCmd, nents, cmnd, tags, retries, used, suspended>>

(* prp_list_err_condition_check, which looks at the ioctl's own command;   *)
(* after the ioctl has returned its memory may say anything.               *)
Altered(i) ==
  IF rq.kind = "admin" \/ kwCmd = "null" THEN {FALSE}
  ELSE IF kwCmd = "stale" /\ ~IsUser THEN BOOLEAN
  ELSE {rq.error = "entry" /\ i = rq.index}

(* Mutant: a chained list is begun at its first entry. *)
SetupPrpsRestart ==
  LET old == list[Len(list)]
      full == prp.i = Entries
      page == IF full THEN NextPage ELSE old
      slot == IF full THEN 0 ELSE prp.i
      chained == IF full THEN [mem EXCEPT ![old][Entries - 1] = Entry(ListAt(page))] ELSE mem
      left == prp.dmaLen - PageUnits
      more == prp.length > PageUnits
  IN
  /\ pc = "entries"
  /\ list' = IF full THEN Append(list, page) ELSE list
  /\ npages' = IF full THEN npages + 1 ELSE npages
  /\ mem' = [chained EXCEPT ![page][slot] = [a |-> prp.addr, bad |-> FALSE]]
  /\ prp' = [sg |-> IF more /\ left <= 0 THEN prp.sg + 1 ELSE prp.sg,
             addr |-> IF more /\ left <= 0 THEN SegAddr(rq, prp.sg + 1) ELSE <<prp.addr[1], prp.addr[2] + PageUnits>>,
             dmaLen |-> IF more /\ left <= 0 THEN SegLen(rq, prp.sg + 1) ELSE left,
             length |-> prp.length - PageUnits, i |-> slot + 1]
  /\ pc' = IF more THEN "entries" ELSE "integrity"
  /\ UNCHANGED <<rq, kwCmd, firstDma, nents, cmnd, tags, retries, used, suspended, maps, odd, payload>>

(* One turn of the loop of nvme_setup_prps. *)
SetupPrps ==
  LET old == list[Len(list)]
      full == prp.i = Entries
      page == IF full THEN NextPage ELSE old
      slot == IF full THEN 1 ELSE prp.i
      chained == IF full
                 THEN [mem EXCEPT ![page][0] = mem[old][Entries - 1],
                                  ![old][Entries - 1] = Entry(ListAt(page))]
                 ELSE mem
      left == prp.dmaLen - PageUnits
      more == prp.length > PageUnits
  IN
  /\ pc = "entries"
  /\ \/ /\ full /\ FreeIod(npages) /\ Unlisted /\ UNCHANGED npages
     \/ /\ list' = IF full THEN Append(list, page) ELSE list
        /\ npages' = IF full THEN npages + 1 ELSE npages
        /\ \E bad \in Altered(slot) :
             mem' = [chained EXCEPT ![page][slot] = [a |-> prp.addr, bad |-> bad]]
        /\ prp' = [sg |-> IF more /\ left <= 0 THEN prp.sg + 1 ELSE prp.sg,
                   addr |-> IF more /\ left <= 0 THEN SegAddr(rq, prp.sg + 1) ELSE <<prp.addr[1], prp.addr[2] + PageUnits>>,
                   dmaLen |-> IF more /\ left <= 0 THEN SegLen(rq, prp.sg + 1) ELSE left,
                   length |-> prp.length - PageUnits,
                   i |-> slot + 1]
        /\ pc' = IF more THEN "entries" ELSE "integrity"
        /\ UNCHANGED <<maps, odd, payload>>
  /\ UNCHANGED <<rq, kwCmd, firstDma, nents, cmnd, tags, retries, used, suspended>>

(* The rest of nvme_map_data: the metadata, whose tags nvme_dif_prep       *)
(* changes unless it did before, and the command.                          *)
MapIntegrity ==
  /\ pc = "integrity"
  /\ \/ /\ tags' = IF rq.pi /\ rq.write THEN "disk" ELSE tags
        /\ maps' = maps + (IF rq.pi THEN 1 ELSE 0)
        /\ cmnd' = [prp1 |-> Entry(SegAddr(rq, 1)), prp2 |-> Entry(firstDma)]
        /\ pc' = "inject" /\ UNCHANGED <<list, mem, odd, payload>>
     \/ /\ rq.pi /\ Error /\ FreeIod(npages) /\ CleanupCmd
        /\ tags' \in IF rq.write THEN {tags, "disk"} ELSE {tags}
        /\ maps' = maps - 1 /\ UNCHANGED cmnd
  /\ UNCHANGED <<rq, kwCmd, npages, firstDma, nents, prp, retries, used, suspended>>

(* data_ptr_error_injection changes the copy of the command only. *)
InjectError ==
  /\ pc = "inject"
  /\ cmnd' = IF rq.kind = "admin" THEN cmnd
             ELSE [prp1 |-> [cmnd.prp1 EXCEPT !.bad = (rq.error = "prp1")],
                   prp2 |-> [cmnd.prp2 EXCEPT !.bad = (rq.error = "prp2")]]
  /\ pc' = "submit"
  /\ UNCHANGED <<rq, kwCmd, payload, npages, list, mem, firstDma, nents, prp, tags, maps, retries,
                 used, suspended, odd>>

(* The queue takes it, or is suspended: the list goes back, the mapping    *)
(* does not.                                                               *)
Submit ==
  /\ pc = "submit"
  /\ \/ pc' = "sent" /\ UNCHANGED <<list, mem, odd, payload, suspended>>
     \/ /\ ~suspended
        /\ IF rq.kind = "admin" THEN Error ELSE Busy
        /\ FreeIod(npages) /\ CleanupCmd /\ suspended' = TRUE
  /\ UNCHANGED <<rq, kwCmd, npages, firstDma, nents, prp, cmnd, tags, maps, retries, used>>

(* nvme_complete_rq after nvme_unmap_data *)
Complete ==
  /\ pc = "sent"
  /\ maps' = maps - (IF nents > 0 THEN (IF rq.pi THEN 2 ELSE 1) ELSE 0)
  /\ tags' = IF rq.pi /\ ~rq.write THEN "seed" ELSE tags
  /\ FreeIod(npages) /\ CleanupCmd
  /\ \/ pc' = "ended" /\ UNCHANGED retries
     \/ ~IsUser /\ retries < MaxRetries /\ retries' = retries + 1 /\ Busy
  /\ UNCHANGED <<rq, kwCmd, npages, firstDma, nents, prp, cmnd, used, suspended>>

(* The tag is free; the ioctl returns and its command goes out of scope.   *)
(* What is left in the iod is forgotten, as nobody reads it again.         *)
Return ==
  /\ pc = "ended"
  /\ pc' = "idle"
  /\ rq' = Nothing /\ prp' = Fresh /\ cmnd' = NoCommand
  /\ npages' = -1 /\ firstDma' = NoAddr /\ nents' = 0 /\ tags' = "seed" /\ retries' = 0
  /\ kwCmd' = IF kwCmd = "own" THEN "stale" ELSE kwCmd
  /\ UNCHANGED <<payload, list, mem, maps, used, suspended, odd>>

Next ==
  \/ Arrive \/ SetupCmd \/ InitIod \/ MapData \/ FirstPage \/ SetupPrps \/ MapIntegrity
  \/ InjectError \/ Submit \/ Complete \/ Return

Spec == Init /\ [][Next]_vars

-----------------------------------------------------------------------------
(* What the device makes of the command: it follows the lists, the last    *)
(* entry of a full list being the next list when more entries are to come. *)
(* Entry k of n is in page at of the lists, unless a page before is lost.  *)
ListEntry(k, n) ==
  LET each == Entries - 1
      at == (IF k = n /\ k > 1 THEN k - 2 ELSE k - 1) \div each + 1
  IN IF /\ at <= Len(list) /\ cmnd.prp2.a = ListAt(list[1])
        /\ \A p \in 1 .. at - 1 : mem[list[p]][each] = Entry(ListAt(list[p + 1]))
     THEN mem[list[at]][k - 1 - (at - 1) * each] ELSE Nowhere

DeviceReads ==
  LET n == PagesOf(rq) IN
  [k \in 1 .. n |-> IF k = 1 THEN cmnd.prp1
                    ELSE IF n = 2 THEN cmnd.prp2 ELSE ListEntry(k - 1, n - 1)]

(***************************************************************************)
(* The device gets the pages of the transfer, each once and in order,      *)
(* through however many chained lists, of however many segments            *)
(* (nvme_setup_prps); a retried or returned request is no exception.  And  *)
(* errors are put in where they were asked for: a command with an error    *)
(* reaches the device with it, also after it was turned back; the file     *)
(* system's requests reach it without, unless an ioctl used the tag before *)
(* (prp_list_err_condition_check, data_ptr_error_injection).               *)
(***************************************************************************)
ErrorsAsAsked ==
  LET bad == {k \in DOMAIN DeviceReads : DeviceReads[k].bad} IN
  /\ rq.kind = "admin" \/ (~IsUser /\ kwCmd = "null") => bad = {}
  /\ (rq.kind = "user" /\ rq.error = "prp1") => 1 \in bad
  /\ (rq.kind = "user" /\ rq.error = "entry" /\ PagesOf(rq) > 2)
       /\ rq.index + 2 <= PagesOf(rq) /\ rq.index < Entries => rq.index + 2 \in bad

DeviceReadsTransfer ==
  pc = "sent" => /\ [k \in DOMAIN DeviceReads |-> DeviceReads[k].a] = Expected(rq)
                 /\ rq.pi /\ rq.write => tags = "disk"
                 /\ ErrorsAsAsked

(***************************************************************************)
(* The lists go back to their pool whole, each page with its own address,  *)
(* also after an allocation in the middle has failed, and their pointers   *)
(* fit where nvme_npages made room for them; nothing stays mapped, unless  *)
(* a request was turned back at a suspended queue.                         *)
(***************************************************************************)
GivesBack ==
  /\ ~odd
  /\ Len(list) <= NvmeNpages(rq)
  /\ pc \in {"idle", "setup"} => list = <<>> /\ ~payload
  /\ (pc = "idle" /\ ~suspended) => maps = 0

=============================================================================
