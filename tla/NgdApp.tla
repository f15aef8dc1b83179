------------------------------- MODULE NgdApp -------------------------------
(***************************************************************************)
(* The window of ngd_app: a table of the controllers found, and buttons    *)
(* that send one admin command to every enabled row in turn, show what the *)
(* device answers and save it in a file named after the row (form_app.cpp, *)
(* vcl_nvme_dev.cpp, nvme_io.cpp).  A click is one step per row, between   *)
(* which nodes may come and go: the identify buttons use one buffer for    *)
(* all rows, the others one for each row.  Devices are outside.            *)
(***************************************************************************)
EXTENDS Integers, Sequences, Functions

CONSTANTS
  NodeList,  \* the nodes /dev/nvme?, in the order ls gives them
  Elpe,      \* [node -> 0 .. 255]: what the controller says it has, less one
  LrtTyped   \* numbers typed for an LBA range type

VARIABLES
  table,     \* rows: [node, names, geometry, elpes]
  click,     \* the click being handled: [kind, i, nodes, num]
  buffer,    \* whose answer the structure of an identify click holds: a node's or "zero"
  errnoSet,  \* errno is not 0
  saved,     \* ghost: the last file of the click: [of, holds]
  over,      \* ghost: dwords of the structures of which a command asked for more
  mistaken   \* ghost: a status of a device was taken for success

vars == <<table, click, buffer, errnoSet, saved, over, mistaken>>

Nodes == Range(NodeList)

Idle == [kind |-> "idle", i |-> 0, nodes |-> <<>>, num |-> 0]
NoFile == [of |-> "none", holds |-> "none"]

Init ==
  /\ table = <<>> /\ click = Idle /\ buffer = "zero" /\ errnoSet \in BOOLEAN
  /\ saved = NoFile /\ over = {} /\ mistaken = FALSE

-----------------------------------------------------------------------------
(* What becomes of a command: the node may be gone ("absent"), the ioctl   *)
(* may fail, the device may refuse, or succeed with a result that is not 0.*)
Answers == {"absent", "error", "refused", "done", "result"}

(* nvme_io_pass_through: whatever the ioctl returns but 0 becomes -errno.  *)
Passed(a) == a \in {"done", "result"} \/ (a = "refused" /\ ~errnoSet)
PassThrough(a) ==
  /\ errnoSet' = (errnoSet \/ a \in {"absent", "error"})
  /\ mistaken' = (mistaken \/ (a = "refused" /\ ~errnoSet))

(* What the structure holds after a command to node. *)
Filled(a, node, b) == IF a \in {"done", "result"} THEN node ELSE b

(* admin_identify: that of a controller, cns 1, alone gives the result of  *)
(* a command that passed.                                                  *)
AdminIdentify(cns, a) == Passed(a) /\ (cns = 1 => a # "result")

(* VCLNVMeDev::identify(ctrl): the number of log entries comes from the    *)
(* structure, whatever became of the command, as an unsigned char.         *)
IdentifyCtrl(row, a, b) ==
  [row EXCEPT !.names = IF AdminIdentify(1, a) THEN b ELSE "error",
              !.elpes = ((IF b \in Nodes THEN Elpe[b] ELSE 0) + 1) % 256]

(* VCLNVMeDev::identify(ns) *)
IdentifyNs(row, a, b) == [row EXCEPT !.geometry = IF AdminIdentify(0, a) THEN b ELSE "error"]

(* get_log_page: dwords, less one, in 12 bits; an error has 16 dwords.     *)
ErrNumd(entries) == (16 * entries - 1) % 4096
SmartNumd == 128 - 1
FwSlotNumd == 128 - 1

(* admin_generic and admin_feature_lrt: the dwords asked for.  The number  *)
(* of LBA range types, less one, has 6 bits, and each has 16 dwords.       *)
LogDwords(numd) == numd + 1
LrtDwords(num) == 16 * ((num % 64) + 1)

(* admin_feature: every other feature of the list is supported. *)
AdminFeature == \E a \in Answers : PassThrough(a)

NewRow(node) == [node |-> node, names |-> "empty", geometry |-> "empty", elpes |-> 0]
Row == table[click.i]
Advance(rows) == click' = IF click.i = rows THEN Idle ELSE [click EXCEPT !.i = @ + 1]
Freed(b) == IF click'.kind = "idle" THEN "zero" ELSE b   \* at the end of the click

(* Mutant: the file is saved whatever became of the command.               *)
SaveAll(passed, b) == saved' \in {saved, [of |-> Row.node, holds |-> b]}

(* A box, read at each row, says whether a file is saved. *)
Save(passed, b) == saved' \in {saved} \union IF passed THEN {[of |-> Row.node, holds |-> b]} ELSE {}


-----------------------------------------------------------------------------
(* btnRefleshDevice: the list is taken and the table cleared; found are    *)
(* the places in NodeList of the nodes that are there.                     *)
Refresh ==
  /\ click = Idle
  /\ \E n \in 0 .. Len(NodeList) : \E found \in [1 .. n -> DOMAIN NodeList] :
       /\ \A j, k \in 1 .. n : j < k => found[j] < found[k]
       /\ click' = IF n = 0 THEN Idle
                   ELSE [Idle EXCEPT !.kind = "refresh", !.i = 1, !.nodes = [k \in 1 .. n |-> NodeList[found[k]]]]
  /\ table' = <<>> /\ saved' = NoFile
  /\ UNCHANGED <<buffer, errnoSet, over, mistaken>>

(* then every node gets a row and is identified into a structure of its own. *)
Enumerate ==
  /\ click.kind = "refresh"
  /\ LET node == click.nodes[click.i] IN
     \E a \in Answers :
       /\ PassThrough(a)
       /\ table' = Append(table, IdentifyCtrl(NewRow(node), a, Filled(a, node, "zero")))
  /\ Advance(Len(click.nodes))
  /\ UNCHANGED <<buffer, saved, over>>

(* The execute buttons. *)
Execute(kind) ==
  /\ click = Idle /\ table # <<>>
  /\ \E typed \in IF kind = "range" THEN LrtTyped ELSE {0} :
       click' = [Idle EXCEPT !.kind = kind, !.i = 1, !.num = typed]
  /\ saved' = NoFile
  /\ UNCHANGED <<table, buffer, errnoSet, over, mistaken>>

Kinds == {"ctrl", "ns", "range", "feature", "error", "smart", "fwslot"}

(* A row whose box is not checked. *)
Skip ==
  /\ click.kind \in Kinds
  /\ Advance(Len(table)) /\ buffer' = Freed(buffer)
  /\ UNCHANGED <<table, errnoSet, saved, over, mistaken>>

(* btnIdentifyExecute *)
ExecuteIdentifyCtrl ==
  /\ click.kind = "ctrl" /\ Advance(Len(table))
  /\ \E a \in Answers :
       LET b == Filled(a, Row.node, buffer) IN
       /\ PassThrough(a)
       /\ table' = [table EXCEPT ![click.i] = IdentifyCtrl(Row, a, b)]
       /\ Save(AdminIdentify(1, a), b)
       /\ buffer' = Freed(b)
  /\ UNCHANGED over

ExecuteIdentifyNs ==
  /\ click.kind = "ns" /\ Advance(Len(table))
  /\ \E a \in Answers :
       LET b == Filled(a, Row.node, buffer) IN
       /\ PassThrough(a)
       /\ table' = [table EXCEPT ![click.i] = IdentifyNs(Row, a, b)]
       /\ Save(AdminIdentify(0, a), b)
       /\ buffer' = Freed(b)
  /\ UNCHANGED over

(* A command with a structure of its own, of room dwords. *)
OwnBuffer(initial, room, asked) ==
  /\ over' = IF asked > room THEN over \union {room} ELSE over
  /\ \E a \in Answers : PassThrough(a) /\ Save(Passed(a), Filled(a, Row.node, initial))
  /\ Advance(Len(table)) /\ UNCHANGED <<table, buffer>>

(* btnGetFeatureExecute; only LBA range types have a structure, as many of *)
(* them as were typed, and 64 at the most.                                 *)
GetLrt ==
  /\ click.kind = "range"
  /\ LET num == IF click.num > 63 THEN 63 ELSE click.num
     IN OwnBuffer("garbage", 16 * (num + 1), LrtDwords(num))

GetFeature ==
  /\ click.kind = "feature"
  /\ AdminFeature
  /\ Advance(Len(table)) /\ UNCHANGED <<table, buffer, saved, over>>

(* btnGetLogPageExecute *)
GetErrorLog ==
  click.kind = "error" /\ OwnBuffer("garbage", 16 * Row.elpes, LogDwords(ErrNumd(Row.elpes)))
GetSmartLog == click.kind = "smart" /\ OwnBuffer("zero", 128, LogDwords(SmartNumd))
GetFwSlotLog == click.kind = "fwslot" /\ OwnBuffer("zero", 128, LogDwords(FwSlotNumd))

Next ==
  \/ Refresh \/ Enumerate
  \/ \E kind \in Kinds : Execute(kind)
  \/ Skip
  \/ ExecuteIdentifyCtrl \/ ExecuteIdentifyNs
  \/ GetLrt \/ GetFeature
  \/ GetErrorLog \/ GetSmartLog \/ GetFwSlotLog

Spec == Init /\ [][Next]_vars

-----------------------------------------------------------------------------
(* What the window shows of a controller and what a file of its row holds  *)
(* is an answer of that controller, although a failed command leaves the   *)
(* answer of the row before in the structure (form_app.cpp:187), as long   *)
(* as no status of a device is taken for success (io_ctrl.cpp:22).  No     *)
(* command asks for more than its structure holds, but for a controller    *)
(* of 256 entries, whose number wraps (vcl_nvme_dev.cpp:116).              *)
DevicesKeptApart ==
  /\ ~mistaken =>
     /\ \A i \in 1 .. Len(table) : /\ table[i].names \in {"error", table[i].node}
                                   /\ table[i].geometry \in {"empty", "error", table[i].node}
     /\ saved.holds = saved.of
  /\ over \subseteq {0}
=============================================================================
