------------------------------- MODULE KwMenu -------------------------------
(***************************************************************************)
(* The menus of the kw_ioctl tool (src/cppProj/kw_ioctl): the menu control *)
(* with its key handling, questions and tasks (menu_ctrl.c), the root menu *)
(* (menu_system.c), the start with arguments (ioctl_main.c), and what the  *)
(* tasks do: which of them replace the driver, lock a device through it,   *)
(* send it commands and open or close other menus (driver_basic.c,         *)
(* ioctl_basic.c, admin_basic.c, submis_basic.c, test_tools.c).            *)
(*                                                                         *)
(* How a value is typed is the business of KwEditor; here a question is    *)
(* answered by a value.  The driver and the device are outside.            *)
(***************************************************************************)
EXTENDS Integers, Sequences, FiniteSets, Functions

CONSTANTS ReportLimited, \* items of a page of the screen
          MaxAnswer,     \* answers are 0 .. MaxAnswer
          Boots          \* the calls menu_direct_task the arguments ask for, see ArgDecode

Items == [
  root   |-> <<"driver", "ioctl", "admin", "io", "tool", "EXIT">>,
  driver |-> <<"REPLACE", "VERSION", "LIST_MODULE", "LIST_NODE">>,
  ioctl  |-> <<"AUTO_LOCK", "SCAN", "LOCK", "GET_CR", "note", "note", "note">>,
  admin  |-> <<"CONFIG_QUEUE", "DELETE_SQ", "CREATE_SQ", "GET_LOG", "DELETE_CQ", "CREATE_CQ", "IDENTIFY",
               "ABORT", "GET_FEATURE", "SET_FEATURE", "ASYNC_EVENT", "FW_ACTIVATE", "FW_DOWNLOAD">>,
  io     |-> <<"WRITE", "READ", "FLUSH", "COMPARE">>,
  tool   |-> <<"IOMETER", "COMPLIANCE">>]

Menus == DOMAIN Items
Driver == Range(Items.driver)
Ioctl == Range(Items.ioctl) \ {"note"}
Admin == Range(Items.admin)
Submis == Range(Items.io)
Tool == Range(Items.tool)
Names == UNION {Range(Items[m]) : m \in Menus}

VARIABLES
  pc,       \* the part of an iteration that is next: "boot", "key", "task", "close", "exit"
  path,     \* pathList: the menus from the root to the current one
  node,     \* nodeList: the positions of the menus above
  pos,      \* currentPos
  attr,     \* [item -> its attribute]
  flags,    \* ctrl->flag
  op,       \* the active task's operation, or "none"
  step,     \* testStep, which only OP_COMMAND_LINE_TEST looks at
  asked,    \* cTaskPar
  par,      \* the parameters that have a value
  last,     \* lastProgress
  boot,     \* calls of menu_direct_task still to come
  driver,   \* what is loaded under the name nvme: "none", "kw", "standard"
  dev,      \* the device of the KW driver: "free", "mapped", "queues", "ready"
  mine,     \* ghost: this program has locked the device and not replaced the driver since
  relock,   \* ghost: the menus let the user ask for a lock although mine
  orphan,   \* ghost: a command went to a device that could not take it
  unasked   \* ghost: a task read a parameter without a value

vars == <<pc, path, node, pos, attr, flags, op, step, asked, par, last, boot, driver, dev, mine,
          relock, orphan, unasked>>

Flags == {"RUNNING", "WAIT_PARAMETER", "CLOSE", "HELP", "ANY_KEY", "ANSWER", "LOG"}

TypeOK ==
  /\ pc \in {"boot", "key", "task", "close", "exit"}
  /\ Len(path) = Len(node) + 1 /\ \A i \in DOMAIN path : path[i] \in Menus
  /\ pos \in 0 .. Len(Items[path[Len(path)]]) - 1
  /\ attr \in [Names -> {"folder", "task", "string"}]
  /\ flags \subseteq Flags
  /\ driver \in {"none", "kw", "standard"} /\ dev \in {"free", "mapped", "queues", "ready"}

Menu == path[Len(path)]
Item == Items[Menu][pos + 1]

-----------------------------------------------------------------------------
(* The menus as they are compiled, and ChangeItemAttribute on several of   *)
(* their items.                                                            *)
Compiled(i) ==
  IF i \in {"driver", "ioctl"} THEN "folder"
  ELSE IF i \in {"admin", "io", "tool", "note"} \union (Admin \ {"CONFIG_QUEUE"}) THEN "string"
  ELSE "task"

Change(a, items, to) == [i \in Names |-> IF i \in items THEN to ELSE a[i]]

RootSwap(a, open) == Change(Change(a, {"admin", "io", "tool"} \ open, "string"), open, "folder")

AdminSwap(a, mode) ==
  LET init == mode = "QUEUE_INIT"
      all == Change(Change(a, {"CONFIG_QUEUE"}, IF init THEN "task" ELSE "string"),
                    Admin \ {"CONFIG_QUEUE"}, IF init THEN "string" ELSE "task")
      std == Change(all, {"DELETE_SQ", "CREATE_SQ", "DELETE_CQ", "CREATE_CQ"}, "string")
  IN Change(IF mode = "STANDARD" THEN std ELSE all, {"ASYNC_EVENT"}, "string")

LockEnable(a, en) == Change(a, {"AUTO_LOCK", "LOCK"}, IF en THEN "task" ELSE "string")

(* The questions an init function pushes.                                  *)
DriverQuestions(o) == IF o = "VERSION" THEN 0 ELSE 1
IoctlQuestions(o) == CASE o = "SCAN" -> 2 [] o = "LOCK" -> 4 [] o = "AUTO_LOCK" -> 3 [] OTHER -> 0
AdminQuestions(o) ==
  IF o \in {"IDENTIFY", "GET_FEATURE", "SET_FEATURE", "ABORT", "CREATE_SQ", "FW_ACTIVATE", "GET_LOG"} THEN 2
  ELSE IF o \in {"CREATE_CQ", "DELETE_CQ", "DELETE_SQ"} THEN 1 ELSE 0
SubmisQuestions(o) ==
  (IF o \in {"WRITE", "COMPARE", "READ"} THEN 3 ELSE 0) + (IF o \in {"WRITE", "COMPARE"} THEN 2 ELSE 0)
ToolQuestions(o) == 1
SystemQuestions(o) == 0

Questions(o) ==
  IF o \in Driver THEN DriverQuestions(o)
  ELSE IF o \in Ioctl THEN IoctlQuestions(o)
  ELSE IF o \in Admin THEN AdminQuestions(o)
  ELSE IF o \in Submis THEN SubmisQuestions(o)
  ELSE IF o \in Tool THEN ToolQuestions(o)
  ELSE SystemQuestions(o)

(* How many of the parameters its task function reads.                     *)
DriverReads(o) == IF o = "VERSION" THEN 0 ELSE 1
IoctlReads(o) == CASE o = "SCAN" -> 2 [] o = "AUTO_LOCK" -> 3 [] o = "LOCK" -> 4 [] OTHER -> 0
QueueReads(o) == IF o = "CREATE_SQ" THEN 2 ELSE 1
AdminReads(o) ==
  IF o \in {"CREATE_SQ", "CREATE_CQ", "DELETE_SQ", "DELETE_CQ"} THEN QueueReads(o)
  ELSE IF o \in {"IDENTIFY", "GET_FEATURE", "SET_FEATURE", "ABORT", "FW_ACTIVATE", "GET_LOG"} THEN 2
  ELSE 0
SubmisReads(o) == IF o = "FLUSH" THEN 0 ELSE IF o = "READ" THEN 3 ELSE 5
ToolReads(o) == 1
Reads(o) ==
  IF o \in Driver THEN DriverReads(o)
  ELSE IF o \in Ioctl THEN IoctlReads(o)
  ELSE IF o \in Admin THEN AdminReads(o)
  ELSE IF o \in Submis THEN SubmisReads(o)
  ELSE IF o \in Tool THEN ToolReads(o)
  ELSE IF o = "COMMAND" /\ step > 0 THEN 1 ELSE 0

(* arg_decode: a0 and a1 replace the driver by the KW driver and, if that  *)
(* passed, lock the first device, a1 initialising it; a2 and a3 choose     *)
(* another driver.                                                         *)
ArgDecode(n) ==
  IF n \in {0, 1} THEN <<[op |-> "REPLACE", par |-> <<0>>, ifPass |-> FALSE],
                         [op |-> "AUTO_LOCK", par |-> <<0, 0, n>>, ifPass |-> TRUE]>>
  ELSE <<[op |-> "REPLACE", par |-> <<n - 1>>, ifPass |-> FALSE]>>

Init ==
  /\ pc = "boot" /\ boot \in Boots
  /\ path = <<"root">> /\ node = <<>> /\ pos = 0
  /\ attr = [i \in Names |-> Compiled(i)]
  /\ flags = {} /\ op = "none" /\ step = 0 /\ asked = 0 /\ par = <<>> /\ last = "none"
  /\ driver \in {"none", "kw", "standard"}
  /\ dev \in {"free", "ready"} /\ (dev = "ready" => driver = "kw")
  /\ mine = FALSE /\ relock = FALSE /\ orphan = FALSE /\ unasked = FALSE

-----------------------------------------------------------------------------
(* MenuMove *)
MenuMove(key) ==
  LET max == Len(Items[Menu]) - 1 IN
  /\ pos' = CASE key = "UP" -> IF pos = 0 THEN max ELSE pos - 1
              [] key = "DOWN" -> IF pos = max THEN 0 ELSE pos + 1
              [] key = "HOME" -> 0
              [] key = "END" -> max
              [] key = "PAGE_UP" -> IF pos < ReportLimited THEN 0 ELSE pos - ReportLimited
              [] key = "PAGE_DOWN" -> IF max - pos < ReportLimited THEN max ELSE pos + ReportLimited
  /\ UNCHANGED <<path, node, attr, flags, op, step, asked, par, last>>

(* MenuChange, KEY_LEFT *)
Up(s) == SubSeq(s, 1, Len(s) - 1)
MenuBack ==
  /\ Menu # "root"
  /\ path' = Up(path) /\ pos' = node[Len(node)] /\ node' = Up(node)
  /\ UNCHANGED <<attr, flags, op, step, asked, par, last>>

(* MenuChange, KEY_ENTER or KEY_RIGHT on a folder, *)
EnterFolder ==
  /\ attr[Item] = "folder"
  /\ node' = Append(node, pos) /\ path' = Append(path, Item) /\ pos' = 0
  /\ UNCHANGED <<attr, flags, op, step, asked, par, last>>

(* and on a task: its questions come first. *)
EnterTask ==
  /\ attr[Item] = "task"
  /\ op' = Item /\ asked' = Questions(Item)
  /\ flags' = flags \union {IF Questions(Item) # 0 THEN "WAIT_PARAMETER" ELSE "RUNNING"}
  /\ UNCHANGED <<path, node, pos, attr, step, par, last>>

(* menu_direct_task begins; its loop is that of main. *)
DirectTask(o, values) ==
  /\ op' = o /\ step' = 0 /\ asked' = Questions(o)
  /\ par' = SubSeq(values, 1, Questions(o))
  /\ flags' = ((flags \ {"WAIT_PARAMETER"}) \union {"RUNNING"})
                \union (IF o = "COMMAND" THEN {"LOG"} ELSE {})
  /\ UNCHANGED <<path, node, pos, attr, last>>

(* menu_key_when_parameter and menu_key_when_string_parameter: a value is  *)
(* entered for the current question.                                       *)
AnswerQuestion(v) ==
  /\ par' = Append(par, v)
  /\ flags' = IF "ANSWER" \in flags THEN (flags \ {"ANSWER"}) \union {"RUNNING"}
              ELSE IF asked = Len(par) + 1 THEN (flags \ {"WAIT_PARAMETER"}) \union {"RUNNING"}
              ELSE flags
  /\ UNCHANGED <<path, node, pos, attr, op, step, asked, last>>

SetFlags(f) == flags' = f /\ UNCHANGED <<path, node, pos, attr, op, step, asked, par, last>>

(* memu_key_when_menu *)
KeyWhenMenu ==
  \/ \E key \in {"UP", "DOWN", "HOME", "END", "PAGE_UP", "PAGE_DOWN"} : MenuMove(key)
  \/ MenuBack
  \/ EnterFolder
  \/ EnterTask
  \/ DirectTask("COMMAND", <<>>)
  \/ SetFlags(flags \union {"HELP"})

(* menu_key_on_execute, by the state the key finds *)
AnyKey == "ANY_KEY" \in flags /\ SetFlags(flags \ {"ANY_KEY"})
Escape == flags \intersect {"RUNNING", "WAIT_PARAMETER"} # {} /\ SetFlags(flags \union {"CLOSE"})
EndHelp == "HELP" \in flags /\ SetFlags(flags \ {"HELP"})
Enter ==
  /\ flags \intersect {"ANSWER", "WAIT_PARAMETER"} # {}
  /\ \E v \in 0 .. MaxAnswer : AnswerQuestion(v)
Quit == flags = {} /\ pc' = "exit" /\ UNCHANGED <<path, node, pos, attr, flags, op, step, asked, par, last>>

Key ==
  /\ pc = "key"
  /\ \/ /\ pc' = "task"
        /\ IF "ANY_KEY" \in flags THEN AnyKey
           ELSE IF "RUNNING" \in flags THEN Escape \/ ("ANSWER" \in flags /\ Enter)
           ELSE IF "HELP" \in flags THEN EndHelp
           ELSE IF "WAIT_PARAMETER" \in flags THEN Escape \/ Enter
           ELSE KeyWhenMenu
     \/ pc' = "task" /\ UNCHANGED <<path, node, pos, attr, flags, op, step, asked, par, last>>
     \/ Quit
  /\ UNCHANGED <<boot, driver, dev, mine, relock, orphan, unasked>>

-----------------------------------------------------------------------------
(* The tasks.  Each says what it returns and what it changes.              *)
Returns(r) ==
  /\ last' = r
  /\ CASE r = "CLOSE_MENU" -> pc' = "exit" /\ flags' = flags \union {"CLOSE"} /\ UNCHANGED step
       [] r = "WAIT_ANSWER" -> pc' = "close" /\ flags' = flags \union {"ANSWER"} /\ step' = step + 1
       [] OTHER -> pc' = "close" /\ flags' = flags \union {"CLOSE"} /\ UNCHANGED step

Nothing == UNCHANGED <<attr, driver, dev, mine, relock, orphan>>

(* ioctl_get_driver_version, or any command of the tool to the KW driver's node *)
Responds == IF driver = "kw" THEN BOOLEAN ELSE {FALSE}

(* Mutant: the menus are swapped only after a replacement that passed.     *)
MenusAfterPassedReplace(new, passed) ==
  IF passed THEN RootSwap(LockEnable(attr, TRUE), {}) ELSE attr

(* The menus after a replacement, passed or not: only the KW driver takes  *)
(* commands, and only a locked device, so admin and io close.              *)
MenusAfterReplace(new, passed) ==
  RootSwap(IF passed THEN LockEnable(attr, TRUE) ELSE attr, IF new = "kw" THEN {} ELSE {"tool"})

(* driver_system_call, OP_DRIVER_REPLACE.  rmmod may fail, and then a      *)
(* driver of the same name is not installed a second time; the KW driver   *)
(* and the standard one are both called nvme, dnvme stands beside them.    *)
DriverReplace ==
  /\ op = "REPLACE"
  /\ IF par[1] > 2 THEN Returns("ILLEGAL") /\ Nothing
     ELSE \E removed \in BOOLEAN, installed \in BOOLEAN, answers \in BOOLEAN :
       LET new == <<"kw", "dnvme", "standard">>[par[1] + 1]
           base == IF removed THEN "none" ELSE driver
           fresh == installed /\ new # "dnvme" /\ base = "none"
           passed == CASE new = "kw" -> fresh /\ answers [] OTHER -> installed
       IN /\ driver' = IF fresh THEN new ELSE base
          /\ dev' = IF removed THEN "free" ELSE dev
          /\ mine' = (mine /\ ~removed)
          /\ attr' = MenusAfterReplace(new, new = "kw" /\ passed)
          /\ Returns(IF new = "standard" THEN "DO_NOTHING" ELSE IF passed THEN "PASS" ELSE "FAIL")
          /\ UNCHANGED <<relock, orphan>>

(* task_driver_basic, the other operations *)
DriverLook ==
  /\ op \in Driver \ {"REPLACE"}
  /\ IF op = "VERSION" THEN \E ok \in Responds : Returns(IF ok THEN "PASS" ELSE "FAIL")
     ELSE Returns("DO_NOTHING")
  /\ Nothing

(* task_ioctl_basic asks the driver first. *)
IoctlRefused == op \in Ioctl /\ Returns("CANCEL") /\ Nothing

(* ioctl_read_nvme_ctrl_reg and ioctl_scan_pci_device only show what the   *)
(* driver answers.                                                         *)
Looked == (\E r \in {"PASS", "FAIL"} : Returns(r)) /\ Nothing
ReadCtrlReg == op = "GET_CR" /\ driver = "kw" /\ Looked
ScanPciDevice == op = "SCAN" /\ driver = "kw" /\ Looked

(* The menus after a lock: no second one, and the commands the device is   *)
(* ready for.                                                              *)
MenusAfterLock(init) ==
  LET closed == LockEnable(attr, FALSE) IN
  IF init THEN AdminSwap(RootSwap(closed, {"admin", "io"}), "STANDARD")
  ELSE AdminSwap(RootSwap(closed, {"admin"}), "QUEUE_INIT")

(* ioctl_lock_pci_device *)
LockPciDevice(init) ==
  /\ relock' = (relock \/ (mine /\ Menu = "ioctl"))
  /\ \/ /\ dev = "free"
        /\ dev' = IF init THEN "ready" ELSE "mapped"
        /\ attr' = MenusAfterLock(init) /\ mine' = TRUE
        /\ Returns("PASS")
     \/ UNCHANGED <<attr, dev, mine>> /\ Returns("FAIL")
  /\ UNCHANGED <<driver, orphan>>

Lock == op = "LOCK" /\ driver = "kw" /\ LockPciDevice(par[4] # 0)

(* ioctl_auto_lock_first: a failing scan is taken for a list (the status   *)
(* it tests is never negative), which is searched beyond its end: the      *)
(* program may end there.                                                  *)
AutoLock ==
  /\ op = "AUTO_LOCK" /\ driver = "kw"
  /\ \/ LockPciDevice(par[3] # 0)
     \/ Returns("FAIL") /\ Nothing
     \/ pc' = "exit" /\ Nothing /\ UNCHANGED <<last, flags, step>>

(* admin_queue_config *)
QueueConfig ==
  /\ op = "CONFIG_QUEUE"
  /\ orphan' = (orphan \/ driver # "kw" \/ dev # "mapped")
  /\ \/ /\ driver = "kw" /\ dev = "mapped"
        /\ dev' = "queues" /\ attr' = AdminSwap(attr, "ALL") /\ Returns("PASS")
     \/ Returns("FAIL") /\ UNCHANGED <<attr, dev>>
  /\ UNCHANGED <<driver, mine, relock>>

(* The admin commands. *)
AdminCommand(o) ==
  /\ op \in o
  /\ orphan' = (orphan \/ driver # "kw" \/ dev \notin {"queues", "ready"})
  /\ \E r \in {"PASS", "FAIL"} : Returns(r)
  /\ UNCHANGED <<attr, driver, dev, mine, relock>>

GetLogPage == AdminCommand({"GET_LOG"})
FirmwareActivate == AdminCommand({"FW_ACTIVATE"})
FirmwareDownload == AdminCommand({"FW_DOWNLOAD"})
Abort == AdminCommand({"ABORT"})
Feature == AdminCommand({"GET_FEATURE", "SET_FEATURE"})
Identify ==
  IF op = "IDENTIFY" /\ par[2] > 1 THEN Returns("ILLEGAL") /\ Nothing
  ELSE AdminCommand({"IDENTIFY"})
CreateDeleteQueue ==   \* only where the driver has not made them
  /\ op \in {"CREATE_SQ", "CREATE_CQ", "DELETE_SQ", "DELETE_CQ"}
  /\ orphan' = (orphan \/ driver # "kw" \/ dev # "queues")
  /\ \E r \in {"PASS", "FAIL"} : Returns(r)
  /\ UNCHANGED <<attr, driver, dev, mine, relock>>

(* submis_flush and submis_wrc *)
SubmisCommand ==
  /\ orphan' = (orphan \/ driver # "kw" \/ dev # "ready")
  /\ \E r \in {"PASS", "FAIL"} : Returns(r)
  /\ UNCHANGED <<attr, driver, dev, mine, relock>>
SubmisFlush == op = "FLUSH" /\ SubmisCommand
SubmisWrc ==
  /\ op \in Submis \ {"FLUSH"}
  /\ IF par[3] = 0 THEN Returns("ILLEGAL") /\ Nothing ELSE SubmisCommand

(* compliance_test and iometer_test start other programs. *)
Compliance == op = "COMPLIANCE" /\ (\E r \in {"DO_NOTHING", "FAIL"} : Returns(r)) /\ Nothing
Iometer == op = "IOMETER" /\ Returns("DO_NOTHING") /\ Nothing

(* system_operate *)
SystemOperate ==
  /\ op \in {"EXIT", "COMMAND"}
  /\ Returns(IF op = "EXIT" THEN "CLOSE_MENU" ELSE IF step = 0 THEN "WAIT_ANSWER" ELSE "PASS")
  /\ Nothing

Runs == "RUNNING" \in flags /\ flags \intersect {"CLOSE", "ANSWER"} = {}

Task ==
  /\ pc = "task"
  /\ IF Runs
     THEN /\ \/ DriverReplace \/ DriverLook
             \/ IoctlRefused \/ ReadCtrlReg \/ ScanPciDevice \/ Lock \/ AutoLock
             \/ QueueConfig \/ GetLogPage \/ FirmwareActivate \/ FirmwareDownload \/ Abort
             \/ Feature \/ Identify \/ CreateDeleteQueue
             \/ SubmisFlush \/ SubmisWrc \/ Compliance \/ Iometer \/ SystemOperate
          /\ unasked' = (unasked \/ Len(par) < Reads(op))
     ELSE pc' = "close" /\ Nothing /\ UNCHANGED <<flags, step, last, unasked>>
  /\ UNCHANGED <<path, node, pos, op, asked, par, boot>>

-----------------------------------------------------------------------------
(* The end of menu_main_routine.  A loop of menu_direct_task ends with its *)
(* task; the loop of main does not.                                        *)
Close ==
  /\ pc = "close"
  /\ IF "CLOSE" \in flags
     THEN /\ flags' = {"ANY_KEY"}
          /\ op' = "none" /\ step' = 0 /\ asked' = 0 /\ par' = <<>>
          /\ pc' = "boot"
     ELSE pc' = "key" /\ UNCHANGED <<flags, op, step, asked, par>>
  /\ UNCHANGED <<path, node, pos, attr, last, boot, driver, dev, mine, relock, orphan, unasked>>

(* The arguments of main *)
Boot ==
  /\ pc = "boot"
  /\ IF boot = <<>> THEN pc' = "key" /\ UNCHANGED <<boot, path, node, pos, attr, flags, op, step, asked, par, last>>
     ELSE /\ boot' = Tail(boot)
          /\ IF Head(boot).ifPass /\ last # "PASS"
             THEN pc' = "boot" /\ UNCHANGED <<path, node, pos, attr, flags, op, step, asked, par, last>>
             ELSE pc' = "key" /\ DirectTask(Head(boot).op, Head(boot).par)
  /\ UNCHANGED <<driver, dev, mine, relock, orphan, unasked>>

Done == pc = "exit" /\ UNCHANGED vars

Next == Boot \/ Key \/ Task \/ Close \/ Done

Spec == Init /\ [][Next]_vars /\ WF_vars(Boot \/ Key \/ Task \/ Close)

-----------------------------------------------------------------------------
(* A task that runs finds what it needs.  An admin or I/O command is only  *)
(* run when the KW driver is loaded and this program has brought the       *)
(* device to where it takes the command, and what the program has locked   *)
(* is not locked again ("one time exectuable", ioctl_basic.c:245): every   *)
(* replacement, lock and queue configuration swaps the menus, and no path  *)
(* through them leaves a stale one open (menu_system.c:43).  And a task    *)
(* only reads parameters that were asked for or given with the call: the   *)
(* counts in the init functions, the tasks and arg_decode agree.           *)
TasksFindWhatTheyNeed == ~orphan /\ ~relock /\ ~unasked
=============================================================================
