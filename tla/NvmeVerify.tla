----------------------------- MODULE NvmeVerify -----------------------------
(***************************************************************************)
(* The window of nvme_verify and its device: what FormApp's buttons and    *)
(* actions do (form_app.cpp), the state NVMeDevice keeps of the device and *)
(* the operations it issues (nvme_device.cpp) by ioctls (nvme_ioctrl.cpp,  *)
(* io_ctrl.cpp).  The window's thread runs one handler at a time; that of  *)
(* btnAutoCfgScript clicks other buttons in turn.  The march, sweep and    *)
(* w1r1c1 tests are in WrcDialog.  The driver and the device are outside.  *)
(***************************************************************************)
EXTENDS Integers, FiniteSets

CONSTANT Namespaces  \* the namespaces of the device, model values

VARIABLES
  flags,      \* attributes.flags: "locked", "aq_configured", "sq_resourced", "identified"
  geometry,   \* attributes.lbaSize and .maxLBA: a namespace's, "none" or "filler"
  enabled,    \* of the widgets "admin", "nvme", "tools" (tabs) and "config" (a button)
  driverVer,  \* a version of the driver is known
  errnoSet,   \* errno is not 0 in this thread
  storeDS,    \* chkBoxStoreDS
  files,      \* the structures that were stored: "controller", "namespace"
  script,     \* the click of btnAutoCfgScript that is next, or "idle"
  nvmeTest,   \* radioBtnNVMeTest: the test the script configures
  driver,     \* outside: "none", "verify" or "standard" is loaded
  dev,        \* outside: the verify driver's device: "free", "mapped", "queues", "ready"
  hand,       \* ghost: tabs that actionEnTestTools opened
  shown,      \* ghost: the tab the script has ended with
  overruled   \* ghost: a queue command reached a device with the driver's own I/O queues

attributes == <<flags, geometry>>
form == <<enabled, driverVer, storeDS, files>>
outside == <<driver, dev>>
vars == <<attributes, form, errnoSet, script, nvmeTest, outside, hand, shown, overruled>>

State == CASE "sq_resourced" \in flags -> "NVM"
           [] "aq_configured" \in flags /\ "sq_resourced" \notin flags -> "Admin"
           [] "locked" \in flags /\ flags \intersect {"aq_configured", "sq_resourced"} = {} -> "Locked"
           [] OTHER -> "None"

(* on_device_state_change and on_ns_arrtibute_change: what they enable. *)
StateChanged(w, f) == IF "aq_configured" \in f THEN (w \union {"admin"}) \ {"config"}
                      ELSE (w \union {"config"}) \ {"admin"}
NsChanged(w, f) == IF {"identified", "sq_resourced"} \subseteq f THEN w \union {"nvme"} ELSE w \ {"nvme"}

Init ==
  /\ flags = {} /\ geometry = "none"
  /\ enabled = NsChanged(StateChanged({}, {}), {})
  /\ driverVer = FALSE /\ errnoSet \in BOOLEAN
  /\ storeDS = FALSE /\ files = {}
  /\ script = "idle" /\ nvmeTest = TRUE
  /\ driver \in {"none", "verify", "standard"} /\ dev \in {"free", "mapped", "queues", "ready"}
  /\ driver # "verify" => dev = "free"
  /\ hand = {} /\ shown = "none" /\ overruled = FALSE

-----------------------------------------------------------------------------
(* The ioctls.  "done" is 0, "error" is -1 with errno, and "refused" is    *)
(* the positive status of the device.                                      *)
Answers(request) ==
  LET maybe(can) == IF can THEN {"done", "error"} ELSE {"error"} IN
  CASE request = "version"  -> maybe(driver = "verify")
    [] request = "scan"     -> maybe(driver = "verify")
    [] request = "lock"     -> maybe(driver = "verify" /\ dev = "free")
    [] request = "config"   -> maybe(driver = "verify" /\ dev = "mapped")
    [] request = "register" -> maybe(driver = "verify" /\ dev # "free")
    [] request = "admin"    -> IF driver = "standard" \/ dev \in {"queues", "ready"}
                               THEN {"done", "refused", "error"} ELSE {"error"}
    [] request = "submis"   -> IF driver = "standard" \/ dev = "ready"
                               THEN {"done", "refused", "error"} ELSE {"error"}

(* IOCtrl::pass_through: whatever is not 0 becomes -errno, a status of the *)
(* device too.                                                             *)
Passed(answer) == answer = "done" \/ (answer = "refused" /\ ~errnoSet)

(* nvme_pass_through *)
PassThrough(answer) == errnoSet' = (errnoSet \/ answer = "error")

(* opGetDriverVersion, opScanPCIDeviceList, opReadCtrlRegister *)
GetDriverVersion ==
  \E a \in Answers("version") :
    /\ PassThrough(a) /\ driverVer' = (driverVer \/ Passed(a))
    /\ UNCHANGED <<attributes, enabled, storeDS, files, outside, hand, overruled>>

ScanPciDevList ==
  \E a \in Answers("scan") :
    PassThrough(a) /\ UNCHANGED <<attributes, form, outside, hand, overruled>>

ReadCtrlRegister ==
  \E a \in Answers("register") :
    PassThrough(a) /\ UNCHANGED <<attributes, form, outside, hand, overruled>>

(* lock_pci_device *)
LockPciDevice(init, passed) ==
  \E a \in Answers("lock") :
    /\ PassThrough(a) /\ passed = Passed(a)
    /\ dev' = IF a = "done" THEN IF init THEN "ready" ELSE "mapped" ELSE dev

(* auto_lock_first: without an NVMe device in the list the result is the   *)
(* scan's.                                                                 *)
AutoLockFirst(init, passed) ==
  \E a \in Answers("scan") :
    \/ a = "error" /\ ~passed /\ PassThrough(a) /\ UNCHANGED dev
    \/ a = "done" /\ passed /\ PassThrough(a) /\ UNCHANGED dev
    \/ a = "done" /\ LockPciDevice(init, passed)

(* operator<<, opLockPCIDevice and opLockFirstNVMe *)
Lock(first, init) ==
  \E passed \in BOOLEAN :
    /\ IF first THEN AutoLockFirst(init, passed) ELSE LockPciDevice(init, passed)
    /\ LET f == IF ~passed THEN flags
                ELSE flags \union {"locked"} \union (IF init THEN {"aq_configured", "sq_resourced"} ELSE {})
       IN /\ flags' = f
          /\ enabled' = IF passed THEN StateChanged(enabled, f) ELSE enabled
          /\ hand' = IF passed THEN hand \ {"admin"} ELSE hand
    /\ UNCHANGED <<geometry, driverVer, storeDS, files, driver, overruled>>

(* config_admin_queue of NVMeIOCtrl *)
ConfigIoctl(passed) ==
  \E a \in Answers("config") :
    PassThrough(a) /\ passed = Passed(a) /\ dev' = IF a = "done" THEN "queues" ELSE dev

(* opConfigAdminQueue *)
ConfigAdminQueue ==
  /\ \E passed \in BOOLEAN :
       /\ ConfigIoctl(passed)
       /\ IF passed
          THEN /\ flags' = flags \union {"aq_configured"}
               /\ enabled' = StateChanged(enabled, flags') /\ hand' = hand \ {"admin"}
          ELSE UNCHANGED <<flags, enabled, hand>>
  /\ UNCHANGED <<geometry, driverVer, storeDS, files, driver, overruled>>

-----------------------------------------------------------------------------
(* The admin commands. *)
AdminPassThrough ==
  (\E a \in Answers("admin") : PassThrough(a)) /\ UNCHANGED <<attributes, form, outside, hand, overruled>>

GetLogPage == AdminPassThrough
Abort == AdminPassThrough

(* admin_feature: some features it does not set. *)
Feature == AdminPassThrough \/ UNCHANGED <<attributes, form, errnoSet, outside, hand, overruled>>

(* ds_decode of either structure stores it if the box is checked, once. *)
DecodeController ==
  files' = (IF storeDS THEN files \union {"controller"} ELSE files) /\ storeDS' = FALSE
DecodeNamespace ==
  files' = (IF storeDS THEN files \union {"namespace"} ELSE files) /\ storeDS' = FALSE

(* admin_identify, cns 0 for a namespace; the buffer is filled before. *)
Identify(nsid, cns) ==
  /\ \E a \in Answers("admin") :
       /\ PassThrough(a)
       /\ IF ~Passed(a) THEN UNCHANGED <<flags, geometry, enabled, hand, storeDS, files>>
          ELSE IF cns = 0
          THEN /\ DecodeNamespace
               /\ flags' = flags \union {"identified"}
               /\ geometry' = IF a = "done" THEN nsid ELSE "filler"
               /\ enabled' = NsChanged(enabled, flags') /\ hand' = hand \ {"nvme"}
          ELSE DecodeController /\ UNCHANGED <<flags, geometry, enabled, hand>>
  /\ UNCHANGED <<driverVer, outside, overruled>>

(* admin_creat_delete_q: the memory page size is read from the device. *)
CreateDeleteQueue ==
  /\ \E r \in Answers("register"), a \in Answers("admin") :
       IF Passed(r) THEN PassThrough(a) /\ overruled' = (overruled \/ dev = "ready")
       ELSE PassThrough(r) /\ UNCHANGED overruled
  /\ UNCHANGED <<attributes, form, outside, hand>>

(* _issue_admin_cmd *)
IssueAdminCmd(op, nsid, cns) ==
  CASE op = "queue" -> IF State = "Admin" THEN CreateDeleteQueue
                       ELSE UNCHANGED <<attributes, form, errnoSet, outside, hand, overruled>>
    [] op = "feature" -> Feature
    [] op = "identify" -> Identify(nsid, cns)
    [] op = "abort" -> Abort
    [] op = "log" -> GetLogPage
    [] OTHER -> UNCHANGED <<attributes, form, errnoSet, outside, hand, overruled>>

(* submis_wrc and submis_flush *)
SubmisWrc == (\E a \in Answers("submis") : PassThrough(a)) /\ UNCHANGED <<attributes, form, outside, hand, overruled>>
SubmisFlush == SubmisWrc

(* _issue_submis_cmd, for the radio buttons of the tab; none of them may be checked. *)
IssueSubmisCmd ==
  \/ SubmisWrc \/ SubmisFlush
  \/ UNCHANGED <<attributes, form, errnoSet, outside, hand, overruled>>

-----------------------------------------------------------------------------
(* Mutant: the device is cleared, the namespace's tab is not.              *)
ClearHalf(tools) ==
  /\ flags' = {} /\ geometry' = "none" /\ hand' = hand \ {"admin", "tools"}
  /\ enabled' = (StateChanged(enabled, {}) \ {"tools"}) \union tools

(* Mutant: what is known of the old driver's device is kept.               *)
ClearNothing(tools) ==
  UNCHANGED <<flags, geometry, hand>> /\ enabled' = (enabled \ {"tools"}) \union tools

(* NVMeDevice::clear *)
Clear(tools) ==
  /\ flags' = {} /\ geometry' = "none" /\ hand' = {}
  /\ enabled' = (NsChanged(StateChanged(enabled, {}), {}) \ {"tools"}) \union tools

(* remove_driver: rmmod may fail, the device is cleared all the same. *)
RemoveDriver(removed, tools) == Clear(tools) /\ dev' = IF removed THEN "free" ELSE dev

(* btnReplaceDriver.  insmod does not replace a driver of the same name,   *)
(* modprobe is content with it; the compliance driver stands beside them.  *)
ReplaceDriver(new) ==
  /\ \E removed \in BOOLEAN, installs \in BOOLEAN :
       LET base == IF removed THEN "none" ELSE driver IN
       /\ RemoveDriver(removed, IF new = "standard" /\ installs THEN {"tools"} ELSE {})
       /\ driver' = IF installs /\ base = "none" /\ new \in {"verify", "standard"} THEN new ELSE base
  /\ errnoSet' \in {errnoSet, TRUE}
  /\ UNCHANGED <<driverVer, storeDS, files, overruled>>

(* btnNVMCmdExecute: the pattern of a write is checked before. *)
NVMCmdExecute ==
  \/ IssueSubmisCmd
  \/ UNCHANGED <<attributes, form, errnoSet, outside, hand, overruled>>

Ops == {"queue", "feature", "identify", "abort", "log", "other"}

(* btnAdminCmdExecute; only identify has parameters that matter here. *)
AdminCmdExecute(op) ==
  IF op = "identify" THEN \E nsid \in Namespaces, cns \in 0 .. 1 : IssueAdminCmd(op, nsid, cns)
  ELSE \E nsid \in Namespaces : IssueAdminCmd(op, nsid, 0)

-----------------------------------------------------------------------------
(* btnAutoCfgScript, click by click *)
ScriptStart ==
  /\ script = "idle" /\ script' = "replace" /\ nvmeTest' \in BOOLEAN /\ shown' = "none"
  /\ UNCHANGED <<attributes, form, errnoSet, outside, hand, overruled>>

ScriptReplace == script = "replace" /\ ReplaceDriver("verify") /\ script' = "version" /\ UNCHANGED shown

ScriptVersion ==
  script = "version" /\ GetDriverVersion /\ script' = (IF driverVer' THEN "lock" ELSE "idle") /\ UNCHANGED shown

ScriptLock ==
  /\ script = "lock" /\ Lock(TRUE, nvmeTest)
  /\ script' = (IF "locked" \in flags' THEN "config" ELSE "idle") /\ UNCHANGED shown

ScriptConfig ==   \* a click on a disabled button does nothing
  /\ script = "config"
  /\ IF "config" \in enabled THEN ConfigAdminQueue
     ELSE UNCHANGED <<attributes, form, errnoSet, outside, hand, overruled>>
  /\ script' = IF "aq_configured" \in flags' /\ nvmeTest THEN "identify" ELSE "idle"
  /\ shown' = IF "aq_configured" \in flags' /\ ~nvmeTest THEN "admin" ELSE shown

ScriptIdentify ==
  /\ script = "identify" /\ script' = "idle"
  /\ IF "admin" \in enabled THEN AdminCmdExecute("identify")
     ELSE UNCHANGED <<attributes, form, errnoSet, outside, hand, overruled>>
  /\ shown' = IF "identified" \in flags' THEN "nvme" ELSE shown

Script == (ScriptReplace \/ ScriptVersion \/ ScriptLock \/ ScriptConfig \/ ScriptIdentify) /\ UNCHANGED nvmeTest

(* on_btn_click, the buttons that do something with the device *)
Click ==
  \/ \E new \in {"verify", "compliance", "standard", "none"} : ReplaceDriver(new)
  \/ GetDriverVersion \/ ScanPciDevList \/ ReadCtrlRegister
  \/ \E first \in BOOLEAN, init \in BOOLEAN : Lock(first, init)
  \/ "config" \in enabled /\ ConfigAdminQueue
  \/ "admin" \in enabled /\ \E op \in Ops : AdminCmdExecute(op)
  \/ "nvme" \in enabled /\ NVMCmdExecute

(* on_action_trigger: actionReScanPCI takes a device away and looks for it *)
(* again, actionEnTestTools identifies and opens the tabs, whatever comes  *)
(* of it, and the stored structures are shown.                             *)
RescanPCI ==
  /\ dev' \in {dev, "free"} /\ errnoSet' \in {errnoSet, TRUE}
  /\ UNCHANGED <<attributes, form, driver, hand, overruled>>

EnTestTools ==
  /\ \E a \in Answers("admin"), nsid \in Namespaces :
       /\ PassThrough(a)
       /\ IF Passed(a) THEN /\ flags' = flags \union {"identified"}
                            /\ geometry' = IF a = "done" THEN nsid ELSE "filler"
                            /\ DecodeNamespace
          ELSE UNCHANGED <<attributes, storeDS, files>>
  /\ enabled' = enabled \union {"tools", "nvme", "admin"}
  /\ hand' = {"tools", "nvme", "admin"}
  /\ UNCHANGED <<driverVer, outside, overruled>>

ShowStored == storeDS' = FALSE /\ UNCHANGED <<attributes, enabled, driverVer, files, errnoSet, outside, hand, overruled>>

CheckStore == storeDS' = ~storeDS /\ UNCHANGED <<attributes, enabled, driverVer, files, errnoSet, outside, hand, overruled>>

Trigger == RescanPCI \/ EnTestTools \/ ShowStored \/ CheckStore

Next ==
  \/ ScriptStart
  \/ Script
  \/ script = "idle" /\ (Click \/ Trigger) /\ shown' = "none" /\ UNCHANGED <<script, nvmeTest>>

Spec == Init /\ [][Next]_vars

-----------------------------------------------------------------------------
TypeOK ==
  /\ flags \subseteq {"locked", "aq_configured", "sq_resourced", "identified"}
  /\ geometry \in Namespaces \union {"none", "filler"}
  /\ enabled \subseteq {"admin", "nvme", "tools", "config"} /\ hand \subseteq enabled
  /\ dev \in {"free", "mapped", "queues", "ready"} /\ (driver # "verify" => dev = "free")

(* The script only shows a tab for which the driver loaded now has a       *)
(* device that takes admin commands, although a driver that did not leave  *)
(* keeps its device, a version may be an old driver's and a list without   *)
(* an NVMe device counts as a lock (form_app.cpp:396).                     *)
ScriptEndsReady ==
  shown # "none" /\ errnoSet =>
    driver = "verify" /\ dev \in {"queues", "ready"} /\ (shown = "nvme" => geometry \in Namespaces)

(* What the window lets the user do fits the device.  The tab with the I/O *)
(* commands and the data tests, whose buffers have the size of geometry,   *)
(* is open only for a namespace that was identified since the driver was   *)
(* replaced, unless actionEnTestTools opened it (form_app.cpp:939); and no *)
(* queue is created or deleted under the driver's own I/O queues (the      *)
(* message at nvme_device.cpp:511), whatever failed on the way.            *)
OfferedFitsDevice ==
  /\ "nvme" \in enabled \ hand => {"identified", "sq_resourced"} \subseteq flags /\ geometry # "none"
  /\ ~overruled
=============================================================================
