# Formal model of the NVMe test tools in linux_cpp_project

The repository holds a C++ library (`src/cppProj/library`), a command line tool
(`nvme_ctrl_rw`), Qt tools (`qt/nvme_verify`, `qt/ngd_app`), a C menu tool
(`kw_ioctl`) and a patched kernel driver (`src/kw_debug`).  It has no manual and
no tests; comments and the command line's help texts are its documentation.
This directory models the parts that decide whether a *test of a disk* can be
trusted: which blocks are written, read and compared by which of many concurrent
commands, what is reported afterwards, whether the tools' windows and menus fit
the device they drive, and whether the driver under them keeps commands, answers,
controllers and namespaces apart.

## 1. Inventory

| Component | State | Operations | Talks to |
|---|---|---|---|
| **I/O extension engine** `library/src/disk_ioex.cpp`, `library/NVMe/nvme_ioex*.cpp` | list of plans (slice, blocks left, ping-pong flag, request), shared cursor, status code, failing block, progress | `issue` makes the plans, `routine`/`_run` poll and advance them, `cancel` | AIO (calls, polled completions), the task classes (virtual functions) |
| **Task classes** `library/NVMe/legacy`, `.../sequence` | one or two buffers per plan | prepare a buffer, pre-fill the next, compare | the engine |
| **I/O extension commands** `nvme_ctrl_rw/fun_ioex.cpp`, `ioex_cmd/` | status, last failing block, debug dump | make a task, run it, delete it, save the dump | the engine |
| **Direct commands and file operations** `nvme_ctrl_rw/fun_action`, `fop_cmd` | none between steps | one ioctl or file operation each | driver |
| **WRC task** `qt/nvme_verify/nvme_task.cpp` | range, step, `currentLBA`, `marchFilled`, `testFail`, buffers | one thread walks the range in steps of write, read, compare; more threads per step | device, dialog (unlocked members, report channel) |
| **WRC dialog** `qt/nvme_verify/form_app.cpp` | the task pointer, the loop counter | start, timer event, cancel (`terminate`), delete, repeat | the task |
| **Device and window of nvme_verify** `nvme_device.cpp`, `nvme_ioctrl.cpp`, `form_app.cpp` | flags locked, configured, resourced, identified; geometry; tabs and buttons | replace the driver, lock, configure, identify, send commands, the start script that clicks the others | driver, device, files of stored structures |
| **Command fields** `spec_dword.cpp`, `spec_field.cpp`, `form_app.cpp` | layout and texts of DWORD10/11, `lastFID` | choose a command, edit a field | the library of layouts; call-backs between the two dwords |
| **System task** `qt/nvme_verify/system_task.cpp` | report channel | run an external program | dialog |
| **Timer controller** `library/src/timer_ctrl.cpp` | 32 slots, milliseconds | SIGALRM handler every 1 ms, main loop dispatch | signal handler and main thread share the slots |
| **Key input** `library/src/key_ctrl.cpp`, `fifo_ctrl.h` | scan code and key FIFOs, ESC decoder | poll, decode, read | timer (2 ms one-shot for a lone ESC) |
| **Thread lockers, report channel** `thread_locker.*`, `report_channel.h` | a flag, a count, a log with two bits | acquire, release, `<<`, `>>` | WRC task, system task, engine |
| **kw_ioctl menus** `menu_ctrl.c`, `*_basic.c`, `test_tools.c` | path of menus, positions, attributes of items, the running task and its answers, the locked device | keys, questions, tasks that replace the driver, lock, configure, create queues, send commands and open or close other menus | driver, device |
| **kw_ioctl line editor** `menu_ctrl.c`, `history_list.cpp` | buffer, cursor, two histories | one key at a time | file of the texts entered |
| **Kernel driver: requests** `kw_debug/ref/pci.c`, `ken_debug.c` | what hangs on a tag: mapping, list pages, PRP entries, retries, the errors asked for | `nvme_queue_rq`, completion, retry | block layer, DMA, device |
| **Kernel driver: queues** `ref/pci.c` | submission and completion rings, doorbells, phase, `cq_vector`, tags, abort and event limits | submit, process, poll, time out, abort, suspend, create | device, block layer's threads and timers |
| **Kernel driver: controller** `ref/pci.c`, `ref/core.c` | controller state, online queues, vectors, stopped queues, references | reset work, `nvme_dev_disable`, shutdown, suspend, resume, remove, watchdog, character device | work queues, PCI core, user |
| **Kernel driver: namespaces** `ref/core.c` | the list, reference counts, dead and removing flags | scan work, add, revalidate, remove, kill queues, open, release | device, reset work |
| **Containers, files, console** rest of `library` | trivial | | |
| **ngd_app** `qt/ngd_app` | the table of controllers, their number of log entries, the saved files | refresh, identify, get feature, get log page over all enabled rows | devices behind their nodes |
| **Tools** | one-shot conversions | | |

What is hard in it:

* *Concurrency.*  Up to 500 requests finish in any order under one polling thread
  (engine); the commands of a step run in threads of their own and the dialog
  reads the worker's members without a lock (WRC); a signal handler shares words
  with the main loop (timer); a controller is taken down by any of four threads
  while the reset work brings it up (driver).
* *Failure.*  Requests fail, are refused or move less than asked for; one fails
  while others fly; a worker is killed by `QThread::terminate`; a device refuses
  or never answers; an allocation in the middle of a list fails.
* *Ordering.*  The legacy fills prepare the next slice while the current one is
  in flight; flags are published in two assignments; a list is walked without
  its lock while others add to it; an answer meets the time-out of its request.
* *Arithmetic.*  Ranges are divided by clipped, 0-based and exclusive counts; PRP
  lists chain over pages; a ring tells new from old by one bit.

`PROJECT.json` lists each hazard at its line with the properties that guard it.

What makes each component correct: the engine must touch every block of its
range once, compare what it says it compared, name the block that failed, and
return; a command must dump what its task found; a WRC task that passes must
have tested all blocks asked for and written no other; the dialog must not
repeat, end or delete a test at the wrong time; no key may be lost or decoded
twice; what is typed is what a task gets; a window or menu may offer only what
the device behind it can do; the device must read the pages of the transfer and
nothing else; an answer belongs to the request it completes; every request and
every reset ends; what is freed is unused; the list of namespaces becomes what
the device has.

## 2. Modules

| Module | Models | Composed of |
|---|---|---|
| `IoPlanMath` | arithmetic of `_io_plan_scheduler`: plans, shares, bounds, in closed form | |
| `IoPlanScheduler` | the function itself, one action per stretch of its loop | `IoPlanMath` |
| `RangeJob` | abstract: blocks go from *todo* to *flying* to *done*; success only when all are done | |
| `IoExEngine` | `DiskIoEx::routine`, `NVMeIoEx::_run`, both families of task classes, AIO underneath | `IoPlanMath`; implements `RangeJob` |
| `IoExCommand` | one `-ioex` command with a debug dump | extends `IoExEngine` |
| `WrcTask` | `NVMeTask`: the worker thread and the threads of a step | |
| `WrcDialog` | `FormApp` around a task: timer, cancel, delete, repeat | extends `WrcTask` |
| `NvmeVerify` | `FormApp`'s buttons and script, `NVMeDevice`, its ioctls | |
| `SpecFields` | the command dwords of the window, laid out by call-backs | |
| `NgdApp` | ngd_app's table of controllers and the buttons that go over all of them | |
| `KeyInput` | `KeyCtrl` and `TimerCtrl` under the alarm's handler | |
| `LineEditor` | abstract: one line with a cursor, entered as what it shows | |
| `KwEditor` | the questions of kw_ioctl: buffers, decimal and hexadecimal keys, histories | implements `LineEditor` |
| `KwMenu` | the menu control of kw_ioctl and its tasks | |
| `NvmeIod` | `nvme_queue_rq`, `nvme_setup_prps`, the injected errors, completion and retry | |
| `NvmeRing` | abstract: a completion ring told apart by phase tags, with a late doorbell | |
| `NvmeQueue` | one queue pair: submission, answers, events, time-outs, aborts, disable and reset, with threads that come late | extends `NvmeRing` |
| `NvmeCtrl` | the reset work, `nvme_dev_disable`, removal, the controller's references | |
| `NvmeScan` | the scan work, its list of namespaces and those who use it | |
| `IoExOthers` | the task classes `IoExFill` does not run, one of them per behaviour | instances of `IoExEngine`, implements `RangeJob` |
| `Components` | eight small components, one of them per behaviour | the scheduler and instances of the small modules above |
| `MC*` | small instances for TLC, section 3; `MCWrcDialog` runs a task by itself or under the dialog | the module they are about |
| `*Proofs` | theorems, section 5 | the module they are about |

### Engine

State and code correspond as follows: `plan` is `planList`, `cursor` the
`__currentLBA/__remainedNlb` of `NVMeIoExSeq`, `aio[i]` the control block of
plan i's current `AsyncRWHandler`, `buffer[i][0..1]` the two halves of its
memory, `idx`, `stop` and `update` the locals of `_run`.  Each action is one
iteration of a loop: `StillRunning`, `IssueNext`, `PreFill`, `PlanExhausted` and
`PlanFailed` are the five ways through the body of the `for` of `_run`; `EndPass`
is what follows it; `CancelPlan` is one turn of `cancel`.  `PreFill` is a step of
its own because the request submitted just before may complete in between.

The task class is chosen by constants: `Kind` (fill, compare, dummy read),
`Sequential` (shared cursor or a part per plan), `Uniform` (const pattern, or one
that depends on the block), `Stamp` (time stamp headers).  A block is a header
and a body, each a number; buffers start with a background pattern.
`AsyncRWHandler`'s request is external: it moves data and finishes at any later
time.  `Faults` selects what may go wrong: an I/O error after some blocks, a
short transfer, a submission refused, a constructor whose ioctls fail.

`SlicesDisjoint` and `InFlightDataRight` are what the code's two tricks must
respect: a shared cursor and ping-pong buffers.  `VerdictSound` ties the report to
the disk.  `RangeJob` says the same without plans or buffers.

### WRC test

The worker's `run()` and `exec()` are split at every access the dialog or a
terminating `terminate()` could fall between: the two assignments of
`stop_task()` (`Settle`, `StopTask`), the two that end the first pass of a march
test (`MarkFilled`, `StartAgain`), `setTerminationEnabled`, and the three steps
of a log line under the report channel's lock (test, set, append and release).
`todo` is the rest of `exec()`'s sequence of operations; `io` the team of threads of
one operation, which act independently and are joined by `JoinTeam`.
Block contents are names: `old`, `fill` (march filling), `test` (the pattern),
`junk` (an uninitialised buffer) and `bad` (spoiled by the device).  With
`"data"` in `Faults` the device drops writes or spoils reads without an error;
with `"io"` commands fail.  The data pattern's own arithmetic (increase,
decrease, toggle) is abstracted to one value: the model asks which blocks were
compared, not with which word.  `nlba` keeps the width of its type, scaled
down to `NlbWord`; so does the sweep's `elba & 0xFFFF`.

`WrcDialog` adds the GUI thread.  `Tick` reads the progress, `Fetch` takes the
report under the lock, `Over` looks at the fail flag: three separate readings of
a running thread.  `Terminate`, `Wait` and `Delete` are `wrc_task_management(false)`;
`Terminated` is what `QThread::terminate` may do at any point where the worker
has not disabled it.

### The window of nvme_verify

`NvmeVerify` has one action per button, menu action and step of the start script;
the window's thread runs one at a time, so a handler is one step.  `flags` and
`geometry` are the device's attributes, `enabled` the tabs and buttons
`on_device_state_change` and `on_ns_arrtibute_change` switch, `errnoSet` the one thing
`io_ctrl.cpp` keeps from an earlier call: it turns a positive status of the
device into `-errno`.  Driver and device are outside; each call is answered by any
outcome they can have (`Answers`), and a driver that does not leave keeps its
device.

`SpecFields` keeps, per dword, the tag of its layout and the text of each frame.
Laying out DWORD10 writes its texts one after the other (`Scheme10`), and each that
changes calls `on_text_change`, which may lay out DWORD11 in the middle
(`OnTextChange`); the folds in the module are those loops.

### The window of ngd_app

`NgdApp` takes one step per row of a click, as the loops of `on_btn_click` do; between
two steps nodes may go and devices fail.  `buffer` is the one structure all rows of
an identify click share; the other buttons have one per row, whose size in dwords
`OwnBuffer` compares with what the command asks for (`LogDwords`, `LrtDwords`).  The boxes
are read at each row, so `Skip` and `Save` decide there.

### Keys, menus and answers

`KeyInput` splits the loop of the console programs where the handler of the 1 ms
alarm (`Tick`) can make a difference: `decSlot |=` is `ArmSlot` and `ArmSet`, a read
and a write.  A key is the sequence of bytes it sends.  `due` remembers the keys
pressed and not yet popped.

`KwMenu` splits an iteration of the menu into key, task and close.  A question is
answered by a number; the tasks are named after their operations and grouped by
the file that has them.  Display-only tables have no state.  Attributes of items
(enabled, hidden), the flags of the control and the answers kept for the next task
are as in the code; `mine`, `relock` and `orphan` are ghosts for the properties.

`KwEditor` is the editor of one question after the other.  The number a task gets
is computed as the code does, a sum of digits with a unit of 16 bits; `LineEditor`
computes it from the line shown and promises it for decimal numbers of up to five
digits: from the sixth on the unit has wrapped (section 4), and the number may be any.

### Kernel driver

`src/kw_debug/ref` is the driver the tools are used with: a copy of the kernel's
NVMe driver with the error injection of `ken_debug.c` built in.  Its own code is modelled;
the block layer, the work queues, the PCI core, the DMA layer and the device are
external.

`NvmeIod` follows one tag through `nvme_queue_rq`: each allocation that may fail is a
step, `list` and `mem` are the pages of PRP entries, `prp` the locals of
`nvme_setup_prps`.  A transfer is known by its length, its offset and the pages at which its
segments begin; an address is a segment and a unit in it.  What is left of a request when the
tag is used again stays.

`NvmeRing` is the memory two sides share: `cqes`, the host's `cqHead`/`cqPhase`, the
doorbell `cqDb` it rings only after a scan, and the device's own position.  `synced` says that
host and device count from the same start of the queue.
`NvmeQueue` adds everything else of a queue pair.  `rq` is the request of a tag with
the generation of its use, `inQueueRq` the threads of `nvme_queue_rq` that have started a request and
do not have the queue's lock yet, `eventHeld` the same of `nvme_async_event_work`; `work` is
`nvme_reset_work`, `down` and `holder` the thread in `nvme_dev_disable`, `timer` a time-out handler that
waits for that or comes out of it.  `Qids` has the admin queue and an I/O queue, which
differ in how they are stopped and in the event requests.  No thread waits for another
unless the code does: a thread of `nvme_queue_rq` on the admin queue, the event work, a poller and a
time-out handler may go on in the middle of a disable or of the next start.  The ghost `astray`
records the few such steps that break the correspondence of commands and requests (section 4);
every other step of a late thread is under the property.

`NvmeCtrl` has the controller: `work` is the reset work with the admin command it waits
for, `dis[t]` the place of thread t in `nvme_dev_disable` (reset work, time-out,
system, removal), `lock` is `shutdown_lock`, `rem` `nvme_remove`, `removeWork` the work that
removes a dead controller, `kref` its references.  `fresh` is a ghost: the reset
work found everything down and nobody took the controller down since.  `requeued` is another:
somebody asked for a reset after `nvme_remove` had flushed the reset work (`pci.c:2021`), which nothing
prevents.

`NvmeScan` has the list of namespaces as it is in memory, sorted only at the end of a
scan, and the walks over it; an entry that was taken off the list leads to itself.  `remover` is
`nvme_remove_namespaces`, called by a reset work that found no I/O queue (`work = "emptying"`),
beside whatever scan may run, and by `nvme_uninit_ctrl`.  `queues` tells whether there are I/O
queues; only then a reset queues a scan.  `steady` is a ghost: nothing disturbed the scan so far.

## 3. Runs

Bounds are constants of the cfg files or definitions of the MC modules.  Times are
with two workers and coverage.

| Run | Instance | Shows | Time |
|---|---|---|---|
| `IoExFill` | legacy fill with a debug dump, 13 blocks, 3 plans, 2-block buffers, failing requests and constructors, then deletion | slices disjoint, buffers right while in flight, what success leaves, what the dump says, what late requests may do, refinement of `RangeJob`.  Several slices per plan and a short last one, so both buffers are reused | 1 min |
| `IoExOthers` | sequential fill with all faults, compare over all disks with wrong headers or bodies, dummy read; 7 blocks in 4 slices, 2 plans | each implements `RangeJob`; the verdict is right, cancel meets only assigned handlers, `routine()` returns | 0.5 min |
| `WrcDialog` | w1r1c1, march and sweep tests by themselves on 5 blocks, ranges good, inverted and too long, steps above the width of `nlba`, teams of 1 to 4; and tests of 3 blocks in 2 steps under the dialog, infinite loop, cancel at any time | the threads' slices tile a step, a passed test tested all blocks even on a lying device, wrote no other, a sweep uses each length, the worker ends; no command outlives its task, a repeated w1r1c1 test had been completed, every test ends but for one precisely named case | 2.5 min |
| `NvmeQueue` | queue pair of 3 slots, admin and I/O, one retry, one abort, 3 submissions and resets together | phase tags tell the truth, answers and requests match, no command is lost, what was sent ends | 3 min |
| `NvmeCtrl` | 2 I/O queues, 2 events from outside | live means answering, a command is held back only after a disturbance, freed means unused, reset and removal end | 2.5 min |
| `NvmeScan` | 3 namespace numbers in lists of 2, 4 allocations, 2 changes (of the device, rescans, resets, removals), 1 failing command, 1 namespace open at a time | list equals device, references count, nothing is left or comes back after `nvme_uninit_ctrl`, changes arrive | 2 min |
| `Components` | eight small instances, see below | | 2.5 min |
| `IoExRefused`, `WrcCancelStuck`, `WrcFailLost`, `NvmeRefusedCreate`, `NvmeScanOverlap` | smallest instances | violated; see section 4 | |

`IoExOthers` and `Components` put instances that do not interact into one specification:
`part` says which of them a behaviour is about, the others stay in an initial
state, so the run's states are the union and not the product; `WrcDialog` does so with a task
by itself (`Alone`) and the dialog.  In `NvmeQueue` three submissions and resets are enough for a request to
meet a late answer, a late thread or a late event request across a disable and a restart: of the
five acts `astray` names four are needed for the property within this bound.  The safety properties were also
checked with four (`MaxAsked` = 4, 15.5 million states), which is too long to keep as a run.
In `Components`:

* *plan*: every range of 0..17 blocks, depth 1..5, buffer 1..4: the plans tile the
  range.  17 > 4 x 4 makes every remainder and every clip occur.
* *iod*: transfers of 1..14 units at two offsets, in pages of 2 and lists of 3 entries, in
  up to four segments, of every kind and with every error; two requests on the
  tag, one retry, four list pages (`MaxPages`): three chained lists, the small pool and its
  limit occur.
* *menu*: the whole menu tree, answers 0..3, every start argument; *editor*: three
  questions of two digits or characters, histories of two, so that rings wrap
  and lists overflow; and a decimal question of six digits, one of which is turned,
  so that the unit of 16 bits wraps.
* *keys*: three keys out of a character, ESC and two special keys, in bursts as
  long as `scFIFO` holds, and the alarm at any point.
* *window*: one namespace, every outcome of every call, the script and all buttons.
* *fields*: dwords of 5 bits with 2-bit identifiers: fields as wide as the dword,
  features with, without and with empty layouts.
* *ngd*: two controllers, one with 256 log entries, one with 63; every outcome of every
  command at every row, every order of clicks.

`CHECK_DEADLOCK FALSE` is in every cfg because each of these programs stops when its
work is done (the scheduler returns, the task returns, the worker finishes, no
further test is started, the controller is gone, the bounds of the outside are spent).

**Fairness.**  `IoExEngine` and `IoExOthers`: weak fairness of the polling thread
and of every request; `routine()` never sleeps and the kernel finishes each request
with success or an error.  `WrcTask`: weak fairness of the whole, since threads
only wait for one another.  Under the dialog: weak fairness of the GUI (the timer is
started again as long as a task exists) and strong fairness of the worker and of
its termination, because the lock is polled: the GUI holds it for a moment every
300 ms and the worker's next poll finds it free.  `KeyInput`: the main loop runs and
the alarm comes, each weakly fair.  `NvmeQueue`: the host's threads get on and its
timers expire; nothing is asked of the controller, which may stay silent, nor of the reset
work, which may hang on one of its own commands.
`NvmeCtrl`: each thread in `nvme_dev_disable`, the reset work, the removal and the
time-out of its command, each weakly fair; again nothing of the device.
`NvmeScan`: the works and the notice of a change get on.  No fairness is assumed
of users anywhere.

## 4. Where the code departs from its own words

Each is a run with one property, quoting the text, that TLC finds violated:

* `IoExRefused`: a request `aio_write` refuses counts as written, because the
  result of the submission is ignored and a zeroed control block reads as finished.
* `WrcCancelStuck`: Cancel while the worker holds the report lock hangs the dialog.
* `WrcFailLost`: `stop_task()` advances `currentLBA` before it sets `testFail`; the
  timer in between repeats a failed test and loses the failure.
* `NvmeRefusedCreate`: a Create I/O Queue command the device refuses has a positive
  status, which the test for `< 0` lets pass; the queue is counted as online.
* `NvmeScanOverlap`: `nvme_remove_namespaces` leaves it "up to the caller" that no scan modifies the
  list (`core.c:1839`); a reset that finds no I/O queue calls it beside a running scan, and the walk
  goes on from an entry that is off the list.

Met while modelling; the affected properties are stated for the other cases and
say so:

* *Engine.*  When the constructor fails, the dump names an uninitialised block
  (`ioex_cmd.cpp:38`); short transfers count as complete, as `aio_return` is never
  asked (`async_cmd.cpp:37`); a successful dump holds 0 in bytes [11:8] where the
  help text promises 0xff.
* *WRC.*  Between `marchFilled = true` and `currentLBA = slba` a march test looks
  complete before anything was compared (`nvme_task.cpp:44`); a start block one above
  the end passes the range check and tests nothing; a sweep with no length to test
  starts from an uninitialised `currentLBA`.
* *Window.*  `auto_lock_first` without an NVMe device leaves the state "locked"
  (`nvme_ioctrl.cpp:217`); the first command's fields are not laid out until it is
  chosen again; a field of 32 bits gets the mask 0 (`spec_field.cpp:68`); a positive
  status of the device becomes `-errno`, 0 if no call failed before (`io_ctrl.cpp:24`).
* *kw_ioctl.*  A failed scan is taken for a list (`ioctl_basic.c:303`); the progress of
  the last task stays on the screen (`menu_ctrl.c:1990`); recalling a text longer than
  the question's limit fills the buffer beyond it (`menu_ctrl.c:1118`); a decimal answer of more than
  five digits, of which the editor takes up to eight, is summed with a unit of `unsigned short`, which
  wraps at the sixth (`menu_ctrl.c:1417`): the task gets another number than the screen shows.
* *ngd_app.*  The number of log entries is taken from a structure that a failed command
  left to the row before, and 256 of them are 0 in `unsigned char`: the command
  then asks for 16 KiB into a structure of none (`vcl_nvme_dev.cpp:116`, `:160`); the note
  that a file was saved is repeated for later rows (`form_app.cpp:293`).
* *Keys.*  More than seven bytes before the loop comes around are lost
  (`key_ctrl.cpp:235`); the bound `Burst` leaves that out.
* *Driver, queues.*  Neither `nvme_dev_disable` nor the reset work waits for a thread of `nvme_queue_rq` of
  the admin queue or for `nvme_async_event_work` (`core.c:1860`), and the reset work does not hold
  `shutdown_lock`.  Five acts that this allows break the correspondence of commands and requests, each
  found by TLC as a counterexample and then named by `astray`: a thread goes on with a request that was cancelled
  under it (`pci.c:644`); an event request is sent after the controller was started and before
  `nvme_init_queue` put the tail back; a reset asks for event requests while one from before
  is still held; requests are cancelled (`pci.c:1725`) after the reset work, on the other side, made their queue live
  or started the block layer; and the reset work starts the block layer on a queue a time-out
  has suspended meanwhile.  `CommandsMatchRequests` holds in every behaviour without such an act; `PhaseTellsPosted` and
  `SentIsEnded` hold in all.
* *Driver, controller.*  `nvme_remove` flushes the reset work and does not keep it from being
  queued again by the watchdog, a user or a time-out (`pci.c:1866`): that work is still running when
  the queues and the controller are freed.  `FreedIsUnused` says so, and that it leaves the device off,
  unless the removal came before the first start: then the state is `NVME_CTRL_NEW`, the mark "deleting" is
  refused, and the late reset starts the device that is being removed.
  After a reset without I/O queues no scan is queued (`pci.c:1847`), so that `ChangeArrives` promises a change only while
  there are I/O queues.  After a failed `nvme_create_queue` `cq_vector` stays set
  (`pci.c:1136`).  A tag remembers the error command of an ioctl that has returned
  (`pci.c:493`): `DeviceReadsTransfer` excludes those tags where it says that no error was put in.

Abstractions of the driver modules that a reader should know of:

* `NvmeQueue`: the iteration of `nvme_cancel_request` over the tags is one step, and so is taking `shutdown_lock`
  with the wait of `nvme_stop_queues`; the handlers of other queues appear as resets from outside; a
  third use of a tag waits for the thread of its first; a slot of the submission ring
  is forgotten when it was fetched; an I/O queue whose creation fails with a negative result is
  left out, the reset work then goes on without it.
* `NvmeCtrl`: stopping or starting a queue and looking whether it is dying is one step; what a late reset
  work reads after the memory was freed is modelled as if it were still there.
* `NvmeScan`: `nvme_ns_remove` marks a namespace, ends its disk and unlinks it in one step; whether
  `nvme_remove_namespaces` kills the queues of a dead controller first is not told apart.

## 5. Proofs

All checked by TLAPS without assumptions beyond the named `ASSUME`s on constants.

* `IoPlanMathProofs`: lemmas on the closed form (shares add up, bounds are
  monotone, the last plan reaches the end), for all natural numbers.
* `IoExProofs`, for every range, depth, buffer size and task class:
  * `TypeCorrect` and `Disjointness` (`SlicesDisjoint`).  The inductive invariant `IInv` gives
    every plan of the legacy family its own part of the range, inside which its slice
    and what is left of it stay, and for the sequential family keeps all slices
    below the cursor and pairwise disjoint.  Disjointness alone is not inductive: an
    arbitrary plan could advance into a neighbour's slice.
  * `HandlersAssigned` (`CancelSeesAssignedHandlers`).  `FirstPassInv` says that the plans
    started are those below the scan's index during the first pass, and that there are
    blocks for each plan still to start, so that the pass cannot end or be cancelled early.
  * `SuccessClean` (`SuccessLeavesNothingInFlight`).  `EndInv` says that while the `stop` of a
    pass still stands every plan passed is exhausted.
  * `JobImplemented` (`ImplementsRangeJob`): step simulation.  `NothingTakenUp`, `SliceTaken`
    and `FailedBlockInSlice` say what one action does to the sets the mapping reads.
  * `FlightData` (`InFlightDataRight`).  `DataInv` follows both buffers of a ping-pong plan: the
    one in flight holds its slice, the other one the slice that comes next from the moment
    it was filled ahead, and their headers are clean otherwise.
  * `DoneWritten`, `Verdict` (`VerdictSound`), `FinishedSurvive` (`FinishedBlocksSurvive`).  `DiskInv`
    adds to the engine's invariants what a request has transferred so far.  These assume
    `NoneLost`: no request transfers less than asked and reports success ("short"),
    and none is refused unnoticed ("submit").  The code does not guarantee either; with
    them the properties are false, which the run IoExRefused shows (section 4).
    The runs check the properties under the same assumption.
  * `DumpNames` (`DumpNamesFailedBlock`), `CommandSafe` and `CommandJob`: the same invariants under
    `IoExCommand`, where requests may still end after the task was deleted.
* `IoExOthersProofs`: a behaviour of `IoExOthers` is one of the class it runs (`FillRuns` and its
  like), so that the theorems of `IoExProofs`, instantiated for each class, give `HandlersAssigned`
  (`CancelSeesAssignedHandlers`), `Verdict` (`VerdictSound`; `CompareFaults` has no lost requests)
  and `EveryClassJob` (`EveryClassImplementsRangeJob`).
* `WrcProofs`, for every range, step, device, number of threads and fault.  The task:
  * `TaskTypeCorrect` and `TeamSharing` (`TeamSharesStep`).  `SlicesTile` is the arithmetic: with
    n threads and k >= n blocks, slice t > 0 begins at k % n + t(k div n), where slice
    t-1 ends.  The invariant adds that while threads exist they are the team of the
    worker's present `currentLBA` and `nlba`, which no step then changes.
  * `PassTested` (`PassMeansTested`).  The property speaks of the end only.  `RangeInv` keeps
    the step in work inside the range asked for, and a failing test at its end; `PassInv`
    says what the first pass of a march test leaves to the second; `ExecInv` lists, by what
    `exec()` has still to do, what the buffers hold: the pattern is in the write
    buffer before the write, and what is read back as the pattern is on the device;
    `TestedInv` sums this up for the blocks gone past.
  * `AskedOnly` (`WritesOnlyAsked`): from `TeamSharing` and `RangeInv`.
  * `Sweep` (`SweepLengths`): `SweepInv` keeps the length below 2^16, where storing it in `nlba`
    changes nothing.
  The task under the dialog:
  * `NoOrphanedCommand` (`NoCommandOutlivesTask`).  The property is not inductive; the invariant
    says that commands fly only inside `exec()`, that `exec()` and all it reports run
    with termination disabled, and that from the end of its wait to the deletion
    the dialog has a dead worker.
  * `RestartTested` (`RestartMeansTested`).  What the dialog has read stays true while the
    worker goes on: a progress of 100 means the range's end (`ProgressMeansEnd`, by the
    integer division of `_f_get_progress()`), at which a w1r1c1 test stays or fails
    (`EndIsKept`), and a worker is never killed between the two assignments of a failure.  The
    invariant leaves march tests out, for which the second of these is not so (the
    hazard without a property).
  * `DialogKeepsTask`: the theorems about the task hold under the dialog, too.
* `NvmeQueueProofs`.  The ring alone, for every depth and whatever the entries say:
  `RingTypeCorrect` and `PhaseTag` (`PhaseTellsPosted`).  The property speaks of the
  slots at the host's head only and is not inductive.  The invariant fixes the phase of
  every slot by its distance from the doorbell: those the device posted since carry the
  phase of their round, those beyond its tail the one before, and the host's head and the
  place of a running scan lie between the doorbell and the tail with the phase of their
  round.  The queue pair, for rings of every depth, any number of tags, retries, aborts, requests and
  resets, and for the shape of the answers (`CompletionAssumption`, which gives the constant of `NvmeRing`
  its value):
  * `QueueTypes`: types only, without a bound on the number of event requests, which a late event
    work breaks.
  * `QueuePhaseTag` (`PhaseTellsPosted`).  `RingStep` says that whatever a thread does, in whatever
    order, is to the ring one of its own steps or nothing, so that the ring's invariant
    carries over; no assumption on resets is made.
* `NvmeCtrlProofs`, for any number of I/O queues and of resets, time-outs and openings:
  * `CtrlTypes`; `Freed` (`FreedIsUnused`).  The property speaks of the end only.  `PlaceInv` says
    who holds `shutdown_lock`, that the reset work rests after the flush unless it was asked for again
    (`requeued`), and that no time-out is handled once `nvme_dev_remove_admin` has waited;
    `CountedInv` what each reference stands for, the one of `remove_work` included, which
    is dropped at once when that work is queued already; `DownInv` follows the last
    `nvme_dev_disable`, which a reset work cannot undo when the controller is marked as deleted.
  * `LiveWorks` (`LiveAnswers`).  `BringUpInv` follows the reset work: before queue i is
    created the queues below i have their vector and interrupt, `online_queues` is i,
    and the memory of all n has been allocated; `nvme_dev_add` then frees none of them.
    It is kept only while nobody takes the controller down: `nvme_dev_disable` does not wait
    for the reset work, which may then go on with a queue that is down.
* `NvmeScanProofs`, for any number of namespaces and of allocations, identify pages of any
  size, and removals by the reset work at any moment.  The invariant `ScanInv` is proved as a whole,
  each action against each part:
  * `ScanTypes`; `References` (`HeldIsCounted`).  `ListInv` is what the property lacks: an entry of the
    list is allocated, not being removed, and there once; the mark "removing" lets only
    one of two removers drop the list's reference.
  * `Gone` (`GoneForGood`).  `GoneInv`: when `nvme_uninit_ctrl` has flushed the scan the controller is no
    longer live, so that no scan starts again, and its walk takes the head of the list each time.
  * `ScanRight` (`ScanIsRight`).  A new entry goes to the end and the list is sorted only when the
    scan is over, so that the early end of `nvme_find_get_ns()` could miss an entry.
    `OrderInv` says why it does not: an entry behind a larger one has a number the
    scan has passed.  `SteadyInv` follows the scan: the numbers dealt with are
    right, the page still holds the next numbers of the device, and `CountInv` that the
    pages left suffice for the numbers left.
* `ComponentProofs`, for the specification `Components`.  One lemma per part says that a step of
  another part changes nothing of this one (`PlanPart` and its like); what is left is an invariant
  of the part alone.
  * The scheduler, for every range, depth and buffer size: `PlanTypes`, `ClosedForm`, `Tiling`
    (`PlansTileRange`), `EveryPlanWorks`.  The invariant says that after k turns of the loop the plans
    made are the first k of the closed form and the local `lba` is the end of the last one; the
    properties alone are not inductive, as they speak of the finished list only.
  * `ListsGiven` (`GivesBack`), for pages and lists of every size and transfers of every length
    and segmentation that fit the list pages there are (`IodAssumption`; `NvmeNpages` of the
    transfer is at most `MaxPages`).  `Chained` is what
    `nvme_free_iod` goes by: the pages of the list differ, each but the last names the next in its
    last entry, and the first one's address is kept.  It survives the entries written meanwhile
    because the list is never longer than `nvme_npages` made room for, and that is arithmetic:
    `IodInv` says how much of the transfer the entries written stand for, so that a new page is
    begun only while a whole page of entries is still to come (`RoomForMore`).
  * `TransferRead` (`DeviceReadsTransfer`), for the same transfers and pages.  A transfer is what `blk_rq_map_sg`
    makes of a request (`WellFormed`): segments in order, with page boundaries between them.
    `ReadsInv` says where the locals of `nvme_setup_prps` stand while the entries are
    written, at the page that comes next, in its segment and with what is left of it (`AtPage`), and
    how the entries lie: those of page q behind the (q - 1) * (Entries - 1) of the pages before,
    each with its page of the transfer and an error if one was asked for there (`Laid`).  A page
    that is begun takes over the last entry of the full one, whose place gets the link,
    and holds a second one at once; this is why the device, which takes the last entry of a
    page for a link while more than one is to come, finds every entry (`EntryFound`).
  * `TasksFind` (`TasksFindWhatTheyNeed`), for every start with the arguments `arg_decode` knows
    (`MenuAssumption`), every path and every size of answers.  `DeviceInv` ties the attributes of
    the items to the driver and the device: what a task needs is there as long as its item is a
    task or its menu is open.  `OpFits` says that the operation to run is still such an item;
    `OpHasParameters` that it has as many answers as its questions; `BootInv` that the calls of
    main's arguments run from the root.
  * `KeysPressed` (`KeysAsPressed`), for keys of every sequence of up to five bytes, all of
    which fit `scFIFO` (`KeysAssumption`; more are lost, section 4).  The bytes a key sends are in three places: with the
    decoder, in `scFIFO`, and not yet read.  `Flow` says that, put together, they are the keys
    pressed and not yet decoded, cut into keys, and that what was read ends with a key;
    this is why a lone ESC may be told from a sequence by its 2 ms.
  * `WindowScript` (`ScriptEndsReady`) and `WindowOffers` (`OfferedFitsDevice`), for every number
    of namespaces.  `OfferedInv`: a tab for namespaces that is open, and not by
    hand, has an identified namespace, and an admin queue the window made is not the driver's;
    `ScriptKnows`: what the script has found out when it comes to each of its clicks.
  * `NgdApart` (`DevicesKeptApart`), for any number of controllers with any number of log entries
    a byte can hold.  `NgdInv`: unless a status was taken for success (section 4), every row holds answers of its
    own controller, the one structure the rows share holds what the row in work was answered, and what is
    asked for is never longer than its structure but for the case section 4 names.

Only model-checked:

* Liveness (`Terminates`, `WorkerEnds`, `TestsEnd`, `KeysArrive`, `SentIsEnded`, `WorkEndsOrIsHeld`,
  `ChangeArrives`), which needs fairness and ENABLED.
* `CommandsMatchRequests`, whose invariant would have to follow every thread of every start of the queue.
* `FieldsFitCommand` and `ImplementsLine`: the dword sent, and the number an answer stands for, are folds over
  the fields and the keys; their values for every list need induction over data.

## 6. Not modelled

* Direct commands, file operations, option parsing: straight-line formatting around one call.
* The pattern words, the time stamp's value, log texts, screen layout.
* 64-bit wrap of block numbers; the 32-bit `total` of the WRC progress.
* `wrcSkipCompare` toggled during a step; the deletion of a running task by
  `~FormApp` (Qt aborts the process).
* The periodic services and `delay_ms` of the timer; the counting semaphore, which
  has no user; the system task, whose report channel is the one of `WrcTask`.
* Register pages and the format of identify pages in nvme_verify; what kw_ioctl's
  tables display.
* Of the driver: the controller memory buffer, shadow doorbells, power states, host memory
  buffers, reservations, lightnvm, and the other transports of `core.c`.
* The text ngd_app decodes stored files into; toy and helper programs.

## 7. Plan

1. *Done*: scheduler, engine, command, WRC task and dialog; the window of
   nvme_verify and its fields; ngd_app; keys and timer, menus and editor of kw_ioctl; the
   driver's requests, queues, controller and namespaces.  Proved: every safety property the
   runs check but those of section 5's last list, and the refinement of `RangeJob`.
2. Proofs next: `CommandsMatchRequests` without the acts of section 4; march tests in `RestartTested`.
3. Models next: the report channel with two writers, the periodic
   services of the timer.
