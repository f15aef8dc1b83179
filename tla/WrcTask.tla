------------------------------ MODULE WrcTask -------------------------------
(***************************************************************************)
(* NVMeTask of qt/nvme_verify: the worker thread of a write-read-compare   *)
(* test and the threads it starts for the commands of one step.            *)
(*                                                                         *)
(* The worker goes through the blocks slba .. elba-1 in steps.  In a step  *)
(* it writes, reads back and compares; a march test first fills the whole  *)
(* range and then goes through it a second time; a sweep test goes through *)
(* ever longer commands at block 0.  Every write to a member the dialog    *)
(* reads without a lock (module WrcDialog) is a step of its own.           *)
(***************************************************************************)
EXTENDS Integers, Sequences, FiniteSets

CONSTANTS
  Configs,    \* what the dialog may ask for: see ConfigRec
  MaxLba,     \* last block of the device
  NlbWord,    \* 2^16: nlba is an unsigned short
  Faults      \* what commands may do: "io" fail, "data" lose or spoil data

ConfigRec == [slba : Nat, elba : Nat, nblocksPerStep : Nat, nthreads : Nat,
              tt : {"w1r1c1", "march", "sweepNLB"}]

ASSUME WrcAssumption ==
  /\ Configs \subseteq ConfigRec /\ Configs # {}
  /\ MaxLba \in Nat
  /\ NlbWord \in Nat \ {0}
  /\ Faults \subseteq {"io", "data"}

VARIABLES
  asked,      \* the Config the task was made from
  slba, elba, \* cfg.slba and cfg.elba, the latter one past the end
  step,       \* cfg.nblocksPerStep
  sweepEnd,   \* cfg.fillPattern, which a sweep uses for its last length
  cur,        \* currentLBA
  filled,     \* marchFilled
  testFail,
  worker,     \* where run() is
  nlba,       \* local nlba of run(), 0 based
  todo,       \* what exec() still has to do in this step
  ret,        \* local ret of exec(), zero or not
  wbuf,       \* what the write buffer holds
  rbuf,       \* what the read buffer holds, block by block
  io,         \* the threads of nvme_io_split() and what became of them
  locked,     \* __locked of the report channel's ThreadLocker
  after,      \* where run() goes on after a report
  enabled,    \* setTerminationEnabled()
  disk,       \* contents of the device, block by block
  skip        \* wrcSkipCompare

configVars  == <<asked, slba, elba, step, sweepEnd>>
resultVars  == <<cur, filled, testFail>>
bufferVars  == <<wbuf, rbuf, disk>>
taskVars == <<configVars, resultVars, worker, nlba, todo, ret, bufferVars, io,
              locked, after, enabled, skip>>

Disk  == 0..MaxLba
Value == {"old", "junk", "fill", "test", "bad"}
-----------------------------------------------------------------------------
(* nvme_io_split(): the nlba+1 blocks of a step are divided among threads. *)
LesserOf(a, b) == IF a > b THEN b ELSE a

(* Mutated form of SliceLength: the remainder left out.                    *)
SliceLengthEven(t, n, blocks) == blocks \div n

Threads(c, k) ==
  IF c.nthreads = 0 THEN {0} ELSE 0..LesserOf(c.nthreads, k)

SliceLength(t, n, blocks) ==
  IF t = 0 THEN (blocks \div n) + (blocks % n) ELSE blocks \div n

SliceStart(t, n, blocks) ==
  IF t = 0 THEN 0 ELSE SliceLength(0, n, blocks) + (t - 1) * (blocks \div n)

(* The threads' number is the sweep's, 0, once the constructor has cleared *)
(* nthreads.                                                               *)
ThreadConfig == IF asked.tt = "sweepNLB" THEN [asked EXCEPT !.nthreads = 0] ELSE asked
Team == Threads(ThreadConfig, nlba)
Slice(t) ==
  LET n == Cardinality(Team)
      s == cur + SliceStart(t, n, nlba + 1)
  IN s .. (s + SliceLength(t, n, nlba + 1) - 1)

Step == cur .. (cur + nlba)
-----------------------------------------------------------------------------
(* Mutated form of PlainTask: the end block left out.                      *)
PlainTaskShort(c) ==
  [slba |-> c.slba, elba |-> c.elba, step |-> c.nblocksPerStep, sweepEnd |-> 0,
   cur |-> {c.slba}, fail |-> c.elba > MaxLba]

(* The constructor for w1r1c1 and march.  It makes elba exclusive and then *)
(* checks the range; for an invalid one stop_task() is called at once.     *)
PlainTask(c) ==
  LET e        == c.elba + 1
      inverted == e < c.slba
      end      == IF inverted THEN c.slba ELSE e
      tooBig   == end > MaxLba + 1
  IN [slba |-> c.slba, elba |-> end, step |-> c.nblocksPerStep, sweepEnd |-> 0,
      cur |-> {IF inverted \/ tooBig THEN end ELSE c.slba},
      fail |-> inverted \/ tooBig]

(* The constructor for a sweep: slba and elba are the shortest and the     *)
(* longest length.  When there is none, currentLBA stays uninitialised.    *)
SweepTask(c) ==
  LET e    == c.elba % NlbWord
      last == LesserOf(MaxLba, e) + 1
      none == c.slba >= last
  IN [slba |-> 0, elba |-> IF none THEN e ELSE c.slba + 1, step |-> c.slba,
      sweepEnd |-> last, cur |-> IF none THEN Disk ELSE {0}, fail |-> FALSE]

(* A task is constructed and its thread started.                           *)
Construct(c) ==
  /\ worker = "none"
  /\ worker' = "loop"
  /\ LET t == IF c.tt = "sweepNLB" THEN SweepTask(c) ELSE PlainTask(c) IN
     /\ asked' = c
     /\ slba' = t.slba
     /\ elba' = t.elba
     /\ step' = t.step
     /\ sweepEnd' = t.sweepEnd
     /\ cur' \in t.cur
     /\ testFail' = t.fail
  /\ filled' = FALSE
  /\ io' = <<>>
  /\ locked' = FALSE
  /\ enabled' = TRUE
  /\ UNCHANGED <<nlba, todo, ret, bufferVars, after, skip>>

TaskInit ==
  /\ asked = CHOOSE c \in Configs : TRUE
  /\ slba = 0 /\ elba = 0 /\ step = 0 /\ sweepEnd = 0 /\ cur = 0
  /\ filled = FALSE /\ testFail = FALSE
  /\ worker = "none"
  /\ nlba = 0
  /\ todo = <<>>
  /\ ret = 0
  /\ wbuf = "junk"
  /\ rbuf = [l \in Disk |-> "junk"]
  /\ io = <<>>
  /\ locked = FALSE
  /\ after = "exec"
  /\ enabled = TRUE
  /\ disk = [l \in Disk |-> "old"]
  /\ skip \in BOOLEAN
-----------------------------------------------------------------------------
(* run() outside exec().                                                   *)

(* Mutated form of StepBlocks: the last step of a range not clipped.       *)
StepBlocksUnclipped == step % NlbWord

(* The length of the next step, an unsigned short and 0 based.             *)
StepBlocks ==
  (IF cur + step + 1 > elba THEN elba - cur - 1 ELSE step) % NlbWord

StartStep ==
  /\ worker = "loop"
  /\ cur < elba
  /\ nlba' = StepBlocks
  /\ worker' = "report"
  /\ after' = "disable"
  /\ UNCHANGED <<configVars, resultVars, todo, ret, bufferVars, io, locked, enabled, skip>>

LeaveLoop ==
  /\ worker = "loop"
  /\ cur >= elba
  /\ worker' = "finished"
  /\ UNCHANGED <<configVars, resultVars, nlba, todo, ret, bufferVars, io, locked,
                 after, enabled, skip>>

(* repCh << ...: the lock is tested, set in a second step and released.    *)
WorkerIn(from, to) ==
  /\ worker = from
  /\ worker' = to
  /\ UNCHANGED <<configVars, resultVars, nlba, todo, ret, bufferVars, io, after,
                 enabled, skip>>
TestLock == ~locked /\ WorkerIn("report", "lock") /\ UNCHANGED locked
SetLock  == WorkerIn("lock", "append") /\ locked' = TRUE
AppendLog == WorkerIn("append", after) /\ locked' = FALSE
Report   == TestLock \/ SetLock \/ AppendLog

(* setTerminationEnabled(false), and the start of exec(): which operations *)
(* this step consists of, and what the write buffer holds at first.        *)
Operations ==
  LET wrc == <<"pattern", "write", "read", "compare">> IN
  IF asked.tt # "march" THEN wrc
  ELSE IF filled THEN <<"read", "check">> \o wrc ELSE <<"write">>

(* Mutated form of DisableTermination.                                     *)
DisableNothing ==
  /\ worker = "disable"
  /\ worker' = "exec"
  /\ todo' = Operations
  /\ ret' = 0
  /\ wbuf' = IF asked.tt = "march" THEN "fill" ELSE "junk"
  /\ rbuf' = [l \in Disk |-> "junk"]
  /\ UNCHANGED <<configVars, resultVars, nlba, io, locked, after, enabled, disk, skip>>

DisableTermination ==
  /\ worker = "disable"
  /\ worker' = "exec"
  /\ enabled' = FALSE
  /\ todo' = Operations
  /\ ret' = 0
  /\ wbuf' = IF asked.tt = "march" THEN "fill" ELSE "junk"
  /\ rbuf' = [l \in Disk |-> "junk"]
  /\ UNCHANGED <<configVars, resultVars, nlba, io, locked, after, disk, skip>>

(* The step has succeeded, or stop_task() begins by skipping the rest.     *)
Settle ==
  /\ worker = "settle"
  /\ IF ret = 0
     THEN cur' = cur + nlba + 1 /\ worker' = "enable"
     ELSE cur' = elba /\ worker' = "stop"
  /\ UNCHANGED <<configVars, filled, testFail, nlba, todo, ret, bufferVars, io, locked,
                 after, enabled, skip>>

(* The second assignment of stop_task().                                   *)
StopTask ==
  /\ worker = "stop"
  /\ testFail' = TRUE
  /\ worker' = "enable"
  /\ UNCHANGED <<configVars, cur, filled, nlba, todo, ret, bufferVars, io, locked,
                 after, enabled, skip>>

EnableTermination ==
  /\ worker = "enable"
  /\ enabled' = TRUE
  /\ worker' = "pass"
  /\ UNCHANGED <<configVars, resultVars, nlba, todo, ret, bufferVars, io, locked,
                 after, skip>>

PassDone == cur = elba /\ ~testFail

(* Mutated form of MarkFilled: the flag not set.                           *)
MarkFilledForgotten ==
  /\ worker = "pass"
  /\ PassDone /\ asked.tt = "march" /\ ~filled
  /\ worker' = "again"
  /\ UNCHANGED <<configVars, resultVars, nlba, todo, ret, bufferVars, io, locked,
                 after, enabled, skip>>

(* A march test that has filled its range starts again, in two             *)
(* assignments.                                                            *)
MarkFilled ==
  /\ worker = "pass"
  /\ PassDone /\ asked.tt = "march" /\ ~filled
  /\ filled' = TRUE
  /\ worker' = "again"
  /\ UNCHANGED <<configVars, cur, testFail, nlba, todo, ret, bufferVars, io, locked,
                 after, enabled, skip>>

StartAgain ==
  /\ worker = "again"
  /\ cur' = slba
  /\ worker' = "loop"
  /\ UNCHANGED <<configVars, filled, testFail, nlba, todo, ret, bufferVars, io, locked,
                 after, enabled, skip>>

(* Mutated form of SweepNext: one length too many.                         *)
SweepNextBeyond ==
  /\ worker = "pass"
  /\ PassDone /\ asked.tt = "sweepNLB"
  /\ step' = step + 1
  /\ IF step' <= sweepEnd
     THEN cur' = 0 /\ elba' = step' + 1
     ELSE UNCHANGED <<cur, elba>>
  /\ worker' = "loop"
  /\ UNCHANGED <<asked, slba, sweepEnd, filled, testFail, nlba, todo, ret, bufferVars,
                 io, locked, after, enabled, skip>>

(* sweep_nlb_next(): one block more, from block 0 again, up to the end.    *)
SweepNext ==
  /\ worker = "pass"
  /\ PassDone /\ asked.tt = "sweepNLB"
  /\ step' = step + 1
  /\ IF step' < sweepEnd
     THEN cur' = 0 /\ elba' = step' + 1
     ELSE UNCHANGED <<cur, elba>>
  /\ worker' = "loop"
  /\ UNCHANGED <<asked, slba, sweepEnd, filled, testFail, nlba, todo, ret, bufferVars,
                 io, locked, after, enabled, skip>>

ContinuePass ==
  /\ worker = "pass"
  /\ ~(PassDone /\ (asked.tt = "sweepNLB" \/ (asked.tt = "march" /\ ~filled)))
  /\ worker' = "loop"
  /\ UNCHANGED <<configVars, resultVars, nlba, todo, ret, bufferVars, io, locked,
                 after, enabled, skip>>
-----------------------------------------------------------------------------
(* exec(), with termination disabled.                                      *)
ToDo(op) == worker = "exec" /\ todo # <<>> /\ Head(todo) = op

(* pattern_fill() does nothing when comparing is switched off.             *)
FillPattern ==
  /\ ToDo("pattern")
  /\ wbuf' = IF skip THEN wbuf ELSE "test"
  /\ todo' = Tail(todo)
  /\ UNCHANGED <<configVars, resultVars, worker, nlba, ret, rbuf, disk, io, locked,
                 after, enabled, skip>>

(* nvme_io_split(): all threads of the team are started ...                *)
StartTeam ==
  /\ ToDo("write") \/ ToDo("read")
  /\ io = <<>>
  /\ io' = [t \in Team |-> "busy"]
  /\ UNCHANGED <<configVars, resultVars, worker, nlba, todo, ret, bufferVars, locked,
                 after, enabled, skip>>

(* ... each transfers its slice, with one command ...                      *)
TransferredOk(t) ==
  /\ Slice(t) \subseteq Disk
  /\ IF ToDo("write")
     THEN /\ \/ disk' = [l \in Disk |-> IF l \in Slice(t) THEN wbuf ELSE disk[l]]
             \/ "data" \in Faults /\ UNCHANGED disk
          /\ UNCHANGED rbuf
     ELSE /\ \/ rbuf' = [l \in Disk |-> IF l \in Slice(t) THEN disk[l] ELSE rbuf[l]]
             \/ "data" \in Faults /\
                rbuf' = [l \in Disk |-> IF l \in Slice(t) THEN "bad" ELSE rbuf[l]]
          /\ UNCHANGED disk

NVMeIOTask(t) ==
  /\ t \in DOMAIN io /\ io[t] = "busy"
  /\ \/ TransferredOk(t) /\ io' = [io EXCEPT ![t] = "ok"]
     \/ /\ "io" \in Faults \/ ~(Slice(t) \subseteq Disk)
        /\ io' = [io EXCEPT ![t] = "failed"]
        /\ UNCHANGED <<rbuf, disk>>
  /\ UNCHANGED <<configVars, resultVars, worker, nlba, todo, ret, wbuf, locked,
                 after, enabled, skip>>

(* ... and all are waited for, their states joined and their logs reported. *)
JoinTeam ==
  /\ worker = "exec" /\ io # <<>>
  /\ \A t \in DOMAIN io : io[t] # "busy"
  /\ ret' = IF \E t \in DOMAIN io : io[t] = "failed" THEN -1 ELSE 0
  /\ todo' = IF ret' = 0 THEN Tail(todo) ELSE <<>>
  /\ io' = <<>>
  /\ IF ThreadConfig.nthreads = 0
     THEN UNCHANGED <<worker, after>>
     ELSE worker' = "report" /\ after' = "exec"
  /\ UNCHANGED <<configVars, resultVars, nlba, bufferVars, locked, enabled, skip>>

(* Mutated form of Compare: the first block only.                          *)
CompareFirstBlock ==
  /\ ToDo("compare") \/ ToDo("check")
  /\ LET equal == rbuf[cur] = wbuf
         off   == ToDo("compare") /\ skip
     IN /\ ret' = IF equal \/ off THEN 0 ELSE -1
        /\ todo' = IF equal \/ off THEN Tail(todo) ELSE <<>>
  /\ UNCHANGED <<configVars, resultVars, worker, nlba, bufferVars, io, locked, after,
                 enabled, skip>>

(* mem->compare() over the step.  The first compare of a march step is     *)
(* made even when comparing is switched off.                               *)
Compare ==
  /\ ToDo("compare") \/ ToDo("check")
  /\ LET equal == \A l \in Step : rbuf[l] = wbuf
         off   == ToDo("compare") /\ skip
     IN /\ ret' = IF equal \/ off THEN 0 ELSE -1
        /\ todo' = IF equal \/ off THEN Tail(todo) ELSE <<>>
  /\ UNCHANGED <<configVars, resultVars, worker, nlba, bufferVars, io, locked, after,
                 enabled, skip>>

EndExec ==
  /\ worker = "exec" /\ todo = <<>> /\ io = <<>>
  /\ worker' = "report"
  /\ after' = "settle"
  /\ UNCHANGED <<configVars, resultVars, nlba, todo, ret, bufferVars, io, locked,
                 enabled, skip>>

Run == \/ StartStep \/ LeaveLoop \/ Report
       \/ DisableTermination \/ Settle \/ StopTask \/ EnableTermination
       \/ MarkFilled \/ StartAgain \/ SweepNext \/ ContinuePass
       \/ FillPattern \/ StartTeam \/ JoinTeam \/ Compare \/ EndExec

Threaded == Run \/ \E t \in DOMAIN io : NVMeIOTask(t)
TaskNext == (\E c \in Configs : Construct(c)) \/ Threaded

(* The scheduler runs every thread that can run, and commands finish.      *)
TaskFairness == WF_taskVars(TaskNext)

TaskSpec == TaskInit /\ [][TaskNext]_taskVars /\ TaskFairness
-----------------------------------------------------------------------------
(* _f_get_progress(), in percent.                                          *)
Progress ==
  IF testFail THEN 100
  ELSE IF asked.tt = "sweepNLB" THEN (step * 100) \div sweepEnd
  ELSE IF asked.tt = "march" /\ ~filled THEN 0
  ELSE ((cur - slba + 1) * 100) \div (elba - slba + 1)

TaskTypeOK ==
  /\ asked \in Configs
  /\ slba \in Nat /\ elba \in Nat /\ step \in Nat /\ sweepEnd \in Nat /\ cur \in Nat
  /\ filled \in BOOLEAN /\ testFail \in BOOLEAN
  /\ worker \in {"none", "loop", "report", "lock", "append", "disable", "exec", "settle",
                 "stop", "enable", "pass", "again", "finished", "killed"}
  /\ nlba \in 0..(NlbWord - 1)
  /\ todo \in Seq({"pattern", "write", "read", "compare", "check"})
  /\ ret \in {0, -1}
  /\ wbuf \in Value
  /\ rbuf \in [Disk -> Value]
  /\ DOMAIN io \subseteq Nat /\ \A t \in DOMAIN io : io[t] \in {"busy", "ok", "failed"}
  /\ locked \in BOOLEAN
  /\ after \in {"disable", "exec", "settle"}
  /\ enabled \in BOOLEAN
  /\ disk \in [Disk -> Value]
  /\ skip \in BOOLEAN

AskedBlocks == asked.slba .. asked.elba

(* Property: the threads of a step share its blocks out without gap or     *)
(* overlap, so that concurrent commands never meet on one block, whatever  *)
(* the number of threads asked for.                                        *)
TeamSharesStep ==
  io # <<>> =>
    /\ UNION {Slice(t) : t \in DOMAIN io} = Step
    /\ \A t, u \in DOMAIN io : t # u => Slice(t) \cap Slice(u) = {}
    /\ \A t \in DOMAIN io : Slice(t) # {}

(* Property: a test that ends without failure has left its pattern in      *)
(* every block it was asked to test, the end block included, even if the   *)
(* device loses writes or spoils reads; and a march test has found its     *)
(* filling everywhere before.                                              *)
PassMeansTested ==
  worker = "finished" /\ ~testFail /\ ~skip /\ asked.tt # "sweepNLB" =>
    /\ \A l \in AskedBlocks : disk[l] = "test"
    /\ asked.tt = "march" /\ AskedBlocks # {} => filled

(* Action property: a test writes no block it was not asked to test.       *)
WritesOnlyAsked ==
  [][asked.tt # "sweepNLB" => \A l \in Disk : disk'[l] # disk[l] => l \in AskedBlocks]_taskVars

(* Property: a sweep goes through every length from the first to the last, *)
(* one at a time: the length in use is also the place it has reached.      *)
SweepLengths ==
  asked.tt = "sweepNLB" /\ asked.slba < sweepEnd /\ worker = "exec" =>
    nlba = step /\ cur = 0 /\ step \in asked.slba .. (sweepEnd - 1)
=============================================================================
