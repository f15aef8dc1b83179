----------------------------- MODULE WrcDialog ------------------------------
(***************************************************************************)
(* FormApp of qt/nvme_verify around a WRC test: the GUI thread starts the  *)
(* worker (module WrcTask), reads its progress, report and fail flag from  *)
(* a timer event, restarts a finished test in a loop, and deletes the      *)
(* worker when it has finished or when the user cancels it.                *)
(*                                                                         *)
(* Deleting starts with QThread::terminate().  By its documentation the    *)
(* worker may then be stopped at any point at which termination is         *)
(* enabled.                                                                *)
(***************************************************************************)
EXTENDS WrcTask

CONSTANTS
  InfiniteLoop,   \* ckbInfiniteLoop
  Cancelling      \* TRUE if the user may press Cancel

ASSUME DialogAssumption == InfiniteLoop \in BOOLEAN /\ Cancelling \in BOOLEAN

VARIABLES
  gui,        \* where the GUI thread is
  progress,   \* local progress of timerEvent()
  keepGo,     \* local keepGo of timerEvent()
  fetched,    \* where the GUI thread goes on after fetching the report
  pending     \* terminate() has been called

guiVars == <<gui, progress, keepGo, fetched, pending>>
allVars == <<taskVars, guiVars>>

NoTask == worker = "none"
Alive  == worker \notin {"none", "finished", "killed"}

DialogInit ==
  /\ TaskInit
  /\ gui = "idle"
  /\ progress = 0
  /\ keepGo = FALSE
  /\ fetched = "idle"
  /\ pending = FALSE
-----------------------------------------------------------------------------
(* The worker, and what terminate() does to it.                            *)
Work == Alive /\ Threaded /\ UNCHANGED guiVars

Terminated ==
  /\ pending /\ Alive /\ enabled
  /\ worker' = "killed"
  /\ UNCHANGED <<configVars, resultVars, nlba, todo, ret, bufferVars, io, locked,
                 after, enabled, skip, guiVars>>

GuiStep(from, to) ==
  /\ gui = from
  /\ gui' = to

(* wrc->report: fetched under the report channel's lock, which is tested   *)
(* and set in two steps.                                                   *)
FetchTest    == ~locked /\ GuiStep("fetch", "fetchLock") /\ UNCHANGED locked
FetchLock    == GuiStep("fetchLock", "fetchLog") /\ locked' = TRUE
FetchRelease == GuiStep("fetchLog", fetched) /\ locked' = FALSE
Fetch ==
  /\ FetchTest \/ FetchLock \/ FetchRelease
  /\ UNCHANGED <<configVars, resultVars, worker, nlba, todo, ret, bufferVars, io, after,
                 enabled, skip, progress, keepGo, fetched, pending>>

(* timerEvent(): the progress first, then the report, then the fail flag.  *)
Tick ==
  /\ GuiStep("idle", "fetch") /\ ~NoTask
  /\ progress' = Progress
  /\ fetched' = "decide"
  /\ UNCHANGED <<taskVars, keepGo, pending>>

NotYet ==
  /\ GuiStep("decide", "idle") /\ progress < 100
  /\ UNCHANGED <<taskVars, progress, keepGo, fetched, pending>>

Over ==
  /\ GuiStep("decide", "close") /\ progress >= 100
  /\ keepGo' = (~testFail /\ InfiniteLoop)
  /\ UNCHANGED <<taskVars, progress, fetched, pending>>

(* The Cancel button of the message box.                                   *)
Cancel ==
  /\ Cancelling /\ GuiStep("idle", "close") /\ ~NoTask
  /\ keepGo' = FALSE
  /\ UNCHANGED <<taskVars, progress, fetched, pending>>

(* wrc_task_management(false): terminate the worker, wait for its end,     *)
(* fetch the last of its report and delete it.                             *)
Terminate ==
  /\ GuiStep("close", "wait")
  /\ pending' = Alive
  /\ UNCHANGED <<taskVars, progress, keepGo, fetched>>

Wait ==
  /\ GuiStep("wait", "fetch") /\ ~Alive
  /\ fetched' = "delete"
  /\ UNCHANGED <<taskVars, progress, keepGo, pending>>

(* The task is deleted; in a loop the next one is made and started.        *)
Delete ==
  /\ GuiStep("delete", IF keepGo THEN "restart" ELSE "idle")
  /\ worker' = "none"
  /\ pending' = FALSE
  /\ UNCHANGED <<configVars, resultVars, nlba, todo, ret, bufferVars, io, locked,
                 after, enabled, skip, progress, keepGo, fetched>>

(* wrc_task_management(true): a new task is constructed and started.  The  *)
(* input fields are disabled during a test, so a repetition is the same.   *)
Start ==
  /\ gui \in {"idle", "restart"}
  /\ \E c \in (IF gui = "restart" THEN {asked} ELSE Configs) : Construct(c)
  /\ gui' = "idle"
  /\ UNCHANGED <<progress, keepGo, fetched, pending>>

Gui == Fetch \/ Tick \/ NotYet \/ Over \/ Terminate \/ Wait \/ Delete \/ (gui = "restart" /\ Start)
DialogNext == Work \/ Terminated \/ Gui \/ Cancel \/ (gui = "idle" /\ Start)

(* Every thread runs, commands finish, a terminated thread ends, and the   *)
(* timer keeps firing while there is a task.  The lock is polled: the GUI  *)
(* holds it for a moment every 300 ms, so the worker gets it in the end.   *)
DialogFairness ==
  /\ SF_allVars(Work)
  /\ SF_allVars(Terminated)
  /\ WF_allVars(Gui)

DialogSpec == DialogInit /\ [][DialogNext]_allVars /\ DialogFairness
-----------------------------------------------------------------------------
DialogTypeOK ==
  /\ TaskTypeOK
  /\ gui \in {"idle", "fetch", "fetchLock", "fetchLog", "decide", "close", "wait",
              "delete", "restart"}
  /\ progress \in 0..100
  /\ keepGo \in BOOLEAN
  /\ fetched \in {"idle", "decide", "delete"}
  /\ pending \in BOOLEAN

(* Property: no command outlives its task.  The threads of a step use the  *)
(* buffers and the device of the task; setTerminationEnabled() around a    *)
(* step, and waiting before the deletion, keep them from being orphaned.   *)
NoCommandOutlivesTask == ~Alive => io = <<>>

(* Property: when a w1r1c1 test is repeated and has not failed, the round  *)
(* before has tested all its blocks, although the dialog decides from a    *)
(* progress it read without a lock and some time ago.                      *)
RestartMeansTested ==
  gui = "restart" /\ asked.tt = "w1r1c1" /\ ~skip /\ ~testFail =>
    \A l \in AskedBlocks : disk[l] = "test"

(* The dialog waits for the lock of the report channel, which a worker     *)
(* that was killed has taken with it.                                      *)
WaitsForKilled == gui = "fetch" /\ worker = "killed" /\ locked

(* Expected by the guard against a second start: "previous wrc task not    *)
(* completion, please wait!!" -- waiting helps, above all after a cancel.  *)
WaitingHelps == (gui = "close") ~> NoTask

(* Expected by the loop of timerEvent(), which restarts a test only        *)
(* if(!wrc->fail).                                                         *)
OnlyPassedRestarted == gui = "restart" => ~testFail
=============================================================================
