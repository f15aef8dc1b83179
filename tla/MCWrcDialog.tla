----------------------------- MODULE MCWrcDialog ----------------------------
(* Under the dialog: tests of three blocks in two steps, by one thread or  *)
(* by two.  By itself, with gui = "none": more tests, on a device that may *)
(* also lose and spoil data.                                               *)
EXTENDS WrcDialog

Config(s, e, n, t, tt) ==
  [slba |-> s, elba |-> e, nblocksPerStep |-> n, nthreads |-> t, tt |-> tt]

W1r1c1   == {Config(1, 3, 1, 0, "w1r1c1")}
AllTests == {Config(1, 3, 1, 1, "w1r1c1"), Config(1, 3, 1, 1, "march"),
             Config(0, 2, 0, 0, "sweepNLB")}

(* Ranges inside, at the end of and beyond a device of five blocks,        *)
(* inverted ranges, steps longer and shorter than the range and longer     *)
(* than nlba can hold, teams smaller and larger than a step, and sweeps    *)
(* with and without a length to test.                                      *)
TaskTests ==
  {Config(r[1], r[2], n, t, tt) :
     r \in {<<1, 3>>, <<0, 4>>, <<3, 5>>, <<3, 2>>, <<3, 1>>},
     n \in {2, 5}, t \in {0, 1, 3}, tt \in {"w1r1c1", "march"}}
  \cup {Config(s, e, 0, 0, "sweepNLB") : s \in 0..3, e \in {2, 3, 6}}

Task == INSTANCE WrcTask WITH
  Configs <- TaskTests, NlbWord <- 4, Faults <- {"io", "data"}

Alone == gui = "none"

MCInit ==
  \/ DialogInit
  \/ /\ Task!TaskInit
     /\ Alone /\ progress = 0 /\ keepGo = FALSE /\ fetched = "idle" /\ pending = FALSE

AloneNext == Alone /\ Task!TaskNext /\ UNCHANGED guiVars
MCNext == AloneNext \/ (~Alone /\ DialogNext)

MCFairness ==
  /\ WF_allVars(AloneNext)
  /\ SF_allVars(~Alone /\ Work)
  /\ SF_allVars(Terminated)
  /\ WF_allVars(Gui)

MCSpec == MCInit /\ [][MCNext]_allVars /\ MCFairness

(* Liveness: by itself, on a device that fails as it likes, the worker     *)
(* ends (NVMeTask::run()).                                                 *)
WorkerEnds == <>(Alone => worker = "finished")

(* Liveness: under the dialog every test comes to its end and is deleted,  *)
(* so that the next can be started -- unless its worker was killed while   *)
(* it held the lock of the report channel, for which the dialog then waits *)
(* (FormApp::timerEvent() and wrc_task_management()).                      *)
TestsEnd == []<>(Alone \/ NoTask \/ WaitsForKilled)
=============================================================================
