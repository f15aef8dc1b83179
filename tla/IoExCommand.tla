---------------------------- MODULE IoExCommand -----------------------------
(***************************************************************************)
(* One -ioex command of nvme_ctrl_rw with a debug dump asked for (-dd):    *)
(* issue() of IoExFill, IoExCompare or IoExDummyRead makes a task, lets    *)
(* _task_routine() run it (module IoExEngine), deletes it, and             *)
(* FunIoEx::exec saves the 16 bytes of the debug dump.                     *)
(***************************************************************************)
EXTENDS IoExEngine

VARIABLES
  step,         \* "routine", "delete", "dump" or "exit"
  lastFailLba,  \* IoExCmd::_lastFailLba
  dump          \* the dump file: failing block, status code, reserved

commandVars == <<step, lastFailLba, dump>>

AllOnes == -1   \* 0xff in every byte of a field

(* The status codes as the 32 bit words that are written and returned.     *)
StatusWord(s) == CASE s = "ok"    -> 0
                   [] s = "ctor"  -> AllOnes          \* _statusCode = -1
                   [] s = "io"    -> -5               \* a negated errno
                   [] s = "data"  -> 65536 + 4        \* DATA_MIS_COMPARE
                   [] s = "stamp" -> 65536 + 5        \* TIME_STAMP_MIS_MATCH

NoDump == [lba |-> 0, sc |-> 0, rsvd |-> 0]

CommandInit ==
  /\ Init
  /\ step = "routine"
  /\ lastFailLba = AllOnes
  /\ dump = NoDump

(* Mutated form of TaskReturned: the failing block not fetched.            *)
TaskReturnedSilently ==
  /\ step = "routine"
  /\ pc = "returned"
  /\ step' = "delete"
  /\ UNCHANGED <<vars, lastFailLba, dump>>

(* The end of _task_routine(): the failing block is fetched from the task  *)
(* if, and only if, the status is not success.                             *)
TaskReturned ==
  /\ step = "routine"
  /\ pc = "returned"
  /\ lastFailLba' = IF statusCode # "ok" THEN failLBA ELSE lastFailLba
  /\ step' = "delete"
  /\ UNCHANGED <<vars, dump>>

(* "delete task" frees the buffers and control blocks of all plans, while  *)
(* requests that cancel() could not take back may still be in flight.      *)
DeleteTask ==
  /\ step = "delete"
  /\ step' = "dump"
  /\ UNCHANGED <<vars, lastFailLba, dump>>

SaveDump ==
  /\ step = "dump"
  /\ dump' = [lba |-> lastFailLba, sc |-> StatusWord(statusCode), rsvd |-> AllOnes]
  /\ step' = "exit"
  /\ UNCHANGED <<vars, lastFailLba>>

TaskDeleted == step \in {"dump", "exit"}

(* A request that outlives its task moves its blocks from or to memory     *)
(* that has been freed: each block of a write may become anything.         *)
Garbage == [hdr |-> -3, body |-> -3]
LateRequest(i) ==
  /\ TaskDeleted
  /\ aio[i] = "busy"
  /\ aio' = [aio EXCEPT ![i] = "ok"]
  /\ disk' \in IF Kind = "fill"
               THEN {[l \in DOMAIN disk |-> IF l \in spoilt THEN Garbage ELSE disk[l]] :
                       spoilt \in SUBSET Slice(plan[i])}
               ELSE {disk}
  /\ UNCHANGED <<plan, cursor, buffer, pc, idx, stop, update, resultVars, progress, commandVars>>

CommandNext ==
  \/ ~TaskDeleted /\ Next /\ UNCHANGED commandVars
  \/ TaskReturned
  \/ DeleteTask
  \/ SaveDump
  \/ \E i \in Plans : LateRequest(i)

CommandSpec == CommandInit /\ [][CommandNext]_<<vars, commandVars>>
-----------------------------------------------------------------------------
(* Property: when a request of the task failed, or its data did not        *)
(* compare, the dump names a block that was being worked on, with a status *)
(* that no successful command has.                                         *)
DumpNamesFailedBlock ==
  step = "exit" /\ statusCode \in {"io", "stamp", "data"} =>
    /\ dump.lba \in InFlight
    /\ dump.sc \notin {0, AllOnes}

(* Property: the blocks a fill had finished with survive what the requests *)
(* it leaves behind may still do.                                          *)
FinishedBlocksSurvive == DoneIsWritten

(* Expected of a fill by its help text: it writes every block of the range *)
(* it was given when it reports success.                                   *)
FillReachesDisk ==
  Kind = "fill" /\ step = "exit" /\ dump.sc = 0 => \A l \in Extent : disk[l] = Expected(l)

=============================================================================
