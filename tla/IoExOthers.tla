----------------------------- MODULE IoExOthers -----------------------------
(***************************************************************************)
(* The other task classes on one range: a sequential fill, a compare of    *)
(* whatever is on the disk, and a dummy read.  part is the class of the    *)
(* task that runs.                                                         *)
(***************************************************************************)
EXTENDS Integers

CONSTANTS
  Slba, Nlb, QDepth, NlbPerBuf,         \* as in IoExEngine
  FillFaults, CompareFaults, ReadFaults, \* what may go wrong in each class
  OldDisk, AnyDisk, GoodDisk             \* what may be on the disk for each class

VARIABLES part, plan, cursor, aio, buffer, disk, pc, idx, stop, update, statusCode, failLBA, progress

vars == <<plan, cursor, aio, buffer, disk, pc, idx, stop, update, statusCode, failLBA, progress>>

Blocks == Slba .. (Slba + Nlb - 1)

Contents == [hdr : Int, body : Int]
ASSUME OthersAssumption ==
  /\ Slba \in Nat /\ Nlb \in Nat /\ QDepth \in Nat \ {0} /\ NlbPerBuf \in Nat \ {0}
  /\ FillFaults \subseteq {"io", "short", "submit", "ctor"}
  /\ ReadFaults \subseteq {"io", "short", "submit", "ctor"}
  /\ CompareFaults \subseteq {"io", "ctor"}   \* no request is lost
  /\ \A d \in OldDisk \union AnyDisk \union GoodDisk :
       Blocks \subseteq DOMAIN d /\ d \in [DOMAIN d -> Contents]

Seq == INSTANCE IoExEngine WITH
  Kind <- "fill", Sequential <- TRUE, Uniform <- FALSE, Stamp <- TRUE,
  Faults <- FillFaults, DiskContents <- OldDisk

Compare == INSTANCE IoExEngine WITH
  Kind <- "compare", Sequential <- FALSE, Uniform <- FALSE, Stamp <- TRUE,
  Faults <- CompareFaults, DiskContents <- AnyDisk

DummyRead == INSTANCE IoExEngine WITH
  Kind <- "read", Sequential <- FALSE, Uniform <- FALSE, Stamp <- TRUE,
  Faults <- ReadFaults, DiskContents <- GoodDisk

OthersInit ==
  \/ part = "seq" /\ Seq!Init
  \/ part = "compare" /\ Compare!Init
  \/ part = "read" /\ DummyRead!Init

OthersNext ==
  \/ part = "seq" /\ Seq!Next /\ UNCHANGED part
  \/ part = "compare" /\ Compare!Next /\ UNCHANGED part
  \/ part = "read" /\ DummyRead!Next /\ UNCHANGED part

Engine ==
  /\ UNCHANGED part
  /\ CASE part = "seq" -> Seq!Engine [] part = "compare" -> Compare!Engine [] OTHER -> DummyRead!Engine

Request(i) ==
  /\ UNCHANGED part
  /\ CASE part = "seq" -> Seq!Request(i) [] part = "compare" -> Compare!Request(i)
       [] OTHER -> DummyRead!Request(i)

OthersSteps == OthersInit /\ [][OthersNext]_<<part, vars>>

(* The fairness of IoExEngine.  Every class has the same number of plans.  *)
OthersSpec ==
  /\ OthersSteps
  /\ WF_<<part, vars>>(Engine) /\ \A i \in Seq!Plans : WF_<<part, vars>>(Request(i))

-----------------------------------------------------------------------------
(* The properties of the engine, for the class that runs; see there.       *)
CancelSeesAssignedHandlers == part = "seq" => Seq!CancelSeesAssignedHandlers
VerdictSound == part = "compare" => Compare!VerdictSound
Terminates == Seq!Terminates

(* What has been done with the blocks does not depend on the class, but    *)
(* for the cursor of a sequential one.                                     *)
Job == INSTANCE RangeJob WITH
  todo <- IF part = "seq" THEN Seq!Todo ELSE Compare!Todo,
  flying <- IF part = "seq" THEN Seq!InFlight ELSE Compare!InFlight,
  done <- IF part = "seq" THEN Seq!Done ELSE Compare!Done,
  outcome <- Seq!Outcome

EveryClassImplementsRangeJob == Job!Spec
=============================================================================
