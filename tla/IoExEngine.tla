----------------------------- MODULE IoExEngine -----------------------------
(***************************************************************************)
(* The I/O extension engine of the library: DiskIoEx::routine, and         *)
(* NVMeIoEx::_run with the virtual functions the task classes override.    *)
(* One task runs over the blocks slba .. slba+nlb-1 of a disk.  It keeps   *)
(* one asynchronous request per plan in flight, polls the plans in turn,   *)
(* gives a plan whose request has finished its next slice, and stops at    *)
(* the first error or when no plan has anything left.                      *)
(*                                                                         *)
(* The constants select the task class:                                    *)
(*   Kind        "fill" (NVMeTaskFill..., NVMeSeqFill...), "compare"       *)
(*               (...ReadCompare...) or "read" (...DummyRead)              *)
(*   Sequential  TRUE for the NVMeIoExSeq family, in which the plans take  *)
(*               their slices from one shared cursor                       *)
(*   Uniform     TRUE for the const pattern, which is the same in every    *)
(*               block; the lba, inc and dec patterns depend on the block  *)
(*   Stamp       TRUE if a time stamp was given (__timeStampConsle # 0)    *)
(*                                                                         *)
(* The engine runs in one thread.  The AIO service and the disk under it   *)
(* run concurrently: a submitted request finishes at any later time, in    *)
(* any order, and Faults says how it may go wrong.                         *)
(***************************************************************************)
EXTENDS IoPlanMath, FiniteSets

CONSTANTS
  Slba,         \* testSlba
  Nlb,          \* totalNlb
  QDepth,       \* testQDepth
  NlbPerBuf,    \* allocBufSize / nlbByteSize
  Kind, Sequential, Uniform, Stamp,
  Faults,       \* what may go wrong below the engine:
                \*   "io"     a request fails, perhaps after moving some blocks
                \*   "short"  a request succeeds but moves fewer blocks
                \*   "submit" aio_read/aio_write refuses the request (EAGAIN)
                \*   "ctor"   the ioctls of the constructor fail
  DiskContents  \* the possible initial contents of the disk

ASSUME EngineAssumption ==
  /\ Slba \in Nat
  /\ Nlb \in Nat
  /\ QDepth \in Nat \ {0}
  /\ NlbPerBuf \in Nat \ {0}
  /\ Kind \in {"fill", "compare", "read"}
  /\ Sequential \in BOOLEAN
  /\ Uniform \in BOOLEAN
  /\ Stamp \in BOOLEAN
  /\ Faults \subseteq {"io", "short", "submit", "ctor"}

NumPlans == PlanCount(Nlb, QDepth, NlbPerBuf)
Plans    == 0..(NumPlans - 1)
Extent   == Slba .. (Slba + Nlb - 1)

(* A block is its time stamp header and the pattern in its body.           *)
Background == -1                  \* backgroundPattern, what buffers start with
Block      == [hdr : Int, body : Int]
PatternAt(l) == IF Uniform THEN 0 ELSE l
HeaderAt(l)  == IF Stamp THEN l ELSE Background
Expected(l)  == [hdr |-> HeaderAt(l), body |-> PatternAt(l)]

ASSUME DiskAssumption ==
  \A d \in DiskContents : Extent \subseteq DOMAIN d /\ d \in [DOMAIN d -> Block]

Buffer  == [0..(NlbPerBuf - 1) -> Block]
PlanRec == [slba : Nat,           \* first block of the current slice
            nlb : Nat,            \* blocks of the current slice
            rnlb : Nat,           \* blocks left, the current slice included
            starting : BOOLEAN,   \* __starting: the plan was given a slice
            ppflag : BOOLEAN]     \* __ppflag

VARIABLES
  plan,         \* the plans of planList
  cursor,       \* __currentLBA and __remainedNlb of NVMeIoExSeq
  aio,          \* state of each plan's current AsyncRWHandler
  buffer,       \* __buffer[0] and __buffer[1] of each plan
  disk,         \* contents of the disk, block by block
  pc,           \* where routine() is
  idx,          \* loop variable of _run(), or of cancel()
  stop, update, \* locals of _run()
  statusCode,   \* _statusCode, by origin
  failLBA,      \* __failLBA, never initialised by the constructor
  progress      \* _progress, in percent

vars == <<plan, cursor, aio, buffer, disk, pc, idx, stop, update, statusCode,
          failLBA, progress>>
requestVars == <<aio, buffer, disk>>
resultVars  == <<statusCode, failLBA>>

(* Request states: "none" is the zeroed control block of a new handler,    *)
(* which aio_error() reports as finished without error.                    *)
RequestState == {"none", "busy", "ok", "failed", "canceled"}
StatusCode   == {"ok", "ctor", "io", "stamp", "data"}
-----------------------------------------------------------------------------
(* Buffers.  Only the legacy fills and dummy reads own two; the others get *)
(* the same memory for both.                                               *)

(* Mutated form of PreMemory: the pre-fill writes the buffer in flight.    *)
PreMemoryInFlight(p) == IF p.ppflag \/ Sequential THEN 0 ELSE 1

PingPong == ~Sequential /\ Kind # "compare"
Memory(p)    == IF PingPong /\ ~p.ppflag THEN 1 ELSE 0
PreMemory(p) == IF PingPong /\ p.ppflag THEN 1 ELSE 0

Slice(p) == p.slba .. (p.slba + p.nlb - 1)

(* Write the pattern of the n blocks from s on into the bodies.            *)
FillPattern(b, s, n) ==
  [k \in 0..(NlbPerBuf - 1) |->
     IF k < n THEN [hdr |-> b[k].hdr, body |-> PatternAt(s + k)] ELSE b[k]]

(* Write the headers of the n blocks from s on, if there is a time stamp.  *)
StampHeaders(b, s, n) ==
  [k \in 0..(NlbPerBuf - 1) |->
     IF Stamp /\ k < n THEN [hdr |-> s + k, body |-> b[k].body] ELSE b[k]]

(* Mutated forms of AdvanceCursor: advanced by the wrong amount.           *)
AdvanceCursorToEnd(next) == [lba |-> cursor.lba + cursor.rnlb, rnlb |-> 0]
AdvanceCursorTwice(next) ==
  [lba |-> cursor.lba + next.nlb, rnlb |-> cursor.rnlb - LesserOf(cursor.rnlb, 2 * next.nlb)]

(* next_plan() of NVMeIoEx: the plan advances inside its own part of the   *)
(* range.  nlb = 0 in the result says that nothing is left.                *)
NextOwnSlice(p) ==
  LET left == p.rnlb - p.nlb
      more == left # 0
  IN [p EXCEPT !.slba = @ + p.nlb,
               !.rnlb = left,
               !.nlb = LesserOf(left, NlbPerBuf),
               !.ppflag = IF more THEN ~@ ELSE @,
               !.starting = @ \/ more]

(* next_plan() of NVMeIoExSeq: the plan takes the next blocks of the range. *)
NextSharedSlice(p) ==
  LET more == cursor.rnlb # 0
  IN [p EXCEPT !.slba = cursor.lba,
               !.nlb = LesserOf(cursor.rnlb, NlbPerBuf),
               !.ppflag = IF more THEN ~@ ELSE @,
               !.starting = @ \/ more]

AdvanceCursor(next) ==
  [lba |-> cursor.lba + next.nlb, rnlb |-> cursor.rnlb - next.nlb]

NextSlice(p) == IF Sequential THEN NextSharedSlice(p) ELSE NextOwnSlice(p)

(* new_plan_before_issue() and the time stamping of _run().  A legacy fill *)
(* writes the pattern only into a plan's first slice; the following ones   *)
(* were written ahead by pre_fill_after_issue().                           *)
PreparedForIssue(p, b) ==
  LET fillNow == Sequential \/ ~p.starting
      q       == NextSlice(p)
      filled  == IF fillNow THEN FillPattern(b, q.slba, q.nlb) ELSE b
  IN IF Kind = "fill" THEN StampHeaders(filled, q.slba, q.nlb) ELSE b
-----------------------------------------------------------------------------
(* good_status_after_plan_completion(): "read" and "fill" accept, a        *)
(* compare checks all headers first, then the bodies.                      *)
ReadBack(i) == buffer[i][Memory(plan[i])]
HeaderErrors(i) == {k \in 0..(plan[i].nlb - 1) :
                      ReadBack(i)[k].hdr # HeaderAt(plan[i].slba + k)}
BodyErrors(i)   == {k \in 0..(plan[i].nlb - 1) :
                      ReadBack(i)[k].body # PatternAt(plan[i].slba + k)}
FirstOf(S) == CHOOSE k \in S : \A m \in S : k <= m

Compares(i) == Kind = "compare" /\ plan[i].nlb # 0

(* Mutated forms of Finished and CompletionStatus: an unfinished request   *)
(* taken for a finished one, headers not compared.                         *)
AlwaysFinished(i) == TRUE
StatusWithoutHeaders(i) ==
  IF plan[i].starting /\ aio[i] \in {"failed", "canceled"} THEN "io"
  ELSE IF plan[i].starting /\ Compares(i) /\ BodyErrors(i) # {} THEN "data"
  ELSE "ok"
(* check_plan_completion(): a plan that was never activated counts as      *)
(* finished, and so does a request in any state but "busy".                *)
Finished(i) == plan[i].starting => aio[i] # "busy"

CompletionStatus(i) ==
  IF ~plan[i].starting                           THEN "ok"
  ELSE IF aio[i] \in {"failed", "canceled"}      THEN "io"
  ELSE IF Compares(i) /\ HeaderErrors(i) # {}    THEN "stamp"
  ELSE IF Compares(i) /\ BodyErrors(i) # {}      THEN "data"
  ELSE "ok"

ErrOffset(i) ==
  IF CompletionStatus(i) = "stamp"     THEN FirstOf(HeaderErrors(i))
  ELSE IF CompletionStatus(i) = "data" THEN FirstOf(BodyErrors(i))
  ELSE 0
-----------------------------------------------------------------------------
NewPlan(first, blocks) ==
  [slba |-> first, nlb |-> 0, rnlb |-> blocks, starting |-> FALSE, ppflag |-> FALSE]
NoPlan == NewPlan(0, 0)

(* The constructor: a failing ioctl leaves statusCode set.  failLBA holds  *)
(* whatever was in memory.                                                 *)
Init ==
  /\ plan = [i \in Plans |-> NoPlan]
  /\ cursor = [lba |-> Slba, rnlb |-> Nlb]
  /\ aio = [i \in Plans |-> "none"]
  /\ buffer = [i \in Plans |-> [s \in 0..1 |->
                [k \in 0..(NlbPerBuf - 1) |-> [hdr |-> Background, body |-> Background]]]]
  /\ disk \in DiskContents
  /\ pc = "start"
  /\ idx = 0
  /\ stop = TRUE
  /\ update = FALSE
  /\ statusCode \in {"ok"} \cup (Faults \cap {"ctor"})
  /\ failLBA \in {0, Slba + Nlb}
  /\ progress = 0

(* routine(): issue() makes the plans, unless the constructor failed.      *)
Routine ==
  /\ pc = "start"
  /\ IF statusCode = "ok"
     THEN /\ plan' = [i \in Plans |->
                       NewPlan(Slba + PlanBegin(i, Nlb, QDepth, NlbPerBuf),
                               PlanLength(i, Nlb, QDepth, NlbPerBuf))]
          /\ pc' = "scan"
     ELSE /\ pc' = "returned"
          /\ UNCHANGED plan
  /\ UNCHANGED <<cursor, requestVars, idx, stop, update, resultVars, progress>>

Scanning == pc = "scan" /\ idx < NumPlans

(* Mutated form of StillRunning: a running request does not keep _run()    *)
(* going.                                                                  *)
StillRunningForgotten ==
  /\ Scanning
  /\ ~Finished(idx)
  /\ idx' = idx + 1
  /\ UNCHANGED <<plan, cursor, requestVars, pc, stop, update, resultVars, progress>>

(* The request of plan idx is still running.                               *)
StillRunning ==
  /\ Scanning
  /\ ~Finished(idx)
  /\ stop' = FALSE
  /\ idx' = idx + 1
  /\ UNCHANGED <<plan, cursor, requestVars, pc, update, resultVars, progress>>

(* Plan idx has finished a slice and there is another: prepare the memory  *)
(* and submit.  The result of io_write()/io_read() is not looked at, so a  *)
(* refused request leaves the new handler as it was made.                  *)
IssueNext ==
  /\ Scanning
  /\ Finished(idx)
  /\ CompletionStatus(idx) = "ok"
  /\ LET next == NextSlice(plan[idx]) IN
     /\ next.nlb # 0
     /\ plan' = [plan EXCEPT ![idx] = next]
     /\ cursor' = IF Sequential THEN AdvanceCursor(next) ELSE cursor
     /\ buffer' = [buffer EXCEPT ![idx][Memory(next)] = PreparedForIssue(plan[idx], @)]
  /\ \/ aio' = [aio EXCEPT ![idx] = "busy"]
     \/ "submit" \in Faults /\ aio' = [aio EXCEPT ![idx] = "none"]
  /\ stop' = FALSE
  /\ update' = TRUE
  /\ IF Kind = "fill" /\ ~Sequential
     THEN pc' = "prefill" /\ idx' = idx
     ELSE pc' = pc /\ idx' = idx + 1
  /\ UNCHANGED <<disk, resultVars, progress>>

(* pre_fill_after_issue() of the legacy fills: while the slice is being    *)
(* written, put the pattern of the one to follow into the other buffer.    *)
PreFill ==
  /\ pc = "prefill"
  /\ LET p    == plan[idx]
         left == p.rnlb - p.nlb
     IN buffer' = IF left = 0 THEN buffer
                  ELSE [buffer EXCEPT ![idx][PreMemory(p)] =
                          FillPattern(@, p.slba + p.nlb, LesserOf(left, NlbPerBuf))]
  /\ pc' = "scan"
  /\ idx' = idx + 1
  /\ UNCHANGED <<plan, cursor, aio, disk, stop, update, resultVars, progress>>

(* Plan idx has finished and nothing is left for it.                       *)
PlanExhausted ==
  /\ Scanning
  /\ Finished(idx)
  /\ CompletionStatus(idx) = "ok"
  /\ NextSlice(plan[idx]).nlb = 0
  /\ plan' = [plan EXCEPT ![idx] = NextSlice(@)]
  /\ idx' = idx + 1
  /\ UNCHANGED <<cursor, requestVars, pc, stop, update, resultVars, progress>>

(* The request failed or the data did not compare: note where, and turn to *)
(* cancel() with all plans.                                                *)
PlanFailed ==
  /\ Scanning
  /\ Finished(idx)
  /\ CompletionStatus(idx) # "ok"
  /\ failLBA' = plan[idx].slba + ErrOffset(idx)
  /\ statusCode' = CompletionStatus(idx)
  /\ stop' = TRUE
  /\ pc' = "cancel"
  /\ idx' = 0
  /\ UNCHANGED <<plan, cursor, requestVars, update, progress>>

(* One turn of cancel(): aio_cancel() takes a request back or comes too    *)
(* late; which of them is not looked at and nothing is waited for.         *)
CancelPlan ==
  /\ pc = "cancel"
  /\ idx < NumPlans
  /\ \/ UNCHANGED aio
     \/ aio[idx] = "busy" /\ aio' = [aio EXCEPT ![idx] = "canceled"]
  /\ idx' = idx + 1
  /\ UNCHANGED <<plan, cursor, buffer, disk, pc, stop, update, resultVars, progress>>

(* caculate_progress(): blocks no longer remaining, in percent.  A slice   *)
(* in flight still counts as remaining for its plan, but no longer for the *)
(* shared cursor.                                                          *)
RemainingBlocks ==
  LET upTo[n \in 0..NumPlans] == IF n = 0 THEN 0 ELSE upTo[n - 1] + plan[n - 1].rnlb
  IN IF Sequential THEN cursor.rnlb ELSE upTo[NumPlans]

(* Mutated form of EndPass: stop kept from the pass before.                *)
EndPassKeepingStop ==
  /\ pc \in {"scan", "cancel"}
  /\ idx = NumPlans
  /\ progress' = progress
  /\ IF stop
     THEN pc' = "returned" /\ UNCHANGED <<idx, update>>
     ELSE pc' = "scan" /\ idx' = 0 /\ update' = FALSE
  /\ UNCHANGED <<plan, cursor, requestVars, stop, resultVars>>

(* The end of _run(), after the loop or after its break, and of the while  *)
(* loop of routine().                                                      *)
EndPass ==
  /\ pc \in {"scan", "cancel"}
  /\ idx = NumPlans
  /\ progress' = IF update THEN ((Nlb - RemainingBlocks) * 100) \div Nlb ELSE progress
  /\ IF stop
     THEN /\ pc' = "returned"
          /\ UNCHANGED <<idx, stop, update>>
     ELSE /\ pc' = "scan"
          /\ idx' = 0
          /\ stop' = TRUE
          /\ update' = FALSE
  /\ UNCHANGED <<plan, cursor, requestVars, resultVars>>

Engine == \/ Routine \/ StillRunning \/ IssueNext \/ PreFill \/ PlanExhausted
          \/ PlanFailed \/ CancelPlan \/ EndPass
-----------------------------------------------------------------------------
(* The AIO service (external).  The first n blocks of the slice of plan i  *)
(* are moved between its buffer and the disk.                              *)
MoveBlocks(i, n) ==
  LET p == plan[i]
      m == Memory(p)
  IN IF Kind = "fill"
     THEN /\ disk' = [l \in DOMAIN disk |->
                       IF l \in p.slba .. (p.slba + n - 1)
                       THEN buffer[i][m][l - p.slba] ELSE disk[l]]
          /\ UNCHANGED buffer
     ELSE /\ buffer' = [buffer EXCEPT ![i][m] =
                         [k \in 0..(NlbPerBuf - 1) |-> IF k < n THEN disk[p.slba + k] ELSE @[k]]]
          /\ UNCHANGED disk

Finish(i, n, result) ==
  /\ aio[i] = "busy"
  /\ MoveBlocks(i, n)
  /\ aio' = [aio EXCEPT ![i] = result]
  /\ UNCHANGED <<plan, cursor, pc, idx, stop, update, resultVars, progress>>

Complete(i) == Finish(i, plan[i].nlb, "ok")

CompleteShort(i) ==
  /\ "short" \in Faults
  /\ \E n \in 0..(plan[i].nlb - 1) : Finish(i, n, "ok")

CompleteWithError(i) ==
  /\ "io" \in Faults
  /\ \E n \in 0..(plan[i].nlb - 1) : Finish(i, n, "failed")

Request(i) == Complete(i) \/ CompleteShort(i) \/ CompleteWithError(i)

Next == Engine \/ \E i \in Plans : Request(i)

Spec == Init /\ [][Next]_vars

(* The thread that called routine() keeps running, and the kernel finishes *)
(* every request sooner or later.                                          *)
Fairness == WF_vars(Engine) /\ \A i \in Plans : WF_vars(Request(i))
FairSpec == Spec /\ Fairness
-----------------------------------------------------------------------------
TypeOK ==
  /\ plan \in [Plans -> PlanRec]
  /\ cursor \in [lba : Nat, rnlb : Nat]
  /\ aio \in [Plans -> RequestState]
  /\ buffer \in [Plans -> [0..1 -> Buffer]]
  /\ Extent \subseteq DOMAIN disk /\ disk \in [DOMAIN disk -> Block]
  /\ pc \in {"start", "scan", "prefill", "cancel", "returned"}
  /\ idx \in 0..NumPlans
  /\ stop \in BOOLEAN
  /\ update \in BOOLEAN
  /\ statusCode \in StatusCode
  /\ failLBA \in Nat
  /\ progress \in 0..100
-----------------------------------------------------------------------------
Scheduled == pc # "start" /\ statusCode # "ctor"

(* Blocks no plan has taken up yet, blocks of the slices the plans are     *)
(* working on, and blocks the engine has finished with.                    *)
Todo ==
  IF Sequential THEN cursor.lba .. (cursor.lba + cursor.rnlb - 1)
  ELSE IF ~Scheduled THEN Extent
  ELSE UNION {(plan[i].slba + plan[i].nlb) .. (plan[i].slba + plan[i].rnlb - 1) : i \in Plans}
InFlight == UNION {Slice(plan[i]) : i \in Plans}
Done == Extent \ (Todo \cup InFlight)

(* Property: the slices the plans work on never overlap, lie inside the    *)
(* range of the task, and are no longer waiting to be taken up.  With a    *)
(* wrong split, cursor or slice advance two requests would be in flight    *)
(* for one block, and which of them wins would depend on the disk.         *)
SlicesDisjoint ==
  /\ \A i, j \in Plans : i # j => Slice(plan[i]) \cap Slice(plan[j]) = {}
  /\ InFlight \cap Todo = {}
  /\ InFlight \cup Todo \subseteq Extent

(* Property: as long as a write is in flight, its buffer holds exactly the *)
(* pattern and headers of the blocks being written.  This is what the      *)
(* ping-pong buffers are for: the pre-fill runs while the request is in    *)
(* flight, must not touch the buffer in flight, and must have predicted    *)
(* the slice that next_plan() then chooses.                                *)
InFlightDataRight ==
  Kind = "fill" =>
    \A i \in Plans : aio[i] = "busy" =>
      \A k \in 0..(plan[i].nlb - 1) :
        buffer[i][Memory(plan[i])][k] = Expected(plan[i].slba + k)

(* Property: a block a fill has finished with holds the pattern on the     *)
(* disk, at any moment and even if the task fails later.                   *)
DoneIsWritten ==
  Kind = "fill" => \A l \in Done : disk[l] = Expected(l)

(* Property: a compare that returns success has seen the whole range as    *)
(* expected, and one that reports a mismatch names a block that really     *)
(* differs, in its header or in its body as the status code says.          *)
VerdictSound ==
  Kind = "compare" =>
    /\ pc = "returned" /\ statusCode = "ok" => \A l \in Extent : disk[l] = Expected(l)
    /\ statusCode = "stamp" => disk[failLBA].hdr # HeaderAt(failLBA)
    /\ statusCode = "data" => /\ disk[failLBA].body # PatternAt(failLBA)
                              /\ disk[failLBA].hdr = HeaderAt(failLBA)

(* Property: a task that returns success has left no request behind.  Its  *)
(* caller deletes it at once, with the buffers and control blocks.         *)
SuccessLeavesNothingInFlight ==
  pc = "returned" /\ statusCode = "ok" =>
    /\ \A i \in Plans : aio[i] # "busy"
    /\ Todo = {} /\ InFlight = {}

(* Property: cancel() goes over all plans, and none of their handlers is   *)
(* one whose buffer pointer was never assigned: AsyncRWHandler's           *)
(* constructor leaves it uninitialised and is_valid() reads it.            *)
CancelSeesAssignedHandlers ==
  pc = "cancel" => \A i \in Plans : plan[i].starting

(* Liveness: routine() returns, whatever the requests do.  The busy        *)
(* polling loop only ends because stop is computed afresh in every pass.   *)
Terminates == <>(pc = "returned")

(* The engine implements the abstract job.                                 *)
Outcome == IF pc # "returned" THEN "running"
           ELSE IF statusCode = "ok" THEN "success" ELSE "failure"

Job == INSTANCE RangeJob WITH
         Blocks <- Extent, todo <- Todo, flying <- InFlight, done <- Done,
         outcome <- Outcome

(* Property: refinement of RangeJob.                                       *)
ImplementsRangeJob == Job!Spec
=============================================================================
